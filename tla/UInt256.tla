------------------------------- MODULE UInt256 -------------------------------
(***************************************************************************)
(* UINT128_t and UINT256_t: a number of twice the width is a pair of       *)
(* numbers, and every operator is built from those of the half.  The       *)
(* division of each width is a loop, one iteration a step.                 *)
(*                                                                         *)
(* The sums of half words inside a product are not reduced: seven of them  *)
(* never reach the end of a word of 64 bits.                               *)
(***************************************************************************)
EXTENDS Integers, Sequences, FiniteSets, SequencesExt

CONSTANTS WordBits,      \* bits of a uint64_t (64)
          WordBytes      \* bytes of a uint64_t (8)

ASSUME WordAssumption ==
  /\ WordBits \in Nat \ {0} /\ WordBytes \in Nat \ {0}
  /\ WordBits % 2 = 0 /\ WordBits % WordBytes = 0

VARIABLES lhs, rhs, quotient, remainder,
          x,             \* UINT128_t::divmod: the bits of lhs still to take
          copyd, adder,  \* UINT256_t::divmod
          pc             \* where the computation stands

divVars == << lhs, rhs, quotient, remainder, x, copyd, adder >>

-----------------------------------------------------------------------------
(* uint64_t *)

W == 2 ^ WordBits
Word == 0..(W - 1)

\* A power of two with a positive exponent is above one.
ASSUME WordRange == W > 1

Shl(a, n) == (a * 2 ^ n) % W
Shr(a, n) == a \div 2 ^ n

Ones(a) == {i \in 0..(WordBits - 1) : Shr(a, i) % 2 = 1}
WordOf(ones) == MapThenSumSet(LAMBDA i : 2 ^ i, ones)
And(a, b) == WordOf(Ones(a) \cap Ones(b))
Or(a, b) == WordOf(Ones(a) \cup Ones(b))
Xor(a, b) == WordOf((Ones(a) \cup Ones(b)) \ (Ones(a) \cap Ones(b)))

Carry(b) == IF b THEN 1 ELSE 0
Pair(u, l) == [up |-> u, low |-> l]

-----------------------------------------------------------------------------
(* UINT128_t *)

U128 == [up : Word, low : Word]
Int128(n) == Pair(0, n)

Bits128(a) ==
  LET Length(w) == Cardinality({i \in 0..(WordBits - 1) : Shr(w, i) # 0}) IN
  IF a.up # 0 THEN WordBits + Length(a.up) ELSE Length(a.low)

WordOfBytes(b) == FoldLeft(LAMBDA w, byte : Or(Shl(w, WordBits \div WordBytes), byte), 0, b)
OfBytes128(b) ==
  IF Len(b) <= WordBytes THEN Pair(0, WordOfBytes(b))
  ELSE LET lower_start == Len(b) - WordBytes IN
       Pair(WordOfBytes(SubSeq(b, 1, lower_start)), WordOfBytes(SubSeq(b, lower_start + 1, Len(b))))

And128(a, b) == Pair(And(a.up, b.up), And(a.low, b.low))
Or128(a, b) == Pair(Or(a.up, b.up), Or(a.low, b.low))
Xor128(a, b) == Pair(Xor(a.up, b.up), Xor(a.low, b.low))
Not128(a) == Pair(W - 1 - a.up, W - 1 - a.low)

ShiftLeft128(a, b) ==
  LET n == b.low IN
  IF b.up # 0 \/ n >= 2 * WordBits THEN Int128(0)
  ELSE CASE n = WordBits -> Pair(a.low, 0)
         [] n = 0 -> a
         [] n \in 1..(WordBits - 1) ->
              Pair((Shl(a.up, n) + Shr(a.low, WordBits - n)) % W, Shl(a.low, n))
         [] n > WordBits -> Pair(Shl(a.low, n - WordBits), 0)

ShiftRight128(a, b) ==
  LET n == b.low IN
  IF b.up # 0 \/ n >= 2 * WordBits THEN Int128(0)
  ELSE CASE n = WordBits -> Pair(0, a.up)
         [] n = 0 -> a
         [] n \in 1..(WordBits - 1) ->
              Pair(Shr(a.up, n), (Shl(a.up, WordBits - n) + Shr(a.low, n)) % W)
         [] n > WordBits -> Pair(0, Shr(a.up, n - WordBits))

Greater128(a, b) == IF a.up = b.up THEN a.low > b.low ELSE a.up > b.up
Less128(a, b) == IF a.up = b.up THEN a.low < b.low ELSE a.up < b.up
AtLeast128(a, b) == Greater128(a, b) \/ a = b
AtMost128(a, b) == Less128(a, b) \/ a = b

Plus128(a, b) ==
  LET low == (a.low + b.low) % W IN Pair((a.up + b.up + Carry(low < a.low)) % W, low)
Minus128(a, b) ==
  LET low == (a.low - b.low) % W IN Pair((a.up - b.up - Carry(low > a.low)) % W, low)

\* The overloads for a built-in integer n.
GreaterInt128(a, n) == a.up # 0 \/ a.low > n
LessInt128(a, n) == IF a.up = 0 THEN a.low < n ELSE FALSE
AndInt128(a, n) == Pair(0, And(a.low, n))
PlusInt128(a, n) ==
  LET low == (a.low + n) % W IN Pair((a.up + Carry(low < a.low)) % W, low)
MinusInt128(a, n) ==
  LET low == (a.low - n) % W IN Pair((a.up - Carry(low > a.low)) % W, low)

Times128(a, b) ==
  LET H == 2 ^ (WordBits \div 2)
      Halves(v) == << v.up \div H, v.up % H, v.low \div H, v.low % H >>
      P(row, y) == Halves(a)[4 - row] * Halves(b)[y + 1]     \* products[row][y]
      Lo(row, y) == P(row, y) % H
      Hi(row, y) == P(row, y) \div H
      fourth == Lo(0, 3)
      third  == Lo(0, 2) + Hi(0, 3) + Lo(1, 3) + (fourth \div H)
      second == Lo(0, 1) + Hi(0, 2) + Lo(1, 2) + Hi(1, 3) + Lo(2, 3) + (third \div H)
      first  == Lo(0, 0) + Hi(0, 1) + Lo(1, 1) + Hi(1, 2) + Lo(2, 2) + Hi(2, 3) + Lo(3, 3)
                + (second \div H)
  IN Pair((first % H) * H + (second % H), (third % H) * H + (fourth % H))

-----------------------------------------------------------------------------
(* UINT256_t *)

U256 == [up : U128, low : U128]
Int256(n) == Pair(Int128(0), Int128(n))
GetInt(a) == a.low.low

Bits256(a) ==
  LET Length(h) == Cardinality({i \in 0..(2 * WordBits - 1) :
                                  ShiftRight128(h, Int128(i)) # Int128(0)}) IN
  IF a.up # Int128(0) THEN 2 * WordBits + Length(a.up) ELSE Length(a.low)

OfBytes256(b) ==
  IF Len(b) <= 2 * WordBytes THEN Pair(Int128(0), OfBytes128(b))
  ELSE LET lower_start == Len(b) - 2 * WordBytes IN
       Pair(OfBytes128(SubSeq(b, 1, lower_start)), OfBytes128(SubSeq(b, lower_start + 1, Len(b))))

And256(a, b) == Pair(And128(a.up, b.up), And128(a.low, b.low))
Or256(a, b) == Pair(Or128(a.up, b.up), Or128(a.low, b.low))
Xor256(a, b) == Pair(Xor128(a.up, b.up), Xor128(a.low, b.low))
Not256(a) == Pair(Not128(a.up), Not128(a.low))

ShiftLeft256(a, b) ==
  LET n == b.low
      half == Int128(2 * WordBits) IN
  IF GreaterInt128(b.up, 0) \/ AtLeast128(n, Int128(4 * WordBits)) THEN Int256(0)
  ELSE CASE n = half -> Pair(a.low, Int128(0))
         [] n = Int128(0) -> a
         [] Less128(n, half) /\ n # Int128(0) ->
              Pair(Plus128(ShiftLeft128(a.up, n), ShiftRight128(a.low, Minus128(half, n))),
                   ShiftLeft128(a.low, n))
         [] Greater128(n, half) -> Pair(ShiftLeft128(a.low, Minus128(n, half)), Int128(0))

\* Mutant of ShiftRight256: the bits that cross to the lower half are shifted by n.
ShiftRight256Crossed(a, b) ==
  LET n == b.low
      half == Int128(2 * WordBits) IN
  IF GreaterInt128(b.up, 0) \/ AtLeast128(n, Int128(4 * WordBits)) THEN Int256(0)
  ELSE IF Less128(n, half)
       THEN Pair(ShiftRight128(a.up, n), Plus128(ShiftLeft128(a.up, n), ShiftRight128(a.low, n)))
       ELSE Pair(Int128(0), ShiftRight128(a.up, Minus128(n, half)))
ShiftRight256(a, b) ==
  LET n == b.low
      half == Int128(2 * WordBits) IN
  IF GreaterInt128(b.up, 0) \/ AtLeast128(n, Int128(4 * WordBits)) THEN Int256(0)
  ELSE CASE n = half -> Pair(Int128(0), a.up)
         [] n = Int128(0) -> a
         [] Less128(n, half) /\ n # Int128(0) ->
              Pair(ShiftRight128(a.up, n),
                   Plus128(ShiftLeft128(a.up, Minus128(half, n)), ShiftRight128(a.low, n)))
         [] Greater128(n, half) -> Pair(Int128(0), ShiftRight128(a.up, Minus128(n, half)))

Greater256(a, b) == IF a.up = b.up THEN Greater128(a.low, b.low) ELSE Greater128(a.up, b.up)
Less256(a, b) == IF a.up = b.up THEN Less128(a.low, b.low) ELSE Less128(a.up, b.up)
AtLeast256(a, b) == Greater256(a, b) \/ a = b
AtMost256(a, b) == Less256(a, b) \/ a = b

Plus256(a, b) ==
  LET low == Plus128(a.low, b.low) IN
  Pair(Plus128(Plus128(a.up, b.up), Int128(Carry(Less128(low, a.low)))), low)
Minus256(a, b) ==
  LET low == Minus128(a.low, b.low) IN
  Pair(MinusInt128(Minus128(a.up, b.up), Carry(Greater128(low, a.low))), low)

\* The overloads for a built-in integer n.
GreaterInt256(a, n) == GreaterInt128(a.up, 0) \/ Greater128(a.low, Int128(n))
LessInt256(a, n) == IF a.up = Int128(0) THEN Less128(a.low, Int128(n)) ELSE FALSE
AndInt256(a, n) == Pair(Int128(0), And128(a.low, Int128(n)))
PlusInt256(a, n) ==
  LET low == Plus128(a.low, Int128(n)) IN Pair(PlusInt128(a.up, Carry(Less128(low, a.low))), low)
MinusInt256(a, n) ==
  LET low == MinusInt128(a.low, n) IN Pair(MinusInt128(a.up, Carry(Greater128(low, a.low))), low)

Times256(a, b) ==
  LET Words(v) == << v.up.up, v.up.low, v.low.up, v.low.low >>
      P(row, c) == Times128(Int128(Words(a)[c + 1]), Int128(Words(b)[4 - row]))
      Lo(row, c) == Int128(P(row, c).low)
      Hi(row, c) == Int128(P(row, c).up)
      Sum(terms) == FoldLeft(Plus128, Int128(0), terms)
      fourth == Lo(0, 3)
      third  == Sum(<< Lo(0, 2), Hi(0, 3), Lo(1, 3) >>)
      second == Sum(<< Lo(0, 1), Hi(0, 2), Lo(1, 2), Hi(1, 3), Lo(2, 3) >>)
      first  == Sum(<< Lo(0, 0), Hi(0, 1), Lo(1, 1), Hi(1, 2), Lo(2, 2), Hi(2, 3), Lo(3, 3) >>)
      Up(v) == ShiftLeft128(v, Int128(WordBits))
  IN FoldLeft(Plus256, Pair(Up(first), Int128(0)),
              << Pair(Int128(third.up), Up(third)), Pair(second, Int128(0)), Pair(Int128(0), fourth) >>)

-----------------------------------------------------------------------------
(* UINT128_t::divmod, whose numbers are the lower halves of the variables *)

Wide(a) == Pair(Int128(0), a)

DivInit ==
  /\ lhs = Int256(0) /\ rhs = Int256(1)
  /\ quotient = Int256(0) /\ remainder = Int256(0)
  /\ x = 0 /\ copyd = Int256(0) /\ adder = Int256(0)

\* The cases that are answered without the loop.
Early(a, b) ==
  /\ quotient' = IF b = Int256(1) THEN a ELSE IF a = b THEN Int256(1) ELSE Int256(0)
  /\ remainder' = IF b = Int256(1) \/ a = b THEN Int256(0) ELSE a

Divide128(a, b) ==
  /\ b # Int128(0)
  /\ lhs' = Wide(a) /\ rhs' = Wide(b)
  /\ UNCHANGED << copyd, adder >>
  /\ IF b = Int128(1) \/ a = b \/ Less128(a, b)
     THEN Early(Wide(a), Wide(b)) /\ x' = 0 /\ pc' = "divided128"
     ELSE /\ quotient' = Int256(0) /\ remainder' = Int256(0)
          /\ x' = Bits128(a)
          /\ pc' = "loop128"

\* The next bit of lhs goes to the end of the remainder.
TakeBit(r) ==
  LET r2 == ShiftLeft128(r, Int128(1)) IN
  IF AndInt128(ShiftRight128(lhs.low, Int128(x - 1)), 1) # Int128(0) THEN PlusInt128(r2, 1) ELSE r2

Loop128 ==
  /\ pc = "loop128"
  /\ LET q == ShiftLeft128(quotient.low, Int128(1))
         r == TakeBit(remainder.low) IN
     IF Greater128(r, rhs.low) \/ r = rhs.low
     THEN remainder' = Wide(Minus128(r, rhs.low)) /\ quotient' = Wide(PlusInt128(q, 1))
     ELSE remainder' = Wide(r) /\ quotient' = Wide(q)
  /\ x' = x - 1
  /\ pc' = IF x = 1 THEN "divided128" ELSE "loop128"
  /\ UNCHANGED << lhs, rhs, copyd, adder >>

-----------------------------------------------------------------------------
(* UINT256_t::divmod and operator% *)

Divide256(a, b) ==
  /\ b # Int256(0)
  /\ lhs' = a /\ rhs' = b /\ x' = 0
  /\ IF b = Int256(1) \/ a = b \/ Less256(a, b)
     THEN Early(a, b) /\ pc' = "divided256" /\ UNCHANGED << copyd, adder >>
     ELSE LET n == Int256(Bits256(a) - Bits256(b))
              c == ShiftLeft256(b, n)
              d == ShiftLeft256(Int256(1), n)
              one == IF Greater256(c, a) THEN Int256(1) ELSE Int256(0) IN
          /\ quotient' = Int256(0) /\ remainder' = a
          /\ copyd' = ShiftRight256(c, one) /\ adder' = ShiftRight256(d, one)
          /\ pc' = "loop256"

\* Mutants of Divisible: strictly above the divisor, or anything left.
DivisibleStrictly == Greater256(remainder, rhs)
DivisibleNonZero == remainder # Int256(0)
\* The loop goes on until the remainder is below the divisor.
Divisible == Greater256(remainder, rhs) \/ remainder = rhs

Loop256 ==
  /\ pc = "loop256"
  /\ Divisible
  /\ IF Greater256(remainder, copyd) \/ remainder = copyd
     THEN /\ remainder' = Minus256(remainder, copyd)
          /\ quotient' = Or256(quotient, adder)
     ELSE UNCHANGED << remainder, quotient >>
  /\ copyd' = ShiftRight256(copyd, Int256(1))
  /\ adder' = ShiftRight256(adder, Int256(1))
  /\ UNCHANGED << lhs, rhs, x, pc >>

LoopEnds256 ==
  /\ pc = "loop256"
  /\ ~Divisible
  /\ pc' = "divided256"
  /\ UNCHANGED divVars

\* operator% does not take the remainder of divmod.
Modulo256 == Minus256(lhs, Times256(rhs, quotient))

=============================================================================
