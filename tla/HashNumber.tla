------------------------------ MODULE HashNumber ------------------------------
(***************************************************************************)
(* What the program does with hashes: a message is hashed, the digest      *)
(* becomes a number, and the number is reduced by a divisor, as            *)
(* AddrManager::GetNewBucket and GetBucketPosition do for a bucket and a   *)
(* position in it.                                                         *)
(***************************************************************************)
EXTENDS SHA256, UInt256

CONSTANTS MessageBytes,  \* the bytes of a message
          MaxMessage,    \* the length of a message
          Digests,       \* what a hash may be: sequences of bytes
          Divisors,      \* the numbers a hash is reduced by
          Narrow         \* those of the divisors of UINT128_t

VARIABLE digest          \* hash_buf

vars == << ctxVars, divVars, pc, digest >>

ASSUME HashAssumption ==
  /\ WordBits = ByteBits * WordBytes
  /\ MessageBytes \subseteq Byte /\ MaxMessage \in Nat
  /\ \A d \in Digests : d \in Seq(Byte) /\ Len(d) = 4 * WordBytes
  /\ Divisors \subseteq U256 \ {Int256(0)} /\ Narrow \subseteq U128 \ {Int128(0)}

Init == Initial /\ DivInit /\ digest = << >> /\ pc = "update"

Update ==
  /\ pc = "update"
  /\ Len(message) < MaxMessage
  /\ \E b \in MessageBytes : UpdateByte(b)
  /\ UNCHANGED << divVars, pc, digest >>

Finish ==
  /\ pc = "update"
  /\ Final
  /\ pc' = "final"
  /\ UNCHANGED << divVars, digest >>

\* The context is gone, and the hash is any of Digests.
Digest ==
  /\ pc = "final"
  /\ digest' \in Digests
  /\ data' = [i \in 1..BlockSize |-> 0] /\ datalen' = 0 /\ bitlen' = 0
  /\ message' = << >> /\ hashed' = << >>
  /\ pc' = "number"
  /\ UNCHANGED divVars

\* hash % divisor
Reduce ==
  /\ pc = "number"
  /\ \E b \in Divisors : Divide256(OfBytes256(digest), b)
  /\ digest' = << >>
  /\ UNCHANGED ctxVars

\* The same for the upper half of the hash alone.
ReduceNarrow ==
  /\ pc = "number"
  /\ \E b \in Narrow : Divide128(OfBytes128(SubSeq(digest, 1, 2 * WordBytes)), b)
  /\ digest' = << >>
  /\ UNCHANGED ctxVars

Loop == (Loop128 \/ Loop256 \/ LoopEnds256) /\ UNCHANGED << ctxVars, digest >>

\* The next hash.
Return ==
  /\ pc \in {"divided128", "divided256"}
  /\ pc' = "update"
  /\ data' \in {[i \in 1..BlockSize |-> b] : b \in Byte}
  /\ lhs' = Int256(0) /\ rhs' = Int256(1)
  /\ quotient' = Int256(0) /\ remainder' = Int256(0)
  /\ x' = 0 /\ copyd' = Int256(0) /\ adder' = Int256(0)
  /\ UNCHANGED << datalen, bitlen, message, hashed, digest >>

Next == Update \/ Finish \/ Digest \/ Reduce \/ ReduceNarrow \/ Loop \/ Return

Spec == Init /\ [][Next]_vars
\* A division that has begun is not interrupted.
FairSpec == Spec /\ WF_vars(Loop)

-----------------------------------------------------------------------------
(* Values *)

V128(a) == a.up * W + a.low
V256(a) == V128(a.up) * W * W + V128(a.low)
M128 == W * W
M256 == M128 * M128
\* The value of bytes, the first of which is the most significant.
BigEndian(b) == FoldLeft(LAMBDA v, byte : (v * 2 ^ ByteBits + byte) % M256, 0, b)
\* u * v modulo M256, without a product of two numbers of the full width.
TimesMod(u, v) == (u * (v % M128) + ((u * (v \div M128)) % M128) * M128) % M256

IsWide == pc \in {"loop256", "divided256"}
\* A division whose first iteration is still to come.
Begun ==
  /\ quotient = Int256(0)
  /\ \/ pc = "loop256" /\ remainder = lhs
     \/ pc = "loop128" /\ x = Bits128(lhs.low)

-----------------------------------------------------------------------------
(* Properties *)

\* However a message is cut into updates, and whatever a context held before,
\* what the hash is computed from is the message as the standard pads it
\* (sha256_update, sha256_final).
HashesThePaddedMessage == pc = "final" => hashed = Padded(message)

\* A number made of bytes has the value of the bytes, most significant first,
\* whatever their count; more bytes than the number holds lose their first ones
\* (the constructors from bytes).
ReadsBigEndian ==
  pc = "number" =>
    \A n \in 0..(2 * Len(digest)) :
      LET b == SubSeq(digest \o digest, 1, n) IN
      /\ V256(OfBytes256(b)) = BigEndian(b)
      /\ V128(OfBytes128(b)) = BigEndian(b) % M128

\* Sums and differences of both widths, also with a built-in integer.
Sums256(a, b) ==
  LET n == GetInt(b) IN
  /\ V256(Plus256(a, b)) = (V256(a) + V256(b)) % M256
  /\ V256(Minus256(a, b)) = (V256(a) - V256(b)) % M256
  /\ PlusInt256(a, n) = Plus256(a, Int256(n)) /\ MinusInt256(a, n) = Minus256(a, Int256(n))
Sums128(a, b) ==
  LET n == b.low IN
  /\ V128(Plus128(a, b)) = (V128(a) + V128(b)) % M128
  /\ V128(Minus128(a, b)) = (V128(a) - V128(b)) % M128
  /\ PlusInt128(a, n) = Plus128(a, Int128(n)) /\ MinusInt128(a, n) = Minus128(a, Int128(n))

\* Sums, differences and products are those of the values modulo the width, also
\* when the other operand is a built-in integer; a product of words is exact
\* (operator+, -, *).
ArithmeticAgrees ==
  /\ Begun /\ IsWide => \A a, b \in {lhs, rhs} :
       Sums256(a, b) /\ V256(Times256(a, b)) = TimesMod(V256(a), V256(b))
  /\ Begun /\ ~IsWide => \A a, b \in {lhs.low, rhs.low} :
       Sums128(a, b) /\ V128(Times128(a, b)) = (V128(a) * V128(b)) % M128

\* The comparisons of both widths, also with a built-in integer.
Order256(a, b) ==
  LET n == GetInt(b) IN
  /\ (Less256(a, b) <=> V256(a) < V256(b)) /\ (Greater256(a, b) <=> V256(a) > V256(b))
  /\ (AtMost256(a, b) <=> ~Greater256(a, b)) /\ (AtLeast256(a, b) <=> ~Less256(a, b))
  /\ (LessInt256(a, n) <=> V256(a) < n) /\ (GreaterInt256(a, n) <=> V256(a) > n)
Order128(a, b) ==
  LET n == b.low IN
  /\ (Less128(a, b) <=> V128(a) < V128(b)) /\ (Greater128(a, b) <=> V128(a) > V128(b))
  /\ (AtMost128(a, b) <=> ~Greater128(a, b)) /\ (AtLeast128(a, b) <=> ~Less128(a, b))
  /\ (LessInt128(a, n) <=> V128(a) < n) /\ (GreaterInt128(a, n) <=> V128(a) > n)

\* The comparisons are those of the values, so that a map keyed by hashes is in
\* their order (operator<, >, <=, >= and their overloads).
OrderAgrees ==
  /\ Begun /\ IsWide => \A a, b \in {lhs, rhs} : Order256(a, b)
  /\ Begun /\ ~IsWide => \A a, b \in {lhs.low, rhs.low} : Order128(a, b)

\* A shift by n multiplies or divides by 2^n, up to and past the width; bits()
\* is the length of the number; and the bitwise operators agree with the sum
\* (operator<<, >>, bits, &, |, ^, ~).
BitsAgree ==
  Begun /\ IsWide =>
    LET Amount(n) == Pair(Int128(0), Pair(n \div W, n % W))
        Left(v, n, width) == IF n >= width THEN 0 ELSE (v % 2 ^ (width - n)) * 2 ^ n
        a == lhs
        b == rhs
        v == V256(lhs) IN
    /\ \A n \in 0..(4 * WordBits + 1) :
         /\ V256(ShiftLeft256(a, Amount(n))) = Left(v, n, 4 * WordBits)
         /\ V256(ShiftRight256(a, Amount(n))) = v \div 2 ^ n
         /\ V128(ShiftLeft128(a.low, Amount(n).low)) = Left(V128(a.low), n, 2 * WordBits)
         /\ V128(ShiftRight128(a.low, Amount(n).low)) = V128(a.low) \div 2 ^ n
    /\ v < 2 ^ Bits256(a) /\ (v # 0 => v >= 2 ^ (Bits256(a) - 1))
    /\ V256(And256(a, b)) + V256(Or256(a, b)) = v + V256(b)
    /\ V256(Xor256(a, b)) = V256(Or256(a, b)) - V256(And256(a, b))
    /\ AndInt256(a, GetInt(b)) = And256(a, Int256(GetInt(b)))
    /\ V256(Not256(a)) = M256 - 1 - v

\* Every operator of both widths computes what its name says.
OperatorsAgree == ReadsBigEndian /\ ArithmeticAgrees /\ OrderAgrees /\ BitsAgree

\* In the loop over bits what was taken of lhs is a multiple of rhs and a
\* remainder below it.  In the other loop lhs is that multiple and remainder
\* throughout, copyd is rhs times adder with no bit lost, and what remains is
\* below twice copyd, so that one subtraction a round is enough (divmod).
DivisionInvariant ==
  LET q == V256(quotient)
      r == V256(remainder) IN
  /\ pc = "loop128" =>
       /\ r < V256(rhs)
       /\ TimesMod(V256(rhs), q) + r = V256(lhs) \div 2 ^ x
  /\ pc = "loop256" =>
       /\ (TimesMod(V256(rhs), q) + r) % M256 = V256(lhs) /\ r <= V256(lhs)
       /\ Divisible => /\ adder # Int256(0)
                       /\ V256(copyd) = TimesMod(V256(rhs), V256(adder))
                       /\ r < 2 * V256(copyd)

\* Quotient and remainder are those of the values; the remainder by a divisor of
\* one word is what getint returns, so that a bucket and a position are in
\* range (operator/, operator%, GetNewBucket, GetBucketPosition).
QuotientAndRemainder ==
  /\ pc \in {"divided128", "divided256"} =>
       /\ V256(quotient) = V256(lhs) \div V256(rhs)
       /\ V256(remainder) = V256(lhs) % V256(rhs)
  /\ pc = "divided256" =>
       /\ V256(Modulo256) = V256(lhs) % V256(rhs)
       /\ V256(rhs) < W => GetInt(Modulo256) = V256(lhs) % GetInt(rhs)

\* A division is right in every iteration and at its end.
DivisionCorrect == DivisionInvariant /\ QuotientAndRemainder

\* Neither loop of a division goes on for ever (divmod of both widths).
DivisionEnds == pc \in {"loop128", "loop256"} ~> pc \in {"divided128", "divided256"}
=============================================================================
