-------------------------------- MODULE SHA256 --------------------------------
(***************************************************************************)
(* The buffering and padding of SHA256: the bytes of any number of updates *)
(* are cut into blocks, the last of which ends in the length of the        *)
(* message.  What sha256_transform computes from the blocks is left out.   *)
(***************************************************************************)
EXTENDS Integers, Sequences, SequencesExt

CONSTANTS ByteBits,      \* bits of a byte (8)
          BlockSize,     \* bytes of a block (64)
          LengthBytes    \* bytes of the length (8)

ASSUME BlockAssumption ==
  ByteBits \in Nat \ {0} /\ LengthBytes \in Nat \ {0} /\ BlockSize \in Nat /\ BlockSize > LengthBytes

VARIABLES data, datalen, bitlen,    \* SHA256_CTX
          message,                  \* history: the bytes updated so far
          hashed                    \* history: the bytes that were transformed

ctxVars == << data, datalen, bitlen, message, hashed >>

Byte == 0..(2 ^ ByteBits - 1)
Mark == 2 ^ (ByteBits - 1)                   \* 0x80
LengthAt == BlockSize - LengthBytes              \* where the length goes (56)

\* sha256_init: a context on the stack, whose data are not initialised.
Initial ==
  /\ data \in {[i \in 1..BlockSize |-> b] : b \in Byte}
  /\ datalen = 0 /\ bitlen = 0
  /\ message = << >> /\ hashed = << >>

\* One byte of sha256_update.
UpdateByte(b) ==
  LET filled == [data EXCEPT ![datalen + 1] = b] IN
  /\ data' = filled
  /\ message' = Append(message, b)
  /\ IF datalen + 1 = BlockSize
     THEN /\ hashed' = hashed \o filled
          /\ bitlen' = bitlen + ByteBits * BlockSize
          /\ datalen' = 0
     ELSE datalen' = datalen + 1 /\ UNCHANGED << hashed, bitlen >>

Length(bits) ==
  [i \in 1..LengthBytes |-> (bits \div 2 ^ (ByteBits * (LengthBytes - i))) % 2 ^ ByteBits]

\* d with the mark at datalen and zeros from there to the end n of the padding.
Marked(d, n) ==
  [i \in 1..BlockSize |-> CASE i = datalen + 1 -> Mark
                            [] i \in (datalen + 2)..n -> 0
                            [] OTHER -> d[i]]
\* The last block: the length, after what is in the buffer or after zeros only.
LastBlock(d, bits) ==
  [i \in 1..BlockSize |-> IF i > LengthAt THEN Length(bits)[i - LengthAt] ELSE d[i]]

\* Mutant of Fits: the mark needs no room.
FitsBarely == datalen <= LengthAt
\* Does the length still fit behind the mark?
Fits == datalen < LengthAt

\* sha256_final
Final ==
  LET bits == bitlen + datalen * ByteBits
      zeros == [i \in 1..BlockSize |-> 0]
      padded == Marked(data, IF Fits THEN LengthAt ELSE BlockSize)
      last == LastBlock(IF Fits THEN padded ELSE zeros, bits) IN
  /\ hashed' = hashed \o (IF Fits THEN << >> ELSE padded) \o last
  /\ data' = last /\ bitlen' = bits
  /\ UNCHANGED << datalen, message >>

\* The message as the standard pads it.
Padded(m) ==
  LET zeros == (LengthAt - Len(m) - 1) % BlockSize IN
  m \o << Mark >> \o [i \in 1..zeros |-> 0] \o Length(ByteBits * Len(m))
=============================================================================
