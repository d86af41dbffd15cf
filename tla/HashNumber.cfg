SPECIFICATION FairSpec
CONSTANTS
  ByteBits = 2
  WordBits = 4
  WordBytes = 2
  BlockSize = 4
  LengthBytes = 2
  MessageBytes = {1, 3}
  MaxMessage = 6
  Digests <- EdgeDigests
  Divisors <- EdgeDivisors
  Narrow <- EdgeNarrow
INVARIANTS HashesThePaddedMessage OperatorsAgree DivisionCorrect
PROPERTY DivisionEnds
