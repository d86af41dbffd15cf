----------------------------- MODULE MCHashNumber -----------------------------
(* Instances of HashNumber for TLC. *)
EXTENDS HashNumber

\* Words at the boundaries of a word and of its halves.
Edges == {0, 1, 7, 15}

WordBytesOf(w) == << w \div 4, w % 4 >>
EdgeDigests ==
  {WordBytesOf(a) \o WordBytesOf(b) \o WordBytesOf(c) \o WordBytesOf(d) :
     a \in Edges, b \in {0, 15}, c \in {0, 15}, d \in Edges}

Numbers(S) == {Pair(a, b) : a \in S, b \in S}
EdgeNarrow == Numbers(0..15) \ {Int128(0)}
EdgeDivisors ==
  (Numbers(Numbers({0, 1, 15})) \cup {Int256(n) : n \in 2..15}) \ {Int256(0)}
=============================================================================
