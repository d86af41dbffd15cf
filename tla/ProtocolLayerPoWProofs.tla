----------------------- MODULE ProtocolLayerPoWProofs -----------------------
(***************************************************************************)
(* Theorems about ProtocolLayerPoW, for any set of nodes, any topology,    *)
(* any number of lost connections, transactions and blocks.                *)
(***************************************************************************)
EXTENDS ProtocolLayerPoW, PeerLinksProofs, SequenceTheorems, FiniteSetTheorems, TLAPS

-----------------------------------------------------------------------------
\* Trees: the operations of BlockTree, for headers of any set H whose members
\* have a natural-number index.

\* The trees over the blocks of H.
Tree(H) == [ledgermap : SUBSET Seq(H), lasthash : Seq(H), treeheight : Nat]

\* The previous block is a block, one shorter.
LEMMA PrevBlock ==
  ASSUME NEW H, NEW b \in Seq(H), b # Genesis
  PROVE  /\ Prev(b) \in Seq(H)
         /\ Len(Prev(b)) = Len(b) - 1
<1>1. Len(b) \in Nat /\ Len(b) >= 1 /\ \A i \in 1..(Len(b) - 1) : b[i] \in H
  BY EmptySeq, LenProperties DEF Genesis
<1>2. Len(b) - 1 \in Int /\ 1 \in Int BY <1>1
<1> DEFINE p == SubSeq(b, 1, Len(b) - 1)
<1>3. /\ p \in Seq(H)
      /\ Len(p) = IF 1 <= Len(b) - 1 THEN Len(b) - 1 - 1 + 1 ELSE 0
  BY <1>1, <1>2, SubSeqProperties
<1>4. Prev(b) = p BY DEF Prev
<1> HIDE DEF p
<1> QED BY <1>1, <1>3, <1>4

\* An ancestor of a block is a block of the asked height.
LEMMA AncestorBlock ==
  ASSUME NEW H, NEW b \in Seq(H), NEW k \in Int, k <= Len(b)
  PROVE  /\ Ancestor(b, k) \in Seq(H)
         /\ k >= 0 => Len(Ancestor(b, k)) = k
<1>1. Len(b) \in Nat /\ \A i \in 1..k : b[i] \in H
  BY LenProperties
<1> QED BY <1>1, SubSeqProperties DEF Ancestor

\* Ancestors of an ancestor, of the previous block, and the ends of the walk.
LEMMA AncestorWalk ==
  ASSUME NEW H, NEW b \in Seq(H), NEW j \in 0..Len(b), NEW k \in 0..j
  PROVE  /\ Ancestor(Ancestor(b, j), k) = Ancestor(b, k)
         /\ Ancestor(b, Len(b)) = b
         /\ Ancestor(b, 0) = Genesis
         /\ k + 1 <= j => /\ Ancestor(b, k + 1) # Genesis
                          /\ Prev(Ancestor(b, k + 1)) = Ancestor(b, k)
<1>1. Len(b) \in Nat /\ \A i \in 1..Len(b) : b[i] \in H BY LenProperties
<1>2. \A i \in 0..Len(b) : /\ Ancestor(b, i) \in Seq(H)
                           /\ Len(Ancestor(b, i)) = i
                           /\ \A x \in 1..i : Ancestor(b, i)[x] = b[x]
  <2> TAKE i \in 0..Len(b)
  <2>1. i \in Int /\ 1 \in Int /\ \A x \in 1..i : b[x] \in H BY <1>1
  <2> DEFINE p == SubSeq(b, 1, i)
  <2>2. /\ p \in Seq(H)
        /\ Len(p) = IF 1 <= i THEN i - 1 + 1 ELSE 0
        /\ \A x \in 1..(i - 1 + 1) : p[x] = b[1 + x - 1]
    BY <2>1, SubSeqProperties
  <2>3. Ancestor(b, i) = p BY DEF Ancestor
  <2> HIDE DEF p
  <2> QED BY <2>1, <2>2, <2>3
<1>3. \A i \in 0..Len(b) : \A x \in 0..i : Ancestor(Ancestor(b, i), x) = Ancestor(b, x)
  <2> TAKE i \in 0..Len(b)
  <2> TAKE x \in 0..i
  <2> DEFINE c == Ancestor(b, i)
             p == SubSeq(c, 1, x)
  <2>1. c \in Seq(H) /\ Len(c) = i /\ \A y \in 1..i : c[y] = b[y] BY <1>2
  <2>2. x \in Int /\ 1 \in Int /\ x \in 0..Len(b) BY <1>1
  <2>3. Ancestor(c, x) = p BY DEF Ancestor
  <2> HIDE DEF c
  <2>4. \A y \in 1..x : c[y] \in H BY <1>1, <2>1, <2>2
  <2>5. /\ p \in Seq(H)
        /\ Len(p) = IF 1 <= x THEN x - 1 + 1 ELSE 0
        /\ \A y \in 1..(x - 1 + 1) : p[y] = c[1 + y - 1]
    BY <2>2, <2>4, SubSeqProperties
  <2> HIDE DEF p
  <2>6. /\ Ancestor(b, x) \in Seq(H)
        /\ Len(Ancestor(b, x)) = x
        /\ \A y \in 1..x : Ancestor(b, x)[y] = b[y]
    BY <1>2, <2>2
  <2>7. Len(p) = x BY <2>2, <2>5
  <2>8. \A y \in 1..Len(p) : p[y] = Ancestor(b, x)[y] BY <2>1, <2>2, <2>5, <2>6, <2>7
  <2>9. p = Ancestor(b, x)
    <3> DEFINE q == Ancestor(b, x)
    <3> HIDE DEF q
    <3>1. q \in Seq(H) /\ Len(p) = Len(q) /\ \A y \in 1..Len(p) : p[y] = q[y]
      BY <2>6, <2>7, <2>8 DEF q
    <3>2. p = q BY <2>5, <3>1, SeqEqual
    <3> QED BY <3>2 DEF q
  <2> QED BY <2>3, <2>9 DEF c
<1>4. Ancestor(b, Len(b)) = b BY SubSeqFull DEF Ancestor
<1>5. Ancestor(b, 0) = Genesis BY SubSeqEmpty DEF Ancestor, Genesis
<1>6. ASSUME k + 1 <= j
      PROVE  Ancestor(b, k + 1) # Genesis /\ Prev(Ancestor(b, k + 1)) = Ancestor(b, k)
  <2>1. k + 1 \in 0..Len(b) /\ k \in 0..(k + 1) /\ k \in 0..Len(b) BY <1>1, <1>6
  <2>2. Len(Ancestor(b, k + 1)) = k + 1 BY <1>2, <2>1
  <2>3. Ancestor(b, k + 1) # Genesis BY <2>1, <2>2, EmptySeq DEF Genesis
  <2>4. Prev(Ancestor(b, k + 1)) = Ancestor(Ancestor(b, k + 1), k) BY <2>1, <2>2 DEF Prev, Ancestor
  <2> QED BY <1>3, <2>1, <2>3, <2>4
<1> QED BY <1>3, <1>4, <1>5, <1>6

\* The index of a block is a natural number.
LEMMA IdxNat ==
  ASSUME NEW H, \A h \in H : h.idx \in Nat, NEW b \in Seq(H)
  PROVE  Idx(b) \in Nat
<1>1. CASE b = Genesis BY <1>1 DEF Idx
<1>2. CASE b # Genesis
  <2>1. b[Len(b)] \in H BY <1>2, EmptySeq, LenProperties DEF Genesis
  <2> QED BY <1>2, <2>1 DEF Idx
<1> QED BY <1>1, <1>2

\* A nonempty set of natural numbers has a least element, and FiniteSetsExt's
\* Min is it.
LEMMA MinNat ==
  ASSUME NEW S, S \subseteq Nat, S # {}
  PROVE  Min(S) \in S /\ \A y \in S : Min(S) <= y
<1>1. PICK x \in S : \A y \in S : ~ (<<y, x>> \in OpToRel(<, Nat))
  BY NatLessThanWellFounded, WFMin
<1>2. \A y \in S : x <= y
  <2> TAKE y \in S
  <2>1. x \in Nat /\ y \in Nat OBVIOUS
  <2>2. ~ (<<y, x>> \in OpToRel(<, Nat)) BY <1>1
  <2>3. ~ (y < x) BY <2>1, <2>2 DEF OpToRel
  <2> QED BY <2>1, <2>3
<1> QED BY <1>2 DEF Min

\* Likewise for the largest element of a bounded set.
LEMMA MaxNat ==
  ASSUME NEW N \in Nat, NEW S, S \subseteq 0..N, S # {}
  PROVE  Max(S) \in S /\ \A y \in S : Max(S) >= y
<1> DEFINE D == {d \in 0..N : N - d \in S}
<1>1. D \subseteq Nat /\ D # {}
  <2>1. PICK x \in S : TRUE OBVIOUS
  <2>2. N - x \in 0..N /\ N - (N - x) = x OBVIOUS
  <2>3. N - x \in D BY <2>1, <2>2
  <2>4. 0..N \subseteq Nat OBVIOUS
  <2> QED BY <2>3, <2>4
<1>2. Min(D) \in D /\ \A y \in D : Min(D) <= y
  <2> HIDE DEF D
  <2> QED BY <1>1, MinNat
<1>3. PICK m \in D : \A y \in D : m <= y BY <1>2
<1>4. N - m \in S /\ \A y \in S : N - m >= y
  <2>1. N - m \in S OBVIOUS
  <2>2. ASSUME NEW y \in S PROVE N - m >= y
    <3>1. N - y \in D BY <2>2
    <3>2. m <= N - y BY <1>3, <3>1
    <3> QED BY <3>2
  <2> QED BY <2>1, <2>2
<1> QED BY <1>4 DEF Max

-----------------------------------------------------------------------------
\* AppendBlock keeps a tree a tree.
LEMMA AppendBlockType ==
  ASSUME NEW H, \A h \in H : h.idx \in Nat, NEW t \in Tree(H), NEW b \in Seq(H)
  PROVE  AppendBlock(t, b) \in Tree(H)
<1>1. Idx(b) \in Nat BY IdxNat
<1> QED BY <1>1 DEF AppendBlock, Tree, Insert, Overtakes

\* A rooted ledger holds genesis and the parent of each of its blocks.
LEMMA RootedLedger ==
  ASSUME NEW H, NEW t \in Tree(H), Rooted(t)
  PROVE  /\ Genesis \in t.ledgermap
         /\ \A b \in t.ledgermap \ {Genesis} : Prev(b) \in t.ledgermap
<1>1. t.lasthash \in t.ledgermap /\ t.ledgermap \subseteq Seq(H) BY DEF Rooted, Tree
<1>2. \A b \in t.ledgermap : Len(b) \in Nat BY <1>1, LenProperties
<1>3. Genesis \in t.ledgermap
  <2>1. 0 \in 0..Len(t.lasthash) BY <1>1, <1>2
  <2>2. Ancestor(t.lasthash, 0) = Genesis BY <1>1, <2>1, AncestorWalk
  <2> QED BY <1>1, <2>1, <2>2 DEF Rooted
<1>4. ASSUME NEW b \in t.ledgermap \ {Genesis} PROVE Prev(b) \in t.ledgermap
  <2>1. Len(b) - 1 \in 0..Len(b) BY <1>1, EmptySeq DEF Genesis
  <2> QED BY <2>1 DEF Rooted, Prev, Ancestor
<1> QED BY <1>3, <1>4

\* AppendBlock keeps the ledger rooted, loses nothing, and adds at most b.
LEMMA AppendBlockRooted ==
  ASSUME NEW H, NEW t \in Tree(H), NEW b \in Seq(H), Rooted(t)
  PROVE  /\ Rooted(AppendBlock(t, b))
         /\ t.ledgermap \subseteq AppendBlock(t, b).ledgermap
         /\ AppendBlock(t, b).ledgermap \subseteq t.ledgermap \cup {b}
         /\ Prev(b) \in t.ledgermap => AppendBlock(t, b).ledgermap = t.ledgermap \cup {b}
<1> DEFINE u == AppendBlock(t, b)
<1>1. CASE Prev(b) \notin t.ledgermap
  <2>1. u = t BY <1>1 DEF AppendBlock, ContainBlock, Insert, Overtakes
  <2> QED BY <1>1, <2>1
<1>2. CASE Prev(b) \in t.ledgermap
  <2>1. u.ledgermap = t.ledgermap \cup {b} /\ u.lasthash \in {b, t.lasthash}
    BY <1>2 DEF AppendBlock, ContainBlock, Insert, Overtakes
  <2> HIDE DEF u
  <2>2. ASSUME NEW k \in 0..Len(b) PROVE Ancestor(b, k) \in u.ledgermap
    <3>1. Len(b) \in Nat BY LenProperties
    <3>2. CASE k = Len(b) BY <2>1, <3>1, <3>2, AncestorWalk
    <3>3. CASE k # Len(b)
      <4>1. Len(b) - 1 \in 0..Len(b) /\ k \in 0..(Len(b) - 1) BY <3>1, <3>3
      <4>2. Ancestor(Prev(b), k) = Ancestor(b, k)
        BY <4>1, AncestorWalk DEF Prev, Ancestor
      <4>3. Len(Prev(b)) = Len(b) - 1
        <5>1. b # Genesis BY <3>1, <4>1, EmptySeq DEF Genesis
        <5> QED BY <5>1, PrevBlock
      <4> QED BY <1>2, <2>1, <4>1, <4>2, <4>3 DEF Rooted
    <3> QED BY <3>2, <3>3
  <2>3. Rooted(u) BY <2>1, <2>2 DEF Rooted
  <2> QED BY <1>2, <2>1, <2>3 DEF u
<1> QED BY <1>1, <1>2

\* Given a block whose stored index is its height, AppendBlock keeps the tip a
\* longest chain, and moves it only to a longer one.
LEMMA AppendBlockLongest ==
  ASSUME NEW H, NEW t \in Tree(H), NEW b \in Seq(H), b # Genesis,
         Rooted(t), Longest(t), Idx(b) = Len(b)
  PROVE  /\ Longest(AppendBlock(t, b))
         /\ AppendBlock(t, b).lasthash =
              IF Prev(b) \in t.ledgermap /\ Len(b) > Len(t.lasthash) THEN b ELSE t.lasthash
<1> DEFINE u == AppendBlock(t, b)
<1>1. /\ Len(b) \in Nat /\ Len(t.lasthash) \in Nat
      /\ t.treeheight = Len(t.lasthash) + 1
  BY LenProperties DEF Tree, Longest
<1>2. CASE Prev(b) \notin t.ledgermap
  <2>1. u = t BY <1>2 DEF AppendBlock, ContainBlock, Insert, Overtakes
  <2> QED BY <1>2, <2>1
<1>3. CASE Prev(b) \in t.ledgermap /\ t.lasthash = Prev(b)
  <2>1. u = [ledgermap |-> t.ledgermap \cup {b}, lasthash |-> b, treeheight |-> t.treeheight + 1]
    BY <1>3 DEF AppendBlock, ContainBlock, Insert, Overtakes
  <2>2. Len(b) = Len(t.lasthash) + 1 BY <1>1, <1>3, PrevBlock
  <2>3. u.treeheight = Len(u.lasthash) + 1 BY <1>1, <2>1, <2>2
  <2>4. ASSUME NEW c \in u.ledgermap PROVE Idx(c) = Len(c) /\ Len(c) <= Len(u.lasthash)
    <3>1. CASE c = b BY <1>1, <2>1, <3>1
    <3>2. CASE c \in t.ledgermap
      <4>1. Idx(c) = Len(c) /\ Len(c) <= Len(t.lasthash) /\ c \in Seq(H)
        BY <3>2 DEF Longest, Tree
      <4>2. Len(c) \in Nat BY <4>1, LenProperties
      <4> QED BY <1>1, <2>1, <2>2, <4>1, <4>2
    <3> QED BY <2>1, <3>1, <3>2
  <2>5. Longest(u) BY <2>3, <2>4 DEF Longest
  <2> QED BY <1>1, <1>3, <2>1, <2>2, <2>5
<1>4. CASE Prev(b) \in t.ledgermap /\ t.lasthash # Prev(b) /\ t.treeheight <= Idx(b)
  <2>1. u = [ledgermap |-> t.ledgermap \cup {b}, lasthash |-> b, treeheight |-> Idx(b) + 1]
    BY <1>4 DEF AppendBlock, ContainBlock, Insert, Overtakes
  <2>2. Len(b) > Len(t.lasthash) BY <1>1, <1>4
  <2>3. ASSUME NEW c \in u.ledgermap PROVE Idx(c) = Len(c) /\ Len(c) <= Len(u.lasthash)
    <3>1. CASE c = b BY <1>1, <2>1, <3>1
    <3>2. CASE c \in t.ledgermap
      <4>1. Idx(c) = Len(c) /\ Len(c) <= Len(t.lasthash) /\ c \in Seq(H)
        BY <3>2 DEF Longest, Tree
      <4>2. Len(c) \in Nat BY <4>1, LenProperties
      <4> QED BY <1>1, <2>1, <2>2, <4>1, <4>2
    <3> QED BY <2>1, <3>1, <3>2
  <2>4. Longest(u) BY <2>1, <2>3 DEF Longest
  <2> QED BY <1>4, <2>1, <2>2, <2>4
<1>5. CASE Prev(b) \in t.ledgermap /\ t.lasthash # Prev(b) /\ ~ (t.treeheight <= Idx(b))
  <2>1. u = [ledgermap |-> t.ledgermap \cup {b}, lasthash |-> t.lasthash, treeheight |-> t.treeheight]
    BY <1>5 DEF AppendBlock, ContainBlock, Insert, Overtakes
  <2>2. Len(b) <= Len(t.lasthash) BY <1>1, <1>5
  <2>3. Longest(u) BY <1>1, <2>1, <2>2 DEF Longest
  <2> QED BY <1>1, <1>5, <2>1, <2>2, <2>3
<1> QED BY <1>2, <1>3, <1>4, <1>5

-----------------------------------------------------------------------------
\* A block locator is a sequence of blocks that ends with genesis.
LEMMA LocatorHasGenesis ==
  ASSUME NEW H, NEW t \in Tree(H), Longest(t)
  PROVE  /\ GetBlockLocator(t) \in Seq(Seq(H))
         /\ Genesis \in ToSet(GetBlockLocator(t))
<1>1. t.lasthash \in Seq(H) /\ Len(t.lasthash) \in Nat /\ t.treeheight = Len(t.lasthash) + 1
  BY LenProperties DEF Tree, Longest
<1>2. CASE t.treeheight = 1
  <2>1. t.lasthash = Genesis BY <1>1, <1>2, EmptySeq DEF Genesis
  <2>2. GetBlockLocator(t) = << Genesis >> BY <1>2, <2>1 DEF GetBlockLocator
  <2>3. Genesis \in Seq(H) BY <1>1, <2>1
  <2> QED BY <2>2, <2>3 DEF ToSet
<1>3. CASE t.treeheight # 1
  <2> DEFINE I == {i \in 1..10 : LocatorOffset[i] <= Len(t.lasthash)}
             size == Cardinality(I)
             entry(i) == Ancestor(t.lasthash, Len(t.lasthash) - LocatorOffset[i])
             s == [i \in 1..size |-> entry(i)]
  <2>1. IsFiniteSet(1..10) /\ Cardinality(1..10) = 10
    <3> DEFINE lo == 1  hi == 10
    <3>1. lo \in Int /\ hi \in Int OBVIOUS
    <3> HIDE DEF lo, hi
    <3>2. IsFiniteSet(lo..hi) /\ Cardinality(lo..hi) = IF lo > hi THEN 0 ELSE hi - lo + 1
      BY <3>1, FS_Interval
    <3> QED BY <3>2 DEF lo, hi
  <2>2. IsFiniteSet(I) /\ size \in Nat /\ size <= 10
    <3>1. I \subseteq 1..10 OBVIOUS
    <3>2. IsFiniteSet(I) /\ Cardinality(I) <= Cardinality(1..10) BY <2>1, <3>1, FS_Subset
    <3> HIDE DEF I
    <3> QED BY <2>1, <3>2, FS_CardinalityType
  <2> HIDE DEF I, size
  <2>3. ASSUME NEW i \in 1..size PROVE entry(i) \in Seq(H)
    <3>1. i \in 1..10 BY <2>2
    <3>2. LocatorOffset[i] \in Nat BY <3>1 DEF LocatorOffset
    <3>3. Len(t.lasthash) - LocatorOffset[i] \in Int
            /\ Len(t.lasthash) - LocatorOffset[i] <= Len(t.lasthash)
      BY <1>1, <3>2
    <3> QED BY <1>1, <3>3, AncestorBlock
  <2> HIDE DEF entry
  <2>4. s \in Seq(Seq(H)) /\ Len(s) = size BY <2>2, <2>3
  <2> HIDE DEF s
  <2>5. Genesis \in Seq(H) BY DEF Genesis
  <2>6. GetBlockLocator(t) = Append(s, Genesis)
    BY <1>3 DEF GetBlockLocator, I, size, entry, s
  <2>7. /\ Append(s, Genesis) \in Seq(Seq(H))
        /\ Len(Append(s, Genesis)) = size + 1
        /\ Append(s, Genesis)[size + 1] = Genesis
    BY <2>4, <2>5, AppendProperties
  <2>8. size + 1 \in DOMAIN Append(s, Genesis) BY <2>2, <2>7, LenProperties
  <2> QED BY <2>6, <2>7, <2>8 DEF ToSet
<1> QED BY <1>2, <1>3

\* Against a locator that contains genesis, FindCommonBlock finds a block of the
\* main chain which is also in the locator.
LEMMA CommonBlock ==
  ASSUME NEW H, NEW t \in Tree(H), NEW locator, Genesis \in ToSet(locator)
  PROVE  \E k \in 0..Len(t.lasthash) :
           /\ FindCommonBlock(t, locator) = Ancestor(t.lasthash, k)
           /\ FindCommonBlock(t, locator) \in ToSet(locator)
<1> DEFINE tip == t.lasthash
           K == {k \in 0..Len(tip) : Ancestor(tip, k) \in ToSet(locator)}
<1>1. tip \in Seq(H) /\ Len(tip) \in Nat BY LenProperties DEF Tree
<1>2. Ancestor(tip, 0) = Genesis BY SubSeqEmpty DEF Ancestor, Genesis
<1>3. 0 \in K BY <1>1, <1>2
<1>4. K \subseteq 0..Len(tip) OBVIOUS
<1>5. Max(K) \in K
  <2> HIDE DEF K
  <2> QED BY <1>1, <1>3, <1>4, MaxNat
<1>6. FindCommonBlock(t, locator) = Ancestor(tip, Max(K)) BY DEF FindCommonBlock
<1> QED BY <1>5, <1>6

-----------------------------------------------------------------------------
\* Messages.

Message == LinkMessage \cup TxMessage \cup BlkMessage

-----------------------------------------------------------------------------
\* The inductive invariant.

\* Consecutive hashes of an inventory are parent and child.
IsChain(hashes) ==
  \A i \in 1..(Len(hashes) - 1) : hashes[i + 1] # Genesis /\ Prev(hashes[i + 1]) = hashes[i]

\* What a message from a node with tree t to one with tree u may carry: an
\* inventory is a chain of t; a locator names genesis; a block is asked only on
\* top of a block of t; a block sent is of t and fits u.
MsgOK(t, u, m) ==
  /\ m.type = "POWBLOCK-INV" =>
       /\ m.hashes # << >>
       /\ \A i \in 1..Len(m.hashes) : m.hashes[i] \in t.ledgermap
       /\ IsChain(m.hashes)
  /\ m.type = "POWBLOCK-GETBLOCKS" => Genesis \in ToSet(m.locator)
  /\ m.type = "POWBLOCK-GETDATA" => m.hash # Genesis /\ Prev(m.hash) \in t.ledgermap
  /\ m.type = "POWBLOCK-BLK" =>
       m.blk # Genesis /\ m.blk \in t.ledgermap /\ Prev(m.blk) \in u.ledgermap

MessagesOK ==
  \A p, q \in Node : \A m \in ToSet(chan[<<p, q>>]) : MsgOK(blocktree[p], blocktree[q], m)

\* The inventory under processing is a chain whose first block is in the tree.
ProcessingOK ==
  \A n \in Node : processingInv[n] # << >> =>
    processingInv[n][1] \in blocktree[n].ledgermap /\ IsChain(processingInv[n])

\* The miner's candidate and the mined block have the index of their height;
\* they extend the tip or its parent, and while a mined block waits a new
\* candidate extends the tip.
MinerOK ==
  \A n \in Node :
    LET tip == blocktree[n].lasthash
    IN  /\ isMining[n] =>
             /\ candidateBlk[n].idx = Len(candidateBlk[n].prev) + 1
             /\ candidateBlk[n].prev \in {tip, Prev(tip)}
             /\ minedBlk[n] # Genesis => candidateBlk[n].prev = tip
        /\ minedBlk[n] # Genesis =>
             /\ Idx(minedBlk[n]) = Len(minedBlk[n])
             /\ Prev(minedBlk[n]) \in {tip, Prev(tip)}

\* The nonces of node n's blocks number them: those in trees are below the size
\* of its block pool, the one waiting is the next.
NoncesOK ==
  /\ \A n \in Node : \A b \in blocktree[n].ledgermap \ {Genesis} :
       b[Len(b)].nonce[2] < blkPoolSize[b[Len(b)].nonce[1]]
  /\ \A n \in Node : minedBlk[n] # Genesis =>
       minedBlk[n][Len(minedBlk[n])].nonce = <<n, blkPoolSize[n]>>

IndInv ==
  /\ TypeOK
  /\ ParentsHeld
  /\ TipIsLongest
  /\ MessagesOK
  /\ ProcessingOK
  /\ MinerOK
  /\ NoncesOK

-----------------------------------------------------------------------------
\* Values the handlers build.

\* Every header has a natural-number index (the assumption of the lemmas on trees).
LEMMA HeaderIdx == \A h \in Header : h.idx \in Nat
BY DEF Header

\* The answer to GETBLOCKS is a nonempty chain of the answering node's ledger.
LEMMA ChainInventoryIsChain ==
  ASSUME NEW t \in Tree(Header), Rooted(t), NEW locator, Genesis \in ToSet(locator)
  PROVE  LET c == ChainInventory(t, locator)
         IN  /\ c \in Seq(Block) /\ c # << >>
             /\ \A i \in 1..Len(c) : c[i] \in t.ledgermap
             /\ IsChain(c)
<1> DEFINE tip == t.lasthash
           start == FindCommonBlock(t, locator)
           g == GetChainFromBlock(t, start)
           c == ChainInventory(t, locator)
<1>1. tip \in Seq(Header) /\ tip \in t.ledgermap /\ Len(tip) \in Nat
  BY LenProperties DEF Tree, Rooted
<1>2. PICK k \in 0..Len(tip) : start = Ancestor(tip, k) BY CommonBlock
<1>3. Len(start) = k BY <1>1, <1>2, AncestorBlock
<1> DEFINE N == Len(tip) - k + 1
<1>4. N \in Nat /\ N >= 1 /\ \A i \in 1..N : k + i - 1 \in 0..Len(tip) BY <1>1
<1>5. g = [i \in 1..N |-> Ancestor(tip, Len(tip) - i + 1)] BY <1>3 DEF GetChainFromBlock
<1>6. \A i \in 1..N : Ancestor(tip, i - 1 + k) \in Seq(Header) BY <1>1, <1>4, AncestorBlock
<1>7. g \in Seq(Seq(Header)) /\ Len(g) = N
  <2> DEFINE e(i) == Ancestor(tip, Len(tip) - i + 1)
  <2>1. \A i \in 1..N : e(i) \in Seq(Header)
    <3> TAKE i \in 1..N
    <3>1. Len(tip) - i + 1 \in Int /\ Len(tip) - i + 1 <= Len(tip) BY <1>1, <1>4
    <3> QED BY <1>1, <3>1, AncestorBlock
  <2>2. g = [i \in 1..N |-> e(i)] BY <1>5
  <2> HIDE DEF e, g, N
  <2>3. [i \in 1..N |-> e(i)] \in Seq(Seq(Header)) BY <1>4, <2>1, IsASeq
  <2>4. g \in Seq(Seq(Header)) /\ DOMAIN g = 1..N BY <2>2, <2>3
  <2>5. Len(g) \in Nat /\ DOMAIN g = 1..Len(g) BY <2>4, LenProperties
  <2> QED BY <1>4, <2>4, <2>5
<1>8. c = [i \in 1..N |-> Ancestor(tip, k + i - 1)]
  <2>1. c = [i \in 1..N |-> g[(N - i) + 1]] BY <1>7 DEF ChainInventory, Reverse
  <2>2. ASSUME NEW i \in 1..N PROVE g[(N - i) + 1] = Ancestor(tip, k + i - 1)
    <3> DEFINE L == Len(tip)
    <3>0. L \in Int /\ k \in Int /\ i \in Int /\ N = L - k + 1 BY <1>1
    <3>1. (N - i) + 1 \in 1..N /\ L - ((N - i) + 1) + 1 = k + i - 1
      <4> HIDE DEF L, N
      <4> QED BY <3>0, <1>4
    <3> HIDE DEF N
    <3>2. g[(N - i) + 1] = Ancestor(tip, Len(tip) - ((N - i) + 1) + 1) BY <1>5, <3>1
    <3> QED BY <3>1, <3>2
  <2> HIDE DEF c, g, N
  <2> QED BY <2>1, <2>2
<1> DEFINE f(i) == Ancestor(tip, k + i - 1)
<1>9. c = [i \in 1..N |-> f(i)] BY <1>8
<1>10. \A i \in 1..N : f(i) \in Seq(Header) BY <1>1, <1>4, AncestorBlock
<1>11. \A i \in 1..N : f(i) \in t.ledgermap BY <1>1, <1>4 DEF Rooted
<1>12. \A i \in 1..(N - 1) : f(i + 1) # Genesis /\ Prev(f(i + 1)) = f(i)
  <2> TAKE i \in 1..(N - 1)
  <2> DEFINE x == k + i - 1
  <2>1. x \in 0..Len(tip) /\ x + 1 \in 0..Len(tip) /\ k + (i + 1) - 1 = x + 1
        /\ x \in 0..(x + 1) BY <1>1, <1>4
  <2> HIDE DEF x
  <2>2. Ancestor(tip, x + 1) # Genesis /\ Prev(Ancestor(tip, x + 1)) = Ancestor(tip, x)
    BY <1>1, <2>1, AncestorWalk
  <2> QED BY <2>1, <2>2 DEF x
<1> HIDE DEF c, f, N
<1>13. c \in Seq(Seq(Header))
  <2>1. [i \in 1..N |-> f(i)] \in Seq(Seq(Header)) BY <1>4, <1>10, IsASeq
  <2> QED BY <1>9, <2>1
<1>14. Len(c) = N
  <2>1. Len(c) \in Nat /\ DOMAIN c = 1..Len(c) BY <1>13, LenProperties
  <2>2. DOMAIN c = 1..N BY <1>9
  <2>3. N \in Nat /\ N \in 1..N BY <1>4
  <2>4. N \in 1..Len(c) BY <2>1, <2>2, <2>3
  <2>5. Len(c) \in 1..N BY <2>1, <2>2, <2>4
  <2> DEFINE l == Len(c)
  <2>6. l \in Int /\ N \in Int /\ N <= l /\ l <= N BY <2>1, <2>3, <2>4, <2>5
  <2> HIDE DEF l
  <2>7. l = N BY <2>6
  <2> QED BY <2>7 DEF l
<1>15. c # << >> BY <1>4, <1>14, EmptySeq
<1>16. \A i \in 1..Len(c) : c[i] \in t.ledgermap BY <1>9, <1>11, <1>14
<1>17. IsChain(c)
  <2>1. \A i \in 1..(N - 1) : i \in 1..N /\ i + 1 \in 1..N BY <1>4
  <2> QED BY <1>9, <1>12, <1>14, <2>1 DEF IsChain
<1> QED BY <1>13, <1>15, <1>16, <1>17 DEF c, Block

\* The first missing block of a chain whose first block is held is one whose
\* parent is held.
LEMMA FirstMissingFits ==
  ASSUME NEW t, NEW hashes \in Seq(Block), IsChain(hashes), hashes # << >>,
         hashes[1] \in t.ledgermap, Missing(hashes, t) # {}
  PROVE  LET h == FirstMissing(hashes, t)
         IN  h \in Block /\ h # Genesis /\ Prev(h) \in t.ledgermap
<1> DEFINE S == Missing(hashes, t)
           x == Min(S)
<1>1. /\ Len(hashes) \in Nat /\ 1..Len(hashes) \subseteq Nat
      /\ S \subseteq 1..Len(hashes) /\ S # {}
  BY LenProperties DEF Missing
<1>2. x \in S /\ \A y \in S : x <= y
  <2> HIDE DEF S
  <2> QED BY <1>1, MinNat
<1> HIDE DEF x
<1>3. x \in 1..Len(hashes) /\ hashes[x] \notin t.ledgermap BY <1>2 DEF Missing, ContainBlock
<1>4. x - 1 \in 1..(Len(hashes) - 1) /\ x - 1 \notin S /\ (x - 1) + 1 = x
  <2>1. x # 1 BY <1>3
  <2>2. x - 1 \in 1..(Len(hashes) - 1) BY <1>1, <1>3, <2>1
  <2> HIDE DEF S
  <2> QED BY <1>1, <1>2, <1>3, <2>2
<1>5. hashes[x - 1] \in t.ledgermap
  <2>1. x - 1 \in 1..Len(hashes) BY <1>1, <1>4
  <2> QED BY <1>4, <2>1 DEF Missing, ContainBlock
<1>6. hashes[(x - 1) + 1] # Genesis /\ Prev(hashes[(x - 1) + 1]) = hashes[x - 1]
  BY <1>4 DEF IsChain
<1>7. hashes[x] \in Block BY <1>3, ElementOfSeq
<1> QED BY <1>4, <1>5, <1>6, <1>7 DEF FirstMissing, x

\* A block mined from a candidate extends it by one header.
LEMMA MinedBlockFits ==
  ASSUME NEW c \in Candidate, NEW v \in Node \X Nat
  PROVE  LET b == MinedBlock(c, v)
         IN  /\ b \in Block /\ b # Genesis
             /\ Len(b) = Len(c.prev) + 1
             /\ Prev(b) = c.prev
             /\ Idx(b) = c.idx
             /\ b[Len(b)].nonce = v
<1> DEFINE h == [nonce |-> v, idx |-> c.idx, txs |-> c.txs]
           p == c.prev
           b == Append(p, h)
<1>1. h \in Header /\ p \in Seq(Header) /\ h.idx = c.idx /\ h.nonce = v
  BY DEF Header, Candidate, Block
<1>2. MinedBlock(c, v) = b BY DEF MinedBlock
<1> HIDE DEF h, p
<1>3. /\ b \in Seq(Header) /\ b # << >> /\ Len(b) = Len(p) + 1
      /\ \A i \in 1..Len(p) : b[i] = p[i]
      /\ b[Len(p) + 1] = h
  BY <1>1, AppendProperties
<1>4. Len(p) \in Nat BY <1>1, LenProperties
<1> HIDE DEF b
<1>5. Prev(b) = p
  <2> DEFINE q == SubSeq(b, 1, Len(p))
  <2>1. /\ 1 \in Int /\ Len(p) \in Int /\ \A i \in 1..Len(p) : b[i] \in Header
    BY <1>1, <1>3, <1>4, LenProperties
  <2>2. /\ q \in Seq(Header) /\ Len(q) = IF 1 <= Len(p) THEN Len(p) - 1 + 1 ELSE 0
        /\ \A i \in 1..(Len(p) - 1 + 1) : q[i] = b[1 + i - 1]
    BY <2>1, SubSeqProperties
  <2>3. Prev(b) = q BY <1>3, <1>4 DEF Prev
  <2> HIDE DEF q
  <2>4. Len(q) = Len(p) /\ \A i \in 1..Len(q) : q[i] = p[i] BY <1>3, <1>4, <2>2
  <2>5. q = p BY <1>1, <2>2, <2>4, SeqEqual
  <2> QED BY <2>3, <2>5
<1> QED BY <1>1, <1>2, <1>3, <1>5 DEF Idx, Genesis, Block, p

-----------------------------------------------------------------------------
\* Messages.

\* The fields of a message, by its type.
LEMMA MessageFields ==
  ASSUME NEW m \in Message
  PROVE  /\ m.type = "POWBLOCK-INV" => m.hashes \in Seq(Block)
         /\ m.type = "POWBLOCK-GETBLOCKS" => m.locator \in Seq(Block)
         /\ m.type = "POWBLOCK-GETDATA" => m.hash \in Block
         /\ m.type = "POWBLOCK-BLK" => m.blk \in Block
         /\ m.type \in {"TXGOSSIP-INV", "TXGOSSIP-GETDATA", "TXGOSSIP-TXS"} => m.txs \in SUBSET Tx
BY DEF Message, LinkMessage, BlkMessage, TxMessage

\* The messages the handlers build.
LEMMA MessageTypes ==
  ASSUME NEW hashes \in Seq(Block), NEW b \in Block, NEW txs \in SUBSET Tx
  PROVE  /\ [type |-> "POWBLOCK-INV", hashes |-> hashes] \in Message
         /\ [type |-> "POWBLOCK-GETBLOCKS", locator |-> hashes] \in Message
         /\ [type |-> "POWBLOCK-GETDATA", hash |-> b] \in Message
         /\ [type |-> "POWBLOCK-BLK", blk |-> b] \in Message
         /\ [type |-> "TXGOSSIP-INV", txs |-> txs] \in Message
         /\ [type |-> "TXGOSSIP-GETDATA", txs |-> txs] \in Message
         /\ [type |-> "TXGOSSIP-TXS", txs |-> txs] \in Message
BY DEF Message, LinkMessage, BlkMessage, TxMessage

\* The message a handler takes is one of the invariant's.
LEMMA ReceivedMessage ==
  ASSUME TypeOK, MessagesOK, NEW s \in Node, NEW n \in Node, NEW type, HasMsg(s, n, type)
  PROVE  LET m == Head(chan[<<s, n>>])
         IN  /\ m \in Message /\ m.type = type /\ MsgOK(blocktree[s], blocktree[n], m)
             /\ Taken(s, n) \in Channels(Message)
             /\ \A p, q \in Node : ToSet(Taken(s, n)[<<p, q>>]) \subseteq ToSet(chan[<<p, q>>])
<1>1. chan \in Channels(Message) BY DEF TypeOK, Message, Channels
<1>2. chan[<<s, n>>] # << >> /\ Head(chan[<<s, n>>]).type = type BY DEF HasMsg
<1>3. /\ Head(chan[<<s, n>>]) \in Message
      /\ Head(chan[<<s, n>>]) \in ToSet(chan[<<s, n>>])
      /\ Taken(s, n) \in Channels(Message)
      /\ \A p, q \in Node : ToSet(Taken(s, n)[<<p, q>>]) \subseteq ToSet(chan[<<p, q>>])
  BY <1>1, <1>2, TakenMessages
<1>4. MsgOK(blocktree[s], blocktree[n], Head(chan[<<s, n>>])) BY <1>3 DEF MessagesOK
<1> QED BY <1>2, <1>3, <1>4

\* The effect of a handler on the channels: it takes a message and may send one.
TakesAndSends(n, s, D, m) == chan' = Taken(s, n) \/ chan' = Sent(Taken(s, n), n, D, m)

\* The channels after such a handler.
LEMMA TakesAndSendsMessages ==
  ASSUME TypeOK, MessagesOK, NEW s \in Node, NEW n \in Node, NEW type, HasMsg(s, n, type),
         NEW D, NEW m \in Message, TakesAndSends(n, s, D, m)
  PROVE  /\ chan' \in Channels(Message)
         /\ \A p, q \in Node : \A x \in ToSet(chan'[<<p, q>>]) :
              x \in ToSet(chan[<<p, q>>]) \/ (p = n /\ q \in D /\ x = m)
<1> DEFINE ch == Taken(s, n)
<1>1. /\ ch \in Channels(Message)
      /\ \A p, q \in Node : ToSet(ch[<<p, q>>]) \subseteq ToSet(chan[<<p, q>>])
  BY ReceivedMessage
<1> HIDE DEF ch
<1>2. CASE chan' = ch BY <1>1, <1>2
<1>3. CASE chan' = Sent(ch, n, D, m)
  <2>1. /\ Sent(ch, n, D, m) \in Channels(Message)
        /\ \A p, q \in Node : \A x \in ToSet(Sent(ch, n, D, m)[<<p, q>>]) :
              x \in ToSet(ch[<<p, q>>]) \/ (p = n /\ q \in D /\ x = m)
    BY <1>1, SentMessages
  <2> QED BY <1>1, <1>3, <2>1
<1> QED BY <1>2, <1>3 DEF TakesAndSends, ch

\* Ledgers lose nothing.
LedgersGrow == \A n \in Node : blocktree[n].ledgermap \subseteq blocktree'[n].ledgermap

\* A good message stays good while ledgers grow, so it is enough that the
\* messages a step adds are good.
LEMMA MessagesGrow ==
  ASSUME MessagesOK, LedgersGrow,
         \A p, q \in Node : \A x \in ToSet(chan'[<<p, q>>]) :
           x \in ToSet(chan[<<p, q>>]) \/ MsgOK(blocktree'[p], blocktree'[q], x)
  PROVE  MessagesOK'
<1> SUFFICES ASSUME NEW p \in Node, NEW q \in Node, NEW x \in ToSet(chan'[<<p, q>>])
             PROVE  MsgOK(blocktree'[p], blocktree'[q], x)
  BY DEF MessagesOK
<1>1. CASE x \in ToSet(chan[<<p, q>>])
  <2>1. MsgOK(blocktree[p], blocktree[q], x) BY <1>1 DEF MessagesOK
  <2>2. /\ blocktree[p].ledgermap \subseteq blocktree'[p].ledgermap
        /\ blocktree[q].ledgermap \subseteq blocktree'[q].ledgermap BY DEF LedgersGrow
  <2> QED BY <2>1, <2>2 DEF MsgOK
<1> QED BY <1>1

\* The step of a handler that takes a message and sends a good one.
LEMMA HandlerMessages ==
  ASSUME TypeOK, MessagesOK, LedgersGrow, NEW s \in Node, NEW n \in Node,
         NEW type, HasMsg(s, n, type), NEW D, NEW m \in Message, TakesAndSends(n, s, D, m),
         \A q \in Node : q \in D => MsgOK(blocktree'[n], blocktree'[q], m)
  PROVE  chan' \in Channels(Message) /\ MessagesOK'
<1>1. /\ chan' \in Channels(Message)
      /\ \A p, q \in Node : \A x \in ToSet(chan'[<<p, q>>]) :
           x \in ToSet(chan[<<p, q>>]) \/ (p = n /\ q \in D /\ x = m)
  BY TakesAndSendsMessages
<1>2. \A p, q \in Node : \A x \in ToSet(chan'[<<p, q>>]) :
        x \in ToSet(chan[<<p, q>>]) \/ MsgOK(blocktree'[p], blocktree'[q], x)
  BY <1>1
<1> QED BY <1>1, <1>2, MessagesGrow

-----------------------------------------------------------------------------
\* Trees.

\* A tree changes only by appending a block on a block it has.
TreesAppend ==
  \A n \in Node :
    \/ blocktree'[n] = blocktree[n]
    \/ \E b \in Block \ {Genesis} :
         /\ Idx(b) = Len(b)
         /\ Prev(b) \in blocktree[n].ledgermap
         /\ blocktree'[n] = AppendBlock(blocktree[n], b)

\* Below genesis there is only genesis, so the tip and its parent are held.
LEMMA TipAndParentHeld ==
  ASSUME NEW t \in Tree(Header), Rooted(t)
  PROVE  {t.lasthash, Prev(t.lasthash)} \subseteq t.ledgermap
<1>1. t.lasthash \in t.ledgermap BY DEF Rooted
<1>2. CASE t.lasthash = Genesis
  <2>1. Prev(Genesis) = Genesis BY SubSeqEmpty, EmptySeq DEF Prev, Genesis
  <2> QED BY <1>1, <1>2, <2>1
<1>3. CASE t.lasthash # Genesis BY <1>1, <1>3, RootedLedger
<1> QED BY <1>2, <1>3

\* The state of the protocol layer, without the messages and transactions.
Quiet == UNCHANGED << blocktree, processingInv, isMining, candidateBlk, minedBlk, blkPoolSize >>

\* The actions that change it.
LEMMA NextKinds ==
  ASSUME [Next]_vars
  PROVE  \/ Quiet
         \/ \E n \in Node : \E t \in Tx : TxGenTimer(n, t)
         \/ \E n \in Node : MiningTimer(n) \/ MiningComplete(n)
         \/ \E n, s \in Node : RecvTxs(n, s) \/ RecvPOWBlockInv(n, s) \/ RecvPOWBlockBlk(n, s)
<1>1. CASE UNCHANGED vars BY <1>1 DEF vars, nodeVars, Quiet
<1>2. ASSUME NEW n \in Node, InitiateProtocol(n) \/ TxBroadcastTimer(n) PROVE Quiet
  BY <1>2 DEF InitiateProtocol, TxBroadcastTimer, nodeVars, Quiet
<1>3. ASSUME NEW n \in Node, NEW s \in Node, RecvTxInv(n, s) \/ RecvTxGetdata(n, s) PROVE Quiet
  BY <1>3 DEF RecvTxInv, RecvTxGetdata, nodeVars, Quiet
<1>4. ASSUME NEW n \in Node, NEW s \in Node, RecvPOWBlockGetBlocks(n, s) \/ RecvPOWBlockGetData(n, s)
      PROVE  Quiet
  BY <1>4 DEF RecvPOWBlockGetBlocks, RecvPOWBlockGetData, nodeVars, Quiet
<1>5. ASSUME NEW n \in Node, NEW s \in Node, PeerConnected(n, s) \/ PeerNotified(n, s) \/ PeerLost(n, s) PROVE Quiet
  BY <1>5 DEF PeerConnected, PeerNotified, PeerLost, nodeVars, Quiet
<1> QED BY <1>1, <1>2, <1>3, <1>4, <1>5 DEF Next, RecvMsg

\* The two actions that change a tree.
LEMMA TreesStep ==
  ASSUME IndInv, [Next]_vars
  PROVE  TreesAppend /\ blocktree' \in [Node -> Tree(Header)]
<1>1. blocktree \in [Node -> Tree(Header)] BY DEF IndInv, TypeOK, Tree, Block
<1>2. CASE UNCHANGED blocktree BY <1>1, <1>2 DEF TreesAppend
<1>3. ASSUME NEW n \in Node, NEW b \in Block \ {Genesis}, Idx(b) = Len(b),
             Prev(b) \in blocktree[n].ledgermap,
             blocktree' = [blocktree EXCEPT ![n] = AppendBlock(blocktree[n], b)]
      PROVE  TreesAppend /\ blocktree' \in [Node -> Tree(Header)]
  <2>1. AppendBlock(blocktree[n], b) \in Tree(Header)
    BY <1>1, <1>3, HeaderIdx, AppendBlockType DEF Block
  <2> QED BY <1>1, <1>3, <2>1 DEF TreesAppend
<1>4. ASSUME NEW n \in Node, MiningComplete(n)
      PROVE  TreesAppend /\ blocktree' \in [Node -> Tree(Header)]
  <2> DEFINE b == minedBlk[n]
             t == blocktree[n]
  <2>1. /\ b \in Block \ {Genesis} /\ Idx(b) = Len(b) /\ Prev(b) \in {t.lasthash, Prev(t.lasthash)}
    BY <1>4 DEF MiningComplete, IndInv, TypeOK, MinerOK
  <2>2. Prev(b) \in t.ledgermap
    BY <1>1, <2>1, TipAndParentHeld DEF IndInv, ParentsHeld
  <2>3. blocktree' = [blocktree EXCEPT ![n] = AppendBlock(blocktree[n], b)]
    BY <1>4 DEF MiningComplete
  <2> QED BY <1>3, <2>1, <2>2, <2>3
<1>5. ASSUME NEW n \in Node, NEW s \in Node, RecvPOWBlockBlk(n, s)
      PROVE  TreesAppend /\ blocktree' \in [Node -> Tree(Header)]
  <2> DEFINE m == Head(chan[<<s, n>>])
             b == m.blk
  <2>1. m \in Message /\ m.type = "POWBLOCK-BLK" /\ MsgOK(blocktree[s], blocktree[n], m)
    BY <1>5, ReceivedMessage DEF RecvPOWBlockBlk, IndInv
  <2>2. /\ b \in Block \ {Genesis} /\ b \in blocktree[s].ledgermap
        /\ Prev(b) \in blocktree[n].ledgermap
    BY <2>1, MessageFields DEF MsgOK
  <2>3. Idx(b) = Len(b) BY <2>2 DEF IndInv, TipIsLongest, Longest
  <2>4. blocktree' = [blocktree EXCEPT ![n] = AppendBlock(blocktree[n], b)] \/ blocktree' = blocktree
    BY <1>1, <1>5 DEF RecvPOWBlockBlk
  <2> HIDE DEF m, b
  <2> QED BY <1>2, <1>3, <2>2, <2>3, <2>4
<1>6. ASSUME NEW n \in Node, NEW s \in Node, NEW x,
             TxGenTimer(n, x) \/ MiningTimer(n) \/ RecvTxs(n, s) \/ RecvPOWBlockInv(n, s)
      PROVE  UNCHANGED blocktree
  BY <1>6 DEF TxGenTimer, MiningTimer, RecvTxs, RecvPOWBlockInv
<1> QED BY <1>2, <1>4, <1>5, <1>6, NextKinds DEF Quiet

\* What appending keeps.
LEMMA TreesKept ==
  ASSUME IndInv, TreesAppend, blocktree' \in [Node -> Tree(Header)]
  PROVE  /\ LedgersGrow /\ ParentsHeld' /\ TipIsLongest'
         /\ \A n \in Node : blocktree'[n].lasthash # blocktree[n].lasthash =>
              Len(blocktree'[n].lasthash) > Len(blocktree[n].lasthash)
<1>1. blocktree \in [Node -> Tree(Header)] BY DEF IndInv, TypeOK, Tree, Block
<1> SUFFICES ASSUME NEW n \in Node
             PROVE  /\ blocktree[n].ledgermap \subseteq blocktree'[n].ledgermap
                    /\ Rooted(blocktree'[n]) /\ Longest(blocktree'[n])
                    /\ blocktree'[n].lasthash # blocktree[n].lasthash =>
                         Len(blocktree'[n].lasthash) > Len(blocktree[n].lasthash)
  BY DEF LedgersGrow, ParentsHeld, TipIsLongest
<1>2. Rooted(blocktree[n]) /\ Longest(blocktree[n]) BY DEF IndInv, ParentsHeld, TipIsLongest
<1>3. CASE blocktree'[n] = blocktree[n] BY <1>2, <1>3
<1>4. CASE blocktree'[n] # blocktree[n]
  <2>1. PICK b \in Block \ {Genesis} : /\ Idx(b) = Len(b)
                                       /\ Prev(b) \in blocktree[n].ledgermap
                                       /\ blocktree'[n] = AppendBlock(blocktree[n], b)
    BY <1>4 DEF TreesAppend
  <2>2. /\ Rooted(AppendBlock(blocktree[n], b))
        /\ blocktree[n].ledgermap \subseteq AppendBlock(blocktree[n], b).ledgermap
    BY <1>1, <1>2, AppendBlockRooted DEF Block
  <2>3. /\ Longest(AppendBlock(blocktree[n], b))
        /\ AppendBlock(blocktree[n], b).lasthash =
             IF Prev(b) \in blocktree[n].ledgermap /\ Len(b) > Len(blocktree[n].lasthash)
             THEN b ELSE blocktree[n].lasthash
    BY <1>1, <1>2, <2>1, AppendBlockLongest DEF Block
  <2> QED BY <2>1, <2>2, <2>3
<1> QED BY <1>3, <1>4

-----------------------------------------------------------------------------
\* The messages of a step.

\* Transaction messages and introductions carry no blocks.
LEMMA TxMessageOK ==
  ASSUME NEW m \in LinkMessage \cup TxMessage, NEW t, NEW u
  PROVE  m \in Message /\ MsgOK(t, u, m)
BY DEF MsgOK, LinkMessage, TxMessage, Message

\* Sending without taking: the timers and the mining event.
LEMMA SentOK ==
  ASSUME TypeOK, MessagesOK, LedgersGrow, NEW n \in Node, NEW D, NEW m \in Message,
         chan' = Sent(chan, n, D, m),
         \A q \in Node : MsgOK(blocktree'[n], blocktree'[q], m)
  PROVE  chan' \in Channels(Message) /\ MessagesOK'
<1>1. chan \in Channels(Message) BY DEF TypeOK, Message, Channels
<1>2. /\ chan' \in Channels(Message)
      /\ \A p, q \in Node : \A x \in ToSet(chan'[<<p, q>>]) :
           x \in ToSet(chan[<<p, q>>]) \/ (p = n /\ q \in D /\ x = m)
  BY <1>1, SentMessages
<1>3. \A p, q \in Node : \A x \in ToSet(chan'[<<p, q>>]) :
        x \in ToSet(chan[<<p, q>>]) \/ MsgOK(blocktree'[p], blocktree'[q], x)
  BY <1>2
<1> QED BY <1>2, <1>3, MessagesGrow

\* The handlers of transaction messages.
LEMMA TxMessagesStep ==
  ASSUME TypeOK, MessagesOK, LedgersGrow, NEW n \in Node, NEW s \in Node,
         \/ RecvInventoryHandler(n, s)
         \/ RecvGetdataHandler(n, s)
         \/ RecvTxsHandler(n, s)
  PROVE  chan' \in Channels(Message) /\ MessagesOK'
<1>1. PICK type \in {"TXGOSSIP-INV", "TXGOSSIP-GETDATA", "TXGOSSIP-TXS"} : HasMsg(s, n, type)
  BY DEF RecvInventoryHandler, RecvGetdataHandler, RecvTxsHandler
<1>2. Head(chan[<<s, n>>]).txs \in SUBSET Tx BY <1>1, ReceivedMessage, MessageFields
<1>3. \E m \in TxMessage : \E D : TakesAndSends(n, s, D, m)
  <2>1. CASE RecvInventoryHandler(n, s)
    <3> DEFINE m == [type |-> "TXGOSSIP-GETDATA", txs |-> Head(chan[<<s, n>>]).txs \ txPool[n]]
    <3>1. m \in TxMessage BY <1>2 DEF TxMessage
    <3>2. TakesAndSends(n, s, {s}, m) BY <2>1 DEF RecvInventoryHandler, TakesAndSends
    <3> HIDE DEF m
    <3> QED BY <3>1, <3>2
  <2>2. CASE RecvGetdataHandler(n, s)
    <3> DEFINE m == [type |-> "TXGOSSIP-TXS", txs |-> Head(chan[<<s, n>>]).txs \cap txPool[n]]
    <3>1. m \in TxMessage BY <1>2 DEF TxMessage
    <3>2. TakesAndSends(n, s, {s}, m) BY <2>2 DEF RecvGetdataHandler, TakesAndSends
    <3> HIDE DEF m
    <3> QED BY <3>1, <3>2
  <2>3. CASE RecvTxsHandler(n, s)
    <3> DEFINE m == [type |-> "TXGOSSIP-INV", txs |-> Head(chan[<<s, n>>]).txs]
    <3>1. m \in TxMessage BY <1>2 DEF TxMessage
    <3>2. TakesAndSends(n, s, Node \ {s}, m) BY <2>3 DEF RecvTxsHandler, TakesAndSends
    <3> HIDE DEF m
    <3> QED BY <3>1, <3>2
  <2> QED BY <2>1, <2>2, <2>3
<1>4. PICK m \in TxMessage : \E D : TakesAndSends(n, s, D, m) BY <1>3
<1>5. PICK D : TakesAndSends(n, s, D, m) BY <1>4
<1>6. m \in Message /\ \A q \in Node : MsgOK(blocktree'[n], blocktree'[q], m) BY TxMessageOK
<1> QED BY <1>1, <1>5, <1>6, HandlerMessages

\* The handler of block inventories: it asks for the chain or for a block on
\* top of one it has.
LEMMA InvMessagesStep ==
  ASSUME IndInv, LedgersGrow, NEW n \in Node, NEW s \in Node, RecvPOWBlockInv(n, s)
  PROVE  chan' \in Channels(Message) /\ MessagesOK'
<1> DEFINE hashes == Head(chan[<<s, n>>]).hashes
           tree == blocktree[n]
<1>1. TypeOK /\ MessagesOK /\ HasMsg(s, n, "POWBLOCK-INV") /\ UNCHANGED blocktree
  BY DEF IndInv, RecvPOWBlockInv
<1>2. /\ hashes \in Seq(Block) /\ hashes # << >> /\ IsChain(hashes)
  BY <1>1, ReceivedMessage, MessageFields DEF MsgOK
<1>3. tree \in Tree(Header) /\ Rooted(tree) /\ Longest(tree)
  BY DEF IndInv, TypeOK, Tree, Block, ParentsHeld, TipIsLongest
<1>4. /\ GetBlockLocator(tree) \in Seq(Block) /\ Genesis \in ToSet(GetBlockLocator(tree))
  BY <1>3, LocatorHasGenesis DEF Block
<1>5. \E m \in Message : TakesAndSends(n, s, {s}, m) /\ MsgOK(tree, blocktree[s], m)
  <2>1. CASE ~ ContainBlock(tree, hashes[1]) \/ Missing(hashes, tree) = {} \/ processingInv[n] # << >>
    <3> DEFINE m == [type |-> "POWBLOCK-GETBLOCKS", locator |-> GetBlockLocator(tree)]
    <3>1. m \in Message BY <1>4 DEF Message, BlkMessage
    <3>2. MsgOK(tree, blocktree[s], m) BY <1>4 DEF MsgOK
    <3>3. TakesAndSends(n, s, {s}, m) BY <2>1 DEF RecvPOWBlockInv, TakesAndSends, HasProcessingInv, AllProcessed
    <3> HIDE DEF m
    <3> QED BY <3>1, <3>2, <3>3
  <2>2. CASE ContainBlock(tree, hashes[1]) /\ Missing(hashes, tree) # {} /\ processingInv[n] = << >>
    <3> DEFINE h == FirstMissing(hashes, tree)
               m == [type |-> "POWBLOCK-GETDATA", hash |-> h]
    <3>1. h \in Block /\ h # Genesis /\ Prev(h) \in tree.ledgermap
      BY <1>2, <2>2, FirstMissingFits DEF ContainBlock
    <3>2. TakesAndSends(n, s, {s}, m) BY <2>2 DEF RecvPOWBlockInv, TakesAndSends, HasProcessingInv, AllProcessed
    <3> HIDE DEF h
    <3>3. m \in Message BY <3>1 DEF Message, BlkMessage
    <3>4. MsgOK(tree, blocktree[s], m) BY <3>1 DEF MsgOK
    <3> HIDE DEF m
    <3> QED BY <3>2, <3>3, <3>4
  <2> QED BY <2>1, <2>2
<1>6. PICK m \in Message : TakesAndSends(n, s, {s}, m) /\ MsgOK(tree, blocktree[s], m) BY <1>5
<1>7. \A q \in Node : q \in {s} => MsgOK(blocktree'[n], blocktree'[q], m) BY <1>1, <1>6
<1> QED BY <1>1, <1>6, <1>7, HandlerMessages

\* The handlers of GETBLOCKS and GETDATA.
LEMMA AnswerMessagesStep ==
  ASSUME IndInv, LedgersGrow, NEW n \in Node, NEW s \in Node,
         RecvPOWBlockGetBlocks(n, s) \/ RecvPOWBlockGetData(n, s)
  PROVE  chan' \in Channels(Message) /\ MessagesOK'
<1> DEFINE tree == blocktree[n]
<1>1. TypeOK /\ MessagesOK BY DEF IndInv
<1>2. UNCHANGED blocktree BY DEF RecvPOWBlockGetBlocks, RecvPOWBlockGetData, nodeVars
<1>3. tree \in Tree(Header) /\ Rooted(tree) BY DEF IndInv, TypeOK, Tree, Block, ParentsHeld
<1>4. CASE RecvPOWBlockGetBlocks(n, s)
  <2> DEFINE locator == Head(chan[<<s, n>>]).locator
             c == ChainInventory(tree, locator)
             v == [type |-> "POWBLOCK-INV", hashes |-> c]
  <2>1. HasMsg(s, n, "POWBLOCK-GETBLOCKS") BY <1>4 DEF RecvPOWBlockGetBlocks
  <2>2. Genesis \in ToSet(locator) BY <1>1, <2>1, ReceivedMessage DEF MsgOK
  <2>3. TakesAndSends(n, s, {s}, v) BY <1>4 DEF RecvPOWBlockGetBlocks, TakesAndSends
  <2> HIDE DEF locator
  <2>4. /\ c \in Seq(Block) /\ c # << >> /\ IsChain(c)
        /\ \A i \in 1..Len(c) : c[i] \in tree.ledgermap
    BY <1>3, <2>2, ChainInventoryIsChain
  <2> HIDE DEF c
  <2>5. v \in Message BY <2>4 DEF Message, BlkMessage
  <2>6. MsgOK(tree, blocktree[s], v) BY <2>4 DEF MsgOK
  <2> HIDE DEF v
  <2>7. PICK m \in Message : m = v BY <2>5
  <2>8. \A q \in Node : q \in {s} => MsgOK(blocktree'[n], blocktree'[q], m) BY <1>2, <2>6, <2>7
  <2>9. TakesAndSends(n, s, {s}, m) BY <2>3, <2>7
  <2> QED BY <1>1, <2>1, <2>8, <2>9, HandlerMessages
<1>5. CASE RecvPOWBlockGetData(n, s)
  <2> DEFINE hash == Head(chan[<<s, n>>]).hash
             v == [type |-> "POWBLOCK-BLK", blk |-> hash]
  <2>1. HasMsg(s, n, "POWBLOCK-GETDATA") /\ hash \in tree.ledgermap
    BY <1>5 DEF RecvPOWBlockGetData, ContainBlock
  <2>2. hash \in Block /\ hash # Genesis /\ Prev(hash) \in blocktree[s].ledgermap
    BY <1>1, <2>1, ReceivedMessage, MessageFields DEF MsgOK
  <2>3. TakesAndSends(n, s, {s}, v) BY <1>5 DEF RecvPOWBlockGetData, TakesAndSends
  <2> HIDE DEF hash
  <2>5. v \in Message BY <2>2 DEF Message, BlkMessage
  <2>6. MsgOK(tree, blocktree[s], v) BY <2>1, <2>2 DEF MsgOK
  <2> HIDE DEF v
  <2>7. PICK m \in Message : m = v BY <2>5
  <2>8. \A q \in Node : q \in {s} => MsgOK(blocktree'[n], blocktree'[q], m) BY <1>2, <2>6, <2>7
  <2>9. TakesAndSends(n, s, {s}, m) BY <2>3, <2>7
  <2> QED BY <1>1, <2>1, <2>8, <2>9, HandlerMessages
<1> QED BY <1>4, <1>5

\* The block handler goes on with the inventory: it asks for the next block on
\* top of one it has by now, or relays an inventory it has in full.
LEMMA BlkMessagesStep ==
  ASSUME IndInv, LedgersGrow, NEW n \in Node, NEW s \in Node, RecvPOWBlockBlk(n, s)
  PROVE  chan' \in Channels(Message) /\ MessagesOK'
<1> DEFINE inv == processingInv[n]
           tree == blocktree'[n]
<1>1. TypeOK /\ MessagesOK /\ HasMsg(s, n, "POWBLOCK-BLK") BY DEF IndInv, RecvPOWBlockBlk
<1>2. inv \in Seq(Block) /\ blocktree \in [Node -> Tree(Header)]
  BY <1>1 DEF TypeOK, Tree, Block
<1>3. inv # << >> => inv[1] \in tree.ledgermap /\ IsChain(inv)
  BY DEF IndInv, ProcessingOK, LedgersGrow
<1>4. \/ /\ Missing(inv, tree) # {}
         /\ chan' = Sent(Taken(s, n), n, {s},
                         [type |-> "POWBLOCK-GETDATA", hash |-> FirstMissing(inv, tree)])
      \/ /\ Missing(inv, tree) = {}
         /\ inv = << >>
         /\ chan' = Taken(s, n)
      \/ /\ Missing(inv, tree) = {}
         /\ inv # << >>
         /\ chan' = Sent(Taken(s, n), n, Node \ {s}, [type |-> "POWBLOCK-INV", hashes |-> inv])
  <2> DEFINE b == Head(chan[<<s, n>>]).blk
             new == ~ ContainBlock(blocktree[n], b)
             next == IF new THEN AppendBlock(blocktree[n], b) ELSE blocktree[n]
  <2>1. blocktree' = [blocktree EXCEPT ![n] = next] BY DEF RecvPOWBlockBlk
  <2>2. tree = next BY <1>2, <2>1
  <2>3. \/ /\ Missing(inv, next) # {}
           /\ chan' = Sent(Taken(s, n), n, {s},
                           [type |-> "POWBLOCK-GETDATA", hash |-> FirstMissing(inv, next)])
        \/ /\ Missing(inv, next) = {}
           /\ chan' = IF inv = << >> THEN Taken(s, n)
                      ELSE Sent(Taken(s, n), n, Node \ {s}, [type |-> "POWBLOCK-INV", hashes |-> inv])
    BY DEF RecvPOWBlockBlk, AllProcessed
  <2> HIDE DEF next, inv
  <2> QED BY <2>2, <2>3
<1> HIDE DEF inv
<1>5. \E m \in Message, D \in {{s}, Node \ {s}} :
        TakesAndSends(n, s, D, m) /\ \A q \in Node : MsgOK(tree, blocktree'[q], m)
  <2>1. CASE Missing(inv, tree) # {}
    <3> DEFINE h == FirstMissing(inv, tree)
               m == [type |-> "POWBLOCK-GETDATA", hash |-> h]
    <3>1. inv # << >> BY <2>1, EmptySeq DEF Missing
    <3>2. h \in Block /\ h # Genesis /\ Prev(h) \in tree.ledgermap
      BY <1>2, <1>3, <2>1, <3>1, FirstMissingFits
    <3>3. TakesAndSends(n, s, {s}, m) BY <1>4, <2>1 DEF TakesAndSends
    <3> HIDE DEF h
    <3>4. m \in Message BY <3>2 DEF Message, BlkMessage
    <3>5. \A q \in Node : MsgOK(tree, blocktree'[q], m) BY <3>2 DEF MsgOK
    <3> HIDE DEF m
    <3> QED BY <3>3, <3>4, <3>5
  <2>2. CASE Missing(inv, tree) = {} /\ inv # << >>
    <3> DEFINE m == [type |-> "POWBLOCK-INV", hashes |-> inv]
    <3>1. TakesAndSends(n, s, Node \ {s}, m) BY <1>4, <2>2 DEF TakesAndSends
    <3>2. \A i \in 1..Len(inv) : inv[i] \in tree.ledgermap BY <2>2 DEF Missing, ContainBlock
    <3>3. m \in Message BY <1>2 DEF Message, BlkMessage
    <3>4. \A q \in Node : MsgOK(tree, blocktree'[q], m) BY <1>3, <2>2, <3>2 DEF MsgOK
    <3> HIDE DEF m
    <3> QED BY <3>1, <3>3, <3>4
  <2>3. CASE Missing(inv, tree) = {} /\ inv = << >>
    <3> DEFINE m == [type |-> "TXGOSSIP-INV", txs |-> {}]
    <3>1. m \in TxMessage BY DEF TxMessage
    <3>2. TakesAndSends(n, s, {s}, m) BY <1>4, <2>3 DEF TakesAndSends
    <3> HIDE DEF m
    <3>3. m \in Message /\ \A q \in Node : MsgOK(tree, blocktree'[q], m) BY <3>1, TxMessageOK
    <3> QED BY <3>2, <3>3
  <2> QED BY <2>1, <2>2, <2>3
<1>6. PICK m \in Message, D \in {{s}, Node \ {s}} :
        TakesAndSends(n, s, D, m) /\ \A q \in Node : MsgOK(tree, blocktree'[q], m)
  BY <1>5
<1> QED BY <1>1, <1>6, HandlerMessages

\* A new connection adds an introduction.
LEMMA LinkUpMessages ==
  ASSUME TypeOK, MessagesOK, LedgersGrow, NEW n \in Node, NEW s \in Node, LinkUp(n, s)
  PROVE  chan' \in Channels(Message) /\ MessagesOK'
<1> DEFINE v == [type |-> "notifyPeerId"]
<1>1. chan \in Channels(Message) BY DEF TypeOK, Message, Channels
<1>2. v \in LinkMessage BY DEF LinkMessage
<1>3. chan' = Put(chan, n, {s}, v) BY DEF LinkUp
<1> HIDE DEF v
<1>4. PICK m \in LinkMessage : m = v BY <1>2
<1>5. m \in Message /\ \A p, q \in Node : MsgOK(blocktree'[p], blocktree'[q], m) BY TxMessageOK
<1>6. /\ chan' \in Channels(Message)
      /\ \A p, q \in Node : \A x \in ToSet(chan'[<<p, q>>]) :
           x \in ToSet(chan[<<p, q>>]) \/ (p = n /\ q \in {s} /\ x = m)
  BY <1>1, <1>3, <1>4, <1>5, PutMessages
<1>7. \A p, q \in Node : \A x \in ToSet(chan'[<<p, q>>]) :
        x \in ToSet(chan[<<p, q>>]) \/ MsgOK(blocktree'[p], blocktree'[q], x)
  BY <1>5, <1>6
<1> QED BY <1>6, <1>7, MessagesGrow

\* The handler of an introduction only takes it.
LEMMA LinkNotifyMessages ==
  ASSUME TypeOK, MessagesOK, LedgersGrow, NEW n \in Node, NEW s \in Node, LinkNotify(n, s)
  PROVE  chan' \in Channels(Message) /\ MessagesOK'
<1>1. chan \in Channels(Message) BY DEF TypeOK, Message, Channels
<1>2. chan[<<s, n>>] # << >> /\ chan' = Taken(s, n) BY DEF LinkNotify, HasMsg
<1>3. /\ chan' \in Channels(Message)
      /\ \A p, q \in Node : ToSet(chan'[<<p, q>>]) \subseteq ToSet(chan[<<p, q>>])
  BY <1>1, <1>2, TakenMessages
<1>4. \A p, q \in Node : \A x \in ToSet(chan'[<<p, q>>]) : x \in ToSet(chan[<<p, q>>]) BY <1>3
<1> QED BY <1>3, <1>4, MessagesGrow

\* A lost connection adds nothing.
LEMMA LinkDownMessages ==
  ASSUME TypeOK, MessagesOK, LedgersGrow, NEW n \in Node, NEW s \in Node, LinkDown(n, s)
  PROVE  chan' \in Channels(Message) /\ MessagesOK'
<1>1. chan \in Channels(Message) BY DEF TypeOK, Message, Channels
<1>2. /\ chan' \in Channels(Message)
      /\ \A p, q \in Node : \A x \in ToSet(chan'[<<p, q>>]) : x \in ToSet(chan[<<p, q>>])
  BY <1>1, DownMessages
<1> QED BY <1>2, MessagesGrow

\* Every step keeps the messages good.
LEMMA MessagesStep ==
  ASSUME IndInv, [Next]_vars, LedgersGrow, TreesAppend
  PROVE  chan' \in Channels(Message) /\ MessagesOK'
<1>1. TypeOK /\ MessagesOK /\ chan \in Channels(Message) BY DEF IndInv, TypeOK, Message, Channels
<1>2. CASE UNCHANGED chan
  <2>1. \A p, q \in Node : \A x \in ToSet(chan'[<<p, q>>]) : x \in ToSet(chan[<<p, q>>]) BY <1>2
  <2> QED BY <1>1, <1>2, <2>1, MessagesGrow
<1>3. ASSUME NEW n \in Node, TxBroadcastTimer(n) PROVE chan' \in Channels(Message) /\ MessagesOK'
  <2> DEFINE v == [type |-> "TXGOSSIP-INV", txs |-> txToBroadcast[n]]
  <2>1. v \in TxMessage BY <1>1 DEF TypeOK, TxMessage
  <2>2. chan' = Sent(chan, n, Node, v) BY <1>3 DEF TxBroadcastTimer, BroadcastTimer
  <2> HIDE DEF v
  <2>3. PICK m \in TxMessage : m = v BY <2>1
  <2>4. m \in Message /\ \A q \in Node : MsgOK(blocktree'[n], blocktree'[q], m) BY TxMessageOK
  <2> QED BY <1>1, <2>2, <2>3, <2>4, SentOK
<1>4. ASSUME NEW n \in Node, MiningComplete(n) PROVE chan' \in Channels(Message) /\ MessagesOK'
  <2> DEFINE b == minedBlk[n]
             c == << b >>
             v == [type |-> "POWBLOCK-INV", hashes |-> c]
  <2>1. b \in Block BY <1>1 DEF TypeOK
  <2>2. chan' = Sent(chan, n, Node, v) BY <1>4 DEF MiningComplete
  <2>3. b \in blocktree'[n].ledgermap
    <3>1. blocktree \in [Node -> Tree(Header)] /\ Rooted(blocktree[n])
      BY DEF IndInv, TypeOK, Tree, Block, ParentsHeld
    <3>2. Prev(b) \in {blocktree[n].lasthash, Prev(blocktree[n].lasthash)}
      BY <1>4 DEF MiningComplete, IndInv, MinerOK
    <3>3. Prev(b) \in blocktree[n].ledgermap BY <3>1, <3>2, TipAndParentHeld
    <3>4. AppendBlock(blocktree[n], b).ledgermap = blocktree[n].ledgermap \cup {b}
      BY <2>1, <3>1, <3>3, AppendBlockRooted DEF Block
    <3>5. blocktree'[n] = AppendBlock(blocktree[n], b) BY <1>4, <3>1 DEF MiningComplete
    <3> QED BY <3>4, <3>5
  <2> HIDE DEF b
  <2>4. c \in Seq(Block) /\ c # << >> /\ Len(c) = 1 /\ c[1] = b BY <2>1
  <2>5. IsChain(c) BY <2>4 DEF IsChain
  <2>6. \A i \in 1..Len(c) : c[i] \in blocktree'[n].ledgermap BY <2>3, <2>4
  <2> HIDE DEF c
  <2>7. v \in Message BY <2>4 DEF Message, BlkMessage
  <2>8. \A q \in Node : MsgOK(blocktree'[n], blocktree'[q], v) BY <2>4, <2>5, <2>6 DEF MsgOK
  <2> HIDE DEF v
  <2>9. PICK m \in Message : m = v BY <2>7
  <2> QED BY <1>1, <2>2, <2>8, <2>9, SentOK
<1>5. ASSUME NEW n \in Node, NEW s \in Node, RecvMsg(n, s)
      PROVE  chan' \in Channels(Message) /\ MessagesOK'
  <2>1. CASE RecvTxInv(n, s) \/ RecvTxGetdata(n, s) \/ RecvTxs(n, s)
    BY <1>1, <2>1, TxMessagesStep DEF RecvTxInv, RecvTxGetdata, RecvTxs
  <2>2. CASE PeerNotified(n, s) BY <1>1, <2>2, LinkNotifyMessages DEF PeerNotified
  <2> QED BY <1>5, <2>1, <2>2, InvMessagesStep, AnswerMessagesStep, BlkMessagesStep DEF RecvMsg
<1>6. ASSUME NEW n \in Node, NEW s \in Node, PeerConnected(n, s) \/ PeerLost(n, s)
      PROVE  chan' \in Channels(Message) /\ MessagesOK'
  BY <1>1, <1>6, LinkUpMessages, LinkDownMessages DEF PeerConnected, PeerLost
<1>7. ASSUME NEW n \in Node, NEW t, InitiateProtocol(n) \/ TxGenTimer(n, t) \/ MiningTimer(n)
      PROVE  UNCHANGED chan
  BY <1>7 DEF InitiateProtocol, TxGenTimer, MiningTimer, linkVars
<1>8. CASE UNCHANGED vars BY <1>2, <1>8 DEF vars, linkVars
<1> QED BY <1>2, <1>3, <1>4, <1>5, <1>6, <1>7, <1>8 DEF Next

-----------------------------------------------------------------------------
\* The miner.

\* (Re)starting the miner of n on tree t.
LEMMA StartMining ==
  ASSUME TypeOK, NEW n \in Node, NEW t \in Tree(Header), NEW pool \in SUBSET Tx,
         StartMiningIfPending(n, t, pool)
  PROVE  /\ isMining' \in [Node -> BOOLEAN] /\ candidateBlk' \in [Node -> Candidate]
         /\ \A k \in Node \ {n} : isMining'[k] = isMining[k] /\ candidateBlk'[k] = candidateBlk[k]
         /\ isMining'[n] => /\ candidateBlk'[n].prev = t.lasthash
                            /\ candidateBlk'[n].idx = t.treeheight
<1> DEFINE c == MakeCandidateBlock(t, pool)
<1>1. isMining \in [Node -> BOOLEAN] /\ candidateBlk \in [Node -> Candidate] BY DEF TypeOK
<1>2. GetTxs(pool, TxNumPerBlock) \in SUBSET Tx BY DEF GetTxs
<1>3. c \in Candidate /\ c.prev = t.lasthash /\ c.idx = t.treeheight
  BY <1>2 DEF MakeCandidateBlock, Candidate, Tree, Block
<1>4. NoCandidate \in Candidate BY EmptySeq DEF NoCandidate, Candidate, Block, Genesis
<1>5. \/ /\ isMining' = [isMining EXCEPT ![n] = TRUE]
         /\ candidateBlk' = [candidateBlk EXCEPT ![n] = c]
      \/ /\ isMining' = [isMining EXCEPT ![n] = FALSE]
         /\ candidateBlk' = [candidateBlk EXCEPT ![n] = NoCandidate]
  BY DEF StartMiningIfPending
<1> HIDE DEF c
<1> QED BY <1>1, <1>3, <1>4, <1>5

\* The actions that touch the miner, in one form: the miners of other nodes are
\* left alone; that of n goes on, stops, or starts on n's tip of after the step.
MinerStarts(n) ==
  /\ isMining' \in [Node -> BOOLEAN] /\ candidateBlk' \in [Node -> Candidate]
  /\ \A k \in Node \ {n} : isMining'[k] = isMining[k] /\ candidateBlk'[k] = candidateBlk[k]
  /\ isMining'[n] =>
       \/ candidateBlk'[n].prev = blocktree'[n].lasthash /\ candidateBlk'[n].idx = blocktree'[n].treeheight
       \/ /\ isMining[n] /\ candidateBlk'[n] = candidateBlk[n]
          /\ blocktree'[n].lasthash = blocktree[n].lasthash

\* The timer of transactions and the handlers of transactions and blocks.
LEMMA MinerStartsStep ==
  ASSUME IndInv, blocktree' \in [Node -> Tree(Header)], NEW n \in Node, NEW s \in Node, NEW x,
         (x \in Tx /\ TxGenTimer(n, x)) \/ RecvTxs(n, s) \/ RecvPOWBlockBlk(n, s)
  PROVE  MinerStarts(n)
<1>1. TypeOK /\ MessagesOK /\ blocktree \in [Node -> Tree(Header)] BY DEF IndInv, TypeOK, Tree, Block
<1>2. txPool \in [Node -> SUBSET Tx] /\ isMining \in [Node -> BOOLEAN] /\ candidateBlk \in [Node -> Candidate]
  BY <1>1 DEF TypeOK
<1>3. CASE UNCHANGED mineVars /\ blocktree'[n].lasthash = blocktree[n].lasthash
  BY <1>2, <1>3 DEF mineVars, MinerStarts
<1>4. ASSUME NEW pool \in SUBSET Tx, StartMiningIfPending(n, blocktree'[n], pool)
      PROVE  MinerStarts(n)
  <2>1. blocktree'[n] \in Tree(Header) OBVIOUS
  <2> QED BY <1>1, <1>4, <2>1, StartMining DEF MinerStarts
<1>5. CASE x \in Tx /\ TxGenTimer(n, x)
  <2>1. blocktree' = blocktree BY <1>5 DEF TxGenTimer
  <2>2. txPool[n] \cup {x} \in SUBSET Tx BY <1>2, <1>5
  <2>3. UNCHANGED mineVars \/ StartMiningIfPending(n, blocktree[n], txPool[n] \cup {x})
    BY <1>5 DEF TxGenTimer, StartMiningIfIdle
  <2> QED BY <1>3, <1>4, <2>1, <2>2, <2>3
<1>6. CASE RecvTxs(n, s)
  <2> DEFINE pool == txPool[n] \cup Head(chan[<<s, n>>]).txs
  <2>1. blocktree' = blocktree BY <1>6 DEF RecvTxs
  <2>2. HasMsg(s, n, "TXGOSSIP-TXS") BY <1>6 DEF RecvTxs, RecvTxsHandler
  <2>3. Head(chan[<<s, n>>]).txs \in SUBSET Tx BY <1>1, <2>2, ReceivedMessage, MessageFields
  <2>4. pool \in SUBSET Tx BY <1>2, <2>3
  <2>5. UNCHANGED mineVars \/ StartMiningIfPending(n, blocktree[n], pool)
    BY <1>6 DEF RecvTxs, StartMiningIfIdle
  <2> HIDE DEF pool
  <2> QED BY <1>3, <1>4, <2>1, <2>4, <2>5
<1>7. CASE RecvPOWBlockBlk(n, s)
  <2> DEFINE b == Head(chan[<<s, n>>]).blk
             new == ~ ContainBlock(blocktree[n], b)
             next == IF new THEN AppendBlock(blocktree[n], b) ELSE blocktree[n]
             pool == IF new THEN txPool[n] \ BlockTxs(b) ELSE txPool[n]
  <2>1. blocktree' = [blocktree EXCEPT ![n] = next] BY <1>7 DEF RecvPOWBlockBlk
  <2>2. IF next.lasthash = blocktree[n].lasthash THEN UNCHANGED mineVars
        ELSE StartMiningIfPending(n, next, pool)
    BY <1>7 DEF RecvPOWBlockBlk
  <2>3. pool \in SUBSET Tx BY <1>2
  <2> HIDE DEF next, pool
  <2>4. blocktree'[n] = next BY <1>1, <2>1
  <2> QED BY <1>3, <1>4, <2>2, <2>3, <2>4
<1> QED BY <1>5, <1>6, <1>7

\* The miner stays at most one block behind.
LEMMA MinerStep ==
  ASSUME IndInv, [Next]_vars, blocktree' \in [Node -> Tree(Header)], TipIsLongest'
  PROVE  MinerOK'
<1>1. /\ TypeOK /\ MinerOK /\ blocktree \in [Node -> Tree(Header)] /\ TipIsLongest /\ ParentsHeld
  BY DEF IndInv, TypeOK, Tree, Block
<1>2. /\ isMining \in [Node -> BOOLEAN] /\ candidateBlk \in [Node -> Candidate]
      /\ minedBlk \in [Node -> Block] /\ blkPoolSize \in [Node -> Nat]
  BY <1>1 DEF TypeOK
<1>3. CASE UNCHANGED << blocktree, isMining, candidateBlk, minedBlk >> BY <1>1, <1>3 DEF MinerOK
<1>4. ASSUME NEW n \in Node, NEW s \in Node, NEW x,
             (x \in Tx /\ TxGenTimer(n, x)) \/ RecvTxs(n, s) \/ RecvPOWBlockBlk(n, s)
      PROVE  MinerOK'
  <2>1. MinerStarts(n) BY <1>4, MinerStartsStep
  <2>2. minedBlk' = minedBlk /\ (blocktree' = blocktree \/ minedBlk[n] = Genesis)
    BY <1>4 DEF TxGenTimer, RecvTxs, RecvPOWBlockBlk, Ready
  <2>3. \A k \in Node \ {n} : blocktree'[k] = blocktree[k]
    BY <1>1, <1>4 DEF TxGenTimer, RecvTxs, RecvPOWBlockBlk
  <2>4. blocktree'[n].treeheight = Len(blocktree'[n].lasthash) + 1 BY DEF TipIsLongest, Longest
  <2> QED BY <1>1, <2>1, <2>2, <2>3, <2>4 DEF MinerOK, MinerStarts
<1>5. ASSUME NEW n \in Node, MiningTimer(n) PROVE MinerOK'
  <2> DEFINE c == candidateBlk[n]
             v == << n, blkPoolSize[n] >>
             b == MinedBlock(c, v)
  <2>1. c \in Candidate /\ v \in Node \X Nat BY <1>2
  <2>2. /\ isMining' = [isMining EXCEPT ![n] = FALSE]
        /\ minedBlk' = [minedBlk EXCEPT ![n] = b]
        /\ candidateBlk' = [candidateBlk EXCEPT ![n] = NoCandidate]
        /\ blocktree' = blocktree /\ isMining[n]
    BY <1>5 DEF MiningTimer
  <2>3. /\ c.idx = Len(c.prev) + 1
        /\ c.prev \in {blocktree[n].lasthash, Prev(blocktree[n].lasthash)}
    BY <1>1, <2>2 DEF MinerOK
  <2>4. b # Genesis /\ Len(b) = Len(c.prev) + 1 /\ Prev(b) = c.prev /\ Idx(b) = c.idx
    <3> HIDE DEF c, v
    <3> QED BY <2>1, MinedBlockFits
  <2> HIDE DEF b, c
  <2>5. Idx(b) = Len(b) /\ Prev(b) \in {blocktree[n].lasthash, Prev(blocktree[n].lasthash)}
    BY <2>3, <2>4
  <2> QED BY <1>1, <1>2, <2>2, <2>5 DEF MinerOK
<1>6. ASSUME NEW n \in Node, MiningComplete(n) PROVE MinerOK'
  <2> DEFINE b == minedBlk[n]
             t == blocktree[n]
  <2>1. /\ b \in Block \ {Genesis} /\ Idx(b) = Len(b)
        /\ Prev(b) \in {t.lasthash, Prev(t.lasthash)}
        /\ isMining[n] => candidateBlk[n].prev = t.lasthash
    BY <1>1, <1>2, <1>6 DEF MiningComplete, MinerOK
  <2>2. /\ blocktree' = [blocktree EXCEPT ![n] = AppendBlock(t, b)]
        /\ minedBlk' = [minedBlk EXCEPT ![n] = Genesis]
        /\ isMining' = isMining /\ candidateBlk' = candidateBlk
    BY <1>6 DEF MiningComplete, mineVars
  <2>3. AppendBlock(t, b).lasthash =
          IF Prev(b) \in t.ledgermap /\ Len(b) > Len(t.lasthash) THEN b ELSE t.lasthash
    BY <1>1, <2>1, AppendBlockLongest DEF Block, ParentsHeld, TipIsLongest
  <2>4. CASE Prev(b) = t.lasthash
    <3>1. AppendBlock(t, b).lasthash \in {b, t.lasthash} BY <2>3
    <3>2. isMining[n] => candidateBlk[n].prev \in
            {AppendBlock(t, b).lasthash, Prev(AppendBlock(t, b).lasthash)}
      BY <2>1, <2>4, <3>1
    <3> QED BY <1>1, <1>2, <2>2, <3>2 DEF MinerOK
  <2>5. CASE Prev(b) # t.lasthash
    <3>1. Prev(b) = Prev(t.lasthash) BY <2>1, <2>5
    <3>2. Len(b) \in Nat /\ Len(t.lasthash) \in Nat /\ t.lasthash \in Seq(Header)
      BY <1>1, <2>1, LenProperties DEF Tree, Block
    <3>3. Len(Prev(b)) = Len(b) - 1 BY <2>1, PrevBlock DEF Block
    <3>4. ~ (Len(b) > Len(t.lasthash))
      <4>1. CASE t.lasthash = Genesis
        <5>1. Prev(Genesis) = Genesis BY SubSeqEmpty, EmptySeq DEF Prev, Genesis
        <5> QED BY <2>5, <3>1, <4>1, <5>1
      <4>2. CASE t.lasthash # Genesis
        <5>1. Len(Prev(t.lasthash)) = Len(t.lasthash) - 1 BY <3>2, <4>2, PrevBlock
        <5> QED BY <3>1, <3>2, <3>3, <5>1
      <4> QED BY <4>1, <4>2
    <3>5. AppendBlock(t, b).lasthash = t.lasthash BY <2>3, <3>4
    <3> QED BY <1>1, <1>2, <2>1, <2>2, <3>5 DEF MinerOK
  <2> QED BY <2>4, <2>5
<1>7. ASSUME NEW n \in Node, NEW s \in Node, RecvPOWBlockInv(n, s)
      PROVE  UNCHANGED << blocktree, isMining, candidateBlk, minedBlk >>
  BY <1>7 DEF RecvPOWBlockInv, mineVars
<1> QED BY <1>3, <1>4, <1>5, <1>6, <1>7, NextKinds DEF Quiet

-----------------------------------------------------------------------------
\* The inventory under processing, the nonces and the types.

\* The inventory under processing stays a chain from a block of the tree.
LEMMA ProcessingStep ==
  ASSUME IndInv, [Next]_vars, LedgersGrow
  PROVE  ProcessingOK' /\ processingInv' \in [Node -> Seq(Block)]
<1>1. /\ TypeOK /\ MessagesOK /\ ProcessingOK /\ processingInv \in [Node -> Seq(Block)]
  BY DEF IndInv, TypeOK
<1>2. ASSUME NEW n \in Node, NEW v \in Seq(Block),
             v # << >> => v[1] \in blocktree[n].ledgermap /\ IsChain(v),
             processingInv' = [processingInv EXCEPT ![n] = v]
      PROVE  ProcessingOK' /\ processingInv' \in [Node -> Seq(Block)]
  BY <1>1, <1>2 DEF ProcessingOK, LedgersGrow
<1>3. CASE UNCHANGED processingInv BY <1>1, <1>3 DEF ProcessingOK, LedgersGrow
<1>4. ASSUME NEW n \in Node, NEW s \in Node, RecvPOWBlockInv(n, s)
      PROVE  ProcessingOK' /\ processingInv' \in [Node -> Seq(Block)]
  <2> DEFINE hashes == Head(chan[<<s, n>>]).hashes
  <2>1. HasMsg(s, n, "POWBLOCK-INV") BY <1>4 DEF RecvPOWBlockInv
  <2>2. hashes \in Seq(Block) /\ IsChain(hashes)
    BY <1>1, <2>1, ReceivedMessage, MessageFields DEF MsgOK
  <2>3. \/ UNCHANGED processingInv
        \/ /\ hashes[1] \in blocktree[n].ledgermap
           /\ processingInv' = [processingInv EXCEPT ![n] = hashes]
    BY <1>4 DEF RecvPOWBlockInv, ContainBlock
  <2> HIDE DEF hashes
  <2> QED BY <1>2, <1>3, <2>2, <2>3
<1>5. ASSUME NEW n \in Node, NEW s \in Node, RecvPOWBlockBlk(n, s)
      PROVE  ProcessingOK' /\ processingInv' \in [Node -> Seq(Block)]
  <2>1. UNCHANGED processingInv \/ processingInv' = [processingInv EXCEPT ![n] = << >>]
    BY <1>5 DEF RecvPOWBlockBlk
  <2>2. << >> \in Seq(Block) BY EmptySeq
  <2> QED BY <1>2, <1>3, <2>1, <2>2
<1>6. ASSUME NEW n \in Node, NEW s \in Node, NEW x,
             TxGenTimer(n, x) \/ MiningTimer(n) \/ MiningComplete(n) \/ RecvTxs(n, s)
      PROVE  UNCHANGED processingInv
  BY <1>6 DEF TxGenTimer, MiningTimer, MiningComplete, RecvTxs
<1> QED BY <1>3, <1>4, <1>5, <1>6, NextKinds DEF Quiet

\* The last header of a block.
LEMMA LastHeader ==
  ASSUME NEW b \in Block \ {Genesis}
  PROVE  b[Len(b)] \in Header /\ b[Len(b)].nonce \in Node \X Nat
<1>1. b[Len(b)] \in Header BY EmptySeq, LenProperties DEF Block, Genesis
<1> QED BY <1>1 DEF Header

\* Nonces number the blocks of a miner.
LEMMA NoncesStep ==
  ASSUME IndInv, [Next]_vars, blocktree' \in [Node -> Tree(Header)]
  PROVE  NoncesOK'
<1>1. /\ TypeOK /\ MessagesOK /\ NoncesOK /\ blocktree \in [Node -> Tree(Header)]
      /\ minedBlk \in [Node -> Block] /\ blkPoolSize \in [Node -> Nat] /\ ParentsHeld
  BY DEF IndInv, TypeOK, Tree, Block
<1> DEFINE Num(b) == b[Len(b)].nonce
<1>2. \A k \in Node : \A b \in blocktree[k].ledgermap \ {Genesis} :
        /\ b \in Block \ {Genesis} /\ Num(b)[1] \in Node /\ Num(b)[2] \in Nat
        /\ Num(b)[2] < blkPoolSize[Num(b)[1]]
  <2> TAKE k \in Node
  <2> TAKE b \in blocktree[k].ledgermap \ {Genesis}
  <2>1. b \in Block \ {Genesis} BY <1>1 DEF Tree, Block
  <2>2. Num(b) \in Node \X Nat BY <2>1, LastHeader
  <2>3. Num(b)[1] \in Node /\ Num(b)[2] \in Nat
    <3> HIDE DEF Num
    <3> QED BY <2>2
  <2>4. Num(b)[2] < blkPoolSize[Num(b)[1]] BY <1>1 DEF NoncesOK
  <2> QED BY <2>1, <2>3, <2>4
<1>3. CASE UNCHANGED << blocktree, minedBlk, blkPoolSize >> BY <1>1, <1>3 DEF NoncesOK
<1>4. ASSUME NEW n \in Node, MiningTimer(n) PROVE NoncesOK'
  <2> DEFINE v == << n, blkPoolSize[n] >>
             c == candidateBlk[n]
             b == MinedBlock(c, v)
  <2>1. c \in Candidate /\ v \in Node \X Nat BY <1>1 DEF TypeOK
  <2>2. Num(b) = v
    <3> HIDE DEF c, v
    <3> QED BY <2>1, MinedBlockFits
  <2>3. /\ minedBlk' = [minedBlk EXCEPT ![n] = b]
        /\ blocktree' = blocktree /\ blkPoolSize' = blkPoolSize
    BY <1>4 DEF MiningTimer
  <2> HIDE DEF b
  <2> QED BY <1>1, <2>2, <2>3 DEF NoncesOK
<1>5. ASSUME NEW n \in Node, MiningComplete(n) PROVE NoncesOK'
  <2> DEFINE b == minedBlk[n]
             t == blocktree[n]
  <2>1. /\ b \in Block \ {Genesis} /\ Num(b) = << n, blkPoolSize[n] >>
    BY <1>1, <1>5 DEF MiningComplete, NoncesOK
  <2>2. /\ blocktree' = [blocktree EXCEPT ![n] = AppendBlock(t, b)]
        /\ minedBlk' = [minedBlk EXCEPT ![n] = Genesis]
        /\ blkPoolSize' = [blkPoolSize EXCEPT ![n] = @ + 1]
    BY <1>5 DEF MiningComplete
  <2>3. AppendBlock(t, b).ledgermap \subseteq t.ledgermap \cup {b}
    BY <1>1, <2>1, AppendBlockRooted DEF Block, ParentsHeld
  <2>4. ASSUME NEW k \in Node, NEW d \in blocktree'[k].ledgermap \ {Genesis}
        PROVE  Num(d)[2] < blkPoolSize'[Num(d)[1]]
    <3>1. CASE d \in blocktree[k].ledgermap
      <4>1. Num(d)[1] \in Node /\ Num(d)[2] \in Nat /\ Num(d)[2] < blkPoolSize[Num(d)[1]]
        BY <1>2, <3>1
      <4> HIDE DEF Num
      <4> QED BY <1>1, <2>2, <4>1
    <3>2. CASE d \notin blocktree[k].ledgermap
      <4>1. k = n /\ d = b BY <1>1, <2>2, <2>3, <3>2
      <4> HIDE DEF Num, b
      <4> QED BY <1>1, <2>1, <2>2, <4>1
    <3> QED BY <3>1, <3>2
  <2>5. ASSUME NEW k \in Node, minedBlk'[k] # Genesis
        PROVE  Num(minedBlk'[k]) = << k, blkPoolSize'[k] >>
    <3>1. k # n BY <1>1, <2>2, <2>5
    <3>2. minedBlk'[k] = minedBlk[k] /\ blkPoolSize'[k] = blkPoolSize[k] BY <1>1, <2>2, <3>1
    <3> QED BY <1>1, <2>5, <3>2 DEF NoncesOK
  <2> QED BY <2>4, <2>5 DEF NoncesOK
<1>6. ASSUME NEW n \in Node, NEW s \in Node, RecvPOWBlockBlk(n, s) PROVE NoncesOK'
  <2> DEFINE m == Head(chan[<<s, n>>])
             b == m.blk
  <2>1. HasMsg(s, n, "POWBLOCK-BLK") /\ UNCHANGED << minedBlk, blkPoolSize >>
    BY <1>6 DEF RecvPOWBlockBlk
  <2>2. b \in Block /\ b \in blocktree[s].ledgermap
    BY <1>1, <2>1, ReceivedMessage, MessageFields DEF MsgOK
  <2>3. blocktree' = [blocktree EXCEPT ![n] = AppendBlock(blocktree[n], b)] \/ blocktree' = blocktree
    BY <1>1, <1>6 DEF RecvPOWBlockBlk
  <2> HIDE DEF b
  <2>4. AppendBlock(blocktree[n], b).ledgermap \subseteq blocktree[n].ledgermap \cup {b}
    BY <1>1, <2>2, AppendBlockRooted DEF Block, ParentsHeld
  <2>5. ASSUME NEW k \in Node, NEW d \in blocktree'[k].ledgermap \ {Genesis}
        PROVE  \E p \in Node : d \in blocktree[p].ledgermap
    BY <1>1, <2>2, <2>3, <2>4, <2>5
  <2> QED BY <1>1, <2>1, <2>5 DEF NoncesOK
<1>7. ASSUME NEW n \in Node, NEW s \in Node, NEW x,
             TxGenTimer(n, x) \/ RecvTxs(n, s) \/ RecvPOWBlockInv(n, s)
      PROVE  UNCHANGED << blocktree, minedBlk, blkPoolSize >>
  BY <1>7 DEF TxGenTimer, RecvTxs, RecvPOWBlockInv
<1> QED BY <1>3, <1>4, <1>5, <1>6, <1>7, NextKinds DEF Quiet

\* The variables whose types no other lemma gives.
OtherTypes ==
  /\ nbr \in [Node -> SUBSET Node] /\ linkDowns \in Nat
  /\ txPool \in [Node -> SUBSET Tx] /\ txToBroadcast \in [Node -> SUBSET Tx]
  /\ isMining \in [Node -> BOOLEAN] /\ candidateBlk \in [Node -> Candidate]
  /\ minedBlk \in [Node -> Block] /\ blkPoolSize \in [Node -> Nat]
  /\ initiated \in [Node -> BOOLEAN] /\ txGenNum \in [Node -> Nat]

\* Every step keeps their types.
LEMMA OtherTypesStep ==
  ASSUME IndInv, [Next]_vars, blocktree' \in [Node -> Tree(Header)]
  PROVE  OtherTypes'
<1>1. TypeOK /\ MessagesOK /\ OtherTypes BY DEF IndInv, TypeOK, OtherTypes
<1>2. CASE UNCHANGED vars
  BY <1>1, <1>2 DEF OtherTypes, vars, linkVars, txVars, nodeVars
<1>3. ASSUME NEW n \in Node, InitiateProtocol(n) PROVE OtherTypes'
  BY <1>1, <1>3 DEF OtherTypes, InitiateProtocol, linkVars, txVars
<1>4. ASSUME NEW n \in Node, NEW t \in Tx, TxGenTimer(n, t) PROVE OtherTypes'
  <2>1. isMining' \in [Node -> BOOLEAN] /\ candidateBlk' \in [Node -> Candidate]
    BY <1>4, MinerStartsStep DEF MinerStarts
  <2>2. txPool' \in [Node -> SUBSET Tx] /\ txToBroadcast' \in [Node -> SUBSET Tx]
    BY <1>1, <1>4 DEF OtherTypes, TxGenTimer, GenerateTx
  <2>3. txGenNum' \in [Node -> Nat] BY <1>1, <1>4 DEF OtherTypes, TxGenTimer
  <2> QED BY <1>1, <1>4, <2>1, <2>2, <2>3 DEF OtherTypes, TxGenTimer, linkVars
<1>5. ASSUME NEW n \in Node, TxBroadcastTimer(n) PROVE OtherTypes'
  BY <1>1, <1>5 DEF OtherTypes, TxBroadcastTimer, BroadcastTimer, nodeVars
<1>6. ASSUME NEW n \in Node, MiningTimer(n) PROVE OtherTypes'
  <2> DEFINE v == << n, blkPoolSize[n] >>
             c == candidateBlk[n]
             b == MinedBlock(c, v)
  <2>1. c \in Candidate /\ v \in Node \X Nat BY <1>1 DEF OtherTypes
  <2>2. b \in Block
    <3> HIDE DEF c, v
    <3> QED BY <2>1, MinedBlockFits
  <2>3. minedBlk' = [minedBlk EXCEPT ![n] = b] BY <1>6 DEF MiningTimer
  <2> HIDE DEF b
  <2>4. NoCandidate \in Candidate BY EmptySeq DEF NoCandidate, Candidate, Block, Genesis
  <2>5. minedBlk' \in [Node -> Block] BY <1>1, <2>2, <2>3 DEF OtherTypes
  <2> QED BY <1>1, <1>6, <2>4, <2>5 DEF OtherTypes, MiningTimer, linkVars, txVars, genVars
<1>7. ASSUME NEW n \in Node, MiningComplete(n) PROVE OtherTypes'
  <2>1. Genesis \in Block BY EmptySeq DEF Genesis, Block
  <2>2. /\ minedBlk' = [minedBlk EXCEPT ![n] = Genesis]
        /\ blkPoolSize' = [blkPoolSize EXCEPT ![n] = blkPoolSize[n] + 1]
        /\ txPool' = [txPool EXCEPT ![n] = txPool[n] \ BlockTxs(minedBlk[n])]
        /\ UNCHANGED << nbr, linkDowns, txToBroadcast, isMining, candidateBlk, initiated, txGenNum >>
    BY <1>7 DEF MiningComplete, mineVars, genVars
  <2>3. txPool' \in [Node -> SUBSET Tx] BY <1>1, <2>2 DEF OtherTypes
  <2>4. minedBlk' \in [Node -> Block] /\ blkPoolSize' \in [Node -> Nat] BY <1>1, <2>1, <2>2 DEF OtherTypes
  <2> QED BY <1>1, <2>2, <2>3, <2>4 DEF OtherTypes
<1>8. ASSUME NEW n \in Node, NEW s \in Node, RecvMsg(n, s), ~ PeerNotified(n, s)
      PROVE  OtherTypes'
  <2>1. CASE RecvTxInv(n, s)
    BY <1>1, <2>1 DEF OtherTypes, RecvTxInv, RecvInventoryHandler, nodeVars
  <2>2. CASE RecvTxGetdata(n, s)
    BY <1>1, <2>2 DEF OtherTypes, RecvTxGetdata, RecvGetdataHandler, nodeVars
  <2>3. CASE RecvTxs(n, s)
    <3>1. isMining' \in [Node -> BOOLEAN] /\ candidateBlk' \in [Node -> Candidate]
      BY <2>3, MinerStartsStep DEF MinerStarts
    <3>2. HasMsg(s, n, "TXGOSSIP-TXS") BY <2>3 DEF RecvTxs, RecvTxsHandler
    <3>3. Head(chan[<<s, n>>]).txs \in SUBSET Tx BY <1>1, <3>2, ReceivedMessage, MessageFields
    <3>4. txPool' \in [Node -> SUBSET Tx] BY <1>1, <2>3, <3>3 DEF OtherTypes, RecvTxs, RecvTxsHandler
    <3> QED BY <1>1, <2>3, <3>1, <3>4 DEF OtherTypes, RecvTxs, RecvTxsHandler, genVars
  <2>4. CASE RecvPOWBlockInv(n, s)
    BY <1>1, <2>4 DEF OtherTypes, RecvPOWBlockInv, txVars, mineVars, genVars
  <2>5. CASE RecvPOWBlockGetBlocks(n, s)
    BY <1>1, <2>5 DEF OtherTypes, RecvPOWBlockGetBlocks, txVars, nodeVars
  <2>6. CASE RecvPOWBlockGetData(n, s)
    BY <1>1, <2>6 DEF OtherTypes, RecvPOWBlockGetData, txVars, nodeVars
  <2>7. CASE RecvPOWBlockBlk(n, s)
    <3>1. isMining' \in [Node -> BOOLEAN] /\ candidateBlk' \in [Node -> Candidate]
      BY <2>7, MinerStartsStep DEF MinerStarts
    <3>2. txPool' \in [Node -> SUBSET Tx] BY <1>1, <2>7 DEF OtherTypes, RecvPOWBlockBlk
    <3> QED BY <1>1, <2>7, <3>1, <3>2 DEF OtherTypes, RecvPOWBlockBlk, genVars
  <2> QED BY <1>8, <2>1, <2>2, <2>3, <2>4, <2>5, <2>6, <2>7 DEF RecvMsg
<1>9. ASSUME NEW n \in Node, NEW s \in Node,
             PeerConnected(n, s) \/ PeerNotified(n, s) \/ PeerLost(n, s)
      PROVE  OtherTypes'
  <2>1. UNCHANGED << txVars, nodeVars >> BY <1>9 DEF PeerConnected, PeerNotified, PeerLost
  <2>2. /\ linkDowns' \in {linkDowns, linkDowns + 1}
        /\ \/ nbr' = [nbr EXCEPT ![n] = @ \cup {s}]
           \/ nbr' = [nbr EXCEPT ![n] = @ \ {s}]
    BY <1>9 DEF PeerConnected, LinkUp, PeerNotified, LinkNotify, PeerLost, LinkDown
  <2>3. nbr' \in [Node -> SUBSET Node] BY <1>1, <2>2 DEF OtherTypes
  <2>4. linkDowns' \in Nat BY <1>1, <2>2 DEF OtherTypes
  <2> QED BY <1>1, <2>1, <2>3, <2>4 DEF OtherTypes, txVars, nodeVars
<1> QED BY <1>2, <1>3, <1>4, <1>5, <1>6, <1>7, <1>8, <1>9 DEF Next

-----------------------------------------------------------------------------
\* The theorems.

\* The initial state.
LEMMA InitIndInv == Init => IndInv
<1> SUFFICES ASSUME Init PROVE IndInv OBVIOUS
<1> USE DEF Init, LinkInit, TxInit
<1>1. << >> \in Seq(Message) /\ << >> \in Seq(Block) /\ Genesis \in Block /\ Len(Genesis) = 0
  BY EmptySeq DEF Genesis, Block
<1>2. NoCandidate \in Candidate BY <1>1 DEF NoCandidate, Candidate
<1>3. NewTree \in Tree(Header) BY <1>1 DEF NewTree, Tree, Block
<1>4. Rooted(NewTree)
  <2>1. Ancestor(Genesis, 0) = Genesis BY SubSeqEmpty DEF Ancestor, Genesis
  <2> QED BY <1>1, <2>1 DEF Rooted, NewTree
<1>5. Longest(NewTree) BY <1>1 DEF Longest, NewTree, Idx
<1>6. TypeOK
  <2>1. chan \in [Node \X Node -> Seq(LinkMessage \cup TxMessage \cup BlkMessage)] BY <1>1 DEF Message
  <2>2. blocktree \in [Node -> [ledgermap : SUBSET Block, lasthash : Block, treeheight : Nat]]
    BY <1>3 DEF Tree, Block
  <2> QED BY <1>1, <1>2, <2>1, <2>2 DEF TypeOK
<1>7. ParentsHeld /\ TipIsLongest BY <1>4, <1>5 DEF ParentsHeld, TipIsLongest
<1>8. MessagesOK BY <1>1 DEF MessagesOK, ToSet
<1>9. ProcessingOK /\ MinerOK BY DEF ProcessingOK, MinerOK
<1>10. NoncesOK BY DEF NoncesOK, NewTree
<1> QED BY <1>6, <1>7, <1>8, <1>9, <1>10 DEF IndInv

\* Every step keeps the invariant, appends to trees only, and lets tips only
\* grow.
LEMMA NextIndInv ==
  ASSUME IndInv, [Next]_vars
  PROVE  /\ IndInv'
         /\ TreesAppend /\ LedgersGrow
         /\ \A n \in Node : blocktree'[n].lasthash # blocktree[n].lasthash =>
              Len(blocktree'[n].lasthash) > Len(blocktree[n].lasthash)
<1>1. TreesAppend /\ blocktree' \in [Node -> Tree(Header)] BY TreesStep
<1>2. /\ LedgersGrow /\ ParentsHeld' /\ TipIsLongest'
      /\ \A n \in Node : blocktree'[n].lasthash # blocktree[n].lasthash =>
           Len(blocktree'[n].lasthash) > Len(blocktree[n].lasthash)
  BY <1>1, TreesKept
<1>3. chan' \in Channels(Message) /\ MessagesOK' BY <1>1, <1>2, MessagesStep
<1>4. ProcessingOK' /\ processingInv' \in [Node -> Seq(Block)] BY <1>2, ProcessingStep
<1>5. MinerOK' BY <1>1, <1>2, MinerStep
<1>6. NoncesOK' BY <1>1, NoncesStep
<1>7. OtherTypes' BY <1>1, OtherTypesStep
<1>8. TypeOK'
  BY <1>1, <1>3, <1>4, <1>7 DEF TypeOK, OtherTypes, Channels, Message, Tree, Block
<1> QED BY <1>1, <1>2, <1>3, <1>4, <1>5, <1>6, <1>8 DEF IndInv

\* The inductive invariant holds throughout.
THEOREM Invariance == Spec => []IndInv
<1>1. IndInv /\ [Next]_vars => IndInv' BY NextIndInv
<1> QED BY <1>1, InitIndInv, PTL DEF Spec

\* Every variable keeps its type: the handlers build only well-formed messages,
\* blocks and candidates.
THEOREM TypeCorrect == Spec => []TypeOK
<1>1. IndInv => TypeOK BY DEF IndInv
<1> QED BY <1>1, Invariance, PTL

\* Every walk along previous hashes stays in the ledger (the assertions of
\* BlockTree's walks cannot fail).
THEOREM ParentsAlwaysHeld == Spec => []ParentsHeld
<1>1. IndInv => ParentsHeld BY DEF IndInv
<1> QED BY <1>1, Invariance, PTL

\* The height and tip that AppendBlock keeps incrementally are those of a
\* longest chain, and stored indexes are heights.
THEOREM TipAlwaysLongest == Spec => []TipIsLongest
<1>1. IndInv => TipIsLongest BY DEF IndInv
<1> QED BY <1>1, Invariance, PTL

\* A block that arrives always fits the tree of its receiver, so AppendBlock
\* never drops one whose transactions have left the pool.
THEOREM ArrivingBlocksFit == Spec => []ArrivingBlockFits
<1>1. IndInv => ArrivingBlockFits
  <2> SUFFICES ASSUME IndInv, NEW n \in Node, NEW s \in Node,
                      NEW m \in ToSet(chan[<<s, n>>]), m.type = "POWBLOCK-BLK"
               PROVE  m.blk # Genesis /\ Prev(m.blk) \in blocktree[n].ledgermap
    BY DEF ArrivingBlockFits, InFlight, ContainBlock
  <2> QED BY DEF IndInv, MessagesOK, MsgOK
<1> QED BY <1>1, Invariance, PTL

\* FindCommonBlock always finds a common block (its assertion cannot fail).
THEOREM CommonBlockAlwaysExists == Spec => []CommonBlockExists
<1>1. IndInv => CommonBlockExists
  <2> SUFFICES ASSUME IndInv, NEW n \in Node, NEW s \in Node,
                      NEW m \in ToSet(chan[<<s, n>>]), m.type = "POWBLOCK-GETBLOCKS"
               PROVE  \E k \in 0..Len(blocktree[n].lasthash) :
                        Ancestor(blocktree[n].lasthash, k) \in ToSet(m.locator)
    BY DEF CommonBlockExists, InFlight
  <2>1. Genesis \in ToSet(m.locator) BY DEF IndInv, MessagesOK, MsgOK
  <2>2. Ancestor(blocktree[n].lasthash, 0) = Genesis BY SubSeqEmpty DEF Ancestor, Genesis
  <2>3. Len(blocktree[n].lasthash) \in Nat BY LenProperties DEF IndInv, TypeOK, Block
  <2>4. 0 \in 0..Len(blocktree[n].lasthash) BY <2>3
  <2> QED BY <2>1, <2>2, <2>4
<1> QED BY <1>1, Invariance, PTL

\* The miner works on the tip or its parent, never on an older block.
THEOREM MinerNeverFarBehind == Spec => []MinerAtMostOneBehind
<1>1. IndInv => MinerAtMostOneBehind BY DEF IndInv, MinerOK, MinerAtMostOneBehind
<1> QED BY <1>1, Invariance, PTL

\* No step loses a block or moves a tip to a chain that is not longer.
THEOREM TipsOnlyGrow == Spec => TipOnlyGrows
<1> DEFINE A == \A n \in Node :
                  /\ blocktree[n].ledgermap \subseteq blocktree'[n].ledgermap
                  /\ blocktree'[n].lasthash # blocktree[n].lasthash =>
                       Len(blocktree'[n].lasthash) > Len(blocktree[n].lasthash)
<1>1. IndInv /\ [Next]_vars => [A]_vars BY NextIndInv DEF LedgersGrow
<1> QED BY <1>1, Invariance, PTL DEF Spec, TipOnlyGrows

\* The two actions that change trees do what LongestChain's steps do: a mined
\* block is new to the network, and a block that arrives is one its sender has.
LEMMA StepImplements ==
  ASSUME IndInv, [Next]_vars
  PROVE  [Abstract!Next]_<< [n \in Node |-> blocktree[n].ledgermap],
                            [n \in Node |-> blocktree[n].lasthash] >>
<1> DEFINE known == [n \in Node |-> blocktree[n].ledgermap]
           tip == [n \in Node |-> blocktree[n].lasthash]
<1>1. /\ TypeOK /\ MessagesOK /\ blocktree \in [Node -> Tree(Header)]
      /\ ParentsHeld /\ TipIsLongest /\ NoncesOK /\ blkPoolSize \in [Node -> Nat]
  BY DEF IndInv, TypeOK, Tree, Block
<1>2. CASE UNCHANGED blocktree
  <2>1. known' = known /\ tip' = tip BY <1>2
  <2> QED BY <2>1
<1>3. ASSUME NEW n \in Node, NEW b \in Block \ {Genesis}, Idx(b) = Len(b),
             Prev(b) \in blocktree[n].ledgermap, b \notin blocktree[n].ledgermap,
             blocktree' = [blocktree EXCEPT ![n] = AppendBlock(blocktree[n], b)],
             \/ \A k \in Node : b \notin blocktree[k].ledgermap
             \/ \E k \in Node \ {n} : b \in blocktree[k].ledgermap
      PROVE  Abstract!Next
  <2> DEFINE t == blocktree[n]
             u == AppendBlock(t, b)
  <2>1. t \in Tree(Header) /\ Rooted(t) /\ Longest(t) BY <1>1 DEF ParentsHeld, TipIsLongest
  <2>2. u.ledgermap = t.ledgermap \cup {b} BY <1>3, <2>1, AppendBlockRooted DEF Block
  <2>3. u.lasthash = IF Len(b) > Len(t.lasthash) THEN b ELSE t.lasthash
    BY <1>3, <2>1, AppendBlockLongest DEF Block
  <2> HIDE DEF u
  <2>4. blocktree' = [blocktree EXCEPT ![n] = u] BY <1>3 DEF u
  <2>5. known' = [known EXCEPT ![n] = known[n] \cup {b}]
    <3>1. \A k \in Node : blocktree'[k].ledgermap = IF k = n THEN t.ledgermap \cup {b}
                                                    ELSE blocktree[k].ledgermap
      BY <1>1, <2>2, <2>4
    <3> QED BY <3>1
  <2>6. tip' = [tip EXCEPT ![n] = IF Len(b) > Len(tip[n]) THEN b ELSE tip[n]]
    <3>1. \A k \in Node : blocktree'[k].lasthash =
            IF k = n THEN (IF Len(b) > Len(t.lasthash) THEN b ELSE t.lasthash)
            ELSE blocktree[k].lasthash
      BY <1>1, <2>3, <2>4
    <3> QED BY <3>1
  <2>7. Abstract!Prev(b) = Prev(b) /\ Abstract!Genesis = Genesis
    BY DEF Abstract!Prev, Prev, Abstract!Genesis, Genesis
  <2>8. Abstract!Adopt(n, b) BY <1>3, <2>5, <2>6, <2>7 DEF Abstract!Adopt
  <2>9. Abstract!Mine(n, b) \/ Abstract!Learn(n, b)
    BY <1>3, <2>8 DEF Abstract!Mine, Abstract!Learn
  <2>10. b \in known'[n] \ known[n] BY <1>3, <2>5
  <2> QED BY <2>9, <2>10 DEF Abstract!Next
<1>4. ASSUME NEW n \in Node, MiningComplete(n) PROVE Abstract!Next
  <2> DEFINE b == minedBlk[n]
  <2>1. /\ b \in Block \ {Genesis} /\ Idx(b) = Len(b)
        /\ Prev(b) \in {blocktree[n].lasthash, Prev(blocktree[n].lasthash)}
        /\ b[Len(b)].nonce = << n, blkPoolSize[n] >>
    BY <1>1, <1>4 DEF MiningComplete, IndInv, TypeOK, MinerOK, NoncesOK
  <2>2. Prev(b) \in blocktree[n].ledgermap
    BY <1>1, <2>1, TipAndParentHeld DEF ParentsHeld
  <2>3. \A k \in Node : b \notin blocktree[k].ledgermap
    <3> SUFFICES ASSUME NEW k \in Node, b \in blocktree[k].ledgermap PROVE FALSE OBVIOUS
    <3>1. b[Len(b)].nonce[2] < blkPoolSize[b[Len(b)].nonce[1]] BY <1>1, <2>1 DEF NoncesOK
    <3> HIDE DEF b
    <3>2. blkPoolSize[n] < blkPoolSize[n] BY <2>1, <3>1
    <3> QED BY <1>1, <3>2
  <2>4. blocktree' = [blocktree EXCEPT ![n] = AppendBlock(blocktree[n], b)]
    BY <1>4 DEF MiningComplete
  <2> HIDE DEF b
  <2> QED BY <1>3, <2>1, <2>2, <2>3, <2>4
<1>5. ASSUME NEW n \in Node, NEW s \in Node, RecvPOWBlockBlk(n, s)
      PROVE  Abstract!Next \/ UNCHANGED blocktree
  <2> DEFINE b == Head(chan[<<s, n>>]).blk
  <2>1. HasMsg(s, n, "POWBLOCK-BLK") BY <1>5 DEF RecvPOWBlockBlk
  <2>2. /\ b \in Block \ {Genesis} /\ b \in blocktree[s].ledgermap
        /\ Prev(b) \in blocktree[n].ledgermap
    BY <1>1, <2>1, ReceivedMessage, MessageFields DEF MsgOK
  <2>3. Idx(b) = Len(b) BY <1>1, <2>2 DEF TipIsLongest, Longest
  <2>4. \/ blocktree' = blocktree
        \/ /\ b \notin blocktree[n].ledgermap
           /\ blocktree' = [blocktree EXCEPT ![n] = AppendBlock(blocktree[n], b)]
    BY <1>1, <1>5 DEF RecvPOWBlockBlk, ContainBlock
  <2> HIDE DEF b
  <2>5. CASE b \notin blocktree[n].ledgermap
    <3>1. s \in Node \ {n} BY <2>2, <2>5
    <3> QED BY <1>3, <2>2, <2>3, <2>4, <2>5, <3>1
  <2> QED BY <2>4, <2>5
<1>6. ASSUME NEW n \in Node, NEW s \in Node, NEW x,
             TxGenTimer(n, x) \/ MiningTimer(n) \/ RecvTxs(n, s) \/ RecvPOWBlockInv(n, s)
      PROVE  UNCHANGED blocktree
  BY <1>6 DEF TxGenTimer, MiningTimer, RecvTxs, RecvPOWBlockInv
<1>7. UNCHANGED blocktree \/ Abstract!Next BY <1>4, <1>5, <1>6, NextKinds DEF Quiet
<1> QED BY <1>2, <1>7

\* The protocol implements LongestChain: with all its messages, timers, stale
\* miners and lost connections, it only ever adopts blocks the way the abstract
\* specification says.
THEOREM Refinement == Spec => ImplementsLongestChain
<1>1. Init => Abstract!Init
  BY DEF Init, Abstract!Init, NewTree, Genesis, Abstract!Genesis
<1>2. IndInv /\ [Next]_vars =>
        [Abstract!Next]_<< [n \in Node |-> blocktree[n].ledgermap],
                           [n \in Node |-> blocktree[n].lasthash] >>
  BY StepImplements
<1> QED BY <1>1, <1>2, Invariance, PTL DEF Spec, ImplementsLongestChain, Abstract!Spec

-----------------------------------------------------------------------------
\* Full blocks.

\* The members of S below t.
Below(S, t) == {u \in S : u < t}

\* The members of S with fewer than k smaller ones are k, unless S has fewer.
LEMMA FirstK ==
  ASSUME NEW S, S \subseteq Nat, IsFiniteSet(S), NEW num \in Nat, num <= Cardinality(S)
  PROVE  Cardinality({t \in S : Cardinality(Below(S, t)) < num}) = num
<1> DEFINE F(k) == {t \in S : Cardinality(Below(S, t)) < k}
           Wrong == {k \in 0..Cardinality(S) : Cardinality(F(k)) # k}
<1>1. Cardinality(S) \in Nat BY FS_CardinalityType
<1>2. ASSUME NEW T, T \subseteq S PROVE IsFiniteSet(T) /\ Cardinality(T) \in Nat
  BY <1>2, FS_Subset, FS_CardinalityType
<1>3. \A t \in S : Below(S, t) \subseteq S /\ Cardinality(Below(S, t)) \in Nat
  <2> TAKE t \in S
  <2>1. Below(S, t) \subseteq S BY DEF Below
  <2> QED BY <1>2, <2>1
<1>4. Wrong = {}
  <2> SUFFICES ASSUME Wrong # {} PROVE FALSE OBVIOUS
  <2>1. PICK k \in Wrong : \A y \in Wrong : k <= y
    <3>1. Wrong \subseteq Nat BY <1>1
    <3> QED BY <3>1, MinNat
  <2>2. k \in 0..Cardinality(S) /\ Cardinality(F(k)) # k OBVIOUS
  <2>3. k # 0
    <3>1. \A c \in Nat : ~ (c < 0) OBVIOUS
    <3>2. \A t \in S : ~ (Cardinality(Below(S, t)) < 0) BY <1>3, <3>1
    <3>3. F(0) = {} BY <3>2
    <3> QED BY <2>2, <3>3, FS_EmptySet
  <2> DEFINE j == k - 1
  <2>4. j \in 0..Cardinality(S) /\ k = j + 1 /\ j < Cardinality(S) /\ j \in Nat /\ j < k
    BY <1>1, <2>2, <2>3
  <2> HIDE DEF j
  <2>5. Cardinality(F(j)) = j
    <3>1. j \notin Wrong BY <2>1, <2>4
    <3> QED BY <2>4, <3>1
  <2>6. F(j) \subseteq S /\ IsFiniteSet(F(j))
    <3>1. F(j) \subseteq S OBVIOUS
    <3> QED BY <1>2, <3>1
  <2>7. S \ F(j) # {}
    <3>1. F(j) # S BY <2>4, <2>5
    <3> QED BY <2>6, <3>1
  <2>8. PICK t \in S \ F(j) : \A y \in S \ F(j) : t <= y
    <3>1. S \ F(j) \subseteq Nat OBVIOUS
    <3> QED BY <2>7, <3>1, MinNat
  <2>9. Cardinality(Below(S, t)) = j
    <3>1. Below(S, t) \subseteq F(j)
      <4> SUFFICES ASSUME NEW u \in S, u < t, u \notin F(j) PROVE FALSE BY DEF Below
      <4>1. t <= u BY <2>8
      <4>2. t \in Nat /\ u \in Nat BY <2>8
      <4> QED BY <4>1, <4>2
    <3>2. Cardinality(Below(S, t)) <= j BY <2>5, <2>6, <3>1, FS_Subset
    <3>3. ~ (Cardinality(Below(S, t)) < j) BY <2>8
    <3>4. Cardinality(Below(S, t)) \in Nat BY <1>3, <2>8
    <3> QED BY <2>4, <3>2, <3>3, <3>4
  <2>10. ASSUME NEW u \in S, u \notin F(j), u # t PROVE u \notin F(k)
    <3>1. t < u
      <4>1. t <= u /\ t \in Nat /\ u \in Nat BY <2>8, <2>10
      <4> QED BY <2>10, <4>1
    <3>2. Below(S, t) \cup {t} \subseteq Below(S, u)
      <4>1. \A w \in S : w < t => w < u
        <5> TAKE w \in S
        <5>1. w \in Nat /\ t \in Nat /\ u \in Nat BY <2>8, <2>10
        <5> QED BY <3>1, <5>1
      <4> QED BY <2>8, <3>1, <4>1 DEF Below
    <3>3. /\ IsFiniteSet(Below(S, t)) /\ t \notin Below(S, t)
          /\ IsFiniteSet(Below(S, u)) /\ Cardinality(Below(S, u)) \in Nat
      <4>1. t \in Nat BY <2>8
      <4>2. ~ (t < t) BY <4>1
      <4> QED BY <1>2, <1>3, <2>8, <2>10, <4>2 DEF Below
    <3>4. Cardinality(Below(S, t) \cup {t}) = j + 1 BY <2>9, <3>3, FS_AddElement
    <3>5. j + 1 <= Cardinality(Below(S, u)) BY <3>2, <3>3, <3>4, FS_Subset
    <3>6. ~ (Cardinality(Below(S, u)) < k) BY <2>4, <3>3, <3>5
    <3> QED BY <3>6
  <2>11. F(j) \subseteq F(k)
    <3>1. \A c \in Nat : c < j => c < k BY <2>4
    <3> QED BY <1>3, <3>1
  <2>12. t \in F(k) BY <2>4, <2>8, <2>9
  <2>13. F(k) = F(j) \cup {t} /\ t \notin F(j)
    <3>1. F(k) \subseteq S OBVIOUS
    <3>2. t \notin F(j) BY <2>8
    <3> HIDE DEF F
    <3> QED BY <2>10, <2>11, <2>12, <3>1, <3>2
  <2> HIDE DEF F
  <2>14. Cardinality(F(k)) = j + 1
    <3>1. Cardinality(F(j) \cup {t}) = Cardinality(F(j)) + 1 BY <2>6, <2>13, FS_AddElement
    <3> QED BY <2>5, <2>13, <3>1
  <2> QED BY <2>2, <2>4, <2>14
<1>5. num \in 0..Cardinality(S) BY <1>1
<1> QED BY <1>4, <1>5

\* GetTxs of a large enough pool answers as many transactions as it was asked for.
LEMMA GetTxsFull ==
  ASSUME NEW pool \in SUBSET Tx, IsFiniteSet(pool), NEW num \in Nat, num <= Cardinality(pool)
  PROVE  Cardinality(GetTxs(pool, num)) = num
<1>1. pool \subseteq Nat BY TxAssumption
<1>2. Cardinality(pool) \in Nat BY FS_CardinalityType
<1>3. GetTxs(pool, num) = {t \in pool : Cardinality(Below(pool, t)) < num}
  BY <1>2 DEF GetTxs, Below
<1> QED BY <1>1, <1>3, FirstK

\* Pools are finite, and so is what one node sends another of its pool.
PoolsFinite == \A n \in Node : IsFiniteSet(txPool[n])
TxsFinite ==
  \A p, q \in Node : \A m \in ToSet(chan[<<p, q>>]) : m.type = "TXGOSSIP-TXS" => IsFiniteSet(m.txs)

\* The candidates, the mined blocks and the blocks of the ledgers are full.
Full(txs) == Cardinality(txs) = TxNumPerBlock
CandidatesFull == \A n \in Node : isMining[n] => Full(candidateBlk[n].txs)
MinedFull == \A n \in Node : minedBlk[n] # Genesis => Full(BlockTxs(minedBlk[n]))
LedgersFull ==
  \A n \in Node : \A b \in blocktree[n].ledgermap : b # Genesis => Full(BlockTxs(b))

FullInv == PoolsFinite /\ TxsFinite /\ CandidatesFull /\ MinedFull /\ LedgersFull

\* A message that is sent keeps TxsFinite unless it carries an infinite set.
LEMMA SendFinite ==
  ASSUME TxsFinite, NEW ch \in Channels(Message),
         \A p, q \in Node : ToSet(ch[<<p, q>>]) \subseteq ToSet(chan[<<p, q>>]),
         NEW n, NEW D, NEW m, m.type = "TXGOSSIP-TXS" => IsFiniteSet(m.txs),
         chan' = ch \/ chan' = Sent(ch, n, D, m)
  PROVE  TxsFinite'
<1>1. ch \in Channels(Message \cup {m}) /\ m \in Message \cup {m}
  <2>1. \A p, q \in Node : ch[<<p, q>>] \in Seq(Message \cup {m})
    <3> TAKE p, q \in Node
    <3>1. ch[<<p, q>>] \in Seq(Message) BY DEF Channels
    <3>2. Message \subseteq Message \cup {m} OBVIOUS
    <3> QED BY <3>1, <3>2, SeqMonotonic
  <2> QED BY <2>1 DEF Channels
<1>2. /\ Sent(ch, n, D, m) \in Channels(Message \cup {m})
      /\ \A p, q \in Node : \A x \in ToSet(Sent(ch, n, D, m)[<<p, q>>]) :
           x \in ToSet(ch[<<p, q>>]) \/ (p = n /\ q \in D /\ x = m)
  BY <1>1, SentMessages
<1>3. \A p, q \in Node : \A x \in ToSet(chan'[<<p, q>>]) : x \in ToSet(chan[<<p, q>>]) \/ x = m
  <2>1. CASE chan' = ch BY <2>1
  <2>2. CASE chan' = Sent(ch, n, D, m) BY <1>2, <2>2
  <2> QED BY <2>1, <2>2
<1> QED BY <1>3 DEF TxsFinite

\* A handler takes a message and may send one.
LEMMA HandlerFinite ==
  ASSUME TypeOK, MessagesOK, TxsFinite, NEW s \in Node, NEW n \in Node, NEW type, HasMsg(s, n, type),
         NEW D, NEW m, m.type = "TXGOSSIP-TXS" => IsFiniteSet(m.txs), TakesAndSends(n, s, D, m)
  PROVE  TxsFinite'
<1>1. /\ Taken(s, n) \in Channels(Message)
      /\ \A p, q \in Node : ToSet(Taken(s, n)[<<p, q>>]) \subseteq ToSet(chan[<<p, q>>])
  BY ReceivedMessage
<1> QED BY <1>1, SendFinite DEF TakesAndSends

\* What each step sends of pools.
LEMMA TxsFiniteStep ==
  ASSUME IndInv, FullInv, [Next]_vars
  PROVE  TxsFinite'
<1>1. TypeOK /\ MessagesOK /\ TxsFinite /\ PoolsFinite /\ chan \in Channels(Message)
  BY DEF IndInv, FullInv, TypeOK, Channels, Message
<1>2. ASSUME UNCHANGED chan PROVE TxsFinite' BY <1>1, <1>2 DEF TxsFinite
<1>3. CASE UNCHANGED vars BY <1>2, <1>3 DEF vars, linkVars
<1>4. ASSUME NEW n \in Node, InitiateProtocol(n) \/ MiningTimer(n) PROVE TxsFinite'
  BY <1>2, <1>4 DEF InitiateProtocol, MiningTimer, linkVars
<1>5. ASSUME NEW n \in Node, NEW t \in Tx, TxGenTimer(n, t) PROVE TxsFinite'
  BY <1>2, <1>5 DEF TxGenTimer, linkVars
<1>6. ASSUME NEW n \in Node, TxBroadcastTimer(n) \/ MiningComplete(n) PROVE TxsFinite'
  <2> DEFINE v == [type |-> "TXGOSSIP-INV", txs |-> txToBroadcast[n]]
             w == [type |-> "POWBLOCK-INV", hashes |-> << minedBlk[n] >>]
  <2>1. chan' = Sent(chan, n, Node, v) \/ chan' = Sent(chan, n, Node, w)
    BY <1>6 DEF TxBroadcastTimer, BroadcastTimer, MiningComplete
  <2>2. v.type # "TXGOSSIP-TXS" /\ w.type # "TXGOSSIP-TXS" OBVIOUS
  <2> HIDE DEF v, w
  <2> QED BY <1>1, <2>1, <2>2, SendFinite
<1>7. ASSUME NEW n \in Node, NEW s \in Node, RecvTxInv(n, s) PROVE TxsFinite'
  <2> DEFINE v == [type |-> "TXGOSSIP-GETDATA", txs |-> Head(chan[<<s, n>>]).txs \ txPool[n]]
  <2>1. HasMsg(s, n, "TXGOSSIP-INV") /\ TakesAndSends(n, s, {s}, v) /\ v.type # "TXGOSSIP-TXS"
    BY <1>7 DEF RecvTxInv, RecvInventoryHandler, TakesAndSends
  <2> HIDE DEF v
  <2> QED BY <1>1, <2>1, HandlerFinite
<1>8. ASSUME NEW n \in Node, NEW s \in Node, RecvTxGetdata(n, s) PROVE TxsFinite'
  <2> DEFINE held == Head(chan[<<s, n>>]).txs \cap txPool[n]
             v == [type |-> "TXGOSSIP-TXS", txs |-> held]
  <2>1. HasMsg(s, n, "TXGOSSIP-GETDATA") /\ TakesAndSends(n, s, {s}, v)
    BY <1>8 DEF RecvTxGetdata, RecvGetdataHandler, TakesAndSends
  <2>2. IsFiniteSet(v.txs)
    <3>1. IsFiniteSet(txPool[n]) /\ held \subseteq txPool[n] BY <1>1 DEF PoolsFinite
    <3> QED BY <3>1, FS_Subset
  <2> HIDE DEF v
  <2> QED BY <1>1, <2>1, <2>2, HandlerFinite
<1>9. ASSUME NEW n \in Node, NEW s \in Node, RecvTxs(n, s) PROVE TxsFinite'
  <2> DEFINE v == [type |-> "TXGOSSIP-INV", txs |-> Head(chan[<<s, n>>]).txs]
  <2>1. HasMsg(s, n, "TXGOSSIP-TXS") /\ TakesAndSends(n, s, Node \ {s}, v) /\ v.type # "TXGOSSIP-TXS"
    BY <1>9 DEF RecvTxs, RecvTxsHandler, TakesAndSends
  <2> HIDE DEF v
  <2> QED BY <1>1, <2>1, HandlerFinite
<1>10. ASSUME NEW n \in Node, NEW s \in Node,
              \/ RecvPOWBlockInv(n, s) \/ RecvPOWBlockGetBlocks(n, s)
              \/ RecvPOWBlockGetData(n, s) \/ RecvPOWBlockBlk(n, s)
       PROVE  TxsFinite'
  <2>1. \E t \in {"POWBLOCK-INV", "POWBLOCK-GETBLOCKS", "POWBLOCK-GETDATA", "POWBLOCK-BLK"} :
          HasMsg(s, n, t)
    BY <1>10 DEF RecvPOWBlockInv, RecvPOWBlockGetBlocks, RecvPOWBlockGetData, RecvPOWBlockBlk
  <2> DEFINE Inv(x) == [type |-> "POWBLOCK-INV", hashes |-> x]
             Chain(x) == [type |-> "POWBLOCK-GETBLOCKS", locator |-> x]
             Ask(x) == [type |-> "POWBLOCK-GETDATA", hash |-> x]
             Answer(x) == [type |-> "POWBLOCK-BLK", blk |-> x]
  <2>2. \E x, D : \/ TakesAndSends(n, s, D, Inv(x)) \/ TakesAndSends(n, s, D, Chain(x))
                  \/ TakesAndSends(n, s, D, Ask(x)) \/ TakesAndSends(n, s, D, Answer(x))
    <3>1. CASE RecvPOWBlockInv(n, s)
      BY <3>1 DEF RecvPOWBlockInv, TakesAndSends
    <3>2. CASE RecvPOWBlockGetBlocks(n, s)
      BY <3>2 DEF RecvPOWBlockGetBlocks, TakesAndSends
    <3>3. CASE RecvPOWBlockGetData(n, s)
      BY <3>3 DEF RecvPOWBlockGetData, TakesAndSends
    <3>4. CASE RecvPOWBlockBlk(n, s)
      BY <3>4 DEF RecvPOWBlockBlk, TakesAndSends
    <3> QED BY <1>10, <3>1, <3>2, <3>3, <3>4
  <2>3. \A x : /\ Inv(x).type # "TXGOSSIP-TXS" /\ Chain(x).type # "TXGOSSIP-TXS"
               /\ Ask(x).type # "TXGOSSIP-TXS" /\ Answer(x).type # "TXGOSSIP-TXS"
    OBVIOUS
  <2> HIDE DEF Inv, Chain, Ask, Answer
  <2>4. \E D, m : TakesAndSends(n, s, D, m) /\ m.type # "TXGOSSIP-TXS" BY <2>2, <2>3
  <2> QED BY <1>1, <2>1, <2>4, HandlerFinite
<1>11. ASSUME NEW n \in Node, NEW s \in Node, PeerConnected(n, s) \/ PeerNotified(n, s) \/ PeerLost(n, s)
       PROVE  TxsFinite'
  <2>1. CASE LinkUp(n, s)
    <3> DEFINE v == [type |-> "notifyPeerId"]
    <3>1. chan' = Put(chan, n, {s}, v) /\ v.type # "TXGOSSIP-TXS" /\ v \in Message
      BY <2>1 DEF LinkUp, Message, LinkMessage
    <3> HIDE DEF v
    <3>2. /\ chan' \in Channels(Message)
          /\ \A p, q \in Node : \A x \in ToSet(chan'[<<p, q>>]) :
               x \in ToSet(chan[<<p, q>>]) \/ (p = n /\ q \in {s} /\ x = v)
      BY <1>1, <3>1, PutMessages
    <3> QED BY <1>1, <3>1, <3>2 DEF TxsFinite
  <2>2. CASE LinkNotify(n, s)
    <3>1. chan[<<s, n>>] # << >> /\ chan' = Taken(s, n) BY <2>2 DEF LinkNotify, HasMsg
    <3>2. \A p, q \in Node : ToSet(chan'[<<p, q>>]) \subseteq ToSet(chan[<<p, q>>])
      BY <1>1, <3>1, TakenMessages
    <3> QED BY <1>1, <3>2 DEF TxsFinite
  <2>3. CASE LinkDown(n, s) BY <1>1, <2>3, DownMessages DEF TxsFinite
  <2> QED BY <1>11, <2>1, <2>2, <2>3 DEF PeerConnected, PeerNotified, PeerLost
<1> QED BY <1>3, <1>4, <1>5, <1>6, <1>7, <1>8, <1>9, <1>10, <1>11 DEF Next, RecvMsg

\* Pools only gain single transactions and the finite sets that arrive.
LEMMA PoolsFiniteStep ==
  ASSUME IndInv, FullInv, [Next]_vars
  PROVE  PoolsFinite'
<1>1. TypeOK /\ MessagesOK /\ TxsFinite /\ PoolsFinite /\ txPool \in [Node -> SUBSET Tx]
  BY DEF IndInv, FullInv, TypeOK
<1>2. ASSUME UNCHANGED txPool PROVE PoolsFinite' BY <1>1, <1>2 DEF PoolsFinite
<1>3. ASSUME NEW n \in Node, NEW S, IsFiniteSet(S), txPool' = [txPool EXCEPT ![n] = S]
      PROVE  PoolsFinite'
  BY <1>1, <1>3 DEF PoolsFinite
<1>4. ASSUME NEW n \in Node, NEW S, txPool' = [txPool EXCEPT ![n] = txPool[n] \ S] PROVE PoolsFinite'
  <2>1. IsFiniteSet(txPool[n]) /\ txPool[n] \ S \subseteq txPool[n] BY <1>1 DEF PoolsFinite
  <2>2. IsFiniteSet(txPool[n] \ S) BY <2>1, FS_Subset
  <2> QED BY <1>3, <1>4, <2>2
<1>5. CASE UNCHANGED vars BY <1>2, <1>5 DEF vars, txVars
<1>6. ASSUME NEW n \in Node, InitiateProtocol(n) \/ MiningTimer(n) \/ TxBroadcastTimer(n) PROVE PoolsFinite'
  BY <1>2, <1>6 DEF InitiateProtocol, MiningTimer, TxBroadcastTimer, BroadcastTimer, txVars
<1>7. ASSUME NEW n \in Node, NEW t \in Tx, TxGenTimer(n, t) PROVE PoolsFinite'
  <2>1. IsFiniteSet(txPool[n] \cup {t}) BY <1>1, FS_AddElement DEF PoolsFinite
  <2>2. txPool' = [txPool EXCEPT ![n] = txPool[n] \cup {t}] BY <1>7 DEF TxGenTimer, GenerateTx
  <2> QED BY <1>3, <2>1, <2>2
<1>8. ASSUME NEW n \in Node, MiningComplete(n) PROVE PoolsFinite' BY <1>4, <1>8 DEF MiningComplete
<1>9. ASSUME NEW n \in Node, NEW s \in Node, RecvTxs(n, s) PROVE PoolsFinite'
  <2> DEFINE m == Head(chan[<<s, n>>])
  <2>1. HasMsg(s, n, "TXGOSSIP-TXS") /\ txPool' = [txPool EXCEPT ![n] = txPool[n] \cup m.txs]
    BY <1>9 DEF RecvTxs, RecvTxsHandler
  <2>2. m \in ToSet(chan[<<s, n>>]) /\ m.type = "TXGOSSIP-TXS"
    BY <1>1, <2>1, TakenMessages DEF HasMsg, TypeOK, Channels, Message
  <2>3. IsFiniteSet(m.txs) BY <1>1, <2>2 DEF TxsFinite
  <2>4. IsFiniteSet(txPool[n] \cup m.txs) BY <1>1, <2>3, FS_Union DEF PoolsFinite
  <2> QED BY <1>3, <2>1, <2>4
<1>10. ASSUME NEW n \in Node, NEW s \in Node, RecvPOWBlockBlk(n, s) PROVE PoolsFinite'
  <2>1. \E S : txPool' = [txPool EXCEPT ![n] = txPool[n] \ S]
    <3> DEFINE b == Head(chan[<<s, n>>]).blk
    <3>1. txPool' = [txPool EXCEPT ![n] = IF ~ ContainBlock(blocktree[n], b)
                                          THEN txPool[n] \ BlockTxs(b) ELSE txPool[n]]
      BY <1>10 DEF RecvPOWBlockBlk
    <3>2. txPool[n] = txPool[n] \ {} OBVIOUS
    <3> HIDE DEF b
    <3> QED BY <3>1, <3>2
  <2> QED BY <1>4, <2>1
<1>11. ASSUME NEW n \in Node, NEW s \in Node,
              \/ RecvTxInv(n, s) \/ RecvTxGetdata(n, s) \/ RecvPOWBlockInv(n, s)
              \/ RecvPOWBlockGetBlocks(n, s) \/ RecvPOWBlockGetData(n, s)
              \/ PeerConnected(n, s) \/ PeerNotified(n, s) \/ PeerLost(n, s)
       PROVE  PoolsFinite'
  BY <1>2, <1>11
  DEF RecvTxInv, RecvInventoryHandler, RecvTxGetdata, RecvGetdataHandler, RecvPOWBlockInv,
      RecvPOWBlockGetBlocks, RecvPOWBlockGetData, PeerConnected, PeerNotified, PeerLost, txVars
<1> QED BY <1>5, <1>6, <1>7, <1>8, <1>9, <1>10, <1>11 DEF Next, RecvMsg

\* A start of the miner finds enough transactions for the candidate.
LEMMA StartMiningFull ==
  ASSUME TypeOK, NEW n \in Node, NEW t, NEW pool \in SUBSET Tx, IsFiniteSet(pool),
         CandidatesFull, StartMiningIfPending(n, t, pool)
  PROVE  CandidatesFull'
<1> DEFINE c == MakeCandidateBlock(t, pool)
<1>1. isMining \in [Node -> BOOLEAN] /\ candidateBlk \in [Node -> Candidate] BY DEF TypeOK
<1>2. CASE Cardinality(pool) >= TxNumPerBlock
  <2>1. TxNumPerBlock \in Nat /\ Cardinality(pool) \in Nat BY PoWAssumption, FS_CardinalityType
  <2>2. TxNumPerBlock <= Cardinality(pool) BY <1>2, <2>1
  <2>3. Full(GetTxs(pool, TxNumPerBlock)) BY <2>1, <2>2, GetTxsFull DEF Full
  <2>4. Full(c.txs) BY <2>3 DEF MakeCandidateBlock
  <2>5. isMining' = [isMining EXCEPT ![n] = TRUE] /\ candidateBlk' = [candidateBlk EXCEPT ![n] = c]
    BY <1>2 DEF StartMiningIfPending
  <2> HIDE DEF c
  <2> QED BY <1>1, <2>4, <2>5 DEF CandidatesFull
<1>3. CASE ~ (Cardinality(pool) >= TxNumPerBlock)
  <2>1. /\ isMining' = [isMining EXCEPT ![n] = FALSE]
        /\ candidateBlk' = [candidateBlk EXCEPT ![n] = NoCandidate]
    BY <1>3 DEF StartMiningIfPending
  <2> QED BY <1>1, <2>1 DEF CandidatesFull
<1> QED BY <1>2, <1>3

\* The candidates of a step.
LEMMA CandidatesFullStep ==
  ASSUME IndInv, FullInv, [Next]_vars, PoolsFinite'
  PROVE  CandidatesFull'
<1>1. /\ TypeOK /\ MessagesOK /\ CandidatesFull /\ PoolsFinite
      /\ isMining \in [Node -> BOOLEAN] /\ txPool \in [Node -> SUBSET Tx]
  BY DEF IndInv, FullInv, TypeOK
<1>2. txPool' \in [Node -> SUBSET Tx] BY NextIndInv DEF IndInv, TypeOK
<1>3. ASSUME UNCHANGED mineVars PROVE CandidatesFull' BY <1>1, <1>3 DEF CandidatesFull, mineVars
<1>4. ASSUME NEW n \in Node, NEW t, StartMiningIfPending(n, t, txPool'[n]) PROVE CandidatesFull'
  <2>1. txPool'[n] \in SUBSET Tx /\ IsFiniteSet(txPool'[n]) BY <1>2 DEF PoolsFinite
  <2> DEFINE pool == txPool'[n]
  <2>2. pool \in SUBSET Tx /\ IsFiniteSet(pool) /\ StartMiningIfPending(n, t, pool) BY <1>4, <2>1
  <2> HIDE DEF pool
  <2> QED BY <1>1, <2>2, StartMiningFull
<1>5. CASE Quiet BY <1>3, <1>5 DEF Quiet, mineVars
<1>6. ASSUME NEW n \in Node, NEW t \in Tx, TxGenTimer(n, t) PROVE CandidatesFull'
  <2>1. txPool'[n] = txPool[n] \cup {t} BY <1>1, <1>6 DEF TxGenTimer, GenerateTx
  <2>2. UNCHANGED mineVars \/ StartMiningIfPending(n, blocktree[n], txPool[n] \cup {t})
    BY <1>6 DEF TxGenTimer, StartMiningIfIdle
  <2> QED BY <1>3, <1>4, <2>1, <2>2
<1>7. ASSUME NEW n \in Node, MiningTimer(n) PROVE CandidatesFull'
  BY <1>1, <1>7 DEF CandidatesFull, MiningTimer, TypeOK
<1>8. ASSUME NEW n \in Node, MiningComplete(n) PROVE CandidatesFull'
  BY <1>3, <1>8 DEF MiningComplete
<1>9. ASSUME NEW n \in Node, NEW s \in Node, RecvTxs(n, s) PROVE CandidatesFull'
  <2> DEFINE txs == Head(chan[<<s, n>>]).txs
  <2>1. txPool'[n] = txPool[n] \cup txs BY <1>1, <1>9 DEF RecvTxs, RecvTxsHandler
  <2>2. UNCHANGED mineVars \/ StartMiningIfPending(n, blocktree[n], txPool[n] \cup txs)
    BY <1>9 DEF RecvTxs, StartMiningIfIdle
  <2> HIDE DEF txs
  <2> QED BY <1>3, <1>4, <2>1, <2>2
<1>10. ASSUME NEW n \in Node, NEW s \in Node, RecvPOWBlockInv(n, s) PROVE CandidatesFull'
  BY <1>3, <1>10 DEF RecvPOWBlockInv
<1>11. ASSUME NEW n \in Node, NEW s \in Node, RecvPOWBlockBlk(n, s) PROVE CandidatesFull'
  <2> DEFINE b == Head(chan[<<s, n>>]).blk
             new == ~ ContainBlock(blocktree[n], b)
             tree == IF new THEN AppendBlock(blocktree[n], b) ELSE blocktree[n]
             pool == IF new THEN txPool[n] \ BlockTxs(b) ELSE txPool[n]
  <2>1. /\ txPool' = [txPool EXCEPT ![n] = pool]
        /\ UNCHANGED mineVars \/ StartMiningIfPending(n, tree, pool)
    BY <1>11 DEF RecvPOWBlockBlk
  <2> HIDE DEF tree, pool
  <2>2. txPool'[n] = pool BY <1>1, <2>1
  <2> QED BY <1>3, <1>4, <2>1, <2>2
<1> QED BY <1>5, <1>6, <1>7, <1>8, <1>9, <1>10, <1>11, NextKinds

\* The transactions of a mined block are those of its candidate.
LEMMA MinedBlockTxs ==
  ASSUME NEW c \in Candidate, NEW v
  PROVE  BlockTxs(MinedBlock(c, v)) = c.txs
<1> DEFINE h == [nonce |-> v, idx |-> c.idx, txs |-> c.txs]
           p == c.prev
           b == Append(p, h)
<1>1. p \in Seq(Header \cup {h}) /\ h \in Header \cup {h} /\ h.txs = c.txs
  <2>1. p \in Seq(Header) /\ Header \subseteq Header \cup {h} BY DEF Candidate, Block
  <2>2. p \in Seq(Header \cup {h}) BY <2>1, SeqMonotonic
  <2> QED BY <2>2
<1>2. MinedBlock(c, v) = b BY DEF MinedBlock
<1> HIDE DEF h, p
<1>3. Len(b) = Len(p) + 1 /\ b[Len(p) + 1] = h BY <1>1, AppendProperties
<1> HIDE DEF b
<1> QED BY <1>1, <1>2, <1>3 DEF BlockTxs

\* The mined blocks and the ledgers of a step: what enters a ledger is mined
\* here or comes from the ledger of the sender.
LEMMA BlocksFullStep ==
  ASSUME IndInv, FullInv, [Next]_vars
  PROVE  MinedFull' /\ LedgersFull'
<1>1. /\ TypeOK /\ MessagesOK /\ ParentsHeld /\ CandidatesFull /\ MinedFull /\ LedgersFull
      /\ candidateBlk \in [Node -> Candidate] /\ minedBlk \in [Node -> Block]
      /\ blocktree \in [Node -> Tree(Header)]
  BY DEF IndInv, FullInv, TypeOK, Tree, Block
<1>2. ASSUME UNCHANGED blocktree PROVE LedgersFull' BY <1>1, <1>2 DEF LedgersFull
<1>3. ASSUME UNCHANGED minedBlk PROVE MinedFull' BY <1>1, <1>3 DEF MinedFull
<1>4. ASSUME NEW n \in Node, NEW b \in Block, Full(BlockTxs(b)),
             blocktree' = [blocktree EXCEPT ![n] = AppendBlock(blocktree[n], b)]
      PROVE  LedgersFull'
  <2>1. AppendBlock(blocktree[n], b).ledgermap \subseteq blocktree[n].ledgermap \cup {b}
    BY <1>1, AppendBlockRooted DEF ParentsHeld, Block
  <2>2. \A k \in Node : \A x \in blocktree'[k].ledgermap : x \in blocktree[k].ledgermap \/ x = b
    BY <1>1, <1>4, <2>1
  <2> QED BY <1>1, <1>4, <2>2 DEF LedgersFull
<1>5. CASE Quiet BY <1>2, <1>3, <1>5 DEF Quiet
<1>6. ASSUME NEW n \in Node, NEW s \in Node, NEW x,
             TxGenTimer(n, x) \/ RecvTxs(n, s) \/ RecvPOWBlockInv(n, s)
      PROVE  MinedFull' /\ LedgersFull'
  BY <1>2, <1>3, <1>6 DEF TxGenTimer, RecvTxs, RecvPOWBlockInv
<1>7. ASSUME NEW n \in Node, MiningTimer(n) PROVE MinedFull' /\ LedgersFull'
  <2> DEFINE b == MinedBlock(candidateBlk[n], << n, blkPoolSize[n] >>)
  <2>1. Full(candidateBlk[n].txs) BY <1>1, <1>7 DEF MiningTimer, CandidatesFull
  <2>2. Full(BlockTxs(b)) BY <1>1, <2>1, MinedBlockTxs
  <2>3. UNCHANGED blocktree /\ minedBlk' = [minedBlk EXCEPT ![n] = b] BY <1>7 DEF MiningTimer
  <2> HIDE DEF b
  <2>4. MinedFull' BY <1>1, <2>2, <2>3 DEF MinedFull
  <2> QED BY <1>2, <2>3, <2>4
<1>8. ASSUME NEW n \in Node, MiningComplete(n) PROVE MinedFull' /\ LedgersFull'
  <2> DEFINE b == minedBlk[n]
  <2>1. b \in Block /\ Full(BlockTxs(b)) BY <1>1, <1>8 DEF MiningComplete, MinedFull
  <2>2. /\ blocktree' = [blocktree EXCEPT ![n] = AppendBlock(blocktree[n], b)]
        /\ minedBlk' = [minedBlk EXCEPT ![n] = Genesis]
    BY <1>8 DEF MiningComplete
  <2> HIDE DEF b
  <2>3. MinedFull' BY <1>1, <2>2 DEF MinedFull
  <2> QED BY <1>4, <2>1, <2>2, <2>3
<1>9. ASSUME NEW n \in Node, NEW s \in Node, RecvPOWBlockBlk(n, s) PROVE MinedFull' /\ LedgersFull'
  <2> DEFINE b == Head(chan[<<s, n>>]).blk
  <2>1. HasMsg(s, n, "POWBLOCK-BLK") /\ UNCHANGED minedBlk BY <1>9 DEF RecvPOWBlockBlk
  <2>2. b \in Block /\ b # Genesis /\ b \in blocktree[s].ledgermap
    BY <1>1, <2>1, ReceivedMessage, MessageFields DEF MsgOK
  <2>3. Full(BlockTxs(b)) BY <1>1, <2>2 DEF LedgersFull
  <2>4. blocktree' = [blocktree EXCEPT ![n] = AppendBlock(blocktree[n], b)] \/ blocktree' = blocktree
    BY <1>1, <1>9 DEF RecvPOWBlockBlk
  <2> HIDE DEF b
  <2> QED BY <1>2, <1>3, <1>4, <2>1, <2>2, <2>3, <2>4
<1> QED BY <1>5, <1>6, <1>7, <1>8, <1>9, NextKinds

\* Pools are empty and there are no blocks at the start.
LEMMA InitFullInv == Init => FullInv
<1> SUFFICES ASSUME Init PROVE FullInv OBVIOUS
<1>1. PoolsFinite BY FS_EmptySet DEF Init, TxInit, PoolsFinite
<1>2. TxsFinite BY DEF Init, LinkInit, TxsFinite, ToSet
<1>3. CandidatesFull /\ MinedFull BY DEF Init, CandidatesFull, MinedFull
<1>4. LedgersFull BY DEF Init, LedgersFull, NewTree
<1> QED BY <1>1, <1>2, <1>3, <1>4 DEF FullInv

\* Every block carries exactly TxNumPerBlock transactions: whenever the miner
\* starts the pool it counts is the pool it takes from, and no later handler
\* changes the candidate.
THEOREM BlocksAlwaysFull == Spec => []BlocksFull
<1>1. IndInv /\ FullInv /\ [Next]_vars => FullInv'
  <2> SUFFICES ASSUME IndInv, FullInv, [Next]_vars PROVE FullInv' OBVIOUS
  <2>1. PoolsFinite' BY PoolsFiniteStep
  <2>2. TxsFinite' BY TxsFiniteStep
  <2>3. CandidatesFull' BY <2>1, CandidatesFullStep
  <2>4. MinedFull' /\ LedgersFull' BY BlocksFullStep
  <2> QED BY <2>1, <2>2, <2>3, <2>4 DEF FullInv
<1>2. FullInv => BlocksFull
  BY DEF FullInv, CandidatesFull, LedgersFull, Full, BlocksFull
<1> QED BY <1>1, <1>2, InitFullInv, Invariance, PTL DEF Spec

-----------------------------------------------------------------------------
(* The block requests: a node never has two under way, and a request only  *)
(* reaches a peer that has the block.                                      *)

\* The inductive invariant.

\* The types of a block request: the question and its answer.
RequestType == {"POWBLOCK-GETDATA", "POWBLOCK-BLK"}

\* No message of type t is in the channel c; at most one is.
None(c, t) == \A m \in ToSet(c) : m.type # t
Single(c, t) == \A i, j \in DOMAIN c : c[i].type = t /\ c[j].type = t => i = j

\* In the channels ch neither a question of n to s nor its answer is under way.
Idle(ch, n, s) == None(ch[<<n, s>>], "POWBLOCK-GETDATA") /\ None(ch[<<s, n>>], "POWBLOCK-BLK")

\* Node n has no request under way.
Settled(ch, n) == \A s \in Node : Idle(ch, n, s)

\* Node n has at most one request under way: with one peer, and as one message.
AtMostOne(ch, n) ==
  /\ \A s \in Node : /\ Single(ch[<<n, s>>], "POWBLOCK-GETDATA")
                     /\ Single(ch[<<s, n>>], "POWBLOCK-BLK")
                     /\ None(ch[<<n, s>>], "POWBLOCK-GETDATA") \/ None(ch[<<s, n>>], "POWBLOCK-BLK")
  /\ \A s, q \in Node : s # q => Idle(ch, n, s) \/ Idle(ch, n, q)

\* The peer s has every block of the inventory that n processes.
HasInventory(n, s) ==
  \A i \in 1..Len(processingInv[n]) : processingInv[n][i] \in blocktree[s].ledgermap

\* A request runs with a peer that has the whole inventory, and asks for a
\* block of the inventory.
RequestOK(n) ==
  /\ AtMostOne(chan, n)
  /\ \A s \in Node : ~ Idle(chan, n, s) => processingInv[n] # << >> /\ HasInventory(n, s)
  /\ \A s \in Node : \A m \in ToSet(chan[<<n, s>>]) : m.type = "POWBLOCK-GETDATA" =>
       \E i \in 1..Len(processingInv[n]) : m.hash = processingInv[n][i]

RequestInv == \A n \in Node : RequestOK(n)

-----------------------------------------------------------------------------
\* What becomes of the messages of one type in a channel.

\* Taking the head leaves at most one, and none if the head was the one.
LEMMA TailSingle ==
  ASSUME NEW M, NEW c \in Seq(M), c # << >>, NEW t, Single(c, t)
  PROVE  Single(Tail(c), t) /\ (Head(c).type = t => None(Tail(c), t))
<1> DEFINE d == Tail(c)
<1>1. /\ d \in Seq(M) /\ Len(d) = Len(c) - 1 /\ \A i \in 1..Len(d) : d[i] = c[i + 1]
      /\ Len(c) \in Nat \ {0} /\ DOMAIN c = 1..Len(c)
  BY HeadTailProperties, EmptySeq, LenProperties
<1>2. DOMAIN d = 1..Len(d) BY <1>1, LenProperties
<1>3. Head(c) = c[1] BY <1>1
<1> HIDE DEF d
<1>4. \A i \in 1..Len(d) : i + 1 \in DOMAIN c /\ i \in Nat /\ 1 \in DOMAIN c BY <1>1
<1>5. Single(d, t)
  <2> SUFFICES ASSUME NEW i \in 1..Len(d), NEW j \in 1..Len(d), d[i].type = t, d[j].type = t
               PROVE  i = j
    BY <1>2 DEF Single
  <2>1. i + 1 = j + 1 BY <1>1, <1>4 DEF Single
  <2> QED BY <1>4, <2>1
<1>6. ASSUME c[1].type = t, NEW i \in 1..Len(d) PROVE d[i].type # t
  <2>1. i + 1 # 1 BY <1>4
  <2> QED BY <1>1, <1>4, <1>6, <2>1 DEF Single
<1>7. c[1].type = t => None(d, t) BY <1>2, <1>6 DEF None, ToSet
<1> QED BY <1>3, <1>5, <1>7 DEF d

\* Appending another message leaves at most one; appending one leaves at most
\* one if there was none.
LEMMA AppendSingle ==
  ASSUME NEW M, NEW c \in Seq(M), NEW m \in M, NEW t
  PROVE  /\ Single(c, t) /\ m.type # t => Single(Append(c, m), t)
         /\ None(c, t) => Single(Append(c, m), t)
<1> DEFINE d == Append(c, m)
<1>1. /\ d \in Seq(M) /\ Len(d) = Len(c) + 1
      /\ \A i \in 1..Len(c) : d[i] = c[i] /\ d[Len(c) + 1] = m
      /\ d[Len(c) + 1] = m /\ Len(c) \in Nat /\ DOMAIN c = 1..Len(c)
  BY AppendProperties, LenProperties
<1>2. DOMAIN d = 1..Len(d) BY <1>1, LenProperties
<1> HIDE DEF d
<1>3. \A i \in DOMAIN d : (i \in DOMAIN c /\ d[i] = c[i]) \/ (i = Len(c) + 1 /\ d[i] = m)
  BY <1>1, <1>2
<1>4. ASSUME Single(c, t), m.type # t PROVE Single(d, t) BY <1>3, <1>4 DEF Single
<1>5. ASSUME None(c, t) PROVE Single(d, t)
  <2>1. \A i \in DOMAIN c : c[i].type # t BY <1>5 DEF None, ToSet
  <2> QED BY <1>3, <2>1 DEF Single
<1> QED BY <1>4, <1>5 DEF d

\* So does a prefix.
LEMMA PrefixSingle ==
  ASSUME NEW M, NEW c \in Seq(M), NEW k \in 0..Len(c), NEW t, Single(c, t)
  PROVE  Single(SubSeq(c, 1, k), t)
<1> DEFINE d == SubSeq(c, 1, k)
<1>1. /\ Len(c) \in Nat /\ DOMAIN c = 1..Len(c) /\ k \in Int /\ 1 \in Int
      /\ \A x \in 1..k : c[x] \in M
  BY LenProperties
<1>2. /\ d \in Seq(M) /\ Len(d) = IF 1 <= k THEN k - 1 + 1 ELSE 0
      /\ \A x \in 1..(k - 1 + 1) : d[x] = c[1 + x - 1]
  BY <1>1, SubSeqProperties
<1>3. DOMAIN d = 1..Len(d) BY <1>2, LenProperties
<1> HIDE DEF d
<1>4. \A x \in DOMAIN d : x \in DOMAIN c /\ d[x] = c[x] BY <1>1, <1>2, <1>3
<1> QED BY <1>4 DEF Single, d

-----------------------------------------------------------------------------
\* What becomes of the requests of a node.

\* The channels d have no more block requests than ch.
Quieter(ch, d) ==
  \A p, q \in Node : \A t \in RequestType :
    /\ None(ch[<<p, q>>], t) => None(d[<<p, q>>], t)
    /\ Single(ch[<<p, q>>], t) => Single(d[<<p, q>>], t)

\* In quieter channels a node still has at most one request, and an idle peer
\* stays idle.
LEMMA QuieterKeeps ==
  ASSUME NEW ch, NEW d, Quieter(ch, d), NEW n \in Node
  PROVE  /\ \A s \in Node : Idle(ch, n, s) => Idle(d, n, s)
         /\ Settled(ch, n) => Settled(d, n)
         /\ AtMostOne(ch, n) => AtMostOne(d, n)
<1>1. \A s \in Node : Idle(ch, n, s) => Idle(d, n, s) BY DEF Quieter, Idle, RequestType
<1>2. AtMostOne(ch, n) => AtMostOne(d, n)
  BY <1>1 DEF AtMostOne, Quieter, RequestType
<1> QED BY <1>1, <1>2 DEF Settled

\* Two steps that add no request add none together.
LEMMA QuieterTransitive ==
  ASSUME NEW ch, NEW d, NEW e, Quieter(ch, d), Quieter(d, e)
  PROVE  Quieter(ch, e)
BY DEF Quieter

\* A handler takes a message.
LEMMA TakenQuieter ==
  ASSUME chan \in Channels(Message), NEW s \in Node, NEW n \in Node, chan[<<s, n>>] # << >>
  PROVE  Quieter(chan, Taken(s, n))
<1>1. \A p, q \in Node : ToSet(Taken(s, n)[<<p, q>>]) \subseteq ToSet(chan[<<p, q>>])
  BY TakenMessages
<1>2. chan[<<s, n>>] \in Seq(Message) BY DEF Channels
<1>3. ASSUME NEW p \in Node, NEW q \in Node, NEW t, Single(chan[<<p, q>>], t)
      PROVE  Single(Taken(s, n)[<<p, q>>], t)
  <2>1. CASE <<p, q>> = <<s, n>>
    <3>1. Taken(s, n)[<<p, q>>] = Tail(chan[<<s, n>>]) BY <2>1 DEF Taken, Channels
    <3> QED BY <1>2, <1>3, <2>1, <3>1, TailSingle
  <2>2. CASE <<p, q>> # <<s, n>>
    <3>1. Taken(s, n)[<<p, q>>] = chan[<<p, q>>] BY <2>2 DEF Taken, Channels
    <3> QED BY <1>3, <3>1
  <2> QED BY <2>1, <2>2
<1> QED BY <1>1, <1>3 DEF Quieter, None

\* The request whose message is taken is settled.
LEMMA TakenSettles ==
  ASSUME chan \in Channels(Message), NEW s \in Node, NEW n \in Node
  PROVE  /\ HasMsg(s, n, "POWBLOCK-GETDATA") /\ AtMostOne(chan, s) => Settled(Taken(s, n), s)
         /\ HasMsg(s, n, "POWBLOCK-BLK") /\ AtMostOne(chan, n) => Settled(Taken(s, n), n)
<1> DEFINE c == chan[<<s, n>>]
           d == Taken(s, n)
<1>0. c \in Seq(Message) BY DEF Channels
<1>1. ASSUME NEW t, HasMsg(s, n, t), Single(c, t)
      PROVE  /\ Quieter(chan, d) /\ ~ None(c, t) /\ None(d[<<s, n>>], t)
  <2>1. c # << >> /\ Head(c).type = t BY <1>1 DEF HasMsg
  <2>2. Quieter(chan, d) /\ Head(c) \in ToSet(c) BY <2>1, TakenQuieter, TakenMessages
  <2>3. d[<<s, n>>] = Tail(c) BY DEF Taken, Channels
  <2>4. None(Tail(c), t) BY <1>0, <1>1, <2>1, TailSingle
  <2> QED BY <2>1, <2>2, <2>3, <2>4 DEF None
<1> HIDE DEF c, d
<1>2. ASSUME HasMsg(s, n, "POWBLOCK-GETDATA"), AtMostOne(chan, s) PROVE Settled(d, s)
  <2>1. /\ Quieter(chan, d) /\ ~ None(c, "POWBLOCK-GETDATA") /\ None(d[<<s, n>>], "POWBLOCK-GETDATA")
    BY <1>1, <1>2 DEF AtMostOne, c
  <2>2. ~ Idle(chan, s, n) BY <2>1 DEF Idle, c
  <2>3. \A q \in Node : q # n => Idle(d, s, q)
    <3>1. \A q \in Node : q # n => Idle(chan, s, q) BY <1>2, <2>2 DEF AtMostOne
    <3> QED BY <2>1, <3>1, QuieterKeeps
  <2>4. None(chan[<<n, s>>], "POWBLOCK-BLK") BY <1>2, <2>1 DEF AtMostOne, c
  <2>5. None(d[<<n, s>>], "POWBLOCK-BLK") BY <2>1, <2>4 DEF Quieter, RequestType
  <2>6. Idle(d, s, n) BY <2>1, <2>5 DEF Idle
  <2> QED BY <2>3, <2>6 DEF Settled
<1>3. ASSUME HasMsg(s, n, "POWBLOCK-BLK"), AtMostOne(chan, n) PROVE Settled(d, n)
  <2>1. /\ Quieter(chan, d) /\ ~ None(c, "POWBLOCK-BLK") /\ None(d[<<s, n>>], "POWBLOCK-BLK")
    BY <1>1, <1>3 DEF AtMostOne, c
  <2>2. ~ Idle(chan, n, s) BY <2>1 DEF Idle, c
  <2>3. \A q \in Node : q # s => Idle(d, n, q)
    <3>1. \A q \in Node : q # s => Idle(chan, n, q) BY <1>3, <2>2 DEF AtMostOne
    <3> QED BY <2>1, <3>1, QuieterKeeps
  <2>4. None(chan[<<n, s>>], "POWBLOCK-GETDATA") BY <1>3, <2>1 DEF AtMostOne, c
  <2>5. None(d[<<n, s>>], "POWBLOCK-GETDATA") BY <2>1, <2>4 DEF Quieter, RequestType
  <2>6. Idle(d, n, s) BY <2>1, <2>5 DEF Idle
  <2> QED BY <2>3, <2>6 DEF Settled
<1> QED BY <1>2, <1>3 DEF d

\* Each message has its place in each channel after a Put.
LEMMA PutChannel ==
  ASSUME NEW ch \in Channels(Message), NEW n, NEW D, NEW m \in Message,
         NEW p \in Node, NEW q \in Node
  PROVE  /\ ch[<<p, q>>] \in Seq(Message)
         /\ Put(ch, n, D, m)[<<p, q>>] =
              IF p = n /\ q \in D THEN Append(ch[<<p, q>>], m) ELSE ch[<<p, q>>]
BY DEF Put, Channels

\* Other messages, introductions, transactions and inventories, are no requests.
LEMMA PutOther ==
  ASSUME NEW ch \in Channels(Message), NEW n \in Node, NEW D, NEW m \in Message,
         m.type \notin RequestType
  PROVE  Quieter(ch, Put(ch, n, D, m))
<1> SUFFICES ASSUME NEW p \in Node, NEW q \in Node, NEW t \in RequestType
             PROVE  /\ None(ch[<<p, q>>], t) => None(Put(ch, n, D, m)[<<p, q>>], t)
                    /\ Single(ch[<<p, q>>], t) => Single(Put(ch, n, D, m)[<<p, q>>], t)
  BY DEF Quieter
<1>1. None(ch[<<p, q>>], t) => None(Put(ch, n, D, m)[<<p, q>>], t) BY PutMessages DEF None
<1>2. /\ ch[<<p, q>>] \in Seq(Message)
      /\ Put(ch, n, D, m)[<<p, q>>] =
           IF p = n /\ q \in D THEN Append(ch[<<p, q>>], m) ELSE ch[<<p, q>>]
  BY PutChannel
<1>3. Single(ch[<<p, q>>], t) => Single(Append(ch[<<p, q>>], m), t) BY <1>2, AppendSingle
<1> QED BY <1>1, <1>2, <1>3

\* A request put into one channel of a settled node is its only one, and
\* leaves the other nodes alone.  (Node k is the one that asks: the sender of a
\* question, the receiver of an answer; j is the other.)
LEMMA PutRequest ==
  ASSUME NEW ch \in Channels(Message), NEW n \in Node, NEW s \in Node, NEW D, D \subseteq {s},
         NEW m \in Message, NEW k \in Node, NEW j \in Node,
         \/ m.type = "POWBLOCK-GETDATA" /\ k = n /\ j = s
         \/ m.type = "POWBLOCK-BLK" /\ k = s /\ j = n,
         Settled(ch, k),
         \A i \in Node : AtMostOne(ch, i)
  PROVE  /\ \A i \in Node : AtMostOne(Put(ch, n, D, m), i)
         /\ \A i, q \in Node : Idle(ch, i, q) => Idle(Put(ch, n, D, m), i, q) \/ (i = k /\ q = j)
<1> DEFINE d == Put(ch, n, D, m)
<1>1. ASSUME NEW p \in Node, NEW q \in Node, NEW t
      PROVE  /\ None(ch[<<p, q>>], t) => \/ None(d[<<p, q>>], t)
                                         \/ p = n /\ q = s /\ t = m.type
             /\ Single(ch[<<p, q>>], t) => \/ Single(d[<<p, q>>], t)
                                           \/ p = n /\ q = s /\ t = m.type
             /\ None(ch[<<p, q>>], t) => Single(d[<<p, q>>], t)
  <2>1. \A x \in ToSet(d[<<p, q>>]) : x \in ToSet(ch[<<p, q>>]) \/ (p = n /\ q \in D /\ x = m)
    BY PutMessages
  <2>2. None(ch[<<p, q>>], t) => None(d[<<p, q>>], t) \/ (p = n /\ q = s /\ t = m.type)
    BY <2>1 DEF None
  <2>3. None(ch[<<p, q>>], t) => Single(ch[<<p, q>>], t) BY DEF None, Single, ToSet
  <2>4. /\ ch[<<p, q>>] \in Seq(Message)
        /\ d[<<p, q>>] = IF p = n /\ q \in D THEN Append(ch[<<p, q>>], m) ELSE ch[<<p, q>>]
    BY PutChannel
  <2> HIDE DEF d
  <2>5. CASE d[<<p, q>>] = Append(ch[<<p, q>>], m) /\ q \in D /\ p = n
    <3>1. /\ Single(ch[<<p, q>>], t) /\ m.type # t => Single(d[<<p, q>>], t)
          /\ None(ch[<<p, q>>], t) => Single(d[<<p, q>>], t)
      BY <2>4, <2>5, AppendSingle
    <3> QED BY <2>2, <2>5, <3>1
  <2>6. CASE d[<<p, q>>] = ch[<<p, q>>] BY <2>3, <2>6
  <2> QED BY <2>4, <2>5, <2>6
<1> HIDE DEF d
<1>2. ASSUME NEW i \in Node, NEW q \in Node, Idle(ch, i, q)
      PROVE  Idle(d, i, q) \/ (i = k /\ q = j)
  <2>1. /\ None(ch[<<i, q>>], "POWBLOCK-GETDATA") /\ None(ch[<<q, i>>], "POWBLOCK-BLK")
    BY <1>2 DEF Idle
  <2>2. None(d[<<i, q>>], "POWBLOCK-GETDATA") \/ (i = n /\ q = s /\ m.type = "POWBLOCK-GETDATA")
    BY <1>1, <2>1
  <2>3. None(d[<<q, i>>], "POWBLOCK-BLK") \/ (q = n /\ i = s /\ m.type = "POWBLOCK-BLK")
    BY <1>1, <2>1
  <2> QED BY <2>2, <2>3 DEF Idle
<1>3. AtMostOne(d, k)
  <2>1. ASSUME NEW q \in Node
        PROVE  /\ Single(d[<<k, q>>], "POWBLOCK-GETDATA") /\ Single(d[<<q, k>>], "POWBLOCK-BLK")
               /\ None(d[<<k, q>>], "POWBLOCK-GETDATA") \/ None(d[<<q, k>>], "POWBLOCK-BLK")
    <3>1. None(ch[<<k, q>>], "POWBLOCK-GETDATA") /\ None(ch[<<q, k>>], "POWBLOCK-BLK")
      BY DEF Settled, Idle
    <3>2. None(d[<<k, q>>], "POWBLOCK-GETDATA") \/ m.type = "POWBLOCK-GETDATA" BY <1>1, <3>1
    <3>3. None(d[<<q, k>>], "POWBLOCK-BLK") \/ m.type = "POWBLOCK-BLK" BY <1>1, <3>1
    <3> QED BY <1>1, <3>1, <3>2, <3>3
  <2>2. \A q \in Node : q # j => Idle(d, k, q) BY <1>2 DEF Settled
  <2> QED BY <2>1, <2>2 DEF AtMostOne
<1>4. ASSUME NEW i \in Node, i # k PROVE AtMostOne(d, i)
  <2>1. \A q \in Node : Idle(ch, i, q) => Idle(d, i, q) BY <1>2, <1>4
  <2>2. ASSUME NEW q \in Node
        PROVE  /\ Single(d[<<i, q>>], "POWBLOCK-GETDATA") /\ Single(d[<<q, i>>], "POWBLOCK-BLK")
               /\ None(d[<<i, q>>], "POWBLOCK-GETDATA") \/ None(d[<<q, i>>], "POWBLOCK-BLK")
    <3>1. /\ Single(ch[<<i, q>>], "POWBLOCK-GETDATA") /\ Single(ch[<<q, i>>], "POWBLOCK-BLK")
          /\ None(ch[<<i, q>>], "POWBLOCK-GETDATA") \/ None(ch[<<q, i>>], "POWBLOCK-BLK")
      BY DEF AtMostOne
    <3>2. /\ ~ (i = n /\ q = s /\ "POWBLOCK-GETDATA" = m.type)
          /\ ~ (q = n /\ i = s /\ "POWBLOCK-BLK" = m.type)
      BY <1>4
    <3> QED BY <1>1, <3>1, <3>2
  <2> QED BY <2>1, <2>2 DEF AtMostOne
<1> QED BY <1>2, <1>3, <1>4 DEF d

\* The two cases of PutRequest: a question, and an answer.
LEMMA PutQuestion ==
  ASSUME NEW ch \in Channels(Message), NEW n \in Node, NEW s \in Node, NEW D, D \subseteq {s},
         NEW m \in Message, m.type = "POWBLOCK-GETDATA",
         Settled(ch, n), \A i \in Node : AtMostOne(ch, i)
  PROVE  /\ \A i \in Node : AtMostOne(Put(ch, n, D, m), i)
         /\ \A i, q \in Node : Idle(ch, i, q) => Idle(Put(ch, n, D, m), i, q) \/ (i = n /\ q = s)
  BY PutRequest

\* The same for an answer.
LEMMA PutAnswer ==
  ASSUME NEW ch \in Channels(Message), NEW n \in Node, NEW s \in Node, NEW D, D \subseteq {s},
         NEW m \in Message, m.type = "POWBLOCK-BLK",
         Settled(ch, s), \A i \in Node : AtMostOne(ch, i)
  PROVE  /\ \A i \in Node : AtMostOne(Put(ch, n, D, m), i)
         /\ \A i, q \in Node : Idle(ch, i, q) => Idle(Put(ch, n, D, m), i, q) \/ (i = s /\ q = n)
  BY PutRequest


\* A lost connection.
LEMMA DownQuieter ==
  ASSUME chan \in Channels(Message), NEW n \in Node, NEW s \in Node, LinkDown(n, s)
  PROVE  Quieter(chan, chan')
<1>1. chan \in [Node \X Node -> Seq(Message)] BY DEF Channels
<1>2. PICK i \in 0..Len(chan[<<n, s>>]), j \in 0..Len(chan[<<s, n>>]) :
        chan' = [chan EXCEPT ![<<n, s>>] = SubSeq(@, 1, i), ![<<s, n>>] = SubSeq(@, 1, j)]
  BY DEF LinkDown
<1>3. \E l \in {<<n, s>>, <<s, n>>} : l[1] # l[2] BY LinkAssumption DEF LinkDown
<1>4. n # s BY <1>3
<1>5. ASSUME NEW p \in Node, NEW q \in Node, NEW t, Single(chan[<<p, q>>], t)
      PROVE  Single(chan'[<<p, q>>], t)
  <2>1. CASE p = n /\ q = s
    <3>1. chan'[<<p, q>>] = SubSeq(chan[<<n, s>>], 1, i) BY <1>1, <1>2, <1>4, <2>1
    <3> QED BY <1>1, <1>5, <2>1, <3>1, PrefixSingle
  <2>2. CASE p = s /\ q = n
    <3>1. chan'[<<p, q>>] = SubSeq(chan[<<s, n>>], 1, j) BY <1>1, <1>2, <1>4, <2>2
    <3> QED BY <1>1, <1>5, <2>2, <3>1, PrefixSingle
  <2>3. CASE ~ (p = n /\ q = s) /\ ~ (p = s /\ q = n)
    <3>1. chan'[<<p, q>>] = chan[<<p, q>>] BY <1>1, <1>2, <2>3
    <3> QED BY <1>5, <3>1
  <2> QED BY <2>1, <2>2, <2>3
<1>6. \A p, q \in Node : \A x \in ToSet(chan'[<<p, q>>]) : x \in ToSet(chan[<<p, q>>])
  BY DownMessages
<1> QED BY <1>5, <1>6 DEF Quieter, None

-----------------------------------------------------------------------------
\* The steps that ask for nothing.

\* The step adds no request to the channels.
NoNewRequest ==
  /\ Quieter(chan, chan')
  /\ \A p, q \in Node : \A m \in ToSet(chan'[<<p, q>>]) :
       m.type = "POWBLOCK-GETDATA" => m \in ToSet(chan[<<p, q>>])

\* Sending another message.
LEMMA SentNoRequest ==
  ASSUME chan \in Channels(Message), NEW n \in Node, NEW D, NEW m \in Message,
         m.type \notin RequestType, chan' = Put(chan, n, D, m)
  PROVE  NoNewRequest
<1>1. Quieter(chan, chan') BY PutOther
<1>2. /\ chan' \in Channels(Message)
      /\ \A p, q \in Node : \A x \in ToSet(chan'[<<p, q>>]) :
           x \in ToSet(chan[<<p, q>>]) \/ (p = n /\ q \in D /\ x = m)
  BY PutMessages
<1> QED BY <1>1, <1>2 DEF NoNewRequest, RequestType

\* Taking a message and perhaps sending another one.
LEMMA HandlerNoRequest ==
  ASSUME TypeOK, MessagesOK, NEW s \in Node, NEW n \in Node, NEW type, HasMsg(s, n, type),
         NEW D, NEW m \in Message, m.type \notin RequestType, TakesAndSends(n, s, D, m)
  PROVE  NoNewRequest
<1> DEFINE ch == Taken(s, n)
<1>1. chan \in Channels(Message) /\ chan[<<s, n>>] # << >> BY DEF TypeOK, Channels, Message, HasMsg
<1>2. /\ ch \in Channels(Message) /\ Quieter(chan, ch)
      /\ \A p, q \in Node : \A x \in ToSet(chan'[<<p, q>>]) :
           x \in ToSet(chan[<<p, q>>]) \/ (p = n /\ q \in D /\ x = m)
  BY <1>1, ReceivedMessage, TakenQuieter, TakesAndSendsMessages
<1> HIDE DEF ch
<1>3. CASE chan' = ch BY <1>2, <1>3 DEF NoNewRequest, RequestType
<1>4. CASE chan' = Sent(ch, n, D, m)
  <2>1. PICK E : chan' = Put(ch, n, E, m) BY <1>4 DEF Sent
  <2>2. Quieter(ch, chan') BY <1>2, <2>1, PutOther
  <2>3. Quieter(chan, chan') BY <1>2, <2>2, QuieterTransitive
  <2> QED BY <1>2, <2>3 DEF NoNewRequest, RequestType
<1> QED BY <1>3, <1>4 DEF TakesAndSends, ch

\* Transaction messages and introductions are no requests.
LEMMA TxMessageNoRequest ==
  ASSUME NEW m \in LinkMessage \cup TxMessage
  PROVE  m \in Message /\ m.type \notin RequestType
BY DEF LinkMessage, TxMessage, Message, RequestType

\* The handlers of transaction messages.
LEMMA TxHandlersNoRequest ==
  ASSUME TypeOK, MessagesOK, NEW n \in Node, NEW s \in Node,
         RecvInventoryHandler(n, s) \/ RecvGetdataHandler(n, s) \/ RecvTxsHandler(n, s)
  PROVE  NoNewRequest
<1>1. PICK type \in {"TXGOSSIP-INV", "TXGOSSIP-GETDATA", "TXGOSSIP-TXS"} : HasMsg(s, n, type)
  BY DEF RecvInventoryHandler, RecvGetdataHandler, RecvTxsHandler
<1>2. Head(chan[<<s, n>>]).txs \in SUBSET Tx BY <1>1, ReceivedMessage, MessageFields
<1>3. \E m \in TxMessage : \E D : TakesAndSends(n, s, D, m)
  <2>1. CASE RecvInventoryHandler(n, s)
    <3> DEFINE m == [type |-> "TXGOSSIP-GETDATA", txs |-> Head(chan[<<s, n>>]).txs \ txPool[n]]
    <3>1. m \in TxMessage BY <1>2 DEF TxMessage
    <3>2. TakesAndSends(n, s, {s}, m) BY <2>1 DEF RecvInventoryHandler, TakesAndSends
    <3> HIDE DEF m
    <3> QED BY <3>1, <3>2
  <2>2. CASE RecvGetdataHandler(n, s)
    <3> DEFINE m == [type |-> "TXGOSSIP-TXS", txs |-> Head(chan[<<s, n>>]).txs \cap txPool[n]]
    <3>1. m \in TxMessage BY <1>2 DEF TxMessage
    <3>2. TakesAndSends(n, s, {s}, m) BY <2>2 DEF RecvGetdataHandler, TakesAndSends
    <3> HIDE DEF m
    <3> QED BY <3>1, <3>2
  <2>3. CASE RecvTxsHandler(n, s)
    <3> DEFINE m == [type |-> "TXGOSSIP-INV", txs |-> Head(chan[<<s, n>>]).txs]
    <3>1. m \in TxMessage BY <1>2 DEF TxMessage
    <3>2. TakesAndSends(n, s, Node \ {s}, m) BY <2>3 DEF RecvTxsHandler, TakesAndSends
    <3> HIDE DEF m
    <3> QED BY <3>1, <3>2
  <2> QED BY <2>1, <2>2, <2>3
<1>4. PICK m \in TxMessage : \E D : TakesAndSends(n, s, D, m) BY <1>3
<1>5. PICK D : TakesAndSends(n, s, D, m) BY <1>4
<1> QED BY <1>1, <1>5, TxMessageNoRequest, HandlerNoRequest

\* The connections.
LEMMA LinksNoRequest ==
  ASSUME TypeOK, NEW n \in Node, NEW s \in Node, LinkUp(n, s) \/ LinkNotify(n, s) \/ LinkDown(n, s)
  PROVE  NoNewRequest
<1>1. chan \in Channels(Message) BY DEF TypeOK, Channels, Message
<1>2. CASE LinkUp(n, s)
  <2>1. PICK m \in LinkMessage : chan' = Put(chan, n, {s}, m) BY <1>2 DEF LinkUp, LinkMessage
  <2> QED BY <1>1, <2>1, TxMessageNoRequest, SentNoRequest
<1>3. CASE LinkNotify(n, s)
  <2>1. chan[<<s, n>>] # << >> /\ chan' = Taken(s, n) BY <1>3 DEF LinkNotify, HasMsg
  <2>2. \A p, q \in Node : ToSet(chan'[<<p, q>>]) \subseteq ToSet(chan[<<p, q>>])
    BY <1>1, <2>1, TakenMessages
  <2>3. Quieter(chan, chan') BY <1>1, <2>1, TakenQuieter
  <2> QED BY <2>2, <2>3 DEF NoNewRequest
<1>4. CASE LinkDown(n, s)
  BY <1>1, <1>4, DownQuieter, DownMessages DEF NoNewRequest
<1> QED BY <1>2, <1>3, <1>4

\* The answer to a question for the chain is an inventory.
LEMMA GetBlocksNoRequest ==
  ASSUME IndInv, NEW n \in Node, NEW s \in Node, RecvPOWBlockGetBlocks(n, s)
  PROVE  NoNewRequest
<1> DEFINE locator == Head(chan[<<s, n>>]).locator
           c == ChainInventory(blocktree[n], locator)
           v == [type |-> "POWBLOCK-INV", hashes |-> c]
<1>1. HasMsg(s, n, "POWBLOCK-GETBLOCKS") /\ TypeOK /\ MessagesOK
  BY DEF RecvPOWBlockGetBlocks, IndInv
<1>2. Genesis \in ToSet(locator) BY <1>1, ReceivedMessage DEF MsgOK
<1>3. blocktree[n] \in Tree(Header) /\ Rooted(blocktree[n])
  BY DEF IndInv, TypeOK, Tree, Block, ParentsHeld
<1>4. c \in Seq(Block) BY <1>2, <1>3, ChainInventoryIsChain
<1>5. chan' = Sent(Taken(s, n), n, {s}, v) BY DEF RecvPOWBlockGetBlocks
<1> HIDE DEF c
<1>6. v \in Message /\ v.type \notin RequestType BY <1>4 DEF Message, BlkMessage, RequestType
<1>7. TakesAndSends(n, s, {s}, v) BY <1>5 DEF TakesAndSends
<1> HIDE DEF v
<1> QED BY <1>1, <1>6, <1>7, HandlerNoRequest

\* The mined block is announced in an inventory.
LEMMA MiningNoRequest ==
  ASSUME TypeOK, NEW n \in Node, MiningComplete(n)
  PROVE  NoNewRequest
<1> DEFINE b == minedBlk[n]
           v == [type |-> "POWBLOCK-INV", hashes |-> << b >>]
<1>1. chan \in Channels(Message) /\ b \in Block BY DEF TypeOK, Channels, Message
<1>2. chan' = Put(chan, n, Node \cap nbr[n], v) BY DEF MiningComplete, Sent
<1> HIDE DEF b
<1>3. v \in Message /\ v.type \notin RequestType
  <2>1. << b >> \in Seq(Block) BY <1>1
  <2> HIDE DEF Block
  <2> QED BY <2>1 DEF Message, BlkMessage, RequestType
<1> HIDE DEF v
<1> QED BY <1>1, <1>2, <1>3, SentNoRequest

-----------------------------------------------------------------------------
\* The invariant is inductive.

\* A step without a new request or a new inventory keeps the invariant.
LEMMA QuietStep ==
  ASSUME RequestInv, LedgersGrow, UNCHANGED processingInv, NoNewRequest
  PROVE  RequestInv'
<1> SUFFICES ASSUME NEW n \in Node PROVE RequestOK(n)' BY DEF RequestInv
<1>1. RequestOK(n) BY DEF RequestInv
<1>2. /\ \A s \in Node : Idle(chan, n, s) => Idle(chan', n, s)
      /\ AtMostOne(chan, n) => AtMostOne(chan', n)
  BY QuieterKeeps DEF NoNewRequest
<1>3. AtMostOne(chan', n) BY <1>1, <1>2 DEF RequestOK
<1>4. ASSUME NEW s \in Node, ~ Idle(chan', n, s)
      PROVE  processingInv'[n] # << >> /\ HasInventory(n, s)'
  <2>1. processingInv[n] # << >> /\ HasInventory(n, s) BY <1>1, <1>2, <1>4 DEF RequestOK
  <2> QED BY <2>1 DEF HasInventory, LedgersGrow
<1>5. ASSUME NEW s \in Node, NEW m \in ToSet(chan'[<<n, s>>]), m.type = "POWBLOCK-GETDATA"
      PROVE  \E i \in 1..Len(processingInv'[n]) : m.hash = processingInv'[n][i]
  <2>1. m \in ToSet(chan[<<n, s>>]) BY <1>5 DEF NoNewRequest
  <2> QED BY <1>1, <1>5, <2>1 DEF RequestOK
<1> QED BY <1>3, <1>4, <1>5 DEF RequestOK

\* The inventory under processing changes only at a node with nothing under way.
\* Node n asks s for one of its hashes, or asks for nothing.
LEMMA AskStep ==
  ASSUME RequestInv, LedgersGrow, NEW n \in Node, NEW s \in Node,
         NEW ch \in Channels(Message), Settled(ch, n), Quieter(chan, ch),
         \A p, q \in Node : ToSet(ch[<<p, q>>]) \subseteq ToSet(chan[<<p, q>>]),
         NEW D, D \subseteq {s}, NEW h \in Block,
         chan' = Put(ch, n, D, [type |-> "POWBLOCK-GETDATA", hash |-> h]),
         \A k \in Node : k # n => processingInv'[k] = processingInv[k],
         HasInventory(n, s)',
         \E i \in 1..Len(processingInv'[n]) : h = processingInv'[n][i],
         processingInv'[n] # << >>
  PROVE  RequestInv'
<1> DEFINE m == [type |-> "POWBLOCK-GETDATA", hash |-> h]
           d == Put(ch, n, D, m)
<1>1. m \in Message /\ m.type = "POWBLOCK-GETDATA" /\ m.hash = h BY DEF Message, BlkMessage
<1> HIDE DEF m
<1>2. \A i \in Node : AtMostOne(ch, i) BY QuieterKeeps DEF RequestInv, RequestOK
<1>3. /\ \A i \in Node : AtMostOne(d, i)
      /\ \A i, q \in Node : Idle(ch, i, q) => Idle(d, i, q) \/ (i = n /\ q = s)
  BY <1>1, <1>2, PutQuestion
<1>4. /\ d \in Channels(Message)
      /\ \A p, q \in Node : \A x \in ToSet(d[<<p, q>>]) :
           x \in ToSet(ch[<<p, q>>]) \/ (p = n /\ q \in D /\ x = m)
  BY <1>1, PutMessages
<1> HIDE DEF d
<1>5. chan' = d BY DEF d, m
<1> SUFFICES ASSUME NEW k \in Node PROVE RequestOK(k)' BY DEF RequestInv
<1>6. AtMostOne(chan', k) BY <1>3, <1>5
<1>7. ASSUME NEW q \in Node, ~ Idle(chan', k, q)
      PROVE  processingInv'[k] # << >> /\ HasInventory(k, q)'
  <2>1. CASE k = n /\ q = s BY <2>1
  <2>2. CASE ~ (k = n /\ q = s)
    <3>1. ~ Idle(ch, k, q) BY <1>3, <1>5, <1>7, <2>2
    <3>2. k # n BY <3>1 DEF Settled
    <3>3. ~ Idle(chan, k, q) BY <3>1, QuieterKeeps
    <3>4. processingInv[k] # << >> /\ HasInventory(k, q) BY <3>3 DEF RequestInv, RequestOK
    <3> QED BY <3>2, <3>4 DEF HasInventory, LedgersGrow
  <2> QED BY <2>1, <2>2
<1>8. ASSUME NEW q \in Node, NEW x \in ToSet(chan'[<<k, q>>]), x.type = "POWBLOCK-GETDATA"
      PROVE  \E i \in 1..Len(processingInv'[k]) : x.hash = processingInv'[k][i]
  <2>1. CASE x \in ToSet(ch[<<k, q>>])
    <3>1. k # n BY <1>8, <2>1 DEF Settled, Idle, None
    <3>2. x \in ToSet(chan[<<k, q>>]) BY <2>1
    <3> QED BY <1>8, <3>1, <3>2 DEF RequestInv, RequestOK
  <2>2. CASE k = n /\ x = m BY <1>1, <2>2
  <2> QED BY <1>4, <1>5, <2>1, <2>2
<1> QED BY <1>6, <1>7, <1>8 DEF RequestOK

\* Node n has nothing under way and ends its inventory, or has none.
LEMMA EndStep ==
  ASSUME RequestInv, LedgersGrow, NEW n \in Node, NoNewRequest, Settled(chan', n),
         \A k \in Node : k # n => processingInv'[k] = processingInv[k]
  PROVE  RequestInv'
<1> SUFFICES ASSUME NEW k \in Node PROVE RequestOK(k)' BY DEF RequestInv
<1>1. RequestOK(k) BY DEF RequestInv
<1>2. /\ \A s \in Node : Idle(chan, k, s) => Idle(chan', k, s)
      /\ AtMostOne(chan, k) => AtMostOne(chan', k)
  BY QuieterKeeps DEF NoNewRequest
<1>3. AtMostOne(chan', k) BY <1>1, <1>2 DEF RequestOK
<1>4. ASSUME NEW s \in Node, ~ Idle(chan', k, s)
      PROVE  processingInv'[k] # << >> /\ HasInventory(k, s)'
  <2>1. processingInv[k] # << >> /\ HasInventory(k, s) BY <1>1, <1>2, <1>4 DEF RequestOK
  <2>2. k # n BY <1>4 DEF Settled
  <2> QED BY <2>1, <2>2 DEF HasInventory, LedgersGrow
<1>5. ASSUME NEW s \in Node, NEW m \in ToSet(chan'[<<k, s>>]), m.type = "POWBLOCK-GETDATA"
      PROVE  \E i \in 1..Len(processingInv'[k]) : m.hash = processingInv'[k][i]
  <2>1. m \in ToSet(chan[<<k, s>>]) BY <1>5 DEF NoNewRequest
  <2>2. k # n BY <1>5 DEF Settled, Idle, None
  <2> QED BY <1>1, <1>5, <2>1, <2>2 DEF RequestOK
<1> QED BY <1>3, <1>4, <1>5 DEF RequestOK

\* The handler of block inventories.
LEMMA InvRequests ==
  ASSUME IndInv, RequestInv, LedgersGrow, NEW n \in Node, NEW s \in Node, RecvPOWBlockInv(n, s)
  PROVE  RequestInv'
<1> DEFINE hashes == Head(chan[<<s, n>>]).hashes
           tree == blocktree[n]
           ch == Taken(s, n)
           ask == [type |-> "POWBLOCK-GETBLOCKS", locator |-> GetBlockLocator(tree)]
<1>1. /\ TypeOK /\ MessagesOK /\ HasMsg(s, n, "POWBLOCK-INV") /\ UNCHANGED blocktree
      /\ processingInv \in [Node -> Seq(Block)] /\ chan \in Channels(Message)
      /\ chan[<<s, n>>] # << >>
  BY DEF IndInv, RecvPOWBlockInv, TypeOK, Channels, Message, HasMsg
<1>2. /\ hashes \in Seq(Block) /\ hashes # << >> /\ IsChain(hashes)
      /\ \A i \in 1..Len(hashes) : hashes[i] \in blocktree[s].ledgermap
  BY <1>1, ReceivedMessage, MessageFields DEF MsgOK
<1>3. GetBlockLocator(tree) \in Seq(Block)
  <2>1. tree \in Tree(Header) /\ Longest(tree) BY DEF IndInv, TypeOK, Tree, Block, TipIsLongest
  <2> QED BY <2>1, LocatorHasGenesis DEF Block
<1> HIDE DEF hashes, tree
<1>4. ask \in Message /\ ask.type \notin RequestType BY <1>3 DEF Message, BlkMessage, RequestType
<1> HIDE DEF ask
<1>5. \/ UNCHANGED processingInv /\ TakesAndSends(n, s, {s}, ask)
      \/ /\ processingInv[n] = << >>
         /\ hashes[1] \in tree.ledgermap /\ Missing(hashes, tree) # {}
         /\ chan' = Sent(ch, n, {s}, [type |-> "POWBLOCK-GETDATA", hash |-> FirstMissing(hashes, tree)])
         /\ processingInv' = [processingInv EXCEPT ![n] = hashes]
  BY DEF RecvPOWBlockInv, TakesAndSends, HasProcessingInv, ContainBlock, AllProcessed, hashes, tree, ask
<1>6. CASE UNCHANGED processingInv /\ TakesAndSends(n, s, {s}, ask)
  <2>1. NoNewRequest BY <1>1, <1>4, <1>6, HandlerNoRequest
  <2> QED BY <1>6, <2>1, QuietStep
<1>7. CASE /\ processingInv[n] = << >>
           /\ hashes[1] \in tree.ledgermap /\ Missing(hashes, tree) # {}
           /\ chan' = Sent(ch, n, {s}, [type |-> "POWBLOCK-GETDATA", hash |-> FirstMissing(hashes, tree)])
           /\ processingInv' = [processingInv EXCEPT ![n] = hashes]
  <2> DEFINE h == FirstMissing(hashes, tree)
  <2>1. /\ ch \in Channels(Message) /\ Quieter(chan, ch)
        /\ \A p, q \in Node : ToSet(ch[<<p, q>>]) \subseteq ToSet(chan[<<p, q>>])
    BY <1>1, ReceivedMessage, TakenQuieter
  <2>2. Settled(ch, n)
    <3>1. Settled(chan, n) BY <1>7 DEF RequestInv, RequestOK, Settled
    <3> QED BY <2>1, <3>1, QuieterKeeps
  <2>3. h \in Block BY <1>2, <1>7, FirstMissingFits
  <2>4. \E i \in 1..Len(hashes) : h = hashes[i]
    <3>1. Missing(hashes, tree) \subseteq 1..Len(hashes) /\ 1..Len(hashes) \subseteq Nat
      BY DEF Missing
    <3>2. Missing(hashes, tree) \subseteq Nat BY <3>1
    <3>3. Min(Missing(hashes, tree)) \in Missing(hashes, tree) BY <1>7, <3>2, MinNat
    <3> QED BY <3>1, <3>3 DEF FirstMissing
  <2>5. /\ processingInv'[n] = hashes
        /\ \A k \in Node : k # n => processingInv'[k] = processingInv[k]
    BY <1>1, <1>7
  <2>6. HasInventory(n, s)' BY <1>1, <1>2, <2>5 DEF HasInventory
  <2> HIDE DEF h, ch
  <2>7. chan' = Put(ch, n, {s} \cap nbr[n], [type |-> "POWBLOCK-GETDATA", hash |-> h])
    BY <1>7 DEF Sent, h
  <2>8. {s} \cap nbr[n] \subseteq {s} OBVIOUS
  <2>9. processingInv'[n] # << >> /\ \E i \in 1..Len(processingInv'[n]) : h = processingInv'[n][i]
    BY <1>2, <2>4, <2>5
  <2> QED BY <2>1, <2>2, <2>3, <2>5, <2>6, <2>7, <2>8, <2>9, AskStep
<1> QED BY <1>5, <1>6, <1>7

\* The handler of questions: the question turns into its answer.
LEMMA GetDataRequests ==
  ASSUME IndInv, RequestInv, NEW n \in Node, NEW s \in Node, RecvPOWBlockGetData(n, s)
  PROVE  RequestInv'
<1> DEFINE h == Head(chan[<<s, n>>]).hash
           m == [type |-> "POWBLOCK-BLK", blk |-> h]
           ch == Taken(s, n)
           D == {s} \cap nbr[n]
           d == Put(ch, n, D, m)
<1>1. /\ TypeOK /\ MessagesOK /\ HasMsg(s, n, "POWBLOCK-GETDATA") /\ UNCHANGED << blocktree, processingInv >>
      /\ chan \in Channels(Message) /\ chan[<<s, n>>] # << >>
  BY DEF IndInv, RecvPOWBlockGetData, TypeOK, Channels, Message, HasMsg, nodeVars
<1>2. /\ h \in Block /\ Head(chan[<<s, n>>]) \in ToSet(chan[<<s, n>>])
      /\ Head(chan[<<s, n>>]).type = "POWBLOCK-GETDATA"
  BY <1>1, ReceivedMessage, MessageFields, TakenMessages
<1>3. /\ ch \in Channels(Message) /\ Quieter(chan, ch)
      /\ \A p, q \in Node : ToSet(ch[<<p, q>>]) \subseteq ToSet(chan[<<p, q>>])
  BY <1>1, ReceivedMessage, TakenQuieter
<1>4. Settled(ch, s) BY <1>1, TakenSettles DEF RequestInv, RequestOK
<1>5. ~ Idle(chan, s, n) BY <1>2 DEF Idle, None
<1>6. chan' = d BY DEF RecvPOWBlockGetData, Sent
<1> HIDE DEF h
<1>7. m \in Message /\ m.type = "POWBLOCK-BLK" BY <1>2 DEF Message, BlkMessage
<1> HIDE DEF m, ch
<1>8. D \subseteq {s} OBVIOUS
<1> HIDE DEF D
<1>9. \A i \in Node : AtMostOne(ch, i) BY <1>3, QuieterKeeps DEF RequestInv, RequestOK
<1>10. /\ \A i \in Node : AtMostOne(d, i)
       /\ \A i, q \in Node : Idle(ch, i, q) => Idle(d, i, q) \/ (i = s /\ q = n)
  BY <1>3, <1>4, <1>7, <1>8, <1>9, PutAnswer
<1>11. /\ d \in Channels(Message)
       /\ \A p, q \in Node : \A x \in ToSet(d[<<p, q>>]) :
            x \in ToSet(ch[<<p, q>>]) \/ (p = n /\ q \in D /\ x = m)
  BY <1>3, <1>7, PutMessages
<1> HIDE DEF d
<1> SUFFICES ASSUME NEW k \in Node PROVE RequestOK(k)' BY DEF RequestInv
<1>12. AtMostOne(chan', k) BY <1>6, <1>10
<1>13. ASSUME NEW q \in Node, ~ Idle(chan', k, q)
       PROVE  processingInv'[k] # << >> /\ HasInventory(k, q)'
  <2>1. ~ Idle(chan, k, q)
    <3>1. CASE k = s /\ q = n BY <1>5, <3>1
    <3>2. CASE ~ (k = s /\ q = n)
      <4>1. ~ Idle(ch, k, q) BY <1>6, <1>10, <1>13, <3>2
      <4> QED BY <1>3, <4>1, QuieterKeeps
    <3> QED BY <3>1, <3>2
  <2>2. processingInv[k] # << >> /\ HasInventory(k, q) BY <2>1 DEF RequestInv, RequestOK
  <2> QED BY <1>1, <2>2 DEF HasInventory
<1>14. ASSUME NEW q \in Node, NEW x \in ToSet(chan'[<<k, q>>]), x.type = "POWBLOCK-GETDATA"
       PROVE  \E i \in 1..Len(processingInv'[k]) : x.hash = processingInv'[k][i]
  <2>1. x \in ToSet(chan[<<k, q>>]) BY <1>3, <1>6, <1>7, <1>11, <1>14
  <2> QED BY <1>1, <1>14, <2>1 DEF RequestInv, RequestOK
<1> QED BY <1>12, <1>13, <1>14 DEF RequestOK

\* The handler of answers: the inventory goes on with the sender, which has all
\* of it, or is over.
LEMMA BlkRequests ==
  ASSUME IndInv, RequestInv, LedgersGrow, NEW n \in Node, NEW s \in Node, RecvPOWBlockBlk(n, s)
  PROVE  RequestInv'
<1> DEFINE inv == processingInv[n]
           tree == blocktree'[n]
           ch == Taken(s, n)
           h == FirstMissing(inv, tree)
           relay == [type |-> "POWBLOCK-INV", hashes |-> inv]
<1>1. /\ TypeOK /\ MessagesOK /\ HasMsg(s, n, "POWBLOCK-BLK")
      /\ chan \in Channels(Message) /\ chan[<<s, n>>] # << >>
      /\ processingInv \in [Node -> Seq(Block)] /\ inv \in Seq(Block)
  BY DEF IndInv, RecvPOWBlockBlk, TypeOK, Channels, Message, HasMsg
<1>2. /\ Head(chan[<<s, n>>]) \in ToSet(chan[<<s, n>>])
      /\ Head(chan[<<s, n>>]).type = "POWBLOCK-BLK"
  BY <1>1, ReceivedMessage, TakenMessages
<1>3. /\ ch \in Channels(Message) /\ Quieter(chan, ch)
      /\ \A p, q \in Node : ToSet(ch[<<p, q>>]) \subseteq ToSet(chan[<<p, q>>])
  BY <1>1, ReceivedMessage, TakenQuieter
<1>4. Settled(ch, n) BY <1>1, TakenSettles DEF RequestInv, RequestOK
<1>5. ~ Idle(chan, n, s) BY <1>2 DEF Idle, None
<1>6. inv # << >> /\ HasInventory(n, s) BY <1>5 DEF RequestInv, RequestOK
<1>7. inv[1] \in tree.ledgermap /\ IsChain(inv) BY <1>6 DEF IndInv, ProcessingOK, LedgersGrow
<1>8. \/ /\ Missing(inv, tree) # {} /\ UNCHANGED processingInv
         /\ chan' = Sent(ch, n, {s}, [type |-> "POWBLOCK-GETDATA", hash |-> h])
      \/ /\ chan' = Sent(ch, n, Node \ {s}, relay)
         /\ processingInv' = [processingInv EXCEPT ![n] = << >>]
  <2> DEFINE b == Head(chan[<<s, n>>]).blk
             new == ~ ContainBlock(blocktree[n], b)
             next == IF new THEN AppendBlock(blocktree[n], b) ELSE blocktree[n]
  <2>1. blocktree \in [Node -> Tree(Header)] BY <1>1 DEF TypeOK, Tree, Block
  <2>2. tree = next BY <2>1 DEF RecvPOWBlockBlk
  <2>3. \/ /\ Missing(inv, next) # {} /\ UNCHANGED processingInv
           /\ chan' = Sent(ch, n, {s}, [type |-> "POWBLOCK-GETDATA", hash |-> FirstMissing(inv, next)])
        \/ /\ chan' = Sent(ch, n, Node \ {s}, relay)
           /\ processingInv' = [processingInv EXCEPT ![n] = << >>]
    BY <1>6 DEF RecvPOWBlockBlk, AllProcessed
  <2> QED BY <2>2, <2>3
<1> HIDE DEF tree, ch
<1>9. CASE /\ Missing(inv, tree) # {} /\ UNCHANGED processingInv
           /\ chan' = Sent(ch, n, {s}, [type |-> "POWBLOCK-GETDATA", hash |-> h])
  <2>1. h \in Block BY <1>1, <1>6, <1>7, <1>9, FirstMissingFits
  <2>2. \E i \in 1..Len(inv) : h = inv[i]
    <3>1. Missing(inv, tree) \subseteq 1..Len(inv) /\ 1..Len(inv) \subseteq Nat BY DEF Missing
    <3>2. Missing(inv, tree) \subseteq Nat BY <3>1
    <3>3. Min(Missing(inv, tree)) \in Missing(inv, tree) BY <1>9, <3>2, MinNat
    <3> QED BY <3>1, <3>3 DEF FirstMissing
  <2>3. HasInventory(n, s)' BY <1>6, <1>9 DEF HasInventory, LedgersGrow
  <2> HIDE DEF h
  <2>4. chan' = Put(ch, n, {s} \cap nbr[n], [type |-> "POWBLOCK-GETDATA", hash |-> h])
    BY <1>9 DEF Sent
  <2>5. {s} \cap nbr[n] \subseteq {s} OBVIOUS
  <2>6. /\ \A k \in Node : k # n => processingInv'[k] = processingInv[k]
        /\ processingInv'[n] # << >>
        /\ \E i \in 1..Len(processingInv'[n]) : h = processingInv'[n][i]
    BY <1>6, <1>9, <2>2
  <2> QED BY <1>3, <1>4, <2>1, <2>3, <2>4, <2>5, <2>6, AskStep
<1>10. CASE /\ chan' = Sent(ch, n, Node \ {s}, relay)
            /\ processingInv' = [processingInv EXCEPT ![n] = << >>]
  <2>1. relay \in Message /\ relay.type \notin RequestType
    BY <1>1 DEF Message, BlkMessage, RequestType
  <2> HIDE DEF relay
  <2>2. TakesAndSends(n, s, Node \ {s}, relay) BY <1>10 DEF TakesAndSends, ch
  <2>3. NoNewRequest BY <1>1, <2>1, <2>2, HandlerNoRequest
  <2>4. Settled(chan', n)
    <3>1. PICK E : chan' = Put(ch, n, E, relay) BY <1>10 DEF Sent
    <3>2. Quieter(ch, chan') BY <1>3, <2>1, <3>1, PutOther
    <3> QED BY <1>4, <3>2, QuieterKeeps
  <2>5. \A k \in Node : k # n => processingInv'[k] = processingInv[k] BY <1>1, <1>10
  <2> QED BY <2>3, <2>4, <2>5, EndStep
<1> QED BY <1>8, <1>9, <1>10

\* Every step keeps the invariant.
LEMMA NextRequestInv ==
  ASSUME IndInv, RequestInv, [Next]_vars
  PROVE  RequestInv'
<1>1. TypeOK /\ MessagesOK /\ LedgersGrow BY NextIndInv DEF IndInv
<1>2. ASSUME NoNewRequest, UNCHANGED processingInv PROVE RequestInv' BY <1>1, <1>2, QuietStep
<1>3. ASSUME UNCHANGED << chan, processingInv >> PROVE RequestInv'
  BY <1>1, <1>2, <1>3 DEF NoNewRequest, Quieter
<1>4. CASE UNCHANGED vars BY <1>3, <1>4 DEF vars, linkVars, nodeVars
<1>5. ASSUME NEW n \in Node, InitiateProtocol(n) \/ MiningTimer(n) PROVE RequestInv'
  BY <1>3, <1>5 DEF InitiateProtocol, MiningTimer, linkVars
<1>6. ASSUME NEW n \in Node, NEW t \in Tx, TxGenTimer(n, t) PROVE RequestInv'
  BY <1>3, <1>6 DEF TxGenTimer, linkVars
<1>7. ASSUME NEW n \in Node, TxBroadcastTimer(n) PROVE RequestInv'
  <2> DEFINE v == [type |-> "TXGOSSIP-INV", txs |-> txToBroadcast[n]]
  <2>1. v \in TxMessage BY <1>1 DEF TypeOK, TxMessage
  <2>2. chan' = Put(chan, n, Node \cap nbr[n], v) /\ UNCHANGED processingInv
    BY <1>7 DEF TxBroadcastTimer, BroadcastTimer, Sent, nodeVars
  <2> HIDE DEF v
  <2>3. chan \in Channels(Message) BY <1>1 DEF TypeOK, Channels, Message
  <2>4. NoNewRequest BY <2>1, <2>2, <2>3, TxMessageNoRequest, SentNoRequest
  <2> QED BY <1>2, <2>2, <2>4
<1>8. ASSUME NEW n \in Node, MiningComplete(n) PROVE RequestInv'
  <2>1. NoNewRequest BY <1>1, <1>8, MiningNoRequest
  <2> QED BY <1>2, <1>8, <2>1 DEF MiningComplete
<1>9. ASSUME NEW n \in Node, NEW s \in Node, RecvTxInv(n, s) \/ RecvTxGetdata(n, s) \/ RecvTxs(n, s)
      PROVE  RequestInv'
  <2>1. RecvInventoryHandler(n, s) \/ RecvGetdataHandler(n, s) \/ RecvTxsHandler(n, s)
    BY <1>9 DEF RecvTxInv, RecvTxGetdata, RecvTxs
  <2>2. NoNewRequest BY <1>1, <2>1, TxHandlersNoRequest
  <2> QED BY <1>2, <1>9, <2>2 DEF RecvTxInv, RecvTxGetdata, RecvTxs, nodeVars
<1>10. ASSUME NEW n \in Node, NEW s \in Node, RecvPOWBlockGetBlocks(n, s) PROVE RequestInv'
  <2>1. NoNewRequest BY <1>10, GetBlocksNoRequest
  <2> QED BY <1>2, <1>10, <2>1 DEF RecvPOWBlockGetBlocks, nodeVars
<1>11. ASSUME NEW n \in Node, NEW s \in Node,
              PeerConnected(n, s) \/ PeerNotified(n, s) \/ PeerLost(n, s)
       PROVE  RequestInv'
  <2>1. (LinkUp(n, s) \/ LinkNotify(n, s) \/ LinkDown(n, s)) /\ UNCHANGED processingInv
    BY <1>11 DEF PeerConnected, PeerNotified, PeerLost, nodeVars
  <2>2. NoNewRequest BY <1>1, <2>1, LinksNoRequest
  <2> QED BY <1>2, <2>1, <2>2
<1>12. ASSUME NEW n \in Node, NEW s \in Node,
              RecvPOWBlockInv(n, s) \/ RecvPOWBlockGetData(n, s) \/ RecvPOWBlockBlk(n, s)
       PROVE  RequestInv'
  BY <1>1, <1>12, InvRequests, GetDataRequests, BlkRequests
<1> QED BY <1>4, <1>5, <1>6, <1>7, <1>8, <1>9, <1>10, <1>11, <1>12 DEF Next, RecvMsg

\* No message is under way at the start.
LEMMA InitRequestInv == Init => RequestInv
<1> SUFFICES ASSUME Init, NEW n \in Node PROVE RequestOK(n) BY DEF RequestInv
<1>1. \A p, q \in Node : chan[<<p, q>>] = << >> BY DEF Init, LinkInit
<1>2. \A t : None(<< >>, t) /\ Single(<< >>, t) BY DEF None, Single, ToSet
<1>3. \A p, q \in Node : Idle(chan, p, q) BY <1>1, <1>2 DEF Idle
<1>4. AtMostOne(chan, n) BY <1>1, <1>2, <1>3 DEF AtMostOne
<1> QED BY <1>1, <1>3, <1>4 DEF RequestOK, ToSet

\* The invariant of the requests holds in every state.
LEMMA RequestInvariance == Spec => []RequestInv
<1>1. IndInv /\ RequestInv /\ [Next]_vars => RequestInv' BY NextRequestInv
<1> QED BY <1>1, InitRequestInv, Invariance, PTL DEF Spec

-----------------------------------------------------------------------------
\* The theorems.

\* What is unsettled are the places of one message.
LEMMA UnsettledOne ==
  ASSUME NEW n \in Node, AtMostOne(chan, n), NEW x \in Unsettled(n), NEW y \in Unsettled(n)
  PROVE  x = y
<1> DEFINE Asked(s) == {j \in DOMAIN chan[<<n, s>>] : chan[<<n, s>>][j].type = "POWBLOCK-GETDATA"}
           Answered(s) == {j \in DOMAIN chan[<<s, n>>] : chan[<<s, n>>][j].type = "POWBLOCK-BLK"}
           At(z, s) == \/ \E i \in Asked(s) : z = <<n, s, i>>
                       \/ \E i \in Answered(s) : z = <<s, n, i>>
<1>1. \A z \in Unsettled(n) : \E s \in Node : At(z, s) BY DEF Unsettled
<1>2. PICK s \in Node : At(x, s) BY <1>1
<1>3. PICK q \in Node : At(y, q) BY <1>1
<1>4. /\ \A p \in Node : Asked(p) # {} => ~ None(chan[<<n, p>>], "POWBLOCK-GETDATA")
      /\ \A p \in Node : Answered(p) # {} => ~ None(chan[<<p, n>>], "POWBLOCK-BLK")
  BY DEF None, ToSet
<1>5. s = q BY <1>2, <1>3, <1>4 DEF AtMostOne, Idle
<1>6. /\ \A i, j \in Asked(s) : i = j
      /\ \A i, j \in Answered(s) : i = j
      /\ Asked(s) = {} \/ Answered(s) = {}
  BY <1>4 DEF AtMostOne, Single
<1> HIDE DEF Asked, Answered
<1> QED BY <1>2, <1>3, <1>5, <1>6

\* A node never has two block requests under way, and none without an inventory
\* to process: an answer cannot be taken for that to another inventory.
THEOREM OneRequestAtATime == Spec => []OneRequest
<1>1. RequestInv => OneRequest
  <2> SUFFICES ASSUME RequestInv, NEW n \in Node
               PROVE  /\ Cardinality(Unsettled(n)) <= 1
                      /\ Unsettled(n) # {} => processingInv[n] # << >>
    BY DEF OneRequest
  <2>1. RequestOK(n) BY DEF RequestInv
  <2>2. Cardinality(Unsettled(n)) <= 1
    <3>1. CASE Unsettled(n) = {} BY <3>1, FS_EmptySet
    <3>2. ASSUME NEW x \in Unsettled(n) PROVE Cardinality(Unsettled(n)) <= 1
      <4>1. Unsettled(n) = {x} BY <2>1, <3>2, UnsettledOne DEF RequestOK
      <4>2. Cardinality({x}) = 1 BY FS_Singleton
      <4> QED BY <4>1, <4>2
    <3> QED BY <3>1, <3>2
  <2>3. ASSUME NEW x \in Unsettled(n) PROVE processingInv[n] # << >>
    <3>1. PICK s \in Node :
            \/ \E j \in DOMAIN chan[<<n, s>>] : chan[<<n, s>>][j].type = "POWBLOCK-GETDATA"
            \/ \E j \in DOMAIN chan[<<s, n>>] : chan[<<s, n>>][j].type = "POWBLOCK-BLK"
      BY <2>3 DEF Unsettled
    <3>2. ~ Idle(chan, n, s) BY <3>1 DEF Idle, None, ToSet
    <3> QED BY <2>1, <3>2 DEF RequestOK
  <2> QED BY <2>2, <2>3
<1> QED BY <1>1, RequestInvariance, PTL

\* A block is asked only from a peer that has it (the assertions "hash must be
\* synchronized already." and "must have blockdata." of the handler).
THEOREM RequestedBlocksHeld == Spec => []RequestedBlockHeld
<1>1. RequestInv => RequestedBlockHeld
  <2> SUFFICES ASSUME RequestInv, NEW n \in Node, NEW s \in Node,
                      NEW m \in ToSet(chan[<<s, n>>]), m.type = "POWBLOCK-GETDATA"
               PROVE  m.hash \in blocktree[n].ledgermap
    BY DEF RequestedBlockHeld, InFlight, ContainBlock
  <2>1. ~ Idle(chan, s, n) BY DEF Idle, None
  <2>2. RequestOK(s) BY DEF RequestInv
  <2>3. PICK i \in 1..Len(processingInv[s]) : m.hash = processingInv[s][i] BY <2>2 DEF RequestOK
  <2>4. HasInventory(s, n) BY <2>1, <2>2 DEF RequestOK
  <2> QED BY <2>3, <2>4 DEF HasInventory
<1> QED BY <1>1, RequestInvariance, PTL
=============================================================================
