------------------------------ MODULE BlockTree ------------------------------
(***************************************************************************)
(* BL3_protocol/BlockTree: the tree of blocks a PoW node keeps.            *)
(*                                                                         *)
(* A block hash is SHA-256 over the block's nonce, index, transactions and *)
(* the hash of its parent, so it commits to the whole chain below it.  We  *)
(* take hashes to be collision free and let a block (and its hash) BE that *)
(* chain: the sequence of headers from the genesis block's child up to the *)
(* block.  The genesis block is the empty sequence, "the previous block"   *)
(* drops the last header.  A header is a record with at least the field    *)
(* idx, the index the miner STORED in the block, which the tree compares   *)
(* with its height and which need not be the length of the chain.          *)
(*                                                                         *)
(* A tree is a record [ledgermap, lasthash, treeheight].                   *)
(***************************************************************************)
EXTENDS Naturals, Sequences, FiniteSets, SequencesExt, FiniteSetsExt

Genesis == << >>

\* Block::GetBlockIdx.
Idx(b) == IF b = Genesis THEN 0 ELSE b[Len(b)].idx

\* POWBlock::GetPrevBlockHash, for every block but genesis.
Prev(b) == SubSeq(b, 1, Len(b) - 1)

\* The block reached from b by following previous hashes down to height k.
Ancestor(b, k) == SubSeq(b, 1, k)

\* BlockTree::BlockTree.
NewTree == [ledgermap |-> {Genesis}, lasthash |-> Genesis, treeheight |-> 1]

\* BlockTree::ContainBlock and ContainBlockHash.  They differ only on entries
\* made by AppendBlockHash, which nothing calls.
ContainBlock(t, b) == b \in t.ledgermap

\* Mutants of Insert: a side branch is not stored; the main chain is dropped
\* when it is overtaken, with the part that both branches share.
InsertMainOnly(t, b) == IF t.lasthash = Prev(b) THEN t.ledgermap \cup {b} ELSE t.ledgermap
InsertDropping(t, b) ==
  IF t.lasthash # Prev(b) /\ t.treeheight <= Idx(b)
  THEN {c \in t.ledgermap : ~ IsPrefix(c, t.lasthash)} \cup {b}
  ELSE t.ledgermap \cup {b}

\* The ledger with b.
Insert(t, b) == t.ledgermap \cup {b}

\* Mutants of Overtakes: a longer branch is not recognised; a tie switches.
OvertakesLate(t, b) == t.treeheight < Idx(b)
OvertakesOnTie(t, b) == t.treeheight <= Idx(b) + 1

\* A branch that ends in b displaces the main chain: its index reaches the tree
\* height (on a tie the first branch seen stays).
Overtakes(t, b) == t.treeheight <= Idx(b)

\* BlockTree::AppendBlock: a block with an unknown parent is dropped; a child
\* of the tip becomes the tip; so does the end of an overtaking branch.
AppendBlock(t, b) ==
  IF ~ ContainBlock(t, Prev(b)) THEN t
  ELSE IF t.lasthash = Prev(b)
  THEN [ledgermap |-> Insert(t, b), lasthash |-> b, treeheight |-> t.treeheight + 1]
  ELSE IF Overtakes(t, b)
  THEN [ledgermap |-> Insert(t, b), lasthash |-> b, treeheight |-> Idx(b) + 1]
  ELSE [ledgermap |-> Insert(t, b), lasthash |-> t.lasthash, treeheight |-> t.treeheight]

\* How far below the tip the entries of a block locator lie: five consecutive
\* blocks, then strides of 2, 4, 8, 16 and 32.
LocatorOffset == << 0, 1, 2, 3, 4, 6, 10, 18, 34, 66 >>

\* Mutant of GetBlockLocator: taken for a bare genesis one block too late.
GetBlockLocatorBare(t) ==
  LET tip == t.lasthash
      size == Cardinality({i \in 1..10 : LocatorOffset[i] <= Len(tip)})
  IN  IF t.treeheight <= 2 THEN << tip >>
      ELSE Append([i \in 1..size |-> Ancestor(tip, Len(tip) - LocatorOffset[i])], Genesis)

\* BlockTree::GetBlockLocator: the entries that exist on the main chain, then
\* genesis (a second time when the walk stops on genesis itself).
GetBlockLocator(t) ==
  LET tip == t.lasthash
      size == Cardinality({i \in 1..10 : LocatorOffset[i] <= Len(tip)})
  IN  IF t.treeheight = 1 THEN << tip >>
      ELSE Append([i \in 1..size |-> Ancestor(tip, Len(tip) - LocatorOffset[i])], Genesis)

\* BlockTree::FindCommonBlock: the highest main-chain block of the locator.
FindCommonBlock(t, locator) ==
  LET tip == t.lasthash
      heights == {k \in 0..Len(tip) : Ancestor(tip, k) \in ToSet(locator)}
  IN  Ancestor(tip, Max(heights))

\* BlockTree::GetChainFromBlock: the main chain from the tip down to start.
GetChainFromBlock(t, start) ==
  LET tip == t.lasthash
  IN  [i \in 1..(Len(tip) - Len(start) + 1) |-> Ancestor(tip, Len(tip) - i + 1)]

-----------------------------------------------------------------------------
\* What the assertions of BlockTree rely on: the ledger holds the tip, and the
\* walk along previous hashes from any of its blocks to genesis stays in it.
Rooted(t) ==
  /\ t.lasthash \in t.ledgermap
  /\ \A b \in t.ledgermap : \A k \in 0..Len(b) : Ancestor(b, k) \in t.ledgermap

\* Stored indexes, height and tip agree with the tree.
Longest(t) ==
  /\ t.treeheight = Len(t.lasthash) + 1
  /\ \A b \in t.ledgermap : Idx(b) = Len(b) /\ Len(b) <= Len(t.lasthash)
=============================================================================
