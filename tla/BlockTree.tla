------------------------------ MODULE BlockTree ------------------------------
(* Blocks as the node's state sees them: digests in a tree rooted at the      *)
(* genesis block.  A block stands for its digest, its header (height and      *)
(* prev_block_digest) and the mutator set update it carries; what the block's *)
(* transactions do is abstracted.  Digests do not collide.                    *)
EXTENDS Integers, Sequences

CONSTANTS
  Block,    \* the blocks that exist in the world
  Genesis,  \* the hard-coded genesis block
  Chain     \* Chain[b]: the digests from genesis to b, both included

\* Every block hangs off the genesis block and extends its parent's chain.
ASSUME ChainAssumption ==
  /\ Genesis \in Block
  /\ Chain \in [Block -> Seq(Block)]
  /\ Chain[Genesis] = <<Genesis>>
  /\ \A b \in Block : /\ Len(Chain[b]) >= 1
                      /\ Chain[b][Len(Chain[b])] = b
                      /\ b # Genesis => Len(Chain[b]) >= 2
  /\ \A b \in Block : \A n \in 1..Len(Chain[b]) :
        Chain[Chain[b][n]] = SubSeq(Chain[b], 1, n)

\* header().height
Height(b) == Len(Chain[b]) - 1

\* header().prev_block_digest of a block other than genesis
Parent(b) == Chain[b][Len(Chain[b]) - 1]

\* The blocks on the way from b down to genesis, b included.
Ancestry(b) == {Chain[b][n] : n \in 1..Len(Chain[b])}

\* The number of blocks the chains of a and b share: the LUCA sits at the
\* greatest height at which the two chains carry the same digest.
SharedLen(a, b) ==
  CHOOSE n \in 1..Len(Chain[a]) :
    /\ n <= Len(Chain[b])
    /\ Chain[a][n] = Chain[b][n]
    /\ \A m \in (n+1)..Len(Chain[a]) :
         m <= Len(Chain[b]) => Chain[a][m] # Chain[b][m]

\* find_path(a, b), first component: the blocks left behind, from a downwards.
Backwards(a, b) ==
  [i \in 1..(Len(Chain[a]) - SharedLen(a, b)) |-> Chain[a][Len(Chain[a]) + 1 - i]]

\* find_path(a, b), third component: the blocks arrived at, upwards to b.
Forwards(a, b) == SubSeq(Chain[b], SharedLen(a, b) + 1, Len(Chain[b]))
==============================================================================
