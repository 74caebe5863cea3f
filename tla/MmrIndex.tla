------------------------------ MODULE MmrIndex ------------------------------
(***************************************************************************)
(* Index arithmetic of Merkle mountain ranges, as the node uses it from the *)
(* library twenty-first (external).  Nodes are numbered in post-order,      *)
(* from 1; a mountain is a perfect tree over a power of two of leafs.       *)
(***************************************************************************)
EXTENDS Integers, Sequences, FiniteSets

SeqX == INSTANCE SequencesExt
SetX == INSTANCE FiniteSetsExt

RECURSIVE CountOnes(_)
CountOnes(n) == IF n = 0 THEN 0 ELSE (n % 2) + CountOnes(n \div 2)

RECURSIVE TrailingOnes(_)
TrailingOnes(n) == IF n % 2 = 0 THEN 0 ELSE 1 + TrailingOnes(n \div 2)

LeafToNode(i) == 2 * i - CountOnes(i) + 1
NodeToLeaf(k) == CHOOSE i \in 0 .. k : LeafToNode(i) = k

(* The perfect tree that starts the forest and ends at or before node k.    *)
RECURSIVE OwnHeight(_)
OwnHeight(k) ==
    LET h == SetX!Max({j \in 0 .. 6 : 2^(j + 1) - 1 <= k})
    IN IF k = 2^(h + 1) - 1 THEN h ELSE OwnHeight(k - (2^(h + 1) - 1))

IsRightChild(k) == OwnHeight(k + 1) = OwnHeight(k) + 1
LeftSibling(k, h) == k - 2^(h + 1) + 1
RightSibling(k, h) == k + 2^(h + 1) - 1
Parent(k) == IF IsRightChild(k) THEN k + 1 ELSE k + 2^(OwnHeight(k) + 1)

(* Heights of the mountains over n leafs, tallest first; their peaks' nodes *)
(* and the Merkle index of a leaf in its mountain.                          *)
PeakHeights(n) ==
    SeqX!SetToSortSeq({h \in 0 .. 6 : (n \div 2^h) % 2 = 1}, LAMBDA a, b : a > b)
PeakNode(n, p) ==
    SetX!MapThenSumSet(LAMBDA q : 2^(PeakHeights(n)[q] + 1) - 1, 1 .. p)
PeakOf(i, n) == CHOOSE p \in DOMAIN PeakHeights(n) :
    LET first == SetX!MapThenSumSet(LAMBDA q : 2^PeakHeights(n)[q], 1 .. p - 1)
    IN first <= i /\ i < first + 2^PeakHeights(n)[p]
MerkleIndex(i, n) == LET w == 2^PeakHeights(n)[PeakOf(i, n)] IN w + (i % w)

(* MmrMembershipProof::verify: hash the path up to the mountain's root.     *)
RECURSIVE Root(_, _, _)
Root(path, merkle, hash) ==
    IF path = <<>> THEN hash
    ELSE Root(Tail(path), merkle \div 2,
              IF merkle % 2 = 0 THEN <<hash, Head(path)>> ELSE <<Head(path), hash>>)

(* MerkleTree::authentication_structure_node_indices: the nodes beside the  *)
(* paths of the given leafs of a tree, largest first.                       *)
RECURSIVE Ancestors(_)
Ancestors(m) == IF m <= 1 THEN {m} ELSE {m} \cup Ancestors(m \div 2)
Sibling(m) == IF m % 2 = 0 THEN m + 1 ELSE m - 1
AuthNodes(merkles) ==
    LET covered == UNION {Ancestors(m) : m \in merkles}
    IN SeqX!SetToSortSeq({Sibling(m) : m \in covered \ {1}} \ covered, LAMBDA a, b : a > b)
=============================================================================
