---------------------------- MODULE ArchivalMmr ----------------------------
(***************************************************************************)
(* The node's persistent Merkle mountain range (util_types/archival_mmr.rs): *)
(* all nodes of all mountains in one vector, each parent right after its    *)
(* right child, element 0 a dummy.  Leafs are appended, mutated and taken   *)
(* back in any order; the module keeps the plain list of leafs beside it.   *)
(* A digest is the term it hashes: <<x>> for a leaf, <<l, r>> for a pair.   *)
(***************************************************************************)
EXTENDS MmrIndex

CONSTANTS LeafValue, MaxLeafs

VARIABLES digests,  \* ArchivalMmr.digests, node k at position k + 1
          leafs     \* the leafs a reader expects, in order

avars == <<digests, leafs>>

Dummy == <<>>
Node(d, k) == d[k + 1]

-----------------------------------------------------------------------------
(* ArchivalMmr                                                              *)
NumLeafs(d) == NodeToLeaf(Len(d))
IsEmpty(d) == Len(d) = 1
Peaks(d) == [p \in DOMAIN PeakHeights(NumLeafs(d)) |-> Node(d, PeakNode(NumLeafs(d), p))]

(* append: the leaf, then each parent it completes.                         *)
RECURSIVE PushParents(_, _, _, _, _)
PushParents(d, node, height, length, hash) ==
    IF height = length THEN d
    ELSE LET up == <<Node(d, LeftSibling(node, height)), hash>>
         IN PushParents(Append(d, up), node + 1, height + 1, length, up)
AppendLeaf(d, leaf) ==
    PushParents(Append(d, leaf), Len(d), 0, TrailingOnes(NodeToLeaf(Len(d))), leaf)

(* mutate_leaf: the parents that exist are rehashed up to the peak.         *)
RECURSIVE Rehash(_, _, _)
Rehash(d, node, hash) ==
    LET parent == Parent(node)
        h == OwnHeight(node)
        up == IF IsRightChild(node) THEN <<Node(d, LeftSibling(node, h)), hash>>
              ELSE <<hash, Node(d, RightSibling(node, h))>>
    IN IF parent >= Len(d) THEN d ELSE Rehash([d EXCEPT ![parent + 1] = up], parent, up)
MutateLeaf(d, i, leaf) ==
    LET node == LeafToNode(i) IN Rehash([d EXCEPT ![node + 1] = leaf], node, leaf)

(* get_leaf_async; get_latest_leaf skips the parents it has completed.      *)
GetLeaf(d, i) == Node(d, LeafToNode(i))

(* MUTANT: the last node is taken for the last leaf                         *)
LatestNode(d) == Node(d, Len(d) - 1)

LatestLeaf(d) == LET node == Len(d) - 1 IN Node(d, node - OwnHeight(node))

(* remove_last_leaf_async: the leaf and every parent it had completed.      *)
RemoveLastLeaf(d) == SubSeq(d, 1, Len(d) - 1 - OwnHeight(Len(d) - 1))

(* prune_to_num_leafs                                                       *)
Prune(d, n) == SubSeq(d, 1, SetX!Min({Len(d), LeafToNode(n)}))

(* prove_membership_async: siblings from the leaf up to its mountain's peak *)
RECURSIVE Siblings(_, _, _)
Siblings(d, node, peak) ==
    LET h == OwnHeight(node)
        sibling == IF IsRightChild(node) THEN LeftSibling(node, h) ELSE RightSibling(node, h)
    IN IF node = peak THEN <<>> ELSE <<Node(d, sibling)>> \o Siblings(d, Parent(node), peak)
ProveMembership(d, i) ==
    Siblings(d, LeafToNode(i), PeakNode(NumLeafs(d), PeakOf(i, NumLeafs(d))))

(* auth_path_node_indices: one level of the walk.                           *)
RelativePathStep(node, height, left) ==
    [sibling |-> IF left THEN node + 2^(height + 1) - 1 ELSE node - 2^(height + 1) + 1,
     node |-> node + (IF left THEN 2^(height + 1) ELSE 1)]
RECURSIVE RelativePath(_, _, _, _)
RelativePath(d, node, height, merkle) ==
    LET s == RelativePathStep(node, height, merkle % 2 = 0)
    IN IF merkle <= 1 THEN <<>>
       ELSE <<Node(d, s.sibling)>> \o RelativePath(d, s.node, height + 1, merkle \div 2)

(* prove_membership_relative_to_smaller_mmr                                 *)
ProveRelative(d, i, n) == RelativePath(d, LeafToNode(i), 0, MerkleIndex(i, n))

(* MmrMembershipProof::verify                                               *)
ProofVerifies(path, i, leaf, peaks, n) == Root(path, MerkleIndex(i, n), leaf) = peaks[PeakOf(i, n)]

-----------------------------------------------------------------------------
(* new, on an empty vector (fix_dummy_async).                               *)
AInit == digests = <<Dummy>> /\ leafs = <<>>

DoAppend(x) ==
    /\ Len(leafs) < MaxLeafs
    /\ digests' = AppendLeaf(digests, <<x>>)
    /\ leafs' = Append(leafs, <<x>>)

DoMutate(i, x) ==
    /\ digests' = MutateLeaf(digests, i, <<x>>)
    /\ leafs' = [leafs EXCEPT ![i + 1] = <<x>>]

DoRemoveLast ==
    /\ ~IsEmpty(digests)
    /\ digests' = RemoveLastLeaf(digests)
    /\ leafs' = SubSeq(leafs, 1, Len(leafs) - 1)

DoPrune(n) ==
    /\ digests' = Prune(digests, n)
    /\ leafs' = SubSeq(leafs, 1, SetX!Min({n, Len(leafs)}))

ANext ==
    \/ \E x \in LeafValue : DoAppend(x) \/ \E i \in 0 .. Len(leafs) - 1 : DoMutate(i, x)
    \/ DoRemoveLast
    \/ \E n \in 0 .. MaxLeafs : DoPrune(n)

-----------------------------------------------------------------------------
(* The forest over the leafs, written down directly.                        *)
RECURSIVE Tree(_, _)
Tree(first, h) ==
    IF h = 0 THEN leafs[first + 1] ELSE <<Tree(first, h - 1), Tree(first + 2^(h - 1), h - 1)>>
RECURSIVE PostOrder(_, _)
PostOrder(first, h) ==
    IF h = 0 THEN <<Tree(first, 0)>>
    ELSE PostOrder(first, h - 1) \o PostOrder(first + 2^(h - 1), h - 1) \o <<Tree(first, h)>>
FirstLeaf(n, p) == SetX!MapThenSumSet(LAMBDA q : 2^PeakHeights(n)[q], 1 .. p - 1)
Forest(n) ==
    SeqX!FlattenSeq([p \in DOMAIN PeakHeights(n) |-> PostOrder(FirstLeaf(n, p), PeakHeights(n)[p])])

(* The vector of nodes is, after any appends, mutations and removals, the   *)
(* forest over the current leafs: no parent is stale, missing or left over. *)
NodesAreForest == digests = <<Dummy>> \o Forest(Len(leafs))

(* Counts, leafs and peaks read from the vector are those of the list, and  *)
(* the path of every leaf leads to its peak.                                *)
ProofsReachPeaks ==
    LET n == NumLeafs(digests)
    IN /\ n = Len(leafs)
       /\ n > 0 => LatestLeaf(digests) = leafs[n]
       /\ \A i \in 0 .. n - 1 :
             /\ GetLeaf(digests, i) = leafs[i + 1]
             /\ ProofVerifies(ProveMembership(digests, i), i, leafs[i + 1], Peaks(digests), n)

(* A path relative to a smaller range is the path that leaf has in the      *)
(* vector pruned to that size.                                              *)
RelativeProofsArePruned ==
    \A n \in 1 .. Len(leafs) : \A i \in 0 .. n - 1 :
        ProveRelative(digests, i, n) = ProveMembership(Prune(digests, n), i)

(* The stored vector is the mountain range of the leafs, and every query    *)
(* (counts, leafs, peaks, paths, paths in a smaller range) reads it so.     *)
MmrIsItsForest == NodesAreForest /\ ProofsReachPeaks /\ RelativeProofsArePruned
=============================================================================
