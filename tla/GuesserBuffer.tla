--------------------------- MODULE GuesserBuffer ---------------------------
(* The memory-hard puzzle of a block: the guesser preprocesses a buffer of  *)
(* 2^height leafs from the parent's digest in two arrays that swap roles    *)
(* layer by layer, builds a Merkle tree over them in place, and opens two   *)
(* indices per guess; the verifier recomputes only the two leafs.  Hashes   *)
(* are free terms: a bud is <<k>> and a pair is <<l, r>>.  Tree height      *)
(* (27 in the code) and number of bud layers (5) are chosen by Init.        *)
EXTENDS Integers, Sequences, Functions

SeqG == INSTANCE SequencesExt

CONSTANTS MaxHeight, MaxLayers

VARIABLES height,     \* MERKLE_TREE_HEIGHT
          layers,     \* NUM_BUD_LAYERS
          ins, outs,  \* the two arrays, [0 .. NumBuds - 1 -> digest]
          swaps,      \* num_swaps: which array is `buds`
          tree,       \* the finished MTree, or << >>
          guess       \* the last Pow found, or << >>

gvars == <<height, layers, ins, outs, swaps, tree, guess>>

NumBuds == 2 ^ height
Index == 0 .. NumBuds - 1
Pair(l, r) == <<l, r>>
Bud(k) == <<k>>

\* k ^ 1
Flip(k) == IF k % 2 = 0 THEN k + 1 ELSE k - 1

\* The height low bits of k in reverse order.
BitReverse(k) ==
  SeqG!FoldLeft(LAMBDA acc, b : 2 * acc + ((k \div 2 ^ b) % 2), 0,
                [b \in 1 .. height |-> b - 1])

\* MTree::build_inplace: node p is over nodes 2p and 2p + 1, where the nodes
\* from n on are the n leafs.
BuildInplace(leafs, n) ==
  LET node[p \in 1 .. 2 * n - 1] ==
        IF p >= n THEN leafs[p - n] ELSE Pair(node[2 * p], node[2 * p + 1])
  IN  [leafs |-> leafs, nodes |-> [p \in 1 .. n - 1 |-> node[p]]]

TreeRoot(t) == t.nodes[1]

TreePath(t, index) ==
  LET n == 2 ^ height
  IN  [k \in 1 .. height |->
         IF k = 1 THEN t.leafs[Flip(index)]
         ELSE t.nodes[Flip((index + n) \div 2 ^ (k - 1))]]

TreeVerify(root, index, path, element) ==
  /\ index <= 2 ^ Len(path)
  /\ root = SeqG!FoldLeft(
              LAMBDA d, k : IF (index \div 2 ^ (k - 1)) % 2 = 1
                            THEN Pair(path[k], d) ELSE Pair(d, path[k]),
              element, [k \in 1 .. Len(path) |-> k])

\* Pow::leaf, the verifier's way to one leaf: a small tree over the next
\* 2^layers buds, around the end of the buffer.
LeafOf(index) ==
  LET n == 2 ^ layers
      buds == [i \in 0 .. n - 1 |-> Bud((index + i) % NumBuds)]
  IN  IF layers = 0 THEN buds[0] ELSE TreeRoot(BuildInplace(buds, n))

Buds == IF swaps % 2 = 0 THEN ins ELSE outs

LayerDoneFixedStride(i) ==
  [k \in Index |-> Pair(Buds[k], Buds[(k + 1) % NumBuds])]

\* One layer: every leaf of the other array from two buds 2^i apart.
LayerDone(i) == [k \in Index |-> Pair(Buds[k], Buds[(k + 2 ^ i) % NumBuds])]

\* Each k below its reverse swaps with it, one after the other.
BitReversed(leafs) ==
  SeqG!FoldLeft(
    LAMBDA a, k : LET r == BitReverse(k)
                  IN  IF k < r THEN [a EXCEPT ![k] = a[r], ![r] = a[k]] ELSE a,
    leafs, [k \in 1 .. NumBuds |-> k - 1])

--------------------------------------------------------------------------
(* The block's MAST: three nested Merkle trees.  The header has eight       *)
(* fields, of which the puzzle solution is the fifth; the kernel has header, *)
(* body and appendix, padded to four; the block has kernel and proof.        *)

HashVarlen(v) == <<v>>
Padding == <<0, 0>>

MastRoot(leafs) == TreeRoot(BuildInplace([i \in 0 .. Len(leafs) - 1 |->
                                            leafs[i + 1]], Len(leafs)))

HeaderLeafs(pow) ==
  [i \in 1 .. 8 |-> HashVarlen(IF i = 5 THEN pow ELSE <<i>>)]
KernelLeafs(header) ==
  <<HashVarlen(header), HashVarlen(<<11>>), HashVarlen(<<12>>), Padding>>
BlockLeafs(kernel) == <<HashVarlen(kernel), HashVarlen(<<13>>)>>

\* Block::hash
BlockHash(pow) ==
  MastRoot(BlockLeafs(MastRoot(KernelLeafs(MastRoot(HeaderLeafs(pow))))))

\* Block::pow_mast_paths: the siblings of the puzzle field, of the header
\* and of the kernel.
PowMastPaths ==
  LET h == HeaderLeafs(<<0>>)
      k == KernelLeafs(<<0>>)
  IN  [pow |-> <<h[6], Pair(h[7], h[8]),
                 Pair(Pair(h[1], h[2]), Pair(h[3], h[4]))>>,
       header |-> <<k[2], Pair(k[3], k[4])>>,
       kernel |-> <<HashVarlen(<<13>>)>>]

\* PowMastPaths::fast_mast_hash
FastMastHash(paths, pow) ==
  LET header == Pair(paths.pow[3],
                     Pair(Pair(HashVarlen(pow), paths.pow[1]), paths.pow[2]))
      kernel == Pair(Pair(HashVarlen(header), paths.header[1]),
                     paths.header[2])
  IN  Pair(HashVarlen(kernel), paths.kernel[1])

--------------------------------------------------------------------------

GInit ==
  /\ height \in 1 .. MaxHeight
  /\ layers \in 0 .. MaxLayers
  /\ ins = [k \in Index |-> Bud(k)]
  /\ outs = ins
  /\ swaps = 0
  /\ tree = <<>>
  /\ guess = <<>>

\* One turn of preprocess' loop.
HashLayer ==
  /\ tree = <<>> /\ swaps < layers
  /\ IF swaps % 2 = 0 THEN outs' = LayerDone(swaps) /\ UNCHANGED ins
     ELSE ins' = LayerDone(swaps) /\ UNCHANGED outs
  /\ swaps' = swaps + 1
  /\ UNCHANGED <<height, layers, tree, guess>>

\* The last swap, the choice of the array that holds the leafs, the index
\* reversal and the tree.
FinishBuffer ==
  /\ tree = <<>> /\ swaps = layers
  /\ swaps' = swaps + 1
  /\ LET leafs == IF swaps' % 2 = 1 THEN ins ELSE outs
     IN  tree' = BuildInplace(BitReversed(leafs), NumBuds)
  /\ UNCHANGED <<height, layers, ins, outs, guess>>

\* The two indices are a hash of root, block and nonce: any two.  The nonce
\* stands for the indices it hashes to.
Guess(a, b) ==
  /\ tree # <<>>
  /\ guess' = [root |-> TreeRoot(tree), nonce |-> <<a, b>>,
               pathA |-> TreePath(tree, a), pathB |-> TreePath(tree, b)]
  /\ UNCHANGED <<height, layers, ins, outs, swaps, tree>>

GNext == HashLayer \/ FinishBuffer \/ \E a, b \in Index : Guess(a, b)

\* Pow::validate up to the threshold
ValidatePow(pow) ==
  LET a == pow.nonce[1]
      b == pow.nonce[2]
  IN  /\ TreeVerify(pow.root, a, pow.pathA, LeafOf(BitReverse(a)))
      /\ TreeVerify(pow.root, b, pow.pathB, LeafOf(BitReverse(b)))

--------------------------------------------------------------------------

\* Every guess made from a preprocessed buffer passes the verifier, which
\* never sees the buffer: the leafs that the two arrays, the layers and the
\* index reversal produce are the leafs the verifier recomputes one by one,
\* for every height and number of layers (also when a leaf's buds wrap
\* around the buffer).
GuessesValidate == guess = <<>> \/ ValidatePow(guess)

\* The hash a guesser compares with the target, computed from the three
\* paths, is the hash of the block with that solution in its header.
FastHashIsBlockHash ==
  guess = <<>> \/ FastMastHash(PowMastPaths, guess.nonce) = BlockHash(guess.nonce)

\* A guesser that only looks at its buffer finds what the network accepts: the
\* solution validates, and the hash it compared is the block's.
GuesserAgreesWithVerifier == GuessesValidate /\ FastHashIsBlockHash
============================================================================
