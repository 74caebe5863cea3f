-------------------------- MODULE RemovalRecordList --------------------------
(***************************************************************************)
(* The packing of a block's removal records (removal_record_list.rs): the   *)
(* chunks once each, one authentication structure per mountain of the       *)
(* inactive Bloom filter, and the number of its leafs neither sent nor      *)
(* known on arrival but estimated from what the records show.               *)
(*                                                                          *)
(* An index set is the set of chunks it touches, chunk k is the number k    *)
(* with digest <<k>>, and a record [touches, dict] has in dict, for every   *)
(* inactive chunk it touches, the chunk and its path.  How the chunks'      *)
(* contents are packed is in ChunkPacking.                                  *)
(***************************************************************************)
EXTENDS MmrIndex

CONSTANTS MaxChunks, MaxRecords, Span  \* Span: chunks of the active window

VARIABLES leafCount,  \* leafs of the inactive Bloom filter
          records     \* the block's removal records
lvars == <<leafCount, records>>

-----------------------------------------------------------------------------
(* The mountains over n chunks; node m of the mountain of height h.         *)
RECURSIVE NodeDigest(_, _, _)
NodeDigest(n, h, m) ==
    LET first == SetX!MapThenSumSet(LAMBDA g : 2^g,
                     {g \in SeqX!ToSet(PeakHeights(n)) : g > h})
    IN IF m >= 2^h THEN <<first + m - 2^h>>
       ELSE <<NodeDigest(n, h, 2 * m), NodeDigest(n, h, 2 * m + 1)>>
TreeHeight(k, n) == PeakHeights(n)[PeakOf(k, n)]
RECURSIVE PathAbove(_, _, _)
PathAbove(n, h, m) ==
    IF m = 1 THEN <<>> ELSE <<NodeDigest(n, h, Sibling(m))>> \o PathAbove(n, h, m \div 2)

(* A record that is valid against n leafs.                                  *)
Record(touches, n) ==
    [touches |-> touches,
     dict |-> [k \in {t \in touches : t < n} |->
                  [chunk |-> k, path |-> PathAbove(n, TreeHeight(k, n), MerkleIndex(k, n))]]]

LInit == leafCount \in 0 .. MaxChunks /\ records = <<>>
AddRecord(touches) ==
    /\ Len(records) < MaxRecords
    /\ records' = Append(records, Record(touches, leafCount))
    /\ UNCHANGED leafCount
LNext ==
    \E first \in 0 .. leafCount, others \in SUBSET (0 .. Span - 1) :
        Cardinality(others) <= 2 /\ AddRecord({first} \cup {first + o : o \in others})

-----------------------------------------------------------------------------
(* estimate_num_leafs_aocl, in leafs of the Bloom filter: from the largest  *)
(* chunk, each tree height seen (largest first) must be a set bit.          *)
Explain(est, height) ==
    LET w == 2^height
    IN IF (est \div w) % 2 = 1 THEN est ELSE (est + w) - (est % w)

EstimateNumLeafs(chunks, heights) ==
    LET largest == IF chunks = {} THEN 0 ELSE SetX!Max(chunks)
    IN SeqX!FoldLeft(Explain, largest, SeqX!SetToSortSeq(heights, LAMBDA a, b : a > b))

Ascending(S) == SeqX!SetToSortSeq(S, LAMBDA a, b : a < b)
HeightsUp(n) == Ascending(SeqX!ToSet(PeakHeights(n)))
MerkleIn(ks, h, n) == {MerkleIndex(k, n) : k \in {j \in ks : TreeHeight(j, n) = h}}

(* from_removal_records asserts that the records agree with the estimate.   *)
Observed(rrs) == UNION {DOMAIN rrs[i].dict : i \in DOMAIN rrs}
PathLengths(rrs) == UNION {{Len(rrs[i].dict[k].path) : k \in DOMAIN rrs[i].dict} : i \in DOMAIN rrs}
PackPanics(rrs, n) ==
    \E i \in DOMAIN rrs : \E k \in DOMAIN rrs[i].dict :
        k >= n \/ Len(rrs[i].dict[k].path) # TreeHeight(k, n)

(* The sparse view of the mountains that the records' paths give.           *)
RECURSIVE PathNodes(_, _, _, _)
PathNodes(h, m, hash, path) ==
    IF path = <<>> THEN {<<h, m, hash>>}
    ELSE {<<h, m, hash>>, <<h, Sibling(m), Head(path)>>} \cup
         PathNodes(h, m \div 2, IF m % 2 = 0 THEN <<hash, Head(path)>> ELSE <<Head(path), hash>>,
                   Tail(path))
Sparse(rrs, n) ==
    UNION {UNION {PathNodes(TreeHeight(k, n), MerkleIndex(k, n), <<rrs[i].dict[k].chunk>>,
                            rrs[i].dict[k].path) : k \in DOMAIN rrs[i].dict} : i \in DOMAIN rrs}
DigestAt(sparse, h, m) == (CHOOSE x \in sparse : x[1] = h /\ x[2] = m)[3]

(* convert_from_vec and encode_as_vec: the index sets, and the entries of   *)
(* the first record's dictionary: trees (smallest first) zipped with chunks *)
(* (ascending), the longer list padded.                                     *)
PackRecords(rrs) ==
    LET n == EstimateNumLeafs(Observed(rrs), PathLengths(rrs))
        heights == HeightsUp(n)
        chunks == Ascending(Observed(rrs))
        sparse == Sparse(rrs, n)
        auth == [p \in DOMAIN heights |->
                    LET nodes == AuthNodes(MerkleIn(Observed(rrs), heights[p], n))
                    IN [j \in DOMAIN nodes |-> DigestAt(sparse, heights[p], nodes[j])]]
    IN [touches |-> [i \in DOMAIN rrs |-> rrs[i].touches],
        entries |-> [e \in 1 .. SetX!Max({Len(heights), Len(chunks)}) |->
                        [tree |-> e <= Len(heights), chunked |-> e <= Len(chunks),
                         height |-> IF e <= Len(heights) THEN heights[e] ELSE 0,
                         auth |-> IF e <= Len(heights) THEN auth[e] ELSE <<>>,
                         chunk |-> IF e <= Len(chunks) THEN chunks[e] ELSE 0]]]

-----------------------------------------------------------------------------
(* MUTANT: the chunks of the active window count as observed too            *)
ObservedFromAll(touches, number) == Ascending(UNION {touches[i] : i \in DOMAIN touches})

(* observed_chunk_indices_from_index_sets: the first ones touched.          *)
ObservedFromIndexSets(touches, number) ==
    SubSeq(Ascending(UNION {touches[i] : i \in DOMAIN touches}), 1, number)

(* decode_from_vec: heights ascending, chunks in order, the chunk indices   *)
(* they belong to and the estimate from both.                               *)
Decode(packed) ==
    LET es == packed.entries
        trees == {e \in DOMAIN es : es[e].tree}
        chunked == {e \in DOMAIN es : es[e].chunked}
        first == ObservedFromIndexSets(packed.touches, Cardinality(chunked))
        n == EstimateNumLeafs(SeqX!ToSet(first), {es[e].height : e \in trees})
    IN [touches |-> packed.touches, leafCount |-> n,
        chunks |-> [j \in 1 .. Cardinality(chunked) |-> es[j].chunk],
        auth |-> [j \in 1 .. Cardinality(trees) |-> es[j].auth]]

(* validate_consistency                                                     *)
ObservedIn(list) ==
    {k \in UNION {list.touches[i] : i \in DOMAIN list.touches} : k < list.leafCount}
Consistent(list) ==
    LET n == list.leafCount
        heights == HeightsUp(n)
    IN /\ Cardinality(ObservedIn(list)) = Len(list.chunks)
       /\ Len(list.auth) = Len(heights)
       /\ \A length \in 0 .. 2 * n :  \* the sorted lists of lengths are equal
             Cardinality({p \in DOMAIN heights : Len(list.auth[p]) = length})
           = Cardinality({p \in DOMAIN heights :
                 Len(AuthNodes(MerkleIn(ObservedIn(list), heights[p], n))) = length})

(* convert_to_vec: the sparse view from chunks and structures, parents      *)
(* completed where both children are known, and each record's paths in it.  *)
RECURSIVE Complete(_)
Complete(sparse) ==
    LET parents == {<<x[1], x[2] \div 2, <<x[3], y[3]>>>> :
                       <<x, y>> \in {z \in sparse \X sparse :
                           z[1][1] = z[2][1] /\ z[1][2] % 2 = 0 /\ z[2][2] = z[1][2] + 1}}
    IN IF parents \subseteq sparse THEN sparse ELSE Complete(sparse \cup parents)
RECURSIVE PathIn(_, _, _)
PathIn(sparse, h, m) ==
    IF m = 1 THEN <<>> ELSE <<DigestAt(sparse, h, Sibling(m))>> \o PathIn(sparse, h, m \div 2)
ConvertToVec(list) ==
    LET n == list.leafCount
        ks == Ascending(ObservedIn(list))
        heights == HeightsUp(n)
        leaves == {<<TreeHeight(ks[j], n), MerkleIndex(ks[j], n), <<list.chunks[j]>>>> :
                      j \in DOMAIN ks}
        given == UNION {LET nodes == AuthNodes(MerkleIn(ObservedIn(list), heights[p], n))
                        IN {<<heights[p], nodes[j], list.auth[p][j]>> : j \in DOMAIN nodes} :
                        p \in DOMAIN heights}
        sparse == Complete(leaves \cup given)
    IN [i \in DOMAIN list.touches |->
          [touches |-> list.touches[i],
           dict |-> [k \in {t \in list.touches[i] : t < n} |->
                       [chunk |-> list.chunks[CHOOSE j \in DOMAIN ks : ks[j] = k],
                        path |-> PathIn(sparse, TreeHeight(k, n), MerkleIndex(k, n))]]]]

-----------------------------------------------------------------------------
(* Packing valid records never panics, and try_unpack gives back exactly    *)
(* the records that were packed, although the leaf count is only estimated. *)
UnpackedRecordsAreThePacked ==
    LET n == EstimateNumLeafs(Observed(records), PathLengths(records))
    IN /\ ~PackPanics(records, n)
       /\ LET list == Decode(PackRecords(records))
          IN Consistent(list) /\ ConvertToVec(list) = records

(* The estimate is viable and minimal, as its documentation says: at most   *)
(* the real leaf count, and no smaller count explains chunks and paths.     *)
EstimateIsMinimal ==
    LET n == EstimateNumLeafs(Observed(records), PathLengths(records))
    IN /\ n <= leafCount
       /\ Observed(records) # {} => \A m \in 1 .. n - 1 : PackPanics(records, m)

(* A list of removal records packs with the least leaf count that explains  *)
(* it and unpacks to the same records.                                      *)
RecordListIsExact == UnpackedRecordsAreThePacked /\ EstimateIsMinimal
=============================================================================
