----------------------------- MODULE MutatorSet -----------------------------
(***************************************************************************)
(* The mutator set: an append-only list of commitments (AOCL) and a         *)
(* sliding-window Bloom filter whose inactive part is a Merkle mountain     *)
(* range (MMR) of chunks.  Modelled are the accumulator (consensus/src/     *)
(* mutator_set), its removal records and its membership proofs with their   *)
(* updates.  An item is its leaf in the AOCL and the Bloom indices its hash *)
(* samples; a digest is the value it commits to.  The archival set and the  *)
(* updates of blocks are in MutatorSetUpdate.                               *)
(***************************************************************************)
EXTENDS Integers, Sequences, FiniteSets, Functions

CONSTANTS BatchSize, ChunkSize,
          WindowChunks,  \* WINDOW_SIZE / CHUNK_SIZE
          Samples        \* tuples of relative indices that hashing may yield

SeqM == INSTANCE SequencesExt
Sets == INSTANCE FiniteSetsExt

WindowSize == ChunkSize * WindowChunks
EmptyWindow == [r \in 0 .. WindowSize - 1 |-> 0]
EmptyChunk == [r \in 0 .. ChunkSize - 1 |-> 0]
NoChunks == [k \in {} |-> 0]

(* Truncating subtraction of unsigned integers.                             *)
Minus(a, b) == IF a > b THEN a - b ELSE 0

-----------------------------------------------------------------------------
(* Merkle mountain ranges (external).  The path of a leaf commits to the    *)
(* other leaves of its mountain: leafs that agree with i above the highest  *)
(* bit where i and the leaf count differ.                                   *)
Height(i, n) == Sets!Max({k \in 0 .. 6 : i \div 2^k # n \div 2^k})
Mountain(i, n) == {j \in 0 .. n - 1 : j \div 2^Height(i, n) = i \div 2^Height(i, n)}
Leaf(mmr, j) == mmr[j + 1]
Path(mmr, i) == [j \in Mountain(i, Len(mmr)) \ {i} |-> Leaf(mmr, j)]
Verify(path, i, leaf, mmr) == i < Len(mmr) /\ leaf = Leaf(mmr, i) /\ path = Path(mmr, i)

(* A path after one more leaf, and after some leaves have changed.          *)
AfterAppend(path, i, mmr) ==
    [j \in Mountain(i, Len(mmr)) \ {i} |-> IF j \in DOMAIN path THEN path[j] ELSE Leaf(mmr, j)]
AfterMutation(path, changed) ==
    [j \in DOMAIN path |-> IF j \in DOMAIN changed THEN changed[j] ELSE path[j]]

-----------------------------------------------------------------------------
(* Indices.  A leaf's absolute indices start where its batch's window does. *)
Absolute(sample, leaf) ==
    [t \in DOMAIN sample |-> sample[t] + (leaf \div BatchSize) * ChunkSize]
ChunkOf(x) == x \div ChunkSize
ChunksOf(indices) == {ChunkOf(indices[t]) : t \in DOMAIN indices}

(* The multiplicity of absolute index x among indices.                      *)
Times(indices, x) == Cardinality({t \in DOMAIN indices : indices[t] = x})

(* Chunk::insert_many of the indices that fall into chunk k.                *)
WithIndices(chunk, k, indices) ==
    [r \in DOMAIN chunk |-> chunk[r] + Times(indices, k * ChunkSize + r)]

(* aocl_to_swbfi_leaf_counts                                                *)
SwbfiLeafCount(n) == Minus(n, 1) \div BatchSize

(* window_slides                                                            *)
WindowSlides(n) == n # 0 /\ n % BatchSize = 0

NextMultiple(x) == ((x + ChunkSize - 1) \div ChunkSize) * ChunkSize

(* AbsoluteIndexSet::aocl_range: the leaves an index set can belong to.     *)
AoclRange(indices) ==
    LET lo == Sets!Min(Range(indices))
        hi == Sets!Max(Range(indices))
        minStart == NextMultiple(Minus(hi, WindowSize - 1))
        maxEnd == NextMultiple(lo + WindowSize + 1) - ChunkSize
    IN [min |-> (minStart \div ChunkSize) * BatchSize,
        max |-> (Minus(maxEnd, WindowSize) \div ChunkSize) * BatchSize + BatchSize - 1]

-----------------------------------------------------------------------------
(* A set [aocl, window, mmr]: the commitments, the active window and the    *)
(* inactive chunks (their digests).                                         *)
Batch(s) == SwbfiLeafCount(Len(s.aocl))
SlidChunk(s) == [r \in DOMAIN EmptyChunk |-> s.window[r]]
SlideWindow(w) ==
    [r \in DOMAIN w |-> IF r + ChunkSize \in DOMAIN w THEN w[r + ChunkSize] ELSE 0]
SlideWindowBack(w, chunk) ==
    [r \in DOMAIN w |-> IF r < ChunkSize THEN chunk[r] ELSE w[r - ChunkSize]]

(* MutatorSetAccumulator::add_helper                                        *)
Add(s, c) ==
    LET t == [s EXCEPT !.aocl = Append(@, c)]
    IN IF WindowSlides(Len(s.aocl))
       THEN [t EXCEPT !.window = SlideWindow(@), !.mmr = Append(@, SlidChunk(s))]
       ELSE t

(* The indices that lie in the active window, inserted there.               *)
WindowWith(s, indices) ==
    [r \in DOMAIN s.window |-> s.window[r] + Times(indices, Batch(s) * ChunkSize + r)]

(* remove_helper: the record's chunks, with its indices, become the leaves. *)
Remove(s, rr) ==
    [s EXCEPT !.window = WindowWith(s, rr.indices),
              !.mmr = [j \in DOMAIN @ |->
                          IF j - 1 \in DOMAIN rr.chunks
                          THEN WithIndices(rr.chunks[j - 1].chunk, j - 1, rr.indices) ELSE @[j]]]

(* AbsoluteIndexSet::split_by_activity fails on chunks beyond the window.   *)
Future(indices, s) == \E k \in ChunksOf(indices) : k > Batch(s) + WindowChunks - 1
Inactive(indices, s) == {k \in ChunksOf(indices) : k < Batch(s)}

ChunksVerify(s, ks, chunks) ==
    \A k \in ks : k \in DOMAIN chunks /\ Verify(chunks[k].path, k, chunks[k].chunk, s.mmr)

(* Some index is set neither in the window nor in the given chunks.         *)
HasAbsentIndex(s, indices, chunks) ==
    LET start == Batch(s) * ChunkSize
    IN \E x \in Range(indices) :
          IF x >= start THEN s.window[x - start] = 0
          ELSE chunks[ChunkOf(x)].chunk[x % ChunkSize] = 0

(* RemovalRecord::validate_inner                                            *)
Validate(s, rr) ==
    /\ ~Future(rr.indices, s)
    /\ DOMAIN rr.chunks = Inactive(rr.indices, s)
    /\ ChunksVerify(s, DOMAIN rr.chunks, rr.chunks)

CanRemove(s, rr) == Validate(s, rr) /\ HasAbsentIndex(s, rr.indices, rr.chunks)

-----------------------------------------------------------------------------
(* Membership proofs [leaf, indices, aocl, chunks]: indices is what hashing *)
(* the item with its leaf index yields, aocl the path of the commitment.    *)
Prove(s, c) ==
    LET leaf == Len(s.aocl)
    IN [leaf |-> leaf, indices |-> Absolute(c, leaf),
        aocl |-> Path(Append(s.aocl, c), leaf), chunks |-> NoChunks]

MsVerify(s, mp) ==
    /\ mp.leaf < Len(s.aocl)
    /\ Verify(mp.aocl, mp.leaf, Leaf(s.aocl, mp.leaf), s.aocl)
    /\ ~Future(mp.indices, s)
    /\ ChunksVerify(s, Inactive(mp.indices, s), mp.chunks)
    /\ HasAbsentIndex(s, mp.indices, mp.chunks)

Drop(mp) == [indices |-> mp.indices, chunks |-> mp.chunks]

(* The chunk dictionary of an index set, one addition later.                *)
ChunksAfterAdd(chunks, indices, s, c) ==
    LET new == Len(s.mmr)
        mmr == Add(s, c).mmr
        entering == IF new \in ChunksOf(indices) THEN {new} ELSE {}
    IN IF ~WindowSlides(Len(s.aocl)) THEN chunks
       ELSE [k \in DOMAIN chunks \cup entering |->
                IF k = new THEN [path |-> Path(mmr, new), chunk |-> SlidChunk(s)]
                ELSE [chunks[k] EXCEPT !.path = AfterAppend(@, k, mmr)]]

(* get_batch_mutation_argument_for_removal_record: the chunks that record   *)
(* rr changes, as far as the dictionary or the record knows them.           *)
Mutated(chunks, rr) ==
    [k \in ChunksOf(rr.indices) \cap (DOMAIN chunks \cup DOMAIN rr.chunks) |->
        WithIndices((IF k \in DOMAIN chunks THEN chunks ELSE rr.chunks)[k].chunk, k, rr.indices)]

(* MUTANT: only the paths of chunks that changed themselves are updated     *)
ChunksAfterRemoveOwn(chunks, rr) ==
    LET m == Mutated(chunks, rr)
    IN [k \in DOMAIN chunks |-> IF k \in DOMAIN m THEN [chunks[k] EXCEPT !.chunk = m[k]]
                                ELSE chunks[k]]

ChunksAfterRemove(chunks, rr) ==
    LET m == Mutated(chunks, rr)
    IN [k \in DOMAIN chunks |->
          [path |-> AfterMutation(chunks[k].path, m),
           chunk |-> IF k \in DOMAIN m THEN m[k] ELSE chunks[k].chunk]]

MpAfterAdd(mp, s, c) ==
    [mp EXCEPT !.aocl = AfterAppend(@, mp.leaf, Append(s.aocl, c)),
               !.chunks = ChunksAfterAdd(@, mp.indices, s, c)]
MpAfterRemove(mp, rr) == [mp EXCEPT !.chunks = ChunksAfterRemove(@, rr)]
RrAfterAdd(rr, s, c) == [rr EXCEPT !.chunks = ChunksAfterAdd(@, rr.indices, s, c)]
RrAfterRemove(rr, applied) == [rr EXCEPT !.chunks = ChunksAfterRemove(@, applied)]
=============================================================================
