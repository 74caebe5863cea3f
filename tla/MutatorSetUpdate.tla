-------------------------- MODULE MutatorSetUpdate --------------------------
(***************************************************************************)
(* Blocks applied to and rolled back from the mutator set: the accumulator, *)
(* which takes removals one by one (MutatorSetUpdate), and the archival set *)
(* of the node, which takes them in one batch and can go back               *)
(* (ArchivalMutatorSet and ArchivalState::update_mutator_set).  The holders *)
(* of items keep a membership proof for each and update it with every       *)
(* block; after a rollback they restore it from the archival set.           *)
(***************************************************************************)
EXTENDS MutatorSet

CONSTANTS MaxItems, MaxBlocks, MaxAdds, MaxRemoves

VARIABLES acc,     \* MutatorSetAccumulator of the tip
          arch,    \* ArchivalMutatorSet: the same, and the chunks themselves
          proofs,  \* the membership proof of every item, in leaf order
          blocks   \* since the start: [removals, additions, before]

mvars == <<acc, arch, proofs, blocks>>

EmptySet == [aocl |-> <<>>, window |-> EmptyWindow, mmr |-> <<>>]
EmptyArchive == [aocl |-> <<>>, window |-> EmptyWindow, mmr |-> <<>>, chunks |-> <<>>]

MInit == acc = EmptySet /\ arch = EmptyArchive /\ proofs = <<>> /\ blocks = <<>>

-----------------------------------------------------------------------------
(* apply_to_accumulator_and_records_inner on [acc, left, proofs, valid]:    *)
(* left are the block's removal records still to be applied.                *)
AddOne(u, c) ==
    [u EXCEPT !.acc = Add(@, c),
              !.left = [i \in DOMAIN @ |-> RrAfterAdd(@[i], u.acc, c)],
              !.proofs = Append([i \in DOMAIN @ |-> MpAfterAdd(@[i], u.acc, c)], Prove(u.acc, c))]

RemoveOne(u) ==
    LET rr == Head(u.left)
    IN [acc |-> Remove(u.acc, rr),
        left |-> [i \in DOMAIN Tail(u.left) |-> RrAfterRemove(Tail(u.left)[i], rr)],
        proofs |-> [i \in DOMAIN u.proofs |-> MpAfterRemove(u.proofs[i], rr)],
        valid |-> u.valid /\ CanRemove(u.acc, rr)]

ApplyToAccumulator(removals, additions) ==
    LET start == [acc |-> acc, left |-> removals, proofs |-> proofs, valid |-> TRUE]
        added == SeqM!FoldLeft(AddOne, start, additions)
    IN SeqM!FoldLeft(LAMBDA u, rr : RemoveOne(u), added, removals)

-----------------------------------------------------------------------------
(* ArchivalMutatorSet.  A set is its accumulator; the chunks are kept too.  *)
Accumulator(a) == [aocl |-> a.aocl, window |-> a.window, mmr |-> a.mmr]

ArchAdd(a, c) ==
    LET s == Add(Accumulator(a), c)
    IN [aocl |-> s.aocl, window |-> s.window, mmr |-> s.mmr,
        chunks |-> IF Len(s.mmr) > Len(a.mmr) THEN Append(a.chunks, SlidChunk(a)) ELSE a.chunks]

(* MUTANT: each record's chunks get that record's indices only              *)
BatchRemoveOwn(a, rrs) ==
    LET all == SeqM!FlattenSeq([i \in DOMAIN rrs |-> rrs[i].indices])
        new == [k \in UNION {DOMAIN rrs[i].chunks : i \in DOMAIN rrs} |->
                   LET i == Sets!Max({j \in DOMAIN rrs : k \in DOMAIN rrs[j].chunks})
                   IN WithIndices(rrs[i].chunks[k].chunk, k, rrs[i].indices)]
        Set(seq) == [j \in DOMAIN seq |-> IF j - 1 \in DOMAIN new THEN new[j - 1] ELSE seq[j]]
    IN [a EXCEPT !.window = WindowWith(a, all), !.chunks = Set(@), !.mmr = Set(@)]

(* batch_remove: the chunks of the last record that has them, with the      *)
(* indices of all records.                                                  *)
BatchRemove(a, rrs) ==
    LET all == SeqM!FlattenSeq([i \in DOMAIN rrs |-> rrs[i].indices])
        new == [k \in UNION {DOMAIN rrs[i].chunks : i \in DOMAIN rrs} |->
                   LET i == Sets!Max({j \in DOMAIN rrs : k \in DOMAIN rrs[j].chunks})
                   IN WithIndices(rrs[i].chunks[k].chunk, k, all)]
        Set(seq) == [j \in DOMAIN seq |-> IF j - 1 \in DOMAIN new THEN new[j - 1] ELSE seq[j]]
    IN [a EXCEPT !.window = WindowWith(a, all), !.chunks = Set(@), !.mmr = Set(@)]

(* The forward half of update_mutator_set on [arch, removals].              *)
ArchAddOne(u, c) ==
    [arch |-> ArchAdd(u.arch, c),
     removals |-> [i \in DOMAIN u.removals |->
                      RrAfterAdd(u.removals[i], Accumulator(u.arch), c)]]

ArchApply(a, removals, additions) ==
    LET u == SeqM!FoldLeft(ArchAddOne, [arch |-> a, removals |-> removals], additions)
    IN BatchRemove(u.arch, u.removals)

(* revert_remove; ActiveWindow::remove and Chunk::subtract panic on an      *)
(* index that is not set.                                                   *)
Without(chunk, k, indices) ==
    [r \in DOMAIN chunk |-> chunk[r] - Times(indices, k * ChunkSize + r)]
RevertRemove(a, rr) ==
    LET k0 == Batch(a)
        Unset(seq) == [j \in DOMAIN seq |-> Without(seq[j], j - 1, rr.indices)]
        chunks == Unset(a.chunks)
    IN [a EXCEPT !.window = [r \in DOMAIN @ |-> @[r] - Times(rr.indices, k0 * ChunkSize + r)],
                 !.chunks = chunks,
                 !.mmr = [j \in DOMAIN @ |-> IF j - 1 \in ChunksOf(rr.indices) THEN chunks[j]
                                             ELSE @[j]]]
RevertRemovePanics(a) ==
    \/ \E r \in DOMAIN a.window : a.window[r] < 0
    \/ \E j \in DOMAIN a.chunks : \E r \in DOMAIN a.chunks[j] : a.chunks[j][r] < 0

RevertAdd(a) ==
    LET b == [a EXCEPT !.aocl = SeqM!Front(@)]
    IN IF ~WindowSlides(Len(b.aocl)) THEN b
       ELSE [b EXCEPT !.mmr = SeqM!Front(@), !.chunks = SeqM!Front(@),
                      !.window = SlideWindowBack(@, SeqM!Last(a.chunks))]
(* slide_window_back asserts that the chunk it drops is empty.              *)
RevertAddPanics(a) ==
    /\ WindowSlides(Len(a.aocl) - 1)
    /\ \E r \in DOMAIN a.window : r >= WindowSize - ChunkSize /\ a.window[r] # 0

Rollback(a, b) ==
    LET unremoved == SeqM!FoldLeft(RevertRemove, a, b.removals)
    IN SeqM!FoldLeft(LAMBDA x, c : RevertAdd(x), unremoved, b.additions)
RollbackPanics(a, b) ==
    LET Unremoved(k) == SeqM!FoldLeft(RevertRemove, a, SubSeq(b.removals, 1, k))
        Unadded(k) == SeqM!FoldLeft(LAMBDA x, c : RevertAdd(x), Unremoved(Len(b.removals)),
                                    SubSeq(b.additions, 1, k))
    IN \/ \E k \in DOMAIN b.removals : RevertRemovePanics(Unremoved(k))
       \/ \E k \in DOMAIN b.additions : RevertAddPanics(Unadded(k - 1))

(* restore_membership_proof                                                 *)
Restore(a, leaf) ==
    LET indices == Absolute(Leaf(a.aocl, leaf), leaf)
    IN [leaf |-> leaf, indices |-> indices, aocl |-> Path(a.aocl, leaf),
        chunks |-> [k \in Inactive(indices, a) |->
                       [path |-> Path(a.mmr, k), chunk |-> a.chunks[k + 1]]]]

(* absolute_index_set_was_applied; an index beyond the window is not set.   *)
ContainsIndex(a, x) ==
    LET start == Batch(a) * ChunkSize
    IN IF x >= start THEN x - start < WindowSize /\ a.window[x - start] > 0
       ELSE a.chunks[ChunkOf(x) + 1][x % ChunkSize] > 0
WasApplied(a, indices) == \A x \in Range(indices) : ContainsIndex(a, x)

-----------------------------------------------------------------------------
(* A block spends distinct index sets, each removable in the set before it, *)
(* and its update must succeed.                                             *)
ApplyBlock(leaves, additions) ==
    LET removals == [i \in DOMAIN leaves |-> Drop(proofs[leaves[i] + 1])]
        u == ApplyToAccumulator(removals, additions)
    IN /\ Len(blocks) < MaxBlocks
       /\ Len(acc.aocl) + Len(additions) <= MaxItems
       /\ \A i, j \in DOMAIN removals : removals[i].indices = removals[j].indices => i = j
       /\ \A i \in DOMAIN removals : CanRemove(acc, removals[i])
       /\ u.valid
       /\ acc' = u.acc /\ proofs' = u.proofs
       /\ arch' = ArchApply(arch, removals, additions)
       /\ blocks' = Append(blocks, [removals |-> removals, additions |-> additions, before |-> acc])

RollBackBlock ==
    /\ blocks # <<>>
    /\ arch' = Rollback(arch, SeqM!Last(blocks))
    /\ acc' = Accumulator(arch')
    /\ proofs' = [i \in 1 .. Len(arch'.aocl) |-> Restore(arch', i - 1)]
    /\ blocks' = SeqM!Front(blocks)

MNext ==
    \/ \E leaves \in SeqM!SeqOf(0 .. Len(acc.aocl) - 1, MaxRemoves),
          additions \in SeqM!SeqOf(Samples, MaxAdds) :
          leaves \o additions # <<>> /\ ApplyBlock(leaves, additions)
    \/ RollBackBlock

-----------------------------------------------------------------------------
(* How often the blocks have set index x of the Bloom filter.               *)
SetTimes(x) ==
    Sets!MapThenSumSet(LAMBDA b : Sets!MapThenSumSet(
        LAMBDA i : Times(blocks[b].removals[i].indices, x), DOMAIN blocks[b].removals),
        DOMAIN blocks)

(* A membership proof that is updated with every block keeps verifying      *)
(* until all indices of its item are set, and never after: the verdict of   *)
(* MutatorSetAccumulator::verify is the one a plain multiset of all the     *)
(* indices ever set would give.                                             *)
ProofsStayInStep ==
    \A i \in DOMAIN proofs :
        MsVerify(acc, proofs[i]) <=> \E x \in Range(proofs[i].indices) : SetTimes(x) = 0

(* update_mutator_set leaves the archival set, filled in one batch, equal   *)
(* to the accumulator, filled record by record (the assertion at its end),  *)
(* and a proof restored from its chunks equals the one kept up to date.     *)
ArchivalAgrees ==
    /\ Accumulator(arch) = acc
    /\ arch.chunks = arch.mmr
    /\ \A i \in DOMAIN proofs : Restore(arch, i - 1) = proofs[i]

(* No removal record of an applied block can be applied again, however the  *)
(* window has moved on, and its index set counts as applied.                *)
NoSecondRemoval ==
    \A b \in DOMAIN blocks : \A i \in DOMAIN blocks[b].removals :
        /\ ~CanRemove(acc, blocks[b].removals[i])
        /\ WasApplied(arch, blocks[b].removals[i].indices)

(* The tip can be rolled back: no index to unset is missing, no chunk that  *)
(* slides out of the window is in use, and the set before it comes back.    *)
TipIsReversible ==
    blocks # <<>> =>
        /\ ~RollbackPanics(arch, SeqM!Last(blocks))
        /\ Accumulator(Rollback(arch, SeqM!Last(blocks))) = SeqM!Last(blocks).before

(* The leaf range that aocl_range computes from an index set contains the   *)
(* leaf it came from, so a privacy-preserving restore includes its path,    *)
(* and no batch in the range is too late or too early for the indices.      *)
AoclRangeIsTight ==
    \A i \in DOMAIN proofs :
        LET range == AoclRange(proofs[i].indices)
            Possible(leaf) == \A x \in Range(proofs[i].indices) :
                x - (leaf \div BatchSize) * ChunkSize \in 0 .. WindowSize - 1
        IN \A leaf \in 0 .. MaxItems + 2 * BatchSize :
              (range.min <= leaf /\ leaf <= range.max) <=> Possible(leaf)

(* Membership is exact at every tip: the proofs that were kept up to date   *)
(* verify exactly while the item is unspent, nothing applied applies again, *)
(* and the range an index set reveals is the tightest one.                  *)
MembershipIsExact == ProofsStayInStep /\ NoSecondRemoval /\ AoclRangeIsTight

(* The archival mutator set follows the chain both ways: it agrees with the *)
(* accumulator after each block and can roll its tip back.                  *)
ArchivalFollows == ArchivalAgrees /\ TipIsReversible
=============================================================================
