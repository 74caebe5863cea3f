---------------------------- MODULE ArchivalState ----------------------------
(* The node's persisted view of the chain: block files, block index database, *)
(* archival mutator set with its sync label, and archival block MMR.  The     *)
(* four are written one after the other while the global write lock is held,  *)
(* so no reader sees the states in between -- but a crash does, and a restart *)
(* begins from whatever was persisted.                                        *)
EXTENDS BlockTree, FiniteSets

CONSTANTS
  FileCap,   \* blocks that fit in one block file (MAX_BLOCK_FILE_SIZE)
  MaxFile,   \* greatest block file number of the instance
  MaxCrash   \* number of crashes of the instance

ASSUME FileCapAssumption == FileCap \in Nat \ {0}
ASSUME MaxFileAssumption == MaxFile \in Nat
ASSUME MaxCrashAssumption == MaxCrash \in Nat

File     == 0..MaxFile
Zeros    == "zeros"      \* bytes reserved in a block file, not yet written
Corrupt  == "corrupt"    \* a mutator set left half-way by a panic
NoRecord == <<0, 0>>     \* the block index knows nothing of the block

\* Reserved bytes and a half-way mutator set are told apart from blocks.
ASSUME MarkerAssumption == Zeros \notin Block /\ Corrupt \notin Block

VARIABLES
  \* what survives a crash
  files,      \* block files: the sequence of blocks each one holds
  blockRec,   \* BlockIndexKey::Block(digest) -> file location
  fileRec,    \* BlockIndexKey::File(nr) -> blocks recorded in the file, 0: none
  lastFile,   \* BlockIndexKey::LastFile
  atHeight,   \* BlockIndexKey::Height(height) -> digests
  tip,        \* BlockIndexKey::BlockTipDigest, genesis when absent
  amsDisk,    \* persisted mutator set: the blocks applied to it, in order
  labelDisk,  \* persisted sync label
  mmrDisk,    \* persisted leafs of the block MMR
  \* what a crash loses
  ams, label, mmr,
  pc,         \* where the holder of the write lock is
  blk, asTip, \* the block being written, and whether as tip
  loc,        \* where it was put
  cause,      \* which assertion failed
  crashes

disk == <<files, blockRec, fileRec, lastFile, atHeight, tip, amsDisk, labelDisk, mmrDisk>>
index == <<blockRec, fileRec, lastFile, atHeight, tip>>
mem  == <<ams, label, mmr>>
job  == <<blk, asTip, loc>>
vars == <<disk, mem, pc, job, cause, crashes>>

Known(b) == b = Genesis \/ blockRec[b] # NoRecord
Heights  == {Height(b) : b \in Block}

-----------------------------------------------------------------------------
Init ==
  /\ files = [f \in File |-> <<>>]
  /\ blockRec = [b \in Block |-> NoRecord]
  /\ fileRec = [f \in File |-> 0]
  /\ lastFile = 0
  /\ atHeight = [h \in Heights |-> <<>>]
  /\ tip = Genesis
  /\ amsDisk = <<>> /\ labelDisk = Genesis /\ mmrDisk = <<>>
  /\ ams = <<>> /\ label = Genesis /\ mmr = <<>>
  /\ pc = "down"
  /\ blk = Genesis /\ asTip = FALSE /\ loc = NoRecord
  /\ cause = "none"
  /\ crashes = 0

\* The locals of a write are gone once it is over.
JobDone == blk' = Genesis /\ asTip' = FALSE /\ loc' = NoRecord

\* An assertion, expect or unwrap fails at this point of the code.
PanicAt(why) == pc' = "panicked" /\ cause' = why

(* ArchivalState::new: an empty mutator set is populated from genesis and     *)
(* persisted; an empty block MMR gets the genesis leaf, in memory only.       *)
Open ==
  /\ pc = "down"
  /\ pc' = "idle"
  /\ IF amsDisk = <<>>
       THEN /\ amsDisk' = <<Genesis>> /\ labelDisk' = Genesis
            /\ ams' = <<Genesis>> /\ label' = Genesis
       ELSE /\ ams' = amsDisk /\ label' = labelDisk
            /\ UNCHANGED <<amsDisk, labelDisk>>
  /\ mmr' = IF mmrDisk = <<>> THEN <<Genesis>> ELSE mmrDisk
  /\ UNCHANGED <<files, index, mmrDisk, job, cause, crashes>>

(* write_block_internal, entry: only a block the index does not know is       *)
(* stored.  Callers hand over blocks whose parent is known.                   *)
BeginWrite(b, t) ==
  /\ pc = "idle"
  /\ IF b = Genesis THEN t ELSE Known(Parent(b))
  /\ blk' = b /\ asTip' = t /\ loc' = NoRecord
  /\ pc' = IF Known(b) THEN "index" ELSE "reserve"
  /\ UNCHANGED <<disk, mem, cause, crashes>>

\* new_block_file_is_needed, applied to the last file in use
TargetFile == IF Len(files[lastFile]) + 1 > FileCap THEN lastFile + 1 ELSE lastFile

\* Mutant: the index is written before the bytes are.
IndexBeforeData ==
  /\ pc = "reserve"
  /\ TargetFile \in File
  /\ files' = [files EXCEPT ![TargetFile] = Append(@, Zeros)]
  /\ loc' = <<TargetFile, Len(files[TargetFile]) + 1>>
  /\ pc' = "index"
  /\ UNCHANGED <<index, amsDisk, labelDisk, mmrDisk, mem, blk, asTip, cause, crashes>>

(* store_block, first half: pick the file, check it against its record and    *)
(* make room at its end.                                                      *)
ReserveSpace ==
  /\ pc = "reserve"
  /\ TargetFile \in File
  /\ IF fileRec[TargetFile] = 0 /\ files[TargetFile] # <<>>
       THEN PanicAt("file") /\ UNCHANGED <<files, loc>>
       ELSE /\ files' = [files EXCEPT ![TargetFile] = Append(@, Zeros)]
            /\ loc' = <<TargetFile, Len(files[TargetFile]) + 1>>
            /\ pc' = "data"
            /\ UNCHANGED cause
  /\ UNCHANGED <<index, amsDisk, labelDisk, mmrDisk, mem, blk, asTip, crashes>>

(* store_block, second half: copy the block into the mapped bytes and flush.  *)
WriteData ==
  /\ pc = "data"
  /\ files' = [files EXCEPT ![loc[1]][loc[2]] = blk]
  /\ pc' = "index"
  /\ UNCHANGED <<index, amsDisk, labelDisk, mmrDisk, mem, job, cause, crashes>>

(* write_block_internal, end: one batch with the entries store_block returned *)
(* and, for a tip, the tip digest.                                            *)
WriteIndex ==
  /\ pc = "index"
  /\ IF loc = NoRecord
       THEN UNCHANGED <<blockRec, fileRec, lastFile, atHeight>>
       ELSE /\ blockRec' = [blockRec EXCEPT ![blk] = loc]
            /\ fileRec' = [fileRec EXCEPT ![loc[1]] = @ + 1]
            /\ lastFile' = loc[1]
            /\ atHeight' = [atHeight EXCEPT ![Height(blk)] = Append(@, blk)]
  /\ tip' = IF asTip THEN blk ELSE tip
  /\ IF asTip THEN pc' = "mmr" /\ UNCHANGED job ELSE pc' = "idle" /\ JobDone
  /\ UNCHANGED <<files, amsDisk, labelDisk, mmrDisk, mem, cause, crashes>>

\* find_path unwraps the header of every block it visits.
PathKnown(a, b) == \A x \in Ancestry(a) \cup Ancestry(b) : Known(x)

(* append_to_archival_block_mmr: cut the MMR to the height of the block, walk *)
(* from its last leaf to the parent if that is another block, and append.     *)
Pruned(b) == SubSeq(mmr, 1, IF Len(mmr) > Height(b) THEN Height(b) ELSE Len(mmr))
LatestLeaf(b) == Pruned(b)[Len(Pruned(b))]
NoWalk(b) == Pruned(b)                                          \* mutant
WalkUpOnly(b) ==                                                \* mutant
  Pruned(b) \o IF Parent(b) = LatestLeaf(b) THEN <<>> ELSE Forwards(LatestLeaf(b), Parent(b))
WalkedMmr(b) ==
  IF Parent(b) = LatestLeaf(b)
    THEN Pruned(b)
    ELSE SubSeq(Pruned(b), 1, Len(Pruned(b)) - Len(Backwards(LatestLeaf(b), Parent(b))))
           \o Forwards(LatestLeaf(b), Parent(b))

\* Mutant: append to the pruned MMR, whatever its last leaf is.
AppendBlindly ==
  /\ pc = "mmr"
  /\ mmr' = Append(IF blk = Genesis THEN <<>> ELSE Pruned(blk), blk)
  /\ pc' = "ams"
  /\ UNCHANGED <<disk, ams, label, job, cause, crashes>>

AppendMmr ==
  /\ pc = "mmr"
  /\ IF blk = Genesis
       THEN /\ mmr' = <<Genesis>>
            /\ pc' = "ams" /\ UNCHANGED cause
     ELSE IF Parent(blk) # LatestLeaf(blk) /\ ~PathKnown(LatestLeaf(blk), Parent(blk))
       THEN PanicAt("path") /\ UNCHANGED mmr
     ELSE IF WalkedMmr(blk)[Len(WalkedMmr(blk))] # Parent(blk)
       THEN PanicAt("mmr") /\ UNCHANGED mmr
     ELSE /\ mmr' = Append(WalkedMmr(blk), blk)
          /\ pc' = "ams" /\ UNCHANGED cause
  /\ UNCHANGED <<disk, ams, label, job, crashes>>

(* update_mutator_set: roll the mutator set back from the block its label     *)
(* names, apply the way to the new block, compare the result with the         *)
(* commitment in the block, relabel and persist.                              *)
RollBack == IF label = Parent(blk) THEN <<>> ELSE Backwards(label, Parent(blk))
Apply    == Append(IF label = Parent(blk) THEN <<>> ELSE Forwards(label, Parent(blk)), blk)

\* revert_add reverts only what was added last, add_is_reversible asserts it.
Reversible(content, back) ==
  /\ Len(back) <= Len(content)
  /\ \A i \in 1..Len(back) : content[Len(content) + 1 - i] = back[i]

Reverted(content, n) == SubSeq(content, 1, Len(content) - n)

UpdateMutatorSet ==
  /\ pc = "ams"
  /\ IF blk = Genesis
       THEN /\ ams' = <<Genesis>> /\ label' = Genesis
            /\ amsDisk' = <<Genesis>> /\ labelDisk' = Genesis
            /\ pc' = "idle" /\ JobDone /\ UNCHANGED cause
     ELSE IF label # Parent(blk) /\ ~PathKnown(label, Parent(blk))
       THEN PanicAt("path") /\ UNCHANGED <<ams, label, amsDisk, labelDisk, job>>
     ELSE IF ~Reversible(ams, RollBack)
       THEN /\ PanicAt("rollback")
            /\ ams' = <<Corrupt>>
            /\ UNCHANGED <<label, amsDisk, labelDisk, job>>
     ELSE LET content == Reverted(ams, Len(RollBack)) \o Apply
          IN /\ ams' = content
             /\ IF content # Chain[blk]
                  THEN PanicAt("hash") /\ UNCHANGED <<label, amsDisk, labelDisk, job>>
                  ELSE /\ label' = blk
                       /\ amsDisk' = content /\ labelDisk' = blk
                       /\ pc' = "idle" /\ JobDone /\ UNCHANGED cause
  /\ UNCHANGED <<files, index, mmrDisk, mmr, crashes>>

\* The process is gone, and with it everything that was not persisted.
Stopped ==
  /\ pc' = "down" /\ cause' = "none"
  /\ ams' = <<>> /\ label' = Genesis /\ mmr' = <<>>
  /\ JobDone

(* flush_databases: the mutator set is labelled with the tip and persisted,   *)
(* then the block MMR is.                                                     *)
FlushMutatorSet ==
  /\ pc \in {"idle", "panicked"}
  /\ label' = tip
  /\ amsDisk' = ams /\ labelDisk' = tip
  /\ pc' = IF pc = "idle" THEN "flush" ELSE "dropping"
  /\ UNCHANGED <<files, index, mmrDisk, ams, mmr, job, cause, crashes>>

FlushBlockMmr ==
  /\ pc \in {"flush", "dropping"}
  /\ mmrDisk' = mmr
  /\ IF pc = "flush" THEN pc' = "idle" /\ UNCHANGED <<mem, job, cause>> ELSE Stopped
  /\ UNCHANGED <<files, index, amsDisk, labelDisk, crashes>>

(* mutator_set_to_tip_internal, up to the point where the mutator set is      *)
(* rolled back by n blocks from the tip: it is persisted first.               *)
BeginQuery(n) ==
  /\ pc = "idle"
  /\ n < Len(Chain[tip])
  /\ amsDisk' = ams /\ labelDisk' = label
  /\ IF Reversible(ams, [i \in 1..n |-> Chain[tip][Len(Chain[tip]) + 1 - i]])
       THEN ams' = Reverted(ams, n) /\ pc' = "query" /\ UNCHANGED cause
       ELSE PanicAt("query") /\ ams' = <<Corrupt>>
  /\ UNCHANGED <<files, index, mmrDisk, label, mmr, job, crashes>>

\* drop_unpersisted: the roll-back is thrown away.
EndQuery ==
  /\ pc = "query"
  /\ ams' = amsDisk
  /\ pc' = "idle"
  /\ UNCHANGED <<disk, label, mmr, job, cause, crashes>>

(* The process dies: killed, out of memory, or a panic that aborts.           *)
Crash ==
  /\ pc # "down"
  /\ crashes < MaxCrash
  /\ crashes' = crashes + 1
  /\ Stopped
  /\ UNCHANGED disk

Step == \/ ReserveSpace \/ WriteData \/ WriteIndex \/ AppendMmr \/ UpdateMutatorSet
        \/ FlushBlockMmr \/ EndQuery

Next ==
  \/ Open
  \/ \E b \in Block, t \in BOOLEAN : BeginWrite(b, t)
  \/ Step
  \/ FlushMutatorSet
  \/ \E n \in 0..Len(Chain[tip]) : BeginQuery(n)
  \/ Crash

Spec == Init /\ [][Next]_vars
-----------------------------------------------------------------------------
Content == Block \cup {Corrupt}
Pc == {"down", "idle", "reserve", "data", "index", "mmr", "ams", "flush", "query",
       "panicked", "dropping"}
Cause == {"none", "file", "path", "mmr", "rollback", "hash", "query"}

TypeIndex ==
  /\ files \in [File -> Seq(Block \cup {Zeros})]
  /\ blockRec \in [Block -> File \X Nat]
  /\ fileRec \in [File -> Nat]
  /\ lastFile \in File
  /\ atHeight \in [Heights -> Seq(Block)]
  /\ tip \in Block

TypeStores ==
  /\ amsDisk \in Seq(Content) /\ labelDisk \in Block /\ mmrDisk \in Seq(Block)
  /\ ams \in Seq(Content) /\ label \in Block /\ mmr \in Seq(Block)

TypeJob ==
  /\ pc \in Pc
  /\ blk \in Block /\ asTip \in BOOLEAN /\ loc \in File \X Nat
  /\ cause \in Cause
  /\ crashes \in 0..MaxCrash

(* The types of the four stores, of their in-memory copies and of the write   *)
(* in progress.                                                               *)
TypeOK == TypeIndex /\ TypeStores /\ TypeJob

(* Whatever location the block index gives for a block, the block file holds  *)
(* exactly that block there: store_block flushes the file before the database *)
(* is written, so no crash leaves the index pointing at bytes never written.  *)
RecordsBacked ==
  \A b \in Block : blockRec[b] # NoRecord =>
    /\ blockRec[b][2] \in 1..Len(files[blockRec[b][1]])
    /\ files[blockRec[b][1]][blockRec[b][2]] = b

(* Every block on the way from a stored block to genesis is stored, and so is *)
(* the tip: find_path can always unwrap the headers it visits.                *)
AncestorsStored ==
  /\ Known(tip)
  /\ \A b \in Block : Known(b) => \A x \in Ancestry(b) : Known(x)

(* The height index lists a block at its height exactly once if the block is  *)
(* recorded and never otherwise, although blocks are offered repeatedly and   *)
(* write_block_internal may be cut short by a crash.                          *)
HeightIndexExact ==
  \A b \in Block :
    Cardinality({i \in DOMAIN atHeight[Height(b)] : atHeight[Height(b)][i] = b})
      = IF blockRec[b] = NoRecord THEN 0 ELSE 1

(* The block index is sound: each record names the block it is for, the     *)
(* ancestors of what is stored are stored, and the height index lists       *)
(* exactly the recorded blocks.                                              *)
IndexIsSound == RecordsBacked /\ AncestorsStored /\ HeightIndexExact

(* The leafs of the block MMR, on disk and in memory, are at all times the    *)
(* chain of one stored block: its last leaf serves as its sync label, and the *)
(* next tip update can walk from it even when a crash left it behind.         *)
MmrIsAChain ==
  /\ mmrDisk # <<>> => Known(mmrDisk[Len(mmrDisk)]) /\ mmrDisk = Chain[mmrDisk[Len(mmrDisk)]]
  /\ pc # "down" => /\ mmr # <<>>
                    /\ Known(mmr[Len(mmr)])
                    /\ mmr = Chain[mmr[Len(mmr)]]

(* With no crash in between, block index, block MMR and mutator set describe  *)
(* the same chain whenever the write lock is free, through any sequence of    *)
(* extensions, reorganisations, roll-backs to earlier blocks and queries.     *)
StoresAgree ==
  pc = "idle" /\ crashes = 0 => mmr = Chain[tip] /\ ams = Chain[tip] /\ label = tip

(* No assertion of the tip update fails while no crash has happened.          *)
NoPanicWithoutCrash == pc = "panicked" => crashes > 0

(* After crashes, the assertions on the block MMR and on the path between two *)
(* blocks still never fail; those on the mutator set fail only if its         *)
(* persisted label names another block than the one it is synced to.          *)
PanicsExplained ==
  pc = "panicked" =>
    /\ cause \notin {"path", "mmr"}
    /\ cause \in {"rollback", "hash"} => amsDisk # Chain[labelDisk]

(* What the stores owe their users: agreement while nothing crashes, and no *)
(* panic but the ones a mislabelled mutator set explains.                    *)
StoresStayUsable == StoresAgree /\ NoPanicWithoutCrash /\ PanicsExplained

(* A tip update that runs to its end leaves all three stores describing the   *)
(* chain of the new tip, whatever crash preceded it: what a crash left behind *)
(* is caught up with by the walks of the next update.                         *)
TipUpdateRepairs ==
  [][pc = "ams" /\ pc' = "idle" =>
       /\ tip' = blk
       /\ mmr' = Chain[tip'] /\ ams' = Chain[tip'] /\ label' = tip'
       /\ amsDisk' = ams' /\ labelDisk' = label']_vars

-----------------------------------------------------------------------------
(* The parts of the inductive invariant behind the properties above.          *)

\* What is known of the write in progress at each of its steps.
WriteInProgress ==
  /\ pc \in {"reserve", "data"} => blk # Genesis
  /\ pc \in {"reserve", "data", "index"} /\ blk # Genesis => Known(Parent(blk))
  /\ pc \in {"data", "index"} /\ loc # NoRecord =>
       /\ loc[2] \in 1..Len(files[loc[1]])
       /\ files[loc[1]][loc[2]] = IF pc = "data" THEN Zeros ELSE blk
  /\ pc = "data" => loc # NoRecord
  /\ pc = "index" /\ loc = NoRecord => Known(blk)
  /\ pc \in {"mmr", "ams"} => Known(blk) /\ tip = blk
  /\ pc = "ams" => mmr = Chain[blk]

\* Between its uses the mutator set in memory is the persisted one.
MutatorSetPersisted ==
  /\ pc \notin {"down", "panicked", "dropping"} => label = labelDisk
  /\ pc \notin {"down", "query", "panicked", "dropping"} => ams = amsDisk

\* The sync label always names a stored block.
LabelStored == Known(label) /\ Known(labelDisk)

\* Without a crash every store follows the tip, and every file has its record.
InStepWithoutCrash ==
  crashes = 0 =>
    /\ pc \notin {"panicked", "dropping"}
    /\ pc = "down" => amsDisk = <<>> /\ mmrDisk = <<>> /\ tip = Genesis
    /\ pc \notin {"down", "mmr", "ams"} => mmr = Chain[tip] /\ label = tip
    /\ pc \notin {"down", "mmr", "ams"} => amsDisk = Chain[tip]
    /\ pc \in {"mmr", "ams"} => ams = Chain[label]
    /\ \A f \in File : fileRec[f] = 0 =>
         \/ files[f] = <<>>
         \/ pc \in {"data", "index"} /\ loc # NoRecord /\ f = loc[1]

\* A block is written only while the index does not know it: the write lock is
\* held from the check on.
WriteIsFresh ==
  pc \in {"reserve", "data"} \/ (pc = "index" /\ loc # NoRecord) => blockRec[blk] = NoRecord

IInv ==
  /\ TypeOK
  /\ RecordsBacked
  /\ AncestorsStored
  /\ MmrIsAChain
  /\ WriteInProgress
  /\ MutatorSetPersisted
  /\ LabelStored
  /\ InStepWithoutCrash
  /\ PanicsExplained
==============================================================================
