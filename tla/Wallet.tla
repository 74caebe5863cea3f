-------------------------------- MODULE Wallet --------------------------------
(***************************************************************************)
(* The wallet beside a node: the 10-second sync loop of the command line   *)
(* program (height, queued events, mempool, one batch of blocks, then one  *)
(* file per event and the height), a send running concurrently with it,    *)
(* and the process being killed and started again.                         *)
(*                                                                         *)
(* A block carries at most one transaction that pays the wallet, and every *)
(* output is worth one unit.  A block's digest is the chain up to it, an   *)
(* output is identified as by UtxoKey: its addition record (here its       *)
(* address; an address is used for one change output) and its AOCL leaf.   *)
(* Address indexes stand for the symmetric keys; index 0 is the special    *)
(* key, which owns the premine.                                            *)
(***************************************************************************)
EXTENDS Naturals, Sequences, FiniteSets

CONSTANTS
    Depth,          \* confirmation_depth (12 in the code)
    Batch,          \* BATCH_SIZE (100 in the code)
    MaxHeight,      \* bound on the node's chain
    MaxSends,       \* bound on transactions the user asks for
    MaxFaults,      \* bound on reorganisations and kills of the process
    NoTx            \* a block without a transaction of the wallet's

ASSUME WalletAssumption == Depth \in Nat /\ Batch \in Nat \ {0}

VARIABLES
    chain,          \* the node's canonical chain above genesis
    mempool,        \* transactions of this wallet in the node's mempool
    up,             \* the process runs and has imported its files
    height,         \* ChainScanner.height
    window,         \* ChainScanner.confirming_blocks
    idx,            \* highest tracked address index
    pool,           \* UtxoPool.utxos (and its index)
    spends,         \* MempoolScanner.pending_spends, as <<utxo, tx>> pairs
    checked,        \* MempoolScanner.checked_ids
    raised,         \* Wallet.pending_events: the AddressGenerated indexes
    sync,           \* local state of the sync loop
    send,           \* local state of Wallet::send
    files,          \* keys.json, utxos/ and chain.json
    evicted,        \* history: outputs removed from pool since the start
    missed,         \* history: where an AddressGenerated event got lost
    counts          \* the bounded counters

vvars == <<chain, mempool, up, height, window, idx, pool, spends, checked,
           raised, sync, send, files, evicted, missed, counts>>

scanner == <<height, window>>
mempoolScanner == <<spends, checked>>
node == <<chain, mempool>>

-----------------------------------------------------------------------------
(* What a chain holds.                                                     *)

Premine == {[addr |-> 0, leaf |-> 0], [addr |-> 0, leaf |-> 1]}

PaidBelow(c, h) == {i \in 1..(h - 1) : c[i].tx # NoTx}

\* The wallet's outputs in the block at height h of chain c; the leaf index
\* is the number of leafs before the block.
OutputsAt(c, h) ==
    IF h = 0 THEN Premine
    ELSE IF c[h].tx = NoTx THEN {}
    ELSE {[addr |-> c[h].tx.change, leaf |-> 2 + Cardinality(PaidBelow(c, h))]}

Spent(c) == UNION {c[h].tx.ins : h \in {i \in 1..Len(c) : c[i].tx # NoTx}}
MutatorSet(c) == UNION {OutputsAt(c, h) : h \in 0..Len(c)} \ Spent(c)
Digest(c, h) == SubSeq(c, 1, h)

-----------------------------------------------------------------------------
SyncIdle == [pc |-> "idle", nh |-> 0, ids |-> {}, held |-> <<>>, found |-> {}]
NotSending == [pc |-> "idle", want |-> 0, exclude |-> {}, todo |-> {},
               got |-> <<>>, ins |-> {}, change |-> 0]

VInit ==
    /\ chain = <<>>
    /\ mempool = {}
    /\ up = FALSE
    /\ height = 0
    /\ window = <<>>
    /\ idx = 0
    /\ pool = {}
    /\ spends = {}
    /\ checked = {}
    /\ raised = <<>>
    /\ sync = SyncIdle
    /\ send = NotSending
    /\ files = [idx |-> 0, utxos |-> {}, height |-> 0]
    /\ evicted = {}
    /\ missed = {}
    /\ counts = [faults |-> 0, sends |-> 0]

-----------------------------------------------------------------------------
(* The node: blocks arrive and the last blocks are replaced, never more    *)
(* than the confirmation depth of the wallet.                              *)

Mined(c, txs) ==
    /\ chain' = c
    /\ mempool' = {t \in txs : t.ins \subseteq MutatorSet(c)}

NodeBlock ==
    /\ Len(chain) < MaxHeight
    /\ \E t \in mempool \cup {NoTx} :
         Mined(Append(chain, [tx |-> t, nonce |-> 0]), mempool \ {t})
    /\ UNCHANGED <<up, scanner, idx, pool, mempoolScanner, raised, sync, send,
                   files, evicted, missed, counts>>

Abandoned(r) == {chain[h].tx : h \in (Len(chain) - r + 1)..Len(chain)} \ {NoTx}

Reorganise ==
    /\ counts.faults < MaxFaults
    /\ counts' = [counts EXCEPT !.faults = @ + 1]
    /\ \E r \in 1..Depth :
         /\ r <= Len(chain)
         /\ LET base == SubSeq(chain, 1, Len(chain) - r)
                twin == 1 - chain[Len(base) + 1].nonce
            IN  \E t \in {x \in mempool \cup Abandoned(r) :
                            x.ins \subseteq MutatorSet(base)} \cup {NoTx},
                   more \in {r - 1, r} :
                  /\ Len(base) + 1 + more <= MaxHeight
                  /\ Mined(base \o <<[tx |-> t, nonce |-> twin]>>
                             \o [i \in 1..more |-> [tx |-> NoTx, nonce |-> 0]],
                           mempool \ {t})
    /\ UNCHANGED <<up, scanner, idx, pool, mempoolScanner, raised, sync, send,
                   files, evicted, missed>>

-----------------------------------------------------------------------------
(* One round of the sync loop.                                             *)

ReadHeight ==
    /\ up /\ sync.pc = "idle"
    /\ sync' = [sync EXCEPT !.pc = "height", !.nh = Len(chain)]
    /\ UNCHANGED <<node, up, scanner, idx, pool, mempoolScanner, raised, send,
                   files, evicted, missed, counts>>

\* The queued events are taken and the mempool's transactions listed.
DrainPendingEvents ==
    /\ sync.pc = "height"
    /\ sync' = [sync EXCEPT !.pc = "listed", !.held = raised, !.ids = mempool]
    /\ raised' = <<>>
    /\ UNCHANGED <<node, up, scanner, idx, pool, mempoolScanner, send, files,
                   evicted, missed, counts>>

\* (mutant: the height is read after the queued events were taken)
ScanMempoolThenHeight ==
    /\ sync.pc = "listed"
    /\ LET fetched == (sync.ids \ checked) \cap mempool
           seen == UNION {(t.ins \cap pool) \X {t} : t \in fetched}
       IN  /\ spends' = {s \in spends \cup seen : s[2] \in sync.ids}
           /\ checked' = (checked \cup fetched) \cap sync.ids
    /\ sync' = [sync EXCEPT !.pc = "scanned", !.ids = {},
                            !.nh = Len(chain)]
    /\ UNCHANGED <<node, up, scanner, idx, pool, raised, send, files, evicted,
                   missed, counts>>

\* A kernel that has left the mempool since it was listed is not fetched.
\* The listed ids are what is kept: the rest is stale.
ScanMempool ==
    /\ sync.pc = "listed"
    /\ LET fetched == (sync.ids \ checked) \cap mempool
           seen == UNION {(t.ins \cap pool) \X {t} : t \in fetched}
       IN  /\ spends' = {s \in spends \cup seen : s[2] \in sync.ids}
           /\ checked' = (checked \cup fetched) \cap sync.ids
    /\ sync' = [sync EXCEPT !.pc = "scanned", !.ids = {}]
    /\ UNCHANGED <<node, up, scanner, idx, pool, raised, send, files, evicted,
                   missed, counts>>

TipHeight == height + Len(window)

Positions(w, digest) == {p \in 1..Len(w) : w[p].digest = digest}

\* handle_reorg: the window that remains, <<>> when the parent is not in it.
HandleReorg(w, parent) ==
    LET at == Positions(w, parent)
    IN  IF at = {} THEN <<>> ELSE SubSeq(w, 1, CHOOSE p \in at : TRUE)

Unknown(w, parent) == w # <<>> /\ Positions(w, parent) = {}

\* The blocks fetched, with the outputs the tracked keys recognise.
ScanBlocks(from, to) ==
    [i \in 1..(to - from + 1) |->
        [digest |-> Digest(chain, from + i - 1),
         utxos |-> {u \in OutputsAt(chain, from + i - 1) : u.addr <= idx}]]

ScanGenesis == IF TipHeight = 0 THEN OutputsAt(chain, 0) ELSE {}

\* How many blocks of a window are buried deeply enough.
Promoted(w) == IF Len(w) > Depth THEN Len(w) - Depth ELSE 0

PromoteAndCleanup(w, genesis) ==
    LET n == Promoted(w)
    IN  /\ window' = SubSeq(w, n + 1, Len(w))
        /\ height' = height + n
        /\ sync' = [sync EXCEPT !.pc = "adding", !.nh = 0,
                      !.found = genesis \cup UNION {w[i].utxos : i \in 1..n}]

\* advance() fails: the window is gone, and so are the events drained.
\* (mutant: the window is kept)
ReorgFailsKeepingWindow ==
    /\ window' = window
    /\ missed' = missed \cup (IF sync.held = <<>> THEN {} ELSE {"sync"})
    /\ sync' = SyncIdle
    /\ UNCHANGED height

ReorgFails ==
    /\ window' = <<>>
    /\ missed' = missed \cup (IF sync.held = <<>> THEN {} ELSE {"sync"})
    /\ sync' = SyncIdle
    /\ UNCHANGED height

NothingToFetch ==
    /\ TipHeight >= sync.nh
    /\ sync' = [sync EXCEPT !.pc = "storing", !.nh = 0]
    /\ UNCHANGED <<scanner, missed>>

Advance ==
    /\ TipHeight < sync.nh
    /\ LET from == TipHeight + 1
           to == IF from + Batch - 1 > sync.nh THEN sync.nh ELSE from + Batch - 1
           parent == Digest(chain, TipHeight)
       IN  IF Unknown(window, parent)
           THEN ReorgFails
           ELSE /\ PromoteAndCleanup(HandleReorg(window, parent)
                                       \o ScanBlocks(from, to), ScanGenesis)
                /\ UNCHANGED missed

SyncChain ==
    /\ sync.pc = "scanned"
    /\ NothingToFetch \/ Advance
    /\ UNCHANGED <<node, up, idx, pool, mempoolScanner, raised, send, files,
                   evicted, counts>>

\* The lock of the pool is held by a send while it selects.
Selecting == send.pc \in {"choose", "restore"}

AddUtxos ==
    /\ sync.pc = "adding"
    /\ ~Selecting
    /\ pool' = pool \cup sync.found
    /\ sync' = [sync EXCEPT !.pc = "storing"]
    /\ UNCHANGED <<node, up, scanner, idx, mempoolScanner, raised, send, files,
                   evicted, missed, counts>>

\* The events are stored one file at a time, those drained first; the height
\* is stored last.
StoreIndex ==
    /\ sync.held # <<>>
    /\ files' = [files EXCEPT !.idx = Head(sync.held)]
    /\ sync' = [sync EXCEPT !.held = Tail(@)]

StoreUtxo(u) ==
    /\ sync.held = <<>>
    /\ files' = [files EXCEPT !.utxos = @ \cup {u}]
    /\ sync' = [sync EXCEPT !.found = @ \ {u}]

StoreHeight ==
    /\ sync.held = <<>> /\ sync.found = {}
    /\ files' = [files EXCEPT !.height = height]
    /\ sync' = SyncIdle

StoreEvents ==
    /\ sync.pc = "storing"
    /\ \/ StoreIndex
       \/ \E u \in sync.found : StoreUtxo(u)
       \/ StoreHeight
    /\ UNCHANGED <<node, up, scanner, idx, pool, mempoolScanner, raised, send,
                   evicted, missed, counts>>

SyncStep ==
    \/ ReadHeight
    \/ DrainPendingEvents
    \/ ScanMempool
    \/ SyncChain
    \/ AddUtxos
    \/ StoreEvents

-----------------------------------------------------------------------------
(* Wallet::send.                                                           *)

SelectInputs ==
    /\ up /\ send.pc = "idle"
    /\ counts.sends < MaxSends
    /\ counts' = [counts EXCEPT !.sends = @ + 1]
    /\ \E want \in {1, 2} :
         send' = [NotSending EXCEPT !.pc = "choose", !.want = want,
                                    !.exclude = {s[1] : s \in spends}]
    /\ UNCHANGED <<node, up, scanner, idx, pool, mempoolScanner, raised, sync,
                   files, evicted, missed>>

Candidates == {c \in SUBSET (pool \ send.exclude) : Cardinality(c) = send.want}

ChooseCandidates ==
    /\ send.pc = "choose"
    /\ \E c \in Candidates :
         send' = [send EXCEPT !.pc = "restore", !.todo = c, !.got = <<>>]
    /\ UNCHANGED <<node, up, scanner, idx, pool, mempoolScanner, raised, sync,
                   files, evicted, missed, counts>>

\* One call of restore_membership_proof, for a chunk of one output.
RestoreChunk ==
    /\ send.pc = "restore"
    /\ \E u \in send.todo :
         send' = [send EXCEPT !.todo = @ \ {u},
                              !.got = Append(@, [utxo |-> u, tip |-> chain])]
    /\ UNCHANGED <<node, up, scanner, idx, pool, mempoolScanner, raised, sync,
                   files, evicted, missed, counts>>

\* All chunks answered from one tip.  (mutant: not compared)
PinnedAlways(got) == TRUE
Pinned(got) == \A i \in 1..Len(got) : got[i].tip = got[1].tip

RestoredUtxos == {send.got[i].utxo : i \in 1..Len(send.got)}
Msa(got) == got[Len(got)].tip

\* A proof verifies against the mutator set of the tip it was made for, if
\* the output is in that set.
Verifies(p) == p.tip = Msa(send.got) /\ p.utxo \in MutatorSet(p.tip)

RestoreAgain ==
    /\ ~Pinned(send.got)
    /\ send' = [send EXCEPT !.todo = RestoredUtxos, !.got = <<>>]
    /\ UNCHANGED <<pool, evicted>>

EvictAndRetry ==
    LET spent == {send.got[i].utxo : i \in {j \in 1..Len(send.got) :
                                              ~Verifies(send.got[j])}}
    IN  /\ Pinned(send.got)
        /\ spent # {}
        /\ pool' = pool \ spent
        /\ evicted' = evicted \cup spent
        /\ send' = [send EXCEPT !.pc = "choose"]

Selected ==
    /\ Pinned(send.got)
    /\ \A i \in 1..Len(send.got) : Verifies(send.got[i])
    /\ send' = [NotSending EXCEPT !.pc = "build", !.ins = RestoredUtxos]
    /\ UNCHANGED <<pool, evicted>>

VerifyProofs ==
    /\ send.pc = "restore" /\ send.todo = {}
    /\ RestoreAgain \/ EvictAndRetry \/ Selected
    /\ UNCHANGED <<node, up, scanner, idx, mempoolScanner, raised, sync, files,
                   missed, counts>>

\* The change goes to the latest address, and the next one is derived, added
\* to the scanner's keys and announced.
BuildTransaction ==
    /\ send.pc = "build"
    /\ send' = [send EXCEPT !.pc = "prove", !.change = idx]
    /\ idx' = idx + 1
    /\ raised' = Append(raised, idx + 1)
    /\ UNCHANGED <<node, up, scanner, pool, mempoolScanner, sync, files,
                   evicted, missed, counts>>

\* The node takes a transaction that is confirmable at its tip.  Its proofs
\* may have gone stale since they were made, and of two conflicting
\* transactions in a mempool one wins.
SubmitTransaction ==
    /\ send.pc = "prove"
    /\ LET t == [ins |-> send.ins, change |-> send.change]
       IN  \/ /\ t.ins \subseteq MutatorSet(chain)
              /\ mempool' = {x \in mempool : x.ins \cap t.ins = {}} \cup {t}
           \/ UNCHANGED mempool
    /\ send' = NotSending
    /\ UNCHANGED <<chain, up, scanner, idx, pool, mempoolScanner, raised, sync,
                   files, evicted, missed, counts>>

SendStep ==
    \/ ChooseCandidates
    \/ RestoreChunk
    \/ VerifyProofs
    \/ BuildTransaction
    \/ SubmitTransaction

-----------------------------------------------------------------------------
(* The process ends and starts again.                                      *)

Exit ==
    /\ up' = FALSE
    /\ missed' = missed \cup (IF raised \o sync.held = <<>> THEN {} ELSE {"exit"})
    /\ height' = 0
    /\ window' = <<>>
    /\ idx' = 0
    /\ pool' = {}
    /\ spends' = {}
    /\ checked' = {}
    /\ raised' = <<>>
    /\ sync' = SyncIdle
    /\ send' = NotSending
    /\ evicted' = {}
    /\ UNCHANGED <<node, files>>

Killed ==
    /\ up
    /\ counts.faults < MaxFaults
    /\ counts' = [counts EXCEPT !.faults = @ + 1]
    /\ Exit

\* "insufficient funds" panics, and the panic hook ends the process.
InsufficientFunds ==
    /\ send.pc = "choose"
    /\ Candidates = {}
    /\ Exit
    /\ UNCHANGED counts

\* Every index used, and one more, is tracked; the stored outputs are
\* imported, spent or not, if each can be unlocked.
Unlocks(u) == u.addr <= files.idx + 1

Start ==
    /\ ~up
    /\ \A u \in files.utxos : Unlocks(u)
    /\ up' = TRUE
    /\ height' = files.height
    /\ idx' = files.idx + 1
    /\ pool' = files.utxos
    /\ UNCHANGED <<node, window, mempoolScanner, raised, sync, send, files,
                   evicted, missed, counts>>

VNext ==
    \/ NodeBlock
    \/ Reorganise
    \/ SyncStep
    \/ SelectInputs
    \/ SendStep
    \/ Killed
    \/ InsufficientFunds
    \/ Start

\* The interval timer of the loop keeps firing and every call is answered;
\* a send that holds the lock of the pool goes on; the user starts the
\* program again.
VFair ==
    /\ WF_vvars(SyncStep)
    /\ WF_vvars(SendStep)
    /\ WF_vvars(InsufficientFunds)
    /\ WF_vvars(Start)

VSpec == VInit /\ [][VNext]_vvars /\ VFair

-----------------------------------------------------------------------------
(* Properties.                                                             *)

Utxo == [addr : 0..(MaxSends + 1), leaf : 0..(MaxHeight + 1)]

IsTracked(u) == u.addr <= 1 \/ missed = {}

\* No output the chain holds at or below the scanner's height is missing from
\* the wallet: it is in the pool, on its way there, or was evicted.  Holds
\* across reorganisations no deeper than the confirmation depth, failed syncs
\* and restarts, for every address whose announcement was not lost.
ConfirmedOutputsAreKept ==
    up => \A h \in 0..height : \A u \in OutputsAt(chain, h) :
            \/ u \in pool \cup evicted \cup sync.found
            \/ ~IsTracked(u)
            \/ TipHeight = 0

\* The stored height never runs ahead of the stored outputs: a restart scans
\* from the height on, so an output below it that is in no file is lost.
DiskCoversHeight ==
    \A h \in 0..files.height : \A u \in OutputsAt(chain, h) :
        u \in files.utxos \/ ~IsTracked(u) \/ files.height = 0

\* The wallet can start from its files: every stored output belongs to a key
\* that the stored index tracks, unless a key's announcement was lost.  Holds
\* because the height is read before the queued events are taken, and those
\* are stored before the outputs.
StoredOutputsUnlock == missed # {} \/ \A u \in files.utxos : Unlocks(u)

\* Nothing confirmed is lost, in memory or on disk: a wallet that is stopped at
\* any point resumes from its files with every output up to the stored height.
NothingConfirmedIsLost ==
    ConfirmedOutputsAreKept /\ DiskCoversHeight /\ StoredOutputsUnlock

\* An output leaves the pool of a running wallet only when all the proofs of
\* its selection were made at one tip and the output is not in the mutator
\* set of that tip.
EvictionIsJustified ==
    [][\A u \in pool \ pool' :
         up' => u \in RestoredUtxos \ MutatorSet(Msa(send.got))]_vvars

\* An output of a tracked address that is buried by the confirmation depth
\* reaches the pool, unless it is evicted, is spent or loses its block: a
\* failed sync does not stop the scanner.
BuriedOutputsArrive ==
    \A l \in 2..(MaxSends + 1) :
        LET u == [addr |-> 1, leaf |-> l]
        IN  (\E h \in 1..Len(chain) :
                h + Depth <= Len(chain) /\ u \in OutputsAt(chain, h))
              ~> (u \in pool \cup evicted)

\* What send's documentation says of the events it raises: each is surfaced
\* by the next sync, so a sync never loses one.
QueuedEventsSurface == "sync" \notin missed
=============================================================================
