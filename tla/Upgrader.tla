------------------------------ MODULE Upgrader ------------------------------
(***************************************************************************)
(* The upgrader: a program beside a node that turns the proof collections  *)
(* of the node's mempool into single proofs, merged with a transaction of  *)
(* its own that collects a fee (the gobbler), and keeps what it merged in  *)
(* step with the node's tip.  It is one sequential loop (main_loop), but   *)
(* everything it knows comes from RPC calls made one after the other, so   *)
(* the node's tip and mempool may change between any two of them: one      *)
(* step of the loop is one call, or one call and the proof that follows.   *)
(*                                                                         *)
(* A transaction is known to the node by its kernel without the mutator    *)
(* set hash, so an upgraded or updated version keeps its key; a merged     *)
(* one has another (`own').  `ms' is the block whose mutator set the       *)
(* kernel was made for, `pms' the one its proof was made for: they differ  *)
(* when the kernel and the proof were read around a replacement.  The      *)
(* prover answers nothing for such a pair, and may fail for any other;     *)
(* active_task is left out, it only serves a cancellation that a           *)
(* sequential loop never makes.                                            *)
(***************************************************************************)
EXTENDS Integers, Sequences, FiniteSets

CONSTANTS
    PoolTx,             \* the transactions that others send to the node
    TipParent,          \* block n's parent, for n in DOMAIN; genesis is 0
    GobblerCacheSize,   \* GOBBLER_CACHE_SIZE
    MaxTips,            \* bound: how often the tip changes
    MaxProverFaults     \* bound: how often the prover fails

ASSUME CacheAssumption == GobblerCacheSize \in Nat \ {0}

VARIABLES
    utip,       \* the node's tip
    upool,      \* the node's mempool
    unsent,     \* the transactions that have not arrived yet
    tips,       \* how often the tip has changed
    queue,      \* UpgraderQueue.transactions
    updates,    \* Updater.transactions
    cache,      \* Gobbler.cache, most recent first: <<hash, the tx's hash>>
    at,         \* where the loop is
    known,      \* the answer to `transactions': ids and tip hash
    batch,      \* the ids the loop at hand has yet to visit
    cur,        \* the transaction at hand
    aim,        \* the tip read by submit_upgraded_transaction
    second,     \* the tip read by sync_transaction after it
    proved,     \* what sync_transactions returns
    failures    \* how often the prover has failed

uvars == <<utip, upool, unsent, tips, queue, updates, cache, at, known,
           batch, cur, aim, second, proved, failures>>
nodeVars == <<utip, upool, unsent, tips>>

TipBlock == 0 .. Len(TipParent)
Key(t) == <<t.id, t.own>>
Keys(ts) == {Key(t) : t \in ts}
Nothing == [id |-> "none", own |-> FALSE, proof |-> "none", ms |-> 0, pms |-> 0]
NoAnswer == [ids |-> {}, tip |-> 0]

TipAndBefore[b \in TipBlock] == {b} \cup (IF b = 0 THEN {} ELSE TipAndBefore[TipParent[b]])

UInit ==
    /\ utip = 0 /\ upool = {} /\ unsent = PoolTx /\ tips = 0
    /\ queue = {} /\ updates = {} /\ cache = <<>>
    /\ at = "tick" /\ known = NoAnswer /\ batch = {} /\ cur = Nothing
    /\ aim = 0 /\ second = 0 /\ proved = {} /\ failures = 0

-----------------------------------------------------------------------------
(* The node.  It holds only transactions whose proof fits their kernel.    *)

UpgraderOnly == <<queue, updates, cache, at, known, batch, cur, aim,
                  second, proved, failures>>

Arrives(i) ==
    /\ unsent' = unsent \ {i}
    /\ upool' = upool \cup {[id |-> i, own |-> FALSE, proof |-> "collection",
                             ms |-> utip, pms |-> utip]}
    /\ UNCHANGED <<utip, tips, UpgraderOnly>>

\* A block, or a reorganisation; it may confirm a transaction.
TipMoves(b) ==
    /\ tips < MaxTips /\ b # utip
    /\ tips' = tips + 1
    /\ utip' = b
    /\ upool' \in {upool} \cup {upool \ {t} : t \in upool}
    /\ UNCHANGED <<unsent, UpgraderOnly>>

\* Somebody else upgrades or updates a transaction.
ReplacedElsewhere(t) ==
    /\ t.proof = "collection" \/ t.ms # utip
    /\ t.ms \in TipAndBefore[utip]
    /\ upool' = (upool \ {t}) \cup {[t EXCEPT !.proof = "single", !.ms = utip, !.pms = utip]}
    /\ UNCHANGED <<utip, unsent, tips, UpgraderOnly>>

\* submit_transaction: valid, confirmable at the tip, and better than the
\* version the mempool holds; against another single proof, with another
\* key, the fee density decides.
SubmitTo(t) ==
    LET old == {e \in upool : e.id = t.id}
        new == (upool \ old) \cup {t}
    IN  \/ /\ t.ms = utip /\ t.pms = t.ms /\ old # {}
           /\ upool' = new
        \/ /\ \/ t.ms # utip \/ t.pms # t.ms \/ old = {}
              \/ \E e \in old : e.proof = "single" /\ ~e.own
           /\ upool' = upool

-----------------------------------------------------------------------------
(* The prover and the updater.                                             *)

Proving(broken) ==
    /\ broken => failures < MaxProverFaults
    /\ failures' = IF broken THEN failures + 1 ELSE failures

\* update_kernel_and_proof: walk back from the tip to the transaction's
\* mutator set; past genesis there is no block.
Synced(t, tip, broken) ==
    IF t.ms = tip THEN t
    ELSE IF t.ms \in TipAndBefore[tip] /\ t.pms = t.ms /\ ~broken
         THEN [t EXCEPT !.ms = tip, !.pms = tip]
         ELSE Nothing

-----------------------------------------------------------------------------
(* scan_mempool.                                                           *)

Transactions ==
    /\ at = "tick"
    /\ known' = [ids |-> Keys(upool), tip |-> utip]
    /\ batch' = Keys(upool)
    /\ at' = "kernel"
    /\ UNCHANGED <<nodeVars, queue, updates, cache, cur, aim, second, proved, failures>>

GetTransactionKernel(k) ==
    /\ at = "kernel" /\ k \in batch
    /\ batch' = batch \ {k}
    /\ \/ /\ k \notin Keys(upool)
          /\ UNCHANGED <<at, cur>>
       \/ \E t \in upool :
            /\ Key(t) = k
            /\ cur' = t
            /\ at' = "proof"
    /\ UNCHANGED <<nodeVars, queue, updates, cache, known, aim, second, proved, failures>>

Without(ts, k) == {t \in ts : Key(t) # k}

\* A collection is queued for an upgrade; a single proof is not (any more),
\* and one of our own is queued for an update if it is behind the tip.
Record(t) ==
    LET k == Key(t)
    IN  \/ /\ t.proof = "collection"
           /\ queue' = Without(queue, k) \cup {t}
           /\ updates' = updates
        \/ /\ t.proof = "single"
           /\ queue' = Without(queue, k)
           /\ updates' = IF ~t.own THEN updates
                         ELSE IF t.ms # known.tip THEN Without(updates, k) \cup {t}
                              ELSE Without(updates, k)

GetTransactionProof ==
    /\ at = "proof"
    /\ at' = "kernel"
    /\ cur' = Nothing
    /\ \/ /\ Key(cur) \notin Keys(upool)
          /\ UNCHANGED <<queue, updates>>
       \/ \E e \in upool :
            /\ Key(e) = Key(cur)
            /\ Record([cur EXCEPT !.proof = e.proof, !.pms = e.ms])
    /\ UNCHANGED <<nodeVars, cache, known, batch, aim, second, proved, failures>>

ReapStale ==
    /\ at = "kernel" /\ batch = {}
    /\ queue' = {t \in queue : Key(t) \in known.ids}
    /\ updates' = {t \in updates : Key(t) \in known.ids}
    /\ known' = NoAnswer
    /\ at' = "prove"
    /\ UNCHANGED <<nodeVars, cache, batch, cur, aim, second, proved, failures>>

-----------------------------------------------------------------------------
(* prove_transaction and submit_upgraded_transaction.  A `None' on the way *)
(* gives the transaction up; the next scan finds it again.                 *)

StartUpdates ==
    /\ at' = "update"
    /\ batch' = Keys(updates)
    /\ cur' = Nothing /\ aim' = 0 /\ second' = 0

ProveTransaction ==
    /\ at = "prove"
    /\ \/ /\ queue = {}
          /\ StartUpdates
          /\ UNCHANGED <<queue, failures>>
       \/ \E t \in queue, broken \in BOOLEAN :
            /\ Proving(broken)
            /\ queue' = queue \ {t}
            /\ IF broken THEN StartUpdates
               ELSE /\ cur' = [t EXCEPT !.proof = "single"]
                    /\ at' = "tip"
                    /\ UNCHANGED <<batch, aim, second>>
    /\ UNCHANGED <<nodeVars, updates, cache, known, proved>>

ReadTip ==
    /\ at = "tip"
    /\ aim' = utip
    /\ at' = "sync"
    /\ UNCHANGED <<nodeVars, queue, updates, cache, known, batch, cur, second, proved, failures>>

SyncTransaction ==
    /\ at = "sync"
    /\ \E broken \in BOOLEAN :
        /\ Proving(broken)
        /\ LET t == Synced(cur, utip, broken)
           IN  IF t = Nothing THEN StartUpdates
               ELSE /\ cur' = t
                    /\ second' = utip
                    /\ at' = "gobble"
                    /\ UNCHANGED <<batch, aim>>
    /\ UNCHANGED <<nodeVars, queue, updates, cache, known, proved>>

HeldAt(hash) == {i \in 1..Len(cache) : cache[i][1] = hash}
Cached(hash) == {cache[i] : i \in HeldAt(hash)}

\* cache_insert: entries with this hash are removed, the new one goes to the
\* front and the oldest are dropped.
Retained(hash) ==
    IF HeldAt(hash) = {} THEN cache ELSE SelectSeq(cache, LAMBDA e : e[1] # hash)

CacheInsert(hash, ms) ==
    LET kept == <<<<hash, ms>>>> \o Retained(hash)
    IN  SubSeq(kept, 1, IF Len(kept) > GobblerCacheSize THEN GobblerCacheSize ELSE Len(kept))

\* The most recent gobbler, brought to the tip the updater sees, or Nothing.
UpdatedGobbler(broken) ==
    IF cache = <<>> THEN Nothing
    ELSE Synced([Nothing EXCEPT !.ms = Head(cache)[2], !.pms = Head(cache)[2],
                                !.id = "gobbler"], utip, broken)

FetchUpdatedUnchecked ==
    /\ at = "gobble"
    /\ \E broken \in BOOLEAN :
        /\ Proving(broken)
        /\ LET u == UpdatedGobbler(broken)
           IN  IF Cached(aim) # {} THEN at' = "merge" /\ cache' = cache
               ELSE IF u # Nothing
               THEN at' = "merge" /\ cache' = CacheInsert(aim, u.ms)
               ELSE at' = "build" /\ cache' = cache
    /\ UNCHANGED <<nodeVars, queue, updates, known, batch, cur, aim, second, proved>>

\* fetch_gobbler up to the fallback: an exact hit, or the most recent one
\* updated, if that update arrived at the hash asked for.
FetchGobbler ==
    /\ at = "gobble"
    /\ \E broken \in BOOLEAN :
        /\ Proving(broken)
        /\ LET u == UpdatedGobbler(broken)
           IN  IF Cached(aim) # {} THEN at' = "merge" /\ cache' = cache
               ELSE IF u # Nothing /\ u.ms = aim
               THEN at' = "merge" /\ cache' = CacheInsert(aim, u.ms)
               ELSE at' = "build" /\ cache' = cache
    /\ UNCHANGED <<nodeVars, queue, updates, known, batch, cur, aim, second, proved>>

BuildFromScratch ==
    /\ at = "build"
    /\ \E broken \in BOOLEAN :
        /\ Proving(broken)
        /\ IF broken THEN StartUpdates /\ cache' = cache
           ELSE /\ cache' = CacheInsert(aim, aim)
                /\ at' = "merge"
                /\ UNCHANGED <<batch, cur, aim, second>>
    /\ UNCHANGED <<nodeVars, queue, updates, known, proved>>

\* gobble, after the gobbler was fetched: MergeWitness::new_kernel asserts
\* that both kernels have one mutator set hash; a failed assertion ends the
\* program.
Gobble ==
    /\ at = "merge"
    /\ \E g \in Cached(aim), broken \in BOOLEAN :
        /\ Proving(broken)
        /\ IF g[2] # cur.ms
           THEN at' = "panicked" /\ UNCHANGED <<batch, cur, aim, second>>
           ELSE IF broken \/ cur.pms # cur.ms THEN StartUpdates
           ELSE /\ cur' = [cur EXCEPT !.own = TRUE]
                /\ at' = "submit"
                /\ UNCHANGED <<batch, aim, second>>
    /\ UNCHANGED <<nodeVars, queue, updates, cache, known, proved>>

SubmitUpgraded ==
    /\ at = "submit"
    /\ SubmitTo(cur)
    /\ StartUpdates
    /\ UNCHANGED <<utip, unsent, tips, queue, updates, cache, known, proved, failures>>

-----------------------------------------------------------------------------
(* sync_transactions, and the submissions after all of them.               *)

SyncTransactionById(k) ==
    /\ at = "update" /\ k \in batch
    /\ batch' = batch \ {k}
    /\ \E t \in updates, broken \in BOOLEAN :
        /\ Key(t) = k
        /\ Proving(broken)
        /\ updates' = updates \ {t}
        /\ proved' = proved \cup ({Synced(t, utip, broken)} \ {Nothing})
    /\ UNCHANGED <<nodeVars, queue, cache, at, known, cur, aim, second>>

ResubmitUpdated ==
    /\ at = "update" /\ batch = {}
    /\ \/ /\ proved = {}
          /\ at' = "tick"
          /\ UNCHANGED <<upool, proved>>
       \/ \E t \in proved :
            /\ SubmitTo(t)
            /\ proved' = proved \ {t}
            /\ UNCHANGED at
    /\ UNCHANGED <<utip, unsent, tips, queue, updates, cache, known, batch, cur,
                   aim, second, failures>>

UpgraderStep ==
    \/ Transactions
    \/ \E k \in batch : GetTransactionKernel(k) \/ SyncTransactionById(k)
    \/ GetTransactionProof \/ ReapStale
    \/ ProveTransaction \/ ReadTip \/ SyncTransaction
    \/ FetchGobbler \/ BuildFromScratch \/ Gobble \/ SubmitUpgraded
    \/ ResubmitUpdated

UNext ==
    \/ UpgraderStep
    \/ \E i \in unsent : Arrives(i)
    \/ \E b \in TipBlock : TipMoves(b)
    \/ \E t \in upool : ReplacedElsewhere(t)

USpec == UInit /\ [][UNext]_uvars /\ WF_uvars(UpgraderStep)

-----------------------------------------------------------------------------

(* What the code asserts where it takes a transaction out of a queue: what *)
(* awaits an upgrade is a proof collection (prove_transaction panics on    *)
(* anything else), and what awaits an update is a single proof that we     *)
(* gobbled, although kernel and proof were read in two calls.              *)
QueuesHoldTheirKind ==
    /\ \A t \in queue : t.proof = "collection"
    /\ \A t \in updates : t.proof = "single" /\ t.own
    /\ \A s, t \in queue \cup updates : Key(s) = Key(t) => s = t

(* The gobbler's cache never lies: the transaction under a mutator set     *)
(* hash was made for that mutator set, although the updater that made it   *)
(* read the tip by itself; there is one per hash and a bounded number.     *)
CacheIsKeyed ==
    /\ \A i \in 1..Len(cache) : cache[i][1] = cache[i][2]
    /\ \A i, j \in 1..Len(cache) : cache[i][1] = cache[j][1] => i = j
    /\ Len(cache) <= GobblerCacheSize

(* A merge of kernels with different mutator sets, which ends the program, *)
(* needs the tip to change between the two reads of it that                *)
(* submit_upgraded_transaction makes: a change anywhere else, a            *)
(* reorganisation included, is handled.                                    *)
PanicNeedsTwoTips == at = "panicked" => second # aim

(* The upgrader's assertions hold whatever its node does between two       *)
(* calls: its queues hold what their consumers take, its cache answers for *)
(* the mutator set it is asked about, and only a tip that changes between  *)
(* two particular reads ends it.                                           *)
UpgraderIsSound == QueuesHoldTheirKind /\ CacheIsKeyed /\ PanicNeedsTwoTips
=============================================================================
