------------------------------- MODULE Mempool -------------------------------
(* The mempool and the three tasks that feed it: a peer loop and the RPC      *)
(* service check a transaction against the tip they see and send it to the    *)
(* main loop, which inserts it some time later, between the blocks it         *)
(* applies.  All mempool operations run under the write lock of the global    *)
(* state, so an operation that loops (shrinking to the maximal size,          *)
(* restoring merge inputs) is a run of steps during which nothing else moves. *)
(*                                                                            *)
(* A transaction is a kernel id, the quality of its proof and the block whose *)
(* mutator set its removal records are synced to; the id does not depend on   *)
(* the mutator set.  The index sets of two inputs never cover one another, so *)
(* an input is an atom.  Every transaction has size one.                      *)
EXTENDS BlockTree, FiniteSets

CONSTANTS
  TxId,      \* transaction kernel ids
  Input,     \* inputs: the absolute index sets of removal records
  Kernel,    \* Kernel[i]: inputs, outputs, merge bit and timestamp
  Tx,        \* the transactions that are around
  Density,   \* Density[t]: fee density of a transaction
  Spends,    \* Spends[b]: the inputs of block b's transaction
  MaxSize,   \* the maximal total size, in transactions
  MaxTime,   \* bound on the pruning cutoff
  NoTx,      \* absence from tx_dictionary
  MailCap    \* bound on the messages under way to the main loop

Proof == {"collection", "single"}

ASSUME MempoolAssumption ==
  /\ Tx \subseteq [id : TxId, proof : Proof, ms : Block]
  /\ NoTx \notin Tx
  /\ IsFiniteSet(TxId)
  /\ Density \in [Tx -> Nat]
  /\ Spends \in [Block -> SUBSET Input]
  /\ Kernel \in [TxId -> [inputs : SUBSET Input, outputs : SUBSET Nat,
                          merge : BOOLEAN, time : Nat]]
  /\ MaxSize \in Nat /\ MaxTime \in Nat /\ MailCap \in Nat

NoDensity == 0 - 1           \* absence from fee_densities
NoEvents == [added |-> {}, removed |-> {}]

VARIABLES
  tip,      \* the tip of the light state
  label,    \* tip_digest and tip_mutator_set_hash of the mempool
  pool,     \* tx_dictionary
  queue,    \* fee_densities
  cache,    \* merge_input_cache, oldest element first
  cutoff,   \* now minus the age limit of the mempool
  view,     \* the tip as last read by the peer loop
  mail,     \* transactions under way to the main loop
  pc,       \* where the running mempool operation stands
  todo,     \* restored merge inputs still to be inserted
  ev,       \* the normalized events of the running operation
  seen,     \* history: kernels a listener believes to be in the mempool
  late,     \* history: ids inserted although an input was spent already
  owed,     \* history: ids handed back by the cache in the running update
  upset     \* history: the running update dropped or replaced something

contents == <<pool, queue, cache, ev>>
outside == <<tip, view, cutoff, mail, late>>
history == <<owed, upset>>
vars == <<tip, label, pool, queue, cache, cutoff, view, mail, pc, todo, ev,
          seen, late, owed, upset>>

InPool == {i \in TxId : pool[i] # NoTx}
InputsOf(i) == Kernel[i].inputs
Clash(i, j) == InputsOf(i) \cap InputsOf(j) # {}
Cached == {cache[n].id : n \in 1..Len(cache)}

\* Everything spent on the way from genesis to b.
Spent(b) == UNION {Spends[a] : a \in Ancestry(b)}

\* is_confirmable_relative_to(mutator set after b): no input is spent already.
Confirmable(i, b) == InputsOf(i) \cap Spent(b) = {}

\* have_merge_relationship: output is a proper merge with input as one part.
MergeRelation(output, input) ==
  LET o == Kernel[output]
      i == Kernel[input]
  IN  /\ o.merge
      /\ o.time >= i.time
      /\ i.inputs \subseteq o.inputs
      /\ i.outputs \subseteq o.outputs
      /\ <<i.inputs, i.outputs>> # <<o.inputs, o.outputs>>

\* PeerTaskToMain::Transaction says for which block the transaction was checked,
\* RPCServerToMain::BroadcastTx does not.
Msg == [tx : Tx, confirmable_for : Block, by : {"peer"}] \cup [tx : Tx, by : {"rpc"}]

\* The types of the mempool's fields, of the messages under way to the main
\* loop and of the operation in progress.
TypeOK ==
  /\ tip \in Block /\ label \in Block /\ view \in Block
  /\ pool \in [TxId -> Tx \cup {NoTx}]
  /\ queue \in [TxId -> Nat \cup {NoDensity}]
  /\ cache \in Seq(Tx) /\ todo \in Seq(Tx)
  /\ cutoff \in 0..MaxTime
  /\ mail \subseteq Msg
  /\ pc \in {"idle", "shrink", "restore", "reshrink"}
  /\ ev \in [added : SUBSET (TxId \X Block), removed : SUBSET (TxId \X Block)]
  /\ seen \subseteq TxId \X Block
  /\ late \subseteq TxId /\ owed \subseteq TxId /\ upset \in BOOLEAN

Init ==
  /\ tip = Genesis /\ label = Genesis /\ view = Genesis
  /\ pool = [i \in TxId |-> NoTx]
  /\ queue = [i \in TxId |-> NoDensity]
  /\ cache = <<>> /\ todo = <<>>
  /\ cutoff = 0
  /\ mail = {}
  /\ pc = "idle"
  /\ ev = NoEvents /\ seen = {}
  /\ late = {} /\ owed = {} /\ upset = FALSE

------------------------------------------------------------------------------
(* Events: a kernel is named by its id and mutator set, as its hash is.       *)

KernelOf(t) == <<t.id, t.ms>>
KernelsOf(S) == {KernelOf(pool[i]) : i \in S}

\* Mutant of Removed: a removal never cancels an addition.
RemovedAlways(e, K) == [e EXCEPT !.removed = @ \cup K]

\* MempoolEvent::normalize, one removal of each kernel in K at a time.
Removed(e, K) == [added |-> e.added \ K, removed |-> e.removed \cup (K \ e.added)]

\* MempoolEvent::normalize, one addition.
Added(e, k) ==
  IF k \in e.removed THEN [e EXCEPT !.removed = @ \ {k}]
                     ELSE [e EXCEPT !.added = @ \cup {k}]

\* What a listener makes of a list of events.
Hear(e) == (seen \ e.removed) \cup e.added

------------------------------------------------------------------------------
(* The mempool.                                                               *)

\* accept_transaction: unknown, or known in a version that t improves on.
Accepts(t) ==
  LET old == pool[t.id] IN
  IF old = NoTx THEN t.id \notin Cached
  ELSE \/ old.proof = "collection" /\ t.proof = "single"
       \/ old.proof = t.proof /\ old.ms # label /\ t.ms = label

\* Mutant of Conflicts: only another version of the same transaction.
SameId(i) == InPool \cap {i}

\* transactions_in_conflict_with
Conflicts(i) == {j \in InPool : Clash(i, j)}

\* new_tx_has_higher_proof_quality_than_conflicts
HigherQuality(t, S) ==
  IF t.proof = "collection"
  THEN \A j \in S : pool[j].proof = "collection" /\ pool[j].ms # label /\ t.ms = label
  ELSE \E j \in S : pool[j].proof = "collection" \/ (j = t.id /\ t.ms = label)

\* The new transaction gets in: no conflict, better proof, or it pays more than
\* the cheapest transaction it conflicts with.
Replaces(t, S) ==
  \/ S = {}
  \/ HigherQuality(t, S)
  \/ \E j \in S : Density[pool[j]] < Density[t]

\* The orders in which a HashMap may yield a finite set.
Orders(S) == {f \in [1..Cardinality(S) -> S] : \A x \in S : \E n \in DOMAIN f : f[n] = x}

\* merge_input_cache.insert for each of the ids in M, the new ones in order f:
\* an element that is there already is replaced where it stands.
CacheWith(M, f) ==
  [n \in 1..Len(cache) |-> IF cache[n].id \in M THEN pool[cache[n].id] ELSE cache[n]]
    \o [n \in DOMAIN f |-> pool[f[n]]]

\* The transactions among S that t is a merge of.
MergeInputs(t, S) ==
  {j \in S : /\ t.proof = "single" /\ pool[j].proof = "single"
             /\ MergeRelation(t.id, j)}

\* Both structures after the removal of the transactions S.
Without(S) == [i \in TxId |-> IF i \in S THEN NoTx ELSE pool[i]]

Unqueued(S) == [i \in TxId |-> IF i \in S THEN NoDensity ELSE queue[i]]

\* insert: put t in the place of the conflicts S.
Enter(t, S) ==
  LET M == MergeInputs(t, S)
      implied == IF t.id \in InPool \ S THEN {t.id} ELSE {}
  IN  /\ pool' = [Without(S) EXCEPT ![t.id] = t]
      /\ queue' = [Unqueued(S) EXCEPT ![t.id] = Density[t]]
      /\ \E f \in Orders(M \ Cached) : cache' = CacheWith(M, f)
      /\ ev' = Removed(Added(Removed(ev, KernelsOf(S)), KernelOf(t)), KernelsOf(implied))

\* insert up to its call of shrink_to_max_size: an exact copy, or a transaction
\* its conflicts eclipse, changes nothing.
Insert(t, shrinking, done) ==
  LET S == Conflicts(t.id) IN
  IF (t.id \in S /\ pool[t.id] = t) \/ ~Replaces(t, S)
  THEN UNCHANGED contents /\ pc' = done
  ELSE Enter(t, S) /\ pc' = shrinking

\* get_size
Size == Cardinality(InPool) + Len(cache)

DominatedByCache == Len(cache) * 3 > Size

\* retain: drop the transactions S from both structures.
Drop(S) ==
  /\ pool' = Without(S)
  /\ queue' = Unqueued(S)
  /\ ev' = Removed(ev, KernelsOf(S))

\* pop_min: the queue chooses which transaction goes.
PopMin ==
  \E i \in TxId :
    /\ queue[i] # NoDensity
    /\ \A j \in TxId : queue[j] # NoDensity => queue[i] <= queue[j]
    /\ Drop({i})

\* One round of the loop of shrink_to_max_size.
ShrinkRound ==
  /\ pc \in {"shrink", "reshrink"}
  /\ Size > MaxSize
  /\ \/ /\ DominatedByCache
        /\ cache' = Tail(cache)
        /\ UNCHANGED <<pool, queue, ev>>
     \/ /\ ~DominatedByCache
        /\ PopMin
        /\ UNCHANGED cache
  /\ upset' = (pc = "reshrink" \/ upset)
  /\ UNCHANGED <<outside, label, pc, todo, seen, owed>>

\* shrink_to_max_size is done, and with it the insert that called it.
InsertDone ==
  /\ pc = "shrink"
  /\ Size <= MaxSize
  /\ pc' = "idle"
  /\ seen' = Hear(ev) /\ ev' = NoEvents
  /\ UNCHANGED <<outside, label, pool, queue, cache, todo, history>>

\* still_valid and still_mineable: the block spends none of the inputs.
StillValid(i, b) == InputsOf(i) \cap Spends[b] = {}

\* A new tip, and update_with_block up to the elements it takes out of the
\* cache.  When the block does not extend the block the mempool is synced to,
\* everything goes.
NewTip(b) ==
  /\ pc = "idle"
  /\ tip' = b
  /\ IF InPool = {} /\ cache = <<>>
     THEN /\ label' = b
          /\ UNCHANGED <<contents, pc, todo, owed>>
     ELSE LET reorg == b = Genesis \/ label # Parent(b) IN
          /\ Drop({i \in InPool : reorg \/ ~StillValid(i, b)})
          /\ cache' = <<>>
          /\ todo' = IF reorg THEN <<>> ELSE cache
          /\ owed' = IF reorg THEN {} ELSE {i \in Cached : StillValid(i, b)}
          /\ pc' = IF todo' = <<>> THEN "reshrink" ELSE "restore"
          /\ UNCHANGED label
  /\ UNCHANGED <<view, cutoff, mail, late, seen, upset>>

\* Mutant of Restore: the loop stops one short.
RestoreAllButLast ==
  /\ pc = "restore"
  /\ IF Len(todo) = 1 \/ ~StillValid(Head(todo).id, tip)
     THEN UNCHANGED <<contents, upset>> /\ pc' = IF Len(todo) = 1 THEN "reshrink" ELSE "restore"
     ELSE /\ Insert(Head(todo), "reshrink", "restore")
          /\ upset' = (upset \/ \E i \in InPool : pool'[i] # pool[i])
  /\ todo' = Tail(todo)
  /\ UNCHANGED <<outside, label, seen, owed>>

\* The next cached element goes through insert, under the old sync label, if the
\* block leaves it mineable.
Restore ==
  /\ pc = "restore"
  /\ LET t == Head(todo)
         done == IF Len(todo) = 1 THEN "reshrink" ELSE "restore"
     IN  IF StillValid(t.id, tip)
         THEN Insert(t, "reshrink", done)
         ELSE UNCHANGED contents /\ pc' = done
  /\ upset' = (upset \/ \E i \in InPool : pool'[i] # pool[i])
  /\ todo' = Tail(todo)
  /\ UNCHANGED <<outside, label, seen, owed>>

\* The shrinking of one restored transaction is done, more are to come.
RestoreNext ==
  /\ pc = "reshrink" /\ todo # <<>>
  /\ Size <= MaxSize
  /\ pc' = "restore"
  /\ UNCHANGED <<outside, label, contents, todo, seen, history>>

\* The last shrinking is done: set_sync_labels, and the events are returned.
UpdateDone ==
  /\ pc = "reshrink" /\ todo = <<>>
  /\ Size <= MaxSize
  /\ pc' = "idle"
  /\ label' = tip
  /\ seen' = Hear(ev) /\ ev' = NoEvents
  /\ owed' = {} /\ upset' = FALSE
  /\ UNCHANGED <<outside, pool, queue, cache, todo>>

\* mempool_prune_stale_transactions, on the main loop's timer.
PruneStale ==
  /\ pc = "idle"
  /\ cutoff' \in cutoff..MaxTime
  /\ LET old == {i \in InPool : Kernel[i].time <= cutoff'} IN
       /\ pool' = Without(old) /\ queue' = Unqueued(old)
       /\ seen' = Hear(Removed(NoEvents, KernelsOf(old)))
  /\ UNCHANGED <<tip, label, cache, view, mail, pc, todo, ev, late, history>>

\* ClearMempool from the RPC server: clear empties the cache as well.
ClearMempool ==
  /\ pc = "idle"
  /\ pool' = Without(InPool) /\ queue' = Unqueued(InPool)
  /\ cache' = <<>>
  /\ seen' = Hear(Removed(NoEvents, KernelsOf(InPool)))
  /\ UNCHANGED <<outside, label, pc, todo, ev, history>>

------------------------------------------------------------------------------
(* The tasks around it.  A message waits for the main loop in one of two      *)
(* channels, so that any of them may be next.                                 *)

\* The peer loop has a transaction in hand and notes the tip.
PeerReadsTip ==
  /\ pc = "idle" /\ view # tip
  /\ view' = tip
  /\ UNCHANGED <<tip, label, contents, cutoff, mail, pc, todo, seen, late, history>>

\* ... and after validating it, by then perhaps under a newer tip, sends it on.
PeerSends(t) ==
  /\ pc = "idle" /\ Cardinality(mail) < MailCap
  /\ Accepts(t)
  /\ Confirmable(t.id, view)
  /\ Kernel[t.id].time >= cutoff
  /\ mail' = mail \cup {[tx |-> t, confirmable_for |-> view, by |-> "peer"]}
  /\ UNCHANGED <<tip, label, contents, cutoff, view, pc, todo, seen, late, history>>

\* submit_transaction
RpcSends(t) ==
  /\ pc = "idle" /\ Cardinality(mail) < MailCap
  /\ Confirmable(t.id, tip)
  /\ mail' = mail \cup {[tx |-> t, by |-> "rpc"]}
  /\ UNCHANGED <<tip, label, contents, cutoff, view, pc, todo, seen, late, history>>

\* Mutant of MainGetsPeerTx: no second look at the tip.
MainTrustsPeerTx(m) ==
  /\ pc = "idle" /\ m.by = "peer"
  /\ mail' = mail \ {m}
  /\ Insert(m.tx, "shrink", "idle")
  /\ UNCHANGED <<tip, label, cutoff, view, todo, seen, late, history>>

\* The main loop's handling of PeerTaskToMain::Transaction: checked for another
\* tip means discarded.
MainGetsPeerTx(m) ==
  /\ pc = "idle" /\ m.by = "peer"
  /\ mail' = mail \ {m}
  /\ IF m.confirmable_for = tip
     THEN Insert(m.tx, "shrink", "idle")
     ELSE UNCHANGED <<contents, pc>>
  /\ UNCHANGED <<tip, label, cutoff, view, todo, seen, late, history>>

\* Of RPCServerToMain::BroadcastTx: inserted whatever happened since.
MainGetsRpcTx(m) ==
  /\ pc = "idle" /\ m.by = "rpc"
  /\ mail' = mail \ {m}
  /\ Insert(m.tx, "shrink", "idle")
  /\ late' = IF Confirmable(m.tx.id, tip) THEN late ELSE late \cup {m.tx.id}
  /\ UNCHANGED <<tip, label, cutoff, view, todo, seen, history>>

Next ==
  \/ ShrinkRound \/ InsertDone
  \/ \E b \in Block : NewTip(b)
  \/ Restore \/ RestoreNext \/ UpdateDone
  \/ PruneStale \/ ClearMempool
  \/ PeerReadsTip
  \/ \E t \in Tx : PeerSends(t) \/ RpcSends(t)
  \/ \E m \in mail : MainGetsPeerTx(m) \/ MainGetsRpcTx(m)

Spec == Init /\ [][Next]_vars

------------------------------------------------------------------------------
(* Properties.                                                                *)

\* No two transactions in the mempool spend the same input, whatever inserts,
\* replacements, restored merge inputs and blocks there have been: the guarantee
\* of the Mempool doc comment.
NoConflicts == \A i, j \in InPool : i # j => ~Clash(i, j)

\* tx_dictionary and fee_densities hold the same transactions, and each is
\* ranked by the fee density of the version that is stored: replacing a version
\* must re-rank it, and no path may remove from one structure only.
QueueAgrees ==
  \A i \in TxId : queue[i] = IF i \in InPool THEN Density[pool[i]] ELSE NoDensity

\* A listener that applies the events each operation returns knows exactly the
\* kernels in the mempool once the operation is over, mutator set updates
\* included: what normalize cancels cancels out.
EventsExact == pc = "idle" => seen = KernelsOf(InPool)

\* A transaction in the mempool or in the cache of merge inputs spends nothing
\* that is spent on the way to the tip, except for one that the main loop took
\* from the RPC server when that was the case already.
SpentOnlyIfLate ==
  pc = "idle" =>
    \A i \in InPool \cup Cached : Confirmable(i, tip) \/ i \in late

\* The cache remembers single-proof-backed transactions, each once.
CacheIsASet ==
  \A m, n \in 1..Len(cache) :
    /\ cache[n].proof = "single"
    /\ cache[m].id = cache[n].id => m = n

\* Between operations the mempool is synced to the tip and within its size.
Settled == pc = "idle" => label = tip /\ todo = <<>> /\ Size <= MaxSize

\* The three tables of the mempool agree: conflict-free transactions, a queue
\* that ranks exactly those, a cache with one entry for each merge input; and
\* between operations they are in step with the tip and within their size.
TablesAgree == NoConflicts /\ QueueAgrees /\ CacheIsASet /\ Settled

\* When a block has been applied, a merge input that it leaves mineable is back
\* in the mempool or in conflict with a transaction there, unless some
\* transaction was replaced or dropped for its size on the way: a is not
\* forgotten because b was mined instead of their merger.
MergeInputsReturn ==
  [][(pc = "reshrink" /\ pc' = "idle" /\ ~upset) =>
       \A i \in owed : i \in InPool \/ \E j \in InPool : Clash(i, j)]_vars
==============================================================================
