---------------------------- MODULE Mempool_proofs ----------------------------
(* Proofs about the mempool, for every set of transactions, every block tree  *)
(* and every maximal size.                                                    *)
EXTENDS Mempool, FiniteSetTheorems, TLAPS

(* A transaction is stored under its own id.                                  *)
Keyed == \A i \in InPool : pool[i].id = i

Contents == Keyed /\ NoConflicts /\ QueueAgrees

(* The shape of the pieces of TypeOK that mempool operations change.          *)
TypePool ==
  /\ pool \in [TxId -> Tx \cup {NoTx}]
  /\ queue \in [TxId -> Nat \cup {NoDensity}]
  /\ cache \in Seq(Tx)
  /\ ev \in [added : SUBSET (TxId \X Block), removed : SUBSET (TxId \X Block)]

(* The fields of a transaction.                                               *)
LEMMA TxFields ==
  ASSUME NEW t \in Tx
  PROVE  /\ t.id \in TxId /\ t.ms \in Block /\ KernelOf(t) \in TxId \X Block
         /\ Density[t] \in Nat /\ t # NoTx
BY MempoolAssumption, Zenon DEF KernelOf

(* The events of removals and additions are about kernels.                    *)
LEMMA EventTypes ==
  ASSUME NEW e \in [added : SUBSET (TxId \X Block), removed : SUBSET (TxId \X Block)],
         NEW K \in SUBSET (TxId \X Block), NEW k \in TxId \X Block
  PROVE  /\ Removed(e, K) \in [added : SUBSET (TxId \X Block), removed : SUBSET (TxId \X Block)]
         /\ Added(e, k) \in [added : SUBSET (TxId \X Block), removed : SUBSET (TxId \X Block)]
BY Zenon DEF Removed, Added

(* The kernels of transactions in the mempool.                                *)
LEMMA KernelsType ==
  ASSUME TypePool, NEW S \in SUBSET InPool
  PROVE  KernelsOf(S) \in SUBSET (TxId \X Block)
BY TxFields DEF KernelsOf, InPool, TypePool

(* Dropping transactions keeps the two structures in step and conflict-free.  *)
LEMMA DropKeeps ==
  ASSUME TypePool, Contents, NEW S \in SUBSET TxId,
         pool' = Without(S), queue' = Unqueued(S)
  PROVE  /\ pool' \in [TxId -> Tx \cup {NoTx}]
         /\ queue' \in [TxId -> Nat \cup {NoDensity}]
         /\ Contents'
         /\ InPool' \subseteq InPool
         /\ \A i \in S : i \notin InPool'
<1>1. /\ pool' \in [TxId -> Tx \cup {NoTx}]
      /\ \A i \in TxId : pool'[i] = IF i \in S THEN NoTx ELSE pool[i]
  BY Zenon DEF Without, TypePool
<1>2. /\ queue' \in [TxId -> Nat \cup {NoDensity}]
      /\ \A i \in TxId : queue'[i] = IF i \in S THEN NoDensity ELSE queue[i]
  BY Zenon DEF Unqueued, TypePool
<1>3. /\ InPool' \subseteq InPool /\ \A i \in S : i \notin InPool'
      /\ \A i \in InPool' : pool'[i] = pool[i]
  BY <1>1, Zenon DEF InPool
<1>4. Keyed'
  BY <1>3, Zenon DEF Contents, Keyed
<1>5. NoConflicts'
  BY <1>3, Zenon DEF Contents, NoConflicts, Clash, InputsOf
<1>6. QueueAgrees'
  BY <1>1, <1>2, <1>3, Zenon DEF Contents, QueueAgrees, InPool
<1> QED
  BY <1>1, <1>2, <1>3, <1>4, <1>5, <1>6, Zenon DEF Contents

(* What merge_input_cache.insert leaves in the cache.                         *)
LEMMA CacheWithKeeps ==
  ASSUME TypePool, Keyed, NEW M \in SUBSET InPool, NEW f \in Orders(M \ Cached)
  PROVE  /\ CacheWith(M, f) \in Seq(Tx)
         /\ \A n \in 1..Len(CacheWith(M, f)) : CacheWith(M, f)[n].id \in Cached \cup InPool
<1> DEFINE left == [n \in 1..Len(cache) |->
                      IF cache[n].id \in M THEN pool[cache[n].id] ELSE cache[n]]
           right == [n \in DOMAIN f |-> pool[f[n]]]
           c == Cardinality(M \ Cached)
<1>1. c \in Nat
  <2>1. M \ Cached \subseteq TxId
    BY Zenon DEF InPool
  <2> QED
    BY <2>1, MempoolAssumption, FS_Subset, FS_CardinalityType, Zenon
<1>2. /\ f \in [1..c -> M \ Cached]
      /\ DOMAIN f = 1..c
  BY Zenon DEF Orders
<1>3. \A i \in InPool : pool[i] \in Tx /\ pool[i].id = i
  BY Zenon DEF InPool, TypePool, Keyed
<1> HIDE DEF c
<1>4. Len(cache) \in Nat /\ \A n \in 1..Len(cache) : cache[n] \in Tx /\ cache[n].id \in Cached
  BY DEF TypePool, Cached
<1>5. left \in Seq(Tx) /\ Len(left) = Len(cache)
      /\ \A n \in 1..Len(left) : left[n].id \in Cached \cup InPool
  <2>1. \A n \in 1..Len(cache) : left[n] \in Tx /\ left[n].id \in Cached \cup InPool
    BY <1>3, <1>4, Zenon
  <2>2. left \in [1..Len(cache) -> Tx]
    BY <2>1, Zenon
  <2> QED
    BY <1>4, <2>1, <2>2
<1>6. right \in Seq(Tx) /\ Len(right) = c
      /\ \A n \in 1..Len(right) : right[n].id \in Cached \cup InPool
  <2>1. \A n \in 1..c : right[n] \in Tx /\ right[n].id \in Cached \cup InPool
    BY <1>2, <1>3, Zenon
  <2>2. right \in [1..c -> Tx]
    BY <1>2, <2>1, Zenon
  <2> QED
    BY <1>1, <2>1, <2>2
<1>7. CacheWith(M, f) = left \o right
  BY Zenon DEF CacheWith
<1> HIDE DEF left, right
<1> QED
  BY <1>5, <1>6, <1>7

(* A transaction that takes the place of its conflicts leaves the mempool     *)
(* conflict-free, ranked, and with nothing new but itself.                    *)
LEMMA EnterKeeps ==
  ASSUME TypePool, Contents, NEW t \in Tx, Enter(t, Conflicts(t.id))
  PROVE  /\ TypePool' /\ Contents'
         /\ InPool' \subseteq InPool \cup {t.id}
         /\ Cached' \subseteq Cached \cup InPool
<1> DEFINE S == Conflicts(t.id)
           M == MergeInputs(t, S)
           implied == IF t.id \in InPool \ S THEN {t.id} ELSE {}
<1>1. /\ S \in SUBSET InPool /\ M \in SUBSET InPool /\ implied \in SUBSET InPool
      /\ S \in SUBSET TxId
  BY Zenon DEF Conflicts, MergeInputs, InPool
<1>2. /\ pool' \in [TxId -> Tx \cup {NoTx}]
      /\ \A i \in TxId : pool'[i] = IF i = t.id THEN t ELSE IF i \in S THEN NoTx ELSE pool[i]
  BY TxFields, Zenon DEF Enter, Without, TypePool
<1>3. /\ queue' \in [TxId -> Nat \cup {NoDensity}]
      /\ \A i \in TxId : queue'[i] = IF i = t.id THEN Density[t]
                                     ELSE IF i \in S THEN NoDensity ELSE queue[i]
  BY TxFields, Zenon DEF Enter, Unqueued, TypePool
<1>4. cache' \in Seq(Tx) /\ Cached' \subseteq Cached \cup InPool
  <2>1. PICK f \in Orders(M \ Cached) : cache' = CacheWith(M, f)
    BY Zenon DEF Enter
  <2> QED
    BY <1>1, <2>1, CacheWithKeeps DEF Contents, Cached
<1>5. ev' \in [added : SUBSET (TxId \X Block), removed : SUBSET (TxId \X Block)]
  <2>1. /\ KernelsOf(S) \in SUBSET (TxId \X Block)
        /\ KernelsOf(implied) \in SUBSET (TxId \X Block)
        /\ KernelOf(t) \in TxId \X Block
    BY <1>1, KernelsType, TxFields, Zenon
  <2>2. Removed(ev, KernelsOf(S)) \in [added : SUBSET (TxId \X Block), removed : SUBSET (TxId \X Block)]
    BY <2>1, EventTypes, Zenon DEF TypePool
  <2>3. Added(Removed(ev, KernelsOf(S)), KernelOf(t))
          \in [added : SUBSET (TxId \X Block), removed : SUBSET (TxId \X Block)]
    BY <2>1, <2>2, EventTypes, Zenon
  <2>4. ev' = Removed(Added(Removed(ev, KernelsOf(S)), KernelOf(t)), KernelsOf(implied))
    BY Zenon DEF Enter
  <2> QED
    BY <2>1, <2>3, <2>4, EventTypes, Zenon
<1>6. /\ InPool' \subseteq InPool \cup {t.id}
      /\ \A i \in InPool' : i = t.id \/ (i \in InPool \ S /\ pool'[i] = pool[i])
  BY <1>2, Zenon DEF InPool
<1>7. Keyed'
  <2> SUFFICES ASSUME NEW i \in InPool' PROVE pool'[i].id = i
    BY Zenon DEF Keyed
  <2>1. CASE i = t.id
    BY <1>2, <2>1, TxFields, Zenon
  <2>2. CASE i # t.id
    BY <1>6, <2>2, Zenon DEF Contents, Keyed
  <2> QED BY <2>1, <2>2, Zenon
<1>8. NoConflicts'
  <2> SUFFICES ASSUME NEW i \in InPool', NEW j \in InPool', i # j
               PROVE  ~Clash(i, j)
    BY Zenon DEF NoConflicts, Clash, InputsOf
  <2>1. CASE i = t.id
    BY <1>6, <2>1, Zenon DEF Conflicts
  <2>2. CASE j = t.id
    BY <1>6, <2>2, Zenon DEF Conflicts, Clash
  <2>3. CASE i # t.id /\ j # t.id
    BY <1>6, <2>3, Zenon DEF Contents, NoConflicts
  <2> QED BY <2>1, <2>2, <2>3, Zenon
<1>9. QueueAgrees'
  <2> SUFFICES ASSUME NEW i \in TxId
               PROVE  queue'[i] = IF i \in InPool' THEN Density[pool'[i]] ELSE NoDensity
    BY Zenon DEF QueueAgrees
  <2>1. CASE i = t.id
    <3>1. pool'[i] = t /\ queue'[i] = Density[t] /\ i \in InPool'
      BY <1>2, <1>3, <2>1, TxFields, Zenon DEF InPool
    <3> QED BY <3>1, Zenon
  <2>2. CASE i # t.id /\ i \in S
    BY <1>2, <1>3, <2>2, Zenon DEF InPool
  <2>3. CASE i # t.id /\ i \notin S
    <3>1. pool'[i] = pool[i] /\ queue'[i] = queue[i] /\ (i \in InPool' <=> i \in InPool)
      BY <1>2, <1>3, <2>3, Zenon DEF InPool
    <3> QED BY <3>1, Zenon DEF Contents, QueueAgrees
  <2> QED BY <2>1, <2>2, <2>3, Zenon
<1> QED
  BY <1>2, <1>3, <1>4, <1>5, <1>6, <1>7, <1>8, <1>9, Zenon DEF TypePool, Contents

(* insert, whichever way it goes.                                             *)
LEMMA InsertKeeps ==
  ASSUME TypePool, Contents, NEW t \in Tx, NEW shrinking, NEW done,
         Insert(t, shrinking, done)
  PROVE  /\ TypePool' /\ Contents'
         /\ InPool' \subseteq InPool \cup {t.id}
         /\ Cached' \subseteq Cached \cup InPool
         /\ pc' \in {shrinking, done}
<1>1. CASE UNCHANGED contents /\ pc' = done
  BY <1>1, Zenon DEF contents, TypePool, Contents, Keyed, NoConflicts, QueueAgrees, InPool,
              Cached, Clash, InputsOf
<1>2. CASE Enter(t, Conflicts(t.id)) /\ pc' = shrinking
  BY <1>2, EnterKeeps, Zenon
<1> QED
  BY <1>1, <1>2, Zenon DEF Insert

(* Dropping transactions with the events that says so.                        *)
LEMMA DropEvents ==
  ASSUME TypePool, NEW S \in SUBSET InPool, ev' = Removed(ev, KernelsOf(S))
  PROVE  ev' \in [added : SUBSET (TxId \X Block), removed : SUBSET (TxId \X Block)]
BY KernelsType, Zenon DEF Removed, TypePool

(* What is spent on the way to a block is what is spent on the way to its     *)
(* parent and what the block spends.                                          *)
LEMMA SpentByChild ==
  ASSUME NEW b \in Block, b # Genesis
  PROVE  Spent(b) = Spent(Parent(b)) \cup Spends[b]
<1> DEFINE c == Chain[Parent(b)]
           s == Chain[b]
<1>1. s \in Seq(Block) /\ Len(s) >= 2 /\ s[Len(s)] = b
  BY ChainAssumption, Zenon
<1>2. c = SubSeq(s, 1, Len(s) - 1)
  <2>1. Len(s) - 1 \in 1..Len(s)
    BY <1>1
  <2> QED
    BY <2>1, ChainAssumption, Zenon DEF Parent
<1> HIDE DEF c, s
<1>a. Len(c) = Len(s) - 1 /\ \A n \in 1..Len(c) : c[n] = s[n]
  BY <1>1, <1>2
<1>b. 1..Len(s) = 1..Len(c) \cup {Len(s)}
  BY <1>1, <1>a
<1>c. {s[n] : n \in 1..Len(s)} = {c[n] : n \in 1..Len(c)} \cup {b}
  <2>1. {s[n] : n \in 1..Len(s)} = {s[n] : n \in 1..Len(c)} \cup {s[Len(s)]}
    BY <1>b, Zenon
  <2>2. {s[n] : n \in 1..Len(c)} = {c[n] : n \in 1..Len(c)}
    BY <1>a, Zenon
  <2> QED
    BY <1>1, <2>1, <2>2, Zenon
<1>3. Ancestry(b) = Ancestry(Parent(b)) \cup {b}
  BY <1>c, Zenon DEF Ancestry, c, s
<1> QED
  BY <1>3, Zenon DEF Spent

-----------------------------------------------------------------------------
(* The inductive invariant.  Outside of a block update the mempool is synced  *)
(* to the tip; a peer's transaction under way was confirmable for the block   *)
(* it names; and nothing the mempool holds, remembers or is about to restore  *)
(* is spent, unless it came in late.                                          *)

Progress ==
  /\ pc \in {"idle", "shrink"} => label = tip /\ todo = <<>>
  /\ pc = "restore" => todo # <<>>

MailChecked == \A m \in mail : m.by = "peer" => Confirmable(m.tx.id, m.confirmable_for)

Todo == {todo[n].id : n \in 1..Len(todo)}

Fresh(i) == Confirmable(i, tip) \/ i \in late

Unspent ==
  /\ \A i \in InPool \cup Cached : Fresh(i)
  /\ \A i \in Todo : StillValid(i, tip) => Fresh(i)

IInv == TypeOK /\ Contents /\ Progress /\ MailChecked /\ Unspent

(* The initial state satisfies it: the mempool is created empty.              *)
LEMMA InitInv == Init => IInv
<1> SUFFICES ASSUME Init PROVE IInv
  BY Zenon
<1> USE DEF Init
<1>1. InPool = {} /\ Cached = {} /\ Todo = {}
  BY DEF InPool, Cached, Todo
<1>2. TypeOK
  <2>1. /\ tip \in Block /\ label \in Block /\ view \in Block
        /\ cutoff \in 0..MaxTime
    BY ChainAssumption, MempoolAssumption
  <2>2. /\ pool \in [TxId -> Tx \cup {NoTx}]
        /\ queue \in [TxId -> Nat \cup {NoDensity}]
    BY Zenon
  <2>3. ev \in [added : SUBSET (TxId \X Block), removed : SUBSET (TxId \X Block)]
    BY Zenon DEF NoEvents
  <2>4. /\ cache \in Seq(Tx) /\ todo \in Seq(Tx)
        /\ mail \subseteq Msg /\ seen \subseteq TxId \X Block
        /\ late \subseteq TxId /\ owed \subseteq TxId /\ upset \in BOOLEAN
        /\ pc \in {"idle", "shrink", "restore", "reshrink"}
    <3>1. <<>> \in Seq(Tx)
      OBVIOUS
    <3> QED BY <3>1, Zenon
  <2> QED
    BY <2>1, <2>2, <2>3, <2>4, Zenon DEF TypeOK
<1>3. Contents
  BY <1>1, Zenon DEF Contents, Keyed, NoConflicts, QueueAgrees
<1> QED
  BY <1>1, <1>2, <1>3, Zenon DEF IInv, Progress, MailChecked, Unspent

(* Steps that leave the mempool's contents alone.                             *)
LEMMA SameContents ==
  ASSUME IInv, UNCHANGED <<pool, queue, cache>>
  PROVE  Contents' /\ InPool' = InPool /\ Cached' = Cached
BY Zenon DEF IInv, Contents, Keyed, NoConflicts, QueueAgrees, InPool, Cached, Clash, InputsOf

(* The checks of the peer and RPC tasks leave the mempool alone, and a peer's *)
(* message was checked under the tip it names.                                *)
LEMMA TasksKeep ==
  ASSUME IInv, PeerReadsTip \/ (\E t \in Tx : PeerSends(t) \/ RpcSends(t))
  PROVE  IInv'
<1>1. /\ UNCHANGED <<tip, label, pool, queue, cache, ev, cutoff, pc, todo, seen, late, owed, upset>>
      /\ view' \in Block
  BY Zenon DEF PeerReadsTip, PeerSends, RpcSends, contents, history, IInv, TypeOK
<1>2. mail' \subseteq Msg /\ MailChecked'
  <2>1. CASE PeerReadsTip
    BY <2>1, Zenon DEF PeerReadsTip, IInv, TypeOK, MailChecked, Confirmable, Spent, InputsOf
  <2>2. ASSUME NEW t \in Tx, PeerSends(t) PROVE mail' \subseteq Msg /\ MailChecked'
    <3> DEFINE m == [tx |-> t, confirmable_for |-> view, by |-> "peer"]
    <3>1. m \in Msg /\ Confirmable(m.tx.id, m.confirmable_for) /\ mail' = mail \cup {m}
      BY <2>2, Zenon DEF PeerSends, Msg, IInv, TypeOK
    <3> HIDE DEF m
    <3> QED
      BY <3>1, Zenon DEF IInv, TypeOK, MailChecked, Confirmable, Spent, InputsOf
  <2>3. ASSUME NEW t \in Tx, RpcSends(t) PROVE mail' \subseteq Msg /\ MailChecked'
    <3> DEFINE m == [tx |-> t, by |-> "rpc"]
    <3>1. m \in Msg /\ m.by # "peer" /\ mail' = mail \cup {m}
      BY <2>3, Zenon DEF RpcSends, Msg, IInv, TypeOK
    <3> HIDE DEF m
    <3> QED
      BY <3>1, Zenon DEF IInv, TypeOK, MailChecked, Confirmable, Spent, InputsOf
  <2> QED BY <2>1, <2>2, <2>3, Zenon
<1>3. TypeOK'
  BY <1>1, <1>2, Zenon DEF IInv, TypeOK
<1>4. Contents' /\ InPool' = InPool /\ Cached' = Cached
  BY <1>1, SameContents, Zenon
<1>5. Progress' /\ Unspent'
  BY <1>1, <1>4 DEF IInv, Progress, Unspent, Todo, Fresh, Confirmable, StillValid, Spent, InputsOf
<1> QED
  BY <1>2, <1>3, <1>4, <1>5, Zenon DEF IInv

(* The inserts of the main loop keep the invariant.                           *)
LEMMA MailKeeps ==
  ASSUME IInv, NEW m \in mail, MainGetsPeerTx(m) \/ MainGetsRpcTx(m)
  PROVE  IInv'
<1>1. /\ UNCHANGED <<tip, label, cutoff, view, todo, seen, owed, upset>>
      /\ mail' = mail \ {m} /\ pc = "idle"
  BY Zenon DEF MainGetsPeerTx, MainGetsRpcTx, history
<1>2. m \in Msg /\ m.tx \in Tx /\ m.tx.id \in TxId
  BY MempoolAssumption, Zenon DEF IInv, TypeOK, Msg
<1>3. TypePool
  BY Zenon DEF IInv, TypeOK, TypePool
<1>4. /\ late' \subseteq TxId /\ late \subseteq late'
      /\ \/ UNCHANGED <<pool, queue, cache, ev, pc>>
         \/ /\ Insert(m.tx, "shrink", "idle")
            /\ Confirmable(m.tx.id, tip) \/ m.tx.id \in late'
  <2>1. CASE MainGetsPeerTx(m) /\ m.confirmable_for = tip
    BY <2>1, Zenon DEF MainGetsPeerTx, IInv, TypeOK, MailChecked
  <2>2. CASE MainGetsPeerTx(m) /\ m.confirmable_for # tip
    BY <2>2, Zenon DEF MainGetsPeerTx, IInv, TypeOK, contents
  <2>3. CASE MainGetsRpcTx(m)
    BY <1>2, <2>3, Zenon DEF MainGetsRpcTx, IInv, TypeOK
  <2> QED BY <2>1, <2>2, <2>3, Zenon
<1>5. /\ TypePool' /\ Contents'
      /\ InPool' \subseteq InPool \cup {m.tx.id}
      /\ Cached' \subseteq Cached \cup InPool
      /\ m.tx.id \in InPool' \ InPool => (Confirmable(m.tx.id, tip) \/ m.tx.id \in late')
      /\ pc' \in {"idle", "shrink"}
  <2>1. CASE UNCHANGED <<pool, queue, cache, ev, pc>>
    BY <1>1, <1>3, <2>1, SameContents, Zenon DEF TypePool
  <2>2. CASE /\ Insert(m.tx, "shrink", "idle")
             /\ Confirmable(m.tx.id, tip) \/ m.tx.id \in late'
    BY <1>2, <1>3, <2>2, InsertKeeps, Zenon DEF IInv
  <2> QED BY <1>4, <2>1, <2>2, Zenon
<1>6. TypeOK'
  BY <1>1, <1>4, <1>5, Zenon DEF IInv, TypeOK, TypePool
<1>7. Progress' /\ MailChecked'
  BY <1>1, <1>5, Zenon DEF IInv, Progress, MailChecked, Confirmable, Spent, InputsOf
<1>8. Unspent'
  <2>1. /\ Todo' = Todo
        /\ \A i : Confirmable(i, tip)' <=> Confirmable(i, tip)
        /\ \A i : StillValid(i, tip)' <=> StillValid(i, tip)
    BY <1>1, Zenon DEF Todo, Confirmable, StillValid, Spent, InputsOf
  <2>4. \A i \in Todo' : StillValid(i, tip)' => Fresh(i)'
    BY <1>4, <2>1, Zenon DEF IInv, Unspent, Fresh
  <2> SUFFICES ASSUME NEW i \in InPool' \cup Cached' PROVE Fresh(i)'
    BY <2>4, Zenon DEF Unspent
  <2>2. CASE i \in InPool \cup Cached
    BY <1>4, <2>1, <2>2, Zenon DEF IInv, Unspent, Fresh
  <2>3. CASE i = m.tx.id /\ i \in InPool' \ InPool
    BY <1>5, <2>1, <2>3, Zenon DEF Fresh
  <2> QED BY <1>5, <2>1, <2>2, <2>3, Zenon
<1> QED
  BY <1>5, <1>6, <1>7, <1>8, Zenon DEF IInv

(* Pruning and clearing only take away.                                       *)
LEMMA PruneKeeps ==
  ASSUME IInv, PruneStale \/ ClearMempool
  PROVE  IInv'
<1>0. TypePool /\ Contents
  BY Zenon DEF IInv, TypeOK, TypePool
<1>1. PICK S \in SUBSET InPool : /\ pool' = Without(S) /\ queue' = Unqueued(S)
                                 /\ seen' = Hear(Removed(NoEvents, KernelsOf(S)))
  <2>1. CASE PruneStale
    <3> DEFINE S == {i \in InPool : Kernel[i].time <= cutoff'}
    <3>1. S \in SUBSET InPool
      BY Zenon
    <3> QED BY <2>1, <3>1, Zenon DEF PruneStale
  <2>2. CASE ClearMempool
    BY <2>2, Zenon DEF ClearMempool
  <2> QED BY <2>1, <2>2, Zenon
<1>2. /\ UNCHANGED <<tip, label, view, mail, pc, todo, ev, late, owed, upset>>
      /\ cutoff' \in 0..MaxTime /\ (cache' = cache \/ cache' = <<>>)
  <2>1. CASE PruneStale
    BY <2>1, MempoolAssumption DEF PruneStale, IInv, TypeOK, history
  <2>2. CASE ClearMempool
    BY <2>2, Zenon DEF ClearMempool, IInv, TypeOK, outside, history
  <2> QED BY <2>1, <2>2, Zenon
<1>3. /\ pool' \in [TxId -> Tx \cup {NoTx}]
      /\ queue' \in [TxId -> Nat \cup {NoDensity}]
      /\ Contents' /\ InPool' \subseteq InPool
  <2>1. S \in SUBSET TxId
    BY Zenon DEF InPool
  <2> QED BY <1>0, <1>1, <2>1, DropKeeps, Zenon
<1>4. seen' \subseteq TxId \X Block
  BY <1>1, Zenon DEF Hear, Removed, NoEvents, IInv, TypeOK
<1>5. cache' \in Seq(Tx) /\ Cached' \subseteq Cached
  <2>1. CASE cache' = cache
    BY <2>1, Zenon DEF IInv, TypeOK, Cached
  <2>2. CASE cache' = <<>>
    BY <2>2 DEF Cached
  <2> QED BY <1>2, <2>1, <2>2, Zenon
<1>6. TypeOK'
  BY <1>2, <1>3, <1>4, <1>5, Zenon DEF IInv, TypeOK
<1>7. Progress' /\ MailChecked' /\ Unspent'
  BY <1>2, <1>3, <1>5 DEF IInv, Progress, MailChecked, Unspent, Todo, Fresh, Confirmable, StillValid, Spent, InputsOf
<1> QED
  BY <1>3, <1>6, <1>7, Zenon DEF IInv

(* One round of shrinking.                                                    *)
LEMMA ShrinkKeeps ==
  ASSUME IInv, ShrinkRound
  PROVE  IInv'
<1>0. TypePool /\ Contents
  BY Zenon DEF IInv, TypeOK, TypePool
<1>1. /\ UNCHANGED <<tip, view, cutoff, mail, late, label, pc, todo, seen, owed>>
      /\ upset' \in BOOLEAN
  BY Zenon DEF ShrinkRound, outside, IInv, TypeOK
<1>2. TypePool' /\ Contents' /\ InPool' \subseteq InPool /\ Cached' \subseteq Cached
  <2>1. CASE DominatedByCache /\ cache' = Tail(cache) /\ UNCHANGED <<pool, queue, ev>>
    <3>1. Cardinality(InPool) \in Nat
      <4>1. InPool \subseteq TxId
        BY Zenon DEF InPool
      <4> QED
        BY <4>1, MempoolAssumption, FS_Subset, FS_CardinalityType, Zenon
    <3>2. cache \in Seq(Tx) /\ Len(cache) \in Nat
      BY <1>0 DEF TypePool
    <3>3. Len(cache) # 0
      BY <2>1, <3>1, <3>2 DEF DominatedByCache, Size
    <3>4. /\ Tail(cache) \in Seq(Tx) /\ Len(Tail(cache)) = Len(cache) - 1
          /\ \A n \in 1..(Len(cache) - 1) : Tail(cache)[n] = cache[n + 1]
      BY <3>2, <3>3
    <3>5. Cached' \subseteq Cached
      BY <2>1, <3>2, <3>4 DEF Cached
    <3>6. Contents' /\ InPool' = InPool
      BY <1>0, <2>1, Zenon DEF Contents, Keyed, NoConflicts, QueueAgrees, InPool, Clash, InputsOf
    <3> QED
      BY <1>0, <2>1, <3>4, <3>5, <3>6, Zenon DEF TypePool
  <2>2. CASE PopMin /\ UNCHANGED cache
    <3>1. PICK i \in TxId : queue[i] # NoDensity /\ Drop({i})
      BY <2>2, Zenon DEF PopMin
    <3>2. {i} \in SUBSET InPool /\ {i} \in SUBSET TxId
      BY <1>0, <3>1, Zenon DEF Contents, QueueAgrees
    <3>3. ev' \in [added : SUBSET (TxId \X Block), removed : SUBSET (TxId \X Block)]
      BY <1>0, <3>1, <3>2, DropEvents, Zenon DEF Drop
    <3> QED
      BY <1>0, <2>2, <3>1, <3>2, <3>3, DropKeeps, Zenon DEF Drop, TypePool, Cached
  <2> QED BY <2>1, <2>2, Zenon DEF ShrinkRound
<1>3. TypeOK'
  BY <1>1, <1>2, Zenon DEF IInv, TypeOK, TypePool
<1>4. Progress' /\ MailChecked' /\ Unspent'
  BY <1>1, <1>2 DEF IInv, Progress, MailChecked, Unspent, Todo, Fresh, Confirmable, StillValid, Spent, InputsOf
<1> QED
  BY <1>2, <1>3, <1>4, Zenon DEF IInv

(* The end of an insert and the ends of the two kinds of shrinking in a block *)
(* update.                                                                    *)
LEMMA DoneKeeps ==
  ASSUME IInv, InsertDone \/ RestoreNext \/ UpdateDone
  PROVE  IInv'
<1>1. /\ UNCHANGED <<tip, view, cutoff, mail, late, pool, queue, cache, todo>>
      /\ label' \in Block
  BY Zenon DEF InsertDone, RestoreNext, UpdateDone, outside, contents, IInv, TypeOK
<1>2. /\ ev' \in [added : SUBSET (TxId \X Block), removed : SUBSET (TxId \X Block)]
      /\ seen' \subseteq TxId \X Block
      /\ owed' \subseteq TxId /\ upset' \in BOOLEAN
      /\ pc' \in {"idle", "restore"}
  <2>1. CASE RestoreNext
    BY <2>1, Zenon DEF RestoreNext, contents, history, IInv, TypeOK
  <2>2. CASE InsertDone \/ UpdateDone
    <3>1. ev' = NoEvents /\ seen' = Hear(ev)
      BY <2>2, Zenon DEF InsertDone, UpdateDone
    <3>2. seen' \subseteq TxId \X Block
      BY <3>1, Zenon DEF Hear, IInv, TypeOK
    <3>3. owed' \subseteq TxId /\ upset' \in BOOLEAN /\ pc' = "idle"
      BY <2>2, Zenon DEF InsertDone, UpdateDone, history, IInv, TypeOK
    <3> QED BY <3>1, <3>2, <3>3, Zenon DEF NoEvents
  <2> QED BY <2>1, <2>2, Zenon
<1>3. TypeOK'
  BY <1>1, <1>2, Zenon DEF IInv, TypeOK
<1>4. Contents' /\ InPool' = InPool /\ Cached' = Cached
  BY <1>1, SameContents, Zenon
<1>5. Progress'
  BY <1>1, Zenon DEF InsertDone, RestoreNext, UpdateDone, IInv, Progress
<1>6. MailChecked' /\ Unspent'
  BY <1>1, <1>4, Zenon DEF IInv, MailChecked, Unspent, Todo, Fresh, Confirmable, StillValid, Spent, InputsOf
<1> QED
  BY <1>3, <1>4, <1>5, <1>6, Zenon DEF IInv

(* Restoring a merge input is an insert.                                      *)
LEMMA RestoreKeeps ==
  ASSUME IInv, Restore
  PROVE  IInv'
<1> DEFINE t == Head(todo)
<1>0. TypePool /\ Contents
  BY Zenon DEF IInv, TypeOK, TypePool
<1>1. todo \in Seq(Tx) /\ todo # <<>> /\ Len(todo) \in Nat \ {0}
  BY DEF Restore, IInv, TypeOK, Progress
<1>2. /\ t \in Tx /\ t = todo[1] /\ t.id \in Todo
      /\ Tail(todo) \in Seq(Tx) /\ Len(Tail(todo)) = Len(todo) - 1
      /\ \A n \in 1..(Len(todo) - 1) : Tail(todo)[n] = todo[n + 1]
  BY <1>1 DEF Todo
<1> DEFINE done == IF Len(todo) = 1 THEN "reshrink" ELSE "restore"
<1>3. /\ UNCHANGED <<tip, view, cutoff, mail, late, label, seen, owed>>
      /\ todo' = Tail(todo) /\ upset' \in BOOLEAN
      /\ \/ StillValid(t.id, tip) /\ Insert(t, "reshrink", done)
         \/ UNCHANGED contents /\ pc' = done
  BY Zenon DEF Restore, outside, IInv, TypeOK
<1>4. /\ TypePool' /\ Contents'
      /\ InPool' \subseteq InPool \cup {t.id}
      /\ Cached' \subseteq Cached \cup InPool
      /\ t.id \in InPool' \ InPool => StillValid(t.id, tip)
      /\ pc' \in {"reshrink", done}
  <2>1. CASE StillValid(t.id, tip) /\ Insert(t, "reshrink", done)
    BY <1>0, <1>2, <2>1, InsertKeeps, Zenon
  <2>2. CASE UNCHANGED contents /\ pc' = done
    BY <1>0, <2>2, SameContents, Zenon DEF contents, TypePool
  <2> QED BY <1>3, <2>1, <2>2, Zenon
<1> HIDE DEF t
<1>5. Todo' \subseteq Todo
  BY <1>1, <1>2, <1>3 DEF Todo
<1>6. TypeOK'
  BY <1>2, <1>3, <1>4, Zenon DEF IInv, TypeOK, TypePool
<1>7. Progress'
  <2>1. Len(todo) # 1 => Tail(todo) # <<>>
    BY <1>1, <1>2
  <2> QED
    BY <1>3, <1>4, <2>1, Zenon DEF Progress
<1>8. MailChecked'
  BY <1>3, Zenon DEF IInv, MailChecked, Confirmable, Spent, InputsOf
<1>9. Unspent'
  BY <1>2, <1>3, <1>4, <1>5, Zenon
     DEF IInv, Unspent, Fresh, Confirmable, StillValid, Spent, InputsOf
<1> QED
  BY <1>4, <1>6, <1>7, <1>8, <1>9, Zenon DEF IInv

(* A new tip.  On the same chain, what the block leaves unspent was unspent   *)
(* before; on another one, nothing is kept.                                   *)
LEMMA NewTipKeeps ==
  ASSUME IInv, NEW b \in Block, NewTip(b)
  PROVE  IInv'
<1>0. TypePool /\ Contents
  BY Zenon DEF IInv, TypeOK, TypePool
<1>1. /\ UNCHANGED <<view, cutoff, mail, late, seen, upset>> /\ tip' = b
      /\ pc = "idle" /\ label = tip /\ todo = <<>>
  BY Zenon DEF NewTip, IInv, Progress
<1>2. MailChecked'
  BY <1>1, Zenon DEF IInv, MailChecked, Confirmable, Spent, InputsOf
<1>3. CASE InPool = {} /\ cache = <<>>
  <2>1. label' = b /\ UNCHANGED <<pool, queue, cache, ev, pc, todo, owed>>
    BY <1>3, Zenon DEF NewTip, contents
  <2>2. Contents' /\ InPool' = {} /\ Cached' = {} /\ Todo' = {}
    <3>1. Contents' /\ InPool' = InPool
      BY <2>1, SameContents, Zenon
    <3>2. Cached' = {} /\ Todo' = {}
      BY <1>1, <1>3, <2>1 DEF Cached, Todo
    <3> QED BY <1>3, <3>1, <3>2, Zenon
  <2>3. TypeOK'
    BY <1>1, <2>1, Zenon DEF IInv, TypeOK
  <2> QED
    BY <1>1, <1>2, <2>1, <2>2, <2>3, Zenon DEF IInv, Progress, Unspent
<1>4. CASE ~(InPool = {} /\ cache = <<>>)
  <2> DEFINE reorg == b = Genesis \/ label # Parent(b)
             S == {i \in InPool : reorg \/ ~StillValid(i, b)}
  <2>1. /\ Drop(S) /\ cache' = <<>> /\ label' = label
        /\ todo' = IF reorg THEN <<>> ELSE cache
        /\ owed' = IF reorg THEN {} ELSE {i \in Cached : StillValid(i, b)}
        /\ pc' = IF todo' = <<>> THEN "reshrink" ELSE "restore"
    BY <1>4, Zenon DEF NewTip
  <2>2. S \in SUBSET InPool /\ S \in SUBSET TxId
    BY Zenon DEF InPool
  <2>3. /\ pool' \in [TxId -> Tx \cup {NoTx}]
        /\ queue' \in [TxId -> Nat \cup {NoDensity}]
        /\ Contents'
        /\ InPool' \subseteq InPool \ S
    BY <1>0, <2>1, <2>2, DropKeeps, Zenon DEF Drop
  <2>4. ev' \in [added : SUBSET (TxId \X Block), removed : SUBSET (TxId \X Block)]
    BY <1>0, <2>1, <2>2, DropEvents, Zenon DEF Drop
  <2>5. todo' \in Seq(Tx) /\ cache' \in Seq(Tx) /\ owed' \subseteq TxId
    <3>1. Cached \subseteq TxId
      BY <1>0, TxFields DEF TypePool, Cached
    <3> QED
      BY <1>0, <2>1, <3>1 DEF TypePool
  <2>6. TypeOK'
    BY <1>1, <2>1, <2>3, <2>4, <2>5, Zenon DEF IInv, TypeOK
  <2>7. Progress'
    BY <2>1, Zenon DEF Progress
  <2>8. Unspent'
    <3>1. Cached' = {} /\ Todo' = IF reorg THEN {} ELSE Cached
      BY <2>1 DEF Cached, Todo
    <3>2. CASE reorg
      BY <2>3, <3>1, <3>2, Zenon DEF Unspent
    <3>3. CASE ~reorg
      <4>1. Spent(b) = Spent(tip) \cup Spends[b]
        BY <1>1, <3>3, SpentByChild, Zenon
      <4>2. \A i \in InPool \cup Cached : StillValid(i, b) => Confirmable(i, b) \/ i \in late
        BY <4>1, Zenon DEF IInv, Unspent, Fresh, Confirmable, StillValid
      <4>3. \A i \in InPool' : i \in InPool /\ StillValid(i, b)
        BY <2>3, Zenon
      <4>4. \A i : /\ Fresh(i)' <=> (Confirmable(i, b) \/ i \in late)
                   /\ StillValid(i, tip)' <=> StillValid(i, b)
        BY <1>1, Zenon DEF Fresh, Confirmable, StillValid, Spent, InputsOf
      <4> QED
        BY <3>1, <3>3, <4>2, <4>3, <4>4, Zenon DEF Unspent
    <3> QED BY <3>2, <3>3, Zenon
  <2> QED
    BY <1>2, <2>3, <2>6, <2>7, <2>8, Zenon DEF IInv
<1> QED
  BY <1>3, <1>4, Zenon

(* The invariant is inductive.                                                *)
LEMMA NextInv == IInv /\ [Next]_vars => IInv'
<1> SUFFICES ASSUME IInv, [Next]_vars PROVE IInv'
  BY Zenon
<1>1. CASE Next
  BY <1>1, ShrinkKeeps, DoneKeeps, NewTipKeeps, RestoreKeeps, PruneKeeps, TasksKeep, MailKeeps, Zenon
     DEF Next
<1>2. CASE UNCHANGED vars
  <2>1. Contents' /\ InPool' = InPool /\ Cached' = Cached
    BY <1>2, SameContents, Zenon DEF vars
  <2>2. TypeOK'
    BY <1>2, Zenon DEF vars, IInv, TypeOK
  <2>3. Progress' /\ MailChecked'
    BY <1>2, Zenon DEF vars, IInv, Progress, MailChecked, Confirmable, Spent, InputsOf
  <2>4. Unspent'
    BY <1>2, <2>1, Zenon DEF vars, IInv, Unspent, Todo, Fresh, Confirmable, StillValid, Spent, InputsOf
  <2> QED BY <2>1, <2>2, <2>3, <2>4, Zenon DEF IInv
<1> QED BY <1>1, <1>2, Zenon

(* Every behaviour satisfies the inductive invariant.                         *)
LEMMA AlwaysInv == Spec => []IInv
BY InitInv, NextInv, PTL DEF Spec

-----------------------------------------------------------------------------
(* The cache of merge inputs.  An element enters it because a transaction     *)
(* that replaced it conflicts with it, so that it has inputs.                 *)

CacheSound ==
  /\ CacheIsASet
  /\ \A i \in Cached \cup Todo : InputsOf(i) # {}

(* The orders of a finite set name each of its elements once.                 *)
LEMMA OrdersAreInjective ==
  ASSUME NEW S, IsFiniteSet(S), NEW f \in Orders(S)
  PROVE  /\ DOMAIN f = 1..Cardinality(S) /\ Cardinality(S) \in Nat
         /\ \A n \in DOMAIN f : f[n] \in S
         /\ \A m, n \in DOMAIN f : f[m] = f[n] => m = n
<1> DEFINE c == Cardinality(S)
<1>1. c \in Nat
  BY FS_CardinalityType, Zenon
<1>2. f \in [1..c -> S] /\ \A x \in S : \E n \in 1..c : f[n] = x
  BY Zenon DEF Orders
<1>3. f \in Surjection(1..c, S)
  BY <1>2, Zenon DEF Surjection
<1>4. IsFiniteSet(1..c) /\ Cardinality(1..c) = c
  <2>1. IsFiniteSet(1..c) /\ Cardinality(1..c) = IF 1 > c THEN 0 ELSE c - 1 + 1
    BY <1>1, FS_Interval
  <2> QED BY <1>1, <2>1
<1>5. f \in Injection(1..c, S)
  BY <1>3, <1>4, FS_SurjSameCardinalityImpliesInj, Zenon
<1> QED
  BY <1>1, <1>2, <1>5, Zenon DEF Injection, IsInjective

(* The elements of a concatenation.                                           *)
LEMMA Concatenation ==
  ASSUME NEW T, NEW a \in Seq(T), NEW b \in Seq(T)
  PROVE  /\ Len(a \o b) = Len(a) + Len(b)
         /\ \A n \in 1..(Len(a) + Len(b)) : (a \o b)[n] = IF n <= Len(a) THEN a[n] ELSE b[n - Len(a)]
OBVIOUS

(* merge_input_cache.insert: each merge input once, the newest version of it. *)
LEMMA CacheWithIsASet ==
  ASSUME TypePool, Keyed, CacheIsASet, NEW M \in SUBSET InPool,
         \A i \in M : pool[i].proof = "single",
         NEW f \in Orders(M \ Cached), cache' = CacheWith(M, f)
  PROVE  CacheIsASet' /\ Cached' \subseteq Cached \cup M
<1> DEFINE left == [n \in 1..Len(cache) |->
                      IF cache[n].id \in M THEN pool[cache[n].id] ELSE cache[n]]
           right == [n \in DOMAIN f |-> pool[f[n]]]
           c == Cardinality(M \ Cached)
<1>1. IsFiniteSet(M \ Cached)
  <2>1. M \ Cached \subseteq TxId
    BY Zenon DEF InPool
  <2> QED
    BY <2>1, MempoolAssumption, FS_Subset, Zenon
<1>2. /\ DOMAIN f = 1..c /\ c \in Nat
      /\ \A n \in 1..c : f[n] \in M \ Cached
      /\ \A m, n \in 1..c : f[m] = f[n] => m = n
  <2>1. /\ DOMAIN f = 1..c /\ c \in Nat
        /\ \A n \in DOMAIN f : f[n] \in M \ Cached
        /\ \A m, n \in DOMAIN f : f[m] = f[n] => m = n
    <3> DEFINE S == M \ Cached
    <3>1. IsFiniteSet(S) /\ f \in Orders(S)
      BY <1>1, Zenon
    <3> HIDE DEF S
    <3>2. /\ DOMAIN f = 1..Cardinality(S) /\ Cardinality(S) \in Nat
          /\ \A n \in DOMAIN f : f[n] \in S
          /\ \A m, n \in DOMAIN f : f[m] = f[n] => m = n
      BY <3>1, OrdersAreInjective, Zenon
    <3> QED
      BY <3>2, Zenon DEF S
  <2> HIDE DEF c
  <2> QED BY <2>1, Zenon
<1> HIDE DEF c
<1>3. \A i \in InPool : pool[i] \in Tx /\ pool[i].id = i
  BY Zenon DEF InPool, TypePool, Keyed
<1>4. /\ cache \in Seq(Tx) /\ Len(cache) \in Nat
      /\ \A n \in 1..Len(cache) : cache[n] \in Tx /\ cache[n].id \in Cached
  BY DEF TypePool, Cached
<1>5. /\ left \in Seq(Tx) /\ Len(left) = Len(cache)
      /\ \A n \in 1..Len(cache) : left[n].id = cache[n].id /\ left[n].proof = "single"
  <2>1. \A n \in 1..Len(cache) : /\ left[n] \in Tx /\ left[n].id = cache[n].id
                                 /\ left[n].proof = "single"
    BY <1>3, <1>4, Zenon DEF CacheIsASet
  <2>2. left \in [1..Len(cache) -> Tx]
    BY <2>1, Zenon
  <2> QED
    BY <1>4, <2>1, <2>2
<1>6. /\ right \in Seq(Tx) /\ Len(right) = c
      /\ \A n \in 1..c : right[n].id = f[n] /\ right[n].proof = "single"
  <2>1. \A n \in 1..c : right[n] \in Tx /\ right[n].id = f[n] /\ right[n].proof = "single"
    BY <1>2, <1>3, Zenon
  <2>2. right \in [1..c -> Tx]
    BY <1>2, <2>1, Zenon
  <2> QED
    BY <1>2, <2>1, <2>2
<1>7. cache' = left \o right
  BY Zenon DEF CacheWith
<1> HIDE DEF left, right
<1>8. /\ Len(cache') = Len(cache) + c
      /\ \A n \in 1..Len(cache') : cache'[n] = IF n <= Len(cache) THEN left[n] ELSE right[n - Len(cache)]
  BY <1>5, <1>6, <1>7, Concatenation
<1>9. \A k \in 1..Len(cache') : k > Len(cache) => k - Len(cache) \in 1..c
  BY <1>2, <1>4, <1>8
<1>10. Cached' \subseteq Cached \cup M
  <2>1. \A n \in 1..Len(cache') : cache'[n].id \in Cached \cup M
    BY <1>2, <1>4, <1>5, <1>6, <1>8, <1>9
  <2> QED BY <2>1, Zenon DEF Cached
<1> SUFFICES ASSUME NEW m \in 1..Len(cache'), NEW n \in 1..Len(cache')
             PROVE  /\ cache'[n].proof = "single"
                    /\ cache'[m].id = cache'[n].id => m = n
  BY <1>10, Zenon DEF CacheIsASet
<1>11. cache'[n].proof = "single"
  <2>1. CASE n <= Len(cache)
    BY <1>4, <1>5, <1>8, <2>1
  <2>2. CASE n > Len(cache)
    BY <1>4, <1>6, <1>8, <1>9, <2>2
  <2> QED BY <1>4, <1>8, <2>1, <2>2
<1>12. CASE m <= Len(cache) /\ n <= Len(cache)
  BY <1>4, <1>5, <1>8, <1>11, <1>12 DEF CacheIsASet
<1>13. CASE m > Len(cache) /\ n > Len(cache)
  <2>1. cache'[m].id = f[m - Len(cache)] /\ cache'[n].id = f[n - Len(cache)]
    BY <1>4, <1>6, <1>8, <1>9, <1>13
  <2>2. cache'[m].id = cache'[n].id => m - Len(cache) = n - Len(cache)
    BY <1>2, <1>9, <1>13, <2>1, Zenon
  <2> QED BY <1>4, <1>8, <1>11, <2>2
<1>14. CASE m <= Len(cache) /\ n > Len(cache)
  <2>1. cache'[m].id \in Cached
    BY <1>4, <1>5, <1>8, <1>14
  <2>2. cache'[n].id \notin Cached
    BY <1>2, <1>4, <1>6, <1>8, <1>9, <1>14
  <2> QED BY <1>11, <2>1, <2>2, Zenon
<1>15. CASE m > Len(cache) /\ n <= Len(cache)
  <2>1. cache'[n].id \in Cached
    BY <1>4, <1>5, <1>8, <1>15
  <2>2. cache'[m].id \notin Cached
    BY <1>2, <1>4, <1>6, <1>8, <1>9, <1>15
  <2> QED BY <1>11, <2>1, <2>2, Zenon
<1> QED BY <1>4, <1>8, <1>12, <1>13, <1>14, <1>15

-----------------------------------------------------------------------------
(* The events.  At every moment the events of the running operation turn what *)
(* a listener knows into what the mempool holds, without a superfluous one.   *)

Balanced(e, P) ==
  /\ e.removed \subseteq seen /\ e.added \cap seen = {}
  /\ P = (seen \ e.removed) \cup e.added

EventsBalance ==
  /\ Balanced(ev, KernelsOf(InPool))
  /\ pc = "idle" => ev = NoEvents

(* A removal keeps the balance, ...                                           *)
LEMMA RemovedBalances ==
  ASSUME NEW e, NEW P, Balanced(e, P), NEW K \in SUBSET P
  PROVE  Balanced(Removed(e, K), P \ K)
BY Zenon DEF Balanced, Removed

(* ... and so does an addition of a kernel that is not there.                 *)
LEMMA AddedBalances ==
  ASSUME NEW e \in [added : SUBSET (TxId \X Block), removed : SUBSET (TxId \X Block)],
         NEW P, Balanced(e, P), NEW k, k \notin P
  PROVE  Balanced(Added(e, k), P \cup {k})
<1>1. CASE k \in e.removed
  <2>1. Added(e, k) = [added |-> e.added, removed |-> e.removed \ {k}]
    BY <1>1, Zenon DEF Added
  <2> QED BY <1>1, <2>1 DEF Balanced
<1>2. CASE k \notin e.removed
  <2>1. Added(e, k) = [added |-> e.added \cup {k}, removed |-> e.removed]
    BY <1>2, Zenon DEF Added
  <2> QED BY <1>2, <2>1 DEF Balanced
<1> QED BY <1>1, <1>2, Zenon

(* Each transaction of the mempool has a kernel of its own.                   *)
LEMMA KernelsWithout ==
  ASSUME TypePool, Keyed, NEW S \in SUBSET InPool
  PROVE  /\ KernelsOf(InPool \ S) = KernelsOf(InPool) \ KernelsOf(S)
         /\ KernelsOf(S) \subseteq KernelsOf(InPool)
         /\ \A i \in InPool : KernelOf(pool[i])[1] = i
<1>1. \A i \in InPool : KernelOf(pool[i])[1] = i
  BY Zenon DEF Keyed, KernelOf
<1>2. KernelsOf(S) \subseteq KernelsOf(InPool)
  BY Zenon DEF KernelsOf
<1>3. \A k \in KernelsOf(InPool \ S) : k \in KernelsOf(InPool) /\ k \notin KernelsOf(S)
  BY <1>1, Zenon DEF KernelsOf
<1>4. \A k \in KernelsOf(InPool) : k \notin KernelsOf(S) => k \in KernelsOf(InPool \ S)
  BY Zenon DEF KernelsOf
<1>5. KernelsOf(InPool \ S) = KernelsOf(InPool) \ KernelsOf(S)
  BY <1>3, <1>4, Zenon
<1> QED
  BY <1>1, <1>2, <1>5, Zenon

(* Dropping transactions with their events keeps the balance.                 *)
LEMMA DropBalances ==
  ASSUME TypePool, Contents, Balanced(ev, KernelsOf(InPool)),
         NEW S \in SUBSET InPool, pool' = Without(S),
         ev' = Removed(ev, KernelsOf(S)), seen' = seen
  PROVE  Balanced(ev, KernelsOf(InPool))'
<1>1. /\ InPool' = InPool \ S /\ \A i \in InPool' : pool'[i] = pool[i]
  BY Zenon DEF Without, InPool, TypePool
<1>2. KernelsOf(InPool)' = KernelsOf(InPool \ S)
  BY <1>1, Zenon DEF KernelsOf, KernelOf
<1>3. Balanced(ev', KernelsOf(InPool \ S))
  BY KernelsWithout, RemovedBalances DEF Contents
<1> QED
  BY <1>2, <1>3, Zenon DEF Balanced

(* So does a transaction that takes the place of its conflicts, and of an     *)
(* older version of itself without conflicts when it has no inputs.           *)
LEMMA EnterBalances ==
  ASSUME TypePool, Contents, Balanced(ev, KernelsOf(InPool)),
         NEW t \in Tx, Enter(t, Conflicts(t.id)), seen' = seen,
         InputsOf(t.id) # {} \/ ev = NoEvents
  PROVE  Balanced(ev, KernelsOf(InPool))'
<1> DEFINE S == Conflicts(t.id)
           P == KernelsOf(InPool \ S)
           implied == IF t.id \in InPool \ S THEN {t.id} ELSE {}
           k == KernelOf(t)
           e1 == Removed(ev, KernelsOf(S))
<1>1. S \in SUBSET InPool /\ t.id \in TxId
  BY TxFields, Zenon DEF Conflicts
<1>2. /\ InPool' = (InPool \ S) \cup {t.id} /\ pool'[t.id] = t
      /\ \A i \in InPool \ S : i # t.id => pool'[i] = pool[i]
  BY <1>1, TxFields, Zenon DEF Enter, Without, InPool, TypePool
<1>3. KernelsOf(InPool)' = KernelsOf((InPool \ S) \ implied) \cup {k}
  BY <1>1, <1>2, Zenon DEF KernelsOf, KernelOf
<1>4. Balanced(e1, P) /\ e1 \in [added : SUBSET (TxId \X Block), removed : SUBSET (TxId \X Block)]
  <2>1. Balanced(e1, P)
    BY <1>1, KernelsWithout, RemovedBalances DEF Contents
  <2>2. KernelsOf(S) \in SUBSET (TxId \X Block) /\ k \in TxId \X Block
    BY <1>1, KernelsType, TxFields, Zenon
  <2>3. e1 \in [added : SUBSET (TxId \X Block), removed : SUBSET (TxId \X Block)]
    BY <2>2, EventTypes, Zenon DEF TypePool
  <2> QED BY <2>1, <2>3, Zenon
<1>5. ev' = Removed(Added(e1, k), KernelsOf(implied))
  BY Zenon DEF Enter
<1>6. k[1] = t.id /\ \A i \in InPool : KernelOf(pool[i])[1] = i
  BY <1>1, KernelsWithout, Zenon DEF Contents, KernelOf
<1>7. CASE t.id \notin InPool \ S
  <2>1. k \notin P
    BY <1>6, <1>7, Zenon DEF KernelsOf
  <2>2. implied = {} /\ KernelsOf(implied) = {}
    BY <1>7, Zenon DEF KernelsOf
  <2>3. Balanced(Added(e1, k), P \cup {k})
    BY <1>4, <2>1, AddedBalances, Zenon
  <2>4. KernelsOf(InPool)' = P \cup {k}
    BY <1>3, <2>2, Zenon
  <2>5. Balanced(ev', P \cup {k})
    <3> HIDE DEF P, k, e1
    <3>1. Removed(Added(e1, k), {}).added = Added(e1, k).added
          /\ Removed(Added(e1, k), {}).removed = Added(e1, k).removed
      BY Zenon DEF Removed
    <3> QED BY <1>5, <2>2, <2>3, <3>1, Zenon DEF Balanced
  <2> HIDE DEF P, k
  <2> QED BY <2>4, <2>5, Zenon DEF Balanced
<1>8. CASE t.id \in InPool \ S
  <2>1. InputsOf(t.id) = {} /\ ev = NoEvents /\ S = {}
    BY <1>8, Zenon DEF Conflicts, Clash
  <2> DEFINE o == KernelOf(pool[t.id])
             Q == KernelsOf(InPool)
  <2>2. /\ KernelsOf(S) = {} /\ KernelsOf(implied) = {o} /\ o \in Q
        /\ KernelsOf(InPool \ implied) = Q \ {o}
    <3>1. KernelsOf(S) = {} /\ KernelsOf(implied) = {o} /\ o \in Q
      BY <1>8, <2>1, Zenon DEF KernelsOf
    <3>2. implied \in SUBSET InPool
      BY <1>8, Zenon
    <3> QED BY <3>1, <3>2, KernelsWithout, Zenon DEF Contents
  <2>3. k \in Q => k = o
    BY <1>6, Zenon DEF KernelsOf
  <2>4. seen = Q
    BY <2>1, Zenon DEF Balanced, NoEvents
  <2>5. KernelsOf(InPool)' = (Q \ {o}) \cup {k}
    BY <1>3, <2>1, <2>2, Zenon
  <2> HIDE DEF k, o, Q
  <2>6. ev' = [added |-> {k} \ {o}, removed |-> {o} \ {k}]
    <3>1. e1 = [added |-> {}, removed |-> {}]
      BY <2>1, <2>2, Zenon DEF NoEvents, Removed
    <3> HIDE DEF e1
    <3>2. Added(e1, k) = [added |-> {k}, removed |-> {}]
      BY <3>1, Zenon DEF Added
    <3> QED BY <1>5, <2>2, <3>2 DEF Removed
  <2>7. Balanced(ev', (Q \ {o}) \cup {k})
    BY <2>2, <2>3, <2>4, <2>6 DEF Balanced
  <2> QED BY <2>5, <2>7, Zenon DEF Balanced
<1> QED BY <1>7, <1>8, Zenon

-----------------------------------------------------------------------------
(* What holds of the cache and of the restored elements stays true.           *)
LEMMA CacheSoundStep ==
  ASSUME IInv, CacheSound, [Next]_vars
  PROVE  CacheSound'
<1>0. TypePool /\ Contents
  BY Zenon DEF IInv, TypeOK, TypePool
<1>1. /\ cache \in Seq(Tx) /\ todo \in Seq(Tx)
      /\ \A i : InputsOf(i)' = InputsOf(i)
  BY Zenon DEF IInv, TypeOK, InputsOf
<1>2. CASE UNCHANGED <<cache, todo>>
  BY <1>2, Zenon DEF CacheSound, CacheIsASet, Cached, Todo, InputsOf
<1>3. CASE cache' = <<>> /\ todo' \in {todo, cache, <<>>}
  <2>1. CacheIsASet' /\ Cached' = {}
    BY <1>3 DEF CacheIsASet, Cached
  <2>2. Todo' \subseteq Todo \cup Cached
    BY <1>3 DEF Todo, Cached
  <2> QED
    BY <1>1, <2>1, <2>2, Zenon DEF CacheSound
<1>4. CASE ShrinkRound /\ DominatedByCache
  <2>1. cache # <<>>
    <3>1. InPool \subseteq TxId
      BY Zenon DEF InPool
    <3>2. Cardinality(InPool) \in Nat
      BY <3>1, MempoolAssumption, FS_Subset, FS_CardinalityType, Zenon
    <3> QED
      BY <1>1, <1>4, <3>2 DEF DominatedByCache, Size
  <2>2. cache' = Tail(cache) /\ todo' = todo
    BY <1>4, Zenon DEF ShrinkRound
  <2>3. /\ Len(cache) \in Nat /\ Len(cache') = Len(cache) - 1
        /\ \A n \in 1..Len(cache') : n + 1 \in 1..Len(cache) /\ cache'[n] = cache[n + 1]
    BY <1>1, <2>1, <2>2
  <2>4. CacheIsASet'
    <3> SUFFICES ASSUME NEW m \in 1..Len(cache'), NEW n \in 1..Len(cache')
                 PROVE  /\ cache'[n].proof = "single"
                        /\ cache'[m].id = cache'[n].id => m = n
      BY Zenon DEF CacheIsASet
    <3>1. cache[n + 1].proof = "single" /\ (cache[m + 1].id = cache[n + 1].id => m + 1 = n + 1)
      BY <2>3, Zenon DEF CacheSound, CacheIsASet
    <3> QED BY <2>3, <3>1
  <2>5. Cached' \subseteq Cached /\ Todo' = Todo
    BY <2>2, <2>3 DEF Cached, Todo
  <2> QED
    BY <1>1, <2>4, <2>5, Zenon DEF CacheSound
<1>5. ASSUME NEW t \in Tx, Enter(t, Conflicts(t.id)), Todo' \subseteq Todo
      PROVE  CacheSound'
  <2> DEFINE M == MergeInputs(t, Conflicts(t.id))
  <2>1. PICK f \in Orders(M \ Cached) : cache' = CacheWith(M, f)
    BY <1>5, Zenon DEF Enter
  <2>2. /\ M \in SUBSET InPool
        /\ \A i \in M : pool[i].proof = "single" /\ InputsOf(i) # {}
    BY Zenon DEF MergeInputs, Conflicts, Clash
  <2> HIDE DEF M
  <2>3. CacheIsASet' /\ Cached' \subseteq Cached \cup M
    BY <1>0, <2>1, <2>2, CacheWithIsASet, Zenon DEF Contents, CacheSound
  <2> QED
    BY <1>1, <1>5, <2>2, <2>3, Zenon DEF CacheSound
<1>6. CASE \E m \in mail : MainGetsPeerTx(m) \/ MainGetsRpcTx(m)
  <2>1. PICK m \in mail : MainGetsPeerTx(m) \/ MainGetsRpcTx(m)
    BY <1>6, Zenon
  <2>2. m.tx \in Tx /\ todo' = todo /\ Todo' = Todo
    BY <2>1 DEF IInv, TypeOK, Msg, MainGetsPeerTx, MainGetsRpcTx, Todo
  <2>3. cache' = cache \/ Enter(m.tx, Conflicts(m.tx.id))
    BY <2>1, Zenon DEF MainGetsPeerTx, MainGetsRpcTx, Insert, contents
  <2> QED
    BY <1>2, <1>5, <2>2, <2>3, Zenon
<1>7. CASE Restore
  <2>1. /\ todo # <<>> /\ todo' = Tail(todo)
        /\ Head(todo) \in Tx /\ Len(todo') = Len(todo) - 1 /\ Len(todo) \in Nat
        /\ \A n \in 1..Len(todo') : n + 1 \in 1..Len(todo) /\ todo'[n] = todo[n + 1]
    BY <1>1, <1>7 DEF Restore, IInv, Progress
  <2>2. Todo' \subseteq Todo
    BY <2>1, Zenon DEF Todo
  <2>3. cache' = cache \/ Enter(Head(todo), Conflicts(Head(todo).id))
    BY <1>7, Zenon DEF Restore, Insert, contents
  <2>4. CASE cache' = cache
    <3>1. Cached' = Cached /\ CacheIsASet'
      BY <2>4 DEF Cached, CacheIsASet, CacheSound
    <3> QED BY <1>1, <2>2, <3>1, Zenon DEF CacheSound
  <2> QED
    BY <1>5, <2>1, <2>2, <2>3, <2>4, Zenon
<1>8. CASE \E b \in Block : NewTip(b)
  <2>1. UNCHANGED <<cache, todo>> \/ (cache' = <<>> /\ todo' \in {todo, cache, <<>>})
    BY <1>8, Zenon DEF NewTip, contents
  <2> QED BY <1>2, <1>3, <2>1, Zenon
<1>9. CASE \/ (ShrinkRound /\ ~DominatedByCache) \/ InsertDone \/ RestoreNext \/ UpdateDone
           \/ PruneStale \/ PeerReadsTip \/ (\E t \in Tx : PeerSends(t) \/ RpcSends(t))
           \/ UNCHANGED vars
  <2>1. UNCHANGED <<cache, todo>>
    BY <1>9, Zenon DEF ShrinkRound, InsertDone, RestoreNext, UpdateDone, PruneStale, PeerReadsTip,
                PeerSends, RpcSends, contents, vars
  <2> QED BY <1>2, <2>1, Zenon
<1>10. CASE ClearMempool
  BY <1>3, <1>10, Zenon DEF ClearMempool
<1> QED
  BY <1>4, <1>6, <1>7, <1>8, <1>9, <1>10, Zenon DEF Next

(* The balance is kept by every step.  An insert from outside finds no events *)
(* pending, a restored merge input has inputs.                                *)
LEMMA EventsBalanceStep ==
  ASSUME IInv, CacheSound, EventsBalance, [Next]_vars
  PROVE  EventsBalance'
<1>0. TypePool /\ Contents /\ Balanced(ev, KernelsOf(InPool))
  BY Zenon DEF IInv, TypeOK, TypePool, EventsBalance
<1>1. CASE UNCHANGED <<pool, ev, seen>> /\ (pc' = "idle" => pc = "idle")
  <2>1. KernelsOf(InPool)' = KernelsOf(InPool)
    BY <1>1, Zenon DEF KernelsOf, KernelOf, InPool
  <2> QED
    BY <1>1, <2>1, Zenon DEF EventsBalance, Balanced
<1>2. ASSUME NEW t \in Tx, NEW shrinking, NEW done, Insert(t, shrinking, done),
             InputsOf(t.id) # {} \/ ev = NoEvents, seen' = seen,
             shrinking # "idle", done = "idle" => pc = "idle"
      PROVE  EventsBalance'
  <2>1. CASE UNCHANGED contents /\ pc' = done
    BY <1>1, <1>2, <2>1, Zenon DEF contents
  <2>2. CASE Enter(t, Conflicts(t.id)) /\ pc' = shrinking
    <3>1. Balanced(ev, KernelsOf(InPool))'
      BY <1>0, <1>2, <2>2, EnterBalances, Zenon
    <3> QED BY <1>2, <2>2, <3>1, Zenon DEF EventsBalance
  <2> QED BY <1>2, <2>1, <2>2, Zenon DEF Insert
<1>3. ASSUME NEW S \in SUBSET InPool, Drop(S), seen' = seen, pc' # "idle"
      PROVE  EventsBalance'
  <2>1. Balanced(ev, KernelsOf(InPool))'
    BY <1>0, <1>3, DropBalances, Zenon DEF Drop
  <2> QED BY <1>3, <2>1, Zenon DEF EventsBalance
<1>4. CASE PruneStale \/ ClearMempool
  <2>1. PICK S \in SUBSET InPool : /\ pool' = Without(S)
                                   /\ seen' = Hear(Removed(NoEvents, KernelsOf(S)))
    <3>1. CASE PruneStale
      <4> DEFINE S == {i \in InPool : Kernel[i].time <= cutoff'}
      <4>1. S \in SUBSET InPool
        BY Zenon
      <4> QED BY <3>1, <4>1, Zenon DEF PruneStale
    <3>2. CASE ClearMempool
      BY <3>2, Zenon DEF ClearMempool
    <3> QED BY <1>4, <3>1, <3>2, Zenon
  <2>2. pc = "idle" /\ ev' = ev /\ ev = NoEvents
    BY <1>4, Zenon DEF PruneStale, ClearMempool, EventsBalance
  <2>3. seen = KernelsOf(InPool) /\ seen' = seen \ KernelsOf(S)
    BY <1>0, <2>1, <2>2, Zenon DEF Balanced, NoEvents, Hear, Removed
  <2>4. InPool' = InPool \ S /\ \A i \in InPool' : pool'[i] = pool[i]
    BY <1>0, <2>1, Zenon DEF Without, InPool, TypePool
  <2>5. KernelsOf(InPool)' = KernelsOf(InPool \ S)
    BY <2>4, Zenon DEF KernelsOf, KernelOf
  <2>6. KernelsOf(InPool \ S) = KernelsOf(InPool) \ KernelsOf(S)
    BY <1>0, KernelsWithout, Zenon DEF Contents
  <2>7. seen' = KernelsOf(InPool)' /\ ev' = NoEvents
    BY <2>2, <2>3, <2>5, <2>6, Zenon
  <2> QED
    BY <2>7, Zenon DEF EventsBalance, Balanced, NoEvents
<1>5. CASE ShrinkRound
  <2>1. pc' = pc /\ pc # "idle" /\ seen' = seen
    BY <1>5, Zenon DEF ShrinkRound
  <2>2. CASE UNCHANGED <<pool, queue, ev>>
    BY <1>1, <2>1, <2>2, Zenon
  <2>3. CASE PopMin
    <3>1. PICK i \in TxId : queue[i] # NoDensity /\ Drop({i})
      BY <2>3, Zenon DEF PopMin
    <3>2. {i} \in SUBSET InPool
      BY <1>0, <3>1, Zenon DEF Contents, QueueAgrees
    <3> QED BY <1>3, <2>1, <3>1, <3>2, Zenon
  <2> QED BY <1>5, <2>2, <2>3, Zenon DEF ShrinkRound
<1>6. CASE InsertDone \/ UpdateDone
  <2>1. pool' = pool /\ ev' = NoEvents /\ seen' = Hear(ev)
    BY <1>6, Zenon DEF InsertDone, UpdateDone
  <2>2. KernelsOf(InPool)' = KernelsOf(InPool)
    BY <2>1, Zenon DEF KernelsOf, KernelOf, InPool
  <2>3. seen' = KernelsOf(InPool)
    BY <1>0, <2>1, Zenon DEF Balanced, Hear
  <2> QED
    BY <2>1, <2>2, <2>3, Zenon DEF EventsBalance, Balanced, NoEvents
<1>7. CASE Restore
  <2>1. todo \in Seq(Tx) /\ todo # <<>> /\ Head(todo) \in Tx /\ Head(todo).id \in Todo
    BY <1>7 DEF Restore, IInv, TypeOK, Progress, Todo
  <2>2. InputsOf(Head(todo).id) # {} /\ seen' = seen
    BY <1>7, <2>1, Zenon DEF CacheSound, Restore
  <2> DEFINE done == IF Len(todo) = 1 THEN "reshrink" ELSE "restore"
  <2>3. Insert(Head(todo), "reshrink", done) \/ (UNCHANGED contents /\ pc' = done)
    BY <1>7, Zenon DEF Restore
  <2>4. done # "idle"
    BY Zenon
  <2> HIDE DEF done
  <2>5. CASE UNCHANGED contents /\ pc' = done
    BY <1>1, <2>2, <2>4, <2>5, Zenon DEF contents
  <2>6. CASE Insert(Head(todo), "reshrink", done)
    BY <1>2, <2>1, <2>2, <2>4, <2>6, Zenon
  <2> QED BY <2>3, <2>5, <2>6, Zenon
<1>8. ASSUME NEW m \in mail, MainGetsPeerTx(m) \/ MainGetsRpcTx(m)
      PROVE  EventsBalance'
  <2>1. m.tx \in Tx /\ pc = "idle" /\ ev = NoEvents /\ seen' = seen
    BY <1>8, Zenon DEF IInv, TypeOK, Msg, MainGetsPeerTx, MainGetsRpcTx, EventsBalance
  <2>2. CASE UNCHANGED <<contents, pc>>
    BY <1>1, <2>1, <2>2, Zenon DEF contents
  <2>3. CASE Insert(m.tx, "shrink", "idle")
    BY <1>2, <2>1, <2>3, Zenon
  <2> QED BY <1>8, <2>2, <2>3, Zenon DEF MainGetsPeerTx, MainGetsRpcTx
<1>9. ASSUME NEW b \in Block, NewTip(b)
      PROVE  EventsBalance'
  <2>1. seen' = seen /\ pc = "idle"
    BY <1>9, Zenon DEF NewTip
  <2>2. CASE InPool = {} /\ cache = <<>>
    BY <1>1, <1>9, <2>1, <2>2, Zenon DEF NewTip, contents
  <2>3. CASE ~(InPool = {} /\ cache = <<>>)
    <3> DEFINE S == {i \in InPool : (b = Genesis \/ label # Parent(b)) \/ ~StillValid(i, b)}
    <3>1. S \in SUBSET InPool /\ Drop(S) /\ pc' # "idle"
      BY <1>9, <2>3, Zenon DEF NewTip
    <3> QED BY <1>3, <2>1, <3>1, Zenon
  <2> QED BY <2>2, <2>3, Zenon
<1>10. CASE \/ RestoreNext \/ PeerReadsTip \/ (\E t \in Tx : PeerSends(t) \/ RpcSends(t))
            \/ UNCHANGED vars
  BY <1>1, <1>10, Zenon DEF RestoreNext, PeerReadsTip, PeerSends, RpcSends, contents, vars
<1> QED
  BY <1>4, <1>5, <1>6, <1>7, <1>8, <1>9, <1>10, Zenon DEF Next

(* Between operations the mempool is within its size.                         *)
LEMMA SizeStep ==
  ASSUME IInv, pc = "idle" => Size <= MaxSize, [Next]_vars, pc' = "idle"
  PROVE  Size' <= MaxSize
<1>1. CASE UNCHANGED <<pool, cache>> /\ Size <= MaxSize
  BY <1>1, Zenon DEF Size, InPool
<1>2. CASE PruneStale \/ ClearMempool
  <2>1. pc = "idle" /\ Size <= MaxSize
    BY <1>2, Zenon DEF PruneStale, ClearMempool
  <2>2. InPool' \subseteq InPool /\ InPool \subseteq TxId
    BY <1>2, Zenon DEF PruneStale, ClearMempool, Without, InPool
  <2>3. IsFiniteSet(InPool)
    BY <2>2, MempoolAssumption, FS_Subset, Zenon
  <2>4. Cardinality(InPool)' \in Nat /\ Cardinality(InPool) \in Nat
        /\ Cardinality(InPool') <= Cardinality(InPool)
    BY <2>2, <2>3, FS_Subset, FS_CardinalityType, Zenon
  <2>5. cache \in Seq(Tx) /\ cache' \in {cache, <<>>}
    BY <1>2, Zenon DEF IInv, TypeOK, PruneStale, ClearMempool
  <2>6. Len(cache) \in Nat /\ Len(cache') \in Nat /\ Len(cache') <= Len(cache)
    BY <2>5
  <2>7. MaxSize \in Nat
    BY MempoolAssumption, Zenon
  <2> QED
    BY <2>1, <2>4, <2>6, <2>7 DEF Size
<1>3. CASE InsertDone \/ UpdateDone
  BY <1>1, <1>3, Zenon DEF InsertDone, UpdateDone
<1>4. CASE PeerReadsTip \/ (\E t \in Tx : PeerSends(t) \/ RpcSends(t)) \/ UNCHANGED vars
  BY <1>1, <1>4, Zenon DEF PeerReadsTip, PeerSends, RpcSends, contents, vars
<1>5. CASE \E m \in mail : MainGetsPeerTx(m) \/ MainGetsRpcTx(m)
  BY <1>1, <1>5, Zenon DEF MainGetsPeerTx, MainGetsRpcTx, Insert, contents
<1>6. CASE \E b \in Block : NewTip(b)
  <2>1. pc = "idle" /\ UNCHANGED <<pool, cache>>
    BY <1>6, Zenon DEF NewTip, contents
  <2> QED BY <1>1, <2>1, Zenon
<1>7. ~ShrinkRound /\ ~Restore /\ ~RestoreNext
  BY Zenon DEF ShrinkRound, Restore, RestoreNext, Insert
<1> QED
  BY <1>2, <1>3, <1>4, <1>5, <1>6, <1>7, Zenon DEF Next

-----------------------------------------------------------------------------
(* Merge inputs.  While a block is being applied, what the cache handed back  *)
(* is mineable, and unless something was dropped or replaced it is still to   *)
(* be inserted, in the mempool, or in conflict with a transaction there.      *)

Present(i) == i \in InPool \/ \E j \in InPool : Clash(i, j)

Owing ==
  pc \in {"restore", "reshrink"} =>
    /\ \A i \in owed : StillValid(i, tip)
    /\ ~upset => \A i \in owed : i \in Todo \/ Present(i)

(* Restoring an element takes it off the list only as it inserts it or meets  *)
(* a conflict; a step that drops or replaces something is noted in upset.     *)
LEMMA OwingStep ==
  ASSUME IInv, Owing, [Next]_vars
  PROVE  Owing'
<1> SUFFICES ASSUME pc' \in {"restore", "reshrink"} PROVE Owing'
  BY Zenon DEF Owing
<1>1. CASE UNCHANGED <<tip, pool, todo, owed, upset>> /\ pc \in {"restore", "reshrink"}
  <2>1. /\ Todo' = Todo /\ \A i : Present(i)' <=> Present(i)
        /\ \A i : StillValid(i, tip)' <=> StillValid(i, tip)
    BY <1>1, Zenon DEF Todo, Present, InPool, Clash, InputsOf, StillValid
  <2> QED
    BY <1>1, <2>1, Zenon DEF Owing
<1>2. CASE ShrinkRound
  <2>1. pc = "reshrink" /\ upset' /\ UNCHANGED <<tip, owed>>
    BY <1>2, Zenon DEF ShrinkRound, outside
  <2> QED
    BY <2>1, Zenon DEF Owing, StillValid, InputsOf
<1>3. ASSUME NEW b \in Block, NewTip(b)
      PROVE  Owing'
  <2>1. pc = "idle" /\ tip' = b
    BY <1>3, Zenon DEF NewTip
  <2>2. /\ ~(InPool = {} /\ cache = <<>>)
        /\ \/ owed' = {}
           \/ owed' = {i \in Cached : StillValid(i, b)} /\ todo' = cache
    BY <1>3, <2>1, Zenon DEF NewTip, contents
  <2>3. todo' = cache => Todo' = Cached
    BY Zenon DEF Todo, Cached
  <2>4. \A i : StillValid(i, tip)' <=> StillValid(i, b)
    BY <2>1, Zenon DEF StillValid, InputsOf
  <2> QED
    BY <2>2, <2>3, <2>4, Zenon DEF Owing
<1>4. CASE Restore
  <2> DEFINE t == Head(todo)
             done == IF Len(todo) = 1 THEN "reshrink" ELSE "restore"
  <2>1. todo \in Seq(Tx) /\ todo # <<>> /\ t \in Tx /\ Len(todo) \in Nat \ {0} /\ t = todo[1]
    BY <1>4 DEF Restore, IInv, TypeOK, Progress
  <2>2. /\ todo' = Tail(todo) /\ UNCHANGED <<tip, owed>> /\ pc = "restore"
        /\ upset' = (upset \/ \E i \in InPool : pool'[i] # pool[i])
        /\ \/ StillValid(t.id, tip) /\ Insert(t, "reshrink", done)
           \/ ~StillValid(t.id, tip) /\ UNCHANGED contents
    BY <1>4, Zenon DEF Restore, outside
  <2>3. Todo \subseteq Todo' \cup {t.id}
    <3>1. \A n \in 2..Len(todo) : n - 1 \in 1..Len(todo') /\ todo'[n - 1] = todo[n]
      BY <2>1, <2>2
    <3>2. \A n \in 1..Len(todo) : n = 1 \/ n \in 2..Len(todo)
      BY <2>1
    <3> QED BY <2>1, <3>1, <3>2 DEF Todo
  <2>4. \A i \in owed : StillValid(i, tip) /\ (~upset => i \in Todo \/ Present(i))
    BY <2>2, Zenon DEF Owing
  <2>5. \A i : StillValid(i, tip)' <=> StillValid(i, tip)
    BY <2>2, Zenon DEF StillValid, InputsOf
  <2> SUFFICES ASSUME ~upset', NEW i \in owed, i \notin Todo'
               PROVE  Present(i)'
    BY <2>2, <2>4, <2>5, Zenon DEF Owing
  <2>6. ~upset /\ InPool \subseteq InPool'
    BY <2>2, Zenon DEF InPool, IInv, TypeOK
  <2>7. CASE Present(i)
    BY <2>6, <2>7, Zenon DEF Present, Clash, InputsOf
  <2>8. CASE i = t.id
    <3>1. Insert(t, "reshrink", done)
      BY <2>2, <2>4, <2>8, Zenon
    <3> HIDE DEF t, done
    <3>2. CASE t.id \in Conflicts(t.id)
      BY <2>6, <2>8, <3>2, Zenon DEF Conflicts, Present
    <3>3. CASE ~Replaces(t, Conflicts(t.id))
      <4>1. PICK j \in InPool : Clash(t.id, j)
        BY <3>3, Zenon DEF Replaces, Conflicts
      <4> QED BY <2>6, <2>8, <4>1, Zenon DEF Present, Clash, InputsOf
    <3>4. CASE Enter(t, Conflicts(t.id))
      <4>1. t.id \in InPool'
        BY <2>1, <3>4, TxFields, Zenon DEF Enter, Without, InPool
      <4> QED BY <2>8, <4>1, Zenon DEF Present
    <3> QED BY <3>1, <3>2, <3>3, <3>4, Zenon DEF Insert
  <2> QED BY <2>3, <2>4, <2>6, <2>7, <2>8, Zenon
<1>5. CASE RestoreNext \/ UNCHANGED vars
  BY <1>1, <1>5, Zenon DEF RestoreNext, outside, contents, history, vars
<1>6. /\ ~InsertDone /\ ~UpdateDone /\ ~PruneStale /\ ~ClearMempool /\ ~PeerReadsTip
      /\ ~\E t \in Tx : PeerSends(t) \/ RpcSends(t)
      /\ ~\E m \in mail : MainGetsPeerTx(m) \/ MainGetsRpcTx(m)
  BY Zenon DEF InsertDone, UpdateDone, PruneStale, ClearMempool, PeerReadsTip, PeerSends, RpcSends,
         MainGetsPeerTx, MainGetsRpcTx, Insert
<1> QED
  BY <1>2, <1>3, <1>4, <1>5, <1>6, Zenon DEF Next

-----------------------------------------------------------------------------
(* The theorems.                                                              *)

(* The mempool's variables keep their types through every insert, block       *)
(* update, pruning and shrinking.                                             *)
THEOREM MempoolTypeCorrect == Spec => []TypeOK
<1>1. IInv => TypeOK
  BY Zenon DEF IInv
<1> QED BY <1>1, AlwaysInv, PTL

(* insert, update_with_block and shrink_to_max_size never let two             *)
(* transactions that spend the same input into the mempool together.          *)
THEOREM MempoolConflictFree == Spec => []NoConflicts
<1>1. IInv => NoConflicts
  BY Zenon DEF IInv, Contents
<1> QED BY <1>1, AlwaysInv, PTL

(* tx_dictionary and fee_densities agree on every transaction and its rank,   *)
(* in the middle of an operation too.                                         *)
THEOREM DictionaryAndQueueAgree == Spec => []QueueAgrees
<1>1. IInv => QueueAgrees
  BY Zenon DEF IInv, Contents
<1> QED BY <1>1, AlwaysInv, PTL

(* Through any sequence of blocks and reorganizations, the only way for a     *)
(* spent input into the mempool is the unchecked insert of BroadcastTx.       *)
THEOREM OnlyLateTransactionsAreSpent == Spec => []SpentOnlyIfLate
<1>1. IInv => SpentOnlyIfLate
  BY Zenon DEF IInv, Unspent, Fresh, SpentOnlyIfLate
<1> QED BY <1>1, AlwaysInv, PTL

(* Whatever inserts, replacements, merges, blocks and reorganizations there   *)
(* were, the three tables of the mempool agree: conflict-free transactions,   *)
(* ranked in fee_densities, a cache with one entry for each merge input; and  *)
(* between operations they are synced to the tip and within the maximal size. *)
THEOREM MempoolTablesAgree == Spec => []TablesAgree
<1> DEFINE J == CacheSound /\ (pc = "idle" => Size <= MaxSize)
<1>1. Init => J
  <2> SUFFICES ASSUME Init PROVE J
    BY Zenon
  <2>1. InPool = {} /\ Len(cache) = 0
    BY Zenon DEF Init, InPool
  <2>2. Size <= MaxSize
    BY <2>1, FS_EmptySet, MempoolAssumption DEF Size
  <2>3. CacheSound
    BY <2>1 DEF Init, CacheSound, CacheIsASet, Cached, Todo
  <2> QED BY <2>2, <2>3, Zenon
<1>2. IInv /\ J /\ [Next]_vars => J'
  BY CacheSoundStep, SizeStep, Zenon
<1>3. IInv /\ J => TablesAgree
  BY Zenon DEF IInv, Contents, Progress, CacheSound, TablesAgree, Settled
<1> HIDE DEF J
<1> QED
  BY <1>1, <1>2, <1>3, AlwaysInv, PTL DEF Spec

(* A listener that applies the events of each operation knows exactly the     *)
(* kernels in the mempool: the normalization of events loses and invents      *)
(* nothing, however many replacements one operation makes.                    *)
THEOREM ListenersKnowTheMempool == Spec => []EventsExact
<1> DEFINE J == CacheSound /\ EventsBalance
<1>1. Init => J
  <2> SUFFICES ASSUME Init PROVE J
    BY Zenon
  <2>1. InPool = {} /\ Len(cache) = 0 /\ Len(todo) = 0
    BY Zenon DEF Init, InPool
  <2>2. CacheSound
    BY <2>1 DEF CacheSound, CacheIsASet, Cached, Todo
  <2>3. EventsBalance
    BY <2>1, Zenon DEF Init, EventsBalance, Balanced, KernelsOf, NoEvents
  <2> QED BY <2>2, <2>3, Zenon
<1>2. IInv /\ J /\ [Next]_vars => J'
  BY CacheSoundStep, EventsBalanceStep, Zenon
<1>3. J => EventsExact
  BY DEF EventsBalance, Balanced, NoEvents, EventsExact
<1> HIDE DEF J
<1> QED
  BY <1>1, <1>2, <1>3, AlwaysInv, PTL DEF Spec

(* update_with_block forgets no merge input that the block leaves mineable,   *)
(* unless the size or a replacement forced something out on the way.          *)
THEOREM MergeInputsAreRestored == Spec => MergeInputsReturn
<1> DEFINE A == (pc = "reshrink" /\ pc' = "idle" /\ ~upset) =>
                  \A i \in owed : i \in InPool \/ \E j \in InPool : Clash(i, j)
<1>1. Init => Owing
  BY Zenon DEF Init, Owing
<1>2. IInv /\ Owing /\ [Next]_vars => Owing'
  BY OwingStep, Zenon
<1>3. IInv /\ Owing /\ [Next]_vars => [A]_vars
  <2> SUFFICES ASSUME IInv, Owing, Next, pc = "reshrink", pc' = "idle", ~upset, NEW i \in owed
               PROVE  i \in InPool \/ \E j \in InPool : Clash(i, j)
    BY Zenon
  <2>1. todo = <<>>
    BY Zenon DEF Next, ShrinkRound, InsertDone, NewTip, Restore, RestoreNext, UpdateDone, PruneStale,
           ClearMempool, PeerReadsTip, PeerSends, RpcSends, MainGetsPeerTx, MainGetsRpcTx
  <2>2. i \notin Todo
    BY <2>1 DEF Todo
  <2> QED
    BY <2>2, Zenon DEF Owing, Present
<1> HIDE DEF A
<1>4. Spec => [][A]_vars
  BY <1>1, <1>2, <1>3, AlwaysInv, PTL DEF Spec
<1> QED
  BY <1>4, Zenon DEF A, MergeInputsReturn
==============================================================================
