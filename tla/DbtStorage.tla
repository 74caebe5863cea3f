----------------------------- MODULE DbtStorage -----------------------------
(***************************************************************************)
(* The LevelDB-backed tables of database/src/storage/storage_schema:        *)
(* vectors (DbtVec), a singleton (DbtSingleton) and a map (DbtMap) that     *)
(* keep recent values in caches of their own, put every change on one       *)
(* shared queue of pending writes, and notice by a counter that a persist   *)
(* has emptied the queue.  The owner of the tables holds them and the       *)
(* storage exclusively (&mut), so no table changes while a batch is being   *)
(* written; the process can stop between any two steps.                     *)
(*                                                                          *)
(* A database key is <<table, index>>; index Meta is the vector's length    *)
(* key, or the singleton's only key.                                        *)
(***************************************************************************)
EXTENDS Integers, Sequences, FiniteSets

CONSTANTS Vecs,       \* the vectors the schema made with new_vec
          Val,        \* values of vectors (numbers)
          MapVal,     \* values of the map
          SingleVal,  \* values of the singleton
          MapKey,     \* keys of the map (numbers)
          Default,    \* V::default() of the singleton
          Absent,     \* not in the database, not in a cache
          Gone,       \* a None in the map's cache: deleted
          Unset,      \* a vector's current_length before restore_or_new
          MaxLen, MaxQueue, MaxCount

SeqD == INSTANCE SequencesExt

(* The map's list of keys is a DbtVec of its own.                           *)
KeyList == "keys_by_index"
Single == "singleton"
Map == "map"
Tables == Vecs \cup {KeyList}
Meta == -1
DbKey == Tables \X (Meta .. MaxLen - 1) \cup {<<Single, Meta>>} \cup {Map} \X MapKey

VARIABLES
    db,       \* what LevelDB holds, and keeps over a crash
    queue,    \* PendingWrites.write_ops
    count,    \* PendingWrites.persist_count
    tab,      \* each vector's current_length, cache and persist_count
    single,   \* the singleton's current_value
    mcache,   \* the map's cache: Absent, or Gone for a deleted key, or a value
    mseen,    \* the map's persist_count
    batch,    \* the operations drained from the queue by a persist
    writing,  \* a persist has drained the queue and not yet written the batch
    scratch,  \* the archival state has rolled its tables back temporarily
    panicked

dvars == <<db, queue, count, tab, single, mcache, mseen, batch, writing, scratch, panicked>>

Op(k, x) == [key |-> k, val |-> x]
NoCache == [i \in 0 .. MaxLen - 1 |-> Absent]
ApplyOps(d, ops) == SeqD!FoldLeft(LAMBDA acc, o : [acc EXCEPT ![o.key] = o.val], d, ops)

(* persisted_length, len and get of a DbtVec.                               *)
VecLen(t) ==
    IF tab[t].len # Unset THEN tab[t].len
    ELSE IF db[<<t, Meta>>] = Absent THEN 0 ELSE db[<<t, Meta>>]

VecGet(t, i) == IF tab[t].cache[i] # Absent THEN tab[t].cache[i] ELSE db[<<t, i>>]

(* get_many and get_all: cached elements as they are, the others from the   *)
(* database in one read, all in the order of the requested indices.         *)
GetMany(t, indices) == [j \in DOMAIN indices |-> VecGet(t, indices[j])]
GetAll(t) == GetMany(t, [i \in 1 .. VecLen(t) |-> i - 1])

(* A persist since the last write means that the cached values are on disk. *)
FreshCache(seen, cache, empty) == IF count > seen THEN empty ELSE cache

AfterWrite(t, newCache, newLen) ==
    tab' = [tab EXCEPT ![t] = [len |-> newLen, cache |-> newCache, seen |-> count]]

(* MUTANT: the new value enters the cache before the stale cache is cleared *)
PushedCacheLate(t, i, x) ==
    FreshCache(tab[t].seen, [tab[t].cache EXCEPT ![i] = x], NoCache)

(* process_persist_count, then the value enters the cache.                  *)
PushedCache(t, i, x) == [FreshCache(tab[t].seen, tab[t].cache, NoCache) EXCEPT ![i] = x]

PushOps(t, x) ==
    <<Op(<<t, VecLen(t)>>, x), Op(<<t, Meta>>, VecLen(t) + 1)>>

PopOps(t, n) == <<Op(<<t, n>>, Absent), Op(<<t, Meta>>, n)>>

(* The owner holds the tables: nothing is being persisted.                  *)
Free == ~writing /\ ~panicked

Push(t, x) ==
    /\ VecLen(t) < MaxLen
    /\ queue' = queue \o PushOps(t, x)
    /\ AfterWrite(t, PushedCache(t, VecLen(t), x), VecLen(t) + 1)

Pop(t) ==
    /\ VecLen(t) > 0 /\ tab[t].len # Unset
    /\ queue' = queue \o PopOps(t, tab[t].len - 1)
    /\ AfterWrite(t, [FreshCache(tab[t].seen, tab[t].cache, NoCache)
                        EXCEPT ![tab[t].len - 1] = Absent], tab[t].len - 1)

(* set is the case of one index.  Elements are overwritten one by one, in   *)
(* ascending order here: the indices are distinct, so the order is of no    *)
(* account.                                                                 *)
SetMany(t, f) ==
    /\ DOMAIN f # {}
    /\ \A i \in DOMAIN f : i < VecLen(t)
    /\ queue' = queue \o LET is == SeqD!SetToSortSeq(DOMAIN f, <)
                         IN [j \in 1 .. Len(is) |-> Op(<<t, is[j]>>, f[is[j]])]
    /\ AfterWrite(t, LET c == FreshCache(tab[t].seen, tab[t].cache, NoCache)
                     IN [i \in DOMAIN c |-> IF i \in DOMAIN f THEN f[i] ELSE c[i]], tab[t].len)

(* Pops until the vector is empty.                                          *)
ClearOps(t) == SeqD!FlattenSeq([j \in 1 .. VecLen(t) |-> PopOps(t, VecLen(t) - j)])
ClearVec(t) ==
    IF VecLen(t) = 0 THEN UNCHANGED tab ELSE AfterWrite(t, NoCache, 0)

(* DbtMap: get, and the effect of insert and clear on queue and cache.      *)
MapGet(k) ==
    CASE mcache[k] = Gone   -> Absent
      [] mcache[k] = Absent -> db[<<Map, k>>]
      [] OTHER              -> mcache[k]

NoMapCache == [k \in MapKey |-> Absent]
MapCache == FreshCache(mseen, mcache, NoMapCache)

(* A key is listed iff it is new; the key list is pushed to first.          *)
Insert(k, x) ==
    LET new == MapGet(k) = Absent
    IN /\ IF new THEN /\ VecLen(KeyList) < MaxLen
                      /\ AfterWrite(KeyList, PushedCache(KeyList, VecLen(KeyList), k),
                                    VecLen(KeyList) + 1)
          ELSE UNCHANGED tab
       /\ queue' = queue \o (IF new THEN PushOps(KeyList, k) ELSE << >>)
                         \o <<Op(<<Map, k>>, x)>>
       /\ mcache' = [MapCache EXCEPT ![k] = x]
       /\ mseen' = count
       /\ UNCHANGED panicked

ClearedCache(keys) == [k \in MapKey |-> IF k \in keys THEN Gone ELSE MapCache[k]]

(* The list of keys is popped empty.  DbtMap::new makes that list without   *)
(* restore_or_new, so on a reopened map current_length is still None and    *)
(* pop's expect fails before anything has changed.                          *)
ClearMap ==
    LET keys == GetAll(KeyList)
    IN IF keys # << >> /\ tab[KeyList].len = Unset
       THEN panicked' = TRUE /\ UNCHANGED <<tab, queue, mcache, mseen>>
       ELSE /\ ClearVec(KeyList)
            /\ queue' = queue \o ClearOps(KeyList)
                              \o [j \in DOMAIN keys |-> Op(<<Map, keys[j]>>, Absent)]
            /\ mcache' = ClearedCache(SeqD!ToSet(keys))
            /\ mseen' = count
            /\ UNCHANGED panicked

(* The operations of a user who is not in the middle of a roll-back.        *)
VecStep ==
    /\ Free
    /\ \E t \in Vecs :
          \/ \E x \in Val : Push(t, x)
          \/ Pop(t)
          \/ \E I \in SUBSET (0 .. MaxLen - 1) : \E f \in [I -> Val] : SetMany(t, f)
          \/ ClearVec(t) /\ queue' = queue \o ClearOps(t)
    /\ Len(queue') <= MaxQueue
    /\ UNCHANGED <<db, count, single, mcache, mseen, batch, writing, scratch, panicked>>

SetSingle(x) ==
    /\ Free /\ ~scratch /\ Len(queue) < MaxQueue
    /\ queue' = Append(queue, Op(<<Single, Meta>>, x))
    /\ single' = x
    /\ UNCHANGED <<db, count, tab, mcache, mseen, batch, writing, scratch, panicked>>

MapStep ==
    /\ Free /\ ~scratch
    /\ (\E k \in MapKey, x \in MapVal : Insert(k, x)) \/ ClearMap
    /\ Len(queue') <= MaxQueue
    /\ UNCHANGED <<db, count, single, batch, writing, scratch>>

(* persist, first half: under the lock of the queue.                        *)
Drain ==
    /\ Free /\ ~scratch /\ count < MaxCount
    /\ batch' = queue /\ writing' = TRUE
    /\ queue' = << >>
    /\ count' = count + 1
    /\ UNCHANGED <<db, tab, single, mcache, mseen, scratch, panicked>>

(* persist, second half: one LevelDB batch, written with sync.              *)
WriteBatch ==
    /\ writing
    /\ db' = ApplyOps(db, batch)
    /\ batch' = << >> /\ writing' = FALSE
    /\ UNCHANGED <<queue, count, tab, single, mcache, mseen, scratch, panicked>>

(* old_mutator_set_and_mutator_set_update_to_tip persists and then rolls    *)
(* its vectors back, to read proofs that were valid in the past.            *)
BeginScratch ==
    /\ Free /\ ~scratch /\ queue = << >>
    /\ scratch' = TRUE
    /\ UNCHANGED <<db, queue, count, tab, single, mcache, mseen, batch, writing, panicked>>

(* delete_cache of one vector.                                              *)
Restored(t) ==
    [tab[t] EXCEPT !.cache = NoCache,
                   !.len = IF db[<<t, Meta>>] = Absent THEN Unset ELSE db[<<t, Meta>>]]

(* RustyArchivalMutatorSet::drop_unpersisted ends the roll-back.            *)
DropUnpersisted ==
    /\ Free /\ scratch
    /\ scratch' = FALSE
    /\ queue' = << >>
    /\ tab' = [t \in Tables |-> IF t \in Vecs THEN Restored(t) ELSE tab[t]]
    /\ UNCHANGED <<db, count, single, mcache, mseen, batch, writing, panicked>>

(* A new vector, restored from a database d, or not yet restored.           *)
Opened(d, t) ==
    [len |-> IF t = KeyList THEN Unset
             ELSE IF d[<<t, Meta>>] = Absent THEN 0 ELSE d[<<t, Meta>>],
     cache |-> NoCache, seen |-> 0]

(* The process stops at any point, also between the halves of a persist,    *)
(* and the schema is made anew over the database.                           *)
Restart ==
    /\ queue' = << >> /\ count' = 0
    /\ tab' = [t \in Tables |-> Opened(db, t)]
    /\ single' = IF db[<<Single, Meta>>] = Absent THEN Default ELSE db[<<Single, Meta>>]
    /\ mcache' = NoMapCache /\ mseen' = 0
    /\ batch' = << >> /\ writing' = FALSE /\ scratch' = FALSE /\ panicked' = FALSE
    /\ UNCHANGED db

DInit ==
    /\ db = [k \in DbKey |-> Absent]
    /\ queue = << >> /\ count = 0
    /\ tab = [t \in Tables |-> Opened(db, t)]
    /\ single = Default
    /\ mcache = NoMapCache /\ mseen = 0
    /\ batch = << >> /\ writing = FALSE /\ scratch = FALSE /\ panicked = FALSE

DNext ==
    \/ VecStep \/ MapStep \/ Drain \/ WriteBatch
    \/ BeginScratch \/ DropUnpersisted \/ Restart
    \/ \E x \in SingleVal : SetSingle(x)

DSpec == DInit /\ [][DNext]_dvars
-----------------------------------------------------------------------------

(* What a database holds, read as the tables would read it when opened.     *)
OnDisk(d) ==
    LET Length(t) == IF d[<<t, Meta>>] = Absent THEN 0 ELSE d[<<t, Meta>>]
        Content(t) == [i \in 1 .. Length(t) |-> d[<<t, i - 1>>]]
    IN [vec |-> [t \in Vecs |-> Content(t)],
        single |-> IF d[<<Single, Meta>>] = Absent THEN Default ELSE d[<<Single, Meta>>],
        map |-> [k \in MapKey |-> d[<<Map, k>>]],
        order |-> Content(KeyList)]

(* What the tables' getters return.                                         *)
InMemory ==
    [vec |-> [t \in Vecs |-> GetAll(t)], single |-> single,
     map |-> [k \in MapKey |-> MapGet(k)], order |-> GetAll(KeyList)]

Stored == INSTANCE StoredTables WITH
            now <- InMemory, saved <- OnDisk(db), NoValue <- Absent,
            Val <- Val \cup MapVal \cup SingleVal

(* The tables with their caches, queue and counters implement plain         *)
(* sequences, a value and a map with a saved copy: get, pop, len and        *)
(* all_keys return what was last written although the value may be in a     *)
(* cache, in the queue only or on disk; persist is one step of the disk;    *)
(* drop_unpersisted and a restart bring back exactly the saved copy.  While *)
(* a drained batch is not on disk, the abstract memory is what was drained. *)
ImplementsTables == Stored!Spec

=============================================================================
