------------------------------ MODULE MCStores ------------------------------
(***************************************************************************)
(* What a node keeps on disk, in one run: the archival state on a small    *)
(* tree of blocks, and the storage layer with one of two users.            *)
(* `user' says which of them moves and never changes, so the run explores  *)
(* their disjoint union:                                                   *)
(*   - "archive": the archival state;                                      *)
(*   - "vectors": the archival state's tables (vectors, a singleton and    *)
(*     the temporary roll-back);                                           *)
(*   - "map": a map, its list of keys and a singleton.                     *)
(* Both users of the storage layer share queue, counter and disk with the  *)
(* singleton, so every persist and restart concerns two tables.            *)
(***************************************************************************)
EXTENDS ArchivalState, DbtStorage

\* A chain of two blocks, and a block that forks off at genesis: between the
\* branches, one block or two are rolled back and one or two applied.
\*    g -- a1 -- a2
\*      \-- c1
SmallBlock == {"g", "a1", "a2", "c1"}
SmallChain ==
  [g  |-> <<"g">>,
   a1 |-> <<"g", "a1">>,
   a2 |-> <<"g", "a1", "a2">>,
   c1 |-> <<"g", "c1">>]

CONSTANT MaxVecQueue   \* bound on the queue of the vectors' user

VARIABLE user

MCInit == Init /\ DInit /\ user \in {"archive", "vectors", "map"}

StorageStep ==
    /\ \/ user = "vectors" /\ (VecStep \/ BeginScratch \/ DropUnpersisted)
       \/ user = "map" /\ MapStep
       \/ \E x \in SingleVal : SetSingle(x)
       \/ Drain \/ WriteBatch \/ Restart
    /\ user = "vectors" => Len(queue') <= MaxVecQueue

MCNext ==
    /\ UNCHANGED user
    /\ \/ user = "archive" /\ Next /\ UNCHANGED dvars
       \/ user # "archive" /\ StorageStep /\ UNCHANGED vars

MCSpec == MCInit /\ [][MCNext]_<<vars, dvars, user>>
=============================================================================
