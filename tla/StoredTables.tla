---------------------------- MODULE StoredTables ----------------------------
(***************************************************************************)
(* What the storage layer promises its users: vectors, one value and one    *)
(* insertion-ordered map that are read and written in memory, a copy of all *)
(* of them on disk, and three ways the two meet.  Persist makes the disk    *)
(* equal to memory in one step, Discard makes memory equal to the disk, and *)
(* so does a crash followed by a restart.                                   *)
(***************************************************************************)
EXTENDS Integers, Sequences, FiniteSets

CONSTANTS Vecs, Val, MapKey, Default, NoValue

VARIABLES now, saved

(* One copy of everything that is stored.                                   *)
Fresh == [vec |-> [v \in Vecs |-> << >>], single |-> Default,
          map |-> [k \in MapKey |-> NoValue], order |-> << >>]

SetVec(v, s) == now' = [now EXCEPT !.vec[v] = s] /\ UNCHANGED saved

Push(v, x) == SetVec(v, Append(now.vec[v], x))

Pop(v) == now.vec[v] # << >> /\ SetVec(v, SubSeq(now.vec[v], 1, Len(now.vec[v]) - 1))

SetMany(v, f) ==
    /\ DOMAIN f \subseteq DOMAIN now.vec[v]
    /\ SetVec(v, [i \in DOMAIN now.vec[v] |-> IF i \in DOMAIN f THEN f[i] ELSE now.vec[v][i]])

Clear(v) == SetVec(v, << >>)

SetSingle(x) == now' = [now EXCEPT !.single = x] /\ UNCHANGED saved

Insert(k, x) ==
    /\ now' = [now EXCEPT !.map[k] = x,
                          !.order = IF now.map[k] = NoValue THEN Append(@, k) ELSE @]
    /\ UNCHANGED saved

ClearMap ==
    /\ now' = [now EXCEPT !.map = Fresh.map, !.order = << >>]
    /\ UNCHANGED saved

Persist == saved' = now /\ UNCHANGED now

Discard == now' = saved /\ UNCHANGED saved

Init == now = Fresh /\ saved = Fresh

Next ==
    \/ \E v \in Vecs, x \in Val : Push(v, x)
    \/ \E v \in Vecs : Pop(v) \/ Clear(v)
    \/ \E v \in Vecs : \E I \in SUBSET DOMAIN now.vec[v] : \E f \in [I -> Val] : SetMany(v, f)
    \/ \E x \in Val : SetSingle(x)
    \/ \E k \in MapKey, x \in Val : Insert(k, x)
    \/ ClearMap \/ Persist \/ Discard

Spec == Init /\ [][Next]_<<now, saved>>
=============================================================================
