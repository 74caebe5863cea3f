---------------------------- MODULE MCAlgorithms ----------------------------
(***************************************************************************)
(* One instance of each of eight modules of algorithms that share no       *)
(* state, in one run: `part' says which of them moves in a behaviour and   *)
(* never changes, so the run explores their disjoint union.                *)
(***************************************************************************)
EXTENDS BitMask, HeaderChain, GuesserBuffer, Amounts,
        MutatorSetUpdate, ArchivalMmr, ChunkPacking, RemovalRecordList

VARIABLE part

PaymentsDef == {1, 95, 880, -3, -700}
SamplesDef == {<<0, 3>>, <<1, 1>>}

\* A part that does not move has one initial state.
UInit ==
    /\ Init /\ HInit /\ GInit /\ BInit /\ MInit /\ AInit /\ CInit /\ LInit
    /\ part \in {"mask", "headers", "buffer", "amounts", "set", "mmr", "chunk", "records"}
    /\ part # "mask" => mask = [o \in Owner |-> New(1, 2)]
    /\ part # "headers" => chain[1].height = 0 /\ Value(chain[1].difficulty) = MinimumLimb
    /\ part # "buffer" => height = 1 /\ layers = 1
    /\ part # "records" => leafCount = 0

ElementaryStep ==
    /\ \/ part = "mask" /\ Next /\ UNCHANGED <<hvars, gvars, bvars>>
       \/ part = "headers" /\ HNext /\ UNCHANGED <<mask, gvars, bvars>>
       \/ part = "buffer" /\ GNext /\ UNCHANGED <<mask, hvars, bvars>>
       \/ part = "amounts" /\ BNext /\ UNCHANGED <<mask, hvars, gvars>>
    /\ UNCHANGED <<mvars, avars, cvars, lvars>>

MutatorSetStep ==
    /\ \/ part = "set" /\ MNext /\ UNCHANGED <<avars, cvars, lvars>>
       \/ part = "mmr" /\ ANext /\ UNCHANGED <<mvars, cvars, lvars>>
       \/ part = "chunk" /\ CNext /\ UNCHANGED <<mvars, avars, lvars>>
       \/ part = "records" /\ LNext /\ UNCHANGED <<mvars, avars, cvars>>
    /\ UNCHANGED <<mask, hvars, gvars, bvars>>

UNext == UNCHANGED part /\ (ElementaryStep \/ MutatorSetStep)

uvars == <<mask, hvars, gvars, bvars, mvars, avars, cvars, lvars, part>>

USpec == UInit /\ [][UNext]_uvars
=============================================================================
