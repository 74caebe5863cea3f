------------------------------ MODULE MCFollow ------------------------------
(***************************************************************************)
(* Four parts that follow something they do not control and share no       *)
(* state: a sync follows a peer's chain, the relays of a node behind a NAT *)
(* follow who is reachable, and the wallet and the upgrader follow their   *)
(* node.  `part' says which of them moves in a behaviour and never         *)
(* changes, so a run explores their disjoint union.  FollowSpec is for     *)
(* what they may never do, LiveSpec, on smaller instances, for what must   *)
(* eventually happen.                                                      *)
(***************************************************************************)
EXTENDS MCSyncLoop, Relays, Wallet, Upgrader

VARIABLE part

\* Genesis, a block on it, and two rival blocks on that one.
ForkedTips == <<0, 1, 1>>

FollowInit ==
    /\ Init /\ RInit /\ VInit /\ UInit
    /\ part \in {"sync", "relays", "wallet", "upgrader"}
    /\ part # "relays" => linked = {}

FollowNext ==
    /\ UNCHANGED part
    /\ \/ part = "sync" /\ Next /\ UNCHANGED <<rvars, vvars, uvars>>
       \/ part = "relays" /\ RNext /\ UNCHANGED <<vars, vvars, uvars>>
       \/ part = "wallet" /\ VNext /\ UNCHANGED <<vars, rvars, uvars>>
       \/ part = "upgrader" /\ UNext /\ UNCHANGED <<vars, rvars, vvars>>

FollowSpec == FollowInit /\ [][FollowNext]_<<vars, rvars, vvars, uvars, part>>

\* The fairness of each module, in its own part.
LiveFair ==
    /\ WF_vars(part = "sync" /\ MainStep) /\ WF_vars(part = "sync" /\ TaskStep)
    /\ WF_vars(part = "sync" /\ LoopMessage) /\ WF_vars(part = "sync" /\ LoopStep)
    /\ WF_vars(part = "sync" /\ Request) /\ WF_vars(part = "sync" /\ Answer)
    /\ WF_vars(part = "sync" /\ CleanUp)
    /\ WF_rvars(part = "relays" /\ Identified)
    /\ WF_rvars(part = "relays" /\ CheckRelays)
    /\ \A p \in RelayPeer : WF_rvars(part = "relays" /\ Ages(p))
    /\ WF_vvars(part = "wallet" /\ SyncStep)
    /\ WF_vvars(part = "wallet" /\ SendStep)
    /\ WF_vvars(part = "wallet" /\ InsufficientFunds)
    /\ WF_vvars(part = "wallet" /\ Start)
    /\ WF_uvars(part = "upgrader" /\ UpgraderStep)

LiveSpec == FollowSpec /\ LiveFair
=============================================================================
