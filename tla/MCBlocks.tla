------------------------------ MODULE MCBlocks ------------------------------
(***************************************************************************)
(* Blocks between nodes, and between a node, its composer and its miner.   *)
(* `side' says which of the two modules moves in a behaviour and never     *)
(* changes, so the run explores their disjoint union.                      *)
(*                                                                         *)
(* The tree has a long branch and a short but heavier one, whose first     *)
(* blocks tie; the long one is long enough for a sync challenge and for a  *)
(* fork that reconciliation gives up on.  The two nodes of Gossip are      *)
(* interchangeable, so n1 starts with the lighter tip.                     *)
(***************************************************************************)
EXTENDS Gossip, Mining, TLC

CONSTANTS n1, n2, g, a1, a2, a3, a4, a5, b1, b2

VARIABLE side

MCTree == {g, a1, a2, a3, a4, a5, b1, b2}
MCParent == (a1 :> g) @@ (a2 :> a1) @@ (a3 :> a2) @@ (a4 :> a3) @@ (a5 :> a4)
         @@ (b1 :> g) @@ (b2 :> b1)
MCHeight == (g :> 0) @@ (a1 :> 1) @@ (a2 :> 2) @@ (a3 :> 3) @@ (a4 :> 4) @@ (a5 :> 5)
         @@ (b1 :> 1) @@ (b2 :> 2)
MCPow == (g :> 1) @@ (a1 :> 2) @@ (a2 :> 3) @@ (a3 :> 4) @@ (a4 :> 5) @@ (a5 :> 6)
      @@ (b1 :> 3) @@ (b2 :> 7)
MCNoInputs == {a1}
MCReward == (a1 :> 1) @@ (b1 :> 2) @@ (a2 :> 1)

\* Nothing is left to propose.
MiningAtRest ==
    /\ tip = a2 /\ stored = {g, a1, a2}
    /\ proposal = NoBlock
    /\ fromPeers = <<>> /\ fromRpc = <<>>
    /\ composer = Idle
    /\ miner = [reward |-> 0, task |-> NoBlock, live |-> FALSE, buffer |-> NoBlock]

MCInit ==
    /\ GInit /\ Pow[gtip[n1]] <= Pow[gtip[n2]]
    /\ \/ side = "gossip" /\ MiningAtRest
       \/ side = "mining" /\ WInit /\ gtip = [n \in Node |-> g]

MCNext ==
    /\ UNCHANGED side
    /\ \/ side = "gossip" /\ GNext /\ UNCHANGED wvars
       \/ side = "mining" /\ WNext /\ UNCHANGED gvars

\* WFair on Mining's side.  No fair step of Gossip is enabled there.
MiningFair ==
    /\ WF_wvars(side = "mining" /\ HandlePeerMessage)
    /\ WF_wvars(side = "mining" /\ HandleRpcMessage)
    /\ WF_wvars(side = "mining" /\ ComposerStep /\ composer' # composer)
    /\ WF_wvars(side = "mining" /\ SubmitTemplate)

MCSpec == MCInit /\ [][MCNext]_<<gvars, wvars, side>> /\ GFair /\ MiningFair
=============================================================================
