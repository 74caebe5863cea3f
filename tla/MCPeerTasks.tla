---------------------------- MODULE MCPeerTasks ----------------------------
(***************************************************************************)
(* Three connections beside the main task of one node: two of them to one  *)
(* peer, all of them from one address.  c1 and c2 are interchangeable, so  *)
(* c1 is opened first.                                                     *)
(***************************************************************************)
EXTENDS PeerTasks

CONSTANTS c1, c2, c3, p1, p2, i1

MCPeerOf == [c \in Conn |-> IF c = c3 THEN p2 ELSE p1]
MCIpOf == [c \in Conn |-> i1]

MCNext == PNext /\ (pc'[c2] # "off" => pc'[c1] # "off")

MCSpec == PInit /\ [][MCNext]_pvars /\ PFair
=============================================================================
