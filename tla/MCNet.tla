------------------------------- MODULE MCNet -------------------------------
(***************************************************************************)
(* Three independent parts of the network layer in one run; which of them   *)
(* moves is fixed at the start.  Two users of the actor: one exercises the  *)
(* streams (handshakes on racing connections, loops that end, evictions),   *)
(* one the limits (commands, bans, sticky peers).  The third user is the    *)
(* address book's.                                                          *)
(***************************************************************************)
EXTENDS NetworkActor, AddressBook, TLC
CONSTANTS p1, p2, c1, c2, c3

VARIABLE user

MCAddrOf == (p1 :> {[via |-> "direct", ip |-> 1], [via |-> "circuit", ip |-> 3]})
         @@ (p2 :> {[via |-> "direct", ip |-> 2], [via |-> "bare", ip |-> 0]})
MCSticky == {[via |-> "direct", ip |-> 2]}
Ids == Permutations(ConnId \ {c3})

MCInit == Init /\ BInit /\ user \in {"streams", "limits", "book"}

Streams ==
    \/ \E c \in ConnId : Handshake(c) \/ HandshakeReceived(c)
    \/ \E c \in ConnId, a \in Addr : AddressChange(c, a)
    \/ \E R \in SUBSET Peer : R # {} /\ ResetRelayPeers(R)
    \/ \E l \in loops : LoopEnds(l)
    \/ \E c \in ConnId, p \in Peer : \E a \in AddrOf[p] : Established(c, p, a)

Limits ==
    \/ \E c \in ConnId \ {c3}, p \in Peer : \E a \in AddrOf[p] : Established(c, p, a)
    \/ \E p \in Peer, ok \in BOOLEAN : Identify(p, ok)
    \/ \E a \in Addr : OutgoingConnectionError(a)
    \/ \E p \in Peer : BanPeer(p)
    \/ SetBans
    \/ \E a \in Addr : DialCommand(a)
    \/ Shutdown
    \/ StickyTick
    \/ \E a \in Sticky : DialGrowsStale(a)

MCNext ==
    /\ \/ /\ \/ user = "streams" /\ Streams
             \/ user = "limits" /\ Limits
             \/ user # "book" /\ \E c \in ConnId : Closed(c)
          /\ UNCHANGED bvars
       \/ user = "book" /\ BNext /\ UNCHANGED vars
    /\ UNCHANGED user

MCSpec == MCInit /\ [][MCNext]_<<vars, bvars, user>>
=============================================================================
