------------------------------- MODULE Relays -------------------------------
(***************************************************************************)
(* How a node behind a NAT stays reachable: the reachability state machine  *)
(* (network/reachability.rs) and the relay reservations of the network      *)
(* actor.  A reservation is a swarm listener on a circuit address.  Time is *)
(* two events: a reservation passes 80% of its life, a closed one its       *)
(* cooldown.  The peers come and go with the actor's other connections.     *)
(***************************************************************************)
EXTENDS Integers, FiniteSets

CONSTANTS RelayPeer,   \* the peers that can serve as relays
          NumRelays    \* reservations asked for when relays are needed (3)

VARIABLES
    reach,    \* reachability_state, addresses left out
    relays,   \* relays: status of the reservation with a peer
    orphans,  \* peers with a live relay listener that relays no longer names
    linked    \* connected peers with an address one can listen through

rvars == <<reach, relays, orphans, linked>>

Held == {p \in RelayPeer : relays[p] # "none"}
Listening == {p \in RelayPeer : relays[p] \in {"waiting", "active", "old"}}

(* ReachabilityState::handle_new_nat_status                                 *)
AfterNatStatus(s) ==
    CASE s = "unknown" -> reach
      [] s = "public" -> "public"
      [] s = "private" -> IF reach = "withAddress" THEN "pending" ELSE "waiting"

(* ReachabilityState::handle_external_address, of a direct address          *)
AfterExternalAddress ==
    CASE reach = "unknown" -> "withAddress"
      [] reach = "waiting" -> "pending"
      [] OTHER -> reach

(* request_peer_relays(n) on the reservations r: as many available peers as *)
(* there are, at most n, chosen at random.                                  *)
RequestPeerRelays(n, r) ==
    LET available == {p \in linked : r[p] = "none"}
        k == IF n < Cardinality(available) THEN n ELSE Cardinality(available)
    IN \E S \in SUBSET available :
          /\ Cardinality(S) = k
          /\ relays' = [p \in RelayPeer |-> IF p \in S THEN "waiting" ELSE r[p]]

NoRelays == [p \in RelayPeer |-> "none"]

(* MUTANT: relays are asked for when the state changes only                 *)
IdentifiedAsksOnce ==
    /\ linked # {}
    /\ reach' = AfterExternalAddress
    /\ IF reach' = "pending" /\ reach # "pending" THEN RequestPeerRelays(NumRelays, relays)
       ELSE UNCHANGED relays
    /\ UNCHANGED <<orphans, linked>>

(* Identify with a global observed address.                                 *)
Identified ==
    /\ linked # {}
    /\ reach' = AfterExternalAddress
    /\ IF reach' = "pending" THEN RequestPeerRelays(NumRelays, relays) ELSE UNCHANGED relays
    /\ UNCHANGED <<orphans, linked>>

(* AutoNAT's StatusChanged.  Public cleans the reservations up.             *)
NatStatus(s) ==
    /\ reach' = AfterNatStatus(s)
    /\ IF s = "public" THEN relays' = NoRelays
       ELSE IF reach' = "pending" THEN RequestPeerRelays(NumRelays, relays) ELSE UNCHANGED relays
    /\ UNCHANGED <<orphans, linked>>

(* UPnP's NewExternalAddr and ExpiredExternalAddr.                          *)
UpnpMapped == reach' = "upnp" /\ relays' = NoRelays /\ UNCHANGED <<orphans, linked>>
UpnpExpired == reach = "upnp" /\ reach' = "unknown" /\ UNCHANGED <<relays, orphans, linked>>

(* ReservationReqAccepted: the entry, if any is open, becomes active now.   *)
ReservationAccepted(p) ==
    /\ p \in Held \cup orphans
    /\ relays' = [relays EXCEPT ![p] = IF p \in Listening THEN "active" ELSE @]
    /\ UNCHANGED <<reach, orphans, linked>>

(* ExternalAddrConfirmed for a circuit address.                             *)
CircuitConfirmed ==
    /\ Listening \cup orphans # {}
    /\ reach' = IF reach \in {"waiting", "pending", "relayed"} THEN "relayed" ELSE reach
    /\ UNCHANGED <<relays, orphans, linked>>

(* ListenerClosed, of a reservation the map names and of one it forgot.     *)
ListenerClosed(p) ==
    /\ \/ /\ p \in Listening
          /\ relays' = [relays EXCEPT ![p] = "closed"]
          /\ UNCHANGED orphans
       \/ p \in orphans /\ orphans' = orphans \ {p} /\ UNCHANGED relays
    /\ UNCHANGED <<reach, linked>>

(* check_relays_reservations: reservations near their end leave the map     *)
(* (their listeners stay open), cooled-down ones too; as many are asked for.*)
CheckRelays ==
    /\ Held # {}
    /\ LET gone == {p \in RelayPeer : relays[p] \in {"old", "cooled"}}
       IN /\ RequestPeerRelays(Cardinality(gone),
                     [p \in RelayPeer |-> IF p \in gone THEN "none" ELSE relays[p]])
          /\ orphans' = orphans \cup (gone \cap Listening)
    /\ UNCHANGED <<reach, linked>>

(* ResetRelayReservations: listeners are removed, their peers disconnected. *)
ResetRelayReservations ==
    /\ relays' = NoRelays
    /\ linked' = linked \ Held
    /\ UNCHANGED <<reach, orphans>>

(* Time passes for a reservation.                                           *)
Ages(p) ==
    /\ relays[p] \in {"active", "closed"}
    /\ relays' = [relays EXCEPT ![p] = IF @ = "active" THEN "old" ELSE "cooled"]
    /\ UNCHANGED <<reach, orphans, linked>>

(* Peers connect and disconnect.                                            *)
PeerConnects(p) == p \notin linked /\ linked' = linked \cup {p} /\ UNCHANGED <<reach, relays, orphans>>
PeerLeaves(p) == p \in linked /\ linked' = linked \ {p} /\ UNCHANGED <<reach, relays, orphans>>

RInit == reach = "unknown" /\ relays = NoRelays /\ orphans = {} /\ linked \in SUBSET RelayPeer

RNext ==
    \/ Identified
    \/ \E s \in {"unknown", "public", "private"} : NatStatus(s)
    \/ UpnpMapped \/ UpnpExpired
    \/ \E p \in RelayPeer : ReservationAccepted(p) \/ ListenerClosed(p) \/ Ages(p)
                            \/ PeerConnects(p) \/ PeerLeaves(p)
    \/ CircuitConfirmed
    \/ CheckRelays
    \/ ResetRelayReservations

(* The maintenance tick runs every 10 seconds, connected peers identify     *)
(* themselves every 5 minutes, and time passes.                             *)
RFair ==
    /\ WF_rvars(Identified)
    /\ WF_rvars(CheckRelays)
    /\ \A p \in RelayPeer : WF_rvars(Ages(p))

RSpec == RInit /\ [][RNext]_rvars /\ RFair

-----------------------------------------------------------------------------

(* A node that waits for relays and has connected peers asks one of them,   *)
(* even when all were lost or refused before (the Pending branch of         *)
(* Identify).                                                               *)
PendingNodeAsks ==
    (reach = "pending" /\ Held = {} /\ linked # {})
        ~> (Held # {} \/ reach # "pending" \/ linked = {})
=============================================================================
