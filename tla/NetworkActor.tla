---------------------------- MODULE NetworkActor ----------------------------
(***************************************************************************)
(* The network actor (node/src/application/network/actor.rs) with the       *)
(* stream gateway and the black list: which connections it keeps track of,  *)
(* which streams it hands to peer loops, whom it bans, evicts and re-dials. *)
(*                                                                          *)
(* The actor polls the libp2p swarm, so a swarm event and its handler are   *)
(* one step.  Connections are tasks of their own: a disconnect only starts  *)
(* to close them, and a handshake that a task has finished can still be on  *)
(* its way.  An address says how its connection runs: "direct" with an ip,  *)
(* "circuit" (dialled through a relay, with the relay's ip) or "bare" (a    *)
(* connection that came in over a relay: a peer id and nothing else).       *)
(***************************************************************************)
EXTENDS Integers, FiniteSets

CONSTANTS Peer, ConnId,
          AddrOf,      \* AddrOf[p]: the addresses of peer p, [via, ip]
          Ip,          \* the ip addresses
          MaxPeers,    \* --max-num-peers
          Sticky,      \* addresses given on the command line
          Ephemeral,   \* ips banned on the command line
          NoConn

Addr == UNION {AddrOf[p] : p \in Peer}
HasIp(a) == a.via # "bare"

\* A connection of the swarm: whose, over which address, how far its
\* handshake is, and whether it is being closed.
ConnState == [peer : Peer, addr : Addr, hs : {"none", "flight", "done"}, st : {"open", "closing"}]

ASSUME NetworkActorAssumption ==
    /\ NoConn \notin ConnState
    /\ MaxPeers \in Nat
    /\ IsFiniteSet(Peer)

VARIABLES
    conn,      \* the swarm's connections: NoConn, or peer, address, state, handshake
    active,    \* active_connections: the tracked peers
    older,     \* their timestamps: <<p, q>> when p was connected before q
    known,     \* active_connections: the recorded <<connection, address>> of a tracked peer
    upgraded,  \* upgraded_peers, shared with the gateway and the peer loops
    loops,     \* the running peer loops: [peer, conn's address, recorded address]
    banned,    \* black_list.list
    onDisk,    \* the black list's file
    sticky,    \* sticky_peers: "none", "dialing", "stale" (for over two minutes) or a peer
    book,      \* the address book's listen addresses of a peer
    dialing,   \* outgoing dials in progress
    maxPeers, actor

vars == <<conn, active, older, known, upgraded, loops, banned, onDisk, sticky, book, dialing,
          maxPeers, actor>>

Running == actor = "running"
ConnsOf(p) == {c \in ConnId : conn[c] # NoConn /\ conn[c].peer = p}

(* Multiaddress tests of is_direct, should_bounce and the Ban command.      *)
IsDirect(a) == a.via # "circuit"
IpsOf(addrs) == {a.ip : a \in {x \in addrs : x.via = "direct"}}
IsBanned(ip) == ip \in banned \cup Ephemeral

(* The limit first, then the black list; bare addresses have no ip to ban.  *)
ShouldBounce(a) == Cardinality(active) >= maxPeers \/ (HasIp(a) /\ IsBanned(a.ip))

(* disconnect_peer_id: every connection of the peers starts to close.       *)
Disconnected(peers) ==
    [c \in ConnId |-> IF conn[c] # NoConn /\ conn[c].peer \in peers
                      THEN [conn[c] EXCEPT !.st = "closing"] ELSE conn[c]]

(* Removal of peers from active_connections.                                *)
Forget(peers) ==
    /\ active' = active \ peers
    /\ older' = {x \in older : x[1] \notin peers /\ x[2] \notin peers}
    /\ known' = [p \in Peer |-> IF p \in peers THEN {} ELSE known[p]]

(* The n peers that were connected first, or all of them.                   *)
Oldest(n) == {p \in active : Cardinality({x \in older : x[2] = p}) < n}

(* SwarmEvent::ConnectionEstablished.  The gateway denies connections of    *)
(* peers that have a peer loop.  A second connection of a tracked peer is   *)
(* left alone and not recorded.                                             *)
Established(c, p, a) ==
    /\ Running /\ conn[c] = NoConn /\ p \notin upgraded
    /\ sticky' = IF a \in Sticky THEN [sticky EXCEPT ![a] = p] ELSE sticky
    /\ dialing' = dialing \ {a}
    /\ LET dup == p \in active
           bounce == ~dup /\ ShouldBounce(a)
       IN /\ conn' = [conn EXCEPT ![c] = [peer |-> p, addr |-> a, hs |-> "none",
                                           st |-> IF bounce THEN "closing" ELSE "open"]]
          /\ IF dup \/ bounce THEN UNCHANGED <<active, older, known>>
             ELSE /\ active' = active \cup {p}
                  /\ older' = older \cup (active \X {p})
                  /\ known' = [known EXCEPT ![p] = {<<c, a>>}]
    /\ UNCHANGED <<upgraded, loops, banned, onDisk, book, maxPeers, actor>>

(* MUTANT: the address is removed, the entry never                          *)
ClosedKeepsEntry(c) ==
    /\ Running /\ conn[c] # NoConn /\ conn[c].hs # "flight"
    /\ conn' = [conn EXCEPT ![c] = NoConn]
    /\ known' = [known EXCEPT ![conn[c].peer] = {e \in @ : e[1] # c}]
    /\ UNCHANGED <<active, older, upgraded, loops, banned, onDisk, sticky, book, dialing, maxPeers,
                   actor>>

(* SwarmEvent::ConnectionClosed, for whatever reason the connection ended:  *)
(* the entry goes with the peer's last connection.                          *)
Closed(c) ==
    /\ Running /\ conn[c] # NoConn /\ conn[c].hs # "flight"
    /\ conn' = [conn EXCEPT ![c] = NoConn]
    /\ LET p == conn[c].peer
       IN IF ConnsOf(p) # {c}
          THEN /\ known' = [known EXCEPT ![p] = {e \in @ : e[1] # c}]
               /\ UNCHANGED <<active, older>>
          ELSE Forget({p})
    /\ UNCHANGED <<upgraded, loops, banned, onDisk, sticky, book, dialing, maxPeers, actor>>

(* The connection's handler finishes the handshake and reports the stream.  *)
(* It is paused while the address it knows is not direct.                   *)
Handshake(c) ==
    /\ conn[c] # NoConn /\ conn[c].hs = "none" /\ conn[c].st = "open"
    /\ IsDirect(conn[c].addr)
    /\ conn' = [conn EXCEPT ![c].hs = "flight"]
    /\ UNCHANGED <<active, older, known, upgraded, loops, banned, onDisk, sticky, book, dialing,
                   maxPeers, actor>>

(* The connection's address changes (hole punching): a relayed connection   *)
(* becomes direct and its handler is activated.                             *)
AddressChange(c, a) ==
    /\ Running /\ conn[c] # NoConn /\ conn[c].st = "open"
    /\ ~IsDirect(conn[c].addr) /\ IsDirect(a) /\ a \in AddrOf[conn[c].peer]
    /\ conn' = [conn EXCEPT ![c].addr = a]
    /\ UNCHANGED <<active, older, known, upgraded, loops, banned, onDisk, sticky, book, dialing,
                   maxPeers, actor>>

(* MUTANT: the set of upgraded peers is not consulted                       *)
HandshakeReceivedTwice(c) ==
    /\ Running /\ conn[c] # NoConn /\ conn[c].hs = "flight"
    /\ LET p == conn[c].peer
       IN IF p \notin active
          THEN actor' = "crashed" /\ UNCHANGED <<upgraded, loops>>
          ELSE /\ UNCHANGED actor
               /\ upgraded' = upgraded \cup {p}
               /\ loops' = loops \cup {[peer |-> p, conn |-> c, over |-> conn[c].addr]}
    /\ conn' = [conn EXCEPT ![c].hs = "done"]
    /\ UNCHANGED <<active, older, known, banned, onDisk, sticky, book, dialing, maxPeers>>

(* GatewayEvent::HandshakeReceived and spawn_peer_loop: a peer that is not  *)
(* tracked ends the actor (NoAddressForPeer), a peer that has a peer loop   *)
(* keeps the one it has.                                                    *)
HandshakeReceived(c) ==
    /\ Running /\ conn[c] # NoConn /\ conn[c].hs = "flight"
    /\ LET p == conn[c].peer
       IN IF p \notin active
          THEN actor' = "crashed" /\ UNCHANGED <<upgraded, loops>>
          ELSE /\ UNCHANGED actor
               /\ upgraded' = upgraded \cup {p}
               /\ loops' = IF p \in upgraded THEN loops
                           ELSE loops \cup {[peer |-> p, conn |-> c, over |-> conn[c].addr]}
    /\ conn' = [conn EXCEPT ![c].hs = "done"]
    /\ UNCHANGED <<active, older, known, banned, onDisk, sticky, book, dialing, maxPeers>>

(* A peer loop's task ends, and takes its peer out of the upgraded set.     *)
LoopEnds(l) ==
    /\ l \in loops
    /\ loops' = loops \ {l}
    /\ upgraded' = upgraded \ {l.peer}
    /\ UNCHANGED <<conn, active, older, known, banned, onDisk, sticky, book, dialing, maxPeers,
                   actor>>

(* Identify: another protocol version is disconnected; otherwise the book   *)
(* takes the peer's listen addresses that are global and not relayed.       *)
Identify(p, sameProtocol) ==
    /\ Running /\ ConnsOf(p) # {}
    /\ IF sameProtocol
       THEN /\ book' = [book EXCEPT ![p] = {a \in AddrOf[p] : a.via = "direct"}]
            /\ UNCHANGED conn
       ELSE conn' = Disconnected({p}) /\ UNCHANGED book
    /\ UNCHANGED <<active, older, known, upgraded, loops, banned, onDisk, sticky, dialing, maxPeers,
                   actor>>

(* dial: addresses of this machine are skipped.                             *)
Dials(addrs) == dialing' = dialing \cup {a \in addrs : a.via # "local"}

(* A dial fails: the book's failure counter is AddressBook's.               *)
OutgoingConnectionError(a) ==
    /\ Running /\ a \in dialing
    /\ dialing' = dialing \ {a}
    /\ UNCHANGED <<conn, active, older, known, upgraded, loops, banned, onDisk, sticky, book,
                   maxPeers, actor>>

(* disconnect_from_longest_lived_peer, n times.                             *)
Evict(n) == conn' = Disconnected(Oldest(n)) /\ Forget(Oldest(n))

(* NetworkActorCommand::Dial overturns a ban and makes room.                *)
DialCommand(a) ==
    /\ Running
    /\ banned' = IF HasIp(a) THEN banned \ {a.ip} ELSE banned
    /\ Evict(IF Cardinality(active) >= maxPeers THEN 1 ELSE 0)
    /\ Dials({a})
    /\ UNCHANGED <<upgraded, loops, onDisk, sticky, book, maxPeers, actor>>

(* NetworkActorCommand::Ban of a peer: the ips of its recorded and of its   *)
(* listen addresses, relays left out.  The peer stays tracked until its     *)
(* connections have closed.                                                 *)
BanPeer(p) ==
    /\ Running
    /\ conn' = Disconnected({p})
    /\ banned' = banned \cup IpsOf({e[2] : e \in known[p]} \cup book[p])
    /\ UNCHANGED <<active, older, known, upgraded, loops, onDisk, sticky, book, dialing, maxPeers,
                   actor>>

(* NetworkActorCommand::Ban of an ip, ::Unban and ::UnbanAll.               *)
SetBans ==
    /\ Running
    /\ \/ \E ip \in Ip : banned' \in {banned \cup {ip}, banned \ {ip}}
       \/ banned' = {}
    /\ UNCHANGED <<conn, active, older, known, upgraded, loops, onDisk, sticky, book, dialing,
                   maxPeers, actor>>

(* NetworkActorCommand::ResetRelayReservations: peers that serve as relays  *)
(* are disconnected and forgotten (their reservations: module Relays).      *)
ResetRelayPeers(R) ==
    /\ Running /\ R \subseteq active
    /\ conn' = Disconnected(R)
    /\ Forget(R)
    /\ UNCHANGED <<upgraded, loops, banned, onDisk, sticky, book, dialing, maxPeers, actor>>

(* The sticky peers to dial now.                                            *)
Redial(a) ==
    \/ sticky[a] \in {"none", "stale"}
    \/ sticky[a] \in Peer /\ sticky[a] \notin active

(* The tick that checks the sticky peers.  Without sticky peers and without *)
(* connections it dials from the address book.                              *)
StickyTick ==
    /\ Running
    /\ LET again == {a \in Sticky : Redial(a)}
           fromBook == IF Sticky = {} /\ active = {} THEN UNION {book[p] : p \in Peer} ELSE {}
           dials == again \cup fromBook
           free == IF maxPeers > Cardinality(active) THEN maxPeers - Cardinality(active) ELSE 0
       IN /\ dials # {}
          /\ sticky' = [a \in Sticky |-> IF a \in again THEN "dialing" ELSE sticky[a]]
          /\ Evict(IF free < Cardinality(dials) THEN Cardinality(dials) - free ELSE 0)
          /\ Dials(dials)
    /\ UNCHANGED <<upgraded, loops, banned, onDisk, book, maxPeers, actor>>

(* Two minutes pass for a sticky peer that is being dialled.                *)
DialGrowsStale(a) ==
    /\ Running /\ sticky[a] = "dialing"
    /\ sticky' = [sticky EXCEPT ![a] = "stale"]
    /\ UNCHANGED <<conn, active, older, known, upgraded, loops, banned, onDisk, book, dialing,
                   maxPeers, actor>>

(* NetworkActorCommand::Shutdown: no more peers, the list is saved, all     *)
(* connections are closed and the actor stops; the peer loops are left be.  *)
Shutdown ==
    /\ Running
    /\ maxPeers' = 0 /\ actor' = "stopped" /\ onDisk' = banned
    /\ conn' = Disconnected(Peer)
    /\ UNCHANGED <<active, older, known, upgraded, loops, banned, sticky, book, dialing>>

Init ==
    /\ conn = [c \in ConnId |-> NoConn]
    /\ active = {} /\ older = {} /\ known = [p \in Peer |-> {}]
    /\ upgraded = {} /\ loops = {}
    /\ banned = {} /\ onDisk = {}
    /\ sticky = [a \in Sticky |-> "none"]
    /\ book = [p \in Peer |-> {}]
    /\ dialing = {}
    /\ maxPeers = MaxPeers /\ actor = "running"

Command ==
    \/ \E a \in Addr : DialCommand(a)
    \/ \E p \in Peer : BanPeer(p)
    \/ SetBans
    \/ \E R \in SUBSET Peer : ResetRelayPeers(R)
    \/ Shutdown

SwarmEvent ==
    \/ \E c \in ConnId, p \in Peer : \E a \in AddrOf[p] : Established(c, p, a)
    \/ \E c \in ConnId : Closed(c)
    \/ \E c \in ConnId : Handshake(c)
    \/ \E c \in ConnId, a \in Addr : AddressChange(c, a)
    \/ \E c \in ConnId : HandshakeReceived(c)
    \/ \E p \in Peer, ok \in BOOLEAN : Identify(p, ok)
    \/ \E a \in Addr : OutgoingConnectionError(a)

Next ==
    \/ SwarmEvent
    \/ Command
    \/ \E l \in loops : LoopEnds(l)
    \/ StickyTick
    \/ \E a \in Sticky : DialGrowsStale(a)

Spec == Init /\ [][Next]_vars

-----------------------------------------------------------------------------
(* A peer has at most one peer loop, and the set the gateway and the actor  *)
(* consult holds exactly the peers that have one: whatever connections race *)
(* to finish their handshakes, and whenever a loop ends between (the        *)
(* check-and-insert of spawn_peer_loop and the assertion at a loop's end).  *)
OneLoopPerPeer ==
    /\ upgraded = {l.peer : l \in loops}
    /\ \A l, m \in loops : l.peer = m.peer => l = m

(* A connection that nobody is closing belongs to a tracked peer: bounces,  *)
(* evictions, bans and closed duplicates leave none behind that the limits  *)
(* do not count (ConnectionEstablished / ConnectionClosed book-keeping).    *)
OpenConnectionsTracked ==
    Running => \A c \in ConnId :
        conn[c] # NoConn /\ conn[c].st = "open" => conn[c].peer \in active

(* A tracked peer is connected: an entry of active_connections never        *)
(* outlives the peer's last connection, so no slot is lost to a ghost.      *)
TrackedAreConnected ==
    Running => \A p \in active : ConnsOf(p) # {}

(* The tracked peers never exceed --max-num-peers (should_bounce).          *)
WithinCapacity == Running => Cardinality(active) <= maxPeers

(* The recorded addresses of a tracked peer name connections it still has.  *)
RecordsAreLive ==
    Running => \A p \in Peer : \A e \in known[p] : e[1] \in ConnsOf(p)

(* The actor's tables follow the swarm: the tracked peers are connected and  *)
(* within the limit, no open connection goes untracked, and the recorded     *)
(* addresses name live connections (the book-keeping of the connection       *)
(* events, whatever bounces, evictions, bans and duplicates come between).   *)
TableFollowsSwarm ==
    OpenConnectionsTracked /\ TrackedAreConnected /\ RecordsAreLive /\ WithinCapacity

(* A step that bans for a peer never bans an ip that only relays use (the   *)
(* Ban command ignores circuit addresses "to avoid banning relay servers"). *)
RelaysStayUnbanned ==
    [][\A p \in Peer : BanPeer(p) =>
          \A ip \in banned' \ banned : \E a \in Addr : a.via = "direct" /\ a.ip = ip]_vars
=============================================================================
