------------------------- MODULE NetworkActor_proofs -------------------------
(***************************************************************************)
(* Proofs about NetworkActor, for any peers, connections and addresses and *)
(* any limit, and about AddressBook, for any size.                         *)
(***************************************************************************)
EXTENDS NetworkActor, AddressBook, FiniteSetTheorems, TLAPS

(* What the records and the book hold.                                     *)
Records ==
    /\ conn \in [ConnId -> ConnState \cup {NoConn}]
    /\ known \in [Peer -> SUBSET (ConnId \X Addr)]
    /\ book \in [Peer -> SUBSET Addr]
    /\ actor \in {"running", "stopped", "crashed"}

(* The inductive invariant: the gateway's set and the loops agree, and     *)
(* while the actor handles events each record is of a connection there is. *)
NInv ==
    /\ Records
    /\ OneLoopPerPeer
    /\ Running => \A p \in Peer : \A e \in known[p] : conn[e[1]] # NoConn /\ conn[e[1]].peer = p

-----------------------------------------------------------------------------
(* Addresses of peers are addresses.                                       *)
LEMMA AddrOfPeer == \A p \in Peer : AddrOf[p] \subseteq Addr
BY Zenon DEF Addr

(* The records are empty at the start.                                        *)
LEMMA NInvInit == Init => NInv
<1> SUFFICES ASSUME Init PROVE NInv
  BY Zenon
<1>1. Records
  BY Zenon DEF Init, Records
<1>2. OneLoopPerPeer
  BY Zenon DEF Init, OneLoopPerPeer
<1> QED
  BY <1>1, <1>2, Zenon DEF Init, NInv

(* A disconnect starts to close connections; it neither opens nor renames  *)
(* one.                                                                    *)
LEMMA DisconnectedKeeps ==
    ASSUME NInv, NEW R, conn' = Disconnected(R)
    PROVE  /\ conn' \in [ConnId -> ConnState \cup {NoConn}]
           /\ \A c \in ConnId : conn[c] # NoConn =>
                 conn'[c] # NoConn /\ conn'[c].peer = conn[c].peer
<1>1. conn \in [ConnId -> ConnState \cup {NoConn}]
  BY Zenon DEF NInv, Records
<1>2. \A r \in ConnState : /\ [r EXCEPT !.st = "closing"] \in ConnState
                           /\ [r EXCEPT !.st = "closing"].peer = r.peer
  BY Zenon DEF ConnState
<1> DEFINE f(c) == IF conn[c] # NoConn /\ conn[c].peer \in R
                   THEN [conn[c] EXCEPT !.st = "closing"] ELSE conn[c]
<1>3. \A c \in ConnId : /\ f(c) \in ConnState \cup {NoConn}
                        /\ conn[c] # NoConn => f(c) # NoConn /\ f(c).peer = conn[c].peer
  BY <1>1, <1>2, NetworkActorAssumption, Zenon
<1>4. conn' = [c \in ConnId |-> f(c)]
  BY Zenon DEF Disconnected
<1> HIDE DEF f
<1> QED
  BY <1>3, <1>4, Zenon

(* A new connection, a duplicate or one over the limit keeps the invariant.   *)
LEMMA EstablishedKeeps ==
    ASSUME NInv, NEW c \in ConnId, NEW p \in Peer, NEW a \in AddrOf[p], Established(c, p, a)
    PROVE  NInv'
<1>1. OneLoopPerPeer'
  BY Zenon DEF Established, NInv, OneLoopPerPeer
<1>2. PICK state \in {"open", "closing"} :
        conn' = [conn EXCEPT ![c] = [peer |-> p, addr |-> a, hs |-> "none", st |-> state]]
  BY Zenon DEF Established
<1> DEFINE new == [peer |-> p, addr |-> a, hs |-> "none", st |-> state]
<1>3. new \in ConnState /\ new.peer = p
  BY AddrOfPeer, Zenon DEF ConnState
<1>4. conn \in [ConnId -> ConnState \cup {NoConn}] /\ known \in [Peer -> SUBSET (ConnId \X Addr)]
  BY Zenon DEF NInv, Records
<1>5. conn' \in [ConnId -> ConnState \cup {NoConn}] /\ conn'[c] = new
      /\ \A d \in ConnId : d # c => conn'[d] = conn[d]
  BY <1>2, <1>3, <1>4, Zenon
<1>6. known' = known \/ known' = [known EXCEPT ![p] = {<<c, a>>}]
  BY Zenon DEF Established
<1>7. a \in Addr
  BY AddrOfPeer, Zenon
<1>8. known' \in [Peer -> SUBSET (ConnId \X Addr)]
  BY <1>4, <1>6, <1>7
<1>9. Records'
  BY <1>5, <1>8, Zenon DEF NInv, Records, Established
<1>10. ASSUME NEW q \in Peer, NEW e \in known'[q]
       PROVE  conn'[e[1]] # NoConn /\ conn'[e[1]].peer = q
  <2>1. CASE e \in known[q]
    <3>1. conn[e[1]] # NoConn /\ conn[e[1]].peer = q /\ e[1] \in ConnId
      BY <2>1, <1>4 DEF NInv, Established
    <3>2. e[1] # c
      BY <3>1, Zenon DEF Established
    <3> QED
      BY <3>1, <3>2, <1>5, Zenon
  <2>2. CASE e \notin known[q]
    <3>1. q = p /\ e = <<c, a>>
      BY <2>2, <1>10, <1>6, <1>4, Zenon
    <3> QED
      BY <3>1, <1>3, <1>5, NetworkActorAssumption, Zenon
  <2> QED
    BY <2>1, <2>2, Zenon
<1> QED
  BY <1>1, <1>9, <1>10, Zenon DEF NInv

(* The end of a connection keeps the invariant.                               *)
LEMMA ClosedKeeps ==
    ASSUME NInv, NEW c \in ConnId, Closed(c)
    PROVE  NInv'
<1> DEFINE p == conn[c].peer
<1>1. OneLoopPerPeer'
  BY Zenon DEF Closed, NInv, OneLoopPerPeer
<1>2. conn \in [ConnId -> ConnState \cup {NoConn}] /\ known \in [Peer -> SUBSET (ConnId \X Addr)]
      /\ p \in Peer
  BY Zenon DEF NInv, Records, Closed, ConnState
<1>3. conn' = [conn EXCEPT ![c] = NoConn]
  BY Zenon DEF Closed
<1>4. \/ known' = [known EXCEPT ![p] = {e \in @ : e[1] # c}]
      \/ known' = [q \in Peer |-> IF q \in {p} THEN {} ELSE known[q]]
  BY Zenon DEF Closed, Forget
<1>5. known' \in [Peer -> SUBSET (ConnId \X Addr)]
      /\ \A q \in Peer : known'[q] \subseteq known[q] /\ \A e \in known'[p] : e[1] # c
  BY <1>2, <1>4
<1>6. Records'
  BY <1>2, <1>3, <1>5, Zenon DEF NInv, Records, Closed
<1>7. ASSUME NEW q \in Peer, NEW e \in known'[q]
      PROVE  conn'[e[1]] # NoConn /\ conn'[e[1]].peer = q
  <2>1. conn[e[1]] # NoConn /\ conn[e[1]].peer = q /\ e[1] \in ConnId
    BY <1>2, <1>5 DEF NInv, Closed
  <2>2. e[1] # c
    BY <2>1, <1>5, Zenon
  <2> QED
    BY <2>1, <2>2, <1>2, <1>3, Zenon
<1> QED
  BY <1>1, <1>6, <1>7, Zenon DEF NInv

(* One connection's address or handshake changes; the connection stays.     *)
LEMMA OneConnKeeps ==
    ASSUME NInv, NEW c \in ConnId, conn[c] # NoConn, NEW r \in ConnState, r.peer = conn[c].peer,
           conn' = [conn EXCEPT ![c] = r], UNCHANGED <<known, book>>,
           actor' \in {"running", "stopped", "crashed"}, Running' => Running
    PROVE  /\ Records'
           /\ Running' => \A p \in Peer : \A e \in known'[p] : conn'[e[1]] # NoConn /\ conn'[e[1]].peer = p
<1>1. conn \in [ConnId -> ConnState \cup {NoConn}] /\ known \in [Peer -> SUBSET (ConnId \X Addr)]
  BY Zenon DEF NInv, Records
<1>2. Records'
  BY <1>1, Zenon DEF NInv, Records
<1>3. \A d \in ConnId : conn[d] # NoConn => conn'[d] # NoConn /\ conn'[d].peer = conn[d].peer
  BY <1>1, NetworkActorAssumption, Zenon
<1> QED
  BY <1>1, <1>2, <1>3 DEF NInv

(* spawn_peer_loop: check and insert are one step.                          *)
LEMMA HandshakeReceivedKeeps ==
    ASSUME NInv, NEW c \in ConnId, HandshakeReceived(c)
    PROVE  NInv'
<1> DEFINE p == conn[c].peer
           r == [conn[c] EXCEPT !.hs = "done"]
<1>1. conn[c] \in ConnState /\ conn[c] # NoConn
  BY Zenon DEF HandshakeReceived, NInv, Records
<1>2. r \in ConnState /\ r.peer = p
  BY <1>1, Zenon DEF ConnState
<1>3. conn' = [conn EXCEPT ![c] = r] /\ UNCHANGED <<known, book>> /\ Running
      /\ actor' \in {"running", "stopped", "crashed"}
  BY Zenon DEF HandshakeReceived, NInv, Records
<1>4. OneLoopPerPeer'
  <2>1. CASE p \notin active \/ p \in upgraded
    <3>1. loops' = loops /\ upgraded' = upgraded
      BY <2>1, Zenon DEF HandshakeReceived
    <3> QED
      BY <3>1, Zenon DEF NInv, OneLoopPerPeer
  <2>2. CASE p \in active /\ p \notin upgraded
    <3> DEFINE new == [peer |-> p, conn |-> c, over |-> conn[c].addr]
    <3>1. loops' = loops \cup {new} /\ upgraded' = upgraded \cup {p} /\ new.peer = p
      BY <2>2, Zenon DEF HandshakeReceived
    <3>2. upgraded = {l.peer : l \in loops} /\ \A l, m \in loops : l.peer = m.peer => l = m
      BY Zenon DEF NInv, OneLoopPerPeer
    <3>3. \A l \in loops : l.peer # p
      BY <3>2, <2>2, Zenon
    <3> HIDE DEF new
    <3>4. upgraded' = {l.peer : l \in loops'}
      BY <3>1, <3>2, Zenon
    <3>5. \A l, m \in loops' : l.peer = m.peer => l = m
      BY <3>1, <3>2, <3>3, Zenon
    <3> QED
      BY <3>4, <3>5, Zenon DEF OneLoopPerPeer
  <2> QED
    BY <2>1, <2>2, Zenon
<1> HIDE DEF r
<1>5. /\ Records'
      /\ Running' => \A q \in Peer : \A e \in known'[q] : conn'[e[1]] # NoConn /\ conn'[e[1]].peer = q
  BY <1>1, <1>2, <1>3, OneConnKeeps, Zenon
<1> QED
  BY <1>4, <1>5, Zenon DEF NInv

(* A loop's end takes its peer, and no other, out of the upgraded set.      *)
LEMMA LoopEndsKeeps ==
    ASSUME NInv, NEW l \in loops, LoopEnds(l)
    PROVE  NInv'
<1>1. upgraded = {m.peer : m \in loops} /\ \A k, m \in loops : k.peer = m.peer => k = m
  BY Zenon DEF NInv, OneLoopPerPeer
<1>2. loops' = loops \ {l} /\ upgraded' = upgraded \ {l.peer} /\ UNCHANGED <<conn, known, book, actor>>
  BY Zenon DEF LoopEnds
<1>3. OneLoopPerPeer'
  <2>1. upgraded' = {m.peer : m \in loops'}
    BY <1>1, <1>2, Zenon
  <2>2. \A k, m \in loops' : k.peer = m.peer => k = m
    BY <1>1, <1>2, Zenon
  <2> QED
    BY <2>1, <2>2, Zenon DEF OneLoopPerPeer
<1> QED
  BY <1>2, <1>3, Zenon DEF NInv, Records, Running

(* Handshakes under way and addresses that change.                          *)
LEMMA ConnectionTasksKeep ==
    ASSUME NInv, NEW c \in ConnId, Handshake(c) \/ \E a \in Addr : AddressChange(c, a)
    PROVE  NInv'
<1>1. conn[c] \in ConnState /\ conn[c] # NoConn
  BY Zenon DEF Handshake, AddressChange, NInv, Records
<1>2. UNCHANGED <<known, book, actor, upgraded, loops>>
  BY Zenon DEF Handshake, AddressChange
<1>3. PICK r \in ConnState : r.peer = conn[c].peer /\ conn' = [conn EXCEPT ![c] = r]
  <2>1. CASE Handshake(c)
    <3>1. [conn[c] EXCEPT !.hs = "flight"] \in ConnState
          /\ [conn[c] EXCEPT !.hs = "flight"].peer = conn[c].peer
      BY <1>1, Zenon DEF ConnState
    <3> QED
      BY <2>1, <3>1, Zenon DEF Handshake
  <2>2. ASSUME NEW a \in Addr, AddressChange(c, a)
        PROVE  \E r \in ConnState : r.peer = conn[c].peer /\ conn' = [conn EXCEPT ![c] = r]
    <3>1. [conn[c] EXCEPT !.addr = a] \in ConnState
          /\ [conn[c] EXCEPT !.addr = a].peer = conn[c].peer
      BY <1>1, Zenon DEF ConnState
    <3> QED
      BY <2>2, <3>1, Zenon DEF AddressChange
  <2> QED
    BY <2>1, <2>2, Zenon
<1>4. actor' \in {"running", "stopped", "crashed"} /\ (Running' => Running)
  BY <1>2, Zenon DEF NInv, Records, Running
<1>5. /\ Records'
      /\ Running' => \A q \in Peer : \A e \in known'[q] : conn'[e[1]] # NoConn /\ conn'[e[1]].peer = q
  BY <1>1, <1>2, <1>3, <1>4, OneConnKeeps, Zenon
<1>6. OneLoopPerPeer'
  BY <1>2, Zenon DEF NInv, OneLoopPerPeer
<1> QED
  BY <1>5, <1>6, Zenon DEF NInv

(* Everything else at most starts to close connections and forgets peers.   *)
LEMMA EventKeeps ==
    ASSUME NInv, UNCHANGED <<upgraded, loops>>, Running' => Running,
           actor' \in {"running", "stopped", "crashed"}, book' \in [Peer -> SUBSET Addr],
           conn' = conn \/ \E R : conn' = Disconnected(R),
           known' = known \/ \E R : known' = [p \in Peer |-> IF p \in R THEN {} ELSE known[p]]
    PROVE  NInv'
<1>1. conn \in [ConnId -> ConnState \cup {NoConn}] /\ known \in [Peer -> SUBSET (ConnId \X Addr)]
  BY Zenon DEF NInv, Records
<1>2. /\ conn' \in [ConnId -> ConnState \cup {NoConn}]
      /\ \A c \in ConnId : conn[c] # NoConn => conn'[c] # NoConn /\ conn'[c].peer = conn[c].peer
  <2>1. CASE conn' = conn
    BY <2>1, <1>1, Zenon
  <2>2. ASSUME NEW R, conn' = Disconnected(R)
        PROVE  /\ conn' \in [ConnId -> ConnState \cup {NoConn}]
               /\ \A c \in ConnId : conn[c] # NoConn => conn'[c] # NoConn /\ conn'[c].peer = conn[c].peer
    BY <2>2, DisconnectedKeeps, Zenon
  <2> QED
    BY <2>1, <2>2, Zenon
<1>3. known' \in [Peer -> SUBSET (ConnId \X Addr)] /\ \A p \in Peer : known'[p] \subseteq known[p]
  BY <1>1, Zenon
<1>4. Records'
  BY <1>2, <1>3, Zenon DEF Records
<1>5. ASSUME Running', NEW p \in Peer, NEW e \in known'[p]
      PROVE  conn'[e[1]] # NoConn /\ conn'[e[1]].peer = p
  <2>1. conn[e[1]] # NoConn /\ conn[e[1]].peer = p /\ e[1] \in ConnId
    BY <1>1, <1>3, <1>5 DEF NInv
  <2> QED
    BY <2>1, <1>2, Zenon
<1>6. OneLoopPerPeer'
  BY Zenon DEF NInv, OneLoopPerPeer
<1> QED
  BY <1>4, <1>5, <1>6, Zenon DEF NInv

(* The commands of the main loop keep the invariant.                          *)
LEMMA CommandsKeep ==
    ASSUME NInv,
           \/ \E p \in Peer, ok \in BOOLEAN : Identify(p, ok)
           \/ \E a \in Addr : OutgoingConnectionError(a) \/ DialCommand(a)
           \/ \E p \in Peer : BanPeer(p)
           \/ \E R \in SUBSET Peer : ResetRelayPeers(R)
           \/ SetBans \/ Shutdown \/ StickyTick \/ \E a \in Sticky : DialGrowsStale(a)
    PROVE  NInv'
<1>1. UNCHANGED <<upgraded, loops>>
  BY Zenon DEF Identify, OutgoingConnectionError, DialCommand, BanPeer, ResetRelayPeers, SetBans,
         Shutdown, StickyTick, DialGrowsStale
<1>2. actor' \in {"running", "stopped", "crashed"} /\ (Running' => Running)
  BY Zenon DEF Identify, OutgoingConnectionError, DialCommand, BanPeer, ResetRelayPeers, SetBans,
         Shutdown, StickyTick, DialGrowsStale, NInv, Records, Running
<1>3. book' \in [Peer -> SUBSET Addr]
  <2>1. CASE \E p \in Peer, ok \in BOOLEAN : Identify(p, ok)
    BY <2>1, AddrOfPeer DEF Identify, NInv, Records
  <2>2. CASE book' = book
    BY <2>2, Zenon DEF NInv, Records
  <2> QED
    BY <2>1, <2>2, Zenon DEF OutgoingConnectionError, DialCommand, BanPeer, ResetRelayPeers, SetBans,
         Shutdown, StickyTick, DialGrowsStale
<1>4. conn' = conn \/ \E R : conn' = Disconnected(R)
  BY Zenon DEF Identify, OutgoingConnectionError, DialCommand, BanPeer, ResetRelayPeers, SetBans,
         Shutdown, StickyTick, DialGrowsStale, Evict
<1>5. known' = known \/ \E R : known' = [p \in Peer |-> IF p \in R THEN {} ELSE known[p]]
  <2>1. known' = known \/ \E R : Forget(R)
    BY Zenon DEF Identify, OutgoingConnectionError, DialCommand, BanPeer, ResetRelayPeers, SetBans,
           Shutdown, StickyTick, DialGrowsStale, Evict
  <2>2. ASSUME NEW R, Forget(R)
        PROVE  known' = [p \in Peer |-> IF p \in R THEN {} ELSE known[p]]
    BY <2>2, Zenon DEF Forget
  <2> QED
    BY <2>1, <2>2, Zenon
<1> QED
  BY <1>1, <1>2, <1>3, <1>4, <1>5, EventKeeps, Zenon

(* Every step keeps the invariant.                                            *)
LEMMA NInvStep == NInv /\ [Next]_vars => NInv'
<1> SUFFICES ASSUME NInv, [Next]_vars PROVE NInv'
  BY Zenon
<1>1. CASE UNCHANGED vars
  BY <1>1, Zenon DEF vars, NInv, Records, OneLoopPerPeer, Running
<1>2. CASE SwarmEvent
  BY <1>2, EstablishedKeeps, ClosedKeeps, HandshakeReceivedKeeps, ConnectionTasksKeep,
     CommandsKeep, Zenon DEF SwarmEvent
<1>3. CASE Command
  BY <1>3, CommandsKeep, Zenon DEF Command
<1>4. CASE \E l \in loops : LoopEnds(l)
  BY <1>4, LoopEndsKeeps, Zenon
<1>5. CASE StickyTick \/ \E a \in Sticky : DialGrowsStale(a)
  BY <1>5, CommandsKeep, Zenon
<1> QED
  BY <1>1, <1>2, <1>3, <1>4, <1>5, Zenon DEF Next

-----------------------------------------------------------------------------
(* The tables beside the swarm: what makes TableFollowsSwarm inductive is  *)
(* that only peers are tracked and that the limit is a number.             *)
TInv ==
    /\ active \subseteq Peer /\ maxPeers \in Nat
    /\ OpenConnectionsTracked /\ TrackedAreConnected /\ WithinCapacity

(* The tables are empty at the start.                                         *)
LEMMA TInvInit == Init => TInv
<1> SUFFICES ASSUME Init PROVE TInv
  BY Zenon
<1>1. active = {} /\ maxPeers = MaxPeers /\ \A c \in ConnId : conn[c] = NoConn
  BY Zenon DEF Init
<1>2. Cardinality(active) = 0 /\ MaxPeers \in Nat
  BY <1>1, FS_EmptySet, NetworkActorAssumption, Zenon
<1> QED
  BY <1>1, <1>2 DEF TInv, OpenConnectionsTracked, TrackedAreConnected, WithinCapacity

(* The table is a finite set of peers and counts as one.                   *)
LEMMA ActiveIsFinite ==
    ASSUME TInv
    PROVE  IsFiniteSet(active) /\ Cardinality(active) \in Nat
<1>1. IsFiniteSet(active)
  BY NetworkActorAssumption, FS_Subset, Zenon DEF TInv
<1> QED
  BY <1>1, FS_CardinalityType, Zenon

(* A new connection is open only if its peer is tracked, and a peer is     *)
(* added only below the limit.                                             *)
LEMMA EstablishedFollows ==
    ASSUME NInv, TInv, NEW c \in ConnId, NEW p \in Peer, NEW a \in AddrOf[p], Established(c, p, a)
    PROVE  TInv'
<1>1. PICK state \in {"open", "closing"} :
        /\ conn' = [conn EXCEPT ![c] = [peer |-> p, addr |-> a, hs |-> "none", st |-> state]]
        /\ state = IF p \notin active /\ ShouldBounce(a) THEN "closing" ELSE "open"
  BY Zenon DEF Established
<1> DEFINE new == [peer |-> p, addr |-> a, hs |-> "none", st |-> state]
<1>2. new \in ConnState /\ new.peer = p /\ new.st = state /\ new # NoConn
  BY AddrOfPeer, NetworkActorAssumption DEF ConnState
<1>3. conn'[c] = new /\ \A d \in ConnId : d # c => conn'[d] = conn[d]
  BY <1>1, Zenon DEF NInv, Records
<1> HIDE DEF new
<1>4. conn[c] = NoConn /\ Running /\ maxPeers' = maxPeers
  BY Zenon DEF Established
<1>5. \/ active' = active /\ (p \in active \/ state = "closing")
      \/ active' = active \cup {p} /\ p \notin active /\ ~ShouldBounce(a)
  BY <1>1, Zenon DEF Established
<1>6. active' \subseteq Peer /\ maxPeers' \in Nat /\ active \subseteq active'
  BY <1>4, <1>5, Zenon DEF TInv
<1>7. OpenConnectionsTracked'
  BY <1>2, <1>3, <1>4, <1>5, <1>6, Zenon DEF TInv, OpenConnectionsTracked
<1>8. TrackedAreConnected'
  <2>1. \A q \in Peer : ConnsOf(q) \subseteq ConnsOf(q)'
    BY <1>3, <1>4, Zenon DEF ConnsOf
  <2>2. c \in ConnsOf(p)'
    BY <1>2, <1>3, Zenon DEF ConnsOf
  <2> QED
    BY <2>1, <2>2, <1>4, <1>5, Zenon DEF TInv, TrackedAreConnected
<1>9. WithinCapacity'
  <2>1. CASE active' = active
    BY <2>1, <1>4, Zenon DEF TInv, WithinCapacity
  <2>2. CASE active' = active \cup {p} /\ p \notin active /\ ~ShouldBounce(a)
    <3>1. Cardinality(active') = Cardinality(active) + 1
      BY <2>2, ActiveIsFinite, FS_AddElement, Zenon
    <3>2. Cardinality(active) < maxPeers
      BY <2>2, ActiveIsFinite DEF ShouldBounce, TInv
    <3> QED
      BY <3>1, <3>2, <1>4, ActiveIsFinite DEF WithinCapacity, TInv
  <2> QED
    BY <1>5, <2>1, <2>2, Zenon
<1> QED
  BY <1>6, <1>7, <1>8, <1>9, Zenon DEF TInv

(* Fewer tracked peers stay within the limit.                              *)
LEMMA FewerStayWithin ==
    ASSUME TInv, active' \subseteq active, Running' => Running /\ maxPeers' = maxPeers
    PROVE  WithinCapacity'
<1>1. Cardinality(active') <= Cardinality(active) /\ Cardinality(active') \in Nat
  BY ActiveIsFinite, FS_Subset, FS_CardinalityType, Zenon
<1> QED
  BY <1>1, ActiveIsFinite DEF TInv, WithinCapacity

(* A peer is forgotten with its last connection, and not before.           *)
LEMMA ClosedFollows ==
    ASSUME NInv, TInv, NEW c \in ConnId, Closed(c)
    PROVE  TInv'
<1>1. PICK p \in Peer : p = conn[c].peer
  BY Zenon DEF Closed, NInv, Records, ConnState
<1>2. /\ conn'[c] = NoConn /\ \A d \in ConnId : d # c => conn'[d] = conn[d]
      /\ conn[c] # NoConn /\ Running /\ maxPeers' = maxPeers
  BY Zenon DEF Closed, NInv, Records
<1>3. \/ ConnsOf(p) # {c} /\ active' = active
      \/ ConnsOf(p) = {c} /\ active' = active \ {p}
  BY <1>1, Zenon DEF Closed, Forget
<1>4. /\ c \in ConnsOf(p) /\ \A q \in Peer : ConnsOf(q) \ {c} \subseteq ConnsOf(q)'
      /\ \A q \in Peer : q # p => c \notin ConnsOf(q)
  BY <1>1, <1>2, Zenon DEF ConnsOf
<1>5. active' \subseteq active /\ active' \subseteq Peer /\ maxPeers' \in Nat
  BY <1>2, <1>3, Zenon DEF TInv
<1>6. OpenConnectionsTracked'
  <2> SUFFICES ASSUME NEW d \in ConnId, conn'[d] # NoConn, conn'[d].st = "open"
               PROVE  conn'[d].peer \in active'
    BY Zenon DEF OpenConnectionsTracked
  <2>1. d # c /\ conn[d] = conn'[d] /\ conn[d].peer \in active
    BY <1>2, Zenon DEF TInv, OpenConnectionsTracked
  <2>2. conn[d].peer = p => ConnsOf(p) # {c}
    BY <2>1, Zenon DEF ConnsOf
  <2> QED
    BY <2>1, <2>2, <1>3
<1>7. TrackedAreConnected'
  <2> SUFFICES ASSUME NEW q \in active' PROVE ConnsOf(q)' # {}
    BY Zenon DEF TrackedAreConnected
  <2>1. q \in Peer /\ q \in active /\ ConnsOf(q) # {}
    BY <1>2, <1>5, Zenon DEF TInv, TrackedAreConnected
  <2>2. ConnsOf(q) \ {c} # {}
    BY <2>1, <1>3, <1>4, Zenon
  <2> QED
    BY <2>1, <2>2, <1>4, Zenon
<1>8. WithinCapacity'
  BY <1>2, <1>5, FewerStayWithin, Zenon
<1> QED
  BY <1>5, <1>6, <1>7, <1>8, Zenon DEF TInv

(* A connection's address or its handshake changes; it stays as open as it *)
(* was.                                                                    *)
LEMMA OneConnFollows ==
    ASSUME NInv, TInv, NEW c \in ConnId, conn[c] # NoConn, NEW r \in ConnState,
           r.peer = conn[c].peer, r.st = conn[c].st, conn' = [conn EXCEPT ![c] = r],
           UNCHANGED <<active, maxPeers>>, Running' => Running
    PROVE  TInv'
<1>1. /\ conn'[c] = r /\ r # NoConn
      /\ \A d \in ConnId : d # c => conn'[d] = conn[d]
  BY NetworkActorAssumption, Zenon DEF NInv, Records
<1>2. OpenConnectionsTracked'
  BY <1>1 DEF TInv, OpenConnectionsTracked
<1>3. \A q \in Peer : ConnsOf(q) \subseteq ConnsOf(q)'
  BY <1>1, Zenon DEF ConnsOf
<1>4. TrackedAreConnected'
  BY <1>3, Zenon DEF TInv, TrackedAreConnected
<1>5. WithinCapacity'
  BY FewerStayWithin, Zenon
<1> QED
  BY <1>2, <1>4, <1>5, Zenon DEF TInv

(* Streams and peer loops leave the table of connections alone.               *)
LEMMA StreamsFollow ==
    ASSUME NInv, TInv, NEW c \in ConnId,
           Handshake(c) \/ HandshakeReceived(c) \/ \E a \in Addr : AddressChange(c, a)
    PROVE  TInv'
<1>1. conn[c] \in ConnState /\ conn[c] # NoConn
  BY Zenon DEF Handshake, HandshakeReceived, AddressChange, NInv, Records
<1>2. UNCHANGED <<active, maxPeers>> /\ (Running' => Running)
  BY Zenon DEF Handshake, HandshakeReceived, AddressChange, Running
<1>3. PICK r \in ConnState : /\ r.peer = conn[c].peer /\ r.st = conn[c].st
                             /\ conn' = [conn EXCEPT ![c] = r]
  <2>1. \A hs \in {"flight", "done"} :
          /\ [conn[c] EXCEPT !.hs = hs] \in ConnState
          /\ [conn[c] EXCEPT !.hs = hs].peer = conn[c].peer
          /\ [conn[c] EXCEPT !.hs = hs].st = conn[c].st
    BY <1>1, Zenon DEF ConnState
  <2>2. \A a \in Addr :
          /\ [conn[c] EXCEPT !.addr = a] \in ConnState
          /\ [conn[c] EXCEPT !.addr = a].peer = conn[c].peer
          /\ [conn[c] EXCEPT !.addr = a].st = conn[c].st
    BY <1>1, Zenon DEF ConnState
  <2>3. CASE Handshake(c) \/ HandshakeReceived(c)
    BY <2>1, <2>3, Zenon DEF Handshake, HandshakeReceived
  <2>4. CASE \E a \in Addr : AddressChange(c, a)
    BY <2>2, <2>4, Zenon DEF AddressChange
  <2> QED
    BY <2>3, <2>4, Zenon
<1> QED
  BY <1>1, <1>2, <1>3, OneConnFollows, Zenon

(* Whoever is disconnected stays connected until the closure is reported;  *)
(* only peers that are disconnected are forgotten ahead of it.             *)
LEMMA EventFollows ==
    ASSUME NInv, TInv, NEW R, NEW S, S \subseteq R, conn' = Disconnected(R), active' = active \ S,
           Running' => Running /\ maxPeers' = maxPeers, maxPeers' \in Nat
    PROVE  TInv'
<1>1. conn \in [ConnId -> ConnState \cup {NoConn}]
  BY Zenon DEF NInv, Records
<1>2. \A r \in ConnState : /\ [r EXCEPT !.st = "closing"] \in ConnState
                           /\ [r EXCEPT !.st = "closing"].peer = r.peer
                           /\ [r EXCEPT !.st = "closing"].st = "closing"
  BY Zenon DEF ConnState
<1> DEFINE f(c) == IF conn[c] # NoConn /\ conn[c].peer \in R
                   THEN [conn[c] EXCEPT !.st = "closing"] ELSE conn[c]
<1>3. \A c \in ConnId :
        /\ conn[c] # NoConn => f(c) # NoConn /\ f(c).peer = conn[c].peer
        /\ f(c) # NoConn /\ f(c).st = "open" => f(c) = conn[c] /\ f(c).peer \notin R
  BY <1>1, <1>2, NetworkActorAssumption, Zenon
<1>4. conn' = [c \in ConnId |-> f(c)]
  BY Zenon DEF Disconnected
<1> HIDE DEF f
<1>5. \A c \in ConnId :
        /\ conn[c] # NoConn => conn'[c] # NoConn /\ conn'[c].peer = conn[c].peer
        /\ conn'[c] # NoConn /\ conn'[c].st = "open" => conn'[c] = conn[c] /\ conn'[c].peer \notin R
  BY <1>3, <1>4, Zenon
<1>6. OpenConnectionsTracked'
  BY <1>5, Zenon DEF TInv, OpenConnectionsTracked
<1>7. \A q \in Peer : ConnsOf(q) \subseteq ConnsOf(q)'
  BY <1>5, Zenon DEF ConnsOf
<1>8. TrackedAreConnected'
  BY <1>7, Zenon DEF TInv, TrackedAreConnected
<1>9. WithinCapacity'
  BY FewerStayWithin, Zenon
<1> QED
  BY <1>6, <1>8, <1>9, Zenon DEF TInv

(* No one is disconnected: the connections stay as they are.               *)
LEMMA NobodyDisconnected ==
    ASSUME NInv, conn' = conn
    PROVE  conn' = Disconnected({})
<1>1. conn = [c \in ConnId |-> conn[c]]
  BY Zenon DEF NInv, Records
<1> QED
  BY <1>1, Zenon DEF Disconnected

(* After the commands of the main loop the table still follows the swarm.     *)
LEMMA CommandsFollow ==
    ASSUME NInv, TInv,
           \/ \E p \in Peer, ok \in BOOLEAN : Identify(p, ok)
           \/ \E a \in Addr : OutgoingConnectionError(a) \/ DialCommand(a)
           \/ \E p \in Peer : BanPeer(p)
           \/ \E R \in SUBSET Peer : ResetRelayPeers(R)
           \/ SetBans \/ Shutdown \/ StickyTick \/ \E a \in Sticky : DialGrowsStale(a)
           \/ \E l \in loops : LoopEnds(l)
    PROVE  TInv'
<1>1. (Running' => Running /\ maxPeers' = maxPeers) /\ maxPeers' \in Nat
  <2>1. CASE Shutdown
    BY <2>1, Zenon DEF Shutdown, Running
  <2>2. CASE UNCHANGED <<actor, maxPeers>>
    BY <2>2, Zenon DEF Running, TInv
  <2>3. Shutdown \/ UNCHANGED <<actor, maxPeers>>
    BY Zenon DEF Identify, OutgoingConnectionError, DialCommand, BanPeer, ResetRelayPeers, SetBans,
           StickyTick, DialGrowsStale, LoopEnds
  <2> QED
    BY <2>1, <2>2, <2>3, Zenon
<1>2. \/ \E R : conn' = Disconnected(R) /\ active' = active
      \/ \E R : conn' = Disconnected(R) /\ active' = active \ R
      \/ conn' = conn /\ active' = active
  BY Zenon DEF Identify, OutgoingConnectionError, DialCommand, BanPeer, ResetRelayPeers, SetBans,
         Shutdown, StickyTick, DialGrowsStale, LoopEnds, Evict, Forget
<1>3. \E R, S : S \subseteq R /\ conn' = Disconnected(R) /\ active' = active \ S
  <2>1. active = active \ {}
    BY Zenon
  <2>2. CASE conn' = conn /\ active' = active
    BY <2>1, <2>2, NobodyDisconnected, Zenon
  <2>3. CASE \E R : conn' = Disconnected(R) /\ active' = active
    BY <2>1, <2>3, Zenon
  <2>4. CASE \E R : conn' = Disconnected(R) /\ active' = active \ R
    BY <2>4, Zenon
  <2> QED
    BY <1>2, <2>2, <2>3, <2>4, Zenon
<1> QED
  BY <1>1, <1>3, EventFollows, Zenon

(* Every step keeps the table in step with the swarm.                         *)
LEMMA TInvStep == NInv /\ TInv /\ [Next]_vars => TInv'
<1> SUFFICES ASSUME NInv, TInv, [Next]_vars PROVE TInv'
  BY Zenon
<1>1. CASE UNCHANGED vars
  BY <1>1, Zenon DEF vars, TInv, OpenConnectionsTracked, TrackedAreConnected, WithinCapacity, ConnsOf,
              Running
<1>2. CASE SwarmEvent
  BY <1>2, EstablishedFollows, ClosedFollows, StreamsFollow, CommandsFollow, Zenon DEF SwarmEvent
<1>3. CASE Command
  BY <1>3, CommandsFollow, Zenon DEF Command
<1>4. CASE \/ \E l \in loops : LoopEnds(l)
           \/ StickyTick \/ \E a \in Sticky : DialGrowsStale(a)
  BY <1>4, CommandsFollow, Zenon
<1> QED
  BY <1>1, <1>2, <1>3, <1>4, Zenon DEF Next

(* A ban of a peer is of direct addresses that are recorded or in the book. *)
LEMMA BansStep ==
    ASSUME NInv, NEW p \in Peer, BanPeer(p), NEW ip \in banned' \ banned
    PROVE  \E a \in Addr : a.via = "direct" /\ a.ip = ip
<1>1. {e[2] : e \in known[p]} \cup book[p] \subseteq Addr
  BY DEF NInv, Records
<1>2. ip \in IpsOf({e[2] : e \in known[p]} \cup book[p])
  BY Zenon DEF BanPeer
<1> QED
  BY <1>1, <1>2, Zenon DEF IpsOf

-----------------------------------------------------------------------------
(* The invariant of the records always holds.                                 *)
LEMMA NInvAlways == Spec => []NInv
BY NInvInit, NInvStep, PTL DEF Spec

(* However many connections of a peer race through their handshakes, and    *)
(* whenever a loop ends in between, a peer has one peer loop at most and    *)
(* the set the gateway consults holds exactly the peers that have one       *)
(* (spawn_peer_loop).                                                       *)
THEOREM PeersHaveOneLoop == Spec => []OneLoopPerPeer
<1>1. NInv => OneLoopPerPeer
  BY Zenon DEF NInv
<1> QED
  BY <1>1, NInvAlways, PTL

(* The actor's tables follow the swarm through every order of connections, *)
(* closures, duplicates, bounces, evictions and bans: a connection nobody   *)
(* is closing belongs to a tracked peer, a tracked peer has a connection,   *)
(* the recorded addresses are of connections it still has, and the limit    *)
(* holds (ConnectionEstablished, ConnectionClosed, should_bounce).          *)
THEOREM TablesFollowTheSwarm == Spec => []TableFollowsSwarm
<1>1. NInv => RecordsAreLive
  BY DEF NInv, Records, RecordsAreLive, ConnsOf
<1>2. TInv => OpenConnectionsTracked /\ TrackedAreConnected /\ WithinCapacity
  BY Zenon DEF TInv
<1> QED
  BY <1>1, <1>2, NInvAlways, TInvInit, TInvStep, PTL DEF Spec, TableFollowsSwarm

(* A peer's ban never reaches an ip that is only known as a relay's: the    *)
(* recorded and the listen addresses that count are direct ones (Ban).      *)
THEOREM RelaysAreSpared == Spec => RelaysStayUnbanned
<1>1. NInv /\ [Next]_vars =>
        [\A p \in Peer : BanPeer(p) =>
            \A ip \in banned' \ banned : \E a \in Addr : a.via = "direct" /\ a.ip = ip]_vars
  BY BansStep, Zenon
<1> QED
  BY <1>1, NInvAlways, PTL DEF Spec, RelaysStayUnbanned

-----------------------------------------------------------------------------
(* The address book.                                                       *)

(* Books of entries: in memory, and in the file unless it cannot be read.  *)
Books == [BookPeer -> BookEntry \cup {NoEntry}]
BookTypes ==
    /\ clock \in Nat
    /\ entry \in Books
    /\ file \in Books \cup {NoEntry}

(* The book starts empty.                                                  *)
LEMMA BookTypesInit == BInit => BookTypes
BY DEF BInit, BookTypes, Books, Empty

(* Announcing a peer makes or renews its entry, and pruning keeps entries  *)
(* as they are.                                                            *)
LEMMA AnnouncedTypes ==
  ASSUME BookTypes, NEW x \in BookPeer, InsertOrUpdate(x)
  PROVE  BookTypes'
<1> DEFINE b == [entry EXCEPT ![x] = IF @ = NoEntry
                                     THEN [first |-> clock, last |-> clock, fails |-> 0]
                                     ELSE [@ EXCEPT !.last = clock]]
<1>1. b \in Books
  BY DEF BookTypes, Books, BookEntry
<1>2. PICK S \in Bests(b, MaxSize) : entry' = [q \in BookPeer |-> IF q \in S THEN b[q] ELSE NoEntry]
  BY Zenon DEF InsertOrUpdate
<1> HIDE DEF b
<1>3. entry' \in Books
  BY <1>1, <1>2, Zenon DEF Books
<1> QED
  BY <1>3, Zenon DEF InsertOrUpdate, BookTypes

(* The types are kept.                                                     *)
LEMMA BookTypesStep == BookTypes /\ [BNext]_bvars => BookTypes'
<1> SUFFICES ASSUME BookTypes, [BNext]_bvars PROVE BookTypes'
  BY Zenon
<1>1. ASSUME NEW x \in BookPeer, InsertOrUpdate(x) PROVE BookTypes'
  BY <1>1, AnnouncedTypes, Zenon
<1>2. ASSUME NEW x \in BookPeer, BumpFailCount(x) PROVE BookTypes'
  BY <1>2 DEF BumpFailCount, BookTypes, Books, BookEntry
<1>3. ASSUME NEW x \in BookPeer, ResetFailCount(x) PROVE BookTypes'
  BY <1>3 DEF ResetFailCount, BookTypes, Books, BookEntry
<1>4. CASE SaveBegin
  BY <1>4, Zenon DEF SaveBegin, BookTypes
<1>5. CASE SaveEnd
  BY <1>5, Zenon DEF SaveEnd, BookTypes
<1>6. CASE Reopen
  <2>1. Empty \in Books
    BY Zenon DEF Empty, Books
  <2> QED
    BY <1>6, <2>1 DEF Reopen, BookTypes
<1>7. CASE Tick
  BY <1>7 DEF Tick, BookTypes
<1>8. CASE UNCHANGED bvars
  BY <1>8, Zenon DEF bvars, BookTypes
<1> QED
  BY <1>1, <1>2, <1>3, <1>4, <1>5, <1>6, <1>7, <1>8, Zenon DEF BNext

(* A good peer that an announcement drops leaves only good peers behind:   *)
(* none of those kept scores less.                                         *)
LEMMA DroppedForGoodOnes ==
  ASSUME BookTypes, NEW x \in BookPeer, InsertOrUpdate(x),
         NEW p \in Known(entry) \ Known(entry'), Good(entry, p),
         NEW q \in Known(entry')
  PROVE  Good(entry', q)
<1> DEFINE b == [entry EXCEPT ![x] = IF @ = NoEntry
                                     THEN [first |-> clock, last |-> clock, fails |-> 0]
                                     ELSE [@ EXCEPT !.last = clock]]
<1>1. PICK S \in Bests(b, MaxSize) : entry' = [r \in BookPeer |-> IF r \in S THEN b[r] ELSE NoEntry]
  BY Zenon DEF InsertOrUpdate
<1>2. /\ p \in BookPeer /\ q \in BookPeer
      /\ entry[p] \in BookEntry /\ entry'[q] # NoEntry /\ entry'[p] = NoEntry
  BY DEF BookTypes, Books, Known
<1>3. b[p] \in BookEntry /\ b[p].last >= clock - Window /\ b[p].fails = 0
  BY <1>2, BookAssumption DEF BookTypes, Books, BookEntry, Good
<1>4. \A r \in BookPeer : b[r] \in BookEntry \cup {NoEntry}
  BY DEF BookTypes, Books, BookEntry
<1> HIDE DEF b
<1>5. q \in S /\ entry'[q] = b[q] /\ b[q] \in BookEntry
  BY <1>1, <1>2, <1>4
<1>6. b[p] # NoEntry
  BY <1>3, BookAssumption
<1>7. p \in Known(b) \ S
  BY <1>1, <1>2, <1>6 DEF Known
<1>8. ~ Better(b, p, q)
  BY <1>5, <1>7, Zenon DEF Bests
<1>9. b[q].last >= clock - Window /\ ~ (b[p].fails < b[q].fails)
  BY <1>3, <1>8, Zenon DEF Better
<1>10. b[q].fails = 0
  BY <1>3, <1>5, <1>9 DEF BookEntry
<1> QED
  BY <1>5, <1>9, <1>10, Zenon DEF Good

(* A peer that was seen recently and never failed is not pruned to make    *)
(* room while a peer that is out of touch or failing stays: for any peers, *)
(* any size of the book and any window (insert_or_update, prune_to_length).*)
THEOREM GoodPeersAreKept == BSpec => GoodPeersStay
<1>1. BSpec => []BookTypes
  BY BookTypesInit, BookTypesStep, PTL DEF BSpec
<1> DEFINE Stay == \A x \in BookPeer : InsertOrUpdate(x) =>
                      \A p \in Known(entry) \ Known(entry') :
                         Good(entry, p) => \A q \in Known(entry') : Good(entry', q)
<1>2. BookTypes => Stay
  BY DroppedForGoodOnes, Zenon
<1>3. BookTypes /\ [BNext]_bvars => [Stay]_bvars
  BY <1>2, Zenon
<1>4. []BookTypes /\ [][BNext]_bvars => [][Stay]_bvars
  BY <1>3, PTL
<1> QED
  BY <1>1, <1>4, PTL DEF BSpec, GoodPeersStay
=============================================================================
