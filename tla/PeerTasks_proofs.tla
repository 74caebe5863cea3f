--------------------------- MODULE PeerTasks_proofs ---------------------------
(***************************************************************************)
(* Proofs about PeerTasks, for any number of connections, peers and        *)
(* addresses, any tolerance and any capacity of the channel.               *)
(***************************************************************************)
EXTENDS PeerTasks, FiniteSetTheorems, TLAPS

Standing == -Tolerance .. Tolerance
Waiting == {"registering", "banning", "forwarding"}
Label == {"off", "open", "reward", "dropping", "done"} \cup Serving
Message == {"NewPeer", "Ban", "NewSyncBlock", "NewBlocks", "Height", "DroppedPeer"} \X Peer

TaskTypes ==
    /\ pc \in [Conn -> Label]
    /\ read \in [Conn -> Standing]
    /\ db \in [Ip -> {None} \cup Standing]
    /\ lock \in {None} \cup {c \in Conn : pc[c] \in Waiting}

ChannelTypes ==
    /\ chan \in Seq(Message) /\ Len(chan) <= Capacity
    /\ cur \in {None} \cup Message
    /\ roster = None \/ roster \subseteq Peer

\* Every entry of the peer map was made by a connection of that very peer
\* which is still served, or whose task ended before its close callback.
Entries ==
    /\ Registered \subseteq Peer /\ IsFiniteSet(Registered)
    /\ \A p \in Registered :
          /\ peerMap[p] \in [conn : Conn, standing : Standing]
          /\ PeerOf[peerMap[p].conn] = p
          /\ pc[peerMap[p].conn] \in Serving \cup {"done"}

\* The inductive invariant.
PInv == TaskTypes /\ ChannelTypes /\ Entries /\ TasksOwnTheirEntries /\ PeersWithinMax

-----------------------------------------------------------------------------
(* A sanction keeps a standing within the tolerance (PeerStanding::sanction).*)
LEMMA SanctionInRange ==
    ASSUME NEW s \in Standing, NEW n \in Int
    PROVE  Sanction(s, n) \in Standing
BY PeerTasksAssumption DEF Standing, Sanction, Clamped

(* write_peer_standing_on_decrease stores a standing, and never a higher    *)
(* one than is there.                                                       *)
LEMMA WrittenOnDecrease ==
    ASSUME db \in [Ip -> {None} \cup Standing], NEW ip \in Ip, NEW s \in Standing
    PROVE  /\ WriteOnDecrease(ip, s) \in [Ip -> {None} \cup Standing]
           /\ \A i \in Ip : db[i] # None =>
                 WriteOnDecrease(ip, s)[i] # None /\ WriteOnDecrease(ip, s)[i] <= db[i]
BY PeerTasksAssumption DEF WriteOnDecrease, Standing

(* The peers and addresses of connections.                                  *)
LEMMA OfConnections ==
    ASSUME NEW c \in Conn
    PROVE  PeerOf[c] \in Peer /\ IpOf[c] \in Ip
BY Zenon DEF Peer, Ip

(* The invariant holds at the start.                                          *)
LEMMA PInvInit == PInit => PInv
<1> SUFFICES ASSUME PInit PROVE PInv
  BY Zenon
<1>1. Registered = {}
  BY DEF PInit, Registered
<1>2. TaskTypes
  BY PeerTasksAssumption DEF PInit, TaskTypes, Label, Standing
<1>3. ChannelTypes
  BY PeerTasksAssumption DEF PInit, ChannelTypes
<1>4. Entries
  BY <1>1, FS_EmptySet, Zenon DEF Entries
<1>5. TasksOwnTheirEntries
  BY Zenon DEF PInit, TasksOwnTheirEntries, Serving
<1>6. PeersWithinMax
  BY <1>1, FS_EmptySet, PeerTasksAssumption DEF PeersWithinMax
<1> QED
  BY <1>2, <1>3, <1>4, <1>5, <1>6, Zenon DEF PInv

-----------------------------------------------------------------------------
(* A new standing changes nothing else about the peer map.                  *)
LEMMA StandingChanges ==
    ASSUME PInv, NEW p \in Registered, NEW s \in Standing, peerMap' = WithStanding(p, s)
    PROVE  /\ Registered' = Registered
           /\ \A q \in Registered :
                 /\ peerMap'[q] \in [conn : Conn, standing : Standing]
                 /\ peerMap'[q].conn = peerMap[q].conn
<1>1. Registered' = Registered
  BY Zenon DEF WithStanding, With, Registered
<1>2. \A q \in Registered : peerMap[q] \in [conn : Conn, standing : Standing]
  BY Zenon DEF PInv, Entries
<1>3. \A q \in Registered :
          peerMap'[q] = IF q = p THEN [peerMap[p] EXCEPT !.standing = s] ELSE peerMap[q]
  BY Zenon DEF WithStanding, With, Registered
<1> QED
  BY <1>1, <1>2, <1>3, Zenon

(* A step that leaves the peer map's connections alone keeps what the map   *)
(* says, as long as no task moves into or out of service.                   *)
LEMMA MapKept ==
    ASSUME PInv, Registered' = Registered,
           \A q \in Registered : /\ peerMap'[q] \in [conn : Conn, standing : Standing]
                                 /\ peerMap'[q].conn = peerMap[q].conn,
           \A c \in Conn : \/ pc[c] \in Serving /\ pc'[c] \in Serving \cup {"done"}
                           \/ pc[c] \notin Serving /\ pc'[c] \notin Serving
                              /\ (pc[c] = "done" => pc'[c] = "done")
    PROVE  Entries' /\ TasksOwnTheirEntries' /\ PeersWithinMax'
<1>1. Entries'
  BY DEF PInv, Entries, Serving
<1>2. TasksOwnTheirEntries'
  BY Zenon DEF PInv, Entries, TasksOwnTheirEntries
<1>3. PeersWithinMax'
  BY Zenon DEF PInv, PeersWithinMax
<1> QED
  BY <1>1, <1>2, <1>3, Zenon

(* A message is put into the channel, if there is room.                     *)
LEMMA MessageSent ==
    ASSUME ChannelTypes, NEW m \in Message, Len(chan) < Capacity, chan' = Append(chan, m),
           UNCHANGED <<cur, roster>>
    PROVE  ChannelTypes'
BY PeerTasksAssumption DEF ChannelTypes

(* The main task takes a message.                                           *)
LEMMA MessageTaken ==
    ASSUME ChannelTypes, Take
    PROVE  ChannelTypes'
<1>1. chan \in Seq(Message) /\ chan # <<>> /\ Len(chan) <= Capacity
  BY Zenon DEF Take, ChannelTypes
<1>2. Tail(chan) \in Seq(Message) /\ Len(Tail(chan)) = Len(chan) - 1 /\ Head(chan) \in Message
      /\ Len(chan) \in Nat
  BY <1>1
<1> QED
  BY <1>1, <1>2, PeerTasksAssumption DEF Take, ChannelTypes

(* A send made under the write lock either completes, or waits with it.     *)
LEMMA SentLocked ==
    ASSUME PInv, NEW c \in Conn, NEW m \in Message, NEW waiting \in Waiting,
           NEW done \in Serving, pc[c] \notin Waiting, Free,
           SendLocked(c, m, waiting, done), UNCHANGED <<cur, roster, read, db>>
    PROVE  /\ TaskTypes' /\ ChannelTypes'
           /\ pc' \in [Conn -> Label] /\ pc'[c] \in Serving
           /\ \A d \in Conn : d # c => pc'[d] = pc[d]
<1>1. PICK label \in {waiting, done} : pc' = [pc EXCEPT ![c] = label]
  BY Zenon DEF SendLocked, Goto
<1>2. label \in Serving /\ label \in Label /\ pc' \in [Conn -> Label] /\ pc'[c] = label
  BY <1>1, Zenon DEF Waiting, Serving, Label, PInv, TaskTypes
<1>3. ChannelTypes'
  <2>1. CASE Len(chan) < Capacity
    BY <2>1, MessageSent, Zenon DEF SendLocked, PInv
  <2>2. CASE ~(Len(chan) < Capacity)
    BY <2>2, Zenon DEF SendLocked, PInv, ChannelTypes
  <2> QED
    BY <2>1, <2>2, Zenon
<1>4. lock' \in {None} \cup {d \in Conn : pc'[d] \in Waiting}
  BY <1>2, Zenon DEF SendLocked, Goto, PInv, TaskTypes
<1> QED
  BY <1>1, <1>2, <1>3, <1>4, Zenon DEF PInv, TaskTypes

(* The end of a send that had to wait.                                      *)
LEMMA SendFinished ==
    ASSUME PInv, NEW c \in Conn, NEW kind \in {"NewPeer", "Ban", "NewSyncBlock", "DroppedPeer"},
           NEW done \in Label, FinishSend(c, <<kind, PeerOf[c]>>, done),
           \/ pc[c] \in Serving /\ done \in Serving
           \/ pc[c] = "dropping" /\ done = "done"
    PROVE  PInv'
<1>1. <<kind, PeerOf[c]>> \in Message
  BY OfConnections, Zenon DEF Message
<1>2. ChannelTypes'
  BY <1>1, MessageSent, Zenon DEF FinishSend, PInv
<1>3. pc' = [pc EXCEPT ![c] = done] /\ pc \in [Conn -> Label] /\ pc' \in [Conn -> Label]
  BY Zenon DEF FinishSend, Goto, PInv, TaskTypes
<1>4. TaskTypes'
  <2>1. lock' \in {None} \cup {d \in Conn : pc'[d] \in Waiting}
    BY <1>3, Zenon DEF FinishSend, PInv, TaskTypes
  <2> QED
    BY <2>1, <1>3, Zenon DEF FinishSend, PInv, TaskTypes
<1>5. \A d \in Conn : \/ pc[d] \in Serving /\ pc'[d] \in Serving \cup {"done"}
                      \/ pc[d] \notin Serving /\ pc'[d] \notin Serving
                         /\ (pc[d] = "done" => pc'[d] = "done")
  BY <1>3, Zenon DEF Serving
<1>6. Entries' /\ TasksOwnTheirEntries' /\ PeersWithinMax'
  <2>1. peerMap' = peerMap
    BY Zenon DEF FinishSend
  <2>2. Registered' = Registered
    BY <2>1, Zenon DEF Registered
  <2>3. \A q \in Registered : /\ peerMap'[q] \in [conn : Conn, standing : Standing]
                              /\ peerMap'[q].conn = peerMap[q].conn
    BY <2>1, Zenon DEF PInv, Entries
  <2> QED
    BY <2>2, <2>3, <1>5, MapKept, Zenon
<1> QED
  BY <1>2, <1>4, <1>6, Zenon DEF PInv

(* A step that only moves one task, within or out of service, or before it. *)
LEMMA TaskMoves ==
    ASSUME PInv, NEW c \in Conn, NEW label \in Label,
           pc' = [pc EXCEPT ![c] = label], pc[c] \notin Waiting,
           \/ pc[c] \in Serving /\ label \in Serving \cup {"done"}
           \/ pc[c] \in {"off", "open"} /\ label \in {"open", "done"},
           UNCHANGED <<lock, db, peerMap>>, read' \in [Conn -> Standing]
    PROVE  TaskTypes' /\ Entries' /\ TasksOwnTheirEntries' /\ PeersWithinMax'
<1>1. pc \in [Conn -> Label] /\ pc' \in [Conn -> Label]
  BY Zenon DEF PInv, TaskTypes
<1>2. TaskTypes'
  BY <1>1, Zenon DEF PInv, TaskTypes
<1>3. \A d \in Conn : \/ pc[d] \in Serving /\ pc'[d] \in Serving \cup {"done"}
                      \/ pc[d] \notin Serving /\ pc'[d] \notin Serving
                         /\ (pc[d] = "done" => pc'[d] = "done")
  BY <1>1, Zenon DEF Serving
<1>4. Registered' = Registered
  BY Zenon DEF Registered
<1>5. \A q \in Registered : /\ peerMap'[q] \in [conn : Conn, standing : Standing]
                            /\ peerMap'[q].conn = peerMap[q].conn
  BY Zenon DEF PInv, Entries
<1> QED
  BY <1>2, <1>3, <1>4, <1>5, MapKept, Zenon

-----------------------------------------------------------------------------
(* Registration, under the write lock: the map holds neither this peer nor  *)
(* as many peers as it may.                                                 *)
LEMMA RegisterKeeps ==
    ASSUME PInv, NEW c \in Conn, Register(c)
    PROVE  PInv'
<1> DEFINE p == PeerOf[c]
<1>1. pc[c] = "open" /\ Free /\ p \notin Registered /\ Cardinality(Registered) < MaxNumPeers
  BY Zenon DEF Register, MayRegister
<1>2. /\ TaskTypes' /\ ChannelTypes' /\ pc' \in [Conn -> Label] /\ pc'[c] \in Serving
      /\ \A d \in Conn : d # c => pc'[d] = pc[d]
  <2>1. CASE Syncing
    <3>1. <<"NewPeer", p>> \in Message
      BY OfConnections, Zenon DEF Message
    <3>2. SendLocked(c, <<"NewPeer", p>>, "registering", "greet")
          /\ UNCHANGED <<cur, roster, read, db>>
      BY <2>1, Zenon DEF Register
    <3>3. "registering" \in Waiting /\ "greet" \in Serving /\ pc[c] \notin Waiting
      BY <1>1, Zenon DEF Waiting, Serving
    <3> QED
      BY <1>1, <3>1, <3>2, <3>3, SentLocked, Zenon
  <2>2. CASE ~Syncing
    <3>1. pc' = [pc EXCEPT ![c] = "greet"] /\ UNCHANGED <<lock, chan, cur, db, read, roster>>
      BY <2>2, Zenon DEF Register, Goto
    <3>2. ChannelTypes'
      BY <3>1, Zenon DEF PInv, ChannelTypes
    <3> QED
      BY <3>1, <3>2, <1>1, Zenon DEF PInv, TaskTypes, Label, Serving, Waiting
  <2> QED
    BY <2>1, <2>2, Zenon
<1>3. peerMap' = [q \in Registered \cup {p} |->
                     IF q = p THEN [conn |-> c, standing |-> read[c]] ELSE peerMap[q]]
  BY Zenon DEF Register, With
<1>4. Registered' = Registered \cup {p}
  BY <1>3, Zenon DEF Registered
<1>5. p \in Peer
  BY OfConnections, Zenon
<1>6. IsFiniteSet(Registered') /\ Cardinality(Registered') = Cardinality(Registered) + 1
      /\ Cardinality(Registered) \in Nat
  BY <1>1, <1>4, FS_AddElement, FS_CardinalityType, Zenon DEF PInv, Entries
<1>7. PeersWithinMax'
  BY <1>1, <1>6, PeerTasksAssumption DEF PeersWithinMax
<1>8. Entries'
  <2>1. ASSUME NEW q \in Registered', q = p
        PROVE  /\ peerMap'[q] \in [conn : Conn, standing : Standing]
               /\ PeerOf[peerMap'[q].conn] = q
               /\ pc'[peerMap'[q].conn] \in Serving \cup {"done"}
    BY <2>1, <1>2, <1>3, <1>4, Zenon DEF PInv, TaskTypes
  <2>2. ASSUME NEW q \in Registered', q # p
        PROVE  /\ peerMap'[q] \in [conn : Conn, standing : Standing]
               /\ PeerOf[peerMap'[q].conn] = q
               /\ pc'[peerMap'[q].conn] \in Serving \cup {"done"}
    <3>1. q \in Registered /\ peerMap'[q] = peerMap[q]
      BY <2>2, <1>3, <1>4, Zenon
    <3>2. peerMap[q] \in [conn : Conn, standing : Standing] /\ PeerOf[peerMap[q].conn] = q
          /\ pc[peerMap[q].conn] \in Serving \cup {"done"}
      BY <3>1, Zenon DEF PInv, Entries
    <3>3. peerMap[q].conn # c /\ peerMap[q].conn \in Conn
      BY <3>2, <2>2, Zenon
    <3> QED
      BY <3>1, <3>2, <3>3, <1>2, Zenon
  <2> QED
    BY <2>1, <2>2, <1>4, <1>5, <1>6, Zenon DEF PInv, Entries
<1>9. TasksOwnTheirEntries'
  <2> SUFFICES ASSUME NEW d \in Conn, pc'[d] \in Serving
               PROVE  PeerOf[d] \in Registered' /\ peerMap'[PeerOf[d]].conn = d
    BY Zenon DEF TasksOwnTheirEntries
  <2>1. CASE d = c
    BY <2>1, <1>3, <1>4, Zenon
  <2>2. CASE d # c
    <3>1. PeerOf[d] \in Registered /\ peerMap[PeerOf[d]].conn = d
      BY <2>2, <1>2, Zenon DEF PInv, TasksOwnTheirEntries
    <3> QED
      BY <3>1, <1>1, <1>3, <1>4, Zenon
  <2> QED
    BY <2>1, <2>2, Zenon
<1> QED
  BY <1>2, <1>7, <1>8, <1>9, Zenon DEF PInv

(* The close callback finds its own entry, and only that one goes.          *)
LEMMA CloseKeeps ==
    ASSUME PInv, NEW c \in Conn, Close(c)
    PROVE  /\ PInv'
           /\ \A i \in Ip : db[i] # None => db'[i] # None /\ db'[i] <= db[i]
<1> DEFINE p == PeerOf[c]
<1>1. pc[c] \in Serving /\ pc[c] \notin Waiting
  BY Zenon DEF Close, Serving, Waiting
<1>2. p \in Registered /\ peerMap[p].conn = c /\ peerMap[p] \in [conn : Conn, standing : Standing]
  BY <1>1, Zenon DEF PInv, TasksOwnTheirEntries, Entries
<1>3. {q \in Registered : peerMap[q].conn = c} # {}
  BY <1>2, Zenon
<1>4. /\ peerMap' = Without(p)
      /\ db' = WriteOnDecrease(IpOf[c], peerMap[p].standing)
      /\ UNCHANGED <<lock, chan, cur, read, roster>>
  BY <1>3, Zenon DEF Close
<1>5. PICK label \in {"dropping", "done"} : pc' = [pc EXCEPT ![c] = label]
  BY <1>3, Zenon DEF Close, Goto
<1>6. pc \in [Conn -> Label] /\ pc' \in [Conn -> Label] /\ pc'[c] = label
      /\ \A d \in Conn : d # c => pc'[d] = pc[d]
  BY <1>5, Zenon DEF PInv, TaskTypes, Label
<1>7. /\ db' \in [Ip -> {None} \cup Standing]
      /\ \A i \in Ip : db[i] # None => db'[i] # None /\ db'[i] <= db[i]
  <2>1. peerMap[p].standing \in Standing /\ IpOf[c] \in Ip /\ db \in [Ip -> {None} \cup Standing]
    BY <1>2, OfConnections, Zenon DEF PInv, TaskTypes
  <2> QED
    BY <2>1, <1>4, WrittenOnDecrease, Zenon
<1>8. TaskTypes'
  <2>1. lock' \in {None} \cup {d \in Conn : pc'[d] \in Waiting}
    BY <1>1, <1>4, <1>6, Zenon DEF PInv, TaskTypes
  <2> QED
    BY <2>1, <1>4, <1>6, <1>7, Zenon DEF PInv, TaskTypes
<1>9. ChannelTypes'
  BY <1>4, Zenon DEF PInv, ChannelTypes
<1>10. peerMap' = [q \in Registered \ {p} |-> peerMap[q]] /\ Registered' = Registered \ {p}
  BY <1>4, Zenon DEF Without, Registered
<1>11. PeersWithinMax' /\ IsFiniteSet(Registered')
  <2>1. IsFiniteSet(Registered) /\ Cardinality(Registered) \in Nat
        /\ Cardinality(Registered) <= MaxNumPeers
    BY FS_CardinalityType, Zenon DEF PInv, Entries, PeersWithinMax
  <2>2. IsFiniteSet(Registered \ {p}) /\ Cardinality(Registered \ {p}) = Cardinality(Registered) - 1
    BY <2>1, <1>2, FS_RemoveElement, Zenon
  <2> QED
    BY <2>1, <2>2, <1>10, PeerTasksAssumption DEF PeersWithinMax
<1>12. Entries'
  <2> SUFFICES ASSUME NEW q \in Registered'
               PROVE  /\ peerMap'[q] \in [conn : Conn, standing : Standing]
                      /\ PeerOf[peerMap'[q].conn] = q
                      /\ pc'[peerMap'[q].conn] \in Serving \cup {"done"}
    BY <1>10, <1>11, Zenon DEF PInv, Entries
  <2>1. q \in Registered /\ q # p /\ peerMap'[q] = peerMap[q]
    BY <1>10, Zenon
  <2>2. peerMap[q] \in [conn : Conn, standing : Standing] /\ PeerOf[peerMap[q].conn] = q
        /\ pc[peerMap[q].conn] \in Serving \cup {"done"}
    BY <2>1, Zenon DEF PInv, Entries
  <2> QED
    BY <2>1, <2>2, <1>6, Zenon
<1>13. TasksOwnTheirEntries'
  <2> SUFFICES ASSUME NEW d \in Conn, pc'[d] \in Serving
               PROVE  PeerOf[d] \in Registered' /\ peerMap'[PeerOf[d]].conn = d
    BY Zenon DEF TasksOwnTheirEntries
  <2>1. d # c
    BY <1>6, Zenon DEF Serving
  <2>2. PeerOf[d] \in Registered /\ peerMap[PeerOf[d]].conn = d
    BY <2>1, <1>6, Zenon DEF PInv, TasksOwnTheirEntries
  <2> QED
    BY <2>1, <2>2, <1>2, <1>10, Zenon
<1> QED
  BY <1>7, <1>8, <1>9, <1>11, <1>12, <1>13, Zenon DEF PInv

-----------------------------------------------------------------------------
(* A step of a serving task that may also lower or raise its own standing.  *)
LEMMA ServingKeeps ==
    ASSUME PInv, NEW c \in Conn, pc[c] \in Serving, TaskTypes', ChannelTypes',
           pc'[c] \in Serving, \A d \in Conn : d # c => pc'[d] = pc[d],
           \/ peerMap' = peerMap
           \/ \E p \in Registered, s \in Standing : peerMap' = WithStanding(p, s)
    PROVE  PInv'
<1>1. \A d \in Conn : \/ pc[d] \in Serving /\ pc'[d] \in Serving \cup {"done"}
                      \/ pc[d] \notin Serving /\ pc'[d] \notin Serving
                         /\ (pc[d] = "done" => pc'[d] = "done")
  BY Zenon
<1>2. /\ Registered' = Registered
      /\ \A q \in Registered : /\ peerMap'[q] \in [conn : Conn, standing : Standing]
                               /\ peerMap'[q].conn = peerMap[q].conn
  <2>1. CASE peerMap' = peerMap
    BY <2>1, Zenon DEF Registered, PInv, Entries
  <2>2. CASE \E p \in Registered, s \in Standing : peerMap' = WithStanding(p, s)
    BY <2>2, StandingChanges, Zenon
  <2> QED
    BY <2>1, <2>2, Zenon
<1> QED
  BY <1>1, <1>2, MapKept, Zenon DEF PInv

(* A step within a serving task that holds nothing and sends nothing.       *)
LEMMA LocalKeeps ==
    ASSUME PInv, NEW c \in Conn, pc[c] \in Serving \ Waiting, NEW label \in Serving,
           pc' = [pc EXCEPT ![c] = label], UNCHANGED <<lock, db, read>>
    PROVE  TaskTypes' /\ pc'[c] \in Serving /\ \A d \in Conn : d # c => pc'[d] = pc[d]
<1>1. pc \in [Conn -> Label] /\ label \in Label
  BY Zenon DEF PInv, TaskTypes, Label
<1>2. pc' \in [Conn -> Label] /\ pc'[c] = label /\ \A d \in Conn : d # c => pc'[d] = pc[d]
  BY <1>1, Zenon
<1>3. lock' \in {None} \cup {d \in Conn : pc'[d] \in Waiting}
  BY <1>2, Zenon DEF PInv, TaskTypes
<1> QED
  BY <1>2, <1>3, Zenon DEF PInv, TaskTypes

(* punish finds the standing of its own peer (TasksOwnTheirEntries).        *)
LEMMA MisbehaveKeeps ==
    ASSUME PInv, NEW c \in Conn, Misbehave(c)
    PROVE  PInv'
<1> DEFINE p == PeerOf[c]
<1>1. pc[c] \in Serving \ Waiting /\ UNCHANGED <<cur, roster, read, db>>
  BY Zenon DEF Misbehave, Input, InLoop, Serving, Waiting
<1>2. PICK severity \in Severity : Punish(c, -severity)
  BY Zenon DEF Misbehave
<1>3. p \in Registered /\ peerMap[p].standing \in Standing
  BY <1>1, Zenon DEF PInv, TasksOwnTheirEntries, Entries
<1> DEFINE standing == Sanction(peerMap[p].standing, -severity)
<1>4. standing \in Standing
  BY <1>3, SanctionInRange, PeerTasksAssumption
<1>5. peerMap' = WithStanding(p, standing)
  BY <1>2, <1>3, Zenon DEF Punish
<1>6. CASE IsBad(standing)
  <2>1. SendLocked(c, <<"Ban", p>>, "banning", "expelled") /\ Free
    BY <1>2, <1>3, <1>6, Zenon DEF Punish
  <2>2. <<"Ban", p>> \in Message
    BY OfConnections, Zenon DEF Message
  <2>3. "banning" \in Waiting /\ "expelled" \in Serving
    BY Zenon DEF Waiting, Serving
  <2>4. TaskTypes' /\ ChannelTypes' /\ pc'[c] \in Serving /\ \A d \in Conn : d # c => pc'[d] = pc[d]
    BY <1>1, <2>1, <2>2, <2>3, SentLocked, Zenon
  <2> QED
    BY <1>1, <1>3, <1>4, <1>5, <2>4, ServingKeeps, Zenon
<1>7. CASE ~IsBad(standing)
  <2>1. pc' = [pc EXCEPT ![c] = "loop"] /\ UNCHANGED <<lock, chan>>
    BY <1>2, <1>3, <1>7, Zenon DEF Punish, Goto
  <2>2. "loop" \in Serving
    BY Zenon DEF Serving
  <2>3. TaskTypes' /\ pc'[c] \in Serving /\ \A d \in Conn : d # c => pc'[d] = pc[d]
    BY <1>1, <2>1, <2>2, LocalKeeps, Zenon
  <2>4. ChannelTypes'
    BY <1>1, <2>1, Zenon DEF PInv, ChannelTypes
  <2> QED
    BY <1>1, <1>3, <1>4, <1>5, <2>3, <2>4, ServingKeeps, Zenon
<1> QED
  BY <1>6, <1>7, Zenon

(* A reward keeps the invariant.                                              *)
LEMMA RewardKeeps ==
    ASSUME PInv, NEW c \in Conn, RewardPeer(c)
    PROVE  PInv'
<1> DEFINE p == PeerOf[c]
           standing == Sanction(peerMap[p].standing, Reward)
<1>1. pc[c] \in Serving \ Waiting /\ UNCHANGED <<lock, chan, cur, roster, read, db>>
  BY Zenon DEF RewardPeer, Serving, Waiting
<1>2. p \in Registered /\ peerMap[p].standing \in Standing
  BY <1>1, Zenon DEF PInv, TasksOwnTheirEntries, Entries
<1>3. standing \in Standing
  BY <1>2, SanctionInRange, PeerTasksAssumption
<1>4. peerMap' = WithStanding(p, standing)
  BY <1>2, Zenon DEF RewardPeer
<1>5. PICK label \in {"close", "loop"} : pc' = [pc EXCEPT ![c] = label]
  BY <1>2, Zenon DEF RewardPeer, Goto
<1>6. label \in Serving
  BY Zenon DEF Serving
<1>7. TaskTypes' /\ pc'[c] \in Serving /\ \A d \in Conn : d # c => pc'[d] = pc[d]
  BY <1>1, <1>5, <1>6, LocalKeeps, Zenon
<1>8. ChannelTypes'
  BY <1>1, Zenon DEF PInv, ChannelTypes
<1> QED
  BY <1>1, <1>2, <1>3, <1>4, <1>7, <1>8, ServingKeeps, Zenon

-----------------------------------------------------------------------------
(* The sends of a serving task: under the lock while syncing, without it    *)
(* otherwise.                                                               *)
LEMMA SendsKeep ==
    ASSUME PInv, NEW c \in Conn, SyncBlock(c) \/ NewBlock(c) \/ ClaimHeight(c)
    PROVE  PInv'
<1>1. pc[c] \in Serving \ Waiting
  BY Zenon DEF SyncBlock, NewBlock, ClaimHeight, Input, InLoop, Serving, Waiting
<1>2. peerMap' = peerMap /\ UNCHANGED <<cur, roster, read, db>>
  BY Zenon DEF SyncBlock, NewBlock, ClaimHeight
<1>3. CASE SyncBlock(c)
  <2>1. <<"NewSyncBlock", PeerOf[c]>> \in Message
    BY OfConnections, Zenon DEF Message
  <2>2. "forwarding" \in Waiting /\ "loop" \in Serving
    BY Zenon DEF Waiting, Serving
  <2>3. Free /\ SendLocked(c, <<"NewSyncBlock", PeerOf[c]>>, "forwarding", "loop")
    BY <1>3, Zenon DEF SyncBlock
  <2>4. TaskTypes' /\ ChannelTypes' /\ pc'[c] \in Serving /\ \A d \in Conn : d # c => pc'[d] = pc[d]
    BY <1>1, <1>2, <2>1, <2>2, <2>3, SentLocked, Zenon
  <2> QED
    BY <1>1, <1>2, <2>4, ServingKeeps, Zenon
<1>4. CASE NewBlock(c) \/ ClaimHeight(c)
  <2>1. PICK kind \in {"NewBlocks", "Height"} :
            Len(chan) < Capacity /\ chan' = Append(chan, <<kind, PeerOf[c]>>)
    BY <1>4, Zenon DEF NewBlock, ClaimHeight
  <2>2. <<kind, PeerOf[c]>> \in Message
    BY OfConnections, Zenon DEF Message
  <2>3. ChannelTypes'
    BY <1>2, <2>1, <2>2, MessageSent, Zenon DEF PInv
  <2>4. lock' = lock
    BY <1>4, Zenon DEF NewBlock, ClaimHeight
  <2>5. PICK label \in {"reward", "loop"} : pc' = [pc EXCEPT ![c] = label]
    BY <1>4, Zenon DEF NewBlock, ClaimHeight, Goto
  <2>6. label \in Serving
    BY Zenon DEF Serving
  <2>7. TaskTypes' /\ pc'[c] \in Serving /\ \A d \in Conn : d # c => pc'[d] = pc[d]
    BY <1>1, <1>2, <2>4, <2>5, <2>6, LocalKeeps, Zenon
  <2> QED
    BY <1>1, <1>2, <2>3, <2>7, ServingKeeps, Zenon
<1> QED
  BY <1>3, <1>4, Zenon

(* Steps of one task that send nothing and leave the peer map alone.        *)
LEMMA MovesKeep ==
    ASSUME PInv, NEW c \in Conn,
           ReadStanding(c) \/ Refuse(c) \/ Greet(c) \/ Leave(c) \/ Disconnect(c)
    PROVE  PInv'
<1>1. UNCHANGED <<lock, db, peerMap, chan, cur, roster>>
  BY Zenon DEF ReadStanding, Refuse, Greet, Leave, Disconnect
<1>2. ChannelTypes'
  BY <1>1, Zenon DEF PInv, ChannelTypes
<1>3. read' \in [Conn -> Standing]
  <2>1. CASE ReadStanding(c)
    <3>1. db[IpOf[c]] \in {None} \cup Standing /\ read \in [Conn -> Standing] /\ 0 \in Standing
      BY OfConnections, PeerTasksAssumption DEF PInv, TaskTypes, Standing
    <3> QED
      BY <2>1, <3>1, Zenon DEF ReadStanding
  <2>2. CASE Refuse(c) \/ Greet(c) \/ Leave(c) \/ Disconnect(c)
    BY <2>2, Zenon DEF Refuse, Greet, Leave, Disconnect, PInv, TaskTypes
  <2> QED
    BY <2>1, <2>2, Zenon
<1>4. PICK label \in {"open", "done", "loop", "close"} :
        /\ pc' = [pc EXCEPT ![c] = label]
        /\ \/ pc[c] \in {"greet", "loop"} /\ label \in {"loop", "close", "done"}
           \/ pc[c] \in {"off", "open"} /\ label \in {"open", "done"}
  BY Zenon DEF ReadStanding, Refuse, Greet, Leave, Disconnect, Goto, InLoop
<1>5. label \in Label /\ pc[c] \notin Waiting
      /\ \/ pc[c] \in Serving /\ label \in Serving \cup {"done"}
         \/ pc[c] \in {"off", "open"} /\ label \in {"open", "done"}
  BY <1>4, Zenon DEF Label, Waiting, Serving
<1> QED
  BY <1>1, <1>2, <1>3, <1>4, <1>5, TaskMoves, Zenon DEF PInv

(* Steps of the main task and of the RPC server move no peer task.          *)
LEMMA NodeKeeps ==
    ASSUME PInv, UNCHANGED <<lock, pc, read>>, db' \in [Ip -> {None} \cup Standing],
           ChannelTypes',
           \/ peerMap' = peerMap
           \/ \E p \in Registered, s \in Standing : peerMap' = WithStanding(p, s)
    PROVE  PInv'
<1>1. TaskTypes'
  BY Zenon DEF PInv, TaskTypes
<1>2. \A d \in Conn : \/ pc[d] \in Serving /\ pc'[d] \in Serving \cup {"done"}
                      \/ pc[d] \notin Serving /\ pc'[d] \notin Serving
                         /\ (pc[d] = "done" => pc'[d] = "done")
  BY Zenon
<1>3. /\ Registered' = Registered
      /\ \A q \in Registered : /\ peerMap'[q] \in [conn : Conn, standing : Standing]
                               /\ peerMap'[q].conn = peerMap[q].conn
  <2>1. CASE peerMap' = peerMap
    BY <2>1, Zenon DEF Registered, PInv, Entries
  <2>2. CASE \E p \in Registered, s \in Standing : peerMap' = WithStanding(p, s)
    BY <2>2, StandingChanges, Zenon
  <2> QED
    BY <2>1, <2>2, Zenon
<1> QED
  BY <1>1, <1>2, <1>3, MapKept, Zenon DEF PInv

(* The main task's handlers keep the invariant.                               *)
LEMMA HandleKeeps ==
    ASSUME PInv, Handle
    PROVE  PInv'
<1>1. cur \in Message /\ Registered \subseteq Peer /\ (roster = None \/ roster \subseteq Peer)
  BY Zenon DEF Handle, PInv, ChannelTypes, Entries
<1>2. cur[2] \in Peer
  BY <1>1, Zenon DEF Message
<1>3. roster' = None \/ roster' \subseteq Peer
  BY <1>1, <1>2, Zenon DEF Handle, RosterAfter, Syncing
<1>4. ChannelTypes'
  BY <1>3, Zenon DEF Handle, PInv, ChannelTypes
<1> QED
  BY <1>4, NodeKeeps, Zenon DEF Handle, PInv, TaskTypes

(* Unbanning over RPC keeps the invariant.                                    *)
LEMMA RpcKeeps ==
    ASSUME PInv, (\E a \in Conn : RpcBan(a)) \/ (\E ip \in Ip : RpcUnban(ip))
    PROVE  PInv'
<1>1. UNCHANGED <<lock, chan, cur, pc, read, roster>>
  BY Zenon DEF RpcBan, RpcUnban
<1>2. ChannelTypes'
  BY <1>1, Zenon DEF PInv, ChannelTypes
<1>3. db \in [Ip -> {None} \cup Standing] /\ 0 \in Standing /\ -Tolerance \in Standing
  BY PeerTasksAssumption DEF PInv, TaskTypes, Standing
<1>4. ASSUME NEW a \in Conn, RpcBan(a) PROVE PInv'
  <2>1. db' = db
    BY <1>4, Zenon DEF RpcBan
  <2>2. CASE \E p \in Registered : peerMap[p].conn = a
    <3>1. PeerOf[a] \in Registered
      BY <2>2, Zenon DEF PInv, Entries
    <3>2. peerMap' = WithStanding(PeerOf[a], -Tolerance)
      BY <1>4, <2>2, Zenon DEF RpcBan
    <3> QED
      BY <1>1, <1>2, <1>3, <2>1, <3>1, <3>2, NodeKeeps, Zenon
  <2>3. CASE ~\E p \in Registered : peerMap[p].conn = a
    <3>1. peerMap' = peerMap
      BY <1>4, <2>3, Zenon DEF RpcBan
    <3> QED
      BY <1>1, <1>2, <1>3, <2>1, <3>1, NodeKeeps, Zenon
  <2> QED
    BY <2>2, <2>3, Zenon
<1>5. ASSUME NEW ip \in Ip, RpcUnban(ip) PROVE PInv'
  <2>1. peerMap' = peerMap /\ db' = [db EXCEPT ![ip] = IF @ = None THEN None ELSE 0]
    BY <1>5, Zenon DEF RpcUnban
  <2>2. db' \in [Ip -> {None} \cup Standing]
    BY <2>1, <1>3, Zenon
  <2> QED
    BY <1>1, <1>2, <2>1, <2>2, NodeKeeps, Zenon
<1> QED
  BY <1>4, <1>5, Zenon

(* The end of a waiting send, and of the callback's notification.           *)
LEMMA FinishKeeps ==
    ASSUME PInv, NEW c \in Conn,
           FinishRegister(c) \/ FinishBan(c) \/ FinishForward(c) \/ TellDropped(c)
    PROVE  PInv'
<1>1. CASE FinishRegister(c)
  BY <1>1, SendFinished, Zenon DEF FinishRegister, Serving, Label
<1>2. CASE FinishBan(c)
  BY <1>2, SendFinished, Zenon DEF FinishBan, Serving, Label
<1>3. CASE FinishForward(c)
  BY <1>3, SendFinished, Zenon DEF FinishForward, Serving, Label
<1>4. CASE TellDropped(c)
  BY <1>4, SendFinished, Zenon DEF TellDropped, Label
<1> QED
  BY <1>1, <1>2, <1>3, <1>4, Zenon

(* Every step keeps the invariant.                                          *)
LEMMA PInvStep == PInv /\ [PNext]_pvars => PInv'
<1> SUFFICES ASSUME PInv, [PNext]_pvars PROVE PInv'
  BY Zenon
<1>1. CASE \E c \in Conn : TaskStep(c) \/ ReadStanding(c) \/ Leave(c)
                           \/ Misbehave(c) \/ SyncBlock(c) \/ NewBlock(c) \/ ClaimHeight(c)
  BY <1>1, RegisterKeeps, CloseKeeps, MisbehaveKeeps, RewardKeeps, SendsKeep, MovesKeep,
     FinishKeeps, Zenon DEF TaskStep
<1>2. CASE Take
  <2>1. ChannelTypes'
    BY <1>2, MessageTaken, Zenon DEF PInv
  <2> QED
    BY <1>2, <2>1, NodeKeeps, Zenon DEF Take, PInv, TaskTypes
<1>3. CASE Handle
  BY <1>3, HandleKeeps, Zenon
<1>4. CASE EndSync
  <2>1. ChannelTypes'
    BY <1>4, Zenon DEF EndSync, PInv, ChannelTypes
  <2> QED
    BY <1>4, <2>1, NodeKeeps, Zenon DEF EndSync, PInv, TaskTypes
<1>5. CASE (\E a \in Conn : RpcBan(a)) \/ (\E ip \in Ip : RpcUnban(ip))
  BY <1>5, RpcKeeps, Zenon
<1>6. CASE UNCHANGED pvars
  <2>1. ChannelTypes'
    BY <1>6, Zenon DEF pvars, PInv, ChannelTypes
  <2> QED
    BY <1>6, <2>1, NodeKeeps, Zenon DEF pvars, PInv, TaskTypes
<1> QED
  BY <1>1, <1>2, <1>3, <1>4, <1>5, <1>6, Zenon DEF PNext, MainStep, Quiet

(* The stored standing rises by an unban only.                              *)
LEMMA StandingStep ==
    PInv /\ [PNext]_pvars =>
        \/ \E i \in Ip : RpcUnban(i)
        \/ \A i \in Ip : db[i] # None => db'[i] # None /\ db'[i] <= db[i]
        \/ UNCHANGED pvars
<1> SUFFICES ASSUME PInv, [PNext]_pvars, ~\E i \in Ip : RpcUnban(i)
             PROVE  \A i \in Ip : db[i] # None => db'[i] # None /\ db'[i] <= db[i]
  BY Zenon
<1>1. CASE db' = db
  BY <1>1, PeerTasksAssumption DEF PInv, TaskTypes, Standing
<1>2. CASE \E c \in Conn : Close(c)
  BY <1>2, CloseKeeps, Zenon
<1>3. db' = db \/ \E c \in Conn : Close(c)
  BY Zenon DEF PNext, TaskStep, MainStep, Refuse, Register, Greet, RewardPeer, Disconnect,
         FinishRegister, FinishBan, FinishForward, TellDropped, FinishSend, ReadStanding,
         Leave, Misbehave, SyncBlock, NewBlock, ClaimHeight, Take, Handle, EndSync, Quiet,
         RpcBan, pvars
<1> QED
  BY <1>1, <1>2, <1>3, Zenon

-----------------------------------------------------------------------------
(* The invariant always holds.                                                *)
LEMMA PInvAlways == PSpec => []PInv
BY PInvInit, PInvStep, PTL DEF PSpec

(* Standings stay within the tolerance, the channel within its capacity,    *)
(* and only a task that waits to send holds the lock (PeerStanding::        *)
(* sanction, mpsc::channel), for every tolerance and capacity.              *)
THEOREM PeerTasksTyped == PSpec => []PTypeOK
<1>1. PInv => PTypeOK
  BY Zenon DEF PInv, PTypeOK, TaskTypes, ChannelTypes, Entries, Waiting, Standing
<1> QED
  BY <1>1, PInvAlways, PTL

(* run_wrapper checks again under the write lock, so however many           *)
(* connections race, a task in service finds its own entry under its peer's *)
(* id, no two tasks serve one peer, and the map never holds more than       *)
(* max_num_peers.                                                           *)
THEOREM PeerMapStaysSound == PSpec => []PeerMapIsSound
<1>1. PInv => PeerMapIsSound
  BY Zenon DEF PInv, PeerMapIsSound
<1> QED
  BY <1>1, PInvAlways, PTL

(* A recorded punishment is forgotten by an unban only, whichever of        *)
(* several connections from one address closes last                         *)
(* (write_peer_standing_on_decrease).                                       *)
THEOREM PunishmentsAreKept == PSpec => StandingOnlyFalls
<1>1. PInv /\ [PNext]_pvars =>
        [\/ \E i \in Ip : RpcUnban(i)
         \/ \A i \in Ip : db[i] # None => db'[i] # None /\ db'[i] <= db[i]]_pvars
  BY StandingStep, Zenon
<1> QED
  BY <1>1, PInvAlways, PTL DEF PSpec, StandingOnlyFalls
=============================================================================
