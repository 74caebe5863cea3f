------------------------------ MODULE PeerTasks ------------------------------
(***************************************************************************)
(* The life of the peer tasks beside the main task: registration in the    *)
(* shared peer map, sanctions, the sends to the main task (some made while *)
(* the global state lock is held), the close callback, and what the main   *)
(* task does with the messages (node/src/application/loops/peer_loop.rs,   *)
(* main_loop.rs, node/src/state/networking_state.rs, p2p/src/peer.rs).     *)
(*                                                                         *)
(* The global state lock is a tokio RwLock.  A critical section that does  *)
(* not wait for anything is one step, enabled while no one holds the lock; *)
(* `lock' names a holder only across a send that has to wait for room in   *)
(* the bounded channel to the main task.                                   *)
(***************************************************************************)
EXTENDS Integers, Sequences, FiniteSets

CONSTANTS Conn,        \* connections, each opened at most once
          PeerOf,      \* the peer id behind a connection
          IpOf,        \* the IP address in a connection's multiaddress
          Tolerance,   \* cli peer_tolerance
          MaxNumPeers, \* cli max_num_peers
          Severity,    \* sizes of the negative sanctions
          Reward,      \* severity of a positive sanction
          Capacity,    \* PEER_CHANNEL_CAPACITY
          MaxEvents,   \* bound: messages from peers, and ban and unban calls
          None

ASSUME PeerTasksAssumption ==
    /\ Tolerance \in Nat /\ MaxNumPeers \in Nat /\ Capacity \in Nat
    /\ Severity \subseteq Nat /\ Reward \in Nat
    /\ None \notin Int /\ None \notin Conn

VARIABLES lock,     \* the task that holds the write lock across a send
          chan,     \* peer_task_to_main: messages not yet taken
          cur,      \* the message the main task is handling
          peerMap,  \* net.peer_map: peer id -> [conn, standing]
          db,       \* peer_standings_by_ip
          pc,       \* where each connection's task is
          read,     \* the standing run_wrapper read before registering
          inbox,    \* broadcasts of the main task a peer task has not read
          roster,   \* peers the sync loop knows; None while not syncing
          banned,   \* peers the network actor was told to ban
          events    \* how many of the bounded events have happened

pvars == <<lock, chan, cur, peerMap, db, pc, read, inbox, roster, banned, events>>

Peer == {PeerOf[c] : c \in Conn}
Ip == {IpOf[c] : c \in Conn}
Registered == DOMAIN peerMap
Syncing == roster # None
Free == lock = None
InLoop(c) == pc[c] = "loop"

\* i32 addition saturates; with these severities it is the clamp that acts.
Clamped(n) == IF n > Tolerance THEN Tolerance ELSE IF n < -Tolerance THEN -Tolerance ELSE n

IsBad(standing) == standing <= -Tolerance

Sanction(standing, severity) == Clamped(standing + severity)

PInit ==
    /\ lock = None
    /\ chan = <<>>
    /\ cur = None
    /\ peerMap = <<>>
    /\ db = [i \in Ip |-> None]
    /\ pc = [c \in Conn |-> "off"]
    /\ read = [c \in Conn |-> 0]
    /\ inbox = [c \in Conn |-> {}]
    /\ roster = None
    /\ banned = {}
    /\ events = 0

Goto(c, label) == pc' = [pc EXCEPT ![c] = label]

Without(p) == [q \in Registered \ {p} |-> peerMap[q]]

With(p, entry) == [q \in Registered \cup {p} |-> IF q = p THEN entry ELSE peerMap[q]]

WithStanding(p, standing) == With(p, [peerMap[p] EXCEPT !.standing = standing])

\* A send made while holding the lock: it completes in this step when the
\* channel has room, otherwise the task waits and the lock stays taken.
SendLocked(c, msg, waiting, done) ==
    IF Len(chan) < Capacity
    THEN chan' = Append(chan, msg) /\ lock' = None /\ Goto(c, done)
    ELSE chan' = chan /\ lock' = c /\ Goto(c, waiting)

FinishSend(c, msg, done) ==
    /\ Len(chan) < Capacity
    /\ chan' = Append(chan, msg)
    /\ lock' = IF lock = c THEN None ELSE lock
    /\ Goto(c, done)
    /\ UNCHANGED <<cur, peerMap, db, read, inbox, roster, banned, events>>

\* The network actor spawned the task.  run_wrapper reads the standing that
\* is stored for the IP; the read lock is given up again.
ReadStanding(c) ==
    /\ pc[c] = "off"
    /\ PeerOf[c] \notin banned
    /\ Free
    /\ read' = [read EXCEPT ![c] = IF db[IpOf[c]] = None THEN 0 ELSE db[IpOf[c]]]
    /\ Goto(c, "open")
    /\ UNCHANGED <<lock, chan, cur, peerMap, db, inbox, roster, banned, events>>

\* Mutants: trusting the checks made before the lock was taken; one too many.
MayRegisterUnchecked(c) == TRUE

\* The checks that are made again under the write lock.
MayRegister(c) ==
    /\ PeerOf[c] \notin Registered
    /\ Cardinality(Registered) < MaxNumPeers

Refuse(c) ==
    /\ pc[c] = "open" /\ Free
    /\ ~MayRegister(c)
    /\ Goto(c, "done")
    /\ UNCHANGED <<lock, chan, cur, peerMap, db, read, inbox, roster, banned, events>>

Register(c) ==
    /\ pc[c] = "open" /\ Free
    /\ MayRegister(c)
    /\ peerMap' = With(PeerOf[c], [conn |-> c, standing |-> read[c]])
    /\ IF Syncing
       THEN SendLocked(c, <<"NewPeer", PeerOf[c]>>, "registering", "greet")
       ELSE Goto(c, "greet") /\ UNCHANGED <<lock, chan>>
    /\ UNCHANGED <<cur, db, read, inbox, roster, banned, events>>

\* A block notification request goes out when the peer claims more work.
\* When that send fails run_wrapper returns, past its own close callback.
Greet(c) ==
    /\ pc[c] = "greet" /\ Free
    /\ \E label \in {"loop", "done"} : Goto(c, label)
    /\ UNCHANGED <<lock, chan, cur, peerMap, db, read, inbox, roster, banned, events>>

\* punish: the ban request is sent before the write lock is given up.
Punish(c, severity) ==
    /\ Free
    /\ IF PeerOf[c] \notin Registered
       THEN Goto(c, "close") /\ UNCHANGED <<lock, chan, peerMap>>
       ELSE LET standing == Sanction(peerMap[PeerOf[c]].standing, severity) IN
            /\ peerMap' = WithStanding(PeerOf[c], standing)
            /\ IF IsBad(standing)
               THEN SendLocked(c, <<"Ban", PeerOf[c]>>, "banning", "expelled")
               ELSE Goto(c, "loop") /\ UNCHANGED <<lock, chan>>

Input(c) ==
    /\ InLoop(c)
    /\ events < MaxEvents
    /\ events' = events + 1

\* A message the handler punishes.
Misbehave(c) ==
    /\ Input(c)
    /\ \E severity \in Severity : Punish(c, -severity)
    /\ UNCHANGED <<cur, db, read, inbox, roster, banned>>

\* A block during sync: validated and forwarded under the write lock.
SyncBlock(c) ==
    /\ Input(c) /\ Free /\ Syncing
    /\ SendLocked(c, <<"NewSyncBlock", PeerOf[c]>>, "forwarding", "loop")
    /\ UNCHANGED <<cur, peerMap, db, read, inbox, roster, banned>>

\* A block outside sync: sent to the main task without the lock, then rewarded.
NewBlock(c) ==
    /\ Input(c) /\ ~Syncing
    /\ Len(chan) < Capacity
    /\ chan' = Append(chan, <<"NewBlocks", PeerOf[c]>>)
    /\ Goto(c, "reward")
    /\ UNCHANGED <<lock, cur, peerMap, db, read, inbox, roster, banned>>

RewardPeer(c) ==
    /\ pc[c] = "reward" /\ Free
    /\ IF PeerOf[c] \notin Registered
       THEN Goto(c, "loop") /\ UNCHANGED peerMap
       ELSE LET standing == Sanction(peerMap[PeerOf[c]].standing, Reward) IN
            /\ peerMap' = WithStanding(PeerOf[c], standing)
            /\ Goto(c, IF IsBad(standing) THEN "close" ELSE "loop")
    /\ UNCHANGED <<lock, chan, cur, db, read, inbox, roster, banned, events>>

\* An answered sync challenge: the peer's height is reported to the main task.
ClaimHeight(c) ==
    /\ Input(c) /\ ~Syncing
    /\ Len(chan) < Capacity
    /\ chan' = Append(chan, <<"Height", PeerOf[c]>>)
    /\ Goto(c, "loop")
    /\ UNCHANGED <<lock, cur, peerMap, db, read, inbox, roster, banned>>

\* Bye, end of stream, an error, or a panic: all reach the close callback.
Leave(c) ==
    /\ InLoop(c)
    /\ Goto(c, "close")
    /\ UNCHANGED <<lock, chan, cur, peerMap, db, read, inbox, roster, banned, events>>

\* Disconnect: bye is sent and the loop ends; a failed send ends it as well.
Disconnect(c) ==
    /\ InLoop(c) /\ "disconnect" \in inbox[c]
    /\ inbox' = [inbox EXCEPT ![c] = {}]
    /\ Goto(c, "close")
    /\ UNCHANGED <<lock, chan, cur, peerMap, db, read, roster, banned, events>>

\* write_peer_standing_on_decrease
\* Mutant: the latest standing wins.
WriteLatest(ip, standing) == [db EXCEPT ![ip] = standing]

WriteOnDecrease(ip, standing) ==
    IF db[ip] = None \/ db[ip] > standing THEN [db EXCEPT ![ip] = standing] ELSE db

\* close_peer_connected_callback finds the entry by address; the lock is given
\* up before the main task is told.
Close(c) ==
    /\ pc[c] \in {"close", "expelled"} /\ Free
    /\ LET mine == {p \in Registered : peerMap[p].conn = c} IN
       IF mine = {}
       THEN Goto(c, "done") /\ UNCHANGED <<peerMap, db>>
       ELSE /\ peerMap' = Without(PeerOf[c])
            /\ db' = WriteOnDecrease(IpOf[c], peerMap[PeerOf[c]].standing)
            /\ Goto(c, IF Syncing THEN "dropping" ELSE "done")
    /\ UNCHANGED <<lock, chan, cur, read, inbox, roster, banned, events>>

FinishRegister(c) == pc[c] = "registering" /\ FinishSend(c, <<"NewPeer", PeerOf[c]>>, "greet")
FinishBan(c) == pc[c] = "banning" /\ FinishSend(c, <<"Ban", PeerOf[c]>>, "expelled")
FinishForward(c) == pc[c] = "forwarding" /\ FinishSend(c, <<"NewSyncBlock", PeerOf[c]>>, "loop")
TellDropped(c) == pc[c] = "dropping" /\ FinishSend(c, <<"DroppedPeer", PeerOf[c]>>, "done")

-----------------------------------------------------------------------------
\* The main task takes one message and handles it to the end.
Take ==
    /\ cur = None /\ chan # <<>>
    /\ cur' = Head(chan)
    /\ chan' = Tail(chan)
    /\ UNCHANGED <<lock, peerMap, db, pc, read, inbox, roster, banned, events>>

NeedsLock(kind) == kind \in {"NewBlocks", "NewSyncBlock", "Height"}

RosterAfter(kind, p) ==
    CASE kind = "NewPeer" /\ Syncing -> roster \cup {p}
      [] kind = "DroppedPeer" /\ Syncing -> roster \ {p}
      [] kind = "Height" /\ ~Syncing -> Registered \cup {p}
      [] OTHER -> roster

\* Mutant: only a peer that is still connected is banned.
HandleConnected ==
    /\ cur # None
    /\ NeedsLock(cur[1]) => Free
    /\ roster' = RosterAfter(cur[1], cur[2])
    /\ banned' = IF cur[1] = "Ban" /\ cur[2] \in Registered THEN banned \cup {cur[2]} ELSE banned
    /\ cur' = None
    /\ UNCHANGED <<lock, chan, peerMap, db, pc, read, inbox, events>>

Handle ==
    /\ cur # None
    /\ NeedsLock(cur[1]) => Free
    /\ roster' = RosterAfter(cur[1], cur[2])
    /\ banned' = IF cur[1] = "Ban" THEN banned \cup {cur[2]} ELSE banned
    /\ cur' = None
    /\ UNCHANGED <<lock, chan, peerMap, db, pc, read, inbox, events>>

\* The sync loop reported Finished or Error: the anchor and the handle go.
EndSync ==
    /\ cur = None /\ Syncing /\ Free
    /\ roster' = None
    /\ UNCHANGED <<lock, chan, cur, peerMap, db, pc, read, inbox, banned, events>>

\* Ban by address.  A connected peer gets the worst standing, the actor bans
\* its id and it is disconnected; otherwise the actor bans the address's IP.
RpcBan(a) ==
    /\ cur = None /\ Free /\ events < MaxEvents
    /\ events' = events + 1
    /\ IF \E p \in Registered : peerMap[p].conn = a
       THEN /\ peerMap' = WithStanding(PeerOf[a], -Tolerance)
            /\ banned' = banned \cup {PeerOf[a]}
            /\ inbox' = [c \in Conn |-> IF PeerOf[c] = PeerOf[a] /\ pc[c] \notin {"off", "done"}
                                        THEN {"disconnect"} ELSE inbox[c]]
       ELSE /\ banned' = banned \cup {PeerOf[c] : c \in {d \in Conn : IpOf[d] = IpOf[a]}}
            /\ UNCHANGED <<peerMap, inbox>>
    /\ UNCHANGED <<lock, chan, cur, db, pc, read, roster>>

\* Unban by IP: the network actor first, then the stored standing is cleared.
RpcUnban(ip) ==
    /\ cur = None /\ Free /\ events < MaxEvents
    /\ banned' = banned \ {PeerOf[c] : c \in {d \in Conn : IpOf[d] = ip}}
    /\ db' = [db EXCEPT ![ip] = IF @ = None THEN None ELSE 0]
    /\ events' = events + 1
    /\ UNCHANGED <<lock, chan, cur, peerMap, pc, read, inbox, roster>>

TaskStep(c) ==
    \/ Refuse(c) \/ Register(c) \/ Greet(c) \/ RewardPeer(c) \/ Disconnect(c) \/ Close(c)
    \/ FinishRegister(c) \/ FinishBan(c) \/ FinishForward(c) \/ TellDropped(c)

MainStep == Take \/ Handle

\* Every connection of the bounded instance is over and nothing is in flight;
\* any other state without a step is a task waiting for ever.
Quiet ==
    /\ \A c \in Conn : pc[c] = "done" \/ (pc[c] = "off" /\ PeerOf[c] \in banned)
    /\ chan = <<>> /\ cur = None
    /\ UNCHANGED pvars

PNext ==
    \/ \E c \in Conn : \/ TaskStep(c) \/ ReadStanding(c) \/ Leave(c)
                       \/ Misbehave(c) \/ SyncBlock(c) \/ NewBlock(c) \/ ClaimHeight(c)
    \/ MainStep \/ EndSync \/ Quiet
    \/ \E a \in Conn : RpcBan(a)
    \/ \E ip \in Ip : RpcUnban(ip)

PFair == WF_pvars(MainStep) /\ \A c \in Conn : WF_pvars(TaskStep(c))

PSpec == PInit /\ [][PNext]_pvars /\ PFair

-----------------------------------------------------------------------------
Serving == {"registering", "greet", "loop", "reward", "banning", "forwarding", "close", "expelled"}

\* A standing stays within the tolerance in both directions, the channel
\* within its capacity, and only a task waiting to send holds the lock
\* (PeerStanding::sanction, mpsc::channel).
PTypeOK ==
    /\ lock \in {None} \cup {c \in Conn : pc[c] \in {"registering", "banning", "forwarding"}}
    /\ Len(chan) <= Capacity
    /\ Registered \subseteq Peer
    /\ \A p \in Registered : peerMap[p].standing \in -Tolerance..Tolerance
    /\ \A i \in Ip : db[i] \in {None} \cup -Tolerance..Tolerance
    /\ roster = None \/ roster \subseteq Peer

\* A task that serves its peer finds its own entry under that peer's id, so no
\* two tasks serve one peer and a punishment always finds a standing to lower
\* (run_wrapper's second check under the write lock, punish).
TasksOwnTheirEntries ==
    \A c \in Conn : pc[c] \in Serving =>
        /\ PeerOf[c] \in Registered
        /\ peerMap[PeerOf[c]].conn = c

\* However many connections race through the handshake, the map never holds
\* more than max_num_peers (run_wrapper).
PeersWithinMax == Cardinality(Registered) <= MaxNumPeers

\* The peer map is sound: the tasks that serve a peer each own one entry, and
\* there are never more entries than max_num_peers.
PeerMapIsSound == TasksOwnTheirEntries /\ PeersWithinMax

\* The stored standing of an address rises only by an unban: neither a reward
\* nor a second connection from the same IP that ends later, nor a registration
\* with a standing read too early, forgets a recorded punishment
\* (write_peer_standing_on_decrease).
StandingOnlyFalls ==
    [][\/ \E i \in Ip : RpcUnban(i)
       \/ \A i \in Ip : db[i] # None => db'[i] # None /\ db'[i] <= db[i]]_pvars

AsksForBan(p) ==
    \/ \E c \in Conn : PeerOf[c] = p /\ pc[c] = "banning"
    \/ \E n \in DOMAIN chan : chan[n] = <<"Ban", p>>
    \/ cur = <<"Ban", p>>

\* A peer punished into bad standing is eventually banned by the network actor
\* and its task ends: the request is not lost between the peer task, the main
\* task and the lock both need (punish, PeerTaskToMain::Ban).
BansReachTheActor ==
    /\ \A p \in Peer : AsksForBan(p) ~> p \in banned
    /\ \A c \in Conn : pc[c] \in {"banning", "expelled"} ~> pc[c] = "done"

\* While the channel to the main task never fills up, a peer punished into bad
\* standing is eventually banned by the network actor and its task ends: room
\* in the channel is all that the promise of punish depends on.
BansReachTheActorWithRoom == [](Len(chan) < Capacity) => BansReachTheActor

\* Whoever holds the lock gives it back: a send made under it is not waited
\* for by a main task that itself waits for the lock (GlobalStateLock: "always
\* drop it as soon as possible. Failure to do so can result in poor
\* concurrency or deadlock").
LockIsReleased == lock # None ~> lock = None
=============================================================================
