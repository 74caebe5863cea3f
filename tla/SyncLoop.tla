------------------------------- MODULE SyncLoop -------------------------------
(* Synchronization mode: the main loop, the sync loop it starts, the          *)
(* tip-successors subtask of the sync loop, and the peers' loops that feed    *)
(* them, with the bounded channels between them.  Proofs of work are heights  *)
(* here, and every block is valid with respect to its parent only.            *)
EXTENDS BlockTree, Coverage

CONSTANTS
  Peer,           \* the peers we are connected to
  FirstTip,       \* FirstTip[p]: the tip of p's chain in the beginning
  LocalTip,       \* our own tip in the beginning
  SyncThreshold,  \* cli sync_mode_threshold
  CapMain,        \* capacity of the peers-to-main channel
  CapSync,        \* SYNC_LOOP_CHANNEL_CAPACITY, both directions
  Resume,         \* ~ cli no_resume_sync
  MainStalls,     \* may main be busy for longer than a sender retries?
  MaxChallenges, MaxRestarts, MaxFetches, MaxDrops,   \* bounds of the instance
  NoBlock

ASSUME SyncAssumption ==
  /\ \A S \in SUBSET Peer : Cardinality(S) \in Nat   \* Peer is finite
  /\ NoBlock \notin Block
  /\ LocalTip \in Block /\ FirstTip \in [Peer -> Block]
  /\ SyncThreshold \in Nat
  /\ CapMain \in Nat \ {0} /\ CapSync \in Nat \ {0}
  /\ Resume \in BOOLEAN /\ MainStalls \in BOOLEAN

VARIABLES
  \* the main loop and the global state
  stored,     \* the blocks the archival state holds
  chainTip,   \* its tip
  handle,     \* maybe_sync_loop: 0, or its target_height
  anchor,     \* net.sync_anchor: NoBlock, or its champion
  outbox,     \* messages the main loop is waiting to send to the sync loop
  \* the peers, and the channel from their loops to the main loop
  peerTip, connected, asked, fromPeers,
  challenge,  \* challenge[p]: NoBlock, or the tip claimed in the open challenge
  \* the sync loop
  loop,       \* "off", "run", "finishing", "failing", "over", "panicked"
  tip, target, cov, index, peers, lost,
  sending,    \* the block an arm of the loop is waiting to send to main
  task,       \* the tip-successors subtask, with its snapshot of the state
  toSync, toMain,
  \* the download directory
  disk, dirOk, cleaning, shared,
  \* how much of the instance's bounds is used
  used

mainVars == <<stored, chainTip, handle, anchor, outbox>>
netVars  == <<peerTip, connected, asked, challenge>>
loopVars == <<loop, tip, target, cov, index, peers, lost>>
dirVars  == <<disk, dirOk, cleaning, shared>>
vars == <<mainVars, netVars, fromPeers, loopVars, sending, task,
          toSync, toMain, dirVars, used>>

NoSend == [t |-> "none", b |-> NoBlock]
NoTask == [phase |-> "none", tip |-> Genesis, cov |-> NewCoverage(1, 1), index |-> {}]

\* The block at height h of the chain of b.
AtHeight(b, h) == Chain[b][h + 1]

\* incoming_block_is_more_canonical, with the height for the proof of work
MoreCanonical(b) == Height(b) > Height(chainTip)

\* sync_mode_threshold_stateless
SyncCriterion(c) == Height(c) - Height(chainTip) > SyncThreshold /\ MoreCanonical(c)

RoomInMain == Len(fromPeers) < CapMain
RoomToMain == Len(toMain) < CapSync
RoomToSync == Len(toSync) < CapSync

\* A full channel to main outlasts the retries of a sender: main is busy for
\* that long, or it waits for room to the sync loop, which reads nothing now.
RetriesRunOut ==
  /\ ~ RoomToMain
  /\ \/ MainStalls
     \/ /\ outbox # <<>> /\ ~ RoomToSync
        /\ sending # NoSend \/ loop \in {"finishing", "failing"}

TellMain(m) == RoomInMain /\ fromPeers' = Append(fromPeers, m)

Init ==
  /\ stored = Ancestry(LocalTip) /\ chainTip = LocalTip
  /\ handle = 0 /\ anchor = NoBlock /\ outbox = <<>>
  /\ challenge = [p \in Peer |-> NoBlock]
  /\ peerTip = FirstTip /\ connected = Peer /\ asked = {} /\ fromPeers = <<>>
  /\ loop = "off" /\ tip = Genesis /\ target = 0 /\ cov = NewCoverage(1, 1)
  /\ index = {} /\ peers = {} /\ lost = FALSE
  /\ sending = NoSend /\ task = NoTask /\ toSync = <<>> /\ toMain = <<>>
  /\ disk = {} /\ dirOk = TRUE /\ cleaning = FALSE /\ shared = FALSE
  /\ used = [challenges |-> 0, restarts |-> 0, fetches |-> 0, drops |-> 0]

-----------------------------------------------------------------------------
(* The peers' loops.                                                          *)

\* A chain grows on the other side of the connection.
PeerExtends(p) ==
  /\ \E b \in Block \ {Genesis} :
       Parent(b) = peerTip[p] /\ peerTip' = [peerTip EXCEPT ![p] = b]
  /\ UNCHANGED <<mainVars, connected, asked, challenge, fromPeers, loopVars, sending, task,
                 toSync, toMain, dirVars, used>>

\* BlockNotification of a tip that meets the sync mode criterion.
PeerChallenged(p) ==
  /\ p \in connected /\ anchor = NoBlock /\ challenge[p] = NoBlock
  /\ SyncCriterion(peerTip[p])
  /\ used.challenges < MaxChallenges
  /\ used' = [used EXCEPT !.challenges = @ + 1]
  /\ challenge' = [challenge EXCEPT ![p] = peerTip[p]]
  /\ UNCHANGED <<mainVars, peerTip, connected, asked, fromPeers, loopVars, sending,
                 task, toSync, toMain, dirVars>>

\* SyncChallengeResponse, once it has passed every test: the first such peer
\* starts sync mode, a later one joins it.
PeerResponds(p) ==
  /\ p \in connected /\ challenge[p] # NoBlock
  /\ challenge' = [challenge EXCEPT ![p] = NoBlock]
  /\ TellMain(IF anchor # NoBlock THEN [t |-> "NewPeer", p |-> p]
              ELSE [t |-> "AddPeerMaxBlockHeight", p |-> p, b |-> challenge[p]])
  /\ UNCHANGED <<mainVars, peerTip, connected, asked, loopVars, sending, task,
                 toSync, toMain, dirVars, used>>

\* PeerMessage::Block, under the global write lock while in sync mode.  Out of
\* sync mode a block with a known parent goes to the main loop if it is heavier.
Deliver(p, b) ==
  LET successor == b # Genesis /\ Parent(b) = anchor
      champion  == Height(b) > Height(anchor)
  IN  IF anchor = NoBlock
        THEN /\ IF b # Genesis /\ Parent(b) \in stored /\ MoreCanonical(b)
                  THEN TellMain([t |-> "NewBlocks", b |-> b])
                  ELSE UNCHANGED fromPeers
             /\ UNCHANGED anchor
      ELSE IF successor /\ champion
        THEN TellMain([t |-> "NewSyncTarget", b |-> b]) /\ anchor' = b
      ELSE IF successor \/ champion
        THEN UNCHANGED <<fromPeers, anchor>>
        ELSE TellMain([t |-> "NewSyncBlock", p |-> p, b |-> b]) /\ UNCHANGED anchor

\* BlockRequestByHeight answered from the peer's canonical chain, if it is so long.
PeerAnswers(p, h) ==
  /\ p \in connected
  /\ <<p, h>> \in asked
  /\ asked' = asked \ {<<p, h>>}
  /\ IF h <= Height(peerTip[p]) THEN Deliver(p, AtHeight(peerTip[p], h))
     ELSE UNCHANGED <<fromPeers, anchor>>
  /\ UNCHANGED <<stored, chainTip, handle, outbox, peerTip, connected, challenge, loopVars,
                 sending, task, toSync, toMain, dirVars, used>>

\* BlockNotification, then our request for the block, then the block.
PeerAnnounces(p) ==
  /\ p \in connected
  /\ IF anchor # NoBlock THEN Height(peerTip[p]) = Height(anchor) + 1
     ELSE MoreCanonical(peerTip[p]) /\ ~ SyncCriterion(peerTip[p])
  /\ Deliver(p, peerTip[p])
  /\ UNCHANGED <<stored, chainTip, handle, outbox, netVars, loopVars, sending,
                 task, toSync, toMain, dirVars, used>>

\* BlockRequestByHeight from a peer, for a block that we may be downloading.
PeerWants(p, h) ==
  /\ p \in connected /\ anchor # NoBlock /\ h > Height(chainTip)
  /\ used.fetches < MaxFetches
  /\ used' = [used EXCEPT !.fetches = @ + 1]
  /\ TellMain([t |-> "PeerWantsSyncBlock", p |-> p, h |-> h])
  /\ UNCHANGED <<mainVars, netVars, loopVars, sending, task, toSync, toMain, dirVars>>

\* close_peer_connected_callback
PeerDrops(p) ==
  /\ p \in connected
  /\ used.drops < MaxDrops
  /\ used' = [used EXCEPT !.drops = @ + 1]
  /\ connected' = connected \ {p}
  /\ asked' = {a \in asked : a[1] # p}
  /\ challenge' = [challenge EXCEPT ![p] = NoBlock]
  /\ TellMain([t |-> "DroppedPeer", p |-> p])
  /\ UNCHANGED <<mainVars, peerTip, loopVars, sending, task, toSync, toMain, dirVars>>

-----------------------------------------------------------------------------
(* The main loop.  While it waits for room in the channel to the sync loop it *)
(* handles nothing else.                                                      *)

Hears(type) == outbox = <<>> /\ fromPeers # <<>> /\ Head(fromPeers).t = type
HeardPeer   == fromPeers' = Tail(fromPeers)

\* A try_send to the sync loop: the message is lost when there is no room.
TrySync(m) == toSync' = IF loop = "run" /\ RoomToSync THEN Append(toSync, m) ELSE toSync

\* set_new_tip or store_block_not_tip
Store(b) ==
  /\ stored' = stored \cup {b}
  /\ chainTip' = IF MoreCanonical(b) THEN b ELSE chainTip

\* A message of outbox finds room, or the receiver is gone.
MainSends ==
  /\ outbox # <<>>
  /\ IF loop \in {"over", "panicked"} THEN UNCHANGED toSync
     ELSE RoomToSync /\ toSync' = Append(toSync, Head(outbox))
  /\ outbox' = Tail(outbox)
  /\ UNCHANGED <<stored, chainTip, handle, anchor, netVars, fromPeers, loopVars,
                 sending, task, toMain, dirVars, used>>

NewBlocks ==
  /\ Hears("NewBlocks") /\ HeardPeer
  /\ IF MoreCanonical(Head(fromPeers).b) THEN Store(Head(fromPeers).b)
     ELSE UNCHANGED <<stored, chainTip>>
  /\ UNCHANGED <<handle, anchor, outbox, netVars, loopVars, sending, task, toSync,
                 toMain, dirVars, used>>

\* RapidBlockDownload::new and fast_forward to genesis: what an earlier
\* session left on disk is taken over, whatever its height.
Resumed(files, height) ==
  LET found == {Height(b) : b \in files}
      top == CHOOSE h \in found \cup {height} : \A i \in found \cup {height} : i <= h
  IN  [present |-> {0} \cup found, bound |-> top + 1]

AddPeerMaxBlockHeight ==
  /\ Hears("AddPeerMaxBlockHeight") /\ HeardPeer
  /\ LET m == Head(fromPeers)
         files == IF Resume THEN disk ELSE {}
     IN  IF handle = 0 /\ SyncCriterion(m.b) /\ anchor = NoBlock
           THEN /\ anchor' = m.b
                /\ handle' = Height(m.b)
                /\ loop' = "run" /\ tip' = Genesis /\ target' = Height(m.b)
                /\ cov' = Resumed(files, Height(m.b)) /\ index' = files
                /\ peers' = {} /\ lost' = FALSE
                /\ disk' = files /\ dirOk' = TRUE /\ shared' = (Resume /\ cleaning)
                /\ toSync' = <<[t |-> "AddPeer", p |-> m.p]>>
                /\ \E order \in [1..Cardinality(connected \ {m.p}) -> connected \ {m.p}] :
                     /\ \A p \in connected \ {m.p} : \E n \in DOMAIN order : order[n] = p
                     /\ outbox' = [n \in DOMAIN order |-> [t |-> "AddPeer", p |-> order[n]]]
                /\ asked' = asked \cup
                     (IF chainTip = Genesis THEN {} ELSE {<<m.p, Height(chainTip)>>})
           ELSE UNCHANGED <<anchor, handle, loopVars, disk, dirOk, shared, toSync,
                            outbox, asked>>
  /\ UNCHANGED <<stored, chainTip, peerTip, connected, challenge, sending, task,
                 toMain, cleaning, used>>

\* NewPeer and DroppedPeer are passed on with a send that waits for room.
PassOn(type, m) ==
  /\ Hears(type) /\ HeardPeer
  /\ outbox' = IF handle # 0 THEN <<m>> ELSE <<>>
  /\ UNCHANGED <<stored, chainTip, handle, anchor, netVars, loopVars, sending, task,
                 toSync, toMain, dirVars, used>>
NewPeer     == PassOn("NewPeer", [t |-> "AddPeer", p |-> Head(fromPeers).p])
DroppedPeer == PassOn("DroppedPeer", [t |-> "RemovePeer", p |-> Head(fromPeers).p])

\* mutant: the handle's target height is not updated
TargetForgotten ==
  /\ Hears("NewSyncTarget") /\ HeardPeer
  /\ outbox' = IF handle # 0 /\ handle + 1 = Height(Head(fromPeers).b)
                 THEN <<[t |-> "ExtendChain", b |-> Head(fromPeers).b]>> ELSE <<>>
  /\ UNCHANGED <<stored, chainTip, handle, anchor, netVars, loopVars, sending, task, toSync,
                 toMain, dirVars, used>>

\* The anchor catches up after the send; until then the main loop does nothing
\* else, and a champion of greater height is kept.
NewSyncTarget ==
  /\ Hears("NewSyncTarget") /\ HeardPeer
  /\ LET b == Head(fromPeers).b
     IN  IF handle # 0 /\ handle + 1 = Height(b)
           THEN /\ outbox' = <<[t |-> "ExtendChain", b |-> b]>>
                /\ handle' = Height(b)
                /\ anchor' = IF anchor # NoBlock /\ Height(anchor) <= Height(b) THEN b ELSE anchor
           ELSE UNCHANGED <<outbox, handle, anchor>>
  /\ UNCHANGED <<stored, chainTip, netVars, loopVars, sending, task, toSync, toMain,
                 dirVars, used>>

NewSyncBlock ==
  /\ Hears("NewSyncBlock") /\ HeardPeer
  /\ LET m == Head(fromPeers)
     IN  IF handle = 0 THEN UNCHANGED <<outbox, toSync>>
         ELSE IF m.b \in stored \cap Ancestry(chainTip)
           THEN outbox' = <<[t |-> "FastForward", b |-> m.b]>> /\ UNCHANGED toSync
           ELSE TrySync([t |-> "ReceiveBlock", p |-> m.p, b |-> m.b]) /\ UNCHANGED outbox
  /\ UNCHANGED <<stored, chainTip, handle, anchor, netVars, loopVars, sending, task,
                 toMain, dirVars, used>>

PeerWantsSyncBlock ==
  /\ Hears("PeerWantsSyncBlock") /\ HeardPeer
  /\ IF handle = 0 THEN UNCHANGED toSync
     ELSE TrySync([t |-> "TryFetchBlock", p |-> Head(fromPeers).p, h |-> Head(fromPeers).h])
  /\ UNCHANGED <<mainVars, netVars, loopVars, sending, task, toMain, dirVars, used>>

HearsSync(type) == outbox = <<>> /\ toMain # <<>> /\ Head(toMain).t = type

\* The sync loop's own state ends with its task.
Forget ==
  /\ tip' = Genesis /\ target' = 0 /\ cov' = NewCoverage(1, 1)
  /\ index' = {} /\ peers' = {} /\ lost' = FALSE

\* Finished and Error: the handle is dropped, with all that is in the channels.
\* A subtask that still runs finds its channel closed.
DropHandle ==
  /\ HearsSync("Finished") \/ HearsSync("Error")
  /\ handle' = 0 /\ anchor' = NoBlock
  /\ toMain' = <<>> /\ toSync' = <<>>
  /\ loop' = "off" /\ task' = NoTask /\ Forget
  /\ UNCHANGED <<stored, chainTip, outbox, netVars, fromPeers, sending, dirVars, used>>

TipSuccessor ==
  /\ HearsSync("TipSuccessor")
  /\ toMain' = Tail(toMain)
  /\ Store(Head(toMain).b)
  /\ UNCHANGED <<handle, anchor, outbox, netVars, fromPeers, loopVars, sending, task,
                 toSync, dirVars, used>>

RequestBlocks ==
  /\ HearsSync("RequestBlocks")
  /\ toMain' = Tail(toMain)
  /\ asked' = asked \cup ({<<Head(toMain).p, Head(toMain).h>>} \cap connected \X Nat)
  /\ UNCHANGED <<mainVars, peerTip, connected, challenge, fromPeers, loopVars, sending,
                 task, toSync, dirVars, used>>

\* SyncBlock and Coverage are passed on to the peer.
Relay ==
  /\ HearsSync("SyncBlock") \/ HearsSync("Coverage")
  /\ toMain' = Tail(toMain)
  /\ UNCHANGED <<mainVars, netVars, fromPeers, loopVars, sending, task, toSync,
                 dirVars, used>>

-----------------------------------------------------------------------------
(* The tip-successors subtask, with its snapshot of the download state.       *)

NewTask(t, c, files) == [phase |-> "next", tip |-> t, cov |-> c, index |-> files]
Next1(b) == Height(b) + 1

\* get_received_block: the file that the index has for a height, if it is there
Loadable(files, h) == {b \in files \cap disk : Height(b) = h}

Ends(phase) == task' = [task EXCEPT !.phase = phase]

\* have_received, get_received_block, verify, ensure_send_tip_successor
TaskSends ==
  /\ task.phase = "next" /\ Present(task.cov, Next1(task.tip))
  /\ LET found == Loadable(task.index, Next1(task.tip))
     IN  \/ found = {} /\ Ends("RapidBlockDownloadError") /\ UNCHANGED toMain
         \/ \E b \in found :
              \/ Parent(b) # task.tip /\ Ends("BlockValidationError") /\ UNCHANGED toMain
              \/ /\ Parent(b) = task.tip /\ RoomToMain
                 /\ toMain' = Append(toMain, [t |-> "TipSuccessor", b |-> b])
                 /\ task' = [task EXCEPT !.phase = "delete", !.tip = b]
              \/ /\ Parent(b) = task.tip /\ RetriesRunOut
                 /\ Ends("SendError") /\ UNCHANGED toMain
  /\ UNCHANGED <<mainVars, netVars, fromPeers, loopVars, sending, toSync, dirVars, used>>

\* delete_block
TaskDeletes ==
  /\ task.phase = "delete"
  /\ disk' = disk \ {task.tip}
  /\ Ends("next")
  /\ UNCHANGED <<mainVars, netVars, fromPeers, loopVars, sending, toSync, toMain,
                 dirOk, cleaning, shared, used>>

TaskReturns ==
  /\ task.phase = "next" /\ ~ Present(task.cov, Next1(task.tip))
  /\ Ends(IF Complete(task.cov) THEN "Finished" ELSE "Continue")
  /\ UNCHANGED <<mainVars, netVars, fromPeers, loopVars, sending, toSync, toMain,
                 dirVars, used>>

-----------------------------------------------------------------------------
(* The arms of the sync loop's select.                                        *)

Idle == loop = "run" /\ sending = NoSend
Gets(type) == Idle /\ toSync # <<>> /\ Head(toSync).t = type
Got == toSync' = Tail(toSync)

\* mutant: the subtask's outdated view of the download state is believed
ResultBelieved ==
  /\ Idle /\ task.phase \notin {"none", "next", "delete"}
  /\ task' = NoTask
  /\ IF task.phase \in {"Finished", "Continue"} THEN tip' = task.tip ELSE UNCHANGED tip
  /\ loop' = CASE task.phase = "Finished" -> "finishing"
               [] task.phase = "Continue" -> "run"
               [] OTHER -> "failing"
  /\ UNCHANGED <<mainVars, netVars, fromPeers, target, cov, index, peers, lost, sending,
                 toSync, toMain, dirVars, used>>

\* event: successors subtask finished
TaskResult ==
  /\ Idle /\ task.phase \notin {"none", "next", "delete"}
  /\ IF task.phase \notin {"Finished", "Continue"}
       THEN loop' = "failing" /\ task' = NoTask /\ UNCHANGED tip
       ELSE /\ tip' = task.tip
            /\ IF /\ task.phase = "Finished" /\ toSync = <<>>
                  /\ Complete(cov) /\ target = Height(task.tip)
                 THEN loop' = "finishing" /\ task' = NoTask
                 ELSE /\ UNCHANGED loop
                      /\ task' = IF Present(cov, Next1(task.tip)) THEN NewTask(task.tip, cov, index)
                               ELSE NoTask
  /\ UNCHANGED <<mainVars, netVars, fromPeers, target, cov, index, peers, lost, sending,
                 toSync, toMain, dirVars, used>>

AddPeer ==
  /\ Gets("AddPeer") /\ Got
  /\ peers' = peers \cup {Head(toSync).p}
  /\ UNCHANGED <<mainVars, netVars, fromPeers, loop, tip, target, cov, index, lost,
                 sending, task, toMain, dirVars, used>>

RemovePeer ==
  /\ Gets("RemovePeer") /\ Got
  /\ peers' = peers \ {Head(toSync).p} /\ lost' = TRUE
  /\ UNCHANGED <<mainVars, netVars, fromPeers, loop, tip, target, cov, index,
                 sending, task, toMain, dirVars, used>>

\* receive_block: the file is written, then the index and the mask are updated;
\* set panics on a height beyond the mask.
Receive(c, b) ==
  IF Present(c, Height(b)) THEN cov' = c /\ UNCHANGED <<index, disk>>
  ELSE /\ disk' = disk \cup {b} /\ index' = index \cup {b}
       /\ cov' = IF Height(b) < c.bound THEN Mark(c, Height(b)) ELSE c

ReceiveBlock ==
  /\ Gets("ReceiveBlock") /\ Got
  /\ LET b == Head(toSync).b
         written == dirOk \/ Present(cov, Height(b))
         next == written /\ task = NoTask /\ Height(b) = Next1(tip)
     IN  /\ IF written THEN Receive(cov, b) ELSE UNCHANGED <<cov, index, disk>>
         /\ loop' = IF written /\ Height(b) >= cov.bound THEN "panicked" ELSE "run"
         /\ task' = IF next /\ loop' = "run" THEN NewTask(tip, cov', index') ELSE task
  /\ UNCHANGED <<mainVars, netVars, fromPeers, tip, target, peers, lost, sending, toMain,
                 dirOk, cleaning, shared, used>>

\* extend_chain, whose two assertions guard the target and the mask; the block
\* is then sent on if it is the next one.
ExtendChain ==
  /\ Gets("ExtendChain") /\ Got
  /\ LET b == Head(toSync).b
         fits == target + 1 = Height(b) /\ cov.bound <= Height(b) + 1
     IN  IF fits /\ (dirOk \/ Present(cov, Height(b)))
           THEN /\ Receive(Widen(cov, Height(b) + 1), b)
                /\ target' = Height(b)
                /\ sending' = IF Next1(tip) = Height(b) THEN [t |-> "TipSuccessor", b |-> b]
                              ELSE NoSend
                /\ UNCHANGED loop
           ELSE /\ loop' = IF fits THEN "run" ELSE "panicked"
                /\ cov' = IF fits THEN Widen(cov, Height(b) + 1) ELSE cov
                /\ UNCHANGED <<index, disk, target, sending>>
  /\ UNCHANGED <<mainVars, netVars, fromPeers, tip, peers, lost, task, toMain,
                 dirOk, cleaning, shared, used>>

\* TryFetchBlock: the coverage is tried once, a block is waited for.
TryFetchBlock ==
  /\ Gets("TryFetchBlock") /\ Got
  /\ LET h == Head(toSync).h
     IN  IF Present(cov, h)
           THEN /\ sending' = IF Loadable(index, h) = {} THEN NoSend
                              ELSE [t |-> "SyncBlock", b |-> CHOOSE b \in Loadable(index, h) : TRUE]
                /\ UNCHANGED toMain
           ELSE /\ toMain' = IF RoomToMain THEN Append(toMain, [t |-> "Coverage"]) ELSE toMain
                /\ UNCHANGED sending
  /\ UNCHANGED <<mainVars, netVars, fromPeers, loopVars, task, dirVars, used>>

\* The rest of the arms that send a block to main: after a tip-successor the
\* loop ends when no message waits; on a channel full for too long it fails.
LoopSends ==
  /\ loop = "run" /\ sending # NoSend
  /\ sending' = NoSend
  /\ \/ /\ RoomToMain
        /\ toMain' = Append(toMain, sending)
        /\ tip' = IF sending.t = "TipSuccessor" THEN sending.b ELSE tip
        /\ loop' = IF sending.t = "TipSuccessor" /\ toSync = <<>> THEN "finishing" ELSE "run"
     \/ /\ RetriesRunOut /\ sending.t = "TipSuccessor"
        /\ loop' = "failing"
        /\ UNCHANGED <<toMain, tip>>
  /\ UNCHANGED <<mainVars, netVars, fromPeers, target, cov, index, peers, lost, task,
                 toSync, dirVars, used>>

FastForward ==
  /\ Gets("FastForward") /\ Got
  /\ LET b == Head(toSync).b
         h == Height(b)
     IN  IF h > Height(tip)
           THEN /\ tip' = b
                /\ cov' = MarkRange(IF h >= cov.bound THEN Widen(cov, h + 1) ELSE cov, 0, h)
           ELSE UNCHANGED <<tip, cov>>
  /\ UNCHANGED <<mainVars, netVars, fromPeers, loop, target, index, peers, lost, sending,
                 task, toMain, dirVars, used>>

\* event: fast timer ticks, after ten seconds without a peer
TickGone ==
  /\ Idle /\ peers = {} /\ lost /\ toSync = <<>> /\ task = NoTask /\ ~ Complete(cov)
  /\ loop' = "failing"
  /\ UNCHANGED <<mainVars, netVars, fromPeers, tip, target, cov, index, peers, lost,
                 sending, task, toSync, toMain, dirVars, used>>

NoTickStart == FALSE   \* mutant: nothing looks after a complete download

\* event: fast timer ticks, with the download complete and no subtask
TickStart ==
  /\ Idle /\ Complete(cov) /\ task = NoTask
  /\ task' = NewTask(tip, cov, index)
  /\ UNCHANGED <<mainVars, netVars, fromPeers, loopVars, sending, toSync, toMain,
                 dirVars, used>>

\* event: fast timer ticks, with a request due: request_random_blocks
TickRequest(p, h) ==
  /\ Idle /\ p \in peers /\ h \in Missing(cov) /\ RoomToMain
  /\ <<p, h>> \notin asked
  /\ \A n \in DOMAIN toMain : toMain[n].t # "RequestBlocks"
  /\ toMain' = Append(toMain, [t |-> "RequestBlocks", p |-> p, h |-> h])
  /\ UNCHANGED <<mainVars, netVars, fromPeers, loopVars, sending, task, toSync,
                 dirVars, used>>

\* The return code, and the removal of the directory after it.
LoopReturns ==
  /\ loop \in {"finishing", "failing"}
  /\ \/ /\ RoomToMain
        /\ toMain' = Append(toMain, IF loop = "finishing" THEN [t |-> "Finished", h |-> target]
                                    ELSE [t |-> "Error"])
     \/ RetriesRunOut /\ UNCHANGED toMain
  /\ loop' = "over" /\ cleaning' = TRUE /\ Forget /\ toSync' = <<>>
  /\ UNCHANGED <<mainVars, netVars, fromPeers, sending, task, disk, dirOk, shared, used>>

CleanUp ==
  /\ cleaning /\ cleaning' = FALSE
  /\ LET ours == loop \in {"off", "over"}
     IN  /\ disk' = IF ours \/ shared THEN {} ELSE disk
         /\ dirOk' = (dirOk /\ (ours \/ ~ shared))
  /\ UNCHANGED <<mainVars, netVars, fromPeers, loopVars, sending, task, toSync, toMain,
                 shared, used>>

-----------------------------------------------------------------------------
\* The node is stopped, gracefully or not, and started again: the databases
\* and the files of the download directory are all that is left.
Restart ==
  /\ used.restarts < MaxRestarts
  /\ used' = [used EXCEPT !.restarts = @ + 1]
  /\ handle' = 0 /\ anchor' = NoBlock /\ outbox' = <<>>
  /\ asked' = {} /\ fromPeers' = <<>> /\ challenge' = [p \in Peer |-> NoBlock]
  /\ loop' = "off" /\ Forget /\ sending' = NoSend /\ task' = NoTask
  /\ toSync' = <<>> /\ toMain' = <<>>
  /\ cleaning' = FALSE /\ dirOk' = TRUE /\ shared' = FALSE
  /\ UNCHANGED <<stored, chainTip, peerTip, connected, disk>>

Heights == {Height(b) : b \in Block}

PeerStep ==
  \E p \in Peer : \/ PeerExtends(p) \/ PeerChallenged(p) \/ PeerResponds(p)
                 \/ PeerAnnounces(p) \/ PeerDrops(p)
                 \/ \E h \in Heights : PeerAnswers(p, h) \/ PeerWants(p, h)
MainStep ==
  \/ MainSends \/ NewBlocks \/ AddPeerMaxBlockHeight \/ NewPeer \/ DroppedPeer
  \/ NewSyncTarget \/ NewSyncBlock \/ PeerWantsSyncBlock
  \/ DropHandle \/ TipSuccessor \/ RequestBlocks \/ Relay
TaskStep == TaskSends \/ TaskDeletes \/ TaskReturns
LoopMessage ==
  AddPeer \/ RemovePeer \/ ReceiveBlock \/ ExtendChain \/ TryFetchBlock \/ FastForward
LoopStep == TaskResult \/ LoopSends \/ TickGone \/ TickStart \/ LoopReturns
Request == \E p \in Peer, h \in Heights : TickRequest(p, h)

Next == PeerStep \/ MainStep \/ TaskStep \/ LoopMessage \/ LoopStep \/ Request \/ CleanUp \/ Restart

Spec == Init /\ [][Next]_vars

\* Tasks run when they can, the select of the sync loop picks fairly among the
\* arms that are ready, its ticker keeps ticking, and peers answer.
Answer == \E p \in Peer, h \in Heights : PeerAnswers(p, h)
FairSpec ==
  /\ Spec
  /\ WF_vars(MainStep) /\ WF_vars(TaskStep) /\ WF_vars(LoopMessage) /\ WF_vars(LoopStep)
  /\ WF_vars(Request) /\ WF_vars(Answer) /\ WF_vars(CleanUp)
-----------------------------------------------------------------------------
Queued(type) == {n \in DOMAIN toMain : toMain[n].t = type}

\* "The two should always be in sync": the main loop holds a sync loop exactly
\* when the anchor tells the peers' loops that sync mode is on.
HandleAnchorAgree == (handle = 0) <=> (anchor = NoBlock)

\* The target can catch up with the champion: for every height between the two
\* a new target is on its way to the main loop.
ChampionReachable ==
  \A h \in Heights : handle < h /\ anchor # NoBlock /\ h <= Height(anchor) =>
    \E n \in DOMAIN fromPeers : fromPeers[n].t = "NewSyncTarget" /\ Height(fromPeers[n].b) = h

\* The main loop's view of the sync loop is sound: handle and anchor agree, and
\* no height between them is skipped.
HandleIsSound == HandleAnchorAgree /\ ChampionReachable

\* Whatever order blocks arrive in, a tip-successor handed to the main loop
\* extends a block that is stored or handed over before it.
SuccessorsValidated ==
  \A n \in Queued("TipSuccessor") :
    \/ Parent(toMain[n].b) \in stored
    \/ \E m \in Queued("TipSuccessor") : m < n /\ toMain[m].b = Parent(toMain[n].b)

\* The sync loop says it is finished only when a block of the target height is
\* stored or is handed over before the message.
FinishedMeansStored ==
  \A n \in Queued("Finished") :
    \/ \E b \in stored : Height(b) = toMain[n].h
    \/ \E m \in Queued("TipSuccessor") : m < n /\ Height(toMain[m].b) = toMain[n].h

\* With peers that answer and a main loop that does not stall, a sync loop
\* ends, and the chain then reaches every target it had accepted.
SyncCompletes ==
  \A t \in Heights \ {0} :
    loop = "run" /\ target = t ~> handle = 0 /\ Height(chainTip) >= t
===============================================================================
