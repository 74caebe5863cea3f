--------------------------- MODULE SyncLoop_proofs ---------------------------
(***************************************************************************)
(* Proofs about SyncLoop, for any tree of blocks, any peers and any        *)
(* capacity of the channels.                                               *)
(***************************************************************************)
EXTENDS SyncLoop, TLAPS

(* The messages of the three channels.                                     *)
PeerMsg ==
    [t : {"NewPeer", "DroppedPeer"}, p : Peer]
      \cup [t : {"NewBlocks", "NewSyncTarget"}, b : Block]
      \cup [t : {"AddPeerMaxBlockHeight", "NewSyncBlock"}, p : Peer, b : Block]
      \cup [t : {"PeerWantsSyncBlock"}, p : Peer, h : Nat]
SyncMsg ==
    [t : {"AddPeer", "RemovePeer"}, p : Peer]
      \cup [t : {"ExtendChain", "FastForward"}, b : Block]
      \cup [t : {"ReceiveBlock"}, p : Peer, b : Block]
      \cup [t : {"TryFetchBlock"}, p : Peer, h : Nat]
MainMsg ==
    [t : {"TipSuccessor", "SyncBlock"}, b : Block]
      \cup [t : {"RequestBlocks"}, p : Peer, h : Nat]
      \cup [t : {"Coverage", "Error"}]
      \cup [t : {"Finished"}, h : Nat]

(* What the parts hold.  Of the subtask only the shape and the tip matter. *)
MainTypes ==
    /\ stored \subseteq Block /\ Genesis \in stored /\ chainTip \in Block
    /\ handle \in Nat /\ anchor \in Block \cup {NoBlock}
PeerTypes ==
    /\ peerTip \in [Peer -> Block] /\ connected \subseteq Peer
    /\ challenge \in [Peer -> Block \cup {NoBlock}]
ChannelTypes ==
    /\ fromPeers \in Seq(PeerMsg) /\ outbox \in Seq(SyncMsg)
    /\ toSync \in Seq(SyncMsg) /\ toMain \in Seq(MainMsg)
Shaped(r) == \E c, i, y : r \in [phase : {y}, tip : Block, cov : {c}, index : {i}]
LoopTypes ==
    /\ tip \in Block /\ target \in Nat /\ peers \subseteq Peer /\ disk \subseteq Block
    /\ sending = NoSend \/ sending \in [t : {"TipSuccessor", "SyncBlock"}, b : Block]
    /\ Shaped(task)
Types == MainTypes /\ PeerTypes /\ ChannelTypes /\ LoopTypes

(* There is a sync loop only under a handle, it waits to send only while   *)
(* it runs, and its return code is the last that it does.                  *)
LoopIsOwned ==
    /\ loop # "off" => handle # 0
    /\ sending # NoSend => loop = "run"
    /\ \A n \in DOMAIN toMain : toMain[n].t \in {"Finished", "Error"} => loop = "over"

(* The targets between the handle's and the champion are on their way to   *)
(* the main loop in the order of their heights, whatever earlier ones of a *)
(* sync that is over are still among them.                                 *)
InOrder(pos) ==
    /\ \A h \in DOMAIN pos : /\ fromPeers[pos[h]].t = "NewSyncTarget"
                             /\ Height(fromPeers[pos[h]].b) = h
    /\ \A h, i \in DOMAIN pos : h < i => pos[h] < pos[i]
TargetsInOrder ==
    anchor # NoBlock =>
        \E pos \in [handle + 1 .. Height(anchor) -> 1..Len(fromPeers)] : InOrder(pos)

(* A block is the main loop's: stored, or a tip-successor on its way.      *)
Handed(b) == b \in stored \/ \E n \in Queued("TipSuccessor") : toMain[n].b = b

(* A fast-forward is to a block that is stored.                            *)
Forwarding(q) == \A n \in DOMAIN q : q[n].t = "FastForward" => q[n].b \in stored

(* What the sync loop and its subtask take for their tip has been handed   *)
(* over, and so has a block of the target height when the loop finishes.   *)
Handovers ==
    /\ Handed(tip) /\ Handed(task.tip)
    /\ sending.t = "TipSuccessor" => target = Height(sending.b)
    /\ loop = "finishing" => \E b \in Block : Handed(b) /\ Height(b) = target
    /\ Forwarding(toSync) /\ Forwarding(outbox)

SInv == LoopIsOwned /\ Handovers /\ FinishedMeansStored

-----------------------------------------------------------------------------
(* A channel that is dropped and opened again is empty.                    *)
LEMMA Emptied == \A S : <<>> \in Seq(S)
  OBVIOUS

(* Appending to a channel and taking from it.                              *)
LEMMA Sent ==
    ASSUME NEW S, NEW q \in Seq(S), NEW m \in S
    PROVE  /\ Append(q, m) \in Seq(S) /\ Len(q) \in Nat
           /\ Len(Append(q, m)) = Len(q) + 1
           /\ \A n \in 1..Len(q) : Append(q, m)[n] = q[n]
           /\ Append(q, m)[Len(q) + 1] = m
           /\ DOMAIN q = 1..Len(q) /\ DOMAIN Append(q, m) = 1..(Len(q) + 1)
OBVIOUS

(* Taking the first message of a channel leaves the others in their order.    *)
LEMMA Taken ==
    ASSUME NEW S, NEW q \in Seq(S), q # <<>>
    PROVE  /\ Head(q) \in S /\ Head(q) = q[1] /\ Tail(q) \in Seq(S)
           /\ Len(q) \in Nat \ {0} /\ Len(Tail(q)) = Len(q) - 1
           /\ \A n \in 1..Len(Tail(q)) : Tail(q)[n] = q[n + 1]
           /\ DOMAIN q = 1..Len(q) /\ DOMAIN Tail(q) = 1..(Len(q) - 1)
<1>1. Len(q) \in Nat \ {0}
  OBVIOUS
<1>2. /\ Head(q) \in S /\ Tail(q) \in Seq(S) /\ Len(Tail(q)) = Len(q) - 1
      /\ \A n \in 1..Len(Tail(q)) : Tail(q)[n] = q[n + 1]
  OBVIOUS
<1>3. Head(q) = q[1]
  BY <1>1
<1> QED
  BY <1>1, <1>2, <1>3

(* The fields of messages.                                                 *)
LEMMA Fields ==
    /\ \A m \in PeerMsg :
         /\ m.t \in {"NewBlocks", "NewSyncTarget", "AddPeerMaxBlockHeight", "NewSyncBlock"} =>
              m.b \in Block
         /\ m.t \in {"NewPeer", "DroppedPeer", "AddPeerMaxBlockHeight", "NewSyncBlock",
                     "PeerWantsSyncBlock"} => m.p \in Peer
         /\ m.t = "PeerWantsSyncBlock" => m.h \in Nat
    /\ \A m \in SyncMsg :
         /\ m.t \in {"ExtendChain", "FastForward", "ReceiveBlock"} => m.b \in Block
         /\ m.t \in {"AddPeer", "RemovePeer"} => m.p \in Peer
    /\ \A m \in MainMsg : m.t = "TipSuccessor" => m.b \in Block
BY Zenon DEF PeerMsg, SyncMsg, MainMsg

(* The messages that are sent.                                             *)
LEMMA Messages ==
    ASSUME NEW p \in Peer, NEW b \in Block, NEW h \in Nat
    PROVE  /\ [t |-> "NewPeer", p |-> p] \in PeerMsg
           /\ [t |-> "DroppedPeer", p |-> p] \in PeerMsg
           /\ [t |-> "NewBlocks", b |-> b] \in PeerMsg
           /\ [t |-> "NewSyncTarget", b |-> b] \in PeerMsg
           /\ [t |-> "AddPeerMaxBlockHeight", p |-> p, b |-> b] \in PeerMsg
           /\ [t |-> "NewSyncBlock", p |-> p, b |-> b] \in PeerMsg
           /\ [t |-> "PeerWantsSyncBlock", p |-> p, h |-> h] \in PeerMsg
           /\ [t |-> "AddPeer", p |-> p] \in SyncMsg
           /\ [t |-> "RemovePeer", p |-> p] \in SyncMsg
           /\ [t |-> "ExtendChain", b |-> b] \in SyncMsg
           /\ [t |-> "FastForward", b |-> b] \in SyncMsg
           /\ [t |-> "ReceiveBlock", p |-> p, b |-> b] \in SyncMsg
           /\ [t |-> "TryFetchBlock", p |-> p, h |-> h] \in SyncMsg
           /\ [t |-> "TipSuccessor", b |-> b] \in MainMsg
           /\ [t |-> "SyncBlock", b |-> b] \in MainMsg
           /\ [t |-> "RequestBlocks", p |-> p, h |-> h] \in MainMsg
           /\ [t |-> "Coverage"] \in MainMsg
           /\ [t |-> "Error"] \in MainMsg
           /\ [t |-> "Finished", h |-> h] \in MainMsg
BY Zenon DEF PeerMsg, SyncMsg, MainMsg

(* The height a peer reports before it has told anything is a natural number.*)
LEMMA ZeroIsHeight == 0 \in Nat
  BY Zenon

(* Blocks are one above their parents, and the blocks down to genesis are   *)
(* blocks.                                                                  *)
LEMMA TreeFacts ==
    /\ Genesis \in Block
    /\ \A b \in Block : Height(b) \in Nat
    /\ \A b \in Block : b # Genesis => Parent(b) \in Block /\ Height(b) = Height(Parent(b)) + 1
    /\ \A b \in Block : \A h \in Nat : h <= Height(b) => AtHeight(b, h) \in Block
    /\ \A b \in Block : Ancestry(b) \subseteq Block /\ Genesis \in Ancestry(b)
<1>1. Genesis \in Block
  BY ChainAssumption, Zenon
<1>a. ASSUME NEW b \in Block
      PROVE  /\ Len(Chain[b]) \in Nat \ {0} /\ (b # Genesis => Len(Chain[b]) >= 2)
             /\ \A n \in 1..Len(Chain[b]) : /\ Chain[b][n] \in Block
                                            /\ Len(Chain[Chain[b][n]]) = n
  <2>1. Chain[b] \in Seq(Block) /\ Len(Chain[b]) >= 1 /\ (b # Genesis => Len(Chain[b]) >= 2)
    BY ChainAssumption, Zenon
  <2>2. \A n \in 1..Len(Chain[b]) : Chain[Chain[b][n]] = SubSeq(Chain[b], 1, n)
    BY ChainAssumption, Zenon
  <2>3. \A n \in 1..Len(Chain[b]) : Chain[b][n] \in Block /\ Len(SubSeq(Chain[b], 1, n)) = n
    BY <2>1
  <2>4. Len(Chain[b]) \in Nat \ {0}
    BY <2>1
  <2> QED
    BY <2>1, <2>2, <2>3, <2>4, Zenon
<1>2. \A b \in Block : Height(b) \in Nat
  <2> SUFFICES ASSUME NEW b \in Block PROVE Height(b) \in Nat
    BY Zenon
  <2>1. Len(Chain[b]) \in Nat \ {0}
    BY <1>a, Zenon
  <2> QED
    BY <2>1 DEF Height
<1>3. ASSUME NEW b \in Block, b # Genesis
      PROVE  Parent(b) \in Block /\ Height(b) = Height(Parent(b)) + 1
  <2>1. Len(Chain[b]) \in Nat /\ Len(Chain[b]) >= 2
    BY <1>3, <1>a
  <2>2. Len(Chain[b]) - 1 \in 1..Len(Chain[b])
    BY <2>1
  <2>3. Parent(b) \in Block /\ Len(Chain[Parent(b)]) = Len(Chain[b]) - 1
    BY <1>a, <2>2, Zenon DEF Parent
  <2> QED
    BY <2>1, <2>3 DEF Height
<1>4. ASSUME NEW b \in Block, NEW h \in Nat, h <= Height(b)
      PROVE  AtHeight(b, h) \in Block
  <2>1. Len(Chain[b]) \in Nat \ {0} /\ h + 1 \in 1..Len(Chain[b])
    <3>1. Len(Chain[b]) \in Nat \ {0}
      BY <1>a, Zenon
    <3> QED
      BY <1>4, <3>1 DEF Height
  <2> QED
    BY <1>a, <2>1, Zenon DEF AtHeight
<1>5. ASSUME NEW b \in Block
      PROVE  Ancestry(b) \subseteq Block /\ Genesis \in Ancestry(b)
  <2>1. 1 \in 1..Len(Chain[b])
    <3>1. Len(Chain[b]) \in Nat \ {0}
      BY <1>a, Zenon
    <3> QED
      BY <3>1
  <2> DEFINE c == Chain[b][1]
  <2>2. c \in Block /\ Len(Chain[c]) = 1
    BY <1>a, <2>1, Zenon
  <2> HIDE DEF c
  <2>3. c = Genesis
    <3>1. c # Genesis => Len(Chain[c]) >= 2
      BY <1>a, <2>2, Zenon
    <3> QED
      BY <2>2, <3>1
  <2> QED
    BY <1>a, <2>1, <2>3, Zenon DEF Ancestry, c
<1> QED
  BY <1>1, <1>2, <1>3, <1>4, <1>5, Zenon

(* A new subtask, and none.                                                *)
LEMMA NewTaskShape ==
    ASSUME NEW b \in Block, NEW c, NEW files
    PROVE  Shaped(NewTask(b, c, files)) /\ NewTask(b, c, files).tip = b
<1>1. NewTask(b, c, files) \in [phase : {"next"}, tip : Block, cov : {c}, index : {files}]
  BY Zenon DEF NewTask
<1> QED
  BY <1>1, Zenon DEF Shaped, NewTask

(* No task has the shape of one.                                              *)
LEMMA NoTaskShape == Shaped(NoTask) /\ NoTask.tip = Genesis
<1>1. NoTask \in [phase : {"none"}, tip : Block, cov : {NewCoverage(1, 1)}, index : {{}}]
  BY TreeFacts, Zenon DEF NoTask
<1> QED
  BY <1>1, Zenon DEF Shaped, NoTask

-----------------------------------------------------------------------------
(* The types hold at the start.                                               *)
LEMMA TypesInit == Init => Types
<1> SUFFICES ASSUME Init PROVE Types
  BY Zenon
<1>1. Ancestry(LocalTip) \subseteq Block /\ Genesis \in Ancestry(LocalTip)
  <2>1. LocalTip \in Block
    BY SyncAssumption, Zenon
  <2> QED
    BY <2>1, TreeFacts, Zenon
<1>2. MainTypes
  BY <1>1, SyncAssumption, Zenon DEF Init, MainTypes
<1>3. PeerTypes
  BY SyncAssumption, Zenon DEF Init, PeerTypes
<1>4. ChannelTypes
  BY DEF Init, ChannelTypes
<1>5. LoopTypes
  BY TreeFacts, NoTaskShape, Zenon DEF Init, LoopTypes
<1> QED
  BY <1>2, <1>3, <1>4, <1>5, Zenon DEF Types

(* What the steps of the peers' loops do to the anchor and the channel to  *)
(* main: nothing, one message, or a new champion together with its         *)
(* announcement.                                                           *)
Silent == UNCHANGED <<anchor, fromPeers>>
Tells == anchor' = anchor /\ \E m \in PeerMsg : fromPeers' = Append(fromPeers, m)
NewChampion ==
    /\ anchor # NoBlock
    /\ \E b \in Block : /\ Height(b) = Height(anchor) + 1
                        /\ anchor' = b
                        /\ fromPeers' = Append(fromPeers, [t |-> "NewSyncTarget", b |-> b])

(* A message of a peer loop to the main loop is put at the end of its         *)
(* channel.                                                                   *)
LEMMA DeliverMoves ==
    ASSUME Types, NEW p \in Peer, NEW b \in Block, Deliver(p, b)
    PROVE  Silent \/ Tells \/ NewChampion
<1>1. /\ [t |-> "NewBlocks", b |-> b] \in PeerMsg
      /\ [t |-> "NewSyncBlock", p |-> p, b |-> b] \in PeerMsg
  BY Messages, ZeroIsHeight, Zenon
<1>2. \/ anchor' = anchor /\ fromPeers' = fromPeers
      \/ anchor' = anchor /\ TellMain([t |-> "NewBlocks", b |-> b])
      \/ anchor' = anchor /\ TellMain([t |-> "NewSyncBlock", p |-> p, b |-> b])
      \/ /\ anchor # NoBlock /\ anchor' = b /\ b # Genesis /\ Parent(b) = anchor
         /\ TellMain([t |-> "NewSyncTarget", b |-> b])
  BY Zenon DEF Deliver
<1>3. b # Genesis /\ Parent(b) = anchor => Height(b) = Height(anchor) + 1
  BY TreeFacts, Zenon
<1> QED
  BY <1>1, <1>2, <1>3, Zenon DEF Silent, Tells, NewChampion, TellMain

(* A peer loop leaves the anchor and the channel alone, adds to the channel,  *)
(* or announces a new champion.                                               *)
LEMMA PeerStepMoves ==
    ASSUME Types, PeerStep
    PROVE  handle' = handle /\ (Silent \/ Tells \/ NewChampion)
<1>1. PICK p \in Peer : \/ PeerExtends(p) \/ PeerChallenged(p) \/ PeerResponds(p)
                        \/ PeerAnnounces(p) \/ PeerDrops(p)
                        \/ \E h \in Heights : PeerAnswers(p, h) \/ PeerWants(p, h)
  BY Zenon DEF PeerStep
<1>2. /\ peerTip \in [Peer -> Block] /\ challenge \in [Peer -> Block \cup {NoBlock}]
      /\ Heights \subseteq Nat
  BY TreeFacts, Zenon DEF Types, PeerTypes, Heights
<1>3. handle' = handle
  BY <1>1, Zenon DEF PeerExtends, PeerChallenged, PeerResponds, PeerAnnounces, PeerDrops,
              PeerAnswers, PeerWants, mainVars
<1>4. Silent \/ Tells \/ NewChampion
  <2>1. CASE PeerExtends(p) \/ PeerChallenged(p)
    BY <2>1, Zenon DEF PeerExtends, PeerChallenged, mainVars, Silent
  <2>2. CASE PeerResponds(p)
    <3>1. challenge[p] \in Block
      BY <2>2, <1>2, Zenon DEF PeerResponds
    <3>2. /\ [t |-> "NewPeer", p |-> p] \in PeerMsg
          /\ [t |-> "AddPeerMaxBlockHeight", p |-> p, b |-> challenge[p]] \in PeerMsg
      BY <3>1, Messages, ZeroIsHeight, Zenon
    <3>3. /\ \/ TellMain([t |-> "NewPeer", p |-> p])
             \/ TellMain([t |-> "AddPeerMaxBlockHeight", p |-> p, b |-> challenge[p]])
          /\ anchor' = anchor
      BY <2>2, Zenon DEF PeerResponds, mainVars
    <3> QED
      BY <3>2, <3>3, Zenon DEF Tells, TellMain
  <2>3. CASE PeerAnnounces(p)
    BY <2>3, <1>2, DeliverMoves, Zenon DEF PeerAnnounces
  <2>4. CASE PeerDrops(p)
    <3>1. [t |-> "DroppedPeer", p |-> p] \in PeerMsg
      BY Messages, TreeFacts, ZeroIsHeight, Zenon
    <3> QED
      BY <2>4, <3>1, Zenon DEF PeerDrops, mainVars, Tells, TellMain
  <2>5. ASSUME NEW h \in Heights, PeerAnswers(p, h)
        PROVE  Silent \/ Tells \/ NewChampion
    <3>1. h <= Height(peerTip[p]) => AtHeight(peerTip[p], h) \in Block
      BY <1>2, TreeFacts, Zenon
    <3>2. CASE h <= Height(peerTip[p])
      BY <2>5, <3>1, <3>2, DeliverMoves, Zenon DEF PeerAnswers
    <3>3. CASE ~(h <= Height(peerTip[p]))
      BY <2>5, <3>3, Zenon DEF PeerAnswers, Silent
    <3> QED
      BY <3>2, <3>3, Zenon
  <2>6. ASSUME NEW h \in Heights, PeerWants(p, h)
        PROVE  Tells
    <3>1. [t |-> "PeerWantsSyncBlock", p |-> p, h |-> h] \in PeerMsg
      BY <1>2, Messages, TreeFacts, Zenon
    <3> QED
      BY <2>6, <3>1, Zenon DEF PeerWants, mainVars, Tells, TellMain
  <2> QED
    BY <1>1, <2>1, <2>2, <2>3, <2>4, <2>5, <2>6, Zenon
<1> QED
  BY <1>3, <1>4, Zenon

(* Peer loops keep the types.                                                 *)
LEMMA PeerStepTypes ==
    ASSUME Types, PeerStep
    PROVE  Types'
<1>1. PICK p \in Peer : \/ PeerExtends(p) \/ PeerChallenged(p) \/ PeerResponds(p)
                        \/ PeerAnnounces(p) \/ PeerDrops(p)
                        \/ \E h \in Heights : PeerAnswers(p, h) \/ PeerWants(p, h)
  BY Zenon DEF PeerStep
<1>2. /\ peerTip \in [Peer -> Block] /\ challenge \in [Peer -> Block \cup {NoBlock}]
      /\ connected \subseteq Peer
  BY Zenon DEF Types, PeerTypes
<1>3. PeerTypes'
  BY <1>1, <1>2, Zenon DEF PeerTypes, PeerExtends, PeerChallenged, PeerResponds, PeerAnnounces, PeerDrops,
                    PeerAnswers, PeerWants, netVars
<1>4. LoopTypes'
  BY <1>1, Zenon DEF Types, LoopTypes, PeerExtends, PeerChallenged, PeerResponds, PeerAnnounces, PeerDrops,
              PeerAnswers, PeerWants, loopVars, dirVars
<1>5. UNCHANGED <<stored, chainTip, handle, outbox, toSync, toMain>>
  BY <1>1, Zenon DEF PeerExtends, PeerChallenged, PeerResponds, PeerAnnounces, PeerDrops,
              PeerAnswers, PeerWants, mainVars
<1>6. fromPeers' \in Seq(PeerMsg) /\ anchor' \in Block \cup {NoBlock}
  <2>0. fromPeers \in Seq(PeerMsg) /\ anchor \in Block \cup {NoBlock}
    BY Zenon DEF Types, ChannelTypes, MainTypes
  <2>1. CASE Silent
    BY <2>0, <2>1, Zenon DEF Silent
  <2>2. CASE Tells
    BY <2>0, <2>2, Sent DEF Tells
  <2>3. CASE NewChampion
    <3>1. \A b \in Block : [t |-> "NewSyncTarget", b |-> b] \in PeerMsg
      BY Zenon DEF PeerMsg
    <3> QED
      BY <2>0, <2>3, <3>1, Sent DEF NewChampion
  <2> QED
    BY <2>1, <2>2, <2>3, PeerStepMoves, Zenon
<1>7. MainTypes' /\ ChannelTypes'
  BY <1>5, <1>6, Zenon DEF Types, MainTypes, ChannelTypes
<1> QED
  BY <1>3, <1>4, <1>7, Zenon DEF Types

(* The message at the head of the peers' channel is taken.                 *)
LEMMA HeardTypes ==
    ASSUME Types, NEW type, Hears(type), HeardPeer
    PROVE  Head(fromPeers) \in PeerMsg /\ Head(fromPeers).t = type /\ fromPeers' \in Seq(PeerMsg)
BY Taken, Zenon DEF Types, ChannelTypes, Hears, HeardPeer

(* A message taken from the sync loop's channel has its type.                 *)
LEMMA HeardSyncTypes ==
    ASSUME Types, NEW type, HearsSync(type)
    PROVE  Head(toMain) \in MainMsg /\ Head(toMain).t = type /\ Tail(toMain) \in Seq(MainMsg)
BY Taken, Zenon DEF Types, ChannelTypes, HearsSync

(* One message that is waited for.                                         *)
LEMMA OutboxTypes ==
    ASSUME NEW m \in SyncMsg
    PROVE  <<m>> \in Seq(SyncMsg) /\ <<>> \in Seq(SyncMsg)
OBVIOUS

(* The main loop's handlers of messages from peers keep the types.            *)
LEMMA MainHearsPeersTypes ==
    ASSUME Types,
           \/ NewBlocks \/ NewPeer \/ DroppedPeer \/ NewSyncTarget \/ NewSyncBlock
           \/ PeerWantsSyncBlock
    PROVE  Types'
<1>0. /\ stored \subseteq Block /\ Genesis \in stored /\ chainTip \in Block
      /\ handle \in Nat /\ anchor \in Block \cup {NoBlock}
      /\ outbox \in Seq(SyncMsg) /\ toSync \in Seq(SyncMsg)
  BY Zenon DEF Types, MainTypes, ChannelTypes
<1>1. PeerTypes' /\ LoopTypes' /\ toMain' \in Seq(MainMsg)
  BY Zenon DEF Types, PeerTypes, LoopTypes, ChannelTypes, NewBlocks, NewPeer, DroppedPeer, NewSyncTarget,
         NewSyncBlock, PeerWantsSyncBlock, PassOn, netVars, loopVars, dirVars
<1>2. PICK m \in PeerMsg : m = Head(fromPeers) /\ fromPeers' \in Seq(PeerMsg)
                           /\ \/ m.t = "NewBlocks" /\ NewBlocks
                              \/ m.t = "NewPeer" /\ NewPeer
                              \/ m.t = "DroppedPeer" /\ DroppedPeer
                              \/ m.t = "NewSyncTarget" /\ NewSyncTarget
                              \/ m.t = "NewSyncBlock" /\ NewSyncBlock
                              \/ m.t = "PeerWantsSyncBlock" /\ PeerWantsSyncBlock
  BY HeardTypes DEF NewBlocks, NewPeer, DroppedPeer, NewSyncTarget, NewSyncBlock,
                    PeerWantsSyncBlock, PassOn
<1>3. MainTypes' /\ outbox' \in Seq(SyncMsg) /\ toSync' \in Seq(SyncMsg)
  <2>1. CASE m.t = "NewBlocks" /\ NewBlocks
    BY <2>1, <1>0, <1>2, Fields, Zenon DEF NewBlocks, Store, MainTypes
  <2>2. CASE m.t = "NewPeer" /\ NewPeer
    <3>1. [t |-> "AddPeer", p |-> m.p] \in SyncMsg
      BY <2>2, <1>2, Fields, Messages, TreeFacts, ZeroIsHeight, Zenon
    <3>2. UNCHANGED <<stored, chainTip, handle, anchor, toSync>>
          /\ outbox' \in {<<>>, <<[t |-> "AddPeer", p |-> m.p]>>}
      BY <2>2, <1>2, Zenon DEF NewPeer, PassOn
    <3> QED
      BY <1>0, <3>1, <3>2, OutboxTypes, Zenon DEF MainTypes
  <2>3. CASE m.t = "DroppedPeer" /\ DroppedPeer
    <3>1. [t |-> "RemovePeer", p |-> m.p] \in SyncMsg
      BY <2>3, <1>2, Fields, Messages, TreeFacts, ZeroIsHeight, Zenon
    <3>2. UNCHANGED <<stored, chainTip, handle, anchor, toSync>>
          /\ outbox' \in {<<>>, <<[t |-> "RemovePeer", p |-> m.p]>>}
      BY <2>3, <1>2, Zenon DEF DroppedPeer, PassOn
    <3> QED
      BY <1>0, <3>1, <3>2, OutboxTypes, Zenon DEF MainTypes
  <2>4. CASE m.t = "NewSyncTarget" /\ NewSyncTarget
    <3>1. m.b \in Block /\ Height(m.b) \in Nat /\ [t |-> "ExtendChain", b |-> m.b] \in SyncMsg
      <4>1. m.b \in Block
        BY <2>4, Fields, Zenon
      <4>2. [t |-> "ExtendChain", b |-> m.b] \in SyncMsg
        BY <4>1, Zenon DEF SyncMsg
      <4> QED
        BY <4>1, <4>2, TreeFacts, Zenon
    <3>2. /\ UNCHANGED <<stored, chainTip, toSync>>
          /\ outbox' = outbox \/ outbox' = <<[t |-> "ExtendChain", b |-> m.b]>>
          /\ handle' \in {handle, Height(m.b)} /\ anchor' \in {anchor, m.b}
      BY <2>4, <1>2, Zenon DEF NewSyncTarget
    <3> QED
      BY <1>0, <3>1, <3>2, OutboxTypes, Zenon DEF MainTypes
  <2>5. CASE m.t = "NewSyncBlock" /\ NewSyncBlock
    <3>1. m.b \in Block /\ m.p \in Peer
      BY <2>5, Fields, Zenon
    <3>2. /\ [t |-> "FastForward", b |-> m.b] \in SyncMsg
          /\ [t |-> "ReceiveBlock", p |-> m.p, b |-> m.b] \in SyncMsg
      BY <3>1, Messages, ZeroIsHeight, Zenon
    <3>3. /\ UNCHANGED <<stored, chainTip, handle, anchor>>
          /\ outbox' = outbox \/ outbox' = <<[t |-> "FastForward", b |-> m.b]>>
          /\ toSync' = toSync \/ toSync' = Append(toSync, [t |-> "ReceiveBlock", p |-> m.p, b |-> m.b])
      BY <2>5, <1>2, Zenon DEF NewSyncBlock, TrySync
    <3>4. toSync' \in Seq(SyncMsg)
      <4> DEFINE r == [t |-> "ReceiveBlock", p |-> m.p, b |-> m.b]
      <4>1. r \in SyncMsg /\ (toSync' = toSync \/ toSync' = Append(toSync, r))
        BY <3>2, <3>3, Zenon
      <4> HIDE DEF r
      <4> QED
        BY <1>0, <4>1, Sent
    <3>5. outbox' \in Seq(SyncMsg)
      BY <1>0, <3>2, <3>3, OutboxTypes, Zenon
    <3> QED
      BY <1>0, <3>3, <3>4, <3>5, Zenon DEF MainTypes
  <2>6. CASE m.t = "PeerWantsSyncBlock" /\ PeerWantsSyncBlock
    <3>1. m.p \in Peer /\ m.h \in Nat
      BY <2>6, Fields, Zenon
    <3>2. [t |-> "TryFetchBlock", p |-> m.p, h |-> m.h] \in SyncMsg
      BY <3>1, Messages, TreeFacts, Zenon
    <3>3. /\ UNCHANGED <<stored, chainTip, handle, anchor, outbox>>
          /\ toSync' = toSync \/ toSync' = Append(toSync, [t |-> "TryFetchBlock", p |-> m.p, h |-> m.h])
      BY <2>6, <1>2, Zenon DEF PeerWantsSyncBlock, TrySync, mainVars
    <3> QED
      BY <1>0, <3>2, <3>3, Sent DEF MainTypes
  <2> QED
    BY <1>2, <2>1, <2>2, <2>3, <2>4, <2>5, <2>6, Zenon
<1> QED
  BY <1>1, <1>2, <1>3, Zenon DEF Types, ChannelTypes

(* Starting a sync loop keeps the types.                                      *)
LEMMA StartTypes ==
    ASSUME Types, AddPeerMaxBlockHeight
    PROVE  Types'
<1>1. PICK m \in PeerMsg : m = Head(fromPeers) /\ m.t = "AddPeerMaxBlockHeight"
                           /\ m.b \in Block /\ m.p \in Peer /\ fromPeers' \in Seq(PeerMsg)
  BY HeardTypes, Fields DEF AddPeerMaxBlockHeight
<1>2. Height(m.b) \in Nat /\ \A p \in Peer : [t |-> "AddPeer", p |-> p] \in SyncMsg
  BY <1>1, TreeFacts, Messages, ZeroIsHeight, Zenon
<1>3. PeerTypes' /\ toMain' = toMain /\ UNCHANGED <<stored, chainTip, sending, task>>
  BY Zenon DEF Types, PeerTypes, AddPeerMaxBlockHeight
<1>4. CASE UNCHANGED <<anchor, handle, loopVars, disk, toSync, outbox>>
  BY <1>1, <1>3, <1>4, Zenon DEF Types, MainTypes, ChannelTypes, LoopTypes, loopVars
<1>5. CASE ~UNCHANGED <<anchor, handle, loopVars, disk, toSync, outbox>>
  <2>1. /\ anchor' = m.b /\ handle' = Height(m.b)
        /\ tip' = Genesis /\ target' = Height(m.b) /\ peers' = {}
        /\ disk' \in {disk, {}}
        /\ toSync' = <<[t |-> "AddPeer", p |-> m.p]>>
        /\ \E order \in [1..Cardinality(connected \ {m.p}) -> connected \ {m.p}] :
              outbox' = [n \in DOMAIN order |-> [t |-> "AddPeer", p |-> order[n]]]
    BY <1>1, <1>5, Zenon DEF AddPeerMaxBlockHeight
  <2>2. toSync' \in Seq(SyncMsg)
    BY <1>1, <1>2, <2>1, OutboxTypes, Zenon
  <2>3. outbox' \in Seq(SyncMsg)
    <3> DEFINE n == Cardinality(connected \ {m.p})
    <3>1. n \in Nat
      BY SyncAssumption, Zenon DEF Types, PeerTypes
    <3>2. PICK order \in [1..n -> connected \ {m.p}] :
            outbox' = [i \in DOMAIN order |-> [t |-> "AddPeer", p |-> order[i]]]
      BY <2>1, Zenon
    <3> HIDE DEF n
    <3>3. outbox' \in [1..n -> SyncMsg]
      BY <3>2, <1>2, Zenon DEF Types, PeerTypes
    <3> QED
      BY <3>1, <3>3
  <2>4. MainTypes' /\ LoopTypes'
    BY <1>1, <1>2, <1>3, <2>1, TreeFacts, Zenon DEF Types, MainTypes, LoopTypes
  <2> QED
    BY <1>1, <1>3, <2>2, <2>3, <2>4, Zenon DEF Types, ChannelTypes
<1> QED
  BY <1>4, <1>5, Zenon

(* The main loop's handlers of messages from the sync loop keep the types.    *)
LEMMA MainHearsSyncTypes ==
    ASSUME Types, DropHandle \/ TipSuccessor \/ RequestBlocks \/ Relay \/ MainSends
    PROVE  Types'
<1>1. PeerTypes'
  BY Zenon DEF Types, PeerTypes, DropHandle, TipSuccessor, RequestBlocks, Relay, MainSends, netVars
<1>2. LoopTypes'
  <2>1. CASE DropHandle
    BY <2>1, TreeFacts, NoTaskShape, Zenon DEF Types, LoopTypes, DropHandle, Forget, dirVars
  <2>2. CASE UNCHANGED <<tip, target, peers, disk, sending, task>>
    BY <2>2, Zenon DEF Types, LoopTypes
  <2> QED
    BY <2>1, <2>2, Zenon DEF TipSuccessor, RequestBlocks, Relay, MainSends, loopVars, dirVars
<1>3. MainTypes' /\ ChannelTypes'
  <2>0. MainTypes /\ ChannelTypes
    BY Zenon DEF Types
  <2>1. CASE DropHandle
    BY <2>0, <2>1 DEF MainTypes, ChannelTypes, DropHandle
  <2>2. CASE TipSuccessor
    <3>1. Head(toMain).b \in Block /\ Tail(toMain) \in Seq(MainMsg)
      BY <2>2, HeardSyncTypes, Fields, Zenon DEF TipSuccessor
    <3> QED
      BY <2>0, <2>2, <3>1, Zenon DEF MainTypes, ChannelTypes, TipSuccessor, Store
  <2>3. CASE RequestBlocks \/ Relay
    <3>1. Tail(toMain) \in Seq(MainMsg)
      BY <2>3, HeardSyncTypes, Zenon DEF RequestBlocks, Relay
    <3> QED
      BY <2>0, <2>3, <3>1, Zenon DEF MainTypes, ChannelTypes, RequestBlocks, Relay, mainVars
  <2>4. CASE MainSends
    <3>1. Head(outbox) \in SyncMsg /\ Tail(outbox) \in Seq(SyncMsg)
      BY <2>0, <2>4, Taken, Zenon DEF ChannelTypes, MainSends
    <3>2. Append(toSync, Head(outbox)) \in Seq(SyncMsg)
      BY <2>0, <3>1, Sent, Zenon DEF ChannelTypes
    <3> QED
      BY <2>0, <2>4, <3>1, <3>2, Zenon DEF MainTypes, ChannelTypes, MainSends
  <2> QED
    BY <2>1, <2>2, <2>3, <2>4, Zenon
<1> QED
  BY <1>1, <1>2, <1>3, Zenon DEF Types

(* The subtask's snapshot keeps its shape.                                 *)
LEMMA TaskShape ==
    ASSUME NEW r, Shaped(r), NEW x, NEW b \in Block
    PROVE  /\ Shaped([r EXCEPT !.phase = x]) /\ [r EXCEPT !.phase = x].tip = r.tip
           /\ Shaped([r EXCEPT !.phase = x, !.tip = b])
           /\ [r EXCEPT !.phase = x, !.tip = b].tip = b
<1>1. PICK c, i, y : r \in [phase : {y}, tip : Block, cov : {c}, index : {i}]
  BY Zenon DEF Shaped
<1>2. /\ [r EXCEPT !.phase = x] \in [phase : {x}, tip : Block, cov : {c}, index : {i}]
      /\ [r EXCEPT !.phase = x].tip = r.tip
  BY <1>1, Zenon
<1>3. /\ [r EXCEPT !.phase = x, !.tip = b] \in [phase : {x}, tip : Block, cov : {c}, index : {i}]
      /\ [r EXCEPT !.phase = x, !.tip = b].tip = b
  BY <1>1, Zenon
<1> QED
  BY <1>2, <1>3, Zenon DEF Shaped

(* The tip-successors subtask keeps the types.                                *)
LEMMA TaskStepTypes ==
    ASSUME Types, TaskStep
    PROVE  Types'
<1>1. MainTypes' /\ PeerTypes' /\ UNCHANGED <<fromPeers, outbox, toSync>>
      /\ UNCHANGED <<tip, target, peers, sending>>
  BY Zenon DEF Types, MainTypes, PeerTypes, TaskStep, TaskSends, TaskDeletes, TaskReturns, mainVars,
         netVars, loopVars
<1>2. ASSUME NEW b \in Block,
             toMain' = Append(toMain, [t |-> "TipSuccessor", b |-> b])
      PROVE  toMain' \in Seq(MainMsg)
  <2>1. [t |-> "TipSuccessor", b |-> b] \in MainMsg
    BY Zenon DEF MainMsg
  <2> QED
    BY <1>2, <2>1, Sent, Zenon DEF Types, ChannelTypes
<1>3. \/ \E x : Ends(x) /\ UNCHANGED toMain
      \/ \E b \in Block : /\ task' = [task EXCEPT !.phase = "delete", !.tip = b]
                          /\ toMain' = Append(toMain, [t |-> "TipSuccessor", b |-> b])
  <2>1. CASE TaskSends
    <3>1. Loadable(task.index, Next1(task.tip)) \subseteq Block
      BY Zenon DEF Types, LoopTypes, Loadable
    <3> QED
      BY <2>1, <3>1, Zenon DEF TaskSends
  <2>2. CASE TaskDeletes \/ TaskReturns
    BY <2>2, Zenon DEF TaskDeletes, TaskReturns
  <2> QED
    BY <2>1, <2>2, Zenon DEF TaskStep
<1>4. toMain' \in Seq(MainMsg)
  BY <1>2, <1>3, Zenon DEF Types, ChannelTypes
<1>5. disk' \subseteq Block
  BY Zenon DEF Types, LoopTypes, TaskStep, TaskSends, TaskDeletes, TaskReturns, dirVars
<1>6. Shaped(task')
  <2>0. Shaped(task)
    BY Zenon DEF Types, LoopTypes
  <2>1. ASSUME NEW x, Ends(x) PROVE Shaped(task')
    BY <2>0, <2>1, TaskShape, TreeFacts, Zenon DEF Ends
  <2>2. ASSUME NEW b \in Block, task' = [task EXCEPT !.phase = "delete", !.tip = b]
        PROVE  Shaped(task')
    BY <2>0, <2>2, TaskShape, Zenon
  <2> QED
    BY <1>3, <2>1, <2>2, Zenon
<1> QED
  BY <1>1, <1>4, <1>5, <1>6, Zenon DEF Types, ChannelTypes, LoopTypes

(* The loop's message is taken.                                            *)
LEMMA GotTypes ==
    ASSUME Types, NEW type, Gets(type), Got
    PROVE  Head(toSync) \in SyncMsg /\ Head(toSync).t = type /\ toSync' \in Seq(SyncMsg)
BY Taken, Zenon DEF Types, ChannelTypes, Gets, Got

(* The sync loop's message handlers keep the types.                           *)
LEMMA LoopMessageTypes ==
    ASSUME Types, LoopMessage
    PROVE  Types'
<1>0. LoopTypes
  BY Zenon DEF Types
<1>1. MainTypes' /\ PeerTypes' /\ UNCHANGED <<fromPeers, outbox>>
  BY Zenon DEF Types, MainTypes, PeerTypes, LoopMessage, AddPeer, RemovePeer, ReceiveBlock, ExtendChain,
         TryFetchBlock, FastForward, mainVars, netVars
<1>2. PICK m \in SyncMsg : m = Head(toSync) /\ toSync' \in Seq(SyncMsg)
                           /\ \/ m.t = "AddPeer" /\ AddPeer
                              \/ m.t = "RemovePeer" /\ RemovePeer
                              \/ m.t = "ReceiveBlock" /\ ReceiveBlock
                              \/ m.t = "ExtendChain" /\ ExtendChain
                              \/ m.t = "TryFetchBlock" /\ TryFetchBlock
                              \/ m.t = "FastForward" /\ FastForward
  <2>1. /\ AddPeer => Gets("AddPeer") /\ Got
        /\ RemovePeer => Gets("RemovePeer") /\ Got
        /\ ReceiveBlock => Gets("ReceiveBlock") /\ Got
        /\ ExtendChain => Gets("ExtendChain") /\ Got
        /\ TryFetchBlock => Gets("TryFetchBlock") /\ Got
        /\ FastForward => Gets("FastForward") /\ Got
    BY Zenon DEF AddPeer, RemovePeer, ReceiveBlock, ExtendChain, TryFetchBlock, FastForward
  <2> QED
    BY <2>1, GotTypes DEF LoopMessage
<1>3. toMain' \in Seq(MainMsg)
  <2>1. Append(toMain, [t |-> "Coverage"]) \in Seq(MainMsg) /\ toMain \in Seq(MainMsg)
    <3>1. [t |-> "Coverage"] \in MainMsg
      BY Zenon DEF MainMsg
    <3> QED
      BY <3>1, Sent, Zenon DEF Types, ChannelTypes
  <2> QED
    BY <1>2, <2>1, Zenon DEF AddPeer, RemovePeer, ReceiveBlock, ExtendChain, TryFetchBlock, FastForward
<1>4. LoopTypes'
  <2>1. CASE (m.t = "AddPeer" /\ AddPeer) \/ (m.t = "RemovePeer" /\ RemovePeer)
    <3>1. m.p \in Peer
      BY <2>1, Fields, Zenon
    <3> QED
      BY <1>0, <1>2, <2>1, <3>1, Zenon DEF LoopTypes, AddPeer, RemovePeer, dirVars
  <2>2. CASE m.t = "ReceiveBlock" /\ ReceiveBlock
    <3>1. m.b \in Block
      BY <2>2, Fields, Zenon
    <3>2. disk' \in {disk, disk \cup {m.b}} /\ UNCHANGED <<tip, target, peers, sending>>
          /\ (task' = task \/ \E c, files : task' = NewTask(tip, c, files))
      BY <1>2, <2>2, Zenon DEF ReceiveBlock, Receive
    <3> QED
      BY <1>0, <3>1, <3>2, NewTaskShape DEF LoopTypes
  <2>3. CASE m.t = "ExtendChain" /\ ExtendChain
    <3>1. m.b \in Block /\ Height(m.b) \in Nat
      BY <2>3, Fields, TreeFacts, Zenon
    <3>2. [t |-> "TipSuccessor", b |-> m.b] \in [t : {"TipSuccessor", "SyncBlock"}, b : Block]
      BY <3>1, Zenon
    <3>3. /\ disk' \in {disk, disk \cup {m.b}} /\ UNCHANGED <<tip, peers, task>>
          /\ target' \in {target, Height(m.b)}
          /\ sending' \in {sending, NoSend, [t |-> "TipSuccessor", b |-> m.b]}
      BY <1>2, <2>3, Zenon DEF ExtendChain, Receive
    <3> QED
      BY <1>0, <3>1, <3>2, <3>3, Zenon DEF LoopTypes
  <2>4. CASE m.t = "TryFetchBlock" /\ TryFetchBlock
    <3>1. \A b \in Loadable(index, m.h) :
             [t |-> "SyncBlock", b |-> b] \in [t : {"TipSuccessor", "SyncBlock"}, b : Block]
      BY <1>0, Zenon DEF LoopTypes, Loadable
    <3>2. /\ UNCHANGED <<tip, target, peers, disk, task>>
          /\ \/ sending' = sending \/ sending' = NoSend
             \/ /\ Loadable(index, m.h) # {}
                /\ sending' = [t |-> "SyncBlock", b |-> CHOOSE b \in Loadable(index, m.h) : TRUE]
      BY <1>2, <2>4, Zenon DEF TryFetchBlock, loopVars, dirVars
    <3> QED
      BY <1>0, <3>1, <3>2, Zenon DEF LoopTypes
  <2>5. CASE m.t = "FastForward" /\ FastForward
    <3>1. m.b \in Block
      BY <2>5, Fields, Zenon
    <3> QED
      BY <1>0, <1>2, <2>5, <3>1, Zenon DEF LoopTypes, FastForward, dirVars
  <2> QED
    BY <1>2, <2>1, <2>2, <2>3, <2>4, <2>5, Zenon
<1> QED
  BY <1>1, <1>2, <1>3, <1>4, Zenon DEF Types, ChannelTypes

(* The sync loop's timers and results keep the types.                         *)
LEMMA LoopStepTypes ==
    ASSUME Types, LoopStep \/ Request \/ CleanUp \/ Restart
    PROVE  Types'
<1>0. Restart \/ UNCHANGED <<mainVars, fromPeers>>
  BY Zenon DEF LoopStep, TaskResult, LoopSends, TickGone, TickStart, LoopReturns, Request, TickRequest,
         CleanUp
<1>1. MainTypes'
  <2>1. CASE Restart
    BY <2>1, Zenon DEF Types, MainTypes, Restart
  <2>2. CASE UNCHANGED mainVars
    BY <2>2, Zenon DEF Types, MainTypes, mainVars
  <2> QED
    BY <1>0, <2>1, <2>2, Zenon
<1>2. PeerTypes'
  BY Zenon DEF Types, PeerTypes, LoopStep, TaskResult, LoopSends, TickGone, TickStart, LoopReturns, Request,
         TickRequest, CleanUp, Restart, netVars
<1>3. fromPeers' \in Seq(PeerMsg) /\ outbox' \in Seq(SyncMsg) /\ toSync' \in Seq(SyncMsg)
  <2>1. toSync' = toSync \/ toSync' = <<>>
    BY Zenon DEF LoopStep, TaskResult, LoopSends, TickGone, TickStart, LoopReturns, Request, TickRequest,
           CleanUp, Restart
  <2>2. CASE Restart
    BY <2>2 DEF Restart
  <2>3. CASE UNCHANGED <<mainVars, fromPeers>>
    <3>1. toSync' \in Seq(SyncMsg)
      BY <2>1, Emptied, Zenon DEF Types, ChannelTypes
    <3> QED
      BY <2>3, <3>1, Zenon DEF Types, ChannelTypes, mainVars
  <2> QED
    BY <1>0, <2>2, <2>3, Zenon
<1>4. toMain' \in Seq(MainMsg)
  <2>0. toMain \in Seq(MainMsg)
    BY Zenon DEF Types, ChannelTypes
  <2>1. CASE LoopSends
    <3>1. sending \in MainMsg
      BY <2>1, Zenon DEF LoopSends, Types, LoopTypes, MainMsg
    <3> QED
      BY <2>0, <2>1, <3>1, Sent DEF LoopSends
  <2>2. CASE LoopReturns
    <3>1. [t |-> "Finished", h |-> target] \in MainMsg /\ [t |-> "Error"] \in MainMsg
      BY Zenon DEF Types, LoopTypes, MainMsg
    <3>2. \/ toMain' = toMain
          \/ toMain' = Append(toMain, [t |-> "Finished", h |-> target])
          \/ toMain' = Append(toMain, [t |-> "Error"])
      BY <2>2, Zenon DEF LoopReturns
    <3> QED
      BY <2>0, <3>1, <3>2, Sent
  <2>3. ASSUME NEW p \in Peer, NEW h \in Heights, TickRequest(p, h)
        PROVE  toMain' \in Seq(MainMsg)
    <3>1. [t |-> "RequestBlocks", p |-> p, h |-> h] \in MainMsg
      BY TreeFacts, Zenon DEF MainMsg, Heights
    <3>2. toMain' = Append(toMain, [t |-> "RequestBlocks", p |-> p, h |-> h])
      BY <2>3, Zenon DEF TickRequest
    <3> QED
      BY <2>0, <3>1, <3>2, Sent, Zenon
  <2>4. CASE TaskResult \/ TickGone \/ TickStart \/ CleanUp \/ Restart
    <3>1. toMain' = toMain \/ toMain' = <<>>
      BY <2>4, Zenon DEF TaskResult, TickGone, TickStart, CleanUp, Restart
    <3> QED
      BY <2>0, <3>1, Emptied, Zenon
  <2> QED
    BY <2>1, <2>2, <2>3, <2>4, Zenon DEF LoopStep, Request
<1>5. LoopTypes'
  <2>0. LoopTypes
    BY Zenon DEF Types
  <2>1. CASE TaskResult
    <3>1. /\ UNCHANGED <<target, peers, disk, sending>>
          /\ tip' \in {tip, task.tip}
          /\ task' = NoTask \/ task' = NewTask(task.tip, cov, index)
      BY <2>1, Zenon DEF TaskResult, dirVars
    <3>2. task.tip \in Block
      BY <2>0, Zenon DEF LoopTypes, Shaped
    <3> QED
      BY <2>0, <3>1, <3>2, NewTaskShape, NoTaskShape DEF LoopTypes
  <2>2. CASE LoopSends
    <3>1. /\ UNCHANGED <<target, peers, disk, task>> /\ sending' = NoSend
          /\ tip' = tip \/ (sending # NoSend /\ tip' = sending.b)
      BY <2>2, Zenon DEF LoopSends, dirVars
    <3>2. sending # NoSend => sending.b \in Block
      BY <2>0, Zenon DEF LoopTypes
    <3> QED
      BY <2>0, <3>1, <3>2, Zenon DEF LoopTypes
  <2>3. CASE TickStart
    <3>1. UNCHANGED <<tip, target, peers, disk, sending>> /\ task' = NewTask(tip, cov, index)
      BY <2>3, Zenon DEF TickStart, loopVars, dirVars
    <3> QED
      BY <2>0, <3>1, NewTaskShape, Zenon DEF LoopTypes
  <2>4. CASE LoopReturns
    BY <2>0, <2>4, TreeFacts, Zenon DEF LoopTypes, LoopReturns, Forget
  <2>5. CASE Restart
    BY <2>0, <2>5, TreeFacts, NoTaskShape, Zenon DEF LoopTypes, Restart, Forget
  <2>6. CASE TickGone \/ Request \/ CleanUp
    BY <2>0, <2>6, Zenon DEF LoopTypes, TickGone, Request, TickRequest, CleanUp, loopVars, dirVars
  <2> QED
    BY <2>1, <2>2, <2>3, <2>4, <2>5, <2>6, Zenon DEF LoopStep
<1> QED
  BY <1>1, <1>2, <1>3, <1>4, <1>5, Zenon DEF Types, ChannelTypes

(* Every step keeps the types.                                                *)
LEMMA TypesStep == Types /\ [Next]_vars => Types'
<1> SUFFICES ASSUME Types, [Next]_vars PROVE Types'
  BY Zenon
<1>1. CASE UNCHANGED vars
  BY <1>1, Zenon DEF vars, mainVars, netVars, loopVars, dirVars, Types, MainTypes, PeerTypes, ChannelTypes,
              LoopTypes
<1>2. CASE MainStep
  BY <1>2, MainHearsPeersTypes, StartTypes, MainHearsSyncTypes, Zenon DEF MainStep
<1>3. CASE PeerStep \/ TaskStep \/ LoopMessage \/ LoopStep \/ Request \/ CleanUp \/ Restart
  BY <1>3, PeerStepTypes, TaskStepTypes, LoopMessageTypes, LoopStepTypes, Zenon
<1> QED
  BY <1>1, <1>2, <1>3, Zenon DEF Next

-----------------------------------------------------------------------------
(* The order of the targets, one step at a time: messages that come in are *)
(* put behind it, a message that is taken is not part of it unless it is   *)
(* the next target, and then the handle moves on.                          *)
LEMMA ToldInOrder ==
    ASSUME Types, TargetsInOrder, handle' = handle, Silent \/ Tells
    PROVE  TargetsInOrder'
<1>1. CASE Silent
  BY <1>1, Zenon DEF Silent, TargetsInOrder, InOrder
<1>2. CASE Tells
  <2> SUFFICES ASSUME anchor # NoBlock
               PROVE  \E pos \in [handle + 1 .. Height(anchor) -> 1..Len(fromPeers')] : InOrder(pos)'
    BY <1>2, Zenon DEF Tells, TargetsInOrder
  <2>1. PICK pos \in [handle + 1 .. Height(anchor) -> 1..Len(fromPeers)] : InOrder(pos)
    BY Zenon DEF TargetsInOrder
  <2>2. PICK m \in PeerMsg : fromPeers' = Append(fromPeers, m)
    BY <1>2, Zenon DEF Tells
  <2>3. /\ Len(fromPeers) \in Nat /\ Len(fromPeers') = Len(fromPeers) + 1
        /\ \A n \in 1..Len(fromPeers) : fromPeers'[n] = fromPeers[n]
    BY <2>2, Sent DEF Types, ChannelTypes
  <2>4. pos \in [handle + 1 .. Height(anchor) -> 1..Len(fromPeers')]
    BY <2>1, <2>3
  <2>5. \A h \in DOMAIN pos : pos[h] \in 1..Len(fromPeers)
    BY <2>1, Zenon
  <2>6. InOrder(pos)'
    BY <2>1, <2>3, <2>5, Zenon DEF InOrder
  <2> QED
    BY <2>4, <2>6, Zenon
<1> QED
  BY <1>1, <1>2, Zenon

(* A new champion is one above the last and announced behind the other        *)
(* targets.                                                                   *)
LEMMA ChampionInOrder ==
    ASSUME Types, TargetsInOrder, handle' = handle, NewChampion
    PROVE  TargetsInOrder'
<1>1. anchor \in Block /\ handle \in Nat /\ fromPeers \in Seq(PeerMsg)
  BY Zenon DEF NewChampion, Types, MainTypes, ChannelTypes
<1>2. PICK b \in Block : /\ Height(b) = Height(anchor) + 1
                         /\ anchor' = b
                         /\ fromPeers' = Append(fromPeers, [t |-> "NewSyncTarget", b |-> b])
  BY Zenon DEF NewChampion
<1>3. PICK pos \in [handle + 1 .. Height(anchor) -> 1..Len(fromPeers)] : InOrder(pos)
  BY Zenon DEF TargetsInOrder, NewChampion
<1>4. PICK m \in PeerMsg : m = [t |-> "NewSyncTarget", b |-> b]
  BY Zenon DEF PeerMsg
<1>5. PICK k \in Nat : k = Len(fromPeers)
  BY <1>1
<1>6. /\ Len(fromPeers') = k + 1 /\ fromPeers'[k + 1] = m
      /\ \A n \in 1..k : fromPeers'[n] = fromPeers[n]
  BY <1>1, <1>2, <1>4, <1>5, Sent
<1>7. PICK top \in Nat : top = Height(anchor) /\ Height(b) = top + 1
  BY <1>1, <1>2, TreeFacts, Zenon
<1> PICK low \in Nat : low = handle + 1
  BY <1>1
<1> DEFINE new == [h \in low .. top + 1 |-> IF h <= top THEN pos[h] ELSE k + 1]
<1>8. \A h \in low .. top + 1 :
        /\ h <= top => h \in DOMAIN pos /\ pos[h] \in 1..k
        /\ ~(h <= top) => h = top + 1
  BY <1>1, <1>3, <1>5, <1>7
<1>9. new \in [low .. top + 1 -> 1..(k + 1)]
  BY <1>8
<1>10. \A h \in DOMAIN new : /\ fromPeers'[new[h]].t = "NewSyncTarget"
                             /\ Height(fromPeers'[new[h]].b) = h
  <2> SUFFICES ASSUME NEW h \in low .. top + 1
               PROVE  /\ fromPeers'[new[h]].t = "NewSyncTarget"
                      /\ Height(fromPeers'[new[h]].b) = h
    BY Zenon
  <2>1. CASE h <= top
    <3>1. h \in DOMAIN pos /\ new[h] = pos[h] /\ fromPeers'[new[h]] = fromPeers[pos[h]]
      BY <1>6, <1>8, <2>1, Zenon
    <3> QED
      BY <1>3, <3>1, Zenon DEF InOrder
  <2>2. CASE ~(h <= top)
    <3>1. h = top + 1 /\ fromPeers'[new[h]] = m
      BY <1>6, <1>8, <2>2, Zenon
    <3>2. m.t = "NewSyncTarget" /\ m.b = b
      BY <1>4
    <3> QED
      BY <1>7, <3>1, <3>2, Zenon
  <2> QED
    BY <2>1, <2>2, Zenon
<1>11. \A h, i \in DOMAIN new : h < i => new[h] < new[i]
  <2> SUFFICES ASSUME NEW h \in low .. top + 1, NEW i \in low .. top + 1, h < i
               PROVE  new[h] < new[i]
    BY Zenon
  <2>1. h <= top
    OBVIOUS
  <2>2. new[h] = pos[h] /\ pos[h] \in 1..k
    BY <1>8, <2>1, Zenon
  <2>3. CASE i <= top
    <3>1. new[i] = pos[i] /\ pos[h] < pos[i]
      BY <1>3, <1>8, <2>1, <2>3, Zenon DEF InOrder
    <3> QED
      BY <2>2, <3>1, Zenon
  <2>4. CASE ~(i <= top)
    <3>1. new[i] = k + 1
      BY <2>4, Zenon
    <3>2. \A p \in 1..k : p < k + 1
      BY <1>5
    <3> QED
      BY <2>2, <3>1, <3>2, Zenon
  <2> QED
    BY <2>3, <2>4, Zenon
<1>12. InOrder(new)'
  BY <1>10, <1>11, Zenon DEF InOrder
<1>13. new \in [handle' + 1 .. Height(anchor') -> 1..Len(fromPeers')]
  BY <1>2, <1>6, <1>7, <1>9, Zenon
<1> HIDE DEF new
<1> QED
  BY <1>12, <1>13, Zenon DEF TargetsInOrder

(* The main loop takes the targets in the order of their heights.             *)
LEMMA TakenInOrder ==
    ASSUME Types, TargetsInOrder, fromPeers # <<>>, fromPeers' = Tail(fromPeers), anchor' = anchor,
           \/ handle' = handle /\ ~(/\ Head(fromPeers).t = "NewSyncTarget"
                                    /\ Height(Head(fromPeers).b) = handle + 1)
           \/ handle' = handle + 1
    PROVE  TargetsInOrder'
<1> SUFFICES ASSUME anchor # NoBlock PROVE TargetsInOrder'
  BY Zenon DEF TargetsInOrder
<1>1. anchor \in Block /\ handle \in Nat /\ fromPeers \in Seq(PeerMsg)
  BY Zenon DEF Types, MainTypes, ChannelTypes
<1>2. PICK pos \in [handle + 1 .. Height(anchor) -> 1..Len(fromPeers)] : InOrder(pos)
  BY Zenon DEF TargetsInOrder
<1>3. PICK k \in Nat : k + 1 = Len(fromPeers)
  <2>1. Len(fromPeers) \in Nat \ {0}
    BY <1>1, Taken, Zenon
  <2>2. Len(fromPeers) - 1 \in Nat /\ (Len(fromPeers) - 1) + 1 = Len(fromPeers)
    BY <2>1
  <2> QED
    BY <2>2, Zenon
<1>4. /\ Len(fromPeers') = k /\ Head(fromPeers) = fromPeers[1]
      /\ \A n \in 1..k : fromPeers'[n] = fromPeers[n + 1]
  <2>1. /\ Len(Tail(fromPeers)) = Len(fromPeers) - 1 /\ Head(fromPeers) = fromPeers[1]
        /\ \A n \in 1..Len(Tail(fromPeers)) : Tail(fromPeers)[n] = fromPeers[n + 1]
    BY <1>1, Taken, Zenon
  <2>2. (k + 1) - 1 = k
    OBVIOUS
  <2>3. Len(Tail(fromPeers)) = k
    BY <2>1, <2>2, <1>3, Zenon
  <2> QED
    BY <2>1, <2>3, Zenon
<1>5. PICK top \in Nat : top = Height(anchor)
  BY <1>1, TreeFacts, Zenon
<1>6. PICK low \in Nat : low = handle' + 1
  BY <1>1
<1>7. ASSUME NEW h \in low .. top
      PROVE  h \in DOMAIN pos /\ pos[h] - 1 \in 1..k
  <2>1. h \in handle + 1 .. top /\ handle + 1 \in handle + 1 .. top
    BY <1>1, <1>6
  <2>2. pos[handle + 1] \in 1..(k + 1) /\ pos[h] \in 1..(k + 1) /\ h \in DOMAIN pos
        /\ (handle + 1 < h => pos[handle + 1] < pos[h])
    BY <1>2, <1>3, <1>5, <2>1, Zenon DEF InOrder
  <2>3. handle' = handle => pos[handle + 1] # 1
    BY <1>1, <1>2, <1>4, <1>5, <2>1 DEF InOrder
  <2>4. pos[h] > 1
    BY <1>1, <1>6, <2>1, <2>2, <2>3
  <2> QED
    BY <2>2, <2>4
<1> DEFINE new == [h \in low .. top |-> pos[h] - 1]
<1>8. new \in [low .. top -> 1..k]
  BY <1>7, Zenon
<1>9. \A h \in DOMAIN new : /\ fromPeers'[new[h]].t = "NewSyncTarget"
                            /\ Height(fromPeers'[new[h]].b) = h
  <2> SUFFICES ASSUME NEW h \in low .. top
               PROVE  /\ fromPeers'[pos[h] - 1].t = "NewSyncTarget"
                      /\ Height(fromPeers'[pos[h] - 1].b) = h
    BY Zenon
  <2>1. h \in DOMAIN pos /\ pos[h] - 1 \in 1..k /\ pos[h] \in Int
    BY <1>2, <1>7
  <2>2. fromPeers'[pos[h] - 1] = fromPeers[pos[h]]
    BY <1>4, <2>1
  <2> QED
    BY <1>2, <2>1, <2>2, Zenon DEF InOrder
<1>10. \A h, i \in DOMAIN new : h < i => new[h] < new[i]
  <2> SUFFICES ASSUME NEW h \in low .. top, NEW i \in low .. top, h < i
               PROVE  pos[h] - 1 < pos[i] - 1
    BY Zenon
  <2>1. pos[h] \in Int /\ pos[i] \in Int
    BY <1>2, <1>7
  <2>2. pos[h] < pos[i]
    BY <1>2, <1>7, Zenon DEF InOrder
  <2> QED
    BY <2>1, <2>2
<1>11. InOrder(new)'
  BY <1>9, <1>10, Zenon DEF InOrder
<1>12. new \in [handle' + 1 .. Height(anchor') -> 1..Len(fromPeers')]
  BY <1>4, <1>5, <1>6, <1>8, Zenon
<1> HIDE DEF new
<1> QED
  BY <1>11, <1>12, Zenon DEF TargetsInOrder

(* No target is missing when the handle has caught up with the champion,   *)
(* or when there is none.                                                  *)
LEMMA NoneMissing ==
    ASSUME anchor' = NoBlock \/ (anchor' \in Block /\ handle' = Height(anchor'))
    PROVE  TargetsInOrder'
<1> SUFFICES ASSUME anchor' \in Block, handle' = Height(anchor')
             PROVE  TargetsInOrder'
  BY Zenon DEF TargetsInOrder
<1>1. handle' \in Nat /\ handle' + 1 .. Height(anchor') = {}
  BY TreeFacts
<1> DEFINE none == [h \in {} |-> 1]
<1>2. none \in [handle' + 1 .. Height(anchor') -> 1..Len(fromPeers')] /\ DOMAIN none = {}
  BY <1>1, Zenon
<1>3. InOrder(none)'
  BY <1>2, Zenon DEF InOrder
<1> HIDE DEF none
<1> QED
  BY <1>2, <1>3, Zenon DEF TargetsInOrder

-----------------------------------------------------------------------------
(* The handle, the anchor and the targets between them through every step. *)
HandleInv == HandleAnchorAgree /\ TargetsInOrder

(* Peer loops keep handle and anchor in agreement, and the targets in order.  *)
LEMMA PeersKeepHandle ==
    ASSUME Types, HandleInv, PeerStep
    PROVE  HandleInv'
<1>1. handle' = handle /\ (Silent \/ Tells \/ NewChampion)
  BY PeerStepMoves, Zenon
<1>2. TargetsInOrder'
  BY <1>1, ToldInOrder, ChampionInOrder, Zenon DEF HandleInv
<1>3. anchor' = NoBlock <=> anchor = NoBlock
  BY <1>1, SyncAssumption, Zenon DEF Silent, Tells, NewChampion
<1> QED
  BY <1>1, <1>2, <1>3, Zenon DEF HandleInv, HandleAnchorAgree

(* So do the handlers of the main loop.                                       *)
LEMMA MainKeepsHandle ==
    ASSUME Types, HandleInv,
           \/ NewBlocks \/ AddPeerMaxBlockHeight \/ NewPeer \/ DroppedPeer
           \/ NewSyncTarget \/ NewSyncBlock \/ PeerWantsSyncBlock
    PROVE  HandleInv'
<1>0. handle \in Nat /\ anchor \in Block \cup {NoBlock} /\ chainTip \in Block
  BY Zenon DEF Types, MainTypes
<1>1. fromPeers # <<>> /\ fromPeers' = Tail(fromPeers)
  BY Zenon DEF NewBlocks, AddPeerMaxBlockHeight, NewPeer, DroppedPeer, NewSyncTarget, NewSyncBlock,
         PeerWantsSyncBlock, PassOn, Hears, HeardPeer
<1>2. PICK m \in PeerMsg : m = Head(fromPeers)
  BY <1>1, Taken, Zenon DEF Types, ChannelTypes
<1>3. CASE NewBlocks \/ NewPeer \/ DroppedPeer \/ NewSyncBlock \/ PeerWantsSyncBlock
  <2>1. UNCHANGED <<handle, anchor>> /\ m.t # "NewSyncTarget"
    BY <1>2, <1>3, Zenon DEF NewBlocks, NewPeer, DroppedPeer, NewSyncBlock, PeerWantsSyncBlock, PassOn, Hears,
                      mainVars
  <2>2. TargetsInOrder'
    BY <1>1, <1>2, <2>1, TakenInOrder, Zenon DEF HandleInv
  <2> QED
    BY <2>1, <2>2, Zenon DEF HandleInv, HandleAnchorAgree
<1>4. CASE AddPeerMaxBlockHeight
  <2>1. m.t = "AddPeerMaxBlockHeight" /\ m.b \in Block
    BY <1>2, <1>4, Fields, Zenon DEF AddPeerMaxBlockHeight, Hears
  <2>2. CASE UNCHANGED <<handle, anchor>>
    <3>1. TargetsInOrder'
      BY <1>1, <1>2, <2>1, <2>2, TakenInOrder, Zenon DEF HandleInv
    <3> QED
      BY <2>2, <3>1, Zenon DEF HandleInv, HandleAnchorAgree
  <2>3. CASE ~UNCHANGED <<handle, anchor>>
    <3>1. anchor' = m.b /\ handle' = Height(m.b) /\ SyncCriterion(m.b)
      BY <1>2, <1>4, <2>3, Zenon DEF AddPeerMaxBlockHeight
    <3>2. Height(m.b) # 0 /\ m.b # NoBlock
      BY <1>0, <2>1, <3>1, TreeFacts, SyncAssumption DEF SyncCriterion, MoreCanonical
    <3>3. TargetsInOrder'
      BY <2>1, <3>1, NoneMissing, Zenon
    <3> QED
      BY <3>1, <3>2, <3>3, Zenon DEF HandleInv, HandleAnchorAgree
  <2> QED
    BY <2>2, <2>3, Zenon
<1>5. CASE NewSyncTarget
  <2>1. m.b \in Block /\ Height(m.b) \in Nat
    BY <1>2, <1>5, Fields, TreeFacts, Zenon DEF NewSyncTarget, Hears
  <2>2. CASE ~(handle # 0 /\ handle + 1 = Height(m.b))
    <3>1. UNCHANGED <<handle, anchor>>
      BY <1>2, <1>5, <2>2, Zenon DEF NewSyncTarget
    <3>2. CASE handle = 0
      <4>1. anchor' = NoBlock
        BY <3>1, <3>2, Zenon DEF HandleInv, HandleAnchorAgree
      <4> QED
        BY <3>1, <4>1, NoneMissing, Zenon DEF HandleInv, HandleAnchorAgree
    <3>3. CASE handle + 1 # Height(m.b)
      <4>1. TargetsInOrder'
        BY <1>0, <1>1, <1>2, <2>1, <3>1, <3>3, TakenInOrder, Zenon DEF HandleInv
      <4> QED
        BY <3>1, <4>1, Zenon DEF HandleInv, HandleAnchorAgree
    <3> QED
      BY <2>2, <3>2, <3>3, Zenon
  <2>3. CASE handle # 0 /\ handle + 1 = Height(m.b)
    <3>1. /\ handle' = Height(m.b) /\ anchor # NoBlock
          /\ anchor' = IF anchor # NoBlock /\ Height(anchor) <= Height(m.b) THEN m.b ELSE anchor
      BY <1>2, <1>5, <2>3, Zenon DEF NewSyncTarget, HandleInv, HandleAnchorAgree
    <3>2. handle' # 0 /\ anchor' # NoBlock
      BY <1>0, <2>1, <2>3, <3>1, SyncAssumption
    <3>3. TargetsInOrder'
      <4>1. CASE anchor' = m.b
        BY <2>1, <3>1, <4>1, NoneMissing, Zenon
      <4>2. CASE anchor' = anchor
        BY <1>1, <2>3, <3>1, <4>2, TakenInOrder, Zenon DEF HandleInv
      <4> QED
        BY <3>1, <4>1, <4>2, Zenon
    <3> QED
      BY <3>2, <3>3, Zenon DEF HandleInv, HandleAnchorAgree
  <2> QED
    BY <2>2, <2>3, Zenon
<1> QED
  BY <1>3, <1>4, <1>5, Zenon

(* Every step keeps the invariant of the handle.                              *)
LEMMA HandleStep == Types /\ HandleInv /\ [Next]_vars => HandleInv'
<1> SUFFICES ASSUME Types, HandleInv, [Next]_vars PROVE HandleInv'
  BY Zenon
<1>1. CASE UNCHANGED <<handle, anchor, fromPeers>>
  BY <1>1, Zenon DEF HandleInv, HandleAnchorAgree, TargetsInOrder, InOrder
<1>2. CASE DropHandle \/ Restart
  <2>1. handle' = 0 /\ anchor' = NoBlock
    BY <1>2, Zenon DEF DropHandle, Restart
  <2> QED
    BY <2>1, NoneMissing, Zenon DEF HandleInv, HandleAnchorAgree
<1>3. CASE PeerStep
  BY <1>3, PeersKeepHandle, Zenon
<1>4. CASE \/ NewBlocks \/ AddPeerMaxBlockHeight \/ NewPeer \/ DroppedPeer
           \/ NewSyncTarget \/ NewSyncBlock \/ PeerWantsSyncBlock
  BY <1>4, MainKeepsHandle, Zenon
<1>5. CASE MainSends \/ TipSuccessor \/ RequestBlocks \/ Relay \/ TaskStep \/ LoopMessage
           \/ LoopStep \/ Request \/ CleanUp \/ UNCHANGED vars
  <2>1. CASE MainSends \/ TipSuccessor \/ RequestBlocks \/ Relay \/ UNCHANGED vars
    BY <1>1, <2>1, Zenon DEF MainSends, TipSuccessor, RequestBlocks, Relay, vars, mainVars
  <2>2. CASE TaskStep \/ LoopMessage \/ LoopStep \/ Request \/ CleanUp
    <3>1. UNCHANGED <<mainVars, fromPeers>>
      BY <2>2, Zenon DEF TaskStep, TaskSends, TaskDeletes, TaskReturns, LoopMessage, AddPeer, RemovePeer,
                  ReceiveBlock, ExtendChain, TryFetchBlock, FastForward, LoopStep, TaskResult,
                  LoopSends, TickGone, TickStart, LoopReturns, Request, TickRequest, CleanUp
    <3> QED
      BY <1>1, <3>1, Zenon DEF mainVars
  <2> QED
    BY <1>5, <2>1, <2>2, Zenon
<1> QED
  BY <1>2, <1>3, <1>4, <1>5, Zenon DEF Next, MainStep

(* The main loop holds a sync loop exactly when the anchor says so, and    *)
(* can raise its target to the champion: whatever the peers' loops and the *)
(* main loop do, no height between the two is skipped.                     *)
THEOREM HandleStaysSound == Spec => []HandleIsSound
<1> DEFINE HInv == Types /\ HandleInv
<1>1. Init => HInv
  <2> SUFFICES ASSUME Init PROVE HandleInv
    BY TypesInit, Zenon
  <2>1. handle = 0 /\ anchor = NoBlock
    BY Zenon DEF Init
  <2> QED
    BY <2>1, Zenon DEF HandleInv, HandleAnchorAgree, TargetsInOrder
<1>2. HInv /\ [Next]_vars => HInv'
  BY TypesStep, HandleStep, Zenon
<1>3. HInv => HandleIsSound
  <2> SUFFICES ASSUME HInv PROVE ChampionReachable
    BY Zenon DEF HandleIsSound, HandleInv
  <2> SUFFICES ASSUME NEW h \in Heights, handle < h, anchor # NoBlock, h <= Height(anchor)
               PROVE  \E n \in DOMAIN fromPeers :
                        fromPeers[n].t = "NewSyncTarget" /\ Height(fromPeers[n].b) = h
    BY Zenon DEF ChampionReachable
  <2>1. handle \in Nat /\ h \in Nat /\ Height(anchor) \in Nat /\ DOMAIN fromPeers = 1..Len(fromPeers)
    BY TreeFacts DEF Types, MainTypes, ChannelTypes, Heights
  <2>2. PICK pos \in [handle + 1 .. Height(anchor) -> 1..Len(fromPeers)] : InOrder(pos)
    BY Zenon DEF HandleInv, TargetsInOrder
  <2>3. h \in handle + 1 .. Height(anchor)
    BY <2>1
  <2>4. pos[h] \in DOMAIN fromPeers /\ h \in DOMAIN pos
    BY <2>1, <2>2, <2>3, Zenon
  <2> QED
    BY <2>2, <2>4, Zenon DEF InOrder
<1> HIDE DEF HInv
<1> QED
  BY <1>1, <1>2, <1>3, PTL DEF Spec

-----------------------------------------------------------------------------
(* How a step leaves what is stored and the channel to the main loop: it   *)
(* stores more, sends a message, or takes one and stores its block.        *)
Grows == stored \subseteq stored' /\ toMain' = toMain
Hands(m) == stored' = stored /\ toMain' = Append(toMain, m)
Takes ==
    /\ toMain # <<>> /\ toMain' = Tail(toMain) /\ stored \subseteq stored'
    /\ Head(toMain).t = "TipSuccessor" => Head(toMain).b \in stored'
Codes == {"Finished", "Error"}
Moves == Grows \/ Takes \/ \E m \in MainMsg : Hands(m) /\ m.t \notin Codes

(* A block that was handed over stays handed over: it is stored when its      *)
(* message is taken.                                                          *)
LEMMA HandedKept ==
    ASSUME Types, Grows \/ Takes \/ (\E m \in MainMsg : Hands(m)), NEW b, Handed(b)
    PROVE  Handed(b)'
<1>0. toMain \in Seq(MainMsg)
  BY Zenon DEF Types, ChannelTypes
<1>1. stored \subseteq stored'
  BY Zenon DEF Grows, Takes, Hands
<1>2. CASE b \in stored
  BY <1>1, <1>2, Zenon DEF Handed
<1>3. CASE \E n \in Queued("TipSuccessor") : toMain[n].b = b
  <2>1. PICK n \in DOMAIN toMain : toMain[n].t = "TipSuccessor" /\ toMain[n].b = b
    BY <1>3, Zenon DEF Queued
  <2>2. CASE Grows
    BY <2>1, <2>2, Zenon DEF Grows, Handed, Queued
  <2>3. CASE \E m \in MainMsg : Hands(m)
    <3>1. PICK m \in MainMsg : toMain' = Append(toMain, m)
      BY <2>3, Zenon DEF Hands
    <3>2. n \in DOMAIN toMain' /\ toMain'[n] = toMain[n]
      BY <1>0, <2>1, <3>1, Sent
    <3> QED
      BY <2>1, <3>2, Zenon DEF Handed, Queued
  <2>4. CASE Takes
    <3>1. /\ n \in 1..Len(toMain) /\ Len(toMain) \in Nat /\ toMain[1] = Head(toMain)
          /\ DOMAIN toMain' = 1..(Len(toMain) - 1)
          /\ \A k \in 1..(Len(toMain) - 1) : toMain'[k] = toMain[k + 1]
      BY <1>0, <2>1, <2>4, Taken, Zenon DEF Takes
    <3>2. CASE n = 1
      BY <2>1, <2>4, <3>1, <3>2, Zenon DEF Takes, Handed
    <3>3. CASE n # 1
      <4>1. n - 1 \in 1..(Len(toMain) - 1) /\ (n - 1) + 1 = n
        BY <3>1, <3>3
      <4>2. n - 1 \in DOMAIN toMain' /\ toMain'[n - 1] = toMain[n]
        BY <3>1, <4>1, Zenon
      <4> QED
        BY <2>1, <4>2, Zenon DEF Handed, Queued
    <3> QED
      BY <3>2, <3>3, Zenon
  <2> QED
    BY <2>2, <2>3, <2>4, Zenon
<1> QED
  BY <1>2, <1>3, Zenon DEF Handed

(* The tips of the sync loop and of its subtask stay handed over.             *)
LEMMA TipsKept ==
    ASSUME Types, Grows \/ Takes \/ (\E m \in MainMsg : Hands(m)),
           \E b : Handed(b) /\ tip' = b, \E b : Handed(b) /\ task'.tip = b
    PROVE  Handed(tip)' /\ Handed(task.tip)'
<1>1. PICK b : Handed(b) /\ tip' = b
  BY Zenon
<1>2. PICK c : Handed(c) /\ task'.tip = c
  BY Zenon
<1>3. Handed(b)' /\ Handed(c)'
  BY <1>1, <1>2, HandedKept, Zenon
<1> QED
  BY <1>1, <1>2, <1>3, Zenon DEF Handed

(* A Finished that is sent has its block stored or queued before it.          *)
LEMMA SentFinished ==
    ASSUME Types, FinishedMeansStored, NEW m \in MainMsg, Hands(m),
           m.t = "Finished" => \E b \in Block : Handed(b) /\ Height(b) = m.h
    PROVE  FinishedMeansStored'
<1>1. PICK k \in Nat : k = Len(toMain)
  BY Sent, Zenon DEF Types, ChannelTypes
<1>2. /\ DOMAIN toMain = 1..k /\ DOMAIN toMain' = 1..(k + 1) /\ toMain'[k + 1] = m
      /\ \A n \in 1..k : toMain'[n] = toMain[n]
  BY <1>1, Sent DEF Types, ChannelTypes, Hands
<1>3. stored' = stored
  BY Zenon DEF Hands
<1> SUFFICES ASSUME NEW n \in 1..(k + 1), toMain'[n].t = "Finished"
             PROVE  \/ \E b \in stored' : Height(b) = toMain'[n].h
                    \/ \E j \in 1..(k + 1) : /\ toMain'[j].t = "TipSuccessor" /\ j < n
                                             /\ Height(toMain'[j].b) = toMain'[n].h
  BY <1>2, Zenon DEF FinishedMeansStored, Queued
<1>4. CASE n = k + 1
  <2>1. PICK b \in Block : Handed(b) /\ Height(b) = toMain'[n].h
    BY <1>2, <1>4, Zenon
  <2>2. CASE b \in stored
    BY <1>3, <2>1, <2>2, Zenon
  <2>3. CASE \E j \in Queued("TipSuccessor") : toMain[j].b = b
    <3>1. PICK j \in 1..k : toMain[j].t = "TipSuccessor" /\ toMain[j].b = b
      BY <1>2, <2>3, Zenon DEF Queued
    <3>2. j \in 1..(k + 1) /\ j < n /\ toMain'[j] = toMain[j]
      BY <1>2, <1>4
    <3> QED
      BY <2>1, <3>1, <3>2, Zenon
  <2> QED
    BY <2>1, <2>2, <2>3, Zenon DEF Handed
<1>5. CASE n # k + 1
  <2>1. n \in 1..k /\ toMain'[n] = toMain[n]
    BY <1>2, <1>5
  <2>2. \/ \E b \in stored : Height(b) = toMain[n].h
        \/ \E j \in 1..k : /\ toMain[j].t = "TipSuccessor" /\ j < n
                           /\ Height(toMain[j].b) = toMain[n].h
    BY <1>2, <2>1, Zenon DEF FinishedMeansStored, Queued
  <2>3. \A j \in 1..k : j \in 1..(k + 1) /\ toMain'[j] = toMain[j]
    BY <1>2
  <2> QED
    BY <1>3, <2>1, <2>2, <2>3, Zenon
<1> QED
  BY <1>4, <1>5, Zenon

(* Taking a message from the front of the channel stores the block it         *)
(* carries, so a Finished behind it still has its block.                      *)
LEMMA TakenFinished ==
    ASSUME Types, FinishedMeansStored, Takes
    PROVE  FinishedMeansStored'
<1>1. /\ Len(toMain) \in Nat \ {0} /\ toMain[1] = Head(toMain) /\ DOMAIN toMain = 1..Len(toMain)
      /\ DOMAIN toMain' = 1..(Len(toMain) - 1)
      /\ Len(toMain') = Len(toMain) - 1
      /\ \A n \in 1..Len(toMain') : toMain'[n] = toMain[n + 1]
  BY Taken, Zenon DEF Types, ChannelTypes, Takes
<1>2. PICK k \in Nat : k + 1 = Len(toMain)
  <2>1. Len(toMain) - 1 \in Nat /\ (Len(toMain) - 1) + 1 = Len(toMain)
    BY <1>1
  <2> QED
    BY <2>1, Zenon
<1>3. Len(toMain) - 1 = k
  <2>1. (k + 1) - 1 = k
    OBVIOUS
  <2> QED
    BY <1>2, <2>1, Zenon
<1>4. /\ DOMAIN toMain = 1..(k + 1) /\ DOMAIN toMain' = 1..k
      /\ \A n \in 1..k : toMain'[n] = toMain[n + 1]
  BY <1>1, <1>2, <1>3, Zenon
<1> SUFFICES ASSUME NEW n \in 1..k, toMain'[n].t = "Finished"
             PROVE  \/ \E b \in stored' : Height(b) = toMain'[n].h
                    \/ \E j \in 1..k : /\ toMain'[j].t = "TipSuccessor" /\ j < n
                                       /\ Height(toMain'[j].b) = toMain'[n].h
  BY <1>4, Zenon DEF FinishedMeansStored, Queued
<1>5. n + 1 \in 1..(k + 1) /\ toMain'[n] = toMain[n + 1]
  BY <1>4
<1>6. CASE \E b \in stored : Height(b) = toMain[n + 1].h
  BY <1>5, <1>6, Zenon DEF Takes
<1>7. CASE \E j \in 1..(k + 1) : /\ toMain[j].t = "TipSuccessor" /\ j < n + 1
                                 /\ Height(toMain[j].b) = toMain[n + 1].h
  <2>1. PICK j \in 1..(k + 1) : /\ toMain[j].t = "TipSuccessor" /\ j < n + 1
                                /\ Height(toMain[j].b) = toMain[n + 1].h
    BY <1>7, Zenon
  <2>2. CASE j = 1
    BY <1>1, <1>5, <2>1, <2>2, Zenon DEF Takes
  <2>3. CASE j # 1
    <3>1. j - 1 \in 1..k /\ (j - 1) + 1 = j /\ j - 1 < n
      BY <2>1, <2>3
    <3>2. toMain'[j - 1] = toMain[j]
      BY <1>4, <3>1, Zenon
    <3> QED
      BY <1>5, <2>1, <3>1, <3>2, Zenon
  <2> QED
    BY <2>2, <2>3, Zenon
<1>8. \/ \E b \in stored : Height(b) = toMain[n + 1].h
      \/ \E j \in 1..(k + 1) : /\ toMain[j].t = "TipSuccessor" /\ j < n + 1
                               /\ Height(toMain[j].b) = toMain[n + 1].h
  BY <1>4, <1>5, Zenon DEF FinishedMeansStored, Queued
<1> QED
  BY <1>6, <1>7, <1>8, Zenon

(* Steps that send no exit code keep Finished honest.                         *)
LEMMA FinishedKept ==
    ASSUME Types, FinishedMeansStored, Moves
    PROVE  FinishedMeansStored'
<1>1. CASE Grows
  BY <1>1 DEF Grows, FinishedMeansStored, Queued
<1>2. CASE Takes
  BY <1>2, TakenFinished, Zenon
<1>3. CASE \E m \in MainMsg : Hands(m) /\ m.t \notin Codes
  <2>1. PICK m \in MainMsg : Hands(m) /\ m.t # "Finished"
    BY <1>3, Zenon DEF Codes
  <2> QED
    BY <2>1, SentFinished, Zenon
<1> QED
  BY <1>1, <1>2, <1>3, Zenon DEF Moves

(* A return code that is queued was queued when the loop was over.         *)
LEMMA CodesKept ==
    ASSUME Types, LoopIsOwned, Moves
    PROVE  \A n \in DOMAIN toMain' : toMain'[n].t \in Codes => loop = "over"
<1>0. \A n \in DOMAIN toMain : toMain[n].t \in Codes => loop = "over"
  BY Zenon DEF LoopIsOwned, Codes
<1>1. CASE Grows
  BY <1>0, <1>1, Zenon DEF Grows
<1>2. CASE Takes
  <2>1. /\ Len(toMain) \in Nat /\ DOMAIN toMain = 1..Len(toMain)
        /\ DOMAIN toMain' = 1..(Len(toMain) - 1) /\ Len(toMain') = Len(toMain) - 1
        /\ \A n \in 1..Len(toMain') : toMain'[n] = toMain[n + 1]
    BY <1>2, Taken, Zenon DEF Types, ChannelTypes, Takes
  <2>2. \A n \in DOMAIN toMain' : n + 1 \in DOMAIN toMain
    BY <2>1
  <2> QED
    BY <1>0, <2>1, <2>2, Zenon
<1>3. CASE \E m \in MainMsg : Hands(m) /\ m.t \notin Codes
  <2>1. PICK m \in MainMsg : Hands(m) /\ m.t \notin Codes
    BY <1>3, Zenon
  <2>2. /\ Len(toMain) \in Nat /\ DOMAIN toMain = 1..Len(toMain)
        /\ DOMAIN toMain' = 1..(Len(toMain) + 1) /\ toMain'[Len(toMain) + 1] = m
        /\ \A n \in 1..Len(toMain) : toMain'[n] = toMain[n]
    BY <2>1, Sent DEF Types, ChannelTypes, Hands
  <2>3. \A n \in DOMAIN toMain' : n \in DOMAIN toMain \/ n = Len(toMain) + 1
    BY <2>2
  <2> QED
    BY <1>0, <2>1, <2>2, <2>3, Zenon
<1> QED
  BY <1>1, <1>2, <1>3, Zenon DEF Moves

(* The fast-forwards in a channel, when it is left, taken from, appended   *)
(* to or emptied.                                                          *)
Fed(q, r) ==
    \/ r = q \/ r = <<>> \/ (q # <<>> /\ r = Tail(q))
    \/ \E m \in SyncMsg : /\ r = Append(q, m) \/ r = <<m>>
                          /\ m.t = "FastForward" => m.b \in stored'

(* A channel that is kept, emptied, shortened or fed a fast-forward to a      *)
(* stored block forwards to stored blocks only.                               *)
LEMMA FedProperties ==
    ASSUME NEW q \in Seq(SyncMsg), NEW S, NEW r,
           \A n \in DOMAIN q : q[n].t = "FastForward" => q[n].b \in S,
           \/ r = q \/ r = <<>> \/ (q # <<>> /\ r = Tail(q))
           \/ \E m \in SyncMsg : /\ r = Append(q, m) \/ r = <<m>>
                                 /\ m.t = "FastForward" => m.b \in S
    PROVE  \A n \in DOMAIN r : r[n].t = "FastForward" => r[n].b \in S
<1>1. CASE r = q \/ r = <<>>
  BY <1>1
<1>2. CASE q # <<>> /\ r = Tail(q)
  <2>1. /\ Len(q) \in Nat /\ DOMAIN q = 1..Len(q) /\ DOMAIN r = 1..(Len(q) - 1)
        /\ Len(r) = Len(q) - 1
        /\ \A n \in 1..Len(r) : r[n] = q[n + 1]
    BY <1>2, Taken, Zenon
  <2>2. \A l \in Nat : \A n \in 1..(l - 1) : n + 1 \in 1..l
    OBVIOUS
  <2> QED
    BY <2>1, <2>2, Zenon
<1>3. ASSUME NEW m \in SyncMsg, r = Append(q, m), m.t = "FastForward" => m.b \in S
      PROVE  \A n \in DOMAIN r : r[n].t = "FastForward" => r[n].b \in S
  <2>1. /\ Len(q) \in Nat /\ DOMAIN q = 1..Len(q) /\ DOMAIN r = 1..(Len(q) + 1)
        /\ r[Len(q) + 1] = m /\ \A n \in 1..Len(q) : r[n] = q[n]
    BY <1>3, Sent
  <2>2. \A l \in Nat : \A n \in 1..(l + 1) : n \in 1..l \/ n = l + 1
    OBVIOUS
  <2> QED
    BY <1>3, <2>1, <2>2, Zenon
<1>4. ASSUME NEW m \in SyncMsg, r = <<m>>, m.t = "FastForward" => m.b \in S
      PROVE  \A n \in DOMAIN r : r[n].t = "FastForward" => r[n].b \in S
  BY <1>4
<1> QED
  BY <1>1, <1>2, <1>3, <1>4, Zenon

(* Fast-forwards in a channel stay on stored blocks, since blocks are never   *)
(* removed.                                                                   *)
LEMMA ForwardingKept ==
    ASSUME Types, Forwarding(toSync), Forwarding(outbox), stored \subseteq stored'
    PROVE  /\ Fed(toSync, toSync') => Forwarding(toSync)'
           /\ Fed(outbox, outbox') => Forwarding(outbox)'
<1>0. toSync \in Seq(SyncMsg) /\ outbox \in Seq(SyncMsg)
  BY Zenon DEF Types, ChannelTypes
<1>1. /\ \A n \in DOMAIN toSync : toSync[n].t = "FastForward" => toSync[n].b \in stored'
      /\ \A n \in DOMAIN outbox : outbox[n].t = "FastForward" => outbox[n].b \in stored'
  BY Zenon DEF Forwarding
<1>2. ASSUME Fed(toSync, toSync') PROVE Forwarding(toSync)'
  BY <1>0, <1>1, <1>2, FedProperties, Zenon DEF Fed, Forwarding
<1>3. ASSUME Fed(outbox, outbox') PROVE Forwarding(outbox)'
  BY <1>0, <1>1, <1>3, FedProperties, Zenon DEF Fed, Forwarding
<1> QED
  BY <1>2, <1>3, Zenon

(* A step that leaves the sync loop as it is.                              *)
LEMMA QuietKeeps ==
    ASSUME Types, SInv, Moves, UNCHANGED <<loop, tip, target, sending>>,
           task'.tip = task.tip, handle # 0 => handle' # 0,
           Fed(toSync, toSync'), Fed(outbox, outbox')
    PROVE  SInv'
<1>1. Grows \/ Takes \/ \E m \in MainMsg : Hands(m)
  BY Zenon DEF Moves
<1>2. stored \subseteq stored'
  BY <1>1, Zenon DEF Grows, Takes, Hands
<1>3. FinishedMeansStored'
  BY FinishedKept, Zenon DEF SInv
<1>4. LoopIsOwned'
  BY CodesKept, Zenon DEF SInv, LoopIsOwned, Codes
<1>5. Handed(tip)' /\ Handed(task.tip)'
  BY <1>1, TipsKept, Zenon DEF SInv, Handovers
<1>6. Forwarding(toSync)' /\ Forwarding(outbox)'
  BY <1>2, ForwardingKept, Zenon DEF SInv, Handovers
<1>7. (loop = "finishing" => \E b \in Block : Handed(b) /\ Height(b) = target)'
  <2> SUFFICES ASSUME loop = "finishing"
               PROVE  (\E b \in Block : Handed(b) /\ Height(b) = target)'
    BY Zenon
  <2>1. PICK b \in Block : Handed(b) /\ Height(b) = target
    BY Zenon DEF SInv, Handovers
  <2>2. Handed(b)'
    BY <1>1, <2>1, HandedKept, Zenon
  <2> QED
    BY <2>1, <2>2, Zenon
<1>8. (sending.t = "TipSuccessor" => target = Height(sending.b))'
  BY Zenon DEF SInv, Handovers
<1> QED
  BY <1>3, <1>4, <1>5, <1>6, <1>7, <1>8, Zenon DEF SInv, Handovers

(* A step of an idle sync loop.                                            *)
LEMMA IdleKeeps ==
    ASSUME Types, SInv, Moves, loop = "run", handle' = handle, stored' = stored, loop' # "off",
           \E b : Handed(b) /\ tip' = b, \E b : Handed(b) /\ task'.tip = b,
           sending' # NoSend => loop' = "run",
           (sending.t = "TipSuccessor" => target = Height(sending.b))',
           (loop = "finishing" => \E b \in Block : Handed(b) /\ Height(b) = target)',
           Fed(toSync, toSync'), outbox' = outbox
    PROVE  SInv'
<1>1. Grows \/ Takes \/ \E m \in MainMsg : Hands(m)
  BY Zenon DEF Moves
<1>2. FinishedMeansStored'
  BY FinishedKept, Zenon DEF SInv
<1>3. LoopIsOwned'
  <2>1. \A n \in DOMAIN toMain' : toMain'[n].t \notin Codes
    BY CodesKept, Zenon DEF SInv
  <2> QED
    BY <2>1, Zenon DEF SInv, LoopIsOwned, Codes
<1>4. Handed(tip)' /\ Handed(task.tip)'
  BY <1>1, TipsKept, Zenon
<1>5. Forwarding(toSync)' /\ Forwarding(outbox)'
  BY ForwardingKept, Zenon DEF SInv, Handovers, Fed
<1> QED
  BY <1>2, <1>3, <1>4, <1>5, Zenon DEF SInv, Handovers

-----------------------------------------------------------------------------
(* The handovers through every step.                                       *)
LEMMA OthersKeep ==
    ASSUME Types, SInv, PeerStep \/ CleanUp \/ TaskDeletes \/ TaskReturns \/ UNCHANGED vars
    PROVE  SInv'
<1>1. UNCHANGED <<stored, handle, outbox, loop, tip, target, sending, toSync, toMain>>
  <2>1. CASE PeerStep
    BY <2>1, Zenon DEF PeerStep, PeerExtends, PeerChallenged, PeerResponds, PeerAnnounces, PeerDrops,
                PeerAnswers, PeerWants, mainVars, loopVars
  <2>2. CASE CleanUp \/ TaskDeletes \/ TaskReturns \/ UNCHANGED vars
    BY <2>2, Zenon DEF CleanUp, TaskDeletes, TaskReturns, mainVars, loopVars, vars
  <2> QED
    BY <2>1, <2>2, Zenon
<1>2. task'.tip = task.tip
  <2>1. CASE UNCHANGED task
    BY <2>1, Zenon
  <2>2. CASE TaskDeletes \/ TaskReturns
    <3>1. PICK y : Ends(y)
      BY <2>2, Zenon DEF TaskDeletes, TaskReturns
    <3> QED
      BY <3>1, TaskShape, TreeFacts, Zenon DEF Ends, Types, LoopTypes
  <2>3. UNCHANGED task \/ TaskDeletes \/ TaskReturns
    BY Zenon DEF PeerStep, PeerExtends, PeerChallenged, PeerResponds, PeerAnnounces, PeerDrops,
           PeerAnswers, PeerWants, CleanUp, vars
  <2> QED
    BY <2>1, <2>2, <2>3, Zenon
<1> QED
  BY <1>1, <1>2, QuietKeeps, Zenon DEF Moves, Grows, Fed

(* The main loop's handlers of messages from peers keep the invariant of the  *)
(* session.                                                                   *)
LEMMA MainHearsPeersKeeps ==
    ASSUME Types, SInv, \/ NewBlocks \/ NewPeer \/ DroppedPeer \/ NewSyncTarget
                        \/ NewSyncBlock \/ PeerWantsSyncBlock
    PROVE  SInv'
<1>0. fromPeers # <<>> /\ fromPeers \in Seq(PeerMsg) /\ handle \in Nat /\ stored \subseteq Block
  BY Zenon DEF NewBlocks, NewPeer, DroppedPeer, PassOn, NewSyncTarget, NewSyncBlock, PeerWantsSyncBlock,
         Hears, Types, MainTypes, ChannelTypes
<1>1. PICK m \in PeerMsg : m = Head(fromPeers)
  BY <1>0, Taken, Zenon
<1>2. UNCHANGED <<loop, tip, target, sending, task, toMain>>
  BY Zenon DEF NewBlocks, NewPeer, DroppedPeer, PassOn, NewSyncTarget, NewSyncBlock, PeerWantsSyncBlock,
         loopVars
<1>3. stored \subseteq stored'
  BY Zenon DEF NewBlocks, Store, NewPeer, DroppedPeer, PassOn, NewSyncTarget, NewSyncBlock,
         PeerWantsSyncBlock, mainVars
<1>4. (handle # 0 => handle' # 0) /\ Fed(toSync, toSync') /\ Fed(outbox, outbox')
  <2>1. CASE NewBlocks
    BY <2>1, Zenon DEF NewBlocks, Fed
  <2>2. CASE NewPeer \/ DroppedPeer
    <3>1. m.p \in Peer
      BY <1>1, <2>2, Fields, Zenon DEF NewPeer, DroppedPeer, PassOn, Hears
    <3>2. PICK s \in SyncMsg : /\ outbox' = (IF handle # 0 THEN <<s>> ELSE <<>>)
                               /\ s.t # "FastForward"
      BY <1>1, <2>2, <3>1, Messages, TreeFacts, ZeroIsHeight, Zenon DEF NewPeer, DroppedPeer, PassOn
    <3>3. UNCHANGED <<handle, toSync>>
      BY <2>2, Zenon DEF NewPeer, DroppedPeer, PassOn
    <3> QED
      BY <3>2, <3>3, Zenon DEF Fed
  <2>3. CASE NewSyncTarget
    <3>1. m.b \in Block
      BY <1>1, <2>3, Fields, Zenon DEF NewSyncTarget, Hears
    <3>2. [t |-> "ExtendChain", b |-> m.b] \in SyncMsg
      BY <3>1, Zenon DEF SyncMsg
    <3>3. /\ UNCHANGED toSync
          /\ \/ UNCHANGED <<outbox, handle>>
             \/ /\ outbox' = <<[t |-> "ExtendChain", b |-> m.b]>>
                /\ handle' = handle + 1
      BY <1>1, <2>3, Zenon DEF NewSyncTarget
    <3>4. handle' # 0 \/ handle' = handle
      BY <1>0, <3>3
    <3> QED
      BY <3>2, <3>3, <3>4, Zenon DEF Fed
  <2>4. CASE NewSyncBlock
    <3>1. m.b \in Block /\ m.p \in Peer
      BY <1>1, <2>4, Fields, Zenon DEF NewSyncBlock, Hears
    <3>2. /\ [t |-> "FastForward", b |-> m.b] \in SyncMsg
          /\ [t |-> "ReceiveBlock", p |-> m.p, b |-> m.b] \in SyncMsg
      BY <3>1, Messages, ZeroIsHeight, Zenon
    <3>3. /\ UNCHANGED <<stored, handle>>
          /\ \/ UNCHANGED <<outbox, toSync>>
             \/ /\ m.b \in stored /\ outbox' = <<[t |-> "FastForward", b |-> m.b]>>
                /\ UNCHANGED toSync
             \/ /\ UNCHANGED outbox
                /\ toSync' = Append(toSync, [t |-> "ReceiveBlock", p |-> m.p, b |-> m.b])
      BY <1>1, <2>4, Zenon DEF NewSyncBlock, TrySync
    <3> QED
      BY <3>2, <3>3, Zenon DEF Fed
  <2>5. CASE PeerWantsSyncBlock
    <3>1. m.p \in Peer /\ m.h \in Nat
      BY <1>1, <2>5, Fields, Zenon DEF PeerWantsSyncBlock, Hears
    <3>2. [t |-> "TryFetchBlock", p |-> m.p, h |-> m.h] \in SyncMsg
      BY <3>1, Messages, TreeFacts, Zenon
    <3>3. /\ UNCHANGED <<outbox, handle>>
          /\ \/ UNCHANGED toSync
             \/ toSync' = Append(toSync, [t |-> "TryFetchBlock", p |-> m.p, h |-> m.h])
      BY <1>1, <2>5, Zenon DEF PeerWantsSyncBlock, TrySync, mainVars
    <3> QED
      BY <3>2, <3>3, Zenon DEF Fed
  <2> QED
    BY <2>1, <2>2, <2>3, <2>4, <2>5, Zenon
<1> QED
  BY <1>2, <1>3, <1>4, QuietKeeps, Zenon DEF Moves, Grows

(* Sync mode starts: there was no sync loop, so nothing was being sent.    *)
LEMMA StartKeeps ==
    ASSUME Types, SInv, AddPeerMaxBlockHeight
    PROVE  SInv'
<1>1. CASE UNCHANGED handle
  <2>1. UNCHANGED <<loop, tip, target, sending, task, toMain, stored, handle, toSync, outbox>>
    <3>1. fromPeers # <<>> /\ fromPeers \in Seq(PeerMsg) /\ chainTip \in Block
      BY Zenon DEF AddPeerMaxBlockHeight, Hears, Types, MainTypes, ChannelTypes
    <3>2. PICK m \in PeerMsg : m = Head(fromPeers) /\ m.t = "AddPeerMaxBlockHeight"
      BY <3>1, Taken, Zenon DEF AddPeerMaxBlockHeight, Hears
    <3>3. m.b \in Block
      BY <3>2, Fields, Zenon
    <3>4. SyncCriterion(m.b) => Height(m.b) # 0
      BY <3>1, <3>3, TreeFacts DEF SyncCriterion, MoreCanonical
    <3> QED
      BY <1>1, <3>2, <3>4, Zenon DEF AddPeerMaxBlockHeight, loopVars
  <2> QED
    BY <2>1, QuietKeeps, Zenon DEF Moves, Grows, Fed
<1>2. CASE handle' # handle
  <2>1. PICK m : m = Head(fromPeers)
    BY Zenon
  <2>2. /\ handle = 0 /\ loop' = "run" /\ tip' = Genesis /\ handle' # 0
        /\ toSync' = <<[t |-> "AddPeer", p |-> m.p]>>
        /\ \E order \in [1..Cardinality(connected \ {m.p}) -> connected \ {m.p}] :
             outbox' = [n \in DOMAIN order |-> [t |-> "AddPeer", p |-> order[n]]]
        /\ UNCHANGED <<stored, sending, task, toMain>>
    BY <1>2, <2>1, Zenon DEF AddPeerMaxBlockHeight
  <2>3. loop = "off" /\ sending = NoSend /\ \A n \in DOMAIN toMain : toMain[n].t \notin Codes
    BY <2>2, Zenon DEF SInv, LoopIsOwned, Codes
  <2>4. Genesis \in stored
    BY Zenon DEF Types, MainTypes
  <2>5. LoopIsOwned'
    BY <2>2, <2>3, Zenon DEF LoopIsOwned, Codes
  <2>6. Handed(tip)' /\ Handed(task.tip)'
    BY <2>2, <2>4, Zenon DEF SInv, Handovers, Handed, Queued
  <2>7. Forwarding(toSync)' /\ Forwarding(outbox)'
    BY <2>2 DEF Forwarding
  <2>8. sending'.t # "TipSuccessor"
    BY <2>2, <2>3, Zenon DEF NoSend
  <2>9. FinishedMeansStored'
    BY <2>2, Zenon DEF SInv, FinishedMeansStored, Queued
  <2> QED
    BY <2>2, <2>5, <2>6, <2>7, <2>8, <2>9, Zenon DEF SInv, Handovers
<1> QED
  BY <1>1, <1>2, Zenon

(* The main loop's handlers of messages from the sync loop keep it.           *)
LEMMA MainHearsSyncKeeps ==
    ASSUME Types, SInv, MainSends \/ TipSuccessor \/ RequestBlocks \/ Relay
    PROVE  SInv'
<1>1. UNCHANGED <<loop, tip, target, sending, task, handle>>
  BY Zenon DEF MainSends, TipSuccessor, RequestBlocks, Relay, loopVars, mainVars
<1>2. Moves
  BY Zenon DEF MainSends, TipSuccessor, RequestBlocks, Relay, HearsSync, Store, mainVars, Moves, Grows, Takes
<1>3. Fed(toSync, toSync') /\ Fed(outbox, outbox')
  <2>1. CASE MainSends
    <3>1. PICK m \in SyncMsg : m = Head(outbox) /\ m = outbox[1] /\ 1 \in DOMAIN outbox
      BY <2>1, Taken DEF MainSends, Types, ChannelTypes
    <3>2. m.t = "FastForward" => m.b \in stored'
      BY <2>1, <3>1, Zenon DEF MainSends, SInv, Handovers, Forwarding
    <3>3. /\ outbox # <<>> /\ outbox' = Tail(outbox)
          /\ UNCHANGED toSync \/ toSync' = Append(toSync, m)
      BY <2>1, <3>1, Zenon DEF MainSends
    <3> QED
      BY <3>1, <3>2, <3>3, Zenon DEF Fed
  <2>2. CASE TipSuccessor \/ RequestBlocks \/ Relay
    BY <2>2, Zenon DEF TipSuccessor, RequestBlocks, Relay, mainVars, Fed
  <2> QED
    BY <2>1, <2>2, Zenon
<1> QED
  BY <1>1, <1>2, <1>3, QuietKeeps, Zenon

(* The handle is dropped: the loop was over, and sent nothing any more.    *)
LEMMA DropKeeps ==
    ASSUME Types, SInv, DropHandle \/ Restart
    PROVE  SInv'
<1>1. /\ toMain' = <<>> /\ toSync' = <<>> /\ loop' = "off" /\ task' = NoTask /\ tip' = Genesis
      /\ stored' = stored /\ (outbox' = outbox \/ outbox' = <<>>)
  BY Zenon DEF DropHandle, Restart, Forget
<1>2. sending' = NoSend
  <2>1. CASE DropHandle
    <3>1. toMain # <<>> /\ Head(toMain).t \in Codes
      BY <2>1, Zenon DEF DropHandle, HearsSync, Codes
    <3>2. 1 \in DOMAIN toMain /\ Head(toMain) = toMain[1]
      BY <3>1, Taken DEF Types, ChannelTypes
    <3>3. loop = "over"
      BY <3>1, <3>2, Zenon DEF SInv, LoopIsOwned, Codes
    <3> QED
      BY <2>1, <3>3, Zenon DEF DropHandle, SInv, LoopIsOwned
  <2>2. CASE Restart
    BY <2>2, Zenon DEF Restart
  <2> QED
    BY <2>1, <2>2, Zenon
<1>3. LoopIsOwned'
  BY <1>1, <1>2 DEF LoopIsOwned
<1>4. Handed(tip)' /\ Handed(task.tip)'
  BY <1>1, NoTaskShape, Zenon DEF Handed, Types, MainTypes
<1>5. Forwarding(toSync)' /\ Forwarding(outbox)'
  BY <1>1 DEF Forwarding, SInv, Handovers
<1>6. FinishedMeansStored'
  BY <1>1 DEF FinishedMeansStored, Queued
<1> QED
  BY <1>1, <1>2, <1>3, <1>4, <1>5, <1>6, Zenon DEF SInv, Handovers, NoSend

(* The subtask moves its tip only with a successor it has handed over.        *)
LEMMA TaskSendsKeeps ==
    ASSUME Types, SInv, TaskSends
    PROVE  SInv'
<1>0. UNCHANGED <<stored, handle, outbox, loop, tip, target, sending, toSync>>
  BY Zenon DEF TaskSends, mainVars, loopVars
<1>1. Shaped(task)
  BY Zenon DEF Types, LoopTypes
<1>2. \/ (\E y : Ends(y)) /\ UNCHANGED toMain
      \/ \E b \in Loadable(task.index, Next1(task.tip)) :
           /\ toMain' = Append(toMain, [t |-> "TipSuccessor", b |-> b])
           /\ task' = [task EXCEPT !.phase = "delete", !.tip = b]
  BY Zenon DEF TaskSends
<1>3. CASE (\E y : Ends(y)) /\ UNCHANGED toMain
  <2>1. task'.tip = task.tip
    <3>1. PICK y : task' = [task EXCEPT !.phase = y]
      BY <1>3, Zenon DEF Ends
    <3>2. [task EXCEPT !.phase = y].tip = task.tip
      BY <1>1, TaskShape, TreeFacts, Zenon
    <3> QED
      BY <3>1, <3>2, Zenon
  <2> QED
    BY <1>0, <1>3, <2>1, QuietKeeps, Zenon DEF Moves, Grows, Fed
<1>4. ASSUME NEW b \in Loadable(task.index, Next1(task.tip)),
             toMain' = Append(toMain, [t |-> "TipSuccessor", b |-> b]),
             task' = [task EXCEPT !.phase = "delete", !.tip = b]
      PROVE  SInv'
  <2>1. b \in Block
    BY Zenon DEF Loadable, Types, LoopTypes
  <2>2. task'.tip = b
    <3>1. PICK c, i, y : task \in [phase : {y}, tip : Block, cov : {c}, index : {i}]
      BY <1>1, Zenon DEF Shaped
    <3> QED
      BY <1>4, <3>1, Zenon
  <2> DEFINE m == [t |-> "TipSuccessor", b |-> b]
  <2>3. m \in MainMsg /\ m.t \notin Codes /\ m.t = "TipSuccessor" /\ m.b = b
    BY <2>1, Zenon DEF MainMsg, Codes
  <2>4. toMain' = Append(toMain, m)
    BY <1>4, Zenon
  <2> HIDE DEF m
  <2>5. Hands(m) /\ Moves
    BY <1>0, <2>3, <2>4, Zenon DEF Hands, Moves
  <2>6. Handed(task.tip)'
    <3>1. Len(toMain) + 1 \in DOMAIN toMain' /\ toMain'[Len(toMain) + 1] = m
      BY <2>3, <2>4, Sent DEF Types, ChannelTypes
    <3> QED
      BY <2>2, <2>3, <3>1, Zenon DEF Handed, Queued
  <2>7. Handed(tip)'
    <3>1. PICK c : c = tip /\ Handed(c)
      BY Zenon DEF SInv, Handovers
    <3>2. Handed(c)'
      BY <2>3, <2>5, <3>1, HandedKept, Zenon
    <3> QED
      BY <1>0, <3>1, <3>2, Zenon
  <2>8. (loop = "finishing" => \E c \in Block : Handed(c) /\ Height(c) = target)'
    <3> SUFFICES ASSUME loop = "finishing"
                 PROVE  (\E c \in Block : Handed(c) /\ Height(c) = target)'
      BY <1>0, Zenon
    <3>1. PICK c \in Block : Handed(c) /\ Height(c) = target
      BY Zenon DEF SInv, Handovers
    <3>2. Handed(c)'
      BY <2>3, <2>5, <3>1, HandedKept, Zenon
    <3> QED
      BY <1>0, <3>1, <3>2, Zenon
  <2>9. Forwarding(toSync)' /\ Forwarding(outbox)'
    BY <1>0, Zenon DEF SInv, Handovers, Forwarding
  <2>10. LoopIsOwned'
    BY <1>0, <2>5, CodesKept, Zenon DEF SInv, LoopIsOwned, Codes
  <2>11. FinishedMeansStored'
    BY <2>5, FinishedKept, Zenon DEF SInv
  <2> QED
    BY <1>0, <2>6, <2>7, <2>8, <2>9, <2>10, <2>11, Zenon DEF SInv, Handovers
<1> QED
  BY <1>2, <1>3, <1>4, Zenon

(* The sync loop's message handlers keep the invariant of the session.        *)
LEMMA LoopMessageKeeps ==
    ASSUME Types, SInv, LoopMessage
    PROVE  SInv'
<1>0. /\ loop = "run" /\ sending = NoSend /\ toSync # <<>> /\ toSync' = Tail(toSync)
      /\ UNCHANGED <<stored, handle, outbox>>
  BY Zenon DEF LoopMessage, AddPeer, RemovePeer, ReceiveBlock, ExtendChain, TryFetchBlock, FastForward,
         Gets, Got, Idle, mainVars
<1>1. Fed(toSync, toSync') /\ Handed(tip) /\ Handed(task.tip)
  BY <1>0, Zenon DEF Fed, SInv, Handovers
<1>2. CASE AddPeer \/ RemovePeer
  <2>1. UNCHANGED <<loop, tip, target, sending, task, toMain>>
    BY <1>2, Zenon DEF AddPeer, RemovePeer
  <2> QED
    BY <1>0, <1>1, <2>1, QuietKeeps, Zenon DEF Moves, Grows, Fed
<1>3. CASE ReceiveBlock
  <2>1. /\ UNCHANGED <<tip, target, sending, toMain>> /\ loop' \in {"run", "panicked"}
        /\ task' = task \/ \E c, files : task' = NewTask(tip, c, files)
    BY <1>3, Zenon DEF ReceiveBlock
  <2>2. task'.tip = task.tip \/ task'.tip = tip
    BY <2>1, NewTaskShape DEF Types, LoopTypes
  <2>3. sending'.t # "TipSuccessor" /\ sending' = NoSend
    BY <1>0, <2>1, Zenon DEF NoSend
  <2> QED
    BY <1>0, <1>1, <2>1, <2>2, <2>3, IdleKeeps, Zenon DEF Moves, Grows
<1>4. CASE ExtendChain
  <2>1. PICK b : b = Head(toSync).b
    BY Zenon
  <2>2. /\ UNCHANGED <<tip, task, toMain>>
        /\ \/ /\ target' = Height(b) /\ loop' = loop
              /\ sending' = [t |-> "TipSuccessor", b |-> b] \/ sending' = NoSend
           \/ UNCHANGED <<target, sending>> /\ loop' \in {"run", "panicked"}
    BY <1>4, <2>1, Zenon DEF ExtendChain
  <2>3. sending'.t = "TipSuccessor" => target' = Height(sending'.b)
    BY <1>0, <2>2 DEF NoSend
  <2>4. (sending' # NoSend => loop' = "run") /\ loop' \in {"run", "panicked"}
    BY <1>0, <2>2, Zenon
  <2> QED
    BY <1>0, <1>1, <2>2, <2>3, <2>4, IdleKeeps, Zenon DEF Moves, Grows
<1>5. CASE TryFetchBlock
  <2>1. /\ UNCHANGED <<loop, tip, target, task>>
        /\ sending' = NoSend \/ sending'.t = "SyncBlock"
        /\ toMain' = toMain \/ toMain' = Append(toMain, [t |-> "Coverage"])
    BY <1>0, <1>5 DEF TryFetchBlock, loopVars
  <2>2. [t |-> "Coverage"] \in MainMsg /\ [t |-> "Coverage"].t \notin Codes
    BY Zenon DEF MainMsg, Codes
  <2>3. Moves
    BY <1>0, <2>1, <2>2, Zenon DEF Moves, Grows, Hands
  <2>4. sending'.t # "TipSuccessor"
    BY <2>1 DEF NoSend
  <2> QED
    BY <1>0, <1>1, <2>1, <2>3, <2>4, IdleKeeps, Zenon
<1>6. CASE FastForward
  <2>1. Head(toSync).t = "FastForward" /\ Head(toSync) = toSync[1] /\ 1 \in DOMAIN toSync
    BY <1>0, <1>6, Taken DEF FastForward, Gets, Types, ChannelTypes
  <2>2. Head(toSync).b \in stored
    BY <2>1, Zenon DEF SInv, Handovers, Forwarding
  <2>3. /\ UNCHANGED <<loop, target, sending, task, toMain>>
        /\ tip' = tip \/ tip' = Head(toSync).b
    BY <1>6, Zenon DEF FastForward
  <2>4. \E b : Handed(b) /\ tip' = b
    BY <1>1, <2>2, <2>3, Zenon DEF Handed
  <2>5. sending'.t # "TipSuccessor"
    BY <1>0, <2>3, Zenon DEF NoSend
  <2> QED
    BY <1>0, <1>1, <2>3, <2>4, <2>5, IdleKeeps, Zenon DEF Moves, Grows
<1> QED
  BY <1>2, <1>3, <1>4, <1>5, <1>6, Zenon DEF LoopMessage

(* The sync loop's timers and results keep it.                                *)
LEMMA LoopStepKeeps ==
    ASSUME Types, SInv, LoopStep \/ Request
    PROVE  SInv'
<1>0. /\ UNCHANGED <<stored, handle, outbox>> /\ Handed(tip) /\ Handed(task.tip)
      /\ tip \in Block /\ Handed(Genesis) /\ Genesis \in stored
  BY Zenon DEF LoopStep, TaskResult, LoopSends, TickGone, TickStart, LoopReturns, Request, TickRequest,
         mainVars, SInv, Handovers, Handed, Types, MainTypes, LoopTypes
<1>1. CASE TaskResult
  <2>1. /\ loop = "run" /\ sending = NoSend /\ UNCHANGED <<target, sending, toSync, toMain>>
        /\ loop' \in {"run", "failing", "finishing"}
        /\ loop' = "finishing" => target = Height(task.tip)
        /\ tip' = tip \/ tip' = task.tip
        /\ task' = NoTask \/ \E c, files : task' = NewTask(task.tip, c, files)
    BY <1>1, Zenon DEF TaskResult, Idle
  <2>2. PICK b \in Block : b = task.tip /\ Handed(b)
    <3>1. task.tip \in Block
      BY Zenon DEF Types, LoopTypes, Shaped
    <3> QED
      BY <1>0, <3>1, Zenon
  <2>3. task'.tip = Genesis \/ task'.tip = b
    BY <2>1, <2>2, NewTaskShape, NoTaskShape
  <2>4. Moves /\ Fed(toSync, toSync')
    BY <1>0, <2>1, Zenon DEF Moves, Grows, Fed
  <2>5. (loop = "finishing" => \E c \in Block : Handed(c) /\ Height(c) = target)'
    BY <1>0, <2>1, <2>2, Zenon DEF Handed, Queued
  <2>6. sending' = NoSend /\ sending'.t # "TipSuccessor"
    BY <2>1, Zenon DEF NoSend
  <2>7. (\E c : Handed(c) /\ tip' = c) /\ (\E c : Handed(c) /\ task'.tip = c)
    BY <1>0, <2>1, <2>2, <2>3, Zenon
  <2> QED
    BY <1>0, <2>1, <2>4, <2>5, <2>6, <2>7, IdleKeeps, Zenon
<1>2. CASE LoopSends
  <2>1. PICK m : m = sending
    BY Zenon
  <2>2. /\ loop = "run" /\ m \in MainMsg /\ m.t \notin Codes /\ sending' = NoSend
        /\ UNCHANGED <<task, toSync, target>> /\ sending'.t # "TipSuccessor"
        /\ m.t = "TipSuccessor" => m.b \in Block /\ target = Height(m.b)
    BY <1>2, <2>1, Zenon DEF LoopSends, Types, LoopTypes, MainMsg, Codes, NoSend, SInv, Handovers
  <2>3. CASE loop' = "failing" /\ UNCHANGED <<toMain, tip>>
    BY <1>0, <2>2, <2>3, IdleKeeps, Zenon DEF Moves, Grows, Fed
  <2>4. CASE /\ toMain' = Append(toMain, m)
             /\ tip' = IF m.t = "TipSuccessor" THEN m.b ELSE tip
             /\ loop' = IF m.t = "TipSuccessor" /\ toSync = <<>> THEN "finishing" ELSE "run"
    <3>1. Hands(m) /\ Moves
      BY <1>0, <2>2, <2>4, Zenon DEF Hands, Moves
    <3>2. m.t = "TipSuccessor" => Handed(m.b)'
      <4>1. Len(toMain) + 1 \in DOMAIN toMain' /\ toMain'[Len(toMain) + 1] = m
        BY <2>2, <2>4, Sent DEF Types, ChannelTypes
      <4> QED
        BY <4>1, Zenon DEF Handed, Queued
    <3>3. Handed(tip)' /\ Handed(task.tip)'
      <4>1. PICK c, d : c = tip /\ d = task.tip /\ Handed(c) /\ Handed(d)
        BY <1>0, Zenon
      <4>2. Handed(c)' /\ Handed(d)'
        BY <2>2, <3>1, <4>1, HandedKept, Zenon
      <4> QED
        BY <2>2, <2>4, <3>2, <4>1, <4>2, Zenon DEF Handed
    <3>4. (loop = "finishing" => \E b \in Block : Handed(b) /\ Height(b) = target)'
      BY <2>2, <2>4, <3>2, Zenon
    <3>5. Forwarding(toSync)' /\ Forwarding(outbox)'
      BY <1>0, <2>2, Zenon DEF SInv, Handovers, Forwarding
    <3>6. LoopIsOwned'
      <4>1. \A n \in DOMAIN toMain' : toMain'[n].t \notin Codes
        BY <2>2, <3>1, CodesKept, Zenon DEF SInv
      <4> QED
        BY <1>0, <2>2, <4>1, Zenon DEF SInv, LoopIsOwned, Codes
    <3>7. FinishedMeansStored'
      BY <3>1, FinishedKept, Zenon DEF SInv
    <3> QED
      BY <2>2, <3>3, <3>4, <3>5, <3>6, <3>7, Zenon DEF SInv, Handovers
  <2> QED
    BY <1>2, <2>1, <2>3, <2>4, Zenon DEF LoopSends
<1>3. CASE TickGone
  <2>1. /\ loop = "run" /\ sending = NoSend /\ loop' = "failing"
        /\ UNCHANGED <<target, sending, toSync, toMain, tip, task>>
    BY <1>3, Zenon DEF TickGone, Idle
  <2>2. sending'.t # "TipSuccessor" /\ sending' = NoSend
    BY <2>1, Zenon DEF NoSend
  <2> QED
    BY <1>0, <2>1, <2>2, IdleKeeps, Zenon DEF Moves, Grows, Fed
<1>4. CASE TickStart
  <2>1. /\ loop = "run" /\ sending = NoSend /\ task' = NewTask(tip, cov, index)
        /\ UNCHANGED <<loop, target, sending, toSync, toMain, tip>>
    BY <1>4, Zenon DEF TickStart, Idle, loopVars
  <2>2. sending'.t # "TipSuccessor" /\ sending' = NoSend /\ task'.tip = tip
    BY <1>0, <2>1, NewTaskShape, Zenon DEF NoSend
  <2> QED
    BY <1>0, <2>1, <2>2, IdleKeeps, Zenon DEF Moves, Grows, Fed
<1>5. CASE Request
  <2>1. PICK p \in Peer, h \in Heights : TickRequest(p, h)
    BY <1>5, Zenon DEF Request
  <2>2. PICK m \in MainMsg : m.t = "RequestBlocks" /\ toMain' = Append(toMain, m)
    <3>1. h \in Nat
      BY TreeFacts, Zenon DEF Heights
    <3>2. [t |-> "RequestBlocks", p |-> p, h |-> h] \in MainMsg
      BY <3>1, Zenon DEF MainMsg
    <3> QED
      BY <2>1, <3>2, Zenon DEF TickRequest
  <2>3. UNCHANGED <<loop, tip, target, sending, task, toSync>>
    BY <2>1, Zenon DEF TickRequest, loopVars
  <2>4. Moves
    BY <1>0, <2>2, Zenon DEF Moves, Hands, Codes
  <2> QED
    BY <1>0, <2>3, <2>4, QuietKeeps, Zenon DEF Fed
<1>6. CASE LoopReturns
  <2>1. /\ loop \in {"finishing", "failing"} /\ loop' = "over" /\ tip' = Genesis /\ toSync' = <<>>
        /\ UNCHANGED <<sending, task>>
        /\ \/ UNCHANGED toMain
           \/ loop = "finishing" /\ toMain' = Append(toMain, [t |-> "Finished", h |-> target])
           \/ toMain' = Append(toMain, [t |-> "Error"])
    BY <1>6, Zenon DEF LoopReturns, Forget
  <2>2. sending' = NoSend /\ sending'.t # "TipSuccessor"
    BY <2>1 DEF SInv, LoopIsOwned, NoSend
  <2>3. UNCHANGED toMain
        \/ \E m \in MainMsg :
             /\ Hands(m)
             /\ m.t = "Finished" => \E b \in Block : Handed(b) /\ Height(b) = m.h
    <3>1. [t |-> "Finished", h |-> target] \in MainMsg /\ [t |-> "Error"] \in MainMsg
      BY Zenon DEF MainMsg, Types, LoopTypes
    <3>2. CASE loop = "finishing" /\ toMain' = Append(toMain, [t |-> "Finished", h |-> target])
      <4>1. \E b \in Block : Handed(b) /\ Height(b) = target
        BY <3>2, Zenon DEF SInv, Handovers
      <4> QED
        BY <1>0, <3>1, <3>2, <4>1, Zenon DEF Hands
    <3>3. CASE toMain' = Append(toMain, [t |-> "Error"])
      BY <1>0, <3>1, <3>3, Zenon DEF Hands
    <3> QED
      BY <2>1, <3>2, <3>3, Zenon
  <2>4. FinishedMeansStored'
    <3>1. CASE UNCHANGED toMain
      BY <1>0, <3>1 DEF SInv, FinishedMeansStored, Queued
    <3> QED
      BY <2>3, <3>1, SentFinished, Zenon DEF SInv
  <2>5. Handed(tip)' /\ Handed(task.tip)'
    BY <1>0, <2>1, <2>3, TipsKept, Zenon DEF Grows
  <2>6. Forwarding(toSync)' /\ Forwarding(outbox)'
    BY <1>0, <2>1 DEF SInv, Handovers, Forwarding
  <2>7. LoopIsOwned'
    BY <1>0, <2>1, <2>2, Zenon DEF SInv, LoopIsOwned
  <2> QED
    BY <2>1, <2>2, <2>4, <2>5, <2>6, <2>7, Zenon DEF SInv, Handovers
<1> QED
  BY <1>1, <1>2, <1>3, <1>4, <1>5, <1>6, Zenon DEF LoopStep

(* The sync loop tells the main loop that it is finished only after a      *)
(* block of the target height is stored or queued before the message,      *)
(* through every race of the subtask, the peers' blocks and the retries.   *)
THEOREM FinishingIsHonest == Spec => []FinishedMeansStored
<1> DEFINE Inv == Types /\ SInv
<1>1. Init => Inv
  <2> SUFFICES ASSUME Init PROVE SInv
    BY TypesInit, Zenon
  <2>1. /\ loop = "off" /\ sending = NoSend /\ toMain = <<>> /\ toSync = <<>> /\ outbox = <<>>
        /\ tip = Genesis /\ task = NoTask
    BY Zenon DEF Init
  <2>2. Genesis \in stored /\ NoTask.tip = Genesis
    BY TypesInit, NoTaskShape, Zenon DEF Types, MainTypes
  <2>3. LoopIsOwned /\ FinishedMeansStored
    BY <2>1 DEF LoopIsOwned, FinishedMeansStored, Queued
  <2>4. Handovers
    BY <2>1, <2>2 DEF Handovers, Handed, Forwarding, NoSend
  <2> QED
    BY <2>3, <2>4, Zenon DEF SInv
<1>2. Inv /\ [Next]_vars => Inv'
  <2> SUFFICES ASSUME Types, SInv, [Next]_vars PROVE SInv'
    BY TypesStep, Zenon
  <2>1. CASE PeerStep \/ CleanUp \/ TaskDeletes \/ TaskReturns \/ UNCHANGED vars
    BY <2>1, OthersKeep, Zenon
  <2>2. CASE \/ NewBlocks \/ NewPeer \/ DroppedPeer \/ NewSyncTarget
             \/ NewSyncBlock \/ PeerWantsSyncBlock
    BY <2>2, MainHearsPeersKeeps, Zenon
  <2>3. CASE AddPeerMaxBlockHeight
    BY <2>3, StartKeeps, Zenon
  <2>4. CASE MainSends \/ TipSuccessor \/ RequestBlocks \/ Relay
    BY <2>4, MainHearsSyncKeeps, Zenon
  <2>5. CASE DropHandle \/ Restart
    BY <2>5, DropKeeps, Zenon
  <2>6. CASE TaskSends
    BY <2>6, TaskSendsKeeps, Zenon
  <2>7. CASE LoopMessage
    BY <2>7, LoopMessageKeeps, Zenon
  <2>8. CASE LoopStep \/ Request
    BY <2>8, LoopStepKeeps, Zenon
  <2> QED
    BY <2>1, <2>2, <2>3, <2>4, <2>5, <2>6, <2>7, <2>8, Zenon DEF Next, MainStep, TaskStep
<1>3. Inv => FinishedMeansStored
  BY Zenon DEF SInv
<1> HIDE DEF Inv
<1> QED
  BY <1>1, <1>2, <1>3, PTL DEF Spec
=============================================================================
