------------------------------- MODULE Gossip -------------------------------
(* Two nodes that run the same peer loop and tell each other about blocks:  *)
(* notifications, requests by height and by hash, shallow fork              *)
(* reconciliation (try_ensure_path), and the sync challenge that precedes   *)
(* sync mode.  Either node also gets blocks from elsewhere, so its tip may  *)
(* move, or its chain be reorganised, between any two messages.  Both nodes *)
(* are honest and the connection keeps messages in order.  Of the sanctions *)
(* only those that a refused request or response earns are recorded.       *)
EXTENDS Forks, Sequences, FiniteSets

CONSTANTS Node,
          Threshold,   \* cli sync_mode_threshold
          WitnessLen,  \* SYNC_CHALLENGE_POW_WITNESS_LENGTH
          MaxMoves     \* bound on what happens outside this connection

\* Two nodes; the range of cli_args.rs:202 keeps the threshold at or above the
\* witness length.
ASSUME GossipAssumption ==
    /\ \E a, b \in Node : a # b /\ Node = {a, b}
    /\ Threshold \in Nat /\ WitnessLen \in Nat /\ MaxMoves \in Nat
    /\ WitnessLen <= Threshold

VARIABLES gtip,     \* tip of each node
          archive,  \* blocks each node has stored
          list,     \* MutablePeerState::fork_reconciliation_blocks
          shared,   \* MutablePeerState::highest_shared_block_height
          issued,   \* MutablePeerState::sync_challenge: the claimed tip
          passed,   \* nodes whose cooldown since a passed challenge may still run
          anchor,   \* champion of net.sync_anchor
          toMain,   \* PeerTaskToMain: <<"blocks", path>> or <<"height", block>>
          toPeer,   \* MainToPeerTask::Block still to be handled
          wire,     \* messages on their way to each node
          up,       \* the connection is open
          blamed,   \* sanctions each node has earned from the other
          reorged,  \* nodes whose tip once left its own chain
          synced,   \* nodes that were once in sync mode
          moves     \* events outside this connection so far

gvars == <<gtip, archive, list, shared, issued, passed, anchor, toMain, toPeer, wire,
           up, blamed, reorged, synced, moves>>

Other(n) == CHOOSE o \in Node : o # n

\* The leaf of the archival block MMR at a height.
Canonical(n, h) ==
    IF \E b \in Ancestors[gtip[n]] : Height[b] = h
    THEN CHOOSE b \in Ancestors[gtip[n]] : Height[b] = h
    ELSE NoBlock

\* sync_mode_threshold_stateless.
SyncCriterion(n, b) == Pow[gtip[n]] < Pow[b] /\ Height[b] > Height[gtip[n]] + Threshold

\* A fresh connection: the handshake told each node the other's tip, and the
\* one behind asks for a notification.
GInit ==
    /\ gtip \in [Node -> Tree]
    /\ archive = [n \in Node |-> Ancestors[gtip[n]]]
    /\ list = [n \in Node |-> <<>>]
    /\ shared = [n \in Node |-> Height[gtip[Other(n)]]]
    /\ issued = [n \in Node |-> NoBlock]
    /\ passed = {}
    /\ anchor = [n \in Node |-> NoBlock]
    /\ toMain = [n \in Node |-> <<>>]
    /\ toPeer = [n \in Node |-> NoBlock]
    /\ wire = [n \in Node |-> IF Pow[gtip[n]] > Pow[gtip[Other(n)]] THEN <<[type |-> "ask"]>> ELSE <<>>]
    /\ up = TRUE
    /\ blamed = [n \in Node |-> {}]
    /\ reorged = {} /\ synced = {} /\ moves = 0

\* The handler of n took its message and answers with msgs.
Answer(n, msgs) ==
    wire' = [wire EXCEPT ![n] = Tail(@), ![Other(n)] = @ \o msgs]

Blame(n, why) == blamed' = [blamed EXCEPT ![Other(n)] = @ \cup {why}]

Adopt(n, blocks, last) ==
    /\ gtip' = [gtip EXCEPT ![n] = last]
    /\ archive' = [archive EXCEPT ![n] = @ \cup blocks]
    /\ reorged' = IF gtip[n] \in Ancestors[last] THEN reorged ELSE reorged \cup {n}

Nodes == <<gtip, archive, reorged>>

\* The blocks of a path, and the path in the other direction.
Blocks(path) == {path[i] : i \in DOMAIN path}
Reversed(path) == [i \in DOMAIN path |-> path[Len(path) + 1 - i]]

----------------------------------------------------------------------------
(* Handlers of handle_peer_message.                                        *)

\* BlockNotificationRequest.
Asked(n, m) ==
    /\ m.type = "ask"
    /\ Answer(n, <<[type |-> "notify", block |-> gtip[n]]>>)
    /\ UNCHANGED <<Nodes, list, shared, issued, passed, anchor, toMain, toPeer, up, blamed>>

\* BlockNotification while syncing: only the champion's successor matters.
NotifiedInSync(n, m) ==
    /\ anchor[n] # NoBlock
    /\ Answer(n, IF Height[m.block] = Height[anchor[n]] + 1
                 THEN <<[type |-> "byheight", height |-> Height[m.block]]>> ELSE <<>>)
    /\ UNCHANGED <<issued, shared>>

\* SyncChallenge::generate: heights below the claimed tip, not genesis nor the
\* block on it.  One stands for the ten that are sampled.
Challenges(b) == 2 .. (Height[b] - 1)

NotifiedFarAheadAgain(n, m) ==
    /\ anchor[n] = NoBlock /\ SyncCriterion(n, m.block)
    /\ \E h \in Challenges(m.block) :
          /\ issued' = [issued EXCEPT ![n] = m.block]
          /\ Answer(n, <<[type |-> "challenge", block |-> m.block, height |-> h]>>)
    /\ UNCHANGED shared

\* A tip far ahead: challenge it, unless one is under way.
NotifiedFarAhead(n, m) ==
    /\ anchor[n] = NoBlock /\ SyncCriterion(n, m.block)
    /\ IF issued[n] # NoBlock
       THEN Answer(n, <<>>) /\ UNCHANGED issued
       ELSE \E h \in Challenges(m.block) :
              /\ issued' = [issued EXCEPT ![n] = m.block]
              /\ Answer(n, <<[type |-> "challenge", block |-> m.block, height |-> h]>>)
    /\ UNCHANGED shared

\* Within ten minutes of a passed challenge there is no other, and no request.
NotifiedInCooldown(n, m) ==
    /\ anchor[n] = NoBlock /\ SyncCriterion(n, m.block) /\ n \in passed
    /\ shared' = [shared EXCEPT ![n] = Height[m.block]]
    /\ Answer(n, <<>>)
    /\ UNCHANGED issued

\* Otherwise a heavier block is requested, if no reconciliation is under way.
NotifiedNear(n, m) ==
    /\ anchor[n] = NoBlock
    /\ ~SyncCriterion(n, m.block)
    /\ shared' = [shared EXCEPT ![n] = Height[m.block]]
    /\ Answer(n, IF Pow[gtip[n]] < Pow[m.block] /\ list[n] = <<>>
                 THEN <<[type |-> "byheight", height |-> Height[m.block]]>> ELSE <<>>)
    /\ UNCHANGED issued

Notified(n, m) ==
    /\ m.type = "notify"
    /\ \/ NotifiedInSync(n, m)
       \/ NotifiedFarAhead(n, m) \/ NotifiedInCooldown(n, m)
       \/ NotifiedNear(n, m)
    /\ UNCHANGED <<Nodes, list, passed, anchor, toMain, toPeer, up, blamed>>

\* SyncChallenge, response_to_sync_challenge: the challenged height is read
\* from the chain of now.  Without a leaf there the challenge is refused; with
\* fewer leafs than the claimed tip's chain the assertion on the MMR's size
\* panics and the task closes the connection.
Challenged(n, m) ==
    /\ m.type = "challenge"
    /\ LET child == Canonical(n, m.height)
       IN  IF Height[m.block] < WitnessLen \/ child = NoBlock
           THEN Answer(n, <<>>) /\ Blame(n, "challenge") /\ UNCHANGED up
           ELSE IF Height[m.block] > Height[gtip[n]]
           THEN Answer(n, <<>>) /\ up' = FALSE /\ UNCHANGED blamed
           ELSE /\ Answer(n, <<[type |-> "response", block |-> m.block, child |-> child]>>)
                /\ UNCHANGED <<up, blamed>>
    /\ UNCHANGED <<Nodes, list, shared, issued, passed, anchor, toMain, toPeer>>

ResponseFailsIssuedKept(n, why) == Blame(n, why) /\ UNCHANGED <<issued, passed, toMain>>

\* The challenge is reset regardless of the response's success.
ResponseFails(n, why) ==
    /\ Blame(n, why)
    /\ issued' = [issued EXCEPT ![n] = NoBlock]
    /\ UNCHANGED <<passed, toMain>>

\* The response is for the tip of the challenge, and the challenged block is a
\* leaf of the block MMR of that tip.
Matches(n, m) == m.block = issued[n] /\ m.child \in Ancestors[m.block]

\* SyncChallengeResponse: it matches, its membership proofs verify, and it is
\* in time; then the main loop is told.
Responded(n, m) ==
    /\ m.type = "response"
    /\ Answer(n, <<>>)
    /\ \/ issued[n] = NoBlock /\ Blame(n, "unprompted") /\ UNCHANGED <<issued, passed, toMain>>
       \/ /\ issued[n] # NoBlock
          /\ ~Matches(n, m)
          /\ ResponseFails(n, "response")
       \/ issued[n] # NoBlock /\ anchor[n] = NoBlock /\ ResponseFails(n, "late")
       \/ /\ Matches(n, m)
          /\ issued' = [issued EXCEPT ![n] = NoBlock]
          /\ IF anchor[n] # NoBlock
             THEN UNCHANGED <<passed, toMain>>
             ELSE /\ passed' = passed \cup {n}
                  /\ toMain' = [toMain EXCEPT ![n] = Append(@, <<"height", m.block>>)]
          /\ UNCHANGED blamed
    /\ UNCHANGED <<Nodes, list, shared, anchor, toPeer, up>>

\* BlockRequestByHash: any stored block but genesis.
RequestedByHash(n, m) ==
    /\ m.type = "byhash"
    /\ IF m.block \in archive[n] \ {Genesis}
       THEN Answer(n, <<[type |-> "block", block |-> m.block]>>) /\ UNCHANGED blamed
       ELSE /\ Answer(n, <<>>)
            /\ IF anchor[n] = NoBlock THEN Blame(n, "hash") ELSE UNCHANGED blamed
    /\ UNCHANGED <<Nodes, list, shared, issued, passed, anchor, toMain, toPeer, up>>

\* BlockRequestByHeight: the canonical block of now (while syncing, unknown
\* heights are left to the sync loop).
RequestedByHeight(n, m) ==
    /\ m.type = "byheight"
    /\ LET b == Canonical(n, m.height)
       IN  IF b # NoBlock
           THEN Answer(n, <<[type |-> "block", block |-> b]>>) /\ UNCHANGED blamed
           ELSE /\ Answer(n, <<>>)
                /\ IF anchor[n] = NoBlock THEN Blame(n, "height") ELSE UNCHANGED blamed
    /\ UNCHANGED <<Nodes, list, shared, issued, passed, anchor, toMain, toPeer, up>>

\* Block while syncing: the champion's successor becomes champion, the rest is
\* the sync loop's.
BlockInSync(n, m) ==
    /\ anchor[n] # NoBlock
    /\ anchor' = IF Parent[m.block] = anchor[n] THEN [anchor EXCEPT ![n] = m.block] ELSE anchor
    /\ Answer(n, <<>>)
    /\ UNCHANGED <<list, shared, toMain, blamed>>

\* try_ensure_path gives up: the block is not the parent of the last one on
\* the list, or the list is full.
PathBroken(n, b) ==
    \/ list[n] # <<>> /\ Parent[list[n][Len(list[n])]] # b
    \/ Len(list[n]) + 1 >= Threshold

PathAbandonedListKept(n) == UNCHANGED list

PathAbandoned(n) == list' = [list EXCEPT ![n] = <<>>]

\* handle_blocks: blocks that lose the fork choice go no further; others go to
\* the main loop, and a higher block that was notified meanwhile is requested.
HandleBlocks(n, path) ==
    LET last == path[Len(path)]
    IN  IF MoreCanonical(gtip[n], last)
        THEN /\ toMain' = [toMain EXCEPT ![n] = Append(@, <<"blocks", path>>)]
             /\ shared' = [shared EXCEPT ![n] = Height[last]]
             /\ Answer(n, IF shared[n] > Height[last]
                          THEN <<[type |-> "byheight", height |-> shared[n]]>> ELSE <<>>)
        ELSE Answer(n, <<>>) /\ UNCHANGED <<toMain, shared>>

ParentKnown(n, b) == Parent[b] \in archive[n]

BlockArrived(n, m) ==
    /\ anchor[n] = NoBlock
    /\ LET grown == Append(list[n], m.block)
       IN  IF PathBroken(n, m.block)
           THEN /\ PathAbandoned(n)
                /\ Answer(n, <<>>) /\ Blame(n, "fork")
                /\ UNCHANGED <<shared, toMain>>
           ELSE IF ParentKnown(n, m.block)
           THEN /\ list' = [list EXCEPT ![n] = <<>>]
                /\ HandleBlocks(n, Reversed(grown))
                /\ UNCHANGED blamed
           ELSE /\ list' = [list EXCEPT ![n] = grown]
                /\ Answer(n, <<[type |-> "byhash", block |-> Parent[m.block]]>>)
                /\ UNCHANGED <<shared, toMain, blamed>>
    /\ UNCHANGED anchor

BlockReceived(n, m) ==
    /\ m.type = "block"
    /\ BlockInSync(n, m) \/ BlockArrived(n, m)
    /\ UNCHANGED <<Nodes, issued, passed, toPeer, up>>

Receive(n) ==
    /\ up
    /\ wire[n] # <<>>
    /\ LET m == Head(wire[n])
       IN  \/ Asked(n, m) \/ Notified(n, m)
           \/ Challenged(n, m) \/ Responded(n, m)
           \/ RequestedByHash(n, m) \/ RequestedByHeight(n, m)
           \/ BlockReceived(n, m)
    /\ UNCHANGED <<synced, moves>>

----------------------------------------------------------------------------
(* The main loop, and what it tells the peer task.                         *)

\* NewBlocks: canonicity is judged again before the blocks become tips.
MainAdopts(n) ==
    LET path == Head(toMain[n])[2]
        last == path[Len(path)]
    IN  /\ Head(toMain[n])[1] = "blocks"
        /\ IF MoreCanonical(gtip[n], last)
           THEN /\ Adopt(n, Blocks(path), last)
                /\ toPeer' = [toPeer EXCEPT ![n] = last]
           ELSE UNCHANGED <<Nodes, toPeer>>
        /\ UNCHANGED <<anchor, synced, wire>>

\* AddPeerMaxBlockHeight: the criterion again, against the tip of now.
EnterSync(n, b) ==
    IF anchor[n] = NoBlock /\ SyncCriterion(n, b)
    THEN /\ anchor' = [anchor EXCEPT ![n] = b]
         /\ synced' = synced \cup {n}
    ELSE UNCHANGED <<anchor, synced>>

\* The peer is then asked for its block at the height of the node's own tip.
MainEntersSync(n) ==
    /\ Head(toMain[n])[1] = "height"
    /\ EnterSync(n, Head(toMain[n])[2])
    /\ wire' = IF anchor' # anchor /\ gtip[n] # Genesis
               THEN [wire EXCEPT ![Other(n)] =
                        Append(@, [type |-> "byheight", height |-> Height[gtip[n]]])]
               ELSE wire
    /\ UNCHANGED <<Nodes, toPeer>>

MainTakes(n) ==
    /\ toMain[n] # <<>> /\ toPeer[n] = NoBlock
    /\ MainAdopts(n) \/ MainEntersSync(n)
    /\ toMain' = [toMain EXCEPT ![n] = Tail(@)]
    /\ UNCHANGED <<list, shared, issued, passed, up, blamed, moves>>

\* MainToPeerTask::Block: a block higher than any shared is notified.
TellPeer(n) ==
    /\ up /\ toPeer[n] # NoBlock
    /\ toPeer' = [toPeer EXCEPT ![n] = NoBlock]
    /\ IF Height[toPeer[n]] > shared[n]
       THEN /\ shared' = [shared EXCEPT ![n] = Height[toPeer[n]]]
            /\ wire' = [wire EXCEPT ![Other(n)] = Append(@, [type |-> "notify", block |-> toPeer[n]])]
       ELSE UNCHANGED <<shared, wire>>
    /\ UNCHANGED <<Nodes, list, issued, passed, anchor, synced, toMain, up, blamed, moves>>

Outside == moves < MaxMoves /\ moves' = moves + 1

\* AddPeerMaxBlockHeight from the task of a third peer.
SyncByThirdPeer(n, b) ==
    /\ up /\ Outside
    /\ SyncCriterion(n, b) /\ anchor[n] = NoBlock
    /\ EnterSync(n, b)
    /\ UNCHANGED <<Nodes, list, shared, issued, passed, toMain, toPeer, wire, up, blamed>>

\* A block from the node's own miner, or with its path from another peer.
FromElsewhere(n, b) ==
    /\ up /\ Outside
    /\ toPeer[n] = NoBlock
    /\ b \notin archive[n] /\ MoreCanonical(gtip[n], b)
    /\ Adopt(n, Ancestors[b], b)
    /\ toPeer' = [toPeer EXCEPT ![n] = b]
    /\ UNCHANGED <<list, shared, issued, passed, anchor, synced, toMain, wire, up, blamed>>

\* The sync loop is done (its successors of the tip were stored, and became
\* tips where preferred), or it failed and the peers are asked again.
SyncEnds(n) ==
    /\ up /\ anchor[n] # NoBlock /\ Outside
    /\ anchor' = [anchor EXCEPT ![n] = NoBlock]
    /\ \/ /\ IF MoreCanonical(gtip[n], anchor[n])
             THEN Adopt(n, Ancestors[anchor[n]], anchor[n])
             ELSE /\ archive' = [archive EXCEPT ![n] = @ \cup Ancestors[anchor[n]]]
                  /\ UNCHANGED <<gtip, reorged>>
          /\ UNCHANGED wire
       \/ /\ wire' = [wire EXCEPT ![Other(n)] = Append(@, [type |-> "ask"])]
          /\ UNCHANGED Nodes
    /\ UNCHANGED <<list, shared, issued, passed, synced, toMain, toPeer, up, blamed>>

GNext ==
    \E n \in Node :
        \/ Receive(n)
        \/ MainTakes(n) \/ TellPeer(n)
        \/ \E b \in Tree \ {Genesis} : FromElsewhere(n, b) \/ SyncByThirdPeer(n, b)
        \/ SyncEnds(n)

\* Peer loops and main loops are never starved.
GFair == \A n \in Node : WF_gvars(Receive(n)) /\ WF_gvars(MainTakes(n)) /\ WF_gvars(TellPeer(n))

GSpec == GInit /\ [][GNext]_gvars /\ GFair

----------------------------------------------------------------------------
(* Properties.                                                             *)

\* The reconciliation list leads from the newest block to older ones, parent
\* after parent, although notifications, requests by height and requests by
\* hash share one connection and the peer's chain moves.
ListIsChain ==
    \A n \in Node : \A i \in 1 .. (Len(list[n]) - 1) : Parent[list[n][i]] = list[n][i + 1]

\* An issued challenge is on its way, answered, or was refused by a peer that
\* has left its chain since: nothing else leaves it outstanding for good.
ChallengesAreSettled ==
    up => \A n \in Node : issued[n] # NoBlock =>
        \/ \E i \in DOMAIN wire[Other(n)] : wire[Other(n)][i].type = "challenge"
        \/ \E i \in DOMAIN wire[n] : wire[n][i].type = "response"
        \/ "challenge" \in blamed[n] /\ Other(n) \in reorged

\* What a peer loop keeps between messages is sound: the blocks collected for
\* a reconciliation are a chain, and every challenge issued is settled.
PeerStateIsSound == ListIsChain /\ ChallengesAreSettled

\* A peer whose chain only grew is never sanctioned for its response to a
\* challenge, nor the peer of such a node for a challenge or for a block it
\* asks for by hash.
GrowingPeersAreNotBlamed ==
    \A n \in Node :
        /\ n \notin reorged => "response" \notin blamed[n]
        /\ Other(n) \notin reorged => blamed[n] \cap {"challenge", "hash"} = {}
        /\ "unprompted" \notin blamed[n]

\* Sync mode starts only towards a tip that is still far ahead of the node's
\* own when the main loop gets to it.
SyncStartsBehind ==
    [][\A n \in Node : anchor[n] = NoBlock /\ anchor'[n] # NoBlock
         => Pow[anchor'[n]] > Pow[gtip[n]] /\ Height[anchor'[n]] > Height[gtip[n]] + Threshold]_gvars

\* A reconciliation comes to an end.
ReconciliationEnds ==
    \A n \in Node : list[n] # <<>> ~> (list[n] = <<>> \/ n \in synced \/ ~up)
=============================================================================
