------------------------ MODULE Transactions_proofs ------------------------
(* Proofs about three parts a transaction passes on its way into the chain:   *)
(* the upgrader, for every mempool and every size of the gobbler's cache; the *)
(* ledger, for every premine, every set of drafts and every subsidy schedule; *)
(* and the miner and the main loop, for every tree of blocks, every reward and *)
(* every capacity of the queues.  They share no state.                        *)
EXTENDS Upgrader, Ledger, Mining, TLAPS

-----------------------------------------------------------------------------
(* Mining.                                                                    *)

PeerMessage == {"NewBlocks", "BlockProposal"} \X Offered
RpcMessage == {"BlockProposal", "ProofOfWorkSolution"} \X Offered

\* A block under way to the main loop was accepted onto a block that the
\* node has: what waits in the queues may be stale, but it is connected.
QueuedAreConnected ==
    /\ \A i \in 1 .. Len(fromPeers) :
          fromPeers[i][1] = "NewBlocks" => Parent[fromPeers[i][2]] \in stored
    /\ \A i \in 1 .. Len(fromRpc) :
          fromRpc[i][1] = "ProofOfWorkSolution" => Parent[fromRpc[i][2]] \in stored

MinerInv ==
    /\ miner \in [reward : Nat, task : Offered \cup {NoBlock}, live : BOOLEAN,
                  buffer : Tree \cup {NoBlock}]
    /\ miner.live => miner.task \in Offered
    /\ BufferFitsTemplate

ComposerInv ==
    /\ composer \in [phase : {"idle", "start", "prove", "submit"},
                     tip : Tree \cup {NoBlock}, block : Offered \cup {NoBlock}]
    /\ composer.phase = "submit" => composer.block \in Offered

NodeInv ==
    /\ tip \in stored /\ stored \subseteq Tree
    /\ proposal \in Offered \cup {NoBlock}
    /\ StoredIsAncestorClosed

QueueInv ==
    /\ fromPeers \in Seq(PeerMessage)
    /\ fromRpc \in Seq(RpcMessage)
    /\ QueuedAreConnected

\* The inductive invariant.
MInv == NodeInv /\ QueueInv /\ ComposerInv /\ MinerInv

-----------------------------------------------------------------------------
(* What HandlePeerMessage and HandleRpcMessage leave in their queue was in  *)
(* it before, and the message they take is one of the queue's.              *)
LEMMA QueueGives ==
    ASSUME NEW S, NEW q \in Seq(S), q # <<>>
    PROVE  /\ Tail(q) \in Seq(S) /\ Tail(q) # q
           /\ Head(q) \in S /\ 1 \in 1 .. Len(q) /\ Head(q) = q[1]
           /\ \A i \in 1 .. Len(Tail(q)) : i + 1 \in 1 .. Len(q) /\ Tail(q)[i] = q[i + 1]
<1>1. Len(q) \in Nat /\ Len(q) # 0
  OBVIOUS
<1>2. Tail(q) \in Seq(S) /\ Len(Tail(q)) = Len(q) - 1
  BY <1>1
<1>3. Head(q) \in S /\ Head(q) = q[1]
  BY <1>1
<1>4. \A i \in 1 .. Len(Tail(q)) : i + 1 \in 1 .. Len(q) /\ Tail(q)[i] = q[i + 1]
  BY <1>1, <1>2
<1>5. Tail(q) # q
  <2> SUFFICES ASSUME Tail(q) = q PROVE FALSE
    BY Zenon
  <2>1. Len(Tail(q)) = Len(q)
    BY Zenon
  <2> QED
    BY <2>1, <1>1, <1>2
<1>6. 1 \in 1 .. Len(q)
  BY <1>1
<1> QED
  BY <1>2, <1>3, <1>4, <1>5, <1>6, Zenon

(* A tip that gives way gives way to the block that the fork choice rule    *)
(* returns (incoming_block_is_more_canonical).                              *)
LEMMA MoreCanonicalIsChosen ==
    ASSUME NEW current, NEW incoming, MoreCanonical(current, incoming)
    PROVE  ForkChoice(current, incoming) = incoming
BY Zenon DEF MoreCanonical, ForkChoice

(* The parent of a block that can be proposed is a block.                   *)
LEMMA OfferedHaveParents ==
    ASSUME NEW b \in Offered
    PROVE  b \in Tree /\ b # Genesis /\ b # NoBlock /\ Parent[b] \in Tree
BY MiningAssumption, Zenon

-----------------------------------------------------------------------------
(* The invariant holds when the node, the composer and the miner start.       *)
LEMMA MInvInit == WInit => MInv
<1> SUFFICES ASSUME WInit PROVE MInv
  BY Zenon
<1>1. NodeInv
  BY MiningAssumption, Zenon DEF WInit, NodeInv, StoredIsAncestorClosed
<1>2. QueueInv
  BY DEF WInit, QueueInv, QueuedAreConnected
<1>3. ComposerInv
  BY Zenon DEF WInit, ComposerInv, Idle
<1>4. MinerInv
  BY Zenon DEF WInit, MinerInv, BufferFitsTemplate
<1> QED
  BY <1>1, <1>2, <1>3, <1>4, Zenon DEF MInv

(* set_new_tip onto a connected block keeps what the node knows closed.     *)
LEMMA SetNewTipKeeps ==
    ASSUME NodeInv, NEW b \in Tree, b # Genesis => Parent[b] \in stored, SetNewTip(b)
    PROVE  NodeInv' /\ stored \subseteq stored'
BY MiningAssumption, Zenon DEF NodeInv, StoredIsAncestorClosed, SetNewTip

(* A block that is judged again under the lock leaves the stored blocks       *)
(* closed under parents.                                                      *)
LEMMA CanonicalKeeps ==
    ASSUME NodeInv, NEW b \in Offered, Parent[b] \in stored, NewTipIfCanonical(b)
    PROVE  NodeInv' /\ stored \subseteq stored'
<1>1. CASE MoreCanonical(tip, b)
  BY <1>1, SetNewTipKeeps, OfferedHaveParents, Zenon DEF NewTipIfCanonical
<1>2. CASE ~MoreCanonical(tip, b)
  BY <1>2 DEF NewTipIfCanonical, NodeInv, StoredIsAncestorClosed
<1> QED
  BY <1>1, <1>2, Zenon

(* A message enters the peers' queue.                                       *)
LEMMA PeerQueueTakes ==
    ASSUME QueueInv, NEW kind \in {"NewBlocks", "BlockProposal"}, NEW b \in Offered,
           kind = "NewBlocks" => Parent[b] \in stored,
           fromPeers' = Append(fromPeers, <<kind, b>>), UNCHANGED <<stored, fromRpc>>
    PROVE  QueueInv'
<1> DEFINE m == <<kind, b>>
<1>1. m \in PeerMessage /\ fromPeers' = Append(fromPeers, m) /\ fromPeers \in Seq(PeerMessage)
  BY Zenon DEF PeerMessage, QueueInv
<1> HIDE DEF m
<1>2. fromPeers' \in Seq(PeerMessage) /\ Len(fromPeers') = Len(fromPeers) + 1
      /\ fromPeers'[Len(fromPeers) + 1] = m
  BY <1>1
<1>3. ASSUME NEW i \in 1 .. Len(fromPeers'), i # Len(fromPeers) + 1
      PROVE  i \in 1 .. Len(fromPeers) /\ fromPeers'[i] = fromPeers[i]
  BY <1>1, <1>2, <1>3
<1>4. \A i \in 1 .. Len(fromPeers') :
          fromPeers'[i][1] = "NewBlocks" => Parent[fromPeers'[i][2]] \in stored
  BY <1>2, <1>3 DEF m, QueueInv, QueuedAreConnected
<1> QED
  BY <1>2, <1>4, Zenon DEF QueueInv, QueuedAreConnected

(* A message enters the queue of the RPC service.                           *)
LEMMA RpcQueueTakes ==
    ASSUME QueueInv, NEW kind \in {"BlockProposal", "ProofOfWorkSolution"}, NEW b \in Offered,
           kind = "ProofOfWorkSolution" => Parent[b] \in stored,
           fromRpc' = Append(fromRpc, <<kind, b>>), UNCHANGED <<stored, fromPeers>>
    PROVE  QueueInv'
<1> DEFINE m == <<kind, b>>
<1>1. m \in RpcMessage /\ fromRpc' = Append(fromRpc, m) /\ fromRpc \in Seq(RpcMessage)
  BY Zenon DEF RpcMessage, QueueInv
<1> HIDE DEF m
<1>2. fromRpc' \in Seq(RpcMessage) /\ Len(fromRpc') = Len(fromRpc) + 1
      /\ fromRpc'[Len(fromRpc) + 1] = m
  BY <1>1
<1>3. ASSUME NEW i \in 1 .. Len(fromRpc'), i # Len(fromRpc) + 1
      PROVE  i \in 1 .. Len(fromRpc) /\ fromRpc'[i] = fromRpc[i]
  BY <1>1, <1>2, <1>3
<1>4. \A i \in 1 .. Len(fromRpc') :
          fromRpc'[i][1] = "ProofOfWorkSolution" => Parent[fromRpc'[i][2]] \in stored
  BY <1>2, <1>3 DEF m, QueueInv, QueuedAreConnected
<1> QED
  BY <1>2, <1>4, Zenon DEF QueueInv, QueuedAreConnected

(* The main loop handles a message of a peer task: the block in it was      *)
(* connected when it was sent, and the node forgets no block.               *)
LEMMA PeerMessageHandled ==
    ASSUME MInv, HandlePeerMessage
    PROVE  NodeInv' /\ QueueInv'
<1> DEFINE b == Head(fromPeers)[2]
<1>1. fromPeers \in Seq(PeerMessage) /\ fromPeers # <<>> /\ fromPeers' = Tail(fromPeers)
      /\ fromRpc' = fromRpc
  BY Zenon DEF MInv, QueueInv, HandlePeerMessage
<1>2. /\ Tail(fromPeers) \in Seq(PeerMessage)
      /\ Head(fromPeers) \in PeerMessage /\ 1 \in 1 .. Len(fromPeers)
      /\ Head(fromPeers) = fromPeers[1]
      /\ \A i \in 1 .. Len(Tail(fromPeers)) :
            i + 1 \in 1 .. Len(fromPeers) /\ Tail(fromPeers)[i] = fromPeers[i + 1]
  BY <1>1, QueueGives, Zenon
<1>3. b \in Offered
  BY <1>2, Zenon DEF PeerMessage
<1>4. NodeInv' /\ stored \subseteq stored'
  <2>1. CASE Head(fromPeers)[1] = "NewBlocks" /\ NewTipIfCanonical(b)
    <3>1. Parent[b] \in stored
      BY <2>1, <1>2, Zenon DEF MInv, QueueInv, QueuedAreConnected
    <3> QED
      BY <2>1, <3>1, <1>3, CanonicalKeeps, Zenon DEF MInv
  <2>2. CASE HandlePeerProposal(b) /\ UNCHANGED <<tip, stored>>
    BY <2>2, <1>3, Zenon DEF MInv, NodeInv, StoredIsAncestorClosed, HandlePeerProposal
  <2> QED
    BY <2>1, <2>2, Zenon DEF HandlePeerMessage
<1>5. \A i \in 1 .. Len(fromPeers') :
          fromPeers'[i][1] = "NewBlocks" => Parent[fromPeers'[i][2]] \in stored'
  BY <1>1, <1>2, <1>4 DEF MInv, QueueInv, QueuedAreConnected
<1>6. \A i \in 1 .. Len(fromRpc') :
          fromRpc'[i][1] = "ProofOfWorkSolution" => Parent[fromRpc'[i][2]] \in stored'
  BY <1>1, <1>4, Zenon DEF MInv, QueueInv, QueuedAreConnected
<1> QED
  BY <1>1, <1>2, <1>4, <1>5, <1>6, Zenon DEF MInv, QueueInv, QueuedAreConnected

(* The same for a message of the RPC service.                               *)
LEMMA RpcMessageHandled ==
    ASSUME MInv, HandleRpcMessage
    PROVE  NodeInv' /\ QueueInv'
<1> DEFINE b == Head(fromRpc)[2]
<1>1. fromRpc \in Seq(RpcMessage) /\ fromRpc # <<>> /\ fromRpc' = Tail(fromRpc)
      /\ fromPeers' = fromPeers
  BY Zenon DEF MInv, QueueInv, HandleRpcMessage
<1>2. /\ Tail(fromRpc) \in Seq(RpcMessage)
      /\ Head(fromRpc) \in RpcMessage /\ 1 \in 1 .. Len(fromRpc)
      /\ Head(fromRpc) = fromRpc[1]
      /\ \A i \in 1 .. Len(Tail(fromRpc)) :
            i + 1 \in 1 .. Len(fromRpc) /\ Tail(fromRpc)[i] = fromRpc[i + 1]
  BY <1>1, QueueGives, Zenon
<1>3. b \in Offered
  BY <1>2, Zenon DEF RpcMessage
<1>4. NodeInv' /\ stored \subseteq stored'
  <2>1. CASE Head(fromRpc)[1] = "ProofOfWorkSolution" /\ NewTipIfCanonical(b)
    <3>1. Parent[b] \in stored
      BY <2>1, <1>2, Zenon DEF MInv, QueueInv, QueuedAreConnected
    <3> QED
      BY <2>1, <3>1, <1>3, CanonicalKeeps, Zenon DEF MInv
  <2>2. CASE HandleRpcProposal(b) /\ UNCHANGED <<tip, stored>>
    BY <2>2, <1>3, Zenon DEF MInv, NodeInv, StoredIsAncestorClosed, HandleRpcProposal
  <2> QED
    BY <2>1, <2>2, Zenon DEF HandleRpcMessage
<1>5. \A i \in 1 .. Len(fromRpc') :
          fromRpc'[i][1] = "ProofOfWorkSolution" => Parent[fromRpc'[i][2]] \in stored'
  BY <1>1, <1>2, <1>4 DEF MInv, QueueInv, QueuedAreConnected
<1>6. \A i \in 1 .. Len(fromPeers') :
          fromPeers'[i][1] = "NewBlocks" => Parent[fromPeers'[i][2]] \in stored'
  BY <1>1, <1>4, Zenon DEF MInv, QueueInv, QueuedAreConnected
<1> QED
  BY <1>1, <1>2, <1>4, <1>5, <1>6, Zenon DEF MInv, QueueInv, QueuedAreConnected

-----------------------------------------------------------------------------
(* Every step of the node and of its clients keeps the invariant.           *)
LEMMA MInvStep == MInv /\ [WNext]_wvars => MInv'
<1> SUFFICES ASSUME MInv, [WNext]_wvars PROVE MInv'
  BY Zenon
<1>1. ASSUME NEW b \in Offered, PeerBlock(b) PROVE MInv'
  <2>1. QueueInv'
    BY <1>1, PeerQueueTakes, Zenon DEF MInv, PeerBlock
  <2>2. NodeInv' /\ ComposerInv' /\ MinerInv'
    BY <1>1, Zenon DEF PeerBlock, MInv, NodeInv, StoredIsAncestorClosed, ComposerInv, MinerInv,
                BufferFitsTemplate
  <2> QED
    BY <2>1, <2>2, Zenon DEF MInv
<1>2. ASSUME NEW b \in Offered, PeerProposal(b) PROVE MInv'
  <2>1. QueueInv'
    BY <1>2, PeerQueueTakes, Zenon DEF MInv, PeerProposal
  <2>2. NodeInv' /\ ComposerInv' /\ MinerInv'
    BY <1>2, Zenon DEF PeerProposal, MInv, NodeInv, StoredIsAncestorClosed, ComposerInv, MinerInv,
                BufferFitsTemplate
  <2> QED
    BY <2>1, <2>2, Zenon DEF MInv
<1>3. CASE HandlePeerMessage
  <2>1. ComposerInv' /\ MinerInv'
    BY <1>3, Zenon DEF HandlePeerMessage, MInv, ComposerInv, MinerInv, BufferFitsTemplate
  <2> QED
    BY <1>3, <2>1, PeerMessageHandled, Zenon DEF MInv
<1>4. CASE HandleRpcMessage
  <2>1. ComposerInv' /\ MinerInv'
    BY <1>4, Zenon DEF HandleRpcMessage, MInv, ComposerInv, MinerInv, BufferFitsTemplate
  <2> QED
    BY <1>4, <2>1, RpcMessageHandled, Zenon DEF MInv
<1>5. CASE ComposerStep
  <2>1. ComposerInv'
    <3>1. CASE ScanNetwork
      BY <3>1 DEF ScanNetwork, MInv, ComposerInv, Idle
    <3>2. CASE FetchTip
      BY <3>2, Zenon DEF FetchTip, MInv, ComposerInv, NodeInv
    <3>3. CASE PipelineFails
      BY <3>3, Zenon DEF PipelineFails, MInv, ComposerInv, Idle
    <3>4. ASSUME NEW b \in Children(composer.tip), Compose(b) PROVE ComposerInv'
      BY <3>4, Zenon DEF Compose, Children, MInv, ComposerInv
    <3> QED
      BY <1>5, <3>1, <3>2, <3>3, <3>4, Zenon DEF ComposerStep
  <2>2. NodeInv' /\ QueueInv' /\ MinerInv'
    BY <1>5, Zenon DEF ComposerStep, MInv, NodeInv, StoredIsAncestorClosed, QueueInv,
                QueuedAreConnected, MinerInv, BufferFitsTemplate
  <2> QED
    BY <2>1, <2>2, Zenon DEF MInv
<1>6. CASE SubmitTemplate
  <2>1. QueueInv'
    <3>1. CASE Favorable(composer.block)
      <4>1. composer.block \in Offered
        BY <1>6, Zenon DEF SubmitTemplate, MInv, ComposerInv
      <4> QED
        BY <1>6, <3>1, <4>1, RpcQueueTakes, Zenon DEF SubmitTemplate, MInv
    <3>2. CASE ~Favorable(composer.block)
      BY <1>6, <3>2, Zenon DEF SubmitTemplate, MInv, QueueInv, QueuedAreConnected
    <3> QED
      BY <3>1, <3>2, Zenon
  <2>2. NodeInv' /\ ComposerInv' /\ MinerInv'
    BY <1>6, Zenon DEF SubmitTemplate, MInv, NodeInv, StoredIsAncestorClosed, ComposerInv, Idle,
                MinerInv, BufferFitsTemplate
  <2> QED
    BY <2>1, <2>2, Zenon DEF MInv
<1>7. CASE ScanTemplates
  <2>1. MinerInv'
    <3>1. CASE proposal # NoBlock
      <4>1. proposal \in Offered
        BY <3>1, Zenon DEF MInv, NodeInv
      <4>2. Reward[proposal] \in Nat /\ Parent[proposal] \in Tree
        BY <4>1, OfferedHaveParents, MiningAssumption, Zenon
      <4>3. miner' = [reward |-> Reward[proposal], task |-> proposal, live |-> TRUE,
                      buffer |-> Parent[proposal]]
        BY <1>7, <3>1, Zenon DEF ScanTemplates, BufferFor
      <4> QED
        BY <4>1, <4>2, <4>3, Zenon DEF MinerInv, BufferFitsTemplate
    <3>2. CASE proposal = NoBlock
      <4>1. miner' = [miner EXCEPT !.reward = 0, !.task = NoBlock, !.live = FALSE]
        BY <1>7, <3>2, Zenon DEF ScanTemplates
      <4> QED
        BY <4>1, Zenon DEF MInv, MinerInv, BufferFitsTemplate
    <3> QED
      BY <3>1, <3>2, Zenon
  <2>2. NodeInv' /\ QueueInv' /\ ComposerInv'
    BY <1>7, Zenon DEF ScanTemplates, MInv, NodeInv, StoredIsAncestorClosed, QueueInv,
                QueuedAreConnected, ComposerInv
  <2> QED
    BY <2>1, <2>2, Zenon DEF MInv
<1>8. CASE SubmitBlock
  <2>1. QueueInv'
    <3>1. miner.task \in Offered /\ Parent[miner.task] \in stored
      BY <1>8, Zenon DEF SubmitBlock, MInv, MinerInv, NodeInv
    <3> QED
      BY <1>8, <3>1, RpcQueueTakes, Zenon DEF SubmitBlock, MInv
  <2>2. NodeInv' /\ ComposerInv' /\ MinerInv'
    BY <1>8, Zenon DEF SubmitBlock, MInv, NodeInv, StoredIsAncestorClosed, ComposerInv, MinerInv,
                BufferFitsTemplate
  <2> QED
    BY <2>1, <2>2, Zenon DEF MInv
<1>9. ASSUME NEW b \in Tree, SetTipToStoredBlock(b) PROVE MInv'
  <2>1. b # Genesis => Parent[b] \in stored
    BY <1>9, Zenon DEF SetTipToStoredBlock, MInv, NodeInv, StoredIsAncestorClosed
  <2>2. NodeInv' /\ stored \subseteq stored'
    BY <1>9, <2>1, SetNewTipKeeps, Zenon DEF SetTipToStoredBlock, MInv
  <2>3. QueueInv' /\ ComposerInv' /\ MinerInv'
    BY <1>9, <2>2, Zenon DEF SetTipToStoredBlock, MInv, QueueInv, QueuedAreConnected, ComposerInv,
                      MinerInv, BufferFitsTemplate
  <2> QED
    BY <2>2, <2>3, Zenon DEF MInv
<1>10. CASE UNCHANGED wvars
  BY <1>10, Zenon DEF wvars, MInv, NodeInv, StoredIsAncestorClosed, QueueInv, QueuedAreConnected,
               ComposerInv, MinerInv, BufferFitsTemplate
<1> QED
  BY <1>1, <1>2, <1>3, <1>4, <1>5, <1>6, <1>7, <1>8, <1>9, <1>10, Zenon DEF WNext, MainLoop

-----------------------------------------------------------------------------
(* The parent of every block the node has stored is stored, whatever blocks *)
(* waited in the main loop's queues while the tip changed.                  *)
THEOREM StoredStaysClosed == WSpec => []StoredIsAncestorClosed
<1>1. MInv => StoredIsAncestorClosed
  BY Zenon DEF MInv, NodeInv
<1> QED
  BY <1>1, MInvInit, MInvStep, PTL DEF WSpec

(* The miner guesses with the buffer of its template's parent.              *)
THEOREM BufferAlwaysFits == WSpec => []BufferFitsTemplate
<1>1. MInv => BufferFitsTemplate
  BY Zenon DEF MInv, MinerInv
<1> QED
  BY <1>1, MInvInit, MInvStep, PTL DEF WSpec

(* A message of a peer or of the RPC service moves the tip only to a block  *)
(* that the fork choice rule prefers to the tip at that moment.             *)
THEOREM TipFollowsForkChoice == WSpec => [][TipYieldsToForkChoice]_wvars
<1>1. ASSUME MInv, [WNext]_wvars PROVE TipYieldsToForkChoice
  <2> SUFFICES ASSUME tip' # tip, fromPeers' # fromPeers \/ fromRpc' # fromRpc
               PROVE  ForkChoice(tip, tip') = tip'
    BY Zenon DEF TipYieldsToForkChoice
  <2>1. CASE HandlePeerMessage
    <3>1. MoreCanonical(tip, tip')
      BY <2>1, Zenon DEF HandlePeerMessage, NewTipIfCanonical, SetNewTip
    <3> QED
      BY <3>1, MoreCanonicalIsChosen, Zenon
  <2>2. CASE HandleRpcMessage
    <3>1. MoreCanonical(tip, tip')
      BY <2>2, Zenon DEF HandleRpcMessage, NewTipIfCanonical, SetNewTip
    <3> QED
      BY <3>1, MoreCanonicalIsChosen, Zenon
  <2> QED
    BY <1>1, <2>1, <2>2, Zenon DEF WNext, MainLoop, wvars, PeerBlock, PeerProposal, ComposerStep,
                            SubmitTemplate, ScanTemplates, SubmitBlock, SetTipToStoredBlock
<1>2. MInv /\ [WNext]_wvars => [TipYieldsToForkChoice]_wvars
  BY <1>1, Zenon
<1> QED
  BY <1>2, MInvInit, MInvStep, PTL DEF WSpec

(* A proposal from a peer replaces the node's only if it is a child of the  *)
(* tip and pays the guesser more; any other change comes over RPC.          *)
THEOREM PeersImproveProposal == WSpec => [][PeersOnlyImproveProposal]_wvars
<1>1. ASSUME MInv, [WNext]_wvars PROVE PeersOnlyImproveProposal
  <2> SUFFICES ASSUME proposal' \notin {proposal, NoBlock}, fromRpc' = fromRpc
               PROVE  /\ Parent[proposal'] = tip'
                      /\ proposal # NoBlock => Reward[proposal'] > Reward[proposal]
    BY Zenon DEF PeersOnlyImproveProposal
  <2>1. CASE HandlePeerMessage
    <3>1. HandlePeerProposal(Head(fromPeers)[2]) /\ tip' = tip
      BY <2>1, Zenon DEF HandlePeerMessage, NewTipIfCanonical, SetNewTip
    <3>2. proposal' = Head(fromPeers)[2] /\ Favorable(proposal')
      BY <3>1, Zenon DEF HandlePeerProposal
    <3>3. proposal' \in Offered
      <4>1. fromPeers \in Seq(PeerMessage) /\ fromPeers # <<>>
        BY <1>1, <2>1, Zenon DEF MInv, QueueInv, HandlePeerMessage
      <4>2. Head(fromPeers) \in PeerMessage
        BY <4>1, QueueGives, Zenon
      <4>3. Head(fromPeers)[2] \in Offered
        BY <4>2, Zenon DEF PeerMessage
      <4> QED
        BY <4>3, <3>2, Zenon
    <3>4. Parent[proposal'] = tip /\ (proposal # NoBlock => Reward[proposal] < Reward[proposal'])
      BY <3>2, Zenon DEF Favorable
    <3> QED
      BY <1>1, <3>1, <3>3, <3>4, MiningAssumption, Zenon DEF MInv, NodeInv
  <2>2. CASE HandleRpcMessage
    <3>1. fromRpc \in Seq(RpcMessage) /\ fromRpc # <<>> /\ fromRpc' = Tail(fromRpc)
      BY <1>1, <2>2, Zenon DEF MInv, QueueInv, HandleRpcMessage
    <3> QED
      BY <3>1, QueueGives, Zenon
  <2>3. CASE \E b \in Tree : SetTipToStoredBlock(b)
    BY <2>3, Zenon DEF SetTipToStoredBlock, SetNewTip
  <2> QED
    BY <1>1, <2>1, <2>2, <2>3, Zenon DEF WNext, MainLoop, wvars, PeerBlock, PeerProposal,
                                  ComposerStep, SubmitTemplate, ScanTemplates, SubmitBlock
<1>2. MInv /\ [WNext]_wvars => [PeersOnlyImproveProposal]_wvars
  BY <1>1, Zenon
<1> QED
  BY <1>2, MInvInit, MInvStep, PTL DEF WSpec

(* Both: what waited in a queue is judged again when it is handled, for any *)
(* tree of blocks, any queue lengths and any composers and RPC clients.     *)
THEOREM MessagesAreJudgedAgain == WSpec => QueuedAreJudgedAgain
<1>1. [][TipYieldsToForkChoice]_wvars /\ [][PeersOnlyImproveProposal]_wvars
        => [][TipYieldsToForkChoice /\ PeersOnlyImproveProposal]_wvars
  BY PTL
<1> QED
  BY <1>1, TipFollowsForkChoice, PeersImproveProposal, PTL DEF QueuedAreJudgedAgain

(* The chain below the tip is stored, and the miner's buffer fits.          *)
THEOREM MinerIsOnTheChain == WSpec => []MinerBuildsOnTheChain
<1>1. StoredIsAncestorClosed /\ BufferFitsTemplate => MinerBuildsOnTheChain
  BY Zenon DEF MinerBuildsOnTheChain
<1> QED
  BY <1>1, StoredStaysClosed, BufferAlwaysFits, PTL

-----------------------------------------------------------------------------
(* The ledger.                                                                *)

LedgerInput == [index : Nat, utxo : LedgerUtxo]
MutatorSets == [aocl : Seq(LedgerUtxo), spent : SUBSET LedgerInput]
LedgerKernel == [inputs : Seq(LedgerInput), outputs : Seq(LedgerUtxo), fee : Int,
                 coinbase : {NoCoinbase} \cup Int, timestamp : Nat, ms : MutatorSets,
                 mergeBit : BOOLEAN]
LedgerBlock == [height : Nat, time : Nat, minted : Int, before : Seq(LedgerUtxo),
                removed : SUBSET LedgerInput, ms : MutatorSets]

(* An input that may be removed from an AOCL at a time.                       *)
Spendable(r, aocl, time) ==
    /\ r.index \in 1 .. Len(aocl)
    /\ aocl[r.index] = r.utxo
    /\ r.utxo.lock # "burn"
    /\ r.utxo.release = 0 \/ r.utxo.release < time

(* Every input of a proven kernel is spendable in the kernel's own mutator    *)
(* set at the kernel's own time, however the proof was made.                  *)
KernelIsSpendable(k) == \A r \in Range(k.inputs) : Spendable(r, k.ms.aocl, k.timestamp)

LedgerInv ==
    /\ proven \subseteq LedgerKernel
    /\ blocks \subseteq LedgerBlock
    /\ \A k \in proven : KernelIsSpendable(k)
    /\ OnlySpendableIsSpent

-----------------------------------------------------------------------------
(* Multisets and shuffles.                                                    *)

(* Two sequences that are the same multiset have the same elements.           *)
LEMMA SameElements ==
  ASSUME NEW s, NEW t, SameMultiset(s, t)
  PROVE  Range(s) = Range(t)
  BY Zenon DEF SameMultiset

(* The elements of a sequence are members of the set it is over.              *)
LEMMA ElementsOfSeq ==
  ASSUME NEW S, NEW s \in Seq(S)
  PROVE  /\ Range(s) \subseteq S
         /\ \A i \in 1 .. Len(s) : s[i] \in Range(s)
         /\ \A x \in Range(s) : \E i \in 1 .. Len(s) : x = s[i]
<1>1. DOMAIN s = 1 .. Len(s) /\ \A i \in 1 .. Len(s) : s[i] \in S
  OBVIOUS
<1> QED
  BY <1>1, Zenon DEF Range

(* A rearrangement of a sequence is a sequence of the same elements.          *)
LEMMA Rearranged ==
  ASSUME NEW S, NEW s \in Seq(S), NEW f, SameMultiset([i \in 1 .. Len(s) |-> f[i]], s)
  PROVE  /\ [i \in 1 .. Len(s) |-> f[i]] \in Seq(S)
         /\ Range([i \in 1 .. Len(s) |-> f[i]]) = Range(s)
<1> DEFINE n == Len(s)
           t == [i \in 1 .. n |-> f[i]]
<1>1. Range(t) = Range(s)
  BY SameElements, Zenon
<1>2. Range(s) \subseteq S
  BY ElementsOfSeq, Zenon
<1>3. \A i \in 1 .. n : t[i] \in Range(t)
  BY Zenon DEF Range
<1>4. t \in [1 .. n -> S]
  BY <1>1, <1>2, <1>3, Zenon
<1>5. n \in Nat
  OBVIOUS
<1> HIDE DEF t, n
<1>6. t \in Seq(S)
  BY <1>4, <1>5
<1> QED
  BY <1>1, <1>6, Zenon DEF t, n

(* Shuffling the inputs of a merger keeps them inputs, and adds none.         *)
LEMMA ShuffledInputs ==
  ASSUME NEW S, NEW s \in Seq(S), SameMultiset(ShuffleInputs(s), s)
  PROVE  ShuffleInputs(s) \in Seq(S) /\ Range(ShuffleInputs(s)) = Range(s)
<1>1. PICK f : ShuffleInputs(s) = [i \in 1 .. Len(s) |-> f[i]]
  <2> DEFINE p == CHOOSE p \in Permutations(1 .. Len(s)) :
                 \A i, j \in 1 .. Len(s) : i < j => s[p[i]].index <= s[p[j]].index
             g == [i \in 1 .. Len(s) |-> s[p[i]]]
  <2>1. ShuffleInputs(s) = g
    BY Zenon DEF ShuffleInputs
  <2> HIDE DEF p
  <2>2. g = [i \in 1 .. Len(s) |-> g[i]]
    BY Zenon
  <2> QED
    BY <2>1, <2>2, Zenon
<1>2. SameMultiset([i \in 1 .. Len(s) |-> f[i]], s)
  BY <1>1, Zenon
<1>3. /\ [i \in 1 .. Len(s) |-> f[i]] \in Seq(S)
      /\ Range([i \in 1 .. Len(s) |-> f[i]]) = Range(s)
  BY <1>2, Rearranged, Zenon
<1> QED
  BY <1>1, <1>3, Zenon

(* Shuffling the outputs of a merger keeps them coins.                        *)
LEMMA ShuffledOutputs ==
  ASSUME NEW S, NEW s \in Seq(S), SameMultiset(ShuffleOutputs(s), s)
  PROVE  ShuffleOutputs(s) \in Seq(S)
<1>1. PICK f : ShuffleOutputs(s) = [i \in 1 .. Len(s) |-> f[i]]
  <2> DEFINE p == CHOOSE p \in Permutations(1 .. Len(s)) :
                 \A i, j \in 1 .. Len(s) : i < j => Precedes(s[p[i]], s[p[j]])
             g == [i \in 1 .. Len(s) |-> s[p[i]]]
  <2>1. ShuffleOutputs(s) = g
    BY Zenon DEF ShuffleOutputs
  <2> HIDE DEF p
  <2>2. g = [i \in 1 .. Len(s) |-> g[i]]
    BY Zenon
  <2> QED
    BY <2>1, <2>2, Zenon
<1> QED
  BY <1>1, Rearranged, Zenon

(* A concatenation has the elements of its two parts.                         *)
LEMMA JoinedElements ==
  ASSUME NEW S, NEW s \in Seq(S), NEW t \in Seq(S)
  PROVE  /\ s \o t \in Seq(S)
         /\ Range(s \o t) = Range(s) \cup Range(t)
<1> DEFINE u == s \o t
<1>1. /\ u \in Seq(S) /\ Len(u) = Len(s) + Len(t) /\ Len(s) \in Nat /\ Len(t) \in Nat
      /\ \A i \in 1 .. Len(s) : u[i] = s[i]
      /\ \A i \in 1 .. Len(t) : u[Len(s) + i] = t[i]
  OBVIOUS
<1> HIDE DEF u
<1>2. \A i \in 1 .. Len(s) : i \in 1 .. Len(u)
  BY <1>1
<1>3. \A i \in 1 .. Len(t) : Len(s) + i \in 1 .. Len(u)
  BY <1>1
<1>4. \A i \in 1 .. Len(u) : i \in 1 .. Len(s) \/ \E j \in 1 .. Len(t) : i = Len(s) + j
  <2> TAKE i \in 1 .. Len(u)
  <2>1. CASE i > Len(s)
    <3>1. i - Len(s) \in 1 .. Len(t) /\ i = Len(s) + (i - Len(s))
      BY <1>1, <2>1
    <3> QED
      BY <3>1, Zenon
  <2>2. CASE ~(i > Len(s))
    BY <1>1, <2>2
  <2> QED
    BY <2>1, <2>2, Zenon
<1>5. Range(u) \subseteq Range(s) \cup Range(t)
  <2> SUFFICES ASSUME NEW x \in Range(u)
               PROVE  x \in Range(s) \cup Range(t)
    BY Zenon
  <2>1. PICK i \in 1 .. Len(u) : x = u[i]
    BY <1>1, ElementsOfSeq, Zenon
  <2>2. CASE i \in 1 .. Len(s)
    BY <1>1, <2>1, <2>2, ElementsOfSeq, Zenon
  <2>3. ASSUME NEW j \in 1 .. Len(t), i = Len(s) + j
        PROVE  x \in Range(t)
    BY <1>1, <2>1, <2>3, ElementsOfSeq, Zenon
  <2> QED
    BY <1>4, <2>2, <2>3, Zenon
<1>6. Range(s) \cup Range(t) \subseteq Range(u)
  <2>1. Range(s) \subseteq Range(u)
    <3> SUFFICES ASSUME NEW x \in Range(s) PROVE x \in Range(u)
      BY Zenon
    <3>1. PICK i \in 1 .. Len(s) : x = s[i]
      BY ElementsOfSeq, Zenon
    <3> QED
      BY <1>1, <1>2, <3>1, ElementsOfSeq, Zenon
  <2>2. Range(t) \subseteq Range(u)
    <3> SUFFICES ASSUME NEW x \in Range(t) PROVE x \in Range(u)
      BY Zenon
    <3>1. PICK i \in 1 .. Len(t) : x = t[i]
      BY ElementsOfSeq, Zenon
    <3>2. u[Len(s) + i] = x /\ Len(s) + i \in 1 .. Len(u)
      BY <1>1, <1>3, <3>1, Zenon
    <3> QED
      BY <1>1, <3>2, ElementsOfSeq, Zenon
  <2> QED
    BY <2>1, <2>2, Zenon
<1> QED
  BY <1>1, <1>5, <1>6, Zenon DEF u

-----------------------------------------------------------------------------
(* The three ways to a proof.                                                 *)

(* A sequence of values computed from a sequence is a sequence of such        *)
(* values.                                                                    *)
LEMMA Mapped ==
  ASSUME NEW S, NEW n \in Nat, NEW f \in [1 .. n -> S]
  PROVE  f \in Seq(S) /\ Len(f) = n
OBVIOUS

(* The programs of a proof collection (removal records, lock scripts, type    *)
(* scripts) let through only inputs that are spendable in the mutator set     *)
(* they are proved against.                                                   *)
LEMMA CollectionIsSpendable ==
  ASSUME NEW k \in [inputs : Seq([index : Nat, utxo : {GenesisOutputs[1]} \cup LedgerUtxo]),
                    outputs : Seq(LedgerUtxo), fee : Int,
                    coinbase : {NoCoinbase} \cup Int, timestamp : Nat, ms : MutatorSets,
                    mergeBit : BOOLEAN],
         ProofCollection(k, [ins |-> k.inputs, outs |-> k.outputs])
  PROVE  k \in LedgerKernel /\ KernelIsSpendable(k)
<1> DEFINE w == [ins |-> k.inputs, outs |-> k.outputs]
           ins == k.inputs
           In == [index : Nat, utxo : {GenesisOutputs[1]} \cup LedgerUtxo]
<1>0. w.ins = ins /\ w.outs = k.outputs /\ ins \in Seq(In) /\ k.outputs \in Seq(LedgerUtxo)
      /\ k.ms.aocl \in Seq(LedgerUtxo) /\ k.timestamp \in Nat
  BY Zenon DEF MutatorSets
<1>1. ProofCollection(k, w)
  BY Zenon
<1> HIDE DEF w, ins, In
<1>2. RemovalRecordsIntegrity(k, ins)
  <2>1. Holds(<<"RemovalRecordsIntegrity", k, ins>>)
    BY <1>0, <1>1, Zenon DEF ProofCollection, RemovalRecordsIntegrityClaim, Claim
  <2> QED
    BY <2>1, Zenon DEF Holds
<1>3. ASSUME NEW i \in 1 .. Len(ins)
      PROVE  /\ ins[i].index \in 1 .. Len(k.ms.aocl)
             /\ k.ms.aocl[ins[i].index] = ins[i].utxo
             /\ ins[i].index \in Nat /\ ins[i].utxo \in LedgerUtxo /\ ins[i] \in LedgerInput
  <2>1. ins[i].index \in 1 .. Len(k.ms.aocl) /\ k.ms.aocl[ins[i].index] = ins[i].utxo
    BY <1>2, Zenon DEF RemovalRecordsIntegrity, RemovesLeaf
  <2>2. ins[i] \in In
    BY <1>0
  <2>3. ins[i].utxo \in LedgerUtxo
    BY <1>0, <2>1
  <2> QED
    BY <2>1, <2>2, <2>3, Zenon DEF In, LedgerInput
<1>4. ASSUME NEW i \in 1 .. Len(ins)
      PROVE  ins[i].utxo.lock # "burn"
  <2> DEFINE locks == LockScriptHashes(ins)
  <2>1. locks[i] = ins[i].utxo.lock /\ i \in DOMAIN locks
    BY Zenon DEF LockScriptHashes
  <2>2. ins[i].utxo.lock \in Range(locks)
    BY <2>1, Zenon DEF Range
  <2>3. Holds(<<ins[i].utxo.lock, k, <<>>>>)
    BY <1>0, <1>1, <2>2, Zenon DEF ProofCollection, LockScriptClaims, Claim
  <2> HIDE DEF locks
  <2>4. ~Holds(<<"burn", k, <<>>>>)
    BY Zenon DEF Holds, LockScriptHalts
  <2> QED
    BY <2>3, <2>4, Zenon
<1>5. ASSUME NEW i \in 1 .. Len(ins), ins[i].utxo.release # 0
      PROVE  ins[i].utxo.release < k.timestamp
  <2> DEFINE us == UtxosOf(ins)
             both == us \o k.outputs
  <2>1. us \in Seq(LedgerUtxo) /\ Len(us) = Len(ins) /\ us[i] = ins[i].utxo
    <3>1. us \in [1 .. Len(ins) -> LedgerUtxo] /\ us[i] = ins[i].utxo
      BY <1>3, Zenon DEF UtxosOf
    <3>2. Len(ins) \in Nat
      BY <1>0
    <3> HIDE DEF us
    <3>3. Len(us) = Len(ins) /\ us \in Seq(LedgerUtxo)
      <4>1. PICK n \in Nat : n = Len(ins)
        BY <3>2, Zenon
      <4>2. us \in [1 .. n -> LedgerUtxo]
        BY <3>1, <4>1, Zenon
      <4>3. us \in Seq(LedgerUtxo) /\ Len(us) = n
        BY <4>2, Mapped, Zenon
      <4> QED
        BY <4>1, <4>3, Zenon
    <3> QED
      BY <3>1, <3>3, Zenon
  <2> HIDE DEF us
  <2>2. ins[i].utxo \in Range(both)
    <3>1. us[i] \in Range(us)
      BY <2>1, ElementsOfSeq, Zenon
    <3> QED
      BY <1>0, <2>1, <3>1, JoinedElements
  <2>3. "TimeLock" \in TypeScriptHashes(ins, k.outputs)
    BY <1>5, <2>2, Zenon DEF TypeScriptHashes, us
  <2>4. Holds(<<"TimeLock", <<k, ins, k.outputs>>, <<>>>>)
    BY <1>0, <1>1, <2>3, Zenon DEF ProofCollection, TypeScriptClaims, Claim
  <2>5. TimeLock(k, ins)
    BY <2>4, Zenon DEF Holds
  <2> QED
    BY <1>5, <2>5, Zenon DEF TimeLock
<1>6. ins \in Seq(LedgerInput)
  <2>1. \A i \in 1 .. Len(ins) : ins[i] \in LedgerInput
    BY <1>3, Zenon
  <2> QED
    BY <1>0, <2>1
<1>7. k \in LedgerKernel
  BY <1>6, Zenon DEF LedgerKernel, ins
<1>8. KernelIsSpendable(k)
  <2> SUFFICES ASSUME NEW r \in Range(ins)
               PROVE  Spendable(r, k.ms.aocl, k.timestamp)
    BY Zenon DEF KernelIsSpendable, ins
  <2>1. PICK i \in 1 .. Len(ins) : r = ins[i]
    BY <1>6, ElementsOfSeq, Zenon
  <2> QED
    BY <1>3, <1>4, <1>5, <2>1, Zenon DEF Spendable
<1> QED
  BY <1>7, <1>8, Zenon

(* The later of two timestamps releases what either of them released, so a    *)
(* merger of two spendable kernels over one mutator set is spendable.         *)
LEMMA MergerIsSpendable ==
  ASSUME NEW left \in LedgerKernel, NEW right \in LedgerKernel,
         KernelIsSpendable(left), KernelIsSpendable(right),
         MergeBranch(left, right, NewKernel(left, right))
  PROVE  NewKernel(left, right) \in LedgerKernel /\ KernelIsSpendable(NewKernel(left, right))
<1> DEFINE new == NewKernel(left, right)
           ins == left.inputs \o right.inputs
           outs == left.outputs \o right.outputs
           time == Later(left.timestamp, right.timestamp)
<1>0. /\ left.inputs \in Seq(LedgerInput) /\ right.inputs \in Seq(LedgerInput)
      /\ left.outputs \in Seq(LedgerUtxo) /\ right.outputs \in Seq(LedgerUtxo)
      /\ left.fee \in Int /\ right.fee \in Int /\ left.coinbase \in {NoCoinbase} \cup Int
      /\ left.timestamp \in Nat /\ right.timestamp \in Nat /\ left.ms \in MutatorSets
  BY Zenon DEF LedgerKernel
<1>1. ins \in Seq(LedgerInput) /\ Range(ins) = Range(left.inputs) \cup Range(right.inputs)
  BY <1>0, JoinedElements
<1>2. outs \in Seq(LedgerUtxo)
  BY <1>0
<1>3. /\ new.inputs = ShuffleInputs(ins) /\ new.outputs = ShuffleOutputs(outs)
      /\ new.ms = left.ms /\ new.timestamp = time
  BY Zenon DEF NewKernel
<1>4. SameMultiset(ShuffleInputs(ins), ins) /\ SameMultiset(ShuffleOutputs(outs), outs)
  BY <1>3, Zenon DEF MergeBranch, PartsAreMerged
<1>5. left.ms = right.ms
  BY Zenon DEF MergeBranch, AgreeOnMutatorSet
<1> HIDE DEF ins, outs
<1>6. ShuffleInputs(ins) \in Seq(LedgerInput) /\ Range(ShuffleInputs(ins)) = Range(ins)
  BY <1>1, <1>4, ShuffledInputs, Zenon
<1>7. ShuffleOutputs(outs) \in Seq(LedgerUtxo)
  BY <1>2, <1>4, ShuffledOutputs, Zenon
<1>8. time \in Nat /\ left.timestamp <= time /\ right.timestamp <= time
  BY <1>0 DEF Later
<1> HIDE DEF time
<1>9. new \in LedgerKernel
  BY <1>0, <1>6, <1>7, <1>8 DEF NewKernel, LedgerKernel, ins, outs, time
<1>10. KernelIsSpendable(new)
  <2> SUFFICES ASSUME NEW r \in Range(ins)
               PROVE  Spendable(r, left.ms.aocl, time)
    BY <1>3, <1>6, Zenon DEF KernelIsSpendable
  <2>0. r.utxo.release \in Nat
    <3>1. r \in LedgerInput
      BY <1>1, ElementsOfSeq, Zenon
    <3> QED
      BY <3>1, Zenon DEF LedgerInput, LedgerUtxo
  <2>1. Spendable(r, left.ms.aocl, left.timestamp) \/ Spendable(r, left.ms.aocl, right.timestamp)
    BY <1>1, <1>5, Zenon DEF KernelIsSpendable
  <2> QED
    BY <1>0, <1>8, <2>0, <2>1 DEF Spendable
<1> QED
  BY <1>9, <1>10, Zenon

(* An update moves a kernel to a mutator set whose AOCL extends the one it    *)
(* was proved against, so every input is where it was.                        *)
LEMMA UpdateIsSpendable ==
  ASSUME NEW old \in LedgerKernel, KernelIsSpendable(old), NEW ms \in MutatorSets,
         NEW time \in Nat,
         UpdateBranch(old, [old EXCEPT !.ms = ms, !.timestamp = time])
  PROVE  /\ [old EXCEPT !.ms = ms, !.timestamp = time] \in LedgerKernel
         /\ KernelIsSpendable([old EXCEPT !.ms = ms, !.timestamp = time])
<1>1. PICK new : new = [old EXCEPT !.ms = ms, !.timestamp = time]
  BY Zenon
<1>2. /\ new \in LedgerKernel /\ new.inputs = old.inputs /\ new.ms = ms /\ new.timestamp = time
      /\ old.timestamp \in Nat /\ old.ms.aocl \in Seq(LedgerUtxo) /\ ms.aocl \in Seq(LedgerUtxo)
      /\ old.inputs \in Seq(LedgerInput)
  BY <1>1, Zenon DEF LedgerKernel, MutatorSets
<1>3. UpdateBranch(old, new)
  BY <1>1, Zenon
<1>4. IsSuccessor(old.ms, ms) /\ time >= old.timestamp
  BY <1>2, <1>3, Zenon DEF UpdateBranch
<1>5. /\ Len(old.ms.aocl) <= Len(ms.aocl)
      /\ \A i \in 1 .. Len(old.ms.aocl) : ms.aocl[i] = old.ms.aocl[i]
  BY <1>4, Zenon DEF IsSuccessor
<1>6. KernelIsSpendable(new)
  <2> SUFFICES ASSUME NEW r \in Range(old.inputs)
               PROVE  Spendable(r, ms.aocl, time)
    BY <1>2, Zenon DEF KernelIsSpendable
  <2>0. r.utxo.release \in Nat
    <3>1. r \in LedgerInput
      BY <1>2, ElementsOfSeq, Zenon
    <3> QED
      BY <3>1, Zenon DEF LedgerInput, LedgerUtxo
  <2>1. Spendable(r, old.ms.aocl, old.timestamp)
    BY Zenon DEF KernelIsSpendable
  <2> QED
    BY <1>2, <1>4, <1>5, <2>0, <2>1 DEF Spendable
<1> QED
  BY <1>1, <1>2, <1>6, Zenon

-----------------------------------------------------------------------------
(* The actions.                                                               *)

(* The mutator sets a prover can know are those after genesis or after some   *)
(* block.                                                                     *)
LEMMA KnownSetsAreSets ==
  ASSUME LedgerInv
  PROVE  KnownSets \subseteq MutatorSets
<1> SUFFICES ASSUME NEW b \in blocks PROVE b.ms \in MutatorSets
  BY Zenon DEF KnownSets
<1>1. b \in LedgerBlock
  BY Zenon DEF LedgerInv
<1> QED
  BY <1>1, Zenon DEF LedgerBlock

(* Proving a draft as a collection keeps the invariant.                       *)
LEMMA ProveCollectionKeeps ==
  ASSUME LedgerInv, NEW d \in Drafts, NEW ms \in KnownSets, ProveCollection(d, ms)
  PROVE  LedgerInv'
<1> DEFINE leaf(i) == [index |-> d.ins[i],
                       utxo  |-> IF d.ins[i] \in DOMAIN ms.aocl THEN ms.aocl[d.ins[i]]
                                 ELSE GenesisOutputs[1]]
           In == [index : Nat, utxo : {GenesisOutputs[1]} \cup LedgerUtxo]
           ins == [i \in 1 .. Len(d.ins) |-> leaf(i)]
           w == [ins |-> ins, outs |-> d.outs]
           k == [inputs |-> ins, outputs |-> d.outs, fee |-> d.fee, coinbase |-> d.coinbase,
                 timestamp |-> d.timestamp, ms |-> ms, mergeBit |-> FALSE]
<1>1. ProofCollection(k, w) /\ proven' = proven \cup {k} /\ blocks' = blocks
  BY Zenon DEF ProveCollection
<1>2. ms \in MutatorSets
  BY KnownSetsAreSets, Zenon
<1>3. /\ d.ins \in Seq(Nat) /\ d.outs \in Seq(LedgerUtxo) /\ d.fee \in Int
      /\ d.coinbase \in {NoCoinbase} \cup Int /\ d.timestamp \in Nat
  BY LedgerAssumption, Zenon
<1>4. ins \in Seq(In)
  <2>1. ASSUME NEW i \in 1 .. Len(d.ins)
        PROVE  leaf(i) \in In
    BY <1>2, <1>3 DEF MutatorSets
  <2> HIDE DEF In, leaf
  <2>2. ins \in [1 .. Len(d.ins) -> In]
    BY <2>1, Zenon
  <2>3. Len(d.ins) \in Nat
    BY <1>3
  <2> HIDE DEF ins
  <2> QED
    BY <2>2, <2>3, Mapped, Zenon
<1> HIDE DEF ins
<1>5. /\ k \in [inputs : Seq(In), outputs : Seq(LedgerUtxo), fee : Int,
                 coinbase : {NoCoinbase} \cup Int, timestamp : Nat, ms : MutatorSets,
                 mergeBit : BOOLEAN]
      /\ w = [ins |-> k.inputs, outs |-> k.outputs]
  <2> HIDE DEF In
  <2> QED
    BY <1>2, <1>3, <1>4, Zenon
<1> HIDE DEF k, w
<1>6. k \in LedgerKernel /\ KernelIsSpendable(k)
  BY <1>1, <1>5, CollectionIsSpendable, Zenon
<1> QED
  BY <1>1, <1>6, Zenon DEF LedgerInv, OnlySpendableIsSpent

(* Proving a merger keeps the invariant.                                      *)
LEMMA ProveMergeKeeps ==
  ASSUME LedgerInv, NEW left \in proven, NEW right \in proven, ProveMerge(left, right)
  PROVE  LedgerInv'
<1>1. /\ MergeBranch(left, right, NewKernel(left, right)) /\ blocks' = blocks
      /\ proven' \subseteq proven \cup {NewKernel(left, right)}
  BY Zenon DEF ProveMerge
<1>2. /\ left \in LedgerKernel /\ right \in LedgerKernel
      /\ KernelIsSpendable(left) /\ KernelIsSpendable(right)
  BY Zenon DEF LedgerInv
<1>3. NewKernel(left, right) \in LedgerKernel /\ KernelIsSpendable(NewKernel(left, right))
  BY <1>1, <1>2, MergerIsSpendable, Zenon
<1> QED
  BY <1>1, <1>3, Zenon DEF LedgerInv, OnlySpendableIsSpent

(* Proving an update keeps the invariant.                                     *)
LEMMA ProveUpdateKeeps ==
  ASSUME LedgerInv, NEW old \in proven, NEW ms \in KnownSets, NEW time \in 1 .. LastTime,
         ProveUpdate(old, ms, time)
  PROVE  LedgerInv'
<1>1. PICK new : new = [old EXCEPT !.ms = ms, !.timestamp = time]
  BY Zenon
<1>2. UpdateBranch(old, new) /\ blocks' = blocks /\ proven' \subseteq proven \cup {new}
  BY <1>1, Zenon DEF ProveUpdate
<1>3. old \in LedgerKernel /\ KernelIsSpendable(old)
  BY Zenon DEF LedgerInv
<1>4. ms \in MutatorSets /\ time \in Nat
  <2>1. ms \in MutatorSets
    BY KnownSetsAreSets, Zenon
  <2> QED
    BY <2>1
<1>5. new \in LedgerKernel /\ KernelIsSpendable(new)
  BY <1>1, <1>2, <1>3, <1>4, UpdateIsSpendable, Zenon
<1> QED
  BY <1>2, <1>5, Zenon DEF LedgerInv, OnlySpendableIsSpent

(* Forgetting a kernel keeps the invariant.                                   *)
LEMMA DiscardKeeps ==
  ASSUME LedgerInv, NEW k \in proven, Discard(k)
  PROVE  LedgerInv'
<1>1. blocks' = blocks /\ proven' \subseteq proven
  BY Zenon DEF Discard
<1> QED
  BY <1>1, Zenon DEF LedgerInv, OnlySpendableIsSpent

(* A block that Block::validate accepts removes the inputs of a kernel proved *)
(* against its predecessor, so it spends only what is spendable.              *)
LEMMA NewBlockKeeps ==
  ASSUME LedgerInv, NEW parent \in blocks, NEW k \in proven, NEW time \in 1 .. LastTime,
         NewBlock(parent, k, time)
  PROVE  LedgerInv'
<1>1. PICK b : b = [height  |-> parent.height + 1,
                    time    |-> time,
                    minted  |-> parent.minted + CoinbaseOf(k),
                    before  |-> parent.ms.aocl,
                    removed |-> Range(k.inputs),
                    ms      |-> MutatorSetAfter(parent.ms, k)]
  BY Zenon
<1>2. blocks' = blocks \cup {b} /\ proven' \subseteq proven
  BY <1>1, Zenon DEF NewBlock
<1>3. parent.ms = k.ms /\ k.timestamp <= time /\ CoinbaseOf(k) \in Int
  <2>1. parent.ms = k.ms /\ k.timestamp <= time
    BY Zenon DEF NewBlock, Validate
  <2>2. k.coinbase \in {NoCoinbase} \cup Int
    BY Zenon DEF LedgerInv, LedgerKernel
  <2> QED
    BY <2>1, <2>2 DEF CoinbaseOf
<1>4. /\ k \in LedgerKernel /\ KernelIsSpendable(k) /\ k.timestamp \in Nat
      /\ parent \in LedgerBlock /\ parent.height \in Nat /\ parent.minted \in Int
      /\ parent.ms \in MutatorSets /\ k.inputs \in Seq(LedgerInput)
      /\ k.outputs \in Seq(LedgerUtxo) /\ k.fee \in Int
  BY Zenon DEF LedgerInv, LedgerKernel, LedgerBlock
<1>5. Range(k.inputs) \subseteq LedgerInput
  BY <1>4, ElementsOfSeq, Zenon
<1>6. MutatorSetAfter(parent.ms, k) \in MutatorSets
  <2>1. PICK tx : tx = MutatorSetAfterTx(parent.ms, k)
    BY Zenon
  <2>2. tx \in MutatorSets
    BY <1>4, <1>5, <2>1 DEF MutatorSets, MutatorSetAfterTx
  <2>3. GuesserFeeUtxos(k) \in Seq(LedgerUtxo)
    BY <1>4 DEF GuesserFeeUtxos, LedgerUtxo
  <2>4. tx.aocl \o GuesserFeeUtxos(k) \in Seq(LedgerUtxo)
    BY <2>2, <2>3 DEF MutatorSets
  <2>5. MutatorSetAfter(parent.ms, k) = [tx EXCEPT !.aocl = @ \o GuesserFeeUtxos(k)]
    BY <2>1, Zenon DEF MutatorSetAfter
  <2>6. PICK a : a = tx.aocl \o GuesserFeeUtxos(k)
    BY Zenon
  <2>7. [tx EXCEPT !.aocl = a] \in MutatorSets
    BY <2>2, <2>4, <2>6, Zenon DEF MutatorSets
  <2> QED
    BY <2>5, <2>6, <2>7, Zenon
<1>7. b \in LedgerBlock
  <2>1. parent.ms.aocl \in Seq(LedgerUtxo) /\ time \in Nat
    BY <1>4 DEF MutatorSets
  <2>2. parent.height + 1 \in Nat /\ parent.minted + CoinbaseOf(k) \in Int
    BY <1>3, <1>4
  <2> QED
    BY <1>1, <1>5, <1>6, <2>1, <2>2, Zenon DEF LedgerBlock
<1>8. ASSUME NEW r \in b.removed
      PROVE  /\ r.index \in DOMAIN b.before /\ b.before[r.index] = r.utxo
             /\ r.utxo.lock # "burn" /\ r.utxo.release < b.time
  <2>1. b.removed = Range(k.inputs) /\ b.before = k.ms.aocl /\ b.time = time
    BY <1>1, <1>3, Zenon
  <2>2. Spendable(r, k.ms.aocl, k.timestamp)
    BY <1>4, <2>1, Zenon DEF KernelIsSpendable
  <2>3. r.utxo.release \in Nat
    BY <1>5, <2>1 DEF LedgerInput, LedgerUtxo
  <2>4. k.ms.aocl \in Seq(LedgerUtxo)
    BY <1>3, <1>4, Zenon DEF MutatorSets
  <2>5. /\ r.index \in 1 .. Len(k.ms.aocl) /\ k.ms.aocl[r.index] = r.utxo
        /\ r.utxo.lock # "burn" /\ (r.utxo.release = 0 \/ r.utxo.release < k.timestamp)
    BY <2>2, Zenon DEF Spendable
  <2>6. DOMAIN k.ms.aocl = 1 .. Len(k.ms.aocl)
    BY <2>4
  <2>7. r.utxo.release < time
    BY <1>3, <1>4, <2>3, <2>5
  <2> QED
    BY <2>1, <2>5, <2>6, <2>7, Zenon
<1> QED
  BY <1>2, <1>7, <1>8, Zenon DEF LedgerInv, OnlySpendableIsSpent

(* At the start there is the genesis block, which spends nothing.             *)
LEMMA LedgerStarts ==
  ASSUME LInit
  PROVE  LedgerInv
<1>1. GenesisBlock \in LedgerBlock /\ GenesisBlock.removed = {}
  BY LedgerAssumption DEF GenesisBlock, LedgerBlock, MutatorSets
<1> QED
  BY <1>1, Zenon DEF LInit, LedgerInv, OnlySpendableIsSpent

(* Every step keeps the invariant.                                            *)
LEMMA LedgerSteps ==
  ASSUME LedgerInv, [LNext]_ledgerVars
  PROVE  LedgerInv'
<1>1. CASE UNCHANGED ledgerVars
  BY <1>1, Zenon DEF ledgerVars, LedgerInv, OnlySpendableIsSpent
<1>2. CASE LNext
  BY <1>2, ProveCollectionKeeps, ProveMergeKeeps, ProveUpdateKeeps, DiscardKeeps,
     NewBlockKeeps, Zenon DEF LNext
<1> QED
  BY <1>1, <1>2, Zenon

(* OnlySpendableIsSpent, for any premine, any drafts and any schedule: what   *)
(* a block removes is a leaf of the AOCL it builds on, is not burnt, and its  *)
(* time lock ended before the block, whatever chain of mergers and updates    *)
(* lies between the proof collection and the block (time_lock.rs,             *)
(* merge_branch.rs, update_branch.rs, Block::validate).                       *)
THEOREM SpentWasSpendable == LSpec => []OnlySpendableIsSpent
<1>1. LInit => LedgerInv
  BY LedgerStarts, Zenon
<1>2. LedgerInv /\ [LNext]_ledgerVars => LedgerInv'
  BY LedgerSteps, Zenon
<1>3. LedgerInv => OnlySpendableIsSpent
  BY Zenon DEF LedgerInv
<1> QED
  BY <1>1, <1>2, <1>3, PTL DEF LSpec

-----------------------------------------------------------------------------
(* The upgrader.                                                              *)

(* What a transaction of the upgrader's is made of.                           *)
UpgraderTx == [id : PoolTx \cup {"none", "gobbler"}, own : BOOLEAN,
               proof : {"none", "collection", "single"}, ms : Int, pms : Int]

PoolTypes == utip \in Int /\ unsent \subseteq PoolTx /\ upool \subseteq UpgraderTx
UpgraderTypes ==
    /\ PoolTypes
    /\ aim \in Int /\ second \in Int
    /\ queue \subseteq UpgraderTx
    /\ updates \subseteq UpgraderTx /\ proved \subseteq UpgraderTx
    /\ cur \in UpgraderTx
    /\ cache \in Seq(Int \X Int)

(* A merged transaction has a single proof wherever it is, and what is queued *)
(* is queued once.                                                            *)
Merged(t) == t.own /\ t.proof = "single"
KindInPool == \A t \in upool : t.own => t.proof = "single"
KindsAreKept ==
    /\ KindInPool
    /\ \A t \in queue : t.proof = "collection" /\ ~t.own
    /\ \A t \in updates \cup proved : Merged(t)
    /\ \A s, t \in queue : Key(s) = Key(t) => s = t
    /\ \A s, t \in updates : Key(s) = Key(t) => s = t

(* What the loop knows of the transaction at hand on its way to a merge.      *)
OnTheWay ==
    /\ at \in {"tip", "sync", "gobble", "build", "merge", "submit"} => cur.proof = "single"
    /\ at = "submit" => cur.own
    /\ at \in {"gobble", "build", "merge"} => cur.ms = second
    /\ at = "build" => HeldAt(aim) = {}

UpgraderInv == UpgraderTypes /\ KindsAreKept /\ OnTheWay /\ CacheIsKeyed /\ PanicNeedsTwoTips

(* The code's types of what a step makes.                                     *)
LEMMA NothingIsATx == Nothing \in UpgraderTx /\ Nothing.ms = 0 /\ Nothing.id = "none"
  BY DEF Nothing, UpgraderTx

(* The fields of a transaction, and of one that is marked as the node's own.  *)
LEMMA TxFields ==
  ASSUME NEW t \in UpgraderTx
  PROVE  /\ t.own \in BOOLEAN /\ t.proof \in {"none", "collection", "single"}
         /\ t.ms \in Int /\ t.pms \in Int
         /\ [t EXCEPT !.own = TRUE] \in UpgraderTx
         /\ [t EXCEPT !.own = TRUE].own /\ [t EXCEPT !.own = TRUE].proof = t.proof
         /\ [t EXCEPT !.own = TRUE].ms = t.ms
  BY Zenon DEF UpgraderTx

(* A transaction that gets a single proof is otherwise the same.              *)
LEMMA Reproved ==
  ASSUME NEW t \in UpgraderTx
  PROVE  /\ [t EXCEPT !.proof = "single"] \in UpgraderTx
         /\ [t EXCEPT !.proof = "single"].proof = "single"
  BY Zenon DEF UpgraderTx

(* What the updater returns is nothing or the same transaction at the tip.    *)
LEMMA SyncedTx ==
  ASSUME NEW t \in UpgraderTx, NEW goal \in Int, NEW broken \in BOOLEAN,
         Synced(t, goal, broken) # Nothing
  PROVE  /\ Synced(t, goal, broken) \in UpgraderTx
         /\ Synced(t, goal, broken).ms = goal
         /\ Synced(t, goal, broken).proof = t.proof
         /\ Synced(t, goal, broken).own = t.own
<1> DEFINE u == [t EXCEPT !.ms = goal, !.pms = goal]
<1>1. u \in UpgraderTx /\ u.ms = goal /\ u.proof = t.proof /\ u.own = t.own
  BY Zenon DEF UpgraderTx
<1> HIDE DEF u
<1>2. Synced(t, goal, broken) = u \/ (Synced(t, goal, broken) = t /\ t.ms = goal)
  BY Zenon DEF Synced, u
<1> QED
  BY <1>1, <1>2, Zenon

(* An entry goes into the cache only if none has its hash.                    *)
LEMMA InsertedKeeps ==
  ASSUME cache \in Seq(Int \X Int), CacheIsKeyed, NEW hash \in Int, HeldAt(hash) = {}
  PROVE  LET c == CacheInsert(hash, hash)
         IN  /\ c \in Seq(Int \X Int)
             /\ \A i \in 1..Len(c) : c[i][1] = c[i][2]
             /\ \A i, j \in 1..Len(c) : c[i][1] = c[j][1] => i = j
             /\ Len(c) <= GobblerCacheSize
<1> DEFINE e == <<hash, hash>>
           kept == <<e>> \o cache
           l == IF Len(kept) > GobblerCacheSize THEN GobblerCacheSize ELSE Len(kept)
           c == SubSeq(kept, 1, l)
<1>1. CacheInsert(hash, hash) = c
  BY Zenon DEF CacheInsert, Retained
<1>2. e \in Int \X Int /\ e[1] = hash /\ e[2] = hash
  BY Zenon
<1> HIDE DEF e
<1>3. /\ kept \in Seq(Int \X Int) /\ Len(kept) = Len(cache) + 1 /\ kept[1] = e
      /\ \A i \in 2..Len(kept) : kept[i] = cache[i - 1] /\ i - 1 \in 1..Len(cache)
      /\ Len(cache) \in Nat
  BY <1>2
<1> HIDE DEF kept
<1>4. l \in Nat /\ l <= Len(kept) /\ l <= GobblerCacheSize
  BY <1>3, CacheAssumption
<1> HIDE DEF l
<1>5. c \in Seq(Int \X Int) /\ Len(c) = l /\ \A i \in 1..l : c[i] = kept[i]
  BY <1>3, <1>4
<1> HIDE DEF c
<1>6. \A i \in 1..l : i = 1 \/ i \in 2..Len(kept)
  BY <1>3, <1>4
<1>7. \A i \in 1..l : c[i][1] = c[i][2]
  <2> TAKE i \in 1..l
  <2>1. CASE i = 1
    BY <1>2, <1>3, <1>5, <2>1, Zenon
  <2>2. CASE i \in 2..Len(kept)
    <3>1. c[i] = cache[i - 1] /\ i - 1 \in 1..Len(cache)
      BY <1>3, <1>5, <2>2, Zenon
    <3>2. cache[i - 1][1] = cache[i - 1][2]
      BY <3>1, Zenon DEF CacheIsKeyed
    <3> QED
      BY <3>1, <3>2, Zenon
  <2> QED
    BY <1>6, <2>1, <2>2, Zenon
<1>8. \A i \in 1..l : i # 1 => c[i][1] # hash
  <2> SUFFICES ASSUME NEW i \in 1..l, i # 1
               PROVE  c[i][1] # hash
    BY Zenon
  <2>1. c[i] = cache[i - 1] /\ i - 1 \in 1..Len(cache)
    BY <1>3, <1>5, <1>6, Zenon
  <2>2. cache[i - 1][1] # hash
    BY <2>1, Zenon DEF HeldAt
  <2> QED
    BY <2>1, <2>2, Zenon
<1>9. ASSUME NEW i \in 1..l, NEW j \in 1..l, c[i][1] = c[j][1]
      PROVE  i = j
  <2>1. c[1][1] = hash
    <3>1. 1 \in 1..l
      BY <1>4
    <3> QED
      BY <1>2, <1>3, <1>5, <3>1, Zenon
  <2>2. CASE i = 1 \/ j = 1
    BY <1>8, <1>9, <2>1, <2>2, Zenon
  <2>3. CASE i # 1 /\ j # 1
    <3>1. cache[i - 1][1] = cache[j - 1][1] /\ i - 1 \in 1..Len(cache) /\ j - 1 \in 1..Len(cache)
      BY <1>3, <1>5, <1>6, <1>9, <2>3, Zenon
    <3>2. i - 1 = j - 1
      BY <3>1, Zenon DEF CacheIsKeyed
    <3> QED
      BY <1>4, <3>2
  <2> QED
    BY <2>2, <2>3, Zenon
<1> QED
  BY <1>1, <1>4, <1>5, <1>7, <1>9, Zenon

-----------------------------------------------------------------------------
(* The steps that leave the transaction at hand alone.                        *)
LEMMA NodeKeeps ==
  ASSUME UpgraderInv,
         \/ \E i \in unsent : Arrives(i)
         \/ \E b \in TipBlock : TipMoves(b)
         \/ \E t \in upool : ReplacedElsewhere(t)
  PROVE  UpgraderInv'
<1>0. UpgraderTypes /\ KindsAreKept
  BY Zenon DEF UpgraderInv
<1>1. UNCHANGED <<queue, updates, cache, at, cur, aim, second, proved>>
  BY Zenon DEF Arrives, TipMoves, ReplacedElsewhere, UpgraderOnly
<1>2. OnTheWay' /\ CacheIsKeyed' /\ PanicNeedsTwoTips'
  BY <1>1, Zenon DEF UpgraderInv, OnTheWay, CacheIsKeyed, PanicNeedsTwoTips, HeldAt
<1>3. PoolTypes' /\ KindInPool'
  <2>1. ASSUME NEW i \in unsent, Arrives(i)
        PROVE  PoolTypes' /\ KindInPool'
    <3> DEFINE t == [id |-> i, own |-> FALSE, proof |-> "collection", ms |-> utip, pms |-> utip]
    <3>1. t \in UpgraderTx /\ t.own = FALSE
      BY <1>0, Zenon DEF UpgraderTypes, PoolTypes, UpgraderTx
    <3> HIDE DEF t
    <3>2. unsent' \subseteq unsent /\ upool' = upool \cup {t} /\ utip' = utip
      BY <2>1, Zenon DEF Arrives, t
    <3> QED
      BY <1>0, <3>1, <3>2, Zenon DEF UpgraderTypes, PoolTypes, KindsAreKept, KindInPool
  <2>2. ASSUME NEW b \in TipBlock, TipMoves(b)
        PROVE  PoolTypes' /\ KindInPool'
    <3>1. b \in Int
      BY DEF TipBlock
    <3>2. unsent' = unsent /\ upool' \subseteq upool /\ utip' = b
      BY <2>2, Zenon DEF TipMoves
    <3> QED
      BY <1>0, <3>1, <3>2, Zenon DEF UpgraderTypes, PoolTypes, KindsAreKept, KindInPool
  <2>3. ASSUME NEW t \in upool, ReplacedElsewhere(t)
        PROVE  PoolTypes' /\ KindInPool'
    <3> DEFINE u == [t EXCEPT !.proof = "single", !.ms = utip, !.pms = utip]
    <3>1. u \in UpgraderTx /\ u.proof = "single"
      BY <1>0, Zenon DEF UpgraderTypes, PoolTypes, UpgraderTx
    <3> HIDE DEF u
    <3>2. unsent' = unsent /\ upool' = (upool \ {t}) \cup {u} /\ utip' = utip
      BY <2>3, Zenon DEF ReplacedElsewhere, u
    <3> QED
      BY <1>0, <3>1, <3>2, Zenon DEF UpgraderTypes, PoolTypes, KindsAreKept, KindInPool
  <2> QED
    BY <2>1, <2>2, <2>3, Zenon
<1> QED
  BY <1>0, <1>1, <1>2, <1>3, Zenon DEF UpgraderInv, UpgraderTypes, KindsAreKept

(* Reading the mempool: scan_mempool.                                         *)
LEMMA ScanKeeps ==
  ASSUME UpgraderInv,
         \/ Transactions \/ GetTransactionProof \/ ReapStale
         \/ \E k \in batch : GetTransactionKernel(k)
  PROVE  UpgraderInv'
<1>0. UpgraderTypes /\ KindsAreKept /\ CacheIsKeyed
  BY Zenon DEF UpgraderInv
<1>1. UNCHANGED <<utip, unsent, upool, cache, aim, second, proved>>
  BY Zenon DEF Transactions, GetTransactionProof, ReapStale, GetTransactionKernel, nodeVars
<1>2. CacheIsKeyed'
  BY <1>0, <1>1, Zenon DEF CacheIsKeyed
<1>3. ASSUME at' \in {"kernel", "proof", "prove"}
      PROVE  OnTheWay' /\ PanicNeedsTwoTips'
  BY <1>3, Zenon DEF OnTheWay, PanicNeedsTwoTips
<1>4. ASSUME queue' \subseteq queue, updates' \subseteq updates
      PROVE  KindsAreKept' /\ queue' \subseteq UpgraderTx /\ updates' \subseteq UpgraderTx
  BY <1>0, <1>1, <1>4, Zenon DEF UpgraderTypes, KindsAreKept, KindInPool
<1>5. ASSUME at' \in {"kernel", "proof", "prove"}, KindsAreKept', cur' \in UpgraderTx,
             queue' \subseteq UpgraderTx, updates' \subseteq UpgraderTx
      PROVE  UpgraderInv'
  BY <1>0, <1>1, <1>2, <1>3, <1>5, Zenon DEF UpgraderInv, UpgraderTypes, PoolTypes
<1>6. CASE Transactions \/ ReapStale
  <2>1. at' = "kernel" \/ at' = "prove"
    BY <1>6, Zenon DEF Transactions, ReapStale
  <2>2. at' \in {"kernel", "proof", "prove"}
    BY <2>1, Zenon
  <2>3. queue' \subseteq queue /\ updates' \subseteq updates /\ cur' = cur
    BY <1>6, Zenon DEF Transactions, ReapStale
  <2> QED
    BY <1>0, <1>4, <1>5, <2>2, <2>3, Zenon DEF UpgraderTypes
<1>7. ASSUME NEW k \in batch, GetTransactionKernel(k)
      PROVE  UpgraderInv'
  <2>1. (at' = at /\ at = "kernel") \/ at' = "proof"
    BY <1>7, Zenon DEF GetTransactionKernel
  <2>2. at' \in {"kernel", "proof", "prove"}
    BY <2>1, Zenon
  <2>3. UNCHANGED <<queue, updates>> /\ (cur' = cur \/ cur' \in upool)
    BY <1>7, Zenon DEF GetTransactionKernel
  <2> QED
    BY <1>0, <1>4, <1>5, <2>2, <2>3, Zenon DEF UpgraderTypes, PoolTypes
<1>8. CASE GetTransactionProof
  <2>1. at' \in {"kernel", "proof", "prove"} /\ cur' \in UpgraderTx
    BY <1>8, NothingIsATx, Zenon DEF GetTransactionProof
  <2>2. CASE UNCHANGED <<queue, updates>>
    BY <1>4, <1>5, <2>1, <2>2, Zenon
  <2>3. ASSUME NEW e \in upool, Key(e) = Key(cur),
               Record([cur EXCEPT !.proof = e.proof, !.pms = e.ms])
        PROVE  UpgraderInv'
    <3> DEFINE t == [cur EXCEPT !.proof = e.proof, !.pms = e.ms]
               k == Key(t)
    <3>1. cur \in UpgraderTx /\ e \in UpgraderTx
      BY <1>0, Zenon DEF UpgraderTypes, PoolTypes
    <3>2. t \in UpgraderTx /\ t.own = e.own /\ t.proof = e.proof
      BY <2>3, <3>1, Zenon DEF UpgraderTx, Key
    <3>3. t.own => t.proof = "single"
      BY <1>0, <3>2, Zenon DEF KindsAreKept, KindInPool
    <3>4. t.proof = "collection" => ~t.own
      BY <3>2, <3>3, "collection" # "single", Zenon
    <3>5. \/ /\ t.proof = "collection" /\ queue' = Without(queue, k) \cup {t}
             /\ updates' = updates
          \/ /\ t.proof = "single" /\ queue' = Without(queue, k)
             /\ \/ updates' = updates \/ updates' = Without(updates, k)
                \/ updates' = Without(updates, k) \cup {t} /\ t.own
      BY <2>3, Zenon DEF Record
    <3> HIDE DEF t
    <3>6. /\ queue' \subseteq UpgraderTx /\ updates' \subseteq UpgraderTx
      BY <1>0, <3>2, <3>5, Zenon DEF UpgraderTypes, Without
    <3>7. /\ \A x \in queue' : x.proof = "collection" /\ ~x.own
          /\ \A x \in updates' : Merged(x)
      BY <1>0, <3>4, <3>5, Zenon DEF KindsAreKept, Without, Merged
    <3>8. \A x, y \in queue' : Key(x) = Key(y) => x = y
      BY <1>0, <3>5, Zenon DEF KindsAreKept, Without
    <3>9. \A x, y \in updates' : Key(x) = Key(y) => x = y
      BY <1>0, <3>5, Zenon DEF KindsAreKept, Without
    <3>10. KindsAreKept'
      BY <1>0, <1>1, <3>7, <3>8, <3>9, Zenon DEF KindsAreKept, KindInPool, Key, Merged
    <3> QED
      BY <1>5, <2>1, <3>6, <3>10, Zenon
  <2> QED
    BY <1>8, <2>2, <2>3, Zenon DEF GetTransactionProof
<1> QED
  BY <1>6, <1>7, <1>8, Zenon

(* One transaction from the queue to its submission.                          *)
LEMMA GivenUp ==
  ASSUME UpgraderInv, StartUpdates, queue' \subseteq queue,
         UNCHANGED <<nodeVars, updates, cache, proved>>
  PROVE  UpgraderInv'
<1>1. at' = "update" /\ cur' \in UpgraderTx /\ aim' \in Int /\ second' \in Int
  BY NothingIsATx DEF StartUpdates
<1>2. OnTheWay' /\ PanicNeedsTwoTips'
  BY <1>1, Zenon DEF OnTheWay, PanicNeedsTwoTips
<1>3. CacheIsKeyed'
  BY Zenon DEF UpgraderInv, CacheIsKeyed
<1>4. UpgraderTypes'
  BY <1>1, Zenon DEF UpgraderInv, UpgraderTypes, PoolTypes, nodeVars
<1>5. KindsAreKept'
  BY Zenon DEF UpgraderInv, KindsAreKept, KindInPool, nodeVars
<1> QED
  BY <1>2, <1>3, <1>4, <1>5, Zenon DEF UpgraderInv

(* The steps of an upgrade up to the second read of the tip keep the          *)
(* invariant.                                                                 *)
LEMMA UpgradeKeeps ==
  ASSUME UpgraderInv, ProveTransaction \/ ReadTip \/ SyncTransaction
  PROVE  UpgraderInv'
<1>0. UpgraderTypes /\ KindsAreKept /\ CacheIsKeyed /\ OnTheWay
  BY Zenon DEF UpgraderInv
<1>1. /\ UNCHANGED <<utip, unsent, upool, updates, cache, proved>>
      /\ queue' \subseteq queue
  BY Zenon DEF ProveTransaction, ReadTip, SyncTransaction, nodeVars
<1>2. CacheIsKeyed' /\ KindsAreKept' /\ queue' \subseteq UpgraderTx
  BY <1>0, <1>1, Zenon DEF CacheIsKeyed, KindsAreKept, KindInPool, UpgraderTypes
<1>3. CASE StartUpdates
  <2>1. UNCHANGED nodeVars
    BY Zenon DEF ProveTransaction, ReadTip, SyncTransaction
  <2> QED
    BY <1>1, <1>3, <2>1, GivenUp, Zenon
<1>4. ASSUME cur' \in UpgraderTx, cur'.proof = "single", aim' \in Int, second' \in Int,
             at' \in {"tip", "sync"} \/ (at' = "gobble" /\ cur'.ms = second')
      PROVE  UpgraderInv'
  <2>1. OnTheWay' /\ PanicNeedsTwoTips'
    BY <1>4, Zenon DEF OnTheWay, PanicNeedsTwoTips
  <2> QED
    BY <1>0, <1>1, <1>2, <1>4, <2>1, Zenon DEF UpgraderInv, UpgraderTypes, PoolTypes
<1>5. CASE ProveTransaction
  <2>1. ASSUME NEW t \in queue, cur' = [t EXCEPT !.proof = "single"], at' = "tip",
               UNCHANGED <<aim, second>>
        PROVE  UpgraderInv'
    <3>1. t \in UpgraderTx /\ aim \in Int /\ second \in Int
      BY <1>0, Zenon DEF UpgraderTypes
    <3>2. cur' \in UpgraderTx /\ cur'.proof = "single"
      BY <2>1, <3>1, Reproved, Zenon
    <3>3. at' \in {"tip", "sync"}
      BY <2>1, Zenon
    <3> QED
      BY <1>4, <2>1, <3>1, <3>2, <3>3, Zenon
  <2> QED
    BY <1>3, <1>5, <2>1, Zenon DEF ProveTransaction
<1>6. CASE ReadTip
  <2>1. cur' = cur /\ at = "tip" /\ at' = "sync" /\ aim' = utip /\ second' = second
    BY <1>6, Zenon DEF ReadTip
  <2>2. cur.proof = "single" /\ at' \in {"tip", "sync"}
    BY <1>0, <2>1, Zenon DEF OnTheWay
  <2> QED
    BY <1>0, <1>4, <2>1, <2>2, Zenon DEF UpgraderTypes, PoolTypes
<1>7. CASE SyncTransaction
  <2>1. at = "sync"
    BY <1>7, Zenon DEF SyncTransaction
  <2>2. cur.proof = "single"
    BY <1>0, <2>1, Zenon DEF OnTheWay
  <2>3. ASSUME NEW broken \in BOOLEAN, Synced(cur, utip, broken) # Nothing,
               cur' = Synced(cur, utip, broken), second' = utip, at' = "gobble", aim' = aim
        PROVE  UpgraderInv'
    <3>1. cur \in UpgraderTx /\ utip \in Int /\ aim \in Int
      BY <1>0, Zenon DEF UpgraderTypes, PoolTypes
    <3>2. cur' \in UpgraderTx /\ cur'.ms = utip /\ cur'.proof = cur.proof
      BY <2>3, <3>1, SyncedTx, Zenon
    <3> QED
      BY <1>4, <2>2, <2>3, <3>1, <3>2, Zenon
  <2> QED
    BY <1>3, <1>7, <2>3, Zenon DEF SyncTransaction
<1> QED
  BY <1>5, <1>6, <1>7, Zenon

(* The steps that find or build the fee collecting transaction and merge it   *)
(* keep the invariant.                                                        *)
LEMMA GobbleKeeps ==
  ASSUME UpgraderInv, FetchGobbler \/ BuildFromScratch \/ Gobble
  PROVE  UpgraderInv'
<1>0. /\ UpgraderTypes /\ KindsAreKept /\ CacheIsKeyed /\ OnTheWay
      /\ cur \in UpgraderTx /\ aim \in Int /\ second \in Int /\ cache \in Seq(Int \X Int)
  BY Zenon DEF UpgraderInv, UpgraderTypes
<1>1. UNCHANGED <<nodeVars, queue, updates, proved>>
  BY Zenon DEF FetchGobbler, BuildFromScratch, Gobble
<1>2. at \in {"gobble", "build", "merge"} /\ cur.proof = "single" /\ cur.ms = second
  <2>1. at = "gobble" \/ at = "build" \/ at = "merge"
    BY Zenon DEF FetchGobbler, BuildFromScratch, Gobble
  <2> QED
    BY <1>0, <2>1, Zenon DEF OnTheWay
<1>3. KindsAreKept'
  BY <1>0, <1>1, Zenon DEF KindsAreKept, KindInPool, nodeVars
<1>4. CASE StartUpdates /\ cache' = cache
  BY <1>1, <1>4, GivenUp, Zenon
<1>5. ASSUME CacheIsKeyed', cache' \in Seq(Int \X Int), OnTheWay', PanicNeedsTwoTips',
             cur' \in UpgraderTx, aim' = aim, second' = second
      PROVE  UpgraderInv'
  BY <1>0, <1>1, <1>3, <1>5, Zenon DEF UpgraderInv, UpgraderTypes, PoolTypes, nodeVars
<1>6. ASSUME cache' = cache \/ (HeldAt(aim) = {} /\ cache' = CacheInsert(aim, aim))
      PROVE  CacheIsKeyed' /\ cache' \in Seq(Int \X Int)
  <2>1. CASE cache' = cache
    BY <1>0, <2>1, Zenon DEF CacheIsKeyed
  <2>2. CASE HeldAt(aim) = {} /\ cache' = CacheInsert(aim, aim)
    BY <1>0, <2>2, InsertedKeeps, Zenon DEF CacheIsKeyed
  <2> QED
    BY <1>6, <2>1, <2>2, Zenon
<1>7. ASSUME UNCHANGED <<cur, aim, second>>,
             at' = "merge" \/ (at' = "build" /\ cache' = cache /\ HeldAt(aim) = {}),
             cache' = cache \/ (HeldAt(aim) = {} /\ cache' = CacheInsert(aim, aim))
      PROVE  UpgraderInv'
  <2>1. PanicNeedsTwoTips'
    BY <1>7, Zenon DEF PanicNeedsTwoTips
  <2>2. at' = "build" => HeldAt(aim)' = {}
    BY <1>7, "merge" # "build", Zenon DEF HeldAt
  <2>3. at' # "submit"
    BY <1>7, Zenon
  <2>4. OnTheWay'
    BY <1>2, <1>7, <2>2, <2>3, Zenon DEF OnTheWay
  <2> QED
    BY <1>0, <1>5, <1>6, <1>7, <2>1, <2>4, Zenon
<1>8. CASE FetchGobbler
  <2>1. Cached(aim) = {} => HeldAt(aim) = {}
    BY Zenon DEF Cached
  <2>2. UNCHANGED <<cur, aim, second>>
    BY <1>8, Zenon DEF FetchGobbler
  <2>3. \/ at' = "merge" /\ cache' = cache
        \/ at' = "merge" /\ HeldAt(aim) = {} /\ cache' = CacheInsert(aim, aim)
        \/ at' = "build" /\ cache' = cache /\ HeldAt(aim) = {}
    BY <1>8, <2>1, Zenon DEF FetchGobbler
  <2> QED
    BY <1>7, <2>2, <2>3, Zenon
<1>9. CASE BuildFromScratch
  <2>1. at = "build"
    BY <1>9, Zenon DEF BuildFromScratch
  <2>2. HeldAt(aim) = {}
    BY <1>0, <2>1, Zenon DEF OnTheWay
  <2>3. \/ StartUpdates /\ cache' = cache
        \/ /\ cache' = CacheInsert(aim, aim) /\ at' = "merge" /\ UNCHANGED <<cur, aim, second>>
    BY <1>9, Zenon DEF BuildFromScratch
  <2> QED
    BY <1>4, <1>7, <2>2, <2>3, Zenon
<1>10. CASE Gobble
  <2>1. PICK g \in Cached(aim) :
          \/ /\ g[2] # cur.ms /\ at' = "panicked" /\ UNCHANGED <<cur, aim, second>>
          \/ StartUpdates
          \/ /\ cur' = [cur EXCEPT !.own = TRUE] /\ at' = "submit"
             /\ UNCHANGED <<aim, second>>
    BY <1>10, Zenon DEF Gobble
  <2>2. cache' = cache
    BY <1>10, Zenon DEF Gobble
  <2>3. CASE StartUpdates
    BY <1>4, <2>2, <2>3, Zenon
  <2>4. CASE g[2] # cur.ms /\ at' = "panicked" /\ UNCHANGED <<cur, aim, second>>
    <3>1. PICK i \in 1..Len(cache) : g = cache[i] /\ cache[i][1] = aim
      BY Zenon DEF Cached, HeldAt
    <3>2. g[2] = aim
      BY <1>0, <3>1, Zenon DEF CacheIsKeyed
    <3>3. PanicNeedsTwoTips'
      BY <1>2, <2>4, <3>2, Zenon DEF PanicNeedsTwoTips
    <3>4. OnTheWay'
      BY <2>4, Zenon DEF OnTheWay
    <3> QED
      BY <1>0, <1>5, <1>6, <2>2, <2>4, <3>3, <3>4, Zenon
  <2>5. CASE cur' = [cur EXCEPT !.own = TRUE] /\ at' = "submit" /\ UNCHANGED <<aim, second>>
    <3>1. cur' \in UpgraderTx /\ cur'.own /\ cur'.proof = cur.proof
      BY <1>0, <2>5, TxFields, Zenon
    <3>2. at' \notin {"gobble", "build", "merge", "panicked"}
      BY <2>5, Zenon
    <3>3. OnTheWay'
      BY <1>2, <3>1, <3>2, Zenon DEF OnTheWay
    <3>4. PanicNeedsTwoTips'
      BY <3>2, Zenon DEF PanicNeedsTwoTips
    <3> QED
      BY <1>0, <1>5, <1>6, <2>2, <2>5, <3>1, <3>3, <3>4, Zenon
  <2> QED
    BY <2>1, <2>3, <2>4, <2>5, Zenon
<1> QED
  BY <1>8, <1>9, <1>10, Zenon

(* The node takes a transaction with a single proof or leaves it.             *)
LEMMA Submitted ==
  ASSUME UpgraderInv, NEW t \in UpgraderTx, t.proof = "single", SubmitTo(t),
         UNCHANGED <<utip, unsent>>
  PROVE  PoolTypes' /\ KindInPool'
<1>1. upool' \subseteq upool \cup {t}
  BY Zenon DEF SubmitTo
<1> QED
  BY <1>1, Zenon DEF UpgraderInv, UpgraderTypes, PoolTypes, KindsAreKept, KindInPool

(* Submitting a transaction and updating one keep the invariant.              *)
LEMMA SubmitKeeps ==
  ASSUME UpgraderInv,
         \/ SubmitUpgraded \/ ResubmitUpdated
         \/ \E k \in batch : SyncTransactionById(k)
  PROVE  UpgraderInv'
<1>0. UpgraderTypes /\ KindsAreKept /\ CacheIsKeyed /\ OnTheWay
  BY Zenon DEF UpgraderInv
<1>1. UNCHANGED <<utip, unsent, queue, cache>>
  BY Zenon DEF SubmitUpgraded, ResubmitUpdated, SyncTransactionById, nodeVars
<1>2. CacheIsKeyed'
  BY <1>0, <1>1, Zenon DEF CacheIsKeyed
<1>3. ASSUME at' \in {"update", "tick"}
      PROVE  OnTheWay' /\ PanicNeedsTwoTips'
  BY <1>3, Zenon DEF OnTheWay, PanicNeedsTwoTips
<1>4. ASSUME at' \in {"update", "tick"}, PoolTypes', KindInPool', updates' \subseteq updates,
             proved' \subseteq UpgraderTx, \A t \in proved' : Merged(t),
             cur' \in UpgraderTx, aim' \in Int, second' \in Int
      PROVE  UpgraderInv'
  <2>1. KindsAreKept'
    BY <1>0, <1>1, <1>4, Zenon DEF KindsAreKept, Merged
  <2> QED
    BY <1>0, <1>1, <1>2, <1>3, <1>4, <2>1, Zenon DEF UpgraderInv, UpgraderTypes
<1>5. CASE SubmitUpgraded
  <2>1. /\ at = "submit" /\ SubmitTo(cur) /\ StartUpdates
        /\ UNCHANGED <<utip, unsent, updates, proved>>
    BY <1>5, Zenon DEF SubmitUpgraded
  <2>2. cur.proof = "single" /\ at' \in {"update", "tick"}
    BY <1>0, <2>1, Zenon DEF OnTheWay, StartUpdates
  <2>3. PoolTypes' /\ KindInPool'
    BY <1>0, <2>1, <2>2, Submitted, Zenon DEF UpgraderTypes
  <2>4. cur' \in UpgraderTx /\ aim' \in Int /\ second' \in Int
    BY <2>1, NothingIsATx DEF StartUpdates
  <2>5. proved' \subseteq UpgraderTx /\ \A t \in proved' : Merged(t)
    BY <1>0, <2>1, Zenon DEF UpgraderTypes, KindsAreKept
  <2> QED
    BY <1>4, <2>1, <2>2, <2>3, <2>4, <2>5, Zenon
<1>6. CASE ResubmitUpdated
  <2>1. at = "update" /\ UNCHANGED <<utip, unsent, updates, cur, aim, second>>
    BY <1>6, Zenon DEF ResubmitUpdated
  <2>2. CASE at' = "tick" /\ UNCHANGED <<upool, proved>>
    <3>1. at' \in {"update", "tick"}
      BY <2>2, Zenon
    <3> QED
      BY <1>0, <1>4, <2>1, <2>2, <3>1, Zenon
         DEF UpgraderTypes, PoolTypes, KindsAreKept, KindInPool
  <2>3. ASSUME NEW t \in proved, SubmitTo(t), proved' = proved \ {t}, UNCHANGED at
        PROVE  UpgraderInv'
    <3>1. at' \in {"update", "tick"}
      BY <2>1, <2>3, Zenon
    <3>2. t \in UpgraderTx /\ t.proof = "single"
      BY <1>0, Zenon DEF UpgraderTypes, KindsAreKept, Merged
    <3>3. PoolTypes' /\ KindInPool'
      BY <2>1, <2>3, <3>2, Submitted, Zenon
    <3>4. proved' \subseteq UpgraderTx /\ \A x \in proved' : Merged(x)
      BY <1>0, <2>3, Zenon DEF UpgraderTypes, KindsAreKept
    <3> QED
      BY <1>0, <1>4, <2>1, <3>1, <3>3, <3>4, Zenon DEF UpgraderTypes
  <2> QED
    BY <1>6, <2>2, <2>3, Zenon DEF ResubmitUpdated
<1>7. ASSUME NEW k \in batch, SyncTransactionById(k)
      PROVE  UpgraderInv'
  <2>1. PICK t \in updates, broken \in BOOLEAN :
          /\ updates' = updates \ {t}
          /\ proved' = proved \cup ({Synced(t, utip, broken)} \ {Nothing})
    BY <1>7, Zenon DEF SyncTransactionById
  <2>2. at = "update" /\ UNCHANGED <<utip, unsent, upool, at, cur, aim, second>>
    BY <1>7, Zenon DEF SyncTransactionById, nodeVars
  <2>3. at' \in {"update", "tick"}
    BY <2>2, Zenon
  <2>4. t \in UpgraderTx /\ Merged(t) /\ utip \in Int
    BY <1>0, Zenon DEF UpgraderTypes, PoolTypes, KindsAreKept
  <2>5. Synced(t, utip, broken) # Nothing =>
          Synced(t, utip, broken) \in UpgraderTx /\ Merged(Synced(t, utip, broken))
    <3> SUFFICES ASSUME Synced(t, utip, broken) # Nothing
                 PROVE  /\ Synced(t, utip, broken) \in UpgraderTx
                        /\ Merged(Synced(t, utip, broken))
      BY Zenon
    <3>1. /\ Synced(t, utip, broken) \in UpgraderTx
          /\ Synced(t, utip, broken).proof = t.proof
          /\ Synced(t, utip, broken).own = t.own
      BY <2>4, SyncedTx, Zenon
    <3> QED
      BY <2>4, <3>1, Zenon DEF Merged
  <2>6. proved' \subseteq UpgraderTx /\ \A x \in proved' : Merged(x)
    BY <1>0, <2>1, <2>5, Zenon DEF UpgraderTypes, KindsAreKept
  <2> QED
    BY <1>0, <1>4, <2>1, <2>2, <2>3, <2>6, Zenon
       DEF UpgraderTypes, PoolTypes, KindsAreKept, KindInPool
<1> QED
  BY <1>5, <1>6, <1>7, Zenon

(* The invariant holds when the upgrader starts.                              *)
LEMMA UpgraderStarts == UInit => UpgraderInv
<1> SUFFICES ASSUME UInit
             PROVE  UpgraderInv
  BY Zenon
<1>1. <<>> \in Seq(Int \X Int) /\ Len(<<>>) = 0 /\ 1..0 = {} /\ 0 \in Int
      /\ 0 <= GobblerCacheSize
  BY CacheAssumption
<1>2. at = "tick"
  BY Zenon DEF UInit
<1>3. OnTheWay /\ PanicNeedsTwoTips
  BY <1>2, Zenon DEF OnTheWay, PanicNeedsTwoTips
<1>4. UpgraderTypes /\ KindsAreKept /\ CacheIsKeyed
  BY <1>1, NothingIsATx, Zenon DEF UInit, UpgraderTypes, PoolTypes, KindsAreKept, KindInPool,
     CacheIsKeyed
<1> QED
  BY <1>3, <1>4, Zenon DEF UpgraderInv

(* Every step keeps the invariant.                                            *)
LEMMA UpgraderSteps == UpgraderInv /\ [UNext]_uvars => UpgraderInv'
<1>1. ASSUME UpgraderInv, UNCHANGED uvars
      PROVE  UpgraderInv'
  BY <1>1, Zenon DEF uvars, UpgraderInv, UpgraderTypes, PoolTypes, KindsAreKept, KindInPool,
     OnTheWay, CacheIsKeyed, PanicNeedsTwoTips, HeldAt
<1> QED
  BY <1>1, NodeKeeps, ScanKeeps, UpgradeKeeps, GobbleKeeps, SubmitKeeps, Zenon
     DEF UNext, UpgraderStep

(* The invariant is at least as strong as the property.                       *)
LEMMA UpgraderHolds == UpgraderInv => UpgraderIsSound
<1> SUFFICES ASSUME UpgraderInv
             PROVE  QueuesHoldTheirKind
  BY Zenon DEF UpgraderInv, UpgraderIsSound
<1>1. ASSUME NEW s \in queue, NEW t \in updates
      PROVE  Key(s) # Key(t)
  <2>1. ~s.own /\ t.own
    BY Zenon DEF UpgraderInv, KindsAreKept, Merged
  <2> QED
    BY <2>1, Zenon DEF Key
<1> QED
  BY <1>1, Zenon DEF UpgraderInv, KindsAreKept, Merged, QueuesHoldTheirKind

(* For every cache size, any transactions and any tree of tips, whatever the  *)
(* node does between two calls: the upgrader's queues hold what their         *)
(* consumers assert, the gobbler's cache answers for the mutator set it is    *)
(* asked about, and only a tip that changes between the two reads of          *)
(* submit_upgraded_transaction ends the program.                              *)
THEOREM UpgraderStaysSound == USpec => []UpgraderIsSound
<1>1. UInit => UpgraderInv
  BY UpgraderStarts, Zenon
<1>2. UpgraderInv /\ [UNext]_uvars => UpgraderInv'
  BY UpgraderSteps, Zenon
<1>3. UpgraderInv => UpgraderIsSound
  BY UpgraderHolds, Zenon
<1> QED
  BY <1>1, <1>2, <1>3, PTL DEF USpec
=============================================================================
