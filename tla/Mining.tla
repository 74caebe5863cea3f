------------------------------- MODULE Mining -------------------------------
(* How the next block comes about: the node's tip and its best block       *)
(* proposal, proposals and blocks from peer tasks and over RPC that cross   *)
(* the main loop's two queues, a composer that builds a proposal when the   *)
(* node has none, and a miner that guesses on the best-paying template.    *)
(* A proposal and the block it becomes share a name; validity is being a    *)
(* child of the tip (the rules themselves are in Ledger and HeaderChain).   *)
EXTENDS Forks, Sequences

CONSTANTS Offered,   \* blocks anyone may come to propose
          Reward,    \* what the guesser earns, [Offered -> Nat]
          MinReward, \* the miner's min_reward_fraction of the subsidy
          Capacity   \* of each queue to the main loop

ASSUME MiningAssumption ==
    /\ Genesis \in Tree /\ NoBlock \notin Tree
    /\ Parent \in [Tree \ {Genesis} -> Tree]
    /\ Offered \subseteq Tree \ {Genesis}
    /\ Reward \in [Offered -> Nat]

VARIABLES tip,       \* light state
          stored,    \* blocks in the archival state
          proposal,  \* MiningState::block_proposal
          fromPeers, \* PeerTaskToMain: <<"NewBlocks" | "BlockProposal", block>>
          fromRpc,   \* RPCServerToMain: <<"BlockProposal" | "ProofOfWorkSolution", block>>
          composer,  \* [phase, tip, block] of the BlockBuilder
          miner      \* [reward, task, live, buffer] of Miner and Guesser

wvars == <<tip, stored, proposal, fromPeers, fromRpc, composer, miner>>

Children(b) == {c \in Offered : Parent[c] = b}

\* favor_incoming_block_proposal; the node never composes itself.
Favorable(b) ==
    /\ Parent[b] = tip
    /\ Reward[b] > 0
    /\ proposal # NoBlock => Reward[proposal] < Reward[b]

\* set_new_tip also drops the proposal.
SetNewTip(b) ==
    /\ tip' = b
    /\ stored' = stored \cup {b}
    /\ proposal' = NoBlock

Idle == [phase |-> "idle", tip |-> NoBlock, block |-> NoBlock]

WInit ==
    /\ tip = Genesis /\ stored = {Genesis}
    /\ proposal = NoBlock
    /\ fromPeers = <<>> /\ fromRpc = <<>>
    /\ composer = Idle
    /\ miner = [reward |-> 0, task |-> NoBlock, live |-> FALSE, buffer |-> NoBlock]

----------------------------------------------------------------------------
(* Peer tasks: checks against the tip of now, messages for later.          *)

PeerBlock(b) ==
    /\ Parent[b] \in stored
    /\ MoreCanonical(tip, b)
    /\ Len(fromPeers) < Capacity
    /\ fromPeers' = Append(fromPeers, <<"NewBlocks", b>>)
    /\ UNCHANGED <<tip, stored, proposal, fromRpc, composer, miner>>

PeerProposal(b) ==
    /\ Favorable(b)
    /\ Len(fromPeers) < Capacity
    /\ fromPeers' = Append(fromPeers, <<"BlockProposal", b>>)
    /\ UNCHANGED <<tip, stored, proposal, fromRpc, composer, miner>>

----------------------------------------------------------------------------
(* The main loop.                                                          *)

\* NewBlocks and ProofOfWorkSolution: check and update under one write lock.
NewTipIfCanonicalUnchecked(b) == SetNewTip(b)

NewTipIfCanonical(b) ==
    IF MoreCanonical(tip, b)
    THEN SetNewTip(b)
    ELSE UNCHANGED <<tip, stored, proposal>>

HandlePeerProposal(b) == proposal' = IF Favorable(b) THEN b ELSE proposal

HandlePeerMessage ==
    /\ fromPeers # <<>>
    /\ LET b == Head(fromPeers)[2]
       IN  \/ Head(fromPeers)[1] = "NewBlocks" /\ NewTipIfCanonical(b)
           \/ /\ Head(fromPeers)[1] = "BlockProposal"
              /\ HandlePeerProposal(b)
              /\ UNCHANGED <<tip, stored>>
    /\ fromPeers' = Tail(fromPeers)
    /\ UNCHANGED <<fromRpc, composer, miner>>

\* An unfavourable proposal is logged, and then installed all the same.
HandleRpcProposal(b) == proposal' = b

HandleRpcMessage ==
    /\ fromRpc # <<>>
    /\ LET b == Head(fromRpc)[2]
       IN  \/ Head(fromRpc)[1] = "ProofOfWorkSolution" /\ NewTipIfCanonical(b)
           \/ /\ Head(fromRpc)[1] = "BlockProposal"
              /\ HandleRpcProposal(b)
              /\ UNCHANGED <<tip, stored>>
    /\ fromRpc' = Tail(fromRpc)
    /\ UNCHANGED <<fromPeers, composer, miner>>

----------------------------------------------------------------------------
(* The composer: scan_network every ten seconds, and the builder's task.   *)

\* A finished builder is idle; a running one is halted by a proposal, unless
\* it is past its last look at the cancel channel.
ScanNetwork ==
    IF proposal # NoBlock
    THEN composer' = IF composer.phase = "submit" THEN composer ELSE Idle
    ELSE composer' = IF composer = Idle THEN [composer EXCEPT !.phase = "start"] ELSE composer

\* run_pipeline: the tip is fetched once the task runs.
FetchTip ==
    /\ composer.phase = "start"
    /\ composer' = [composer EXCEPT !.phase = "prove", !.tip = tip]

Compose(b) ==
    /\ composer.phase = "prove"
    /\ Parent[b] = composer.tip
    /\ composer' = [composer EXCEPT !.phase = "submit", !.block = b]

\* A pipeline that fails is logged and over; here it fails where Offered ends.
PipelineFails ==
    /\ composer.phase = "prove"
    /\ Children(composer.tip) = {}
    /\ composer' = Idle

ComposerStep ==
    /\ \/ ScanNetwork
       \/ FetchTip
       \/ PipelineFails
       \/ \E b \in Children(composer.tip) : Compose(b)
    /\ UNCHANGED <<tip, stored, proposal, fromPeers, fromRpc, miner>>

\* submit_block_template: a template that is invalid or not favourable is
\* refused, another one is sent to the main loop.
SubmitTemplate ==
    /\ composer.phase = "submit"
    /\ IF Favorable(composer.block)
       THEN /\ Len(fromRpc) < Capacity
            /\ fromRpc' = Append(fromRpc, <<"BlockProposal", composer.block>>)
       ELSE UNCHANGED fromRpc
    /\ composer' = Idle
    /\ UNCHANGED <<tip, stored, proposal, fromPeers, miner>>

----------------------------------------------------------------------------
(* The miner: scan_templates every five seconds, and the mining task.      *)

BufferForKept(b) == IF miner.buffer = NoBlock THEN Parent[b] ELSE miner.buffer

\* get_or_recompute_buffer: keyed by the digest of the template's parent.
BufferFor(b) == Parent[b]

\* A better-paying template overrides the task; without a template the task
\* is stopped.  A task that ended by itself still counts as running.
ScanTemplates ==
    /\ \/ /\ proposal # NoBlock
          /\ Reward[proposal] >= MinReward
          /\ Reward[proposal] > miner.reward
          /\ miner' = [reward |-> Reward[proposal], task |-> proposal, live |-> TRUE,
                       buffer |-> BufferFor(proposal)]
       \/ /\ proposal = NoBlock
          /\ miner.task # NoBlock
          /\ miner' = [miner EXCEPT !.reward = 0, !.task = NoBlock, !.live = FALSE]
    /\ UNCHANGED <<tip, stored, proposal, fromPeers, fromRpc, composer>>

\* A solution is submitted with submit_block: valid on the tip, it is sent to
\* the main loop and the task ends; refused, the task guesses again.
SubmitBlock ==
    /\ miner.live
    /\ Parent[miner.task] = tip
    /\ Len(fromRpc) < Capacity
    /\ fromRpc' = Append(fromRpc, <<"ProofOfWorkSolution", miner.task>>)
    /\ miner' = [miner EXCEPT !.live = FALSE]
    /\ UNCHANGED <<tip, stored, proposal, fromPeers, composer>>

\* RPC SetTipToStoredBlock.
SetTipToStoredBlock(b) ==
    /\ b \in stored
    /\ SetNewTip(b)
    /\ UNCHANGED <<fromPeers, fromRpc, composer, miner>>

MainLoop == HandlePeerMessage \/ HandleRpcMessage

WNext ==
    \/ \E b \in Offered : PeerBlock(b) \/ PeerProposal(b)
    \/ MainLoop
    \/ ComposerStep
    \/ SubmitTemplate
    \/ ScanTemplates
    \/ SubmitBlock
    \/ \E b \in Tree : SetTipToStoredBlock(b)

\* The main loop and both of the composer's loops are never starved.
WFair ==
    /\ WF_wvars(HandlePeerMessage) /\ WF_wvars(HandleRpcMessage)
    /\ WF_wvars(ComposerStep /\ composer' # composer)
    /\ WF_wvars(SubmitTemplate)

WSpec == WInit /\ [][WNext]_wvars /\ WFair

----------------------------------------------------------------------------
(* What the messages of two queues and two clients may never bring about.   *)

\* A block that waited in a queue is adopted only onto a chain the node has:
\* the parent of every stored block is stored, although the submitted block
\* was checked against an earlier tip.
StoredIsAncestorClosed == \A b \in stored \ {Genesis} : Parent[b] \in stored

\* Except by the operator's set_tip, a tip gives way only to a block that the
\* fork choice prefers to it, not to one preferred to the tip of the moment
\* the message was sent (the race the NewBlocks handler guards against).
TipYieldsToForkChoice ==
    tip' # tip /\ (fromPeers' # fromPeers \/ fromRpc' # fromRpc)
        => ForkChoice(tip, tip') = tip'

\* Only the RPC path can leave the node with a proposal that is not a child
\* of its tip, or pays the guesser no more than the one it replaces: a peer's
\* proposal is judged again when the main loop gets to it.
PeersOnlyImproveProposal ==
    proposal' \notin {proposal, NoBlock} /\ fromRpc' = fromRpc
        => /\ Parent[proposal'] = tip'
           /\ proposal # NoBlock => Reward[proposal'] > Reward[proposal]

\* Whatever waited in a queue is judged again against the state of the moment
\* it is handled, both blocks (against the tip) and peers' proposals (against
\* the tip and the proposal held).
QueuedAreJudgedAgain == [][TipYieldsToForkChoice /\ PeersOnlyImproveProposal]_wvars

\* While the miner guesses, the buffer it guesses with was computed for the
\* parent of its template, also right after a template for another tip took
\* over.
BufferFitsTemplate == miner.live => miner.buffer = Parent[miner.task]

\* The miner works on the node's chain: what is stored has its ancestors, and
\* the guesser's buffer belongs to the template it guesses for.
MinerBuildsOnTheChain == StoredIsAncestorClosed /\ BufferFitsTemplate

\* The RPC BlockProposal handler's comment: the proposal is verified to be
\* still the immediate child of the tip before it is switched to.
ProposalExtendsTip == proposal # NoBlock => Parent[proposal] = tip
=============================================================================
