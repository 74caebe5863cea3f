---------------------------- MODULE Gossip_proofs ----------------------------
(***************************************************************************)
(* Proofs about Gossip, for any two nodes, any tree of blocks and any      *)
(* threshold.  The first part needs nothing of the messages on the wire;   *)
(* the second is about what the messages say.                              *)
(***************************************************************************)
EXTENDS Gossip, WellFoundedInduction, TLAPS

(* The inductive invariant; nothing is assumed of what a message holds.    *)
LInv ==
    /\ \E S : list \in [Node -> Seq(S)]
    /\ ListIsChain
    /\ anchor = [n \in Node |-> anchor[n]]

-----------------------------------------------------------------------------
(* The lists are empty at the start.                                          *)
LEMMA LInvInit == GInit => LInv
<1> SUFFICES ASSUME GInit PROVE LInv
  BY Zenon
<1>1. list = [n \in Node |-> <<>>] /\ anchor = [n \in Node |-> NoBlock]
  BY Zenon DEF GInit
<1>2. list \in [Node -> Seq({})]
  BY <1>1
<1>3. ListIsChain
  BY <1>1 DEF ListIsChain
<1> QED
  BY <1>1, <1>2, <1>3, Zenon DEF LInv

(* try_ensure_path appends a block that is the parent of the last one.     *)
LEMMA GrownIsChain ==
    ASSUME LInv, NEW n \in Node, NEW b, ~PathBroken(n, b),
           list' = [list EXCEPT ![n] = Append(list[n], b)]
    PROVE  (\E S : list' \in [Node -> Seq(S)]) /\ ListIsChain'
<1>1. PICK S : list \in [Node -> Seq(S)]
  BY Zenon DEF LInv
<1> DEFINE l == list[n]
           k == Append(list[n], b)
<1>2. l \in Seq(S) /\ l \in Seq(S \cup {b}) /\ Len(l) \in Nat
  BY <1>1
<1>3. /\ k \in Seq(S \cup {b}) /\ Len(k) = Len(l) + 1 /\ k[Len(l) + 1] = b
      /\ \A i \in 1 .. Len(l) : k[i] = l[i]
  BY <1>2
<1>4. l # <<>> => Parent[l[Len(l)]] = b
  BY Zenon DEF PathBroken
<1>5. \A i \in 1 .. (Len(l) - 1) : Parent[l[i]] = l[i + 1]
  BY Zenon DEF LInv, ListIsChain
<1> HIDE DEF k
<1>6. \A i \in 1 .. (Len(k) - 1) : Parent[k[i]] = k[i + 1]
  <2> SUFFICES ASSUME NEW i \in 1 .. (Len(k) - 1) PROVE Parent[k[i]] = k[i + 1]
    BY Zenon
  <2>1. CASE i = Len(l)
    BY <2>1, <1>2, <1>3, <1>4
  <2>2. CASE i # Len(l)
    <3>1. Len(k) = Len(l) + 1 /\ Len(l) \in Nat
      BY <1>2, <1>3, Zenon
    <3>2. i \in 1 .. (Len(l) - 1) /\ i \in 1 .. Len(l) /\ i + 1 \in 1 .. Len(l)
      BY <2>2, <3>1
    <3> QED
      BY <1>3, <1>5, <3>2, Zenon
  <2> QED
    BY <2>1, <2>2, Zenon
<1>7. list' = [list EXCEPT ![n] = k]
  BY Zenon DEF k
<1>8. list'[n] = k /\ \A o \in Node : o # n => list'[o] = list[o]
  BY <1>1, <1>7, Zenon
<1>9. list' \in [Node -> Seq(S \cup {b})]
  BY <1>1, <1>3, <1>7
<1>10. ListIsChain'
  <2>1. ListIsChain
    BY Zenon DEF LInv
  <2>2. \A o \in Node : o # n =>
          \A i \in 1 .. (Len(list'[o]) - 1) : Parent[list'[o][i]] = list'[o][i + 1]
    <3> SUFFICES ASSUME NEW o \in Node, o # n
                 PROVE  \A i \in 1 .. (Len(list'[o]) - 1) : Parent[list'[o][i]] = list'[o][i + 1]
      BY Zenon
    <3>1. list'[o] = list[o]
      BY <1>8, Zenon
    <3>2. \A i \in 1 .. (Len(list[o]) - 1) : Parent[list[o][i]] = list[o][i + 1]
      BY <2>1, Zenon DEF ListIsChain
    <3> QED
      BY <3>1, <3>2, Zenon
  <2>3. \A i \in 1 .. (Len(list'[n]) - 1) : Parent[list'[n][i]] = list'[n][i + 1]
    BY <1>6, <1>8, Zenon
  <2> QED
    BY <2>2, <2>3, Zenon DEF ListIsChain
<1> QED
  BY <1>9, <1>10, Zenon

(* An emptied list is a chain.                                                *)
LEMMA EmptiedIsChain ==
    ASSUME LInv, NEW n \in Node, list' = [list EXCEPT ![n] = <<>>]
    PROVE  (\E S : list' \in [Node -> Seq(S)]) /\ ListIsChain'
<1>1. PICK S : list \in [Node -> Seq(S)]
  BY Zenon DEF LInv
<1>2. list' \in [Node -> Seq(S)] /\ list'[n] = <<>> /\ \A o \in Node : o # n => list'[o] = list[o]
  BY <1>1
<1>3. ListIsChain'
  BY <1>2 DEF LInv, ListIsChain
<1> QED
  BY <1>2, <1>3, Zenon

-----------------------------------------------------------------------------
(* Only the handler of a block touches the list.                           *)
LEMMA ListSteps ==
    ASSUME GNext
    PROVE  \/ list' = list
           \/ \E n \in Node : list' = [list EXCEPT ![n] = <<>>]
           \/ \E n \in Node : \E b : ~PathBroken(n, b) /\ list' = [list EXCEPT ![n] = Append(list[n], b)]
<1>1. PICK n \in Node :
        \/ Receive(n) \/ MainTakes(n) \/ TellPeer(n)
        \/ \E b \in Tree \ {Genesis} : FromElsewhere(n, b) \/ SyncByThirdPeer(n, b)
        \/ SyncEnds(n)
  BY Zenon DEF GNext
<1>2. CASE Receive(n)
  <2> DEFINE m == Head(wire[n])
  <2>1. \/ Asked(n, m) \/ Notified(n, m) \/ Challenged(n, m) \/ Responded(n, m)
        \/ RequestedByHash(n, m) \/ RequestedByHeight(n, m) \/ BlockInSync(n, m)
        \/ BlockArrived(n, m)
    BY <1>2, Zenon DEF Receive, BlockReceived
  <2> HIDE DEF m
  <2>2. CASE BlockArrived(n, m)
    BY <2>2, Zenon DEF BlockArrived, PathAbandoned
  <2> QED
    BY <2>1, <2>2, Zenon DEF Asked, Notified, Challenged, Responded, RequestedByHash,
                      RequestedByHeight, BlockInSync
<1> QED
  BY <1>1, <1>2, Zenon DEF MainTakes, TellPeer, FromElsewhere, SyncByThirdPeer, SyncEnds

(* Sync mode is entered by the main loop, under the criterion, and nowhere *)
(* else; a champion is replaced only while there is one.                   *)
LEMMA AnchorSteps ==
    ASSUME GNext
    PROVE  \E n \in Node :
             \/ anchor' = anchor
             \/ anchor[n] # NoBlock /\ \E b : anchor' = [anchor EXCEPT ![n] = b]
             \/ \E b : SyncCriterion(n, b) /\ anchor' = [anchor EXCEPT ![n] = b]
<1>1. PICK n \in Node :
        \/ Receive(n) \/ MainTakes(n) \/ TellPeer(n)
        \/ \E b \in Tree \ {Genesis} : FromElsewhere(n, b) \/ SyncByThirdPeer(n, b)
        \/ SyncEnds(n)
  BY Zenon DEF GNext
<1> SUFFICES \/ anchor' = anchor
             \/ anchor[n] # NoBlock /\ \E b : anchor' = [anchor EXCEPT ![n] = b]
             \/ \E b : SyncCriterion(n, b) /\ anchor' = [anchor EXCEPT ![n] = b]
  BY Zenon
<1>2. CASE Receive(n)
  <2> DEFINE m == Head(wire[n])
  <2>1. \/ Asked(n, m) \/ Notified(n, m) \/ Challenged(n, m) \/ Responded(n, m)
        \/ RequestedByHash(n, m) \/ RequestedByHeight(n, m) \/ BlockInSync(n, m)
        \/ BlockArrived(n, m)
    BY <1>2, Zenon DEF Receive, BlockReceived
  <2> HIDE DEF m
  <2> QED
    BY <2>1, Zenon DEF Asked, Notified, Challenged, Responded, RequestedByHash,
                RequestedByHeight, BlockInSync, BlockArrived
<1>3. CASE MainTakes(n)
  BY <1>3, Zenon DEF MainTakes, MainAdopts, MainEntersSync, EnterSync
<1>4. CASE SyncEnds(n)
  BY <1>4, Zenon DEF SyncEnds
<1>5. ASSUME NEW b, SyncByThirdPeer(n, b)
      PROVE  SyncCriterion(n, b) /\ anchor' = [anchor EXCEPT ![n] = b]
  BY <1>5, Zenon DEF SyncByThirdPeer, EnterSync
<1> QED
  BY <1>1, <1>2, <1>3, <1>4, <1>5, Zenon DEF TellPeer, FromElsewhere

(* Every step keeps the lists chains.                                         *)
LEMMA LInvStep == LInv /\ [GNext]_gvars => LInv'
<1> SUFFICES ASSUME LInv, [GNext]_gvars PROVE LInv'
  BY Zenon
<1>1. CASE UNCHANGED gvars
  BY <1>1, Zenon DEF gvars, LInv, ListIsChain
<1>2. CASE GNext
  <2>1. anchor' = [n \in Node |-> anchor'[n]]
    BY <1>2, AnchorSteps, Zenon DEF LInv
  <2>2. (\E S : list' \in [Node -> Seq(S)]) /\ ListIsChain'
    <3>1. CASE list' = list
      BY <3>1, Zenon DEF LInv, ListIsChain
    <3> QED
      BY <1>2, <3>1, ListSteps, GrownIsChain, EmptiedIsChain, Zenon
  <2> QED
    BY <2>1, <2>2, Zenon DEF LInv
<1> QED
  BY <1>1, <1>2, Zenon

(* The lists are always chains.                                               *)
LEMMA LInvAlways == GSpec => []LInv
BY LInvInit, LInvStep, PTL DEF GSpec

(* However the messages of the connection interleave, and wherever the     *)
(* peer's chain moves meanwhile, the reconciliation list leads from parent *)
(* to parent (try_ensure_path).                                            *)
THEOREM ListStaysChain == GSpec => []ListIsChain
<1>1. LInv => ListIsChain
  BY Zenon DEF LInv
<1> QED
  BY <1>1, LInvAlways, PTL

(* A passed challenge that waited in the queue to the main loop, or one of *)
(* a third peer, starts sync mode only towards a tip that is still heavier *)
(* and more than the threshold higher (AddPeerMaxBlockHeight).             *)
THEOREM SyncStartsFarBehind == GSpec => SyncStartsBehind
<1>1. LInv /\ [GNext]_gvars =>
        [\A n \in Node : anchor[n] = NoBlock /\ anchor'[n] # NoBlock
           => Pow[anchor'[n]] > Pow[gtip[n]] /\ Height[anchor'[n]] > Height[gtip[n]] + Threshold]_gvars
  <2> SUFFICES ASSUME LInv, GNext, NEW n \in Node, anchor[n] = NoBlock, anchor'[n] # NoBlock
               PROVE  Pow[anchor'[n]] > Pow[gtip[n]] /\ Height[anchor'[n]] > Height[gtip[n]] + Threshold
    BY Zenon
  <2>1. \E b : SyncCriterion(n, b) /\ anchor'[n] = b
    BY AnchorSteps, Zenon DEF LInv
  <2> QED
    BY <2>1, Zenon DEF SyncCriterion
<1> QED
  BY <1>1, LInvAlways, PTL DEF GSpec, SyncStartsBehind

-----------------------------------------------------------------------------
(* The tree of blocks.                                                     *)

(* A closed set with a block holds its ancestors.                          *)
LEMMA LeastClosed ==
    ASSUME NEW b \in Tree, NEW S \in SUBSET Tree, b \in S, Closed(S)
    PROVE  Ancestors[b] \subseteq S
BY Zenon DEF Ancestors

(* Ancestors are closed under parents, and under taking ancestors.         *)
LEMMA AncestorsClosed ==
    ASSUME NEW b \in Tree
    PROVE  /\ b \in Ancestors[b] /\ Ancestors[b] \in SUBSET Tree
           /\ Closed(Ancestors[b])
           /\ \A a \in Ancestors[b] : Ancestors[a] \subseteq Ancestors[b]
<1>1. b \in Ancestors[b] /\ Ancestors[b] \in SUBSET Tree
  BY Zenon DEF Ancestors
<1>2. Closed(Ancestors[b])
  <2> SUFFICES ASSUME NEW c \in Ancestors[b] \ {Genesis} PROVE Parent[c] \in Ancestors[b]
    BY Zenon DEF Closed
  <2>1. Parent[c] \in Tree
    BY <1>1, TreeAssumption, Zenon
  <2> SUFFICES ASSUME NEW S \in SUBSET Tree, b \in S, Closed(S) PROVE Parent[c] \in S
    BY <2>1, Zenon DEF Ancestors
  <2> QED
    BY LeastClosed, Zenon DEF Closed
<1>3. \A a \in Ancestors[b] : Ancestors[a] \subseteq Ancestors[b]
  BY <1>1, <1>2, LeastClosed, Zenon
<1> QED
  BY <1>1, <1>2, <1>3, Zenon

(* The ancestors of a block are itself and those of its parent.            *)
LEMMA AncestorsUnfold ==
    ASSUME NEW b \in Tree \ {Genesis}
    PROVE  Parent[b] \in Tree /\ Ancestors[b] = {b} \cup Ancestors[Parent[b]]
<1>1. Parent[b] \in Tree
  BY TreeAssumption, Zenon
<1> DEFINE S == {b} \cup Ancestors[Parent[b]]
<1>2. S \in SUBSET Tree /\ b \in S /\ Closed(S)
  BY <1>1, AncestorsClosed, Zenon DEF Closed
<1>3. Ancestors[b] \subseteq S
  BY <1>2, LeastClosed, Zenon
<1>4. Parent[b] \in Ancestors[b]
  BY AncestorsClosed, Zenon DEF Closed
<1>5. S \subseteq Ancestors[b]
  BY <1>4, AncestorsClosed, Zenon
<1> QED
  BY <1>1, <1>3, <1>5, Zenon

(* An ancestor is lower, unless it is the block itself.                    *)
LEMMA AncestorsAreLower ==
    ASSUME NEW b \in Tree, NEW a \in Ancestors[b]
    PROVE  a \in Tree /\ (a = b \/ Height[a] < Height[b])
<1> DEFINE S == {c \in Ancestors[b] : c = b \/ Height[c] < Height[b]}
<1>1. b \in S /\ S \in SUBSET Tree
  BY AncestorsClosed, Zenon
<1>2. Closed(S)
  <2> SUFFICES ASSUME NEW c \in S \ {Genesis} PROVE Parent[c] \in S
    BY Zenon DEF Closed
  <2>1. Parent[c] \in Ancestors[b] /\ c \in Tree /\ Parent[c] \in Tree
    BY <1>1, AncestorsClosed, TreeAssumption, Zenon DEF Closed
  <2>2. Height[c] = Height[Parent[c]] + 1 /\ Height[Parent[c]] \in Nat /\ Height[b] \in Nat
    BY <2>1, TreeAssumption, Zenon
  <2> QED
    BY <2>1, <2>2
<1> QED
  BY <1>1, <1>2, LeastClosed, Zenon

(* Two ancestors of one block: the lower is an ancestor of the higher.     *)
LEMMA AncestorsAreLinear ==
    ASSUME NEW b \in Tree, NEW a \in Ancestors[b], NEW c \in Ancestors[b], Height[a] <= Height[c]
    PROVE  a \in Ancestors[c]
<1> DEFINE S == {x \in Ancestors[b] : x \in Ancestors[c] \/ c \in Ancestors[x]}
<1>1. b \in S /\ S \in SUBSET Tree /\ c \in Tree /\ a \in Tree
  BY AncestorsClosed, Zenon
<1>2. Closed(S)
  <2> SUFFICES ASSUME NEW x \in S \ {Genesis} PROVE Parent[x] \in S
    BY Zenon DEF Closed
  <2>1. Parent[x] \in Ancestors[b] /\ x \in Tree /\ Parent[x] \in Tree
    BY <1>1, AncestorsClosed, TreeAssumption, Zenon DEF Closed
  <2>2. CASE x \in Ancestors[c]
    BY <1>1, <2>1, <2>2, AncestorsClosed, Zenon DEF Closed
  <2>3. CASE c \in Ancestors[x] /\ x \notin Ancestors[c]
    <3>1. c # x
      BY <1>1, <2>3, AncestorsClosed, Zenon
    <3> QED
      BY <2>1, <2>3, <3>1, AncestorsUnfold, Zenon
  <2> QED
    BY <2>2, <2>3, Zenon
<1>3. a \in Ancestors[c] \/ c \in Ancestors[a]
  BY <1>1, <1>2, LeastClosed, Zenon
<1>4. CASE c \in Ancestors[a]
  <2>1. c = a \/ Height[c] < Height[a]
    BY <1>1, <1>4, AncestorsAreLower, Zenon
  <2>2. Height[a] \in Nat /\ Height[c] \in Nat
    BY <1>1, TreeAssumption, Zenon
  <2> QED
    BY <1>1, <2>1, <2>2, AncestorsClosed
<1> QED
  BY <1>3, <1>4, Zenon

(* A non-empty set of naturals has a least element.                        *)
LEMMA LeastNatural ==
    ASSUME NEW H \in SUBSET Nat, NEW x \in H
    PROVE  \E k \in H : \A n \in H : k <= n
<1>1. PICK k \in H : \A n \in H : ~(<<n, k>> \in OpToRel(<, Nat))
  BY WFMin, NatLessThanWellFounded, Zenon
<1>2. ASSUME NEW n \in H, n < k PROVE FALSE
  <2>1. <<n, k>> \in OpToRel(<, Nat)
    BY <1>2, Zenon DEF OpToRel
  <2> QED BY <1>1, <2>1, Zenon
<1> QED
  BY <1>2

(* A chain has a block at every height.                                    *)
LEMMA AncestorAtHeight ==
    ASSUME NEW b \in Tree, NEW h \in 0 .. Height[b]
    PROVE  \E a \in Ancestors[b] : Height[a] = h
<1> SUFFICES ASSUME ~\E a \in Ancestors[b] : Height[a] = h PROVE FALSE
  BY Zenon
<1> DEFINE H == {n \in Nat : \E a \in Ancestors[b] : Height[a] = n /\ n > h}
<1>1. Height[b] \in Nat /\ Ancestors[b] \in SUBSET Tree /\ b \in Ancestors[b]
  BY AncestorsClosed, TreeAssumption, Zenon
<1>2. H \in SUBSET Nat /\ Height[b] \in H
  BY <1>1
<1> HIDE DEF H
<1>3. PICK k \in H : \A n \in H : k <= n
  BY <1>2, LeastNatural, Zenon
<1>4. PICK a \in Ancestors[b] : Height[a] = k /\ k > h /\ k \in Nat
  BY <1>3, Zenon DEF H
<1>5. a \in Tree \ {Genesis}
  BY <1>1, <1>4, TreeAssumption
<1>6. Parent[a] \in Ancestors[b] /\ Height[a] = Height[Parent[a]] + 1 /\ Height[Parent[a]] \in Nat
  BY <1>5, AncestorsClosed, TreeAssumption, Zenon DEF Closed
<1>7. Height[Parent[a]] # h
  BY <1>6, Zenon
<1>8. Height[Parent[a]] \in H
  BY <1>4, <1>6, <1>7 DEF H
<1> QED
  BY <1>3, <1>4, <1>6, <1>8

(* Every block but genesis has a positive height.                          *)
LEMMA OnlyGenesisIsAtZero ==
    ASSUME NEW b \in Tree, b # Genesis
    PROVE  Height[b] \in Nat \ {0}
<1>1. Parent[b] \in Tree /\ Height[b] = Height[Parent[b]] + 1
  BY TreeAssumption, Zenon
<1>2. Height[Parent[b]] \in Nat
  BY <1>1, TreeAssumption, Zenon
<1> QED
  BY <1>1, <1>2

(* The ancestors of an ancestor are ancestors.                             *)
LEMMA AncestorsNest ==
    ASSUME NEW b \in Tree, NEW a \in Ancestors[b]
    PROVE  Ancestors[a] \subseteq Ancestors[b]
<1>1. a \in Tree /\ Ancestors[b] \in SUBSET Tree /\ Closed(Ancestors[b])
  BY AncestorsClosed, Zenon
<1> QED
  BY <1>1, LeastClosed, Zenon

(* No block has less work behind it than genesis.                          *)
LEMMA GenesisIsLightest ==
    ASSUME NEW b \in Tree
    PROVE  Pow[Genesis] <= Pow[b]
<1> DEFINE S == {a \in Ancestors[b] : Pow[a] <= Pow[b]}
<1>1. b \in S /\ S \in SUBSET Tree
  BY AncestorsClosed, TreeAssumption
<1>2. Closed(S)
  <2> SUFFICES ASSUME NEW c \in S \ {Genesis} PROVE Parent[c] \in S
    BY Zenon DEF Closed
  <2>1. Parent[c] \in Ancestors[b] /\ c \in Tree /\ Parent[c] \in Tree
    BY <1>1, AncestorsClosed, TreeAssumption, Zenon DEF Closed
  <2>2. Pow[c] > Pow[Parent[c]] /\ Pow[c] \in Nat /\ Pow[Parent[c]] \in Nat /\ Pow[b] \in Nat
    BY <2>1, TreeAssumption, Zenon
  <2> QED
    BY <2>1, <2>2
<1>3. PICK a \in Ancestors[b] : Height[a] = 0
  BY AncestorAtHeight, TreeAssumption
<1>4. a = Genesis
  BY <1>3, AncestorsClosed, OnlyGenesisIsAtZero, Zenon
<1> QED
  BY <1>1, <1>2, <1>3, <1>4, LeastClosed, Zenon

-----------------------------------------------------------------------------
(* The inductive invariant.                                                *)

Ask == [type : {"ask"}]
Notify == [type : {"notify"}, block : Tree]
Deliver == [type : {"block"}, block : Tree]
ByHash == [type : {"byhash"}, block : Tree]
ByHeight == [type : {"byheight"}, height : Nat]
Challenge == [type : {"challenge"}, block : Tree, height : Nat]
Response == [type : {"response"}, block : Tree, child : Tree]

Message == Ask \cup Notify \cup Deliver \cup ByHash \cup ByHeight \cup Challenge \cup Response

Path == Seq(Tree \ {Genesis}) \ {<<>>}
ToMain == ({"blocks"} \X Path) \cup ({"height"} \X Tree)

Reason == {"challenge", "unprompted", "response", "late", "hash", "height", "fork"}

Types ==
    /\ gtip \in [Node -> Tree] /\ archive \in [Node -> SUBSET Tree]
    /\ list \in [Node -> Seq(Tree \ {Genesis})]
    /\ shared \in [Node -> Nat]
    /\ issued \in [Node -> Tree \cup {NoBlock}]
    /\ anchor \in [Node -> Tree \cup {NoBlock}]
    /\ toMain \in [Node -> Seq(ToMain)]
    /\ toPeer \in [Node -> Tree \cup {NoBlock}]
    /\ wire \in [Node -> Seq(Message)]
    /\ blamed \in [Node -> SUBSET Reason]
    /\ reorged \subseteq Node
    /\ moves \in Nat

(* A node stores the ancestors of what it stores, its tip included.        *)
Archives ==
    \A n \in Node : Genesis \in archive[n] /\ gtip[n] \in archive[n] /\ Closed(archive[n])

(* A path on its way to the main loop starts on a stored block.            *)
Connected(n, path) ==
    /\ Parent[path[1]] \in archive[n]
    /\ \A i \in 1 .. (Len(path) - 1) : Parent[path[i + 1]] = path[i]

Paths ==
    \A n \in Node : \A k \in 1 .. Len(toMain[n]) :
        toMain[n][k][1] = "blocks" => Connected(n, toMain[n][k][2])

(* A former tip is an ancestor of the tip of a node that never reorganized. *)
WasTip(n, b) == n \in reorged \/ b \in Ancestors[gtip[n]]

(* What a message to node n says, of its sender or of n.                   *)
Truthful(n, m) ==
    /\ m.type = "notify" => WasTip(Other(n), m.block)
    /\ m.type = "challenge" =>
         /\ WasTip(n, m.block) /\ Height[m.block] > Threshold
         /\ m.height \in Challenges(m.block)
    /\ m.type = "response" => Other(n) \in reorged \/ m.child \in Ancestors[m.block]
    /\ m.type = "block" => m.block \in archive[Other(n)] \ {Genesis}
    /\ m.type = "byhash" => m.block \in archive[n] \ {Genesis}
    /\ m.type = "byheight" => m.height # 0

Wires ==
    \A n \in Node :
        /\ \A i \in 1 .. Len(wire[n]) : Truthful(n, wire[n][i])
        /\ toPeer[n] # NoBlock => WasTip(n, toPeer[n])

(* The challenge of n on its way, and the response to it.                  *)
Asking(n) == {i \in 1 .. Len(wire[Other(n)]) : wire[Other(n)][i].type = "challenge"}
Answering(n) == {i \in 1 .. Len(wire[n]) : wire[n][i].type = "response"}

(* At most one of the two is under way, for the tip that is noted.         *)
OneChallenge ==
    \A n \in Node :
        /\ \A i, j \in Asking(n) : i = j
        /\ \A i, j \in Answering(n) : i = j
        /\ Asking(n) = {} \/ Answering(n) = {}
        /\ \A i \in Asking(n) : wire[Other(n)][i].block = issued[n]
        /\ \A i \in Answering(n) : wire[n][i].block = issued[n]

(* An issued challenge is under way, or was refused by a peer that left    *)
(* its chain.                                                              *)
Settled ==
    \A n \in Node : issued[n] # NoBlock =>
        \/ Asking(n) # {} \/ Answering(n) # {}
        \/ "challenge" \in blamed[n] /\ Other(n) \in reorged

GInv ==
    /\ Types /\ Archives /\ Paths /\ Wires /\ OneChallenge
    /\ up => Settled
    /\ GrowingPeersAreNotBlamed

-----------------------------------------------------------------------------
(* Basic facts.                                                            *)

(* The other node.                                                         *)
LEMMA Others ==
    ASSUME NEW n \in Node
    PROVE  /\ Other(n) \in Node /\ Other(n) # n /\ Other(Other(n)) = n
           /\ \A p \in Node : p = n \/ p = Other(n)
<1>1. PICK a \in Node, b \in Node : a # b /\ Node = {a, b}
  BY GossipAssumption, Zenon
<1>2. \A p \in Node : Other(p) \in Node /\ Other(p) # p
  <2> SUFFICES ASSUME NEW p \in Node PROVE Other(p) \in Node /\ Other(p) # p
    BY Zenon
  <2>1. \E o \in Node : o # p
    BY <1>1, Zenon
  <2> QED
    BY <2>1, Zenon DEF Other
<1> QED
  BY <1>1, <1>2, Zenon

(* The block a node answers with for a height is on its chain.             *)
LEMMA CanonicalBlock ==
    ASSUME NEW n \in Node, NEW h, gtip[n] \in Tree
    PROVE  IF \E b \in Ancestors[gtip[n]] : Height[b] = h
           THEN /\ Canonical(n, h) \in Ancestors[gtip[n]] /\ Canonical(n, h) \in Tree
                /\ Height[Canonical(n, h)] = h /\ Canonical(n, h) # NoBlock
           ELSE Canonical(n, h) = NoBlock
<1>1. CASE \E b \in Ancestors[gtip[n]] : Height[b] = h
  <2>1. Canonical(n, h) = CHOOSE b \in Ancestors[gtip[n]] : Height[b] = h
    BY <1>1, Zenon DEF Canonical
  <2>2. Canonical(n, h) \in Ancestors[gtip[n]] /\ Height[Canonical(n, h)] = h
    BY <1>1, <2>1, Zenon
  <2> QED
    BY <1>1, <2>2, AncestorsClosed, TreeAssumption, Zenon
<1>2. CASE ~\E b \in Ancestors[gtip[n]] : Height[b] = h
  BY <1>2, Zenon DEF Canonical
<1> QED
  BY <1>1, <1>2, Zenon

(* What is stored is stored with its ancestors.                            *)
LEMMA StoredAncestors ==
    ASSUME Types, Archives, NEW n \in Node, NEW b \in archive[n]
    PROVE  Ancestors[b] \subseteq archive[n]
BY LeastClosed, Zenon DEF Types, Archives

(* The elements of a queue from which the first is taken.                  *)
LEMMA Taken ==
    ASSUME NEW S, NEW q \in Seq(S), q # <<>>
    PROVE  /\ Head(q) = q[1] /\ Head(q) \in S /\ Len(q) \in Nat \ {0} /\ 1 \in 1 .. Len(q)
           /\ Tail(q) \in Seq(S) /\ Len(Tail(q)) = Len(q) - 1
           /\ \A i \in 1 .. Len(Tail(q)) : i + 1 \in 1 .. Len(q) /\ Tail(q)[i] = q[i + 1]
           /\ \A i \in 1 .. Len(q) : i = 1 \/ (i - 1 \in 1 .. Len(Tail(q)) /\ Tail(q)[i - 1] = q[i])
<1>1. Len(q) \in Nat \ {0}
  OBVIOUS
<1>2. Tail(q) \in Seq(S) /\ Len(Tail(q)) = Len(q) - 1
      /\ \A i \in 1 .. Len(Tail(q)) : Tail(q)[i] = q[i + 1]
  BY <1>1
<1> QED
  BY <1>1, <1>2

(* The initial state.                                                      *)
LEMMA GInvInit == GInit => GInv
<1> SUFFICES ASSUME GInit PROVE GInv
  BY Zenon
<1> USE DEF GInit
<1>1. \A n \in Node : Other(n) \in Node
  BY Others, Zenon
<1>2. /\ gtip \in [Node -> Tree] /\ \A n \in Node : Ancestors[gtip[n]] \in SUBSET Tree
      /\ \A n \in Node : Height[gtip[n]] \in Nat
  BY AncestorsClosed, TreeAssumption, Zenon
<1>3. \A n \in Node : wire[n] = <<>> \/ wire[n] = <<[type |-> "ask"]>>
  BY Zenon
<1>4. Types
  <2>1. wire \in [Node -> Seq(Message)]
    <3>1. <<>> \in Seq(Message) /\ <<[type |-> "ask"]>> \in Seq(Message)
      BY DEF Message, Ask
    <3> QED BY <1>3, <3>1, Zenon
  <2>2. shared \in [Node -> Nat]
    BY <1>1, <1>2, Zenon
  <2>3. archive \in [Node -> SUBSET Tree]
    BY <1>2, Zenon
  <2> QED
    BY <1>2, <2>1, <2>2, <2>3 DEF Types
<1>5. Archives
  <2> SUFFICES ASSUME NEW n \in Node
               PROVE  Genesis \in archive[n] /\ gtip[n] \in archive[n] /\ Closed(archive[n])
    BY Zenon DEF Archives
  <2>1. archive[n] = Ancestors[gtip[n]] /\ gtip[n] \in Tree
    BY Zenon
  <2>2. PICK a \in Ancestors[gtip[n]] : Height[a] = 0
    BY <2>1, <1>2, AncestorAtHeight
  <2>3. a = Genesis
    BY <1>2, <2>2, OnlyGenesisIsAtZero, Zenon
  <2> QED
    BY <2>1, <2>2, <2>3, AncestorsClosed, Zenon
<1>6. Paths
  BY DEF Paths
<1>7. \A n \in Node : \A i \in 1 .. Len(wire[n]) : wire[n][i].type = "ask"
  BY <1>3
<1>8. Wires /\ OneChallenge
  <2>1. \A n \in Node : \A i \in 1 .. Len(wire[n]) : Truthful(n, wire[n][i])
    <3> SUFFICES ASSUME NEW n \in Node, NEW i \in 1 .. Len(wire[n])
                 PROVE  Truthful(n, wire[n][i])
      BY Zenon
    <3>1. wire[n][i].type = "ask"
      BY <1>7, Zenon
    <3> QED
      BY <3>1 DEF Truthful
  <2>2. \A n \in Node : Asking(n) = {} /\ Answering(n) = {}
    BY <1>1, <1>7, Zenon DEF Asking, Answering
  <2>3. OneChallenge
    BY <2>2, Zenon DEF OneChallenge
  <2>4. \A n \in Node : toPeer[n] = NoBlock
    BY Zenon
  <2> QED
    BY <2>1, <2>3, <2>4, Zenon DEF Wires
<1>9. Settled /\ GrowingPeersAreNotBlamed
  BY Zenon DEF Settled, GrowingPeersAreNotBlamed
<1> QED
  BY <1>4, <1>5, <1>6, <1>8, <1>9, Zenon DEF GInv

-----------------------------------------------------------------------------
(* The wires.                                                              *)

(* A handler takes the first message and sends at most one to the other.   *)
LEMMA Answered ==
    ASSUME Types, NEW n \in Node, wire[n] # <<>>,
           NEW msgs \in Seq(Message), Len(msgs) \in {0, 1}, Answer(n, msgs)
    PROVE  /\ wire' \in [Node -> Seq(Message)]
           /\ Head(wire[n]) = wire[n][1] /\ wire[n][1] \in Message /\ 1 \in 1 .. Len(wire[n])
           /\ \A i \in 1 .. Len(wire'[n]) : i + 1 \in 1 .. Len(wire[n]) /\ wire'[n][i] = wire[n][i + 1]
           /\ \A i \in 1 .. Len(wire[n]) :
                i = 1 \/ (i - 1 \in 1 .. Len(wire'[n]) /\ wire'[n][i - 1] = wire[n][i])
           /\ \A i \in 1 .. Len(wire[Other(n)]) :
                i \in 1 .. Len(wire'[Other(n)]) /\ wire'[Other(n)][i] = wire[Other(n)][i]
           /\ \A i \in 1 .. Len(wire'[Other(n)]) :
                \/ i \in 1 .. Len(wire[Other(n)])
                \/ i = Len(wire[Other(n)]) + 1 /\ Len(msgs) = 1 /\ wire'[Other(n)][i] = msgs[1]
           /\ Len(msgs) = 1 => /\ Len(wire[Other(n)]) + 1 \in 1 .. Len(wire'[Other(n)])
                               /\ wire'[Other(n)][Len(wire[Other(n)]) + 1] = msgs[1]
           /\ Len(wire[Other(n)]) \in Nat
<1> DEFINE o == Other(n)
<1>1. o \in Node /\ o # n
  BY Others, Zenon
<1>2. wire \in [Node -> Seq(Message)]
  BY Zenon DEF Types
<1> HIDE DEF o
<1>3. wire' = [wire EXCEPT ![n] = Tail(wire[n]), ![o] = wire[o] \o msgs]
  BY <1>1, <1>2, Zenon DEF Answer, o
<1>4. /\ wire'[n] = Tail(wire[n]) /\ wire'[o] = wire[o] \o msgs
      /\ wire' \in [Node -> Seq(Message)]
  <2>1. Tail(wire[n]) \in Seq(Message) /\ wire[o] \o msgs \in Seq(Message)
    BY <1>1, <1>2, Taken
  <2> QED
    BY <1>1, <1>2, <1>3, <2>1, Zenon
<1> DEFINE q == wire[n]
           r == wire[o]
<1>5. q \in Seq(Message) /\ q # <<>> /\ r \in Seq(Message) /\ Len(r) \in Nat
  BY <1>1, <1>2
<1> HIDE DEF q, r
<1>6. /\ Head(q) = q[1] /\ q[1] \in Message /\ 1 \in 1 .. Len(q)
      /\ \A i \in 1 .. Len(Tail(q)) : i + 1 \in 1 .. Len(q) /\ Tail(q)[i] = q[i + 1]
      /\ \A i \in 1 .. Len(q) : i = 1 \/ (i - 1 \in 1 .. Len(Tail(q)) /\ Tail(q)[i - 1] = q[i])
  <2>1. q \in Seq(Message) /\ q # <<>>
    BY <1>5, Zenon
  <2>2. Head(q) = q[1] /\ Head(q) \in Message /\ 1 \in 1 .. Len(q)
    BY <2>1, Taken
  <2> QED
    BY <2>1, <2>2, Taken
<1>7. /\ \A i \in 1 .. Len(r) : i \in 1 .. Len(r \o msgs) /\ (r \o msgs)[i] = r[i]
      /\ \A i \in 1 .. Len(r \o msgs) :
           \/ i \in 1 .. Len(r)
           \/ i = Len(r) + 1 /\ Len(msgs) = 1 /\ (r \o msgs)[i] = msgs[1]
      /\ Len(msgs) = 1 => Len(r) + 1 \in 1 .. Len(r \o msgs) /\ (r \o msgs)[Len(r) + 1] = msgs[1]
  <2>1. /\ Len(r \o msgs) = Len(r) + Len(msgs)
        /\ \A i \in 1 .. Len(r) + Len(msgs) :
             (r \o msgs)[i] = IF i <= Len(r) THEN r[i] ELSE msgs[i - Len(r)]
    BY <1>5
  <2> DEFINE c == r \o msgs
  <2> HIDE DEF c
  <2>2. CASE Len(msgs) = 0
    BY <1>5, <2>1, <2>2 DEF c
  <2>3. CASE Len(msgs) = 1
    <3> DEFINE k == Len(r)
    <3>1. /\ k \in Nat /\ Len(c) = k + 1
          /\ \A i \in 1 .. k + 1 : c[i] = IF i <= k THEN r[i] ELSE msgs[i - k]
      BY <1>5, <2>1, <2>3, Zenon DEF c
    <3> HIDE DEF k
    <3>2. /\ \A i \in 1 .. k : i \in 1 .. Len(c) /\ c[i] = r[i]
          /\ \A i \in 1 .. Len(c) : i \in 1 .. k \/ i = k + 1
          /\ k + 1 \in 1 .. Len(c) /\ c[k + 1] = msgs[1]
      BY <3>1
    <3> QED
      BY <2>3, <3>2, Zenon DEF k, c
  <2> QED
    BY <2>2, <2>3, Zenon
<1> QED
  BY <1>4, <1>5, <1>6, <1>7, Zenon DEF q, r, o

Neutral(m) == m.type \notin {"challenge", "response"}

(* The challenges under way stay as they are.                              *)
Steady == \A p \in Node : /\ Asking(p) # {} => Asking(p)' # {}
                          /\ Answering(p) # {} => Answering(p)' # {}

(* Messages about other things leave the challenges alone.                 *)
LEMMA NeutralAnswer ==
    ASSUME Types, OneChallenge, NEW n \in Node, wire[n] # <<>>,
           NEW msgs \in Seq(Message), Len(msgs) \in {0, 1}, Answer(n, msgs),
           Neutral(Head(wire[n])), Len(msgs) = 1 => Neutral(msgs[1]),
           issued' = issued
    PROVE  OneChallenge' /\ Steady
<1> DEFINE o == Other(n)
<1>1. o \in Node /\ o # n /\ Other(o) = n /\ \A p \in Node : p = n \/ p = o
  BY Others, Zenon
<1>2. /\ \A i \in 1 .. Len(wire'[n]) : i + 1 \in 1 .. Len(wire[n]) /\ wire'[n][i] = wire[n][i + 1]
      /\ \A i \in 1 .. Len(wire[n]) :
           i = 1 \/ (i - 1 \in 1 .. Len(wire'[n]) /\ wire'[n][i - 1] = wire[n][i])
      /\ Neutral(wire[n][1])
  BY Answered, Zenon
<1>3. /\ \A i \in 1 .. Len(wire[o]) : i \in 1 .. Len(wire'[o]) /\ wire'[o][i] = wire[o][i]
      /\ \A i \in 1 .. Len(wire'[o]) : i \in 1 .. Len(wire[o]) \/ Neutral(wire'[o][i])
  BY Answered, Zenon
<1>4. Asking(n)' = Asking(n) /\ Answering(o)' = Answering(o)
  BY <1>1, <1>3, Zenon DEF Asking, Answering, Neutral
<1>5. /\ \A i \in Asking(o)' : i + 1 \in Asking(o) /\ wire'[n][i] = wire[n][i + 1]
      /\ \A i \in Answering(n)' : i + 1 \in Answering(n) /\ wire'[n][i] = wire[n][i + 1]
      /\ \A i \in Asking(o) : i - 1 \in Asking(o)'
      /\ \A i \in Answering(n) : i - 1 \in Answering(n)'
  BY <1>1, <1>2, Zenon DEF Asking, Answering, Neutral
<1>6. \A p \in Node : \A i \in Asking(p)' \cup Answering(p)' : i \in Int
  BY DEF Asking, Answering
<1>7. ASSUME NEW p \in Node
      PROVE  /\ \A i, j \in Asking(p)' : i = j
             /\ \A i, j \in Answering(p)' : i = j
             /\ Asking(p)' = {} \/ Answering(p)' = {}
  <2>1. CASE p = n
    BY <1>4, <1>5, <1>6, <2>1 DEF OneChallenge
  <2>2. CASE p = o
    BY <1>1, <1>4, <1>5, <1>6, <2>2 DEF OneChallenge
  <2> QED BY <1>1, <2>1, <2>2, Zenon
<1>8. ASSUME NEW p \in Node
      PROVE  /\ \A i \in Asking(p)' : wire'[Other(p)][i].block = issued'[p]
             /\ \A i \in Answering(p)' : wire'[p][i].block = issued'[p]
  <2>1. CASE p = n
    <3>1. \A i \in Asking(n)' : wire'[o][i].block = issued'[n]
      BY <1>1, <1>3, <1>4 DEF OneChallenge, Asking
    <3>2. \A i \in Answering(n)' : wire'[n][i].block = issued'[n]
      BY <1>1, <1>5 DEF OneChallenge
    <3> QED BY <2>1, <3>1, <3>2, Zenon
  <2>2. CASE p = o
    <3>1. \A i \in Asking(o)' : wire'[n][i].block = issued'[o]
      BY <1>1, <1>5 DEF OneChallenge
    <3>2. \A i \in Answering(o)' : wire'[o][i].block = issued'[o]
      BY <1>1, <1>3, <1>4 DEF OneChallenge, Answering
    <3> QED BY <1>1, <2>2, <3>1, <3>2, Zenon
  <2> QED BY <1>1, <2>1, <2>2, Zenon
<1>9. Steady
  BY <1>1, <1>4, <1>5, Zenon DEF Steady
<1> QED
  BY <1>7, <1>8, <1>9, Zenon DEF OneChallenge

(* Where challenges and responses are after a message was answered.        *)
LEMMA Tokens ==
    ASSUME Types, NEW n \in Node, wire[n] # <<>>,
           NEW msgs \in Seq(Message), Len(msgs) \in {0, 1}, Answer(n, msgs)
    PROVE  /\ \A i \in Asking(Other(n))' :
                i + 1 \in Asking(Other(n)) /\ wire'[n][i] = wire[n][i + 1] /\ i \in Nat
           /\ \A i \in Answering(n)' : i + 1 \in Answering(n) /\ wire'[n][i] = wire[n][i + 1] /\ i \in Nat
           /\ \A i \in Asking(Other(n)) : i \in Nat /\ (i = 1 \/ i - 1 \in Asking(Other(n))')
           /\ \A i \in Answering(n) : i \in Nat /\ (i = 1 \/ i - 1 \in Answering(n)')
           /\ Asking(n) \subseteq Asking(n)' /\ Answering(Other(n)) \subseteq Answering(Other(n))'
           /\ \A i \in Asking(n)' :
                \/ i \in Asking(n) /\ wire'[Other(n)][i] = wire[Other(n)][i]
                \/ /\ i = Len(wire[Other(n)]) + 1 /\ wire'[Other(n)][i] = msgs[1]
                   /\ Len(msgs) = 1 /\ msgs[1].type = "challenge"
           /\ \A i \in Answering(Other(n))' :
                \/ i \in Answering(Other(n)) /\ wire'[Other(n)][i] = wire[Other(n)][i]
                \/ /\ i = Len(wire[Other(n)]) + 1 /\ wire'[Other(n)][i] = msgs[1]
                   /\ Len(msgs) = 1 /\ msgs[1].type = "response"
           /\ Len(msgs) = 1 /\ msgs[1].type = "challenge" => Asking(n)' # {}
           /\ Len(msgs) = 1 /\ msgs[1].type = "response" => Answering(Other(n))' # {}
<1> DEFINE o == Other(n)
<1>1. o \in Node /\ o # n /\ Other(o) = n
  BY Others, Zenon
<1>2. /\ \A i \in 1 .. Len(wire'[n]) : i + 1 \in 1 .. Len(wire[n]) /\ wire'[n][i] = wire[n][i + 1]
      /\ \A i \in 1 .. Len(wire[n]) :
           i = 1 \/ (i - 1 \in 1 .. Len(wire'[n]) /\ wire'[n][i - 1] = wire[n][i])
  BY Answered, Zenon
<1>3. /\ \A i \in 1 .. Len(wire[o]) : i \in 1 .. Len(wire'[o]) /\ wire'[o][i] = wire[o][i]
      /\ \A i \in 1 .. Len(wire'[o]) :
           \/ i \in 1 .. Len(wire[o])
           \/ i = Len(wire[o]) + 1 /\ Len(msgs) = 1 /\ wire'[o][i] = msgs[1]
      /\ Len(msgs) = 1 => /\ Len(wire[o]) + 1 \in 1 .. Len(wire'[o])
                          /\ wire'[o][Len(wire[o]) + 1] = msgs[1]
  BY Answered, Zenon
<1>4. /\ \A i \in Asking(o)' : i + 1 \in Asking(o) /\ wire'[n][i] = wire[n][i + 1] /\ i \in Nat
      /\ \A i \in Answering(n)' : i + 1 \in Answering(n) /\ wire'[n][i] = wire[n][i + 1] /\ i \in Nat
      /\ \A i \in Asking(o) : i \in Nat /\ (i = 1 \/ i - 1 \in Asking(o)')
      /\ \A i \in Answering(n) : i \in Nat /\ (i = 1 \/ i - 1 \in Answering(n)')
  <2>1. \A i \in Asking(o)' : i + 1 \in Asking(o) /\ wire'[n][i] = wire[n][i + 1] /\ i \in Nat
    BY <1>1, <1>2 DEF Asking
  <2>2. \A i \in Answering(n)' : i + 1 \in Answering(n) /\ wire'[n][i] = wire[n][i + 1] /\ i \in Nat
    BY <1>2 DEF Answering
  <2>3. \A i \in Asking(o) : i \in Nat /\ (i = 1 \/ i - 1 \in Asking(o)')
    BY <1>1, <1>2 DEF Asking
  <2>4. \A i \in Answering(n) : i \in Nat /\ (i = 1 \/ i - 1 \in Answering(n)')
    BY <1>2 DEF Answering
  <2> QED
    BY <2>1, <2>2, <2>3, <2>4, Zenon
<1>5. Asking(n) \subseteq Asking(n)' /\ Answering(o) \subseteq Answering(o)'
  BY <1>3, Zenon DEF Asking, Answering
<1>6. /\ \A i \in Asking(n)' :
            \/ i \in Asking(n) /\ wire'[o][i] = wire[o][i]
            \/ /\ i = Len(wire[o]) + 1 /\ wire'[o][i] = msgs[1]
               /\ Len(msgs) = 1 /\ msgs[1].type = "challenge"
      /\ \A i \in Answering(o)' :
            \/ i \in Answering(o) /\ wire'[o][i] = wire[o][i]
            \/ /\ i = Len(wire[o]) + 1 /\ wire'[o][i] = msgs[1]
               /\ Len(msgs) = 1 /\ msgs[1].type = "response"
  BY <1>3, Zenon DEF Asking, Answering
<1>7. /\ Len(msgs) = 1 /\ msgs[1].type = "challenge" => Asking(n)' # {}
      /\ Len(msgs) = 1 /\ msgs[1].type = "response" => Answering(o)' # {}
  BY <1>3, Zenon DEF Asking, Answering
<1> QED
  BY <1>4, <1>5, <1>6, <1>7, Zenon

(* What the messages that are under way say.                               *)
LEMMA TokenBlocks ==
    ASSUME Types, OneChallenge, NEW n \in Node, issued[n] = NoBlock
    PROVE  Asking(n) = {} /\ Answering(n) = {}
<1>1. Other(n) \in Node
  BY Others, Zenon
<1>2. \A i \in Asking(n) : wire[Other(n)][i] \in Challenge
  BY <1>1 DEF Types, Asking, Message, Ask, Notify, Deliver, ByHash, ByHeight, Challenge, Response
<1>3. \A i \in Answering(n) : wire[n][i] \in Response
  BY DEF Types, Answering, Message, Ask, Notify, Deliver, ByHash, ByHeight, Challenge, Response
<1> QED
  BY <1>2, <1>3, TreeAssumption, Zenon DEF OneChallenge, Challenge, Response

(* A challenge is issued when none is under way.                           *)
LEMMA IssuedAnswer ==
    ASSUME Types, OneChallenge, NEW n \in Node, wire[n] # <<>>, Neutral(Head(wire[n])),
           NEW b \in Tree, NEW h \in Nat, issued[n] = NoBlock, issued' = [issued EXCEPT ![n] = b],
           Answer(n, <<[type |-> "challenge", block |-> b, height |-> h]>>)
    PROVE  OneChallenge' /\ Steady /\ Asking(n)' # {}
<1> DEFINE o == Other(n)
           msgs == <<[type |-> "challenge", block |-> b, height |-> h]>>
<1>1. o \in Node /\ o # n /\ Other(o) = n /\ \A p \in Node : p = n \/ p = o
  BY Others, Zenon
<1>2. /\ msgs \in Seq(Message) /\ Len(msgs) = 1 /\ msgs[1].type = "challenge" /\ msgs[1].block = b
      /\ Answer(n, msgs)
  BY DEF Message, Challenge
<1>3. Asking(n) = {} /\ Answering(n) = {}
  BY TokenBlocks, Zenon
<1>4. issued'[n] = b /\ issued'[o] = issued[o]
  BY <1>1, Zenon DEF Types
<1>5. wire[n][1].type \notin {"challenge", "response"}
  BY <1>2, Answered, Zenon DEF Neutral
<1>6. 1 \notin Asking(o) /\ 1 \notin Answering(n)
  BY <1>1, <1>5, Zenon DEF Asking, Answering
<1> HIDE DEF msgs
<1>7. /\ \A i, j \in Asking(n)' : i = j
      /\ \A i \in Asking(n)' : wire'[o][i].block = b
      /\ Answering(n)' = {} /\ Asking(n)' # {}
  BY <1>2, <1>3, Tokens
<1>8. /\ \A i \in Asking(o)' : i + 1 \in Asking(o) /\ wire'[n][i] = wire[n][i + 1] /\ i \in Nat
      /\ \A i \in Asking(o) : i - 1 \in Asking(o)'
  BY <1>2, <1>6, Tokens, Zenon
<1>9. Answering(o)' = Answering(o) /\ \A i \in Answering(o)' : wire'[o][i] = wire[o][i]
  <2>1. \A i \in Answering(o)' : i \in Answering(o) /\ wire'[o][i] = wire[o][i]
    BY <1>2, Tokens, Zenon
  <2>2. Answering(o) \subseteq Answering(o)'
    BY <1>2, Tokens, Zenon
  <2> QED
    BY <2>1, <2>2, Zenon
<1>10. /\ \A i, j \in Asking(o)' : i = j
       /\ \A i, j \in Answering(o)' : i = j
       /\ Asking(o)' = {} \/ Answering(o)' = {}
       /\ \A i \in Asking(o)' : wire'[n][i].block = issued'[o]
       /\ \A i \in Answering(o)' : wire'[o][i].block = issued'[o]
  BY <1>1, <1>4, <1>8, <1>9 DEF OneChallenge
<1>11. OneChallenge'
  BY <1>1, <1>4, <1>7, <1>10 DEF OneChallenge
<1>12. Steady
  BY <1>1, <1>3, <1>8, <1>9, Zenon DEF Steady
<1> QED
  BY <1>7, <1>11, <1>12, Zenon

(* The one challenge of the peer is taken, and a response to it sent or not. *)
LEMMA ChallengedAnswer ==
    ASSUME Types, OneChallenge, NEW n \in Node, wire[n] # <<>>, Head(wire[n]).type = "challenge",
           NEW msgs \in Seq(Message), Len(msgs) \in {0, 1}, Answer(n, msgs), issued' = issued,
           Len(msgs) = 1 => msgs[1].type = "response" /\ msgs[1].block = Head(wire[n]).block
    PROVE  /\ OneChallenge'
           /\ Asking(n) # {} => Asking(n)' # {}
           /\ Answering(n) # {} => Answering(n)' # {}
           /\ Len(msgs) = 1 => Answering(Other(n))' # {}
<1> DEFINE o == Other(n)
<1>1. o \in Node /\ o # n /\ Other(o) = n /\ \A p \in Node : p = n \/ p = o
  BY Others, Zenon
<1>2. Head(wire[n]) = wire[n][1] /\ 1 \in 1 .. Len(wire[n])
  <2>1. wire[n] \in Seq(Message)
    BY Zenon DEF Types
  <2> QED
    BY <2>1, Taken
<1>3. /\ 1 \in Asking(o) /\ 1 \notin Answering(n)
      /\ wire[n][1].block = issued[o]
  <2>1. wire[n][1].type = "challenge"
    BY <1>2, Zenon
  <2>2. 1 \in Asking(o) /\ 1 \notin Answering(n)
    BY <1>1, <1>2, <2>1, Zenon DEF Asking, Answering
  <2> QED
    BY <1>1, <2>2, Zenon DEF OneChallenge
<1>4. (\A i \in Asking(o) : i = 1) /\ Answering(o) = {}
  BY <1>1, <1>3, Zenon DEF OneChallenge
<1>5. Asking(o)' = {}
  <2>1. \A i \in Asking(o)' : i + 1 \in Asking(o) /\ i \in Nat
    BY Tokens, Zenon
  <2>2. \A i \in Asking(o)' : i \in 1 .. Len(wire'[n])
    BY <1>1, Zenon DEF Asking
  <2> QED
    BY <1>4, <2>1, <2>2
<1>6. /\ \A i, j \in Answering(o)' : i = j
      /\ \A i \in Answering(o)' : wire'[o][i].block = issued[o]
      /\ Len(msgs) = 1 => Answering(o)' # {}
  BY <1>2, <1>3, <1>4, Tokens
<1>7. Asking(n)' = Asking(n) /\ \A i \in Asking(n)' : wire'[o][i] = wire[o][i]
  <2>1. \A i \in Asking(n)' : i \in Asking(n) /\ wire'[o][i] = wire[o][i]
    BY Tokens, Zenon
  <2>2. Asking(n) \subseteq Asking(n)'
    BY Tokens, Zenon
  <2> QED
    BY <2>1, <2>2, Zenon
<1>8. /\ \A i \in Answering(n)' : i + 1 \in Answering(n) /\ wire'[n][i] = wire[n][i + 1] /\ i \in Nat
      /\ \A i \in Answering(n) : i - 1 \in Answering(n)'
  BY <1>3, Tokens, Zenon
<1>9. /\ \A i, j \in Asking(n)' : i = j
      /\ \A i, j \in Answering(n)' : i = j
      /\ Asking(n)' = {} \/ Answering(n)' = {}
      /\ \A i \in Asking(n)' : wire'[o][i].block = issued[n]
      /\ \A i \in Answering(n)' : wire'[n][i].block = issued[n]
  BY <1>1, <1>7, <1>8 DEF OneChallenge
<1>10. OneChallenge'
  BY <1>1, <1>5, <1>6, <1>9, ZenonT(30) DEF OneChallenge
<1> QED
  BY <1>6, <1>7, <1>8, <1>10, Zenon

(* The one response is taken, and the challenge is over.                   *)
LEMMA RespondedAnswer ==
    ASSUME Types, OneChallenge, NEW n \in Node, wire[n] # <<>>, Head(wire[n]).type = "response",
           Answer(n, <<>>), issued' = [issued EXCEPT ![n] = NoBlock]
    PROVE  /\ OneChallenge'
           /\ Asking(Other(n)) # {} => Asking(Other(n))' # {}
           /\ Answering(Other(n)) # {} => Answering(Other(n))' # {}
<1> DEFINE o == Other(n)
<1>1. o \in Node /\ o # n /\ Other(o) = n /\ \A p \in Node : p = n \/ p = o
  BY Others, Zenon
<1> DEFINE msgs == <<>>
<1>2. msgs \in Seq(Message) /\ Len(msgs) = 0 /\ Len(msgs) \in {0, 1} /\ Answer(n, msgs)
  OBVIOUS
<1> HIDE DEF msgs
<1>3. Head(wire[n]) = wire[n][1] /\ 1 \in 1 .. Len(wire[n])
  BY <1>2, Answered, Zenon
<1>4. 1 \in Answering(n) /\ 1 \notin Asking(o)
  BY <1>1, <1>3, Zenon DEF Asking, Answering
<1>5. (\A i \in Answering(n) : i = 1) /\ Asking(n) = {}
  BY <1>4, Zenon DEF OneChallenge
<1>6. Answering(n)' = {}
  <2>1. \A i \in Answering(n)' : i + 1 \in Answering(n) /\ i \in Nat
    BY <1>2, Tokens, Zenon
  <2>2. \A i \in Answering(n)' : i \in 1 .. Len(wire'[n])
    BY Zenon DEF Answering
  <2> QED
    BY <1>5, <2>1, <2>2
<1>7. Asking(n)' = {}
  <2>1. \A i \in Asking(n)' : i \in Asking(n) \/ Len(msgs) = 1
    BY <1>2, Tokens, Zenon
  <2> QED
    BY <1>2, <1>5, <2>1
<1>8. Answering(o)' = Answering(o) /\ \A i \in Answering(o)' : wire'[o][i] = wire[o][i]
  <2>1. \A i \in Answering(o)' : (i \in Answering(o) /\ wire'[o][i] = wire[o][i]) \/ Len(msgs) = 1
    BY <1>2, Tokens, ZenonT(30)
  <2>2. Answering(o) \subseteq Answering(o)'
    BY <1>2, Tokens, Zenon
  <2>3. Len(msgs) # 1
    BY <1>2
  <2> QED
    BY <2>1, <2>2, <2>3, Zenon
<1>9. /\ \A i \in Asking(o)' : i + 1 \in Asking(o) /\ wire'[n][i] = wire[n][i + 1] /\ i \in Nat
      /\ \A i \in Asking(o) : i - 1 \in Asking(o)'
  BY <1>2, <1>4, Tokens, ZenonT(30)
<1>10. issued'[o] = issued[o]
  BY <1>1, Zenon DEF Types
<1>11. /\ \A i, j \in Asking(o)' : i = j
       /\ \A i, j \in Answering(o)' : i = j
       /\ Asking(o)' = {} \/ Answering(o)' = {}
       /\ \A i \in Asking(o)' : wire'[n][i].block = issued'[o]
       /\ \A i \in Answering(o)' : wire'[o][i].block = issued'[o]
  BY <1>1, <1>8, <1>9, <1>10 DEF OneChallenge
<1>12. OneChallenge'
  BY <1>1, <1>6, <1>7, <1>11 DEF OneChallenge
<1> QED
  BY <1>8, <1>9, <1>12, Zenon

(* A message about other things is sent.                                   *)
LEMMA Appended ==
    ASSUME Types, NEW n \in Node, NEW m \in Message,
           wire' = [wire EXCEPT ![Other(n)] = Append(@, m)]
    PROVE  /\ wire' \in [Node -> Seq(Message)] /\ wire'[n] = wire[n]
           /\ \A i \in 1 .. Len(wire[Other(n)]) :
                i \in 1 .. Len(wire'[Other(n)]) /\ wire'[Other(n)][i] = wire[Other(n)][i]
           /\ \A i \in 1 .. Len(wire'[Other(n)]) :
                i \in 1 .. Len(wire[Other(n)]) \/ wire'[Other(n)][i] = m
<1> DEFINE o == Other(n)
           r == wire[o]
           c == Append(r, m)
<1>1. o \in Node /\ o # n
  BY Others, Zenon
<1>2. wire \in [Node -> Seq(Message)]
  BY Zenon DEF Types
<1> HIDE DEF o
<1>3. wire' = [wire EXCEPT ![o] = c]
  BY Zenon DEF o
<1>4. r \in Seq(Message) /\ c \in Seq(Message) /\ Len(r) \in Nat /\ Len(c) = Len(r) + 1
  BY <1>1, <1>2
<1>5. (\A i \in 1 .. Len(r) : c[i] = r[i]) /\ c[Len(r) + 1] = m
  BY <1>4
<1> HIDE DEF c, r
<1>6. wire' \in [Node -> Seq(Message)] /\ wire'[n] = wire[n] /\ wire'[o] = c /\ wire[o] = r
  BY <1>1, <1>2, <1>3, <1>4, Zenon DEF r
<1>7. /\ \A i \in 1 .. Len(r) : i \in 1 .. Len(c) /\ c[i] = r[i]
      /\ \A i \in 1 .. Len(c) : i \in 1 .. Len(r) \/ c[i] = m
  BY <1>4, <1>5
<1> QED
  BY <1>6, <1>7, Zenon DEF o

(* A message that is neither a challenge nor a response leaves the challenges *)
(* as they are.                                                               *)
LEMMA NeutralAppended ==
    ASSUME Types, OneChallenge, NEW n \in Node, NEW m \in Message, Neutral(m),
           wire' = [wire EXCEPT ![Other(n)] = Append(@, m)], issued' = issued
    PROVE  OneChallenge' /\ Steady
<1> DEFINE o == Other(n)
<1>1. o \in Node /\ o # n /\ Other(o) = n /\ \A p \in Node : p = n \/ p = o
  BY Others, Zenon
<1>2. wire'[n] = wire[n]
  BY Appended, Zenon
<1>3. /\ \A i \in 1 .. Len(wire[o]) : i \in 1 .. Len(wire'[o]) /\ wire'[o][i] = wire[o][i]
      /\ \A i \in 1 .. Len(wire'[o]) : i \in 1 .. Len(wire[o]) \/ wire'[o][i] = m
  BY Appended, Zenon
<1>4. Asking(n)' = Asking(n) /\ Answering(o)' = Answering(o)
  BY <1>1, <1>3, Zenon DEF Asking, Answering, Neutral
<1>5. Asking(o)' = Asking(o) /\ Answering(n)' = Answering(n)
  BY <1>1, <1>2, Zenon DEF Asking, Answering
<1>6. /\ \A i \in Asking(n) : wire'[o][i] = wire[o][i]
      /\ \A i \in Answering(o) : wire'[o][i] = wire[o][i]
  BY <1>1, <1>3, Zenon DEF Asking, Answering
<1>7. OneChallenge'
  <2>1. ASSUME NEW p \in Node
        PROVE  /\ \A i, j \in Asking(p)' : i = j
               /\ \A i, j \in Answering(p)' : i = j
               /\ Asking(p)' = {} \/ Answering(p)' = {}
    BY <1>1, <1>4, <1>5 DEF OneChallenge
  <2>2. ASSUME NEW p \in Node
        PROVE  /\ \A i \in Asking(p)' : wire'[Other(p)][i].block = issued'[p]
               /\ \A i \in Answering(p)' : wire'[p][i].block = issued'[p]
    <3>1. /\ \A i \in Asking(n)' : wire'[o][i].block = issued'[n]
          /\ \A i \in Answering(n)' : wire'[n][i].block = issued'[n]
      <4>1. /\ \A i \in Asking(n) : wire[o][i].block = issued[n]
            /\ \A i \in Answering(n) : wire[n][i].block = issued[n]
        BY Zenon DEF OneChallenge
      <4> QED
        BY <1>2, <1>4, <1>5, <1>6, <4>1, Zenon
    <3>2. /\ \A i \in Asking(o)' : wire'[n][i].block = issued'[o]
          /\ \A i \in Answering(o)' : wire'[o][i].block = issued'[o]
      <4>1. /\ \A i \in Asking(o) : wire[n][i].block = issued[o]
            /\ \A i \in Answering(o) : wire[o][i].block = issued[o]
        BY <1>1, Zenon DEF OneChallenge
      <4> QED
        BY <1>2, <1>4, <1>5, <1>6, <4>1, Zenon
    <3> QED
      BY <1>1, <3>1, <3>2, ZenonT(30)
  <2> QED
    BY <2>1, <2>2, Zenon DEF OneChallenge
<1>8. Steady
  BY <1>1, <1>4, <1>5, Zenon DEF Steady
<1> QED
  BY <1>7, <1>8, Zenon

-----------------------------------------------------------------------------
(* What every handler keeps.                                               *)

(* A truthful answer keeps the wires truthful.                             *)
LEMMA WiresAnswer ==
    ASSUME Types, Wires, NEW n \in Node, wire[n] # <<>>,
           NEW msgs \in Seq(Message), Len(msgs) \in {0, 1}, Answer(n, msgs),
           Len(msgs) = 1 => Truthful(Other(n), msgs[1]),
           UNCHANGED <<gtip, archive, reorged, toPeer>>
    PROVE  Wires'
<1> DEFINE o == Other(n)
<1>1. o \in Node /\ o # n /\ Other(o) = n /\ \A p \in Node : p = n \/ p = o
  BY Others, Zenon
<1>2. \A i \in 1 .. Len(wire'[n]) : i + 1 \in 1 .. Len(wire[n]) /\ wire'[n][i] = wire[n][i + 1]
  BY Answered, Zenon
<1>3. /\ \A i \in 1 .. Len(wire[o]) : i \in 1 .. Len(wire'[o]) /\ wire'[o][i] = wire[o][i]
      /\ \A i \in 1 .. Len(wire'[o]) :
           i \in 1 .. Len(wire[o]) \/ (Len(msgs) = 1 /\ wire'[o][i] = msgs[1])
  BY Answered, Zenon
<1>4. /\ \A i \in 1 .. Len(wire'[n]) : Truthful(n, wire'[n][i])
      /\ \A i \in 1 .. Len(wire'[o]) : Truthful(o, wire'[o][i])
  BY <1>1, <1>2, <1>3, Zenon DEF Wires
<1>5. \A p \in Node : \A i \in 1 .. Len(wire'[p]) : Truthful(p, wire'[p][i])
  BY <1>1, <1>4, Zenon
<1>6. \A p \in Node : \A i \in 1 .. Len(wire'[p]) : Truthful(p, wire[p][i])'
  <2> SUFFICES ASSUME NEW p \in Node, NEW i \in 1 .. Len(wire'[p])
               PROVE  Truthful(p, wire[p][i])'
    BY Zenon
  <2>1. Truthful(p, wire'[p][i])
    BY <1>5, Zenon
  <2> QED
    BY <2>1, Zenon DEF Truthful, WasTip
<1>7. \A p \in Node : toPeer'[p] # NoBlock => WasTip(p, toPeer[p])'
  BY Zenon DEF Wires, WasTip
<1> QED
  BY <1>6, <1>7, Zenon DEF Wires

(* A sanction is noted for the other node only.                            *)
LEMMA Blamed ==
    ASSUME Types, NEW n \in Node, NEW why \in Reason, Blame(n, why)
    PROVE  /\ blamed' \in [Node -> SUBSET Reason]
           /\ blamed'[Other(n)] = blamed[Other(n)] \cup {why} /\ blamed'[n] = blamed[n]
<1>1. Other(n) \in Node /\ Other(n) # n
  BY Others, Zenon
<1>2. blamed \in [Node -> SUBSET Reason]
  BY Zenon DEF Types
<1> QED
  BY <1>1, <1>2, Zenon DEF Blame

(* A handler of a message that is not about a challenge.                   *)
LEMMA NeutralStep ==
    ASSUME GInv, NEW n \in Node, wire[n] # <<>>, Neutral(Head(wire[n])),
           NEW msgs \in Seq(Message), Len(msgs) \in {0, 1}, Answer(n, msgs),
           Len(msgs) = 1 => Neutral(msgs[1]) /\ Truthful(Other(n), msgs[1]),
           UNCHANGED <<gtip, archive, reorged, toPeer, issued, up>>,
           blamed' = blamed \/ Blame(n, "height") \/ Blame(n, "fork")
    PROVE  /\ wire' \in [Node -> Seq(Message)] /\ blamed' \in [Node -> SUBSET Reason]
           /\ Archives' /\ Wires' /\ OneChallenge' /\ (up' => Settled')
           /\ GrowingPeersAreNotBlamed'
<1> DEFINE o == Other(n)
<1>1. o \in Node /\ o # n /\ Other(o) = n /\ \A p \in Node : p = n \/ p = o
  BY Others, Zenon
<1>2. Types /\ Archives /\ Wires /\ OneChallenge /\ (up => Settled) /\ GrowingPeersAreNotBlamed
  BY Zenon DEF GInv
<1>3. wire' \in [Node -> Seq(Message)]
  BY <1>2, Answered, Zenon
<1>4. Wires'
  BY <1>2, WiresAnswer, Zenon
<1>5. OneChallenge' /\ Steady
  BY <1>2, NeutralAnswer, Zenon
<1>6. Archives'
  BY <1>2, Zenon DEF Archives
<1>7. /\ blamed' \in [Node -> SUBSET Reason]
      /\ \E why \in {"height", "fork"} : \A p \in Node :
            blamed[p] \subseteq blamed'[p] /\ blamed'[p] \subseteq blamed[p] \cup {why}
  <2>1. CASE blamed' = blamed
    BY <1>2, <2>1, Zenon DEF Types
  <2>2. ASSUME NEW why \in {"height", "fork"}, Blame(n, why)
        PROVE  /\ blamed' \in [Node -> SUBSET Reason]
               /\ \A p \in Node : blamed[p] \subseteq blamed'[p] /\ blamed'[p] \subseteq blamed[p] \cup {why}
    <3>1. /\ blamed' \in [Node -> SUBSET Reason]
          /\ blamed'[o] = blamed[o] \cup {why} /\ blamed'[n] = blamed[n]
      <4>1. why \in Reason
        BY Zenon DEF Reason
      <4> QED
        BY <1>2, <2>2, <4>1, Blamed, Zenon
    <3> QED
      BY <1>1, <3>1, Zenon
  <2> QED
    BY <2>1, <2>2, Zenon
<1>8. up' => Settled'
  BY <1>2, <1>5, <1>7, Zenon DEF Settled, Steady
<1>9. GrowingPeersAreNotBlamed'
  BY <1>2, <1>7, Zenon DEF GrowingPeersAreNotBlamed
<1> QED
  BY <1>3, <1>4, <1>5, <1>6, <1>7, <1>8, <1>9, Zenon

-----------------------------------------------------------------------------
(* The handlers.                                                           *)

(* What is known of the message a handler gets.                            *)
LEMMA FirstMessage ==
    ASSUME GInv, NEW n \in Node, wire[n] # <<>>, NEW m, m = Head(wire[n])
    PROVE  /\ m \in Message /\ Truthful(n, m)
           /\ m.type = "notify" => m.block \in Tree
           /\ m.type = "challenge" => m.block \in Tree /\ m.height \in Nat
           /\ m.type = "response" => m.block \in Tree /\ m.child \in Tree
           /\ m.type = "block" => m.block \in Tree
           /\ m.type = "byhash" => m.block \in Tree
           /\ m.type = "byheight" => m.height \in Nat
<1>1. wire[n] \in Seq(Message)
  BY Zenon DEF GInv, Types
<1>2. m = wire[n][1] /\ m \in Message /\ 1 \in 1 .. Len(wire[n])
  BY <1>1, Taken, Zenon
<1>3. Truthful(n, m)
  BY <1>2, Zenon DEF GInv, Wires
<1> QED
  BY <1>2, <1>3, Zenon DEF Message, Ask, Notify, Deliver, ByHash, ByHeight, Challenge, Response

(* A handler that answers with nothing.                                    *)
LEMMA SilentStep ==
    ASSUME GInv, NEW n \in Node, wire[n] # <<>>, Neutral(Head(wire[n])), Answer(n, <<>>),
           UNCHANGED <<gtip, archive, reorged, toPeer, issued, up>>,
           blamed' = blamed \/ Blame(n, "height") \/ Blame(n, "fork")
    PROVE  /\ wire' \in [Node -> Seq(Message)] /\ blamed' \in [Node -> SUBSET Reason]
           /\ Archives' /\ Wires' /\ OneChallenge' /\ (up' => Settled')
           /\ GrowingPeersAreNotBlamed'
<1> DEFINE none == <<>>
<1>1. none \in Seq(Message) /\ Len(none) = 0 /\ Len(none) # 1 /\ Answer(n, none)
  OBVIOUS
<1> HIDE DEF none
<1> QED
  BY <1>1, NeutralStep, Zenon

(* Answering a request for a notification keeps the invariant: the tip it     *)
(* names is the one of the node.                                              *)
LEMMA AskedStep ==
    ASSUME GInv, NEW n \in Node, wire[n] # <<>>, Asked(n, Head(wire[n])), moves' = moves
    PROVE  GInv'
<1> DEFINE x == [type |-> "notify", block |-> gtip[n]]
           msgs == <<x>>
<1>1. Other(n) \in Node /\ Other(Other(n)) = n
  BY Others, Zenon
<1>2. gtip[n] \in Tree
  BY Zenon DEF GInv, Types
<1>3. x \in Message /\ Neutral(x)
  BY <1>2, Zenon DEF Message, Notify, Neutral
<1>4. Truthful(Other(n), x)
  BY <1>1, <1>2, AncestorsClosed, Zenon DEF Truthful, WasTip
<1>5. Neutral(Head(wire[n])) /\ Answer(n, msgs)
  BY Zenon DEF Asked, Neutral
<1>6. UNCHANGED <<gtip, archive, reorged, list, shared, issued, passed, anchor, toMain, toPeer, up, blamed>>
  BY Zenon DEF Asked, Nodes
<1> HIDE DEF x
<1>7. msgs \in Seq(Message) /\ Len(msgs) = 1 /\ msgs[1] = x
  BY <1>3
<1> HIDE DEF msgs
<1>8. /\ wire' \in [Node -> Seq(Message)] /\ Archives' /\ Wires' /\ OneChallenge' /\ (up' => Settled')
      /\ GrowingPeersAreNotBlamed'
  BY <1>3, <1>4, <1>5, <1>6, <1>7, NeutralStep, Zenon
<1>9. Types'
  BY <1>6, <1>8, Zenon DEF GInv, Types
<1>10. Paths'
  BY <1>6, Zenon DEF GInv, Paths, Connected
<1> QED
  BY <1>8, <1>9, <1>10, Zenon DEF GInv

(* The shared state that most handlers leave alone.                        *)
LEMMA RestStep ==
    ASSUME GInv, UNCHANGED <<gtip, archive, reorged, toMain, toPeer, moves>>,
           list' \in [Node -> Seq(Tree \ {Genesis})], shared' \in [Node -> Nat],
           issued' \in [Node -> Tree \cup {NoBlock}], anchor' \in [Node -> Tree \cup {NoBlock}],
           wire' \in [Node -> Seq(Message)], blamed' \in [Node -> SUBSET Reason],
           Wires', OneChallenge', up' => Settled', GrowingPeersAreNotBlamed'
    PROVE  GInv'
<1>1. Types'
  BY Zenon DEF GInv, Types
<1>2. Paths' /\ Archives'
  BY Zenon DEF GInv, Paths, Connected, Archives
<1> QED
  BY <1>1, <1>2, Zenon DEF GInv

(* A request by height is sent, or nothing.                                *)
LEMMA RequestStep ==
    ASSUME GInv, NEW n \in Node, wire[n] # <<>>, Neutral(Head(wire[n])),
           NEW h \in Nat \ {0},
           Answer(n, <<[type |-> "byheight", height |-> h]>>) \/ Answer(n, <<>>),
           UNCHANGED <<gtip, archive, reorged, toPeer, issued, up, blamed>>
    PROVE  /\ wire' \in [Node -> Seq(Message)] /\ blamed' \in [Node -> SUBSET Reason]
           /\ Archives' /\ Wires' /\ OneChallenge' /\ (up' => Settled')
           /\ GrowingPeersAreNotBlamed'
<1> DEFINE x == [type |-> "byheight", height |-> h]
           msgs == <<x>>
<1>1. x \in Message /\ Neutral(x) /\ Truthful(Other(n), x)
  BY Zenon DEF Message, ByHeight, Neutral, Truthful
<1> HIDE DEF x
<1>2. msgs \in Seq(Message) /\ Len(msgs) = 1 /\ msgs[1] = x
  BY <1>1
<1> HIDE DEF msgs
<1>3. CASE Answer(n, msgs)
  BY <1>1, <1>2, <1>3, NeutralStep, Zenon
<1>4. CASE Answer(n, <<>>)
  BY <1>4, SilentStep, Zenon
<1> QED
  BY <1>3, <1>4, Zenon DEF msgs, x

(* A challenge is issued.                                                  *)
LEMMA IssueStep ==
    ASSUME GInv, NEW n \in Node, wire[n] # <<>>, Neutral(Head(wire[n])),
           NEW b \in Tree, NEW h \in Challenges(b), WasTip(Other(n), b), Height[b] > Threshold,
           issued[n] = NoBlock, issued' = [issued EXCEPT ![n] = b],
           Answer(n, <<[type |-> "challenge", block |-> b, height |-> h]>>),
           UNCHANGED <<gtip, archive, reorged, toPeer, up, blamed>>
    PROVE  /\ wire' \in [Node -> Seq(Message)] /\ issued' \in [Node -> Tree \cup {NoBlock}]
           /\ Wires' /\ OneChallenge' /\ (up' => Settled') /\ GrowingPeersAreNotBlamed'
<1> DEFINE x == [type |-> "challenge", block |-> b, height |-> h]
           msgs == <<x>>
<1>1. Other(n) \in Node /\ Other(n) # n /\ \A p \in Node : p = n \/ p = Other(n)
  BY Others, Zenon
<1>2. Types /\ Wires /\ OneChallenge /\ (up => Settled) /\ GrowingPeersAreNotBlamed
  BY Zenon DEF GInv
<1>3. h \in Nat
  BY TreeAssumption DEF Challenges
<1>4. x \in Message /\ Truthful(Other(n), x)
  BY <1>3, Zenon DEF Message, Challenge, Truthful
<1>5. OneChallenge' /\ Steady /\ Asking(n)' # {}
  BY <1>2, <1>3, IssuedAnswer, Zenon
<1> HIDE DEF x
<1>6. msgs \in Seq(Message) /\ Len(msgs) = 1 /\ msgs[1] = x
  BY <1>4
<1>7. Answer(n, msgs)
  BY Zenon DEF x
<1> HIDE DEF msgs
<1>8. wire' \in [Node -> Seq(Message)]
  BY <1>2, <1>6, <1>7, Answered, Zenon
<1>9. Wires'
  BY <1>2, <1>4, <1>6, <1>7, WiresAnswer, Zenon
<1>10. issued' \in [Node -> Tree \cup {NoBlock}] /\ issued'[Other(n)] = issued[Other(n)]
  BY <1>1, <1>2, Zenon DEF Types
<1>11. up' => Settled'
  BY <1>1, <1>2, <1>5, <1>10, Zenon DEF Settled, Steady
<1>12. GrowingPeersAreNotBlamed'
  BY <1>2, Zenon DEF GrowingPeersAreNotBlamed
<1> QED
  BY <1>5, <1>8, <1>9, <1>10, <1>11, <1>12, Zenon

(* Handling a notification keeps the invariant, also where it opens a         *)
(* challenge.                                                                 *)
LEMMA NotifiedStep ==
    ASSUME GInv, NEW n \in Node, wire[n] # <<>>, Notified(n, Head(wire[n])), moves' = moves
    PROVE  GInv'
<1> DEFINE m == Head(wire[n])
<1>1. m.type = "notify" /\ Neutral(m) /\ m.block \in Tree /\ WasTip(Other(n), m.block)
  BY FirstMessage, Zenon DEF Notified, Neutral, Truthful
<1>2. UNCHANGED <<gtip, archive, reorged, list, passed, anchor, toMain, toPeer, up, blamed>>
  BY Zenon DEF Notified, Nodes
<1>3. /\ list' \in [Node -> Seq(Tree \ {Genesis})] /\ anchor' \in [Node -> Tree \cup {NoBlock}]
      /\ blamed' \in [Node -> SUBSET Reason]
      /\ shared \in [Node -> Nat] /\ issued \in [Node -> Tree \cup {NoBlock}]
  BY <1>2, Zenon DEF GInv, Types
<1>4. gtip[n] \in Tree /\ Height[gtip[n]] \in Nat /\ Height[m.block] \in Nat /\ Pow[gtip[n]] \in Nat
  BY <1>1, TreeAssumption, Zenon DEF GInv, Types
<1>5. NotifiedInSync(n, m) \/ NotifiedFarAhead(n, m) \/ NotifiedInCooldown(n, m) \/ NotifiedNear(n, m)
  BY Zenon DEF Notified
<1> HIDE DEF m
<1>6. wire[n] # <<>> /\ Neutral(Head(wire[n]))
  BY <1>1, Zenon DEF m
<1>7. CASE NotifiedInSync(n, m)
  <2>1. UNCHANGED <<issued, shared>>
    BY <1>7, Zenon DEF NotifiedInSync
  <2>2. CASE Height[m.block] = Height[anchor[n]] + 1
    <3>1. Answer(n, <<[type |-> "byheight", height |-> Height[m.block]]>>)
      BY <1>7, <2>2, Zenon DEF NotifiedInSync
    <3>2. anchor[n] \in Tree
      BY <1>7, Zenon DEF NotifiedInSync, GInv, Types
    <3>3. Height[m.block] \in Nat \ {0}
      BY <1>4, <2>2, <3>2, TreeAssumption
    <3> QED
      BY <1>2, <1>3, <1>6, <2>1, <3>1, <3>3, RequestStep, RestStep, Zenon
  <2>3. CASE Height[m.block] # Height[anchor[n]] + 1
    <3>1. Answer(n, <<>>)
      BY <1>7, <2>3, Zenon DEF NotifiedInSync
    <3> QED
      BY <1>2, <1>3, <1>6, <2>1, <3>1, SilentStep, RestStep, Zenon
  <2> QED
    BY <2>2, <2>3, Zenon
<1>8. CASE NotifiedFarAhead(n, m)
  <2>1. UNCHANGED shared
    BY <1>8, Zenon DEF NotifiedFarAhead
  <2>2. CASE issued[n] # NoBlock
    <3>1. Answer(n, <<>>) /\ UNCHANGED issued
      BY <1>8, <2>2, Zenon DEF NotifiedFarAhead
    <3> QED
      BY <1>2, <1>3, <1>6, <2>1, <3>1, SilentStep, RestStep, Zenon
  <2>3. CASE issued[n] = NoBlock
    <3>1. PICK h \in Challenges(m.block) :
             /\ issued' = [issued EXCEPT ![n] = m.block]
             /\ Answer(n, <<[type |-> "challenge", block |-> m.block, height |-> h]>>)
      BY <1>8, <2>3, Zenon DEF NotifiedFarAhead
    <3>2. Height[m.block] > Threshold
      BY <1>4, <1>8, GossipAssumption DEF NotifiedFarAhead, SyncCriterion
    <3>3. /\ wire' \in [Node -> Seq(Message)] /\ issued' \in [Node -> Tree \cup {NoBlock}]
          /\ Wires' /\ OneChallenge' /\ (up' => Settled') /\ GrowingPeersAreNotBlamed'
      BY <1>1, <1>2, <1>6, <2>3, <3>1, <3>2, IssueStep, Zenon
    <3> QED
      BY <1>2, <1>3, <2>1, <3>3, RestStep, Zenon
  <2> QED
    BY <2>2, <2>3, Zenon
<1>9. CASE NotifiedInCooldown(n, m)
  <2>1. Answer(n, <<>>) /\ UNCHANGED issued /\ shared' \in [Node -> Nat]
    BY <1>3, <1>4, <1>9, Zenon DEF NotifiedInCooldown
  <2> QED
    BY <1>2, <1>3, <1>6, <2>1, SilentStep, RestStep, Zenon
<1>10. CASE NotifiedNear(n, m)
  <2>1. UNCHANGED issued /\ shared' \in [Node -> Nat]
    BY <1>3, <1>4, <1>10, Zenon DEF NotifiedNear
  <2>2. CASE Pow[gtip[n]] < Pow[m.block] /\ list[n] = <<>>
    <3>1. Answer(n, <<[type |-> "byheight", height |-> Height[m.block]]>>)
      BY <1>10, <2>2, Zenon DEF NotifiedNear
    <3>2. m.block # Genesis
      BY <1>1, <1>4, <2>2, GenesisIsLightest, TreeAssumption
    <3>3. Height[m.block] \in Nat \ {0}
      BY <1>1, <3>2, OnlyGenesisIsAtZero, Zenon
    <3> QED
      BY <1>2, <1>3, <1>6, <2>1, <3>1, <3>3, RequestStep, RestStep, Zenon
  <2>3. CASE ~(Pow[gtip[n]] < Pow[m.block] /\ list[n] = <<>>)
    <3>1. Answer(n, <<>>)
      BY <1>10, <2>3, Zenon DEF NotifiedNear
    <3> QED
      BY <1>2, <1>3, <1>6, <2>1, <3>1, SilentStep, RestStep, Zenon
  <2> QED
    BY <2>2, <2>3, Zenon
<1> QED
  BY <1>5, <1>7, <1>8, <1>9, <1>10, Zenon

(* A challenge finds no block only on a chain that was left, and what is    *)
(* found on a chain that only grew is an ancestor of the claimed tip.      *)
LEMMA ChallengedBlock ==
    ASSUME GInv, NEW n \in Node, NEW b \in Tree, NEW h \in Challenges(b), WasTip(n, b)
    PROVE  LET child == Canonical(n, h)
           IN  /\ child = NoBlock => n \in reorged
               /\ child # NoBlock => child \in Tree /\ (n \in reorged \/ child \in Ancestors[b])
<1> DEFINE child == Canonical(n, h)
<1>1. gtip[n] \in Tree
  BY Zenon DEF GInv, Types
<1>2. Height[b] \in Nat /\ h \in 0 .. Height[b]
  BY TreeAssumption DEF Challenges
<1>3. child # NoBlock => child \in Tree /\ child \in Ancestors[gtip[n]] /\ Height[child] = h
  BY <1>1, CanonicalBlock, Zenon
<1>4. ASSUME n \notin reorged PROVE child # NoBlock /\ child \in Ancestors[b]
  <2>1. b \in Ancestors[gtip[n]]
    BY <1>4, Zenon DEF WasTip
  <2>2. \E a \in Ancestors[b] : Height[a] = h
    BY <1>2, AncestorAtHeight, Zenon
  <2>3. \E a \in Ancestors[gtip[n]] : Height[a] = h
    BY <1>1, <2>1, <2>2, AncestorsNest, Zenon
  <2>4. child # NoBlock
    BY <1>1, <2>3, CanonicalBlock, Zenon
  <2>5. child \in Ancestors[b]
    BY <1>1, <1>2, <1>3, <2>1, <2>4, AncestorsAreLinear
  <2> QED
    BY <2>4, <2>5, Zenon
<1> QED
  BY <1>3, <1>4, Zenon

(* Handling a challenge keeps the invariant: it is refused only if a node has *)
(* left its chain.                                                            *)
LEMMA ChallengedStep ==
    ASSUME GInv, NEW n \in Node, wire[n] # <<>>, Challenged(n, Head(wire[n])), moves' = moves
    PROVE  GInv'
<1> DEFINE m == Head(wire[n])
           o == Other(n)
           child == Canonical(n, m.height)
<1>1. /\ m.type = "challenge" /\ m.block \in Tree /\ m.height \in Challenges(m.block)
      /\ WasTip(n, m.block) /\ Height[m.block] > Threshold
  BY FirstMessage, Zenon DEF Challenged, Truthful
<1>2. UNCHANGED <<gtip, archive, reorged, list, shared, issued, passed, anchor, toMain, toPeer>>
  BY Zenon DEF Challenged, Nodes
<1>3. /\ list' \in [Node -> Seq(Tree \ {Genesis})] /\ anchor' \in [Node -> Tree \cup {NoBlock}]
      /\ shared' \in [Node -> Nat] /\ issued' \in [Node -> Tree \cup {NoBlock}]
  BY <1>2, Zenon DEF GInv, Types
<1>4. o \in Node /\ o # n /\ Other(o) = n /\ \A p \in Node : p = n \/ p = o
  BY Others, Zenon
<1>5. Types /\ Wires /\ OneChallenge /\ (up => Settled) /\ GrowingPeersAreNotBlamed
  BY Zenon DEF GInv
<1>6. /\ child = NoBlock => n \in reorged
      /\ child # NoBlock => child \in Tree /\ (n \in reorged \/ child \in Ancestors[m.block])
  BY <1>1, ChallengedBlock, Zenon
<1>7. ~(Height[m.block] < WitnessLen)
  BY <1>1, GossipAssumption, TreeAssumption
<1>8. CASE child = NoBlock
  <2>1. Answer(n, <<>>) /\ Blame(n, "challenge") /\ up' = up
    BY <1>8, Zenon DEF Challenged
  <2>2. n \in reorged
    BY <1>6, <1>8, Zenon
  <2>3. "challenge" \in Reason
    BY Zenon DEF Reason
  <2>4. /\ blamed' \in [Node -> SUBSET Reason]
        /\ blamed'[o] = blamed[o] \cup {"challenge"} /\ blamed'[n] = blamed[n]
    BY <1>5, <2>1, <2>3, Blamed, Zenon
  <2> DEFINE none == <<>>
  <2>5. none \in Seq(Message) /\ Len(none) = 0 /\ Len(none) # 1 /\ Len(none) \in {0, 1} /\ Answer(n, none)
    BY <2>1
  <2> HIDE DEF none
  <2>6. wire' \in [Node -> Seq(Message)]
    BY <1>5, <2>5, Answered, Zenon
  <2>7. Wires'
    BY <1>2, <1>5, <2>5, WiresAnswer, Zenon
  <2>8. OneChallenge' /\ (Asking(n) # {} => Asking(n)' # {}) /\ (Answering(n) # {} => Answering(n)' # {})
    BY <1>1, <1>2, <1>5, <2>5, ChallengedAnswer, Zenon
  <2>9. up' => Settled'
    BY <1>2, <1>4, <1>5, <2>1, <2>2, <2>4, <2>8, Zenon DEF Settled
  <2>10. GrowingPeersAreNotBlamed'
    BY <1>2, <1>4, <1>5, <2>2, <2>4 DEF GrowingPeersAreNotBlamed
  <2> QED
    BY <1>2, <1>3, <2>4, <2>6, <2>7, <2>8, <2>9, <2>10, RestStep, Zenon
<1>9. CASE child # NoBlock /\ Height[m.block] > Height[gtip[n]]
  <2>1. Answer(n, <<>>) /\ up' = FALSE /\ blamed' = blamed
    BY <1>7, <1>9, Zenon DEF Challenged
  <2> DEFINE none == <<>>
  <2>5. none \in Seq(Message) /\ Len(none) = 0 /\ Len(none) # 1 /\ Len(none) \in {0, 1} /\ Answer(n, none)
    BY <2>1
  <2> HIDE DEF none
  <2>6. wire' \in [Node -> Seq(Message)] /\ blamed' \in [Node -> SUBSET Reason]
    BY <1>5, <2>1, <2>5, Answered, Zenon DEF Types
  <2>7. Wires'
    BY <1>2, <1>5, <2>5, WiresAnswer, Zenon
  <2>8. OneChallenge'
    BY <1>1, <1>2, <1>5, <2>5, ChallengedAnswer, Zenon
  <2>9. GrowingPeersAreNotBlamed'
    BY <1>2, <1>5, <2>1, Zenon DEF GrowingPeersAreNotBlamed
  <2> QED
    BY <1>2, <1>3, <2>1, <2>6, <2>7, <2>8, <2>9, RestStep, Zenon
<1>10. CASE child # NoBlock /\ ~(Height[m.block] > Height[gtip[n]])
  <2> DEFINE x == [type |-> "response", block |-> m.block, child |-> child]
             msgs == <<x>>
  <2>1. Answer(n, msgs) /\ up' = up /\ blamed' = blamed
    BY <1>7, <1>10, Zenon DEF Challenged
  <2>2. x \in Message /\ x.type = "response" /\ x.block = m.block /\ Truthful(o, x)
    BY <1>1, <1>4, <1>6, <1>10, Zenon DEF Message, Response, Truthful
  <2> HIDE DEF x
  <2>3. msgs \in Seq(Message) /\ Len(msgs) = 1 /\ msgs[1] = x
    BY <2>2
  <2> HIDE DEF msgs
  <2>4. wire' \in [Node -> Seq(Message)] /\ blamed' \in [Node -> SUBSET Reason]
    BY <1>5, <2>1, <2>3, Answered, Zenon DEF Types
  <2>5. Wires'
    BY <1>2, <1>5, <2>1, <2>2, <2>3, WiresAnswer, Zenon
  <2>6. /\ OneChallenge'
        /\ (Asking(n) # {} => Asking(n)' # {}) /\ (Answering(n) # {} => Answering(n)' # {})
        /\ Answering(o)' # {}
    BY <1>1, <1>2, <1>5, <2>1, <2>2, <2>3, ChallengedAnswer, Zenon
  <2>7. up' => Settled'
    BY <1>2, <1>4, <1>5, <2>1, <2>6, Zenon DEF Settled
  <2>8. GrowingPeersAreNotBlamed'
    BY <1>2, <1>5, <2>1, Zenon DEF GrowingPeersAreNotBlamed
  <2> QED
    BY <1>2, <1>3, <2>4, <2>5, <2>6, <2>7, <2>8, RestStep, Zenon
<1> QED
  BY <1>8, <1>9, <1>10, Zenon

(* The main loop is told of something.                                     *)
LEMMA MainAppended ==
    ASSUME Types, Paths, NEW n \in Node, NEW x \in ToMain, archive' = archive,
           toMain' = [toMain EXCEPT ![n] = Append(@, x)],
           x[1] = "blocks" => Connected(n, x[2])
    PROVE  toMain' \in [Node -> Seq(ToMain)] /\ Paths'
<1> DEFINE q == toMain[n]
           r == Append(q, x)
<1>1. toMain \in [Node -> Seq(ToMain)]
  BY Zenon DEF Types
<1>2. q \in Seq(ToMain) /\ r \in Seq(ToMain) /\ Len(q) \in Nat /\ Len(r) = Len(q) + 1
  BY <1>1
<1>3. (\A k \in 1 .. Len(q) : r[k] = q[k]) /\ r[Len(q) + 1] = x
  BY <1>2
<1> HIDE DEF r
<1>4. toMain' \in [Node -> Seq(ToMain)] /\ toMain'[n] = r /\ \A p \in Node \ {n} : toMain'[p] = toMain[p]
  BY <1>1, <1>2, Zenon DEF r
<1>5. \A k \in 1 .. Len(r) : r[k][1] = "blocks" => Connected(n, r[k][2])
  <2>1. \A k \in 1 .. Len(q) : q[k][1] = "blocks" => Connected(n, q[k][2])
    BY Zenon DEF Paths
  <2>2. \A k \in 1 .. Len(r) : k \in 1 .. Len(q) \/ k = Len(q) + 1
    BY <1>2
  <2> QED
    BY <1>3, <2>1, <2>2, Zenon
<1>6. \A p \in Node : \A k \in 1 .. Len(toMain'[p]) :
         toMain'[p][k][1] = "blocks" => Connected(p, toMain'[p][k][2])
  <2>1. \A k \in 1 .. Len(toMain'[n]) :
          toMain'[n][k][1] = "blocks" => Connected(n, toMain'[n][k][2])
    BY <1>4, <1>5, Zenon
  <2>2. \A p \in Node \ {n} : \A k \in 1 .. Len(toMain'[p]) :
          toMain'[p][k][1] = "blocks" => Connected(p, toMain'[p][k][2])
    BY <1>4, Zenon DEF Paths
  <2> QED
    BY <2>1, <2>2, Zenon
<1>7. Paths'
  <2> SUFFICES ASSUME NEW p \in Node, NEW k \in 1 .. Len(toMain'[p]),
                      toMain'[p][k][1] = "blocks"
               PROVE  Connected(p, toMain[p][k][2])'
    BY Zenon DEF Paths
  <2>1. Connected(p, toMain'[p][k][2])
    BY <1>6, Zenon
  <2> QED
    BY <2>1, Zenon DEF Connected
<1> QED
  BY <1>4, <1>7, Zenon

(* A handler that tells the main loop keeps the invariant, if each part it    *)
(* changes is kept.                                                           *)
LEMMA MainStep ==
    ASSUME GInv, UNCHANGED <<gtip, archive, reorged, toPeer, moves>>,
           toMain' \in [Node -> Seq(ToMain)], Paths',
           list' \in [Node -> Seq(Tree \ {Genesis})], shared' \in [Node -> Nat],
           issued' \in [Node -> Tree \cup {NoBlock}], anchor' \in [Node -> Tree \cup {NoBlock}],
           wire' \in [Node -> Seq(Message)], blamed' \in [Node -> SUBSET Reason],
           Wires', OneChallenge', up' => Settled', GrowingPeersAreNotBlamed'
    PROVE  GInv'
<1>1. Types'
  BY Zenon DEF GInv, Types
<1>2. Archives'
  BY Zenon DEF GInv, Archives
<1> QED
  BY <1>1, <1>2, Zenon DEF GInv

(* Handling a response keeps the invariant: it closes the challenge, and is   *)
(* refused only if a node has left its chain.                                 *)
LEMMA RespondedStep ==
    ASSUME GInv, NEW n \in Node, wire[n] # <<>>, Responded(n, Head(wire[n])), moves' = moves
    PROVE  GInv'
<1> DEFINE m == Head(wire[n])
           o == Other(n)
<1>1. /\ m.type = "response" /\ m.block \in Tree
      /\ o \in reorged \/ m.child \in Ancestors[m.block]
  BY FirstMessage, Zenon DEF Responded, Truthful
<1>2. UNCHANGED <<gtip, archive, reorged, list, shared, anchor, toPeer, up>> /\ Answer(n, <<>>)
  BY Zenon DEF Responded, Nodes
<1>3. /\ list' \in [Node -> Seq(Tree \ {Genesis})] /\ anchor' \in [Node -> Tree \cup {NoBlock}]
      /\ shared' \in [Node -> Nat] /\ issued \in [Node -> Tree \cup {NoBlock}]
  BY <1>2, Zenon DEF GInv, Types
<1>4. o \in Node /\ o # n /\ Other(o) = n /\ \A p \in Node : p = n \/ p = o
  BY Others, Zenon
<1>5. Types /\ Paths /\ Wires /\ OneChallenge /\ (up => Settled) /\ GrowingPeersAreNotBlamed
  BY Zenon DEF GInv
<1> DEFINE none == <<>>
<1>6. none \in Seq(Message) /\ Len(none) = 0 /\ Len(none) # 1 /\ Len(none) \in {0, 1} /\ Answer(n, none)
  BY <1>2
<1> HIDE DEF none
<1>7. wire' \in [Node -> Seq(Message)] /\ m = wire[n][1] /\ 1 \in 1 .. Len(wire[n])
  BY <1>5, <1>6, Answered, Zenon
<1>8. Wires'
  BY <1>2, <1>5, <1>6, WiresAnswer, Zenon
<1>9. m.block = issued[n] /\ issued[n] # NoBlock
  <2>1. 1 \in Answering(n)
    BY <1>1, <1>7, Zenon DEF Answering
  <2> QED
    BY <1>1, <1>5, <1>7, <2>1, TreeAssumption DEF OneChallenge
<1>10. ~Matches(n, m) => o \in reorged
  BY <1>1, <1>9, Zenon DEF Matches
<1>11. /\ issued' = [issued EXCEPT ![n] = NoBlock]
       /\ \/ ~Matches(n, m) /\ Blame(n, "response") /\ toMain' = toMain
          \/ Blame(n, "late") /\ toMain' = toMain
          \/ blamed' = blamed /\ toMain' = toMain
          \/ blamed' = blamed /\ toMain' = [toMain EXCEPT ![n] = Append(@, <<"height", m.block>>)]
  BY <1>9, Zenon DEF Responded, ResponseFails
<1>12. issued' \in [Node -> Tree \cup {NoBlock}] /\ issued'[n] = NoBlock /\ issued'[o] = issued[o]
  BY <1>3, <1>4, <1>11, Zenon
<1>13. /\ OneChallenge'
       /\ Asking(o) # {} => Asking(o)' # {}
       /\ Answering(o) # {} => Answering(o)' # {}
  BY <1>1, <1>2, <1>5, <1>11, RespondedAnswer, Zenon
<1>14. toMain' \in [Node -> Seq(ToMain)] /\ Paths'
  <2>1. CASE toMain' = toMain
    BY <1>2, <1>5, <2>1, ZenonT(30) DEF Types, Paths, Connected
  <2>2. CASE toMain' = [toMain EXCEPT ![n] = Append(@, <<"height", m.block>>)]
    <3> DEFINE x == <<"height", m.block>>
    <3>1. x \in ToMain /\ x[1] # "blocks"
      BY <1>1, Zenon DEF ToMain
    <3> HIDE DEF x
    <3>2. toMain' = [toMain EXCEPT ![n] = Append(@, x)]
      BY <2>2, Zenon DEF x
    <3> QED
      BY <1>2, <1>5, <3>1, <3>2, MainAppended, Zenon
  <2> QED
    BY <1>11, <2>1, <2>2, Zenon
<1>15. /\ blamed' \in [Node -> SUBSET Reason]
       /\ \A p \in Node : blamed[p] \subseteq blamed'[p]
       /\ GrowingPeersAreNotBlamed'
  <2>1. CASE blamed' = blamed
    BY <1>2, <1>5, <2>1, Zenon DEF Types, GrowingPeersAreNotBlamed
  <2>2. CASE Blame(n, "response") /\ ~Matches(n, m)
    <3>1. "response" \in Reason
      BY Zenon DEF Reason
    <3>2. /\ blamed' \in [Node -> SUBSET Reason]
          /\ blamed'[o] = blamed[o] \cup {"response"} /\ blamed'[n] = blamed[n]
      BY <1>5, <2>2, <3>1, Blamed, Zenon
    <3> QED
      BY <1>2, <1>4, <1>5, <1>10, <2>2, <3>2 DEF GrowingPeersAreNotBlamed
  <2>3. CASE Blame(n, "late")
    <3>1. "late" \in Reason
      BY Zenon DEF Reason
    <3>2. /\ blamed' \in [Node -> SUBSET Reason]
          /\ blamed'[o] = blamed[o] \cup {"late"} /\ blamed'[n] = blamed[n]
      BY <1>5, <2>3, <3>1, Blamed, Zenon
    <3> QED
      BY <1>2, <1>4, <1>5, <3>2 DEF GrowingPeersAreNotBlamed
  <2> QED
    BY <1>11, <2>1, <2>2, <2>3, Zenon
<1>16. up' => Settled'
  BY <1>2, <1>4, <1>5, <1>12, <1>13, <1>15, Zenon DEF Settled
<1> QED
  BY <1>2, <1>3, <1>7, <1>8, <1>12, <1>13, <1>14, <1>15, <1>16, MainStep, Zenon

(* A stored block is sent.                                                 *)
LEMMA DeliverStep ==
    ASSUME GInv, NEW n \in Node, wire[n] # <<>>, Neutral(Head(wire[n])),
           NEW b \in archive[n] \ {Genesis}, Answer(n, <<[type |-> "block", block |-> b]>>),
           UNCHANGED <<gtip, archive, reorged, toPeer, issued, up, blamed>>
    PROVE  /\ wire' \in [Node -> Seq(Message)] /\ blamed' \in [Node -> SUBSET Reason]
           /\ Archives' /\ Wires' /\ OneChallenge' /\ (up' => Settled')
           /\ GrowingPeersAreNotBlamed'
<1> DEFINE x == [type |-> "block", block |-> b]
           msgs == <<x>>
<1>1. Other(Other(n)) = n /\ b \in Tree
  BY Others, Zenon DEF GInv, Types
<1>2. x \in Message /\ Neutral(x) /\ Truthful(Other(n), x)
  BY <1>1, Zenon DEF Message, Deliver, Neutral, Truthful
<1> HIDE DEF x
<1>3. msgs \in Seq(Message) /\ Len(msgs) = 1 /\ msgs[1] = x
  BY <1>2
<1>4. Answer(n, msgs)
  BY Zenon DEF x
<1> HIDE DEF msgs
<1> QED
  BY <1>2, <1>3, <1>4, NeutralStep, Zenon

(* Answering a request by hash keeps the invariant.                           *)
LEMMA RequestedByHashStep ==
    ASSUME GInv, NEW n \in Node, wire[n] # <<>>, RequestedByHash(n, Head(wire[n])), moves' = moves
    PROVE  GInv'
<1> DEFINE m == Head(wire[n])
<1>1. m.type = "byhash" /\ Neutral(m) /\ m.block \in archive[n] \ {Genesis}
  BY FirstMessage, Zenon DEF RequestedByHash, Neutral, Truthful
<1>2. /\ UNCHANGED <<gtip, archive, reorged, list, shared, issued, passed, anchor, toMain, toPeer, up>>
      /\ Answer(n, <<[type |-> "block", block |-> m.block]>>) /\ blamed' = blamed
  BY <1>1, Zenon DEF RequestedByHash, Nodes
<1>3. /\ list' \in [Node -> Seq(Tree \ {Genesis})] /\ anchor' \in [Node -> Tree \cup {NoBlock}]
      /\ shared' \in [Node -> Nat] /\ issued' \in [Node -> Tree \cup {NoBlock}]
  BY <1>2, Zenon DEF GInv, Types
<1> QED
  BY <1>1, <1>2, <1>3, DeliverStep, RestStep, Zenon

(* Answering a request by height keeps the invariant.                         *)
LEMMA RequestedByHeightStep ==
    ASSUME GInv, NEW n \in Node, wire[n] # <<>>, RequestedByHeight(n, Head(wire[n])), moves' = moves
    PROVE  GInv'
<1> DEFINE m == Head(wire[n])
           b == Canonical(n, m.height)
<1>1. m.type = "byheight" /\ Neutral(m) /\ m.height # 0
  BY FirstMessage, Zenon DEF RequestedByHeight, Neutral, Truthful
<1>2. UNCHANGED <<gtip, archive, reorged, list, shared, issued, passed, anchor, toMain, toPeer, up>>
  BY Zenon DEF RequestedByHeight, Nodes
<1>3. /\ list' \in [Node -> Seq(Tree \ {Genesis})] /\ anchor' \in [Node -> Tree \cup {NoBlock}]
      /\ shared' \in [Node -> Nat] /\ issued' \in [Node -> Tree \cup {NoBlock}]
  BY <1>2, Zenon DEF GInv, Types
<1>4. gtip[n] \in Tree /\ gtip[n] \in archive[n]
  BY Zenon DEF GInv, Types, Archives
<1>5. CASE b # NoBlock
  <2>1. Answer(n, <<[type |-> "block", block |-> b]>>) /\ blamed' = blamed
    BY <1>5, Zenon DEF RequestedByHeight
  <2>2. b \in Ancestors[gtip[n]] /\ Height[b] = m.height
    BY <1>4, <1>5, CanonicalBlock, Zenon
  <2>3. Ancestors[gtip[n]] \subseteq archive[n]
    BY <1>4, StoredAncestors, Zenon DEF GInv
  <2>4. b \in archive[n] \ {Genesis}
    BY <1>1, <2>2, <2>3, TreeAssumption, Zenon
  <2> QED
    BY <1>1, <1>2, <1>3, <2>1, <2>4, DeliverStep, RestStep, Zenon
<1>6. CASE b = NoBlock
  <2>1. Answer(n, <<>>) /\ (blamed' = blamed \/ Blame(n, "height"))
    BY <1>6, Zenon DEF RequestedByHeight
  <2> QED
    BY <1>1, <1>2, <1>3, <2>1, SilentStep, RestStep, Zenon
<1> QED
  BY <1>5, <1>6, Zenon

(* The blocks of a reconciliation that found its root, in order.           *)
LEMMA ReversedPath ==
    ASSUME NEW n \in Node, list[n] \in Seq(Tree \ {Genesis}), NEW b \in Tree \ {Genesis},
           \A i \in 1 .. (Len(list[n]) - 1) : Parent[list[n][i]] = list[n][i + 1],
           ~PathBroken(n, b), ParentKnown(n, b)
    PROVE  LET path == Reversed(Append(list[n], b))
           IN  path \in Path /\ Connected(n, path) /\ path[Len(path)] \in Tree
<1> DEFINE l == list[n]
           g == Append(l, b)
           path == Reversed(g)
           k == Len(l)
<1>1. k \in Nat /\ l \in Seq(Tree \ {Genesis})
  OBVIOUS
<1>2. /\ g \in Seq(Tree \ {Genesis}) /\ Len(g) = k + 1 /\ g[k + 1] = b
      /\ \A i \in 1 .. k : g[i] = l[i]
  BY <1>1
<1>3. l # <<>> => Parent[l[k]] = b
  BY Zenon DEF PathBroken
<1>4. k # 0 => l # <<>>
  BY <1>1
<1> HIDE DEF g
<1>5. \A i \in 1 .. k : Parent[g[i]] = g[i + 1]
  <2> SUFFICES ASSUME NEW i \in 1 .. k PROVE Parent[g[i]] = g[i + 1]
    BY Zenon
  <2> HIDE DEF l
  <2>1. CASE i = k
    BY <1>1, <1>2, <1>3, <1>4, <2>1
  <2>2. CASE i # k
    <3>1. i \in 1 .. (k - 1) /\ i + 1 \in 1 .. k
      BY <1>1, <2>2
    <3>2. Parent[l[i]] = l[i + 1]
      BY <3>1, Zenon DEF l
    <3> QED
      BY <1>2, <3>1, <3>2, Zenon
  <2> QED
    BY <2>1, <2>2, Zenon
<1> HIDE DEF l, k
<1>6. path = [i \in 1 .. Len(g) |-> g[Len(g) + 1 - i]] /\ Len(g) = k + 1
  <2>1. path = [i \in DOMAIN g |-> g[Len(g) + 1 - i]]
    BY Zenon DEF Reversed
  <2>2. DOMAIN g = 1 .. Len(g)
    BY <1>2
  <2> QED
    BY <1>2, <2>1, <2>2, Zenon
<1> HIDE DEF path
<1>7. /\ path \in [1 .. k + 1 -> Tree \ {Genesis}]
      /\ \A i \in 1 .. k + 1 : path[i] = g[k + 2 - i]
  <2>1. \A i \in 1 .. k + 1 : k + 2 - i \in 1 .. k + 1
    BY <1>1
  <2>2. \A i \in 1 .. k + 1 : g[i] \in Tree \ {Genesis}
    BY <1>1, <1>2
  <2> DEFINE N == Len(g)
  <2>3. path = [i \in 1 .. N |-> g[N + 1 - i]] /\ N = k + 1
    BY <1>6, Zenon
  <2> HIDE DEF N
  <2>4. /\ path \in [1 .. N -> Tree \ {Genesis}]
        /\ \A i \in 1 .. N : path[i] = g[N + 1 - i]
    BY <1>1, <2>1, <2>2, <2>3
  <2> QED
    BY <1>1, <2>3, <2>4
<1>8. path \in Seq(Tree \ {Genesis}) /\ Len(path) = k + 1
  <2>1. k + 1 \in Nat
    BY <1>1
  <2> QED
    BY <1>7, <2>1
<1>9. path \in Path
  <2>1. Len(path) # 0
    BY <1>1, <1>8
  <2> QED
    BY <1>8, <2>1 DEF Path
<1>10. path[1] = b
  <2>1. 1 \in 1 .. k + 1 /\ k + 2 - 1 = k + 1
    BY <1>1
  <2>2. path[1] = g[k + 2 - 1]
    BY <1>7, <2>1, Zenon
  <2> QED
    BY <1>2, <2>1, <2>2, Zenon
<1>11. ASSUME NEW i \in 1 .. (Len(path) - 1) PROVE Parent[path[i + 1]] = path[i]
  <2>1. i \in 1 .. k + 1 /\ i + 1 \in 1 .. k + 1 /\ k + 1 - i \in 1 .. k /\ i \in Int
    BY <1>1, <1>8
  <2>2. path[i + 1] = g[k + 2 - (i + 1)] /\ path[i] = g[k + 2 - i]
    BY <1>7, <2>1, Zenon
  <2>3. k + 2 - (i + 1) = k + 1 - i /\ k + 2 - i = (k + 1 - i) + 1
    BY <1>1, <2>1
  <2> QED
    BY <1>5, <2>1, <2>2, <2>3, Zenon
<1>12. Connected(n, path)
  BY <1>10, <1>11, Zenon DEF Connected, ParentKnown
<1>13. path[Len(path)] \in Tree
  BY <1>1, <1>7, <1>8
<1> QED
  BY <1>9, <1>12, <1>13, Zenon DEF path, g, l

(* The parent of a block is requested.                                     *)
LEMMA ParentStep ==
    ASSUME GInv, NEW n \in Node, wire[n] # <<>>, Neutral(Head(wire[n])),
           NEW b \in archive[Other(n)] \ {Genesis}, ~ParentKnown(n, b),
           Answer(n, <<[type |-> "byhash", block |-> Parent[b]]>>),
           UNCHANGED <<gtip, archive, reorged, toPeer, issued, up, blamed>>
    PROVE  /\ wire' \in [Node -> Seq(Message)] /\ blamed' \in [Node -> SUBSET Reason]
           /\ Archives' /\ Wires' /\ OneChallenge' /\ (up' => Settled')
           /\ GrowingPeersAreNotBlamed'
<1> DEFINE x == [type |-> "byhash", block |-> Parent[b]]
           msgs == <<x>>
<1>1. Other(n) \in Node
  BY Others, Zenon
<1>2. Parent[b] \in archive[Other(n)] /\ Parent[b] # Genesis /\ Parent[b] \in Tree
  BY <1>1, Zenon DEF GInv, Types, Archives, Closed, ParentKnown
<1>3. x \in Message /\ Neutral(x) /\ Truthful(Other(n), x)
  BY <1>2, Zenon DEF Message, ByHash, Neutral, Truthful
<1> HIDE DEF x
<1>4. msgs \in Seq(Message) /\ Len(msgs) = 1 /\ msgs[1] = x
  BY <1>3
<1>5. Answer(n, msgs)
  BY Zenon DEF x
<1> HIDE DEF msgs
<1> QED
  BY <1>3, <1>4, <1>5, NeutralStep, Zenon

(* Handling a block keeps the invariant, whether the list grows, reaches a    *)
(* stored block or is given up.                                               *)
LEMMA BlockReceivedStep ==
    ASSUME GInv, ListIsChain, NEW n \in Node, wire[n] # <<>>, BlockReceived(n, Head(wire[n])),
           moves' = moves
    PROVE  GInv'
<1> DEFINE m == Head(wire[n])
           b == m.block
<1>1. m.type = "block" /\ Neutral(m) /\ b \in archive[Other(n)] \ {Genesis} /\ b \in Tree
  BY FirstMessage, Zenon DEF BlockReceived, Neutral, Truthful
<1>2. UNCHANGED <<gtip, archive, reorged, issued, passed, toPeer, up>>
  BY Zenon DEF BlockReceived, Nodes
<1>3. /\ issued' \in [Node -> Tree \cup {NoBlock}]
      /\ list \in [Node -> Seq(Tree \ {Genesis})] /\ anchor \in [Node -> Tree \cup {NoBlock}]
      /\ shared \in [Node -> Nat] /\ gtip[n] \in Tree
  BY <1>2, Zenon DEF GInv, Types
<1>4. CASE BlockInSync(n, m)
  <2>1. UNCHANGED <<list, shared, toMain, blamed>> /\ Answer(n, <<>>)
    BY <1>4, Zenon DEF BlockInSync
  <2>2. anchor' \in [Node -> Tree \cup {NoBlock}]
    BY <1>1, <1>3, <1>4, Zenon DEF BlockInSync
  <2> QED
    BY <1>1, <1>2, <1>3, <2>1, <2>2, SilentStep, RestStep, Zenon
<1>5. CASE BlockArrived(n, m)
  <2> DEFINE grown == Append(list[n], b)
             path == Reversed(grown)
             last == path[Len(path)]
  <2>1. anchor' \in [Node -> Tree \cup {NoBlock}]
    BY <1>3, <1>5, Zenon DEF BlockArrived
  <2>2. CASE PathBroken(n, b)
    <3>1. /\ list' = [list EXCEPT ![n] = <<>>] /\ Answer(n, <<>>) /\ Blame(n, "fork")
          /\ UNCHANGED <<shared, toMain>>
      BY <1>5, <2>2, Zenon DEF BlockArrived, PathAbandoned
    <3>2. list' \in [Node -> Seq(Tree \ {Genesis})]
      BY <1>3, <3>1
    <3> QED
      BY <1>1, <1>2, <1>3, <2>1, <3>1, <3>2, SilentStep, RestStep, Zenon
  <2>3. CASE ~PathBroken(n, b) /\ ParentKnown(n, b)
    <3>1. list' = [list EXCEPT ![n] = <<>>] /\ HandleBlocks(n, path) /\ blamed' = blamed
      BY <1>5, <2>3, Zenon DEF BlockArrived
    <3>2. list' \in [Node -> Seq(Tree \ {Genesis})]
      BY <1>3, <3>1
    <3>3. path \in Path /\ Connected(n, path) /\ last \in Tree
      <4>1. \A i \in 1 .. (Len(list[n]) - 1) : Parent[list[n][i]] = list[n][i + 1]
        BY Zenon DEF ListIsChain
      <4>2. list[n] \in Seq(Tree \ {Genesis}) /\ b \in Tree \ {Genesis}
        BY <1>1, <1>3, Zenon
      <4> QED
        BY <2>3, <4>1, <4>2, ReversedPath, Zenon
    <3> HIDE DEF path
    <3>4. Height[last] \in Nat /\ shared[n] \in Nat
      BY <1>3, <3>3, TreeAssumption, Zenon
    <3>5. CASE MoreCanonical(gtip[n], last)
      <4>1. /\ toMain' = [toMain EXCEPT ![n] = Append(@, <<"blocks", path>>)]
            /\ shared' = [shared EXCEPT ![n] = Height[last]]
            /\ Answer(n, IF shared[n] > Height[last]
                         THEN <<[type |-> "byheight", height |-> shared[n]]>> ELSE <<>>)
        BY <3>1, <3>5, Zenon DEF HandleBlocks
      <4> HIDE DEF last
      <4>2. shared' \in [Node -> Nat]
        BY <1>3, <3>4, <4>1, Zenon
      <4>3. toMain' \in [Node -> Seq(ToMain)] /\ Paths'
        <5> DEFINE x == <<"blocks", path>>
        <5>1. x \in ToMain /\ x[1] = "blocks" /\ x[2] = path
          BY <3>3, Zenon DEF ToMain
        <5> HIDE DEF x
        <5>2. toMain' = [toMain EXCEPT ![n] = Append(@, x)]
          BY <4>1, Zenon DEF x
        <5> QED
          BY <1>2, <3>3, <5>1, <5>2, MainAppended, Zenon DEF GInv
      <4>4. CASE shared[n] > Height[last]
        <5>1. shared[n] \in Nat \ {0} /\ Answer(n, <<[type |-> "byheight", height |-> shared[n]]>>)
          BY <3>4, <4>1, <4>4
        <5>2. /\ wire' \in [Node -> Seq(Message)] /\ blamed' \in [Node -> SUBSET Reason]
              /\ Wires' /\ OneChallenge' /\ (up' => Settled') /\ GrowingPeersAreNotBlamed'
          BY <1>1, <1>2, <3>1, <5>1, RequestStep, Zenon
        <5> QED
          BY <1>2, <1>3, <2>1, <3>2, <4>2, <4>3, <5>2, MainStep, Zenon
      <4>5. CASE ~(shared[n] > Height[last])
        <5>1. Answer(n, <<>>)
          BY <4>1, <4>5, Zenon
        <5>2. /\ wire' \in [Node -> Seq(Message)] /\ blamed' \in [Node -> SUBSET Reason]
              /\ Wires' /\ OneChallenge' /\ (up' => Settled') /\ GrowingPeersAreNotBlamed'
          BY <1>1, <1>2, <3>1, <5>1, SilentStep, Zenon
        <5> QED
          BY <1>2, <1>3, <2>1, <3>2, <4>2, <4>3, <5>2, MainStep, Zenon
      <4> QED
        BY <4>4, <4>5, Zenon
    <3>6. CASE ~MoreCanonical(gtip[n], last)
      <4>1. Answer(n, <<>>) /\ UNCHANGED <<toMain, shared>>
        BY <3>1, <3>6, Zenon DEF HandleBlocks
      <4> QED
        BY <1>1, <1>2, <1>3, <2>1, <3>1, <3>2, <4>1, SilentStep, RestStep, Zenon
    <3> QED
      BY <3>5, <3>6, Zenon
  <2>4. CASE ~PathBroken(n, b) /\ ~ParentKnown(n, b)
    <3>1. /\ list' = [list EXCEPT ![n] = grown]
          /\ Answer(n, <<[type |-> "byhash", block |-> Parent[b]]>>)
          /\ UNCHANGED <<shared, toMain, blamed>>
      BY <1>5, <2>4, Zenon DEF BlockArrived
    <3>2. grown \in Seq(Tree \ {Genesis})
      BY <1>1, <1>3
    <3>3. list' \in [Node -> Seq(Tree \ {Genesis})]
      BY <1>3, <3>1, <3>2, Zenon
    <3> QED
      BY <1>1, <1>2, <1>3, <2>1, <2>4, <3>1, <3>3, ParentStep, RestStep, Zenon
  <2> QED
    BY <2>2, <2>3, <2>4, Zenon
<1> QED
  BY <1>4, <1>5, Zenon DEF BlockReceived

(* Every handler of a message keeps the invariant.                            *)
LEMMA ReceiveStep ==
    ASSUME GInv, ListIsChain, NEW n \in Node, Receive(n)
    PROVE  GInv'
<1>1. wire[n] # <<>> /\ moves' = moves
  BY Zenon DEF Receive
<1> QED
  BY <1>1, AskedStep, NotifiedStep, ChallengedStep, RespondedStep, RequestedByHashStep,
     RequestedByHeightStep, BlockReceivedStep, Zenon DEF Receive

-----------------------------------------------------------------------------
(* The main loop, and what happens elsewhere.                              *)

(* Nodes store more and more, and what was a tip of a node stays one, or   *)
(* the node left its chain.                                                *)
Grows ==
    /\ reorged \subseteq reorged'
    /\ \A p \in Node : archive[p] \subseteq archive'[p]
    /\ \A p \in Node : \A b \in Tree : WasTip(p, b) => WasTip(p, b)'

(* A node that does not move has trivially grown.                             *)
LEMMA SameGrows ==
    ASSUME UNCHANGED <<gtip, archive, reorged>>
    PROVE  Grows
BY Zenon DEF Grows, WasTip

(* A new tip, stored with what leads to it.                                *)
LEMMA AdoptGrows ==
    ASSUME GInv, NEW n \in Node, NEW blocks \in SUBSET Tree, NEW last \in Tree,
           last \in archive[n] \cup blocks, Closed(archive[n] \cup blocks), Adopt(n, blocks, last)
    PROVE  /\ gtip' \in [Node -> Tree] /\ archive' \in [Node -> SUBSET Tree] /\ reorged' \subseteq Node
           /\ Archives' /\ Grows /\ WasTip(n, last)'
<1>1. /\ gtip \in [Node -> Tree] /\ archive \in [Node -> SUBSET Tree] /\ reorged \subseteq Node
      /\ Archives
  BY Zenon DEF GInv, Types
<1>2. /\ gtip' = [gtip EXCEPT ![n] = last] /\ archive' = [archive EXCEPT ![n] = archive[n] \cup blocks]
      /\ reorged' = IF gtip[n] \in Ancestors[last] THEN reorged ELSE reorged \cup {n}
  BY Zenon DEF Adopt
<1>3. /\ gtip' \in [Node -> Tree] /\ archive' \in [Node -> SUBSET Tree] /\ reorged' \subseteq Node
      /\ gtip'[n] = last /\ archive'[n] = archive[n] \cup blocks
      /\ \A p \in Node \ {n} : gtip'[p] = gtip[p] /\ archive'[p] = archive[p]
      /\ reorged \subseteq reorged'
  BY <1>1, <1>2, Zenon
<1>4. Archives'
  BY <1>1, <1>3, Zenon DEF Archives, Closed
<1>5. WasTip(n, last)'
  BY <1>3, AncestorsClosed, Zenon DEF WasTip
<1>6. ASSUME NEW p \in Node, NEW b \in Tree, WasTip(p, b) PROVE WasTip(p, b)'
  <2>1. CASE p # n \/ p \in reorged
    BY <1>3, <1>6, <2>1, Zenon DEF WasTip
  <2>2. CASE p = n /\ p \notin reorged /\ gtip[n] \in Ancestors[last]
    <3>1. Ancestors[gtip[n]] \subseteq Ancestors[last]
      BY <2>2, AncestorsNest, Zenon
    <3> QED
      BY <1>3, <1>6, <2>2, <3>1, Zenon DEF WasTip
  <2>3. CASE p = n /\ gtip[n] \notin Ancestors[last]
    BY <1>2, <2>3, Zenon DEF WasTip
  <2> QED
    BY <2>1, <2>2, <2>3, Zenon
<1>7. Grows
  BY <1>3, <1>6, Zenon DEF Grows
<1> QED
  BY <1>3, <1>4, <1>5, <1>7, Zenon

(* What was said stays true.                                               *)
LEMMA WiresGrow ==
    ASSUME Types, Wires, Grows, wire' \in [Node -> Seq(Message)],
           \A p \in Node : \A i \in 1 .. Len(wire'[p]) :
               \/ i \in 1 .. Len(wire[p]) /\ wire'[p][i] = wire[p][i]
               \/ Truthful(p, wire[p][i])',
           \A p \in Node : toPeer'[p] \in {NoBlock, toPeer[p]} \/ WasTip(p, toPeer[p])'
    PROVE  Wires'
<1>1. ASSUME NEW p \in Node, NEW i \in 1 .. Len(wire'[p]),
             i \in 1 .. Len(wire[p]), wire'[p][i] = wire[p][i]
      PROVE  Truthful(p, wire[p][i])'
  <2>0. PICK m : m = wire[p][i]
    BY Zenon
  <2>1. Truthful(p, m) /\ m \in Message /\ Other(p) \in Node
    <3>1. Truthful(p, m) /\ Other(p) \in Node
      BY <1>1, <2>0, Others, Zenon DEF Wires
    <3>2. wire[p] \in Seq(Message)
      BY Zenon DEF Types
    <3>3. m \in Message
      BY <1>1, <2>0, <3>2
    <3> QED
      BY <3>1, <3>3, Zenon
  <2>2. /\ m.type = "notify" => m.block \in Tree
        /\ m.type = "challenge" => m.block \in Tree
    BY <2>1, Zenon DEF Message, Ask, Notify, Deliver, ByHash, ByHeight, Challenge, Response
  <2>3. /\ m.type = "notify" => WasTip(Other(p), m.block)'
        /\ m.type = "challenge" =>
             WasTip(p, m.block)' /\ Height[m.block] > Threshold /\ m.height \in Challenges(m.block)
        /\ m.type = "response" => Other(p) \in reorged' \/ m.child \in Ancestors[m.block]
        /\ m.type = "block" => m.block \in archive'[Other(p)] \ {Genesis}
        /\ m.type = "byhash" => m.block \in archive'[p] \ {Genesis}
        /\ m.type = "byheight" => m.height # 0
    BY <2>1, <2>2, Zenon DEF Truthful, Grows
  <2>4. wire'[p][i] = m
    BY <1>1, <2>0, Zenon
  <2> QED
    BY <2>3, <2>4, Zenon DEF Truthful, WasTip
<1>2. \A p \in Node : \A i \in 1 .. Len(wire'[p]) : Truthful(p, wire[p][i])'
  BY <1>1, Zenon
<1>3. ASSUME NEW p \in Node, toPeer'[p] # NoBlock PROVE WasTip(p, toPeer[p])'
  <2>1. CASE toPeer'[p] = toPeer[p]
    <3>1. toPeer[p] \in Tree /\ WasTip(p, toPeer[p])
      BY <1>3, <2>1, Zenon DEF Wires, Types
    <3> QED
      BY <2>1, <3>1, Zenon DEF Grows, WasTip
  <2> QED
    BY <1>3, <2>1, Zenon
<1> QED
  BY <1>2, <1>3, Zenon DEF Wires

(* A message about other things is sent while the chains stay as they are. *)
LEMMA SendStep ==
    ASSUME GInv, NEW n \in Node, NEW m \in Message, Neutral(m), Truthful(Other(n), m),
           wire' = [wire EXCEPT ![Other(n)] = Append(@, m)],
           UNCHANGED <<gtip, archive, reorged, issued, blamed, up>>,
           \A p \in Node : toPeer'[p] \in {NoBlock, toPeer[p]}
    PROVE  /\ wire' \in [Node -> Seq(Message)] /\ Archives' /\ Wires' /\ OneChallenge'
           /\ (up' => Settled') /\ GrowingPeersAreNotBlamed'
<1> DEFINE o == Other(n)
<1>1. o \in Node /\ o # n /\ \A p \in Node : p = n \/ p = o
  BY Others, Zenon
<1>2. Types /\ Archives /\ Wires /\ OneChallenge /\ (up => Settled) /\ GrowingPeersAreNotBlamed
  BY Zenon DEF GInv
<1>3. /\ wire' \in [Node -> Seq(Message)] /\ wire'[n] = wire[n]
      /\ \A i \in 1 .. Len(wire'[o]) :
            (i \in 1 .. Len(wire[o]) /\ wire'[o][i] = wire[o][i]) \/ wire'[o][i] = m
  <2>1. /\ wire' \in [Node -> Seq(Message)] /\ wire'[n] = wire[n]
        /\ \A i \in 1 .. Len(wire[o]) : wire'[o][i] = wire[o][i]
        /\ \A i \in 1 .. Len(wire'[o]) : i \in 1 .. Len(wire[o]) \/ wire'[o][i] = m
    BY <1>2, Appended, Zenon
  <2> QED
    BY <2>1, Zenon
<1>4. OneChallenge' /\ Steady
  BY <1>2, NeutralAppended, Zenon
<1>5. Grows
  BY SameGrows, Zenon
<1>6. Wires'
  <2>1. ASSUME NEW p \in Node, NEW i \in 1 .. Len(wire'[p])
        PROVE  \/ i \in 1 .. Len(wire[p]) /\ wire'[p][i] = wire[p][i]
               \/ Truthful(p, wire[p][i])'
    <3>1. CASE p = n
      BY <1>3, <3>1, Zenon
    <3>2. CASE p = o /\ wire'[o][i] = m
      BY <3>2, Zenon DEF Truthful, WasTip
    <3> QED
      BY <1>1, <1>3, <3>1, <3>2, Zenon
  <2> QED
    BY <1>2, <1>3, <1>5, <2>1, WiresGrow, Zenon
<1>7. up' => Settled'
  BY <1>2, <1>4, Zenon DEF Settled, Steady
<1>8. GrowingPeersAreNotBlamed' /\ Archives'
  BY <1>2, Zenon DEF GrowingPeersAreNotBlamed, Archives
<1> QED
  BY <1>3, <1>4, <1>6, <1>7, <1>8, Zenon

(* Chains grow and no message is sent.                                     *)
LEMMA QuietStep ==
    ASSUME GInv, Grows, UNCHANGED <<wire, issued, blamed, up>>,
           \A p \in Node : toPeer'[p] \in {NoBlock, toPeer[p]} \/ WasTip(p, toPeer[p])'
    PROVE  /\ wire' \in [Node -> Seq(Message)] /\ Wires' /\ OneChallenge'
           /\ (up' => Settled') /\ GrowingPeersAreNotBlamed'
<1>1. Types /\ Wires /\ OneChallenge /\ (up => Settled) /\ GrowingPeersAreNotBlamed
  BY Zenon DEF GInv
<1>2. wire' \in [Node -> Seq(Message)]
  BY <1>1, Zenon DEF Types
<1>3. Wires'
  BY <1>1, <1>2, WiresGrow, Zenon
<1>4. OneChallenge'
  <2>1. \A p \in Node : Asking(p)' = Asking(p) /\ Answering(p)' = Answering(p)
    BY Zenon DEF Asking, Answering
  <2> QED
    BY <1>1, <2>1, Zenon DEF OneChallenge
<1>5. up' => Settled'
  BY <1>1, Zenon DEF Settled, Asking, Answering, Grows
<1>6. GrowingPeersAreNotBlamed'
  BY <1>1, Zenon DEF GrowingPeersAreNotBlamed, Grows
<1> QED
  BY <1>2, <1>3, <1>4, <1>5, <1>6, Zenon

(* Paths stay connected when more is stored.                               *)
LEMMA PathsGrow ==
    ASSUME Types, Paths, Grows, toMain' = toMain
    PROVE  Paths'
<1>1. ASSUME NEW p \in Node, NEW k \in 1 .. Len(toMain[p]), toMain[p][k][1] = "blocks"
      PROVE  Connected(p, toMain[p][k][2])'
  BY <1>1, Zenon DEF Paths, Connected, Grows
<1> QED
  BY <1>1, Zenon DEF Paths

(* What the main loop takes is a path that starts on a stored block, or a     *)
(* height.                                                                    *)
LEMMA PathTaken ==
    ASSUME Types, Paths, Grows, NEW n \in Node, toMain[n] # <<>>,
           toMain' = [toMain EXCEPT ![n] = Tail(@)]
    PROVE  /\ Paths' /\ toMain' \in [Node -> Seq(ToMain)]
           /\ Head(toMain[n]) \in ToMain
           /\ Head(toMain[n])[1] = "blocks" => Connected(n, Head(toMain[n])[2])
<1> DEFINE q == toMain[n]
<1>1. toMain \in [Node -> Seq(ToMain)]
  BY Zenon DEF Types
<1>2. q \in Seq(ToMain) /\ q # <<>>
  BY <1>1, Zenon
<1>3. /\ Head(q) = q[1] /\ Head(q) \in ToMain /\ 1 \in 1 .. Len(q) /\ Tail(q) \in Seq(ToMain)
      /\ \A i \in 1 .. Len(Tail(q)) : i + 1 \in 1 .. Len(q) /\ Tail(q)[i] = q[i + 1]
  BY <1>2, Taken, Zenon
<1>4. /\ toMain' \in [Node -> Seq(ToMain)] /\ toMain'[n] = Tail(q)
      /\ \A p \in Node \ {n} : toMain'[p] = toMain[p]
  BY <1>1, <1>3, Zenon
<1>5. Head(q)[1] = "blocks" => Connected(n, Head(q)[2])
  BY <1>3, Zenon DEF Paths
<1> HIDE DEF q
<1>6. ASSUME NEW p \in Node, NEW k \in 1 .. Len(toMain'[p]), toMain'[p][k][1] = "blocks"
      PROVE  Connected(p, toMain'[p][k][2])
  <2>1. CASE p = n
    BY <1>3, <1>4, <1>6, <2>1 DEF Paths, q
  <2>2. CASE p # n
    BY <1>4, <1>6, <2>2, Zenon DEF Paths
  <2> QED
    BY <2>1, <2>2, Zenon
<1>7. Paths'
  <2>1. ASSUME NEW p \in Node, NEW k \in 1 .. Len(toMain'[p]), toMain'[p][k][1] = "blocks"
        PROVE  Connected(p, toMain[p][k][2])'
    BY <1>6, <2>1, Zenon DEF Connected, Grows
  <2> QED
    BY <2>1, Zenon DEF Paths
<1> QED
  BY <1>3, <1>4, <1>5, <1>7, Zenon DEF q

(* A connected path, added to what is stored, leaves it closed.            *)
LEMMA PathIsClosed ==
    ASSUME GInv, NEW n \in Node, NEW path \in Path, Connected(n, path)
    PROVE  /\ Blocks(path) \in SUBSET Tree /\ path[Len(path)] \in Blocks(path)
           /\ path[Len(path)] \in Tree
           /\ Closed(archive[n] \cup Blocks(path))
<1>1. path \in Seq(Tree \ {Genesis}) /\ Len(path) \in Nat \ {0} /\ DOMAIN path = 1 .. Len(path)
  BY DEF Path
<1>2. Blocks(path) = {path[i] : i \in 1 .. Len(path)}
  BY <1>1, Zenon DEF Blocks
<1>3. \A i \in 1 .. Len(path) : path[i] \in Tree \ {Genesis}
  BY <1>1
<1>4. Len(path) \in 1 .. Len(path)
  BY <1>1
<1>5. ASSUME NEW i \in 1 .. Len(path) PROVE Parent[path[i]] \in archive[n] \cup Blocks(path)
  <2>1. CASE i = 1
    BY <2>1, Zenon DEF Connected
  <2>2. CASE i # 1
    <3>1. i - 1 \in 1 .. (Len(path) - 1) /\ i - 1 \in 1 .. Len(path) /\ (i - 1) + 1 = i
      BY <1>1, <2>2
    <3>2. Parent[path[i]] = path[i - 1]
      BY <3>1, Zenon DEF Connected
    <3> QED
      BY <1>2, <3>1, <3>2, Zenon
  <2> QED
    BY <2>1, <2>2, Zenon
<1>6. Closed(archive[n])
  BY Zenon DEF GInv, Archives
<1> QED
  BY <1>2, <1>3, <1>4, <1>5, <1>6, Zenon DEF Closed

(* The main loop's handlers keep the invariant.                               *)
LEMMA MainTakesStep ==
    ASSUME GInv, NEW n \in Node, MainTakes(n)
    PROVE  GInv'
<1>1. /\ toMain[n] # <<>> /\ toPeer[n] = NoBlock /\ toMain' = [toMain EXCEPT ![n] = Tail(@)]
      /\ UNCHANGED <<list, shared, issued, passed, up, blamed, moves>>
  BY Zenon DEF MainTakes
<1>2. Types /\ Archives /\ Paths /\ Wires
  BY Zenon DEF GInv
<1> DEFINE path == Head(toMain[n])[2]
<1>3. CASE MainAdopts(n) /\ MoreCanonical(gtip[n], path[Len(path)])
  <2>1. /\ Head(toMain[n])[1] = "blocks" /\ Adopt(n, Blocks(path), path[Len(path)])
        /\ toPeer' = [toPeer EXCEPT ![n] = path[Len(path)]] /\ UNCHANGED <<anchor, wire>>
    BY <1>3, Zenon DEF MainAdopts
  <2>2. /\ Head(toMain[n]) \in ToMain /\ Connected(n, path)
    <3>1. toMain[n] \in Seq(ToMain)
      BY <1>2, Zenon DEF Types
    <3>2. Head(toMain[n]) = toMain[n][1] /\ Head(toMain[n]) \in ToMain /\ 1 \in 1 .. Len(toMain[n])
      BY <1>1, <3>1, Taken, Zenon
    <3> QED
      BY <1>2, <2>1, <3>2, Zenon DEF Paths
  <2>3. path \in Path
    BY <2>1, <2>2, Zenon DEF ToMain
  <2> HIDE DEF path
  <2>4. /\ Blocks(path) \in SUBSET Tree /\ path[Len(path)] \in Blocks(path)
        /\ path[Len(path)] \in Tree /\ Closed(archive[n] \cup Blocks(path))
    BY <2>2, <2>3, PathIsClosed, Zenon
  <2>5. PICK blocks, last : blocks = Blocks(path) /\ last = path[Len(path)]
    BY Zenon
  <2>6. /\ gtip' \in [Node -> Tree] /\ archive' \in [Node -> SUBSET Tree] /\ reorged' \subseteq Node
        /\ Archives' /\ Grows /\ WasTip(n, last)'
    <3>1. /\ blocks \in SUBSET Tree /\ last \in Tree /\ last \in archive[n] \cup blocks
          /\ Closed(archive[n] \cup blocks) /\ Adopt(n, blocks, last)
      BY <2>1, <2>4, <2>5, Zenon
    <3> QED
      BY <3>1, AdoptGrows, Zenon
  <2>7. /\ toPeer' \in [Node -> Tree \cup {NoBlock}]
        /\ toPeer'[n] = last /\ \A p \in Node \ {n} : toPeer'[p] = toPeer[p]
    BY <1>2, <2>1, <2>4, <2>5, Zenon DEF Types
  <2>8. Paths' /\ toMain' \in [Node -> Seq(ToMain)]
    BY <1>1, <1>2, <2>6, PathTaken, Zenon
  <2>9. \A p \in Node : toPeer'[p] \in {NoBlock, toPeer[p]} \/ WasTip(p, toPeer[p])'
    BY <2>6, <2>7, Zenon DEF WasTip
  <2>10. /\ wire' \in [Node -> Seq(Message)] /\ Wires' /\ OneChallenge'
        /\ (up' => Settled') /\ GrowingPeersAreNotBlamed'
    BY <1>1, <2>1, <2>6, <2>9, QuietStep, Zenon
  <2>11. Types'
    BY <1>1, <1>2, <2>1, <2>6, <2>7, <2>8, <2>10, Zenon DEF Types
  <2> QED
    BY <2>6, <2>8, <2>10, <2>11, Zenon DEF GInv
<1>4. CASE MainAdopts(n) /\ ~MoreCanonical(gtip[n], path[Len(path)])
  <2>1. UNCHANGED <<gtip, archive, reorged, toPeer, anchor, wire>>
    BY <1>4, Zenon DEF MainAdopts, Nodes
  <2>2. Grows
    BY <2>1, SameGrows, Zenon
  <2>3. Paths' /\ toMain' \in [Node -> Seq(ToMain)]
    BY <1>1, <1>2, <2>2, PathTaken, Zenon
  <2>4. /\ wire' \in [Node -> Seq(Message)] /\ Wires' /\ OneChallenge'
        /\ (up' => Settled') /\ GrowingPeersAreNotBlamed'
    BY <1>1, <2>1, <2>2, QuietStep, Zenon
  <2>5. Types' /\ Archives'
    BY <1>1, <1>2, <2>1, <2>3, Zenon DEF Types, Archives
  <2> QED
    BY <2>3, <2>4, <2>5, Zenon DEF GInv
<1>5. CASE MainEntersSync(n)
  <2> DEFINE b == Head(toMain[n])[2]
  <2>1. Head(toMain[n])[1] = "height" /\ EnterSync(n, b) /\ UNCHANGED <<gtip, archive, reorged, toPeer>>
    BY <1>5, Zenon DEF MainEntersSync, Nodes
  <2>2. Grows
    BY <2>1, SameGrows, Zenon
  <2>3. Paths' /\ toMain' \in [Node -> Seq(ToMain)] /\ Head(toMain[n]) \in ToMain
    BY <1>1, <1>2, <2>2, PathTaken, Zenon
  <2>4. b \in Tree
    BY <2>1, <2>3, Zenon DEF ToMain
  <2>5. anchor' \in [Node -> Tree \cup {NoBlock}]
    BY <1>2, <2>1, <2>4, Zenon DEF Types, EnterSync
  <2>6. CASE wire' = wire
    <3>1. /\ wire' \in [Node -> Seq(Message)] /\ Wires' /\ OneChallenge'
          /\ (up' => Settled') /\ GrowingPeersAreNotBlamed'
      BY <1>1, <2>1, <2>2, <2>6, QuietStep, Zenon
    <3>2. Types' /\ Archives'
      BY <1>1, <1>2, <2>1, <2>3, <2>5, <2>6, Zenon DEF Types, Archives
    <3> QED
      BY <2>3, <3>1, <3>2, Zenon DEF GInv
  <2>7. CASE wire' # wire
    <3> DEFINE x == [type |-> "byheight", height |-> Height[gtip[n]]]
    <3>1. gtip[n] # Genesis /\ wire' = [wire EXCEPT ![Other(n)] = Append(@, x)]
      BY <1>5, <2>7, Zenon DEF MainEntersSync
    <3>2. Height[gtip[n]] \in Nat \ {0}
      BY <1>2, <3>1, OnlyGenesisIsAtZero, Zenon DEF Types
    <3>3. x \in Message /\ Neutral(x) /\ Truthful(Other(n), x)
      BY <3>2, Zenon DEF Message, ByHeight, Neutral, Truthful
    <3> HIDE DEF x
    <3>4. /\ wire' \in [Node -> Seq(Message)] /\ Archives' /\ Wires' /\ OneChallenge'
          /\ (up' => Settled') /\ GrowingPeersAreNotBlamed'
      BY <1>1, <2>1, <3>1, <3>3, SendStep, Zenon
    <3>5. Types'
      BY <1>1, <1>2, <2>1, <2>3, <2>5, <3>4, Zenon DEF Types
    <3> QED
      BY <2>3, <3>4, <3>5, Zenon DEF GInv
  <2> QED
    BY <2>6, <2>7, Zenon
<1> QED
  BY <1>3, <1>4, <1>5, Zenon DEF MainTakes

(* Telling the peer of a new tip keeps the invariant.                         *)
LEMMA TellPeerStep ==
    ASSUME GInv, NEW n \in Node, TellPeer(n)
    PROVE  GInv'
<1>1. /\ toPeer[n] # NoBlock /\ toPeer' = [toPeer EXCEPT ![n] = NoBlock]
      /\ UNCHANGED <<gtip, archive, reorged, list, issued, anchor, toMain, up, blamed, moves>>
  BY Zenon DEF TellPeer, Nodes
<1>2. Types /\ Archives /\ Paths /\ Wires
  BY Zenon DEF GInv
<1>3. /\ toPeer' \in [Node -> Tree \cup {NoBlock}]
      /\ \A p \in Node : toPeer'[p] \in {NoBlock, toPeer[p]}
      /\ toPeer[n] \in Tree /\ Height[toPeer[n]] \in Nat
  BY <1>1, <1>2, TreeAssumption, Zenon DEF Types
<1>4. Grows
  BY <1>1, SameGrows, Zenon
<1>5. Paths'
  BY <1>1, <1>2, <1>4, PathsGrow, Zenon
<1>6. CASE Height[toPeer[n]] > shared[n]
  <2> DEFINE x == [type |-> "notify", block |-> toPeer[n]]
  <2>1. /\ shared' = [shared EXCEPT ![n] = Height[toPeer[n]]]
        /\ wire' = [wire EXCEPT ![Other(n)] = Append(@, x)]
    BY <1>6, Zenon DEF TellPeer
  <2>2. WasTip(n, toPeer[n]) /\ Other(Other(n)) = n
    BY <1>1, <1>2, Others, Zenon DEF Wires
  <2>3. x \in Message /\ Neutral(x) /\ Truthful(Other(n), x)
    BY <1>3, <2>2, Zenon DEF Message, Notify, Neutral, Truthful
  <2> HIDE DEF x
  <2>4. /\ wire' \in [Node -> Seq(Message)] /\ Archives' /\ Wires' /\ OneChallenge'
        /\ (up' => Settled') /\ GrowingPeersAreNotBlamed'
    BY <1>1, <1>3, <2>1, <2>3, SendStep, Zenon
  <2>5. Types'
    BY <1>1, <1>2, <1>3, <2>1, <2>4, Zenon DEF Types
  <2> QED
    BY <1>5, <2>4, <2>5, Zenon DEF GInv
<1>7. CASE ~(Height[toPeer[n]] > shared[n])
  <2>1. UNCHANGED <<shared, wire>>
    BY <1>7, Zenon DEF TellPeer
  <2>2. /\ wire' \in [Node -> Seq(Message)] /\ Wires' /\ OneChallenge'
        /\ (up' => Settled') /\ GrowingPeersAreNotBlamed'
    BY <1>1, <1>3, <1>4, <2>1, QuietStep, Zenon
  <2>3. Types' /\ Archives'
    BY <1>1, <1>2, <1>3, <2>1, Zenon DEF Types, Archives
  <2> QED
    BY <1>5, <2>2, <2>3, Zenon DEF GInv
<1> QED
  BY <1>6, <1>7, Zenon

(* Entering sync mode because of another peer keeps the invariant.            *)
LEMMA SyncByThirdPeerStep ==
    ASSUME GInv, NEW n \in Node, NEW b \in Tree, SyncByThirdPeer(n, b)
    PROVE  GInv'
<1>1. /\ UNCHANGED <<gtip, archive, reorged, list, shared, issued, toMain, toPeer, wire, up, blamed>>
      /\ EnterSync(n, b) /\ moves' = moves + 1
  BY Zenon DEF SyncByThirdPeer, Nodes, Outside
<1>2. Types /\ Archives /\ Paths /\ Wires
  BY Zenon DEF GInv
<1>3. anchor' \in [Node -> Tree \cup {NoBlock}]
  BY <1>1, <1>2, Zenon DEF Types, EnterSync
<1>4. Grows
  BY <1>1, SameGrows, Zenon
<1>5. Paths'
  BY <1>1, <1>2, <1>4, PathsGrow, Zenon
<1>6. /\ wire' \in [Node -> Seq(Message)] /\ Wires' /\ OneChallenge'
      /\ (up' => Settled') /\ GrowingPeersAreNotBlamed'
  BY <1>1, <1>4, QuietStep, Zenon
<1>7. Types' /\ Archives'
  BY <1>1, <1>2, <1>3 DEF Types, Archives
<1> QED
  BY <1>5, <1>6, <1>7, Zenon DEF GInv

(* A block and its ancestors, added to what is stored, leave it closed.    *)
LEMMA ChainIsClosed ==
    ASSUME GInv, NEW n \in Node, NEW b \in Tree
    PROVE  /\ Ancestors[b] \in SUBSET Tree /\ b \in archive[n] \cup Ancestors[b]
           /\ Closed(archive[n] \cup Ancestors[b])
BY AncestorsClosed, Zenon DEF GInv, Archives, Closed

(* Blocks from elsewhere keep the invariant.                                  *)
LEMMA FromElsewhereStep ==
    ASSUME GInv, NEW n \in Node, NEW b \in Tree, FromElsewhere(n, b)
    PROVE  GInv'
<1>1. /\ UNCHANGED <<list, shared, issued, anchor, toMain, wire, up, blamed>>
      /\ Adopt(n, Ancestors[b], b) /\ toPeer' = [toPeer EXCEPT ![n] = b] /\ moves' = moves + 1
  BY Zenon DEF FromElsewhere, Outside
<1>2. Types /\ Archives /\ Paths /\ Wires
  BY Zenon DEF GInv
<1>3. /\ gtip' \in [Node -> Tree] /\ archive' \in [Node -> SUBSET Tree] /\ reorged' \subseteq Node
      /\ Archives' /\ Grows /\ WasTip(n, b)'
  BY <1>1, ChainIsClosed, AdoptGrows, Zenon
<1>4. /\ toPeer' \in [Node -> Tree \cup {NoBlock}]
      /\ toPeer'[n] = b /\ \A p \in Node \ {n} : toPeer'[p] = toPeer[p]
  BY <1>1, <1>2, Zenon DEF Types
<1>5. Paths'
  BY <1>1, <1>2, <1>3, PathsGrow, Zenon
<1>6. \A p \in Node : toPeer'[p] \in {NoBlock, toPeer[p]} \/ WasTip(p, toPeer[p])'
  BY <1>3, <1>4, Zenon DEF WasTip
<1>7. /\ wire' \in [Node -> Seq(Message)] /\ Wires' /\ OneChallenge'
      /\ (up' => Settled') /\ GrowingPeersAreNotBlamed'
  BY <1>1, <1>3, <1>6, QuietStep, Zenon
<1>8. Types'
  BY <1>1, <1>2, <1>3, <1>4 DEF Types
<1> QED
  BY <1>3, <1>5, <1>7, <1>8, Zenon DEF GInv

(* The end of a sync, with the blocks it brought, keeps the invariant.        *)
LEMMA SyncEndsStep ==
    ASSUME GInv, NEW n \in Node, SyncEnds(n)
    PROVE  GInv'
<1>1. /\ UNCHANGED <<list, shared, issued, toMain, toPeer, up, blamed>>
      /\ anchor[n] # NoBlock /\ anchor' = [anchor EXCEPT ![n] = NoBlock] /\ moves' = moves + 1
  BY Zenon DEF SyncEnds, Outside
<1>2. Types /\ Archives /\ Paths /\ Wires
  BY Zenon DEF GInv
<1>3. anchor' \in [Node -> Tree \cup {NoBlock}] /\ anchor[n] \in Tree
  BY <1>1, <1>2, Zenon DEF Types
<1>4. PICK a \in Tree : a = anchor[n]
  BY <1>3, Zenon
<1>5. /\ Ancestors[a] \in SUBSET Tree /\ a \in archive[n] \cup Ancestors[a]
      /\ Closed(archive[n] \cup Ancestors[a])
  BY ChainIsClosed, Zenon
<1>6. CASE wire' = wire /\ Adopt(n, Ancestors[a], a)
  <2>1. /\ gtip' \in [Node -> Tree] /\ archive' \in [Node -> SUBSET Tree] /\ reorged' \subseteq Node
        /\ Archives' /\ Grows
    BY <1>5, <1>6, AdoptGrows, Zenon
  <2>2. Paths'
    BY <1>1, <1>2, <2>1, PathsGrow, Zenon
  <2>3. /\ wire' \in [Node -> Seq(Message)] /\ Wires' /\ OneChallenge'
        /\ (up' => Settled') /\ GrowingPeersAreNotBlamed'
    BY <1>1, <1>6, <2>1, QuietStep, ZenonT(30)
  <2>4. Types'
    <3>1. moves' \in Nat
      <4>1. moves \in Nat /\ moves' = moves + 1
        BY <1>1, <1>2, Zenon DEF Types
      <4> QED
        BY <4>1
    <3> QED
      BY <1>1, <1>2, <1>3, <1>6, <2>1, <3>1, Zenon DEF Types
  <2> QED
    BY <2>1, <2>2, <2>3, <2>4, Zenon DEF GInv
<1>7. CASE /\ wire' = wire /\ UNCHANGED <<gtip, reorged>>
           /\ archive' = [archive EXCEPT ![n] = @ \cup Ancestors[a]]
  <2>1. /\ archive' \in [Node -> SUBSET Tree] /\ archive'[n] = archive[n] \cup Ancestors[a]
        /\ \A p \in Node \ {n} : archive'[p] = archive[p]
    BY <1>2, <1>5, <1>7, Zenon DEF Types
  <2>2. Archives' /\ Grows
    BY <1>2, <1>5, <1>7, <2>1, Zenon DEF Archives, Grows, WasTip
  <2>3. Paths'
    BY <1>1, <1>2, <2>2, PathsGrow, Zenon
  <2>4. /\ wire' \in [Node -> Seq(Message)] /\ Wires' /\ OneChallenge'
        /\ (up' => Settled') /\ GrowingPeersAreNotBlamed'
    BY <1>1, <1>7, <2>2, QuietStep, ZenonT(30)
  <2>5. Types'
    <3>1. moves' \in Nat
      <4>1. moves \in Nat /\ moves' = moves + 1
        BY <1>1, <1>2, Zenon DEF Types
      <4> QED
        BY <4>1
    <3> QED
      BY <1>1, <1>2, <1>3, <1>7, <2>1, <3>1, Zenon DEF Types
  <2> QED
    BY <2>2, <2>3, <2>4, <2>5, Zenon DEF GInv
<1>8. CASE /\ wire' = [wire EXCEPT ![Other(n)] = Append(@, [type |-> "ask"])]
           /\ UNCHANGED <<gtip, archive, reorged>>
  <2> DEFINE x == [type |-> "ask"]
  <2>1. x \in Message /\ Neutral(x) /\ Truthful(Other(n), x)
    BY Zenon DEF Message, Ask, Neutral, Truthful
  <2>2. wire' = [wire EXCEPT ![Other(n)] = Append(@, x)]
    BY <1>8, Zenon
  <2> HIDE DEF x
  <2>3. /\ wire' \in [Node -> Seq(Message)] /\ Archives' /\ Wires' /\ OneChallenge'
        /\ (up' => Settled') /\ GrowingPeersAreNotBlamed'
    BY <1>1, <1>8, <2>1, <2>2, SendStep, Zenon
  <2>4. Grows
    BY <1>8, SameGrows, Zenon
  <2>5. Paths'
    BY <1>1, <1>2, <2>4, PathsGrow, Zenon
  <2>6. Types'
    BY <1>1, <1>2, <1>3, <1>8, <2>3 DEF Types
  <2> QED
    BY <2>3, <2>5, <2>6, Zenon DEF GInv
<1> QED
  BY <1>4, <1>6, <1>7, <1>8, Zenon DEF SyncEnds, Nodes

(* Every step keeps the invariant.                                            *)
LEMMA GInvStep == GInv /\ LInv /\ [GNext]_gvars => GInv'
<1> SUFFICES ASSUME GInv, LInv, [GNext]_gvars PROVE GInv'
  BY Zenon
<1>1. ListIsChain
  BY Zenon DEF LInv
<1>2. CASE UNCHANGED gvars
  <2>1. UNCHANGED <<gtip, archive, list, shared, issued, anchor, toMain, toPeer, wire,
                    up, blamed, reorged, moves>>
    BY <1>2, Zenon DEF gvars
  <2>2. Types /\ Archives /\ Paths /\ Grows
    BY <2>1, SameGrows, Zenon DEF GInv
  <2>3. Types' /\ Archives'
    BY <2>1, <2>2, Zenon DEF Types, Archives
  <2>4. Paths'
    BY <2>1, <2>2, PathsGrow, Zenon
  <2>5. Wires' /\ OneChallenge' /\ (up' => Settled') /\ GrowingPeersAreNotBlamed'
    BY <2>1, <2>2, QuietStep, Zenon
  <2> QED
    BY <2>3, <2>4, <2>5, Zenon DEF GInv
<1>3. ASSUME NEW n \in Node,
             \/ Receive(n) \/ MainTakes(n) \/ TellPeer(n) \/ SyncEnds(n)
             \/ \E b \in Tree \ {Genesis} : FromElsewhere(n, b) \/ SyncByThirdPeer(n, b)
      PROVE  GInv'
  BY <1>1, <1>3, ReceiveStep, MainTakesStep, TellPeerStep, SyncEndsStep, FromElsewhereStep,
     SyncByThirdPeerStep, Zenon
<1> QED
  BY <1>2, <1>3, Zenon DEF GNext

(* The invariant always holds.                                                *)
LEMMA GInvAlways == GSpec => []GInv
BY GInvInit, LInvAlways, GInvStep, PTL DEF GSpec

-----------------------------------------------------------------------------
(* Whatever the order in which messages, main loops and moves of the       *)
(* chains interleave, the collected blocks are a chain, and a challenge    *)
(* that was issued is on its way, answered, or was refused by a peer that   *)
(* left its chain (sync_challenge, fork_reconciliation_blocks).            *)
THEOREM PeerStatesAreSound == GSpec => []PeerStateIsSound
<1>1. GInv /\ LInv => PeerStateIsSound
  <2> SUFFICES ASSUME GInv, LInv PROVE PeerStateIsSound
    BY Zenon
  <2>1. \A n \in Node : DOMAIN wire[n] = 1 .. Len(wire[n]) /\ Other(n) \in Node
    BY Others DEF GInv, Types
  <2>2. ChallengesAreSettled
    BY <2>1, Zenon DEF GInv, Settled, Asking, Answering, ChallengesAreSettled
  <2> QED
    BY <2>2, Zenon DEF LInv, PeerStateIsSound
<1> QED
  BY <1>1, LInvAlways, GInvAlways, PTL

(* An honest peer whose chain only grows is never sanctioned for what it   *)
(* answers to a challenge; nor is the peer of such a node for a challenge, *)
(* or for a block it asks for by hash; and no response is ever unprompted. *)
THEOREM GrowingPeersAreSpared == GSpec => []GrowingPeersAreNotBlamed
<1>1. GInv => GrowingPeersAreNotBlamed
  BY Zenon DEF GInv
<1> QED
  BY <1>1, GInvAlways, PTL
=============================================================================
