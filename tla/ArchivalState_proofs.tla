------------------------- MODULE ArchivalState_proofs -------------------------
(* Proofs that the archival state keeps its stores consistent, for every      *)
(* block tree, every file capacity and every number of crashes.               *)
EXTENDS ArchivalState, SequenceTheorems, FiniteSetTheorems, TLAPS

-----------------------------------------------------------------------------
(* Chains of blocks, for every block tree.                                    *)

(* A chain is a non-empty sequence of blocks that ends with its block; all of *)
(* its blocks have as chain the prefix that ends with them.                   *)
LEMMA ChainBasics ==
  ASSUME NEW b \in Block
  PROVE  /\ Chain[b] \in Seq(Block)
         /\ Len(Chain[b]) \in Nat \ {0}
         /\ Chain[b][Len(Chain[b])] = b
         /\ \A n \in 1..Len(Chain[b]) : /\ Chain[b][n] \in Block
                                        /\ Chain[Chain[b][n]] = SubSeq(Chain[b], 1, n)
                                        /\ Len(Chain[Chain[b][n]]) = n
         /\ Height(b) \in Nat
<1>1. Chain[b] \in Seq(Block)
  BY ChainAssumption, Zenon
<1>2. Len(Chain[b]) \in Nat \ {0}
  BY <1>1, ChainAssumption
<1>3. ASSUME NEW n \in 1..Len(Chain[b])
      PROVE  /\ Chain[b][n] \in Block
             /\ Chain[Chain[b][n]] = SubSeq(Chain[b], 1, n)
             /\ Len(Chain[Chain[b][n]]) = n
  <2>1. Chain[b][n] \in Block
    BY <1>1
  <2>2. Chain[Chain[b][n]] = SubSeq(Chain[b], 1, n)
    BY ChainAssumption, Zenon
  <2>3. Len(SubSeq(Chain[b], 1, n)) = n
    BY <1>1, <1>2
  <2> QED
    BY <2>1, <2>2, <2>3, Zenon
<1> QED
  BY <1>1, <1>2, <1>3, ChainAssumption DEF Height

(* Every chain starts at genesis, and only genesis has a chain of one block.  *)
LEMMA ChainRoot ==
  ASSUME NEW b \in Block
  PROVE  Chain[b][1] = Genesis /\ (Len(Chain[b]) = 1 <=> b = Genesis)
<1>1. \A c \in Block : Len(Chain[c]) = 1 => c = Genesis
  <2> SUFFICES ASSUME NEW c \in Block, Len(Chain[c]) = 1, c # Genesis PROVE FALSE
    BY Zenon
  <2>1. Len(Chain[c]) >= 2
    BY ChainAssumption, Zenon
  <2> QED
    BY <2>1
<1>2. Len(Chain[b]) \in Nat \ {0} /\ 1 \in 1..Len(Chain[b])
  BY ChainBasics
<1>3. Len(Chain[Chain[b][1]]) = 1 /\ Chain[b][1] \in Block
  BY <1>2, ChainBasics, Zenon
<1>4. Len(Chain[Genesis]) = 1
  BY ChainAssumption
<1> QED
  BY <1>1, <1>3, <1>4, Zenon

(* The chain of a block other than genesis is its parent's chain and the      *)
(* block.                                                                     *)
LEMMA ChainParent ==
  ASSUME NEW b \in Block, b # Genesis
  PROVE  /\ Parent(b) \in Block
         /\ Chain[Parent(b)] = SubSeq(Chain[b], 1, Len(Chain[b]) - 1)
         /\ Len(Chain[Parent(b)]) = Len(Chain[b]) - 1
         /\ Height(b) = Len(Chain[Parent(b)])
         /\ Height(b) \in Nat \ {0}
         /\ Chain[b] = Append(Chain[Parent(b)], b)
<1>1. Len(Chain[b]) \in Nat /\ Len(Chain[b]) >= 2
  BY ChainAssumption, ChainBasics, Zenon
<1>2. /\ Parent(b) \in Block
      /\ Chain[Parent(b)] = SubSeq(Chain[b], 1, Len(Chain[b]) - 1)
      /\ Len(Chain[Parent(b)]) = Len(Chain[b]) - 1
  <2>1. Len(Chain[b]) - 1 \in 1..Len(Chain[b])
    BY <1>1
  <2> QED
    BY <2>1, ChainBasics, Zenon DEF Parent
<1>3. Chain[b] = Append(Chain[Parent(b)], b)
  <2> DEFINE s == Chain[b]
             t == Append(Chain[Parent(b)], b)
             p == Chain[Parent(b)]
  <2>0. /\ s \in Seq(Block) /\ p \in Seq(Block) /\ Len(s) \in Nat /\ Len(s) >= 2
        /\ p = SubSeq(s, 1, Len(s) - 1) /\ Len(p) = Len(s) - 1 /\ t = Append(p, b)
        /\ s[Len(s)] = b
    BY <1>1, <1>2, ChainBasics, Zenon
  <2> HIDE DEF s, t, p
  <2>1. t \in Seq(Block) /\ Len(s) = Len(t)
    BY <2>0
  <2>2. \A i \in 1..Len(s) : s[i] = t[i]
    <3> SUFFICES ASSUME NEW i \in 1..Len(s) PROVE s[i] = t[i]
      OBVIOUS
    <3>1. CASE i = Len(s)
      BY <2>0, <3>1
    <3>2. CASE i # Len(s)
      <4>0. Len(s) \in Nat
        BY <2>0, Zenon
      <4>1. i \in 1..(Len(s) - 1)
        BY <3>2, <4>0
      <4>2. t[i] = p[i] /\ p[i] = s[i]
        BY <2>0, <4>1
      <4> QED
        BY <4>2, Zenon
    <3> QED
      BY <3>1, <3>2, Zenon
  <2>3. s = t
    BY <2>0, <2>1, <2>2
  <2> QED
    BY <2>3, Zenon DEF s, t
<1>4. Height(b) = Len(Chain[Parent(b)]) /\ Height(b) \in Nat \ {0}
  <2>1. Len(Chain[Parent(b)]) = Len(Chain[b]) - 1
    BY <1>2, Zenon
  <2> DEFINE k == Len(Chain[b])
  <2>2. k - 1 \in Nat \ {0}
    <3>1. k \in Nat /\ k >= 2
      BY <1>1, Zenon
    <3> HIDE DEF k
    <3> QED
      BY <3>1
  <2>3. Height(b) = Len(Chain[b]) - 1
    BY Zenon DEF Height
  <2> QED
    BY <2>1, <2>2, <2>3, Zenon
<1> QED
  BY <1>2, <1>3, <1>4, Zenon

-----------------------------------------------------------------------------
(* The path between two blocks.                                              *)

(* Two chains share at least genesis, so there is a last shared block.        *)
LEMMA SharedLenBasics ==
  ASSUME NEW a \in Block, NEW b \in Block
  PROVE  /\ SharedLen(a, b) \in 1..Len(Chain[a])
         /\ SharedLen(a, b) \in 1..Len(Chain[b])
         /\ Chain[a][SharedLen(a, b)] = Chain[b][SharedLen(a, b)]
<1> DEFINE Shared(n) == n <= Len(Chain[b]) /\ Chain[a][n] = Chain[b][n]
           \* the distances from the end of a's chain at which the two agree
           D == {d \in Nat : d < Len(Chain[a]) /\ Shared(Len(Chain[a]) - d)}
<1>1. Len(Chain[a]) \in Nat \ {0} /\ Len(Chain[b]) \in Nat \ {0}
  BY ChainBasics, Zenon
<1>2. Len(Chain[a]) - 1 \in D
  BY <1>1, ChainRoot
<1>3. PICK d \in D : \A e \in D : ~ (<<e, d>> \in OpToRel(<, Nat))
  <2> HIDE DEF D
  <2>1. D \subseteq Nat
    BY Zenon DEF D
  <2> QED
    BY <1>2, <2>1, WFMin, NatLessThanWellFounded, Zenon
<1>4. ASSUME NEW e \in D
      PROVE  e >= d
  <2>1. e \in Nat /\ d \in Nat
    BY Zenon
  <2> HIDE DEF D
  <2>2. ASSUME e < d PROVE FALSE
    <3>1. <<e, d>> \in OpToRel(<, Nat)
      BY <2>1, <2>2, Zenon DEF OpToRel
    <3> QED
      BY <1>3, <3>1, Zenon
  <2> QED
    BY <2>1, <2>2
<1> DEFINE n0 == Len(Chain[a]) - d
<1>5. n0 \in 1..Len(Chain[a]) /\ Shared(n0)
  BY <1>1
<1>6. \A m \in (n0 + 1)..Len(Chain[a]) : m <= Len(Chain[b]) => Chain[a][m] # Chain[b][m]
  <2> SUFFICES ASSUME NEW m \in (n0 + 1)..Len(Chain[a]), Shared(m)
               PROVE  FALSE
    BY Zenon
  <2>1. Len(Chain[a]) - m \in Nat /\ Len(Chain[a]) - m < d
    BY <1>1, <1>5
  <2>2. Len(Chain[a]) - (Len(Chain[a]) - m) = m
    BY <1>1, <1>5
  <2>3. Len(Chain[a]) - m \in D
    <3>1. Len(Chain[a]) - m < Len(Chain[a])
      BY <1>1, <1>5
    <3>2. Shared(Len(Chain[a]) - (Len(Chain[a]) - m))
      BY <2>2, Zenon
    <3> QED
      BY <2>1, <3>1, <3>2, Zenon
  <2>4. d <= Len(Chain[a]) - m
    BY <1>4, <2>3, Zenon
  <2>5. d \in Nat
    BY Zenon
  <2>6. \A x, y \in Nat : ~(x < y /\ y <= x)
    OBVIOUS
  <2> QED
    BY <2>1, <2>4, <2>5, <2>6, Zenon
<1>7. \E n \in 1..Len(Chain[a]) :
        /\ n <= Len(Chain[b])
        /\ Chain[a][n] = Chain[b][n]
        /\ \A m \in (n+1)..Len(Chain[a]) :
             m <= Len(Chain[b]) => Chain[a][m] # Chain[b][m]
  BY <1>5, <1>6, Zenon
<1>8. /\ SharedLen(a, b) \in 1..Len(Chain[a])
      /\ SharedLen(a, b) <= Len(Chain[b])
      /\ Chain[a][SharedLen(a, b)] = Chain[b][SharedLen(a, b)]
  <2> HIDE <1>1, <1>2, <1>3, <1>4, <1>5, <1>6
  <2> QED
    BY <1>7, Zenon DEF SharedLen
<1> QED
  BY <1>1, <1>8

(* Undoing the backwards half of find_path(a, b) on the chain of a and then   *)
(* applying its forwards half yields the chain of b.                          *)
LEMMA PathLeadsThere ==
  ASSUME NEW a \in Block, NEW b \in Block
  PROVE  /\ Len(Backwards(a, b)) \in Nat
         /\ Len(Backwards(a, b)) < Len(Chain[a])
         /\ Backwards(a, b) \in Seq(Block)
         /\ Forwards(a, b) \in Seq(Block)
         /\ SubSeq(Chain[a], 1, Len(Chain[a]) - Len(Backwards(a, b))) \o Forwards(a, b)
              = Chain[b]
<1> DEFINE n == SharedLen(a, b)
<1>1. /\ Chain[a] \in Seq(Block) /\ Len(Chain[a]) \in Nat
      /\ Chain[b] \in Seq(Block) /\ Len(Chain[b]) \in Nat
  BY ChainBasics, Zenon
<1>2. n \in 1..Len(Chain[a]) /\ n \in 1..Len(Chain[b]) /\ Chain[a][n] = Chain[b][n]
  BY SharedLenBasics, Zenon
<1>3. /\ Len(Backwards(a, b)) = Len(Chain[a]) - n
      /\ Backwards(a, b) \in Seq(Block)
  <2> DEFINE k == Len(Chain[a]) - n
             f == Backwards(a, b)
  <2>1. k \in Nat
    BY <1>1, <1>2
  <2>2. f \in [1..k -> Block]
    <3>1. f = [i \in 1..k |-> Chain[a][Len(Chain[a]) + 1 - i]]
      BY Zenon DEF Backwards
    <3>2. \A i \in 1..k : Chain[a][Len(Chain[a]) + 1 - i] \in Block
      BY <1>1, <1>2, ElementOfSeq
    <3> HIDE DEF f, k
    <3> QED
      BY <3>1, <3>2, Zenon
  <2> HIDE DEF k, f
  <2>3. f \in Seq(Block)
    BY <2>1, <2>2, SeqDef, Zenon
  <2>4. Len(f) \in Nat /\ 1..Len(f) = 1..k
    BY <2>2, <2>3, LenProperties, Zenon
  <2>5. Len(f) = k
    BY <2>1, <2>4
  <2> QED
    BY <2>3, <2>5, Zenon DEF f, k
<1>4. SubSeq(Chain[a], 1, n) = SubSeq(Chain[b], 1, n)
  <2> HIDE DEF n
  <2>1. Chain[Chain[a][n]] = SubSeq(Chain[a], 1, n)
    BY <1>2, ChainBasics, Zenon
  <2>2. Chain[Chain[b][n]] = SubSeq(Chain[b], 1, n)
    BY <1>2, ChainBasics, Zenon
  <2> QED
    BY <1>2, <2>1, <2>2, Zenon
<1>5. SubSeq(Chain[b], 1, n) \o SubSeq(Chain[b], n + 1, Len(Chain[b])) = Chain[b]
  <2>1. 1 \in 1..Len(Chain[b]) + 1 /\ n \in 1 - 1..Len(Chain[b])
        /\ Len(Chain[b]) \in n..Len(Chain[b])
    BY <1>1, <1>2
  <2>2. SubSeq(Chain[b], 1, n) \o SubSeq(Chain[b], n + 1, Len(Chain[b]))
          = SubSeq(Chain[b], 1, Len(Chain[b]))
    BY <1>1, <2>1, ConcatAdjacentSubSeq, Zenon
  <2> QED
    BY <1>1, <2>2, SubSeqFull, Zenon
<1>6. Len(Chain[a]) - Len(Backwards(a, b)) = n
  BY <1>1, <1>2, <1>3
<1>7. Forwards(a, b) \in Seq(Block)
  BY <1>1, <1>2 DEF Forwards
<1>8. Forwards(a, b) = SubSeq(Chain[b], n + 1, Len(Chain[b]))
  BY Zenon DEF Forwards
<1> HIDE DEF n
<1>9. SubSeq(Chain[a], 1, Len(Chain[a]) - Len(Backwards(a, b))) \o Forwards(a, b) = Chain[b]
  BY <1>4, <1>5, <1>6, <1>8, Zenon
<1>10. Len(Backwards(a, b)) \in Nat /\ Len(Backwards(a, b)) < Len(Chain[a])
  BY <1>1, <1>2, <1>3
<1> QED
  BY <1>3, <1>7, <1>9, <1>10, Zenon

-----------------------------------------------------------------------------
(* What the walks of a tip update compute.                                    *)

(* Concatenation and append commute.                                         *)
LEMMA ConcatAppend ==
  ASSUME NEW S, NEW s \in Seq(S), NEW t \in Seq(S), NEW e \in S
  PROVE  s \o Append(t, e) = Append(s \o t, e)
<1> DEFINE l == s \o Append(t, e)
           r == Append(s \o t, e)
<1>1. /\ l \in Seq(S) /\ r \in Seq(S) /\ Len(l) = Len(r)
  BY ConcatProperties, AppendProperties
<1>2. ASSUME NEW i \in 1..Len(l)
      PROVE  l[i] = r[i]
  <2>1. /\ Len(s) \in Nat /\ Len(t) \in Nat
        /\ Append(t, e) \in Seq(S) /\ Len(Append(t, e)) = Len(t) + 1
        /\ s \o t \in Seq(S) /\ Len(s \o t) = Len(s) + Len(t)
    BY ConcatProperties, AppendProperties
  <2>2. i \in 1..(Len(s) + Len(t) + 1)
    BY <2>1, ConcatProperties
  <2>3. l[i] = IF i <= Len(s) THEN s[i] ELSE Append(t, e)[i - Len(s)]
    <3> DEFINE u == Append(t, e)
    <3>1. u \in Seq(S) /\ i \in 1..(Len(s) + Len(u))
      BY <2>1, <2>2
    <3> HIDE DEF u
    <3>2. (s \o u)[i] = IF i <= Len(s) THEN s[i] ELSE u[i - Len(s)]
      BY <3>1, ConcatProperties, Zenon
    <3> QED
      BY <3>2, Zenon DEF u
  <2>4. r[i] = IF i <= Len(s) + Len(t) THEN (s \o t)[i] ELSE e
    <3> DEFINE u == s \o t
    <3>1. u \in Seq(S) /\ Len(u) = Len(s) + Len(t)
      BY <2>1, Zenon
    <3> HIDE DEF u
    <3>2. Append(u, e)[i] = IF i <= Len(s) + Len(t) THEN u[i] ELSE e
      BY <2>1, <2>2, <3>1, AppendProperties
    <3> QED
      BY <3>2, Zenon DEF u
  <2>5. i <= Len(s) + Len(t) => (s \o t)[i] = IF i <= Len(s) THEN s[i] ELSE t[i - Len(s)]
    BY <2>1, <2>2, ConcatProperties
  <2>6. i > Len(s) => Append(t, e)[i - Len(s)] = IF i <= Len(s) + Len(t) THEN t[i - Len(s)] ELSE e
    BY <2>1, <2>2, AppendProperties
  <2> HIDE DEF l, r
  <2> QED
    BY <2>1, <2>2, <2>3, <2>4, <2>5, <2>6
<1> HIDE DEF l, r
<1>3. l = r
  BY <1>1, <1>2, SeqEqual, Zenon
<1> QED
  BY <1>3, Zenon DEF l, r

(* If the block MMR is the chain of a stored block, append_to_archival_block_mmr *)
(* finds every header it needs and walks the MMR to the parent's chain.       *)
LEMMA MmrWalk ==
  ASSUME TypeOK, AncestorsStored, MmrIsAChain, WriteInProgress,
         pc = "mmr", blk # Genesis
  PROVE  /\ LatestLeaf(blk) \in Block
         /\ WalkedMmr(blk) = Chain[Parent(blk)]
         /\ PathKnown(LatestLeaf(blk), Parent(blk))
<1> DEFINE top == mmr[Len(mmr)]
           k == IF Len(mmr) > Height(blk) THEN Height(blk) ELSE Len(mmr)
<1>1. blk \in Block /\ mmr \in Seq(Block) /\ mmr # <<>> /\ mmr = Chain[top] /\ Known(top)
  BY Zenon DEF TypeOK, TypeStores, TypeJob, MmrIsAChain
<1>2. Len(mmr) \in Nat \ {0} /\ top \in Block
  BY <1>1
<1>3. Height(blk) \in Nat \ {0} /\ Parent(blk) \in Block
  BY <1>1, ChainParent, Zenon
<1>4. k \in 1..Len(mmr)
  BY <1>2, <1>3
<1> HIDE DEF top, k
<1>5. Pruned(blk) = SubSeq(mmr, 1, k)
  BY Zenon DEF Pruned, k
<1>6. mmr[k] \in Block /\ Chain[mmr[k]] = SubSeq(mmr, 1, k) /\ Len(Chain[mmr[k]]) = k
  BY <1>1, <1>2, <1>4, ChainBasics, Zenon
<1>7. LatestLeaf(blk) = mmr[k] /\ Pruned(blk) = Chain[mmr[k]]
  <2>1. Len(Pruned(blk)) = k
    BY <1>5, <1>6, Zenon
  <2>2. Chain[mmr[k]][k] = mmr[k]
    BY <1>6, ChainBasics, Zenon
  <2> QED
    BY <1>5, <1>6, <2>1, <2>2, Zenon DEF LatestLeaf
<1>8. PathKnown(LatestLeaf(blk), Parent(blk))
  <2>1. Known(mmr[k])
    <3>1. mmr[k] \in Ancestry(top)
      BY <1>1, <1>4, <1>2, Zenon DEF Ancestry
    <3> QED
      BY <1>1, <1>2, <3>1, Zenon DEF AncestorsStored
  <2>2. Known(blk)
    BY Zenon DEF WriteInProgress
  <2>3. Known(Parent(blk))
    <3>1. Len(Chain[blk]) - 1 \in 1..Len(Chain[blk])
      <4> DEFINE len == Len(Chain[blk])
      <4>1. len \in Nat /\ len - 1 \in Nat \ {0}
        BY <1>1, <1>3, ChainBasics, Zenon DEF Height
      <4> HIDE DEF len
      <4>2. len - 1 \in 1..len
        BY <4>1
      <4> QED
        BY <4>2, Zenon DEF len
    <3>2. Parent(blk) \in Ancestry(blk)
      BY <3>1, Zenon DEF Ancestry, Parent
    <3> QED
      BY <1>1, <2>2, <3>2, Zenon DEF AncestorsStored
  <2> QED
    BY <1>3, <1>6, <1>7, <2>1, <2>3, Zenon DEF PathKnown, AncestorsStored
<1>9. WalkedMmr(blk) = Chain[Parent(blk)]
  <2>1. CASE Parent(blk) = LatestLeaf(blk)
    BY <1>7, <2>1, Zenon DEF WalkedMmr
  <2>2. CASE Parent(blk) # LatestLeaf(blk)
    BY <1>3, <1>6, <1>7, <2>2, PathLeadsThere, Zenon DEF WalkedMmr
  <2> QED
    BY <2>1, <2>2, Zenon
<1> QED
  BY <1>6, <1>7, <1>8, <1>9, Zenon

(* If the mutator set is synced to the block its label names, update_mutator_set *)
(* can revert what it has to and arrives at the new block's mutator set.      *)
LEMMA MutatorSetWalk ==
  ASSUME blk \in Block, blk # Genesis, label \in Block, ams = Chain[label]
  PROVE  /\ Reversible(ams, RollBack)
         /\ Reverted(ams, Len(RollBack)) \o Apply = Chain[blk]
<1>1. /\ Parent(blk) \in Block
      /\ Chain[blk] = Append(Chain[Parent(blk)], blk)
  BY ChainParent, Zenon
<1>2. Chain[label] \in Seq(Block) /\ Len(Chain[label]) \in Nat /\ Chain[Parent(blk)] \in Seq(Block)
  BY <1>1, ChainBasics, Zenon
<1>3. CASE label = Parent(blk)
  <2>1. RollBack = <<>> /\ Apply = <<blk>>
    BY <1>3 DEF RollBack, Apply
  <2>2. Reversible(ams, RollBack)
    BY <1>2, <2>1 DEF Reversible
  <2>3. Reverted(ams, Len(RollBack)) = Chain[label]
    BY <1>2, <2>1, SubSeqFull DEF Reverted
  <2>4. Chain[label] \o <<blk>> = Chain[blk]
    BY <1>1, <1>2, <1>3, AppendIsConcat, Zenon
  <2> QED
    BY <2>1, <2>2, <2>3, <2>4, Zenon
<1>4. CASE label # Parent(blk)
  <2> DEFINE back == Backwards(label, Parent(blk))
             forw == Forwards(label, Parent(blk))
             kept == SubSeq(Chain[label], 1, Len(Chain[label]) - Len(back))
  <2>1. RollBack = back /\ Apply = Append(forw, blk)
    BY <1>4, Zenon DEF RollBack, Apply
  <2>2. /\ Len(back) \in Nat /\ Len(back) < Len(Chain[label])
        /\ back \in Seq(Block) /\ forw \in Seq(Block)
        /\ kept \o forw = Chain[Parent(blk)]
    BY <1>1, PathLeadsThere, Zenon
  <2>3. \A i \in 1..Len(back) : back[i] = Chain[label][Len(Chain[label]) + 1 - i]
    <3>1. DOMAIN back = 1..Len(back)
      BY <2>2, LenProperties, Zenon
    <3>2. back = [i \in 1..(Len(Chain[label]) - SharedLen(label, Parent(blk))) |->
                    Chain[label][Len(Chain[label]) + 1 - i]]
      BY Zenon DEF Backwards
    <3>3. DOMAIN back = 1..(Len(Chain[label]) - SharedLen(label, Parent(blk)))
      BY <3>2, Zenon
    <3> HIDE DEF back
    <3> QED
      BY <3>1, <3>2, <3>3, Zenon
  <2>4. kept \in Seq(Block)
    <3> DEFINE n == Len(Chain[label]) - Len(back)
    <3>1. n \in 1..Len(Chain[label])
      BY <1>2, <2>2
    <3> HIDE DEF n
    <3>2. SubSeq(Chain[label], 1, n) = Chain[Chain[label][n]] /\ Chain[label][n] \in Block
      BY <3>1, ChainBasics, Zenon
    <3>3. SubSeq(Chain[label], 1, n) \in Seq(Block)
      BY <3>2, ChainBasics, Zenon
    <3> QED
      BY <3>3, Zenon DEF n
  <2> HIDE DEF back, forw
  <2>5. Reversible(ams, RollBack)
    BY <2>1, <2>2, <2>3 DEF Reversible
  <2>6. Reverted(ams, Len(RollBack)) = kept
    BY <2>1, Zenon DEF Reverted
  <2> HIDE DEF kept
  <2>7. kept \o Append(forw, blk) = Append(kept \o forw, blk)
    <3>1. forw \in Seq(Block)
      BY <2>2, Zenon
    <3> QED
      BY <2>4, <3>1, ConcatAppend
  <2> QED
    <3>1. Reverted(ams, Len(RollBack)) \o Apply = kept \o Append(forw, blk)
      BY <2>1, <2>6, Zenon
    <3>2. kept \o forw = Chain[Parent(blk)]
      BY <2>2, Zenon
    <3>3. Reverted(ams, Len(RollBack)) \o Apply = Chain[blk]
      BY <1>1, <2>7, <3>1, <3>2, Zenon
    <3> QED
      BY <2>5, <3>3, Zenon
<1> QED
  BY <1>3, <1>4, Zenon

-----------------------------------------------------------------------------
(* Every step preserves each part of the invariant.                           *)

(* Facts about the constants that type-checking a step needs.                 *)
LEMMA Constants ==
  /\ Genesis \in Block
  /\ NoRecord \in File \X Nat
  /\ 0 \in File
  /\ File \subseteq Nat
  /\ \A b \in Block : Height(b) \in Heights
  /\ Chain[Genesis] = <<Genesis>>
BY ChainAssumption, MaxFileAssumption DEF NoRecord, File, Heights

(* Sequences of one element, prefixes and extensions keep their type.         *)
LEMMA SeqTyping ==
  ASSUME NEW S
  PROVE  /\ <<>> \in Seq(S)
         /\ \A e \in S : <<e>> \in Seq(S)
         /\ \A s \in Seq(S), e \in S : Append(s, e) \in Seq(S)
         /\ \A s \in Seq(S) : \A n \in Nat : n <= Len(s) => SubSeq(s, 1, Len(s) - n) \in Seq(S)
         /\ \A s, t \in Seq(S) : s \o t \in Seq(S)
<1>1. ASSUME NEW s \in Seq(S), NEW n \in Nat, n <= Len(s)
      PROVE  SubSeq(s, 1, Len(s) - n) \in Seq(S)
  <2> DEFINE k == Len(s) - n
  <2>1. k \in Int /\ 1..k \subseteq 1..Len(s)
    BY <1>1
  <2>2. \A i \in 1..k : s[i] \in S
    BY <2>1, ElementOfSeq, Zenon
  <2> HIDE DEF k
  <2>3. SubSeq(s, 1, k) \in Seq(S)
    BY <2>1, <2>2, SubSeqProperties
  <2> QED
    BY <2>3, Zenon DEF k
<1> QED
  BY <1>1, AppendProperties, ConcatProperties

(* A sequence of blocks is a possible content of the mutator set.             *)
LEMMA BlocksAreContent ==
  ASSUME NEW s \in Seq(Block)
  PROVE  s \in Seq(Content)
BY SeqMonotonic, Zenon DEF Content

(* Whatever update_mutator_set reverts and applies, the result is a sequence  *)
(* of blocks and markers.                                                     *)
LEMMA UpdatedContent ==
  ASSUME blk \in Block, blk # Genesis, label \in Block, ams \in Seq(Content),
         Reversible(ams, RollBack)
  PROVE  Reverted(ams, Len(RollBack)) \o Apply \in Seq(Content)
<1>1. Parent(blk) \in Block
  BY ChainParent, Zenon
<1>2. /\ Backwards(label, Parent(blk)) \in Seq(Block)
      /\ Forwards(label, Parent(blk)) \in Seq(Block)
  BY <1>1, PathLeadsThere, Zenon
<1>3. Len(RollBack) \in Nat
  BY <1>2 DEF RollBack
<1>4. Reverted(ams, Len(RollBack)) \in Seq(Content)
  BY <1>3, SeqTyping, Zenon DEF Reverted, Reversible
<1>5. Apply \in Seq(Block)
  <2>1. CASE label = Parent(blk)
    <3>1. Apply = Append(<<>>, blk)
      BY <2>1, Zenon DEF Apply
    <3> QED
      BY <3>1, SeqTyping, Zenon
  <2>2. CASE label # Parent(blk)
    <3>1. Apply = Append(Forwards(label, Parent(blk)), blk)
      BY <2>2, Zenon DEF Apply
    <3> QED
      BY <1>2, <3>1, SeqTyping, Zenon
  <2> QED
    BY <2>1, <2>2, Zenon
<1>6. Apply \in Seq(Content)
  BY <1>5, BlocksAreContent, Zenon
<1> QED
  BY <1>4, <1>6, SeqTyping, Zenon

(* The initial states, a directory with no databases in it, satisfy the       *)
(* invariant.                                                                 *)
LEMMA InitIInv == Init => IInv
<1> SUFFICES ASSUME Init PROVE IInv
  BY Zenon
<1> USE DEF Init
<1>1. TypeIndex
  BY Constants DEF TypeIndex
<1>2. TypeStores
  BY Constants DEF TypeStores
<1>3. TypeJob
  BY Constants, MaxCrashAssumption DEF TypeJob, Pc, Cause
<1>4. RecordsBacked
  BY Zenon DEF RecordsBacked
<1>5. AncestorsStored
  <2>1. \A b \in Block : Known(b) <=> b = Genesis
    BY Zenon DEF Known
  <2>2. Ancestry(Genesis) = {Genesis}
    BY Constants DEF Ancestry
  <2> QED
    BY <2>1, <2>2, Constants, Zenon DEF AncestorsStored
<1>6. MmrIsAChain
  BY Zenon DEF MmrIsAChain
<1>7. WriteInProgress /\ MutatorSetPersisted /\ LabelStored /\ InStepWithoutCrash /\ PanicsExplained
  BY Zenon DEF WriteInProgress, MutatorSetPersisted, LabelStored, InStepWithoutCrash,
         PanicsExplained, Known
<1> QED
  BY <1>1, <1>2, <1>3, <1>4, <1>5, <1>6, <1>7, Zenon DEF IInv, TypeOK

(* The block index keeps its types.                                           *)
LEMMA TypeIndexStep ==
  ASSUME IInv, [Next]_vars
  PROVE  TypeIndex'
<1> USE DEF TypeOK, IInv, TypeIndex
<1>1. CASE ReserveSpace
  <2>1. UNCHANGED index
    BY <1>1, Zenon DEF ReserveSpace
  <2>2. files' \in [File -> Seq(Block \cup {Zeros})]
    <3>1. CASE files' = files
      BY <3>1, Zenon
    <3>2. CASE files' = [files EXCEPT ![TargetFile] = Append(@, Zeros)] /\ TargetFile \in File
      <4>1. Append(files[TargetFile], Zeros) \in Seq(Block \cup {Zeros})
        BY <3>2, SeqTyping, Zenon
      <4> QED
        BY <3>2, <4>1, Zenon
    <3> QED
      BY <1>1, <3>1, <3>2, Zenon DEF ReserveSpace
  <2> QED
    BY <2>1, <2>2, Zenon DEF index
<1>2. CASE WriteData
  <2>1. UNCHANGED index /\ files' = [files EXCEPT ![loc[1]] = [@ EXCEPT ![loc[2]] = blk]]
    BY <1>2, Zenon DEF WriteData
  <2>2. loc[1] \in File /\ loc[2] \in 1..Len(files[loc[1]]) /\ blk \in Block \cup {Zeros}
    BY <1>2, Zenon DEF WriteData, WriteInProgress, TypeJob
  <2>3. [files[loc[1]] EXCEPT ![loc[2]] = blk] \in Seq(Block \cup {Zeros})
    BY <2>2, ExceptSeq
  <2> QED
    BY <2>1, <2>2, <2>3, Zenon DEF index
<1>3. CASE WriteIndex
  <2>1. files' = files /\ tip' \in Block
    BY <1>3, Zenon DEF WriteIndex, TypeJob
  <2>2. CASE loc = NoRecord
    BY <1>3, <2>1, <2>2, Zenon DEF WriteIndex
  <2>3. CASE loc # NoRecord
    <3>1. blk \in Block /\ loc \in File \X Nat /\ loc[1] \in File /\ Height(blk) \in Heights
      BY Constants, Zenon DEF TypeJob
    <3>2. blockRec' = [blockRec EXCEPT ![blk] = loc] /\ lastFile' = loc[1]
      BY <1>3, <2>3, Zenon DEF WriteIndex
    <3>3. fileRec' = [fileRec EXCEPT ![loc[1]] = @ + 1]
      BY <1>3, <2>3, Zenon DEF WriteIndex
    <3>4. atHeight' = [atHeight EXCEPT ![Height(blk)] = Append(@, blk)]
      BY <1>3, <2>3, Zenon DEF WriteIndex
    <3>5. atHeight' \in [Heights -> Seq(Block)]
      BY <3>1, <3>4
    <3>6. fileRec' \in [File -> Nat]
      BY <3>1, <3>3
    <3>7. blockRec' \in [Block -> File \X Nat]
      BY <3>1, <3>2, Zenon
    <3> QED
      BY <2>1, <3>1, <3>2, <3>5, <3>6, <3>7, Zenon
  <2> QED
    BY <2>2, <2>3, Zenon
<1>4. CASE UNCHANGED <<files, index>>
  BY <1>4, Zenon DEF index
<1> QED
  BY <1>1, <1>2, <1>3, <1>4, Zenon
  DEF Next, Step, Open, BeginWrite, AppendMmr, UpdateMutatorSet, FlushMutatorSet,
      FlushBlockMmr, BeginQuery, EndQuery, Crash, vars, disk

(* The stores and their in-memory copies keep their types.                    *)
LEMMA TypeStoresStep ==
  ASSUME IInv, [Next]_vars
  PROVE  TypeStores'
<1> USE DEF TypeOK, IInv, TypeStores
<1>1. CASE Open
  <2>1. Genesis \in Block /\ Genesis \in Content
    BY Constants, Zenon DEF Content
  <2>2. amsDisk' \in Seq(Content) /\ ams' \in Seq(Content)
    BY <1>1, <2>1, SeqTyping, Zenon DEF Open
  <2>3. labelDisk' \in Block /\ label' \in Block /\ mmrDisk' = mmrDisk
    BY <1>1, <2>1, Zenon DEF Open
  <2>4. mmr' \in Seq(Block)
    BY <1>1, <2>1, SeqTyping, Zenon DEF Open
  <2> QED
    BY <2>2, <2>3, <2>4, Zenon
<1>2. CASE AppendMmr
  <2>1. UNCHANGED <<amsDisk, labelDisk, mmrDisk, ams, label>>
    BY <1>2, Zenon DEF AppendMmr, disk
  <2>2. CASE blk = Genesis
    <3>1. mmr' \in Seq(Block)
      BY <1>2, <2>2, Constants, SeqTyping, Zenon DEF AppendMmr
    <3> QED
      BY <2>1, <3>1, Zenon
  <2>3. CASE blk # Genesis
    <3>1. WalkedMmr(blk) \in Seq(Block)
      BY <1>2, <2>3, MmrWalk, ChainParent, ChainBasics DEF AppendMmr, TypeJob
    <3>2. mmr' = mmr \/ mmr' = Append(WalkedMmr(blk), blk)
      BY <1>2, <2>3, Zenon DEF AppendMmr
    <3>3. mmr' \in Seq(Block)
      BY <3>1, <3>2, SeqTyping, Zenon DEF TypeJob
    <3> QED
      BY <2>1, <3>3, Zenon
  <2> QED
    BY <2>2, <2>3, Zenon
<1>3. CASE UpdateMutatorSet
  <2>1. UNCHANGED <<mmrDisk, mmr>>
    BY <1>3, Zenon DEF UpdateMutatorSet
  <2>2. blk \in Block /\ Genesis \in Block /\ Genesis \in Content /\ Corrupt \in Content
    BY Constants, Zenon DEF TypeJob, Content
  <2>3. label' \in Block /\ labelDisk' \in Block
    BY <1>3, <2>2, Zenon DEF UpdateMutatorSet
  <2>4. CASE blk = Genesis
    <3>1. ams' = <<Genesis>> /\ amsDisk' = <<Genesis>>
      BY <1>3, <2>4, Zenon DEF UpdateMutatorSet
    <3> QED
      BY <2>1, <2>2, <2>3, <3>1, SeqTyping, Zenon
  <2>5. CASE blk # Genesis
    <3>1. \/ ams' = ams /\ amsDisk' = amsDisk
          \/ ams' = <<Corrupt>> /\ amsDisk' = amsDisk
          \/ /\ Reversible(ams, RollBack)
             /\ ams' = Reverted(ams, Len(RollBack)) \o Apply
             /\ amsDisk' = amsDisk \/ amsDisk' = ams'
      BY <1>3, <2>5, Zenon DEF UpdateMutatorSet
    <3>2. ams' \in Seq(Content) /\ amsDisk' \in Seq(Content)
      BY <2>2, <2>5, <3>1, SeqTyping, UpdatedContent, Zenon
    <3> QED
      BY <2>1, <2>3, <3>2, Zenon
  <2> QED
    BY <2>4, <2>5, Zenon
<1>4. CASE FlushMutatorSet
  BY <1>4, Zenon DEF FlushMutatorSet, TypeIndex
<1>5. CASE FlushBlockMmr
  <2>1. CASE pc = "flush"
    BY <1>5, <2>1, Zenon DEF FlushBlockMmr, mem
  <2>2. CASE pc # "flush"
    BY <1>5, <2>2, Constants DEF FlushBlockMmr, Stopped
  <2> QED
    BY <2>1, <2>2, Zenon
<1>6. ASSUME NEW n \in 0..Len(Chain[tip]), BeginQuery(n)
      PROVE  TypeStores'
  <2>1. n \in Nat /\ Corrupt \in Content
    BY DEF Content
  <2>2. \/ ams' = <<Corrupt>>
        \/ ams' = Reverted(ams, n)
           /\ Reversible(ams, [i \in 1..n |-> Chain[tip][Len(Chain[tip]) + 1 - i]])
    BY <1>6, Zenon DEF BeginQuery
  <2>3. Len([i \in 1..n |-> Chain[tip][Len(Chain[tip]) + 1 - i]]) = n
    BY <2>1
  <2>4. ams' \in Seq(Content)
    BY <2>1, <2>2, <2>3, SeqTyping, Zenon DEF Reversible, Reverted
  <2> QED
    BY <1>6, <2>4, Zenon DEF BeginQuery
<1>7. CASE EndQuery
  BY <1>7, Zenon DEF EndQuery, disk
<1>8. CASE Crash
  BY <1>8, Constants DEF Crash, Stopped, disk
<1>9. CASE UNCHANGED <<amsDisk, labelDisk, mmrDisk, mem>>
  BY <1>9, Zenon DEF mem
<1> QED
  BY <1>1, <1>2, <1>3, <1>4, <1>5, <1>6, <1>7, <1>8, <1>9, Zenon
  DEF Next, Step, BeginWrite, ReserveSpace, WriteData, WriteIndex, vars, disk

(* The state of the write in progress keeps its types.                        *)
LEMMA TypeJobStep ==
  ASSUME IInv, [Next]_vars
  PROVE  TypeJob'
<1> USE Constants DEF TypeOK, IInv, TypeJob, JobDone, Pc, Cause, job
<1>1. CASE ReserveSpace
  <2>1. pc' \in Pc /\ cause' \in Cause /\ UNCHANGED <<blk, asTip, crashes>>
    BY <1>1, Zenon DEF ReserveSpace, PanicAt
  <2>2. loc' \in File \X Nat
    <3>1. TargetFile \in File /\ Len(files[TargetFile]) \in Nat
      BY <1>1 DEF ReserveSpace, TypeIndex
    <3> QED
      BY <1>1, <3>1 DEF ReserveSpace
  <2> QED
    BY <2>1, <2>2, Zenon
<1>2. CASE WriteData \/ EndQuery \/ Open
  BY <1>2, Zenon DEF WriteData, EndQuery, Open
<1>3. CASE WriteIndex
  BY <1>3, Zenon DEF WriteIndex
<1>4. CASE AppendMmr \/ UpdateMutatorSet
  BY <1>4, Zenon DEF AppendMmr, UpdateMutatorSet, PanicAt
<1>5. CASE FlushMutatorSet
  BY <1>5, Zenon DEF FlushMutatorSet
<1>6. CASE FlushBlockMmr
  BY <1>6, Zenon DEF FlushBlockMmr, Stopped
<1>7. ASSUME NEW n \in 0..Len(Chain[tip]), BeginQuery(n)
      PROVE  TypeJob'
  BY <1>7, Zenon DEF BeginQuery, PanicAt
<1>8. CASE Crash
  <2>1. crashes' \in 0..MaxCrash
    BY <1>8, MaxCrashAssumption DEF Crash
  <2> QED
    BY <1>8, <2>1, Zenon DEF Crash, Stopped
<1>9. ASSUME NEW b \in Block, NEW t \in BOOLEAN, BeginWrite(b, t)
      PROVE  TypeJob'
  BY <1>9, Zenon DEF BeginWrite
<1>10. CASE UNCHANGED vars
  BY <1>10, Zenon DEF vars
<1> QED
  BY <1>1, <1>2, <1>3, <1>4, <1>5, <1>6, <1>7, <1>8, <1>9, <1>10, Zenon DEF Next, Step

(* The invariant's types hold after every step.                               *)
LEMMA TypeOKStep ==
  ASSUME IInv, [Next]_vars
  PROVE  TypeOK'
BY TypeIndexStep, TypeStoresStep, TypeJobStep, Zenon DEF TypeOK

(* Records are only ever added: one by the index batch of a write.            *)
LEMMA RecordsGrow ==
  ASSUME IInv, [Next]_vars
  PROVE  \/ blockRec' = blockRec
         \/ /\ WriteIndex /\ loc # NoRecord
            /\ blockRec' = [blockRec EXCEPT ![blk] = loc]
<1>1. CASE WriteIndex
  BY <1>1, Zenon DEF WriteIndex
<1>2. CASE UNCHANGED index
  BY <1>2, Zenon DEF index
<1> QED
  BY <1>1, <1>2, Zenon
  DEF Next, Step, Open, BeginWrite, ReserveSpace, WriteData, AppendMmr, UpdateMutatorSet,
      FlushMutatorSet, FlushBlockMmr, BeginQuery, EndQuery, Crash, vars, disk

(* A block that is known stays known.                                         *)
LEMMA KnownStays ==
  ASSUME IInv, [Next]_vars, NEW b \in Block, Known(b)
  PROVE  Known(b)'
<1>1. blockRec \in [Block -> File \X Nat] /\ blk \in Block
  BY Zenon DEF IInv, TypeOK, TypeIndex, TypeJob
<1> QED
  BY <1>1, RecordsGrow, Zenon DEF Known

(* Every record stays backed: files only grow, bytes are only written where   *)
(* no record points yet, and a record is added after its bytes.               *)
LEMMA RecordsBackedStep ==
  ASSUME IInv, [Next]_vars
  PROVE  RecordsBacked'
<1>1. /\ files \in [File -> Seq(Block \cup {Zeros})] /\ blockRec \in [Block -> File \X Nat]
      /\ blk \in Block /\ loc \in File \X Nat /\ RecordsBacked /\ WriteInProgress
  BY Zenon DEF IInv, TypeOK, TypeIndex, TypeJob
<1>2. CASE ReserveSpace
  <2>1. blockRec' = blockRec
    BY <1>2, Zenon DEF ReserveSpace, index
  <2>2. ASSUME NEW f \in File
        PROVE  /\ Len(files[f]) <= Len(files'[f])
               /\ \A i \in 1..Len(files[f]) : files'[f][i] = files[f][i]
    <3>1. \/ files' = files
          \/ files' = [files EXCEPT ![TargetFile] = Append(@, Zeros)]
      BY <1>2, Zenon DEF ReserveSpace
    <3>2. \/ files'[f] = files[f]
          \/ files'[f] = Append(files[f], Zeros)
      BY <1>1, <3>1, Zenon
    <3>3. files[f] \in Seq(Block \cup {Zeros}) /\ Len(files[f]) \in Nat
      BY <1>1
    <3> QED
      BY <3>2, <3>3
  <2>3. \A f \in File : Len(files[f]) \in Nat /\ Len(files'[f]) \in Nat
    <3>1. files' \in [File -> Seq(Block \cup {Zeros})]
      BY TypeIndexStep, Zenon DEF TypeIndex
    <3> QED
      BY <1>1, <3>1
  <2>4. ASSUME NEW b \in Block, blockRec[b] # NoRecord
        PROVE  /\ blockRec[b][2] \in 1..Len(files'[blockRec[b][1]])
               /\ files'[blockRec[b][1]][blockRec[b][2]] = b
    <3> DEFINE f == blockRec[b][1]
               i == blockRec[b][2]
    <3>1. f \in File /\ i \in 1..Len(files[f]) /\ files[f][i] = b
      BY <1>1, <2>4, Zenon DEF RecordsBacked
    <3> HIDE DEF f, i
    <3>2. files'[f][i] = b /\ Len(files[f]) <= Len(files'[f])
      BY <2>2, <3>1, Zenon
    <3>3. i \in 1..Len(files'[f])
      BY <2>3, <3>1, <3>2
    <3> QED
      BY <3>2, <3>3, Zenon DEF f, i
  <2> QED
    BY <2>1, <2>4, Zenon DEF RecordsBacked
<1>3. CASE WriteData
  <2>1. blockRec' = blockRec /\ files' = [files EXCEPT ![loc[1]] = [@ EXCEPT ![loc[2]] = blk]]
    BY <1>3, Zenon DEF WriteData, index
  <2>2. /\ loc[1] \in File /\ loc[2] \in 1..Len(files[loc[1]])
        /\ files[loc[1]][loc[2]] = Zeros
    BY <1>1, <1>3, Zenon DEF WriteData, WriteInProgress
  <2>3. ASSUME NEW b \in Block, blockRec[b] # NoRecord
        PROVE  /\ blockRec[b][2] \in 1..Len(files'[blockRec[b][1]])
               /\ files'[blockRec[b][1]][blockRec[b][2]] = b
    <3> DEFINE f == blockRec[b][1]
               i == blockRec[b][2]
    <3>1. f \in File /\ i \in 1..Len(files[f]) /\ files[f][i] = b
      BY <1>1, <2>3, Zenon DEF RecordsBacked
    <3>2. ~(f = loc[1] /\ i = loc[2])
      BY <2>2, <3>1, MarkerAssumption, Zenon
    <3> HIDE DEF f, i
    <3>3. CASE f # loc[1]
      <4>1. files'[f] = files[f]
        BY <1>1, <2>1, <3>1, <3>3, Zenon
      <4> QED
        BY <3>1, <4>1, Zenon DEF f, i
    <3>4. CASE f = loc[1]
      <4>1. files'[f] = [files[f] EXCEPT ![loc[2]] = blk]
        BY <1>1, <2>1, <2>2, <3>4, Zenon
      <4>2. files[f] \in Seq(Block \cup {Zeros}) /\ loc[2] \in 1..Len(files[f])
            /\ blk \in Block \cup {Zeros}
        BY <1>1, <2>2, <3>1, <3>4, Zenon
      <4>3. Len(files'[f]) = Len(files[f]) /\ files'[f][i] = files[f][i]
        BY <3>1, <3>2, <3>4, <4>1, <4>2, ExceptSeq
      <4> QED
        BY <3>1, <4>3, Zenon DEF f, i
    <3> QED
      BY <3>3, <3>4, Zenon
  <2> QED
    BY <2>1, <2>3, Zenon DEF RecordsBacked
<1>4. CASE WriteIndex
  <2>1. files' = files
    BY <1>4, Zenon DEF WriteIndex
  <2>2. loc # NoRecord => loc[2] \in 1..Len(files[loc[1]]) /\ files[loc[1]][loc[2]] = blk
    BY <1>1, <1>4, Zenon DEF WriteIndex, WriteInProgress
  <2> QED
    BY <1>1, <2>1, <2>2, RecordsGrow, Zenon DEF RecordsBacked
<1>5. CASE UNCHANGED <<files, blockRec>>
  BY <1>1, <1>5, Zenon DEF RecordsBacked
<1> QED
  BY <1>2, <1>3, <1>4, <1>5, Zenon
  DEF Next, Step, Open, BeginWrite, AppendMmr, UpdateMutatorSet, FlushMutatorSet,
      FlushBlockMmr, BeginQuery, EndQuery, Crash, vars, disk, index

(* Ancestors stay stored: a block is recorded only when its parent is known.  *)
LEMMA AncestorsStoredStep ==
  ASSUME IInv, [Next]_vars
  PROVE  AncestorsStored'
<1>1. /\ tip \in Block /\ blk \in Block /\ asTip \in BOOLEAN
      /\ blockRec \in [Block -> File \X Nat]
      /\ AncestorsStored /\ WriteInProgress
  BY Zenon DEF IInv, TypeOK, TypeIndex, TypeJob
<1>2. Known(tip)'
  <2>1. \A b \in Block : Known(b) => (b = Genesis \/ blockRec'[b] # NoRecord)
    BY KnownStays, Zenon DEF Known
  <2>2. Known(tip)
    BY <1>1, Zenon DEF AncestorsStored
  <2>3. CASE tip' = tip
    BY <1>1, <2>1, <2>2, <2>3, Zenon DEF Known
  <2>4. CASE WriteIndex /\ tip' = blk
    <3>1. CASE loc = NoRecord
      <4>1. Known(blk)
        BY <1>1, <2>4, <3>1, Zenon DEF WriteIndex, WriteInProgress
      <4> QED
        BY <1>1, <2>1, <2>4, <4>1, Zenon DEF Known
    <3>2. CASE loc # NoRecord
      <4>1. blockRec' = [blockRec EXCEPT ![blk] = loc]
        BY <2>4, <3>2, Zenon DEF WriteIndex
      <4> QED
        BY <1>1, <2>4, <3>2, <4>1, Zenon DEF Known
    <3> QED
      BY <3>1, <3>2, Zenon
  <2>5. WriteIndex => tip' = blk \/ tip' = tip
    BY Zenon DEF WriteIndex
  <2> QED
    BY <2>3, <2>4, <2>5, Zenon
    DEF Next, Step, Open, BeginWrite, ReserveSpace, WriteData, AppendMmr, UpdateMutatorSet,
        FlushMutatorSet, FlushBlockMmr, BeginQuery, EndQuery, Crash, vars, disk, index
<1>3. ASSUME NEW b \in Block, Known(b)', NEW x \in Ancestry(b)
      PROVE  Known(x)'
  <2>1. x \in Block
    BY ChainBasics, Zenon DEF Ancestry
  <2>2. CASE Known(b)
    BY <1>1, <1>3, <2>1, <2>2, KnownStays, Zenon DEF AncestorsStored
  <2>3. CASE ~Known(b)
    <3>1. b = blk /\ WriteIndex /\ b # Genesis
      BY <1>1, <1>3, <2>3, RecordsGrow, Zenon DEF Known
    <3>2. Known(Parent(b)) /\ Parent(b) \in Block
      BY <1>1, <3>1, ChainParent, Zenon DEF WriteIndex, WriteInProgress
    <3>3. CASE x = b
      BY <1>3, <3>3, Zenon
    <3>4. CASE x # b
      <4>1. PICK n \in 1..Len(Chain[b]) : x = Chain[b][n]
        BY Zenon DEF Ancestry
      <4>2. Len(Chain[b]) \in Nat /\ Chain[b][Len(Chain[b])] = b
        BY ChainBasics, Zenon
      <4> DEFINE len == Len(Chain[b])
      <4>3. n \in 1..len - 1
        <5>1. n # len
          BY <3>4, <4>1, <4>2, Zenon
        <5>2. n \in 1..len /\ len \in Nat
          BY <4>2, Zenon
        <5> HIDE DEF len
        <5> QED
          BY <5>1, <5>2
      <4>4. x = Chain[Parent(b)][n] /\ n \in 1..Len(Chain[Parent(b)])
        <5>1. Chain[b] = Append(Chain[Parent(b)], b) /\ Len(Chain[Parent(b)]) = len - 1
          BY <3>1, ChainParent, Zenon
        <5>2. Chain[Parent(b)] \in Seq(Block)
          BY <3>2, ChainBasics, Zenon
        <5>3. n \in 1..Len(Chain[Parent(b)])
          BY <4>3, <5>1, Zenon
        <5>4. Append(Chain[Parent(b)], b)[n] = Chain[Parent(b)][n]
          BY <5>2, <5>3, AppendProperties
        <5> QED
          BY <4>1, <5>1, <5>3, <5>4, Zenon
      <4>5. x \in Ancestry(Parent(b))
        BY <4>4, Zenon DEF Ancestry
      <4> QED
        BY <1>1, <2>1, <3>2, <4>5, KnownStays, Zenon DEF AncestorsStored
    <3> QED
      BY <3>3, <3>4, Zenon
  <2> QED
    BY <2>2, <2>3, Zenon
<1> QED
  BY <1>2, <1>3, Zenon DEF AncestorsStored

(* The block MMR stays a chain: it is only replaced by the chain of the block *)
(* just set as tip, or by a persisted or initial chain on start-up.           *)
LEMMA MmrIsAChainStep ==
  ASSUME IInv, [Next]_vars
  PROVE  MmrIsAChain'
<1> DEFINE IsChain(s) == /\ s # <<>>
                         /\ s[Len(s)] \in Block
                         /\ s = Chain[s[Len(s)]]
<1>1. /\ TypeOK /\ AncestorsStored /\ MmrIsAChain /\ WriteInProgress
      /\ blk \in Block /\ mmr \in Seq(Block) /\ mmrDisk \in Seq(Block)
  BY Zenon DEF IInv, TypeOK, TypeStores, TypeJob
<1>2. \A s \in Seq(Block) : s # <<>> => s[Len(s)] \in Block
  OBVIOUS
<1>3. \A s \in Seq(Block) : s # <<>> /\ Known(s[Len(s)]) => Known(s[Len(s)])'
  BY <1>2, KnownStays, Zenon
<1>4. CASE Open
  <2>1. mmrDisk' = mmrDisk /\ mmr' = IF mmrDisk = <<>> THEN <<Genesis>> ELSE mmrDisk
    BY <1>4, Zenon DEF Open
  <2>2. CASE mmrDisk = <<>>
    <3>1. mmr' = <<Genesis>> /\ Len(mmr') = 1 /\ mmr'[Len(mmr')] = Genesis
      BY <2>1, <2>2, Zenon
    <3> QED
      BY <2>1, <2>2, <3>1, Constants DEF MmrIsAChain, Known
  <2>3. CASE mmrDisk # <<>>
    BY <1>1, <1>3, <2>1, <2>3, Zenon DEF MmrIsAChain
  <2> QED
    BY <2>2, <2>3, Zenon
<1>5. CASE AppendMmr
  <2>1. UNCHANGED <<mmrDisk, blockRec>> /\ pc = "mmr"
    BY <1>5, Zenon DEF AppendMmr, disk, index
  <2>2. CASE mmr' = mmr
    BY <1>1, <2>1, <2>2, Zenon DEF MmrIsAChain, Known
  <2>3. CASE mmr' # mmr
    <3>1. mmr' = Chain[blk]
      <4>1. CASE blk = Genesis
        BY <1>5, <4>1, Constants, Zenon DEF AppendMmr
      <4>2. CASE blk # Genesis
        <5>1. mmr' = Append(WalkedMmr(blk), blk)
          BY <1>5, <2>3, <4>2, Zenon DEF AppendMmr
        <5> QED
          BY <1>1, <2>1, <4>2, <5>1, MmrWalk, ChainParent, Zenon
      <4> QED
        BY <4>1, <4>2, Zenon
    <3>2. Known(blk)
      BY <1>1, <2>1, Zenon DEF WriteInProgress
    <3>3. Chain[blk] # <<>> /\ Chain[blk][Len(Chain[blk])] = blk
      BY <1>1, ChainBasics, Zenon
    <3> QED
      BY <1>1, <2>1, <3>1, <3>2, <3>3, Zenon DEF MmrIsAChain, Known
  <2> QED
    BY <2>2, <2>3, Zenon
<1>6. CASE FlushBlockMmr
  <2>1. mmrDisk' = mmr /\ (pc' = "down" \/ mmr' = mmr) /\ blockRec' = blockRec /\ pc # "down"
    BY <1>6, Zenon DEF FlushBlockMmr, Stopped, index, mem
  <2> QED
    BY <1>1, <2>1, Zenon DEF MmrIsAChain, Known
<1>7. CASE Crash
  <2>1. mmrDisk' = mmrDisk /\ pc' = "down" /\ blockRec' = blockRec
    BY <1>7, Zenon DEF Crash, Stopped, disk
  <2> QED
    BY <1>1, <2>1, Zenon DEF MmrIsAChain, Known
<1>8. CASE UNCHANGED <<mmr, mmrDisk>> /\ (pc' # "down" => pc # "down")
  BY <1>1, <1>3, <1>8, Zenon DEF MmrIsAChain
<1> QED
  BY <1>4, <1>5, <1>6, <1>7, <1>8, Zenon
  DEF Next, Step, BeginWrite, ReserveSpace, WriteData, WriteIndex, UpdateMutatorSet,
      FlushMutatorSet, BeginQuery, EndQuery, vars, disk, index, mem

(* The facts about the write in progress follow it from step to step.         *)
LEMMA WriteInProgressStep ==
  ASSUME IInv, [Next]_vars
  PROVE  WriteInProgress'
<1>1. /\ files \in [File -> Seq(Block \cup {Zeros})] /\ blockRec \in [Block -> File \X Nat]
      /\ blk \in Block /\ loc \in File \X Nat /\ tip \in Block
      /\ WriteInProgress
  BY Zenon DEF IInv, TypeOK, TypeIndex, TypeJob
<1>2. ASSUME NEW b \in Block, NEW t \in BOOLEAN, BeginWrite(b, t)
      PROVE  WriteInProgress'
  <2>1. /\ blk' = b /\ loc' = NoRecord /\ blockRec' = blockRec
        /\ b # Genesis => Known(Parent(b))
        /\ pc' = IF Known(b) THEN "index" ELSE "reserve"
    BY <1>2, Zenon DEF BeginWrite, disk
  <2> QED
    BY <2>1, Zenon DEF WriteInProgress, Known
<1>3. CASE ReserveSpace
  <2>1. CASE pc' = "panicked"
    BY <2>1, Zenon DEF WriteInProgress
  <2>2. CASE pc' # "panicked"
    <3>1. /\ pc = "reserve" /\ pc' = "data" /\ TargetFile \in File
          /\ files' = [files EXCEPT ![TargetFile] = Append(@, Zeros)]
          /\ loc' = <<TargetFile, Len(files[TargetFile]) + 1>>
          /\ blk' = blk /\ blockRec' = blockRec
      BY <1>3, <2>2, Zenon DEF ReserveSpace, PanicAt, index
    <3> DEFINE s == files[TargetFile]
    <3>2. s \in Seq(Block \cup {Zeros}) /\ Len(s) \in Nat
      BY <1>1, <3>1
    <3>3. files'[TargetFile] = Append(s, Zeros)
      BY <1>1, <3>1, Zenon
    <3>4. Len(Append(s, Zeros)) = Len(s) + 1 /\ Append(s, Zeros)[Len(s) + 1] = Zeros
      BY <3>2, AppendProperties
    <3>5. loc'[1] = TargetFile /\ loc'[2] = Len(s) + 1 /\ loc' # NoRecord
      BY <3>1, <3>2 DEF NoRecord
    <3> HIDE DEF s
    <3>6. loc'[2] \in 1..Len(files'[loc'[1]]) /\ files'[loc'[1]][loc'[2]] = Zeros
      BY <3>2, <3>3, <3>4, <3>5
    <3>7. blk # Genesis /\ Known(Parent(blk))
      BY <1>1, <3>1, Zenon DEF WriteInProgress
    <3> QED
      BY <3>1, <3>5, <3>6, <3>7, Zenon DEF WriteInProgress, Known
  <2> QED
    BY <2>1, <2>2, Zenon
<1>4. CASE WriteData
  <2>1. /\ pc = "data" /\ pc' = "index" /\ UNCHANGED <<blk, loc, blockRec>>
        /\ files' = [files EXCEPT ![loc[1]] = [@ EXCEPT ![loc[2]] = blk]]
    BY <1>4, Zenon DEF WriteData, job, index
  <2>2. /\ loc # NoRecord /\ loc[1] \in File /\ loc[2] \in 1..Len(files[loc[1]])
        /\ blk # Genesis /\ Known(Parent(blk))
    BY <1>1, <2>1, Zenon DEF WriteInProgress
  <2>3. files'[loc[1]] = [files[loc[1]] EXCEPT ![loc[2]] = blk]
    BY <1>1, <2>1, <2>2, Zenon
  <2>4. Len(files'[loc[1]]) = Len(files[loc[1]]) /\ files'[loc[1]][loc[2]] = blk
    <3> DEFINE s == files[loc[1]]
               k == loc[2]
    <3>1. s \in Seq(Block \cup {Zeros}) /\ k \in 1..Len(s) /\ blk \in Block \cup {Zeros}
      BY <1>1, <2>2, Zenon
    <3> HIDE DEF s, k
    <3>2. Len([s EXCEPT ![k] = blk]) = Len(s) /\ [s EXCEPT ![k] = blk][k] = blk
      BY <3>1, ExceptSeq
    <3> QED
      BY <2>3, <3>2, Zenon DEF s, k
  <2> QED
    BY <2>1, <2>2, <2>4, Zenon DEF WriteInProgress, Known
<1>5. CASE WriteIndex
  <2>1. CASE pc' = "idle"
    BY <2>1, Zenon DEF WriteInProgress
  <2>2. CASE pc' # "idle"
    <3>1. pc' = "mmr" /\ blk' = blk /\ tip' = blk
      BY <1>5, <2>2, Zenon DEF WriteIndex, job
    <3>2. Known(blk)'
      <4>1. CASE loc = NoRecord
        <5>1. Known(blk)
          BY <1>1, <1>5, <4>1, Zenon DEF WriteIndex, WriteInProgress
        <5> QED
          BY <1>5, <3>1, <4>1, <5>1, Zenon DEF WriteIndex, Known
      <4>2. CASE loc # NoRecord
        BY <1>1, <1>5, <3>1, <4>2, Zenon DEF WriteIndex, Known
      <4> QED
        BY <4>1, <4>2, Zenon
    <3> QED
      BY <3>1, <3>2, Zenon DEF WriteInProgress
  <2> QED
    BY <2>1, <2>2, Zenon
<1>6. CASE AppendMmr
  <2>1. UNCHANGED <<blockRec, blk, tip>> /\ pc = "mmr" /\ pc' \in {"panicked", "ams"}
    BY <1>6, Zenon DEF AppendMmr, PanicAt, disk, job
  <2>2. CASE pc' = "panicked"
    BY <2>2, Zenon DEF WriteInProgress
  <2>3. CASE pc' = "ams"
    <3>1. mmr' = Chain[blk]
      <4>1. CASE blk = Genesis
        BY <1>6, <4>1, Constants, Zenon DEF AppendMmr
      <4>2. CASE blk # Genesis
        <5>1. mmr' = Append(WalkedMmr(blk), blk)
          BY <1>6, <2>3, <4>2, Zenon DEF AppendMmr, PanicAt
        <5> QED
          BY <1>1, <2>1, <4>2, <5>1, MmrWalk, ChainParent, Zenon DEF IInv
      <4> QED
        BY <4>1, <4>2, Zenon
    <3>2. Known(blk) /\ tip = blk
      BY <1>1, <2>1, Zenon DEF WriteInProgress
    <3> QED
      BY <2>1, <2>3, <3>1, <3>2, Zenon DEF WriteInProgress, Known
  <2> QED
    BY <2>1, <2>2, <2>3, Zenon
<1>7. CASE pc' \in {"idle", "down", "panicked", "dropping", "flush", "query"}
  BY <1>7, Zenon DEF WriteInProgress
<1>8. CASE UNCHANGED vars
  BY <1>1, <1>8, Zenon DEF WriteInProgress, vars, disk, mem, job, Known
<1>9. Open \/ UpdateMutatorSet \/ FlushMutatorSet \/ FlushBlockMmr \/ EndQuery \/ Crash
      \/ (\E n \in 0..Len(Chain[tip]) : BeginQuery(n))
        => pc' \in {"idle", "down", "panicked", "dropping", "flush", "query"}
  BY Zenon DEF Open, UpdateMutatorSet, FlushMutatorSet, FlushBlockMmr, BeginQuery, EndQuery,
         Crash, Stopped, PanicAt
<1> QED
  BY <1>2, <1>3, <1>4, <1>5, <1>6, <1>7, <1>8, <1>9, Zenon DEF Next, Step

(* The mutator set in memory is the persisted one again after every use.      *)
LEMMA MutatorSetPersistedStep ==
  ASSUME IInv, [Next]_vars
  PROVE  MutatorSetPersisted'
<1>1. MutatorSetPersisted
  BY Zenon DEF IInv
<1> USE DEF MutatorSetPersisted
<1>2. CASE Open
  BY <1>2, Zenon DEF Open
<1>3. CASE UpdateMutatorSet
  <2>1. pc' = "panicked" \/ (ams' = amsDisk' /\ label' = labelDisk')
    <3>1. CASE blk = Genesis
      BY <1>3, <3>1, Zenon DEF UpdateMutatorSet
    <3>2. CASE blk # Genesis
      <4> DEFINE content == Reverted(ams, Len(RollBack)) \o Apply
      <4>1. \/ pc' = "panicked"
            \/ ams' = content /\ amsDisk' = content /\ label' = blk /\ labelDisk' = blk
        BY <1>3, <3>2, Zenon DEF UpdateMutatorSet, PanicAt
      <4> HIDE DEF content
      <4> QED
        BY <4>1, Zenon
    <3> QED
      BY <3>1, <3>2, Zenon
  <2> QED
    BY <2>1, Zenon
<1>4. CASE FlushMutatorSet
  BY <1>4, Zenon DEF FlushMutatorSet
<1>5. CASE FlushBlockMmr
  BY <1>1, <1>5, Zenon DEF FlushBlockMmr, Stopped, mem
<1>6. ASSUME NEW n \in 0..Len(Chain[tip]), BeginQuery(n)
      PROVE  MutatorSetPersisted'
  BY <1>6, Zenon DEF BeginQuery, PanicAt
<1>7. CASE EndQuery
  BY <1>1, <1>7, Zenon DEF EndQuery, disk
<1>8. CASE Crash
  BY <1>8, Zenon DEF Crash, Stopped
<1>9. CASE UNCHANGED <<amsDisk, labelDisk, ams, label>> /\ (pc' = pc \/
             pc \notin {"down", "query", "panicked", "dropping"})
  BY <1>1, <1>9, Zenon
<1> QED
  BY <1>2, <1>3, <1>4, <1>5, <1>6, <1>7, <1>8, <1>9, Zenon
  DEF Next, Step, BeginWrite, ReserveSpace, WriteData, WriteIndex, AppendMmr, vars, disk, mem

(* The sync label only ever takes the value of a stored block.                *)
LEMMA LabelStoredStep ==
  ASSUME IInv, [Next]_vars
  PROVE  LabelStored'
<1>1. /\ LabelStored /\ Known(tip) /\ tip \in Block /\ label \in Block /\ labelDisk \in Block
      /\ blk \in Block /\ WriteInProgress
  BY Zenon DEF IInv, TypeOK, TypeIndex, TypeStores, TypeJob, AncestorsStored
<1>2. \A b \in Block : Known(b) => (b = Genesis \/ blockRec'[b] # NoRecord)
  BY KnownStays, Zenon DEF Known
<1>3. /\ label' \in {label, labelDisk, tip, Genesis} \/ (label' = blk /\ pc = "ams")
      /\ labelDisk' \in {label, labelDisk, tip, Genesis} \/ (labelDisk' = blk /\ pc = "ams")
  BY Zenon DEF Next, Step, Open, BeginWrite, ReserveSpace, WriteData, WriteIndex, AppendMmr,
         UpdateMutatorSet, FlushMutatorSet, FlushBlockMmr, BeginQuery, EndQuery, Crash,
         Stopped, vars, disk, mem
<1>4. pc = "ams" => Known(blk)
  BY <1>1, Zenon DEF WriteInProgress
<1> QED
  BY <1>1, <1>2, <1>3, <1>4, Zenon DEF LabelStored, Known

(* find_path finds the header of every block between two known ones.          *)
LEMMA PathIsKnown ==
  ASSUME AncestorsStored, NEW a \in Block, NEW b \in Block, Known(a), Known(b)
  PROVE  PathKnown(a, b)
BY Zenon DEF PathKnown, AncestorsStored

(* The parent of a known block is known.                                      *)
LEMMA ParentIsKnown ==
  ASSUME AncestorsStored, NEW b \in Block, b # Genesis, Known(b)
  PROVE  Parent(b) \in Block /\ Known(Parent(b))
<1> DEFINE len == Len(Chain[b])
<1>1. len \in Nat /\ len - 1 \in Nat \ {0}
  BY ChainBasics, ChainParent, Zenon DEF Height
<1>2. Parent(b) = Chain[b][len - 1]
  BY Zenon DEF Parent
<1> HIDE DEF len
<1>3. len - 1 \in 1..len
  BY <1>1
<1>4. Parent(b) \in Ancestry(b)
  BY <1>2, <1>3, Zenon DEF Ancestry, len
<1> QED
  BY <1>4, ChainParent, Zenon DEF AncestorsStored

(* update_mutator_set on a mutator set synced to its label ends well.         *)
LEMMA UpdateFromSynced ==
  ASSUME IInv, UpdateMutatorSet, ams = Chain[label]
  PROVE  /\ pc' = "idle"
         /\ ams' = Chain[blk] /\ amsDisk' = Chain[blk]
         /\ label' = blk /\ labelDisk' = blk
<1>1. /\ blk \in Block /\ label \in Block /\ Known(label) /\ pc = "ams" /\ Known(blk)
      /\ AncestorsStored
  BY Zenon DEF IInv, TypeOK, TypeJob, TypeStores, LabelStored, UpdateMutatorSet, WriteInProgress
<1>2. CASE blk = Genesis
  BY <1>2, Constants, Zenon DEF UpdateMutatorSet
<1>3. CASE blk # Genesis
  <2>1. PathKnown(label, Parent(blk))
    BY <1>1, <1>3, ParentIsKnown, PathIsKnown, Zenon
  <2>2. Reversible(ams, RollBack) /\ Reverted(ams, Len(RollBack)) \o Apply = Chain[blk]
    BY <1>1, <1>3, MutatorSetWalk, Zenon
  <2> QED
    BY <1>3, <2>1, <2>2, Zenon DEF UpdateMutatorSet
<1> QED
  BY <1>2, <1>3, Zenon

(* A query can revert its blocks if the mutator set is synced to the tip.     *)
LEMMA QueryFromSynced ==
  ASSUME NEW n \in Nat, n < Len(Chain[tip]), tip \in Block, ams = Chain[tip]
  PROVE  Reversible(ams, [i \in 1..n |-> Chain[tip][Len(Chain[tip]) + 1 - i]])
<1>1. Len(Chain[tip]) \in Nat
  BY ChainBasics, Zenon
<1> DEFINE back == [i \in 1..n |-> Chain[tip][Len(Chain[tip]) + 1 - i]]
<1>2. Len(back) = n /\ \A i \in 1..n : back[i] = Chain[tip][Len(Chain[tip]) + 1 - i]
  OBVIOUS
<1> HIDE DEF back
<1>3. Reversible(ams, back)
  BY <1>1, <1>2 DEF Reversible
<1> QED
  BY <1>3, Zenon DEF back

(* A panic after crashes has one of the causes that are left.                 *)
LEMMA PanicsExplainedStep ==
  ASSUME IInv, [Next]_vars
  PROVE  PanicsExplained'
<1>1. /\ PanicsExplained /\ MutatorSetPersisted /\ TypeOK /\ AncestorsStored /\ MmrIsAChain
      /\ WriteInProgress /\ LabelStored
  BY Zenon DEF IInv
<1> USE DEF PanicsExplained
<1>2. CASE ReserveSpace
  BY <1>2, Zenon DEF ReserveSpace, PanicAt
<1>3. CASE AppendMmr
  <2>1. pc = "mmr" /\ blk \in Block
    BY <1>1, <1>3, Zenon DEF AppendMmr, TypeOK, TypeJob
  <2>2. pc' = "ams"
    <3>1. CASE blk = Genesis
      BY <1>3, <3>1, Zenon DEF AppendMmr
    <3>2. CASE blk # Genesis
      <4>1. /\ PathKnown(LatestLeaf(blk), Parent(blk))
            /\ WalkedMmr(blk) = Chain[Parent(blk)]
        BY <1>1, <2>1, <3>2, MmrWalk, Zenon
      <4>2. WalkedMmr(blk)[Len(WalkedMmr(blk))] = Parent(blk)
        BY <2>1, <3>2, <4>1, ChainParent, ChainBasics, Zenon
      <4> QED
        BY <1>3, <3>2, <4>1, <4>2, Zenon DEF AppendMmr
    <3> QED
      BY <3>1, <3>2, Zenon
  <2> QED
    BY <2>2, Zenon
<1>4. CASE UpdateMutatorSet
  <2>1. CASE amsDisk = Chain[labelDisk]
    <3>1. ams = Chain[label]
      BY <1>1, <1>4, <2>1, Zenon DEF MutatorSetPersisted, UpdateMutatorSet
    <3> QED
      BY <1>4, <3>1, UpdateFromSynced, Zenon
  <2>2. CASE amsDisk # Chain[labelDisk]
    <3>1. /\ blk \in Block /\ label \in Block /\ Known(label) /\ Known(blk)
      BY <1>1, <1>4, Zenon DEF TypeOK, TypeJob, TypeStores, LabelStored, UpdateMutatorSet, WriteInProgress
    <3>2. blk # Genesis => PathKnown(label, Parent(blk))
      BY <1>1, <3>1, ParentIsKnown, PathIsKnown, Zenon
    <3>3. pc' = "idle" \/ (cause' \in {"rollback", "hash"} /\ UNCHANGED <<amsDisk, labelDisk>>)
      BY <1>4, <3>2, Zenon DEF UpdateMutatorSet, PanicAt
    <3> QED
      BY <2>2, <3>3, Zenon
  <2> QED
    BY <2>1, <2>2, Zenon
<1>5. ASSUME NEW n \in 0..Len(Chain[tip]), BeginQuery(n)
      PROVE  PanicsExplained'
  BY <1>5, Zenon DEF BeginQuery, PanicAt
<1>6. CASE UNCHANGED vars
  BY <1>1, <1>6, Zenon DEF vars, disk
<1>7. CASE pc' # "panicked"
  BY <1>7, Zenon
<1>8. Open \/ WriteData \/ WriteIndex \/ FlushMutatorSet \/ FlushBlockMmr \/ EndQuery \/ Crash
      \/ (\E b \in Block, t \in BOOLEAN : BeginWrite(b, t))
        => pc' # "panicked"
  BY Zenon DEF Open, WriteData, WriteIndex, FlushMutatorSet, FlushBlockMmr, EndQuery,
         Crash, Stopped, BeginWrite
<1> QED
  BY <1>2, <1>3, <1>4, <1>5, <1>6, <1>7, <1>8, Zenon DEF Next, Step

(* While no crash has happened the stores move in step with the tip.          *)
LEMMA InStepWithoutCrashStep ==
  ASSUME IInv, [Next]_vars
  PROVE  InStepWithoutCrash'
<1> SUFFICES ASSUME crashes' = 0 PROVE InStepWithoutCrash'
  BY Zenon DEF InStepWithoutCrash
<1>1. /\ TypeOK /\ MutatorSetPersisted /\ InStepWithoutCrash
      /\ AncestorsStored /\ MmrIsAChain /\ WriteInProgress
  BY Zenon DEF IInv
<1>2. ~Crash
  BY <1>1 DEF Crash, TypeOK, TypeJob
<1>3. crashes = 0
  BY <1>2, Zenon DEF Next, Step, Open, BeginWrite, ReserveSpace, WriteData, WriteIndex, AppendMmr,
         UpdateMutatorSet, FlushMutatorSet, FlushBlockMmr, BeginQuery, EndQuery, vars
<1> DEFINE FileRecorded(f) == fileRec[f] = 0 =>
             \/ files[f] = <<>>
             \/ pc \in {"data", "index"} /\ loc # NoRecord /\ f = loc[1]
<1>4. /\ pc \notin {"panicked", "dropping"}
      /\ pc = "down" => amsDisk = <<>> /\ mmrDisk = <<>> /\ tip = Genesis
      /\ pc \notin {"down", "mmr", "ams"} =>
           mmr = Chain[tip] /\ label = tip /\ amsDisk = Chain[tip]
      /\ pc \in {"mmr", "ams"} => ams = Chain[label]
      /\ \A f \in File : FileRecorded(f)
  BY <1>1, <1>3, Zenon DEF InStepWithoutCrash
<1>5. /\ files \in [File -> Seq(Block \cup {Zeros})] /\ fileRec \in [File -> Nat]
      /\ blk \in Block /\ loc \in File \X Nat /\ tip \in Block
  BY <1>1, Zenon DEF TypeOK, TypeIndex, TypeJob
<1> USE DEF InStepWithoutCrash
<1>6. CASE Open
  BY <1>4, <1>6, Constants, Zenon DEF Open, index
<1>7. ASSUME NEW b \in Block, NEW t \in BOOLEAN, BeginWrite(b, t)
      PROVE  InStepWithoutCrash'
  BY <1>4, <1>7, Zenon DEF BeginWrite, disk, mem
<1>8. CASE ReserveSpace
  <2>1. /\ TargetFile \in File /\ pc = "reserve"
        /\ ~(fileRec[TargetFile] = 0 /\ files[TargetFile] # <<>>)
    BY <1>4, <1>8, Zenon DEF ReserveSpace
  <2>2. /\ files' = [files EXCEPT ![TargetFile] = Append(@, Zeros)]
        /\ loc' = <<TargetFile, Len(files[TargetFile]) + 1>>
        /\ pc' = "data"
        /\ UNCHANGED <<fileRec, tip, mmr, label, amsDisk>>
    BY <1>8, <2>1, Zenon DEF ReserveSpace, index, mem
  <2>3. loc'[1] = TargetFile /\ loc' # NoRecord
    BY <1>5, <2>1, <2>2 DEF NoRecord
  <2>4. \A f \in File : f # TargetFile => files'[f] = files[f]
    BY <1>5, <2>2, Zenon
  <2>5. \A f \in File : FileRecorded(f)'
    BY <1>4, <2>1, <2>2, <2>3, <2>4, Zenon
  <2> QED
    BY <1>4, <2>1, <2>2, <2>5, Zenon
<1>9. CASE WriteData
  <2>1. /\ pc = "data" /\ pc' = "index" /\ loc' = loc
        /\ files' = [files EXCEPT ![loc[1]] = [@ EXCEPT ![loc[2]] = blk]]
        /\ UNCHANGED <<fileRec, tip, mmr, label, amsDisk>>
    BY <1>9, Zenon DEF WriteData, index, mem, job
  <2>2. \A f \in File : f # loc[1] => files'[f] = files[f]
    BY <1>5, <2>1, Zenon
  <2>3. loc # NoRecord
    BY <1>1, <2>1, Zenon DEF WriteInProgress
  <2>4. \A f \in File : FileRecorded(f)'
    BY <1>4, <2>1, <2>2, <2>3, Zenon
  <2> QED
    BY <1>4, <2>1, <2>4, Zenon
<1>10. CASE WriteIndex
  <2>1. /\ pc = "index" /\ files' = files
        /\ UNCHANGED <<mmr, label, amsDisk, ams>>
        /\ (pc' = "idle" /\ tip' = tip) \/ pc' = "mmr"
    BY <1>10, Zenon DEF WriteIndex, mem
  <2>2. \A f \in File : fileRec'[f] = 0 => files'[f] = <<>>
    <3>1. CASE loc = NoRecord
      BY <1>4, <1>10, <2>1, <3>1, Zenon DEF WriteIndex
    <3>2. CASE loc # NoRecord
      <4>1. fileRec' = [fileRec EXCEPT ![loc[1]] = @ + 1]
        BY <1>10, <3>2, Zenon DEF WriteIndex
      <4> QED
        BY <1>4, <1>5, <2>1, <4>1
    <3> QED
      BY <3>1, <3>2, Zenon
  <2>3. ams = Chain[tip] /\ label = tip /\ mmr = Chain[tip] /\ amsDisk = Chain[tip]
    BY <1>1, <1>4, <2>1, Zenon DEF MutatorSetPersisted
  <2> QED
    BY <2>1, <2>2, <2>3, Zenon
<1>11. CASE AppendMmr
  <2>1. UNCHANGED <<files, fileRec, ams, label, crashes>> /\ pc = "mmr"
    BY <1>11, Zenon DEF AppendMmr, disk
  <2>2. pc' \in {"ams", "panicked"}
    BY <1>11, Zenon DEF AppendMmr, PanicAt
  <2>3. pc' # "panicked"
    <3>1. CASE blk = Genesis
      BY <1>11, <3>1, Zenon DEF AppendMmr
    <3>2. CASE blk # Genesis
      <4>1. /\ PathKnown(LatestLeaf(blk), Parent(blk))
            /\ WalkedMmr(blk) = Chain[Parent(blk)]
        BY <1>1, <2>1, <3>2, MmrWalk, Zenon
      <4>2. WalkedMmr(blk)[Len(WalkedMmr(blk))] = Parent(blk)
        BY <1>5, <3>2, <4>1, ChainParent, ChainBasics, Zenon
      <4> QED
        BY <1>11, <3>2, <4>1, <4>2, Zenon DEF AppendMmr
    <3> QED
      BY <3>1, <3>2, Zenon
  <2> QED
    BY <1>4, <2>1, <2>2, <2>3, Zenon
<1>12. CASE UpdateMutatorSet
  <2>1. UNCHANGED <<files, fileRec, tip, mmr>> /\ pc = "ams"
    BY <1>12, Zenon DEF UpdateMutatorSet, index
  <2>2. pc' = "idle" /\ amsDisk' = Chain[blk] /\ label' = blk
    BY <1>4, <1>12, <2>1, UpdateFromSynced, Zenon
  <2>3. tip = blk /\ mmr = Chain[blk]
    BY <1>1, <2>1, Zenon DEF WriteInProgress
  <2> QED
    BY <1>4, <2>1, <2>2, <2>3, Zenon
<1>13. CASE FlushMutatorSet
  <2>1. pc = "idle" /\ pc' = "flush" /\ UNCHANGED <<files, fileRec, tip, mmr>> /\ label' = tip
        /\ amsDisk' = ams
    BY <1>4, <1>13, Zenon DEF FlushMutatorSet, index
  <2>2. ams = Chain[tip]
    BY <1>1, <1>4, <2>1, Zenon DEF MutatorSetPersisted
  <2> QED
    BY <1>4, <2>1, <2>2, Zenon
<1>14. CASE FlushBlockMmr
  BY <1>4, <1>14, Zenon DEF FlushBlockMmr, index, mem
<1>15. ASSUME NEW n \in 0..Len(Chain[tip]), BeginQuery(n)
       PROVE  InStepWithoutCrash'
  <2>a. /\ pc = "idle" /\ n < Len(Chain[tip])
        /\ UNCHANGED <<files, fileRec, tip, mmr, label>> /\ amsDisk' = ams
    BY <1>15, Zenon DEF BeginQuery, index
  <2>b. n \in Nat
    BY <1>15
  <2>1. /\ pc = "idle" /\ n < Len(Chain[tip]) /\ n \in Nat
        /\ UNCHANGED <<files, fileRec, tip, mmr, label>> /\ amsDisk' = ams
    BY <2>a, <2>b, Zenon
  <2>2. ams = Chain[tip]
    BY <1>1, <1>4, <2>1, Zenon DEF MutatorSetPersisted
  <2>3. pc' = "query"
    <3>1. Reversible(ams, [i \in 1..n |-> Chain[tip][Len(Chain[tip]) + 1 - i]])
      BY <1>5, <2>1, <2>2, QueryFromSynced, Zenon
    <3> QED
      BY <1>15, <3>1, Zenon DEF BeginQuery
  <2> QED
    BY <1>4, <2>1, <2>2, <2>3, Zenon
<1>16. CASE EndQuery
  BY <1>4, <1>16, Zenon DEF EndQuery, disk
<1>17. CASE UNCHANGED vars
  BY <1>4, <1>17, Zenon DEF vars, disk, mem, job
<1> QED
  BY <1>2, <1>6, <1>7, <1>8, <1>9, <1>10, <1>11, <1>12, <1>13, <1>14, <1>15, <1>16, <1>17, Zenon
  DEF Next, Step

-----------------------------------------------------------------------------
(* IInv is an invariant of the archival state, from an empty data directory,  *)
(* through all writes, tip updates, flushes, queries, panics and crashes.     *)
THEOREM Invariance == Spec => []IInv
<1>1. IInv /\ [Next]_vars => IInv'
  BY TypeOKStep, RecordsBackedStep, AncestorsStoredStep, MmrIsAChainStep, WriteInProgressStep,
     MutatorSetPersistedStep, LabelStoredStep, InStepWithoutCrashStep, PanicsExplainedStep, Zenon
  DEF IInv
<1> QED
  BY InitIInv, <1>1, PTL DEF Spec

-----------------------------------------------------------------------------
(* The height index.                                                          *)

\* Where a block stands in a list of the height index.
Places(s, b) == {i \in DOMAIN s : s[i] = b}

(* Appending a block adds one place for it and none for the others.           *)
LEMMA PlacesAppended ==
  ASSUME NEW s \in Seq(Block), NEW b \in Block, NEW e \in Block
  PROVE  /\ IsFiniteSet(Places(s, b))
         /\ Cardinality(Places(Append(s, e), b))
              = Cardinality(Places(s, b)) + IF b = e THEN 1 ELSE 0
<1>1. Len(s) \in Nat /\ DOMAIN s = 1..Len(s)
  OBVIOUS
<1>2. IsFiniteSet(1..Len(s))
  BY <1>1, FS_Interval
<1>3. IsFiniteSet(Places(s, b))
  BY <1>1, <1>2, FS_Subset, Zenon DEF Places
<1>4. /\ DOMAIN Append(s, e) = 1..(Len(s) + 1)
      /\ \A i \in 1..Len(s) : Append(s, e)[i] = s[i]
      /\ Append(s, e)[Len(s) + 1] = e
  BY <1>1, AppendProperties
<1>5. Places(Append(s, e), b) = IF b = e THEN Places(s, b) \cup {Len(s) + 1} ELSE Places(s, b)
  BY <1>1, <1>4 DEF Places
<1>6. Len(s) + 1 \notin Places(s, b)
  BY <1>1 DEF Places
<1>7. Cardinality(Places(s, b)) \in Nat
  BY <1>3, FS_CardinalityType, Zenon
<1>8. Cardinality(Places(s, b) \cup {Len(s) + 1}) = Cardinality(Places(s, b)) + 1
  BY <1>3, <1>6, FS_AddElement, Zenon
<1>9. CASE b = e
  BY <1>3, <1>5, <1>8, <1>9, Zenon
<1>10. CASE b # e
  BY <1>3, <1>5, <1>7, <1>10
<1> QED
  BY <1>9, <1>10, Zenon

(* Only blocks that the index does not know are written.                      *)
LEMMA WriteIsFreshStep ==
  ASSUME IInv, WriteIsFresh, [Next]_vars
  PROVE  WriteIsFresh'
<1>1. blockRec \in [Block -> File \X Nat] /\ blk \in Block
  BY Zenon DEF IInv, TypeOK, TypeIndex, TypeJob
<1>2. CASE \E b \in Block, t \in BOOLEAN : BeginWrite(b, t)
  BY <1>2, Zenon DEF BeginWrite, WriteIsFresh, Known, disk
<1>3. CASE ReserveSpace
  BY <1>3, Zenon DEF ReserveSpace, WriteIsFresh, PanicAt, index
<1>4. CASE WriteData
  BY <1>4, Zenon DEF WriteData, WriteIsFresh, index, job
<1>5. CASE pc' \notin {"reserve", "data", "index"}
  BY <1>5, Zenon DEF WriteIsFresh
<1>6. CASE UNCHANGED vars
  BY <1>6, Zenon DEF WriteIsFresh, vars, disk, job
<1> QED
  BY <1>2, <1>3, <1>4, <1>5, <1>6, Zenon
  DEF Next, Step, Open, WriteIndex, AppendMmr, UpdateMutatorSet, FlushMutatorSet, PanicAt,
      FlushBlockMmr, BeginQuery, EndQuery, Crash, Stopped

(* The height index keeps listing exactly the recorded blocks, each once.     *)
LEMMA HeightIndexExactStep ==
  ASSUME IInv, WriteIsFresh, HeightIndexExact, [Next]_vars
  PROVE  HeightIndexExact'
<1>1. /\ blockRec \in [Block -> File \X Nat] /\ atHeight \in [Heights -> Seq(Block)]
      /\ blk \in Block
  BY Zenon DEF IInv, TypeOK, TypeIndex, TypeJob
<1>2. CASE WriteIndex /\ loc # NoRecord
  <2>1. /\ blockRec' = [blockRec EXCEPT ![blk] = loc]
        /\ atHeight' = [atHeight EXCEPT ![Height(blk)] = Append(@, blk)]
        /\ blockRec[blk] = NoRecord
    BY <1>2, Zenon DEF WriteIndex, WriteIsFresh
  <2>2. ASSUME NEW b \in Block
        PROVE  Cardinality(Places(atHeight'[Height(b)], b))
                 = IF blockRec'[b] = NoRecord THEN 0 ELSE 1
    <3>1. Height(b) \in Heights /\ Height(blk) \in Heights /\ atHeight[Height(b)] \in Seq(Block)
      BY <1>1, Zenon DEF Heights
    <3>2. Cardinality(Places(atHeight[Height(b)], b))
            = IF blockRec[b] = NoRecord THEN 0 ELSE 1
      BY Zenon DEF HeightIndexExact, Places
    <3>3. CASE Height(b) # Height(blk)
      <4>1. atHeight'[Height(b)] = atHeight[Height(b)] /\ blockRec'[b] = blockRec[b]
        BY <1>1, <2>1, <3>1, <3>3, Zenon
      <4> QED
        BY <3>2, <4>1, Zenon
    <3>4. CASE Height(b) = Height(blk)
      <4>1. atHeight'[Height(b)] = Append(atHeight[Height(b)], blk)
        BY <1>1, <2>1, <3>1, <3>4, Zenon
      <4>2. Cardinality(Places(atHeight'[Height(b)], b))
              = Cardinality(Places(atHeight[Height(b)], b)) + IF b = blk THEN 1 ELSE 0
        BY <1>1, <3>1, <4>1, PlacesAppended
      <4>3. blockRec'[b] = IF b = blk THEN loc ELSE blockRec[b]
        BY <1>1, <2>1, Zenon
      <4> QED
        BY <1>2, <2>1, <3>2, <4>2, <4>3
    <3> QED
      BY <3>3, <3>4, Zenon
  <2> QED
    BY <2>2, Zenon DEF HeightIndexExact, Places
<1>3. CASE UNCHANGED <<blockRec, atHeight>>
  BY <1>3, Zenon DEF HeightIndexExact
<1> QED
  BY <1>2, <1>3, Zenon
  DEF Next, Step, Open, BeginWrite, ReserveSpace, WriteData, WriteIndex, AppendMmr,
      UpdateMutatorSet, FlushMutatorSet, FlushBlockMmr, BeginQuery, EndQuery, Crash, vars, disk, index

(* The block index is sound at every step of every write and after any crash: *)
(* its records point at the blocks they name, with a block its ancestors are  *)
(* stored, and the height index lists each recorded block exactly once.       *)
THEOREM IndexStaysSound == Spec => []IndexIsSound
<1>1. Init => WriteIsFresh /\ HeightIndexExact
  <2> SUFFICES ASSUME Init PROVE HeightIndexExact
    BY Zenon DEF Init, WriteIsFresh
  <2>1. ASSUME NEW b \in Block
        PROVE  {i \in DOMAIN atHeight[Height(b)] : atHeight[Height(b)][i] = b} = {}
    <3>1. atHeight[Height(b)] = <<>>
      BY Zenon DEF Init, Heights
    <3> QED
      BY <3>1
  <2> QED
    BY <2>1, FS_EmptySet, Zenon DEF Init, HeightIndexExact
<1>2. IInv /\ WriteIsFresh /\ HeightIndexExact => IndexIsSound
  BY Zenon DEF IInv, IndexIsSound
<1>3. IInv /\ WriteIsFresh /\ HeightIndexExact /\ [Next]_vars
        => WriteIsFresh' /\ HeightIndexExact'
  BY WriteIsFreshStep, HeightIndexExactStep, Zenon
<1> QED
  BY Invariance, <1>1, <1>2, <1>3, PTL DEF Spec

(* The variables of the archival state always have their types.               *)
THEOREM TypeCorrect == Spec => []TypeOK
BY Invariance, PTL DEF IInv

(* No crash leaves the block index pointing at bytes that were not written:   *)
(* store_block flushes the file before write_block_internal writes the batch. *)
THEOREM IndexIsBacked == Spec => []RecordsBacked
BY Invariance, PTL DEF IInv

(* find_path never misses a header: with a block, all its ancestors are       *)
(* stored, and the tip is stored.                                             *)
THEOREM IndexIsClosed == Spec => []AncestorsStored
BY Invariance, PTL DEF IInv

(* The block MMR is always the chain of one stored block, so that             *)
(* append_to_archival_block_mmr can walk from its last leaf after any crash.  *)
THEOREM BlockMmrIsAChain == Spec => []MmrIsAChain
BY Invariance, PTL DEF IInv

(* While the node has not crashed, block index, block MMR and mutator set     *)
(* describe one chain whenever the write lock is free.                        *)
THEOREM StoresStayTogether == Spec => []StoresAgree
<1>1. IInv => StoresAgree
  BY Zenon DEF IInv, StoresAgree, InStepWithoutCrash, MutatorSetPersisted
<1> QED
  BY Invariance, <1>1, PTL

(* While the node has not crashed, no assertion of the tip update fails.      *)
THEOREM NoPanic == Spec => []NoPanicWithoutCrash
<1>1. IInv => NoPanicWithoutCrash
  BY DEF IInv, NoPanicWithoutCrash, InStepWithoutCrash, TypeOK, TypeJob
<1> QED
  BY Invariance, <1>1, PTL

(* After crashes the assertions of append_to_archival_block_mmr and find_path *)
(* still never fail, and those of update_mutator_set only on a mutator set    *)
(* whose persisted label does not name the block it is synced to.             *)
THEOREM PanicsAreExplained == Spec => []PanicsExplained
BY Invariance, PTL DEF IInv

(* Together: what the stores owe their users, for any number of crashes.      *)
THEOREM StoresAreUsable == Spec => []StoresStayUsable
<1>1. StoresAgree /\ NoPanicWithoutCrash /\ PanicsExplained => StoresStayUsable
  BY Zenon DEF StoresStayUsable
<1> QED
  BY <1>1, StoresStayTogether, NoPanic, PanicsAreExplained, PTL

(* A tip update that completes leaves the three stores on the new tip's       *)
(* chain, whatever crashes came before.                                       *)
THEOREM TipUpdateCompletes == Spec => TipUpdateRepairs
<1>1. IInv /\ [Next]_vars =>
        [pc = "ams" /\ pc' = "idle" =>
           /\ tip' = blk
           /\ mmr' = Chain[tip'] /\ ams' = Chain[tip'] /\ label' = tip'
           /\ amsDisk' = ams' /\ labelDisk' = label']_vars
  <2> SUFFICES ASSUME IInv, Next, pc = "ams", pc' = "idle"
               PROVE  /\ tip' = blk
                      /\ mmr' = Chain[tip'] /\ ams' = Chain[tip'] /\ label' = tip'
                      /\ amsDisk' = ams' /\ labelDisk' = label'
    BY Zenon
  <2>1. UpdateMutatorSet
    BY Zenon DEF Next, Step, Open, BeginWrite, ReserveSpace, WriteData, WriteIndex, AppendMmr,
           FlushMutatorSet, FlushBlockMmr, BeginQuery, EndQuery, Crash, Stopped
  <2>2. UNCHANGED <<tip, mmr>>
    BY <2>1, Zenon DEF UpdateMutatorSet, index
  <2>3. tip = blk /\ mmr = Chain[blk]
    BY Zenon DEF IInv, WriteInProgress
  <2>4. CASE blk = Genesis
    BY <2>1, <2>2, <2>3, <2>4, Constants, Zenon DEF UpdateMutatorSet
  <2>5. CASE blk # Genesis
    <3>1. ams' = Chain[blk] /\ amsDisk' = Chain[blk] /\ label' = blk /\ labelDisk' = blk
      BY <2>1, <2>5, Zenon DEF UpdateMutatorSet, PanicAt
    <3> QED
      BY <2>2, <2>3, <3>1, Zenon
  <2> QED
    BY <2>4, <2>5, Zenon
<1> QED
  BY Invariance, <1>1, PTL DEF Spec, TipUpdateRepairs
==============================================================================
