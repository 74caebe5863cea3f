---------------------------- MODULE Wallet_proofs ----------------------------
(* The wallet's invariants, for every confirmation depth and batch size.      *)
EXTENDS Wallet, TLAPS

(* The leaf of an output: one of the premine's, or the first one after those  *)
(* of the blocks before.                                                      *)
Leaf == {0, 1} \cup {2 + Cardinality(S) : S \in SUBSET Nat}
Coin == [addr : Nat, leaf : Leaf]
WalletTx == [ins : SUBSET Coin, change : Nat]
Blocks(T) == [tx : T \cup {NoTx}, nonce : {0, 1}]
WalletBlock == Blocks(WalletTx)
WindowEntry == [digest : Seq(WalletBlock), utxos : SUBSET Coin]
SyncState == [pc : {"idle", "height", "listed", "scanned", "adding", "storing"},
              nh : Nat, ids : SUBSET WalletTx, held : Seq(Nat), found : SUBSET Coin]
Answer == [utxo : Coin, tip : Seq(WalletBlock)]
SendState == [pc : {"idle", "choose", "restore", "build", "prove"}, want : Nat,
              exclude : SUBSET Coin, todo : SUBSET Coin,
              got : Seq(Answer),
              ins : SUBSET Coin, change : Nat]

WalletTypes ==
    /\ chain \in Seq(WalletBlock)
    /\ mempool \subseteq WalletTx
    /\ up \in BOOLEAN
    /\ height \in Nat
    /\ window \in Seq(WindowEntry)
    /\ idx \in Nat
    /\ pool \subseteq Coin
    /\ spends \subseteq Coin \X WalletTx
    /\ checked \subseteq WalletTx
    /\ raised \in Seq(Nat)
    /\ sync \in SyncState
    /\ send \in SendState
    /\ files \in [idx : Nat, utxos : SUBSET Coin, height : Nat]
    /\ evicted \subseteq Coin

(* A process that does not run has nothing in memory.                         *)
Resting ==
    ~up => /\ height = 0 /\ window = <<>> /\ pool = {} /\ raised = <<>>
           /\ sync = SyncIdle /\ send = NotSending

(* What a round of the sync loop has in hand at each of its steps.            *)
Phases ==
    /\ sync.pc \in {"idle", "height"} => sync.held = <<>>
    /\ sync.pc \in {"idle", "height", "listed", "scanned"} => sync.found = {}
    /\ sync.pc \in {"height", "listed", "scanned"} => sync.nh <= Len(chain)
    /\ sync.pc = "storing" => sync.found \subseteq pool \cup evicted

(* What is promoted or stored is Depth deep, so no reorganisation reaches it. *)
Buried ==
    /\ height = 0 \/ height + Depth <= Len(chain)
    /\ files.height = 0 \/ files.height + Depth <= Len(chain)

(* A window holds consecutive blocks of one chain above the height, each with *)
(* the outputs of it that the wallet tracks.                                  *)
ScannedAt(e, h) ==
    /\ Len(e.digest) = h
    /\ e.utxos \subseteq OutputsAt(e.digest, h)
    /\ \A u \in OutputsAt(e.digest, h) : u \in e.utxos \/ ~IsTracked(u)

WindowIsAChain ==
    /\ \A i \in 1..Len(window) : ScannedAt(window[i], height + i)
    /\ \A i, j \in 1..Len(window) :
         i <= j => window[i].digest = SubSeq(window[j].digest, 1, height + i)

(* An address that restarts will track: the stored index covers it, or an     *)
(* index above it was taken from the queue and is about to be stored; soon,   *)
(* if that index is still in the queue.                                       *)
Ready(a) == a <= files.idx \/ \E i \in 1..Len(sync.held) : a < sync.held[i]
Soon(a) == Ready(a) \/ \E i \in 1..Len(raised) : a < raised[i]

(* The announcements on their way to the file are in order.                   *)
AnnouncementsRise ==
    /\ up => idx \in Nat \ {0} /\ files.idx <= idx
    /\ \A i \in 1..Len(sync.held) : files.idx < sync.held[i] /\ sync.held[i] <= idx
    /\ \A i \in 1..Len(raised) : files.idx < raised[i] /\ raised[i] <= idx
    /\ \A i, j \in 1..Len(sync.held) : i < j => sync.held[i] < sync.held[j]
    /\ \A i, j \in 1..Len(raised) : i < j => raised[i] < raised[j]
    /\ \A i \in 1..Len(sync.held), j \in 1..Len(raised) : sync.held[i] < raised[j]

(* While no announcement was lost, every change address in use is tracked now *)
(* and will be after a restart.  The outputs that a round may promote were    *)
(* confirmed before it took the queued announcements, so those cover them.    *)
Fresh(a) == IF up THEN a < idx /\ Soon(a) ELSE a <= files.idx
Known == {t \in WalletTx : Fresh(t.change)}

AddressesAreAnnounced ==
    missed = {} =>
      /\ chain \in Seq(Blocks(Known))
      /\ mempool \subseteq Known
      /\ send.pc = "prove" => Fresh(send.change)
      /\ sync.pc \in {"listed", "scanned"} =>
           \A h \in 1..Len(chain) :
             (h + Depth <= sync.nh /\ chain[h].tx # NoTx) => Ready(chain[h].tx.change)
      /\ \A u \in sync.found : Ready(u.addr)
      /\ \A u \in files.utxos : u.addr <= files.idx

(* What the scanner has passed is in the files or about to be.                *)
ConfirmedOutputsAreStored ==
    up => \A h \in 0..height : \A u \in OutputsAt(chain, h) :
            \/ u \in files.utxos \cup sync.found
            \/ ~IsTracked(u)
            \/ TipHeight = 0

WalletInv ==
    /\ WalletTypes /\ Resting /\ Phases /\ Buried /\ WindowIsAChain
    /\ AnnouncementsRise /\ AddressesAreAnnounced
    /\ ConfirmedOutputsAreKept /\ ConfirmedOutputsAreStored /\ DiskCoversHeight

-----------------------------------------------------------------------------
(* Chains.                                                                    *)

(* The wallet's outputs in a block are determined by the chain up to it.      *)
LEMMA OutputsAreLocal ==
  ASSUME NEW c \in Seq(WalletBlock), NEW d \in Seq(WalletBlock), NEW h \in Nat,
         \A i \in 1..h : c[i] = d[i]
  PROVE  OutputsAt(c, h) = OutputsAt(d, h)
<1>1. CASE h = 0
  BY <1>1, Zenon DEF OutputsAt
<1>2. CASE h # 0
  <2>1. h \in 1..h /\ \A i \in 1..(h - 1) : i \in 1..h
    BY <1>2
  <2>2. c[h] = d[h]
    BY <2>1, Zenon
  <2>3. PaidBelow(c, h) = PaidBelow(d, h)
    BY <2>1, Zenon DEF PaidBelow
  <2> QED
    BY <2>2, <2>3, Zenon DEF OutputsAt
<1> QED
  BY <1>1, <1>2, Zenon

(* Every output is a coin: of the premine with address 0, or of the block's   *)
(* transaction with its change address.                                       *)
LEMMA OutputsAreCoins ==
  ASSUME NEW c \in Seq(WalletBlock), NEW h \in 0..Len(c)
  PROVE  /\ OutputsAt(c, h) \subseteq Coin
         /\ \A u \in OutputsAt(c, h) :
              u.addr = 0 \/ (h \in 1..Len(c) /\ c[h].tx # NoTx /\ u.addr = c[h].tx.change)
<1>1. CASE h = 0
  <2>1. [addr |-> 0, leaf |-> 0] \in Coin /\ [addr |-> 0, leaf |-> 1] \in Coin
    BY Zenon DEF Coin, Leaf
  <2>2. Premine \subseteq Coin /\ \A u \in Premine : u.addr = 0
    BY <2>1 DEF Premine
  <2>3. OutputsAt(c, h) = Premine
    BY <1>1, Zenon DEF OutputsAt
  <2> QED
    BY <2>2, <2>3, Zenon
<1>2. CASE h # 0
  <2>1. h \in 1..Len(c) /\ c[h] \in WalletBlock
    BY <1>2
  <2>2. CASE c[h].tx = NoTx
    BY <1>2, <2>2, Zenon DEF OutputsAt
  <2>3. CASE c[h].tx # NoTx
    <3>1. c[h].tx \in WalletTx
      BY <2>1, <2>3, Zenon DEF WalletBlock, Blocks
    <3>2. c[h].tx.change \in Nat
      BY <3>1, Zenon DEF WalletTx
    <3>3. PaidBelow(c, h) \in SUBSET Nat
      BY DEF PaidBelow
    <3> DEFINE u == [addr |-> c[h].tx.change, leaf |-> 2 + Cardinality(PaidBelow(c, h))]
    <3>4. 2 + Cardinality(PaidBelow(c, h)) \in Leaf
      BY <3>3, Zenon DEF Leaf
    <3>5. u \in Coin /\ u.addr = c[h].tx.change
      BY <3>2, <3>4, Zenon DEF Coin
    <3>6. OutputsAt(c, h) = {u}
      BY <1>2, <2>3, Zenon DEF OutputsAt
    <3> QED
      BY <2>1, <2>3, <3>5, <3>6, Zenon
  <2> QED
    BY <2>2, <2>3, Zenon
<1> QED
  BY <1>1, <1>2, Zenon

(* Two sequences one after the other.                                         *)
LEMMA Joined ==
  ASSUME NEW S, NEW s \in Seq(S), NEW t \in Seq(S)
  PROVE  /\ s \o t \in Seq(S)
         /\ Len(s \o t) = Len(s) + Len(t)
         /\ \A i \in 1..Len(s) : (s \o t)[i] = s[i]
         /\ \A i \in 1..Len(t) : (s \o t)[Len(s) + i] = t[i]
  OBVIOUS

(* A step of the node replaces at most the last Depth blocks, and the chain   *)
(* never gets shorter (NodeBlock, Reorganise; the others leave it alone).     *)
ChainGrows ==
    /\ Len(chain') >= Len(chain)
    /\ \A i \in 1..Len(chain) : i + Depth <= Len(chain) => chain'[i] = chain[i]

(* The chain a reorganisation makes, with t in the first block replaced.      *)
Replaced(c, r, t, more) ==
    LET base == SubSeq(c, 1, Len(c) - r)
        twin == 1 - c[Len(base) + 1].nonce
    IN  base \o <<[tx |-> t, nonce |-> twin]>>
             \o [i \in 1..more |-> [tx |-> NoTx, nonce |-> 0]]

(* It is one of the same transactions and t, no shorter, and the blocks that  *)
(* are Depth deep stay.                                                       *)
LEMMA ReorganisedChain ==
  ASSUME NEW T, NEW c \in Seq(Blocks(T)), NEW r \in 1..Depth, r <= Len(c),
         NEW t \in T \cup {NoTx}, NEW more \in {r - 1, r}
  PROVE  LET d == Replaced(c, r, t, more)
         IN  /\ d \in Seq(Blocks(T))
             /\ Len(d) >= Len(c)
             /\ \A i \in 1..Len(c) : i + Depth <= Len(c) => d[i] = c[i]
<1> DEFINE base == SubSeq(c, 1, Len(c) - r)
           twin == 1 - c[Len(base) + 1].nonce
           b == [tx |-> t, nonce |-> twin]
           rest == [i \in 1..more |-> [tx |-> NoTx, nonce |-> 0]]
<1>0. Depth \in Nat /\ Len(c) \in Nat /\ more \in Nat
  BY WalletAssumption
<1>1. base \in Seq(Blocks(T)) /\ Len(base) = Len(c) - r
      /\ \A i \in 1..(Len(c) - r) : base[i] = c[i]
  BY <1>0
<1>2. b \in Blocks(T)
  <2>1. Len(base) + 1 \in 1..Len(c)
    BY <1>0, <1>1
  <2>2. c[Len(base) + 1] \in Blocks(T)
    BY <2>1
  <2>3. c[Len(base) + 1].nonce \in {0, 1}
    BY <2>2, Zenon DEF Blocks
  <2>4. twin \in {0, 1}
    BY <2>3
  <2> HIDE DEF twin
  <2> QED
    BY <2>4, Zenon DEF Blocks
<1>3. rest \in Seq(Blocks(T)) /\ Len(rest) = more
  <2>1. [tx |-> NoTx, nonce |-> 0] \in Blocks(T)
    BY Zenon DEF Blocks
  <2>2. rest \in [1..more -> Blocks(T)]
    BY <2>1, Zenon
  <2> HIDE DEF rest
  <2> QED
    BY <1>0, <2>2
<1> HIDE DEF base, b, rest
<1>4. <<b>> \in Seq(Blocks(T)) /\ Len(<<b>>) = 1
  BY <1>2
<1> DEFINE p == base \o <<b>>
<1>5. p \in Seq(Blocks(T)) /\ Len(p) = Len(c) - r + 1
      /\ \A i \in 1..(Len(c) - r) : p[i] = c[i]
  <2>1. \A i \in 1..(Len(c) - r) : i \in 1..Len(base)
    BY <1>1, Zenon
  <2>2. /\ p \in Seq(Blocks(T))
        /\ Len(p) = Len(base) + Len(<<b>>)
        /\ \A i \in 1..Len(base) : p[i] = base[i]
    <3>1. base \in Seq(Blocks(T)) /\ <<b>> \in Seq(Blocks(T))
      BY <1>1, <1>4, Zenon
    <3> QED
      BY <3>1, Joined
  <2> QED
    BY <1>1, <1>4, <2>1, <2>2, Zenon
<1> HIDE DEF p
<1>6. /\ p \o rest \in Seq(Blocks(T))
      /\ Len(p \o rest) = Len(c) - r + 1 + more
      /\ \A i \in 1..(Len(c) - r) : (p \o rest)[i] = c[i]
  <2>1. \A i \in 1..(Len(c) - r) : i \in 1..Len(p)
    BY <1>0, <1>5
  <2>2. /\ p \o rest \in Seq(Blocks(T))
        /\ Len(p \o rest) = Len(p) + Len(rest)
        /\ \A i \in 1..Len(p) : (p \o rest)[i] = p[i]
    <3>1. p \in Seq(Blocks(T)) /\ rest \in Seq(Blocks(T))
      BY <1>3, <1>5, Zenon
    <3> QED
      BY <3>1, Joined
  <2> QED
    BY <1>3, <1>5, <2>1, <2>2, Zenon
<1>7. Len(p \o rest) >= Len(c)
  BY <1>0, <1>6
<1>8. \A i \in 1..Len(c) : i + Depth <= Len(c) => i \in 1..(Len(c) - r)
  BY <1>0
<1>9. Replaced(c, r, t, more) = p \o rest
  BY Zenon DEF Replaced, p, base, b, rest
<1> QED
  BY <1>6, <1>7, <1>8, <1>9, Zenon

(* The node makes chains of the transactions it has.                          *)
LEMMA NodeStep ==
  ASSUME NEW T, chain \in Seq(Blocks(T)), mempool \subseteq T, NodeBlock \/ Reorganise
  PROVE  chain' \in Seq(Blocks(T)) /\ mempool' \subseteq T /\ ChainGrows
<1>1. CASE NodeBlock
  <2>1. PICK t \in mempool \cup {NoTx} :
          Mined(Append(chain, [tx |-> t, nonce |-> 0]), mempool \ {t})
    BY <1>1, Zenon DEF NodeBlock
  <2>2. [tx |-> t, nonce |-> 0] \in Blocks(T)
    BY Zenon DEF Blocks
  <2>3. chain' = Append(chain, [tx |-> t, nonce |-> 0]) /\ mempool' \subseteq mempool
    BY <2>1, Zenon DEF Mined
  <2> QED
    BY <2>2, <2>3 DEF ChainGrows
<1>2. CASE Reorganise
  <2>1. PICK r \in 1..Depth : r <= Len(chain) /\
          \E t \in mempool \cup Abandoned(r) \cup {NoTx}, more \in {r - 1, r} :
             Mined(Replaced(chain, r, t, more), mempool \ {t})
    BY <1>2, Zenon DEF Reorganise, Replaced
  <2>2. PICK t \in mempool \cup Abandoned(r) \cup {NoTx}, more \in {r - 1, r} :
             Mined(Replaced(chain, r, t, more), mempool \ {t})
    BY <2>1, Zenon
  <2>3. t \in T \cup {NoTx}
    <3>1. \A h \in (Len(chain) - r + 1)..Len(chain) : h \in 1..Len(chain)
      BY <2>1
    <3>2. \A h \in 1..Len(chain) : chain[h].tx \in T \cup {NoTx}
      <4> TAKE h \in 1..Len(chain)
      <4>1. chain[h] \in Blocks(T)
        OBVIOUS
      <4> QED
        BY <4>1, Zenon DEF Blocks
    <3> QED
      BY <3>1, <3>2, Zenon DEF Abandoned
  <2>4. chain' = Replaced(chain, r, t, more) /\ mempool' \subseteq mempool
    BY <2>2, Zenon DEF Mined
  <2>5. /\ Replaced(chain, r, t, more) \in Seq(Blocks(T))
        /\ Len(Replaced(chain, r, t, more)) >= Len(chain)
        /\ \A i \in 1..Len(chain) : i + Depth <= Len(chain)
                 => Replaced(chain, r, t, more)[i] = chain[i]
    <3>1. \A c \in Seq(Blocks(T)) : r <= Len(c) =>
             /\ Replaced(c, r, t, more) \in Seq(Blocks(T))
             /\ Len(Replaced(c, r, t, more)) >= Len(c)
             /\ \A i \in 1..Len(c) : i + Depth <= Len(c) => Replaced(c, r, t, more)[i] = c[i]
      <4> TAKE c \in Seq(Blocks(T))
      <4> HAVE r <= Len(c)
      <4> QED
        BY <2>3, ReorganisedChain, ZenonT(30)
    <3> QED
      BY <2>1, <3>1, Zenon
  <2> QED
    BY <2>4, <2>5, Zenon DEF ChainGrows
<1> QED
  BY <1>1, <1>2, Zenon

-----------------------------------------------------------------------------
(* One batch of blocks.                                                       *)

(* The digest of a block on a chain has the block's height as length, and the *)
(* outputs of the block.                                                      *)
LEMMA DigestBasics ==
  ASSUME NEW c \in Seq(WalletBlock), NEW h \in 0..Len(c)
  PROVE  /\ Digest(c, h) \in Seq(WalletBlock)
         /\ Len(Digest(c, h)) = h
         /\ OutputsAt(Digest(c, h), h) = OutputsAt(c, h)
         /\ \A k \in 0..h : SubSeq(Digest(c, h), 1, k) = Digest(c, k)
<1>1. /\ Digest(c, h) \in Seq(WalletBlock)
      /\ Len(Digest(c, h)) = h
      /\ \A i \in 1..h : Digest(c, h)[i] = c[i]
  BY DEF Digest
<1>2. OutputsAt(Digest(c, h), h) = OutputsAt(c, h)
  <2>1. h \in Nat
    OBVIOUS
  <2> QED
    BY <1>1, <2>1, OutputsAreLocal, Zenon
<1>3. ASSUME NEW k \in 0..h
      PROVE  SubSeq(Digest(c, h), 1, k) = Digest(c, k)
  <2> DEFINE s == SubSeq(Digest(c, h), 1, k)
             t == Digest(c, k)
  <2>1. s \in Seq(WalletBlock) /\ Len(s) = k /\ \A i \in 1..k : s[i] = c[i]
    BY <1>1
  <2>2. t \in Seq(WalletBlock) /\ Len(t) = k /\ \A i \in 1..k : t[i] = c[i]
    BY DEF Digest
  <2> HIDE DEF s, t
  <2>3. s = t
    BY <2>1, <2>2
  <2> QED
    BY <2>3, Zenon DEF s, t
<1> QED
  BY <1>1, <1>2, <1>3, Zenon

(* A window whose last block is on the chain is all on the chain; the parent  *)
(* that a batch builds on can only be its last block.                         *)
LEMMA WindowMeetsChain ==
  ASSUME WalletTypes, WindowIsAChain, TipHeight <= Len(chain),
         ~Unknown(window, Digest(chain, TipHeight))
  PROVE  /\ HandleReorg(window, Digest(chain, TipHeight)) = window
         /\ \A i \in 1..Len(window) : window[i].digest = Digest(chain, height + i)
<1> DEFINE n == Len(window)
           parent == Digest(chain, TipHeight)
<1>0. n \in Nat /\ height \in Nat /\ TipHeight = height + n
  BY DEF WalletTypes, TipHeight
<1>1. Len(parent) = TipHeight /\ \A k \in 0..TipHeight : SubSeq(parent, 1, k) = Digest(chain, k)
  <2>1. TipHeight \in 0..Len(chain) /\ chain \in Seq(WalletBlock)
    BY <1>0 DEF WalletTypes
  <2> QED
    BY <2>1, DigestBasics, Zenon
<1>2. \A p \in Positions(window, parent) : p = n
  <2> TAKE p \in Positions(window, parent)
  <2>1. p \in 1..n /\ window[p].digest = parent
    BY Zenon DEF Positions
  <2>2. Len(parent) = height + p
    BY <2>1, Zenon DEF WindowIsAChain, ScannedAt
  <2>3. height + p = height + n
    BY <1>0, <1>1, <2>2, Zenon
  <2> QED
    BY <1>0, <2>1, <2>3
<1>3. CASE window = <<>>
  <2>1. n = 0
    BY <1>3, Zenon
  <2>2. 1..n = {}
    BY <2>1
  <2>3. Positions(window, parent) = {}
    BY <2>2, Zenon DEF Positions
  <2> QED
    BY <1>3, <2>2, <2>3, Zenon DEF HandleReorg
<1>4. CASE window # <<>>
  <2>1. Positions(window, parent) # {}
    BY <1>4, Zenon DEF Unknown
  <2>2. n \in Positions(window, parent) /\ (CHOOSE p \in Positions(window, parent) : TRUE) = n
    BY <1>2, <2>1, Zenon
  <2>3. n \in 1..n /\ window[n].digest = parent
    BY <2>2, Zenon DEF Positions
  <2>4. SubSeq(window, 1, n) = window
    BY DEF WalletTypes
  <2>5. HandleReorg(window, parent) = window
    BY <2>1, <2>2, <2>4, Zenon DEF HandleReorg
  <2>6. ASSUME NEW i \in 1..n
        PROVE  window[i].digest = Digest(chain, height + i)
    <3>1. i <= n /\ height + i \in 0..TipHeight
      BY <1>0
    <3>2. window[i].digest = SubSeq(parent, 1, height + i)
      BY <2>3, <3>1, Zenon DEF WindowIsAChain
    <3> QED
      BY <1>1, <3>1, <3>2, Zenon
  <2> QED
    BY <2>5, <2>6, Zenon
<1> QED
  BY <1>3, <1>4, Zenon

(* A running wallet tracks the address of every output on the chain, unless   *)
(* an announcement was lost.                                                  *)
LEMMA OutputsAreTracked ==
  ASSUME WalletTypes, AnnouncementsRise, AddressesAreAnnounced, up,
         NEW h \in 0..Len(chain), NEW u \in OutputsAt(chain, h), IsTracked(u)
  PROVE  u.addr <= idx
<1>1. idx \in Nat \ {0}
  BY Zenon DEF AnnouncementsRise
<1>2. chain \in Seq(WalletBlock)
  BY Zenon DEF WalletTypes
<1>3. u \in Coin /\ (u.addr = 0 \/ (h \in 1..Len(chain) /\ chain[h].tx # NoTx
                                     /\ u.addr = chain[h].tx.change))
  BY <1>2, OutputsAreCoins, Zenon
<1>4. u.addr \in Nat
  BY <1>3, Zenon DEF Coin
<1>5. CASE u.addr <= 1
  BY <1>1, <1>4, <1>5
<1>6. CASE missed = {} /\ u.addr # 0
  <2>1. h \in 1..Len(chain) /\ chain[h].tx # NoTx /\ u.addr = chain[h].tx.change
    BY <1>3, <1>6, Zenon
  <2>2. chain \in Seq(Blocks(Known))
    BY <1>6, Zenon DEF AddressesAreAnnounced
  <2>3. chain[h] \in Blocks(Known)
    BY <2>1, <2>2
  <2>4. chain[h].tx \in Known
    BY <2>1, <2>3, Zenon DEF Blocks
  <2>5. u.addr < idx
    BY <2>1, <2>4, Zenon DEF Known, Fresh
  <2> QED
    BY <1>1, <1>4, <2>5
<1> QED
  BY <1>1, <1>4, <1>5, <1>6 DEF IsTracked

(* What a successful batch leaves to promote: a window on the chain, up to a  *)
(* block no higher than the node's height at the start of the round.          *)
Batched(w) ==
    /\ w \in Seq(WindowEntry)
    /\ Len(w) > Len(window)
    /\ height + Len(w) <= sync.nh
    /\ \A i \in 1..Len(w) : /\ w[i].digest = Digest(chain, height + i)
                            /\ ScannedAt(w[i], height + i)

(* A scan meets a reorganization, or extends the window by a batch of the     *)
(* chain.                                                                     *)
LEMMA AdvanceStep ==
  ASSUME WalletTypes, WindowIsAChain, AnnouncementsRise, AddressesAreAnnounced, up,
         sync.nh <= Len(chain), Advance
  PROVE  \/ ReorgFails
         \/ /\ UNCHANGED missed
            /\ \E w : Batched(w) /\ PromoteAndCleanup(w, ScanGenesis)
<1> DEFINE from == TipHeight + 1
           to == IF from + Batch - 1 > sync.nh THEN sync.nh ELSE from + Batch - 1
           parent == Digest(chain, TipHeight)
           scan == ScanBlocks(from, to)
           w == window \o scan
<1>0. /\ chain \in Seq(WalletBlock) /\ height \in Nat /\ sync.nh \in Nat
      /\ window \in Seq(WindowEntry) /\ Len(window) \in Nat
  BY DEF WalletTypes, SyncState
<1>1. SUFFICES ASSUME ~Unknown(window, parent)
               PROVE  UNCHANGED missed /\ Batched(w) /\ PromoteAndCleanup(w, ScanGenesis)
  BY Zenon DEF Advance
<1>2. /\ TipHeight = height + Len(window)
      /\ TipHeight \in Nat /\ TipHeight < to /\ to <= sync.nh /\ to \in Nat
      /\ to - from + 1 = to - TipHeight /\ to - TipHeight \in Nat \ {0}
      /\ \A i \in 1..(to - TipHeight) : from + i - 1 = TipHeight + i
  BY <1>0, WalletAssumption DEF TipHeight, Advance
<1>3. /\ HandleReorg(window, parent) = window
      /\ \A i \in 1..Len(window) : window[i].digest = Digest(chain, height + i)
  <2>1. TipHeight <= Len(chain)
    BY <1>0, <1>2
  <2> QED
    BY <1>1, <2>1, WindowMeetsChain, Zenon
<1>4. UNCHANGED missed /\ PromoteAndCleanup(w, ScanGenesis)
  BY <1>1, <1>3, Zenon DEF Advance
<1> HIDE DEF from, to
<1>5. ASSUME NEW i \in 1..(to - TipHeight)
      PROVE  /\ scan[i] \in WindowEntry
             /\ scan[i].digest = Digest(chain, TipHeight + i)
             /\ ScannedAt(scan[i], TipHeight + i)
  <2> DEFINE h == TipHeight + i
             out == {u \in OutputsAt(chain, h) : u.addr <= idx}
  <2>1. scan[i] = [digest |-> Digest(chain, h), utxos |-> out]
    <3>1. i \in 1..(to - from + 1) /\ from + i - 1 = h
      BY <1>2, Zenon
    <3> QED
      BY <3>1, Zenon DEF ScanBlocks
  <2>2. h \in 0..Len(chain)
    BY <1>0, <1>2
  <2> HIDE DEF h
  <2>3. /\ Digest(chain, h) \in Seq(WalletBlock)
        /\ Len(Digest(chain, h)) = h
        /\ OutputsAt(Digest(chain, h), h) = OutputsAt(chain, h)
        /\ OutputsAt(chain, h) \subseteq Coin
    BY <1>0, <2>2, DigestBasics, OutputsAreCoins, Zenon
  <2>4. \A u \in OutputsAt(chain, h) : u \in out \/ ~IsTracked(u)
    BY <2>2, OutputsAreTracked, Zenon
  <2>5. out \subseteq OutputsAt(chain, h)
    BY Zenon
  <2> HIDE DEF out, scan
  <2>6. scan[i] \in WindowEntry /\ scan[i].digest = Digest(chain, h) /\ scan[i].utxos = out
    BY <2>1, <2>3, <2>5 DEF WindowEntry
  <2>7. ScannedAt(scan[i], h)
    BY <2>3, <2>4, <2>5, <2>6, Zenon DEF ScannedAt
  <2> QED
    BY <2>6, <2>7, Zenon DEF h
<1>6. scan \in Seq(WindowEntry) /\ Len(scan) = to - TipHeight
  <2>1. scan = [i \in 1..(to - TipHeight) |-> scan[i]]
    BY <1>2, Zenon DEF ScanBlocks
  <2> HIDE DEF scan
  <2>2. scan \in [1..(to - TipHeight) -> WindowEntry]
    BY <1>5, <2>1, Zenon
  <2> DEFINE k == to - TipHeight
  <2>3. k \in Nat /\ scan \in [1..k -> WindowEntry]
    BY <1>2, <2>2, Zenon
  <2> HIDE DEF k
  <2>4. scan \in Seq(WindowEntry) /\ Len(scan) = k
    BY <2>3
  <2> QED
    BY <2>4, Zenon DEF k
<1> HIDE DEF scan
<1>7. /\ w \in Seq(WindowEntry)
      /\ Len(w) = Len(window) + Len(scan)
      /\ \A i \in 1..Len(window) : w[i] = window[i]
      /\ \A i \in 1..Len(scan) : w[Len(window) + i] = scan[i]
  <2>1. window \in Seq(WindowEntry) /\ scan \in Seq(WindowEntry)
    BY <1>0, <1>6, Zenon
  <2> QED
    BY <2>1, Joined
<1> HIDE DEF w
<1>a. /\ TipHeight = height + Len(window) /\ TipHeight < to /\ to <= sync.nh
      /\ Len(w) = Len(window) + (to - TipHeight)
      /\ height \in Nat /\ Len(window) \in Nat /\ to \in Nat /\ sync.nh \in Nat
  <2>1. Len(window) \in Nat
    BY <1>0
  <2> QED
    BY <1>0, <1>2, <1>6, <1>7, <2>1, Zenon
<1>8. Len(w) > Len(window) /\ height + Len(w) <= sync.nh
  BY <1>a
<1>9. ASSUME NEW i \in 1..Len(w)
      PROVE  w[i].digest = Digest(chain, height + i) /\ ScannedAt(w[i], height + i)
  <2>1. CASE i \in 1..Len(window)
    BY <1>3, <1>7, <2>1, Zenon DEF WindowIsAChain
  <2>2. CASE i \notin 1..Len(window)
    <3> DEFINE k == i - Len(window)
    <3>1. k \in 1..(to - TipHeight) /\ Len(window) + k = i /\ TipHeight + k = height + i
      BY <1>a, <2>2
    <3> HIDE DEF k
    <3> QED
      BY <1>5, <1>6, <1>7, <3>1, Zenon
  <2> QED
    BY <2>1, <2>2, Zenon
<1> QED
  BY <1>4, <1>7, <1>8, <1>9, Zenon DEF Batched

(* What leaves the window for the pool is what its entries held, and the      *)
(* window that is left is a chain.                                            *)
LEMMA PromoteStep ==
  ASSUME WalletTypes, NEW w, Batched(w), NEW genesis \in SUBSET Coin,
         PromoteAndCleanup(w, genesis)
  PROVE  LET n == Promoted(w)
         IN  /\ n \in 0..Len(w)
             /\ height' = height + n
             /\ window' \in Seq(WindowEntry)
             /\ Len(window') = Len(w) - n
             /\ \A i \in 1..Len(window') : n + i \in 1..Len(w) /\ window'[i] = w[n + i]
             /\ n = 0 \/ height' + Depth = height + Len(w)
             /\ sync' \in SyncState
             /\ sync'.pc = "adding" /\ sync'.held = sync.held
             /\ sync'.found = genesis \cup UNION {w[i].utxos : i \in 1..n}
<1> DEFINE n == Promoted(w)
<1>1. w \in Seq(WindowEntry) /\ Len(w) \in Nat /\ height \in Nat /\ Depth \in Nat
  BY WalletAssumption DEF Batched, WalletTypes
<1>2. /\ window' = SubSeq(w, n + 1, Len(w))
      /\ height' = height + n
      /\ sync' = [sync EXCEPT !.pc = "adding", !.nh = 0,
                      !.found = genesis \cup UNION {w[i].utxos : i \in 1..n}]
  BY Zenon DEF PromoteAndCleanup
<1>3. n \in 0..Len(w) /\ (n = 0 \/ height + n + Depth = height + Len(w))
  BY <1>1 DEF Promoted
<1> HIDE DEF n
<1>4. /\ window' \in Seq(WindowEntry)
      /\ Len(window') = Len(w) - n
      /\ \A i \in 1..Len(window') : n + i \in 1..Len(w) /\ window'[i] = w[n + i]
  <2>1. n + 1 \in 1..(Len(w) + 1) /\ Len(w) - (n + 1) + 1 = Len(w) - n
    BY <1>1, <1>3
  <2>2. window' \in Seq(WindowEntry) /\ Len(window') = Len(w) - n
    BY <1>1, <1>2, <2>1
  <2>3. ASSUME NEW i \in 1..Len(window')
        PROVE  n + i \in 1..Len(w) /\ window'[i] = w[n + i]
    <3>1. n + i \in 1..Len(w) /\ (n + 1) + i - 1 = n + i /\ i \in 1..(Len(w) - (n + 1) + 1)
      BY <1>1, <1>3, <2>2
    <3>2. SubSeq(w, n + 1, Len(w))[i] = w[(n + 1) + i - 1]
      BY <1>1, <2>1, <3>1
    <3> QED
      BY <1>2, <3>1, <3>2, Zenon
  <2> QED
    BY <2>2, <2>3, Zenon
<1> DEFINE f == genesis \cup UNION {w[i].utxos : i \in 1..n}
<1>5. f \in SUBSET Coin
  <2>1. \A i \in 1..n : w[i].utxos \in SUBSET Coin
    <3> TAKE i \in 1..n
    <3>1. w[i] \in WindowEntry
      BY <1>1, <1>3
    <3> QED
      BY <3>1, Zenon DEF WindowEntry
  <2> QED
    BY <2>1, Zenon
<1> HIDE DEF f
<1>6. sync' = [sync EXCEPT !.pc = "adding", !.nh = 0, !.found = f] /\ sync \in SyncState
  BY <1>2, Zenon DEF f, WalletTypes
<1>7. /\ sync' \in SyncState
      /\ sync'.pc = "adding" /\ sync'.held = sync.held /\ sync'.found = f
  BY <1>5, <1>6, Zenon DEF SyncState
<1> QED
  BY <1>2, <1>3, <1>4, <1>7, Zenon DEF n, f

(* Genesis is scanned when nothing has been scanned.                          *)
LEMMA GenesisCoins == ScanGenesis \in SUBSET Coin /\ (TipHeight = 0 => ScanGenesis = Premine)
                      /\ \A u \in ScanGenesis : u.addr = 0
<1>1. [addr |-> 0, leaf |-> 0] \in Coin /\ [addr |-> 0, leaf |-> 1] \in Coin
  BY Zenon DEF Coin, Leaf
<1>2. Premine \subseteq Coin /\ \A u \in Premine : u.addr = 0
  BY <1>1 DEF Premine
<1>3. OutputsAt(chain, 0) = Premine
  BY Zenon DEF OutputsAt
<1> QED
  BY <1>2, <1>3, Zenon DEF ScanGenesis

-----------------------------------------------------------------------------
(* The invariant, part by part.                                               *)

(* The steps of a process that is not running do not happen.                  *)
LEMMA ProcessRuns ==
  ASSUME Resting, sync.pc # "idle" \/ send.pc # "idle"
  PROVE  up
  BY DEF Resting, SyncIdle, NotSending

(* What the sync loop does in one step.                                       *)
LEMMA TypesKept ==
  ASSUME WalletInv, [VNext]_vvars
  PROVE  WalletTypes'
<1> USE DEF WalletTypes
<1>0. WalletTypes /\ Resting /\ Phases
  BY Zenon DEF WalletInv
<1>e. <<>> \in Seq(Answer)
  OBVIOUS
<1>1. CASE NodeBlock \/ Reorganise
  <2>1. chain' \in Seq(WalletBlock) /\ mempool' \subseteq WalletTx
    BY <1>0, <1>1, NodeStep, Zenon DEF WalletBlock
  <2>2. UNCHANGED <<up, scanner, idx, pool, mempoolScanner, raised, sync, send,
                    files, evicted>>
    BY <1>1, Zenon DEF NodeBlock, Reorganise
  <2> QED
    BY <1>0, <2>1, <2>2, Zenon DEF scanner, mempoolScanner
<1>2. CASE ReadHeight
  <2>0. Len(chain) \in Nat
    BY <1>0
  <2>1. sync' \in SyncState
    BY <1>0, <1>2, <2>0, Zenon DEF ReadHeight, SyncState
  <2> QED
    BY <1>0, <1>2, <2>1, Zenon DEF ReadHeight, node, scanner, mempoolScanner
<1>3. CASE DrainPendingEvents
  <2>1. sync' \in SyncState
    BY <1>0, <1>3, Zenon DEF DrainPendingEvents, SyncState
  <2>2. raised' \in Seq(Nat)
    BY <1>3 DEF DrainPendingEvents
  <2> QED
    BY <1>0, <1>3, <2>1, <2>2, Zenon DEF DrainPendingEvents, node, scanner, mempoolScanner
<1>4. CASE ScanMempool
  <2>1. sync' \in SyncState
    BY <1>0, <1>4, Zenon DEF ScanMempool, SyncState
  <2>2. sync.ids \subseteq WalletTx
    BY <1>0, Zenon DEF SyncState
  <2>3. checked' \subseteq WalletTx
    BY <2>2, <1>4, Zenon DEF ScanMempool
  <2>4. spends' \subseteq Coin \X WalletTx
    <3> DEFINE fetched == (sync.ids \ checked) \cap mempool
               seen == UNION {(t.ins \cap pool) \X {t} : t \in fetched}
    <3>1. \A t \in fetched : (t.ins \cap pool) \X {t} \subseteq Coin \X WalletTx
      BY <1>0, <2>2, Zenon
    <3>2. seen \subseteq Coin \X WalletTx
      BY <3>1, Zenon
    <3> HIDE DEF seen
    <3>3. spends' = {s \in spends \cup seen : s[2] \in sync.ids}
      BY <1>4, Zenon DEF ScanMempool, seen
    <3> QED
      BY <1>0, <3>2, <3>3, Zenon
  <2> QED
    BY <1>0, <1>4, <2>1, <2>3, <2>4, Zenon DEF ScanMempool, node, scanner, mempoolScanner
<1>5. CASE SyncChain
  <2>1. sync.pc = "scanned" /\ sync.nh <= Len(chain)
    BY <1>0, <1>5, Zenon DEF SyncChain, Phases
  <2>2. up
    BY <1>0, <2>1, ProcessRuns, Zenon
  <2>3. height' \in Nat /\ window' \in Seq(WindowEntry) /\ sync' \in SyncState
    <3>1. CASE NothingToFetch
      <4>1. sync' \in SyncState
        BY <1>0, <3>1, Zenon DEF NothingToFetch, SyncState
      <4> QED
        BY <1>0, <3>1, <4>1, Zenon DEF NothingToFetch, scanner
    <3>2. CASE ReorgFails
      BY <1>0, <3>2 DEF ReorgFails, SyncState, SyncIdle
    <3>3. ASSUME NEW w, Batched(w), PromoteAndCleanup(w, ScanGenesis)
          PROVE  height' \in Nat /\ window' \in Seq(WindowEntry) /\ sync' \in SyncState
      <4>1. /\ Promoted(w) \in 0..Len(w) /\ height' = height + Promoted(w)
            /\ window' \in Seq(WindowEntry) /\ sync' \in SyncState
        BY <1>0, <3>3, PromoteStep, GenesisCoins, Zenon
      <4> QED
        BY <1>0, <4>1
    <3>4. CASE Advance
      BY <2>1, <2>2, <3>2, <3>3, <3>4, AdvanceStep, Zenon DEF WalletInv
    <3> QED
      BY <1>5, <3>1, <3>4, Zenon DEF SyncChain
  <2> QED
    BY <1>0, <1>5, <2>3, Zenon DEF SyncChain, node, mempoolScanner
<1>6. CASE AddUtxos
  <2>1. sync' \in SyncState /\ sync.found \subseteq Coin
    BY <1>0, <1>6, Zenon DEF AddUtxos, SyncState
  <2> QED
    BY <1>0, <1>6, <2>1, Zenon DEF AddUtxos, node, scanner, mempoolScanner
<1>7. CASE StoreEvents
  <2>1. sync' \in SyncState /\ files' \in [idx : Nat, utxos : SUBSET Coin, height : Nat]
    <3>1. CASE StoreIndex
      <4>1. sync.held \in Seq(Nat) /\ sync.held # <<>>
        BY <1>0, <3>1, Zenon DEF StoreIndex, SyncState
      <4>2. Head(sync.held) \in Nat /\ Tail(sync.held) \in Seq(Nat)
        BY <4>1
      <4> QED
        BY <1>0, <3>1, <4>2, Zenon DEF StoreIndex, SyncState
    <3>2. ASSUME NEW u \in sync.found, StoreUtxo(u)
          PROVE  sync' \in SyncState /\ files' \in [idx : Nat, utxos : SUBSET Coin, height : Nat]
      BY <1>0, <3>2, Zenon DEF StoreUtxo, SyncState
    <3>3. CASE StoreHeight
      BY <1>0, <3>3, Zenon DEF StoreHeight, SyncState, SyncIdle
    <3> QED
      BY <1>7, <3>1, <3>2, <3>3, Zenon DEF StoreEvents
  <2> QED
    BY <1>0, <1>7, <2>1, Zenon DEF StoreEvents, node, scanner, mempoolScanner
<1>8. CASE SelectInputs
  <2>1. PICK want \in {1, 2} : send' = [NotSending EXCEPT !.pc = "choose", !.want = want,
                                          !.exclude = {s[1] : s \in spends}]
    BY <1>8, Zenon DEF SelectInputs
  <2>2. {s[1] : s \in spends} \in SUBSET Coin
    BY <1>0, Zenon
  <2> DEFINE ex == {s[1] : s \in spends}
  <2> HIDE DEF ex
  <2>3. send' = [NotSending EXCEPT !.pc = "choose", !.want = want, !.exclude = ex]
        /\ ex \in SUBSET Coin
    BY <2>1, <2>2, Zenon DEF ex
  <2>4. NotSending \in SendState /\ want \in Nat
    BY <1>e DEF NotSending, SendState
  <2>5. send' \in SendState
    BY <2>3, <2>4, Zenon DEF SendState
  <2> QED
    BY <1>0, <1>8, <2>5, Zenon DEF SelectInputs, node, scanner, mempoolScanner
<1>9. CASE ChooseCandidates
  <2>1. PICK c \in Candidates : send' = [send EXCEPT !.pc = "restore", !.todo = c, !.got = <<>>]
    BY <1>9, Zenon DEF ChooseCandidates
  <2>2. c \in SUBSET Coin
    BY <1>0, Zenon DEF Candidates
  <2>3. send' \in SendState
    BY <1>0, <1>e, <2>1, <2>2, Zenon DEF SendState
  <2> QED
    BY <1>0, <1>9, <2>3, Zenon DEF ChooseCandidates, node, scanner, mempoolScanner
<1>10. CASE RestoreChunk
  <2>1. send.todo \in SUBSET Coin
    BY <1>0, Zenon DEF SendState
  <2>2. PICK u \in send.todo :
          send' = [send EXCEPT !.todo = @ \ {u},
                               !.got = Append(@, [utxo |-> u, tip |-> chain])]
    BY <1>10, Zenon DEF RestoreChunk
  <2>3. u \in Coin
    BY <2>1, Zenon
  <2>4. [utxo |-> u, tip |-> chain] \in Answer
    BY <1>0, <2>3, Zenon DEF Answer
  <2> DEFINE p == [utxo |-> u, tip |-> chain]
  <2> HIDE DEF p
  <2>5. send' = [send EXCEPT !.todo = @ \ {u}, !.got = Append(@, p)]
        /\ p \in Answer
    BY <2>2, <2>4, Zenon DEF p
  <2>6. send.got \in Seq(Answer) /\ Append(send.got, p) \in Seq(Answer)
    BY <1>0, <2>5 DEF SendState
  <2>7. send' \in SendState
    BY <1>0, <2>5, <2>6, Zenon DEF SendState
  <2> QED
    BY <1>0, <1>10, <2>7, Zenon DEF RestoreChunk, node, scanner, mempoolScanner
<1>11. CASE VerifyProofs
  <2>1. RestoredUtxos \in SUBSET Coin
    <3>1. \A i \in 1..Len(send.got) : send.got[i] \in Answer
      BY <1>0 DEF SendState
    <3>2. \A i \in 1..Len(send.got) : send.got[i].utxo \in Coin
      BY <3>1, Zenon DEF Answer
    <3> QED
      BY <3>2, Zenon DEF RestoredUtxos
  <2>2. CASE RestoreAgain
    <3>1. send' \in SendState
      BY <1>0, <1>e, <2>1, <2>2, Zenon DEF RestoreAgain, SendState
    <3> QED
      BY <1>0, <1>11, <2>2, <3>1, Zenon DEF VerifyProofs, RestoreAgain, node, scanner, mempoolScanner
  <2>3. CASE EvictAndRetry
    <3>1. send' \in SendState
      BY <1>0, <2>3, Zenon DEF EvictAndRetry, SendState
    <3>2. pool' \subseteq Coin /\ evicted' \subseteq Coin
      <4> DEFINE spent == {send.got[i].utxo : i \in {j \in 1..Len(send.got) :
                                              ~Verifies(send.got[j])}}
      <4>1. pool' = pool \ spent /\ evicted' = evicted \cup spent
        BY <2>3, Zenon DEF EvictAndRetry
      <4>2. spent \subseteq Coin
        BY <2>1, Zenon DEF RestoredUtxos
      <4> HIDE DEF spent
      <4> QED
        BY <1>0, <4>1, <4>2, Zenon
    <3> QED
      BY <1>0, <1>11, <3>1, <3>2, Zenon DEF VerifyProofs, node, scanner, mempoolScanner
  <2>4. CASE Selected
    <3>1. send' \in SendState
      BY <1>e, <2>1, <2>4, Zenon DEF Selected, NotSending, SendState
    <3> QED
      BY <1>0, <1>11, <2>4, <3>1, Zenon DEF VerifyProofs, Selected, node, scanner, mempoolScanner
  <2> QED
    BY <1>11, <2>2, <2>3, <2>4, Zenon DEF VerifyProofs
<1>12. CASE BuildTransaction
  <2>1. send' \in SendState
    BY <1>0, <1>12, Zenon DEF BuildTransaction, SendState
  <2>2. idx' \in Nat /\ raised' \in Seq(Nat)
    BY <1>0, <1>12 DEF BuildTransaction
  <2> QED
    BY <1>0, <1>12, <2>1, <2>2, Zenon DEF BuildTransaction, node, scanner, mempoolScanner
<1>13. CASE SubmitTransaction
  <2>1. send' \in SendState
    BY <1>13 DEF SubmitTransaction, NotSending, SendState
  <2>2. [ins |-> send.ins, change |-> send.change] \in WalletTx
    BY <1>0, Zenon DEF SendState, WalletTx
  <2>3. mempool' \subseteq WalletTx
    BY <1>0, <1>13, <2>2, Zenon DEF SubmitTransaction
  <2> QED
    BY <1>0, <1>13, <2>1, <2>3, Zenon DEF SubmitTransaction, scanner, mempoolScanner
<1>14. CASE Killed \/ InsufficientFunds
  <2>1. Exit
    BY <1>14, Zenon DEF Killed, InsufficientFunds
  <2>2. sync' \in SyncState /\ send' \in SendState /\ window' \in Seq(WindowEntry)
        /\ raised' \in Seq(Nat) /\ height' \in Nat /\ idx' \in Nat
    BY <2>1 DEF Exit, SyncIdle, NotSending, SyncState, SendState
  <2> QED
    BY <1>0, <2>1, <2>2, Zenon DEF Exit, node
<1>15. CASE Start
  <2>1. height' \in Nat /\ idx' \in Nat /\ pool' \subseteq Coin
    BY <1>0, <1>15 DEF Start
  <2> QED
    BY <1>0, <1>15, <2>1, Zenon DEF Start, node, mempoolScanner
<1>16. CASE UNCHANGED vvars
  BY <1>0, <1>16, Zenon DEF vvars
<1> QED
  BY <1>1, <1>2, <1>3, <1>4, <1>5, <1>6, <1>7, <1>8, <1>9, <1>10, <1>11, <1>12, <1>13,
     <1>14, <1>15, <1>16, Zenon DEF VNext, SyncStep, SendStep

(* An output that a send removes from the pool is among the evicted ones.     *)
LEMMA EvictedAreRemembered ==
  ASSUME VerifyProofs
  PROVE  pool \cup evicted \subseteq pool' \cup evicted'
<1>1. CASE EvictAndRetry
  BY <1>1, Zenon DEF EvictAndRetry
<1>2. CASE RestoreAgain \/ Selected
  BY <1>2, Zenon DEF RestoreAgain, Selected
<1> QED
  BY <1>1, <1>2, Zenon DEF VerifyProofs

(* The parts of the invariant that follow one step of the loop only: a        *)
(* process that is down, and what a round holds.                              *)
LEMMA PhasesKept ==
  ASSUME WalletInv, [VNext]_vvars
  PROVE  Resting' /\ Phases'
<1>0. WalletTypes /\ Resting /\ Phases
  BY Zenon DEF WalletInv
<1>a. chain \in Seq(WalletBlock) /\ sync \in SyncState /\ send \in SendState /\ Len(chain) \in Nat
      /\ sync.nh \in Nat
  BY <1>0 DEF WalletTypes, SyncState
<1>1. CASE NodeBlock \/ Reorganise
  <2>1. Len(chain') >= Len(chain) /\ chain' \in Seq(WalletBlock)
    BY <1>0, <1>1, NodeStep, Zenon DEF WalletBlock, ChainGrows, WalletTypes
  <2>2. sync.nh <= Len(chain) => sync.nh <= Len(chain')
    BY <1>a, <2>1
  <2>3. UNCHANGED <<up, height, window, pool, raised, sync, send, evicted>>
    BY <1>1, Zenon DEF NodeBlock, Reorganise, scanner
  <2> QED
    BY <1>0, <2>2, <2>3, Zenon DEF Resting, Phases
<1>2. CASE ReadHeight
  <2>1. sync' = [sync EXCEPT !.pc = "height", !.nh = Len(chain)]
        /\ sync.pc = "idle" /\ up /\ up' = up /\ chain' = chain
    BY <1>2, Zenon DEF ReadHeight, node
  <2>2. /\ sync'.pc = "height" /\ sync'.nh = Len(chain') /\ Len(chain') <= Len(chain')
        /\ sync'.held = sync.held /\ sync'.found = sync.found
    BY <1>a, <2>1 DEF SyncState
  <2> QED
    BY <1>0, <2>1, <2>2, Zenon DEF Resting, Phases
<1>3. CASE DrainPendingEvents
  <2>1. /\ sync.pc = "height" /\ up' = up /\ chain' = chain
        /\ sync' = [sync EXCEPT !.pc = "listed", !.held = raised, !.ids = mempool]
    BY <1>3, Zenon DEF DrainPendingEvents, node
  <2>2. sync'.pc = "listed" /\ sync'.nh = sync.nh /\ sync'.found = sync.found
    BY <1>a, <2>1, Zenon DEF SyncState
  <2>3. up
    BY <1>0, <2>1, ProcessRuns, Zenon
  <2> QED
    BY <1>0, <2>1, <2>2, <2>3, Zenon DEF Resting, Phases
<1>4. CASE ScanMempool
  <2>1. /\ sync.pc = "listed" /\ up' = up /\ chain' = chain
        /\ sync' = [sync EXCEPT !.pc = "scanned", !.ids = {}]
    BY <1>4, Zenon DEF ScanMempool, node
  <2>2. sync'.pc = "scanned" /\ sync'.nh = sync.nh /\ sync'.found = sync.found
    BY <1>a, <2>1, Zenon DEF SyncState
  <2>3. up
    BY <1>0, <2>1, ProcessRuns, Zenon
  <2> QED
    BY <1>0, <2>1, <2>2, <2>3, Zenon DEF Resting, Phases
<1>5. CASE SyncChain
  <2>1. sync.pc = "scanned" /\ sync.nh <= Len(chain) /\ up' = up
    BY <1>0, <1>5, Zenon DEF SyncChain, Phases
  <2>2. up
    BY <1>0, <2>1, ProcessRuns, Zenon
  <2>3. CASE NothingToFetch
    <3>1. sync'.pc = "storing" /\ sync'.found = {}
      BY <1>0, <1>a, <2>1, <2>3, Zenon DEF NothingToFetch, SyncState, Phases
    <3> QED
      BY <2>1, <2>2, <3>1, Zenon DEF Resting, Phases
  <2>4. CASE ReorgFails
    BY <2>1, <2>2, <2>4, Zenon DEF ReorgFails, Resting, Phases, SyncIdle
  <2>5. ASSUME NEW w, Batched(w), PromoteAndCleanup(w, ScanGenesis)
        PROVE  Resting' /\ Phases'
    <3>1. sync'.pc = "adding"
      BY <1>0, <2>5, PromoteStep, GenesisCoins, Zenon
    <3> QED
      BY <2>1, <2>2, <3>1, Zenon DEF Resting, Phases
  <2>6. CASE Advance
    BY <2>1, <2>2, <2>4, <2>5, <2>6, AdvanceStep, Zenon DEF WalletInv
  <2> QED
    BY <1>5, <2>3, <2>6, Zenon DEF SyncChain
<1>6. CASE AddUtxos
  <2>1. /\ sync.pc = "adding" /\ up' = up /\ pool' = pool \cup sync.found /\ evicted' = evicted
        /\ sync' = [sync EXCEPT !.pc = "storing"]
    BY <1>6, Zenon DEF AddUtxos
  <2>2. sync'.pc = "storing" /\ sync'.found = sync.found
    BY <1>a, <2>1, Zenon DEF SyncState
  <2>3. up
    BY <1>0, <2>1, ProcessRuns, Zenon
  <2> QED
    BY <2>1, <2>2, <2>3, Zenon DEF Resting, Phases
<1>7. CASE StoreEvents
  <2>1. sync.pc = "storing" /\ UNCHANGED <<up, pool, evicted>>
    BY <1>7, Zenon DEF StoreEvents
  <2>2. up
    BY <1>0, <2>1, ProcessRuns, Zenon
  <2>3. CASE StoreHeight
    BY <2>1, <2>2, <2>3, Zenon DEF StoreHeight, Resting, Phases, SyncIdle
  <2>4. CASE StoreIndex
    <3>1. sync'.pc = "storing" /\ sync'.found = sync.found
      BY <1>a, <2>1, <2>4, Zenon DEF StoreIndex, SyncState
    <3> QED
      BY <1>0, <2>1, <2>2, <3>1, Zenon DEF Resting, Phases
  <2>5. ASSUME NEW u \in sync.found, StoreUtxo(u)
        PROVE  Resting' /\ Phases'
    <3>1. sync'.pc = "storing" /\ sync'.found \subseteq sync.found
      BY <1>a, <2>1, <2>5, Zenon DEF StoreUtxo, SyncState
    <3> QED
      BY <1>0, <2>1, <2>2, <3>1, Zenon DEF Resting, Phases
  <2> QED
    BY <1>7, <2>3, <2>4, <2>5, Zenon DEF StoreEvents
<1>8. CASE SelectInputs
  BY <1>0, <1>8, Zenon DEF SelectInputs, Resting, Phases, node, scanner
<1>9. CASE ChooseCandidates \/ RestoreChunk \/ BuildTransaction \/ SubmitTransaction
  <2>1. send.pc # "idle" /\ UNCHANGED <<up, chain, pool, evicted, sync>>
    BY <1>9, Zenon DEF ChooseCandidates, RestoreChunk, BuildTransaction, SubmitTransaction, node
  <2>2. up
    BY <1>0, <2>1, ProcessRuns, Zenon
  <2> QED
    BY <1>0, <2>1, <2>2, Zenon DEF Resting, Phases
<1>10. CASE VerifyProofs
  <2>1. send.pc # "idle" /\ UNCHANGED <<up, chain, sync>>
    BY <1>10, Zenon DEF VerifyProofs, node
  <2>2. up
    BY <1>0, <2>1, ProcessRuns, Zenon
  <2>3. pool \cup evicted \subseteq pool' \cup evicted'
    BY <1>10, EvictedAreRemembered, Zenon
  <2> QED
    BY <1>0, <2>1, <2>2, <2>3, Zenon DEF Resting, Phases
<1>11. CASE Killed \/ InsufficientFunds
  <2>1. Exit
    BY <1>11, Zenon DEF Killed, InsufficientFunds
  <2> QED
    BY <2>1, Zenon DEF Exit, SyncIdle, Resting, Phases
<1>12. CASE Start
  <2>1. up' /\ ~up /\ sync' = sync /\ sync = SyncIdle
    BY <1>0, <1>12, Zenon DEF Start, Resting
  <2> QED
    BY <2>1, Zenon DEF SyncIdle, Resting, Phases
<1>13. CASE UNCHANGED vvars
  BY <1>0, <1>13, Zenon DEF vvars, Resting, Phases
<1> QED
  BY <1>1, <1>2, <1>3, <1>4, <1>5, <1>6, <1>7, <1>8, <1>9, <1>10, <1>11, <1>12, <1>13, Zenon
     DEF VNext, SyncStep, SendStep

(* Which steps move the scanner, and which lose an announcement.              *)
LEMMA ScannerMoves ==
  ASSUME WalletInv, [VNext]_vvars
  PROVE  \/ UNCHANGED <<height, window, missed>>
         \/ ReorgFails
         \/ /\ UNCHANGED <<chain, missed, files, idx, up>> /\ up
            /\ sync.nh <= Len(chain) /\ sync.pc = "scanned"
            /\ \E w : Batched(w) /\ PromoteAndCleanup(w, ScanGenesis)
         \/ Exit
         \/ Start
<1>1. CASE SyncChain
  <2>1. sync.pc = "scanned" /\ sync.nh <= Len(chain)
    BY <1>1, Zenon DEF SyncChain, Phases, WalletInv
  <2>2. up
    BY <2>1, ProcessRuns, Zenon DEF WalletInv
  <2>3. CASE NothingToFetch
    BY <2>3, Zenon DEF NothingToFetch, scanner
  <2>4. CASE Advance
    <3>1. \/ ReorgFails
          \/ /\ UNCHANGED missed
             /\ \E w : Batched(w) /\ PromoteAndCleanup(w, ScanGenesis)
      BY <2>1, <2>2, <2>4, AdvanceStep, Zenon DEF WalletInv
    <3>2. UNCHANGED <<chain, files, idx, up>>
      BY <1>1, Zenon DEF SyncChain, node
    <3> QED
      BY <2>1, <2>2, <3>1, <3>2, Zenon
  <2> QED
    BY <1>1, <2>3, <2>4, Zenon DEF SyncChain
<1>2. CASE \/ NodeBlock \/ Reorganise \/ ReadHeight \/ DrainPendingEvents \/ ScanMempool
           \/ AddUtxos \/ StoreEvents \/ SelectInputs \/ SendStep \/ UNCHANGED vvars
  BY <1>2, Zenon DEF NodeBlock, Reorganise, ReadHeight, DrainPendingEvents, ScanMempool,
       AddUtxos, StoreEvents, SelectInputs, SendStep, ChooseCandidates, RestoreChunk,
       VerifyProofs, BuildTransaction, SubmitTransaction, scanner, vvars
<1>3. CASE Killed \/ InsufficientFunds
  BY <1>3, Zenon DEF Killed, InsufficientFunds
<1> QED
  BY <1>1, <1>2, <1>3, Zenon DEF VNext, SyncStep

(* The chain in any step.                                                     *)
LEMMA ChainSteps ==
  ASSUME WalletTypes, [VNext]_vvars
  PROVE  ChainGrows
<1>1. CASE NodeBlock \/ Reorganise
  BY <1>1, NodeStep, Zenon DEF WalletTypes, WalletBlock
<1>2. CASE chain' = chain
  <2>1. Len(chain) \in Nat
    BY DEF WalletTypes
  <2> QED
    BY <1>2, <2>1 DEF ChainGrows
<1>3. \/ NodeBlock \/ Reorganise \/ chain' = chain
  BY Zenon DEF VNext, SyncStep, ReadHeight, DrainPendingEvents, ScanMempool, SyncChain,
       AddUtxos, StoreEvents, SelectInputs, SendStep, ChooseCandidates, RestoreChunk,
       VerifyProofs, BuildTransaction, SubmitTransaction, Killed, InsufficientFunds, Exit,
       Start, node, vvars
<1> QED
  BY <1>1, <1>2, <1>3, Zenon

(* A lost announcement is never found again.                                  *)
LEMMA LossesStay ==
  ASSUME [VNext]_vvars
  PROVE  missed \subseteq missed'
  BY Zenon DEF VNext, SyncStep, NodeBlock, Reorganise, ReadHeight, DrainPendingEvents,
       ScanMempool, SyncChain, NothingToFetch, Advance, ReorgFails, AddUtxos, StoreEvents,
       SelectInputs, SendStep, ChooseCandidates, RestoreChunk, VerifyProofs,
       BuildTransaction, SubmitTransaction, Killed, InsufficientFunds, Exit, Start, vvars

(* Every step keeps the window a chain.                                       *)
LEMMA WindowKept ==
  ASSUME WalletInv, [VNext]_vvars
  PROVE  WindowIsAChain'
<1>0. WalletTypes /\ WindowIsAChain /\ Resting
  BY Zenon DEF WalletInv
<1>1. CASE UNCHANGED <<height, window, missed>>
  BY <1>0, <1>1, Zenon DEF WindowIsAChain, ScannedAt, IsTracked
<1>2. CASE window' = <<>>
  <2>1. Len(window') = 0
    BY <1>2, Zenon
  <2>2. 1..Len(window') = {}
    BY <2>1
  <2> QED
    BY <2>2, Zenon DEF WindowIsAChain
<1>3. CASE ReorgFails \/ Exit
  BY <1>2, <1>3, Zenon DEF ReorgFails, Exit
<1>4. CASE Start
  BY <1>0, <1>2, <1>4, Zenon DEF Start, Resting
<1>5. ASSUME UNCHANGED <<chain, missed>>, sync.nh <= Len(chain),
             NEW w, Batched(w), PromoteAndCleanup(w, ScanGenesis)
      PROVE  WindowIsAChain'
  <2> DEFINE n == Promoted(w)
  <2>1. /\ n \in 0..Len(w) /\ height' = height + n
        /\ window' \in Seq(WindowEntry) /\ Len(window') = Len(w) - n
        /\ \A i \in 1..Len(window') : n + i \in 1..Len(w) /\ window'[i] = w[n + i]
    BY <1>0, <1>5, PromoteStep, GenesisCoins, Zenon
  <2> HIDE DEF n
  <2>2. /\ chain \in Seq(WalletBlock) /\ Len(chain) \in Nat /\ height \in Nat
        /\ w \in Seq(WindowEntry) /\ Len(w) \in Nat /\ sync.nh \in Nat
        /\ height + Len(w) <= sync.nh
    BY <1>0, <1>5 DEF WalletTypes, Batched, SyncState
  <2>3. ASSUME NEW i \in 1..Len(window')
        PROVE  /\ height' + i \in 0..Len(chain)
               /\ window'[i].digest = Digest(chain, height' + i)
               /\ ScannedAt(w[n + i], height + (n + i))
               /\ height' + i = height + (n + i) /\ window'[i] = w[n + i]
    <3>1. n + i \in 1..Len(w) /\ window'[i] = w[n + i]
      BY <2>1, Zenon
    <3>2. height' + i = height + (n + i) /\ height + (n + i) \in 0..Len(chain)
      <4>1. /\ n \in 0..Len(w) /\ height' = height + n /\ n + i \in 1..Len(w)
            /\ Len(chain) \in Nat /\ height \in Nat /\ Len(w) \in Nat /\ sync.nh \in Nat
            /\ height + Len(w) <= sync.nh /\ sync.nh <= Len(chain)
        BY <1>5, <2>1, <2>2, <3>1, Zenon
      <4>2. i \in 1..(Len(w) - n)
        BY <2>1, Zenon
      <4> QED
        BY <4>1, <4>2
    <3> QED
      BY <1>5, <3>1, <3>2, Zenon DEF Batched
  <2>4. \A i \in 1..Len(window') : ScannedAt(window[i], height + i)'
    BY <1>5, <2>3, Zenon DEF ScannedAt, IsTracked
  <2>5. ASSUME NEW i \in 1..Len(window'), NEW j \in 1..Len(window'), i <= j
        PROVE  window'[i].digest = SubSeq(window'[j].digest, 1, height' + i)
    <3>1. height' + i \in 0..(height' + j)
      <4>1. /\ n \in 0..Len(w) /\ height' = height + n /\ height \in Nat /\ Len(w) \in Nat
            /\ i \in 1..(Len(w) - n) /\ j \in 1..(Len(w) - n) /\ i <= j
        BY <2>1, <2>2, <2>5, Zenon
      <4> QED
        BY <4>1
    <3>2. SubSeq(Digest(chain, height' + j), 1, height' + i) = Digest(chain, height' + i)
      BY <2>2, <2>3, <3>1, DigestBasics, Zenon
    <3> QED
      BY <2>3, <3>2, Zenon
  <2> QED
    BY <2>4, <2>5, Zenon DEF WindowIsAChain
<1> QED
  BY <1>1, <1>3, <1>4, <1>5, ScannerMoves, Zenon

(* What the scanner and the files have passed stays below the confirmation    *)
(* depth.                                                                     *)
LEMMA BuriedKept ==
  ASSUME WalletInv, [VNext]_vvars
  PROVE  Buried'
<1>0. WalletTypes /\ Buried
  BY Zenon DEF WalletInv
<1>1. /\ Len(chain) \in Nat /\ Len(chain') \in Nat /\ height \in Nat /\ files.height \in Nat
      /\ Depth \in Nat
  <2>1. chain' \in Seq(WalletBlock)
    BY TypesKept, Zenon DEF WalletTypes
  <2> QED
    BY <1>0, <2>1, WalletAssumption DEF WalletTypes
<1>2. Len(chain') >= Len(chain)
  BY <1>0, ChainSteps, Zenon DEF ChainGrows
<1>3. \A h \in Nat : (h = 0 \/ h + Depth <= Len(chain)) => (h = 0 \/ h + Depth <= Len(chain'))
  BY <1>1, <1>2
<1>4. height' = 0 \/ height' + Depth <= Len(chain')
  <2>1. CASE height' = height \/ height' = 0 \/ height' = files.height
    BY <1>0, <1>1, <1>3, <2>1, Zenon DEF Buried
  <2>2. CASE ReorgFails \/ Exit \/ Start
    BY <2>1, <2>2, Zenon DEF ReorgFails, Exit, Start
  <2>3. ASSUME UNCHANGED chain, sync.nh <= Len(chain),
               NEW w, Batched(w), PromoteAndCleanup(w, ScanGenesis)
        PROVE  height' = 0 \/ height' + Depth <= Len(chain')
    <3>1. /\ Promoted(w) \in 0..Len(w) /\ height' = height + Promoted(w)
          /\ (Promoted(w) = 0 \/ height' + Depth = height + Len(w))
      BY <1>0, <2>3, PromoteStep, GenesisCoins, Zenon
    <3>2. height + Len(w) <= sync.nh /\ sync.nh \in Nat /\ Len(w) \in Nat
      BY <1>0, <2>3 DEF Batched, WalletTypes, SyncState
    <3>3. CASE Promoted(w) = 0
      BY <1>1, <2>1, <3>1, <3>3
    <3>4. CASE height' + Depth = height + Len(w)
      BY <1>1, <2>3, <3>2, <3>4
    <3> QED
      BY <3>1, <3>3, <3>4, Zenon
  <2> QED
    BY <2>1, <2>2, <2>3, ScannerMoves, Zenon
<1>5. files'.height = files.height \/ files'.height = height
  <2>1. files \in [idx : Nat, utxos : SUBSET Coin, height : Nat]
    BY <1>0, Zenon DEF WalletTypes
  <2>2. CASE StoreEvents
    <3>1. CASE StoreIndex
      BY <2>1, <3>1, Zenon DEF StoreIndex
    <3>2. ASSUME NEW u \in sync.found, StoreUtxo(u) PROVE files'.height = files.height
      BY <2>1, <3>2, Zenon DEF StoreUtxo
    <3>3. CASE StoreHeight
      BY <2>1, <3>3, Zenon DEF StoreHeight
    <3> QED
      BY <2>2, <3>1, <3>2, <3>3, Zenon DEF StoreEvents
  <2>3. CASE files' = files
    BY <2>3, Zenon
  <2>4. StoreEvents \/ files' = files
    BY Zenon DEF VNext, SyncStep, NodeBlock, Reorganise, ReadHeight, DrainPendingEvents,
       ScanMempool, SyncChain, AddUtxos, SelectInputs, SendStep, ChooseCandidates,
       RestoreChunk, VerifyProofs, BuildTransaction, SubmitTransaction, Killed,
       InsufficientFunds, Exit, Start, vvars
  <2> QED
    BY <2>2, <2>3, <2>4, Zenon
<1>6. files'.height = 0 \/ files'.height + Depth <= Len(chain')
  BY <1>0, <1>1, <1>3, <1>5, Zenon DEF Buried
<1> QED
  BY <1>4, <1>6, Zenon DEF Buried

(* Which steps move an announcement.                                          *)
AnnouncementsStay ==
    UNCHANGED <<up, idx, raised>> /\ sync'.held = sync.held /\ files'.idx = files.idx

(* The steps that change what is announced, one by one.                       *)
LEMMA AnnouncementsMove ==
  ASSUME WalletInv, [VNext]_vvars
  PROVE  \/ AnnouncementsStay
         \/ DrainPendingEvents
         \/ ReorgFails /\ UNCHANGED <<up, idx, raised, files>>
         \/ StoreIndex /\ UNCHANGED <<up, idx, raised>>
         \/ BuildTransaction
         \/ Exit
         \/ Start
<1>0. /\ WalletTypes /\ sync \in SyncState
      /\ files \in [idx : Nat, utxos : SUBSET Coin, height : Nat]
  BY Zenon DEF WalletInv, WalletTypes
<1>1. CASE ReadHeight
  <2>1. sync'.held = sync.held
    BY <1>0, <1>1, Zenon DEF ReadHeight, SyncState
  <2> QED
    BY <1>1, <2>1, Zenon DEF ReadHeight, AnnouncementsStay
<1>2. CASE ScanMempool
  <2>1. sync'.held = sync.held
    BY <1>0, <1>2, Zenon DEF ScanMempool, SyncState
  <2> QED
    BY <1>2, <2>1, Zenon DEF ScanMempool, AnnouncementsStay
<1>3. CASE AddUtxos
  <2>1. sync'.held = sync.held
    BY <1>0, <1>3, Zenon DEF AddUtxos, SyncState
  <2> QED
    BY <1>3, <2>1, Zenon DEF AddUtxos, AnnouncementsStay
<1>4. CASE SyncChain
  <2>1. UNCHANGED <<up, idx, raised, files>>
    BY <1>4, Zenon DEF SyncChain
  <2>2. CASE NothingToFetch
    <3>1. sync'.held = sync.held
      BY <1>0, <2>2, Zenon DEF NothingToFetch, SyncState
    <3> QED
      BY <2>1, <3>1, Zenon DEF AnnouncementsStay
  <2>3. ASSUME NEW w, PromoteAndCleanup(w, ScanGenesis)
        PROVE  AnnouncementsStay
    <3>1. sync'.held = sync.held
      BY <1>0, <2>3, Zenon DEF PromoteAndCleanup, SyncState
    <3> QED
      BY <2>1, <3>1, Zenon DEF AnnouncementsStay
  <2> QED
    BY <1>4, <2>1, <2>2, <2>3, Zenon DEF SyncChain, Advance
<1>5. CASE StoreEvents
  <2>1. UNCHANGED <<up, idx, raised>>
    BY <1>5, Zenon DEF StoreEvents
  <2>2. ASSUME NEW u \in sync.found, StoreUtxo(u)
        PROVE  AnnouncementsStay
    <3>1. sync'.held = sync.held /\ files'.idx = files.idx
      BY <1>0, <2>2, Zenon DEF StoreUtxo, SyncState
    <3> QED
      BY <2>1, <3>1, Zenon DEF AnnouncementsStay
  <2>3. CASE StoreHeight
    <3>1. sync'.held = sync.held /\ files'.idx = files.idx
      BY <1>0, <2>3, Zenon DEF StoreHeight, SyncState, SyncIdle
    <3> QED
      BY <2>1, <3>1, Zenon DEF AnnouncementsStay
  <2> QED
    BY <1>5, <2>1, <2>2, <2>3, Zenon DEF StoreEvents
<1>6. CASE Killed \/ InsufficientFunds
  BY <1>6, Zenon DEF Killed, InsufficientFunds
<1>7. CASE \/ NodeBlock \/ Reorganise \/ SelectInputs \/ ChooseCandidates \/ RestoreChunk
           \/ VerifyProofs \/ SubmitTransaction \/ UNCHANGED vvars
  <2>1. UNCHANGED <<up, idx, raised, sync, files>>
    BY <1>7, Zenon DEF NodeBlock, Reorganise, SelectInputs, ChooseCandidates, RestoreChunk,
         VerifyProofs, SubmitTransaction, vvars
  <2> QED
    BY <2>1, Zenon DEF AnnouncementsStay
<1> QED
  BY <1>1, <1>2, <1>3, <1>4, <1>5, <1>6, <1>7, Zenon DEF VNext, SyncStep, SendStep

(* The stored index only grows, and what is announced stays announced, as     *)
(* long as nothing is lost.                                                   *)
LEMMA AnnouncementsKept ==
  ASSUME WalletInv, [VNext]_vvars
  PROVE  /\ AnnouncementsRise'
         /\ files.idx <= files'.idx
         /\ missed' = {} =>
              \A a \in Nat : (Ready(a) => Ready(a)') /\ (Fresh(a) => Fresh(a)')
<1>0. /\ WalletTypes /\ Resting /\ Phases /\ AnnouncementsRise /\ sync \in SyncState
      /\ files \in [idx : Nat, utxos : SUBSET Coin, height : Nat]
  BY Zenon DEF WalletInv, WalletTypes
<1>a. /\ files.idx \in Nat /\ idx \in Nat /\ raised \in Seq(Nat) /\ sync.held \in Seq(Nat)
      /\ files.idx <= files.idx
  BY <1>0 DEF WalletTypes, SyncState
<1>e. Len(<<>>) = 0 /\ 1..0 = {}
  OBVIOUS
<1>1. CASE AnnouncementsStay
  BY <1>0, <1>a, <1>1, Zenon DEF AnnouncementsStay, AnnouncementsRise, Ready, Soon, Fresh
<1>2. CASE DrainPendingEvents
  <2>1. /\ sync.pc = "height" /\ raised' = <<>> /\ UNCHANGED <<up, idx, files>>
        /\ sync' = [sync EXCEPT !.pc = "listed", !.held = raised, !.ids = mempool]
    BY <1>2, Zenon DEF DrainPendingEvents
  <2>2. sync'.held = raised /\ sync.held = <<>>
    BY <1>0, <2>1, Zenon DEF SyncState, Phases
  <2>3. 1..Len(sync.held) = {} /\ 1..Len(raised') = {}
    BY <1>e, <2>1, <2>2, Zenon
  <2>4. AnnouncementsRise'
    BY <1>0, <2>1, <2>2, <2>3, Zenon DEF AnnouncementsRise
  <2>5. \A a \in Nat : (Ready(a) => Ready(a)') /\ (Fresh(a) => Fresh(a)')
    BY <2>1, <2>2, <2>3, Zenon DEF Ready, Soon, Fresh
  <2> QED
    BY <1>a, <2>1, <2>4, <2>5, Zenon
<1>3. CASE ReorgFails /\ UNCHANGED <<up, idx, raised, files>>
  <2>1. sync'.held = <<>> /\ (missed' = {} => sync.held = <<>>)
    BY <1>3, Zenon DEF ReorgFails, SyncIdle
  <2>2. 1..Len(sync'.held) = {}
    BY <1>e, <2>1, Zenon
  <2>3. AnnouncementsRise'
    BY <1>0, <1>3, <2>2, Zenon DEF AnnouncementsRise
  <2>4. missed' = {} => \A a \in Nat : (Ready(a) => Ready(a)') /\ (Fresh(a) => Fresh(a)')
    BY <1>3, <2>1, Zenon DEF Ready, Soon, Fresh
  <2> QED
    BY <1>a, <1>3, <2>3, <2>4, Zenon
<1>4. CASE StoreIndex /\ UNCHANGED <<up, idx, raised>>
  <2>1. /\ sync.held # <<>> /\ files'.idx = Head(sync.held) /\ sync'.held = Tail(sync.held)
    BY <1>0, <1>4, Zenon DEF StoreIndex, SyncState
  <2> DEFINE q == sync.held
             x == files'.idx
             r == sync'.held
  <2>2. /\ 1 \in 1..Len(q) /\ x = q[1] /\ x \in Nat /\ r \in Seq(Nat)
        /\ \A i \in 1..Len(r) : r[i] = q[i + 1] /\ i + 1 \in 1..Len(q) /\ 1 < i + 1
        /\ \A i \in 1..Len(q) : i = 1 \/ (i - 1 \in 1..Len(r) /\ r[i - 1] = q[i])
        /\ \A i, j \in 1..Len(r) : i < j => i + 1 < j + 1
    BY <1>a, <2>1
  <2>3. files.idx < x
    BY <1>0, <2>2, Zenon DEF AnnouncementsRise
  <2> HIDE DEF q, x, r
  <2>4. AnnouncementsRise'
    <3>1. UNCHANGED <<up, idx, raised>>
      BY <1>4, Zenon
    <3>2. \A i \in 1..Len(r) : x < r[i] /\ r[i] <= idx
      BY <1>0, <2>2, Zenon DEF AnnouncementsRise, q
    <3>3. \A i \in 1..Len(raised) : x < raised[i] /\ raised[i] <= idx
      BY <1>0, <2>2, Zenon DEF AnnouncementsRise, q
    <3>4. \A i, j \in 1..Len(r) : i < j => r[i] < r[j]
      BY <1>0, <2>2, Zenon DEF AnnouncementsRise, q
    <3>5. \A i \in 1..Len(r), j \in 1..Len(raised) : r[i] < raised[j]
      BY <1>0, <2>2, Zenon DEF AnnouncementsRise, q
    <3>6. \A i, j \in 1..Len(raised) : i < j => raised[i] < raised[j]
      BY <1>0, Zenon DEF AnnouncementsRise
    <3>7. x <= idx
      BY <1>0, <2>2, Zenon DEF AnnouncementsRise, q
    <3> QED
      BY <1>0, <3>1, <3>2, <3>3, <3>4, <3>5, <3>6, <3>7, Zenon DEF AnnouncementsRise, r, x
  <2>5. \A a \in Nat : (a <= files.idx \/ \E i \in 1..Len(q) : a < q[i])
                       => (a <= x \/ \E i \in 1..Len(r) : a < r[i])
    <3> TAKE a \in Nat
    <3>1. CASE a <= files.idx
      BY <1>a, <2>2, <2>3, <3>1
    <3>2. CASE a < x
      BY <2>2, <3>2
    <3>3. ASSUME NEW i \in 1..Len(q), a < q[i], i # 1
          PROVE  \E k \in 1..Len(r) : a < r[k]
      BY <2>2, <3>3, Zenon
    <3> QED
      BY <2>2, <3>1, <3>2, <3>3, Zenon
  <2>6. \A a \in Nat : (Ready(a) => Ready(a)') /\ (Fresh(a) => Fresh(a)')
    <3>1. \A a \in Nat : Ready(a) => Ready(a)'
      BY <2>5, Zenon DEF Ready, q, r, x
    <3>2. up
      BY <1>0, <2>1 DEF Resting, SyncIdle
    <3> QED
      BY <1>4, <3>1, <3>2, Zenon DEF Fresh, Soon
  <2>7. files.idx <= files'.idx
    BY <1>a, <2>2, <2>3 DEF x
  <2> QED
    BY <2>4, <2>6, <2>7, Zenon
<1>5. CASE BuildTransaction
  <2>1. /\ raised' = Append(raised, idx + 1) /\ idx' = idx + 1
        /\ UNCHANGED <<up, files, sync>> /\ send.pc = "build"
    BY <1>5, Zenon DEF BuildTransaction
  <2>u. up
    BY <1>0, <2>1 DEF Resting, NotSending
  <2> DEFINE q == raised'
             n == Len(raised)
  <2>2. /\ n \in Nat /\ n + 1 \in 1..(n + 1) /\ Len(q) = n + 1 /\ q[n + 1] = idx + 1
        /\ \A i \in 1..n : q[i] = raised[i] /\ raised[i] \in Nat /\ i \in 1..(n + 1)
        /\ \A i \in 1..(n + 1) : i \in 1..n \/ i = n + 1
        /\ \A i, j \in 1..(n + 1) : i < j => i \in 1..n
    BY <1>a, <2>1
  <2>3. /\ files.idx < idx + 1 /\ idx + 1 <= idx + 1 /\ idx + 1 \in Nat \ {0}
        /\ \A x \in Nat : x <= idx => x < idx + 1 /\ x <= idx + 1
        /\ \A x \in Nat : x < idx => x < idx + 1
    <3>1. files.idx <= idx
      BY <1>0, <1>a, <2>u, Zenon DEF AnnouncementsRise
    <3> QED
      BY <1>a, <3>1
  <2> HIDE DEF q, n
  <2>4. AnnouncementsRise'
    <3>1. \A i \in 1..(n + 1) : files.idx < q[i] /\ q[i] <= idx + 1
      BY <1>0, <2>2, <2>3, Zenon DEF AnnouncementsRise, n
    <3>2. ASSUME NEW i \in 1..(n + 1), NEW j \in 1..(n + 1), i < j
          PROVE  q[i] < q[j]
      <4>1. i \in 1..n /\ q[i] = raised[i] /\ raised[i] \in Nat /\ (j \in 1..n \/ j = n + 1)
        BY <2>2, <3>2, Zenon
      <4>2. raised[i] <= idx /\ (j \in 1..n => raised[i] < raised[j])
        BY <1>0, <3>2, <4>1, Zenon DEF AnnouncementsRise, n
      <4>3. CASE j \in 1..n
        BY <2>2, <4>1, <4>2, <4>3, Zenon
      <4>4. CASE j = n + 1
        BY <2>2, <2>3, <4>1, <4>2, <4>4, Zenon
      <4> QED
        BY <4>1, <4>3, <4>4, Zenon
    <3>3. \A i \in 1..Len(sync.held) :
            files.idx < sync.held[i] /\ sync.held[i] <= idx + 1 /\ sync.held[i] < idx + 1
      <4>1. \A i \in 1..Len(sync.held) : sync.held[i] \in Nat
        BY <1>a
      <4> QED
        BY <1>0, <2>3, <4>1, Zenon DEF AnnouncementsRise
    <3>4. \A i \in 1..Len(sync.held), j \in 1..(n + 1) : sync.held[i] < q[j]
      BY <1>0, <2>2, <3>3, Zenon DEF AnnouncementsRise, n
    <3> QED
      BY <1>0, <2>1, <2>2, <2>3, <3>1, <3>2, <3>3, <3>4, Zenon DEF AnnouncementsRise, q
  <2>5. \A a \in Nat : (Ready(a) => Ready(a)') /\ (Fresh(a) => Fresh(a)')
    <3>1. \A a \in Nat : Ready(a) => Ready(a)'
      BY <2>1, Zenon DEF Ready
    <3>2. \A a \in Nat : Soon(a) => Soon(a)'
      BY <2>2, <3>1, Zenon DEF Soon, n, q
    <3> QED
      BY <2>1, <2>u, <2>3, <3>1, <3>2, Zenon DEF Fresh
  <2> QED
    BY <1>a, <2>1, <2>4, <2>5, Zenon
<1>6. CASE Exit
  <2>1. /\ ~up' /\ raised' = <<>> /\ UNCHANGED files
        /\ missed' = {} => raised \o sync.held = <<>>
    BY <1>6, Zenon DEF Exit
  <2>2. sync'.held = <<>>
    BY <1>6, Zenon DEF Exit, SyncIdle
  <2>3. missed' = {} => raised = <<>> /\ sync.held = <<>>
    BY <1>a, <2>1
  <2>4. 1..Len(raised') = {} /\ 1..Len(sync'.held) = {}
    BY <1>e, <2>1, <2>2, Zenon
  <2>5. AnnouncementsRise'
    BY <2>1, <2>4, Zenon DEF AnnouncementsRise
  <2>6. missed' = {} => \A a \in Nat : (Ready(a) => Ready(a)') /\ (Fresh(a) => Fresh(a)')
    BY <1>e, <2>1, <2>3, Zenon DEF Ready, Soon, Fresh
  <2> QED
    BY <1>a, <2>1, <2>5, <2>6, Zenon
<1>7. CASE Start
  <2>1. /\ ~up /\ up' /\ idx' = files.idx + 1 /\ UNCHANGED <<raised, sync, files>>
    BY <1>7, Zenon DEF Start
  <2>2. raised = <<>> /\ sync.held = <<>>
    BY <1>0, <2>1 DEF Resting, SyncIdle
  <2>3. 1..Len(raised') = {} /\ 1..Len(sync'.held) = {}
    BY <1>e, <2>1, <2>2, Zenon
  <2>4. /\ idx' \in Nat \ {0} /\ files.idx <= idx'
        /\ \A a \in Nat : a <= files.idx => a < idx'
    BY <1>a, <2>1
  <2>5. AnnouncementsRise'
    BY <2>1, <2>3, <2>4, Zenon DEF AnnouncementsRise
  <2>6. \A a \in Nat : (Ready(a) => Ready(a)') /\ (Fresh(a) => Fresh(a)')
    BY <2>1, <2>4, Zenon DEF Ready, Soon, Fresh
  <2> QED
    BY <1>a, <2>1, <2>5, <2>6, Zenon
<1> QED
  BY <1>1, <1>2, <1>3, <1>4, <1>5, <1>6, <1>7, AnnouncementsMove, Zenon

(* Transactions pay change to addresses that are announced.                   *)
LEMMA ChangeIsAnnounced ==
  ASSUME WalletInv, [VNext]_vvars, missed' = {}
  PROVE  /\ chain' \in Seq(Blocks(Known'))
         /\ mempool' \subseteq Known'
         /\ send'.pc = "prove" => Fresh(send.change)'
<1>0. /\ WalletTypes /\ Resting /\ AnnouncementsRise /\ AddressesAreAnnounced
      /\ send \in SendState /\ missed = {}
  BY LossesStay, Zenon DEF WalletInv, WalletTypes
<1>1. PICK T : T = Known'
  BY Zenon
<1>4. \A a \in Nat : Fresh(a) => Fresh(a)'
  BY AnnouncementsKept, Zenon DEF Fresh, Soon, Ready
<1>2. Known \subseteq T
  <2>1. \A t \in WalletTx : t.change \in Nat
    BY Zenon DEF WalletTx
  <2> QED
    BY <1>1, <1>4, <2>1, Zenon DEF Known, Fresh, Soon, Ready
<1>3. chain \in Seq(Blocks(T)) /\ mempool \subseteq T
  <2>1. Blocks(Known) \subseteq Blocks(T)
    BY <1>2, Zenon DEF Blocks
  <2>2. chain \in Seq(Blocks(Known)) /\ mempool \subseteq Known
    BY <1>0, Zenon DEF AddressesAreAnnounced
  <2> QED
    BY <1>2, <2>1, <2>2
<1>5. chain' \in Seq(Blocks(T)) /\ mempool' \subseteq T
  <2>1. CASE NodeBlock \/ Reorganise
    BY <1>3, <2>1, NodeStep, Zenon
  <2>2. CASE SubmitTransaction
    <3> DEFINE t == [ins |-> send.ins, change |-> send.change]
    <3>1. t \in WalletTx /\ t.change = send.change /\ send.change \in Nat
      BY <1>0, Zenon DEF SendState, WalletTx
    <3>2. send.pc = "prove" /\ UNCHANGED chain
      BY <2>2, Zenon DEF SubmitTransaction
    <3>3. Fresh(send.change)
      BY <1>0, <3>2, Zenon DEF AddressesAreAnnounced
    <3>4. t \in Known
      BY <3>1, <3>3, Zenon DEF Known
    <3>5. mempool' \subseteq mempool \cup {t}
      BY <2>2, Zenon DEF SubmitTransaction
    <3> HIDE DEF t
    <3> QED
      BY <1>2, <1>3, <3>2, <3>4, <3>5, Zenon
  <2>3. CASE UNCHANGED <<chain, mempool>>
    BY <1>3, <2>3, Zenon
  <2>4. \/ NodeBlock \/ Reorganise \/ SubmitTransaction \/ UNCHANGED <<chain, mempool>>
    BY Zenon DEF VNext, SyncStep, ReadHeight, DrainPendingEvents, ScanMempool, SyncChain,
       AddUtxos, StoreEvents, SelectInputs, SendStep, ChooseCandidates, RestoreChunk,
       VerifyProofs, BuildTransaction, Killed, InsufficientFunds, Exit, Start, node, vvars
  <2> QED
    BY <2>1, <2>2, <2>3, <2>4, Zenon
<1>6. ASSUME send'.pc = "prove"
      PROVE  Fresh(send.change)'
  <2>1. CASE send' = send
    <3>1. Fresh(send.change) /\ send.change \in Nat
      BY <1>0, <1>6, <2>1, Zenon DEF AddressesAreAnnounced, SendState
    <3> QED
      BY <1>4, <2>1, <3>1, Zenon DEF Fresh, Soon, Ready
  <2>2. CASE BuildTransaction
    <3>1. /\ raised' = Append(raised, idx + 1) /\ idx' = idx + 1 /\ up' = up
          /\ send.pc = "build" /\ send' = [send EXCEPT !.pc = "prove", !.change = idx]
      BY <2>2, Zenon DEF BuildTransaction
    <3>2. up /\ send'.change = idx
      BY <1>0, <3>1 DEF Resting, NotSending, SendState
    <3>3. idx \in Nat /\ raised \in Seq(Nat)
      BY <1>0, Zenon DEF WalletTypes
    <3>4. idx < idx' /\ Len(raised') \in 1..Len(raised') /\ raised'[Len(raised')] = idx + 1
          /\ idx < idx + 1
      BY <3>1, <3>3
    <3> QED
      BY <3>1, <3>2, <3>4, Zenon DEF Fresh, Soon
  <2>3. \/ send' = send \/ BuildTransaction \/ send'.pc # "prove"
    <3>1. CASE SelectInputs
      <4>1. PICK want, e : send' = [NotSending EXCEPT !.pc = "choose", !.want = want,
                                                      !.exclude = e]
        BY <3>1, Zenon DEF SelectInputs
      <4> QED
        BY <4>1, Zenon DEF NotSending
    <3>2. CASE ChooseCandidates
      <4>1. PICK c : send' = [send EXCEPT !.pc = "restore", !.todo = c, !.got = <<>>]
        BY <3>2, Zenon DEF ChooseCandidates
      <4> QED
        BY <1>0, <4>1, Zenon DEF SendState
    <3>3. CASE RestoreChunk
      <4>1. PICK td, g : send' = [send EXCEPT !.todo = td, !.got = g]
        BY <3>3, Zenon DEF RestoreChunk
      <4>2. send.pc = "restore"
        BY <3>3, Zenon DEF RestoreChunk
      <4> QED
        BY <1>0, <4>1, <4>2, Zenon DEF SendState
    <3>4. CASE VerifyProofs
      <4>1. send.pc = "restore"
        BY <3>4, Zenon DEF VerifyProofs
      <4>2. CASE RestoreAgain
        BY <1>0, <4>1, <4>2, Zenon DEF RestoreAgain, SendState
      <4>3. CASE EvictAndRetry
        <5>1. send' = [send EXCEPT !.pc = "choose"]
          BY <4>3, Zenon DEF EvictAndRetry
        <5> QED
          BY <1>0, <5>1, Zenon DEF SendState
      <4>4. CASE Selected
        BY <4>4, Zenon DEF Selected, NotSending
      <4> QED
        BY <3>4, <4>2, <4>3, <4>4, Zenon DEF VerifyProofs
    <3>5. CASE SubmitTransaction \/ Exit
      <4>1. send' = NotSending
        BY <3>5, Zenon DEF SubmitTransaction, Exit
      <4> QED
        BY <4>1, Zenon DEF NotSending
    <3> QED
      BY <3>1, <3>2, <3>3, <3>4, <3>5, Zenon DEF VNext, SyncStep, NodeBlock, Reorganise, ReadHeight, DrainPendingEvents,
         ScanMempool, SyncChain, AddUtxos, StoreEvents, SendStep, Killed, InsufficientFunds,
         Start, vvars
  <2> QED
    BY <1>6, <2>1, <2>2, <2>3, Zenon
<1> QED
  BY <1>1, <1>5, <1>6, Zenon

(* The outputs that a round may promote pay to addresses whose announcement   *)
(* the round has taken.                                                       *)
LEMMA ListedAreReady ==
  ASSUME WalletInv, [VNext]_vvars, missed' = {}, sync'.pc \in {"listed", "scanned"},
         NEW h \in 1..Len(chain'), h + Depth <= sync'.nh, chain'[h].tx # NoTx
  PROVE  Ready(chain[h].tx.change)'
<1>0. /\ WalletTypes /\ Resting /\ Phases /\ AddressesAreAnnounced /\ AnnouncementsRise
      /\ missed = {} /\ sync \in SyncState /\ chain \in Seq(WalletBlock)
      /\ chain' \in Seq(WalletBlock)
  BY LossesStay, TypesKept, Zenon DEF WalletInv, WalletTypes
<1>1. ASSUME h \in 1..Len(chain), chain[h].tx # NoTx
      PROVE  chain[h].tx.change \in Nat /\ Fresh(chain[h].tx.change)
  <2>1. chain \in Seq(Blocks(Known))
    BY <1>0, Zenon DEF AddressesAreAnnounced
  <2>2. chain[h].tx \in Known
    <3>1. chain[h] \in Blocks(Known)
      BY <1>1, <2>1
    <3> QED
      BY <1>1, <3>1, Zenon DEF Blocks
  <2>3. \A t \in Known : t.change \in Nat /\ Fresh(t.change)
    BY Zenon DEF Known, WalletTx
  <2> QED
    BY <2>2, <2>3, Zenon
<1>2. ASSUME NEW a \in Nat, Ready(a)
      PROVE  Ready(a)'
  BY <1>2, AnnouncementsKept, Zenon DEF Fresh, Soon, Ready
<1>3. CASE DrainPendingEvents
  <2>1. /\ sync.pc = "height" /\ UNCHANGED <<chain, files, up>>
        /\ sync' = [sync EXCEPT !.pc = "listed", !.held = raised, !.ids = mempool]
    BY <1>3, Zenon DEF DrainPendingEvents, node
  <2>2. sync'.held = raised /\ sync.held = <<>> /\ up
    BY <1>0, <2>1, ProcessRuns, Zenon DEF SyncState, Phases
  <2>3. 1..Len(sync.held) = {}
    BY <2>2
  <2>4. Fresh(chain[h].tx.change)
    BY <1>1, <2>1, Zenon
  <2> QED
    BY <2>1, <2>2, <2>3, <2>4, Zenon DEF Fresh, Soon, Ready
<1>4. ASSUME sync.pc \in {"listed", "scanned"}, h \in 1..Len(chain), chain'[h] = chain[h],
             sync'.nh = sync.nh
      PROVE  Ready(chain[h].tx.change)'
  <2>1. Ready(chain[h].tx.change) /\ chain[h].tx.change \in Nat
    BY <1>0, <1>1, <1>4, Zenon DEF AddressesAreAnnounced
  <2>2. PICK a \in Nat : a = chain[h].tx.change
    BY <2>1, Zenon
  <2>3. Ready(a)'
    BY <1>2, <2>1, <2>2, Zenon
  <2>4. a = chain'[h].tx.change
    BY <1>4, <2>2, Zenon
  <2> QED
    BY <2>3, <2>4, Zenon DEF Ready
<1>5. CASE NodeBlock \/ Reorganise
  <2>1. sync' = sync
    BY <1>5, Zenon DEF NodeBlock, Reorganise
  <2>2. sync.nh <= Len(chain)
    BY <1>0, <2>1, Zenon DEF Phases
  <2>3. ChainGrows
    BY <1>0, ChainSteps, Zenon
  <2>4. h \in 1..Len(chain) /\ h + Depth <= Len(chain)
    BY <1>0, <2>1, <2>2, WalletAssumption DEF SyncState
  <2> QED
    BY <1>4, <2>1, <2>3, <2>4, Zenon DEF ChainGrows
<1>6. CASE UNCHANGED <<sync, chain>>
  BY <1>4, <1>6, Zenon
<1>7. CASE ScanMempool
  <2>1. sync.pc = "listed" /\ sync'.nh = sync.nh /\ chain' = chain
    BY <1>0, <1>7, Zenon DEF ScanMempool, SyncState, node
  <2> QED
    BY <1>4, <2>1, Zenon
<1>8. \/ NodeBlock \/ Reorganise \/ DrainPendingEvents \/ ScanMempool \/ UNCHANGED <<sync, chain>>
      \/ sync'.pc \notin {"listed", "scanned"}
  <2>1. CASE \/ ReadHeight \/ SyncChain \/ AddUtxos \/ Exit
    <3>1. CASE ReadHeight
      BY <1>0, <3>1, Zenon DEF ReadHeight, SyncState
    <3>2. CASE SyncChain
      <4>1. CASE NothingToFetch
        BY <1>0, <4>1, Zenon DEF NothingToFetch, SyncState
      <4>2. CASE ReorgFails
        BY <4>2, Zenon DEF ReorgFails, SyncIdle
      <4>3. ASSUME NEW w, PromoteAndCleanup(w, ScanGenesis)
            PROVE  sync'.pc = "adding"
        <5>1. PICK f : sync' = [sync EXCEPT !.pc = "adding", !.nh = 0, !.found = f]
          BY <4>3, Zenon DEF PromoteAndCleanup
        <5> QED
          BY <1>0, <5>1, Zenon DEF SyncState
      <4> QED
        BY <3>2, <4>1, <4>2, <4>3, Zenon DEF SyncChain, Advance
    <3>3. CASE AddUtxos
      BY <1>0, <3>3, Zenon DEF AddUtxos, SyncState
    <3>4. CASE Exit
      BY <3>4, Zenon DEF Exit, SyncIdle
    <3> QED
      BY <2>1, <3>1, <3>2, <3>3, <3>4, Zenon
  <2>2. CASE StoreEvents
    <3>1. sync.pc = "storing"
      BY <2>2, Zenon DEF StoreEvents
    <3>2. CASE StoreIndex
      BY <1>0, <3>1, <3>2, Zenon DEF StoreIndex, SyncState
    <3>3. ASSUME NEW u \in sync.found, StoreUtxo(u) PROVE sync'.pc = "storing"
      BY <1>0, <3>1, <3>3, Zenon DEF StoreUtxo, SyncState
    <3>4. CASE StoreHeight
      BY <3>4, Zenon DEF StoreHeight, SyncIdle
    <3> QED
      BY <2>2, <3>2, <3>3, <3>4, Zenon DEF StoreEvents
  <2> QED
    BY <2>1, <2>2, Zenon DEF VNext, SyncStep, SelectInputs, SendStep, ChooseCandidates,
       RestoreChunk, VerifyProofs, BuildTransaction, SubmitTransaction, Killed,
       InsufficientFunds, Start, node, vvars
<1> QED
  BY <1>3, <1>5, <1>6, <1>7, <1>8, Zenon

(* A step that does not move the scanner loses no output: what was found is   *)
(* still in hand or stored, what was known is still known, and the height is  *)
(* stored only when nothing found is left.                                    *)
Carries ==
    /\ UNCHANGED <<up, height, window, missed>>
    /\ pool \cup evicted \cup sync.found \subseteq pool' \cup evicted' \cup sync'.found
    /\ files.utxos \cup sync.found \subseteq files'.utxos \cup sync'.found
    /\ files.utxos \subseteq files'.utxos
    /\ sync'.found \subseteq sync.found
    /\ \/ files'.utxos = files.utxos
       \/ files'.utxos \subseteq files.utxos \cup sync.found /\ sync.held = <<>>
    /\ \/ files'.height = files.height
       \/ files'.height = height /\ sync.found = {} /\ up

(* How a step changes what the pool, the window and the files hold.           *)
LEMMA OutputsMove ==
  ASSUME WalletInv, [VNext]_vvars
  PROVE  \/ Carries
         \/ /\ ReorgFails
            /\ UNCHANGED <<chain, up, pool, evicted, files>> /\ sync.found = {}
         \/ /\ UNCHANGED <<chain, missed, files, idx, up, pool, evicted>> /\ up
            /\ sync.nh <= Len(chain) /\ sync.pc = "scanned" /\ sync.found = {}
            /\ \E w : Batched(w) /\ PromoteAndCleanup(w, ScanGenesis)
         \/ Exit
         \/ Start
<1>0. /\ WalletTypes /\ Resting /\ Phases /\ sync \in SyncState /\ send \in SendState
      /\ files \in [idx : Nat, utxos : SUBSET Coin, height : Nat]
  BY Zenon DEF WalletInv, WalletTypes
<1>1. CASE SyncChain
  <2>1. sync.pc = "scanned" /\ sync.nh <= Len(chain) /\ sync.found = {}
    BY <1>0, <1>1, Zenon DEF SyncChain, Phases
  <2>2. up
    BY <1>0, <2>1, ProcessRuns, Zenon
  <2>3. UNCHANGED <<chain, up, idx, pool, evicted, files>>
    BY <1>1, Zenon DEF SyncChain, node
  <2>4. CASE NothingToFetch
    <3>1. sync'.found = sync.found
      BY <1>0, <2>4, Zenon DEF NothingToFetch, SyncState
    <3> QED
      BY <2>3, <2>4, <3>1, Zenon DEF NothingToFetch, scanner, Carries
  <2>5. CASE Advance
    BY <2>1, <2>2, <2>3, <2>5, AdvanceStep, Zenon DEF WalletInv
  <2> QED
    BY <1>1, <2>4, <2>5, Zenon DEF SyncChain
<1>2. CASE UNCHANGED <<up, height, window, missed, pool, evicted, sync, files>>
  BY <1>2, Zenon DEF Carries
<1>3. CASE \/ NodeBlock \/ Reorganise \/ SelectInputs \/ ChooseCandidates \/ RestoreChunk
           \/ BuildTransaction \/ SubmitTransaction \/ UNCHANGED vvars
  BY <1>2, <1>3, Zenon DEF NodeBlock, Reorganise, SelectInputs, ChooseCandidates, RestoreChunk,
       BuildTransaction, SubmitTransaction, scanner, vvars
<1>4. ASSUME UNCHANGED <<up, height, window, missed, pool, evicted, files>>,
             sync'.found = sync.found
      PROVE  Carries
  BY <1>4, Zenon DEF Carries
<1>5. CASE ReadHeight
  <2>1. sync'.found = sync.found
    BY <1>0, <1>5, Zenon DEF ReadHeight, SyncState
  <2> QED
    BY <1>4, <1>5, <2>1, Zenon DEF ReadHeight, scanner
<1>6. CASE DrainPendingEvents
  <2>1. sync'.found = sync.found
    BY <1>0, <1>6, Zenon DEF DrainPendingEvents, SyncState
  <2> QED
    BY <1>4, <1>6, <2>1, Zenon DEF DrainPendingEvents, scanner
<1>7. CASE ScanMempool
  <2>1. sync'.found = sync.found
    BY <1>0, <1>7, Zenon DEF ScanMempool, SyncState
  <2> QED
    BY <1>4, <1>7, <2>1, Zenon DEF ScanMempool, scanner
<1>8. CASE AddUtxos
  <2>1. sync'.found = sync.found
    BY <1>0, <1>8, Zenon DEF AddUtxos, SyncState
  <2> QED
    BY <1>8, <2>1, Zenon DEF AddUtxos, scanner, Carries
<1>9. CASE StoreEvents
  <2>1. sync.pc = "storing" /\ UNCHANGED <<up, height, window, missed, pool, evicted>>
    BY <1>9, Zenon DEF StoreEvents, scanner
  <2>2. up /\ sync.found \subseteq pool \cup evicted
    BY <1>0, <2>1, ProcessRuns, Zenon DEF Phases
  <2>3. CASE StoreIndex
    <3>1. /\ sync'.found = sync.found /\ files'.utxos = files.utxos
          /\ files'.height = files.height
      BY <1>0, <2>3, Zenon DEF StoreIndex, SyncState
    <3> QED
      BY <2>1, <3>1, Zenon DEF Carries
  <2>4. ASSUME NEW u \in sync.found, StoreUtxo(u)
        PROVE  Carries
    <3>1. /\ sync'.found = sync.found \ {u} /\ files'.utxos = files.utxos \cup {u}
          /\ files'.height = files.height /\ sync.held = <<>>
      BY <1>0, <2>4, Zenon DEF StoreUtxo, SyncState
    <3> QED
      BY <2>1, <2>2, <2>4, <3>1, Zenon DEF Carries
  <2>5. CASE StoreHeight
    <3>1. /\ sync'.found = {} /\ sync.found = {} /\ files'.utxos = files.utxos
          /\ files'.height = height
      BY <1>0, <2>5, Zenon DEF StoreHeight, SyncIdle
    <3> QED
      BY <2>1, <2>2, <3>1, Zenon DEF Carries
  <2> QED
    BY <1>9, <2>3, <2>4, <2>5, Zenon DEF StoreEvents
<1>10. CASE VerifyProofs
  <2>1. UNCHANGED <<up, height, window, missed, sync, files>>
    BY <1>10, Zenon DEF VerifyProofs, scanner
  <2>2. pool \cup evicted \subseteq pool' \cup evicted'
    BY <1>10, Zenon DEF VerifyProofs, RestoreAgain, EvictAndRetry, Selected
  <2> QED
    BY <2>1, <2>2, Zenon DEF Carries
<1>11. CASE Killed \/ InsufficientFunds
  BY <1>11, Zenon DEF Killed, InsufficientFunds
<1> QED
  BY <1>1, <1>3, <1>5, <1>6, <1>7, <1>8, <1>9, <1>10, <1>11, Zenon
     DEF VNext, SyncStep, SendStep

(* The outputs a sync found are of addresses that are stored with or before   *)
(* them.                                                                      *)
LEMMA FoundAreReady ==
  ASSUME WalletInv, [VNext]_vvars, missed' = {}
  PROVE  /\ \A u \in sync'.found : Ready(u.addr)'
         /\ \A u \in files'.utxos : u.addr <= files'.idx
<1>0. /\ WalletTypes /\ AddressesAreAnnounced /\ missed = {} /\ sync \in SyncState
      /\ files \in [idx : Nat, utxos : SUBSET Coin, height : Nat]
      /\ files' \in [idx : Nat, utxos : SUBSET Coin, height : Nat]
  BY LossesStay, TypesKept, Zenon DEF WalletInv, WalletTypes
<1>a. /\ files.idx \in Nat /\ files'.idx \in Nat
      /\ sync.found \subseteq Coin /\ files.utxos \subseteq Coin
      /\ \A u \in Coin : u.addr \in Nat
      /\ Len(<<>>) = 0 /\ 1..0 = {}
  BY <1>0 DEF SyncState, Coin
<1>1. ASSUME NEW a \in Nat, Ready(a)
      PROVE  Ready(a)'
  BY <1>1, AnnouncementsKept, Zenon
<1>2. ASSUME NEW a \in Nat, a <= files.idx
      PROVE  a <= files'.idx
  <2>1. files.idx <= files'.idx
    BY AnnouncementsKept, Zenon
  <2> QED
    BY <1>a, <1>2, <2>1
<1>3. /\ \A u \in sync.found : u.addr \in Nat /\ Ready(u.addr)
      /\ \A u \in files.utxos : u.addr \in Nat /\ u.addr <= files.idx
  BY <1>0, <1>a, Zenon DEF AddressesAreAnnounced
<1>4. CASE Carries
  <2>1. \A u \in sync'.found : Ready(u.addr)'
    BY <1>1, <1>3, <1>4, Zenon DEF Carries
  <2>2. CASE files'.utxos = files.utxos
    BY <1>2, <1>3, <2>1, <2>2, Zenon
  <2>3. CASE files'.utxos \subseteq files.utxos \cup sync.found /\ sync.held = <<>>
    <3>1. \A u \in sync.found : u.addr <= files.idx
      BY <1>a, <1>3, <2>3, Zenon DEF Ready
    <3> QED
      BY <1>2, <1>3, <2>1, <2>3, <3>1, Zenon
  <2> QED
    BY <1>4, <2>2, <2>3, Zenon DEF Carries
<1>5. CASE \/ ReorgFails /\ UNCHANGED files
           \/ Exit
  <2>1. sync' = SyncIdle /\ UNCHANGED files
    BY <1>5, Zenon DEF ReorgFails, Exit
  <2>2. sync'.found = {}
    BY <2>1, Zenon DEF SyncIdle
  <2> QED
    BY <1>3, <2>1, <2>2, Zenon
<1>6. CASE Start
  <2>1. UNCHANGED <<files, sync>>
    BY <1>6, Zenon DEF Start
  <2> QED
    BY <1>1, <1>3, <2>1, Zenon
<1>7. ASSUME UNCHANGED <<chain, files>>, sync.nh <= Len(chain), sync.pc = "scanned",
             NEW w, Batched(w), PromoteAndCleanup(w, ScanGenesis)
      PROVE  /\ \A u \in sync'.found : Ready(u.addr)'
             /\ \A u \in files'.utxos : u.addr <= files'.idx
  <2> DEFINE n == Promoted(w)
  <2>0. ScanGenesis \in SUBSET Coin
    BY GenesisCoins, Zenon
  <2>1. /\ n \in 0..Len(w) /\ height' = height + n /\ sync'.held = sync.held
        /\ n = 0 \/ height' + Depth = height + Len(w)
        /\ sync'.found = ScanGenesis \cup UNION {w[i].utxos : i \in 1..n}
    BY <1>0, <1>7, <2>0, PromoteStep
  <2>2. /\ height \in Nat /\ Len(w) \in Nat /\ sync.nh \in Nat /\ Depth \in Nat
        /\ Len(chain) \in Nat /\ height + Len(w) <= sync.nh /\ sync.nh <= Len(chain)
        /\ chain \in Seq(WalletBlock)
    <3>1. height \in Nat /\ sync.nh \in Nat /\ chain \in Seq(WalletBlock)
      BY <1>0, Zenon DEF WalletTypes, SyncState
    <3>2. w \in Seq(WindowEntry) /\ height + Len(w) <= sync.nh /\ sync.nh <= Len(chain)
      BY <1>7, Zenon DEF Batched
    <3> QED
      BY <3>1, <3>2, WalletAssumption
  <2> HIDE DEF n
  <2>3. ASSUME NEW i \in 1..n, NEW u \in w[i].utxos
        PROVE  Ready(u.addr)
    <3> DEFINE h == height + i
    <3>1. h \in 1..Len(chain) /\ h \in 0..Len(chain) /\ h + Depth <= sync.nh /\ i \in 1..Len(w)
      <4>1. /\ n \in 0..Len(w) /\ height' = height + n /\ (n = 0 \/ height' + Depth = height + Len(w))
            /\ height \in Nat /\ Len(w) \in Nat /\ sync.nh \in Nat /\ Depth \in Nat
            /\ Len(chain) \in Nat /\ height + Len(w) <= sync.nh /\ sync.nh <= Len(chain)
        BY <2>1, <2>2, Zenon
      <4> QED
        BY <4>1
    <3> HIDE DEF h
    <3>2. w[i].digest = Digest(chain, h) /\ u \in OutputsAt(w[i].digest, h)
      BY <1>7, <3>1, Zenon DEF Batched, ScannedAt, h
    <3>3. u \in OutputsAt(chain, h)
      BY <2>2, <3>1, <3>2, DigestBasics, Zenon
    <3>4. u.addr = 0 \/ (chain[h].tx # NoTx /\ u.addr = chain[h].tx.change)
      BY <2>2, <3>1, <3>3, OutputsAreCoins, Zenon
    <3>5. CASE u.addr = 0
      BY <1>a, <3>5 DEF Ready
    <3>6. CASE chain[h].tx # NoTx /\ u.addr = chain[h].tx.change
      <4>1. Ready(chain[h].tx.change)
        BY <1>0, <1>7, <3>1, <3>6, Zenon DEF AddressesAreAnnounced
      <4> QED
        BY <3>6, <4>1, Zenon
    <3> QED
      BY <3>4, <3>5, <3>6, Zenon
  <2>4. \A u \in ScanGenesis : Ready(u.addr)
    <3>1. Ready(0)
      BY <1>a DEF Ready
    <3> QED
      BY <3>1, GenesisCoins, Zenon
  <2>5. \A u \in sync'.found : Ready(u.addr)
    BY <2>1, <2>3, <2>4, Zenon
  <2>6. \A u \in sync'.found : Ready(u.addr)'
    BY <1>7, <2>1, <2>5, Zenon DEF Ready
  <2> QED
    BY <1>3, <1>7, <2>6, Zenon
<1> QED
  BY <1>4, <1>5, <1>6, <1>7, OutputsMove, Zenon

(* Every step keeps the addresses in use announced.                           *)
LEMMA AddressesKept ==
  ASSUME WalletInv, [VNext]_vvars
  PROVE  AddressesAreAnnounced'
<1> SUFFICES ASSUME missed' = {}
             PROVE  AddressesAreAnnounced'
  BY Zenon DEF AddressesAreAnnounced
<1>1. sync'.pc \in {"listed", "scanned"} =>
         \A h \in 1..Len(chain') :
            (h + Depth <= sync'.nh /\ chain'[h].tx # NoTx) => Ready(chain[h].tx.change)'
  BY ListedAreReady, Zenon
<1> QED
  BY <1>1, ChangeIsAnnounced, FoundAreReady, Zenon DEF AddressesAreAnnounced

(* What is buried by the confirmation depth is not reorganised.               *)
LEMMA BuriedOutputsStay ==
  ASSUME WalletInv, [VNext]_vvars, NEW b \in Nat, b = 0 \/ b + Depth <= Len(chain),
         NEW h \in 0..b
  PROVE  OutputsAt(chain', h) = OutputsAt(chain, h)
<1>0. chain \in Seq(WalletBlock) /\ chain' \in Seq(WalletBlock) /\ ChainGrows
  BY TypesKept, ChainSteps, Zenon DEF WalletInv, WalletTypes
<1>1. \A i \in 1..h : i \in 1..Len(chain) /\ i + Depth <= Len(chain)
  BY <1>0, WalletAssumption
<1>2. \A i \in 1..h : chain'[i] = chain[i]
  BY <1>0, <1>1, Zenon DEF ChainGrows
<1>3. h \in Nat
  OBVIOUS
<1> QED
  BY <1>0, <1>2, <1>3, OutputsAreLocal, Zenon

(* The outputs that a batch promotes are in hand.                             *)
LEMMA PromotedAreFound ==
  ASSUME WalletInv, sync.nh <= Len(chain),
         NEW w, Batched(w), PromoteAndCleanup(w, ScanGenesis),
         NEW h \in 0..height', NEW u \in OutputsAt(chain, h)
  PROVE  (h \in 0..height /\ TipHeight # 0) \/ u \in sync'.found \/ ~IsTracked(u)
<1> DEFINE n == Promoted(w)
<1>0. WalletTypes /\ ScanGenesis \in SUBSET Coin
  BY GenesisCoins, Zenon DEF WalletInv
<1>1. /\ n \in 0..Len(w) /\ height' = height + n
      /\ sync'.found = ScanGenesis \cup UNION {w[i].utxos : i \in 1..n}
  BY <1>0, PromoteStep
<1>2. /\ height \in Nat /\ Len(w) \in Nat /\ Len(window) \in Nat /\ sync.nh \in Nat
      /\ Len(chain) \in Nat /\ height + Len(w) <= sync.nh /\ chain \in Seq(WalletBlock)
  BY <1>0 DEF Batched, WalletTypes, SyncState
<1> HIDE DEF n
<1>3. CASE h \in 0..height
  <2> SUFFICES ASSUME TipHeight = 0
               PROVE  u \in sync'.found
    BY <1>3, Zenon
  <2>1. h = 0
    BY <1>2, <1>3 DEF TipHeight
  <2>2. u \in Premine
    BY <2>1, Zenon DEF OutputsAt
  <2> QED
    BY <1>1, <2>2, GenesisCoins, Zenon
<1>4. CASE h \notin 0..height
  <2>1. PICK i \in 1..n : h = height + i
    <3>1. h - height \in 1..n /\ h = height + (h - height)
      BY <1>1, <1>2, <1>4
    <3> QED
      BY <3>1, Zenon
  <2>2. i \in 1..Len(w) /\ h \in 0..Len(chain)
    BY <1>1, <1>2, <2>1
  <2>3. w[i].digest = Digest(chain, h) /\ ScannedAt(w[i], h)
    BY <2>1, <2>2, Zenon DEF Batched
  <2>4. u \in OutputsAt(w[i].digest, h)
    BY <1>2, <2>2, <2>3, DigestBasics, Zenon
  <2>5. u \in w[i].utxos \/ ~IsTracked(u)
    BY <2>3, <2>4, Zenon DEF ScannedAt
  <2> QED
    BY <1>1, <2>1, <2>5, Zenon
<1> QED
  BY <1>3, <1>4, Zenon

(* Every step keeps the confirmed outputs, in memory and in the files.        *)
LEMMA OutputsKept ==
  ASSUME WalletInv, [VNext]_vvars
  PROVE  ConfirmedOutputsAreKept' /\ ConfirmedOutputsAreStored' /\ DiskCoversHeight'
<1>0. /\ WalletTypes /\ Resting /\ Buried /\ ConfirmedOutputsAreKept
      /\ ConfirmedOutputsAreStored /\ DiskCoversHeight
      /\ files \in [idx : Nat, utxos : SUBSET Coin, height : Nat]
  BY Zenon DEF WalletInv, WalletTypes
<1>1. height \in Nat /\ files.height \in Nat /\ Len(window) \in Nat
  BY <1>0 DEF WalletTypes
<1>2. /\ \A h \in 0..height : OutputsAt(chain', h) = OutputsAt(chain, h)
      /\ \A h \in 0..files.height : OutputsAt(chain', h) = OutputsAt(chain, h)
  BY <1>0, <1>1, BuriedOutputsStay, Zenon DEF Buried
<1>3. \A u : ~IsTracked(u) => ~IsTracked(u)'
  BY LossesStay, Zenon DEF IsTracked
<1>4. ASSUME files' = files
      PROVE  DiskCoversHeight'
  BY <1>0, <1>2, <1>3, <1>4, Zenon DEF DiskCoversHeight
<1>5. CASE Carries
  <2>1. TipHeight' = TipHeight
    BY <1>5, Zenon DEF Carries, TipHeight
  <2>2. ConfirmedOutputsAreKept'
    BY <1>0, <1>2, <1>3, <1>5, <2>1, Zenon DEF Carries, ConfirmedOutputsAreKept
  <2>3. ConfirmedOutputsAreStored'
    BY <1>0, <1>2, <1>3, <1>5, <2>1, Zenon DEF Carries, ConfirmedOutputsAreStored
  <2>4. CASE files'.height = files.height
    <3>1. DiskCoversHeight'
      BY <1>0, <1>2, <1>3, <1>5, <2>4, Zenon DEF Carries, DiskCoversHeight
    <3> QED
      BY <2>2, <2>3, <3>1, Zenon
  <2>5. CASE files'.height = height /\ sync.found = {} /\ up
    <3>1. TipHeight = 0 => height = 0
      BY <1>1 DEF TipHeight
    <3>2. DiskCoversHeight'
      BY <1>0, <1>2, <1>3, <1>5, <2>5, <3>1, Zenon
         DEF Carries, DiskCoversHeight, ConfirmedOutputsAreStored
    <3> QED
      BY <2>2, <2>3, <3>2, Zenon
  <2> QED
    BY <1>5, <2>4, <2>5, Zenon DEF Carries
<1>6. CASE ReorgFails /\ UNCHANGED <<chain, up, pool, evicted, files>> /\ sync.found = {}
  <2>1. TipHeight = 0 => TipHeight' = 0
    BY <1>1, <1>6 DEF TipHeight, ReorgFails
  <2>2. height' = height
    BY <1>6, Zenon DEF ReorgFails
  <2>3. ConfirmedOutputsAreKept' /\ ConfirmedOutputsAreStored'
    BY <1>0, <1>3, <1>6, <2>1, <2>2, Zenon
       DEF ConfirmedOutputsAreKept, ConfirmedOutputsAreStored
  <2> QED
    BY <1>4, <1>6, <2>3, Zenon
<1>7. ASSUME UNCHANGED <<chain, missed, files, up, pool, evicted>>, up,
             sync.nh <= Len(chain), sync.found = {},
             NEW w, Batched(w), PromoteAndCleanup(w, ScanGenesis)
      PROVE  ConfirmedOutputsAreKept' /\ ConfirmedOutputsAreStored' /\ DiskCoversHeight'
  <2>1. \A h \in 0..height' : \A u \in OutputsAt(chain, h) :
          (h \in 0..height /\ TipHeight # 0) \/ u \in sync'.found \/ ~IsTracked(u)
    BY <1>7, PromotedAreFound, Zenon
  <2>2. ASSUME NEW h \in 0..height', NEW u \in OutputsAt(chain, h)
        PROVE  u \in pool \cup evicted \cup sync'.found \/ ~IsTracked(u)
    BY <1>0, <1>7, <2>1, Zenon DEF ConfirmedOutputsAreKept
  <2>3. ASSUME NEW h \in 0..height', NEW u \in OutputsAt(chain, h)
        PROVE  u \in files.utxos \cup sync'.found \/ ~IsTracked(u)
    BY <1>0, <1>7, <2>1, Zenon DEF ConfirmedOutputsAreStored
  <2>4. ConfirmedOutputsAreKept'
    BY <1>3, <1>7, <2>2, Zenon DEF ConfirmedOutputsAreKept
  <2>5. ConfirmedOutputsAreStored'
    BY <1>3, <1>7, <2>3, Zenon DEF ConfirmedOutputsAreStored
  <2> QED
    BY <1>4, <1>7, <2>4, <2>5, Zenon
<1>8. CASE Exit
  <2>1. ~up' /\ UNCHANGED files
    BY <1>8, Zenon DEF Exit
  <2> QED
    BY <1>4, <2>1, Zenon DEF ConfirmedOutputsAreKept, ConfirmedOutputsAreStored
<1>9. CASE Start
  <2>1. /\ ~up /\ height' = files.height /\ pool' = files.utxos
        /\ UNCHANGED <<chain, files, missed, window>>
    BY <1>9, Zenon DEF Start, node
  <2>2. files.height = 0 => TipHeight' = 0
    BY <1>0, <2>1 DEF Resting, TipHeight
  <2>3. ConfirmedOutputsAreKept' /\ ConfirmedOutputsAreStored'
    BY <1>0, <1>3, <2>1, <2>2, Zenon
       DEF ConfirmedOutputsAreKept, ConfirmedOutputsAreStored, DiskCoversHeight
  <2> QED
    BY <1>4, <2>1, <2>3, Zenon
<1> QED
  BY <1>5, <1>6, <1>7, <1>8, <1>9, OutputsMove, Zenon

-----------------------------------------------------------------------------
(* The invariant holds for a new wallet.                                      *)
LEMMA WalletStarts == VInit => WalletInv
<1> SUFFICES ASSUME VInit
             PROVE  WalletInv
  BY Zenon
<1>1. WalletTypes
  <2>1. /\ <<>> \in Seq(WalletBlock) /\ <<>> \in Seq(WindowEntry) /\ <<>> \in Seq(Nat)
        /\ <<>> \in Seq(Answer)
    OBVIOUS
  <2>2. SyncIdle \in SyncState
    BY <2>1, Zenon DEF SyncIdle, SyncState
  <2>3. NotSending \in SendState
    BY <2>1, Zenon DEF NotSending, SendState
  <2>4. files \in [idx : Nat, utxos : SUBSET Coin, height : Nat]
    BY Zenon DEF VInit
  <2>5. 0 \in Nat /\ FALSE \in BOOLEAN
    BY Zenon
  <2> QED
    BY <2>1, <2>2, <2>3, <2>4, <2>5, Zenon DEF VInit, WalletTypes
<1>2. Len(<<>>) = 0 /\ 1..0 = {} /\ 0 \in Nat /\ 0 <= 0 /\ 0 + 0 = 0
  OBVIOUS
<1>3. sync.pc = "idle" /\ sync.held = <<>> /\ sync.found = {} /\ send.pc = "idle"
  BY Zenon DEF VInit, SyncIdle, NotSending
<1>4. files.idx = 0 /\ files.utxos = {} /\ files.height = 0
  BY Zenon DEF VInit
<1>5. Resting /\ Buried /\ ConfirmedOutputsAreKept /\ ConfirmedOutputsAreStored
  BY <1>4, Zenon DEF VInit, Resting, Buried, ConfirmedOutputsAreKept, ConfirmedOutputsAreStored
<1>6. Phases
  BY <1>3, Zenon DEF Phases
<1>7. WindowIsAChain /\ AnnouncementsRise /\ DiskCoversHeight
  BY <1>2, <1>3, <1>4, Zenon DEF VInit, WindowIsAChain, AnnouncementsRise, DiskCoversHeight
<1>8. AddressesAreAnnounced
  <2>1. <<>> \in Seq(Blocks(Known))
    OBVIOUS
  <2>2. sync.pc \notin {"listed", "scanned"} /\ send.pc # "prove"
    BY <1>3, Zenon
  <2> QED
    BY <1>3, <1>4, <2>1, <2>2, Zenon DEF VInit, AddressesAreAnnounced
<1> QED
  BY <1>1, <1>5, <1>6, <1>7, <1>8, Zenon DEF WalletInv

(* Every step keeps the invariant.                                            *)
LEMMA WalletSteps ==
  ASSUME WalletInv, [VNext]_vvars
  PROVE  WalletInv'
  BY TypesKept, PhasesKept, BuriedKept, WindowKept, AnnouncementsKept, AddressesKept,
     OutputsKept, Zenon DEF WalletInv

(* The invariant is at least as strong as the property.                       *)
LEMMA NothingLost == WalletInv => NothingConfirmedIsLost
<1> SUFFICES ASSUME WalletInv
             PROVE  StoredOutputsUnlock
  BY Zenon DEF WalletInv, NothingConfirmedIsLost
<1>1. files.idx \in Nat /\ \A u \in files.utxos : u.addr \in Nat
  BY Zenon DEF WalletInv, WalletTypes, Coin
<1>2. missed = {} => \A u \in files.utxos : u.addr <= files.idx
  BY Zenon DEF WalletInv, AddressesAreAnnounced
<1>3. \A a \in Nat : a <= files.idx => a <= files.idx + 1
  BY <1>1
<1> QED
  BY <1>1, <1>2, <1>3, Zenon DEF StoredOutputsUnlock, Unlocks

(* Whatever the confirmation depth and the batch size, and wherever the       *)
(* process stops: every confirmed output of an announced address up to the    *)
(* scanner's height is in the pool, on its way there or was evicted, every    *)
(* one up to the stored height is in a file, and the files can be loaded      *)
(* again (ChainScanner::advance, Wallet::sync, the store of the command line  *)
(* program).  Reorganisations are no deeper than the confirmation depth.      *)
THEOREM NothingIsLost == VSpec => []NothingConfirmedIsLost
<1>1. VInit => WalletInv
  BY WalletStarts, Zenon
<1>2. WalletInv /\ [VNext]_vvars => WalletInv'
  BY WalletSteps, Zenon
<1>3. WalletInv => NothingConfirmedIsLost
  BY NothingLost, Zenon
<1> QED
  BY <1>1, <1>2, <1>3, PTL DEF VSpec

JustifiedEviction ==
    \A u \in pool \ pool' : up' => u \in RestoredUtxos \ MutatorSet(Msa(send.got))

(* A step of a running wallet that drops an output has read a mutator set     *)
(* without it.                                                                *)
LEMMA EvictionStep ==
  ASSUME WalletInv, [VNext]_vvars
  PROVE  JustifiedEviction
<1>1. CASE pool \subseteq pool' \/ ~up'
  BY <1>1, Zenon DEF JustifiedEviction
<1>2. CASE Start
  BY <1>1, <1>2, Zenon DEF Start, WalletInv, Resting
<1>3. CASE EvictAndRetry
  <2> SUFFICES ASSUME NEW u \in pool \ pool'
               PROVE  u \in RestoredUtxos \ MutatorSet(Msa(send.got))
    BY Zenon DEF JustifiedEviction
  <2>1. PICK j \in 1..Len(send.got) : ~Verifies(send.got[j]) /\ send.got[j].utxo = u
    BY <1>3, Zenon DEF EvictAndRetry
  <2>2. Len(send.got) \in 1..Len(send.got)
    <3>1. Len(send.got) \in Nat
      BY DEF WalletInv, WalletTypes, SendState
    <3> QED
      BY <3>1
  <2>3. send.got[j].tip = Msa(send.got)
    BY <1>3, <2>2, Zenon DEF EvictAndRetry, Pinned, Msa
  <2> QED
    BY <2>1, <2>3, Zenon DEF Verifies, RestoredUtxos
<1>4. \/ Start \/ EvictAndRetry \/ pool \subseteq pool' \/ ~up'
  BY Zenon DEF VNext, SyncStep, NodeBlock, Reorganise, ReadHeight, DrainPendingEvents,
     ScanMempool, SyncChain, AddUtxos, StoreEvents, SelectInputs, SendStep, ChooseCandidates,
     RestoreChunk, VerifyProofs, RestoreAgain, Selected, BuildTransaction, SubmitTransaction,
     Killed, InsufficientFunds, Exit, vvars
<1> QED
  BY <1>1, <1>2, <1>3, <1>4, Zenon

(* A running wallet drops an output only after a selection whose proofs were  *)
(* all made at one tip, and only when that tip's mutator set does not hold it *)
(* (restore_membership_proof and the eviction in Wallet::select_inputs).      *)
THEOREM EvictionsAreJustified == VSpec => EvictionIsJustified
<1>1. VInit => WalletInv
  BY WalletStarts, Zenon
<1>2. WalletInv /\ [VNext]_vvars => WalletInv'
  BY WalletSteps, Zenon
<1>3. WalletInv /\ [VNext]_vvars => JustifiedEviction
  BY EvictionStep, Zenon
<1>4. VSpec => [][JustifiedEviction]_vvars
  BY <1>1, <1>2, <1>3, PTL DEF VSpec
<1> QED
  BY <1>4, Zenon DEF EvictionIsJustified, JustifiedEviction
=============================================================================
