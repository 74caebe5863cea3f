------------------------------- MODULE Ledger -------------------------------
(***************************************************************************)
(* What a valid transaction is, and what a chain of valid blocks does to   *)
(* the money supply.                                                       *)
(*                                                                         *)
(* A transaction kernel counts when someone holds a SingleProof for it.    *)
(* There are three ways to obtain one: from a proof collection (a witness  *)
(* run through five programs and the scripts of its UTXOs), by merging two *)
(* proven kernels, and by updating a proven kernel to a later mutator set. *)
(* A proof is modelled by what the program that was proved asserts, so     *)
(* "proven" is the set of kernels for which the SingleProof program has    *)
(* halted.  Hashes and commitments are injective: a commitment is the UTXO *)
(* it opens to, a mutator set hash is the mutator set.  A UTXO has an      *)
(* amount of native currency, a release date (0: no time lock) and a lock. *)
(*                                                                         *)
(* Amounts are u128 words in the programs; AmountMax is a little less than *)
(* half of Word, as MAX_NAU is of 2^128, and negative amounts are two's    *)
(* complement.                                                             *)
(***************************************************************************)
EXTENDS Integers, Sequences, FiniteSets, Functions, TLC

CONSTANTS Word, AmountMax,     \* the modulus of u128 and the largest amount
          LockPeriod,          \* MINING_REWARD_TIME_LOCK_PERIOD
          MinBlockTime, LastTime,
          Subsidies, BlocksPerGeneration, TailSubsidy,
          MaxNumInputs, MaxNumOutputs,
          GenesisOutputs,      \* the premine, a sequence of UTXOs
          Drafts,              \* transactions someone sets out to prove
          MaxProven, MaxMerged, MaxBlocks, NoCoinbase

LedgerUtxo == [amount : Int, release : Nat, lock : {"hash", "burn"}]

ASSUME LedgerAssumption ==
    /\ GenesisOutputs \in Seq(LedgerUtxo)
    /\ Drafts \subseteq [ins : Seq(Nat), outs : Seq(LedgerUtxo), fee : Int,
                         coinbase : {NoCoinbase} \cup Int, timestamp : Nat]

VARIABLES proven, blocks
ledgerVars == <<proven, blocks>>

\* The two's complement word of a signed amount.
AsWord(x) == x % Word

\* NativeCurrencyAmount: what the comparison with MAX_NAU as u128 accepts.
IsAmount(w) == w <= AmountMax

\* add_all_amounts_and_check_time_lock: amounts are summed with checked
\* additions, those of UTXOs locked until at least the given date apart.
AmountsOf(utxos) == [i \in DOMAIN utxos |-> utxos[i].amount]
SumOf(utxos) == SumFunction(AmountsOf(utxos))
SumLockedUntil(utxos, date) ==
    SumOf(SelectSeq(utxos, LAMBDA u : u.release # 0 /\ u.release >= date))

\* read_and_add_amount: every coin's state is an amount.
CoinsAreAmounts(utxos) == \A u \in Range(utxos) : IsAmount(AsWord(u.amount))

----------------------------------------------------------------------------
(* The claims of a proof collection.  A claim says that a program halts on *)
(* an input with an output.  w is the collection's witness: input UTXOs    *)
(* with their AOCL leaf indices, and output UTXOs; both are salted, so a   *)
(* claim about their hash is a claim about them.                           *)

Claim(program, input, output) == <<program, input, output>>

UtxosOf(ins) == [i \in 1 .. Len(ins) |-> ins[i].utxo]

LockScriptHashes(ins) == [i \in 1 .. Len(ins) |-> ins[i].utxo.lock]

\* The native currency always, the time lock when a coin mentions it.
TypeScriptHashes(ins, outs) ==
    {"NativeCurrency"} \cup
        {"TimeLock" : u \in {v \in Range(UtxosOf(ins) \o outs) : v.release # 0}}

RemovalRecordsIntegrityClaim(k, w) == Claim("RemovalRecordsIntegrity", k, w.ins)
KernelToOutputsClaim(k, w) == Claim("KernelToOutputs", k, w.outs)
CollectLockScriptsClaim(w) == Claim("CollectLockScripts", w.ins, LockScriptHashes(w.ins))
CollectTypeScriptsClaim(w) ==
    Claim("CollectTypeScripts", <<w.ins, w.outs>>, TypeScriptHashes(w.ins, w.outs))
LockScriptClaims(k, w) ==
    {Claim(lock, k, <<>>) : lock \in Range(LockScriptHashes(w.ins))}
TypeScriptClaims(k, w) ==
    {Claim(script, <<k, w.ins, w.outs>>, <<>>) : script \in TypeScriptHashes(w.ins, w.outs)}

----------------------------------------------------------------------------
(* The programs: what each of them asserts of its input and output.        *)

\* The authenticated coinbase and inputs of a kernel exclude each other.
CoinbaseHasNoInputs(k, ins) == k.coinbase = NoCoinbase \/ ins = <<>>

\* for_all_utxos: the UTXO is a leaf of the AOCL, and its Bloom filter
\* indices are those of the removal record.
RemovesLeaf(k, i, in) ==
    /\ in.index \in 1 .. Len(k.ms.aocl)
    /\ k.ms.aocl[in.index] = in.utxo
    /\ k.inputs[i] = in

RemovalRecordsIntegrity(k, ins) ==
    /\ CoinbaseHasNoInputs(k, ins)
    /\ Len(k.inputs) = Len(ins)
    /\ \A i \in 1 .. Len(ins) : RemovesLeaf(k, i, ins[i])

KernelToOutputs(k, outs) == k.outputs = outs

CollectLockScripts(ins, locks) == locks = LockScriptHashes(ins)

CollectTypeScripts(ins, outs, scripts) == scripts = TypeScriptHashes(ins, outs)

\* Standard hash locks are opened by their owner; a burn lock never halts.
LockScriptHalts(lock) == lock # "burn"

\* TimeLock: every locked input is released strictly before the timestamp.
TimeLock(k, ins) ==
    \A i \in 1 .. Len(ins) : ins[i].utxo.release # 0 => ins[i].utxo.release < k.timestamp

CoinbaseOf(k) == IF k.coinbase = NoCoinbase THEN 0 ELSE k.coinbase

\* A transaction that mints pays a fee of zero or more, and mints an amount.
CoinbaseAndFee(k) ==
    /\ IsAmount(AsWord(CoinbaseOf(k)))
    /\ k.coinbase # NoCoinbase => k.fee >= 0

\* At least half of what a coinbase transaction pays out stays locked.
HalfIsTimelocked(k, outs) ==
    CoinbaseOf(k) > 0 =>
        SumOf(outs) \div 2 <= SumLockedUntil(outs, k.timestamp + LockPeriod)

\* The sums are checked, the comparison of both sides wraps.
NoInflation(k, ins, outs) ==
    LET in == CoinbaseOf(k) + SumOf(UtxosOf(ins))
    IN  /\ in < Word
        /\ SumOf(outs) <= AmountMax
        /\ k.fee \in -AmountMax .. AmountMax
        /\ in = AsWord(SumOf(outs) + k.fee)

NativeCurrency(k, ins, outs) ==
    /\ CoinsAreAmounts(UtxosOf(ins) \o outs)
    /\ CoinbaseAndFee(k)
    /\ HalfIsTimelocked(k, outs)
    /\ NoInflation(k, ins, outs)

Holds(claim) ==
    LET program == claim[1]  input == claim[2]  output == claim[3]
    IN  CASE program = "RemovalRecordsIntegrity" -> RemovalRecordsIntegrity(input, output)
          [] program = "KernelToOutputs"         -> KernelToOutputs(input, output)
          [] program = "CollectLockScripts"      -> CollectLockScripts(input, output)
          [] program = "CollectTypeScripts" ->
                CollectTypeScripts(input[1], input[2], output)
          [] program = "NativeCurrency" -> NativeCurrency(input[1], input[2], input[3])
          [] program = "TimeLock"       -> TimeLock(input[1], input[2])
          [] OTHER                      -> LockScriptHalts(program)

\* The proof collection branch of SingleProof: not a merger, and a proof of
\* each of the claims.
ProofCollection(k, w) ==
    /\ ~k.mergeBit
    /\ Holds(RemovalRecordsIntegrityClaim(k, w))
    /\ Holds(KernelToOutputsClaim(k, w))
    /\ Holds(CollectLockScriptsClaim(w))
    /\ Holds(CollectTypeScriptsClaim(w))
    /\ \A c \in LockScriptClaims(k, w) \cup TypeScriptClaims(k, w) : Holds(c)

----------------------------------------------------------------------------
(* Merging and updating proven kernels.                                    *)

Later(a, b) == IF a < b THEN b ELSE a

Copies(s, x) == Cardinality({i \in DOMAIN s : s[i] = x})
SameMultiset(s, t) ==
    /\ Range(s) = Range(t)
    /\ \A x \in Range(s) : Copies(s, x) = Copies(t, x)

\* The random shuffle of inputs and outputs: every reader of them treats
\* them as multisets, one order stands for all.
ShuffleInputs(s) ==
    LET p == CHOOSE p \in Permutations(1 .. Len(s)) :
                 \A i, j \in 1 .. Len(s) : i < j => s[p[i]].index <= s[p[j]].index
    IN  [i \in 1 .. Len(s) |-> s[p[i]]]

Precedes(a, b) == a.amount < b.amount \/ (a.amount = b.amount /\ a.release <= b.release)
ShuffleOutputs(s) ==
    LET p == CHOOSE p \in Permutations(1 .. Len(s)) :
                 \A i, j \in 1 .. Len(s) : i < j => Precedes(s[p[i]], s[p[j]])
    IN  [i \in 1 .. Len(s) |-> s[p[i]]]

\* MergeWitness::new_kernel.
NewKernel(left, right) ==
    [inputs    |-> ShuffleInputs(left.inputs \o right.inputs),
     outputs   |-> ShuffleOutputs(left.outputs \o right.outputs),
     fee       |-> left.fee + right.fee,
     coinbase  |-> left.coinbase,
     timestamp |-> Later(left.timestamp, right.timestamp),
     ms        |-> left.ms,
     mergeBit  |-> TRUE]

\* assert_new_fee_is_sum_of_left_and_right.
NewFeeIsSum(left, right, new) ==
    /\ IsAmount(AsWord(right.fee))
    /\ IsAmount(AsWord(left.fee + right.fee))
    /\ new.fee = left.fee + right.fee

\* AuthenticateCoinbaseFields: only the left kernel may mint.
CoinbaseRules(left, right, new) ==
    /\ right.coinbase = NoCoinbase
    /\ new.coinbase = left.coinbase

NewTimestampIsMax(left, right, new) == new.timestamp = Later(left.timestamp, right.timestamp)

AgreeOnMutatorSet(left, right, new) == left.ms = right.ms /\ new.ms = left.ms

PartsAreMerged(left, right, new) ==
    /\ SameMultiset(new.inputs, left.inputs \o right.inputs)
    /\ SameMultiset(new.outputs, left.outputs \o right.outputs)

\* MergeBranch: what the merge branch of SingleProof asserts of two kernels
\* that have proofs and of the kernel they become.
MergeBranch(left, right, new) ==
    /\ PartsAreMerged(left, right, new)
    /\ NewFeeIsSum(left, right, new)
    /\ CoinbaseRules(left, right, new)
    /\ NewTimestampIsMax(left, right, new)
    /\ AgreeOnMutatorSet(left, right, new)
    /\ new.mergeBit

\* VerifyMmrSuccessor: the new AOCL extends the old one.
IsSuccessor(old, new) ==
    /\ Len(old.aocl) <= Len(new.aocl)
    /\ \A i \in 1 .. Len(old.aocl) : new.aocl[i] = old.aocl[i]

\* The removal records point to the same UTXOs, and there is one.
SameInputs(old, new) == old.inputs # <<>> /\ SameMultiset(new.inputs, old.inputs)

UpdateBranchAnywhere(old, new) == SameInputs(old, new) /\ new.timestamp >= old.timestamp

\* UpdateBranch: an update moves a kernel to a later mutator set and to a
\* timestamp no earlier, and changes nothing else.
UpdateBranch(old, new) ==
    /\ IsSuccessor(old.ms, new.ms)
    /\ SameInputs(old, new)
    /\ new.outputs = old.outputs
    /\ new.fee = old.fee
    /\ old.coinbase = NoCoinbase /\ new.coinbase = NoCoinbase
    /\ new.timestamp >= old.timestamp
    /\ new.mergeBit = old.mergeBit

----------------------------------------------------------------------------
(* Blocks.                                                                 *)

\* Block::block_subsidy by generation, then the tail emission.
BlockSubsidy(height) ==
    LET generation == height \div BlocksPerGeneration
    IN  IF generation < Len(Subsidies) THEN Subsidies[generation + 1] ELSE TailSubsidy

\* BlockProgram: the fee is an amount and the transaction is a merger.
BlockProgram(k) == IsAmount(AsWord(k.fee)) /\ k.mergeBit

\* MutatorSetAccumulator::can_remove: some index of the set is still absent.
CanRemove(ms, input) == input \notin ms.spent

MutatorSetAfterTx(ms, k) ==
    [aocl |-> ms.aocl \o k.outputs, spent |-> ms.spent \cup Range(k.inputs)]

\* guesser_fee_utxos: the whole fee of the block's transaction.
GuesserFeeUtxos(k) == << [amount |-> k.fee, release |-> 0, lock |-> "hash"] >>

\* mutator_set_accumulator_after: the transaction, then the guesser's UTXO.
MutatorSetAfter(ms, k) ==
    LET tx == MutatorSetAfterTx(ms, k)
    IN  [tx EXCEPT !.aocl = @ \o GuesserFeeUtxos(k)]

ValidateRepeated(parent, k, time) ==
    /\ parent.time + MinBlockTime <= time
    /\ BlockProgram(k)
    /\ \A i \in 1 .. Len(k.inputs) : CanRemove(parent.ms, k.inputs[i])
    /\ parent.ms = k.ms
    /\ k.timestamp <= time
    /\ CoinbaseOf(k) \in 0 .. BlockSubsidy(parent.height + 1)
    /\ Len(k.inputs) <= MaxNumInputs
    /\ Len(k.outputs) <= MaxNumOutputs

\* Block::validate, the rules on the transaction and its timing (heights,
\* digests and difficulty are in HeaderChain).
Validate(parent, k, time) ==
    /\ parent.time + MinBlockTime <= time
    /\ k \in proven /\ BlockProgram(k)
    /\ \A i \in 1 .. Len(k.inputs) : CanRemove(parent.ms, k.inputs[i])
    /\ parent.ms = k.ms
    /\ Cardinality(Range(k.inputs)) = Len(k.inputs)
    /\ k.timestamp <= time
    /\ CoinbaseOf(k) \in 0 .. BlockSubsidy(parent.height + 1)
    /\ Len(k.inputs) <= MaxNumInputs
    /\ Len(k.outputs) <= MaxNumOutputs

----------------------------------------------------------------------------
GenesisBlock ==
    [height |-> 0, time |-> 0, minted |-> 0, before |-> <<>>, removed |-> {},
     ms |-> [aocl |-> GenesisOutputs, spent |-> {}]]

LInit ==
    /\ proven = {}
    /\ blocks = {GenesisBlock}

\* Mutator sets anyone can build on: those after some block of the tree.
KnownSets == {b.ms : b \in blocks}

\* Bounds: blocks of an instance, and proofs held at a time.
Unfinished == Cardinality(blocks) < MaxBlocks
Room == Unfinished /\ Cardinality(proven) < MaxProven

\* Proof of a collection for one of the drafts, against a known mutator set.
ProveCollection(d, ms) ==
    LET at(i) == [index |-> d.ins[i],
                  utxo  |-> IF d.ins[i] \in DOMAIN ms.aocl THEN ms.aocl[d.ins[i]]
                            ELSE GenesisOutputs[1]]
        w == [ins |-> [i \in 1 .. Len(d.ins) |-> at(i)], outs |-> d.outs]
        k == [inputs |-> w.ins, outputs |-> d.outs, fee |-> d.fee, coinbase |-> d.coinbase,
              timestamp |-> d.timestamp, ms |-> ms, mergeBit |-> FALSE]
    IN  /\ Room
        /\ ProofCollection(k, w)
        /\ proven' = proven \cup {k}
        /\ UNCHANGED blocks

ProveMerge(left, right) ==
    LET new == NewKernel(left, right)
    IN  /\ Unfinished
        /\ Len(new.inputs) <= MaxMerged /\ Len(new.outputs) <= MaxMerged
        /\ MergeBranch(left, right, new)
        /\ proven' = (proven \ {left, right}) \cup {new}
        /\ UNCHANGED blocks

ProveUpdate(old, ms, time) ==
    LET new == [old EXCEPT !.ms = ms, !.timestamp = time]
    IN  /\ Unfinished
        /\ UpdateBranch(old, new)
        /\ proven' = (proven \ {old}) \cup {new}
        /\ UNCHANGED blocks

\* A proof nobody keeps.  Operands of mergers and updates and mined kernels
\* are dropped too: a draft can be proved again, so this only bounds the
\* proofs held at a time.
Discard(k) ==
    /\ Unfinished
    /\ proven' = proven \ {k}
    /\ UNCHANGED blocks

NewBlock(parent, k, time) ==
    /\ Unfinished
    /\ Validate(parent, k, time)
    /\ blocks' = blocks \cup
          {[height  |-> parent.height + 1,
            time    |-> time,
            minted  |-> parent.minted + CoinbaseOf(k),
            before  |-> parent.ms.aocl,
            removed |-> Range(k.inputs),
            ms      |-> MutatorSetAfter(parent.ms, k)]}
    /\ proven' = proven \ {k}

LNext ==
    \/ \E d \in Drafts, ms \in KnownSets : ProveCollection(d, ms)
    \/ \E left, right \in proven : ProveMerge(left, right)
    \/ \E old \in proven, ms \in KnownSets, time \in 1 .. LastTime : ProveUpdate(old, ms, time)
    \/ \E k \in proven : Discard(k)
    \/ \E parent \in blocks, k \in proven, time \in 1 .. LastTime : NewBlock(parent, k, time)

LSpec == LInit /\ [][LNext]_ledgerVars

----------------------------------------------------------------------------
Unspent(ms) ==
    {i \in DOMAIN ms.aocl : [index |-> i, utxo |-> ms.aocl[i]] \notin ms.spent}

Supply(ms) == SumFunctionOnSet(AmountsOf(ms.aocl), Unspent(ms))

\* On every branch of the block tree the unspent native currency is exactly the
\* premine plus the coinbases of the branch, and those stay within the subsidy
\* schedule.  It needs every check at once: no value is created by a collection
\* (native_currency.rs), by a merger or by an update, no input counts twice or
\* comes from another branch, and the guesser is paid exactly the fee
\* (block_kernel.rs guesser_fee_utxos).
SupplyIsScheduled ==
    \A b \in blocks :
        /\ Supply(b.ms) = SumOf(GenesisOutputs) + b.minted
        /\ b.minted <= SumFunction([h \in 1 .. b.height |-> BlockSubsidy(h)])

\* What a block removes was there to be removed: the UTXO is in the AOCL the
\* block builds on, its lock script can be satisfied, and its time lock ended
\* before the block's timestamp, although the lock was only checked against
\* the timestamp of a transaction that was merged and updated since
\* (time_lock.rs, merge_branch.rs "timestamp is max", Block::validate 2.f).
OnlySpendableIsSpent ==
    \A b \in blocks : \A r \in b.removed :
        /\ r.index \in DOMAIN b.before
        /\ b.before[r.index] = r.utxo
        /\ r.utxo.lock # "burn"
        /\ r.utxo.release < b.time

=============================================================================
