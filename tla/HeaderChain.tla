---------------------------- MODULE HeaderChain ----------------------------
(* The numeric part of a block header: difficulty, cumulative proof-of-work *)
(* and timestamp, as a chain of headers grows one block at a time.  A       *)
(* multi-limb integer is a little-endian sequence of limbs of LimbWidth bits *)
(* (32 in the code): NumLimbs of them for a difficulty (5 in the code) and  *)
(* PowLimbs for a cumulative proof-of-work (6).  One LimbWidth also plays    *)
(* the part of the 32 fractional bits of the controller's fixed-point       *)
(* numbers, as it does in the code.                                         *)
EXTENDS Integers, Sequences, Functions

SeqH == INSTANCE SequencesExt

CONSTANTS LimbWidth,        \* bits of a limb
          NumLimbs,        \* Difficulty::NUM_LIMBS
          PowLimbs,        \* ProofOfWork::NUM_LIMBS
          MinimumLimb,     \* LIMBS_FOR_MINIMUM[0]
          Target,          \* Network::target_block_interval
          MinBlockTime,    \* Network::minimum_block_time
          ResetInterval,   \* Network::difficulty_reset_interval; 0 is None
          GenesisDifficulty, \* Network::genesis_difficulty, a limb
          FutureLimit,     \* FUTUREDATING_LIMIT
          BlockTimes,      \* the block intervals the composers produce
          Starts,          \* difficulties the observed chain may start from
          MaxChain         \* blocks appended after the start

VARIABLE chain             \* headers, oldest first

hvars == <<chain>>

Base == 2 ^ LimbWidth

\* BigUint::from(limbs)
Value(limbs) == SeqH!FoldRight(LAMBDA d, acc : acc * Base + d, limbs, 0)

\* The n limbs of a number, the rest dropped.
Limbs(v, n) == [i \in 1 .. n |-> (v \div Base ^ (i - 1)) % Base]

Minimum == [i \in 1 .. NumLimbs |-> IF i = 1 THEN MinimumLimb ELSE 0]
Maximum(n) == [i \in 1 .. n |-> Base - 1]

\* Difficulty::new lifts what is at most the minimum, limb by limb.
NewDifficulty(limbs) ==
  IF \A i \in 1 .. NumLimbs : limbs[i] <= Minimum[i] THEN Minimum ELSE limbs

\* Ord: the most significant limb that differs decides.
Less(a, b) ==
  \E i \in 1 .. Len(a) : a[i] < b[i] /\ \A j \in i + 1 .. Len(a) : a[j] = b[j]

\* Shr: whole limbs first, then bits borrowed from the limb above.
Shr(d, bits) ==
  LET skip == bits \div LimbWidth
      rem == 2 ^ (bits % LimbWidth)
      at(i) == IF i + skip <= NumLimbs THEN d[i + skip] ELSE 0
  IN  NewDifficulty([i \in 1 .. NumLimbs |->
        at(i) \div rem + (at(i + 1) % rem) * (Base \div rem)])

\* One pass of the schoolbook product: digit by digit, the carry handed on.
\* acc is [out, carry]; the digit is added to what `into` already holds.
MulPass(limbs, factor, into) ==
  SeqH!FoldLeft(
    LAMBDA acc, i :
      LET sum == acc.carry + limbs[i] * factor
          digit == into[i] + (sum % Base)
      IN  [out |-> Append(acc.out, digit % Base),
           carry |-> sum \div Base + digit \div Base],
    [out |-> <<>>, carry |-> 0], [i \in 1 .. Len(limbs) |-> i])

\* safe_mul_fixed_point_rational: times lo, then hi one limb up, and the
\* lowest limb dropped; with the limb that overflows.
MulFixedPoint(d, lo, hi) ==
  LET low == MulPass(d, lo, [i \in 1 .. NumLimbs |-> 0])
      high == MulPass(d, hi, Append(Tail(low.out), low.carry))
  IN  [value |-> NewDifficulty(high.out), overflow |-> high.carry]

Clamp(v, lo, hi) == IF v < lo THEN lo ELSE IF v > hi THEN hi ELSE v

\* 1 + P * error in fixed point, P = -2^-4.
AdjustmentFactor(delta) ==
  LET relative == (delta - Target) * (Base \div Target)
      error == Clamp(relative, -Base, 4 * Base)
  IN  Base + ((-error) \div 16)

DifficultyControl(delta, old, height) ==
  IF height = 0 THEN old
  ELSE LET factor == AdjustmentFactor(delta)
           product == MulFixedPoint(old, factor % Base, factor \div Base)
       IN  IF product.overflow > 0 THEN Maximum(NumLimbs) ELSE product.value

\* ProofOfWork + limbs, the last carry dropped.
AddPow(pow, limbs) ==
  MulPass(pow, 1, [i \in 1 .. PowLimbs |->
                     IF i <= Len(limbs) THEN limbs[i] ELSE 0]).out

ShouldReset(delta) == ResetInterval > 0 /\ delta >= ResetInterval

Genesis == [i \in 1 .. NumLimbs |-> IF i = 1 THEN GenesisDifficulty ELSE 0]

\* BlockHeader::template_header, what every composer builds on
TemplateHeader(prev, timestamp) ==
  LET d == DifficultyControl(timestamp - prev.timestamp, prev.difficulty,
                             prev.height)
  IN  [height |-> prev.height + 1, timestamp |-> timestamp,
       difficulty |-> d, pow |-> AddPow(prev.pow, d)]

\* Block::validate, the conditions 0.a and 0.d to 0.g on the header
HeaderValid(prev, header, now) ==
  LET delta == header.timestamp - prev.timestamp
      expected == IF ShouldReset(delta) THEN Genesis
                  ELSE DifficultyControl(delta, prev.difficulty, prev.height)
  IN  /\ header.height = prev.height + 1
      /\ prev.timestamp + MinBlockTime <= header.timestamp
      /\ header.difficulty = expected
      /\ header.pow = AddPow(prev.pow, expected)
      /\ header.timestamp < now + FutureLimit

\* max_cumulative_pow_after.  The doubles are fixed-point numbers with a unit
\* of 1 / FloatUnit, EPSILON one unit in the last place.
FloatUnit == 256

MaxFactorHalved ==
  FloatUnit + (FloatUnit * (Target - MinBlockTime)) \div (32 * Target) + 1

MaxFactor ==
  FloatUnit + (FloatUnit * (Target - MinBlockTime)) \div (16 * Target) + 1

MaxCumulativePowAfter(pow, difficulty, numBlocks) ==
  LET grow(acc, i) == [d |-> (acc.d * MaxFactor) \div FloatUnit,
                       sum |-> acc.sum + (acc.d * MaxFactor) \div FloatUnit]
      end == SeqH!FoldLeft(grow,
               [d |-> Value(difficulty) * FloatUnit,
                sum |-> (Value(pow) + 1) * FloatUnit],
               [i \in 1 .. numBlocks |-> i])
  IN  Limbs(Clamp(end.sum \div FloatUnit, 0, Base ^ PowLimbs - 1), PowLimbs)

--------------------------------------------------------------------------

HInit ==
  \E d \in Starts, h \in {0, 3} :
    chain = <<[height |-> h, timestamp |-> 0,
               difficulty |-> NewDifficulty(Limbs(d, NumLimbs)),
               pow |-> Limbs(Base ^ NumLimbs - 3, PowLimbs)]>>

Last == chain[Len(chain)]

\* A composer proposes a block on the tip at its own clock and, once it is
\* guessed, the node validates it at its clock and appends it.
NewBlock(delta, now) ==
  /\ Len(chain) <= MaxChain
  /\ LET header == TemplateHeader(Last, Last.timestamp + delta)
     IN  /\ HeaderValid(Last, header, now)
         /\ chain' = Append(chain, header)

HNext == \E delta \in BlockTimes, lag \in {0, FutureLimit} :
           NewBlock(delta, Last.timestamp + delta - lag)

--------------------------------------------------------------------------

\* The limb arithmetic is arithmetic: multiplying the tip's difficulty by any
\* factor the controller can ask for is the exact product rounded down, the
\* overflow limb included, and shifting is division (with the lift to the
\* minimum in both).
LimbProductsAreExact ==
  LET d == Last.difficulty
      lifted(v) == IF v < MinimumLimb THEN MinimumLimb ELSE v
  IN  /\ \A f \in (3 * Base) \div 4 .. (17 * Base) \div 16 :
           LET p == MulFixedPoint(d, f % Base, f \div Base)
               exact == (Value(d) * f) \div Base
           IN  /\ p.overflow = exact \div Base ^ NumLimbs
               /\ Value(p.value) = lifted(exact % Base ^ NumLimbs)
      /\ \A bits \in 0 .. NumLimbs * LimbWidth - 1 :
           Value(Shr(d, bits)) = lifted(Value(d) \div 2 ^ bits)

\* One block moves the difficulty up by at most a sixteenth and down by at
\* most a quarter, never below the minimum, however long the block took; and
\* a block that took longer never leaves a higher difficulty than one that
\* took less.
DifficultyMovesSlowly ==
  \A s, t \in BlockTimes :
    LET old == Value(Last.difficulty)
        new(delta) == Value(DifficultyControl(delta, Last.difficulty,
                                              Last.height))
    IN  /\ 16 * new(t) <= 17 * old
        /\ 4 * (new(t) + 1) >= 3 * old
        /\ new(t) >= MinimumLimb
        /\ (s <= t) => new(t) <= new(s)

\* The cumulative proof-of-work of every block is the sum of the
\* difficulties since the start, and the limb order of two blocks is the
\* order of the numbers: the fork choice rule compares what was really spent.
PowIsTheSumOfDifficulties ==
  \A i \in 2 .. Len(chain) :
    /\ Value(chain[i].pow)
         = Value(chain[i - 1].pow) + Value(chain[i].difficulty)
    /\ \A j \in 1 .. Len(chain) :
         Less(chain[i].pow, chain[j].pow)
           <=> Value(chain[i].pow) < Value(chain[j].pow)

\* check_pow of a sync challenge response accepts every pair of blocks of an
\* honest chain: the later one's cumulative proof-of-work does not exceed
\* what max_cumulative_pow_after allows from the earlier one's, and is not
\* smaller.
HonestPowEvolutionIsOkay ==
  \A i \in 1 .. Len(chain) : \A j \in i .. Len(chain) :
    /\ ~Less(MaxCumulativePowAfter(chain[i].pow, chain[i].difficulty, j - i),
             chain[j].pow)
    /\ ~Less(chain[j].pow, chain[i].pow)

\* The limb arithmetic of the headers is exact, and the difficulty control and
\* the fork choice that rest on it behave: slow moves, true sums, honest chains
\* accepted.
HeaderArithmeticIsSound ==
  /\ LimbProductsAreExact
  /\ DifficultyMovesSlowly
  /\ PowIsTheSumOfDifficulties
  /\ HonestPowEvolutionIsOkay
============================================================================
