------------------------------ MODULE Amounts ------------------------------
(* Amounts of native currency: the running balance of a sequence of         *)
(* payments, and the conversions between amounts and the decimal text shown *)
(* to and typed by users.  The atomic unit is 10^-Decimals coins (10^-8 in  *)
(* the code); a text is its sign, its integer part and its digits after the *)
(* point.                                                                   *)
EXTENDS Integers, Sequences

SeqA == INSTANCE SequencesExt

CONSTANTS Decimals,  \* decimals of a coin
          MaxNau,    \* MAX_NAU
          None,      \* the absent amount
          Payments   \* balance updates, negative ones are payments out

VARIABLE balance

bvars == <<balance>>

Factor == 10 ^ Decimals
Abs(x) == IF x < 0 THEN -x ELSE x
\* Integer division of the code: towards zero.
Quot(a, b) == IF a < 0 THEN -((-a) \div b) ELSE a \div b

CheckedAddNegative(a, b) ==
  IF (a < 0 /\ b < 0) \/ a + b > MaxNau \/ a + b < 0 THEN None ELSE a + b

\* Whole coins, rounded towards the greater integer.
CeilNumWholeCoins(a) ==
  Quot(a + (IF a > 0 THEN Factor - 1 ELSE 0), Factor)

\* One element of scan_balance
ScanBalance(current, update) ==
  IF update < 0
  THEN IF CheckedAddNegative(current, update) = None THEN 0
       ELSE CheckedAddNegative(current, update)
  ELSE current + update

\* Carry a digit of ten towards the integer part, place by place.  The places
\* are numbered from 1, the integer part.
CarryOnce(places) ==
  LET n == Len(places)
      p == [places EXCEPT ![n] = @ + 1]
  IN  IF p[n] = 10 /\ n > 1
      THEN [p EXCEPT ![n] = 0, ![n - 1] = @ + 1] ELSE p

Carry(places) ==
  SeqA!FoldLeft(
    LAMBDA p, k : IF p[k] = 10 /\ k > 1
                  THEN [p EXCEPT ![k] = 0, ![k - 1] = @ + 1] ELSE p,
    [places EXCEPT ![Len(places)] = @ + 1],
    [k \in 1 .. Len(places) |-> Len(places) + 1 - k])

\* display_n_decimals for n > 0: n digits, and one more decides the rounding.
Display(amount, n) ==
  LET a == Abs(amount)
      digit(k) == (((a % Factor) * 10 ^ k) \div Factor) % 10
      places == <<a \div Factor>> \o [k \in 1 .. n |-> digit(k)]
      rounded == IF digit(n + 1) > 5 THEN Carry(places) ELSE places
  IN  [negative |-> amount < 0, integer |-> rounded[1],
       digits |-> Tail(rounded)]

\* round() of a fraction: halves away from zero (the operands are positive)
Round(num, den) == (2 * num + den) \div (2 * den)

\* coins_from_str
CoinsFromStr(text) ==
  LET shift == 10 ^ Len(text.digits)
      num == text.integer * shift
               + SeqA!FoldLeft(LAMBDA acc, d : 10 * acc + d, 0, text.digits)
      nau == Round(num * Factor, shift)
      signed == IF text.negative THEN -nau ELSE nau
  IN  IF Abs(signed) <= MaxNau THEN signed ELSE None

--------------------------------------------------------------------------
(* The composer's reward, split by a distribution of per mille shares.      *)

Locked(dist) == {i \in DOMAIN dist : dist[i].timelocked}

\* CoinbaseDistribution::try_new
TryNew(dist) ==
  LET promille(S) == SeqA!FoldLeft(LAMBDA acc, i : acc + (IF i \in S THEN dist[i].promille ELSE 0),
                                   0, [i \in DOMAIN dist |-> i])
  IN  /\ promille(DOMAIN dist) = 1000
      /\ promille(Locked(dist)) >= 500
      /\ Locked(dist) # DOMAIN dist

SumAmounts(outs, S) ==
  SeqA!FoldLeft(LAMBDA acc, i : acc + (IF i \in S THEN outs[i] ELSE 0), 0, [i \in DOMAIN outs |-> i])

\* tx_outputs: each share is rounded down, and what that loses is added to
\* the first liquid output.
TxOutputs(total, dist) ==
  LET shares == [i \in DOMAIN dist |-> (total * dist[i].promille) \div 1000]
      first == CHOOSE i \in DOMAIN dist \ Locked(dist) : \A j \in 1 .. (i - 1) : dist[j].timelocked
  IN  [shares EXCEPT ![first] = @ + (total - SumAmounts(shares, DOMAIN dist))]

Solo == <<[promille |-> 500, timelocked |-> FALSE], [promille |-> 500, timelocked |-> TRUE]>>

--------------------------------------------------------------------------

BInit == balance = 0

\* Sums above MaxNau are a panic of the addition, out of reach of the supply.
Receive == \E u \in Payments :
  /\ balance + u <= MaxNau
  /\ balance' = ScanBalance(balance, u)

BNext == Receive

--------------------------------------------------------------------------

\* Text is faithful: an amount shown with all its decimals parses back to
\* itself, negative ones included; with fewer it parses to within one unit of
\* the last digit shown; and rounding carries through runs of nines, so that
\* every place shown is a digit.
TextRoundTrips ==
  \A a \in {balance, -balance} :
    /\ CoinsFromStr(Display(a, Decimals)) = a
    /\ \A n \in 1 .. Decimals - 1 :
         LET text == Display(a, n)
             shown == CoinsFromStr(text)
         IN  /\ \A k \in 1 .. n : text.digits[k] \in 0 .. 9
             /\ shown # None => Abs(shown - a) < 10 ^ (Decimals - n)

\* Whole coins are rounded up: the number of coins charged for an amount
\* covers it, by less than a coin, also for negative amounts.
CeilingCovers ==
  \A a \in {balance, -balance} :
    /\ CeilNumWholeCoins(a) * Factor >= a
    /\ (CeilNumWholeCoins(a) - 1) * Factor < a

\* What the composer hands out is its whole share of the coinbase, and the
\* native currency type script accepts it: half of it, rounded down, is time
\* locked, although the rounding correction goes to the liquid output.
SoloRewardIsAccepted ==
  LET outs == TxOutputs(balance, Solo)
  IN  /\ TryNew(Solo)
      /\ SumAmounts(outs, DOMAIN outs) = balance
      /\ balance \div 2 <= SumAmounts(outs, Locked(Solo))

\* Amounts survive every conversion: text, rounding up to whole coins, and the
\* split of a reward into outputs.
AmountsAgree == TextRoundTrips /\ CeilingCovers /\ SoloRewardIsAccepted
============================================================================
