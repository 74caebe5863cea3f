------------------------------- MODULE BitMask -------------------------------
(* SynchronizationBitMask: every index below lower_bound is present, none     *)
(* from upper_bound on, and what lies between is stored in limbs of LimbBits  *)
(* bits.  A limb is the set of its bit positions that are one.  Two masks,    *)
(* our own and a peer's, take any sequence of the calls RapidBlockDownload    *)
(* makes, within each call's documented preconditions.                        *)
EXTENDS Integers, Sequences, FiniteSets

Seqs == INSTANCE SequencesExt

CONSTANTS
  LimbBits,  \* bits of a limb, 32 in the code
  MaxBound,  \* greatest upper bound of the instance
  Owner      \* who keeps a mask

ASSUME LimbBitsAssumption == LimbBits \in Nat \ {0}
ASSUME MaxBoundAssumption == MaxBound \in Nat \ {0, 1}

VARIABLE mask

Ones  == 0..(LimbBits - 1)
Zero  == {}
Limb  == SUBSET Ones
LimbNr(i)  == i \div LimbBits
BitNr(i)   == i % LimbBits
LastLimb(m) == IF m.upper_bound = 0 THEN 0 ELSE LimbNr(m.upper_bound - 1)

Mask(lower, upper, limbs) ==
  [lower_bound |-> lower, upper_bound |-> upper, limbs |-> limbs]

\* The limb that carries bit i; outside the stored slice the code panics.
Stored(m, i) == (LimbNr(i) - LimbNr(m.lower_bound)) + 1

Contains(m, i) ==
  \/ i < m.lower_bound
  \/ /\ i < m.upper_bound
     /\ BitNr(i) \in m.limbs[Stored(m, i)]

IsComplete(m) == m.lower_bound = m.upper_bound

\* canonize: the loop stops at the first index that is not contained.
FirstZero(m) ==
  CHOOSE i \in m.lower_bound..m.upper_bound :
    ~ Contains(m, i) /\ \A j \in m.lower_bound..(i - 1) : Contains(m, j)

Canonize(m) ==
  LET lower == FirstZero(m)
      dropped == LimbNr(lower) - LimbNr(m.lower_bound)
  IN  Mask(lower, m.upper_bound,
           IF lower = m.upper_bound
             THEN <<>>
             ELSE SubSeq(m.limbs, dropped + 1, Len(m.limbs)))

New(lower, upper) ==
  Mask(lower, upper,
       [n \in 1..(1 + LimbNr(upper - 1) - LimbNr(lower)) |->
          IF n = 1 THEN {b \in Ones : b < BitNr(lower)} ELSE Zero])

\* limb(index): the whole mask's limb; an empty deque reads as zeros even
\* where the indices are below the lower bound.
LimbAt(m, n) ==
  IF n < LimbNr(m.lower_bound) THEN Ones
  ELSE IF n <= LastLimb(m) /\ m.limbs # <<>>
    THEN m.limbs[n - LimbNr(m.lower_bound) + 1]
    ELSE Zero

\* set, whose caller ensures i < upper_bound (an assertion otherwise)
Set(m, i) ==
  IF i < m.lower_bound \/ IsComplete(m) THEN m
  ELSE Canonize([m EXCEPT !.limbs[Stored(m, i)] = @ \cup {BitNr(i)}])

Expand(m, upper) ==
  LET num == IF m.lower_bound = upper THEN 0
             ELSE 1 + LimbNr(upper - 1) - LimbNr(m.lower_bound)
      extra == IF num > Len(m.limbs) THEN num - Len(m.limbs) ELSE 0
  IN  Mask(m.lower_bound, upper, m.limbs \o [n \in 1..extra |-> Zero])

DivCeil(i) == LimbNr(i + LimbBits - 1)
SetAll(m, from, to) == Seqs!FoldLeft(Set, m, [n \in 1..(to - from + 1) |-> from + n - 1])

\* mutant: the full limbs are set one too far
RangeTooFar(m, min, max) ==
  SetAll([m EXCEPT !.limbs =
            [n \in DOMAIN @ |->
               IF n - 1 + LimbNr(m.lower_bound) \in DivCeil(min)..LimbNr(max)
                 THEN Ones ELSE @[n]]],
         min, max)

\* set_range: the full limbs are overwritten, then the bits before and after
\* them are set one by one.
SetRange(m, min, max) ==
  LET full == DivCeil(min)..(LimbNr(max) - 1)
      filled == [m EXCEPT !.limbs =
                   [n \in DOMAIN @ |->
                      IF n - 1 + LimbNr(m.lower_bound) \in full THEN Ones ELSE @[n]]]
      head == SetAll(filled, min,
                     (IF max < DivCeil(min) * LimbBits
                        THEN max ELSE DivCeil(min) * LimbBits) - 1)
  IN  SetAll(head, IF min > LimbNr(max) * LimbBits THEN min ELSE LimbNr(max) * LimbBits, max)

\* mutant: the other mask is taken as it is, not inverted
ReconcileUninverted(m, other) ==
  Canonize([m EXCEPT !.limbs =
    [n \in 1..(1 + LastLimb(m) - LimbNr(m.lower_bound)) |->
       LET i == LimbNr(m.lower_bound) + n - 1
       IN  LimbAt(m, i) \cup LimbAt(other, i)]])

Reconcile(m, other) ==
  LET offset == LimbNr(m.lower_bound)
  IN  Canonize([m EXCEPT !.limbs =
        [n \in 1..(1 + LastLimb(m) - offset) |->
           LimbAt(m, offset + n - 1) \cup (Ones \ LimbAt(other, offset + n - 1))]])

PopCount(m) ==
  LET Counted(n) ==
        IF n = 1 /\ BitNr(m.lower_bound) # 0
          THEN {b \in m.limbs[n] : b >= BitNr(m.lower_bound)}
        ELSE IF n = Len(m.limbs) /\ BitNr(m.upper_bound) # 0
          THEN {b \in m.limbs[n] : b < BitNr(m.upper_bound)}
          ELSE m.limbs[n]
  IN  Seqs!FoldLeft(LAMBDA sum, n : sum + Cardinality(Counted(n)), 0,
               [n \in DOMAIN m.limbs |-> n])

NotMask(m) ==
  Canonize([m EXCEPT !.limbs =
    [n \in DOMAIN @ |->
       (Ones \ @[n]) \ IF n = Len(@) /\ BitNr(m.upper_bound) # 0
                         THEN {b \in Ones : b >= BitNr(m.upper_bound)} ELSE {}]])

Larger(a, b) == IF a > b THEN a ELSE b

BitOr(m, rhs) ==
  LET lower == Larger(m.lower_bound, rhs.lower_bound)
      upper == Larger(m.upper_bound, rhs.upper_bound)
      At(n) == LimbAt(m, n) \cup LimbAt(rhs, n)
  IN  IF lower = upper THEN Mask(lower, upper, <<>>)
      ELSE Canonize(Mask(lower, upper,
             [n \in 1..(1 + LimbNr(upper - 1) - LimbNr(lower)) |-> At(LimbNr(lower) + n - 1)]))

-----------------------------------------------------------------------------
Init == mask \in [Owner -> {New(1, u) : u \in 2..MaxBound}]

DoSet(o) ==
  \E i \in 0..(mask[o].upper_bound - 1) :
    mask' = [mask EXCEPT ![o] = Set(@, i)]

DoSetRange(o) ==
  \E max \in mask[o].lower_bound..(mask[o].upper_bound - 1) :
    \E min \in mask[o].lower_bound..max :
      mask' = [mask EXCEPT ![o] = SetRange(@, min, max)]

DoExpand(o) ==
  \E u \in mask[o].upper_bound..MaxBound :
    mask' = [mask EXCEPT ![o] = Expand(@, u)]

Next == \E o \in Owner : DoSet(o) \/ DoSetRange(o) \/ DoExpand(o)
Spec == Init /\ [][Next]_mask

-----------------------------------------------------------------------------
\* The indices up to the instance's bound that a mask contains.
Indices(m) == {i \in 0..MaxBound : Contains(m, i)}
Between(m) == m.lower_bound..(m.upper_bound - 1)

\* The deque holds exactly the limbs from the lower to the upper bound, so no
\* index computed from them falls outside it (contains, set and limb would panic).
TypeOK ==
  \A o \in Owner :
    LET m == mask[o]
    IN  /\ m.lower_bound \in 1..m.upper_bound /\ m.upper_bound \in 2..MaxBound
        /\ m.limbs \in Seq(Limb)
        /\ Len(m.limbs) = IF IsComplete(m) THEN 0
                          ELSE 1 + LastLimb(m) - LimbNr(m.lower_bound)

\* "this value is guaranteed to be set to the highest possible value": the
\* lower bound is the first absent index, so is_complete, which only compares
\* the two bounds, says whether every block was received.
LowerBoundIsFirstZero ==
  \A o \in Owner :
    /\ ~ Contains(mask[o], mask[o].lower_bound)
    /\ IsComplete(mask[o]) <=> 0..(mask[o].upper_bound - 1) \subseteq Indices(mask[o])

Abstract == INSTANCE CoverageSpec WITH
  cover <- [o \in Owner |-> [present |-> Indices(mask[o]), bound |-> mask[o].upper_bound]]

\* The masks behave like sets of indices under set, set_range and expand.
ImplementsCoverage == Abstract!Spec

\* The zeros of reconcile are blocks the other has and we have not: a peer is
\* never asked for a block it said it does not have.
ReconcileSound ==
  \A o, p \in Owner :
    \A i \in Between(mask[o]) :
      ~ Contains(Reconcile(mask[o], mask[p]), i)
        => Contains(mask[p], i) /\ ~ Contains(mask[o], i)

Padded(m) == m.limbs # <<>> /\ \A b \in Ones : b < BitNr(m.lower_bound) => b \in m.limbs[1]

\* When the peer's first stored limb carries its implicit ones, every block
\* the other has and we have not is a zero of reconcile, so it can be asked for.
ReconcileCompleteIfPadded ==
  \A o, p \in Owner :
    Padded(mask[p]) =>
      \A i \in Between(mask[o]) :
        Contains(mask[p], i) /\ ~ Contains(mask[o], i)
          => ~ Contains(Reconcile(mask[o], mask[p]), i)

\* pop_count counts the ones between the bounds, from which the progress
\* reported to the main loop is computed.
PopCountExact ==
  \A o \in Owner :
    PopCount(mask[o]) = Cardinality({i \in Between(mask[o]) : Contains(mask[o], i)})

\* The union of two masks (bitor) acts bit by bit, whatever limbs the operands
\* happen to store.
UnionExact ==
  \A o, p \in Owner :
    Indices(BitOr(mask[o], mask[p])) = Indices(mask[o]) \cup Indices(mask[p])

\* The negation of a mask acts bit by bit between the bounds, and keeps what
\* lies below the lower bound.
ComplementExact ==
  \A o \in Owner :
    Indices(NotMask(mask[o])) = 0..(mask[o].lower_bound - 1)
                                \cup {i \in Between(mask[o]) : ~ Contains(mask[o], i)}

\* What RapidBlockDownload computes from the limbs of the masks is what the
\* sets of indices say: no index out of the deque, the lower bound, the blocks to ask a peer for, the
\* progress, the union and the negation.
OperationsExact ==
  /\ TypeOK /\ LowerBoundIsFirstZero
  /\ ReconcileSound /\ ReconcileCompleteIfPadded
  /\ PopCountExact
  /\ UnionExact /\ ComplementExact
===============================================================================
