------------------------------- MODULE Coverage -------------------------------
(* What a SynchronizationBitMask promises its users: a set of indices below   *)
(* an exclusive bound, in which some indices are present and some are not.    *)
(* RapidBlockDownload keeps one to know which blocks it has received.         *)
EXTENDS Integers, FiniteSets

\* A coverage: the indices present, and the exclusive upper bound.
NewCoverage(lower, upper) == [present |-> 0..(lower - 1), bound |-> upper]

Present(c, i)      == i \in c.present
Mark(c, i)         == [c EXCEPT !.present = @ \cup {i}]
MarkRange(c, a, b) == [c EXCEPT !.present = @ \cup a..b]
Widen(c, upper)    == [c EXCEPT !.bound = upper]
Missing(c)         == 0..(c.bound - 1) \ c.present
Complete(c)        == Missing(c) = {}
FirstMissing(c)    == CHOOSE i \in 0..c.bound :
                        i \notin c.present /\ \A j \in 0..(i - 1) : j \in c.present
===============================================================================
