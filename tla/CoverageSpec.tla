----------------------------- MODULE CoverageSpec -----------------------------
(* The abstract specification of a pair of coverages: each starts with no     *)
(* index from 1 on, gains indices below its bound, and its bound only grows.  *)
EXTENDS Coverage

CONSTANTS Owner, MaxBound

VARIABLE cover

Init == cover \in [Owner -> {NewCoverage(1, u) : u \in 2..MaxBound}]

Gain(o) == \E i \in 0..(cover[o].bound - 1) :
              cover' = [cover EXCEPT ![o] = Mark(@, i)]

GainRange(o) == \E b \in FirstMissing(cover[o])..(cover[o].bound - 1) :
                  \E a \in FirstMissing(cover[o])..b :
                    cover' = [cover EXCEPT ![o] = MarkRange(@, a, b)]

Grow(o) == \E u \in cover[o].bound..MaxBound :
              cover' = [cover EXCEPT ![o] = Widen(@, u)]

Next == \E o \in Owner : Gain(o) \/ GainRange(o) \/ Grow(o)
Spec == Init /\ [][Next]_cover
===============================================================================
