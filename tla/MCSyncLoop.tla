------------------------------ MODULE MCSyncLoop ------------------------------
(* Instances of SyncLoop: one chain, or two that part at the genesis block.   *)
EXTENDS SyncLoop

As == <<"g", "a1", "a2">>
Bs == <<"g", "b1", "b2">>
UpTo(line, b) == SubSeq(line, 1, CHOOSE n \in DOMAIN line : line[n] = b)

TwoHigh   == {"g", "a1", "a2"}
Forked    == {"g", "a1", "b1", "b2"}
TwoHighChain   == [b \in TwoHigh |-> UpTo(As, b)]
ForkedChain    == [b \in Forked |-> IF b \in {"b1", "b2"} THEN UpTo(Bs, b) ELSE UpTo(As, b)]

BothAtA1  == [p \in Peer |-> "a1"]
Divided   == [p \in Peer |-> IF p = "p" THEN "a1" ELSE "b1"]
===============================================================================
