-------------------------------- MODULE Forks --------------------------------
(***************************************************************************)
(* The blocks nodes may come to know, as a tree, and the rule by which a   *)
(* node prefers one tip to another (consensus/src/block/mod.rs).           *)
(***************************************************************************)
EXTENDS Naturals

CONSTANTS Tree,     \* blocks, with Genesis
          Genesis,
          Parent,   \* [Tree \ {Genesis} -> Tree]
          Height,   \* [Tree -> Nat]
          Pow,      \* cumulative proof-of-work, [Tree -> Nat]
          NoInputs, \* blocks whose transaction has no inputs
          NoBlock

ASSUME TreeAssumption ==
    /\ Genesis \in Tree /\ NoBlock \notin Tree
    /\ Parent \in [Tree \ {Genesis} -> Tree]
    /\ Height \in [Tree -> Nat] /\ Pow \in [Tree -> Nat]
    /\ Height[Genesis] = 0
    /\ \A b \in Tree \ {Genesis} : Height[b] = Height[Parent[b]] + 1 /\ Pow[b] > Pow[Parent[b]]

\* A set of blocks that holds the parent of each of its blocks.
Closed(S) == \A c \in S \ {Genesis} : Parent[c] \in S

\* A block and the blocks on the way from it down to genesis: what every closed
\* set with the block holds.
Ancestors == [b \in Tree |-> {a \in Tree : \A S \in SUBSET Tree : b \in S /\ Closed(S) => a \in S}]

\* Block::fork_choice_rule.
ForkChoice(current, incoming) ==
    IF Height[current] # Height[incoming]
    THEN IF Pow[current] >= Pow[incoming] THEN current ELSE incoming
    ELSE IF current \in NoInputs THEN incoming ELSE current

\* incoming_block_is_more_canonical.
MoreCanonical(current, incoming) == ForkChoice(current, incoming) # current
=============================================================================
