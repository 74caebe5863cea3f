----------------------------- MODULE AddressBook -----------------------------
(***************************************************************************)
(* The address book (network/address_book.rs): which peers it remembers,    *)
(* which it forgets when it is full, which it dials first, and what is left *)
(* of it when the program stops while it is being saved.                    *)
(***************************************************************************)
EXTENDS Integers, FiniteSets

CONSTANTS BookPeer, MaxSize, MaxFails, MaxClock,
          Window,    \* how long ago a peer seen "recently" was last seen (ten minutes)
          NoEntry

(* A Peer of the book: when it was seen first and last, and its failures.   *)
BookEntry == [first : Nat, last : Nat, fails : Nat]

ASSUME BookAssumption == Window \in Nat /\ NoEntry \notin BookEntry

VARIABLES
    clock,
    entry,    \* book: first_seen, last_seen and fail_count of a peer, or NoEntry
    file,     \* the file's content as a book, or NoEntry when it cannot be read
    saving    \* File::create has truncated the file, the book is not written yet

bvars == <<clock, entry, file, saving>>

Empty == [p \in BookPeer |-> NoEntry]
Known(b) == {p \in BookPeer : b[p] # NoEntry}

(* MUTANT: failures count in a peer's favour                                *)
BetterByFailures(b, p, q) ==
    LET r(x) == b[x].last >= clock - Window
    IN \/ r(p) /\ ~r(q)
       \/ r(p) = r(q) /\ b[p].fails > b[q].fails

(* PeerScore: recent, then fewer failures, then the longer lifespan.        *)
Better(b, p, q) ==
    LET recent(x) == b[x].last >= clock - Window
        life(x) == b[x].last - b[x].first
    IN \/ recent(p) /\ ~recent(q)
       \/ /\ recent(p) = recent(q)
          /\ \/ b[p].fails < b[q].fails
             \/ b[p].fails = b[q].fails /\ life(p) > life(q)

(* The k best peers of a book; peers that score the same are kept in any    *)
(* order.                                                                   *)
Bests(b, k) ==
    {S \in SUBSET Known(b) :
        /\ Cardinality(S) = (IF k < Cardinality(Known(b)) THEN k ELSE Cardinality(Known(b)))
        /\ \A p \in S, q \in Known(b) \ S : ~Better(b, q, p)}

(* insert_or_update, for an announcement with a global address that fits    *)
(* the limits, and prune_to_length right after it.                          *)
InsertOrUpdate(p) ==
    /\ ~saving
    /\ LET b == [entry EXCEPT ![p] = IF @ = NoEntry
                                     THEN [first |-> clock, last |-> clock, fails |-> 0]
                                     ELSE [@ EXCEPT !.last = clock]]
       IN \E S \in Bests(b, MaxSize) :
             entry' = [q \in BookPeer |-> IF q \in S THEN b[q] ELSE NoEntry]
    /\ UNCHANGED <<clock, file, saving>>

(* bump_fail_count and reset_fail_count.                                    *)
BumpFailCount(p) ==
    /\ ~saving /\ entry[p] # NoEntry /\ entry[p].fails < MaxFails
    /\ entry' = [entry EXCEPT ![p].fails = @ + 1]
    /\ UNCHANGED <<clock, file, saving>>
ResetFailCount(p) ==
    /\ ~saving /\ entry[p] # NoEntry
    /\ entry' = [entry EXCEPT ![p].fails = 0]
    /\ UNCHANGED <<clock, file, saving>>

(* save_to_disk: the file is created anew, then written.                    *)
SaveBegin ==
    /\ ~saving /\ saving' = TRUE /\ file' = NoEntry
    /\ UNCHANGED <<clock, entry>>
SaveEnd ==
    /\ saving /\ saving' = FALSE /\ file' = entry
    /\ UNCHANGED <<clock, entry>>

(* The program ends and starts again: load_or_new, or an empty book when    *)
(* the file cannot be read.                                                 *)
Reopen ==
    /\ entry' = (IF file = NoEntry THEN Empty ELSE file)
    /\ saving' = FALSE
    /\ UNCHANGED <<clock, file>>

Tick == clock < MaxClock /\ clock' = clock + 1 /\ UNCHANGED <<entry, file, saving>>

BInit == clock = 0 /\ entry = Empty /\ file = Empty /\ saving = FALSE
BNext ==
    \/ \E p \in BookPeer : InsertOrUpdate(p) \/ BumpFailCount(p) \/ ResetFailCount(p)
    \/ SaveBegin \/ SaveEnd \/ Reopen \/ Tick

BSpec == BInit /\ [][BNext]_bvars

-----------------------------------------------------------------------------

Good(b, p) == b[p].last >= clock - Window /\ b[p].fails = 0

(* A peer that was seen recently and never failed is not pruned to make     *)
(* room while a peer that is out of touch or failing stays in the book.     *)
GoodPeersStay ==
    [][\A x \in BookPeer : InsertOrUpdate(x) =>
          \A p \in Known(entry) \ Known(entry') :
             Good(entry, p) => \A q \in Known(entry') : Good(entry', q)]_bvars
=============================================================================
