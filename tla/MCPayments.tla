----------------------------- MODULE MCPayments -----------------------------
(***************************************************************************)
(* Transactions before and in blocks, in one run: the mempool and the      *)
(* ledger.  `part' says which of them moves and never changes, so the run  *)
(* explores their disjoint union.                                          *)
(***************************************************************************)
EXTENDS Mempool, Ledger

-----------------------------------------------------------------------------
(* The mempool on two transactions a and b, their merger m, a double spend *)
(* d of b's input that pays more, and n, without inputs.  Block b1 spends  *)
(* what a spends; x1 competes with b1 and spends what b and d spend.       *)

MCBlock == {"g", "b1", "x1"}
MCChain == [b \in MCBlock |-> CASE b = "g"  -> <<"g">>
                                [] b = "b1" -> <<"g", "b1">>
                                [] b = "x1" -> <<"g", "x1">>]
MCSpends == [b \in MCBlock |-> CASE b = "b1" -> {1} [] b = "x1" -> {2} [] OTHER -> {}]

MCTxId == {"a", "b", "m", "d", "n"}
MCKernel ==
  [i \in MCTxId |->
     CASE i = "a" -> [inputs |-> {1}, outputs |-> {1}, merge |-> FALSE, time |-> 1]
       [] i = "b" -> [inputs |-> {2}, outputs |-> {2}, merge |-> FALSE, time |-> 1]
       [] i = "m" -> [inputs |-> {1, 2}, outputs |-> {1, 2}, merge |-> TRUE, time |-> 1]
       [] i = "d" -> [inputs |-> {2}, outputs |-> {3}, merge |-> FALSE, time |-> 1]
       [] i = "n" -> [inputs |-> {}, outputs |-> {}, merge |-> FALSE, time |-> 2]]

Of(i, q, b) == [id |-> i, proof |-> q, ms |-> b]
MCTx == {Of("a", "single", "g"), Of("b", "collection", "g"), Of("b", "single", "g"),
         Of("b", "single", "b1"), Of("m", "single", "g"), Of("d", "collection", "g"),
         Of("n", "single", "g")}

Fee == [i \in MCTxId |-> CASE i = "d" -> 4 [] i = "m" -> 3 [] i = "n" -> 1 [] OTHER -> 2]
MCDensity == [t \in MCTx |-> IF t.proof = "single" THEN 2 * Fee[t.id] ELSE Fee[t.id] + 3]

-----------------------------------------------------------------------------
(* The ledger on a premine of three UTXOs: one liquid, one time locked,    *)
(* one burnt.  The drafts are the transactions a verifier meets: a         *)
(* coinbase (above the subsidy from the second block on), an empty         *)
(* transaction to merge with, spends that balance and spends that do not,  *)
(* an input named twice, an input of a later block, fees of both signs,    *)
(* spends of the locked UTXO before and after its release, and of the      *)
(* burnt one.                                                              *)

U(amount, release) == [amount |-> amount, release |-> release, lock |-> "hash"]

MCGenesis == << U(2, 0), U(4, 2), [amount |-> 1, release |-> 0, lock |-> "burn"] >>

Draft(ins, outs, fee, coinbase, timestamp) ==
    [ins |-> ins, outs |-> outs, fee |-> fee, coinbase |-> coinbase, timestamp |-> timestamp]

MCDrafts ==
    { Draft(<<>>, <<>>, 0, NoCoinbase, 1),
      Draft(<<>>, <<U(1, 3)>>, 1, 2, 1),
      Draft(<<1>>, <<U(1, 0)>>, 1, NoCoinbase, 1),
      Draft(<<1>>, <<U(3, 0)>>, -1, NoCoinbase, 1),
      Draft(<<1>>, <<U(3, 0)>>, 0, NoCoinbase, 1),
      Draft(<<1, 1>>, <<U(4, 0)>>, 0, NoCoinbase, 1),
      Draft(<<2>>, <<U(4, 0)>>, 0, NoCoinbase, 2),
      Draft(<<2>>, <<U(4, 0)>>, 0, NoCoinbase, 3),
      Draft(<<3>>, <<U(1, 0)>>, 0, NoCoinbase, 1),
      Draft(<<4>>, <<>>, 1, NoCoinbase, 1) }

MCSubsidies == <<2>>

-----------------------------------------------------------------------------
VARIABLE part

MCInit == Init /\ LInit /\ part \in {"mempool", "ledger"}

\* The bounds end the ledger's behaviours; the mempool never stops.
LedgerRests == UNCHANGED ledgerVars

MCNext ==
    /\ UNCHANGED part
    /\ \/ part = "mempool" /\ Next /\ UNCHANGED ledgerVars
       \/ part = "ledger" /\ (LNext \/ LedgerRests) /\ UNCHANGED vars

MCSpec == MCInit /\ [][MCNext]_<<vars, ledgerVars, part>>
=============================================================================
