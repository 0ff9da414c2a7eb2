----------------------------- MODULE MCExecution -----------------------------
(***************************************************************************)
(* Execution for TLC.  Balance 1 is the outside world, which may overdraw; *)
(* 2 and 3 are accounts.  The requests compete for the funds of 2, for the *)
(* same hold and for the same reference.                                   *)
(***************************************************************************)
EXTENDS Execution

Txn(ref, source, destination, amount) ==
  [ref |-> ref, source |-> source, destination |-> destination,
   amount |-> amount, status |-> "QUEUED", inflight |-> FALSE,
   allowOverdraft |-> source = 1, overdraftLimit |-> 0]

Fund == Txn("fund", 1, 2, 2)
Pay == Txn("pay", 2, 3, 2)
PaySameReference == Txn("pay", 2, 3, 1)
Spend == [Txn("spend", 3, 2, 1) EXCEPT !.overdraftLimit = 1]

Hold == [Txn("hold", 1, 2, 2) EXCEPT !.inflight = TRUE]
Commit == [Txn("commit", 1, 2, 2) EXCEPT !.status = "COMMIT"]
Void == [Txn("void", 1, 2, 1) EXCEPT !.status = "VOID"]

PaymentRequests == {Fund, Pay, PaySameReference, Spend}
HoldRequests == {Hold, Commit, Void, Spend, Pay}
==============================================================================
