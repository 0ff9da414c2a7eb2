----------------------------- MODULE BalanceMath -----------------------------
(***************************************************************************)
(* The arithmetic of one transaction on its two balances (model/model.go   *)
(* and applyTransactionToBalances).  Amounts are precise amounts: big.Int  *)
(* in the code, integers here.                                             *)
(*                                                                         *)
(* A transaction names its source and destination balance.  Its status on  *)
(* arrival selects what is done to the balances:                           *)
(*   "QUEUED"  an ordinary posting, or a hold when .inflight is set (the   *)
(*             statuses APPLIED and SCHEDULED are treated alike)           *)
(*   "COMMIT"  turns held funds into posted ones                           *)
(*   "VOID"    gives held funds back                                       *)
(* The columns balance and inflight_balance are recomputed as credit minus *)
(* debit by every operation below, so they are derived, not stored.        *)
(***************************************************************************)
EXTENDS Integers

Amounts == [credit : Int, debit : Int, inflightCredit : Int, inflightDebit : Int]

NewBalance ==
  [credit |-> 0, debit |-> 0, inflightCredit |-> 0, inflightDebit |-> 0]

\* canProcessTransaction's available balance; queued is the queued debit
\* that is also set aside when enable_queued_checks is on, 0 otherwise.
Available(b, queued) == b.credit - b.debit - b.inflightDebit - queued

\* An unconditional overdraft skips every balance check.
UnlimitedOverdraft(t) == t.allowOverdraft /\ t.overdraftLimit = 0

\* Faulty: the limit, 0 without one, is compared with the balance before the
\* debit.
CanProcessBeforeDebit(t, b, queued) ==
  \/ UnlimitedOverdraft(t)
  \/ Available(b, queued) >= t.amount
  \/ Available(b, queued) >= -t.overdraftLimit

\* A limit is honoured whether or not allow_overdraft is set.
CanProcessTransaction(t, b, queued) ==
  \/ UnlimitedOverdraft(t)
  \/ Available(b, queued) >= t.amount
  \/ /\ t.overdraftLimit > 0
     /\ Available(b, queued) - t.amount >= -t.overdraftLimit

Resolves(t) == t.status \in {"COMMIT", "VOID"}

\* Faulty: a void does not look at the pooled holds.
ApplicableVoid(t, source, destination, queued) ==
  CASE t.status = "VOID" -> TRUE
    [] t.status = "COMMIT" -> /\ source.inflightDebit >= t.amount
                              /\ destination.inflightCredit >= t.amount
    [] OTHER -> t.amount > 0 /\ CanProcessTransaction(t, source, queued)

\* applyTransactionToBalances returns no error.  A commit or a void only
\* looks at the pooled holds of the two balances.
Applicable(t, source, destination, queued) ==
  IF Resolves(t)
  THEN /\ source.inflightDebit >= t.amount
       /\ destination.inflightCredit >= t.amount
  ELSE /\ t.amount > 0
       /\ CanProcessTransaction(t, source, queued)

addDebit(b, amount, inflight) ==
  IF inflight THEN [b EXCEPT !.inflightDebit = @ + amount]
  ELSE [b EXCEPT !.debit = @ + amount]

addCredit(b, amount, inflight) ==
  IF inflight THEN [b EXCEPT !.inflightCredit = @ + amount]
  ELSE [b EXCEPT !.credit = @ + amount]

CommitInflightDebit(b, amount) ==
  [b EXCEPT !.inflightDebit = @ - amount, !.debit = @ + amount]

\* Faulty: a commit posts the credit and keeps the hold.
CommitCreditKeepingHold(b, amount) == [b EXCEPT !.credit = @ + amount]

CommitInflightCredit(b, amount) ==
  [b EXCEPT !.inflightCredit = @ - amount, !.credit = @ + amount]

RollbackInflightDebit(b, amount) == [b EXCEPT !.inflightDebit = @ - amount]

RollbackInflightCredit(b, amount) == [b EXCEPT !.inflightCredit = @ - amount]

\* What applyTransactionToBalances does to the source.
Debit(t, b) ==
  CASE t.status = "COMMIT" -> CommitInflightDebit(b, t.amount)
    [] t.status = "VOID" -> RollbackInflightDebit(b, t.amount)
    [] OTHER -> addDebit(b, t.amount, t.inflight)

\* What applyTransactionToBalances does to the destination.
Credit(t, b) ==
  CASE t.status = "COMMIT" -> CommitInflightCredit(b, t.amount)
    [] t.status = "VOID" -> RollbackInflightCredit(b, t.amount)
    [] OTHER -> addCredit(b, t.amount, t.inflight)

\* updateTransactionDetails: the status the transaction is recorded with.
RecordedStatus(t) ==
  IF t.inflight THEN "INFLIGHT"
  ELSE IF t.status = "VOID" THEN "VOID" ELSE "APPLIED"
==============================================================================
