-------------------------------- MODULE Ledger --------------------------------
(***************************************************************************)
(* What recording a transaction promises, without locks, reads, versions   *)
(* or workers: a transaction is posted in one step, from the balances as   *)
(* they are at that step, and at most once per reference.  Execution is    *)
(* shown to implement this specification.                                  *)
(***************************************************************************)
EXTENDS BalanceMath, FiniteSetsExt

CONSTANTS
  Balances,      \* balance identifiers, ordered as their strings are
  Requests       \* the transactions clients ask to record

\* The fields of a transaction that its execution looks at.
Transactions ==
  [ref : STRING, source : Balances, destination : Balances, amount : Nat,
   status : {"QUEUED", "COMMIT", "VOID"}, inflight : BOOLEAN,
   allowOverdraft : BOOLEAN, overdraftLimit : Nat]

ASSUME LedgerAssumption ==
  /\ Balances \subseteq Nat
  /\ Requests \subseteq Transactions
  /\ \A r \in Requests : r.inflight => r.status = "QUEUED"

VARIABLES
  balances,      \* blnk.balances
  rows           \* blnk.transactions: what was recorded, and with which status

ledgerVars == <<balances, rows>>

Row(r) == [txn |-> r, status |-> RecordedStatus(r)]

Recorded(ref) == \E row \in rows : row.txn.ref = ref

LedgerInit ==
  /\ balances = [b \in Balances |-> NewBalance]
  /\ rows = {}

Post(r) ==
  /\ ~Recorded(r.ref)
  /\ r.source # r.destination
  /\ Applicable(r, balances[r.source], balances[r.destination], 0)
  /\ balances' = [balances EXCEPT
                    ![r.source] = Debit(r, @),
                    ![r.destination] = Credit(r, @)]
  /\ rows' = rows \cup {Row(r)}

LedgerNext == \E r \in Requests : Post(r)

LedgerSpec == LedgerInit /\ [][LedgerNext]_ledgerVars

------------------------------------------------------------------------------
LedgerTypeOK ==
  /\ balances \in [Balances -> Amounts]
  /\ rows \subseteq {Row(r) : r \in Requests}

\* Balance b is covered, or overdrawn within the limit of one of its debits.
Covered(b) ==
  \/ Available(balances[b], 0) >= 0
  \/ \E r \in Requests : /\ r.source = b
                         /\ r.overdraftLimit > 0
                         /\ Available(balances[b], 0) >= -r.overdraftLimit

\* No interleaving of postings, holds, commits and voids takes a balance below
\* what canProcessTransaction allows: a balance from which nobody may overdraw
\* without limit stays covered, or within the limit of one of its debits.
NoUnauthorisedOverdraft ==
  \A b \in Balances :
    (\A r \in Requests : r.source = b => ~UnlimitedOverdraft(r)) => Covered(b)

\* The pooled holds of a balance never go below zero, whatever commits and
\* voids race for them (checkSufficientInflightDebit and ...Credit look at a
\* balance that was read earlier).
HoldsNeverNegative ==
  \A b \in Balances :
    /\ balances[b].inflightDebit >= 0
    /\ balances[b].inflightCredit >= 0

\* A hold counts until it is committed or voided.
PostedRows == {row \in rows : row.status = "APPLIED"}
HoldRows == {row \in rows : row.status = "INFLIGHT"}
ResolvingRows == {row \in rows : Resolves(row.txn)}

\* The rows of S that debit or credit balance b, and what rows add up to.
From(S, b) == {row \in S : row.txn.source = b}
To(S, b) == {row \in S : row.txn.destination = b}
Total(S) == MapThenSumSet(LAMBDA row : row.txn.amount, S)

\* The balances are exactly what the recorded transactions add up to, in every
\* state: no update is lost and none is applied twice, although a lock may
\* expire under a worker that has read its balances and not yet persisted
\* (transaction_execution.go, recordTransactionSingle; updateBalance's version).
BalancesMatchRows ==
  \A b \in Balances :
    balances[b] =
      [credit |-> Total(To(PostedRows, b)),
       debit |-> Total(From(PostedRows, b)),
       inflightCredit |-> Total(To(HoldRows, b)) - Total(To(ResolvingRows, b)),
       inflightDebit |-> Total(From(HoldRows, b)) - Total(From(ResolvingRows, b))]
==============================================================================
