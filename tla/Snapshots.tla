------------------------------ MODULE Snapshots ------------------------------
(***************************************************************************)
(* Balance snapshots and the balance at a time (database/balance.go,       *)
(* sql/1740493523.sql).  A snapshot run stamps every row with the time it  *)
(* began and then reads the balances batch by batch, each batch as it is   *)
(* at that moment; transactions commit in between.  GetBalanceAtTime adds  *)
(* to the latest snapshot the transactions that are effective after its    *)
(* stamp, or starts from nothing and adds them all.                        *)
(*                                                                         *)
(* All changes are those of transactions: a mutation plan (see Positions)  *)
(* changes credit and debit without a row, which an answer built from all  *)
(* transactions does not have.                                             *)
(***************************************************************************)
EXTENDS Integers, FiniteSets, FiniteSetsExt

CONSTANTS
  MaxBalances,   \* bound: balances; their ids are 1, 2, ...
  Transactions,  \* transactions
  Runs,          \* snapshot runs at work at the same time
  BatchSize,     \* balances of one batch
  Hours,         \* bound: the clock
  HoursPerDay,   \* length of a day
  None           \* no date, no run

VARIABLES
  now,           \* the database's clock
  count,         \* balances there are
  txn,           \* transactions: none, begun (in memory, uncommitted) or APPLIED
  book,          \* credit and debit of each balance
  snapshots,     \* rows of blnk.balance_snapshots
  run            \* what each snapshot run is doing

snapVars == <<now, count, txn, book, snapshots, run>>

SnapshotsAssumption ==
  /\ MaxBalances \in Nat \ {0} /\ Hours \in Nat \ {0} /\ HoursPerDay \in Nat \ {0}
  /\ BatchSize \in Nat \ {0}
  /\ IsFiniteSet(Transactions) /\ None \notin Nat

NoTxn == [status |-> "none", source |-> 0, destination |-> 0, created |-> 0, effective |-> None]
RunIdle == [stamp |-> None, last |-> 0, max |-> 0, rows |-> {}]
Balances == 1 .. count
NoFunds == [credit |-> 0, debit |-> 0]

SnapInit ==
  /\ now = 1 /\ count = 1
  /\ txn = [t \in Transactions |-> NoTxn]
  /\ book = [b \in 1 .. MaxBalances |-> NoFunds]
  /\ snapshots = {}
  /\ run = [r \in Runs |-> RunIdle]

Tick ==
  /\ now < Hours
  /\ now' = now + 1
  /\ UNCHANGED <<count, txn, book, snapshots, run>>

CreateBalance ==
  /\ count < MaxBalances
  /\ count' = count + 1
  /\ UNCHANGED <<now, txn, book, snapshots, run>>

------------------------------------------------------------------------------
\* A transaction gets its created_at, and the effective_date its client sent;
\* it is committed later.
BeginTransaction(t, s, d, date) ==
  /\ txn[t].status = "none" /\ s # d
  /\ txn' = [txn EXCEPT ![t] = [status |-> "begun", source |-> s, destination |-> d,
                                created |-> now, effective |-> date]]
  /\ UNCHANGED <<now, count, book, snapshots, run>>

\* The commit: the row and both balances (Execution has the details).  Every
\* transaction moves one unit.
CommitTransaction(t) ==
  /\ txn[t].status = "begun"
  /\ txn' = [txn EXCEPT ![t].status = "APPLIED"]
  /\ book' = [book EXCEPT ![txn[t].source].debit = @ + 1, ![txn[t].destination].credit = @ + 1]
  /\ UNCHANGED <<now, count, snapshots, run>>

------------------------------------------------------------------------------
Day(time) == time \div HoursPerDay

\* The first n of a set of ids, in order.
First(S, n) == {b \in S : Cardinality({c \in S : c < b}) < n}
Ahead(r) == {b \in Balances : b > run[r].last}

\* The stamp of all rows is NOW() at the start.
TakeBalanceSnapshots(r) ==
  /\ run[r] = RunIdle
  /\ run' = [run EXCEPT ![r] = [stamp |-> now, last |-> 0, max |-> count, rows |-> {}]]
  /\ UNCHANGED <<now, count, txn, book, snapshots>>

\* A row; has is a history: the transactions that the totals include.
SnapshotOf(b, time) ==
  [balance |-> b, book |-> book[b], time |-> time,
   has |-> {t \in Transactions : txn[t].status = "APPLIED" /\ b \in {txn[t].source, txn[t].destination}}]

\* The function is one SQL transaction: it sees what others committed, and
\* its own rows.
SnapshotToday(b, r) ==
  \E s \in snapshots \cup run[r].rows : s.balance = b /\ Day(s.time) = Day(run[r].stamp)

\* Faulty: of the next ids, the ones without a snapshot of today.
BatchOfNext(r) == {b \in First(Ahead(r), BatchSize) : ~SnapshotToday(b, r)}

\* The first balances after the last id that have no snapshot of today.
Batch(r) == First({b \in Ahead(r) : ~SnapshotToday(b, r)}, BatchSize)

\* One turn of the loop: a batch is read as it is now, and the loop goes on
\* behind the next BatchSize ids, whichever of them were taken.  The last turn
\* commits.
NextBatch(r) ==
  LET taken == Batch(r)
      last == Max(First(Ahead(r), BatchSize))
      rows == run[r].rows \cup {SnapshotOf(b, run[r].stamp) : b \in taken}
      ends == taken = {} \/ last >= run[r].max
  IN
  /\ run[r].stamp # None
  /\ snapshots' = IF ends THEN snapshots \cup rows ELSE snapshots
  /\ run' = [run EXCEPT ![r] = IF ends THEN RunIdle ELSE [run[r] EXCEPT !.last = last, !.rows = rows]]
  /\ UNCHANGED <<now, count, txn, book>>

\* An error, or the death of the process, takes the run's rows with it.
RunFails(r) ==
  /\ run[r].stamp # None
  /\ run' = [run EXCEPT ![r] = RunIdle]
  /\ UNCHANGED <<now, count, txn, book, snapshots>>

------------------------------------------------------------------------------
\* effective_date, or created_at.
EffectiveDate(t) == IF txn[t].effective = None THEN txn[t].created ELSE txn[t].effective

\* Faulty: a transaction at the very time of the snapshot is fetched too.
FetchTransactionsFrom(b, start, target) ==
  {t \in Transactions :
     /\ txn[t].status = "APPLIED" /\ b \in {txn[t].source, txn[t].destination}
     /\ EffectiveDate(t) >= start /\ EffectiveDate(t) <= target}

FetchTransactions(b, start, target) ==
  {t \in Transactions :
     /\ txn[t].status = "APPLIED" /\ b \in {txn[t].source, txn[t].destination}
     /\ EffectiveDate(t) > start /\ EffectiveDate(t) <= target}

\* applyTransaction over the transactions fetched.
Added(initial, b, txns) ==
  [credit |-> initial.credit + Cardinality({t \in txns : txn[t].destination = b}),
   debit |-> initial.debit + Cardinality({t \in txns : txn[t].source = b})]

\* The snapshots that ORDER BY snapshot_time DESC may put first: two runs of
\* one moment leave equals.
MostRecentSnapshots(b, target) ==
  LET past == {s \in snapshots : s.balance = b /\ s.time <= target} IN
  IF past = {} THEN {[balance |-> b, book |-> NoFunds, time |-> 0, has |-> {}]}
  ELSE {s \in past : \A other \in past : other.time <= s.time}

\* GetBalanceAtTime from a snapshot, and from all transactions.
AtTime(b, target, s) == Added(s.book, b, FetchTransactions(b, s.time, target))
FromSource(b, target) == Added(NoFunds, b, FetchTransactions(b, 0, target))

------------------------------------------------------------------------------
SnapNext ==
  \/ Tick \/ CreateBalance
  \/ \E t \in Transactions :
       \/ \E s, d \in Balances, date \in (1 .. Hours) \cup {None} : BeginTransaction(t, s, d, date)
       \/ CommitTransaction(t)
  \/ \E r \in Runs : TakeBalanceSnapshots(r) \/ NextBatch(r) \/ RunFails(r)

SnapSpec == SnapInit /\ [][SnapNext]_snapVars

------------------------------------------------------------------------------
\* The rows are well formed, and no run has passed its last balance.
SnapTypeOK ==
  /\ now \in 1 .. Hours /\ count \in 1 .. MaxBalances
  /\ \A t \in Transactions : txn[t].status \in {"none", "begun", "APPLIED"}
  /\ \A b \in Balances : book[b].credit \in Nat /\ book[b].debit \in Nat
  /\ \A s \in snapshots : s.balance \in Balances /\ s.time \in 1 .. Hours
  /\ \A r \in Runs : run[r].stamp # None => run[r].last < run[r].max

\* Transactions that a snapshot has although they are effective after its
\* stamp (future-dated, or committed between the stamp and the read), and ones
\* that it lacks although they are effective before (back-dated, or committed
\* late).
TooEarly(s) == {t \in s.has : EffectiveDate(t) > s.time}
TooLate(s) == FetchTransactions(s.balance, 0, s.time) \ s.has

\* The balance at a time that GetBalanceAtTime builds on the latest snapshot
\* and the one it builds from all transactions differ by exactly the
\* transactions that the stamp puts on the wrong side of the snapshot, and by
\* nothing that batches, concurrent runs or the bounds of the queries add.
AnswersDifferByStraddlers ==
  \A b \in Balances, target \in 1 .. Hours :
    \A s \in MostRecentSnapshots(b, target) :
      LET snap == AtTime(b, target, s)
          all == FromSource(b, target)
          Count(S, end) == Cardinality({t \in S : txn[t][end] = b})
      IN
      /\ snap.credit - all.credit = Count(TooEarly(s), "destination") - Count(TooLate(s), "destination")
      /\ snap.debit - all.debit = Count(TooEarly(s), "source") - Count(TooLate(s), "source")

EndsWhenCovered ==
  \A r \in Runs :
    NextBatch(r) /\ run'[r] = RunIdle =>
      \A b \in 1 .. run[r].max :
        \E s \in snapshots' : s.balance = b /\ Day(s.time) = Day(run[r].stamp)

\* A run that ends has left no balance that was there when it began without a
\* snapshot of that day, whichever had one already and whatever other runs do
\* (take_daily_balance_snapshots_batched).
RunsCoverAllBalances == [][EndsWhenCovered]_snapVars
==============================================================================
