------------------------------- MODULE Monitors -------------------------------
(***************************************************************************)
(* Balance monitors (balance.go): rows in the database, and the list of a  *)
(* balance's monitors in a cache that every executed transaction reads.  A *)
(* change writes the row and then deletes the cached list of one balance;  *)
(* a reader that misses the cache reads the rows and then fills it.  The   *)
(* steps of writers and readers interleave, keys expire, writers die.      *)
(* Writers and readers are calls of one server process, whose local copy   *)
(* of a key is deleted with the shared one; the copies that other          *)
(* processes keep for up to a minute are left out.                         *)
(***************************************************************************)
EXTENDS Integers

CONSTANTS
  MonitorIds,    \* monitors
  Watched,       \* balances
  Thresholds,    \* values of conditions, in precise units
  Totals,        \* what a balance may be
  Operators,     \* operators of conditions
  Writers,       \* API calls that change monitors
  Readers,       \* post-transaction checks
  Missing,       \* no monitor, no balance, no cached list
  MaxDeaths      \* bound: writers that die

VARIABLES
  monitor,       \* rows of blnk.balance_monitors
  cached,        \* "monitors:<balance>": a list, or Missing
  outdated,      \* history: balances whose cached list was left out of date
  writer,        \* the balance whose list a writer is about to delete
  reader,        \* the balance a reader checks, and the list it has read
  check,         \* history: the last check of a balance, and the alerts it sent
  deaths

monitorVars == <<monitor, cached, outdated, writer, reader, check, deaths>>

Resting == [balance |-> Missing, list |-> Missing]
Conditions == [balance : Watched, operator : Operators, value : Thresholds, precise : Thresholds]
MonitorsAssumption == Missing \notin Watched \cup Conditions /\ MaxDeaths \in Nat

Existing == {m \in MonitorIds : monitor[m] # Missing}

\* GetBalanceMonitors: the rows of a balance.
GetBalanceMonitors(b) == {[id |-> m, row |-> monitor[m]] : m \in {x \in Existing : monitor[x].balance = b}}

GetMonitorByID(m) == monitor[m]

MonitorInit ==
  /\ monitor = [m \in MonitorIds |-> Missing]
  /\ cached = [b \in Watched |-> Missing]
  /\ outdated = {}
  /\ writer = [w \in Writers |-> Missing]
  /\ reader = [r \in Readers |-> Resting]
  /\ check = [balance |-> Missing, amount |-> 0, alerts |-> {}]
  /\ deaths = 0

------------------------------------------------------------------------------
\* The row that is inserted.
Inserted(b, operator, value, precise) ==
  [balance |-> b, operator |-> operator, value |-> value, precise |-> precise]

\* CreateMonitor: the value is stored in precise units too.
CreateMonitor(w, m, b, operator, value) ==
  /\ writer[w] = Missing /\ monitor[m] = Missing
  /\ monitor' = [monitor EXCEPT ![m] = Inserted(b, operator, value, value)]
  /\ writer' = [writer EXCEPT ![w] = b]
  /\ UNCHANGED <<cached, outdated, reader, check, deaths>>

\* UpdateMonitor: the client names the balance; a monitor that moves leaves
\* the list of the balance it was at.  precise_value is not written.
UpdateMonitor(w, m, b, operator, value) ==
  /\ writer[w] = Missing /\ monitor[m] # Missing
  /\ monitor' = [monitor EXCEPT ![m] = [@ EXCEPT !.balance = b, !.operator = operator, !.value = value]]
  /\ outdated' = IF monitor[m].balance # b THEN outdated \cup {monitor[m].balance} ELSE outdated
  /\ writer' = [writer EXCEPT ![w] = b]
  /\ UNCHANGED <<cached, reader, check, deaths>>

\* Faulty: the cached list of a deleted monitor's balance is left.
DeleteMonitorOnly(w, m) ==
  /\ writer[w] = Missing /\ monitor[m] # Missing
  /\ monitor' = [monitor EXCEPT ![m] = Missing]
  /\ UNCHANGED <<cached, outdated, writer, reader, check, deaths>>

\* DeleteMonitor reads the row for its balance and deletes it.
DeleteMonitor(w, m) ==
  /\ writer[w] = Missing /\ monitor[m] # Missing
  /\ monitor' = [monitor EXCEPT ![m] = Missing]
  /\ writer' = [writer EXCEPT ![w] = GetMonitorByID(m).balance]
  /\ UNCHANGED <<cached, outdated, reader, check, deaths>>

\* cache.Delete ends the change.
DeleteCached(w) ==
  /\ writer[w] # Missing
  /\ cached' = [cached EXCEPT ![writer[w]] = Missing]
  /\ outdated' = outdated \ {writer[w]}
  /\ writer' = [writer EXCEPT ![w] = Missing]
  /\ UNCHANGED <<monitor, reader, check, deaths>>

\* The process dies, or Redis is away (the error is dropped): the list stays.
DeleteCachedFails(w) ==
  /\ writer[w] # Missing /\ deaths < MaxDeaths
  /\ outdated' = outdated \cup {writer[w]}
  /\ writer' = [writer EXCEPT ![w] = Missing]
  /\ deaths' = deaths + 1
  /\ UNCHANGED <<monitor, cached, reader, check>>

------------------------------------------------------------------------------
\* An unknown operator is never met.
Compare(x, operator, y) ==
  CASE operator = ">" -> x > y
    [] operator = "<" -> x < y
    [] operator = ">=" -> x >= y
    [] operator = "<=" -> x <= y
    [] operator = "!=" -> x # y
    [] operator = "==" -> x = y
    [] OTHER -> FALSE

\* CheckCondition compares with precise_value.
CheckCondition(row, amount) == Compare(amount, row.operator, row.precise)

\* checkBalanceMonitors: an alert for each monitor of the list that is met.
CheckBalanceMonitors(b, list, amount) ==
  [balance |-> b, amount |-> amount, alerts |-> {a \in list : CheckCondition(a.row, amount)}]

\* A transaction on b is done: the cached list serves the check.
CheckCached(r, b) ==
  /\ reader[r] = Resting /\ cached[b] # Missing
  /\ \E amount \in Totals : check' = CheckBalanceMonitors(b, cached[b], amount)
  /\ UNCHANGED <<monitor, cached, outdated, writer, reader, deaths>>

\* A miss: the rows are read...
ReadMonitors(r, b) ==
  /\ reader[r] = Resting /\ cached[b] = Missing
  /\ reader' = [reader EXCEPT ![r] = [balance |-> b, list |-> GetBalanceMonitors(b)]]
  /\ UNCHANGED <<monitor, cached, outdated, writer, check, deaths>>

\* ...and cached, whatever has become of them, and checked.
FillCached(r) ==
  LET b == reader[r].balance
      list == reader[r].list
  IN
  /\ b # Missing
  /\ cached' = [cached EXCEPT ![b] = list]
  /\ outdated' = IF list = GetBalanceMonitors(b) THEN outdated \ {b} ELSE outdated \cup {b}
  /\ reader' = [reader EXCEPT ![r] = Resting]
  /\ \E amount \in Totals : check' = CheckBalanceMonitors(b, list, amount)
  /\ UNCHANGED <<monitor, writer, deaths>>

\* Five minutes later.
ExpireCached(b) ==
  /\ cached[b] # Missing
  /\ cached' = [cached EXCEPT ![b] = Missing]
  /\ outdated' = outdated \ {b}
  /\ UNCHANGED <<monitor, writer, reader, check, deaths>>

------------------------------------------------------------------------------
Change(w, m) ==
  \/ \E b \in Watched, operator \in Operators, value \in Thresholds :
       CreateMonitor(w, m, b, operator, value) \/ UpdateMonitor(w, m, b, operator, value)
  \/ DeleteMonitor(w, m)

MonitorNext ==
  \/ \E w \in Writers : (\E m \in MonitorIds : Change(w, m)) \/ DeleteCached(w) \/ DeleteCachedFails(w)
  \/ \E r \in Readers : FillCached(r) \/ \E b \in Watched : CheckCached(r, b) \/ ReadMonitors(r, b)
  \/ \E b \in Watched : ExpireCached(b)

MonitorSpec == MonitorInit /\ [][MonitorNext]_monitorVars

------------------------------------------------------------------------------
\* Rows and calls are well formed.
MonitorsTypeOK ==
  /\ monitor \in [MonitorIds -> Conditions \cup {Missing}]
  /\ outdated \subseteq Watched
  /\ writer \in [Writers -> Watched \cup {Missing}]
  /\ \A r \in Readers : reader[r].balance \in Watched \cup {Missing}
  /\ deaths \in 0 .. MaxDeaths

AlertsTheCurrent ==
  check' # check =>
    \/ check'.balance \in outdated \cup outdated'
    \/ \E w \in Writers : writer[w] = check'.balance
    \/ check' = CheckBalanceMonitors(check'.balance, GetBalanceMonitors(check'.balance), check'.amount)

\* A transaction alerts exactly the monitors of its balance whose condition the
\* balance meets: a change or a removal of a monitor reaches the next check in
\* every order of writers, readers and expiring keys, unless the writer is about
\* to delete the cached list, or the list was left out of date by one of three
\* accidents: a reader filled it with rows read before the change, the change
\* moved the monitor to another balance, the delete failed
\* (checkBalanceMonitors, getBalanceMonitorsCached).
AlertsAreDue == [][AlertsTheCurrent]_monitorVars
==============================================================================
