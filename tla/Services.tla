------------------------------- MODULE Services -------------------------------
(***************************************************************************)
(* The services behind the API: orders, positions, snapshots, monitors,    *)
(* the lookup of balances by indicator, and API keys.  They share no       *)
(* state, so a behaviour is one of any one of them: "active" says which,   *)
(* and the variables of the others stay as they are.  "holds" stands for   *)
(* the resolution of holds (Inflight), during which all of them rest.      *)
(***************************************************************************)
EXTENDS Integers, FiniteSets

CONSTANTS
  Nothing,         \* no value; the state of a component that is not active
  Callers,         \* the concurrent calls of each component
  MaxMishaps,      \* bound: crashes, failing calls and expiries of each
  OrderIds, SellChoices, Money, Position,
  PositionKeys, OpenKeys, Plans, Entries, MaxJobs,
  MaxBalances, Transactions, BatchSize, Hours, HoursPerDay,
  MonitorIds, Watched, Thresholds, Totals, Operators, Readers,
  Indicators, Lookups, MaxIds,
  Keys, PrefixOf, Owners, Resources, ScopeSets, Lifetimes, MaxTime

VARIABLES
  active,
  order, sells, blocked, money, security, call, orderCrashes,
  position, entered, applied, manual, answers, keyLock, rowLock, job, jobs, positionMishaps,
  hour, count, txn, book, snapshots, run,
  monitor, cached, outdated, writer, reader, check, deaths,
  balance, ids, lookup, posted,
  row, copy, request, stale, now, mishaps

orderVars == <<order, sells, blocked, money, security, call, orderCrashes>>
positionVars == <<position, entered, applied, manual, answers, keyLock, rowLock, job, jobs, positionMishaps>>
snapVars == <<hour, count, txn, book, snapshots, run>>
monitorVars == <<monitor, cached, outdated, writer, reader, check, deaths>>
indicatorVars == <<balance, ids, lookup, posted>>
keyVars == <<row, copy, request, stale, now, mishaps>>
serviceVars == <<orderVars, positionVars, snapVars, monitorVars, indicatorVars, keyVars>>

Ord == INSTANCE Orders WITH NoOrder <- Nothing, MaxCrashes <- MaxMishaps, crashes <- orderCrashes
Pos == INSTANCE Positions WITH PositionWorkers <- Callers, Free <- Nothing, mishaps <- positionMishaps
Snap == INSTANCE Snapshots WITH Runs <- Callers, None <- Nothing, now <- hour
Mon == INSTANCE Monitors WITH Writers <- Callers, Missing <- Nothing, MaxDeaths <- MaxMishaps
Ind == INSTANCE Indicators WITH Keys <- Indicators, NoKey <- Nothing
Key == INSTANCE ApiKeys WITH Servers <- Callers, NoKey <- Nothing

ASSUME ServicesAssumption ==
  /\ Ord!OrdersAssumption /\ Key!KeysAssumption /\ Ind!IndicatorsAssumption
  /\ Mon!MonitorsAssumption /\ Snap!SnapshotsAssumption /\ Pos!PositionsAssumption

------------------------------------------------------------------------------
OrdersOff ==
  /\ order = Nothing /\ sells = Nothing /\ blocked = Nothing /\ money = Nothing
  /\ security = Nothing /\ call = Nothing /\ orderCrashes = Nothing
PositionsOff ==
  /\ position = Nothing /\ entered = Nothing /\ applied = Nothing /\ manual = Nothing
  /\ answers = Nothing /\ keyLock = Nothing /\ rowLock = Nothing /\ job = Nothing
  /\ jobs = Nothing /\ positionMishaps = Nothing
SnapshotsOff ==
  /\ hour = Nothing /\ count = Nothing /\ txn = Nothing /\ book = Nothing
  /\ snapshots = Nothing /\ run = Nothing
MonitorsOff ==
  /\ monitor = Nothing /\ cached = Nothing /\ outdated = Nothing /\ writer = Nothing
  /\ reader = Nothing /\ check = Nothing /\ deaths = Nothing
IndicatorsOff ==
  /\ balance = Nothing /\ ids = Nothing /\ lookup = Nothing /\ posted = Nothing
KeysOff ==
  /\ row = Nothing /\ copy = Nothing /\ request = Nothing
  /\ stale = Nothing /\ now = Nothing /\ mishaps = Nothing

ServicesInit ==
  /\ active \in {"holds", "orders", "positions", "snapshots", "monitors", "indicators", "keys"}
  /\ IF active = "orders" THEN Ord!OrderInit ELSE OrdersOff
  /\ IF active = "positions" THEN Pos!PositionInit ELSE PositionsOff
  /\ IF active = "snapshots" THEN Snap!SnapInit ELSE SnapshotsOff
  /\ IF active = "monitors" THEN Mon!MonitorInit ELSE MonitorsOff
  /\ IF active = "indicators" THEN Ind!IndicatorInit ELSE IndicatorsOff
  /\ IF active = "keys" THEN Key!KeyInit ELSE KeysOff

OrdersMove ==
  /\ active = "orders" /\ Ord!OrderNext
  /\ UNCHANGED <<active, positionVars, snapVars, monitorVars, indicatorVars, keyVars>>
PositionsMove ==
  /\ active = "positions" /\ Pos!PositionNext
  /\ UNCHANGED <<active, orderVars, snapVars, monitorVars, indicatorVars, keyVars>>
SnapshotsMove ==
  /\ active = "snapshots" /\ Snap!SnapNext
  /\ UNCHANGED <<active, orderVars, positionVars, monitorVars, indicatorVars, keyVars>>
MonitorsMove ==
  /\ active = "monitors" /\ Mon!MonitorNext
  /\ UNCHANGED <<active, orderVars, positionVars, snapVars, indicatorVars, keyVars>>
IndicatorsMove ==
  /\ active = "indicators" /\ Ind!IndicatorNext
  /\ UNCHANGED <<active, orderVars, positionVars, snapVars, monitorVars, keyVars>>
KeysMove ==
  /\ active = "keys" /\ Key!KeyNext
  /\ UNCHANGED <<active, orderVars, positionVars, snapVars, monitorVars, indicatorVars>>

ServicesNext ==
  \/ OrdersMove \/ PositionsMove \/ SnapshotsMove
  \/ MonitorsMove \/ IndicatorsMove \/ KeysMove

ServicesSpec == ServicesInit /\ [][ServicesNext]_<<active, serviceVars>>

------------------------------------------------------------------------------
\* Orders: buys that were all checked against the same free money are not all
\* booked, and an order that says EXECUTED has both legs of its trade, whatever
\* else was executed, rejected or retried (CheckOrder, BookTrade, ExecuteOrder).
OrdersInv == active = "orders" => Ord!OrdersInv

\* Whoever books the first leg of an order has read it with its checks passed,
\* however checks, approvals and cancellations overwrite each other
\* (CheckOrder, ApproveOrder, ExecuteOrder).
BookedOrdersWereChecked == [][active = "orders" => Ord!BooksCheckedOrder]_<<active, orderVars>>

\* Positions: a key has one row and everybody is given that one; a position is
\* the sum of the committed plans and transactions, although their locks do not
\* exclude each other; its holds are those of its live inflight transactions,
\* unless a plan has changed them; plans never wait for each other's rows in a
\* circle (FindOrCreatePosition, ApplyBalanceDeltas, updateBalance,
\* RecomputeHolds).
PositionsInv == active = "positions" => Pos!PositionsInv

\* Balances: one at a time built on a snapshot and one built from all
\* transactions differ by exactly the transactions that the stamp puts on the
\* wrong side of the snapshot (GetBalanceAtTime); transactions that name the same
\* indicator and currency post to the same balance, a row of the table
\* (getOrCreateBalanceByIndicator); monitors are well formed.
BalancesInv ==
  /\ active = "snapshots" => Snap!SnapTypeOK /\ Snap!AnswersDifferByStraddlers
  /\ active = "indicators" => Ind!IndicatorsTypeOK /\ Ind!OneBalancePerIndicator
  /\ active = "monitors" => Mon!MonitorsTypeOK

\* A run that ends has left no balance that was there when it began without a
\* snapshot of that day (take_daily_balance_snapshots_batched).
RunsCoverAllBalances == [][active = "snapshots" => Snap!EndsWhenCovered]_<<active, snapVars>>

\* A transaction alerts exactly the monitors of its balance whose condition
\* the balance meets, unless the cached list is about to be deleted or one of
\* three accidents left it out of date (checkBalanceMonitors).
AlertsAreDue == [][active = "monitors" => Mon!AlertsTheCurrent]_<<active, monitorVars>>

\* Keys: a copy of a revoked key that does not say so is one whose deletion is
\* still under way, failed, or was overtaken by a reader's fill, or the
\* short-lived local copy of another server (RevokeAPIKey, GetAPIKey); a key
\* that a key created belongs to its creator's owner and may do nothing its
\* creator could not (resolveAPIKeyOwner, validateGrantedScopes).
KeysInv == active = "keys" => Key!KeysInv
==============================================================================
