------------------------------- MODULE Delivery -------------------------------
(***************************************************************************)
(* What surrounds the delivery of transactions: the choice of a lane       *)
(* (HotPairs), the hooks that a transaction calls (Hooks), and the search  *)
(* index that follows the database (SearchIndex).  They share no state, so *)
(* a behaviour is one of any one of them: "active" says which, and the     *)
(* variables of the others stay as they are.  "queue" stands for the       *)
(* transaction queue (Queue), during which all of them rest.               *)
(***************************************************************************)
EXTENDS Integers, Sequences, FiniteSets

CONSTANTS
  Nothing,         \* no value; the state of a component that is not active
  Calls,           \* the concurrent calls of each component
  MaxMishaps,      \* bound: crashes, failing calls and expiries of each
  LockContentionThreshold, MaxContentions,
  HookIds, Deliveries, RetryCounts, MaxHookRetryCount, DefaultRetries, MaxEdits,
  Balances, Transfers, BalanceOf, Indexers, Runs, Starts, PageSize, MaxVersion

VARIABLES
  active,
  state, activity, contention, lanePc, lane, recorder, since, disturbed, raced, laneMishaps,
  registry, listed, editor, delivery, torn, edits, hookMishaps,
  table, version, unread, sending, queue, indexer, collection, docs, run, service,
  missed, overtaken, early, broken, searchMishaps

hotVars == <<state, activity, contention, lanePc, lane, recorder, since, disturbed, raced, laneMishaps>>
hookVars == <<registry, listed, editor, delivery, torn, edits, hookMishaps>>
searchVars == <<table, version, unread, sending, queue, indexer, collection, docs, run, service,
                missed, overtaken, early, broken, searchMishaps>>
deliveryVars == <<hotVars, hookVars, searchVars>>

Hot == INSTANCE HotPairs WITH Requests <- Calls, Recorders <- Calls, pc <- lanePc, mishaps <- laneMishaps
Hook == INSTANCE Hooks WITH Editors <- Calls, Tasks <- Deliveries, NoHook <- Nothing, NoTask <- Nothing,
          task <- delivery, mishaps <- hookMishaps
Srch == INSTANCE SearchIndex WITH NoRun <- Nothing, BatchSize <- PageSize, mishaps <- searchMishaps

ASSUME DeliveryAssumption == Hot!HotAssumption /\ Hook!HooksAssumption /\ Srch!SearchAssumption

------------------------------------------------------------------------------
LanesOff ==
  /\ state = Nothing /\ activity = Nothing /\ contention = Nothing /\ lanePc = Nothing
  /\ lane = Nothing /\ recorder = Nothing /\ since = Nothing /\ disturbed = Nothing
  /\ raced = Nothing /\ laneMishaps = Nothing
HooksOff ==
  /\ registry = Nothing /\ listed = Nothing /\ editor = Nothing /\ delivery = Nothing
  /\ torn = Nothing /\ edits = Nothing /\ hookMishaps = Nothing
SearchOff ==
  /\ table = Nothing /\ version = Nothing /\ unread = Nothing /\ sending = Nothing
  /\ queue = Nothing /\ missed = Nothing
  /\ indexer = Nothing /\ collection = Nothing /\ docs = Nothing /\ run = Nothing
  /\ service = Nothing /\ overtaken = Nothing /\ early = Nothing /\ broken = Nothing
  /\ searchMishaps = Nothing

DeliveryInit ==
  /\ active \in {"queue", "lanes", "hooks", "search"}
  /\ IF active = "lanes" THEN Hot!HotInit ELSE LanesOff
  /\ IF active = "hooks" THEN Hook!HookInit ELSE HooksOff
  /\ IF active = "search" THEN Srch!SearchInit ELSE SearchOff

LanesMove == active = "lanes" /\ Hot!HotNext /\ UNCHANGED <<active, hookVars, searchVars>>
HooksMove == active = "hooks" /\ Hook!HookNext /\ UNCHANGED <<active, hotVars, searchVars>>
SearchMoves == active = "search" /\ Srch!SearchNext /\ UNCHANGED <<active, hotVars, hookVars>>

DeliveryNext == LanesMove \/ HooksMove \/ SearchMoves

DeliverySpec == DeliveryInit /\ [][DeliveryNext]_<<active, deliveryVars>>

------------------------------------------------------------------------------
\* Lanes: the rows of a pair wait in one lane at a time, so that the hot queue
\* never overtakes the normal one, except when a request was overtaken between
\* its read and its store, a promotion overwrote a hot pair, or a key was lost;
\* and a pair is promoted only after the threshold's worth of contentions since
\* it was last demoted (ResolveQueueLane, RecordContention, SetNormal).
LanesInv == active = "lanes" => Hot!LanesInv

\* Hooks: between edits a hook's key and the type sets agree, unless edits
\* overlapped, one died, an id was registered twice, or an attempt wrote back an
\* old copy (RegisterHook, UpdateHook, DeleteHook, updateHookStatus).
HooksInv == active = "hooks" => Hook!HooksInv

\* Search: when nothing is left to index, every row has its document, made from
\* the row as it is, unless the task of a change was lost and the row has not
\* been written since, an older copy was written over it or a reindex failed;
\* outside a reindex a transaction's document refers to a balance's
\* (ReindexService, IndexData, HandleBatchNotification).
SearchInv == active = "search" => Srch!SearchInv
==============================================================================
