--------------------------------- MODULE Bulk ---------------------------------
(***************************************************************************)
(* Bulk requests, their rollback, and refunds.                             *)
(*                                                                         *)
(* A bulk request submits its members one after the other under a common   *)
(* parent, the batch.  When one fails and the request is atomic, the       *)
(* members found under the batch are refunded, or voided when they are     *)
(* holds.  Clients refund by id through the same machinery: a fetcher      *)
(* pages through the rows under a parent while a worker handles them.      *)
(*                                                                         *)
(* A movement <<m, p>> is member m (p = <<>>) or a refund: p says of which *)
(* row of the member it is the refund, of which row of that refund, and so *)
(* on.  Its rows are "row" (the transaction as submitted), "copy" (the     *)
(* queue's copy of it) and, for a hold, the VOID children of these two.    *)
(* Balances are Execution's, retries and recovery Queue's, commits of      *)
(* holds Inflight's.  Members are neither split nor atomic themselves.     *)
(***************************************************************************)
EXTENDS Integers, Sequences, SequencesExt

CONSTANTS
  Clients,      \* callers of POST /refund-transaction/:id
  Targets,      \* the ids they call it with: members' rows and copies, the batch
  Modes,        \* what is asked for: the bulk request's number of members and
                \* its flags inflight, skipQueue and atomic; the clients'
                \* skip_queue, sync, and two bounds: how often each calls, and
                \* how many faults there are
  Batch,        \* the id of the batch
  NoId,         \* no id
  BatchSize,    \* transaction.batch_size: rows per page
  MaxExpiries   \* bound: how many refund locks expire while held

Callers == {Batch} \cup Clients
Kinds == {"row", "copy", "rowVoid", "copyVoid"}
Movements == Nat \X Seq(Kinds)
Ids == Movements \X Kinds

\* The batch is no row; clients refund members by their ids and by the batch's.
ASSUME BulkAssumption ==
  /\ Batch \notin Ids \cup Clients /\ NoId \notin Ids \cup {Batch}
  /\ Targets \subseteq {Batch} \cup Ids
  /\ \A p \in Targets : p # Batch => p[1][2] = <<>>
  /\ Modes \subseteq [size : Nat, inflight : BOOLEAN, skipQueue : BOOLEAN, atomic : BOOLEAN,
                     sync : BOOLEAN, calls : Nat, faults : Nat]
  /\ BatchSize \in Nat \ {0} /\ MaxExpiries \in Nat

VARIABLES
  mode,       \* what was asked for
  order,      \* the submitted movements, in the order of their created_at
  table,      \* the status of every row in the table
  queuedParent, \* QUEUED_PARENT_TRANSACTION in the metadata of a movement
  pending,    \* submissions handed to processTransactionAsync and the queue
  moved,      \* how often a movement moved money or opened a hold
  next,       \* the member the bulk request submits next
  outcome,    \* the answer or webhook of the bulk request
  pc,         \* each caller: idle, or where its worker stands
  parent,     \* the id whose rows it processes
  offset,     \* the fetcher's offset
  jobs,       \* the jobs channel
  fetching,   \* the fetcher has not closed the channel
  failed,     \* an error is among the results
  lock,       \* the refund:<id> keys in Redis, with their holders
  calls,      \* how often each client has called
  expiries,   \* how many refund locks expired
  unlisted,   \* history: the rollback could not list its members to the end
  lost,       \* history: the movements given up by the queue
  faults      \* how many calls failed

tableVars == <<order, table, queuedParent, pending, moved>>
callVars == <<pc, parent, offset, jobs, fetching, failed>>
faultVars == <<unlisted, lost, faults>>
vars == <<mode, tableVars, next, outcome, callVars, lock, calls, expiries, faultVars>>

Members == 1 .. mode.size

Move(id) == id[1]
Kind(id) == id[2]
Row(t) == <<t, "row">>
Copy(t) == <<t, "copy">>
VoidOf(id) == <<Move(id), IF Kind(id) = "row" THEN "rowVoid" ELSE "copyVoid">>
IsMember(t) == t[2] = <<>>

Status(id) == IF id \in DOMAIN table THEN table[id] ELSE "none"
Times(t) == IF t \in DOMAIN moved THEN moved[t] ELSE 0

\* The function f with v at x.
Put(f, x, v) == [y \in {x} \cup DOMAIN f |-> IF y = x THEN v ELSE f[y]]

Init ==
  /\ mode \in Modes
  /\ order = <<>>
  /\ table = <<>>
  /\ queuedParent = <<>>
  /\ pending = {}
  /\ moved = <<>>
  /\ next = 1
  /\ outcome = "none"
  /\ pc = [c \in Callers |-> "idle"]
  /\ parent = [c \in Callers |-> NoId]
  /\ offset = [c \in Callers |-> 0]
  /\ jobs = [c \in Callers |-> <<>>]
  /\ fetching = [c \in Callers |-> FALSE]
  /\ failed = [c \in Callers |-> FALSE]
  /\ lock = {}
  /\ calls = [c \in Clients |-> 0]
  /\ expiries = 0
  /\ unlisted = FALSE
  /\ lost = {}
  /\ faults = 0

\* A call to the database or to Redis fails.
Fault == faults < mode.faults /\ faults' = faults + 1

------------------------------------------------------------------------------
\* The parent_transaction of a row.
ParentOf(id) ==
  LET t == Move(id) IN
  IF Kind(id) \in {"rowVoid", "copy"} THEN Row(t)
  ELSE IF Kind(id) = "copyVoid" THEN Copy(t)
  ELSE IF IsMember(t) THEN Batch
  ELSE <<<<t[1], Front(t[2])>>, Last(t[2])>>

\* The status a movement is recorded with once it is executed: a member of an
\* inflight request is a hold, and so is the refund of a VOID row.
Executed == IF mode.inflight THEN "INFLIGHT" ELSE "APPLIED"

\* RecordTransaction of the row id; the reference is unique.
Record(id) ==
  /\ Status(id) = "none"
  /\ table' = Put(table, id, Executed)
  /\ moved' = Put(moved, Move(id), Times(Move(id)) + 1)

------------------------------------------------------------------------------
\* QueueTransaction without skip_queue: metadata, and a goroutine that
\* persists and enqueues.  A member keeps the batch as its queued parent,
\* anything else itself.
QueueAsync(t) ==
  /\ order' = Append(order, t)
  /\ queuedParent' = Put(queuedParent, t, IF IsMember(t) THEN Batch ELSE Row(t))
  /\ pending' = pending \cup {[move |-> t, n |-> Len(order), stage |-> "persist"]}
  /\ UNCHANGED <<table, moved>>

\* QueueTransaction with skip_queue: recorded before it returns.  The metadata
\* is the caller's; a refund carries that of its original.
QueueSync(t) ==
  /\ Record(Row(t))
  /\ order' = Append(order, t)
  /\ queuedParent' =
       Put(queuedParent, t, IF IsMember(t) THEN NoId ELSE queuedParent[Move(ParentOf(Row(t)))])
  /\ UNCHANGED pending

\* processSingleTransaction, and createQueueCopy when the row was persisted.
\* When it was not, because its reference is taken or the insert failed, the
\* submitted transaction itself is enqueued: the error is only recorded.
Persist(p) ==
  LET id == Row(p.move)
      Becomes(stage) == pending' = (pending \ {p}) \cup {[p EXCEPT !.stage = stage]} IN
  /\ p.stage = "persist"
  /\ \/ /\ Status(id) = "none" /\ Becomes("copy")
        /\ table' = Put(table, id, "QUEUED") /\ UNCHANGED faults
     \/ /\ Status(id) # "none" /\ Becomes("original")
        /\ UNCHANGED <<table, faults>>
     \/ /\ Status(id) = "none" /\ Becomes("original")
        /\ Fault /\ UNCHANGED table
  /\ UNCHANGED <<mode, order, queuedParent, moved, next, outcome, callVars, lock, calls, expiries,
                 unlisted, lost>>

Queued(p) == IF p.stage = "copy" THEN Copy(p.move) ELSE Row(p.move)

\* A queue worker executes the copy; a member may be rejected instead, for a
\* refund overdrafts are allowed.  A taken reference ends the task.  A copy that
\* could not be enqueued waits until the recovery job makes it from the row.
Execute(p) ==
  /\ p.stage # "persist"
  /\ pending' = pending \ {p}
  /\ \/ Record(Queued(p))
     \/ /\ IsMember(p.move) /\ Status(Queued(p)) = "none"
        /\ table' = Put(table, Queued(p), "REJECTED")
        /\ UNCHANGED moved
     \/ Status(Queued(p)) # "none" /\ UNCHANGED <<table, moved>>
  /\ UNCHANGED <<mode, order, queuedParent, next, outcome, callVars, lock, calls, expiries,
                 faultVars>>

\* The submission comes to nothing.  A transaction without a row is lost when
\* enqueueTransactions fails (the error is only logged); anything is rejected
\* when the retries, or the attempts of the recovery job, are used up.
GiveUp(p) ==
  /\ p.stage # "persist" /\ Status(Queued(p)) = "none"
  /\ pending' = pending \ {p}
  /\ \/ table' = Put(table, Queued(p), "REJECTED")
     \/ p.stage = "original" /\ UNCHANGED table
  /\ lost' = lost \cup {p.move} /\ Fault
  /\ UNCHANGED <<mode, order, queuedParent, moved, next, outcome, callVars, lock, calls,
                 expiries, unlisted>>

------------------------------------------------------------------------------
\* Where the movements of the rows were submitted last.
Latest(rows) ==
  {i \in 1 .. Len(order) : /\ \E id \in rows : Move(id) = order[i]
                          /\ \A j \in i + 1 .. Len(order) : order[j] # order[i]}

\* Rows newest first, by the submission that created them; a query returns at
\* most one row of a movement.
Newest(rows, latest) ==
  [n \in 1 .. Cardinality(latest) |->
     CHOOSE id \in rows : \E i \in latest : /\ Move(id) = order[i]
                                           /\ Cardinality({j \in latest : j > i}) = n - 1]

\* GetRefundableTransactionsByParentID: the WHERE clause.
Refundable(p) ==
  {id \in DOMAIN table :
     \/ id = p /\ table[id] = "APPLIED"
     \/ ParentOf(id) = p /\ table[id] \in {"APPLIED", "VOID"}
     \/ table[id] = "APPLIED" /\ queuedParent[Move(id)] = p}

\* GetInflightTransactionsByParentID: the INFLIGHT rows, and only when there
\* are none the QUEUED ones that were not rejected and have no INFLIGHT copy.
Inflights(p) ==
  LET Under(id) == id = p \/ ParentOf(id) = p
      held == {id \in DOMAIN table :
                 /\ table[id] = "INFLIGHT"
                 /\ Under(id) \/ queuedParent[Move(id)] = p}
      queued == {id \in DOMAIN table :
                   /\ table[id] = "QUEUED" /\ Under(id)
                   /\ Status(Copy(Move(id))) \notin {"REJECTED", "INFLIGHT"}}
  IN  IF held # {} THEN held ELSE queued

\* LIMIT batchSize OFFSET offset.
Page(rows, from) ==
  LET to == IF from + BatchSize < Len(rows) THEN from + BatchSize ELSE Len(rows)
  IN  SubSeq(rows, from + 1, to)

\* The rows a caller's fetcher lists: the rollback of holds voids, everything
\* else refunds.
Listed(c) == IF c = Batch /\ mode.inflight THEN Inflights(parent[c]) ELSE Refundable(parent[c])

\* ProcessTransactionInBatches starts its fetcher and its worker.
StartBatches(c, p) ==
  /\ pc' = [pc EXCEPT ![c] = "run"]
  /\ parent' = [parent EXCEPT ![c] = p]
  /\ offset' = [offset EXCEPT ![c] = 0]
  /\ jobs' = [jobs EXCEPT ![c] = <<>>]
  /\ fetching' = [fetching EXCEPT ![c] = TRUE]
  /\ failed' = [failed EXCEPT ![c] = FALSE]

\* Faulty: the offset is not advanced.
FetchSamePage(c) ==
  /\ fetching[c]
  /\ LET page == Page(Newest(Listed(c), Latest(Listed(c))), 0) IN
     /\ jobs' = [jobs EXCEPT ![c] = IF @ = <<>> THEN page ELSE @]
     /\ fetching' = [fetching EXCEPT ![c] = page # <<>>]
  /\ UNCHANGED <<mode, tableVars, next, outcome, pc, parent, offset, failed, lock, calls,
                 expiries, faultVars>>

\* fetchTransactions: the next page goes into the jobs channel, an empty one
\* closes it.
Fetch(c) ==
  /\ fetching[c]
  /\ \E rows \in {Listed(c)} : \E latest \in {Latest(rows)} :
     LET page == Page(Newest(rows, latest), offset[c]) IN
     /\ jobs' = [jobs EXCEPT ![c] = @ \o page]
     /\ offset' = [offset EXCEPT ![c] = @ + Len(page)]
     /\ fetching' = [fetching EXCEPT ![c] = page # <<>>]
  /\ UNCHANGED <<mode, tableVars, next, outcome, pc, parent, failed, lock, calls, expiries,
                 faultVars>>

\* The query fails: fetchTransactions sends the error and closes the channel.
ListFails(c) ==
  /\ fetching[c]
  /\ fetching' = [fetching EXCEPT ![c] = FALSE]
  /\ unlisted' = (unlisted \/ c = Batch) /\ Fault
  /\ UNCHANGED <<mode, tableVars, next, outcome, pc, parent, offset, jobs, failed, lock, calls,
                 expiries, lost>>

\* The select of ProcessTransactionInBatches takes that error, at once or when
\* the worker is done too; the worker goes on until the channel is drained.
ReportUnlisted ==
  /\ unlisted /\ outcome = "none"
  /\ outcome' = "rollback failed"
  /\ UNCHANGED <<mode, tableVars, next, callVars, lock, calls, expiries, faultVars>>

------------------------------------------------------------------------------
\* The worker of c takes the next result: a failure is remembered.
Took(c, error) ==
  /\ jobs' = [jobs EXCEPT ![c] = Tail(@)]
  /\ failed' = [failed EXCEPT ![c] = @ \/ error]

RefundOf(id) == <<Move(id)[1], Append(Move(id)[2], Kind(id))>>

\* IsTransactionRefunded: a child that moves the money back.
IsTransactionRefunded(id) == Status(Row(RefundOf(id))) # "none"

\* validateTransactionForRefund.
CanRefund(id) == Status(id) \in {"APPLIED", "VOID"} /\ ~IsTransactionRefunded(id)

Locked(id) == \E c \in Callers : <<id, c>> \in lock

\* RefundTransaction: the lock is tried once, the checks are made under it.
BeginRefund(c) ==
  LET id == Head(jobs[c]) IN
  /\ pc[c] = "run" /\ jobs[c] # <<>>
  /\ c # Batch \/ ~mode.inflight
  /\ IF ~Locked(id) /\ CanRefund(id)
     THEN /\ lock' = lock \cup {<<id, c>>}
          /\ pc' = [pc EXCEPT ![c] = "refund"]
          /\ UNCHANGED <<jobs, failed>>
     ELSE Took(c, TRUE) /\ UNCHANGED <<lock, pc>>
  /\ UNCHANGED <<mode, tableVars, next, outcome, parent, offset, fetching, calls, expiries,
                 faultVars>>

\* Unlock deletes the key only when it still holds this caller's value.
Release(c, id) == lock' = lock \ {<<id, c>>}

\* skipQueue of a refund: the rollback inherits it from the stored row, where
\* it is always false.
Synchronously(c) == c # Batch /\ mode.sync

\* Faulty: the reference of a refund is generated like any other.
FinishRefundAnyReference(c) ==
  LET id == Head(jobs[c])
      t == RefundOf(id) IN
  /\ pc[c] = "refund"
  /\ IF Synchronously(c)
     THEN /\ table' = Put(table, Row(t), Executed)
          /\ moved' = Put(moved, t, Times(t) + 1)
          /\ order' = Append(order, t)
          /\ queuedParent' = Put(queuedParent, t, queuedParent[Move(id)])
          /\ UNCHANGED pending
          /\ Took(c, FALSE)
     ELSE QueueAsync(t) /\ Took(c, FALSE)
  /\ Release(c, id)
  /\ pc' = [pc EXCEPT ![c] = "run"]
  /\ UNCHANGED <<mode, next, outcome, parent, offset, fetching, calls, expiries, faultVars>>

\* prepareRefundTransaction and QueueTransaction; the lock is released.
FinishRefund(c) ==
  LET id == Head(jobs[c])
      t == RefundOf(id) IN
  /\ pc[c] = "refund"
  /\ IF Synchronously(c)
     THEN \/ QueueSync(t) /\ Took(c, FALSE)
          \/ Status(Row(t)) # "none" /\ UNCHANGED tableVars /\ Took(c, TRUE)
     ELSE QueueAsync(t) /\ Took(c, FALSE)
  /\ Release(c, id)
  /\ pc' = [pc EXCEPT ![c] = "run"]
  /\ UNCHANGED <<mode, next, outcome, parent, offset, fetching, calls, expiries, faultVars>>

\* The worker's call fails before it changed anything: the error is a result.
WorkerFails(c) ==
  /\ pc[c] \in {"run", "refund"} /\ jobs[c] # <<>>
  /\ Took(c, TRUE) /\ Release(c, Head(jobs[c])) /\ Fault
  /\ pc' = [pc EXCEPT ![c] = "run"]
  /\ UNCHANGED <<mode, tableVars, next, outcome, parent, offset, fetching, calls, expiries,
                 unlisted, lost>>

\* The refund lock's TTL runs out while its holder is still at work.
ExpireRefundLock(l) ==
  /\ expiries < MaxExpiries
  /\ lock' = lock \ {l}
  /\ expiries' = expiries + 1
  /\ UNCHANGED <<mode, tableVars, next, outcome, callVars, calls, faultVars>>

\* VoidWorker and VoidInflightTransaction: a VOID child, unless there is one.
VoidHold ==
  LET void == VoidOf(Head(jobs[Batch])) IN
  /\ pc[Batch] = "run" /\ jobs[Batch] # <<>> /\ mode.inflight
  /\ IF Status(void) = "none"
     THEN table' = Put(table, void, "VOID") /\ Took(Batch, FALSE)
     ELSE UNCHANGED table /\ Took(Batch, TRUE)
  /\ UNCHANGED <<mode, order, queuedParent, pending, moved, next, outcome,
                 pc, parent, offset, fetching, lock, calls, expiries, faultVars>>

------------------------------------------------------------------------------
\* processBulkTransactions: the next member is submitted.
Submit ==
  /\ IF mode.skipQueue THEN QueueSync(<<next, <<>>>>) ELSE QueueAsync(<<next, <<>>>>)
  /\ next' = next + 1

SubmitMember ==
  /\ outcome = "none" /\ pc[Batch] = "idle" /\ next \in Members
  /\ Submit
  /\ UNCHANGED <<mode, outcome, callVars, lock, calls, expiries, faultVars>>

\* rollbackBatchTransactions, when the request is atomic.
Rollback ==
  IF mode.atomic
  THEN StartBatches(Batch, Batch) /\ UNCHANGED outcome
  ELSE outcome' = "kept" /\ UNCHANGED callVars

\* A member fails and the loop ends: before anything of it was recorded, or
\* because its expiry or its commit could not be scheduled after it was
\* recorded or its goroutine was started.
MemberFails ==
  /\ outcome = "none" /\ pc[Batch] = "idle" /\ next \in Members
  /\ Submit \/ UNCHANGED <<tableVars, next>>
  /\ Rollback
  /\ UNCHANGED <<mode, lock, calls, expiries, faultVars>>

\* CreateBulkTransactions: every member was submitted.
Succeed ==
  /\ outcome = "none" /\ pc[Batch] = "idle" /\ next \notin Members
  /\ outcome' = Executed
  /\ UNCHANGED <<mode, tableVars, next, callVars, lock, calls, expiries, faultVars>>

\* ProcessTransactionInBatches returns: the channel is closed and drained.  The
\* select may take the end of the results also when a listing failed.
FinishBatches(c) ==
  /\ pc[c] = "run" /\ ~fetching[c] /\ jobs[c] = <<>>
  /\ pc' = [pc EXCEPT ![c] = IF c = Batch THEN "done" ELSE "idle"]
  /\ outcome' = IF c # Batch \/ outcome # "none" THEN outcome
                ELSE IF failed[c] THEN "rollback failed" ELSE "rolled back"
  /\ UNCHANGED <<mode, tableVars, next, parent, offset, jobs, fetching, failed, lock, calls,
                 expiries, faultVars>>

\* RefundTransaction of the API: by the id of a member's row, of the copy that
\* was executed, or of the batch.
RequestRefund(c, p) ==
  /\ pc[c] = "idle" /\ calls[c] < mode.calls
  /\ p = Batch \/ Status(p) # "none"
  /\ calls' = [calls EXCEPT ![c] = @ + 1]
  /\ StartBatches(c, p)
  /\ UNCHANGED <<mode, tableVars, next, outcome, lock, expiries, faultVars>>

------------------------------------------------------------------------------
BulkStep == SubmitMember \/ MemberFails \/ Succeed
FaultStep ==
  \/ \E p \in pending : GiveUp(p)
  \/ \E c \in Callers : ListFails(c) \/ WorkerFails(c)
  \/ ReportUnlisted
QueueStep == \E p \in pending : Persist(p) \/ Execute(p)
WorkerStep(c) == \/ BeginRefund(c) \/ FinishRefund(c) \/ FinishBatches(c)
                 \/ c = Batch /\ VoidHold

Next ==
  \/ BulkStep \/ QueueStep \/ FaultStep
  \/ \E c \in Callers : Fetch(c) \/ WorkerStep(c)
  \/ \E c \in Clients, p \in Targets : RequestRefund(c, p)
  \/ \E l \in lock : ExpireRefundLock(l)

Spec == Init /\ [][Next]_vars

\* Goroutines and queue workers run; no context is cancelled.
Fairness ==
  /\ WF_vars(BulkStep) /\ WF_vars(QueueStep)
  /\ \A c \in Callers : WF_vars(Fetch(c)) /\ WF_vars(WorkerStep(c))

FairSpec == Spec /\ Fairness

------------------------------------------------------------------------------
TypeOK ==
  /\ mode \in Modes
  /\ \A id \in DOMAIN table :
       /\ Kind(id) \in Kinds /\ Move(id) \in Range(order)
       /\ table[id] \in {"QUEUED", "APPLIED", "INFLIGHT", "VOID", "REJECTED"}
  /\ DOMAIN moved \subseteq Range(order) /\ DOMAIN queuedParent = Range(order)
  /\ \A p \in pending : p.stage \in {"persist", "copy", "original"}
  /\ outcome \in {"none", "APPLIED", "INFLIGHT", "kept", "rollback failed", "rolled back"}
  /\ \A l \in lock : Move(l[1]) \in Range(order) /\ l[2] \in Callers
  /\ unlisted \in BOOLEAN /\ lost \subseteq Movements /\ faults \in 0 .. mode.faults

\* The rows of a member in which its money moved, or its hold was opened.
Standing(m) == {id \in DOMAIN table : Move(id) = <<m, <<>>>> /\ table[id] = Executed}
\* What undoes such a row: its VOID child, or its refund.
Undo(id) == IF mode.inflight THEN VoidOf(id) ELSE Row(RefundOf(id))
UndoUnderWay(id) ==
  \/ Status(Undo(id)) # "none"
  \/ ~mode.inflight /\ (RefundOf(id) \in lost \/ \E p \in pending : p.move = RefundOf(id))
Undone(id) ==
  IF mode.inflight THEN Status(VoidOf(id)) = "VOID" ELSE RefundOf(id) \in lost \/ Times(RefundOf(id)) = 1

\* No movement is made twice: however rollbacks and clients race for the same
\* transaction, and although the row of a queued refund is only written after
\* the refund lock was released, or the lock expired under its holder, its
\* money is returned once (RefundTransaction).
RefundedOnce == \A t \in DOMAIN moved : moved[t] = 1

\* When a synchronous atomic request reports that all its transactions were
\* refunded or voided, every member that moved money or opened a hold is being
\* undone, also the ones beyond the first page (CreateBulkTransactions).
RollbackIsComplete ==
  outcome = "rolled back" /\ mode.skipQueue =>
    \A m \in Members : \A id \in Standing(m) : UndoUnderWay(id)

\* So it is unless the rollback could not list its members: then the report may
\* be wrong (ProcessTransactionInBatches).
RolledBackWhenReported == ~unlisted => RollbackIsComplete

\* Refunds that were saved as queued stand: no later request, not even one for
\* the same id or for the batch, takes such a refund for something to be
\* refunded (GetRefundableTransactionsByParentID).
QueuedRefundsStand ==
  ~mode.sync =>
    \A t \in Range(order) : Len(t[2]) > 1 => Status(Row(Move(ParentOf(Row(t))))) # "QUEUED"

\* What rollbacks and refunds keep, however they race.
BulkInv == TypeOK /\ RefundedOnce /\ RolledBackWhenReported /\ QueuedRefundsStand

\* In the end every rollback and every refund call has returned, although its
\* fetcher pages through rows its own worker adds to (fetchTransactions), and
\* what a synchronous request reported as rolled back is undone, unless it could
\* not be listed or the queue gave it up.
BatchesSettle ==
  <>[](/\ \A c \in Callers : pc[c] \in {"idle", "done"}
       /\ outcome = "rolled back" /\ mode.skipQueue /\ ~unlisted =>
            \A m \in Members : \A id \in Standing(m) : Undone(id))
==============================================================================
