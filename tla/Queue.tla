-------------------------------- MODULE Queue --------------------------------
(***************************************************************************)
(* Transactions that go through the queue: accepted, persisted as a QUEUED *)
(* row, enqueued as a copy, executed by a worker alone or in a coalesced   *)
(* batch, retried, rejected, and picked up by the recovery job when they   *)
(* got stuck.                                                              *)
(*                                                                         *)
(* A request has a reference r.  Its QUEUED row has that reference; the    *)
(* copy that is executed is a child of the row with reference r_q.  Both   *)
(* references are unique in the table.  When the row cannot be persisted   *)
(* the original itself is enqueued, and executed under r.                  *)
(*                                                                         *)
(* The balances are left to Execution: here an execution either moves the  *)
(* money and inserts its row, in one step, or ends in one of the errors    *)
(* that processTransaction tells apart.  Transactions are neither split    *)
(* nor part of an atomic bulk request.                                     *)
(***************************************************************************)
EXTENDS Integers, FiniteSets

CONSTANTS
  Refs,          \* references, in the order of their rows' created_at
  Submissions,   \* calls of QueueTransaction
  RefOf,         \* the reference each of them uses
  Scheduled,     \* the references submitted with scheduled_for
  Workers,       \* transaction queue workers
  Recoverers,    \* runs of the recovery job: one per server, or by API
  NoJob,         \* what an idle executor works on
  BatchSize,     \* transaction.batch_size; below 2, no coalescing
  MaxRetry,      \* queue.max_retry_attempts
  MaxRecovery,   \* maxRecoveryAttempts
  SweepSize,     \* rows one recovery sweep loads
  InsufficientFundRetries,          \* queue.insufficient_fund_retries
  RejectLockContentionImmediately,  \* queue.reject_lock_contention_immediately
  MaxCrashes     \* bound: how many processes die

Executors == Workers \cup Recoverers

ASSUME QueueAssumption ==
  /\ Refs \subseteq Nat
  /\ RefOf \in [Submissions -> Refs]
  /\ Scheduled \subseteq Refs
  /\ Workers \cap Recoverers = {}
  /\ BatchSize \in Nat /\ MaxRetry \in Nat /\ MaxRecovery \in Nat
  /\ SweepSize \in Nat \ {0}
  /\ InsufficientFundRetries \in BOOLEAN
  /\ RejectLockContentionImmediately \in BOOLEAN
  /\ MaxCrashes \in Nat

VARIABLES
  row,           \* the status of the row with reference r, "none" without one
  copy,          \* the status of the row with reference r_q
  moved,         \* how often the money of r was moved
  old,           \* the rows created before now minus the recovery threshold
  attempts,      \* recovery_attempts in the metadata of row r
  sub,           \* how far each submission's goroutine has come
  task,          \* the asynq task of each submission
  pc,            \* the phase of each executor
  job,           \* the transaction it executes
  batch,         \* the siblings it has loaded for a coalesced batch
  error,         \* how its single execution failed
  todo,          \* the rows a sweep has loaded and not yet processed
  seen,          \* their recovery_attempts as loaded
  crashes        \* how many processes died

tableVars == <<row, copy, moved>>
queueVars == <<sub, task>>
recoveryVars == <<old, attempts, todo, seen>>
executorVars == <<pc, job, batch, error>>
vars == <<tableVars, queueVars, recoveryVars, executorVars, crashes>>

Kinds == {"copy", "original"}
Jobs == [ref : Refs, kind : Kinds, task : Submissions \cup {NoJob}]
Tasks == [kind : Kinds, retried : 0 .. MaxRetry,
          state : {"none", "pending", "active", "done", "archived"}]
Phases == {"idle", "first", "second", "single", "failed", "reject", "metadata"}
Errors == {"duplicate", "funds", "overdraft", "contention", "other"}
NoTask == [kind |-> "original", state |-> "none", retried |-> 0]

Init ==
  /\ row = [r \in Refs |-> "none"]
  /\ copy = [r \in Refs |-> "none"]
  /\ moved = [r \in Refs |-> 0]
  /\ old = {}
  /\ attempts = [r \in Refs |-> 0]
  /\ sub = [s \in Submissions |-> "new"]
  /\ task = [s \in Submissions |-> NoTask]
  /\ pc = [e \in Executors |-> "idle"]
  /\ job = [e \in Executors |-> NoJob]
  /\ batch = [e \in Executors |-> {}]
  /\ error = [e \in Executors |-> "other"]
  /\ todo = [e \in Recoverers |-> {}]
  /\ seen = [e \in Recoverers |-> [r \in Refs |-> 0]]
  /\ crashes = 0

Goto(e, phase) == pc' = [pc EXCEPT ![e] = phase]

------------------------------------------------------------------------------
\* The reference a job's row is inserted with is not in the table yet.
ReferenceFree(j) ==
  IF j.kind = "copy" THEN copy[j.ref] = "none" ELSE row[j.ref] = "none"

\* recordTransactionInTx of a job's row.
Insert(j, status) ==
  IF j.kind = "copy"
  THEN copy' = [copy EXCEPT ![j.ref] = status] /\ UNCHANGED row
  ELSE row' = [row EXCEPT ![j.ref] = status] /\ UNCHANGED copy

\* A row of the queue: waiting for its copy.
Waiting(r) == row[r] \in {"QUEUED", "SCHEDULED"}

\* GetStuckQueuedTransactions: QUEUED and without a child.
Stuck == {r \in Refs : row[r] = "QUEUED" /\ copy[r] = "none"}

------------------------------------------------------------------------------
\* QueueTransaction with skip_queue: recorded before the call returns, or an
\* error and nothing else.
SubmitSync(s) ==
  LET j == [ref |-> RefOf[s], kind |-> "original", task |-> NoJob] IN
  /\ sub[s] = "new"
  /\ sub' = [sub EXCEPT ![s] = "done"]
  /\ \/ /\ ReferenceFree(j)
        /\ Insert(j, "APPLIED")
        /\ moved' = [moved EXCEPT ![j.ref] = @ + 1]
     \/ UNCHANGED tableVars
  /\ UNCHANGED <<task, recoveryVars, executorVars, crashes>>

\* QueueTransaction answers the client and leaves the rest to a goroutine.
SubmitAsync(s) ==
  /\ sub[s] = "new"
  /\ sub' = [sub EXCEPT ![s] = "persist"]
  /\ UNCHANGED <<tableVars, task, recoveryVars, executorVars, crashes>>

\* processSingleTransaction: the QUEUED or SCHEDULED row.
PersistRow(s) ==
  LET r == RefOf[s] IN
  /\ sub[s] = "persist"
  /\ row[r] = "none"
  /\ row' = [row EXCEPT ![r] = IF r \in Scheduled THEN "SCHEDULED" ELSE "QUEUED"]
  /\ \E reported \in BOOLEAN :
       sub' = [sub EXCEPT ![s] = IF reported THEN "enqueueCopy" ELSE "enqueueOriginal"]
  /\ UNCHANGED <<copy, moved, task, recoveryVars, executorVars, crashes>>

\* Faulty: a copy is enqueued although its row was not persisted.
PersistRowFailsCopy(s) ==
  /\ sub[s] = "persist"
  /\ sub' = [sub EXCEPT ![s] = "enqueueCopy"]
  /\ UNCHANGED <<tableVars, task, recoveryVars, executorVars, crashes>>

\* The balances cannot be read, the reference is taken or the database fails.
PersistRowFails(s) ==
  /\ sub[s] = "persist"
  /\ sub' = [sub EXCEPT ![s] = "enqueueOriginal"]
  /\ UNCHANGED <<tableVars, task, recoveryVars, executorVars, crashes>>

\* enqueueTransactions: the copy, or the original when there is no copy.
Enqueue(s) ==
  /\ sub[s] \in {"enqueueCopy", "enqueueOriginal"}
  /\ task' = [task EXCEPT ![s] =
                [kind |-> IF sub[s] = "enqueueCopy" THEN "copy" ELSE "original",
                 state |-> "pending", retried |-> 0]]
  /\ sub' = [sub EXCEPT ![s] = "done"]
  /\ UNCHANGED <<tableVars, recoveryVars, executorVars, crashes>>

\* Redis refuses the task, or the process dies: nothing is left of the call
\* but what it has persisted.
SubmissionLost(s) ==
  /\ sub[s] \notin {"new", "done"}
  /\ crashes < MaxCrashes
  /\ crashes' = crashes + 1
  /\ sub' = [sub EXCEPT ![s] = "done"]
  /\ UNCHANGED <<tableVars, task, recoveryVars, executorVars>>

------------------------------------------------------------------------------
\* The executor is done with its job.
Forget(e) ==
  /\ Goto(e, "idle")
  /\ job' = [job EXCEPT ![e] = NoJob]
  /\ batch' = [batch EXCEPT ![e] = {}]
  /\ error' = [error EXCEPT ![e] = "other"]

\* processTransaction tries a coalesced batch itself ("first") before
\* executeTransactionPlan does ("second") and falls back to "single".
Deliver(w, s) ==
  /\ pc[w] = "idle"
  /\ task[s].state = "pending"
  /\ task' = [task EXCEPT ![s].state = "active"]
  /\ job' = [job EXCEPT ![w] = [ref |-> RefOf[s], kind |-> task[s].kind, task |-> s]]
  /\ Goto(w, "first")
  /\ UNCHANGED <<tableVars, sub, recoveryVars, batch, error, crashes>>

\* asynq acknowledges the task of worker w.
Acknowledge(w) ==
  /\ task' = [task EXCEPT ![job[w].task].state = "done"]
  /\ Forget(w)

\* asynq takes the task back: it is delivered again, or archived when it has
\* no retry left.
HandBack(w) ==
  LET s == job[w].task
      t == task[s]
  IN /\ task' = [task EXCEPT ![s] =
                   IF t.retried < MaxRetry
                   THEN [kind |-> t.kind, state |-> "pending", retried |-> t.retried + 1]
                   ELSE [kind |-> t.kind, state |-> "archived", retried |-> t.retried]]
     /\ Forget(w)

\* The job was executed.
Succeed(e) ==
  IF e \in Workers THEN Acknowledge(e)
  ELSE /\ Goto(e, "metadata")
       /\ batch' = [batch EXCEPT ![e] = {}]
       /\ UNCHANGED <<task, job, error>>

AfterBatch(e) == IF pc[e] = "first" THEN "second" ELSE "single"

\* canCoalesceQueuedTransaction
CanCoalesce(e) ==
  /\ pc[e] \in {"first", "second"}
  /\ job[e].kind = "copy"
  /\ row[job[e].ref] = "QUEUED"

\* buildQueuedCoalescingBatch: rows not older than the leader's and without a
\* child.  Which of them share its pair, source or destination is left open.
LoadSiblings(e) ==
  /\ CanCoalesce(e)
  /\ batch[e] = {}
  /\ \E siblings \in SUBSET {r \in Stuck : r > job[e].ref} :
       /\ Cardinality(siblings) \in 1 .. BatchSize - 1
       /\ batch' = [batch EXCEPT ![e] = siblings]
  /\ UNCHANGED <<tableVars, queueVars, recoveryVars, pc, job, error, crashes>>

\* Faulty: the references of the siblings are not looked at.
BatchFreeLeader(e) == copy[job[e].ref] = "none"

\* validateQueuedBatchTransactionReference and the unique index, for the
\* leader and every sibling.
BatchFree(e) == \A r \in batch[e] \cup {job[e].ref} : copy[r] = "none"

\* RecordTransactionsWithBalanceSetAndOutboxes: all of the batch in one SQL
\* transaction.  Its commit may succeed and be reported as an error.
PersistBatch(e) ==
  LET members == batch[e] \cup {job[e].ref} IN
  /\ batch[e] # {}
  /\ BatchFree(e)
  /\ copy' = [r \in Refs |-> IF r \in members THEN "APPLIED" ELSE copy[r]]
  /\ moved' = [r \in Refs |-> IF r \in members THEN moved[r] + 1 ELSE moved[r]]
  /\ \/ Succeed(e)
     \/ /\ Goto(e, AfterBatch(e))
        /\ batch' = [batch EXCEPT ![e] = {}]
        /\ UNCHANGED <<task, job, error>>
  /\ UNCHANGED <<row, sub, recoveryVars, crashes>>

\* No batch: not eligible, no sibling, a taken reference, missing funds of any
\* member, a lock or database error.
FailOpen(e) ==
  /\ pc[e] \in {"first", "second"}
  /\ Goto(e, AfterBatch(e))
  /\ batch' = [batch EXCEPT ![e] = {}]
  /\ UNCHANGED <<tableVars, queueVars, recoveryVars, job, error, crashes>>

\* recordTransactionSingle, as Execution has it.  Here too the commit may be
\* reported as an error.
PersistSingle(e) ==
  LET j == job[e] IN
  /\ pc[e] = "single"
  /\ ReferenceFree(j)
  /\ Insert(j, "APPLIED")
  /\ moved' = [moved EXCEPT ![j.ref] = @ + 1]
  /\ \/ Succeed(e)
     \/ Goto(e, "failed") /\ UNCHANGED <<task, job, batch, error>>
  /\ UNCHANGED <<sub, recoveryVars, crashes>>

\* Only a duplicate says something about the table; the other errors come
\* before, or instead of, the look at the reference.
SingleFails(e) ==
  /\ pc[e] = "single"
  /\ \E x \in Errors :
       /\ x = "duplicate" => ~ReferenceFree(job[e])
       /\ error' = [error EXCEPT ![e] = x]
  /\ Goto(e, "failed")
  /\ UNCHANGED <<tableVars, queueVars, recoveryVars, job, batch, crashes>>

------------------------------------------------------------------------------
\* hasReachedMaxRetryAttempt
MaxRetryReached(s) == MaxRetry > 0 /\ task[s].retried >= MaxRetry

\* processTransaction rejects what cannot succeed and what has no retry left.
Rejects(w) ==
  \/ error[w] = "overdraft"
  \/ error[w] = "funds" /\ ~InsufficientFundRetries
  \/ error[w] = "contention" /\ RejectLockContentionImmediately
  \/ MaxRetryReached(job[w].task)

WorkerFailed(w) ==
  /\ pc[w] = "failed"
  /\ \/ error[w] = "duplicate" /\ Acknowledge(w)
     \/ /\ error[w] # "duplicate"
        /\ Rejects(w)
        /\ Goto(w, "reject")
        /\ UNCHANGED <<task, job, batch, error>>
     \/ /\ error[w] # "duplicate"
        /\ ~Rejects(w)
        /\ HandBack(w)
  /\ UNCHANGED <<tableVars, sub, recoveryVars, crashes>>

\* Faulty: the status of a row that is there is overwritten.
RejectableAlways(j) == TRUE

\* RejectTransaction inserts, it never updates.
Rejectable(j) == ReferenceFree(j)

\* handleTransactionRejection: an error of the webhook gives the task back.
WorkerRejects(w) ==
  /\ pc[w] = "reject"
  /\ Rejectable(job[w])
  /\ Insert(job[w], "REJECTED")
  /\ Acknowledge(w) \/ HandBack(w)
  /\ UNCHANGED <<moved, sub, recoveryVars, crashes>>

\* The reference is taken or the database fails.
WorkerRejectFails(w) ==
  /\ pc[w] = "reject"
  /\ HandBack(w)
  /\ UNCHANGED <<tableVars, sub, recoveryVars, crashes>>

------------------------------------------------------------------------------
\* Time passes.
Age(r) ==
  /\ row[r] = "QUEUED"
  /\ r \notin old
  /\ old' = old \cup {r}
  /\ UNCHANGED <<tableVars, queueVars, attempts, todo, seen, executorVars, crashes>>

\* The SweepSize oldest of the stuck rows.
Sweepable ==
  LET stuck == Stuck \cap old
  IN {r \in stuck : Cardinality({q \in stuck : q < r}) < SweepSize}

\* recoverWithThreshold: one query, then row by row from what it returned.
Sweep(e) ==
  /\ pc[e] = "idle"
  /\ todo[e] = {}
  /\ Sweepable # {}
  /\ todo' = [todo EXCEPT ![e] = Sweepable]
  /\ seen' = [seen EXCEPT ![e] = attempts]
  /\ UNCHANGED <<tableVars, queueVars, old, attempts, executorVars, crashes>>

\* processStuckTransaction: executed, or rejected after too many attempts.
ProcessStuck(e) ==
  /\ pc[e] = "idle"
  /\ \E r \in todo[e] :
       /\ \A q \in todo[e] : r <= q
       /\ todo' = [todo EXCEPT ![e] = @ \ {r}]
       /\ job' = [job EXCEPT ![e] = [ref |-> r, kind |-> "copy", task |-> NoJob]]
       /\ Goto(e, IF seen[e][r] + 1 > MaxRecovery THEN "reject" ELSE "second")
  /\ UNCHANGED <<tableVars, queueVars, old, attempts, seen, batch, error, crashes>>

\* Every result of an execution is counted, a duplicate as already processed.
RecoveryFailed(e) ==
  /\ pc[e] = "failed"
  /\ Goto(e, "metadata")
  /\ UNCHANGED <<tableVars, queueVars, recoveryVars, job, batch, error, crashes>>

\* Faulty: the attempt is not counted.
UpdateRecoveryMetadataSame(e) ==
  /\ pc[e] = "metadata"
  /\ Forget(e)
  /\ UNCHANGED <<tableVars, queueVars, recoveryVars, crashes>>

\* updateRecoveryMetadata writes one more than what the sweep has loaded.
UpdateRecoveryMetadata(e) ==
  LET r == job[e].ref IN
  /\ pc[e] = "metadata"
  /\ attempts' = [attempts EXCEPT ![r] = seen[e][r] + 1]
  /\ Forget(e)
  /\ UNCHANGED <<tableVars, queueVars, old, todo, seen, crashes>>

\* Its error is logged and the row keeps its count.
UpdateMetadataFails(e) ==
  /\ pc[e] = "metadata"
  /\ Forget(e)
  /\ UNCHANGED <<tableVars, queueVars, recoveryVars, crashes>>

RecoveryRejects(e) ==
  /\ pc[e] = "reject"
  /\ Rejectable(job[e])
  /\ Insert(job[e], "REJECTED")
  /\ Forget(e)
  /\ UNCHANGED <<moved, queueVars, recoveryVars, crashes>>

RecoveryRejectFails(e) ==
  /\ pc[e] = "reject"
  /\ Forget(e)
  /\ UNCHANGED <<tableVars, queueVars, recoveryVars, crashes>>

------------------------------------------------------------------------------
\* A process dies in the middle of a job.
WorkerCrash(w) ==
  /\ pc[w] # "idle"
  /\ crashes < MaxCrashes
  /\ crashes' = crashes + 1
  /\ HandBack(w)
  /\ UNCHANGED <<tableVars, sub, recoveryVars>>

RecoveryCrash(e) ==
  /\ pc[e] # "idle"
  /\ crashes < MaxCrashes
  /\ crashes' = crashes + 1
  /\ todo' = [todo EXCEPT ![e] = {}]
  /\ Forget(e)
  /\ UNCHANGED <<tableVars, queueVars, old, attempts, seen>>

SubmitStep(s) ==
  \/ SubmitSync(s) \/ SubmitAsync(s) \/ PersistRow(s) \/ PersistRowFails(s)
  \/ Enqueue(s) \/ SubmissionLost(s)

ExecuteStep(e) ==
  \/ LoadSiblings(e) \/ PersistBatch(e) \/ FailOpen(e)
  \/ PersistSingle(e) \/ SingleFails(e)

WorkerStep(w) == WorkerFailed(w) \/ WorkerRejects(w) \/ WorkerRejectFails(w)

RecoveryStep(e) ==
  \/ ProcessStuck(e) \/ RecoveryFailed(e)
  \/ UpdateRecoveryMetadata(e) \/ UpdateMetadataFails(e)
  \/ RecoveryRejects(e) \/ RecoveryRejectFails(e)

Next ==
  \/ \E s \in Submissions : SubmitStep(s) \/ \E w \in Workers : Deliver(w, s)
  \/ \E e \in Executors : ExecuteStep(e)
  \/ \E w \in Workers : WorkerStep(w) \/ WorkerCrash(w)
  \/ \E r \in Refs : Age(r)
  \/ \E e \in Recoverers : Sweep(e) \/ RecoveryStep(e) \/ RecoveryCrash(e)

Spec == Init /\ [][Next]_vars

On(e, r) == pc[e] # "idle" /\ job[e].ref = r

\* Nothing is asked of the workers and the queue.  A recovery job keeps
\* sweeping and finishes what it has begun unless it dies, and the database
\* does not refuse its writes for ever.
Fairness ==
  /\ \A r \in Refs : WF_vars(Age(r))
  /\ \A e \in Recoverers :
       /\ WF_vars(Sweep(e)) /\ WF_vars(ExecuteStep(e)) /\ WF_vars(RecoveryStep(e))
       /\ \A r \in Refs :
            SF_vars(On(e, r) /\ (UpdateRecoveryMetadata(e) \/ RecoveryRejects(e)))

FairSpec == Spec /\ Fairness

------------------------------------------------------------------------------
TypeOK ==
  /\ row \in [Refs -> {"none", "QUEUED", "SCHEDULED", "APPLIED", "REJECTED"}]
  /\ copy \in [Refs -> {"none", "APPLIED", "REJECTED"}]
  /\ moved \in [Refs -> Nat]
  /\ old \subseteq Refs
  /\ attempts \in [Refs -> Nat]
  /\ sub \in [Submissions -> {"new", "persist", "enqueueCopy", "enqueueOriginal", "done"}]
  /\ task \in [Submissions -> Tasks]
  /\ pc \in [Executors -> Phases]
  /\ job \in [Executors -> Jobs \cup {NoJob}]
  /\ batch \in [Executors -> SUBSET Refs]
  /\ error \in [Executors -> Errors]
  /\ todo \in [Recoverers -> SUBSET Refs]
  /\ seen \in [Recoverers -> [Refs -> Nat]]
  /\ crashes \in Nat

SubmissionOK(s) ==
  /\ sub[s] = "enqueueCopy" => Waiting(RefOf[s])
  /\ task[s].kind = "copy" => Waiting(RefOf[s])

ExecutorOK(e) ==
  /\ pc[e] # "idle" => job[e] \in Jobs
  /\ pc[e] # "idle" /\ e \in Workers => job[e].task \in Submissions
  /\ pc[e] # "idle" /\ job[e].kind = "copy" => Waiting(job[e].ref)
  /\ \A r \in batch[e] : Waiting(r)
  /\ batch[e] # {} => pc[e] \in {"first", "second"} /\ job[e].kind = "copy"

\* Whatever is, or is about to be, executed as a copy is the copy of a row that
\* waits for it.
CopiesWait ==
  /\ \A r \in Refs : copy[r] # "none" => Waiting(r)
  /\ \A s \in Submissions : SubmissionOK(s)
  /\ \A e \in Executors : ExecutorOK(e)
  /\ \A e \in Recoverers : \A r \in todo[e] : Waiting(r)

\* The money of a reference is moved exactly as often as one of its rows says.
MovesMatch ==
  \A r \in Refs :
    moved[r] = IF row[r] = "APPLIED" \/ copy[r] = "APPLIED" THEN 1 ELSE 0

Inv == TypeOK /\ CopiesWait /\ MovesMatch

Applied(r) == row[r] = "APPLIED" \/ copy[r] = "APPLIED"
Rejected(r) == row[r] = "REJECTED" \/ copy[r] = "REJECTED"

\* However often a request is submitted, delivered, retried, coalesced with
\* others and recovered, and whichever of its commits were reported as failed,
\* its money is moved at most once, and never when it is reported as rejected
\* (transaction_queue.go, transaction_coalescing.go, queue_recovery.go).
MovedAtMostOnce ==
  \A r \in Refs : moved[r] <= 1 /\ (Rejected(r) => moved[r] = 0)

\* An outcome is final: an applied request is never rejected later by a worker
\* without retries left or by the recovery job, nor the other way round.
OutcomeIsFinal ==
  [][\A r \in Refs : /\ Applied(r) => Applied(r)' /\ ~Rejected(r)'
                     /\ Rejected(r) => Rejected(r)' /\ ~Applied(r)']_vars

\* A QUEUED row is decided in the end, even when its task was never enqueued,
\* was archived, or no worker runs (GetStuckQueuedTransactions).
StuckRowsAreDecided ==
  \A r \in Refs : row[r] = "QUEUED" ~> copy[r] # "none"
==============================================================================
