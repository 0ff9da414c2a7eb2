---------------------------- MODULE DeliveryProofs ---------------------------
(***************************************************************************)
(* The transaction queue (Queue) and what surrounds the delivery of        *)
(* transactions, for all values of the constants: the choice of a lane     *)
(* (HotPairs), the hooks that a transaction calls (Hooks), and the search  *)
(* index that follows the database (SearchIndex).  They share no state;    *)
(* each part has its own inductive invariant.  The theorems of the queue   *)
(* end its part, those at the end of the module are about Delivery.        *)
(***************************************************************************)
EXTENDS Queue, Delivery, FiniteSetTheorems, TLAPS

(***************************************************************************)
(* The queue, for any requests, submissions, workers and recovery jobs.    *)
(* Its invariant says that whatever is, or is about to be, executed as a   *)
(* copy is the copy of a row that still waits; that money is moved at most *)
(* once and that outcomes are final follow from it.                        *)
(***************************************************************************)

\* Init establishes the invariant.
LEMMA InitInv == Init => Inv
<1> SUFFICES ASSUME Init PROVE Inv
  OBVIOUS
<1>1. TypeOK
  BY QueueAssumption DEF Init, TypeOK, NoTask, Kinds, Errors, Executors, Tasks, Phases
<1>2. CopiesWait
  BY DEF Init, CopiesWait, SubmissionOK, ExecutorOK, NoTask, Waiting, Executors
<1>3. MovesMatch
  BY DEF Init, MovesMatch
<1> QED
  BY <1>1, <1>2, <1>3 DEF Inv

\* A step that leaves the table alone keeps what is said of the table; it only
\* has to care for submissions, tasks, executors and sweeps.
LEMMA QuietStep ==
  ASSUME Inv, UNCHANGED tableVars, TypeOK',
         \A s \in Submissions : SubmissionOK(s)',
         \A e \in Executors : ExecutorOK(e)',
         \A e \in Recoverers : \A r \in todo'[e] : Waiting(r)
  PROVE  Inv'
<1>1. \A r \in Refs : Waiting(r)' = Waiting(r)
  BY DEF tableVars, Waiting
<1>2. CopiesWait'
  BY <1>1 DEF Inv, CopiesWait, tableVars, TypeOK
<1>3. MovesMatch'
  BY DEF Inv, MovesMatch, tableVars
<1> QED
  BY <1>2, <1>3 DEF Inv

\* Steps of a submission that leave the table alone.
LEMMA SubmitQuietInv ==
  ASSUME Inv, NEW s \in Submissions,
         SubmitAsync(s) \/ PersistRowFails(s) \/ Enqueue(s) \/ SubmissionLost(s)
  PROVE  Inv'
<1>1. UNCHANGED tableVars /\ UNCHANGED recoveryVars /\ UNCHANGED executorVars
  BY DEF SubmitAsync, PersistRowFails, Enqueue, SubmissionLost
<1>2. TypeOK'
  <2>1. TypeOK
    BY DEF Inv
  <2>2. sub' \in [Submissions -> {"new", "persist", "enqueueCopy", "enqueueOriginal", "done"}]
    BY <2>1 DEF SubmitAsync, PersistRowFails, Enqueue, SubmissionLost, TypeOK
  <2>3. task' \in [Submissions -> Tasks]
    <3>1. CASE Enqueue(s)
      <4> PICK k \in Kinds : task' = [task EXCEPT ![s] =
                                       [kind |-> k, state |-> "pending", retried |-> 0]]
        BY <3>1 DEF Enqueue, Kinds
      <4>1. [kind |-> k, state |-> "pending", retried |-> 0] \in Tasks
        BY QueueAssumption DEF Tasks
      <4> QED
        BY <2>1, <4>1 DEF TypeOK
    <3> QED
      BY <2>1, <3>1 DEF SubmitAsync, PersistRowFails, SubmissionLost, TypeOK
  <2>4. crashes' \in Nat
    BY <2>1 DEF SubmitAsync, PersistRowFails, Enqueue, SubmissionLost, TypeOK
  <2> QED
    BY <1>1, <2>1, <2>2, <2>3, <2>4 DEF TypeOK, tableVars, recoveryVars, executorVars
<1>3. ASSUME NEW q \in Submissions PROVE SubmissionOK(q)'
  BY <1>1 DEF SubmitAsync, PersistRowFails, Enqueue, SubmissionLost, Inv, TypeOK,
              CopiesWait, SubmissionOK, Waiting, tableVars, Kinds
<1>4. ASSUME NEW e \in Executors PROVE ExecutorOK(e)'
  BY <1>1 DEF Inv, CopiesWait, ExecutorOK, Waiting, tableVars, executorVars
<1>5. \A e \in Recoverers : \A r \in todo'[e] : Waiting(r)
  BY <1>1 DEF Inv, CopiesWait, recoveryVars
<1> QED
  BY <1>1, <1>2, <1>3, <1>4, <1>5, QuietStep

\* What Forget leaves of the executors.
LEMMA ForgetFacts ==
  ASSUME Inv, NEW e \in Executors, Forget(e)
  PROVE  /\ pc' \in [Executors -> Phases]
         /\ job' \in [Executors -> Jobs \cup {NoJob}]
         /\ batch' \in [Executors -> SUBSET Refs]
         /\ error' \in [Executors -> Errors]
         /\ pc'[e] = "idle" /\ batch'[e] = {}
         /\ \A x \in Executors : x # e =>
              pc'[x] = pc[x] /\ job'[x] = job[x] /\ batch'[x] = batch[x]
  BY DEF Forget, Goto, Inv, TypeOK, Errors, Phases

\* An executor that goes on without touching the table or its job.
LEMMA LocalExecutor ==
  ASSUME Inv, NEW e \in Executors,
         \A r \in Refs : Waiting(r) => Waiting(r)',
         pc' \in [Executors -> Phases],
         batch' \in [Executors -> SUBSET Refs],
         \A x \in Executors : x # e =>
              pc'[x] = pc[x] /\ job'[x] = job[x] /\ batch'[x] = batch[x],
         ExecutorOK(e)'
  PROVE  \A x \in Executors : ExecutorOK(x)'
<1> SUFFICES ASSUME NEW x \in Executors, x # e PROVE ExecutorOK(x)'
  OBVIOUS
<1>1. ExecutorOK(x)
  BY DEF Inv, CopiesWait
<1>2. batch[x] \subseteq Refs /\ (pc[x] # "idle" => job[x].ref \in Refs)
  BY <1>1 DEF Inv, TypeOK, ExecutorOK, Jobs
<1> QED
  BY <1>1, <1>2 DEF ExecutorOK

\* Acknowledging and handing back a task leave its kind alone.
LEMMA TaskFacts ==
  ASSUME Inv, NEW w \in Workers, pc[w] # "idle", Acknowledge(w) \/ HandBack(w)
  PROVE  /\ task' \in [Submissions -> Tasks]
         /\ \A s \in Submissions : task'[s].kind = task[s].kind
         /\ Forget(w)
<1> PICK s \in Submissions : s = job[w].task
  BY DEF Inv, CopiesWait, ExecutorOK, Executors
<1>1. task \in [Submissions -> Tasks]
  BY DEF Inv, TypeOK
<1> PICK t : t = task[s]
  OBVIOUS
<1>2. t \in Tasks
  BY <1>1
<1>3. CASE Acknowledge(w)
  <2>1. task' = [task EXCEPT ![s] = [t EXCEPT !.state = "done"]]
    BY <1>1, <1>3 DEF Acknowledge
  <2>2. [t EXCEPT !.state = "done"] \in Tasks /\ [t EXCEPT !.state = "done"].kind = t.kind
    BY <1>2 DEF Tasks
  <2> QED
    BY <1>1, <1>3, <2>1, <2>2 DEF Acknowledge
<1>4. CASE HandBack(w)
  <2> DEFINE u == IF t.retried < MaxRetry
                  THEN [kind |-> t.kind, state |-> "pending", retried |-> t.retried + 1]
                  ELSE [kind |-> t.kind, state |-> "archived", retried |-> t.retried]
  <2>1. task' = [task EXCEPT ![s] = u]
    BY <1>1, <1>4 DEF HandBack
  <2>2. u \in Tasks /\ u.kind = t.kind
    BY <1>2, QueueAssumption DEF Tasks
  <2> HIDE DEF u
  <2> QED
    BY <1>1, <1>4, <2>1, <2>2 DEF HandBack
<1> QED
  BY <1>3, <1>4

\* A worker that gives its task up, whatever it has inserted before.
LEMMA SettleInv ==
  ASSUME Inv, NEW w \in Workers, pc[w] # "idle", Acknowledge(w) \/ HandBack(w),
         UNCHANGED <<sub, recoveryVars>>, crashes' \in Nat,
         \A r \in Refs : Waiting(r) => Waiting(r)'
  PROVE  /\ task' \in [Submissions -> Tasks]
         /\ pc' \in [Executors -> Phases]
         /\ job' \in [Executors -> Jobs \cup {NoJob}]
         /\ batch' \in [Executors -> SUBSET Refs]
         /\ error' \in [Executors -> Errors]
         /\ \A s \in Submissions : SubmissionOK(s)'
         /\ \A e \in Executors : ExecutorOK(e)'
         /\ \A e \in Recoverers : \A r \in todo'[e] : Waiting(r)'
<1>1. w \in Executors
  BY DEF Executors
<1>2. TypeOK /\ CopiesWait
  BY DEF Inv
<1>3. /\ task' \in [Submissions -> Tasks]
      /\ \A s \in Submissions : task'[s].kind = task[s].kind
      /\ Forget(w)
  BY TaskFacts
<1>4. /\ pc' \in [Executors -> Phases]
      /\ job' \in [Executors -> Jobs \cup {NoJob}]
      /\ batch' \in [Executors -> SUBSET Refs]
      /\ error' \in [Executors -> Errors]
      /\ pc'[w] = "idle" /\ batch'[w] = {}
      /\ \A x \in Executors : x # w =>
           pc'[x] = pc[x] /\ job'[x] = job[x] /\ batch'[x] = batch[x]
  BY <1>1, <1>3, ForgetFacts
<1>5. ASSUME NEW s \in Submissions PROVE SubmissionOK(s)'
  <2>1. SubmissionOK(s) /\ RefOf[s] \in Refs
    BY <1>2, QueueAssumption DEF CopiesWait
  <2> QED
    BY <1>3, <2>1 DEF SubmissionOK
<1>6. \A e \in Executors : ExecutorOK(e)'
  <2>1. ExecutorOK(w)'
    BY <1>4 DEF ExecutorOK
  <2> QED
    BY <1>1, <1>4, <2>1, LocalExecutor
<1>7. \A e \in Recoverers : \A r \in todo'[e] : Waiting(r)'
  BY <1>2 DEF CopiesWait, TypeOK, recoveryVars
<1> QED
  BY <1>3, <1>4, <1>5, <1>6, <1>7

\* Inserting the row of a job under a free reference: what waits goes on
\* waiting, and only the job's request gets an outcome, its first.
LEMMA InsertFacts ==
  ASSUME Inv, NEW j \in Jobs, j.kind = "copy" => Waiting(j.ref), ReferenceFree(j),
         NEW status \in {"APPLIED", "REJECTED"}, Insert(j, status)
  PROVE  /\ row' \in [Refs -> {"none", "QUEUED", "SCHEDULED", "APPLIED", "REJECTED"}]
         /\ copy' \in [Refs -> {"none", "APPLIED", "REJECTED"}]
         /\ \A r \in Refs : Waiting(r) => Waiting(r)'
         /\ \A r \in Refs : copy'[r] # "none" => Waiting(r)'
         /\ \A r \in Refs : r # j.ref => row'[r] = row[r] /\ copy'[r] = copy[r]
         /\ ~Applied(j.ref) /\ ~Rejected(j.ref)
         /\ Applied(j.ref)' <=> status = "APPLIED"
<1>1. /\ j.ref \in Refs /\ j.kind \in {"copy", "original"}
      /\ row \in [Refs -> {"none", "QUEUED", "SCHEDULED", "APPLIED", "REJECTED"}]
      /\ copy \in [Refs -> {"none", "APPLIED", "REJECTED"}]
      /\ \A r \in Refs : copy[r] # "none" => Waiting(r)
  BY DEF Inv, TypeOK, CopiesWait, Jobs, Kinds
<1>2. CASE j.kind = "copy"
  BY <1>1, <1>2 DEF ReferenceFree, Insert, Waiting, Applied, Rejected
<1>3. CASE j.kind = "original"
  BY <1>1, <1>3 DEF ReferenceFree, Insert, Waiting, Applied, Rejected
<1> QED
  BY <1>1, <1>2, <1>3

\* An execution counts the move of its request.
LEMMA AppliedMoves ==
  ASSUME Inv, NEW j \in Jobs, j.kind = "copy" => Waiting(j.ref), ReferenceFree(j),
         Insert(j, "APPLIED"), moved' = [moved EXCEPT ![j.ref] = @ + 1]
  PROVE  MovesMatch' /\ moved' \in [Refs -> Nat]
<1>1. /\ \A r \in Refs : r # j.ref => row'[r] = row[r] /\ copy'[r] = copy[r]
      /\ ~Applied(j.ref) /\ Applied(j.ref)'
  BY InsertFacts
<1>2. j.ref \in Refs /\ moved \in [Refs -> Nat] /\ MovesMatch
  BY DEF Jobs, Inv, TypeOK
<1> QED
  BY <1>1, <1>2 DEF MovesMatch, Applied

\* A rejection moves nothing.
LEMMA RejectedMoves ==
  ASSUME Inv, NEW j \in Jobs, j.kind = "copy" => Waiting(j.ref), ReferenceFree(j),
         Insert(j, "REJECTED"), UNCHANGED moved
  PROVE  MovesMatch' /\ moved' \in [Refs -> Nat]
<1>1. /\ \A r \in Refs : r # j.ref => row'[r] = row[r] /\ copy'[r] = copy[r]
      /\ ~Applied(j.ref) /\ ~Applied(j.ref)'
  BY InsertFacts
<1>2. j.ref \in Refs /\ moved \in [Refs -> Nat] /\ MovesMatch
  BY DEF Jobs, Inv, TypeOK
<1> QED
  BY <1>1, <1>2 DEF MovesMatch, Applied

\* Submissions, tasks and sweeps that a step leaves alone stay in order.
LEMMA OthersKept ==
  ASSUME Inv, \A r \in Refs : Waiting(r) => Waiting(r)'
  PROVE  /\ UNCHANGED queueVars => \A s \in Submissions : SubmissionOK(s)'
         /\ UNCHANGED executorVars => \A e \in Executors : ExecutorOK(e)'
         /\ UNCHANGED todo => \A e \in Recoverers : \A r \in todo'[e] : Waiting(r)'
<1>1. TypeOK /\ CopiesWait
  BY DEF Inv
<1>2. ASSUME UNCHANGED queueVars, NEW s \in Submissions PROVE SubmissionOK(s)'
  <2>1. SubmissionOK(s) /\ RefOf[s] \in Refs
    BY <1>1, QueueAssumption DEF CopiesWait
  <2> QED
    BY <1>2, <2>1 DEF SubmissionOK, queueVars
<1>3. ASSUME UNCHANGED executorVars, NEW e \in Executors PROVE ExecutorOK(e)'
  <2>1. ExecutorOK(e) /\ batch[e] \subseteq Refs
    BY <1>1 DEF CopiesWait, TypeOK
  <2>2. pc[e] # "idle" => job[e].ref \in Refs
    BY <2>1 DEF ExecutorOK, Jobs
  <2> QED
    BY <1>3, <2>1, <2>2 DEF ExecutorOK, executorVars
<1>4. ASSUME UNCHANGED todo PROVE \A e \in Recoverers : \A r \in todo'[e] : Waiting(r)'
  BY <1>1, <1>4 DEF CopiesWait, TypeOK
<1> QED
  BY <1>2, <1>3, <1>4

\* A synchronous request.
LEMMA SubmitSyncInv ==
  ASSUME Inv, NEW s \in Submissions, SubmitSync(s) PROVE Inv'
<1> PICK j : j = [ref |-> RefOf[s], kind |-> "original", task |-> NoJob]
  OBVIOUS
<1>1. j \in Jobs /\ j.kind = "original" /\ j.ref = RefOf[s] /\ RefOf[s] \in Refs
  BY QueueAssumption DEF Jobs, Kinds
<1>2. TypeOK /\ CopiesWait /\ MovesMatch
  BY DEF Inv
<1>3. /\ row' \in [Refs -> {"none", "QUEUED", "SCHEDULED", "APPLIED", "REJECTED"}]
      /\ copy' \in [Refs -> {"none", "APPLIED", "REJECTED"}]
      /\ moved' \in [Refs -> Nat]
      /\ \A r \in Refs : Waiting(r) => Waiting(r)'
      /\ \A r \in Refs : copy'[r] # "none" => Waiting(r)'
      /\ MovesMatch'
  <2>1. CASE UNCHANGED tableVars
    BY <1>2, <2>1 DEF tableVars, TypeOK, CopiesWait, MovesMatch, Waiting
  <2>2. CASE /\ ReferenceFree(j) /\ Insert(j, "APPLIED")
             /\ moved' = [moved EXCEPT ![j.ref] = @ + 1]
    BY <1>1, <2>2, InsertFacts, AppliedMoves
  <2> QED
    BY <2>1, <2>2 DEF SubmitSync
<1>4. /\ UNCHANGED task /\ UNCHANGED recoveryVars /\ UNCHANGED executorVars
      /\ UNCHANGED crashes /\ sub' = [sub EXCEPT ![s] = "done"]
  BY DEF SubmitSync
<1>5. TypeOK'
  BY <1>2, <1>3, <1>4 DEF TypeOK, recoveryVars, executorVars
<1>6. \A q \in Submissions : SubmissionOK(q)'
  BY <1>2, <1>3, <1>4, QueueAssumption DEF SubmissionOK, CopiesWait, TypeOK
<1>7. /\ \A e \in Executors : ExecutorOK(e)'
      /\ \A e \in Recoverers : \A r \in todo'[e] : Waiting(r)'
  BY <1>3, <1>4, OthersKept DEF recoveryVars
<1>8. CopiesWait'
  BY <1>3, <1>6, <1>7 DEF CopiesWait
<1> QED
  BY <1>3, <1>5, <1>8 DEF Inv

\* The QUEUED or SCHEDULED row is persisted.
LEMMA PersistRowInv ==
  ASSUME Inv, NEW s \in Submissions, PersistRow(s) PROVE Inv'
<1> PICK r \in Refs : r = RefOf[s]
  BY QueueAssumption
<1>1. TypeOK /\ CopiesWait /\ MovesMatch
  BY DEF Inv
<1> PICK st \in {"QUEUED", "SCHEDULED"} : row' = [row EXCEPT ![r] = st]
  BY DEF PersistRow
<1>2. /\ row[r] = "none"
      /\ UNCHANGED <<copy, moved>>
      /\ UNCHANGED task /\ UNCHANGED recoveryVars /\ UNCHANGED executorVars
      /\ UNCHANGED crashes
  BY DEF PersistRow
<1>3. /\ row' \in [Refs -> {"none", "QUEUED", "SCHEDULED", "APPLIED", "REJECTED"}]
      /\ Waiting(r)' /\ \A q \in Refs : Waiting(q) => Waiting(q)'
  BY <1>1, <1>2 DEF TypeOK, Waiting
<1>4. MovesMatch'
  BY <1>1, <1>2 DEF MovesMatch, TypeOK
<1> PICK x \in {"enqueueCopy", "enqueueOriginal"} : sub' = [sub EXCEPT ![s] = x]
  BY DEF PersistRow
<1>5. TypeOK'
  BY <1>1, <1>2, <1>3 DEF TypeOK, recoveryVars, executorVars
<1>6. \A q \in Submissions : SubmissionOK(q)'
  BY <1>1, <1>2, <1>3, QueueAssumption DEF SubmissionOK, CopiesWait, TypeOK
<1>7. /\ \A e \in Executors : ExecutorOK(e)'
      /\ \A e \in Recoverers : \A q \in todo'[e] : Waiting(q)'
  BY <1>2, <1>3, OthersKept DEF recoveryVars
<1>8. CopiesWait'
  BY <1>1, <1>2, <1>3, <1>6, <1>7 DEF CopiesWait
<1> QED
  BY <1>4, <1>5, <1>8 DEF Inv

\* The invariant without what it says of the table.
RestOK ==
  /\ old \subseteq Refs
  /\ attempts \in [Refs -> Nat]
  /\ sub \in [Submissions -> {"new", "persist", "enqueueCopy", "enqueueOriginal", "done"}]
  /\ task \in [Submissions -> Tasks]
  /\ pc \in [Executors -> Phases]
  /\ job \in [Executors -> Jobs \cup {NoJob}]
  /\ batch \in [Executors -> SUBSET Refs]
  /\ error \in [Executors -> Errors]
  /\ todo \in [Recoverers -> SUBSET Refs]
  /\ seen \in [Recoverers -> [Refs -> Nat]]
  /\ crashes \in Nat
  /\ \A s \in Submissions : SubmissionOK(s)
  /\ \A e \in Executors : ExecutorOK(e)
  /\ \A e \in Recoverers : \A r \in todo[e] : Waiting(r)

\* What the invariant says of the table.
QueueTableOK ==
  /\ row \in [Refs -> {"none", "QUEUED", "SCHEDULED", "APPLIED", "REJECTED"}]
  /\ copy \in [Refs -> {"none", "APPLIED", "REJECTED"}]
  /\ moved \in [Refs -> Nat]
  /\ \A r \in Refs : copy[r] # "none" => Waiting(r)
  /\ MovesMatch

\* The invariant is these two.
LEMMA InvParts == /\ Inv <=> QueueTableOK /\ RestOK
                  /\ Inv' <=> QueueTableOK' /\ RestOK'
  BY DEF Inv, TypeOK, CopiesWait, QueueTableOK, RestOK

\* A step that leaves the table alone keeps it in order.
LEMMA TableKept ==
  ASSUME Inv, UNCHANGED tableVars
  PROVE  QueueTableOK' /\ \A r \in Refs : Waiting(r) => Waiting(r)'
  BY InvParts DEF QueueTableOK, tableVars, Waiting, MovesMatch

\* An executor changes its own entries and keeps its job in order.
LEMMA OwnStep ==
  ASSUME Inv, NEW e \in Executors,
         \A r \in Refs : Waiting(r) => Waiting(r)',
         UNCHANGED queueVars, UNCHANGED recoveryVars, UNCHANGED crashes,
         pc' \in [Executors -> Phases], job' \in [Executors -> Jobs \cup {NoJob}],
         batch' \in [Executors -> SUBSET Refs], error' \in [Executors -> Errors],
         \A x \in Executors : x # e =>
              pc'[x] = pc[x] /\ job'[x] = job[x] /\ batch'[x] = batch[x],
         ExecutorOK(e)'
  PROVE  RestOK'
<1>1. \A x \in Executors : ExecutorOK(x)'
  BY LocalExecutor
<1>2. /\ \A s \in Submissions : SubmissionOK(s)'
      /\ \A x \in Recoverers : \A r \in todo'[x] : Waiting(r)'
  BY OthersKept DEF recoveryVars
<1> QED
  BY <1>1, <1>2, InvParts DEF RestOK, queueVars, recoveryVars

\* A worker is done with its task.
LEMMA SettleRest ==
  ASSUME Inv, NEW w \in Workers, pc[w] # "idle", Acknowledge(w) \/ HandBack(w),
         UNCHANGED sub, UNCHANGED recoveryVars, crashes' \in Nat,
         \A r \in Refs : Waiting(r) => Waiting(r)'
  PROVE  RestOK'
  BY SettleInv, InvParts DEF RestOK, recoveryVars

\* A job goes to another phase.
LEMMA GotoRest ==
  ASSUME Inv, NEW e \in Executors, pc[e] # "idle", NEW phase \in Phases, Goto(e, phase),
         \A r \in Refs : Waiting(r) => Waiting(r)',
         UNCHANGED queueVars, UNCHANGED recoveryVars, UNCHANGED crashes, UNCHANGED job,
         error' \in [Executors -> Errors],
         batch' = [batch EXCEPT ![e] = {}]
  PROVE  RestOK'
<1>1. TypeOK /\ ExecutorOK(e)
  BY DEF Inv, CopiesWait
<1>2. job[e].ref \in Refs
  BY <1>1 DEF ExecutorOK, Jobs
<1>3. ExecutorOK(e)'
  BY <1>1, <1>2 DEF ExecutorOK, Goto, TypeOK
<1> QED
  BY <1>1, <1>3, OwnStep DEF Goto, TypeOK

\* The job of an executor was executed.
LEMMA SucceedRest ==
  ASSUME Inv, NEW e \in Executors, pc[e] # "idle", Succeed(e),
         \A r \in Refs : Waiting(r) => Waiting(r)',
         UNCHANGED sub, UNCHANGED recoveryVars, UNCHANGED crashes
  PROVE  RestOK'
<1>1. CASE e \in Workers
  <2>1. Acknowledge(e) /\ crashes' \in Nat
    BY <1>1 DEF Succeed, Inv, TypeOK
  <2> QED
    BY <1>1, <2>1, SettleRest
<1>2. CASE e \notin Workers
  <2>1. /\ Goto(e, "metadata") /\ batch' = [batch EXCEPT ![e] = {}]
        /\ UNCHANGED queueVars /\ UNCHANGED job /\ error' \in [Executors -> Errors]
    BY <1>2 DEF Succeed, queueVars, Inv, TypeOK
  <2>2. "metadata" \in Phases
    BY DEF Phases
  <2> QED
    BY <2>1, <2>2, GotoRest
<1> QED
  BY <1>1, <1>2

\* The job of an executor that is not idle.
LEMMA JobType ==
  ASSUME Inv, NEW e \in Executors, pc[e] # "idle"
  PROVE  /\ job[e] \in Jobs /\ job[e].ref \in Refs
         /\ job[e].kind = "copy" => Waiting(job[e].ref)
         /\ batch[e] \subseteq Refs
         /\ e \in Workers => job[e].task \in Submissions
<1>1. ExecutorOK(e) /\ TypeOK
  BY DEF Inv, CopiesWait
<1> QED
  BY <1>1 DEF ExecutorOK, Jobs, TypeOK

\* Executed alone.
LEMMA PersistSingleInv ==
  ASSUME Inv, NEW e \in Executors, PersistSingle(e) PROVE Inv'
<1> PICK j : j = job[e]
  OBVIOUS
<1>1. /\ pc[e] = "single" /\ ReferenceFree(j) /\ Insert(j, "APPLIED")
      /\ moved' = [moved EXCEPT ![j.ref] = @ + 1]
      /\ UNCHANGED sub /\ UNCHANGED recoveryVars /\ UNCHANGED crashes
  BY DEF PersistSingle
<1>2. j \in Jobs /\ (j.kind = "copy" => Waiting(j.ref))
  BY <1>1, JobType
<1>3. QueueTableOK' /\ \A r \in Refs : Waiting(r) => Waiting(r)'
  BY <1>1, <1>2, InsertFacts, AppliedMoves DEF QueueTableOK
<1>4. CASE Succeed(e)
  BY <1>1, <1>3, <1>4, SucceedRest, InvParts
<1>5. CASE Goto(e, "failed") /\ UNCHANGED <<task, job, batch, error>>
  <2>1. batch[e] = {}
    BY <1>1 DEF Inv, CopiesWait, ExecutorOK
  <2>2. /\ batch' = [batch EXCEPT ![e] = {}] /\ UNCHANGED queueVars
        /\ error' \in [Executors -> Errors]
    BY <1>1, <1>5, <2>1 DEF Inv, TypeOK, queueVars
  <2>3. "failed" \in Phases
    BY DEF Phases
  <2> QED
    BY <1>1, <1>3, <1>5, <2>2, <2>3, GotoRest, InvParts
<1> QED
  BY <1>4, <1>5 DEF PersistSingle

\* Executed in a coalesced batch.
LEMMA PersistBatchInv ==
  ASSUME Inv, NEW e \in Executors, PersistBatch(e) PROVE Inv'
<1> DEFINE members == batch[e] \cup {job[e].ref}
<1>1. QueueTableOK /\ ExecutorOK(e) /\ batch[e] # {}
  BY InvParts DEF RestOK, PersistBatch
<1>2. pc[e] \in {"first", "second"} /\ job[e].kind = "copy"
  BY <1>1 DEF ExecutorOK
<1>3. members \subseteq Refs /\ \A r \in members : Waiting(r) /\ copy[r] = "none"
  BY <1>1, <1>2, JobType DEF ExecutorOK, PersistBatch, BatchFree
<1>4. /\ copy' = [r \in Refs |-> IF r \in members THEN "APPLIED" ELSE copy[r]]
      /\ moved' = [r \in Refs |-> IF r \in members THEN moved[r] + 1 ELSE moved[r]]
      /\ UNCHANGED row /\ UNCHANGED sub /\ UNCHANGED recoveryVars /\ UNCHANGED crashes
  BY DEF PersistBatch
<1> HIDE DEF members
<1>5. \A r \in Refs : Waiting(r)' = Waiting(r)
  BY <1>4 DEF Waiting
<1>6. MovesMatch'
  <2> SUFFICES ASSUME NEW r \in Refs
               PROVE  moved'[r] = IF row'[r] = "APPLIED" \/ copy'[r] = "APPLIED" THEN 1 ELSE 0
    BY DEF MovesMatch
  <2>1. CASE r \in members
    <3>1. row[r] # "APPLIED" /\ copy[r] # "APPLIED"
      BY <1>3, <2>1 DEF Waiting
    <3>2. moved[r] = 0
      BY <1>1, <3>1 DEF QueueTableOK, MovesMatch
    <3> QED
      BY <1>4, <2>1, <3>2
  <2>2. CASE r \notin members
    BY <1>1, <1>4, <2>2 DEF QueueTableOK, MovesMatch
  <2> QED
    BY <2>1, <2>2
<1>7. QueueTableOK'
  BY <1>1, <1>3, <1>4, <1>5, <1>6 DEF QueueTableOK
<1>8. CASE Succeed(e)
  BY <1>2, <1>4, <1>5, <1>7, <1>8, SucceedRest, InvParts
<1>9. CASE /\ Goto(e, AfterBatch(e)) /\ batch' = [batch EXCEPT ![e] = {}]
           /\ UNCHANGED <<task, job, error>>
  <2>1. AfterBatch(e) \in Phases
    BY DEF AfterBatch, Phases
  <2>2. error' \in [Executors -> Errors] /\ UNCHANGED queueVars
    BY <1>4, <1>9 DEF Inv, TypeOK, queueVars
  <2> QED
    BY <1>2, <1>4, <1>5, <1>7, <1>9, <2>1, <2>2, GotoRest, InvParts
<1> QED
  BY <1>8, <1>9 DEF PersistBatch

\* A worker takes a task.
LEMMA DeliverInv ==
  ASSUME Inv, NEW w \in Workers, NEW s \in Submissions, Deliver(w, s) PROVE Inv'
<1>1. w \in Executors /\ TypeOK /\ CopiesWait /\ RefOf[s] \in Refs
  BY QueueAssumption DEF Executors, Inv
<1> PICK t : t = task[s]
  OBVIOUS
<1> PICK j : j = [ref |-> RefOf[s], kind |-> t.kind, task |-> s]
  OBVIOUS
<1>2. t \in Tasks
  BY <1>1 DEF TypeOK
<1>3. j \in Jobs /\ j.ref = RefOf[s] /\ j.kind = t.kind /\ j.task = s
  BY <1>1, <1>2 DEF Jobs, Tasks
<1>4. /\ task' = [task EXCEPT ![s] = [t EXCEPT !.state = "active"]]
      /\ job' = [job EXCEPT ![w] = j] /\ pc' = [pc EXCEPT ![w] = "first"]
      /\ pc[w] = "idle"
      /\ UNCHANGED tableVars /\ UNCHANGED sub /\ UNCHANGED recoveryVars
      /\ UNCHANGED batch /\ UNCHANGED error /\ UNCHANGED crashes
  BY <1>1 DEF Deliver, Goto, TypeOK
<1>5. QueueTableOK' /\ \A r \in Refs : Waiting(r) => Waiting(r)'
  BY <1>4, TableKept
<1>6. [t EXCEPT !.state = "active"] \in Tasks /\ [t EXCEPT !.state = "active"].kind = t.kind
  BY <1>2 DEF Tasks
<1>7. /\ task' \in [Submissions -> Tasks]
      /\ \A q \in Submissions : task'[q].kind = task[q].kind
  BY <1>1, <1>4, <1>6 DEF TypeOK
<1>8. \A q \in Submissions : SubmissionOK(q)'
  BY <1>1, <1>4, <1>5, <1>7, QueueAssumption DEF SubmissionOK, CopiesWait
<1>9. /\ pc' \in [Executors -> Phases] /\ job' \in [Executors -> Jobs \cup {NoJob}]
      /\ \A x \in Executors : x # w =>
           pc'[x] = pc[x] /\ job'[x] = job[x] /\ batch'[x] = batch[x]
      /\ pc'[w] = "first" /\ job'[w] = j /\ batch'[w] = batch[w]
  BY <1>1, <1>3, <1>4 DEF TypeOK, Phases
<1>10. ExecutorOK(w)'
  <2>1. batch[w] = {}
    BY <1>1, <1>4 DEF CopiesWait, ExecutorOK
  <2>2. t.kind = "copy" => Waiting(RefOf[s])
    BY <1>1 DEF CopiesWait, SubmissionOK
  <2> QED
    BY <1>1, <1>3, <1>5, <1>9, <2>1, <2>2 DEF ExecutorOK
<1>11. \A e \in Executors : ExecutorOK(e)'
  <2>1. batch' \in [Executors -> SUBSET Refs]
    BY <1>1, <1>4 DEF TypeOK
  <2> QED
    BY <1>1, <1>5, <1>9, <1>10, <2>1, LocalExecutor
<1>12. RestOK'
  BY <1>1, <1>4, <1>5, <1>7, <1>8, <1>9, <1>11, OthersKept, InvParts
     DEF RestOK, recoveryVars, TypeOK
<1> QED
  BY <1>5, <1>12, InvParts

\* The siblings of a batch wait for their copies.
LEMMA LoadSiblingsInv ==
  ASSUME Inv, NEW e \in Executors, LoadSiblings(e) PROVE Inv'
<1>1. TypeOK /\ ExecutorOK(e)
  BY DEF Inv, CopiesWait
<1> PICK S \in SUBSET {r \in Stuck : r > job[e].ref} : batch' = [batch EXCEPT ![e] = S]
  BY DEF LoadSiblings
<1>2. S \subseteq Refs /\ \A r \in S : Waiting(r)
  BY DEF Stuck, Waiting
<1>3. /\ UNCHANGED tableVars /\ UNCHANGED queueVars /\ UNCHANGED recoveryVars
      /\ UNCHANGED pc /\ UNCHANGED job /\ UNCHANGED error /\ UNCHANGED crashes
      /\ pc[e] \in {"first", "second"} /\ job[e].kind = "copy"
  BY DEF LoadSiblings, CanCoalesce
<1>4. QueueTableOK' /\ \A r \in Refs : Waiting(r) => Waiting(r)'
  BY <1>3, TableKept
<1>5. batch' \in [Executors -> SUBSET Refs] /\ batch'[e] = S
  BY <1>1, <1>2 DEF TypeOK
<1>6. ExecutorOK(e)'
  BY <1>1, <1>2, <1>3, <1>4, <1>5, JobType DEF ExecutorOK
<1>7. RestOK'
  BY <1>1, <1>3, <1>4, <1>5, <1>6, OwnStep DEF TypeOK
<1> QED
  BY <1>4, <1>7, InvParts

\* An executor goes on to its next phase without touching the table.
LEMMA PhaseInv ==
  ASSUME Inv, NEW e \in Executors, FailOpen(e) \/ SingleFails(e) \/ RecoveryFailed(e)
  PROVE  Inv'
<1>1. UNCHANGED tableVars /\ UNCHANGED queueVars /\ UNCHANGED recoveryVars
  BY DEF FailOpen, SingleFails, RecoveryFailed
<1>2. QueueTableOK' /\ \A r \in Refs : Waiting(r) => Waiting(r)'
  BY <1>1, TableKept
<1>3. TypeOK /\ ExecutorOK(e)
  BY DEF Inv, CopiesWait
<1>4. /\ UNCHANGED job /\ UNCHANGED crashes /\ pc[e] # "idle"
      /\ error' \in [Executors -> Errors]
  BY <1>3 DEF FailOpen, SingleFails, RecoveryFailed, TypeOK
<1>5. batch' = [batch EXCEPT ![e] = {}]
  BY <1>3 DEF FailOpen, SingleFails, RecoveryFailed, TypeOK, ExecutorOK
<1>6. \E phase \in Phases : Goto(e, phase)
  BY DEF FailOpen, SingleFails, RecoveryFailed, AfterBatch, Phases
<1>7. RestOK'
  BY <1>1, <1>2, <1>4, <1>5, <1>6, GotoRest
<1> QED
  BY <1>2, <1>7, InvParts

\* A failed execution is acknowledged, rejected or handed back.
LEMMA WorkerFailedInv ==
  ASSUME Inv, NEW w \in Workers, WorkerFailed(w) PROVE Inv'
<1>1. /\ UNCHANGED tableVars /\ UNCHANGED sub /\ UNCHANGED recoveryVars
      /\ UNCHANGED crashes /\ pc[w] = "failed" /\ w \in Executors
      /\ TypeOK /\ ExecutorOK(w)
  BY DEF WorkerFailed, Executors, Inv, CopiesWait
<1>2. QueueTableOK' /\ \A r \in Refs : Waiting(r) => Waiting(r)'
  BY <1>1, TableKept
<1>3. CASE Acknowledge(w) \/ HandBack(w)
  <2>1. crashes' \in Nat
    BY <1>1 DEF TypeOK
  <2> QED
    BY <1>1, <1>2, <1>3, <2>1, SettleRest, InvParts
<1>4. CASE Goto(w, "reject") /\ UNCHANGED <<task, job, batch, error>>
  <2>1. batch' = [batch EXCEPT ![w] = {}]
    BY <1>1, <1>4 DEF TypeOK, ExecutorOK
  <2>2. /\ "reject" \in Phases /\ UNCHANGED queueVars /\ UNCHANGED job
        /\ error' \in [Executors -> Errors]
    BY <1>1, <1>4 DEF Phases, queueVars, TypeOK
  <2> QED
    BY <1>1, <1>2, <1>4, <2>1, <2>2, GotoRest, InvParts
<1> QED
  BY <1>3, <1>4 DEF WorkerFailed

\* A worker rejects its transaction.
LEMMA WorkerRejectsInv ==
  ASSUME Inv, NEW w \in Workers, WorkerRejects(w) PROVE Inv'
<1> PICK j : j = job[w]
  OBVIOUS
<1>1. /\ UNCHANGED moved /\ UNCHANGED sub /\ UNCHANGED recoveryVars
      /\ UNCHANGED crashes /\ pc[w] = "reject" /\ w \in Executors
      /\ ReferenceFree(j) /\ Insert(j, "REJECTED") /\ (Acknowledge(w) \/ HandBack(w))
  BY DEF WorkerRejects, Rejectable, Executors
<1>2. j \in Jobs /\ (j.kind = "copy" => Waiting(j.ref)) /\ crashes' \in Nat
  BY <1>1, JobType DEF Inv, TypeOK
<1>3. QueueTableOK' /\ \A r \in Refs : Waiting(r) => Waiting(r)'
  BY <1>1, <1>2, InsertFacts, RejectedMoves DEF QueueTableOK
<1>4. RestOK'
  BY <1>1, <1>2, <1>3, SettleRest
<1> QED
  BY <1>3, <1>4, InvParts

\* The rejection fails, or the worker dies.
LEMMA WorkerGivesUpInv ==
  ASSUME Inv, NEW w \in Workers, WorkerRejectFails(w) \/ WorkerCrash(w) PROVE Inv'
<1>1. /\ UNCHANGED tableVars /\ UNCHANGED sub /\ UNCHANGED recoveryVars
      /\ pc[w] # "idle" /\ HandBack(w) /\ crashes' \in Nat
  BY DEF WorkerRejectFails, WorkerCrash, Inv, TypeOK
<1>2. QueueTableOK' /\ \A r \in Refs : Waiting(r) => Waiting(r)'
  BY <1>1, TableKept
<1>3. RestOK'
  BY <1>1, <1>2, SettleRest
<1> QED
  BY <1>2, <1>3, InvParts

\* Time passes and sweeps load rows that wait.
LEMMA SweepInv ==
  ASSUME Inv, (\E r \in Refs : Age(r)) \/ (\E e \in Recoverers : Sweep(e)) PROVE Inv'
<1>1. /\ UNCHANGED tableVars /\ UNCHANGED queueVars /\ UNCHANGED executorVars
      /\ UNCHANGED attempts /\ UNCHANGED crashes
  BY DEF Age, Sweep
<1>2. QueueTableOK' /\ \A r \in Refs : Waiting(r) => Waiting(r)'
  BY <1>1, TableKept
<1>3. TypeOK /\ CopiesWait
  BY DEF Inv
<1>4. CASE \E r \in Refs : Age(r)
  <2>1. UNCHANGED todo /\ UNCHANGED seen /\ old' \subseteq Refs
    BY <1>3, <1>4 DEF Age, TypeOK
  <2> QED
    BY <1>1, <1>2, <1>3, <2>1, OthersKept, InvParts
       DEF RestOK, TypeOK, queueVars, executorVars
<1>5. CASE \E e \in Recoverers : Sweep(e)
  <2> PICK e \in Recoverers : Sweep(e)
    BY <1>5
  <2>1. Sweepable \subseteq Refs /\ \A r \in Sweepable : Waiting(r)
    BY DEF Sweepable, Stuck, Waiting
  <2>2. /\ UNCHANGED old /\ todo' = [todo EXCEPT ![e] = Sweepable]
        /\ seen' = [seen EXCEPT ![e] = attempts]
    BY DEF Sweep
  <2>3. todo' \in [Recoverers -> SUBSET Refs] /\ seen' \in [Recoverers -> [Refs -> Nat]]
    BY <1>3, <2>1, <2>2 DEF TypeOK
  <2>4. \A x \in Recoverers : \A r \in todo'[x] : Waiting(r)'
    BY <1>2, <1>3, <2>1, <2>2 DEF TypeOK, CopiesWait
  <2> QED
    BY <1>1, <1>2, <1>3, <2>2, <2>3, <2>4, OthersKept, InvParts
       DEF RestOK, TypeOK, queueVars, executorVars
<1> QED
  BY <1>4, <1>5

\* The recovery job takes the next row of its sweep.
LEMMA ProcessStuckInv ==
  ASSUME Inv, NEW e \in Recoverers, ProcessStuck(e) PROVE Inv'
<1>1. e \in Executors /\ e \notin Workers /\ TypeOK /\ CopiesWait
  BY QueueAssumption DEF Executors, Inv
<1> PICK r \in todo[e] :
      /\ todo' = [todo EXCEPT ![e] = @ \ {r}]
      /\ job' = [job EXCEPT ![e] = [ref |-> r, kind |-> "copy", task |-> NoJob]]
      /\ Goto(e, IF seen[e][r] + 1 > MaxRecovery THEN "reject" ELSE "second")
  BY DEF ProcessStuck
<1> PICK j : j = [ref |-> r, kind |-> "copy", task |-> NoJob]
  OBVIOUS
<1> PICK phase \in {"reject", "second"} : pc' = [pc EXCEPT ![e] = phase]
  BY DEF Goto
<1>2. /\ UNCHANGED tableVars /\ UNCHANGED queueVars /\ UNCHANGED old
      /\ UNCHANGED attempts /\ UNCHANGED seen /\ UNCHANGED batch /\ UNCHANGED error
      /\ UNCHANGED crashes /\ pc[e] = "idle"
  BY DEF ProcessStuck
<1>3. QueueTableOK' /\ \A q \in Refs : Waiting(q) => Waiting(q)'
  BY <1>2, TableKept
<1>4. r \in Refs /\ Waiting(r)
  BY <1>1 DEF TypeOK, CopiesWait
<1>5. j \in Jobs /\ j.ref = r
  BY <1>4 DEF Jobs, Kinds
<1>6. /\ pc' \in [Executors -> Phases] /\ job' \in [Executors -> Jobs \cup {NoJob}]
      /\ \A x \in Executors : x # e =>
           pc'[x] = pc[x] /\ job'[x] = job[x] /\ batch'[x] = batch[x]
      /\ job'[e] = j /\ batch'[e] = batch[e]
  BY <1>1, <1>2, <1>5 DEF TypeOK, Phases
<1>7. ExecutorOK(e)'
  <2>1. batch[e] = {}
    BY <1>1, <1>2 DEF CopiesWait, ExecutorOK
  <2> QED
    BY <1>1, <1>3, <1>4, <1>5, <1>6, <2>1 DEF ExecutorOK
<1>8. batch' \in [Executors -> SUBSET Refs]
  BY <1>1, <1>2 DEF TypeOK
<1>9. \A x \in Executors : ExecutorOK(x)'
  BY <1>1, <1>3, <1>6, <1>7, <1>8, LocalExecutor
<1>10. /\ todo' \in [Recoverers -> SUBSET Refs]
       /\ \A x \in Recoverers : todo'[x] \subseteq todo[x]
  BY <1>1 DEF TypeOK
<1>11. \A x \in Recoverers : \A q \in todo'[x] : Waiting(q)'
  BY <1>1, <1>3, <1>10 DEF TypeOK, CopiesWait
<1>12. \A s \in Submissions : SubmissionOK(s)'
  BY <1>2, <1>3, OthersKept
<1>13. RestOK'
  BY <1>1, <1>2, <1>6, <1>8, <1>9, <1>10, <1>11, <1>12 DEF RestOK, TypeOK, queueVars
<1> QED
  BY <1>3, <1>13, InvParts

\* The recovery job is done with a row, whatever it has inserted before.
LEMMA ForgetRest ==
  ASSUME Inv, NEW e \in Recoverers, Forget(e),
         \A r \in Refs : Waiting(r) => Waiting(r)',
         UNCHANGED queueVars, UNCHANGED old, UNCHANGED seen, crashes' \in Nat,
         attempts' \in [Refs -> Nat],
         todo' = todo \/ todo' = [todo EXCEPT ![e] = {}]
  PROVE  RestOK'
<1>1. e \in Executors /\ TypeOK /\ CopiesWait
  BY DEF Executors, Inv
<1>2. /\ pc' \in [Executors -> Phases]
      /\ job' \in [Executors -> Jobs \cup {NoJob}]
      /\ batch' \in [Executors -> SUBSET Refs]
      /\ error' \in [Executors -> Errors]
      /\ pc'[e] = "idle" /\ batch'[e] = {}
      /\ \A x \in Executors : x # e =>
           pc'[x] = pc[x] /\ job'[x] = job[x] /\ batch'[x] = batch[x]
  BY <1>1, ForgetFacts
<1>3. ExecutorOK(e)'
  BY <1>2 DEF ExecutorOK
<1>4. \A x \in Executors : ExecutorOK(x)'
  BY <1>1, <1>2, <1>3, LocalExecutor
<1>5. todo' \in [Recoverers -> SUBSET Refs] /\ \A x \in Recoverers : todo'[x] \subseteq todo[x]
  BY <1>1 DEF TypeOK
<1>6. \A x \in Recoverers : \A r \in todo'[x] : Waiting(r)'
  BY <1>1, <1>5 DEF TypeOK, CopiesWait
<1> QED
  BY <1>1, <1>2, <1>4, <1>5, <1>6, OthersKept, InvParts DEF RestOK, TypeOK, queueVars

\* The attempt is recorded or not, the rejection fails, or the job dies.
LEMMA RecoveryQuietInv ==
  ASSUME Inv, NEW e \in Recoverers,
         \/ UpdateRecoveryMetadata(e) \/ UpdateMetadataFails(e)
         \/ RecoveryRejectFails(e) \/ RecoveryCrash(e)
  PROVE  Inv'
<1>1. /\ UNCHANGED tableVars /\ UNCHANGED queueVars /\ UNCHANGED old
      /\ UNCHANGED seen /\ Forget(e)
  BY DEF UpdateRecoveryMetadata, UpdateMetadataFails, RecoveryRejectFails, RecoveryCrash,
         recoveryVars
<1>2. QueueTableOK' /\ \A r \in Refs : Waiting(r) => Waiting(r)'
  BY <1>1, TableKept
<1>3. crashes' \in Nat /\ (todo' = todo \/ todo' = [todo EXCEPT ![e] = {}])
  BY DEF UpdateRecoveryMetadata, UpdateMetadataFails, RecoveryRejectFails, RecoveryCrash,
         recoveryVars, Inv, TypeOK
<1>4. attempts' \in [Refs -> Nat]
  <2>1. CASE UpdateRecoveryMetadata(e)
    <3>1. e \in Executors /\ pc[e] # "idle"
      BY <2>1 DEF UpdateRecoveryMetadata, Executors
    <3> PICK r \in Refs : r = job[e].ref
      BY <3>1, JobType
    <3>2. seen[e][r] + 1 \in Nat /\ attempts \in [Refs -> Nat]
      BY DEF Inv, TypeOK
    <3> QED
      BY <2>1, <3>2 DEF UpdateRecoveryMetadata
  <2> QED
    BY <2>1 DEF UpdateMetadataFails, RecoveryRejectFails, RecoveryCrash, recoveryVars,
                Inv, TypeOK
<1>5. RestOK'
  BY <1>1, <1>2, <1>3, <1>4, ForgetRest
<1> QED
  BY <1>2, <1>5, InvParts

\* The recovery job rejects a row's copy.
LEMMA RecoveryRejectsInv ==
  ASSUME Inv, NEW e \in Recoverers, RecoveryRejects(e) PROVE Inv'
<1> PICK j : j = job[e]
  OBVIOUS
<1>1. /\ UNCHANGED moved /\ UNCHANGED queueVars /\ UNCHANGED recoveryVars
      /\ UNCHANGED crashes /\ pc[e] = "reject" /\ e \in Executors
      /\ ReferenceFree(j) /\ Insert(j, "REJECTED") /\ Forget(e)
  BY DEF RecoveryRejects, Rejectable, Executors
<1>2. j \in Jobs /\ (j.kind = "copy" => Waiting(j.ref))
  BY <1>1, JobType
<1>3. QueueTableOK' /\ \A r \in Refs : Waiting(r) => Waiting(r)'
  BY <1>1, <1>2, InsertFacts, RejectedMoves DEF QueueTableOK
<1>4. /\ UNCHANGED old /\ UNCHANGED seen /\ UNCHANGED todo /\ crashes' \in Nat
      /\ attempts' \in [Refs -> Nat]
  BY <1>1 DEF recoveryVars, Inv, TypeOK
<1>5. RestOK'
  BY <1>1, <1>3, <1>4, ForgetRest
<1> QED
  BY <1>3, <1>5, InvParts

\* Nothing happens.
LEMMA StutterInv == ASSUME Inv, UNCHANGED vars PROVE Inv'
<1>1. UNCHANGED tableVars /\ UNCHANGED queueVars /\ UNCHANGED recoveryVars
      /\ UNCHANGED executorVars /\ UNCHANGED crashes
  BY DEF vars
<1>2. QueueTableOK' /\ \A r \in Refs : Waiting(r) => Waiting(r)'
  BY <1>1, TableKept
<1> QED
  BY <1>1, <1>2, OthersKept, InvParts
     DEF RestOK, queueVars, recoveryVars, executorVars

\* Every step preserves the invariant.
LEMMA NextInv == Inv /\ [Next]_vars => Inv'
<1> SUFFICES ASSUME Inv, [Next]_vars PROVE Inv'
  OBVIOUS
<1>1. ASSUME NEW s \in Submissions, SubmitStep(s) PROVE Inv'
  BY <1>1, SubmitSyncInv, PersistRowInv, SubmitQuietInv DEF SubmitStep
<1>2. ASSUME NEW s \in Submissions, NEW w \in Workers, Deliver(w, s) PROVE Inv'
  BY <1>2, DeliverInv
<1>3. ASSUME NEW e \in Executors, ExecuteStep(e) PROVE Inv'
  BY <1>3, LoadSiblingsInv, PersistBatchInv, PersistSingleInv, PhaseInv DEF ExecuteStep
<1>4. ASSUME NEW w \in Workers, WorkerStep(w) \/ WorkerCrash(w) PROVE Inv'
  BY <1>4, WorkerFailedInv, WorkerRejectsInv, WorkerGivesUpInv DEF WorkerStep
<1>5. ASSUME NEW e \in Recoverers, RecoveryStep(e) \/ RecoveryCrash(e) PROVE Inv'
  <2>1. e \in Executors
    BY DEF Executors
  <2> QED
    BY <1>5, <2>1, ProcessStuckInv, PhaseInv, RecoveryQuietInv, RecoveryRejectsInv
       DEF RecoveryStep
<1> QED
  BY <1>1, <1>2, <1>3, <1>4, <1>5, SweepInv, StutterInv DEF Next

\* The inductive invariant: copies are executed only of rows that wait for
\* them, and each row reported APPLIED stands for exactly one movement.
THEOREM InvHolds == Spec => []Inv
  BY InitInv, NextInv, PTL DEF Spec

\* However a request is submitted, delivered, retried, coalesced and recovered,
\* it moves its money at most once, and not at all when it is rejected.
THEOREM MovesAtMostOnce == Spec => []MovedAtMostOnce
<1>1. Inv => MovedAtMostOnce
  <2> SUFFICES ASSUME Inv, NEW r \in Refs
               PROVE  moved[r] <= 1 /\ (Rejected(r) => moved[r] = 0)
    BY DEF MovedAtMostOnce
  <2>1. TypeOK /\ MovesMatch /\ (copy[r] # "none" => Waiting(r))
    BY DEF Inv, CopiesWait
  <2> QED
    BY <2>1 DEF TypeOK, MovesMatch, Rejected, Waiting
<1> QED
  BY <1>1, InvHolds, PTL

\* The outcomes of a state and of the next one agree.
OutcomesKept ==
  \A r \in Refs : /\ Applied(r) => Applied(r)' /\ ~Rejected(r)'
                  /\ Rejected(r) => Rejected(r)' /\ ~Applied(r)'

\* A step that leaves the table alone changes no outcome: none is both.
LEMMA QuietOutcomes == ASSUME Inv, UNCHANGED <<row, copy>> PROVE OutcomesKept
<1> SUFFICES ASSUME NEW r \in Refs PROVE ~(Applied(r) /\ Rejected(r))
  BY DEF OutcomesKept, Applied, Rejected
<1> QED
  BY DEF Inv, CopiesWait, TypeOK, Applied, Rejected, Waiting

\* A row inserted under a free reference is the first outcome of its request.
LEMMA InsertOutcomes ==
  ASSUME Inv, NEW j \in Jobs, j.kind = "copy" => Waiting(j.ref), ReferenceFree(j),
         NEW status \in {"APPLIED", "REJECTED"}, Insert(j, status)
  PROVE  OutcomesKept
<1>1. /\ \A r \in Refs : r # j.ref => row'[r] = row[r] /\ copy'[r] = copy[r]
      /\ ~Applied(j.ref) /\ ~Rejected(j.ref)
  BY InsertFacts
<1>2. ASSUME NEW r \in Refs PROVE ~(Applied(r) /\ Rejected(r))
  BY DEF Inv, CopiesWait, TypeOK, Applied, Rejected, Waiting
<1> QED
  BY <1>1, <1>2 DEF OutcomesKept, Applied, Rejected

\* A batch is the first outcome of each of its members.
LEMMA BatchOutcomes ==
  ASSUME Inv, NEW e \in Executors, PersistBatch(e) PROVE OutcomesKept
<1> DEFINE members == batch[e] \cup {job[e].ref}
<1>1. ExecutorOK(e) /\ batch[e] # {}
  BY DEF Inv, CopiesWait, PersistBatch
<1>2. \A r \in members : Waiting(r) /\ copy[r] = "none"
  BY <1>1, JobType DEF ExecutorOK, PersistBatch, BatchFree
<1>3. /\ copy' = [r \in Refs |-> IF r \in members THEN "APPLIED" ELSE copy[r]]
      /\ UNCHANGED row
  BY DEF PersistBatch
<1> HIDE DEF members
<1>4. ASSUME NEW r \in Refs PROVE ~(Applied(r) /\ Rejected(r))
  BY DEF Inv, CopiesWait, TypeOK, Applied, Rejected, Waiting
<1> QED
  BY <1>2, <1>3, <1>4 DEF OutcomesKept, Applied, Rejected, Waiting

\* A new row of the queue is no outcome.
LEMMA RowOutcomes ==
  ASSUME Inv, NEW s \in Submissions, PersistRow(s) PROVE OutcomesKept
<1> PICK q \in Refs : q = RefOf[s]
  BY QueueAssumption
<1> PICK st \in {"QUEUED", "SCHEDULED"} : row' = [row EXCEPT ![q] = st]
  BY DEF PersistRow
<1>1. row[q] = "none" /\ UNCHANGED copy
  BY DEF PersistRow
<1>2. row \in [Refs -> {"none", "QUEUED", "SCHEDULED", "APPLIED", "REJECTED"}]
  BY DEF Inv, TypeOK
<1>3. ASSUME NEW r \in Refs PROVE ~(Applied(r) /\ Rejected(r))
  BY DEF Inv, CopiesWait, TypeOK, Applied, Rejected, Waiting
<1> QED
  BY <1>1, <1>2, <1>3 DEF OutcomesKept, Applied, Rejected

\* No step changes an outcome.
LEMMA NextOutcomes == Inv /\ [Next]_vars => OutcomesKept
<1> SUFFICES ASSUME Inv, [Next]_vars PROVE OutcomesKept
  OBVIOUS
<1>1. ASSUME NEW s \in Submissions, SubmitStep(s) PROVE OutcomesKept
  <2>1. CASE SubmitSync(s)
    <3> PICK j : j = [ref |-> RefOf[s], kind |-> "original", task |-> NoJob]
      OBVIOUS
    <3>1. j \in Jobs /\ j.kind = "original"
      BY QueueAssumption DEF Jobs, Kinds
    <3>2. \/ UNCHANGED tableVars
          \/ ReferenceFree(j) /\ Insert(j, "APPLIED")
      BY <2>1 DEF SubmitSync
    <3> QED
      BY <3>1, <3>2, InsertOutcomes, QuietOutcomes DEF tableVars
  <2>2. CASE PersistRow(s)
    BY <2>2, RowOutcomes
  <2>3. CASE SubmitAsync(s) \/ PersistRowFails(s) \/ Enqueue(s) \/ SubmissionLost(s)
    BY <2>3, QuietOutcomes DEF SubmitAsync, PersistRowFails, Enqueue, SubmissionLost, tableVars
  <2> QED
    BY <1>1, <2>1, <2>2, <2>3 DEF SubmitStep
<1>2. ASSUME NEW e \in Executors, NEW status \in {"APPLIED", "REJECTED"}, pc[e] # "idle",
             ReferenceFree(job[e]), Insert(job[e], status)
      PROVE  OutcomesKept
  BY <1>2, JobType, InsertOutcomes
<1>3. ASSUME NEW e \in Executors, ExecuteStep(e) PROVE OutcomesKept
  <2>1. CASE PersistSingle(e)
    BY <1>2, <2>1 DEF PersistSingle
  <2>2. CASE PersistBatch(e)
    BY <2>2, BatchOutcomes
  <2>3. CASE LoadSiblings(e) \/ FailOpen(e) \/ SingleFails(e)
    BY <2>3, QuietOutcomes DEF LoadSiblings, FailOpen, SingleFails, tableVars
  <2> QED
    BY <1>3, <2>1, <2>2, <2>3 DEF ExecuteStep
<1>4. ASSUME NEW w \in Workers, WorkerStep(w) \/ WorkerCrash(w) PROVE OutcomesKept
  <2>1. CASE WorkerRejects(w)
    <3>1. w \in Executors
      BY DEF Executors
    <3> QED
      BY <1>2, <2>1, <3>1 DEF WorkerRejects, Rejectable
  <2>2. CASE WorkerFailed(w) \/ WorkerRejectFails(w) \/ WorkerCrash(w)
    BY <2>2, QuietOutcomes DEF WorkerFailed, WorkerRejectFails, WorkerCrash, tableVars
  <2> QED
    BY <1>4, <2>1, <2>2 DEF WorkerStep
<1>5. ASSUME NEW e \in Recoverers, Sweep(e) \/ RecoveryStep(e) \/ RecoveryCrash(e)
      PROVE  OutcomesKept
  <2>1. CASE RecoveryRejects(e)
    <3>1. e \in Executors
      BY DEF Executors
    <3> QED
      BY <1>2, <2>1, <3>1 DEF RecoveryRejects, Rejectable
  <2>2. CASE ~RecoveryRejects(e)
    BY <1>5, <2>2, QuietOutcomes
       DEF RecoveryStep, Sweep, RecoveryCrash, ProcessStuck, RecoveryFailed,
           UpdateRecoveryMetadata, UpdateMetadataFails, RecoveryRejectFails, tableVars
  <2> QED
    BY <2>1, <2>2
<1>6. ASSUME NEW s \in Submissions, NEW w \in Workers, Deliver(w, s) PROVE OutcomesKept
  BY <1>6, QuietOutcomes DEF Deliver, tableVars
<1>7. ASSUME NEW r \in Refs, Age(r) PROVE OutcomesKept
  BY <1>7, QuietOutcomes DEF Age, tableVars
<1>8. CASE UNCHANGED vars
  BY <1>8, QuietOutcomes DEF vars, tableVars
<1> QED
  BY <1>1, <1>3, <1>4, <1>5, <1>6, <1>7, <1>8 DEF Next

\* An applied request is never rejected later, nor a rejected one applied: not
\* by a worker without retries left, and not by the recovery job.
THEOREM OutcomesAreFinal == Spec => OutcomeIsFinal
<1>1. Inv /\ [Next]_vars =>
        [\A r \in Refs : /\ Applied(r) => Applied(r)' /\ ~Rejected(r)'
                         /\ Rejected(r) => Rejected(r)' /\ ~Applied(r)']_vars
  BY NextOutcomes DEF OutcomesKept
<1> QED
  BY <1>1, InvHolds, PTL DEF Spec, OutcomeIsFinal


(***************************************************************************)
(* Lanes.  No lock spans a request's read of the state, its count of the   *)
(* rows of a lane, its write of the state and the store of its row.  As    *)
(* long as nothing was raced, the state still says which lane is empty,    *)
(* and a request that was not overtaken still goes by the state it read    *)
(* and by the count it made.                                               *)
(***************************************************************************)

\* The state of the pair and the rows that wait.
LaneOfState ==
  /\ state \in {"normal", "promoting"} => Hot!Pending("hot") = {}
  /\ state \in {"hot", "cooling_down"} => Hot!Pending("normal") = {}

\* What request r, when nobody has overtaken it, can still go by.
Current(r) ==
  /\ lanePc[r] \in {"promoting", "activate"} => state = "promoting"
  /\ lanePc[r] = "activate" => Hot!Pending("normal") = {}
  /\ lanePc[r] \in {"hot", "checked", "cool"} => state = "hot"
  /\ lanePc[r] = "cooling" => state = "cooling_down"
  /\ lanePc[r] = "demote" => state \in {"hot", "cooling_down"} /\ Hot!Pending("hot") = {}
  /\ lanePc[r] = "store" /\ lane[r] = "normal" => state \in {"normal", "promoting"}
  /\ lanePc[r] = "store" /\ lane[r] = "hot" => state \in {"hot", "cooling_down"}

RoutesOK == ~raced => LaneOfState /\ \A r \in Calls \ disturbed : Current(r)

LanesStrong == Hot!HotTypeOK /\ since \in 0 .. MaxContentions /\ Hot!PromotedOnContention /\ RoutesOK

\* LanesStrong holds initially.
LEMMA LanesInitially == ASSUME Hot!HotAssumption, Hot!HotInit PROVE LanesStrong
<1>1. Hot!HotTypeOK /\ since \in 0 .. MaxContentions
  <2>1. 0 \in 0 .. MaxContentions /\ 0 \in 0 .. MaxMishaps
    BY DEF Hot!HotAssumption
  <2>2. recorder \in [Calls -> [at : {"idle", "counted", "promote"}, tally : 0 .. MaxContentions]]
    BY <2>1 DEF Hot!HotInit
  <2>3. /\ lanePc \in [Calls -> {"new", "queued"} \cup Hot!Resolving]
        /\ lane \in [Calls -> {"normal", "hot"}]
    BY DEF Hot!HotInit
  <2>4. activity \in BOOLEAN /\ raced \in BOOLEAN
    BY DEF Hot!HotInit
  <2>5. /\ state \in {"normal", "promoting", "hot", "cooling_down"} /\ contention <= since
        /\ contention \in 0 .. MaxContentions /\ since \in 0 .. MaxContentions
        /\ disturbed \subseteq Calls /\ laneMishaps \in 0 .. MaxMishaps
    BY <2>1 DEF Hot!HotInit
  <2> QED
    BY <2>2, <2>3, <2>4, <2>5 DEF Hot!HotTypeOK
<1>2. Hot!PromotedOnContention
  BY DEF Hot!HotInit, Hot!PromotedOnContention
<1>3. RoutesOK
  BY DEF Hot!HotInit, RoutesOK, LaneOfState, Current, Hot!Pending
<1> QED
  BY <1>1, <1>2, <1>3 DEF LanesStrong

\* One request moves, to a place that is not the queue, and may be given a lane.
LEMMA RequestMoves ==
  ASSUME LanesStrong, NEW r \in Calls, lanePc[r] # "queued",
         NEW p \in {"new"} \cup Hot!Resolving, lanePc' = [lanePc EXCEPT ![r] = p],
         NEW l \in {"normal", "hot"}, lane' = [lane EXCEPT ![r] = l]
  PROVE  /\ lanePc' \in [Calls -> {"new", "queued"} \cup Hot!Resolving]
         /\ lane' \in [Calls -> {"normal", "hot"}]
         /\ lanePc'[r] = p /\ lane'[r] = l
         /\ \A q \in Calls \ {r} : lanePc'[q] = lanePc[q] /\ lane'[q] = lane[q]
         /\ \A m : Hot!Pending(m)' = Hot!Pending(m)
<1>1. /\ lanePc \in [Calls -> {"new", "queued"} \cup Hot!Resolving]
      /\ lane \in [Calls -> {"normal", "hot"}]
  BY DEF LanesStrong, Hot!HotTypeOK
<1>2. p # "queued"
  BY DEF Hot!Resolving
<1>3. /\ lanePc'[r] = p /\ lane'[r] = l
      /\ \A q \in Calls \ {r} : lanePc'[q] = lanePc[q] /\ lane'[q] = lane[q]
  BY <1>1
<1>4. \A m : Hot!Pending(m)' = Hot!Pending(m)
  BY <1>2, <1>3 DEF Hot!Pending
<1> QED
  BY <1>1, <1>3, <1>4

\* A request that keeps its lane, as one that is given the lane it has.
LEMMA SameLane ==
  ASSUME LanesStrong, NEW r \in Calls, UNCHANGED lane
  PROVE  lane[r] \in {"normal", "hot"} /\ lane' = [lane EXCEPT ![r] = lane[r]]
BY DEF LanesStrong, Hot!HotTypeOK

\* A step of request r that writes nothing in Redis or Postgres.
LEMMA ReadingStep ==
  ASSUME LanesStrong, NEW r \in Calls, lanePc[r] # "queued",
         NEW p \in Hot!Resolving, lanePc' = [lanePc EXCEPT ![r] = p],
         NEW l \in {"normal", "hot"}, lane' = [lane EXCEPT ![r] = l],
         UNCHANGED <<state, contention, recorder, since, disturbed, raced, laneMishaps>>,
         activity' \in BOOLEAN,
         ~raced /\ r \notin disturbed => Current(r)'
  PROVE  LanesStrong'
<1>1. /\ lanePc' \in [Calls -> {"new", "queued"} \cup Hot!Resolving]
      /\ lane' \in [Calls -> {"normal", "hot"}]
      /\ lanePc'[r] = p /\ lane'[r] = l
      /\ \A q \in Calls \ {r} : lanePc'[q] = lanePc[q] /\ lane'[q] = lane[q]
      /\ \A m : Hot!Pending(m)' = Hot!Pending(m)
  BY RequestMoves
<1>2. Hot!HotTypeOK' /\ since' \in 0 .. MaxContentions
  BY <1>1 DEF LanesStrong, Hot!HotTypeOK
<1>3. Hot!PromotedOnContention'
  BY DEF LanesStrong, Hot!PromotedOnContention, Hot!Threshold
<1>4. RoutesOK'
  <2> SUFFICES ASSUME ~raced PROVE LaneOfState' /\ \A q \in Calls \ disturbed : Current(q)'
    BY DEF RoutesOK
  <2>1. LaneOfState'
    BY <1>1 DEF LanesStrong, RoutesOK, LaneOfState
  <2>2. ASSUME NEW q \in Calls \ disturbed, q # r PROVE Current(q)'
    BY <1>1, <2>2 DEF LanesStrong, RoutesOK, Current
  <2> QED
    BY <2>1, <2>2
<1> QED
  BY <1>2, <1>3, <1>4 DEF LanesStrong

\* GetState at the head of ResolveQueueLane.
LEMMA ReadStateLanes ==
  ASSUME LanesStrong, NEW r \in Calls, Hot!ReadState(r) PROVE LanesStrong'
<1>1. /\ lanePc[r] = "new" /\ activity \in BOOLEAN
      /\ UNCHANGED <<state, activity, contention, recorder, since, disturbed, raced, laneMishaps>>
  BY DEF Hot!ReadState, LanesStrong, Hot!HotTypeOK
<1>2. CASE state = "normal" /\ Hot!GiveLane(r, "normal")
  <2>1. lane' = [lane EXCEPT ![r] = "normal"] /\ lanePc' = [lanePc EXCEPT ![r] = "store"]
    BY <1>2 DEF Hot!GiveLane, Hot!Goto
  <2>2. "store" \in Hot!Resolving
    BY DEF Hot!Resolving
  <2>3. Current(r)'
    BY <1>1, <1>2, <2>1 DEF Current, LanesStrong, Hot!HotTypeOK
  <2> QED
    BY <1>1, <2>1, <2>2, <2>3, ReadingStep
<1>3. ASSUME NEW s \in {"promoting", "hot", "cooling"}, Hot!Goto(r, s), UNCHANGED lane,
             s = "promoting" => state = "promoting", s = "hot" => state = "hot",
             s = "cooling" => state = "cooling_down"
      PROVE  LanesStrong'
  <2>1. lane[r] \in {"normal", "hot"} /\ lane' = [lane EXCEPT ![r] = lane[r]]
    BY <1>3, SameLane
  <2>2. s \in Hot!Resolving /\ lanePc' = [lanePc EXCEPT ![r] = s]
    BY <1>3 DEF Hot!Resolving, Hot!Goto
  <2>3. Current(r)'
    BY <1>1, <1>3, <2>2 DEF Current, LanesStrong, Hot!HotTypeOK
  <2> QED
    BY <1>1, <2>1, <2>2, <2>3, ReadingStep
<1> QED
  BY <1>2, <1>3 DEF Hot!ReadState

\* A promoting pair: the rows of the normal lane are counted.
LEMMA CountNormalLanes ==
  ASSUME LanesStrong, NEW r \in Calls, Hot!CountNormal(r) PROVE LanesStrong'
<1>1. /\ lanePc[r] = "promoting" /\ activity \in BOOLEAN
      /\ UNCHANGED <<state, activity, contention, recorder, since, disturbed, raced, laneMishaps>>
  BY DEF Hot!CountNormal, LanesStrong, Hot!HotTypeOK
<1>2. ~raced /\ r \notin disturbed => state = "promoting"
  BY <1>1 DEF LanesStrong, RoutesOK, Current
<1>3. CASE Hot!Pending("normal") = {} /\ Hot!Goto(r, "activate") /\ UNCHANGED lane
  <2>1. lane[r] \in {"normal", "hot"} /\ lane' = [lane EXCEPT ![r] = lane[r]]
    BY <1>3, SameLane
  <2>2. "activate" \in Hot!Resolving /\ lanePc' = [lanePc EXCEPT ![r] = "activate"]
    BY <1>3 DEF Hot!Resolving, Hot!Goto
  <2>3. Hot!Pending("normal")' = {} /\ lanePc'[r] = "activate"
    BY <1>1, <1>3, <2>1, <2>2, RequestMoves
  <2>4. ~raced /\ r \notin disturbed => Current(r)'
    BY <1>1, <1>2, <2>3 DEF Current
  <2> QED
    BY <1>1, <2>1, <2>2, <2>4, ReadingStep
<1>4. CASE Hot!GiveLane(r, "normal")
  <2>1. lane' = [lane EXCEPT ![r] = "normal"] /\ lanePc' = [lanePc EXCEPT ![r] = "store"]
    BY <1>4 DEF Hot!GiveLane, Hot!Goto
  <2>2. "store" \in Hot!Resolving
    BY DEF Hot!Resolving
  <2>3. ~raced /\ r \notin disturbed => Current(r)'
    BY <1>1, <1>2, <2>1 DEF Current, LanesStrong, Hot!HotTypeOK
  <2> QED
    BY <1>1, <2>1, <2>2, <2>3, ReadingStep
<1> QED
  BY <1>3, <1>4 DEF Hot!CountNormal

\* A hot pair: HasRecentContention.
LEMMA CheckActivityLanes ==
  ASSUME LanesStrong, NEW r \in Calls, Hot!CheckActivity(r) PROVE LanesStrong'
<1>1. /\ lanePc[r] = "hot" /\ activity \in BOOLEAN
      /\ UNCHANGED <<state, activity, contention, recorder, since, disturbed, raced, laneMishaps>>
  BY DEF Hot!CheckActivity, LanesStrong, Hot!HotTypeOK
<1>2. ~raced /\ r \notin disturbed => state = "hot"
  BY <1>1 DEF LanesStrong, RoutesOK, Current
<1>3. CASE Hot!GiveLane(r, "hot")
  <2>1. lane' = [lane EXCEPT ![r] = "hot"] /\ lanePc' = [lanePc EXCEPT ![r] = "store"]
    BY <1>3 DEF Hot!GiveLane, Hot!Goto
  <2>2. "store" \in Hot!Resolving
    BY DEF Hot!Resolving
  <2>3. ~raced /\ r \notin disturbed => Current(r)'
    BY <1>1, <1>2, <2>1 DEF Current, LanesStrong, Hot!HotTypeOK
  <2> QED
    BY <1>1, <2>1, <2>2, <2>3, ReadingStep
<1>4. CASE Hot!Goto(r, "checked") /\ UNCHANGED lane
  <2>1. lane[r] \in {"normal", "hot"} /\ lane' = [lane EXCEPT ![r] = lane[r]]
    BY <1>4, SameLane
  <2>2. "checked" \in Hot!Resolving /\ lanePc' = [lanePc EXCEPT ![r] = "checked"]
    BY <1>4 DEF Hot!Resolving, Hot!Goto
  <2>3. ~raced /\ r \notin disturbed => Current(r)'
    BY <1>1, <1>2, <2>2 DEF Current, LanesStrong, Hot!HotTypeOK
  <2> QED
    BY <1>1, <2>1, <2>2, <2>3, ReadingStep
<1> QED
  BY <1>3, <1>4 DEF Hot!CheckActivity

\* The rows of the hot lane are counted.
LEMMA CountHotLanes ==
  ASSUME LanesStrong, NEW r \in Calls, Hot!CountHot(r) PROVE LanesStrong'
<1>1. /\ lanePc[r] \in {"checked", "cooling"} /\ activity \in BOOLEAN
      /\ UNCHANGED <<state, activity, contention, recorder, since, disturbed, raced, laneMishaps>>
  BY DEF Hot!CountHot, LanesStrong, Hot!HotTypeOK
<1>2. ~raced /\ r \notin disturbed =>
        state \in {"hot", "cooling_down"} /\ (lanePc[r] = "checked" => state = "hot")
  BY <1>1 DEF LanesStrong, RoutesOK, Current
<1>3. CASE lanePc[r] = "checked" /\ Hot!Goto(r, "cool") /\ UNCHANGED lane
  <2>1. lane[r] \in {"normal", "hot"} /\ lane' = [lane EXCEPT ![r] = lane[r]]
    BY <1>3, SameLane
  <2>2. "cool" \in Hot!Resolving /\ lanePc' = [lanePc EXCEPT ![r] = "cool"]
    BY <1>3 DEF Hot!Resolving, Hot!Goto
  <2>3. ~raced /\ r \notin disturbed => Current(r)'
    BY <1>1, <1>2, <1>3, <2>2 DEF Current, LanesStrong, Hot!HotTypeOK
  <2> QED
    BY <1>1, <2>1, <2>2, <2>3, ReadingStep
<1>4. CASE Hot!GiveLane(r, "hot")
  <2>1. lane' = [lane EXCEPT ![r] = "hot"] /\ lanePc' = [lanePc EXCEPT ![r] = "store"]
    BY <1>4 DEF Hot!GiveLane, Hot!Goto
  <2>2. "store" \in Hot!Resolving
    BY DEF Hot!Resolving
  <2>3. ~raced /\ r \notin disturbed => Current(r)'
    BY <1>1, <1>2, <2>1 DEF Current, LanesStrong, Hot!HotTypeOK
  <2> QED
    BY <1>1, <2>1, <2>2, <2>3, ReadingStep
<1>5. CASE Hot!Pending("hot") = {} /\ Hot!Goto(r, "demote") /\ UNCHANGED lane
  <2>1. lane[r] \in {"normal", "hot"} /\ lane' = [lane EXCEPT ![r] = lane[r]]
    BY <1>5, SameLane
  <2>2. "demote" \in Hot!Resolving /\ lanePc' = [lanePc EXCEPT ![r] = "demote"]
    BY <1>5 DEF Hot!Resolving, Hot!Goto
  <2>3. Hot!Pending("hot")' = {} /\ lanePc'[r] = "demote"
    BY <1>1, <1>5, <2>1, <2>2, RequestMoves
  <2>4. ~raced /\ r \notin disturbed => Current(r)'
    BY <1>1, <1>2, <2>3 DEF Current
  <2> QED
    BY <1>1, <2>1, <2>2, <2>4, ReadingStep
<1> QED
  BY <1>3, <1>4, <1>5 DEF Hot!CountHot

\* A request writes the state and has its lane: when nobody had overtaken it,
\* the lane that the new state leaves is empty.
LEMMA WritingStep ==
  ASSUME Hot!HotAssumption, LanesStrong, NEW r \in Calls, lanePc[r] \in Hot!Resolving,
         NEW s \in {"normal", "promoting", "hot", "cooling_down"}, Hot!WriteState(r, s),
         NEW l \in {"normal", "hot"}, Hot!GiveLane(r, l),
         UNCHANGED <<recorder, laneMishaps>>,
         activity' \in BOOLEAN,
         contention' \in {contention, 0}, since' \in {since, 0}, contention' = 0 \/ since' = since,
         l = "normal" => s = "normal", l = "hot" => s \in {"hot", "cooling_down"},
         NEW e \in {"normal", "hot"}, e # l,
         ~raced /\ r \notin disturbed => Hot!Pending(e) = {}
  PROVE  LanesStrong'
<1>1. /\ lane' = [lane EXCEPT ![r] = l] /\ lanePc' = [lanePc EXCEPT ![r] = "store"]
      /\ state' = s /\ disturbed' = disturbed \cup Hot!Others(r)
      /\ raced' = (raced \/ r \in disturbed)
  BY DEF Hot!GiveLane, Hot!Goto, Hot!WriteState
<1>2. "store" \in Hot!Resolving /\ lanePc[r] # "queued"
  BY DEF Hot!Resolving
<1>3. /\ lanePc' \in [Calls -> {"new", "queued"} \cup Hot!Resolving]
      /\ lane' \in [Calls -> {"normal", "hot"}]
      /\ lanePc'[r] = "store" /\ lane'[r] = l
      /\ \A q \in Calls \ {r} : lanePc'[q] = lanePc[q] /\ lane'[q] = lane[q]
      /\ \A m : Hot!Pending(m)' = Hot!Pending(m)
  BY <1>1, <1>2, RequestMoves
<1>4. Hot!HotTypeOK' /\ since' \in 0 .. MaxContentions
  <2>1. disturbed' \subseteq Calls /\ raced' \in BOOLEAN
    BY <1>1 DEF LanesStrong, Hot!HotTypeOK, Hot!Others
  <2>2. /\ contention' \in 0 .. MaxContentions /\ since' \in 0 .. MaxContentions
        /\ contention' <= since'
    BY DEF Hot!HotAssumption, LanesStrong, Hot!HotTypeOK
  <2> QED
    BY <1>1, <1>3, <2>1, <2>2 DEF LanesStrong, Hot!HotTypeOK
<1>5. Hot!PromotedOnContention'
  BY DEF LanesStrong, Hot!PromotedOnContention, Hot!Threshold
<1>6. RoutesOK'
  <2> SUFFICES ASSUME ~raced' PROVE LaneOfState' /\ \A q \in Calls \ disturbed' : Current(q)'
    BY DEF RoutesOK
  <2>1. LaneOfState'
    BY <1>1, <1>3 DEF LaneOfState
  <2>2. Current(r)'
    BY <1>1, <1>3 DEF Current
  <2>3. ASSUME NEW q \in Calls \ disturbed', q # r PROVE Current(q)'
    <3>1. lanePc'[q] \notin Hot!Resolving
      BY <1>1, <1>3, <2>3 DEF Hot!Others
    <3> QED
      BY <3>1 DEF Current, Hot!Resolving
  <2> QED
    BY <2>2, <2>1, <2>3
<1> QED
  BY <1>4, <1>5, <1>6 DEF LanesStrong

\* A drained promoting pair goes hot.
LEMMA ActivateHotLanes ==
  ASSUME Hot!HotAssumption, LanesStrong, NEW r \in Calls, Hot!ActivateHot(r) PROVE LanesStrong'
<1>1. /\ lanePc[r] \in Hot!Resolving /\ Hot!WriteState(r, "hot") /\ Hot!GiveLane(r, "hot")
      /\ activity' \in BOOLEAN /\ UNCHANGED <<recorder, laneMishaps>>
      /\ contention' \in {contention, 0} /\ since' \in {since, 0} /\ (contention' = 0 \/ since' = since)
  BY DEF Hot!ActivateHot, Hot!Resolving
<1>2. ~raced /\ r \notin disturbed => Hot!Pending("normal") = {}
  BY DEF Hot!ActivateHot, LanesStrong, RoutesOK, Current
<1> QED
  BY <1>1, <1>2, WritingStep

\* A hot pair starts to cool down.
LEMMA StartCoolingDownLanes ==
  ASSUME Hot!HotAssumption, LanesStrong, NEW r \in Calls, Hot!StartCoolingDown(r) PROVE LanesStrong'
<1>1. /\ lanePc[r] \in Hot!Resolving /\ Hot!WriteState(r, "cooling_down") /\ Hot!GiveLane(r, "hot")
      /\ activity' \in BOOLEAN /\ UNCHANGED <<recorder, laneMishaps>>
      /\ contention' \in {contention, 0} /\ since' \in {since, 0} /\ (contention' = 0 \/ since' = since)
  BY DEF Hot!StartCoolingDown, Hot!Resolving, LanesStrong, Hot!HotTypeOK
<1>2. ~raced /\ r \notin disturbed => Hot!Pending("normal") = {}
  BY DEF Hot!StartCoolingDown, LanesStrong, RoutesOK, Current, LaneOfState
<1> QED
  BY <1>1, <1>2, WritingStep

\* A drained hot pair returns to normal, its counters forgotten.
LEMMA SetNormalLanes ==
  ASSUME Hot!HotAssumption, LanesStrong, NEW r \in Calls, Hot!SetNormal(r) PROVE LanesStrong'
<1>1. /\ lanePc[r] \in Hot!Resolving /\ Hot!WriteState(r, "normal") /\ Hot!GiveLane(r, "normal")
      /\ activity' \in BOOLEAN /\ UNCHANGED <<recorder, laneMishaps>>
      /\ contention' \in {contention, 0} /\ since' \in {since, 0} /\ (contention' = 0 \/ since' = since)
  BY DEF Hot!SetNormal, Hot!Resolving
<1>2. ~raced /\ r \notin disturbed => Hot!Pending("hot") = {}
  BY DEF Hot!SetNormal, LanesStrong, RoutesOK, Current
<1>3. PICK n, h : n = "normal" /\ h = "hot"
  OBVIOUS
<1>4. /\ Hot!WriteState(r, n) /\ Hot!GiveLane(r, n)
      /\ ~raced /\ r \notin disturbed => Hot!Pending(h) = {}
      /\ n \in {"normal", "hot"} /\ h \in {"normal", "hot"} /\ h # n
  BY <1>1, <1>2, <1>3
<1> QED
  BY <1>1, <1>3, <1>4, WritingStep

\* Redis or the count fails: a race from then on.
LEMMA ResolveFailsLanes ==
  ASSUME Hot!HotAssumption, LanesStrong, NEW r \in Calls, Hot!ResolveFails(r) PROVE LanesStrong'
<1>1. /\ lane' = [lane EXCEPT ![r] = "normal"] /\ lanePc' = [lanePc EXCEPT ![r] = "store"]
      /\ lanePc[r] # "queued" /\ "store" \in Hot!Resolving /\ raced'
      /\ UNCHANGED <<state, activity, contention, recorder, since, disturbed>>
  BY DEF Hot!ResolveFails, Hot!GiveLane, Hot!Goto, Hot!Resolving
<1>2. /\ lanePc' \in [Calls -> {"new", "queued"} \cup Hot!Resolving]
      /\ lane' \in [Calls -> {"normal", "hot"}]
  BY <1>1, RequestMoves
<1>3. laneMishaps' \in 0 .. MaxMishaps /\ raced' \in BOOLEAN
  BY DEF Hot!ResolveFails, Hot!HotAssumption, LanesStrong, Hot!HotTypeOK
<1>4. Hot!HotTypeOK' /\ since' \in 0 .. MaxContentions
  BY <1>1, <1>2, <1>3 DEF LanesStrong, Hot!HotTypeOK
<1>5. Hot!PromotedOnContention' /\ RoutesOK'
  BY <1>1 DEF LanesStrong, Hot!PromotedOnContention, Hot!Threshold, RoutesOK
<1> QED
  BY <1>4, <1>5 DEF LanesStrong

\* A row is written with its lane: a request that was not overtaken puts it in
\* the lane of the state.
LEMMA StoreLanes ==
  ASSUME LanesStrong, NEW r \in Calls, Hot!Store(r) PROVE LanesStrong'
<1>1. /\ lanePc[r] = "store" /\ lanePc' = [lanePc EXCEPT ![r] = "queued"]
      /\ disturbed' = (disturbed \cup Hot!Others(r)) \ {r}
      /\ raced' = (raced \/ r \in disturbed)
      /\ UNCHANGED <<state, activity, contention, lane, recorder, since, laneMishaps>>
  BY DEF Hot!Store, Hot!Goto
<1>2. /\ lanePc' \in [Calls -> {"new", "queued"} \cup Hot!Resolving]
      /\ lanePc'[r] = "queued" /\ \A q \in Calls \ {r} : lanePc'[q] = lanePc[q]
      /\ lane[r] \in {"normal", "hot"}
  BY <1>1 DEF LanesStrong, Hot!HotTypeOK
<1>3. Hot!HotTypeOK' /\ since' \in 0 .. MaxContentions
  <2>1. disturbed' \subseteq Calls /\ raced' \in BOOLEAN
    BY <1>1 DEF LanesStrong, Hot!HotTypeOK, Hot!Others
  <2> QED
    BY <1>1, <1>2, <2>1 DEF LanesStrong, Hot!HotTypeOK
<1>4. Hot!PromotedOnContention'
  BY <1>1 DEF LanesStrong, Hot!PromotedOnContention, Hot!Threshold
<1>5. RoutesOK'
  <2> SUFFICES ASSUME ~raced' PROVE LaneOfState' /\ \A q \in Calls \ disturbed' : Current(q)'
    BY DEF RoutesOK
  <2>1. Current(r) /\ LaneOfState
    BY <1>1 DEF LanesStrong, RoutesOK
  <2>2. \A m : Hot!Pending(m)' \subseteq Hot!Pending(m) \cup {q \in {r} : lane[r] = m}
    BY <1>1, <1>2 DEF Hot!Pending
  <2>3. LaneOfState'
    BY <1>1, <1>2, <2>1, <2>2 DEF LaneOfState, Current
  <2>4. Current(r)'
    BY <1>2 DEF Current
  <2>5. ASSUME NEW q \in Calls \ disturbed', q # r PROVE Current(q)'
    <3>1. lanePc'[q] \notin Hot!Resolving
      BY <1>1, <1>2, <2>5 DEF Hot!Others
    <3> QED
      BY <3>1 DEF Current, Hot!Resolving
  <2> QED
    BY <2>3, <2>4, <2>5
<1> QED
  BY <1>3, <1>4, <1>5 DEF LanesStrong

\* A worker decides a row, which waits no longer.
LEMMA DecideLanes ==
  ASSUME LanesStrong, NEW r \in Calls, Hot!Decide(r) PROVE LanesStrong'
<1>1. /\ lanePc[r] = "queued" /\ lanePc' = [lanePc EXCEPT ![r] = "new"]
      /\ UNCHANGED <<state, activity, contention, lane, recorder, since, disturbed, raced, laneMishaps>>
  BY DEF Hot!Decide, Hot!Goto
<1>2. /\ lanePc' \in [Calls -> {"new", "queued"} \cup Hot!Resolving]
      /\ lanePc'[r] = "new" /\ \A q \in Calls \ {r} : lanePc'[q] = lanePc[q]
  BY <1>1 DEF LanesStrong, Hot!HotTypeOK
<1>3. Hot!HotTypeOK' /\ since' \in 0 .. MaxContentions
  BY <1>1, <1>2 DEF LanesStrong, Hot!HotTypeOK
<1>4. Hot!PromotedOnContention'
  BY <1>1 DEF LanesStrong, Hot!PromotedOnContention, Hot!Threshold
<1>5. \A m : Hot!Pending(m)' \subseteq Hot!Pending(m)
  BY <1>1, <1>2 DEF Hot!Pending
<1>6. RoutesOK'
  BY <1>1, <1>2, <1>5 DEF LanesStrong, RoutesOK, LaneOfState, Current
<1> QED
  BY <1>3, <1>4, <1>6 DEF LanesStrong

\* A contention is counted: the counter is at most the contentions since the
\* last demotion, so that reaching the threshold means as many of those.
LEMMA CountContentionLanes ==
  ASSUME Hot!HotAssumption, LanesStrong, NEW w \in Calls, Hot!CountContention(w)
  PROVE  LanesStrong'
<1>1. /\ recorder[w].at = "idle" /\ since < MaxContentions
      /\ contention' = contention + 1 /\ activity' = TRUE /\ since' = since + 1
      /\ recorder' = [recorder EXCEPT ![w] =
           IF contention' < Hot!Threshold THEN @ ELSE [at |-> "counted", tally |-> since']]
      /\ UNCHANGED <<state, lanePc, lane, disturbed, raced, laneMishaps>>
  BY DEF Hot!CountContention
<1>2. /\ contention' \in 0 .. MaxContentions /\ since' \in 0 .. MaxContentions /\ contention' <= since'
      /\ Hot!Threshold \in Int
  BY <1>1 DEF LanesStrong, Hot!HotTypeOK, Hot!HotAssumption, Hot!Threshold
<1>3. /\ recorder' \in [Calls -> [at : {"idle", "counted", "promote"}, tally : 0 .. MaxContentions]]
      /\ \A x \in Calls \ {w} : recorder'[x] = recorder[x]
      /\ recorder'[w] = recorder[w] \/ recorder'[w].tally >= Hot!Threshold
  BY <1>1, <1>2 DEF LanesStrong, Hot!HotTypeOK
<1>4. Hot!HotTypeOK'
  BY <1>1, <1>2, <1>3 DEF LanesStrong, Hot!HotTypeOK
<1>5. Hot!PromotedOnContention'
  BY <1>3 DEF LanesStrong, Hot!PromotedOnContention, Hot!Threshold
<1>6. RoutesOK'
  BY <1>1 DEF LanesStrong, RoutesOK, LaneOfState, Current, Hot!Pending
<1> QED
  BY <1>2, <1>4, <1>5, <1>6 DEF LanesStrong

\* A recorder reads the state...
LEMMA CheckStateLanes ==
  ASSUME Hot!HotAssumption, LanesStrong, NEW w \in Calls, Hot!CheckState(w) PROVE LanesStrong'
<1>1. /\ recorder[w].at = "counted"
      /\ recorder' = [recorder EXCEPT ![w] =
           IF state = "normal" THEN [@ EXCEPT !.at = "promote"] ELSE [at |-> "idle", tally |-> 0]]
      /\ UNCHANGED <<state, activity, contention, lanePc, lane, since, disturbed, raced, laneMishaps>>
  BY DEF Hot!CheckState
<1>2. /\ recorder \in [Calls -> [at : {"idle", "counted", "promote"}, tally : 0 .. MaxContentions]]
      /\ 0 \in 0 .. MaxContentions
  BY DEF LanesStrong, Hot!HotTypeOK, Hot!HotAssumption
<1>3. /\ recorder' \in [Calls -> [at : {"idle", "counted", "promote"}, tally : 0 .. MaxContentions]]
      /\ \A x \in Calls \ {w} : recorder'[x] = recorder[x]
      /\ recorder'[w].at = "idle" \/ recorder'[w].tally = recorder[w].tally
  BY <1>1, <1>2
<1>4. Hot!HotTypeOK' /\ since' \in 0 .. MaxContentions
  BY <1>1, <1>3 DEF LanesStrong, Hot!HotTypeOK
<1>5. Hot!PromotedOnContention'
  BY <1>1, <1>3 DEF LanesStrong, Hot!PromotedOnContention, Hot!Threshold
<1>6. RoutesOK'
  BY <1>1 DEF LanesStrong, RoutesOK, LaneOfState, Current, Hot!Pending
<1> QED
  BY <1>4, <1>5, <1>6 DEF LanesStrong

\* The state changes under all requests that resolve their lane.
LEMMA OvertakingStep ==
  ASSUME LanesStrong, state' \in {"normal", "promoting"},
         disturbed' = disturbed \cup {q \in Calls : lanePc[q] \in Hot!Resolving},
         UNCHANGED <<activity, contention, lanePc, lane, since>>,
         recorder' \in [Calls -> [at : {"idle", "counted", "promote"}, tally : 0 .. MaxContentions]],
         \A w \in Calls : recorder'[w] = recorder[w] \/ recorder'[w].at = "idle",
         laneMishaps' \in 0 .. MaxMishaps, raced' \in BOOLEAN,
         ~raced' => ~raced /\ Hot!Pending("hot") = {}
  PROVE  LanesStrong'
<1>1. Hot!HotTypeOK' /\ since' \in 0 .. MaxContentions
  BY DEF LanesStrong, Hot!HotTypeOK
<1>2. Hot!PromotedOnContention'
  BY DEF LanesStrong, Hot!PromotedOnContention, Hot!Threshold
<1>3. RoutesOK'
  <2> SUFFICES ASSUME ~raced' PROVE LaneOfState' /\ \A q \in Calls \ disturbed' : Current(q)'
    BY DEF RoutesOK
  <2>1. LaneOfState'
    BY DEF LaneOfState, Hot!Pending
  <2>2. ASSUME NEW q \in Calls \ disturbed' PROVE Current(q)'
    BY <2>2 DEF Current, Hot!Resolving
  <2> QED
    BY <2>1, <2>2
<1> QED
  BY <1>1, <1>2, <1>3 DEF LanesStrong

\* ...and marks the pair for promotion, whatever the state has become.
LEMMA PromoteLanes ==
  ASSUME Hot!HotAssumption, LanesStrong, NEW w \in Calls, Hot!Promote(w) PROVE LanesStrong'
<1>1. /\ state' = "promoting"
      /\ recorder' = [recorder EXCEPT ![w] = [at |-> "idle", tally |-> 0]]
      /\ disturbed' = disturbed \cup {q \in Calls : lanePc[q] \in Hot!Resolving}
      /\ raced' = (raced \/ state \in {"hot", "cooling_down"})
      /\ UNCHANGED <<activity, contention, lanePc, lane, since, laneMishaps>>
  BY DEF Hot!Promote
<1>2. /\ recorder \in [Calls -> [at : {"idle", "counted", "promote"}, tally : 0 .. MaxContentions]]
      /\ 0 \in 0 .. MaxContentions /\ laneMishaps' \in 0 .. MaxMishaps
  BY <1>1 DEF LanesStrong, Hot!HotTypeOK, Hot!HotAssumption
<1>3. /\ recorder' \in [Calls -> [at : {"idle", "counted", "promote"}, tally : 0 .. MaxContentions]]
      /\ \A x \in Calls : recorder'[x] = recorder[x] \/ recorder'[x].at = "idle"
  BY <1>1, <1>2
<1>4. raced' \in BOOLEAN /\ (~raced' => ~raced /\ Hot!Pending("hot") = {})
  BY <1>1 DEF LanesStrong, Hot!HotTypeOK, RoutesOK, LaneOfState
<1> QED
  BY <1>1, <1>2, <1>3, <1>4, OvertakingStep

\* The state key expires: a race if rows still wait in the hot lane.
LEMMA StateExpiresLanes ==
  ASSUME Hot!HotAssumption, LanesStrong, Hot!StateExpires PROVE LanesStrong'
<1>1. /\ state' = "normal" /\ UNCHANGED <<activity, contention, lanePc, lane, recorder, since>>
      /\ disturbed' = disturbed \cup {q \in Calls : lanePc[q] \in Hot!Resolving}
      /\ raced' = (raced \/ Hot!Pending("hot") # {})
      /\ laneMishaps < MaxMishaps /\ laneMishaps' = laneMishaps + 1
  BY DEF Hot!StateExpires
<1>2. /\ recorder' \in [Calls -> [at : {"idle", "counted", "promote"}, tally : 0 .. MaxContentions]]
      /\ \A x \in Calls : recorder'[x] = recorder[x] \/ recorder'[x].at = "idle"
  BY <1>1 DEF LanesStrong, Hot!HotTypeOK
<1>3. laneMishaps' \in 0 .. MaxMishaps
  BY <1>1 DEF LanesStrong, Hot!HotTypeOK, Hot!HotAssumption
<1>4. raced' \in BOOLEAN /\ (~raced' => ~raced /\ Hot!Pending("hot") = {})
  BY <1>1 DEF LanesStrong, Hot!HotTypeOK
<1> QED
  BY <1>1, <1>2, <1>3, <1>4, OvertakingStep

\* The counter or the mark of recent contention expires.
LEMMA CountersExpireLanes ==
  ASSUME Hot!HotAssumption, LanesStrong, Hot!ContentionExpires \/ Hot!ActivityExpires PROVE LanesStrong'
<1>1. /\ UNCHANGED <<state, lanePc, lane, recorder, since, disturbed, raced, laneMishaps>>
      /\ contention' \in {contention, 0} /\ activity' \in {activity, FALSE}
  BY DEF Hot!ContentionExpires, Hot!ActivityExpires
<1>2. activity' \in BOOLEAN /\ contention' \in 0 .. MaxContentions /\ contention' <= since
  <2>1. activity' \in BOOLEAN
    BY <1>1 DEF LanesStrong, Hot!HotTypeOK
  <2>2. contention' \in 0 .. MaxContentions /\ contention' <= since
    BY <1>1 DEF LanesStrong, Hot!HotTypeOK, Hot!HotAssumption
  <2> QED
    BY <2>1, <2>2
<1>3. Hot!HotTypeOK' /\ since' \in 0 .. MaxContentions
  BY <1>1, <1>2 DEF LanesStrong, Hot!HotTypeOK
<1>4. Hot!PromotedOnContention'
  BY <1>1 DEF LanesStrong, Hot!PromotedOnContention, Hot!Threshold
<1>5. RoutesOK'
  BY <1>1 DEF LanesStrong, RoutesOK, LaneOfState, Current, Hot!Pending
<1> QED
  BY <1>3, <1>4, <1>5 DEF LanesStrong

\* LanesStrong is inductive.
LEMMA LanesNext ==
  ASSUME Hot!HotAssumption, LanesStrong, [Hot!HotNext]_Hot!hotVars PROVE LanesStrong'
<1>1. CASE UNCHANGED Hot!hotVars
  BY <1>1 DEF Hot!hotVars, LanesStrong, Hot!HotTypeOK, Hot!PromotedOnContention, Hot!Threshold,
     RoutesOK, LaneOfState, Current, Hot!Pending
<1>2. ASSUME NEW r \in Calls, Hot!Resolve(r) PROVE LanesStrong'
  BY <1>2, ReadStateLanes, CountNormalLanes, ActivateHotLanes, CheckActivityLanes, CountHotLanes,
     StartCoolingDownLanes, SetNormalLanes, ResolveFailsLanes DEF Hot!Resolve
<1>3. ASSUME NEW r \in Calls, Hot!Store(r) \/ Hot!Decide(r) PROVE LanesStrong'
  BY <1>3, StoreLanes, DecideLanes
<1>4. ASSUME NEW w \in Calls, Hot!CountContention(w) \/ Hot!CheckState(w) \/ Hot!Promote(w)
      PROVE  LanesStrong'
  BY <1>4, CountContentionLanes, CheckStateLanes, PromoteLanes
<1> QED
  BY <1>1, <1>2, <1>3, <1>4, CountersExpireLanes, StateExpiresLanes DEF Hot!HotNext

(***************************************************************************)
(* Hooks.  A hook that is not torn is edited by one call at a time, and    *)
(* what that call has done so far fixes how the key and the sets of the    *)
(* types differ.  A delivery writes back its copy: it disturbs nothing     *)
(* when the copy is from the last edit, because copies from the same edit  *)
(* have the same type.                                                     *)
(***************************************************************************)
AddStates == [at : {"add"}, id : HookIds, type : Hook!ValidTypes]
UpdateStates == [at : {"move", "join", "store"}, id : HookIds, old : Hook!Types, new : Hook!HookRecords]
DeleteStates == [at : {"delete", "leave"}, id : HookIds, old : Hook!Types]
EditStates == {Hook!Resting} \cup AddStates \cup UpdateStates \cup DeleteStates

HookTasks == [id : HookIds, hook : Hook!HookRecords, left : Nat]
WebhookTasks == [id : {Nothing}, hook : {Nothing}, left : 0 .. DefaultRetries]
TaskStates == {Nothing} \cup HookTasks \cup WebhookTasks

HookTypes ==
  /\ registry \in [HookIds -> Hook!HookRecords \cup {Nothing}]
  /\ listed \in [Hook!Types -> SUBSET HookIds]
  /\ editor \in [Calls -> EditStates]
  /\ delivery \in [Deliveries -> TaskStates]
  /\ torn \subseteq HookIds /\ edits \in 0 .. MaxEdits /\ hookMishaps \in 0 .. MaxMishaps

\* The records of hooks in keys, in tasks and in the memory of edits.
Copies ==
  {registry[h] : h \in {g \in HookIds : registry[g] # Nothing}}
    \cup {delivery[k].hook : k \in {j \in Deliveries : delivery[j] \in HookTasks}}
    \cup {editor[e].new : e \in {d \in Calls : editor[d] \in UpdateStates}}

\* Records from the same edit have the same type.
CopiesAgree ==
  /\ \A a \in Copies : a.edit <= edits
  /\ \A a, b \in Copies : a.edit = b.edit => a.type = b.type

\* The set of hook h is that of type t, and no other.
ListedAs(h, t) == \A u \in Hook!Types : h \in listed[u] <=> u = t
Unlisted(h) == \A u \in Hook!Types : h \notin listed[u]

\* How far the edit s of hook h has come.
StageOK(h, s) ==
  /\ s.at = "add" => registry[h] # Nothing /\ registry[h].type = s.type /\ Unlisted(h)
  /\ s.at \in {"move", "delete"} => registry[h] # Nothing /\ s.old = registry[h].type /\ ListedAs(h, s.old)
  /\ s.at = "join" => Unlisted(h)
  /\ s.at = "store" => ListedAs(h, s.new.type)
  /\ s.at = "leave" => registry[h] = Nothing /\ ListedAs(h, s.old)

\* Between edits the key and the sets of a hook agree.
Settled(h) == \A t \in Hook!Types : h \in listed[t] <=> registry[h] # Nothing /\ registry[h].type = t

\* At most one edit of a hook is under way, and explains the difference.
EditOK(h) ==
  /\ \A e, d \in Hook!Editing(h) : e = d
  /\ \A e \in Hook!Editing(h) : StageOK(h, editor[e])
  /\ Hook!Editing(h) = {} => Settled(h)

HooksStrong == HookTypes /\ CopiesAgree /\ \A h \in HookIds \ torn : EditOK(h)

\* A record of a hook.
LEMMA RecordFacts ==
  ASSUME Hook!HooksAssumption, NEW r \in Hook!HookRecords
  PROVE  /\ r # Nothing /\ r.type \in Hook!Types /\ r.edit \in 1 .. MaxEdits /\ r.retries \in Nat
         /\ r.success \in BOOLEAN
<1>1. CASE r \in [type : Hook!Types, active : BOOLEAN, by : {"register"}, retries : 0 .. MaxHookRetryCount,
                  edit : 1 .. MaxEdits, success : BOOLEAN]
  BY <1>1 DEF Hook!HooksAssumption
<1>2. CASE r \in [type : Hook!Types, active : BOOLEAN, by : {"update"}, retries : RetryCounts,
                  edit : 1 .. MaxEdits, success : BOOLEAN]
  BY <1>2 DEF Hook!HooksAssumption
<1> QED
  BY <1>1, <1>2 DEF Hook!HookRecords

\* The outcome of an attempt changes neither the edit nor the type.
LEMMA OutcomeFacts ==
  ASSUME Hook!HooksAssumption, NEW r \in Hook!HookRecords, NEW ok \in BOOLEAN
  PROVE  LET o == [r EXCEPT !.success = ok] IN
         o \in Hook!HookRecords /\ o.edit = r.edit /\ o.type = r.type
<1>1. CASE r \in [type : Hook!Types, active : BOOLEAN, by : {"register"}, retries : 0 .. MaxHookRetryCount,
                  edit : 1 .. MaxEdits, success : BOOLEAN]
  BY <1>1 DEF Hook!HookRecords
<1>2. CASE r \in [type : Hook!Types, active : BOOLEAN, by : {"update"}, retries : RetryCounts,
                  edit : 1 .. MaxEdits, success : BOOLEAN]
  BY <1>2 DEF Hook!HookRecords
<1> QED
  BY <1>1, <1>2 DEF Hook!HookRecords

\* The states of an edit.
LEMMA EditStateFacts ==
  ASSUME NEW s \in EditStates
  PROVE  /\ s # Hook!Resting => s.id \in HookIds
         /\ s = Hook!Resting <=> s.at = "rest"
         /\ s.at = "add" => s \in AddStates
         /\ s.at \in {"move", "join", "store"} <=> s \in UpdateStates
         /\ s.at \in {"delete", "leave"} => s \in DeleteStates
BY DEF EditStates, AddStates, UpdateStates, DeleteStates, Hook!Resting

\* HookTypes is what HooksTypeOK says, with the functions' domains.
LEMMA HookTypesOK == ASSUME HookTypes PROVE Hook!HooksTypeOK
BY DEF HookTypes, Hook!HooksTypeOK, EditStates, AddStates, UpdateStates, DeleteStates, TaskStates,
   HookTasks, WebhookTasks

\* HooksStrong holds initially.
LEMMA HooksInitially == ASSUME Hook!HooksAssumption, Hook!HookInit PROVE HooksStrong
<1>1. HookTypes
  BY DEF Hook!HooksAssumption, Hook!HookInit, HookTypes, EditStates, TaskStates
<1>2. Hook!Resting \notin UpdateStates /\ Nothing \notin HookTasks
  BY DEF UpdateStates, Hook!Resting, HookTasks, Hook!HooksAssumption
<1>3. Copies = {}
  BY <1>2 DEF Hook!HookInit, Copies
<1>4. \A h \in HookIds : EditOK(h)
  BY DEF Hook!HookInit, EditOK, Settled, Hook!Editing
<1> QED
  BY <1>1, <1>3, <1>4 DEF HooksStrong, CopiesAgree

\* Records that are copied keep agreeing...
LEMMA CopiesStay ==
  ASSUME HookTypes, CopiesAgree, edits' \in Nat, edits' >= edits,
         \A a \in Copies' : \E b \in Copies : a.edit = b.edit /\ a.type = b.type,
         \A b \in Copies : b.edit \in Nat
  PROVE  CopiesAgree'
BY DEF CopiesAgree, HookTypes

\* ...and so they do with the record of an edit that begins.
LEMMA CopiesGrow ==
  ASSUME HookTypes, CopiesAgree, edits' = edits + 1, NEW n, n.edit = edits + 1,
         \A a \in Copies' : a = n \/ \E b \in Copies : a.edit = b.edit /\ a.type = b.type,
         \A b \in Copies : b.edit \in Nat
  PROVE  CopiesAgree'
<1>1. edits \in Nat
  BY DEF HookTypes
<1>2. \A a \in Copies' : a.edit <= edits + 1 /\ (a = n \/ a.edit <= edits)
  BY <1>1 DEF CopiesAgree
<1>3. \A a, b \in Copies' : a.edit = b.edit => a.type = b.type
  <2> SUFFICES ASSUME NEW a \in Copies', NEW b \in Copies', a.edit = b.edit PROVE a.type = b.type
    OBVIOUS
  <2>1. CASE a = n \/ b = n
    BY <1>1, <1>2, <2>1
  <2>2. CASE a # n /\ b # n
    BY <2>2 DEF CopiesAgree
  <2> QED
    BY <2>1, <2>2
<1> QED
  BY <1>2, <1>3 DEF CopiesAgree

\* Every copy is a record of a hook.
LEMMA CopiesAreRecords ==
  ASSUME Hook!HooksAssumption, HookTypes
  PROVE  Copies \subseteq Hook!HookRecords /\ \A b \in Copies : b.edit \in Nat
<1>1. Copies \subseteq Hook!HookRecords
  BY DEF HookTypes, Copies, HookTasks, UpdateStates
<1> QED
  BY <1>1, RecordFacts

\* A step of editor e, at hook h: the edit becomes s, and nothing is said of
\* other hooks.
LEMMA EditStep ==
  ASSUME Hook!HooksAssumption, HooksStrong, NEW e \in Calls, NEW h \in HookIds,
         NEW s \in EditStates, editor' = [editor EXCEPT ![e] = s],
         s = Hook!Resting \/ s.id = h,
         editor[e] = Hook!Resting \/ editor[e].id = h,
         UNCHANGED delivery,
         registry' \in [HookIds -> Hook!HookRecords \cup {Nothing}],
         listed' \in [Hook!Types -> SUBSET HookIds],
         \A g \in HookIds \ {h} : registry'[g] = registry[g],
         \A g \in HookIds \ {h} : \A t \in Hook!Types : g \in listed'[t] <=> g \in listed[t],
         torn \subseteq torn', torn' \subseteq torn \cup {h},
         edits' \in 0 .. MaxEdits, hookMishaps' \in 0 .. MaxMishaps,
         CopiesAgree',
         h \notin torn' => \A d \in Calls \ {e} : d \notin Hook!Editing(h),
         h \notin torn' /\ s # Hook!Resting => StageOK(h, s)',
         h \notin torn' /\ s = Hook!Resting => Settled(h)'
  PROVE  HooksStrong'
<1>1. editor' \in [Calls -> EditStates] /\ editor'[e] = s /\ \A d \in Calls \ {e} : editor'[d] = editor[d]
  BY DEF HooksStrong, HookTypes
<1>2. HookTypes'
  BY <1>1 DEF HooksStrong, HookTypes
<1>3. ASSUME NEW g \in HookIds \ torn', g # h PROVE EditOK(g)'
  <2>1. Hook!Editing(g)' = Hook!Editing(g) /\ e \notin Hook!Editing(g)
    BY <1>1, <1>3 DEF Hook!Editing, Hook!Resting
  <2>2. EditOK(g)
    BY <1>3 DEF HooksStrong
  <2>3. \A t \in Hook!Types : g \in listed'[t] <=> g \in listed[t]
    BY <1>3
  <2>4. registry'[g] = registry[g]
    BY <1>3
  <2>5. \A d \in Hook!Editing(g) : editor'[d] = editor[d]
    BY <1>1, <2>1 DEF Hook!Editing
  <2>6. \A d \in Hook!Editing(g) : StageOK(g, editor[d])'
    BY <2>2, <2>3, <2>4, <2>5 DEF EditOK, StageOK, ListedAs, Unlisted
  <2>7. Hook!Editing(g) = {} => Settled(g)'
    BY <2>2, <2>3, <2>4 DEF EditOK, Settled
  <2> QED
    BY <2>1, <2>2, <2>6, <2>7 DEF EditOK
<1>4. ASSUME h \notin torn' PROVE EditOK(h)'
  <2>1. Hook!Editing(h)' \subseteq {e}
    BY <1>1, <1>4 DEF Hook!Editing, Hook!Resting
  <2>2. CASE s = Hook!Resting
    <3>1. Hook!Editing(h)' = {}
      BY <1>1, <2>1, <2>2 DEF Hook!Editing, Hook!Resting
    <3> QED
      BY <1>4, <2>2, <3>1 DEF EditOK
  <2>3. CASE s # Hook!Resting
    <3>1. Hook!Editing(h)' = {e}
      BY <1>1, <2>1, <2>3 DEF Hook!Editing, Hook!Resting
    <3>2. StageOK(h, editor[e])'
      BY <1>1, <1>4, <2>3 DEF StageOK
    <3> QED
      BY <3>1, <3>2 DEF EditOK
  <2> QED
    BY <2>2, <2>3
<1> QED
  BY <1>2, <1>3, <1>4 DEF HooksStrong

\* What the state of editor e, who is at hook h, says of a hook that is not torn.
LEMMA EditorFacts ==
  ASSUME HooksStrong, NEW e \in Calls, editor[e] # Hook!Resting
  PROVE  /\ editor[e] \in EditStates /\ editor[e].id \in HookIds
         /\ editor[e].id \notin torn =>
              /\ StageOK(editor[e].id, editor[e])
              /\ \A d \in Calls \ {e} : d \notin Hook!Editing(editor[e].id)
<1>1. editor[e] \in EditStates
  BY DEF HooksStrong, HookTypes
<1>2. editor[e].id \in HookIds
  BY <1>1, EditStateFacts
<1>3. e \in Hook!Editing(editor[e].id)
  BY DEF Hook!Editing
<1> QED
  BY <1>1, <1>2, <1>3 DEF HooksStrong, EditOK

\* The records after a step of editor e at hook h.
LEMMA CopiesAfter ==
  ASSUME HooksStrong, NEW e \in Calls, NEW h \in HookIds, NEW s, editor' = [editor EXCEPT ![e] = s],
         UNCHANGED delivery, \A g \in HookIds \ {h} : registry'[g] = registry[g]
  PROVE  \A a \in Copies' : \/ a \in Copies
                            \/ a = registry'[h] /\ registry'[h] # Nothing
                            \/ s \in UpdateStates /\ a = s.new
<1>1. editor'[e] = s /\ \A d \in Calls \ {e} : editor'[d] = editor[d]
  BY DEF HooksStrong, HookTypes
<1> SUFFICES ASSUME NEW a \in Copies', a \notin Copies
             PROVE  \/ a = registry'[h] /\ registry'[h] # Nothing
                    \/ s \in UpdateStates /\ a = s.new
  OBVIOUS
<1>2. CASE \E g \in HookIds : registry'[g] # Nothing /\ a = registry'[g]
  BY <1>2 DEF Copies
<1>3. CASE \E k \in Deliveries : delivery[k] \in HookTasks /\ a = delivery[k].hook
  BY <1>3 DEF Copies
<1>4. CASE \E d \in Calls : editor'[d] \in UpdateStates /\ a = editor'[d].new
  BY <1>1, <1>4 DEF Copies
<1>5. HookTasks' = HookTasks /\ UpdateStates' = UpdateStates
  BY DEF HookTasks, UpdateStates, Hook!HookRecords, Hook!Types, Hook!ValidTypes
<1> QED
  BY <1>2, <1>3, <1>4, <1>5 DEF Copies

\* A step of an editor that brings no new record.
LEMMA EditCopies ==
  ASSUME Hook!HooksAssumption, HooksStrong, NEW e \in Calls, NEW h \in HookIds, NEW s,
         editor' = [editor EXCEPT ![e] = s],
         UNCHANGED delivery, \A g \in HookIds \ {h} : registry'[g] = registry[g],
         registry'[h] # Nothing => registry'[h] \in Copies,
         s \in UpdateStates => s.new \in Copies,
         edits' \in Nat, edits' >= edits
  PROVE  CopiesAgree'
<1>1. \A a \in Copies' : a \in Copies
  BY CopiesAfter
<1>2. \A b \in Copies : b.edit \in Nat
  BY CopiesAreRecords DEF HooksStrong
<1> QED
  BY <1>1, <1>2, CopiesStay DEF HooksStrong

\* RegisterHook stores the key.
LEMMA RegisterHooks ==
  ASSUME Hook!HooksAssumption, HooksStrong, NEW e \in Calls, NEW h \in HookIds, NEW type \in Hook!Types,
         NEW enabled \in BOOLEAN, NEW retries \in RetryCounts,
         Hook!RegisterHook(e, h, type, enabled, retries)
  PROVE  HooksStrong'
<1>1. PICK n : n = Hook!ValidateHook(type, enabled, retries)
  OBVIOUS
<1>2. PICK s : s = [at |-> "add", id |-> h, type |-> type]
  OBVIOUS
<1>3. /\ editor[e] = Hook!Resting /\ type \in Hook!ValidTypes
      /\ edits < MaxEdits /\ edits' = edits + 1
      /\ registry' = [registry EXCEPT ![h] = n]
      /\ editor' = [editor EXCEPT ![e] = s]
      /\ torn' = IF Hook!Editing(h) # {} \/ registry[h] # Nothing THEN torn \cup {h} ELSE torn
      /\ UNCHANGED <<listed, delivery, hookMishaps>>
  BY <1>1, <1>2 DEF Hook!RegisterHook, Hook!Becomes
<1>4. edits \in 0 .. MaxEdits /\ edits' \in 0 .. MaxEdits
  BY <1>3 DEF HooksStrong, HookTypes, Hook!HooksAssumption
<1>5. n \in Hook!HookRecords /\ n.edit = edits + 1 /\ n.type = type
  <2>1. (IF retries > MaxHookRetryCount THEN MaxHookRetryCount ELSE retries) \in 0 .. MaxHookRetryCount
    BY DEF Hook!HooksAssumption
  <2>2. edits + 1 \in 1 .. MaxEdits
    BY <1>3, <1>4 DEF Hook!HooksAssumption
  <2> QED
    BY <1>1, <2>1, <2>2 DEF Hook!ValidateHook, Hook!HookRecords
<1>6. /\ s \in EditStates /\ s # Hook!Resting /\ s.id = h /\ s.at = "add" /\ s.type = type
      /\ s \notin UpdateStates
  BY <1>2, <1>3 DEF EditStates, AddStates, Hook!Resting, UpdateStates
<1>7. /\ registry' \in [HookIds -> Hook!HookRecords \cup {Nothing}]
      /\ registry'[h] = n /\ \A g \in HookIds \ {h} : registry'[g] = registry[g]
  BY <1>3, <1>5 DEF HooksStrong, HookTypes
<1>8. n # Nothing
  BY <1>5, RecordFacts
<1>9. CopiesAgree'
  <2>1. \A a \in Copies' : a = n \/ a \in Copies
    BY <1>3, <1>6, <1>7, CopiesAfter
  <2>2. \A b \in Copies : b.edit \in Nat
    BY CopiesAreRecords DEF HooksStrong
  <2> QED
    BY <1>3, <1>5, <2>1, <2>2, CopiesGrow DEF HooksStrong
<1>10. h \notin torn' => h \notin torn /\ Hook!Editing(h) = {} /\ registry[h] = Nothing
  BY <1>3
<1>11. h \notin torn' => StageOK(h, s)'
  <2> SUFFICES ASSUME h \notin torn' PROVE StageOK(h, s)'
    OBVIOUS
  <2>1. Settled(h) /\ registry[h] = Nothing
    BY <1>10 DEF HooksStrong, EditOK
  <2>2. Unlisted(h)'
    BY <1>3, <2>1 DEF Settled, Unlisted
  <2> QED
    BY <1>5, <1>6, <1>7, <1>8, <2>2 DEF StageOK
<1>12. /\ torn \subseteq torn' /\ torn' \subseteq torn \cup {h}
       /\ listed' \in [Hook!Types -> SUBSET HookIds] /\ hookMishaps' \in 0 .. MaxMishaps
       /\ \A g \in HookIds \ {h} : \A t \in Hook!Types : g \in listed'[t] <=> g \in listed[t]
  BY <1>3 DEF HooksStrong, HookTypes
<1> QED
  BY <1>3, <1>4, <1>6, <1>7, <1>9, <1>10, <1>11, <1>12, EditStep

\* The next command of an edit that is under way.
LEMMA NextCommand ==
  ASSUME Hook!HooksAssumption, HooksStrong, NEW e \in Calls, editor[e] # Hook!Resting,
         NEW h \in HookIds, h = editor[e].id,
         NEW s \in EditStates, editor' = [editor EXCEPT ![e] = s], s = Hook!Resting \/ s.id = h,
         UNCHANGED <<delivery, torn, edits, hookMishaps>>,
         registry' \in [HookIds -> Hook!HookRecords \cup {Nothing}],
         listed' \in [Hook!Types -> SUBSET HookIds],
         \A g \in HookIds \ {h} : registry'[g] = registry[g],
         \A g \in HookIds \ {h} : \A t \in Hook!Types : g \in listed'[t] <=> g \in listed[t],
         registry'[h] # Nothing => registry'[h] \in Copies,
         s \in UpdateStates => s.new \in Copies,
         h \notin torn /\ s # Hook!Resting => StageOK(h, s)',
         h \notin torn /\ s = Hook!Resting => Settled(h)'
  PROVE  HooksStrong'
<1>1. edits' \in 0 .. MaxEdits /\ hookMishaps' \in 0 .. MaxMishaps /\ edits' \in Nat /\ edits' >= edits
  BY DEF HooksStrong, HookTypes, Hook!HooksAssumption
<1>2. CopiesAgree'
  BY <1>1, EditCopies
<1>3. h \notin torn' => \A d \in Calls \ {e} : d \notin Hook!Editing(h)
  BY EditorFacts
<1>4. torn \subseteq torn' /\ torn' \subseteq torn \cup {h}
  OBVIOUS
<1> QED
  BY <1>1, <1>2, <1>3, <1>4, EditStep

\* The records that a hook's key and an update under way hold.
LEMMA CopiesHere ==
  ASSUME HooksStrong
  PROVE  /\ \A h \in HookIds : registry[h] # Nothing => registry[h] \in Copies
         /\ \A e \in Calls : editor[e] \in UpdateStates => editor[e].new \in Copies
         /\ \A k \in Deliveries : delivery[k] \in HookTasks => delivery[k].hook \in Copies
BY DEF Copies

\* The set of a type changes by one hook.
LEMMA SetOfType ==
  ASSUME HooksStrong, NEW h \in HookIds, NEW t \in Hook!Types, NEW S, S \in SUBSET HookIds,
         listed' = [listed EXCEPT ![t] = S], \A g \in HookIds \ {h} : g \in S <=> g \in listed[t]
  PROVE  /\ listed' \in [Hook!Types -> SUBSET HookIds]
         /\ listed'[t] = S /\ \A u \in Hook!Types \ {t} : listed'[u] = listed[u]
         /\ \A g \in HookIds \ {h} : \A u \in Hook!Types : g \in listed'[u] <=> g \in listed[u]
BY DEF HooksStrong, HookTypes

\* RegisterHook adds the hook to the set of its type.
LEMMA AddToTypes ==
  ASSUME Hook!HooksAssumption, HooksStrong, NEW e \in Calls, Hook!AddToType(e)
  PROVE  HooksStrong'
<1>1. /\ editor[e].at = "add" /\ editor' = [editor EXCEPT ![e] = Hook!Resting]
      /\ listed' = [listed EXCEPT ![editor[e].type] = listed[editor[e].type] \cup {editor[e].id}]
      /\ UNCHANGED <<registry, delivery, torn, edits, hookMishaps>>
  BY DEF Hook!AddToType, Hook!Becomes
<1>2. editor[e] # Hook!Resting /\ editor[e] \in EditStates
  BY <1>1 DEF Hook!Resting, HooksStrong, HookTypes
<1>3. editor[e] \in AddStates
  BY <1>1, <1>2, EditStateFacts
<1>4. PICK h, t : h = editor[e].id /\ t = editor[e].type
  OBVIOUS
<1>5. h \in HookIds /\ t \in Hook!Types
  BY <1>3, <1>4 DEF AddStates, Hook!Types
<1>6. listed[t] \cup {h} \in SUBSET HookIds /\ \A g \in HookIds \ {h} : g \in listed[t] \cup {h} <=> g \in listed[t]
  BY <1>5 DEF HooksStrong, HookTypes
<1>7. listed' = [listed EXCEPT ![t] = listed[t] \cup {h}]
  BY <1>1, <1>4
<1>8. /\ listed' \in [Hook!Types -> SUBSET HookIds]
      /\ listed'[t] = listed[t] \cup {h} /\ \A u \in Hook!Types \ {t} : listed'[u] = listed[u]
      /\ \A g \in HookIds \ {h} : \A u \in Hook!Types : g \in listed'[u] <=> g \in listed[u]
  <2>1. PICK S : S = listed[t] \cup {h}
    OBVIOUS
  <2>2. S \in SUBSET HookIds /\ \A g \in HookIds \ {h} : g \in S <=> g \in listed[t]
    BY <1>6, <2>1
  <2>3. listed' = [listed EXCEPT ![t] = S]
    BY <1>7, <2>1
  <2>4. /\ listed' \in [Hook!Types -> SUBSET HookIds]
        /\ listed'[t] = S /\ \A u \in Hook!Types \ {t} : listed'[u] = listed[u]
        /\ \A g \in HookIds \ {h} : \A u \in Hook!Types : g \in listed'[u] <=> g \in listed[u]
    BY ONLY HooksStrong, <1>5, <2>2, <2>3, SetOfType
  <2>5. QED
    BY <2>1, <2>4
<1>9. ASSUME h \notin torn PROVE Settled(h)'
  <2>1. registry[h] # Nothing /\ registry[h].type = t /\ Unlisted(h)
    BY <1>1, <1>2, <1>4, <1>9, EditorFacts DEF StageOK
  <2> QED
    BY <1>1, <1>8, <2>1 DEF Settled, Unlisted
<1>10. /\ registry' \in [HookIds -> Hook!HookRecords \cup {Nothing}]
       /\ \A g \in HookIds \ {h} : registry'[g] = registry[g]
       /\ registry'[h] # Nothing => registry'[h] \in Copies
  BY <1>1, <1>5, CopiesHere DEF HooksStrong, HookTypes
<1>11. Hook!Resting \in EditStates /\ Hook!Resting \notin UpdateStates
  BY DEF EditStates, UpdateStates, Hook!Resting
<1> QED
  BY <1>1, <1>2, <1>4, <1>5, <1>8, <1>9, <1>10, <1>11, NextCommand

\* UpdateHook reads the hook.
LEMMA UpdateHooks ==
  ASSUME Hook!HooksAssumption, HooksStrong, NEW e \in Calls, NEW h \in HookIds, NEW type \in Hook!Types,
         NEW enabled \in BOOLEAN, NEW retries \in RetryCounts,
         Hook!UpdateHook(e, h, type, enabled, retries)
  PROVE  HooksStrong'
<1>1. PICK n : n = [type |-> type, active |-> enabled, by |-> "update", retries |-> retries,
                    edit |-> edits + 1, success |-> registry[h].success]
  OBVIOUS
<1>2. PICK a : a = IF registry[h].type # type THEN "move" ELSE "store"
  OBVIOUS
<1>3. PICK s : s = [at |-> a, id |-> h, old |-> registry[h].type, new |-> n]
  OBVIOUS
<1>4. /\ editor[e] = Hook!Resting /\ registry[h] # Nothing
      /\ edits < MaxEdits /\ edits' = edits + 1
      /\ editor' = [editor EXCEPT ![e] = s]
      /\ torn' = IF Hook!Editing(h) # {} THEN torn \cup {h} ELSE torn
      /\ UNCHANGED <<registry, listed, delivery, hookMishaps>>
  BY <1>1, <1>2, <1>3 DEF Hook!UpdateHook, Hook!Begin, Hook!Becomes
<1>5. edits \in 0 .. MaxEdits /\ edits' \in 0 .. MaxEdits /\ edits + 1 \in 1 .. MaxEdits
  BY <1>4 DEF HooksStrong, HookTypes, Hook!HooksAssumption
<1>6. registry[h] \in Hook!HookRecords
  BY <1>4 DEF HooksStrong, HookTypes
<1>7. n \in Hook!HookRecords /\ n.edit = edits + 1 /\ n.type = type
  BY <1>1, <1>5, <1>6, RecordFacts DEF Hook!HookRecords
<1>8. /\ s \in EditStates /\ s # Hook!Resting /\ s.id = h /\ s.at = a /\ s.old = registry[h].type
      /\ s.new = n
  BY <1>2, <1>3, <1>6, <1>7, RecordFacts DEF EditStates, UpdateStates, Hook!Resting
<1>9. CopiesAgree'
  <2>1. \A c \in Copies' : c = n \/ c \in Copies
    BY <1>4, <1>8, CopiesAfter, CopiesHere
  <2>2. \A b \in Copies : b.edit \in Nat
    BY CopiesAreRecords DEF HooksStrong
  <2> QED
    BY <1>4, <1>7, <2>1, <2>2, CopiesGrow DEF HooksStrong
<1>10. h \notin torn' => h \notin torn /\ Hook!Editing(h) = {}
  BY <1>4
<1>11. h \notin torn' => StageOK(h, s)'
  <2> SUFFICES ASSUME h \notin torn' PROVE StageOK(h, s)'
    OBVIOUS
  <2>1. Settled(h)
    BY <1>10 DEF HooksStrong, EditOK
  <2>2. ListedAs(h, registry[h].type)'
    BY <1>4, <2>1 DEF Settled, ListedAs
  <2>3. CASE a = "move"
    BY <1>4, <1>8, <2>2, <2>3 DEF StageOK
  <2>4. CASE a = "store" /\ registry[h].type = type
    BY <1>4, <1>7, <1>8, <2>2, <2>4 DEF StageOK
  <2> QED
    BY <1>2, <2>3, <2>4
<1>12. /\ torn \subseteq torn' /\ torn' \subseteq torn \cup {h}
       /\ registry' \in [HookIds -> Hook!HookRecords \cup {Nothing}]
       /\ listed' \in [Hook!Types -> SUBSET HookIds] /\ hookMishaps' \in 0 .. MaxMishaps
       /\ \A g \in HookIds \ {h} : registry'[g] = registry[g]
       /\ \A g \in HookIds \ {h} : \A t \in Hook!Types : g \in listed'[t] <=> g \in listed[t]
  BY <1>4 DEF HooksStrong, HookTypes
<1> QED
  BY <1>4, <1>5, <1>8, <1>9, <1>10, <1>11, <1>12, EditStep

\* A change of type: out of the old set...
LEMMA RemoveFromTypes ==
  ASSUME Hook!HooksAssumption, HooksStrong, NEW e \in Calls, Hook!RemoveFromType(e)
  PROVE  HooksStrong'
<1>1. PICK s : s = [editor[e] EXCEPT !.at = "join"]
  OBVIOUS
<1>2. /\ editor[e].at = "move" /\ editor' = [editor EXCEPT ![e] = s]
      /\ listed' = [listed EXCEPT ![editor[e].old] = listed[editor[e].old] \ {editor[e].id}]
      /\ UNCHANGED <<registry, delivery, torn, edits, hookMishaps>>
  BY <1>1 DEF Hook!RemoveFromType, Hook!Becomes
<1>3. editor[e] # Hook!Resting /\ editor[e] \in EditStates
  BY <1>2 DEF Hook!Resting, HooksStrong, HookTypes
<1>4. editor[e] \in UpdateStates
  BY <1>2, <1>3, EditStateFacts
<1>5. PICK h, t : h = editor[e].id /\ t = editor[e].old
  OBVIOUS
<1>6. h \in HookIds /\ t \in Hook!Types
  BY <1>4, <1>5 DEF UpdateStates
<1>7. /\ s \in UpdateStates /\ s.at = "join" /\ s.id = h /\ s.new = editor[e].new
      /\ s # Hook!Resting /\ s \in EditStates
  BY <1>1, <1>4, <1>5 DEF UpdateStates, EditStates, Hook!Resting
<1>8. /\ listed[t] \ {h} \in SUBSET HookIds
      /\ \A g \in HookIds \ {h} : g \in listed[t] \ {h} <=> g \in listed[t]
  BY <1>6 DEF HooksStrong, HookTypes
<1>9. listed' = [listed EXCEPT ![t] = listed[t] \ {h}]
  BY <1>2, <1>5
<1>10. /\ listed' \in [Hook!Types -> SUBSET HookIds]
       /\ listed'[t] = listed[t] \ {h} /\ \A u \in Hook!Types \ {t} : listed'[u] = listed[u]
       /\ \A g \in HookIds \ {h} : \A u \in Hook!Types : g \in listed'[u] <=> g \in listed[u]
  <2>1. PICK S : S = listed[t] \ {h}
    OBVIOUS
  <2>2. S \in SUBSET HookIds /\ \A g \in HookIds \ {h} : g \in S <=> g \in listed[t]
    BY <1>8, <2>1
  <2>3. listed' = [listed EXCEPT ![t] = S]
    BY <1>9, <2>1
  <2>4. /\ listed' \in [Hook!Types -> SUBSET HookIds]
        /\ listed'[t] = S /\ \A u \in Hook!Types \ {t} : listed'[u] = listed[u]
        /\ \A g \in HookIds \ {h} : \A u \in Hook!Types : g \in listed'[u] <=> g \in listed[u]
    BY ONLY HooksStrong, <1>6, <2>2, <2>3, SetOfType
  <2>5. QED
    BY <2>1, <2>4
<1>11. ASSUME h \notin torn PROVE StageOK(h, s)'
  <2>1. ListedAs(h, t)
    BY <1>2, <1>3, <1>5, <1>11, EditorFacts DEF StageOK
  <2>2. Unlisted(h)'
    BY <1>10, <2>1 DEF Unlisted, ListedAs
  <2> QED
    BY <1>7, <2>2 DEF StageOK
<1>12. /\ registry' \in [HookIds -> Hook!HookRecords \cup {Nothing}]
       /\ \A g \in HookIds \ {h} : registry'[g] = registry[g]
       /\ registry'[h] # Nothing => registry'[h] \in Copies
       /\ s.new \in Copies
  BY <1>2, <1>4, <1>6, <1>7, CopiesHere DEF HooksStrong, HookTypes
<1> QED
  BY <1>2, <1>3, <1>5, <1>6, <1>7, <1>10, <1>11, <1>12, NextCommand

\* ...into the new one...
LEMMA JoinTypes ==
  ASSUME Hook!HooksAssumption, HooksStrong, NEW e \in Calls, Hook!JoinType(e)
  PROVE  HooksStrong'
<1>1. PICK s : s = [editor[e] EXCEPT !.at = "store"]
  OBVIOUS
<1>2. /\ editor[e].at = "join" /\ editor' = [editor EXCEPT ![e] = s]
      /\ listed' = [listed EXCEPT ![editor[e].new.type] = listed[editor[e].new.type] \cup {editor[e].id}]
      /\ UNCHANGED <<registry, delivery, torn, edits, hookMishaps>>
  BY <1>1 DEF Hook!JoinType, Hook!Becomes
<1>3. editor[e] # Hook!Resting /\ editor[e] \in EditStates
  BY <1>2 DEF Hook!Resting, HooksStrong, HookTypes
<1>4. editor[e] \in UpdateStates
  BY <1>2, <1>3, EditStateFacts
<1>5. PICK h, t : h = editor[e].id /\ t = editor[e].new.type
  OBVIOUS
<1>6. h \in HookIds /\ t \in Hook!Types
  BY <1>4, <1>5, RecordFacts DEF UpdateStates
<1>7. /\ s \in UpdateStates /\ s.at = "store" /\ s.id = h /\ s.new = editor[e].new
      /\ s # Hook!Resting /\ s \in EditStates
  BY <1>1, <1>4, <1>5 DEF UpdateStates, EditStates, Hook!Resting
<1>8. /\ listed[t] \cup {h} \in SUBSET HookIds
      /\ \A g \in HookIds \ {h} : g \in listed[t] \cup {h} <=> g \in listed[t]
  BY <1>6 DEF HooksStrong, HookTypes
<1>9. listed' = [listed EXCEPT ![t] = listed[t] \cup {h}]
  BY <1>2, <1>5
<1>10. /\ listed' \in [Hook!Types -> SUBSET HookIds]
       /\ listed'[t] = listed[t] \cup {h} /\ \A u \in Hook!Types \ {t} : listed'[u] = listed[u]
       /\ \A g \in HookIds \ {h} : \A u \in Hook!Types : g \in listed'[u] <=> g \in listed[u]
  <2>1. PICK S : S = listed[t] \cup {h}
    OBVIOUS
  <2>2. S \in SUBSET HookIds /\ \A g \in HookIds \ {h} : g \in S <=> g \in listed[t]
    BY <1>8, <2>1
  <2>3. listed' = [listed EXCEPT ![t] = S]
    BY <1>9, <2>1
  <2>4. /\ listed' \in [Hook!Types -> SUBSET HookIds]
        /\ listed'[t] = S /\ \A u \in Hook!Types \ {t} : listed'[u] = listed[u]
        /\ \A g \in HookIds \ {h} : \A u \in Hook!Types : g \in listed'[u] <=> g \in listed[u]
    BY ONLY HooksStrong, <1>6, <2>2, <2>3, SetOfType
  <2>5. QED
    BY <2>1, <2>4
<1>11. ASSUME h \notin torn PROVE StageOK(h, s)'
  <2>1. Unlisted(h)
    BY <1>2, <1>3, <1>5, <1>11, EditorFacts DEF StageOK
  <2>2. ListedAs(h, t)'
    BY <1>10, <2>1 DEF Unlisted, ListedAs
  <2> QED
    BY <1>5, <1>7, <2>2 DEF StageOK
<1>12. /\ registry' \in [HookIds -> Hook!HookRecords \cup {Nothing}]
       /\ \A g \in HookIds \ {h} : registry'[g] = registry[g]
       /\ registry'[h] # Nothing => registry'[h] \in Copies
       /\ s.new \in Copies
  BY <1>2, <1>4, <1>6, <1>7, CopiesHere DEF HooksStrong, HookTypes
<1> QED
  BY <1>2, <1>3, <1>5, <1>6, <1>7, <1>10, <1>11, <1>12, NextCommand

\* ...and the key is written last.
LEMMA StoreHooks ==
  ASSUME Hook!HooksAssumption, HooksStrong, NEW e \in Calls, Hook!StoreHook(e)
  PROVE  HooksStrong'
<1>1. /\ editor[e].at = "store" /\ editor' = [editor EXCEPT ![e] = Hook!Resting]
      /\ registry' = [registry EXCEPT ![editor[e].id] = editor[e].new]
      /\ UNCHANGED <<listed, delivery, torn, edits, hookMishaps>>
  BY DEF Hook!StoreHook, Hook!Becomes
<1>2. editor[e] # Hook!Resting /\ editor[e] \in EditStates
  BY <1>1 DEF Hook!Resting, HooksStrong, HookTypes
<1>3. editor[e] \in UpdateStates
  BY <1>1, <1>2, EditStateFacts
<1>4. PICK h, n : h = editor[e].id /\ n = editor[e].new
  OBVIOUS
<1>5. h \in HookIds /\ n \in Hook!HookRecords /\ n # Nothing
  BY <1>3, <1>4, RecordFacts DEF UpdateStates
<1>6. registry' = [registry EXCEPT ![h] = n]
  BY <1>1, <1>4
<1>7. /\ registry' \in [HookIds -> Hook!HookRecords \cup {Nothing}]
      /\ registry'[h] = n /\ \A g \in HookIds \ {h} : registry'[g] = registry[g]
  BY <1>5, <1>6 DEF HooksStrong, HookTypes
<1>8. ASSUME h \notin torn PROVE Settled(h)'
  <2>1. ListedAs(h, n.type)
    BY <1>1, <1>2, <1>4, <1>8, EditorFacts DEF StageOK
  <2> QED
    BY <1>1, <1>5, <1>7, <2>1 DEF Settled, ListedAs
<1>9. /\ registry'[h] \in Copies
      /\ listed' \in [Hook!Types -> SUBSET HookIds]
      /\ \A g \in HookIds \ {h} : \A t \in Hook!Types : g \in listed'[t] <=> g \in listed[t]
  BY <1>1, <1>3, <1>4, <1>7, CopiesHere DEF HooksStrong, HookTypes
<1>10. Hook!Resting \in EditStates /\ Hook!Resting \notin UpdateStates
  BY DEF EditStates, UpdateStates, Hook!Resting
<1> QED
  BY <1>1, <1>2, <1>4, <1>5, <1>7, <1>8, <1>9, <1>10, NextCommand

\* DeleteHook reads the hook for its type...
LEMMA DeleteHooks ==
  ASSUME Hook!HooksAssumption, HooksStrong, NEW e \in Calls, NEW h \in HookIds, Hook!DeleteHook(e, h)
  PROVE  HooksStrong'
<1>1. PICK s : s = [at |-> "delete", id |-> h, old |-> registry[h].type]
  OBVIOUS
<1>2. /\ editor[e] = Hook!Resting /\ registry[h] # Nothing
      /\ edits < MaxEdits /\ edits' = edits + 1
      /\ editor' = [editor EXCEPT ![e] = s]
      /\ torn' = IF Hook!Editing(h) # {} THEN torn \cup {h} ELSE torn
      /\ UNCHANGED <<registry, listed, delivery, hookMishaps>>
  BY <1>1 DEF Hook!DeleteHook, Hook!Begin, Hook!Becomes
<1>3. edits' \in 0 .. MaxEdits /\ edits' \in Nat /\ edits' >= edits
  BY <1>2 DEF HooksStrong, HookTypes, Hook!HooksAssumption
<1>4. registry[h] \in Hook!HookRecords
  BY <1>2 DEF HooksStrong, HookTypes
<1>5. /\ s \in EditStates /\ s # Hook!Resting /\ s.id = h /\ s.at = "delete" /\ s.old = registry[h].type
      /\ s \notin UpdateStates
  BY <1>1, <1>4, RecordFacts DEF EditStates, DeleteStates, UpdateStates, Hook!Resting
<1>6. CopiesAgree'
  BY <1>2, <1>3, <1>5, EditCopies, CopiesHere
<1>7. h \notin torn' => h \notin torn /\ Hook!Editing(h) = {}
  BY <1>2
<1>8. h \notin torn' => StageOK(h, s)'
  <2> SUFFICES ASSUME h \notin torn' PROVE StageOK(h, s)'
    OBVIOUS
  <2>1. Settled(h)
    BY <1>7 DEF HooksStrong, EditOK
  <2>2. ListedAs(h, registry[h].type)'
    BY <1>2, <2>1 DEF Settled, ListedAs
  <2> QED
    BY <1>2, <1>5, <2>2 DEF StageOK
<1>9. /\ torn \subseteq torn' /\ torn' \subseteq torn \cup {h}
      /\ registry' \in [HookIds -> Hook!HookRecords \cup {Nothing}]
      /\ listed' \in [Hook!Types -> SUBSET HookIds] /\ hookMishaps' \in 0 .. MaxMishaps
      /\ \A g \in HookIds \ {h} : registry'[g] = registry[g]
      /\ \A g \in HookIds \ {h} : \A t \in Hook!Types : g \in listed'[t] <=> g \in listed[t]
  BY <1>2 DEF HooksStrong, HookTypes
<1> QED
  BY <1>2, <1>3, <1>5, <1>6, <1>7, <1>8, <1>9, EditStep

\* ...deletes the key...
LEMMA DeleteKeys ==
  ASSUME Hook!HooksAssumption, HooksStrong, NEW e \in Calls, Hook!DeleteKey(e)
  PROVE  HooksStrong'
<1>1. PICK s : s = [editor[e] EXCEPT !.at = "leave"]
  OBVIOUS
<1>2. /\ editor[e].at = "delete" /\ editor' = [editor EXCEPT ![e] = s]
      /\ registry' = [registry EXCEPT ![editor[e].id] = Nothing]
      /\ UNCHANGED <<listed, delivery, torn, edits, hookMishaps>>
  BY <1>1 DEF Hook!DeleteKey, Hook!Becomes
<1>3. editor[e] # Hook!Resting /\ editor[e] \in EditStates
  BY <1>2 DEF Hook!Resting, HooksStrong, HookTypes
<1>4. editor[e] \in DeleteStates
  BY <1>2, <1>3, EditStateFacts
<1>5. PICK h : h = editor[e].id
  OBVIOUS
<1>6. h \in HookIds
  BY <1>4, <1>5 DEF DeleteStates
<1>7. /\ s.at = "leave" /\ s.id = h /\ s.old = editor[e].old
      /\ s # Hook!Resting /\ s \in EditStates /\ s \notin UpdateStates
  BY <1>1, <1>4, <1>5 DEF DeleteStates, UpdateStates, EditStates, Hook!Resting
<1>8. registry' = [registry EXCEPT ![h] = Nothing]
  BY <1>2, <1>5
<1>9. /\ registry' \in [HookIds -> Hook!HookRecords \cup {Nothing}]
      /\ registry'[h] = Nothing /\ \A g \in HookIds \ {h} : registry'[g] = registry[g]
  BY <1>6, <1>8 DEF HooksStrong, HookTypes
<1>10. ASSUME h \notin torn PROVE StageOK(h, s)'
  <2>1. ListedAs(h, s.old)
    BY <1>2, <1>3, <1>5, <1>7, <1>10, EditorFacts DEF StageOK
  <2> QED
    BY <1>2, <1>7, <1>9, <2>1 DEF StageOK, ListedAs
<1>11. /\ listed' \in [Hook!Types -> SUBSET HookIds]
       /\ \A g \in HookIds \ {h} : \A t \in Hook!Types : g \in listed'[t] <=> g \in listed[t]
  BY <1>2 DEF HooksStrong, HookTypes
<1> QED
  BY <1>2, <1>3, <1>5, <1>6, <1>7, <1>9, <1>10, <1>11, NextCommand

\* ...and takes the hook out of its set.
LEMMA LeaveTypes ==
  ASSUME Hook!HooksAssumption, HooksStrong, NEW e \in Calls, Hook!LeaveType(e)
  PROVE  HooksStrong'
<1>1. /\ editor[e].at = "leave" /\ editor' = [editor EXCEPT ![e] = Hook!Resting]
      /\ listed' = [listed EXCEPT ![editor[e].old] = listed[editor[e].old] \ {editor[e].id}]
      /\ UNCHANGED <<registry, delivery, torn, edits, hookMishaps>>
  BY DEF Hook!LeaveType, Hook!Becomes
<1>2. editor[e] # Hook!Resting /\ editor[e] \in EditStates
  BY <1>1 DEF Hook!Resting, HooksStrong, HookTypes
<1>3. editor[e] \in DeleteStates
  BY <1>1, <1>2, EditStateFacts
<1>4. PICK h, t : h = editor[e].id /\ t = editor[e].old
  OBVIOUS
<1>5. h \in HookIds /\ t \in Hook!Types
  BY <1>3, <1>4 DEF DeleteStates
<1>6. /\ listed[t] \ {h} \in SUBSET HookIds
      /\ \A g \in HookIds \ {h} : g \in listed[t] \ {h} <=> g \in listed[t]
  BY <1>5 DEF HooksStrong, HookTypes
<1>7. listed' = [listed EXCEPT ![t] = listed[t] \ {h}]
  BY <1>1, <1>4
<1>8. /\ listed' \in [Hook!Types -> SUBSET HookIds]
      /\ listed'[t] = listed[t] \ {h} /\ \A u \in Hook!Types \ {t} : listed'[u] = listed[u]
      /\ \A g \in HookIds \ {h} : \A u \in Hook!Types : g \in listed'[u] <=> g \in listed[u]
  <2>1. PICK S : S = listed[t] \ {h}
    OBVIOUS
  <2>2. S \in SUBSET HookIds /\ \A g \in HookIds \ {h} : g \in S <=> g \in listed[t]
    BY <1>6, <2>1
  <2>3. listed' = [listed EXCEPT ![t] = S]
    BY <1>7, <2>1
  <2>4. /\ listed' \in [Hook!Types -> SUBSET HookIds]
        /\ listed'[t] = S /\ \A u \in Hook!Types \ {t} : listed'[u] = listed[u]
        /\ \A g \in HookIds \ {h} : \A u \in Hook!Types : g \in listed'[u] <=> g \in listed[u]
    BY ONLY HooksStrong, <1>5, <2>2, <2>3, SetOfType
  <2>5. QED
    BY <2>1, <2>4
<1>9. ASSUME h \notin torn PROVE Settled(h)'
  <2>1. registry[h] = Nothing /\ ListedAs(h, t)
    BY <1>1, <1>2, <1>4, <1>9, EditorFacts DEF StageOK
  <2> QED
    BY <1>1, <1>8, <2>1 DEF Settled, ListedAs
<1>10. /\ registry' \in [HookIds -> Hook!HookRecords \cup {Nothing}]
       /\ \A g \in HookIds \ {h} : registry'[g] = registry[g]
       /\ registry'[h] # Nothing => registry'[h] \in Copies
  BY <1>1, <1>5, CopiesHere DEF HooksStrong, HookTypes
<1>11. Hook!Resting \in EditStates /\ Hook!Resting \notin UpdateStates
  BY DEF EditStates, UpdateStates, Hook!Resting
<1> QED
  BY <1>1, <1>2, <1>4, <1>5, <1>8, <1>9, <1>10, <1>11, NextCommand

\* An edit dies and leaves its hook torn.
LEMMA DyingEdits ==
  ASSUME Hook!HooksAssumption, HooksStrong, NEW e \in Calls, Hook!EditDies(e)
  PROVE  HooksStrong'
<1>1. /\ editor[e] # Hook!Resting /\ editor' = [editor EXCEPT ![e] = Hook!Resting]
      /\ torn' = torn \cup {editor[e].id} /\ hookMishaps < MaxMishaps /\ hookMishaps' = hookMishaps + 1
      /\ UNCHANGED <<registry, listed, delivery, edits>>
  BY DEF Hook!EditDies, Hook!Becomes
<1>2. PICK h : h = editor[e].id
  OBVIOUS
<1>3. h \in HookIds /\ h \in torn' /\ torn \subseteq torn' /\ torn' \subseteq torn \cup {h}
  BY <1>1, <1>2, EditorFacts
<1>4. /\ edits' \in 0 .. MaxEdits /\ hookMishaps' \in 0 .. MaxMishaps /\ edits' \in Nat /\ edits' >= edits
  BY <1>1 DEF HooksStrong, HookTypes, Hook!HooksAssumption
<1>5. Hook!Resting \in EditStates /\ Hook!Resting \notin UpdateStates
  BY DEF EditStates, UpdateStates, Hook!Resting
<1>6. CopiesAgree'
  BY <1>1, <1>3, <1>4, <1>5, EditCopies, CopiesHere
<1>7. /\ registry' \in [HookIds -> Hook!HookRecords \cup {Nothing}]
      /\ listed' \in [Hook!Types -> SUBSET HookIds]
      /\ \A g \in HookIds \ {h} : registry'[g] = registry[g]
      /\ \A g \in HookIds \ {h} : \A t \in Hook!Types : g \in listed'[t] <=> g \in listed[t]
  BY <1>1 DEF HooksStrong, HookTypes
<1> QED
  BY <1>1, <1>2, <1>3, <1>4, <1>5, <1>6, <1>7, EditStep

\* A step of task k: a key that is written keeps its type, unless its hook is torn.
LEMMA TaskStep ==
  ASSUME Hook!HooksAssumption, HooksStrong, NEW k \in Deliveries, NEW j \in TaskStates,
         delivery' = [delivery EXCEPT ![k] = j],
         UNCHANGED <<listed, editor, edits, hookMishaps>>,
         registry' \in [HookIds -> Hook!HookRecords \cup {Nothing}],
         torn \subseteq torn', torn' \subseteq HookIds,
         \A g \in HookIds \ torn' :
           \/ registry'[g] = registry[g]
           \/ registry[g] # Nothing /\ registry'[g] # Nothing /\ registry'[g].type = registry[g].type,
         j \in HookTasks => j.hook \in Copies,
         \A g \in HookIds : registry'[g] # Nothing =>
           \E b \in Copies : registry'[g].edit = b.edit /\ registry'[g].type = b.type
  PROVE  HooksStrong'
<1>1. delivery' \in [Deliveries -> TaskStates] /\ delivery'[k] = j /\ \A i \in Deliveries \ {k} : delivery'[i] = delivery[i]
  BY DEF HooksStrong, HookTypes
<1>2. HookTypes'
  BY <1>1 DEF HooksStrong, HookTypes
<1>3. CopiesAgree'
  <2>1. \A b \in Copies : b.edit \in Nat
    BY CopiesAreRecords DEF HooksStrong
  <2>2. ASSUME NEW a \in Copies' PROVE \E b \in Copies : a.edit = b.edit /\ a.type = b.type
    <3>1. CASE \E g \in HookIds : registry'[g] # Nothing /\ a = registry'[g]
      BY <3>1
    <3>2. CASE \E i \in Deliveries : delivery'[i] \in HookTasks /\ a = delivery'[i].hook
      BY <1>1, <3>2, CopiesHere
    <3>3. CASE \E d \in Calls : editor[d] \in UpdateStates /\ a = editor[d].new
      BY <3>3, CopiesHere
    <3>4. HookTasks' = HookTasks /\ UpdateStates' = UpdateStates
      BY DEF HookTasks, UpdateStates, Hook!HookRecords, Hook!Types, Hook!ValidTypes
    <3> QED
      BY <3>1, <3>2, <3>3, <3>4 DEF Copies
  <2>3. edits' \in Nat /\ edits' >= edits
    BY DEF HooksStrong, HookTypes, Hook!HooksAssumption
  <2> QED
    BY <2>1, <2>2, <2>3, CopiesStay DEF HooksStrong
<1>4. ASSUME NEW g \in HookIds \ torn' PROVE EditOK(g)'
  <2>1. EditOK(g) /\ Hook!Editing(g)' = Hook!Editing(g)
    BY <1>4 DEF HooksStrong, Hook!Editing, Hook!Resting
  <2>2. \/ registry'[g] = registry[g]
        \/ registry[g] # Nothing /\ registry'[g] # Nothing /\ registry'[g].type = registry[g].type
    BY <1>4
  <2>3. \A d \in Hook!Editing(g) : StageOK(g, editor[d])'
    BY <2>1, <2>2 DEF EditOK, StageOK, ListedAs, Unlisted
  <2>4. Hook!Editing(g) = {} => Settled(g)'
    BY <2>1, <2>2 DEF EditOK, Settled
  <2> QED
    BY <2>1, <2>3, <2>4 DEF EditOK
<1> QED
  BY <1>2, <1>3, <1>4 DEF HooksStrong

\* A step of a task that leaves the keys as they are.
LEMMA QuietTask ==
  ASSUME Hook!HooksAssumption, HooksStrong, NEW k \in Deliveries, NEW j \in TaskStates,
         delivery' = [delivery EXCEPT ![k] = j],
         UNCHANGED <<registry, listed, editor, torn, edits, hookMishaps>>,
         j \in HookTasks => j.hook \in Copies
  PROVE  HooksStrong'
<1>1. /\ registry' \in [HookIds -> Hook!HookRecords \cup {Nothing}]
      /\ torn \subseteq torn' /\ torn' \subseteq HookIds
      /\ \A g \in HookIds \ torn' : registry'[g] = registry[g]
      /\ \A g \in HookIds : registry'[g] # Nothing => registry'[g] \in Copies
  BY CopiesHere DEF HooksStrong, HookTypes
<1> QED
  BY <1>1, TaskStep

\* asynq's decision about a task after an attempt.
LEMMA SettledTask ==
  ASSUME Hook!HooksAssumption, HooksStrong, NEW k \in Deliveries, delivery[k] # Nothing, NEW ok \in BOOLEAN,
         Hook!Settle(k, ok)
  PROVE  \E j \in TaskStates : /\ delivery' = [delivery EXCEPT ![k] = j]
                               /\ j \in HookTasks => delivery[k] \in HookTasks /\ j.hook = delivery[k].hook
<1>1. delivery[k] \in HookTasks \cup WebhookTasks
  BY DEF HooksStrong, HookTypes, TaskStates
<1>2. Nothing \in TaskStates /\ Nothing \notin HookTasks
  BY DEF TaskStates, HookTasks, Hook!HooksAssumption
<1>3. CASE ok \/ delivery[k].left = 0
  <2>1. delivery' = [delivery EXCEPT ![k] = Nothing]
    BY <1>3 DEF Hook!Settle
  <2> QED
    BY <1>2, <2>1
<1>4. CASE ~(ok \/ delivery[k].left = 0)
  <2>1. PICK j : j = [delivery[k] EXCEPT !.left = delivery[k].left - 1]
    OBVIOUS
  <2>2. delivery' = [delivery EXCEPT ![k] = j]
    BY <1>4, <2>1 DEF Hook!Settle
  <2>3. CASE delivery[k] \in HookTasks
    <3>1. delivery[k].left - 1 \in Nat
      BY <1>4, <2>3 DEF HookTasks
    <3>2. j \in HookTasks /\ j.hook = delivery[k].hook
      BY <2>1, <2>3, <3>1 DEF HookTasks
    <3> QED
      BY <2>2, <2>3, <3>2 DEF TaskStates
  <2>4. CASE delivery[k] \in WebhookTasks
    <3>1. delivery[k].left - 1 \in 0 .. DefaultRetries
      BY <1>4, <2>4 DEF WebhookTasks, Hook!HooksAssumption
    <3>2. j \in WebhookTasks
      BY <2>1, <2>4, <3>1 DEF WebhookTasks
    <3>3. j \notin HookTasks
      BY <3>2 DEF WebhookTasks, HookTasks, Hook!HooksAssumption
    <3> QED
      BY <2>2, <3>2, <3>3 DEF TaskStates
  <2> QED
    BY <1>1, <2>3, <2>4
<1> QED
  BY <1>3, <1>4

\* queueHook and SendWebhook enqueue a task.
LEMMA QueueHooks ==
  ASSUME Hook!HooksAssumption, HooksStrong, NEW k \in Deliveries,
         \/ \E h \in HookIds, t \in Hook!ValidTypes : Hook!QueueHook(k, h, t)
         \/ Hook!SendWebhook(k)
  PROVE  HooksStrong'
<1>1. ASSUME NEW h \in HookIds, NEW t \in Hook!ValidTypes, Hook!QueueHook(k, h, t) PROVE HooksStrong'
  <2>1. PICK j : j = [id |-> h, hook |-> registry[h], left |-> registry[h].retries]
    OBVIOUS
  <2>2. /\ registry[h] # Nothing /\ delivery' = [delivery EXCEPT ![k] = j]
        /\ UNCHANGED <<registry, listed, editor, torn, edits, hookMishaps>>
    BY <1>1, <2>1 DEF Hook!QueueHook, Hook!ListHooks
  <2>3. registry[h] \in Hook!HookRecords /\ registry[h] \in Copies
    BY <2>2, CopiesHere DEF HooksStrong, HookTypes
  <2>4. j \in HookTasks /\ j.hook = registry[h]
    BY <2>1, <2>3, RecordFacts DEF HookTasks
  <2> QED
    BY <2>2, <2>3, <2>4, QuietTask DEF TaskStates
<1>2. ASSUME Hook!SendWebhook(k) PROVE HooksStrong'
  <2>1. PICK j : j = [id |-> Nothing, hook |-> Nothing, left |-> DefaultRetries]
    OBVIOUS
  <2>2. /\ delivery' = [delivery EXCEPT ![k] = j]
        /\ UNCHANGED <<registry, listed, editor, torn, edits, hookMishaps>>
    BY <1>2, <2>1 DEF Hook!SendWebhook
  <2>3. j \in WebhookTasks /\ j \notin HookTasks
    BY <2>1 DEF WebhookTasks, HookTasks, Hook!HooksAssumption
  <2> QED
    BY <2>2, <2>3, QuietTask DEF TaskStates
<1> QED
  BY <1>1, <1>2

\* executeHook: the copy is from the last edit, or the hook is torn.
LEMMA ExecuteHooks ==
  ASSUME Hook!HooksAssumption, HooksStrong, NEW k \in Deliveries, NEW answer \in Hook!Answers,
         Hook!ExecuteHook(k, answer)
  PROVE  HooksStrong'
<1>1. PICK ok, h, c : ok = Hook!Succeeds(answer) /\ h = delivery[k].id /\ c = delivery[k].hook
  OBVIOUS
<1>2. PICK o : o = [c EXCEPT !.success = ok]
  OBVIOUS
<1>3. /\ delivery[k] # Nothing /\ h # Nothing /\ Hook!Settle(k, ok)
      /\ registry' = [registry EXCEPT ![h] = o]
      /\ torn' = IF registry[h] = Nothing \/ registry[h].edit # c.edit THEN torn \cup {h} ELSE torn
      /\ UNCHANGED <<listed, editor, edits, hookMishaps>>
  BY <1>1, <1>2 DEF Hook!ExecuteHook, Hook!UpdateHookStatus
<1>4. ok \in BOOLEAN
  BY <1>1 DEF Hook!Succeeds
<1>5. delivery[k] \in HookTasks
  BY <1>1, <1>3 DEF HooksStrong, HookTypes, TaskStates, WebhookTasks
<1>6. h \in HookIds /\ c \in Hook!HookRecords /\ c \in Copies
  BY <1>1, <1>5, CopiesHere DEF HookTasks
<1>7. o \in Hook!HookRecords /\ o.edit = c.edit /\ o.type = c.type /\ o # Nothing
  BY <1>2, <1>4, <1>6, OutcomeFacts, RecordFacts
<1>8. /\ registry' \in [HookIds -> Hook!HookRecords \cup {Nothing}]
      /\ registry'[h] = o /\ \A g \in HookIds \ {h} : registry'[g] = registry[g]
  BY <1>3, <1>6, <1>7 DEF HooksStrong, HookTypes
<1>9. h \notin torn' => registry[h] # Nothing /\ registry[h].type = o.type
  <2> SUFFICES ASSUME h \notin torn' PROVE registry[h] # Nothing /\ registry[h].type = o.type
    OBVIOUS
  <2>1. registry[h] # Nothing /\ registry[h].edit = c.edit
    BY <1>3
  <2>2. registry[h] \in Copies
    BY <1>6, <2>1, CopiesHere
  <2> QED
    BY <1>6, <1>7, <2>1, <2>2 DEF HooksStrong, CopiesAgree
<1>10. PICK j \in TaskStates : /\ delivery' = [delivery EXCEPT ![k] = j]
                               /\ j \in HookTasks => delivery[k] \in HookTasks /\ j.hook = delivery[k].hook
  BY <1>3, <1>4, SettledTask
<1>11. torn \subseteq torn' /\ torn' \subseteq HookIds
  BY <1>3, <1>6 DEF HooksStrong, HookTypes
<1>12. \A g \in HookIds \ torn' :
         \/ registry'[g] = registry[g]
         \/ registry[g] # Nothing /\ registry'[g] # Nothing /\ registry'[g].type = registry[g].type
  BY <1>7, <1>8, <1>9
<1>13. \A g \in HookIds : registry'[g] # Nothing =>
         \E b \in Copies : registry'[g].edit = b.edit /\ registry'[g].type = b.type
  BY <1>6, <1>7, <1>8, CopiesHere
<1>14. j \in HookTasks => j.hook \in Copies
  BY <1>1, <1>6, <1>10
<1> QED
  BY <1>3, <1>8, <1>10, <1>11, <1>12, <1>13, <1>14, TaskStep

\* An attempt that writes nothing.
LEMMA QuietAttempts ==
  ASSUME Hook!HooksAssumption, HooksStrong, NEW k \in Deliveries,
         Hook!ExecuteHookTimesOut(k) \/ \E ok \in BOOLEAN : Hook!ProcessWebhook(k, ok)
  PROVE  HooksStrong'
<1>1. PICK ok \in BOOLEAN : Hook!Settle(k, ok)
  BY DEF Hook!ExecuteHookTimesOut, Hook!ProcessWebhook
<1>2. delivery[k] # Nothing /\ UNCHANGED <<registry, listed, editor, torn, edits, hookMishaps>>
  BY DEF Hook!ExecuteHookTimesOut, Hook!ProcessWebhook
<1>3. PICK j \in TaskStates : /\ delivery' = [delivery EXCEPT ![k] = j]
                              /\ j \in HookTasks => delivery[k] \in HookTasks /\ j.hook = delivery[k].hook
  BY <1>1, <1>2, SettledTask
<1>4. j \in HookTasks => j.hook \in Copies
  BY <1>3, CopiesHere
<1> QED
  BY <1>2, <1>3, <1>4, QuietTask

\* HooksStrong is inductive.
LEMMA HooksNext ==
  ASSUME Hook!HooksAssumption, HooksStrong, [Hook!HookNext]_Hook!hookVars PROVE HooksStrong'
<1>1. CASE UNCHANGED Hook!hookVars
  <2>1. UNCHANGED <<registry, listed, editor, delivery, torn, edits, hookMishaps>>
    BY <1>1 DEF Hook!hookVars
  <2>2. HookTypes'
    BY <2>1 DEF HooksStrong, HookTypes
  <2>3. CopiesAgree'
    BY <2>1 DEF HooksStrong, CopiesAgree, Copies
  <2>4. \A h \in HookIds \ torn : EditOK(h)'
    BY <2>1 DEF HooksStrong, EditOK, StageOK, ListedAs, Unlisted, Settled, Hook!Editing
  <2> QED
    BY <2>1, <2>2, <2>3, <2>4 DEF HooksStrong
<1>2. ASSUME NEW e \in Calls, Hook!Edit(e) PROVE HooksStrong'
  BY <1>2, RegisterHooks, AddToTypes, UpdateHooks, RemoveFromTypes, JoinTypes, StoreHooks, DeleteHooks,
     DeleteKeys, LeaveTypes, DyingEdits DEF Hook!Edit
<1>3. ASSUME NEW k \in Deliveries, Hook!Deliver(k) PROVE HooksStrong'
  BY <1>3, QueueHooks, ExecuteHooks, QuietAttempts DEF Hook!Deliver
<1> QED
  BY <1>1, <1>2, <1>3 DEF Hook!HookNext

(***************************************************************************)
(* Search.  A document that is not made from its row as it is will be: the *)
(* row's current version waits in a task, with a worker, behind a metadata *)
(* update, or on the way of a reindex run, or else the row was missed or   *)
(* overtaken and is listed as such.  Paging by offset loses no row         *)
(* because rows only come in front of the offset.  Likewise the balance of *)
(* a transaction's document has a document, or a run is about to write it. *)
(***************************************************************************)
RunPhases == {"starting", "drop_balances", "drop_transactions", "create", "balances", "transactions", "done"}
RunStates == [status : {"none", "pending", "in_progress", "completed", "failed"}, phase : RunPhases,
              offset : Nat, page : Seq(Srch!Items)]

SearchTypes ==
  /\ table \in [Srch!Collections -> Seq(Srch!Ids)]
  /\ version \in [Srch!Ids -> 0 .. MaxVersion] /\ docs \in [Srch!Ids -> 0 .. MaxVersion]
  /\ unread \subseteq Balances
  /\ collection \subseteq Srch!Collections
  /\ indexer \in [Indexers -> [items : Seq(Srch!Items), left : Seq(Srch!Items)]]
  /\ run \in [Runs -> RunStates]
  /\ service \in Runs \cup {Nothing} /\ overtaken \subseteq Srch!Ids /\ early \subseteq Transfers
  /\ missed \subseteq Srch!Ids /\ broken \in BOOLEAN

\* The table has exactly the rows that exist.
RowsListed ==
  /\ \A c \in Srch!Collections : \A k \in 1 .. Len(table[c]) : Srch!CollectionOf(table[c][k]) = c
  /\ \A c \in Srch!Collections :
       Len(table[c]) = Cardinality({i \in Srch!Ids : Srch!CollectionOf(i) = c /\ version[i] > 0})
  /\ \A i \in Srch!Ids : version[i] > 0 <=>
       \E k \in 1 .. Len(table[Srch!CollectionOf(i)]) : table[Srch!CollectionOf(i)][k] = i

\* A transaction has a balance, and only rows that exist are updated.
TableOK ==
  /\ RowsListed
  /\ \A t \in Transfers : version[t] > 0 => version[BalanceOf[t]] > 0
  /\ \A b \in unread : version[b] > 0

\* Documents are made from rows, in collections that exist.
DocsOK ==
  /\ \A i \in Srch!Ids : docs[i] <= version[i]
  /\ \A i \in Srch!Ids : docs[i] > 0 => Srch!CollectionOf(i) \in collection

\* The item is a row as it was.
Was(a) == a \in Srch!Items /\ a.version <= version[a.id]

\* A task has a balance, and possibly a transaction after it.
TaskOK(q) ==
  \/ \E a : q = <<a>> /\ Was(a) /\ a.id \in Balances
  \/ \E a, b : q = <<a, b>> /\ Was(a) /\ Was(b) /\ b.id \in Transfers /\ a.id = BalanceOf[b.id]

RunOK(r) ==
  /\ run[r].phase \notin {"starting", "done"} => run[r].status = "in_progress"
  /\ run[r].status = "pending" => run[r].phase = "starting"
  /\ run[r].page # <<>> => run[r].phase \in Srch!Collections
  /\ run[r].phase \in Srch!Collections => run[r].offset <= Len(table[run[r].phase])
  /\ \A k \in 1 .. Len(run[r].page) :
       Was(run[r].page[k]) /\ Srch!CollectionOf(run[r].page[k].id) = run[r].phase

\* The phases after row i's documents are dropped and before they are written.
Before(i) == IF i \in Balances THEN {"drop_transactions", "create"} ELSE {"create", "balances"}

\* Run r has dropped row i's document and has yet to come to the row's page.
Ahead(r, i) ==
  \/ run[r].phase \in Before(i)
  \/ /\ run[r].phase = Srch!CollectionOf(i)
     /\ \E k \in 1 .. Len(table[run[r].phase]) : k > run[r].offset /\ table[run[r].phase][k] = i

\* Run r will write a document for row i; the one it will write is current.
WillWrite(r, i) == Ahead(r, i) \/ \E k \in 1 .. Len(run[r].page) : run[r].page[k].id = i
WillRenew(r, i) == Ahead(r, i) \/ \E k \in 1 .. Len(run[r].page) : run[r].page[k] = Srch!Item(i)

\* The balance has a document, or will have one again.
Safe(b) == docs[b] > 0 \/ \E r \in Runs : WillWrite(r, b)

\* The row as it is will be indexed.
Unindexed(i) ==
  \/ i \in unread
  \/ \E q \in sending \cup queue : \E k \in 1 .. Len(q) : q[k] = Srch!Item(i)
  \/ \E w \in Indexers : \E k \in 1 .. Len(indexer[w].left) : indexer[w].left[k] = Srch!Item(i)
  \/ \E r \in Runs : WillRenew(r, i)

IndexerOK(w) ==
  \/ indexer[w] = Srch!Busy
  \/ /\ TaskOK(indexer[w].items)
     /\ \/ indexer[w].left = indexer[w].items
        \/ \E a, b : indexer[w] = [items |-> <<a, b>>, left |-> <<b>>] /\ (~broken => Safe(a.id))

SearchStrong ==
  /\ SearchTypes /\ TableOK /\ DocsOK
  /\ \A q \in sending \cup queue : TaskOK(q)
  /\ \A w \in Indexers : IndexerOK(w)
  /\ \A r \in Runs : RunOK(r)
  /\ ~broken => \A i \in Srch!Ids \ (missed \cup overtaken) : version[i] > 0 => docs[i] = version[i] \/ Unindexed(i)
  /\ ~broken => \A t \in Transfers \ early : docs[t] > 0 => Safe(BalanceOf[t])

\* Cardinalities and finite sets of the instance.
LEMMA SearchCounts ==
  /\ \A S : Srch!Cardinality(S) = Cardinality(S)
  /\ \A S : Srch!IsFiniteSet(S) <=> IsFiniteSet(S)
BY DEF Srch!Cardinality, Cardinality, Srch!IsFiniteSet, IsFiniteSet

\* Ids and collections.
LEMMA CollectionFacts ==
  ASSUME Srch!SearchAssumption
  PROVE  /\ Srch!Collections = {"balances", "transactions"}
         /\ \A i \in Srch!Ids : Srch!CollectionOf(i) \in Srch!Collections
         /\ \A b \in Balances : b \in Srch!Ids /\ Srch!CollectionOf(b) = "balances" /\ b \notin Transfers
         /\ \A t \in Transfers : t \in Srch!Ids /\ Srch!CollectionOf(t) = "transactions" /\ t \notin Balances
         /\ \A t \in Transfers : BalanceOf[t] \in Balances
         /\ MaxVersion \in Nat /\ MaxVersion >= 1
BY DEF Srch!SearchAssumption, Srch!Collections, Srch!CollectionOf, Srch!Ids

\* SearchTypeOK and the two properties follow.
LEMMA SearchSummary ==
  ASSUME Srch!SearchAssumption, SearchStrong PROVE Srch!SearchInv
<1>1. Srch!SearchTypeOK
  <2>1. \A c \in Srch!Collections : \A k \in DOMAIN table[c] : Srch!CollectionOf(table[c][k]) = c
    <3> TAKE c \in Srch!Collections
    <3>1. table[c] \in Seq(Srch!Ids)
      BY DEF SearchStrong, SearchTypes
    <3>2. DOMAIN table[c] = 1 .. Len(table[c])
      BY <3>1
    <3> QED
      BY <3>2 DEF SearchStrong, TableOK, RowsListed
  <2>2. \A c \in Srch!Collections :
          Len(table[c]) = Srch!Cardinality({i \in Srch!Ids : Srch!CollectionOf(i) = c /\ version[i] > 0})
    BY SearchCounts DEF SearchStrong, TableOK, RowsListed
  <2>3. \A q \in sending \cup queue : \A k \in DOMAIN q : q[k] \in Srch!Items
    BY DEF SearchStrong, TaskOK, Was
  <2>4. \A w \in Indexers : Len(indexer[w].left) <= Len(indexer[w].items)
    <3> TAKE w \in Indexers
    <3>1. IndexerOK(w) /\ indexer[w].items \in Seq(Srch!Items)
      BY DEF SearchStrong, SearchTypes
    <3>2. Len(indexer[w].items) \in Nat
      BY <3>1
    <3>3. CASE indexer[w] = Srch!Busy
      BY <3>3 DEF Srch!Busy
    <3>4. CASE indexer[w].left = indexer[w].items
      BY <3>2, <3>4
    <3>5. ASSUME NEW a, NEW b, indexer[w] = [items |-> <<a, b>>, left |-> <<b>>]
          PROVE  Len(indexer[w].left) <= Len(indexer[w].items)
      <4>1. indexer[w].left = <<b>> /\ indexer[w].items = <<a, b>>
        BY <3>5
      <4>2. Len(<<b>>) = 1 /\ Len(<<a, b>>) = 2
        OBVIOUS
      <4> QED
        BY <4>1, <4>2
    <3> QED
      BY <3>1, <3>3, <3>4, <3>5 DEF IndexerOK
  <2> QED
    BY <2>1, <2>2, <2>3, <2>4 DEF SearchStrong, SearchTypes, DocsOK, Srch!SearchTypeOK, RunOK
<1>2. Srch!NoRunActive => \A r \in Runs, i \in Srch!Ids : ~WillWrite(r, i) /\ ~WillRenew(r, i)
  <2> SUFFICES ASSUME Srch!NoRunActive, NEW r \in Runs, NEW i \in Srch!Ids
               PROVE  ~WillWrite(r, i) /\ ~WillRenew(r, i)
    OBVIOUS
  <2>1. RunOK(r) /\ run[r].status # "in_progress" /\ run[r] \in RunStates
    BY DEF SearchStrong, SearchTypes, Srch!NoRunActive, Srch!Active
  <2>2. run[r].phase \in {"starting", "done"}
    BY <2>1 DEF RunOK
  <2>3. run[r].page = <<>>
    BY <2>1, <2>2, CollectionFacts DEF RunOK
  <2>4. ~Ahead(r, i)
    BY <2>2, CollectionFacts DEF Ahead, Before
  <2> QED
    BY <2>3, <2>4 DEF WillWrite, WillRenew
<1>3. Srch!IndexIsComplete
  <2> SUFFICES ASSUME Srch!Quiet, ~broken, NEW i \in Srch!Ids \ (missed \cup overtaken) PROVE docs[i] = version[i]
    BY DEF Srch!IndexIsComplete
  <2>1. ~Unindexed(i)
    BY <1>2 DEF Unindexed, Srch!Quiet, Srch!Busy
  <2>2. docs[i] <= version[i] /\ docs[i] \in Nat /\ version[i] \in Nat
    BY CollectionFacts DEF SearchStrong, SearchTypes, DocsOK
  <2> QED
    BY <2>1, <2>2 DEF SearchStrong
<1>4. Srch!ReferencesResolve
  <2> SUFFICES ASSUME Srch!NoRunActive, ~broken, NEW t \in Transfers \ early, docs[t] > 0
               PROVE  docs[BalanceOf[t]] > 0
    BY DEF Srch!ReferencesResolve
  <2>1. Safe(BalanceOf[t]) /\ BalanceOf[t] \in Srch!Ids
    BY CollectionFacts DEF SearchStrong
  <2> QED
    BY <1>2, <2>1 DEF Safe
<1> QED
  BY <1>1, <1>3, <1>4 DEF Srch!SearchInv

\* SearchStrong holds initially.
LEMMA SearchInitially == ASSUME Srch!SearchAssumption, Srch!SearchInit PROVE SearchStrong
<1>1. PICK s \in Starts :
        LET existing == {s.old[k] : k \in DOMAIN s.old}
        IN /\ table = [c \in Srch!Collections |-> IF c = "balances" THEN s.old ELSE <<>>]
           /\ version = [i \in Srch!Ids |-> IF i \in existing THEN MaxVersion ELSE 0]
           /\ unread = {} /\ sending = {} /\ queue = {}
           /\ indexer = [w \in Indexers |-> Srch!Busy]
           /\ collection = IF existing = {} THEN {} ELSE Srch!Collections
           /\ docs = version
           /\ run = [r \in Runs |-> IF r \in s.over
                                    THEN [Srch!NotStarted EXCEPT !.status = "completed", !.phase = "done"]
                                    ELSE Srch!NotStarted]
           /\ service = Nothing
           /\ missed = {} /\ overtaken = {} /\ early = {} /\ broken = FALSE /\ searchMishaps = 0
  BY DEF Srch!SearchInit
<1>2. PICK E : E = {s.old[k] : k \in DOMAIN s.old}
  OBVIOUS
<1>3. /\ s.old \in Seq(Balances) /\ DOMAIN s.old = 1 .. Len(s.old) /\ Len(s.old) = Cardinality(E)
      /\ E \subseteq Balances
  BY <1>2, SearchCounts DEF Srch!SearchAssumption
<1>4. /\ table["balances"] = s.old /\ table["transactions"] = <<>>
      /\ \A i \in Srch!Ids : version[i] = IF i \in E THEN MaxVersion ELSE 0
      /\ docs = version
  BY <1>1, <1>2, CollectionFacts
<1>5. \A r \in Runs : /\ run[r] \in RunStates /\ run[r].phase \in {"starting", "done"}
                      /\ run[r].status # "pending" /\ run[r].page = <<>>
  <2>1. /\ Srch!NotStarted \in RunStates /\ Srch!NotStarted.page = <<>> /\ Srch!NotStarted.phase = "starting"
        /\ Srch!NotStarted.status = "none"
    BY DEF Srch!NotStarted, RunStates, RunPhases
  <2>2. PICK o : o = [Srch!NotStarted EXCEPT !.status = "completed", !.phase = "done"]
    OBVIOUS
  <2>3. o \in RunStates /\ o.page = <<>> /\ o.phase = "done" /\ o.status = "completed"
    BY <2>1, <2>2 DEF RunStates, RunPhases
  <2>4. \A r \in Runs : run[r] = Srch!NotStarted \/ run[r] = o
    BY <1>1, <2>2
  <2> QED
    BY <2>1, <2>3, <2>4
<1>6. SearchTypes
  <2>1. Seq(Balances) \subseteq Seq(Srch!Ids)
    BY DEF Srch!Ids
  <2>2. table \in [Srch!Collections -> Seq(Srch!Ids)]
    BY <1>1, <1>3, <2>1
  <2>3. version \in [Srch!Ids -> 0 .. MaxVersion]
    BY <1>1, CollectionFacts
  <2>4. indexer \in [Indexers -> [items : Seq(Srch!Items), left : Seq(Srch!Items)]]
    BY <1>1 DEF Srch!Busy
  <2>5. run \in [Runs -> RunStates]
    BY <1>1, <1>5
  <2>6. collection \subseteq Srch!Collections /\ broken \in BOOLEAN
    BY <1>1
  <2> QED
    BY <1>1, <2>2, <2>3, <2>4, <2>5, <2>6 DEF SearchTypes
<1>7. TableOK
  <2>1. \A c \in Srch!Collections : \A k \in 1 .. Len(table[c]) : Srch!CollectionOf(table[c][k]) = c
    BY <1>3, <1>4, CollectionFacts
  <2>2. {i \in Srch!Ids : Srch!CollectionOf(i) = "balances" /\ version[i] > 0} = E
    BY <1>3, <1>4, CollectionFacts
  <2>3. {i \in Srch!Ids : Srch!CollectionOf(i) = "transactions" /\ version[i] > 0} = {}
    BY <1>3, <1>4, CollectionFacts
  <2>4. Len(<<>>) = 0 /\ Cardinality({}) = 0
    BY FS_EmptySet
  <2>5. \A c \in Srch!Collections :
          Len(table[c]) = Cardinality({i \in Srch!Ids : Srch!CollectionOf(i) = c /\ version[i] > 0})
    <3> TAKE c \in Srch!Collections
    <3>1. CASE c = "balances"
      <4>1. {i \in Srch!Ids : Srch!CollectionOf(i) = c /\ version[i] > 0} = E
        BY <2>2, <3>1
      <4> QED
        BY <1>3, <1>4, <3>1, <4>1
    <3>2. CASE c = "transactions"
      <4>1. {i \in Srch!Ids : Srch!CollectionOf(i) = c /\ version[i] > 0} = {}
        BY <2>3, <3>2
      <4> QED
        BY <1>4, <2>4, <3>2, <4>1
    <3> QED
      BY <3>1, <3>2, CollectionFacts
  <2>6. \A i \in Srch!Ids : version[i] > 0 <=>
          \E k \in 1 .. Len(table[Srch!CollectionOf(i)]) : table[Srch!CollectionOf(i)][k] = i
    <3> TAKE i \in Srch!Ids
    <3>1. CASE i \in Balances
      <4>1. version[i] > 0 <=> i \in E
        BY <1>4, CollectionFacts
      <4>2. i \in E <=> \E k \in 1 .. Len(s.old) : s.old[k] = i
        BY <1>2, <1>3
      <4>3. table[Srch!CollectionOf(i)] = s.old
        BY <1>4, <3>1, CollectionFacts
      <4> QED
        BY <4>1, <4>2, <4>3
    <3>2. CASE i \in Transfers
      BY <1>3, <1>4, <2>4, <3>2, CollectionFacts
    <3> QED
      BY <3>1, <3>2 DEF Srch!Ids
  <2>7. \A t \in Transfers : ~(version[t] > 0)
    BY <1>3, <1>4, CollectionFacts
  <2> QED
    BY <1>1, <2>1, <2>5, <2>6, <2>7 DEF TableOK, RowsListed
<1>8. DocsOK
  <2>1. \A i \in Srch!Ids : docs[i] > 0 => i \in E
    BY <1>4
  <2>2. E # {} => collection = Srch!Collections
    BY <1>1, <1>2
  <2>3. \A i \in Srch!Ids : docs[i] <= version[i]
    BY <1>4, CollectionFacts
  <2> QED
    BY <2>1, <2>2, <2>3, CollectionFacts DEF DocsOK
<1>9. \A r \in Runs : RunOK(r)
  BY <1>5, CollectionFacts DEF RunOK
<1>10. /\ \A w \in Indexers : IndexerOK(w)
       /\ \A q \in sending \cup queue : TaskOK(q)
       /\ \A i \in Srch!Ids : docs[i] = version[i]
  BY <1>1 DEF IndexerOK
<1>11. \A t \in Transfers : ~(docs[t] > 0)
  BY <1>3, <1>4, CollectionFacts
<1> QED
  BY <1>6, <1>7, <1>8, <1>9, <1>10, <1>11 DEF SearchStrong

\* A step of the database: rows come to the front of the tables, versions
\* grow, and what has changed is queued or will be, or is missed.
LEMMA DatabaseStep ==
  ASSUME Srch!SearchAssumption, SearchStrong,
         UNCHANGED <<indexer, collection, docs, overtaken, early, broken, run, service>>,
         table' \in [Srch!Collections -> Seq(Srch!Ids)],
         version' \in [Srch!Ids -> 0 .. MaxVersion], \A i \in Srch!Ids : version'[i] >= version[i],
         \A c \in Srch!Collections : \E d \in {0, 1} :
           /\ Len(table'[c]) = Len(table[c]) + d
           /\ \A k \in 1 .. Len(table[c]) : table'[c][k + d] = table[c][k],
         TableOK', unread' \subseteq Balances,
         missed' \subseteq Srch!Ids, missed \subseteq missed',
         \A q \in (sending \cup queue)' \ (sending \cup queue) : TaskOK(q)',
         \A i \in Srch!Ids \ missed' :
           \/ version'[i] # version[i] \/ i \in unread
           \/ \E q \in sending \cup queue : \E k \in 1 .. Len(q) : q[k] = Srch!Item(i)
           => i \in unread' \/ \E q \in (sending \cup queue)' : \E k \in 1 .. Len(q) : q[k] = Srch!Item(i)'
  PROVE  SearchStrong'
<1>1. Srch!Items' = Srch!Items /\ RunStates' = RunStates /\ Srch!Busy' = Srch!Busy
  BY DEF Srch!Items, RunStates, Srch!Ids, Srch!Busy, RunPhases
<1>2. SearchTypes'
  BY <1>1 DEF SearchStrong, SearchTypes
<1>3. \A i \in Srch!Ids : version[i] \in Nat /\ version'[i] \in Nat /\ docs[i] \in Nat
  BY CollectionFacts DEF SearchStrong, SearchTypes
<1>4. ASSUME NEW a, Was(a) PROVE Was(a)'
  <2>1. a.id \in Srch!Ids /\ a.version \in Nat
    BY <1>4 DEF Was, Srch!Items
  <2> QED
    BY <1>1, <1>3, <1>4, <2>1 DEF Was
<1>5. ASSUME NEW q, TaskOK(q) PROVE TaskOK(q)'
  BY <1>4, <1>5 DEF TaskOK
<1>6. \A c \in Srch!Collections : Len(table[c]) \in Nat /\ Len(table'[c]) \in Nat
  BY DEF SearchStrong, SearchTypes
<1>7. ASSUME NEW r \in Runs, NEW i \in Srch!Ids, Ahead(r, i) PROVE Ahead(r, i)'
  <2>1. CASE run[r].phase \in Before(i)
    BY <2>1 DEF Ahead, Before
  <2>2. CASE run[r].phase = Srch!CollectionOf(i)
    <3>1. PICK c : c = run[r].phase
      OBVIOUS
    <3>2. c \in Srch!Collections /\ run[r].offset \in Nat
      BY <2>2, <3>1, CollectionFacts DEF SearchStrong, SearchTypes, RunStates
    <3>3. CASE run[r].phase \notin Before(i)
      <4>1. PICK k \in 1 .. Len(table[c]) : k > run[r].offset /\ table[c][k] = i
        BY <1>7, <3>1, <3>3 DEF Ahead
      <4>2. PICK d \in {0, 1} : /\ Len(table'[c]) = Len(table[c]) + d
                                /\ \A j \in 1 .. Len(table[c]) : table'[c][j + d] = table[c][j]
        BY <3>2
      <4>3. k + d \in 1 .. Len(table'[c]) /\ k + d > run[r].offset /\ table'[c][k + d] = i
        <5>1. Len(table[c]) \in Nat /\ k \in Nat /\ d \in Nat
          BY <1>6, <3>2
        <5>2. k + d \in 1 .. Len(table'[c]) /\ k + d > run[r].offset
          BY ONLY <3>2, <4>1, <4>2, <5>1
        <5>3. table'[c][k + d] = table[c][k]
          BY <4>2
        <5> QED
          BY <4>1, <5>2, <5>3
      <4>4. run'[r].phase = c /\ Srch!CollectionOf(i)' = c /\ run'[r].offset = run[r].offset
        BY <2>2, <3>1 DEF Srch!CollectionOf
      <4> QED
        BY <4>3, <4>4 DEF Ahead
    <3> QED
      BY <2>1, <3>3
  <2> QED
    BY <1>7, <2>1, <2>2 DEF Ahead
<1>8. ASSUME NEW r \in Runs, NEW i \in Srch!Ids, WillWrite(r, i) PROVE WillWrite(r, i)'
  BY <1>7, <1>8 DEF WillWrite
<1>9. ASSUME NEW b \in Srch!Ids, Safe(b) PROVE Safe(b)'
  BY <1>8, <1>9 DEF Safe
<1>10. ASSUME NEW r \in Runs PROVE RunOK(r)'
  <2>1. RunOK(r) /\ run[r] \in RunStates
    BY DEF SearchStrong, SearchTypes
  <2>2. run[r].phase \in Srch!Collections => run[r].offset <= Len(table'[run[r].phase])
    <3> SUFFICES ASSUME run[r].phase \in Srch!Collections PROVE run[r].offset <= Len(table'[run[r].phase])
      OBVIOUS
    <3>1. PICK d \in {0, 1} : Len(table'[run[r].phase]) = Len(table[run[r].phase]) + d
      OBVIOUS
    <3>2. run[r].offset \in Nat /\ run[r].offset <= Len(table[run[r].phase])
      BY <2>1 DEF RunOK, RunStates
    <3> QED
      BY <1>6, <3>1, <3>2
  <2> QED
    BY <1>4, <2>1, <2>2 DEF RunOK, Srch!Collections, Srch!CollectionOf
<1>11. ASSUME NEW w \in Indexers PROVE IndexerOK(w)'
  <2>1. IndexerOK(w)
    BY DEF SearchStrong
  <2>2. ASSUME NEW a, NEW b, indexer[w] = [items |-> <<a, b>>, left |-> <<b>>], TaskOK(indexer[w].items),
               ~broken => Safe(a.id)
        PROVE  ~broken => Safe(a.id)'
    <3>1. indexer[w].items = <<a, b>>
      BY <2>2
    <3>2. a.id \in Srch!Ids
      <4>1. CASE \E x : <<a, b>> = <<x>>
        BY <4>1
      <4>2. CASE \E x, y : <<a, b>> = <<x, y>> /\ Was(x)
        BY <4>2 DEF Was, Srch!Items
      <4> QED
        BY <2>2, <3>1, <4>1, <4>2 DEF TaskOK
    <3> QED
      BY <1>9, <2>2, <3>2
  <2> QED
    BY <1>1, <1>5, <2>1, <2>2 DEF IndexerOK
<1>12. DocsOK'
  BY <1>3 DEF SearchStrong, DocsOK, Srch!CollectionOf
<1>13. ASSUME ~broken, NEW i \in Srch!Ids \ (missed' \cup overtaken), version'[i] > 0
       PROVE  docs'[i] = version'[i] \/ Unindexed(i)'
  <2>1. CASE \/ version'[i] # version[i] \/ i \in unread
             \/ \E q \in sending \cup queue : \E k \in 1 .. Len(q) : q[k] = Srch!Item(i)
    BY <2>1, <1>13 DEF Unindexed
  <2>2. CASE /\ version'[i] = version[i] /\ i \notin unread
             /\ ~\E q \in sending \cup queue : \E k \in 1 .. Len(q) : q[k] = Srch!Item(i)
    <3>1. Srch!Item(i)' = Srch!Item(i)
      BY <2>2 DEF Srch!Item
    <3>2. \A r \in Runs : WillRenew(r, i) => WillRenew(r, i)'
      BY <1>7, <3>1 DEF WillRenew
    <3>3. docs[i] = version[i] \/ Unindexed(i)
      BY <1>13, <2>2 DEF SearchStrong
    <3> QED
      BY <2>2, <3>1, <3>2, <3>3 DEF Unindexed
  <2> QED
    BY <2>1, <2>2
<1>14. ASSUME ~broken, NEW t \in Transfers \ early, docs[t] > 0 PROVE Safe(BalanceOf[t])'
  BY <1>9, <1>14, CollectionFacts DEF SearchStrong
<1>15. \A q \in (sending \cup queue)' : TaskOK(q)'
  BY <1>5 DEF SearchStrong
<1> QED
  BY <1>2, <1>10, <1>11, <1>12, <1>13, <1>14, <1>15 DEF SearchStrong

\* A new row comes to the front of its table.
LEMMA NewRow ==
  ASSUME Srch!SearchAssumption, SearchStrong, NEW x \in Srch!Ids, NEW c, c = Srch!CollectionOf(x),
         ~(version[x] > 0), table' = [table EXCEPT ![c] = <<x>> \o table[c]],
         version' \in [Srch!Ids -> 0 .. MaxVersion], version'[x] > 0,
         \A i \in Srch!Ids \ {x} : version'[i] > 0 <=> version[i] > 0
  PROVE  /\ table' \in [Srch!Collections -> Seq(Srch!Ids)]
         /\ \A e \in Srch!Collections : \E d \in {0, 1} :
              /\ Len(table'[e]) = Len(table[e]) + d
              /\ \A k \in 1 .. Len(table[e]) : table'[e][k + d] = table[e][k]
         /\ RowsListed'
<1>1. c \in Srch!Collections /\ table \in [Srch!Collections -> Seq(Srch!Ids)]
  BY CollectionFacts DEF SearchStrong, SearchTypes
<1>2. PICK s : s = table[c]
  OBVIOUS
<1>3. s \in Seq(Srch!Ids) /\ Len(s) \in Nat
  BY <1>1, <1>2
<1>4. PICK z : z = <<x>> \o s
  OBVIOUS
<1>5. /\ z \in Seq(Srch!Ids) /\ Len(z) = Len(s) + 1 /\ z[1] = x
      /\ \A k \in 1 .. Len(s) : z[k + 1] = s[k]
  BY <1>3, <1>4
<1>6. table'[c] = z /\ \A e \in Srch!Collections \ {c} : table'[e] = table[e]
  BY <1>1, <1>2, <1>4
<1>7. table' \in [Srch!Collections -> Seq(Srch!Ids)]
  BY <1>1, <1>2, <1>4, <1>5
<1>8. ASSUME NEW e \in Srch!Collections
      PROVE  \E d \in {0, 1} : /\ Len(table'[e]) = Len(table[e]) + d
                               /\ \A k \in 1 .. Len(table[e]) : table'[e][k + d] = table[e][k]
  <2>1. CASE e = c
    BY <1>2, <1>5, <1>6, <2>1
  <2>2. CASE e # c
    <3>1. table'[e] = table[e] /\ Len(table[e]) \in Nat
      BY <1>1, <1>6, <2>2
    <3>2. Len(table'[e]) = Len(table[e]) + 0 /\ \A k \in 1 .. Len(table[e]) : table'[e][k + 0] = table[e][k]
      <4>1. Len(table[e]) + 0 = Len(table[e]) /\ \A k \in 1 .. Len(table[e]) : k + 0 = k
        BY <3>1
      <4> QED
        BY <3>1, <4>1
    <3> QED
      BY <3>2
  <2> QED
    BY <2>1, <2>2
<1>9. \A i \in Srch!Ids : Srch!CollectionOf(i)' = Srch!CollectionOf(i)
  BY DEF Srch!CollectionOf
<1>10. \A k \in 1 .. Len(z) : z[k] = x \/ \E j \in 1 .. Len(s) : z[k] = s[j]
  <2> TAKE k \in 1 .. Len(z)
  <2>1. CASE k = 1
    BY <1>5, <2>1
  <2>2. CASE k # 1
    <3>1. k - 1 \in 1 .. Len(s) /\ (k - 1) + 1 = k
      BY <1>3, <1>5, <2>2
    <3> QED
      BY <1>5, <3>1
  <2> QED
    BY <2>1, <2>2
<1>11. \A e \in Srch!Collections : \A k \in 1 .. Len(table'[e]) : Srch!CollectionOf(table'[e][k]) = e
  <2> TAKE e \in Srch!Collections
  <2>1. CASE e = c
    <3>1. \A j \in 1 .. Len(s) : Srch!CollectionOf(s[j]) = c
      BY <1>1, <1>2 DEF SearchStrong, TableOK, RowsListed
    <3>2. \A k \in 1 .. Len(z) : Srch!CollectionOf(z[k]) = c
      BY <1>10, <3>1
    <3> QED
      BY <1>6, <2>1, <3>2
  <2>2. CASE e # c
    BY <1>6, <2>2 DEF SearchStrong, TableOK, RowsListed
  <2> QED
    BY <2>1, <2>2
<1>12. \A e \in Srch!Collections :
         Len(table'[e]) = Cardinality({i \in Srch!Ids : Srch!CollectionOf(i) = e /\ version'[i] > 0})
  <2> TAKE e \in Srch!Collections
  <2>1. PICK S : S = {i \in Srch!Ids : Srch!CollectionOf(i) = e /\ version[i] > 0}
    OBVIOUS
  <2>2. Len(table[e]) = Cardinality(S)
    BY <2>1 DEF SearchStrong, TableOK, RowsListed
  <2>3. IsFiniteSet(S)
    <3>1. IsFiniteSet(Srch!Ids)
      BY FS_Union, SearchCounts DEF Srch!SearchAssumption, Srch!Ids
    <3> QED
      BY <2>1, <3>1, FS_Subset
  <2>4. CASE e = c
    <3>1. {i \in Srch!Ids : Srch!CollectionOf(i) = e /\ version'[i] > 0} = S \cup {x} /\ x \notin S
      BY <2>1, <2>4
    <3>2. Cardinality(S \cup {x}) = Cardinality(S) + 1
      BY <2>3, <3>1, FS_AddElement
    <3> QED
      BY <1>2, <1>5, <1>6, <2>2, <2>4, <3>1, <3>2
  <2>5. CASE e # c
    <3>1. {i \in Srch!Ids : Srch!CollectionOf(i) = e /\ version'[i] > 0} = S
      BY <2>1, <2>5
    <3> QED
      BY <1>6, <2>2, <2>5, <3>1
  <2> QED
    BY <2>4, <2>5
<1>13. \A i \in Srch!Ids : version'[i] > 0 <=>
         \E k \in 1 .. Len(table'[Srch!CollectionOf(i)]) : table'[Srch!CollectionOf(i)][k] = i
  <2> TAKE i \in Srch!Ids
  <2>1. CASE i = x
    <3>1. 1 \in 1 .. Len(z)
      BY <1>3, <1>5
    <3> QED
      BY <1>5, <1>6, <2>1, <3>1
  <2>2. CASE i # x /\ Srch!CollectionOf(i) = c
    <3>1. version[i] > 0 <=> \E k \in 1 .. Len(s) : s[k] = i
      BY <1>2, <2>2 DEF SearchStrong, TableOK, RowsListed
    <3>2. (\E k \in 1 .. Len(s) : s[k] = i) => \E k \in 1 .. Len(z) : z[k] = i
      <4> SUFFICES ASSUME NEW k \in 1 .. Len(s), s[k] = i PROVE \E j \in 1 .. Len(z) : z[j] = i
        OBVIOUS
      <4>1. k + 1 \in 1 .. Len(z)
        BY <1>3, <1>5
      <4> QED
        BY <1>5, <4>1
    <3>3. (\E k \in 1 .. Len(z) : z[k] = i) => \E k \in 1 .. Len(s) : s[k] = i
      BY <1>10, <2>2
    <3> QED
      BY <1>6, <2>2, <3>1, <3>2, <3>3
  <2>3. CASE i # x /\ Srch!CollectionOf(i) # c
    <3>1. table'[Srch!CollectionOf(i)] = table[Srch!CollectionOf(i)]
      BY <1>6, <2>3, CollectionFacts
    <3> QED
      BY <2>3, <3>1 DEF SearchStrong, TableOK, RowsListed
  <2> QED
    BY <2>1, <2>2, <2>3
<1>14. RowsListed'
  BY <1>9, <1>11, <1>12, <1>13 DEF RowsListed, Srch!CollectionOf
<1> QED
  BY <1>7, <1>8, <1>14

\* The rows that exist stay where they are.
LEMMA SameRows ==
  ASSUME Srch!SearchAssumption, SearchStrong, UNCHANGED table,
         \A i \in Srch!Ids : version'[i] > 0 <=> version[i] > 0
  PROVE  /\ table' \in [Srch!Collections -> Seq(Srch!Ids)]
         /\ \A e \in Srch!Collections : \E d \in {0, 1} :
              /\ Len(table'[e]) = Len(table[e]) + d
              /\ \A k \in 1 .. Len(table[e]) : table'[e][k + d] = table[e][k]
         /\ RowsListed'
<1>1. ASSUME NEW e \in Srch!Collections
      PROVE  \E d \in {0, 1} : /\ Len(table'[e]) = Len(table[e]) + d
                               /\ \A k \in 1 .. Len(table[e]) : table'[e][k + d] = table[e][k]
  <2>1. Len(table[e]) \in Nat
    BY DEF SearchStrong, SearchTypes
  <2>2. Len(table[e]) + 0 = Len(table[e]) /\ \A k \in 1 .. Len(table[e]) : k + 0 = k
    BY <2>1
  <2>3. Len(table'[e]) = Len(table[e]) + 0 /\ \A k \in 1 .. Len(table[e]) : table'[e][k + 0] = table[e][k]
    BY <2>2
  <2> QED
    BY <2>3
<1>2. \A c \in Srch!Collections :
        {i \in Srch!Ids : Srch!CollectionOf(i) = c /\ version'[i] > 0}
          = {i \in Srch!Ids : Srch!CollectionOf(i) = c /\ version[i] > 0}
  OBVIOUS
<1>3. RowsListed'
  BY <1>2 DEF SearchStrong, TableOK, RowsListed, Srch!CollectionOf, Srch!Collections
<1> QED
  BY <1>1, <1>3 DEF SearchStrong, SearchTypes

\* One version changes.
LEMMA NewVersion ==
  ASSUME Srch!SearchAssumption, SearchStrong, NEW b \in Srch!Ids, NEW v \in 1 .. MaxVersion, v > version[b],
         version' = [version EXCEPT ![b] = v]
  PROVE  /\ version' \in [Srch!Ids -> 0 .. MaxVersion] /\ version'[b] = v
         /\ \A i \in Srch!Ids \ {b} : version'[i] = version[i]
         /\ \A i \in Srch!Ids : version'[i] >= version[i]
<1>1. version \in [Srch!Ids -> 0 .. MaxVersion] /\ MaxVersion \in Nat
  BY CollectionFacts DEF SearchStrong, SearchTypes
<1>2. version'[b] = v /\ \A i \in Srch!Ids \ {b} : version'[i] = version[i]
  BY <1>1
<1>3. version' \in [Srch!Ids -> 0 .. MaxVersion]
  BY <1>1
<1>4. \A i \in Srch!Ids : version[i] \in Int
  BY <1>1
<1> QED
  BY <1>2, <1>3, <1>4

\* A balance is created.
LEMMA CreateBalanceSearch ==
  ASSUME Srch!SearchAssumption, SearchStrong, NEW b \in Balances, Srch!CreateBalance(b) PROVE SearchStrong'
<1>1. PICK a : a = [id |-> b, version |-> 1]
  OBVIOUS
<1>2. /\ version[b] = 0 /\ version' = [version EXCEPT ![b] = 1]
      /\ table' = [table EXCEPT !["balances"] = <<b>> \o table["balances"]]
      /\ sending' = sending \cup {<<a>>}
      /\ UNCHANGED <<unread, queue, missed, indexer, collection, docs, overtaken, early, broken, run, service>>
  BY <1>1 DEF Srch!CreateBalance, Srch!indexVars, Srch!runVars
<1>3. b \in Srch!Ids /\ Srch!CollectionOf(b) = "balances" /\ 1 \in 1 .. MaxVersion /\ 1 > version[b]
  BY <1>2, CollectionFacts
<1>4. /\ version' \in [Srch!Ids -> 0 .. MaxVersion] /\ version'[b] = 1
      /\ \A i \in Srch!Ids \ {b} : version'[i] = version[i]
      /\ \A i \in Srch!Ids : version'[i] >= version[i]
  BY <1>2, <1>3, NewVersion
<1>5. /\ table' \in [Srch!Collections -> Seq(Srch!Ids)]
      /\ \A e \in Srch!Collections : \E d \in {0, 1} :
           /\ Len(table'[e]) = Len(table[e]) + d
           /\ \A k \in 1 .. Len(table[e]) : table'[e][k + d] = table[e][k]
      /\ RowsListed'
  <2>1. PICK c : c = "balances"
    OBVIOUS
  <2>2. /\ c = Srch!CollectionOf(b) /\ ~(version[b] > 0) /\ version'[b] > 0
        /\ table' = [table EXCEPT ![c] = <<b>> \o table[c]]
        /\ \A i \in Srch!Ids \ {b} : version'[i] > 0 <=> version[i] > 0
    BY <1>2, <1>3, <1>4, <2>1
  <2> QED
    BY <1>3, <1>4, <2>2, NewRow
<1>6. TableOK'
  <2>1. \A t \in Transfers : t \in Srch!Ids \ {b} /\ BalanceOf[t] \in Srch!Ids
    BY CollectionFacts
  <2>2. unread \subseteq Srch!Ids
    BY CollectionFacts DEF SearchStrong, SearchTypes
  <2> QED
    BY <1>2, <1>4, <1>5, <2>1, <2>2 DEF SearchStrong, TableOK
<1>7. TaskOK(<<a>>)'
  <2>1. Was(a)'
    BY <1>1, <1>3, <1>4 DEF Was, Srch!Items
  <2>2. a.id \in Balances
    BY <1>1
  <2> QED
    BY <2>1, <2>2 DEF TaskOK
<1>8. a = Srch!Item(b)' /\ \E k \in 1 .. Len(<<a>>) : <<a>>[k] = a
  BY <1>1, <1>4 DEF Srch!Item
<1>9. \A i \in Srch!Ids \ missed' :
        \/ version'[i] # version[i] \/ i \in unread
        \/ \E q \in sending \cup queue : \E k \in 1 .. Len(q) : q[k] = Srch!Item(i)
        => i \in unread' \/ \E q \in (sending \cup queue)' : \E k \in 1 .. Len(q) : q[k] = Srch!Item(i)'
  BY <1>2, <1>4, <1>8 DEF Srch!Item
<1>10. /\ unread' \subseteq Balances /\ missed' \subseteq Srch!Ids /\ missed \subseteq missed'
       /\ \A q \in (sending \cup queue)' \ (sending \cup queue) : TaskOK(q)'
  BY <1>2, <1>7 DEF SearchStrong, SearchTypes
<1> QED
  BY <1>2, <1>4, <1>5, <1>6, <1>9, <1>10, DatabaseStep

\* A metadata update writes the row...
LEMMA UpdateMetadataSearch ==
  ASSUME Srch!SearchAssumption, SearchStrong, NEW b \in Balances, Srch!UpdateMetadata(b) PROVE SearchStrong'
<1>1. /\ version[b] \in 1 .. MaxVersion - 1 /\ version' = [version EXCEPT ![b] = version[b] + 1]
      /\ unread' = unread \cup {b}
      /\ UNCHANGED <<table, sending, queue, missed, indexer, collection, docs, overtaken, early, broken, run, service>>
  BY DEF Srch!UpdateMetadata, Srch!indexVars, Srch!runVars
<1>2. b \in Srch!Ids /\ version[b] + 1 \in 1 .. MaxVersion /\ version[b] + 1 > version[b] /\ version[b] > 0
  BY <1>1, CollectionFacts
<1>3. /\ version' \in [Srch!Ids -> 0 .. MaxVersion] /\ version'[b] = version[b] + 1
      /\ \A i \in Srch!Ids \ {b} : version'[i] = version[i]
      /\ \A i \in Srch!Ids : version'[i] >= version[i]
  BY <1>1, <1>2, NewVersion
<1>4. \A i \in Srch!Ids : version'[i] > 0 <=> version[i] > 0
  BY <1>1, <1>2, <1>3
<1>5. /\ table' \in [Srch!Collections -> Seq(Srch!Ids)]
      /\ \A e \in Srch!Collections : \E d \in {0, 1} :
           /\ Len(table'[e]) = Len(table[e]) + d
           /\ \A k \in 1 .. Len(table[e]) : table'[e][k + d] = table[e][k]
      /\ RowsListed'
  BY <1>1, <1>4, SameRows
<1>6. TableOK'
  BY <1>1, <1>2, <1>4, <1>5, CollectionFacts DEF SearchStrong, TableOK, SearchTypes
<1>7. /\ unread' \subseteq Balances
      /\ missed' \subseteq Srch!Ids /\ missed \subseteq missed'
      /\ (sending \cup queue)' \ (sending \cup queue) = {}
  BY <1>1, <1>3 DEF SearchStrong, SearchTypes
<1>8. \A i \in Srch!Ids \ missed' :
        \/ version'[i] # version[i] \/ i \in unread
        \/ \E q \in sending \cup queue : \E k \in 1 .. Len(q) : q[k] = Srch!Item(i)
        => i \in unread' \/ \E q \in (sending \cup queue)' : \E k \in 1 .. Len(q) : q[k] = Srch!Item(i)'
  BY <1>1, <1>3 DEF Srch!Item
<1> QED
  BY <1>1, <1>3, <1>5, <1>6, <1>7, <1>8, DatabaseStep

\* ...which is then read again and queued.
LEMMA QueueIndexDataSearch ==
  ASSUME Srch!SearchAssumption, SearchStrong, NEW b \in Balances, Srch!QueueIndexData(b) PROVE SearchStrong'
<1>1. PICK a : a = Srch!Item(b)
  OBVIOUS
<1>2. /\ b \in unread /\ unread' = unread \ {b}
      /\ \/ queue' = queue \cup {<<a>>} /\ missed' = missed
         \/ queue' = queue /\ missed' = missed \cup {b}
      /\ UNCHANGED <<table, version, sending, indexer, collection, docs, overtaken, early, broken, run, service>>
  BY <1>1 DEF Srch!QueueIndexData, Srch!indexVars, Srch!runVars
<1>3. b \in Srch!Ids /\ version[b] \in 1 .. MaxVersion
  BY <1>2, CollectionFacts DEF SearchStrong, SearchTypes, TableOK
<1>4. /\ version' \in [Srch!Ids -> 0 .. MaxVersion] /\ \A i \in Srch!Ids : version'[i] >= version[i]
      /\ \A i \in Srch!Ids : version'[i] > 0 <=> version[i] > 0
  BY <1>2, CollectionFacts DEF SearchStrong, SearchTypes
<1>5. /\ table' \in [Srch!Collections -> Seq(Srch!Ids)]
      /\ \A e \in Srch!Collections : \E d \in {0, 1} :
           /\ Len(table'[e]) = Len(table[e]) + d
           /\ \A k \in 1 .. Len(table[e]) : table'[e][k + d] = table[e][k]
      /\ RowsListed'
  <2>1. UNCHANGED table /\ \A i \in Srch!Ids : version'[i] > 0 <=> version[i] > 0
    BY <1>2, <1>4
  <2> QED
    BY <2>1, SameRows
<1>6. TableOK'
  BY <1>2, <1>5 DEF SearchStrong, TableOK
<1>7. TaskOK(<<a>>)'
  <2>1. a.id = b /\ a \in Srch!Items /\ a.version = version[b]
    BY <1>1, <1>3 DEF Srch!Item, Srch!Items
  <2>2. Was(a)'
    BY <1>2, <1>3, <2>1 DEF Was, Srch!Items
  <2> QED
    BY <2>1, <2>2 DEF TaskOK
<1>8. a = Srch!Item(b)' /\ \E k \in 1 .. Len(<<a>>) : <<a>>[k] = a
  BY <1>1, <1>2 DEF Srch!Item
<1>9. \A i \in Srch!Ids \ missed' :
        \/ version'[i] # version[i] \/ i \in unread
        \/ \E q \in sending \cup queue : \E k \in 1 .. Len(q) : q[k] = Srch!Item(i)
        => i \in unread' \/ \E q \in (sending \cup queue)' : \E k \in 1 .. Len(q) : q[k] = Srch!Item(i)'
  BY <1>2, <1>8 DEF Srch!Item
<1>10. /\ unread' \subseteq Balances /\ missed' \subseteq Srch!Ids /\ missed \subseteq missed'
       /\ \A q \in (sending \cup queue)' \ (sending \cup queue) : TaskOK(q)'
  BY <1>2, <1>3, <1>7 DEF SearchStrong, SearchTypes
<1> QED
  BY <1>2, <1>4, <1>5, <1>6, <1>9, <1>10, DatabaseStep

\* A goroutine enqueues its task, or loses it.
LEMMA EnqueueSearch ==
  ASSUME Srch!SearchAssumption, SearchStrong, NEW sent \in sending, Srch!Enqueue(sent) \/ Srch!EnqueueFails(sent)
  PROVE  SearchStrong'
<1>1. /\ sending' = sending \ {sent}
      /\ \/ queue' = queue \cup {sent} /\ missed' = missed
         \/ queue' = queue /\ missed' = missed \cup {sent[k].id : k \in DOMAIN sent}
      /\ UNCHANGED <<table, version, unread, indexer, collection, docs, overtaken, early, broken, run, service>>
  BY DEF Srch!Enqueue, Srch!EnqueueFails, Srch!IdsOf, Srch!indexVars, Srch!runVars
<1>2. TaskOK(sent)
  BY DEF SearchStrong
<1>3. DOMAIN sent = 1 .. Len(sent) /\ \A k \in 1 .. Len(sent) : sent[k].id \in Srch!Ids
  <2>1. ASSUME NEW x, sent = <<x>>, Was(x) PROVE DOMAIN sent = 1 .. Len(sent) /\ \A k \in 1 .. Len(sent) : sent[k].id \in Srch!Ids
    BY <2>1 DEF Was, Srch!Items
  <2>2. ASSUME NEW x, NEW y, sent = <<x, y>>, Was(x), Was(y)
        PROVE  DOMAIN sent = 1 .. Len(sent) /\ \A k \in 1 .. Len(sent) : sent[k].id \in Srch!Ids
    BY <2>2 DEF Was, Srch!Items
  <2> QED
    BY <1>2, <2>1, <2>2 DEF TaskOK
<1>4. /\ version' \in [Srch!Ids -> 0 .. MaxVersion] /\ \A i \in Srch!Ids : version'[i] >= version[i]
      /\ \A i \in Srch!Ids : version'[i] > 0 <=> version[i] > 0
  BY <1>1, CollectionFacts DEF SearchStrong, SearchTypes
<1>5. /\ table' \in [Srch!Collections -> Seq(Srch!Ids)]
      /\ \A e \in Srch!Collections : \E d \in {0, 1} :
           /\ Len(table'[e]) = Len(table[e]) + d
           /\ \A k \in 1 .. Len(table[e]) : table'[e][k + d] = table[e][k]
      /\ RowsListed'
  <2>1. UNCHANGED table /\ \A i \in Srch!Ids : version'[i] > 0 <=> version[i] > 0
    BY <1>1, <1>4
  <2> QED
    BY <2>1, SameRows
<1>6. TableOK'
  BY <1>1, <1>5 DEF SearchStrong, TableOK
<1>7. ASSUME NEW i \in Srch!Ids \ missed', NEW q \in sending \cup queue, NEW k \in 1 .. Len(q), q[k] = Srch!Item(i)
      PROVE  q \in (sending \cup queue)'
  <2>1. CASE q = sent /\ missed' = missed \cup {sent[j].id : j \in DOMAIN sent}
    <3>1. sent[k].id = i
      BY <1>7, <2>1 DEF Srch!Item
    <3> QED
      BY <1>3, <1>7, <2>1, <3>1
  <2> QED
    BY <1>1, <2>1
<1>8. \A i \in Srch!Ids : Srch!Item(i)' = Srch!Item(i)
  BY <1>1 DEF Srch!Item
<1>9. \A i \in Srch!Ids \ missed' :
        \/ version'[i] # version[i] \/ i \in unread
        \/ \E q \in sending \cup queue : \E k \in 1 .. Len(q) : q[k] = Srch!Item(i)
        => i \in unread' \/ \E q \in (sending \cup queue)' : \E k \in 1 .. Len(q) : q[k] = Srch!Item(i)'
  BY <1>1, <1>7, <1>8
<1>10. /\ unread' \subseteq Balances /\ missed' \subseteq Srch!Ids /\ missed \subseteq missed'
       /\ \A q \in (sending \cup queue)' \ (sending \cup queue) : TaskOK(q)'
  <2>1. (sending \cup queue)' \ (sending \cup queue) = {}
    BY <1>1
  <2> QED
    BY <1>1, <1>3, <2>1 DEF SearchStrong, SearchTypes
<1> QED
  BY <1>1, <1>4, <1>5, <1>6, <1>9, <1>10, DatabaseStep

\* A QUEUED row is written and missed.
LEMMA RecordQueuedSearch ==
  ASSUME Srch!SearchAssumption, SearchStrong, NEW t \in Transfers, Srch!RecordQueued(t) PROVE SearchStrong'
<1>1. /\ version[t] = 0 /\ version[BalanceOf[t]] > 0 /\ version' = [version EXCEPT ![t] = 1]
      /\ table' = [table EXCEPT !["transactions"] = <<t>> \o table["transactions"]]
      /\ missed' = missed \cup {t}
      /\ UNCHANGED <<unread, sending, queue, indexer, collection, docs, overtaken, early, broken, run, service>>
  BY DEF Srch!RecordQueued, Srch!indexVars, Srch!runVars
<1>2. t \in Srch!Ids /\ Srch!CollectionOf(t) = "transactions" /\ 1 \in 1 .. MaxVersion /\ 1 > version[t]
  BY <1>1, CollectionFacts
<1>3. /\ version' \in [Srch!Ids -> 0 .. MaxVersion] /\ version'[t] = 1
      /\ \A i \in Srch!Ids \ {t} : version'[i] = version[i]
      /\ \A i \in Srch!Ids : version'[i] >= version[i]
  BY <1>1, <1>2, NewVersion
<1>4. /\ table' \in [Srch!Collections -> Seq(Srch!Ids)]
      /\ \A e \in Srch!Collections : \E d \in {0, 1} :
           /\ Len(table'[e]) = Len(table[e]) + d
           /\ \A k \in 1 .. Len(table[e]) : table'[e][k + d] = table[e][k]
      /\ RowsListed'
  <2>1. PICK c : c = "transactions"
    OBVIOUS
  <2>2. /\ c = Srch!CollectionOf(t) /\ ~(version[t] > 0) /\ version'[t] > 0
        /\ table' = [table EXCEPT ![c] = <<t>> \o table[c]]
        /\ \A i \in Srch!Ids \ {t} : version'[i] > 0 <=> version[i] > 0
    BY <1>1, <1>2, <1>3, <2>1
  <2> QED
    BY <1>2, <1>3, <2>2, NewRow
<1>5. TableOK'
  <2>1. \A x \in Transfers : x \in Srch!Ids /\ BalanceOf[x] \in Srch!Ids \ {t}
    BY CollectionFacts
  <2>2. unread \subseteq Srch!Ids \ {t}
    BY CollectionFacts DEF SearchStrong, SearchTypes
  <2> QED
    BY <1>1, <1>3, <1>4, <2>1, <2>2 DEF SearchStrong, TableOK
<1>6. \A i \in Srch!Ids \ missed' :
        \/ version'[i] # version[i] \/ i \in unread
        \/ \E q \in sending \cup queue : \E k \in 1 .. Len(q) : q[k] = Srch!Item(i)
        => i \in unread' \/ \E q \in (sending \cup queue)' : \E k \in 1 .. Len(q) : q[k] = Srch!Item(i)'
  BY <1>1, <1>3 DEF Srch!Item
<1>7. /\ unread' \subseteq Balances /\ missed' \subseteq Srch!Ids /\ missed \subseteq missed'
      /\ (sending \cup queue)' \ (sending \cup queue) = {}
  BY <1>1, <1>2 DEF SearchStrong, SearchTypes
<1> QED
  BY <1>1, <1>3, <1>4, <1>5, <1>6, <1>7, DatabaseStep

\* A transaction commits: its row is new, its balance has changed.
LEMMA PostTransactionSearch ==
  ASSUME Srch!SearchAssumption, SearchStrong, NEW t \in Transfers, Srch!PostTransactionActions(t)
  PROVE  SearchStrong'
<1>1. PICK b : b = BalanceOf[t]
  OBVIOUS
<1>2. PICK a, z : a = [id |-> b, version |-> version[b] + 1] /\ z = [id |-> t, version |-> 1]
  OBVIOUS
<1>3. /\ version[t] = 0 /\ version[b] \in 1 .. MaxVersion - 1
      /\ version' = [version EXCEPT ![t] = 1, ![b] = version[b] + 1]
      /\ table' = [table EXCEPT !["transactions"] = <<t>> \o table["transactions"]]
      /\ sending' = sending \cup {<<a, z>>}
      /\ UNCHANGED <<unread, queue, missed, indexer, collection, docs, overtaken, early, broken, run, service>>
  <2>1. b # t
    BY <1>1, CollectionFacts
  <2> QED
    BY <1>1, <1>2, <2>1 DEF Srch!PostTransactionActions, Srch!indexVars, Srch!runVars
<1>4. /\ b \in Balances /\ b \in Srch!Ids /\ t \in Srch!Ids /\ b # t /\ t \notin Balances
      /\ Srch!CollectionOf(t) = "transactions" /\ MaxVersion \in Nat /\ MaxVersion >= 1
  BY <1>1, CollectionFacts
<1>5. version \in [Srch!Ids -> 0 .. MaxVersion]
  BY DEF SearchStrong, SearchTypes
<1>6. /\ version'[t] = 1 /\ version'[b] = version[b] + 1
      /\ \A i \in Srch!Ids \ {b, t} : version'[i] = version[i]
      /\ version[b] \in Nat /\ version[b] > 0 /\ version'[b] > version[b] /\ version'[b] > 0
  <2>1. /\ version'[t] = 1 /\ version'[b] = version[b] + 1
        /\ \A i \in Srch!Ids \ {b, t} : version'[i] = version[i]
    BY <1>3, <1>4, <1>5
  <2>2. version[b] \in Nat /\ version[b] > 0
    BY <1>3, <1>4
  <2> QED
    BY <2>1, <2>2
<1>7. version' \in [Srch!Ids -> 0 .. MaxVersion]
  <2>1. 1 \in 0 .. MaxVersion /\ version[b] + 1 \in 0 .. MaxVersion
    BY <1>3, <1>4
  <2> QED
    BY <1>3, <1>5, <2>1
<1>8. \A i \in Srch!Ids : version'[i] >= version[i]
  <2>1. \A i \in Srch!Ids : version[i] \in Int
    BY <1>5
  <2> QED
    <3> TAKE i \in Srch!Ids
    <3>1. CASE i = b
      <4>1. version'[i] = version[i] + 1 /\ version[i] \in Int
        BY <1>6, <2>1, <3>1
      <4> QED
        BY <4>1
    <3>2. CASE i = t
      <4>1. version'[i] = 1 /\ version[i] = 0
        BY <1>3, <1>6, <3>2
      <4> QED
        BY <4>1
    <3>3. CASE i \notin {b, t}
      <4>1. version'[i] = version[i] /\ version[i] \in Int
        BY <1>6, <2>1, <3>3
      <4> QED
        BY <4>1
    <3> QED
      BY <3>1, <3>2, <3>3
<1>9. /\ table' \in [Srch!Collections -> Seq(Srch!Ids)]
      /\ \A e \in Srch!Collections : \E d \in {0, 1} :
           /\ Len(table'[e]) = Len(table[e]) + d
           /\ \A k \in 1 .. Len(table[e]) : table'[e][k + d] = table[e][k]
      /\ RowsListed'
  <2>1. PICK c : c = "transactions"
    OBVIOUS
  <2>2. /\ c = Srch!CollectionOf(t) /\ ~(version[t] > 0) /\ version'[t] > 0
        /\ table' = [table EXCEPT ![c] = <<t>> \o table[c]]
        /\ \A i \in Srch!Ids \ {t} : version'[i] > 0 <=> version[i] > 0
    <3>1. ASSUME NEW i \in Srch!Ids \ {t} PROVE version'[i] > 0 <=> version[i] > 0
      BY <1>6, <3>1
    <3>2. ~(version[t] > 0)
      BY <1>3
    <3>3. version'[t] > 0
      BY <1>6
    <3>4. table' = [table EXCEPT ![c] = <<t>> \o table[c]]
      BY <1>3, <2>1
    <3>5. c = Srch!CollectionOf(t)
      BY <1>4, <2>1
    <3> QED
      BY <3>1, <3>2, <3>3, <3>4, <3>5
  <2> QED
    BY <1>4, <1>7, <2>2, NewRow
<1>10. TableOK'
  <2>1. \A x \in Transfers : version'[x] > 0 => version'[BalanceOf[x]] > 0
    <3> TAKE x \in Transfers
    <3>1. x \in Srch!Ids /\ BalanceOf[x] \in Srch!Ids /\ x # b /\ BalanceOf[x] # t
      BY <1>4, CollectionFacts
    <3>2. CASE x = t
      BY <1>1, <1>3, <1>6, <3>2
    <3>3. CASE x # t
      <4>1. version'[x] = version[x]
        BY <1>6, <3>1, <3>3
      <4>2. version[x] > 0 => version[BalanceOf[x]] > 0
        BY DEF SearchStrong, TableOK
      <4>3. version[BalanceOf[x]] > 0 => version'[BalanceOf[x]] > 0
        BY <1>3, <1>6, <3>1
      <4> QED
        BY <4>1, <4>2, <4>3
    <3> QED
      BY <3>2, <3>3
  <2>2. \A x \in unread' : version'[x] > 0
    <3> TAKE x \in unread'
    <3>1. x \in Srch!Ids /\ x # t /\ version[x] > 0
      BY <1>3, <1>4, CollectionFacts DEF SearchStrong, SearchTypes, TableOK
    <3> QED
      BY <1>3, <1>6, <3>1
  <2> QED
    BY <1>9, <2>1, <2>2 DEF TableOK
<1>11. TaskOK(<<a, z>>)'
  <2>1. a.id = b /\ a.version = version[b] + 1 /\ z.id = t /\ z.version = 1
    BY <1>2
  <2>2. a \in Srch!Items /\ z \in Srch!Items
    BY <1>2, <1>3, <1>4 DEF Srch!Items
  <2>3. a.version <= version'[a.id] /\ z.version <= version'[z.id]
    <3>1. version[b] + 1 <= version'[b] /\ 1 <= version'[t]
      BY <1>6
    <3> QED
      BY <2>1, <3>1
  <2>4. Srch!Items' = Srch!Items
    BY DEF Srch!Items, Srch!Ids
  <2>5. Was(a)' /\ Was(z)'
    BY <2>2, <2>3, <2>4 DEF Was
  <2> QED
    BY <1>1, <2>1, <2>5 DEF TaskOK
<1>12. /\ a = Srch!Item(b)' /\ \E k \in 1 .. Len(<<a, z>>) : <<a, z>>[k] = a
       /\ z = Srch!Item(t)' /\ \E k \in 1 .. Len(<<a, z>>) : <<a, z>>[k] = z
  BY <1>2, <1>6 DEF Srch!Item
<1>13. \A i \in Srch!Ids \ missed' :
        \/ version'[i] # version[i] \/ i \in unread
        \/ \E q \in sending \cup queue : \E k \in 1 .. Len(q) : q[k] = Srch!Item(i)
        => i \in unread' \/ \E q \in (sending \cup queue)' : \E k \in 1 .. Len(q) : q[k] = Srch!Item(i)'
  <2> SUFFICES ASSUME NEW i \in Srch!Ids \ missed',
                      \/ version'[i] # version[i] \/ i \in unread
                      \/ \E q \in sending \cup queue : \E k \in 1 .. Len(q) : q[k] = Srch!Item(i)
               PROVE  i \in unread' \/ \E q \in (sending \cup queue)' : \E k \in 1 .. Len(q) : q[k] = Srch!Item(i)'
    OBVIOUS
  <2>1. CASE i \in {b, t}
    <3>1. <<a, z>> \in (sending \cup queue)'
      BY <1>3
    <3> QED
      BY <1>12, <2>1, <3>1
  <2>2. CASE i \notin {b, t}
    <3>1. version'[i] = version[i]
      BY <1>6, <2>2
    <3>2. Srch!Item(i)' = Srch!Item(i)
      BY <3>1 DEF Srch!Item
    <3>3. unread' = unread /\ sending \cup queue \subseteq (sending \cup queue)'
      BY <1>3
    <3> QED
      BY <3>1, <3>2, <3>3
  <2> QED
    BY <2>1, <2>2
<1>14. /\ unread' \subseteq Balances /\ missed' \subseteq Srch!Ids /\ missed \subseteq missed'
       /\ \A q \in (sending \cup queue)' \ (sending \cup queue) : TaskOK(q)'
  BY <1>3, <1>11 DEF SearchStrong, SearchTypes
<1> QED
  BY <1>3, <1>7, <1>8, <1>9, <1>10, <1>13, <1>14, DatabaseStep

\* The items of a task with two.
LEMMA PairFacts ==
  ASSUME Srch!SearchAssumption, SearchStrong, NEW a, NEW b, TaskOK(<<a, b>>)
  PROVE  /\ Was(a) /\ Was(b) /\ b.id \in Transfers /\ a.id = BalanceOf[b.id] /\ a.id \in Balances
         /\ version[a.id] > 0
<1>1. \A x : <<a, b>> # <<x>>
  <2>1. \A x : Len(<<a, b>>) = 2 /\ Len(<<x>>) = 1
    OBVIOUS
  <2> QED
    BY <2>1
<1>2. PICK x, y : <<a, b>> = <<x, y>> /\ Was(x) /\ Was(y) /\ y.id \in Transfers /\ x.id = BalanceOf[y.id]
  BY <1>1 DEF TaskOK
<1>3. a = x /\ b = y
  BY <1>2
<1>4. a.id \in Balances /\ a.id \in Srch!Ids
  BY <1>2, <1>3, CollectionFacts
<1>5. version[a.id] \in Nat /\ a.version \in 1 .. MaxVersion /\ a.version <= version[a.id]
  BY <1>2, <1>3, <1>4, CollectionFacts DEF SearchStrong, SearchTypes, Was, Srch!Items
<1> QED
  BY <1>2, <1>3, <1>4, <1>5

\* A step of reindex run r, which leaves the database and the workers alone:
\* where no run has failed it drops or passes no current document that it
\* will not write again, nor the document of a balance.
LEMMA RunStep ==
  ASSUME Srch!SearchAssumption, SearchStrong, NEW r \in Runs, NEW n \in RunStates,
         UNCHANGED <<table, version, unread, sending, queue, indexer>>, missed' \subseteq missed,
         run' = [run EXCEPT ![r] = n], RunOK(r)',
         collection' \subseteq Srch!Collections, docs' \in [Srch!Ids -> 0 .. MaxVersion],
         service' \in Runs \cup {Nothing}, overtaken' \subseteq Srch!Ids, early' \subseteq Transfers,
         broken' \in BOOLEAN, DocsOK', overtaken \subseteq overtaken', broken => broken',
         ~broken' => \A i \in Srch!Ids \ (missed' \cup overtaken') : version[i] > 0 =>
           (docs[i] = version[i] \/ WillRenew(r, i) \/ i \in missed => docs'[i] = version[i] \/ WillRenew(r, i)'),
         ~broken' => \A b \in Balances : version[b] > 0 =>
           (docs[b] > 0 \/ WillWrite(r, b) => docs'[b] > 0 \/ WillWrite(r, b)'),
         ~broken' => \A t \in Transfers \ early' : docs'[t] > 0 =>
           (docs[t] > 0 /\ t \notin early) \/ Safe(BalanceOf[t])'
  PROVE  SearchStrong'
<1>1. /\ Srch!Items' = Srch!Items /\ RunStates' = RunStates /\ Srch!Busy' = Srch!Busy
      /\ Srch!Ids' = Srch!Ids /\ Srch!Collections' = Srch!Collections
  BY DEF Srch!Items, RunStates, Srch!Ids, Srch!Busy, RunPhases, Srch!Collections
<1>2. run \in [Runs -> RunStates]
  BY DEF SearchStrong, SearchTypes
<1>3. run'[r] = n /\ \A s \in Runs \ {r} : run'[s] = run[s]
  BY <1>2
<1>4. run' \in [Runs -> RunStates]
  BY <1>2
<1>5. SearchTypes'
  BY <1>1, <1>4 DEF SearchStrong, SearchTypes
<1>6. TableOK'
  BY <1>1 DEF SearchStrong, TableOK, RowsListed, Srch!CollectionOf
<1>7. ASSUME NEW a PROVE Was(a)' <=> Was(a)
  BY <1>1 DEF Was
<1>8. ASSUME NEW q PROVE TaskOK(q)' <=> TaskOK(q)
  BY <1>7 DEF TaskOK
<1>9. \A s \in Runs : RunOK(s)'
  <2> TAKE s \in Runs
  <2>1. CASE s = r
    BY <2>1
  <2>2. CASE s # r
    <3>1. run'[s] = run[s] /\ RunOK(s)
      BY <1>3, <2>2 DEF SearchStrong
    <3> QED
      BY <1>1, <1>7, <3>1 DEF RunOK, Srch!CollectionOf
  <2> QED
    BY <2>1, <2>2
<1>10. ASSUME NEW s \in Runs \ {r}, NEW i
       PROVE  (WillWrite(s, i)' <=> WillWrite(s, i)) /\ (WillRenew(s, i)' <=> WillRenew(s, i))
  <2>1. run'[s] = run[s]
    BY <1>3
  <2>2. Ahead(s, i)' <=> Ahead(s, i)
    BY <2>1 DEF Ahead, Before, Srch!CollectionOf
  <2>3. Srch!Item(i)' = Srch!Item(i)
    BY DEF Srch!Item
  <2> QED
    BY <2>1, <2>2, <2>3 DEF WillWrite, WillRenew
<1>11. ASSUME ~broken', NEW b \in Balances, version[b] > 0, Safe(b) PROVE Safe(b)'
  <2>1. CASE docs[b] > 0 \/ WillWrite(r, b)
    BY <1>11, <2>1 DEF Safe
  <2>2. CASE \E s \in Runs \ {r} : WillWrite(s, b)
    BY <1>10, <2>2 DEF Safe
  <2> QED
    BY <1>11, <2>1, <2>2 DEF Safe
<1>12. ASSUME ~broken', NEW i \in Srch!Ids \ (missed' \cup overtaken'), version'[i] > 0
       PROVE  docs'[i] = version'[i] \/ Unindexed(i)'
  <2>1. version'[i] = version[i] /\ Srch!Item(i)' = Srch!Item(i)
    BY DEF Srch!Item
  <2>2. docs[i] = version[i] \/ Unindexed(i) \/ i \in missed
    BY <1>12, <2>1 DEF SearchStrong
  <2>3. CASE docs[i] = version[i] \/ WillRenew(r, i) \/ i \in missed
    BY <1>12, <2>1, <2>3 DEF Unindexed
  <2>4. CASE \E s \in Runs \ {r} : WillRenew(s, i)
    BY <1>10, <2>4 DEF Unindexed
  <2>5. CASE i \in unread
    BY <2>5 DEF Unindexed
  <2>6. CASE \E q \in sending \cup queue : \E k \in 1 .. Len(q) : q[k] = Srch!Item(i)
    BY <2>1, <2>6 DEF Unindexed
  <2>7. CASE \E w \in Indexers : \E k \in 1 .. Len(indexer[w].left) : indexer[w].left[k] = Srch!Item(i)
    BY <2>1, <2>7 DEF Unindexed
  <2> QED
    BY <2>2, <2>3, <2>4, <2>5, <2>6, <2>7 DEF Unindexed
<1>13. ASSUME NEW w \in Indexers PROVE IndexerOK(w)'
  <2>1. IndexerOK(w) /\ indexer'[w] = indexer[w]
    BY DEF SearchStrong
  <2>2. CASE indexer[w] = Srch!Busy
    BY <1>1, <2>1, <2>2 DEF IndexerOK
  <2>3. CASE TaskOK(indexer[w].items) /\ indexer[w].left = indexer[w].items
    BY <1>8, <2>1, <2>3 DEF IndexerOK
  <2>4. ASSUME NEW a, NEW b, TaskOK(indexer[w].items),
               indexer[w] = [items |-> <<a, b>>, left |-> <<b>>], ~broken => Safe(a.id)
        PROVE  IndexerOK(w)'
    <3>1. indexer[w].items = <<a, b>>
      BY <2>4
    <3>2. TaskOK(<<a, b>>)
      BY <2>4, <3>1
    <3>3. a.id \in Balances /\ version[a.id] > 0
      BY <3>2, PairFacts
    <3>4. ~broken' => Safe(a.id)'
      BY <1>11, <2>4, <3>3
    <3> QED
      BY <1>8, <2>1, <2>4, <3>4 DEF IndexerOK
  <2> QED
    BY <2>1, <2>2, <2>3, <2>4 DEF IndexerOK
<1>14. ASSUME ~broken', NEW t \in Transfers \ early', docs'[t] > 0 PROVE Safe(BalanceOf[t])'
  <2>1. CASE docs[t] > 0 /\ t \notin early
    <3>1. t \in Srch!Ids /\ BalanceOf[t] \in Balances
      BY CollectionFacts
    <3>2. docs[t] \in Nat /\ version[t] \in Nat /\ docs[t] <= version[t]
      BY <3>1, CollectionFacts DEF SearchStrong, SearchTypes, DocsOK
    <3>3. version[t] > 0
      BY <2>1, <3>2
    <3>4. version[BalanceOf[t]] > 0 /\ Safe(BalanceOf[t])
      BY <1>14, <2>1, <3>3 DEF SearchStrong, TableOK
    <3> QED
      BY <1>11, <1>14, <3>1, <3>4
  <2> QED
    BY <1>14, <2>1
<1>15. \A q \in (sending \cup queue)' : TaskOK(q)'
  BY <1>8 DEF SearchStrong
<1> QED
  BY <1>1, <1>5, <1>6, <1>9, <1>12, <1>13, <1>14, <1>15 DEF SearchStrong

\* A step that leaves the documents alone and after which the run still
\* comes to every row that it had to come to.
LEMMA QuietRunStep ==
  ASSUME Srch!SearchAssumption, SearchStrong, NEW r \in Runs, NEW n \in RunStates,
         UNCHANGED <<table, version, unread, sending, queue, indexer, missed, docs, overtaken, early, broken>>,
         run' = [run EXCEPT ![r] = n], RunOK(r)',
         collection \subseteq collection', collection' \subseteq Srch!Collections,
         service' \in Runs \cup {Nothing},
         \A i \in Srch!Ids : version[i] > 0 =>
           (WillWrite(r, i) => WillWrite(r, i)') /\ (WillRenew(r, i) => WillRenew(r, i)')
  PROVE  SearchStrong'
<1>1. /\ docs' \in [Srch!Ids -> 0 .. MaxVersion] /\ overtaken' \subseteq Srch!Ids /\ early' \subseteq Transfers
      /\ broken' \in BOOLEAN
  BY DEF SearchStrong, SearchTypes
<1>2. DocsOK'
  BY DEF SearchStrong, DocsOK, Srch!CollectionOf, Srch!Ids
<1>3. \A b \in Balances : b \in Srch!Ids
  BY CollectionFacts
<1> QED
  BY <1>1, <1>2, <1>3, RunStep

\* A run that has yet to start, or is over, writes nothing.
LEMMA IdleRun ==
  ASSUME Srch!SearchAssumption, NEW r \in Runs,
         run[r].phase \in {"starting", "drop_balances", "done"}, run[r].page = <<>>, NEW i \in Srch!Ids
  PROVE  ~WillWrite(r, i) /\ ~WillRenew(r, i)
<1>1. ~Ahead(r, i)
  BY CollectionFacts DEF Ahead, Before
<1> QED
  BY <1>1 DEF WillWrite, WillRenew

\* A reindex is requested, or found to be needed.
LEMMA RequestSearch ==
  ASSUME Srch!SearchAssumption, SearchStrong, NEW r \in Runs,
         Srch!RequestReindex(r) \/ Srch!TryReindexIfNeeded(r)
  PROVE  SearchStrong'
<1>1. PICK n : n = [status |-> "pending", phase |-> "starting", offset |-> 0, page |-> <<>>]
  OBVIOUS
<1>2. n = [Srch!NotStarted EXCEPT !.status = "pending"]
  BY <1>1 DEF Srch!NotStarted
<1>3. /\ run[r] = Srch!NotStarted /\ run' = [run EXCEPT ![r] = n]
      /\ UNCHANGED <<table, version, unread, sending, queue, indexer, missed, docs, overtaken, early, broken, collection>>
  BY <1>2 DEF Srch!RequestReindex, Srch!TryReindexIfNeeded, Srch!Advance, Srch!dbVars, Srch!taskVars, Srch!indexVars
<1>4. service' \in Runs \cup {Nothing}
  BY DEF Srch!RequestReindex, Srch!TryReindexIfNeeded, SearchStrong, SearchTypes
<1>5. n \in RunStates /\ n.status = "pending" /\ n.phase = "starting" /\ n.page = <<>>
  BY <1>1 DEF RunStates, RunPhases
<1>6. run'[r] = n
  BY <1>3 DEF SearchStrong, SearchTypes
<1>7. RunOK(r)'
  BY <1>5, <1>6 DEF RunOK, Srch!Collections
<1>8. \A i \in Srch!Ids : ~WillWrite(r, i) /\ ~WillRenew(r, i)
  <2>1. run[r].phase = "starting" /\ run[r].page = <<>>
    BY <1>3 DEF Srch!NotStarted
  <2> QED
    BY <2>1, IdleRun
<1>9. collection \subseteq collection' /\ collection' \subseteq Srch!Collections
  BY <1>3 DEF SearchStrong, SearchTypes
<1> QED
  BY <1>3, <1>4, <1>5, <1>7, <1>8, <1>9, QuietRunStep

\* A reindex starts.
LEMMA StartSearch ==
  ASSUME Srch!SearchAssumption, SearchStrong, NEW r \in Runs, Srch!StartReindex(r) PROVE SearchStrong'
<1>1. PICK n : n = [run[r] EXCEPT !.status = "in_progress", !.phase = "drop_balances"]
  OBVIOUS
<1>2. /\ run[r].status = "pending" /\ run' = [run EXCEPT ![r] = n]
      /\ UNCHANGED <<table, version, unread, sending, queue, indexer, missed, docs, overtaken, early, broken, collection, service>>
  BY <1>1 DEF Srch!StartReindex, Srch!Advance, Srch!dbVars, Srch!taskVars, Srch!indexVars
<1>3. run[r] \in RunStates /\ RunOK(r)
  BY DEF SearchStrong, SearchTypes
<1>4. run[r].phase = "starting" /\ run[r].page = <<>>
  BY <1>2, <1>3 DEF RunOK, Srch!Collections
<1>5. n \in RunStates /\ n.status = "in_progress" /\ n.phase = "drop_balances" /\ n.page = <<>>
  BY <1>1, <1>3, <1>4 DEF RunStates, RunPhases
<1>6. run'[r] = n
  BY <1>2 DEF SearchStrong, SearchTypes
<1>7. RunOK(r)'
  BY <1>5, <1>6 DEF RunOK, Srch!Collections
<1>8. \A i \in Srch!Ids : ~WillWrite(r, i) /\ ~WillRenew(r, i)
  BY <1>4, IdleRun
<1>9. collection \subseteq collection' /\ collection' \subseteq Srch!Collections /\ service' \in Runs \cup {Nothing}
  BY <1>2 DEF SearchStrong, SearchTypes
<1> QED
  BY <1>2, <1>5, <1>7, <1>8, <1>9, QuietRunStep

\* A run comes to its next phase.
LEMMA NextPhase ==
  ASSUME NEW m \in RunStates, NEW p \in RunPhases
  PROVE  /\ [m EXCEPT !.phase = p, !.offset = 0, !.page = <<>>]
              = [status |-> m.status, phase |-> p, offset |-> 0, page |-> <<>>]
         /\ [status |-> m.status, phase |-> p, offset |-> 0, page |-> <<>>] \in RunStates
<1>1. [m EXCEPT !.phase = p, !.offset = 0, !.page = <<>>]
        = [status |-> m.status, phase |-> p, offset |-> 0, page |-> <<>>]
  <2>1. PICK n : n = [m EXCEPT !.phase = p, !.offset = 0, !.page = <<>>]
    OBVIOUS
  <2>2. n = [status |-> m.status, phase |-> p, offset |-> 0, page |-> <<>>]
    BY <2>1 DEF RunStates
  <2> QED
    BY <2>1, <2>2
<1>2. <<>> \in Seq(Srch!Items) /\ 0 \in Nat
  OBVIOUS
<1> QED
  BY <1>1, <1>2 DEF RunStates

\* The collections are created again.
LEMMA CreateCollectionsSearch ==
  ASSUME Srch!SearchAssumption, SearchStrong, NEW r \in Runs, Srch!CreateCollections(r) PROVE SearchStrong'
<1>1. PICK n : n = [run[r] EXCEPT !.phase = "balances", !.offset = 0, !.page = <<>>]
  OBVIOUS
<1>2. /\ run[r].phase = "create" /\ run' = [run EXCEPT ![r] = n] /\ collection' = Srch!Collections
      /\ UNCHANGED <<table, version, unread, sending, queue, indexer, missed, docs, overtaken, early, broken, service>>
  BY <1>1 DEF Srch!CreateCollections, Srch!Phase, Srch!Advance, Srch!dbVars, Srch!taskVars
<1>3. run[r] \in RunStates /\ RunOK(r)
  BY DEF SearchStrong, SearchTypes
<1>4. run[r].status = "in_progress"
  BY <1>2, <1>3 DEF RunOK
<1>5. /\ n \in RunStates /\ n.status = "in_progress" /\ n.phase = "balances" /\ n.page = <<>> /\ n.offset = 0
  <2>1. PICK m, p : m = run[r] /\ p = "balances"
    OBVIOUS
  <2>2. p \in RunPhases /\ m \in RunStates
    BY <1>3, <2>1 DEF RunPhases
  <2>3. /\ n = [status |-> m.status, phase |-> p, offset |-> 0, page |-> <<>>]
        /\ [status |-> m.status, phase |-> p, offset |-> 0, page |-> <<>>] \in RunStates
    BY <1>1, <2>1, <2>2, NextPhase
  <2> QED
    BY <1>4, <2>1, <2>3
<1>6. run'[r] = n
  BY <1>2 DEF SearchStrong, SearchTypes
<1>7. "balances" \in Srch!Collections /\ Len(table["balances"]) \in Nat
  BY CollectionFacts DEF SearchStrong, SearchTypes
<1>8. RunOK(r)'
  <2>1. Len(<<>>) = 0 /\ 0 <= Len(table["balances"])
    BY <1>7
  <2> QED
    BY <1>2, <1>5, <1>6, <1>7, <2>1 DEF RunOK
<1>9. ASSUME NEW i \in Srch!Ids, version[i] > 0 PROVE Ahead(r, i)'
  <2>1. CASE i \in Balances
    <3>1. Srch!CollectionOf(i) = "balances"
      BY <2>1, CollectionFacts
    <3>2. PICK k \in 1 .. Len(table["balances"]) : table["balances"][k] = i
      BY <1>9, <3>1 DEF SearchStrong, TableOK, RowsListed
    <3>3. k > 0
      BY <1>7
    <3> QED
      BY <1>2, <1>5, <1>6, <3>1, <3>2, <3>3 DEF Ahead, Srch!CollectionOf
  <2>2. CASE i \notin Balances
    BY <1>5, <1>6, <2>2 DEF Ahead, Before
  <2> QED
    BY <2>1, <2>2
<1>10. \A i \in Srch!Ids : version[i] > 0 =>
         (WillWrite(r, i) => WillWrite(r, i)') /\ (WillRenew(r, i) => WillRenew(r, i)')
  BY <1>9 DEF WillWrite, WillRenew
<1>11. collection \subseteq collection' /\ collection' \subseteq Srch!Collections /\ service' \in Runs \cup {Nothing}
  BY <1>2 DEF SearchStrong, SearchTypes
<1> QED
  BY <1>2, <1>5, <1>8, <1>10, <1>11, QuietRunStep

\* The end of a table.
LEMMA EndOfTableSearch ==
  ASSUME Srch!SearchAssumption, SearchStrong, NEW r \in Runs, Srch!EndOfTable(r) PROVE SearchStrong'
<1>1. /\ run[r].phase \in Srch!Collections /\ run[r].page = <<>> /\ run[r].offset >= Len(table[run[r].phase])
      /\ UNCHANGED <<table, version, unread, sending, queue, indexer, missed, docs, overtaken, early, broken, collection, service>>
  BY DEF Srch!EndOfTable, Srch!dbVars, Srch!taskVars, Srch!indexVars
<1>2. run[r] \in RunStates /\ RunOK(r)
  BY DEF SearchStrong, SearchTypes
<1>3. run[r].status = "in_progress" /\ run[r].offset \in Nat /\ run \in [Runs -> RunStates]
  BY <1>1, <1>2, CollectionFacts DEF RunOK, RunStates, SearchStrong, SearchTypes
<1>4. \A c \in Srch!Collections : Len(table[c]) \in Nat
  BY DEF SearchStrong, SearchTypes
<1>5. ASSUME NEW i \in Srch!Ids, WillWrite(r, i) \/ WillRenew(r, i)
      PROVE  run[r].phase = "balances" /\ i \notin Balances
  <2>1. Ahead(r, i)
    BY <1>1, <1>5 DEF WillWrite, WillRenew
  <2>2. run[r].phase \in Before(i)
    BY <1>1, <1>3, <1>4, <2>1 DEF Ahead
  <2> QED
    BY <1>1, <2>2, CollectionFacts DEF Before
<1>6. collection \subseteq collection' /\ collection' \subseteq Srch!Collections /\ service' \in Runs \cup {Nothing}
  BY <1>1 DEF SearchStrong, SearchTypes
<1>7. CASE run[r].phase = "balances"
  <2>1. PICK n : n = [run[r] EXCEPT !.phase = "transactions", !.offset = 0, !.page = <<>>]
    OBVIOUS
  <2>2. run' = [run EXCEPT ![r] = n]
    BY <1>7, <2>1 DEF Srch!EndOfTable, Srch!Phase, Srch!Advance
  <2>3. /\ n \in RunStates /\ n.status = "in_progress" /\ n.phase = "transactions" /\ n.page = <<>>
        /\ n.offset = 0
    <3>1. PICK m, p : m = run[r] /\ p = "transactions"
      OBVIOUS
    <3>2. p \in RunPhases /\ m \in RunStates
      BY <1>2, <3>1 DEF RunPhases
    <3>3. /\ n = [status |-> m.status, phase |-> p, offset |-> 0, page |-> <<>>]
          /\ [status |-> m.status, phase |-> p, offset |-> 0, page |-> <<>>] \in RunStates
      BY <2>1, <3>1, <3>2, NextPhase
    <3> QED
      BY <1>3, <3>1, <3>3
  <2>4. run'[r] = n
    BY <1>3, <2>2
  <2>5. "transactions" \in Srch!Collections /\ Len(table["transactions"]) \in Nat
    BY <1>4, CollectionFacts
  <2>6. RunOK(r)'
    <3>1. Len(<<>>) = 0 /\ 0 <= Len(table["transactions"])
      BY <2>5
    <3> QED
      BY <1>1, <2>3, <2>4, <2>5, <3>1 DEF RunOK
  <2>7. ASSUME NEW i \in Srch!Ids, version[i] > 0, i \notin Balances PROVE Ahead(r, i)'
    <3>1. Srch!CollectionOf(i) = "transactions"
      BY <2>7 DEF Srch!CollectionOf
    <3>2. PICK k \in 1 .. Len(table["transactions"]) : table["transactions"][k] = i
      BY <2>7, <3>1 DEF SearchStrong, TableOK, RowsListed
    <3>3. k > 0
      BY <2>5
    <3> QED
      BY <1>1, <2>3, <2>4, <3>1, <3>2, <3>3 DEF Ahead, Srch!CollectionOf
  <2>8. \A i \in Srch!Ids : version[i] > 0 =>
          (WillWrite(r, i) => WillWrite(r, i)') /\ (WillRenew(r, i) => WillRenew(r, i)')
    BY <1>5, <2>7 DEF WillWrite, WillRenew
  <2> QED
    BY <1>1, <1>6, <2>2, <2>3, <2>6, <2>8, QuietRunStep
<1>8. CASE run[r].phase # "balances"
  <2>1. PICK n : n = [run[r] EXCEPT !.status = "completed", !.phase = "done"]
    OBVIOUS
  <2>2. run' = [run EXCEPT ![r] = n]
    BY <1>8, <2>1 DEF Srch!EndOfTable, Srch!Advance
  <2>3. n \in RunStates /\ n.status = "completed" /\ n.phase = "done" /\ n.page = <<>>
    BY <1>1, <1>2, <2>1 DEF RunStates, RunPhases
  <2>4. run'[r] = n
    BY <1>3, <2>2
  <2>5. RunOK(r)'
    BY <2>3, <2>4 DEF RunOK, Srch!Collections
  <2>6. \A i \in Srch!Ids : ~WillWrite(r, i) /\ ~WillRenew(r, i)
    BY <1>5, <1>8
  <2> QED
    BY <1>1, <1>6, <2>2, <2>3, <2>5, <2>6, QuietRunStep
<1> QED
  BY <1>7, <1>8

\* A page has the rows after the offset.
LEMMA PageFacts ==
  ASSUME Srch!SearchAssumption, SearchStrong, NEW c \in Srch!Collections, NEW o \in Nat, o < Len(table[c]),
         NEW ids, ids = Srch!Page(c, o)
  PROVE  /\ ids \in Seq(Srch!Ids) /\ Len(ids) \in Nat /\ DOMAIN ids = 1 .. Len(ids)
         /\ o + Len(ids) <= Len(table[c])
         /\ \A k \in 1 .. Len(ids) : ids[k] = table[c][o + k]
<1>1. PICK s : s = table[c]
  OBVIOUS
<1>2. s \in Seq(Srch!Ids) /\ Len(s) \in Nat /\ o < Len(s)
  BY <1>1 DEF SearchStrong, SearchTypes
<1>3. PageSize \in Nat \ {0}
  BY DEF Srch!SearchAssumption
<1>4. PICK e : e = IF o + PageSize < Len(s) THEN o + PageSize ELSE Len(s)
  OBVIOUS
<1>5. e \in Nat /\ e > o /\ e <= Len(s)
  BY <1>2, <1>3, <1>4
<1>6. ids = SubSeq(s, o + 1, e)
  BY <1>1, <1>4 DEF Srch!Page
<1>7. Len(ids) = e - o /\ \A k \in 1 .. e - o : ids[k] = s[o + k]
  BY <1>2, <1>5, <1>6
<1>8. ids \in Seq(Srch!Ids)
  <2>1. \A k \in (o + 1) .. e : k \in 1 .. Len(s)
    BY <1>2, <1>5
  <2> QED
    BY <1>2, <1>5, <1>6, <2>1
<1> QED
  BY <1>1, <1>5, <1>7, <1>8

\* A run reads a page.
LEMMA ReadPageSearch ==
  ASSUME Srch!SearchAssumption, SearchStrong, NEW r \in Runs, Srch!ReadPage(r) PROVE SearchStrong'
<1>1. PICK c, o : c = run[r].phase /\ o = run[r].offset
  OBVIOUS
<1>2. PICK ids : ids = Srch!Page(c, o)
  OBVIOUS
<1>3. PICK g : g = [k \in DOMAIN ids |-> Srch!Item(ids[k])]
  OBVIOUS
<1>4. PICK n : n = [run[r] EXCEPT !.page = g, !.offset = o + Len(ids)]
  OBVIOUS
<1>5. /\ c \in Srch!Collections /\ run[r].page = <<>> /\ o < Len(table[c])
      /\ run' = [run EXCEPT ![r] = n]
      /\ UNCHANGED <<table, version, unread, sending, queue, indexer, missed, docs, overtaken, early, broken, collection, service>>
  BY <1>1, <1>2, <1>3, <1>4 DEF Srch!ReadPage, Srch!Advance, Srch!dbVars, Srch!taskVars, Srch!indexVars
<1>6. run[r] \in RunStates /\ RunOK(r) /\ run \in [Runs -> RunStates]
  BY DEF SearchStrong, SearchTypes
<1>7. o \in Nat /\ run[r].status = "in_progress"
  BY <1>1, <1>5, <1>6, CollectionFacts DEF RunOK, RunStates
<1>8. /\ ids \in Seq(Srch!Ids) /\ Len(ids) \in Nat /\ DOMAIN ids = 1 .. Len(ids)
      /\ o + Len(ids) <= Len(table[c])
      /\ \A k \in 1 .. Len(ids) : ids[k] = table[c][o + k]
  BY <1>2, <1>5, <1>7, PageFacts
<1>9. ASSUME NEW k \in 1 .. Len(ids)
      PROVE  /\ ids[k] \in Srch!Ids /\ Srch!CollectionOf(ids[k]) = c /\ Was(Srch!Item(ids[k]))
             /\ Srch!Item(ids[k]) \in Srch!Items /\ Srch!Item(ids[k]).id = ids[k]
  <2>1. Len(table[c]) \in Nat
    BY <1>5 DEF SearchStrong, SearchTypes
  <2>2. PICK j \in 1 .. Len(table[c]) : j = o + k
    BY <1>7, <1>8, <2>1
  <2>3. ids[k] \in Srch!Ids /\ ids[k] = table[c][j]
    BY <1>8, <2>2
  <2>4. Srch!CollectionOf(ids[k]) = c
    BY <1>5, <2>3 DEF SearchStrong, TableOK, RowsListed
  <2>5. version[ids[k]] > 0
    BY <2>3, <2>4 DEF SearchStrong, TableOK, RowsListed
  <2>6. version[ids[k]] \in 1 .. MaxVersion
    BY <2>3, <2>5, CollectionFacts DEF SearchStrong, SearchTypes
  <2>7. /\ Srch!Item(ids[k]) \in Srch!Items /\ Srch!Item(ids[k]).id = ids[k]
        /\ Srch!Item(ids[k]).version = version[ids[k]]
    BY SMTT(30), <2>3, <2>6 DEF Srch!Item, Srch!Items
  <2>8. Was(Srch!Item(ids[k]))
    BY <2>6, <2>7 DEF Was
  <2> QED
    BY <2>3, <2>4, <2>7, <2>8
<1>10. g \in Seq(Srch!Items) /\ Len(g) = Len(ids) /\ \A k \in 1 .. Len(ids) : g[k] = Srch!Item(ids[k])
  <2>1. g = [k \in 1 .. Len(ids) |-> Srch!Item(ids[k])]
    BY <1>3, <1>8
  <2>2. g \in [1 .. Len(ids) -> Srch!Items]
    BY <1>9, <2>1
  <2>3. g \in Seq(Srch!Items)
    BY <1>8, <2>2
  <2>4. DOMAIN g = 1 .. Len(ids)
    BY <2>1
  <2> QED
    BY <1>8, <2>1, <2>3, <2>4
<1>11. /\ n \in RunStates /\ n.phase = c /\ n.status = "in_progress" /\ n.page = g
       /\ n.offset = o + Len(ids)
  <2>1. n = [status |-> run[r].status, phase |-> run[r].phase, offset |-> o + Len(ids), page |-> g]
    BY <1>4, <1>6 DEF RunStates
  <2>2. o + Len(ids) \in Nat
    BY <1>7, <1>8
  <2>3. n \in RunStates
    BY <1>6, <1>10, <2>1, <2>2 DEF RunStates
  <2> QED
    BY <1>1, <1>7, <2>1, <2>3
<1>12. run'[r] = n
  BY <1>5, <1>6
<1>13. RunOK(r)'
  <2>1. ASSUME NEW k \in 1 .. Len(g) PROVE Was(g[k])' /\ Srch!CollectionOf(g[k].id)' = c
    <3>1. g[k] = Srch!Item(ids[k]) /\ k \in 1 .. Len(ids)
      BY <1>10
    <3>2. Was(g[k]) /\ Srch!CollectionOf(g[k].id) = c
      BY <1>9, <3>1
    <3> QED
      BY <1>5, <3>2 DEF Was, Srch!Items, Srch!Ids, Srch!CollectionOf
  <2> QED
    BY <1>5, <1>8, <1>11, <1>12, <2>1, CollectionFacts DEF RunOK, Srch!CollectionOf, Srch!Collections
<1>14. ASSUME NEW i \in Srch!Ids, Ahead(r, i) PROVE WillWrite(r, i)' /\ WillRenew(r, i)'
  <2>1. CASE c \in Before(i)
    BY <1>1, <1>11, <1>12, <2>1 DEF WillWrite, WillRenew, Ahead, Before
  <2>2. CASE c \notin Before(i)
    <3>1. PICK j \in 1 .. Len(table[c]) : j > o /\ table[c][j] = i
      BY <1>1, <1>14, <2>2 DEF Ahead
    <3>2. c = Srch!CollectionOf(i)
      BY <1>1, <1>14, <2>2 DEF Ahead
    <3>3. Len(table[c]) \in Nat
      BY <1>5 DEF SearchStrong, SearchTypes
    <3>4. CASE j > o + Len(ids)
      <4>1. Ahead(r, i)'
        BY <1>5, <1>11, <1>12, <3>1, <3>2, <3>4 DEF Ahead, Srch!CollectionOf
      <4> QED
        BY <4>1 DEF WillWrite, WillRenew
    <3>5. CASE j <= o + Len(ids)
      <4>1. PICK k \in 1 .. Len(ids) : o + k = j
        <5>1. j - o \in 1 .. Len(ids) /\ o + (j - o) = j
          BY <1>7, <1>8, <3>1, <3>3, <3>5
        <5> QED
          BY <5>1
      <4>2. g[k] = Srch!Item(i) /\ g[k].id = i /\ k \in 1 .. Len(g)
        BY <1>8, <1>9, <1>10, <3>1, <4>1
      <4>3. Srch!Item(i)' = Srch!Item(i)
        BY <1>5 DEF Srch!Item
      <4> QED
        BY <1>11, <1>12, <4>2, <4>3 DEF WillWrite, WillRenew
    <3> QED
      BY <1>7, <1>8, <3>3, <3>4, <3>5
  <2> QED
    BY <2>1, <2>2
<1>15. \A i \in Srch!Ids : version[i] > 0 =>
         (WillWrite(r, i) => WillWrite(r, i)') /\ (WillRenew(r, i) => WillRenew(r, i)')
  <2>1. \A i \in Srch!Ids : WillWrite(r, i) \/ WillRenew(r, i) => Ahead(r, i)
    BY <1>5 DEF WillWrite, WillRenew
  <2> QED
    BY <1>14, <2>1
<1>16. collection \subseteq collection' /\ collection' \subseteq Srch!Collections /\ service' \in Runs \cup {Nothing}
  BY <1>5 DEF SearchStrong, SearchTypes
<1> QED
  BY <1>5, <1>11, <1>13, <1>15, <1>16, QuietRunStep

\* A collection is dropped, and the run will write its documents again.
LEMMA DropCollectionSearch ==
  ASSUME Srch!SearchAssumption, SearchStrong, NEW r \in Runs, Srch!DropCollection(r) PROVE SearchStrong'
<1>1. PICK c \in Srch!Collections :
        /\ run[r].phase = IF c = "balances" THEN "drop_balances" ELSE "drop_transactions"
        /\ collection' = collection \ {c}
        /\ docs' = [i \in Srch!Ids |-> IF Srch!CollectionOf(i) = c THEN 0 ELSE docs[i]]
        /\ Srch!Phase(r, IF c = "balances" THEN "drop_transactions" ELSE "create")
        /\ UNCHANGED <<table, version, unread, sending, queue, indexer, missed, overtaken, early, broken, service>>
  BY DEF Srch!DropCollection, Srch!dbVars, Srch!taskVars
<1>2. PICK m, p : m = run[r] /\ p = IF c = "balances" THEN "drop_transactions" ELSE "create"
  OBVIOUS
<1>3. PICK n : n = [m EXCEPT !.phase = p, !.offset = 0, !.page = <<>>]
  OBVIOUS
<1>4. m \in RunStates /\ RunOK(r) /\ run \in [Runs -> RunStates] /\ p \in RunPhases
  BY <1>2 DEF SearchStrong, SearchTypes, RunPhases
<1>5. /\ n = [status |-> m.status, phase |-> p, offset |-> 0, page |-> <<>>]
      /\ [status |-> m.status, phase |-> p, offset |-> 0, page |-> <<>>] \in RunStates
  BY <1>3, <1>4, NextPhase
<1>6. run' = [run EXCEPT ![r] = n]
  BY <1>1, <1>2, <1>3 DEF Srch!Phase, Srch!Advance
<1>7. run[r].status = "in_progress" /\ run[r].page = <<>>
  BY <1>1, <1>4, CollectionFacts DEF RunOK
<1>8. n \in RunStates /\ n.status = "in_progress" /\ n.phase = p /\ n.page = <<>>
  BY <1>2, <1>5, <1>7
<1>9. run'[r] = n
  BY <1>4, <1>6
<1>10. RunOK(r)'
  BY <1>2, <1>8, <1>9 DEF RunOK, Srch!Collections
<1>11. docs' \in [Srch!Ids -> 0 .. MaxVersion]
  <2>1. 0 \in 0 .. MaxVersion /\ docs \in [Srch!Ids -> 0 .. MaxVersion]
    BY CollectionFacts DEF SearchStrong, SearchTypes
  <2> QED
    BY <1>1, <2>1
<1>12. \A i \in Srch!Ids : docs'[i] = IF Srch!CollectionOf(i) = c THEN 0 ELSE docs[i]
  BY <1>1
<1>13. DocsOK'
  <2> SUFFICES ASSUME NEW i \in Srch!Ids
               PROVE  docs'[i] <= version[i] /\ (docs'[i] > 0 => Srch!CollectionOf(i) \in collection')
    BY <1>1 DEF DocsOK, Srch!CollectionOf, Srch!Ids
  <2>1. docs[i] <= version[i] /\ version[i] \in Nat /\ (docs[i] > 0 => Srch!CollectionOf(i) \in collection)
    BY CollectionFacts DEF SearchStrong, SearchTypes, DocsOK
  <2>2. CASE Srch!CollectionOf(i) = c
    <3>1. docs'[i] = 0
      BY <1>12, <2>2
    <3> QED
      BY <2>1, <3>1
  <2>3. CASE Srch!CollectionOf(i) # c
    <3>1. docs'[i] = docs[i]
      BY <1>12, <2>3
    <3> QED
      BY <1>1, <2>1, <2>3, <3>1
  <2> QED
    BY <2>2, <2>3
<1>14. ASSUME NEW i \in Srch!Ids PROVE Ahead(r, i)' \/ (docs'[i] = docs[i] /\ ~WillWrite(r, i) /\ ~WillRenew(r, i))
  <2>1. CASE c = "balances"
    <3>1. CASE i \in Balances
      BY <1>2, <1>8, <1>9, <2>1, <3>1 DEF Ahead, Before
    <3>2. CASE i \notin Balances
      <4>1. docs'[i] = docs[i]
        BY <1>12, <2>1, <3>2 DEF Srch!CollectionOf
      <4>2. run[r].phase = "drop_balances"
        BY <1>1, <2>1
      <4> QED
        BY <1>7, <4>1, <4>2, IdleRun
    <3> QED
      BY <3>1, <3>2
  <2>2. CASE c # "balances"
    BY <1>2, <1>8, <1>9, <2>2 DEF Ahead, Before
  <2> QED
    BY <2>1, <2>2
<1>15. \A i \in Srch!Ids \ (missed' \cup overtaken') : version[i] > 0 =>
         (docs[i] = version[i] \/ WillRenew(r, i) \/ i \in missed => docs'[i] = version[i] \/ WillRenew(r, i)')
  BY <1>1, <1>14 DEF WillRenew
<1>16. \A b \in Balances : version[b] > 0 =>
         (docs[b] > 0 \/ WillWrite(r, b) => docs'[b] > 0 \/ WillWrite(r, b)')
  BY <1>14, CollectionFacts DEF WillWrite
<1>17. \A t \in Transfers \ early' : docs'[t] > 0 => docs[t] > 0 /\ t \notin early
  <2> SUFFICES ASSUME NEW t \in Transfers \ early', docs'[t] > 0 PROVE docs[t] > 0 /\ t \notin early
    OBVIOUS
  <2>1. t \in Srch!Ids /\ t \notin early
    BY <1>1, CollectionFacts
  <2>2. docs'[t] = 0 \/ docs'[t] = docs[t]
    BY <1>12, <2>1
  <2> QED
    BY <2>1, <2>2
<1>18. /\ collection' \subseteq Srch!Collections /\ service' \in Runs \cup {Nothing} /\ overtaken' \subseteq Srch!Ids
       /\ early' \subseteq Transfers /\ broken' \in BOOLEAN /\ overtaken \subseteq overtaken' /\ (broken => broken')
  BY <1>1 DEF SearchStrong, SearchTypes
<1> QED
  BY <1>1, <1>6, <1>8, <1>10, <1>11, <1>13, <1>15, <1>16, <1>17, <1>18, RunStep

\* A document is written over.
LEMMA UpsertFacts ==
  ASSUME Srch!SearchAssumption, SearchStrong, NEW a, Was(a), Srch!UpsertDocument(a),
         UNCHANGED <<version, collection>>
  PROVE  /\ docs' \in [Srch!Ids -> 0 .. MaxVersion] /\ DocsOK' /\ a.id \in Srch!Ids
         /\ overtaken' \subseteq Srch!Ids /\ overtaken \subseteq overtaken'
         /\ docs'[a.id] > 0 /\ \A i \in Srch!Ids \ {a.id} : docs'[i] = docs[i]
         /\ \A i \in Srch!Ids \ overtaken' : docs[i] = version[i] => docs'[i] = version[i]
         /\ \A i \in Srch!Ids : docs[i] > 0 => docs'[i] > 0
         /\ \A i \in Srch!Ids : a = Srch!Item(i) => docs'[i] = version[i]
         /\ missed' \subseteq missed /\ \A i \in missed \ missed' : docs'[i] = version[i]
<1>1. PICK x, v : x = a.id /\ v = a.version
  OBVIOUS
<1>2. x \in Srch!Ids /\ v \in 1 .. MaxVersion /\ v <= version[x]
  BY <1>1 DEF Was, Srch!Items
<1>3. /\ Srch!CollectionOf(x) \in collection /\ docs' = [docs EXCEPT ![x] = v]
      /\ missed' = IF v = version[x] THEN missed \ {x} ELSE missed
      /\ overtaken' = IF docs[x] > v THEN overtaken \cup {x} ELSE overtaken
  BY <1>1 DEF Srch!UpsertDocument
<1>4. docs \in [Srch!Ids -> 0 .. MaxVersion] /\ version \in [Srch!Ids -> 0 .. MaxVersion] /\ MaxVersion \in Nat
  BY CollectionFacts DEF SearchStrong, SearchTypes
<1>5. docs'[x] = v /\ \A i \in Srch!Ids \ {x} : docs'[i] = docs[i]
  BY <1>2, <1>3, <1>4
<1>6. v \in Nat /\ v > 0 /\ v \in 0 .. MaxVersion
  BY <1>2, <1>4
<1>7. docs' \in [Srch!Ids -> 0 .. MaxVersion]
  BY <1>3, <1>4, <1>6
<1>8. overtaken' \subseteq Srch!Ids /\ overtaken \subseteq overtaken'
  BY <1>2, <1>3 DEF SearchStrong, SearchTypes
<1>9. DocsOK'
  <2> SUFFICES ASSUME NEW i \in Srch!Ids
               PROVE  docs'[i] <= version[i] /\ (docs'[i] > 0 => Srch!CollectionOf(i) \in collection)
    BY DEF DocsOK, Srch!CollectionOf, Srch!Ids
  <2>1. CASE i = x
    BY <1>2, <1>3, <1>5, <2>1
  <2>2. CASE i # x
    <3>1. docs'[i] = docs[i]
      BY <1>5, <2>2
    <3> QED
      BY <3>1 DEF SearchStrong, DocsOK
  <2> QED
    BY <2>1, <2>2
<1>10. ASSUME NEW i \in Srch!Ids \ overtaken', docs[i] = version[i] PROVE docs'[i] = version[i]
  <2>1. CASE i = x
    <3>1. ~(docs[x] > v)
      BY <1>3, <1>10, <2>1
    <3>2. docs[x] \in Nat /\ version[x] \in Nat
      BY <1>2, <1>4
    <3>3. docs[x] = version[x]
      BY <1>10, <2>1
    <3>4. v = version[x]
      BY <1>2, <1>6, <3>1, <3>2, <3>3
    <3> QED
      BY <1>5, <2>1, <3>4
  <2>2. CASE i # x
    BY <1>5, <1>10, <2>2
  <2> QED
    BY <2>1, <2>2
<1>11. ASSUME NEW i \in Srch!Ids, docs[i] > 0 PROVE docs'[i] > 0
  <2>1. CASE i = x
    BY <1>5, <1>6, <2>1
  <2>2. CASE i # x
    <3>1. docs'[i] = docs[i]
      BY <1>5, <2>2
    <3> QED
      BY <1>11, <3>1
  <2> QED
    BY <2>1, <2>2
<1>12. ASSUME NEW i \in Srch!Ids, a = Srch!Item(i) PROVE docs'[i] = version[i]
  <2>1. a.id = i /\ a.version = version[i]
    BY <1>12 DEF Srch!Item
  <2> QED
    BY <1>1, <1>5, <2>1
<1>13. docs'[x] > 0
  BY <1>5, <1>6
<1>14. missed' \subseteq missed /\ \A i \in missed \ missed' : docs'[i] = version[i]
  BY <1>3, <1>5
<1> QED
  BY <1>1, <1>2, <1>5, <1>7, <1>8, <1>9, <1>10, <1>11, <1>12, <1>13, <1>14

\* A row of the page is written, or fails.
LEMMA IndexRowSearch ==
  ASSUME Srch!SearchAssumption, SearchStrong, NEW r \in Runs, Srch!IndexRow(r) PROVE SearchStrong'
<1>1. PICK g, a, l : g = run[r].page /\ a = Head(g) /\ l = Tail(g)
  OBVIOUS
<1>2. PICK n : n = [run[r] EXCEPT !.page = l]
  OBVIOUS
<1>3. /\ g # <<>> /\ run' = [run EXCEPT ![r] = n]
      /\ \/ Srch!UpsertDocument(a) /\ UNCHANGED broken
         \/ broken' = TRUE /\ UNCHANGED <<docs, missed, overtaken>>
      /\ early' = IF a.id \in Transfers /\ docs[BalanceOf[a.id]] = 0 THEN early \cup {a.id} ELSE early
      /\ UNCHANGED <<table, version, unread, sending, queue, indexer, collection, service>>
  BY <1>1, <1>2 DEF Srch!IndexRow, Srch!Advance, Srch!dbVars, Srch!taskVars
<1>4. run[r] \in RunStates /\ RunOK(r) /\ run \in [Runs -> RunStates]
  BY DEF SearchStrong, SearchTypes
<1>5. g \in Seq(Srch!Items)
  BY <1>1, <1>4 DEF RunStates
<1>6. /\ Len(g) \in Nat /\ Len(g) > 0 /\ l \in Seq(Srch!Items) /\ Len(l) = Len(g) - 1 /\ a = g[1]
      /\ \A k \in 1 .. Len(l) : l[k] = g[k + 1] /\ k + 1 \in 1 .. Len(g)
  BY <1>1, <1>3, <1>5
<1>7. /\ n \in RunStates /\ n.status = run[r].status /\ n.phase = run[r].phase /\ n.offset = run[r].offset
      /\ n.page = l
  <2>1. n = [status |-> run[r].status, phase |-> run[r].phase, offset |-> run[r].offset, page |-> l]
    BY <1>2, <1>4 DEF RunStates
  <2>2. n \in RunStates
    BY <1>4, <1>6, <2>1 DEF RunStates
  <2> QED
    BY <2>1, <2>2
<1>8. run'[r] = n
  BY <1>3, <1>4
<1>9. Was(a)
  <2>1. 1 \in 1 .. Len(g)
    BY <1>6
  <2> QED
    BY <1>1, <1>4, <1>6, <2>1 DEF RunOK
<1>10. RunOK(r)'
  <2>1. ASSUME NEW k \in 1 .. Len(l) PROVE Was(l[k])' /\ Srch!CollectionOf(l[k].id)' = run[r].phase
    <3>1. Was(l[k]) /\ Srch!CollectionOf(l[k].id) = run[r].phase
      BY <1>1, <1>4, <1>6 DEF RunOK
    <3> QED
      BY <1>3, <3>1 DEF Was, Srch!Items, Srch!Ids, Srch!CollectionOf
  <2>2. run[r].phase \in Srch!Collections
    BY <1>1, <1>3, <1>4 DEF RunOK
  <2> QED
    BY <1>3, <1>4, <1>7, <1>8, <2>1, <2>2 DEF RunOK, Srch!CollectionOf, Srch!Collections
<1>11. early' \subseteq Transfers /\ early \subseteq early'
  BY <1>3 DEF SearchStrong, SearchTypes
<1>12. collection' \subseteq Srch!Collections /\ service' \in Runs \cup {Nothing}
  BY <1>3 DEF SearchStrong, SearchTypes
<1>13. ASSUME NEW i \in Srch!Ids, Ahead(r, i) PROVE Ahead(r, i)'
  BY <1>3, <1>7, <1>8, <1>13 DEF Ahead, Before, Srch!CollectionOf
<1>14. ASSUME NEW k \in 1 .. Len(g), k # 1 PROVE \E j \in 1 .. Len(l) : l[j] = g[k]
  <2>1. k - 1 \in 1 .. Len(l) /\ (k - 1) + 1 = k
    BY <1>6, <1>14
  <2> QED
    BY <1>6, <2>1
<1>15. CASE Srch!UpsertDocument(a) /\ UNCHANGED broken
  <2>1. /\ docs' \in [Srch!Ids -> 0 .. MaxVersion] /\ DocsOK' /\ a.id \in Srch!Ids
        /\ overtaken' \subseteq Srch!Ids /\ overtaken \subseteq overtaken'
        /\ docs'[a.id] > 0 /\ \A i \in Srch!Ids \ {a.id} : docs'[i] = docs[i]
        /\ \A i \in Srch!Ids \ overtaken' : docs[i] = version[i] => docs'[i] = version[i]
        /\ \A i \in Srch!Ids : docs[i] > 0 => docs'[i] > 0
        /\ \A i \in Srch!Ids : a = Srch!Item(i) => docs'[i] = version[i]
        /\ missed' \subseteq missed /\ \A i \in missed \ missed' : docs'[i] = version[i]
    BY <1>3, <1>9, <1>15, UpsertFacts
  <2>2. ASSUME NEW i \in Srch!Ids, WillRenew(r, i) PROVE docs'[i] = version[i] \/ WillRenew(r, i)'
    <3>1. CASE Ahead(r, i)
      BY <1>13, <3>1 DEF WillRenew
    <3>2. ASSUME NEW k \in 1 .. Len(g), g[k] = Srch!Item(i) PROVE docs'[i] = version[i] \/ WillRenew(r, i)'
      <4>1. CASE k = 1
        BY <1>6, <2>1, <3>2, <4>1
      <4>2. CASE k # 1
        <5>1. PICK j \in 1 .. Len(l) : l[j] = Srch!Item(i)
          BY <1>14, <3>2, <4>2
        <5>2. Srch!Item(i)' = Srch!Item(i)
          BY <1>3 DEF Srch!Item
        <5> QED
          BY <1>7, <1>8, <5>1, <5>2 DEF WillRenew
      <4> QED
        BY <4>1, <4>2
    <3> QED
      BY <1>1, <2>2, <3>1, <3>2 DEF WillRenew
  <2>3. ASSUME NEW i \in Srch!Ids, WillWrite(r, i) PROVE docs'[i] > 0 \/ WillWrite(r, i)'
    <3>1. CASE Ahead(r, i)
      BY <1>13, <3>1 DEF WillWrite
    <3>2. ASSUME NEW k \in 1 .. Len(g), g[k].id = i PROVE docs'[i] > 0 \/ WillWrite(r, i)'
      <4>1. CASE k = 1
        BY <1>6, <2>1, <3>2, <4>1
      <4>2. CASE k # 1
        <5>1. PICK j \in 1 .. Len(l) : l[j].id = i
          BY <1>14, <3>2, <4>2
        <5> QED
          BY <1>7, <1>8, <5>1 DEF WillWrite
      <4> QED
        BY <4>1, <4>2
    <3> QED
      BY <1>1, <2>3, <3>1, <3>2 DEF WillWrite
  <2>4. \A i \in Srch!Ids \ (missed' \cup overtaken') : version[i] > 0 =>
          (docs[i] = version[i] \/ WillRenew(r, i) \/ i \in missed => docs'[i] = version[i] \/ WillRenew(r, i)')
    BY <2>1, <2>2
  <2>5. \A b \in Balances : version[b] > 0 =>
          (docs[b] > 0 \/ WillWrite(r, b) => docs'[b] > 0 \/ WillWrite(r, b)')
    BY <2>1, <2>3, CollectionFacts
  <2>6. ASSUME NEW t \in Transfers \ early', docs'[t] > 0
        PROVE  (docs[t] > 0 /\ t \notin early) \/ Safe(BalanceOf[t])'
    <3>1. CASE t = a.id
      <4>1. PICK b : b = BalanceOf[t]
        OBVIOUS
      <4>2. b \in Balances /\ b \in Srch!Ids /\ b # a.id
        BY <3>1, <4>1, CollectionFacts
      <4>3. docs[b] # 0
        BY <1>3, <2>6, <3>1, <4>1
      <4>4. docs'[b] = docs[b] /\ docs[b] \in Nat
        BY <2>1, <4>2, CollectionFacts DEF SearchStrong, SearchTypes
      <4>5. docs'[b] > 0
        BY <4>3, <4>4
      <4> QED
        BY <4>1, <4>5 DEF Safe
    <3>2. CASE t # a.id
      <4>1. t \in Srch!Ids /\ t \notin early
        BY <1>11, CollectionFacts
      <4>2. docs'[t] = docs[t]
        BY <2>1, <3>2, <4>1
      <4> QED
        BY <2>6, <4>1, <4>2
    <3> QED
      BY <3>1, <3>2
  <2>7. broken' \in BOOLEAN /\ (broken => broken')
    BY <1>15 DEF SearchStrong, SearchTypes
  <2> QED
    BY <1>3, <1>7, <1>10, <1>11, <1>12, <2>1, <2>4, <2>5, <2>6, <2>7, RunStep
<1>16. CASE broken' = TRUE /\ UNCHANGED <<docs, missed, overtaken>>
  <2>1. /\ docs' \in [Srch!Ids -> 0 .. MaxVersion] /\ overtaken' \subseteq Srch!Ids
        /\ overtaken \subseteq overtaken' /\ missed' \subseteq missed
    BY <1>16 DEF SearchStrong, SearchTypes
  <2>2. DocsOK'
    BY <1>3, <1>16 DEF SearchStrong, DocsOK, Srch!CollectionOf, Srch!Ids
  <2>3. broken' \in BOOLEAN /\ broken'
    BY <1>16
  <2> QED
    BY <1>3, <1>7, <1>10, <1>11, <1>12, <2>1, <2>2, <2>3, RunStep
<1> QED
  BY <1>3, <1>15, <1>16

\* A run fails: only the types are left to show.
LEMMA FailSearch ==
  ASSUME Srch!SearchAssumption, SearchStrong, NEW r \in Runs, Srch!FailWithError(r) PROVE SearchStrong'
<1>1. PICK n : n = [run[r] EXCEPT !.status = "failed", !.phase = "done", !.page = <<>>]
  OBVIOUS
<1>2. /\ run' = [run EXCEPT ![r] = n] /\ broken' = TRUE
      /\ UNCHANGED <<table, version, unread, sending, queue, indexer, missed, collection, docs, overtaken, early, service>>
  BY <1>1 DEF Srch!FailWithError, Srch!Advance, Srch!dbVars, Srch!taskVars
<1>3. run[r] \in RunStates /\ run \in [Runs -> RunStates]
  BY DEF SearchStrong, SearchTypes
<1>4. n \in RunStates /\ n.status = "failed" /\ n.phase = "done" /\ n.page = <<>>
  <2>1. n = [status |-> "failed", phase |-> "done", offset |-> run[r].offset, page |-> <<>>]
    BY <1>1, <1>3 DEF RunStates
  <2>2. <<>> \in Seq(Srch!Items)
    OBVIOUS
  <2>3. n \in RunStates
    BY <1>3, <2>1, <2>2 DEF RunStates, RunPhases
  <2> QED
    BY <2>1, <2>3
<1>5. run'[r] = n
  BY <1>2, <1>3
<1>6. RunOK(r)'
  BY <1>4, <1>5 DEF RunOK, Srch!Collections
<1>7. /\ collection' \subseteq Srch!Collections /\ docs' \in [Srch!Ids -> 0 .. MaxVersion]
      /\ service' \in Runs \cup {Nothing} /\ overtaken' \subseteq Srch!Ids /\ early' \subseteq Transfers
      /\ overtaken \subseteq overtaken'
  BY <1>2 DEF SearchStrong, SearchTypes
<1>8. DocsOK'
  BY <1>2 DEF SearchStrong, DocsOK, Srch!CollectionOf, Srch!Ids
<1>9. broken' \in BOOLEAN /\ broken'
  BY <1>2
<1> QED
  BY <1>2, <1>4, <1>6, <1>7, <1>8, <1>9, RunStep

\* A step of an index worker: documents are only written, and what the
\* worker or the queue had for a row is still there or has been written.
LEMMA IndexerStep ==
  ASSUME Srch!SearchAssumption, SearchStrong, NEW w \in Indexers,
         NEW n \in [items : Seq(Srch!Items), left : Seq(Srch!Items)],
         UNCHANGED <<table, version, unread, run, service, early, broken>>, missed' \subseteq Srch!Ids,
         indexer' = [indexer EXCEPT ![w] = n], IndexerOK(w)', \A q \in (sending \cup queue)' \ (sending \cup queue) : TaskOK(q),
         collection' \subseteq Srch!Collections, docs' \in [Srch!Ids -> 0 .. MaxVersion], DocsOK',
         overtaken' \subseteq Srch!Ids, overtaken \subseteq overtaken',
         \A i \in Srch!Ids : docs[i] > 0 => docs'[i] > 0,
         \A i \in Srch!Ids \ overtaken' : docs[i] = version[i] => docs'[i] = version[i],
         \A i \in missed \ missed' : docs'[i] = version[i],
         \A i \in Srch!Ids \ (missed' \cup overtaken') :
           \/ \E q \in sending \cup queue : \E k \in 1 .. Len(q) : q[k] = Srch!Item(i)
           \/ \E k \in 1 .. Len(indexer[w].left) : indexer[w].left[k] = Srch!Item(i)
           => \/ docs'[i] = version[i]
              \/ \E q \in (sending \cup queue)' : \E k \in 1 .. Len(q) : q[k] = Srch!Item(i)
              \/ \E k \in 1 .. Len(n.left) : n.left[k] = Srch!Item(i),
         ~broken => \A t \in Transfers \ early : docs'[t] > 0 => docs[t] > 0 \/ Safe(BalanceOf[t])
  PROVE  SearchStrong'
<1>1. /\ Srch!Items' = Srch!Items /\ RunStates' = RunStates /\ Srch!Busy' = Srch!Busy
      /\ Srch!Ids' = Srch!Ids /\ Srch!Collections' = Srch!Collections
  BY DEF Srch!Items, RunStates, Srch!Ids, Srch!Busy, RunPhases, Srch!Collections
<1>2. indexer \in [Indexers -> [items : Seq(Srch!Items), left : Seq(Srch!Items)]]
  BY DEF SearchStrong, SearchTypes
<1>3. /\ indexer' \in [Indexers -> [items : Seq(Srch!Items), left : Seq(Srch!Items)]] /\ indexer'[w] = n
      /\ \A v \in Indexers \ {w} : indexer'[v] = indexer[v]
  BY <1>2
<1>4. SearchTypes'
  BY <1>1, <1>3 DEF SearchStrong, SearchTypes
<1>5. TableOK'
  BY <1>1 DEF SearchStrong, TableOK, RowsListed, Srch!CollectionOf
<1>6. ASSUME NEW a PROVE Was(a)' <=> Was(a)
  BY <1>1 DEF Was
<1>7. ASSUME NEW q PROVE TaskOK(q)' <=> TaskOK(q)
  BY <1>6 DEF TaskOK
<1>8. \A q \in (sending \cup queue)' : TaskOK(q)'
  BY <1>7 DEF SearchStrong
<1>9. \A r \in Runs : RunOK(r)'
  BY <1>1, <1>6 DEF SearchStrong, RunOK, Srch!CollectionOf
<1>10. ASSUME NEW r \in Runs, NEW i
       PROVE  (WillWrite(r, i)' <=> WillWrite(r, i)) /\ (WillRenew(r, i)' <=> WillRenew(r, i))
  BY DEF WillWrite, WillRenew, Ahead, Before, Srch!CollectionOf, Srch!Item
<1>11. ASSUME NEW b \in Srch!Ids, Safe(b) PROVE Safe(b)'
  BY <1>10, <1>11 DEF Safe
<1>12. ASSUME NEW v \in Indexers PROVE IndexerOK(v)'
  <2>1. CASE v = w
    BY <2>1
  <2>2. CASE v # w
    <3>1. IndexerOK(v) /\ indexer'[v] = indexer[v]
      BY <1>3, <2>2 DEF SearchStrong
    <3>2. CASE indexer[v] = Srch!Busy
      BY <1>1, <3>1, <3>2 DEF IndexerOK
    <3>3. CASE TaskOK(indexer[v].items) /\ indexer[v].left = indexer[v].items
      BY <1>7, <3>1, <3>3 DEF IndexerOK
    <3>4. ASSUME NEW a, NEW b, TaskOK(indexer[v].items),
                 indexer[v] = [items |-> <<a, b>>, left |-> <<b>>], ~broken => Safe(a.id)
          PROVE  IndexerOK(v)'
      <4>1. indexer[v].items = <<a, b>>
        BY <3>4
      <4>2. TaskOK(<<a, b>>)
        BY <3>4, <4>1
      <4>3. a.id \in Srch!Ids
        BY <4>2, PairFacts, CollectionFacts
      <4>4. ~broken' => Safe(a.id)'
        BY <1>11, <3>4, <4>3
      <4> QED
        BY <1>7, <3>1, <3>4, <4>4 DEF IndexerOK
    <3> QED
      BY <3>1, <3>2, <3>3, <3>4 DEF IndexerOK
  <2> QED
    BY <2>1, <2>2
<1>13. ASSUME ~broken', NEW i \in Srch!Ids \ (missed' \cup overtaken'), version'[i] > 0
       PROVE  docs'[i] = version'[i] \/ Unindexed(i)'
  <2>1. Srch!Item(i)' = Srch!Item(i) /\ version'[i] = version[i]
    BY DEF Srch!Item
  <2>2. docs[i] = version[i] \/ Unindexed(i) \/ i \in missed
    BY <1>13, <2>1 DEF SearchStrong
  <2>8. CASE i \in missed
    BY <1>13, <2>1, <2>8
  <2>3. CASE docs[i] = version[i]
    BY <2>1, <2>3
  <2>4. CASE i \in unread
    BY <2>4 DEF Unindexed
  <2>5. CASE \/ \E q \in sending \cup queue : \E k \in 1 .. Len(q) : q[k] = Srch!Item(i)
             \/ \E k \in 1 .. Len(indexer[w].left) : indexer[w].left[k] = Srch!Item(i)
    <3>1. \/ docs'[i] = version[i]
          \/ \E q \in (sending \cup queue)' : \E k \in 1 .. Len(q) : q[k] = Srch!Item(i)
          \/ \E k \in 1 .. Len(n.left) : n.left[k] = Srch!Item(i)
      BY <2>5
    <3> QED
      BY <1>3, <2>1, <3>1 DEF Unindexed
  <2>6. ASSUME NEW v \in Indexers \ {w}, NEW k \in 1 .. Len(indexer[v].left), indexer[v].left[k] = Srch!Item(i)
        PROVE  Unindexed(i)'
    <3>1. indexer'[v] = indexer[v]
      BY <1>3
    <3> QED
      BY <2>1, <2>6, <3>1 DEF Unindexed
  <2>7. CASE \E r \in Runs : WillRenew(r, i)
    BY <1>10, <2>7 DEF Unindexed
  <2> QED
    BY <2>2, <2>3, <2>4, <2>5, <2>6, <2>7, <2>8 DEF Unindexed
<1>14. ASSUME ~broken', NEW t \in Transfers \ early', docs'[t] > 0 PROVE Safe(BalanceOf[t])'
  <2>1. Safe(BalanceOf[t])
    BY <1>14 DEF SearchStrong
  <2> QED
    BY <1>11, <2>1, CollectionFacts
<1> QED
  BY <1>1, <1>4, <1>5, <1>8, <1>9, <1>12, <1>13, <1>14 DEF SearchStrong

\* A worker takes a task.
LEMMA IndexDataSearch ==
  ASSUME Srch!SearchAssumption, SearchStrong, NEW w \in Indexers, NEW taken \in queue, Srch!IndexData(w, taken)
  PROVE  SearchStrong'
<1>1. PICK n : n = [items |-> taken, left |-> taken]
  OBVIOUS
<1>2. /\ indexer[w] = Srch!Busy /\ queue' = queue \ {taken} /\ indexer' = [indexer EXCEPT ![w] = n]
      /\ collection' = Srch!Collections
      /\ UNCHANGED <<table, version, unread, sending, missed, docs, overtaken, early, broken, run, service>>
  BY <1>1 DEF Srch!IndexData, Srch!InOrder, Srch!runVars
<1>3. TaskOK(taken)
  BY DEF SearchStrong
<1>4. taken \in Seq(Srch!Items)
  <2>1. ASSUME NEW a, taken = <<a>>, Was(a) PROVE taken \in Seq(Srch!Items)
    BY <2>1 DEF Was
  <2>2. ASSUME NEW a, NEW b, taken = <<a, b>>, Was(a), Was(b) PROVE taken \in Seq(Srch!Items)
    BY <2>2 DEF Was
  <2> QED
    BY <1>3, <2>1, <2>2 DEF TaskOK
<1>5. n \in [items : Seq(Srch!Items), left : Seq(Srch!Items)] /\ n.items = taken /\ n.left = taken
  BY <1>1, <1>4
<1>6. indexer'[w] = n
  BY <1>2 DEF SearchStrong, SearchTypes
<1>7. TaskOK(taken)'
  BY <1>2, <1>3 DEF TaskOK, Was, Srch!Items, Srch!Ids
<1>8. IndexerOK(w)'
  BY <1>5, <1>6, <1>7 DEF IndexerOK
<1>9. indexer[w].left = <<>> /\ Len(<<>>) = 0
  BY <1>2 DEF Srch!Busy
<1>10. \A i \in Srch!Ids \ (missed' \cup overtaken') :
         \/ \E q \in sending \cup queue : \E k \in 1 .. Len(q) : q[k] = Srch!Item(i)
         \/ \E k \in 1 .. Len(indexer[w].left) : indexer[w].left[k] = Srch!Item(i)
         => \/ docs'[i] = version[i]
            \/ \E q \in (sending \cup queue)' : \E k \in 1 .. Len(q) : q[k] = Srch!Item(i)
            \/ \E k \in 1 .. Len(n.left) : n.left[k] = Srch!Item(i)
  BY <1>2, <1>5, <1>9
<1>11. /\ docs' \in [Srch!Ids -> 0 .. MaxVersion] /\ overtaken' \subseteq Srch!Ids /\ missed' \subseteq Srch!Ids
       /\ overtaken \subseteq overtaken' /\ collection' \subseteq Srch!Collections
  BY <1>2 DEF SearchStrong, SearchTypes
<1>12. DocsOK'
  BY <1>2, CollectionFacts DEF SearchStrong, DocsOK, Srch!CollectionOf, Srch!Ids
<1>13. \A q \in (sending \cup queue)' \ (sending \cup queue) : TaskOK(q)
  BY <1>2
<1> QED
  BY <1>2, <1>5, <1>8, <1>10, <1>11, <1>12, <1>13, IndexerStep

\* What a worker with a task has left of it.
LEMMA WorkerFacts ==
  ASSUME Srch!SearchAssumption, SearchStrong, NEW w \in Indexers, indexer[w].left # <<>>
  PROVE  /\ TaskOK(indexer[w].items)
         /\ \/ \E a : /\ indexer[w].left = <<a>> /\ Was(a)
                      /\ \E k \in 1 .. Len(indexer[w].items) : indexer[w].items[k] = a
                      /\ \/ a.id \in Balances
                         \/ a.id \in Transfers /\ (~broken => Safe(BalanceOf[a.id]))
            \/ \E a, b : /\ indexer[w] = [items |-> <<a, b>>, left |-> <<a, b>>]
                         /\ TaskOK(<<a, b>>)
<1>1. IndexerOK(w) /\ indexer[w] # Srch!Busy
  BY DEF SearchStrong, Srch!Busy
<1>2. TaskOK(indexer[w].items)
  BY <1>1 DEF IndexerOK
<1>3. PICK q : q = indexer[w].items
  OBVIOUS
<1>4. indexer[w] \in [items : Seq(Srch!Items), left : Seq(Srch!Items)]
  BY DEF SearchStrong, SearchTypes
<1>5. CASE indexer[w].left = indexer[w].items
  <2>1. ASSUME NEW a, q = <<a>>, Was(a), a.id \in Balances
        PROVE  \E k \in 1 .. Len(q) : q[k] = a
    <3>1. Len(<<a>>) = 1 /\ <<a>>[1] = a /\ 1 \in 1 .. 1
      OBVIOUS
    <3> QED
      BY <2>1, <3>1
  <2>2. ASSUME NEW a, NEW b, q = <<a, b>>
        PROVE  indexer[w] = [items |-> <<a, b>>, left |-> <<a, b>>]
    BY <1>3, <1>4, <1>5, <2>2
  <2>3. CASE \E a : q = <<a>> /\ Was(a) /\ a.id \in Balances
    <3>1. PICK a : q = <<a>> /\ Was(a) /\ a.id \in Balances
      BY <2>3
    <3>2. indexer[w].left = <<a>> /\ \E k \in 1 .. Len(indexer[w].items) : indexer[w].items[k] = a
      BY <1>3, <1>5, <2>1, <3>1
    <3> QED
      BY <1>2, <3>1, <3>2
  <2>4. CASE \E a, b : q = <<a, b>>
    <3>1. PICK a, b : q = <<a, b>>
      BY <2>4
    <3>2. indexer[w] = [items |-> <<a, b>>, left |-> <<a, b>>] /\ TaskOK(<<a, b>>)
      BY <1>2, <1>3, <2>2, <3>1
    <3> QED
      BY <1>2, <3>2
  <2>5. (\E a : q = <<a>> /\ Was(a) /\ a.id \in Balances) \/ \E a, b : q = <<a, b>>
    BY <1>2, <1>3 DEF TaskOK
  <2> QED
    BY <2>3, <2>4, <2>5
<1>6. ASSUME NEW a, NEW b, indexer[w] = [items |-> <<a, b>>, left |-> <<b>>], ~broken => Safe(a.id)
      PROVE  /\ indexer[w].left = <<b>> /\ Was(b) /\ b.id \in Transfers
             /\ (~broken => Safe(BalanceOf[b.id]))
             /\ \E k \in 1 .. Len(indexer[w].items) : indexer[w].items[k] = b
  <2>1. indexer[w].left = <<b>> /\ indexer[w].items = <<a, b>>
    BY <1>6
  <2>2. TaskOK(<<a, b>>)
    BY <1>2, <2>1
  <2>3. Was(b) /\ b.id \in Transfers /\ a.id = BalanceOf[b.id]
    BY <2>2, PairFacts
  <2>4. Len(<<a, b>>) = 2 /\ <<a, b>>[2] = b /\ 2 \in 1 .. 2
    OBVIOUS
  <2> QED
    BY <1>6, <2>1, <2>3, <2>4
<1> QED
  BY <1>1, <1>2, <1>5, <1>6 DEF IndexerOK

\* A worker writes the next document of its task.
LEMMA HandleNotificationSearch ==
  ASSUME Srch!SearchAssumption, SearchStrong, NEW w \in Indexers, Srch!HandleNotification(w)
  PROVE  SearchStrong'
<1>1. PICK l, a : l = indexer[w].left /\ a = Head(l)
  OBVIOUS
<1>2. PICK n : n = IF Len(l) = 1 THEN Srch!Busy ELSE [indexer[w] EXCEPT !.left = Tail(l)]
  OBVIOUS
<1>3. /\ l # <<>> /\ Srch!UpsertDocument(a) /\ indexer' = [indexer EXCEPT ![w] = n]
      /\ UNCHANGED <<table, version, unread, sending, queue, collection, early, broken, run, service>>
  BY <1>1, <1>2 DEF Srch!HandleNotification, Srch!runVars
<1>4. /\ indexer[w] \in [items : Seq(Srch!Items), left : Seq(Srch!Items)]
      /\ indexer \in [Indexers -> [items : Seq(Srch!Items), left : Seq(Srch!Items)]]
  BY DEF SearchStrong, SearchTypes
<1>5. indexer'[w] = n
  BY <1>3, <1>4
<1>6. CASE \E y : /\ l = <<y>> /\ Was(y)
                  /\ \/ y.id \in Balances
                     \/ y.id \in Transfers /\ (~broken => Safe(BalanceOf[y.id]))
  <2>1. l = <<a>> /\ Was(a) /\ (a.id \in Balances \/ (a.id \in Transfers /\ (~broken => Safe(BalanceOf[a.id]))))
    BY <1>1, <1>6
  <2>2. Len(l) = 1 /\ l[1] = a
    BY <2>1
  <2>3. n = Srch!Busy
    BY <1>2, <2>2
  <2>4. n \in [items : Seq(Srch!Items), left : Seq(Srch!Items)]
    BY <2>3 DEF Srch!Busy
  <2>5. IndexerOK(w)'
    BY <1>5, <2>3 DEF IndexerOK, Srch!Busy
  <2>6. /\ docs' \in [Srch!Ids -> 0 .. MaxVersion] /\ DocsOK' /\ a.id \in Srch!Ids
        /\ overtaken' \subseteq Srch!Ids /\ overtaken \subseteq overtaken'
        /\ docs'[a.id] > 0 /\ \A i \in Srch!Ids \ {a.id} : docs'[i] = docs[i]
        /\ \A i \in Srch!Ids \ overtaken' : docs[i] = version[i] => docs'[i] = version[i]
        /\ \A i \in Srch!Ids : docs[i] > 0 => docs'[i] > 0
        /\ \A i \in Srch!Ids : a = Srch!Item(i) => docs'[i] = version[i]
        /\ missed' \subseteq missed /\ \A i \in missed \ missed' : docs'[i] = version[i]
    BY <1>3, <2>1, UpsertFacts
  <2>7. \A i \in Srch!Ids \ (missed' \cup overtaken') :
          \/ \E q \in sending \cup queue : \E k \in 1 .. Len(q) : q[k] = Srch!Item(i)
          \/ \E k \in 1 .. Len(indexer[w].left) : indexer[w].left[k] = Srch!Item(i)
          => \/ docs'[i] = version[i]
             \/ \E q \in (sending \cup queue)' : \E k \in 1 .. Len(q) : q[k] = Srch!Item(i)
             \/ \E k \in 1 .. Len(n.left) : n.left[k] = Srch!Item(i)
    <3>1. \A k \in 1 .. Len(l) : l[k] = a
      BY <2>2
    <3> QED
      BY <1>1, <1>3, <2>6, <3>1
  <2>8. ASSUME ~broken, NEW t \in Transfers \ early, docs'[t] > 0 PROVE docs[t] > 0 \/ Safe(BalanceOf[t])
    <3>1. t \in Srch!Ids /\ t \notin Balances
      BY CollectionFacts
    <3> QED
      BY <2>1, <2>6, <2>8, <3>1
  <2>9. collection' \subseteq Srch!Collections /\ (sending \cup queue)' \ (sending \cup queue) = {} /\ missed' \subseteq Srch!Ids
    BY <1>3, <2>6 DEF SearchStrong, SearchTypes
  <2> QED
    BY <1>3, <2>4, <2>5, <2>6, <2>7, <2>8, <2>9, IndexerStep
<1>7. ASSUME NEW x, NEW y, indexer[w] = [items |-> <<x, y>>, left |-> <<x, y>>], TaskOK(<<x, y>>)
      PROVE  SearchStrong'
  <2>1. l = <<x, y>> /\ indexer[w].items = <<x, y>>
    BY <1>1, <1>7
  <2>2. a = x /\ Tail(l) = <<y>> /\ Len(l) = 2 /\ l[1] = x /\ l[2] = y
    BY <1>1, <2>1
  <2>3. Was(a) /\ Was(y) /\ a.id \in Balances
    BY <1>7, <2>2, PairFacts
  <2>4. n = [items |-> <<x, y>>, left |-> <<y>>]
    <3>1. Len(l) # 1
      BY <2>2
    <3>2. n = [indexer[w] EXCEPT !.left = Tail(l)]
      BY <1>2, <3>1
    <3>3. PICK t : t = Tail(l)
      OBVIOUS
    <3>4. n = [indexer[w] EXCEPT !.left = t]
      BY <3>2, <3>3
    <3>5. n = [items |-> indexer[w].items, left |-> t]
      BY <1>4, <3>4
    <3> QED
      BY <2>1, <2>2, <3>3, <3>5
  <2>5. <<y>> \in Seq(Srch!Items) /\ n.left = <<y>>
    BY <2>3, <2>4 DEF Was
  <2>6. n \in [items : Seq(Srch!Items), left : Seq(Srch!Items)]
    BY <1>4, <2>1, <2>4, <2>5
  <2>7. /\ docs' \in [Srch!Ids -> 0 .. MaxVersion] /\ DocsOK' /\ a.id \in Srch!Ids
        /\ overtaken' \subseteq Srch!Ids /\ overtaken \subseteq overtaken'
        /\ docs'[a.id] > 0 /\ \A i \in Srch!Ids \ {a.id} : docs'[i] = docs[i]
        /\ \A i \in Srch!Ids \ overtaken' : docs[i] = version[i] => docs'[i] = version[i]
        /\ \A i \in Srch!Ids : docs[i] > 0 => docs'[i] > 0
        /\ \A i \in Srch!Ids : a = Srch!Item(i) => docs'[i] = version[i]
        /\ missed' \subseteq missed /\ \A i \in missed \ missed' : docs'[i] = version[i]
    BY <1>3, <2>3, UpsertFacts
  <2>8. IndexerOK(w)'
    <3>1. TaskOK(<<x, y>>)'
      BY <1>3, <1>7 DEF TaskOK, Was, Srch!Items, Srch!Ids
    <3>2. Safe(x.id)'
      BY <2>2, <2>7 DEF Safe
    <3>3. n.items = <<x, y>>
      BY <2>4
    <3> QED
      BY <1>5, <2>4, <3>1, <3>2, <3>3 DEF IndexerOK
  <2>9. \A i \in Srch!Ids \ (missed' \cup overtaken') :
          \/ \E q \in sending \cup queue : \E k \in 1 .. Len(q) : q[k] = Srch!Item(i)
          \/ \E k \in 1 .. Len(indexer[w].left) : indexer[w].left[k] = Srch!Item(i)
          => \/ docs'[i] = version[i]
             \/ \E q \in (sending \cup queue)' : \E k \in 1 .. Len(q) : q[k] = Srch!Item(i)
             \/ \E k \in 1 .. Len(n.left) : n.left[k] = Srch!Item(i)
    <3>1. \A k \in 1 .. Len(l) : l[k] = a \/ l[k] = y
      BY <2>2
    <3>2. Len(<<y>>) = 1 /\ <<y>>[1] = y /\ 1 \in 1 .. 1
      OBVIOUS
    <3>3. \E k \in 1 .. Len(n.left) : n.left[k] = y
      BY <2>5, <3>2
    <3> QED
      BY <1>1, <1>3, <2>7, <3>1, <3>3
  <2>10. \A t \in Transfers \ early : docs'[t] > 0 => docs[t] > 0
    BY <2>3, <2>7, CollectionFacts
  <2>11. collection' \subseteq Srch!Collections /\ (sending \cup queue)' \ (sending \cup queue) = {} /\ missed' \subseteq Srch!Ids
    BY <1>3, <2>7 DEF SearchStrong, SearchTypes
  <2> QED
    BY <1>3, <2>6, <2>7, <2>8, <2>9, <2>10, <2>11, IndexerStep
<1> QED
  BY <1>1, <1>3, <1>6, <1>7, WorkerFacts

\* A task fails and is queued again, or archived.
LEMMA IndexingFailsSearch ==
  ASSUME Srch!SearchAssumption, SearchStrong, NEW w \in Indexers, Srch!IndexingFails(w) PROVE SearchStrong'
<1>1. PICK n, q : n = Srch!Busy /\ q = indexer[w].items
  OBVIOUS
<1>2. /\ indexer[w].left # <<>> /\ indexer' = [indexer EXCEPT ![w] = n]
      /\ \/ queue' = queue \cup {q} /\ missed' = missed
         \/ queue' = queue /\ missed' = missed \cup {indexer[w].left[k].id : k \in DOMAIN indexer[w].left}
      /\ UNCHANGED <<table, version, unread, sending, collection, docs, overtaken, early, broken, run, service>>
  BY <1>1 DEF Srch!IndexingFails, Srch!IdsOf, Srch!indexVars, Srch!runVars
<1>12. /\ indexer[w].left \in Seq(Srch!Items) /\ DOMAIN indexer[w].left = 1 .. Len(indexer[w].left)
       /\ \A k \in 1 .. Len(indexer[w].left) : indexer[w].left[k].id \in Srch!Ids
  <2>1. indexer[w].left \in Seq(Srch!Items)
    BY DEF SearchStrong, SearchTypes
  <2>2. \A x \in Srch!Items : x.id \in Srch!Ids
    BY DEF Srch!Items
  <2> QED
    BY <2>1, <2>2
<1>13. missed' \subseteq Srch!Ids /\ missed \subseteq missed'
  BY <1>2, <1>12 DEF SearchStrong, SearchTypes
<1>3. n \in [items : Seq(Srch!Items), left : Seq(Srch!Items)]
  BY <1>1 DEF Srch!Busy
<1>4. indexer'[w] = n
  BY <1>2 DEF SearchStrong, SearchTypes
<1>5. IndexerOK(w)'
  BY <1>1, <1>4 DEF IndexerOK, Srch!Busy
<1>6. TaskOK(q)
  BY <1>1, <1>2, WorkerFacts
<1>7. ASSUME NEW k \in 1 .. Len(indexer[w].left)
      PROVE  \E j \in 1 .. Len(q) : q[j] = indexer[w].left[k]
  <2>1. ASSUME NEW a, indexer[w].left = <<a>>, \E j \in 1 .. Len(q) : q[j] = a
        PROVE  \E j \in 1 .. Len(q) : q[j] = indexer[w].left[k]
    <3>1. Len(<<a>>) = 1 /\ <<a>>[1] = a
      OBVIOUS
    <3>2. k = 1
      BY <2>1, <3>1
    <3> QED
      BY <2>1, <3>1, <3>2
  <2>2. ASSUME NEW a, NEW b, indexer[w] = [items |-> <<a, b>>, left |-> <<a, b>>]
        PROVE  \E j \in 1 .. Len(q) : q[j] = indexer[w].left[k]
    <3>1. q = indexer[w].left
      BY <1>1, <2>2
    <3> QED
      BY <3>1
  <2>3. \/ \E a : indexer[w].left = <<a>> /\ \E j \in 1 .. Len(indexer[w].items) : indexer[w].items[j] = a
        \/ \E a, b : indexer[w] = [items |-> <<a, b>>, left |-> <<a, b>>]
    BY <1>2, WorkerFacts
  <2> QED
    BY <1>1, <2>1, <2>2, <2>3
<1>8. \A i \in Srch!Ids \ (missed' \cup overtaken') :
        \/ \E p \in sending \cup queue : \E k \in 1 .. Len(p) : p[k] = Srch!Item(i)
        \/ \E k \in 1 .. Len(indexer[w].left) : indexer[w].left[k] = Srch!Item(i)
        => \/ docs'[i] = version[i]
           \/ \E p \in (sending \cup queue)' : \E k \in 1 .. Len(p) : p[k] = Srch!Item(i)
           \/ \E k \in 1 .. Len(n.left) : n.left[k] = Srch!Item(i)
  <2> SUFFICES ASSUME NEW i \in Srch!Ids \ (missed' \cup overtaken'),
                      \/ \E p \in sending \cup queue : \E k \in 1 .. Len(p) : p[k] = Srch!Item(i)
                      \/ \E k \in 1 .. Len(indexer[w].left) : indexer[w].left[k] = Srch!Item(i)
               PROVE  \E p \in (sending \cup queue)' : \E k \in 1 .. Len(p) : p[k] = Srch!Item(i)
    OBVIOUS
  <2>1. sending \cup queue \subseteq (sending \cup queue)'
    BY <1>2
  <2>2. ASSUME NEW k \in 1 .. Len(indexer[w].left), indexer[w].left[k] = Srch!Item(i)
        PROVE  \E p \in (sending \cup queue)' : \E j \in 1 .. Len(p) : p[j] = Srch!Item(i)
    <3>1. indexer[w].left[k].id = i /\ k \in DOMAIN indexer[w].left
      BY <1>12, <2>2 DEF Srch!Item
    <3>2. queue' = queue \cup {q}
      BY <1>2, <3>1
    <3> QED
      BY <1>7, <2>2, <3>2
  <2> QED
    BY <2>1, <2>2
<1>9. /\ docs' \in [Srch!Ids -> 0 .. MaxVersion] /\ overtaken' \subseteq Srch!Ids
      /\ overtaken \subseteq overtaken' /\ collection' \subseteq Srch!Collections
  BY <1>2 DEF SearchStrong, SearchTypes
<1>10. DocsOK'
  BY <1>2 DEF SearchStrong, DocsOK, Srch!CollectionOf, Srch!Ids
<1>11. \A p \in (sending \cup queue)' \ (sending \cup queue) : TaskOK(p)
  BY <1>2, <1>6
<1> QED
  BY <1>2, <1>3, <1>5, <1>8, <1>9, <1>10, <1>11, <1>13, IndexerStep

\* Every step keeps SearchStrong.
LEMMA SearchSteps ==
  ASSUME Srch!SearchAssumption, SearchStrong, [Srch!SearchNext]_(Srch!searchVars) PROVE SearchStrong'
<1>1. ASSUME NEW b \in Balances, Srch!CreateBalance(b) \/ Srch!UpdateMetadata(b) \/ Srch!QueueIndexData(b)
      PROVE  SearchStrong'
  BY <1>1, CreateBalanceSearch, UpdateMetadataSearch, QueueIndexDataSearch
<1>2. ASSUME NEW t \in Transfers, Srch!PostTransactionActions(t) \/ Srch!RecordQueued(t) PROVE SearchStrong'
  BY <1>2, PostTransactionSearch, RecordQueuedSearch
<1>6. ASSUME NEW q \in sending, Srch!Enqueue(q) \/ Srch!EnqueueFails(q) PROVE SearchStrong'
  BY <1>6, EnqueueSearch
<1>3. ASSUME NEW w \in Indexers,
             (\E q \in queue : Srch!IndexData(w, q)) \/ Srch!HandleNotification(w) \/ Srch!IndexingFails(w)
      PROVE  SearchStrong'
  BY <1>3, IndexDataSearch, HandleNotificationSearch, IndexingFailsSearch
<1>4. ASSUME NEW r \in Runs, Srch!Reindex(r) PROVE SearchStrong'
  BY <1>4, RequestSearch, StartSearch, DropCollectionSearch, CreateCollectionsSearch, ReadPageSearch,
     IndexRowSearch, EndOfTableSearch, FailSearch DEF Srch!Reindex
<1>5. CASE UNCHANGED Srch!searchVars
  <2>1. /\ version' \in [Srch!Ids -> 0 .. MaxVersion] /\ \A i \in Srch!Ids : version'[i] >= version[i]
        /\ \A i \in Srch!Ids : version'[i] > 0 <=> version[i] > 0
    BY <1>5, CollectionFacts DEF SearchStrong, SearchTypes, Srch!searchVars
  <2>2. UNCHANGED <<table, version, unread, sending, queue, missed, indexer, collection, docs, overtaken, early, broken, run, service>>
    BY <1>5 DEF Srch!searchVars
  <2>3. /\ table' \in [Srch!Collections -> Seq(Srch!Ids)]
        /\ \A e \in Srch!Collections : \E d \in {0, 1} :
             /\ Len(table'[e]) = Len(table[e]) + d
             /\ \A k \in 1 .. Len(table[e]) : table'[e][k + d] = table[e][k]
        /\ RowsListed'
    <3>1. UNCHANGED table /\ \A i \in Srch!Ids : version'[i] > 0 <=> version[i] > 0
      BY <2>1, <2>2
    <3> QED
      BY <3>1, SameRows
  <2>4. TableOK'
    BY <2>2, <2>3 DEF SearchStrong, TableOK
  <2>5. /\ unread' \subseteq Balances /\ missed' \subseteq Srch!Ids /\ missed \subseteq missed'
        /\ (sending \cup queue)' \ (sending \cup queue) = {}
    BY <2>2 DEF SearchStrong, SearchTypes
  <2>6. \A i \in Srch!Ids \ missed' :
          \/ version'[i] # version[i] \/ i \in unread
          \/ \E q \in sending \cup queue : \E k \in 1 .. Len(q) : q[k] = Srch!Item(i)
          => i \in unread' \/ \E q \in (sending \cup queue)' : \E k \in 1 .. Len(q) : q[k] = Srch!Item(i)'
    BY <2>2 DEF Srch!Item
  <2> QED
    BY <2>1, <2>2, <2>3, <2>4, <2>5, <2>6, DatabaseStep
<1> QED
  BY <1>1, <1>2, <1>3, <1>4, <1>5, <1>6 DEF Srch!SearchNext

(***************************************************************************)
(* The composition.  A step of it is one of the component that is active,  *)
(* so each invariant carries over.                                         *)
(***************************************************************************)

\* Nobody else moves, and the active component takes one of its own steps.
LEMMA OneMoves ==
  ASSUME [DeliveryNext]_<<active, deliveryVars>>
  PROVE  /\ active' = active
         /\ active = "lanes" => [Hot!HotNext]_(Hot!hotVars)
         /\ active = "hooks" => [Hook!HookNext]_(Hook!hookVars)
         /\ active = "search" => [Srch!SearchNext]_(Srch!searchVars)
<1>1. CASE UNCHANGED <<active, deliveryVars>>
  BY <1>1 DEF deliveryVars, hotVars, hookVars, searchVars, Hot!hotVars, Hook!hookVars, Srch!searchVars
<1>2. CASE DeliveryNext
  BY <1>2 DEF DeliveryNext, LanesMove, HooksMove, SearchMoves
<1> QED
  BY <1>1, <1>2

\* ResolveQueueLane and RecordContention, for any number of requests, workers
\* and accidents: the rows of a pair wait in one lane at a time unless a
\* request was overtaken between its read and its store, a promotion overwrote
\* a hot pair, or a key was lost; and a pair is marked for promotion only after
\* the threshold's worth of contentions since it was last demoted.
THEOREM LanesKept == DeliverySpec => []LanesInv
<1> DEFINE I == active = "lanes" => LanesStrong
<1>1. DeliveryInit => I
  BY DeliveryAssumption, LanesInitially DEF DeliveryInit
<1>2. I /\ [DeliveryNext]_<<active, deliveryVars>> => I'
  BY DeliveryAssumption, OneMoves, LanesNext
<1>3. I => LanesInv
  BY DEF LanesInv, LanesStrong, Hot!LanesInv, Hot!OneLaneAtATime, RoutesOK, LaneOfState, Hot!HotTypeOK
<1> QED
  BY <1>1, <1>2, <1>3, PTL DEF DeliverySpec

\* RegisterHook, UpdateHook, DeleteHook and updateHookStatus, for any number of
\* hooks, edits and deliveries: between edits a hook that exists is in the set
\* of its own type and of no other, and one that was deleted in none, unless
\* edits overlapped, one died, an id was registered twice, or an attempt wrote
\* back a copy from before the last edit.
THEOREM HooksKept == DeliverySpec => []HooksInv
<1> DEFINE I == active = "hooks" => HooksStrong
<1>1. DeliveryInit => I
  BY DeliveryAssumption, HooksInitially DEF DeliveryInit
<1>2. I /\ [DeliveryNext]_<<active, deliveryVars>> => I'
  BY DeliveryAssumption, OneMoves, HooksNext
<1>3. I => HooksInv
  BY DeliveryAssumption, HookTypesOK DEF HooksInv, HooksStrong, Hook!HooksInv, Hook!HooksAreListedOnce,
     EditOK, Settled
<1> QED
  BY <1>1, <1>2, <1>3, PTL DEF DeliverySpec

\* When nothing is left to index every row has its document, made from the
\* row as it is, but for those with a change whose task was lost and that no
\* worker or reindex has written since, those that the workers wrote an older
\* copy over, and unless a reindex has failed; and outside a reindex a transaction's document
\* refers to a balance's document.  HandleBatchNotification upserts whatever
\* it was given and ReindexService drops the collections under it and pages
\* by offset while rows are inserted: this holds for any number of rows,
\* workers, reindex runs and page sizes.
THEOREM SearchKept == DeliverySpec => []SearchInv
<1> DEFINE I == active = "search" => SearchStrong
<1>1. DeliveryInit => I
  BY DeliveryAssumption, SearchInitially DEF DeliveryInit
<1>2. I /\ [DeliveryNext]_<<active, deliveryVars>> => I'
  BY DeliveryAssumption, OneMoves, SearchSteps
<1>3. I => SearchInv
  BY DeliveryAssumption, SearchSummary DEF SearchInv
<1> QED
  BY <1>1, <1>2, <1>3, PTL DEF DeliverySpec
==============================================================================
