------------------------------- MODULE Inflight -------------------------------
(***************************************************************************)
(* Commits and voids of inflight transactions (transaction_inflight.go),   *)
(* asked for by clients (directly, in bulk, or through the inflight-commit *)
(* queue), by the scheduled auto-commit and by the expiry task.            *)
(*                                                                         *)
(* All holds here are between the same two balances, so that they share    *)
(* one pool: the inflight debit of the source, which is also the inflight  *)
(* credit of the destination.                                              *)
(*                                                                         *)
(* A hold recorded with skip_queue is one INFLIGHT row, its "leg".  A hold *)
(* that went through the queue also has the QUEUED "row" the client got    *)
(* the id of; its leg is a child of that row.  The row keeps its status    *)
(* for ever and counts as inflight, so that both ids can be committed and  *)
(* voided: a target is a hold with one of its two ids.                     *)
(***************************************************************************)
EXTENDS Integers, FiniteSetsExt

CONSTANTS
  Holds,         \* inflight transactions, as clients request them
  HoldAmount,    \* the amount of each
  Queued,        \* the holds that go through the transaction queue
  Expiring,      \* the holds with an inflight_expiry_date
  AutoCommit,    \* the holds with an inflight_commit_date
  Workers,       \* API handlers and queue workers
  Free,          \* a lock key that is absent from Redis
  Orphan,        \* the lock value of a worker that crashed
  NoOp,          \* an idle worker's operation
  MaxCalls,      \* bound: how many synchronous requests clients make
  MaxActions,    \* bound: how many commits and voids clients queue
  MaxCrashes     \* bound: how many workers crash

ASSUME InflightAssumption ==
  /\ HoldAmount \in [Holds -> Nat \ {0}]
  /\ Queued \subseteq Holds
  /\ Expiring \subseteq Holds
  /\ AutoCommit \subseteq Holds
  /\ Free \notin Workers
  /\ Orphan \notin Workers
  /\ Free # Orphan
  /\ MaxCalls \in Nat
  /\ MaxActions \in Nat
  /\ MaxCrashes \in Nat

Targets == Holds \X {"row", "leg"}
Kinds == {"manual", "auto", "expiry"}
TaskIds == Holds \X Kinds

\* The action id of a task seeds the reference of the row it records.  The
\* scheduled commit has one of its own; 0 asks for a random reference.
ScheduledId == MaxActions + 1

Ops == [target : Targets, action : {"commit", "void"}, amount : Nat, id : Nat,
        task : TaskIds \cup {NoOp}]

\* inflightActionReference: leg, action and action id.
References == Targets \X {"commit", "void"} \X (1 .. ScheduledId)

NoPayload == [action |-> "commit", amount |-> 0, id |-> 0]

VARIABLES
  leg,           \* how far the recording of each hold has come
  pool,          \* inflight debit of the source, inflight credit of the other
  committed,     \* per target, the sum of its APPLIED children
  voided,        \* per target, the amount of its VOID child, 0 without one
  refs,          \* how many rows carry each deterministic reference
  lock,          \* Redis: the value under each "inflight-commit:<id>" key
  tasks,         \* asynq: the state of each task, by task id
  payload,       \* what the manual task of each hold asks for
  pc,            \* the phase of each worker
  op,            \* what each worker is doing
  taking,        \* the amount a worker has validated
  outcome,       \* how a worker's attempt went
  calls,         \* how many synchronous requests were made
  actions,       \* how many actions were queued
  crashes        \* how many workers crashed

rowVars == <<leg, pool, committed, voided, refs>>
taskVars == <<tasks, payload, actions>>
workerVars == <<pc, op, taking, outcome>>
counters == <<calls, crashes>>
vars == <<rowVars, lock, taskVars, workerVars, counters>>

Init ==
  /\ leg = [h \in Holds |-> "absent"]
  /\ pool = 0
  /\ committed = [t \in Targets |-> 0]
  /\ voided = [t \in Targets |-> 0]
  /\ refs = [r \in References |-> 0]
  /\ lock = [t \in Targets |-> Free]
  /\ tasks = [i \in TaskIds |-> "none"]
  /\ payload = [h \in Holds |-> NoPayload]
  /\ pc = [w \in Workers |-> "idle"]
  /\ op = [w \in Workers |-> NoOp]
  /\ taking = [w \in Workers |-> 0]
  /\ outcome = [w \in Workers |-> "none"]
  /\ calls = 0
  /\ actions = 0
  /\ crashes = 0

------------------------------------------------------------------------------
\* The id that the client holds: the QUEUED row's, or the leg's own.
ClientTarget(h) == <<h, IF h \in Queued THEN "row" ELSE "leg">>

\* IsInflightTransaction: an INFLIGHT row, or a QUEUED one with the inflight
\* flag.  The QUEUED row stays one after its leg was recorded or rejected.
IsInflight(t) ==
  IF t[2] = "leg" THEN leg[t[1]] = "inflight"
  ELSE t[1] \in Queued /\ leg[t[1]] # "absent"

\* GetInflightTransactionsByParentID: the leg, or the row that has no leg yet
\* and was not rejected.
Legs(h) ==
  CASE leg[h] = "inflight" -> {<<h, "leg">>}
    [] leg[h] = "queued" -> {<<h, "row">>}
    [] OTHER -> {}

\* calculateRemainingAmount
Remaining(t) == HoldAmount[t[1]] - committed[t]

\* Faulty: the VOID child is not looked for.
PermittedAfterVoid(t, action, amount) ==
  /\ IsInflight(t)
  /\ Remaining(t) # 0
  /\ action = "commit" => amount <= Remaining(t)

\* Faulty: a requested amount is compared with the original amount only.
PermittedUpToOriginal(t, action, amount) ==
  /\ IsInflight(t)
  /\ voided[t] = 0
  /\ Remaining(t) # 0
  /\ action = "commit" => amount <= HoldAmount[t[1]]

\* fetchAndValidateInflightTransaction, checkTransactionCommitStatus and, for
\* a commit, validateRequestedAmount.
Permitted(t, action, amount) ==
  /\ IsInflight(t)
  /\ voided[t] = 0
  /\ Remaining(t) # 0
  /\ action = "commit" =>
       /\ amount <= HoldAmount[t[1]]
       /\ amount # 0 => amount <= Remaining(t)

\* The tasks QueueTransaction schedules, in this order; a failure or a crash
\* leaves the later ones out.
Schedules(h) ==
  LET expiry == IF h \in Expiring THEN {<<h, "expiry">>} ELSE {}
      auto == IF h \in AutoCommit THEN {<<h, "auto">>} ELSE {}
  IN {{}, expiry, expiry \cup auto}

\* QueueTransaction.  Without the queue the hold is recorded at once.
Place(h) ==
  /\ leg[h] = "absent"
  /\ IF h \in Queued
     THEN /\ leg' = [leg EXCEPT ![h] = "queued"]
          /\ UNCHANGED pool
     ELSE /\ leg' = [leg EXCEPT ![h] = "inflight"]
          /\ pool' = pool + HoldAmount[h]
  /\ \E scheduled \in Schedules(h) :
       tasks' = [i \in TaskIds |->
                   IF i \in scheduled THEN "pending" ELSE tasks[i]]
  /\ UNCHANGED <<committed, voided, refs, lock, payload, actions, workerVars,
                 counters>>

\* A queue worker records the queue copy of the row, or rejects it.
RecordLeg(h) ==
  /\ leg[h] = "queued"
  /\ \/ /\ leg' = [leg EXCEPT ![h] = "inflight"]
        /\ pool' = pool + HoldAmount[h]
     \/ /\ leg' = [leg EXCEPT ![h] = "rejected"]
        /\ UNCHANGED pool
  /\ UNCHANGED <<committed, voided, refs, lock, taskVars, workerVars, counters>>

------------------------------------------------------------------------------
Begin(w, o) ==
  /\ pc[w] = "idle"
  /\ op' = [op EXCEPT ![w] = o]
  /\ pc' = [pc EXCEPT ![w] = "lock"]

Request(t, action, amount) ==
  [target |-> t, action |-> action, amount |-> amount, id |-> 0, task |-> NoOp]

\* UpdateInflightStatus with skip_queue: CommitWorker or VoidWorker on the
\* legs of the client's id.
CallLegs(w, h, action, amount) ==
  /\ calls < MaxCalls
  /\ \E t \in Legs(h) : Begin(w, Request(t, action, amount))
  /\ calls' = calls + 1
  /\ UNCHANGED <<rowVars, lock, taskVars, taking, outcome, crashes>>

\* BulkInflightUpdate: the client's id itself.
CallBulk(w, h, action, amount) ==
  /\ calls < MaxCalls
  /\ leg[h] # "absent"
  /\ Begin(w, Request(ClientTarget(h), action, amount))
  /\ calls' = calls + 1
  /\ UNCHANGED <<rowVars, lock, taskVars, taking, outcome, crashes>>

\* QueueInflightAction: validated against the client's id, one at a time.
QueueInflightAction(h, action, amount) ==
  /\ actions < MaxActions
  /\ Permitted(ClientTarget(h), action, amount)
  /\ tasks[<<h, "manual">>] = "none"
  /\ tasks' = [tasks EXCEPT ![<<h, "manual">>] = "pending"]
  /\ actions' = actions + 1
  /\ payload' = [payload EXCEPT ![h] = [action |-> action, amount |-> amount,
                                        id |-> actions + 1]]
  /\ UNCHANGED <<rowVars, lock, workerVars, counters>>

\* processInflightCommit, for a queued action and for the scheduled commit.
DeliverAction(w, h, kind) ==
  LET i == <<h, kind>>
      p == IF kind = "auto"
           THEN [action |-> "commit", amount |-> 0, id |-> ScheduledId]
           ELSE payload[h]
  IN /\ tasks[i] = "pending"
     /\ \E t \in Legs(h) :
          Begin(w, [target |-> t, action |-> p.action, amount |-> p.amount,
                    id |-> p.id, task |-> i])
     /\ tasks' = [tasks EXCEPT ![i] = "active"]
     /\ UNCHANGED <<rowVars, lock, payload, actions, taking, outcome, counters>>

\* RunInflightActionByParent finds no inflight leg: the task is acknowledged.
DropAction(h, kind) ==
  /\ tasks[<<h, kind>>] = "pending"
  /\ Legs(h) = {}
  /\ tasks' = [tasks EXCEPT ![<<h, kind>>] = "none"]
  /\ UNCHANGED <<rowVars, lock, payload, actions, workerVars, counters>>

\* processInflightExpiry: the id the expiry was scheduled with.
DeliverExpiry(w, h) ==
  /\ tasks[<<h, "expiry">>] = "pending"
  /\ Begin(w, [Request(ClientTarget(h), "void", 0)
                 EXCEPT !.task = <<h, "expiry">>])
  /\ tasks' = [tasks EXCEPT ![<<h, "expiry">>] = "active"]
  /\ UNCHANGED <<rowVars, lock, payload, actions, taking, outcome, counters>>

------------------------------------------------------------------------------
\* Faulty: SET instead of SETNX.
TakeLockAlways(w) ==
  /\ pc[w] = "lock"
  /\ lock' = [lock EXCEPT ![op[w].target] = w]
  /\ pc' = [pc EXCEPT ![w] = "validate"]
  /\ UNCHANGED <<rowVars, taskVars, op, taking, outcome, counters>>

\* CommitInflightTransactionWithRef and VoidInflightTransactionWithRef, from
\* here to Unlock.
TakeLock(w) ==
  LET t == op[w].target IN
  /\ pc[w] = "lock"
  /\ lock[t] = Free
  /\ lock' = [lock EXCEPT ![t] = w]
  /\ pc' = [pc EXCEPT ![w] = "validate"]
  /\ UNCHANGED <<rowVars, taskVars, op, taking, outcome, counters>>

\* The lock is taken and nobody waits for it.
LockTaken(w) ==
  /\ pc[w] = "lock"
  /\ lock[op[w].target] # Free
  /\ outcome' = [outcome EXCEPT ![w] = "transient"]
  /\ pc' = [pc EXCEPT ![w] = "settle"]
  /\ UNCHANGED <<rowVars, lock, taskVars, op, taking, counters>>

\* An amount of zero asks for all that remains.
Validate(w) ==
  LET o == op[w] IN
  /\ pc[w] = "validate"
  /\ IF Permitted(o.target, o.action, o.amount)
     THEN /\ taking' = [taking EXCEPT ![w] =
                          IF o.action = "commit" /\ o.amount # 0 THEN o.amount
                          ELSE Remaining(o.target)]
          /\ pc' = [pc EXCEPT ![w] = "record"]
          /\ UNCHANGED outcome
     ELSE /\ outcome' = [outcome EXCEPT ![w] = "terminal"]
          /\ pc' = [pc EXCEPT ![w] = "unlock"]
          /\ UNCHANGED taking
  /\ UNCHANGED <<rowVars, lock, taskVars, op, counters>>

Reference(o) == <<o.target, o.action, o.id>>

\* The unique index on reference.
ReferenceFree(o) == o.id # 0 => refs[Reference(o)] = 0

\* RecordTransaction of the COMMIT or VOID child, one step as Execution shows:
\* the pool must cover it and its reference must be new.
Record(w) ==
  LET o == op[w] IN
  /\ pc[w] = "record"
  /\ taking[w] <= pool
  /\ ReferenceFree(o)
  /\ pool' = pool - taking[w]
  /\ IF o.action = "commit"
     THEN /\ committed' = [committed EXCEPT ![o.target] = @ + taking[w]]
          /\ UNCHANGED voided
     ELSE /\ voided' = [voided EXCEPT ![o.target] = taking[w]]
          /\ UNCHANGED committed
  /\ refs' = IF o.id = 0 THEN refs ELSE [refs EXCEPT ![Reference(o)] = @ + 1]
  /\ outcome' = [outcome EXCEPT ![w] = "applied"]
  /\ taking' = [taking EXCEPT ![w] = 0]
  /\ pc' = [pc EXCEPT ![w] = "unlock"]
  /\ UNCHANGED <<leg, lock, taskVars, op, counters>>

\* A taken reference is terminal; an uncovered pool, a lock timeout or a
\* database error is transient.
RecordFails(w) ==
  /\ pc[w] = "record"
  /\ outcome' = [outcome EXCEPT ![w] =
                   IF ReferenceFree(op[w]) THEN "transient" ELSE "terminal"]
  /\ taking' = [taking EXCEPT ![w] = 0]
  /\ pc' = [pc EXCEPT ![w] = "unlock"]
  /\ UNCHANGED <<rowVars, lock, taskVars, op, counters>>

Unlock(w) ==
  LET t == op[w].target IN
  /\ pc[w] = "unlock"
  /\ lock' = [lock EXCEPT ![t] = IF @ = w THEN Free ELSE @]
  /\ pc' = [pc EXCEPT ![w] = "settle"]
  /\ UNCHANGED <<rowVars, taskVars, op, taking, outcome, counters>>

Forget(w) ==
  /\ pc' = [pc EXCEPT ![w] = "idle"]
  /\ op' = [op EXCEPT ![w] = NoOp]
  /\ taking' = [taking EXCEPT ![w] = 0]
  /\ outcome' = [outcome EXCEPT ![w] = "none"]

\* Faulty: an expiry is never retried.
AfterAttemptOnce(task, result) ==
  IF result = "transient" /\ task[2] # "expiry" THEN {"pending"} ELSE {"none"}

\* What becomes of a task.  An action is retried on a transient error, an
\* expiry on any error; asynq archives one that keeps failing on a hold that
\* is resolved.  (A retry is assumed not to run out on transient errors.)
AfterAttempt(task, result) ==
  CASE result = "applied" -> {"none"}
    [] result = "transient" -> {"pending"}
    [] OTHER -> IF task[2] = "expiry" THEN {"pending", "none"} ELSE {"none"}

\* The task is acknowledged, handed back to the queue or archived.
Settle(w) ==
  LET i == op[w].task IN
  /\ pc[w] = "settle"
  /\ IF i = NoOp
     THEN UNCHANGED tasks
     ELSE \E next \in AfterAttempt(i, outcome[w]) :
            tasks' = [tasks EXCEPT ![i] = next]
  /\ Forget(w)
  /\ UNCHANGED <<rowVars, lock, payload, actions, counters>>

\* A worker dies: its lock stays, its task is delivered again.
Crash(w) ==
  /\ pc[w] # "idle"
  /\ crashes < MaxCrashes
  /\ crashes' = crashes + 1
  /\ lock' = [t \in Targets |-> IF lock[t] = w THEN Orphan ELSE lock[t]]
  /\ tasks' = [i \in TaskIds |->
                 IF i = op[w].task THEN "pending" ELSE tasks[i]]
  /\ Forget(w)
  /\ UNCHANGED <<rowVars, payload, actions, calls>>

\* The TTL of a lock outlives the attempt that took it.
ExpireOrphan(t) ==
  /\ lock[t] = Orphan
  /\ lock' = [lock EXCEPT ![t] = Free]
  /\ UNCHANGED <<rowVars, taskVars, workerVars, counters>>

ClientStep ==
  \E h \in Holds :
    \/ Place(h)
    \/ \E action \in {"commit", "void"}, amount \in 0 .. HoldAmount[h] :
         \/ QueueInflightAction(h, action, amount)
         \/ \E w \in Workers : \/ CallLegs(w, h, action, amount)
                               \/ CallBulk(w, h, action, amount)

QueueStep ==
  \E h \in Holds :
    \/ RecordLeg(h)
    \/ \E kind \in {"manual", "auto"} :
         \/ DropAction(h, kind)
         \/ \E w \in Workers : DeliverAction(w, h, kind)
    \/ \E w \in Workers : DeliverExpiry(w, h)

WorkerStep(w) ==
  \/ TakeLock(w) \/ LockTaken(w) \/ Validate(w) \/ Record(w)
  \/ RecordFails(w) \/ Unlock(w) \/ Settle(w)

Next ==
  \/ ClientStep
  \/ QueueStep
  \/ \E w \in Workers : WorkerStep(w) \/ Crash(w)
  \/ \E t \in Targets : ExpireOrphan(t)

Spec == Init /\ [][Next]_vars

Serves(w, i) == pc[w] # "idle" /\ op[w].task = i

Delivery(h, kind) ==
  \/ kind # "expiry" /\ DropAction(h, kind)
  \/ \E w \in Workers : IF kind = "expiry" THEN DeliverExpiry(w, h)
                         ELSE DeliverAction(w, h, kind)

Settled(i) ==
  \E w \in Workers : Serves(w, i) /\ Settle(w) /\ tasks'[i] = "none"

\* A worker that does not crash runs on and the queue keeps delivering what is
\* pending; retries, spread out by asynq's backoff, do not meet a taken lock or
\* a database error every time, and end; Redis honours the TTL.
Fairness ==
  /\ \A w \in Workers : WF_vars(WorkerStep(w))
  /\ \A h \in Holds : SF_vars(Delivery(h, "manual"))
  /\ \A h \in AutoCommit : SF_vars(Delivery(h, "auto"))
  /\ \A h \in Expiring : /\ SF_vars(Delivery(h, "expiry"))
                         /\ SF_vars(Settled(<<h, "expiry">>))
  /\ \A i \in Holds \X {"manual"} \cup AutoCommit \X {"auto"}
            \cup Expiring \X {"expiry"} :
       /\ SF_vars(\E w \in Workers : Serves(w, i) /\ TakeLock(w))
       /\ SF_vars(\E w \in Workers : Serves(w, i) /\ Record(w))
  /\ \A t \in Targets : WF_vars(ExpireOrphan(t))

FairSpec == Spec /\ Fairness

------------------------------------------------------------------------------
TypeOK ==
  /\ leg \in [Holds -> {"absent", "queued", "inflight", "rejected"}]
  /\ pool \in Int
  /\ committed \in [Targets -> Int]
  /\ voided \in [Targets -> Int]
  /\ lock \in [Targets -> Workers \cup {Free, Orphan}]
  /\ tasks \in [TaskIds -> {"none", "pending", "active"}]
  /\ payload \in [Holds -> [action : {"commit", "void"}, amount : Nat, id : Nat]]
  /\ pc \in [Workers -> {"idle", "lock", "validate", "record", "unlock", "settle"}]
  /\ op \in [Workers -> Ops \cup {NoOp}]
  /\ taking \in [Workers -> Int]
  /\ outcome \in [Workers -> {"none", "applied", "terminal", "transient"}]
  /\ calls \in Nat /\ actions \in Nat /\ crashes \in Nat

\* The phases in which a worker owns the lock of its target.
Locked(w) == pc[w] \in {"validate", "record", "unlock"}

\* Only the worker that holds a target's lock is past taking it.
LocksOK ==
  \A w \in Workers :
    /\ pc[w] # "idle" => op[w] \in Ops
    /\ Locked(w) => lock[op[w].target] = w

\* The amount a worker has validated for a target.
Claim(w, t) ==
  /\ voided[t] = 0
  /\ taking[w] \in 1 .. Remaining(t)
  /\ op[w].action = "void" => taking[w] = Remaining(t)

\* What a worker is about to take is still there: nobody else has committed
\* or voided the target since it was validated.
TakingOK ==
  \A w \in Workers : pc[w] = "record" => Claim(w, op[w].target)

\* No id is resolved for more than its amount, and a void takes all the rest.
ResolvedOK ==
  \A t \in Targets :
    /\ committed[t] \in 0 .. HoldAmount[t[1]]
    /\ voided[t] \in {0, Remaining(t)}

Inv == TypeOK /\ LocksOK /\ TakingOK /\ ResolvedOK

Resolved(h) ==
  committed[<<h, "row">>] + voided[<<h, "row">>]
    + committed[<<h, "leg">>] + voided[<<h, "leg">>]

\* A hold that was committed in full is not voided any more, by the expiry task
\* or by anyone else (VoidInflightTransactionWithRef refuses with "cannot void.
\* Transaction already committed"; transaction_test.go: "Voiding an already
\* committed transaction should fail").
CommittedHoldsStayCommitted ==
  [][\A h \in Holds :
       committed[<<h, "row">>] + committed[<<h, "leg">>] >= HoldAmount[h] =>
         /\ voided'[<<h, "row">>] = voided[<<h, "row">>]
         /\ voided'[<<h, "leg">>] = voided[<<h, "leg">>]]_vars

\* A hold is resolved once: what its commits and voids take out of the pool is
\* never more than it put in, whichever id they name and whichever of API
\* call, queued action, scheduled commit and expiry comes first
\* (VoidInflightTransactionWithRef: "cannot void. Transaction already
\* committed").  True of holds that are recorded without the queue.
HoldResolvedOnce ==
  \A h \in Holds :
    Resolved(h) <= IF leg[h] = "inflight" THEN HoldAmount[h] ELSE 0

\* The pool holds exactly what the open holds have left, so no commit or void
\* is ever paid out of another client's hold (checkSufficientInflightDebit sees
\* only the pool).
PoolCoversHolds ==
  pool = MapThenSumSet(LAMBDA h : HoldAmount[h] - Resolved(h),
                       {h \in Holds : leg[h] = "inflight"})

\* A queued commit or void is applied at most once, also a commit of a part,
\* when its task is delivered again after a crash between recording and
\* acknowledging (InflightActionPayload: "so asynq retries are idempotent").
ActionAppliedOnce ==
  LET used == {r \in References : refs[r] > 0}
  IN \A r, s \in used : refs[r] = 1 /\ (r[1][1] = s[1][1] /\ r[3] = s[3] => r = s)

\* What the resolutions of holds that skip the queue keep.
HoldsInv == HoldResolvedOnce /\ PoolCoversHolds /\ ActionAppliedOnce

\* A hold whose expiry was scheduled does not stay open for ever.
ExpiryResolves ==
  \A h \in Holds :
    (leg[h] = "inflight" /\ tasks[<<h, "expiry">>] # "none")
      ~> Resolved(h) = HoldAmount[h]

\* A queued commit or void leaves the queue, so that the next one can be
\* queued (ErrInflightActionQueued does not last).
QueuedActionsEnd ==
  \A h \in Holds : tasks[<<h, "manual">>] # "none" ~> tasks[<<h, "manual">>] = "none"

\* Nothing that workers have to do for a hold stays undone.
HoldWorkEnds == ExpiryResolves /\ QueuedActionsEnd

\* Every id that can be committed or voided behaves like a hold of its own.
Book ==
  INSTANCE HoldBook WITH
    Ids <- Targets,
    Amount <- [t \in Targets |-> HoldAmount[t[1]]],
    held <- [t \in Targets |-> Remaining(t) - voided[t]],
    posted <- committed,
    closed <- {t \in Targets : voided[t] # 0}

BookRefinement == Book!BookSpec
==============================================================================
