---------------------------- MODULE InflightProofs ----------------------------
(***************************************************************************)
(* Every transaction id is resolved once, for any number of holds, workers *)
(* and requests: Inv is inductive, and with it Inflight implements         *)
(* HoldBook.  The argument is mutual exclusion: a worker past TakeLock     *)
(* owns the lock of its target, so what it validated is still true when it *)
(* records.  The last part is about whole holds: without the queue a hold  *)
(* has one id, so that it too is resolved once and the pool covers it.     *)
(***************************************************************************)
EXTENDS Inflight, SumTheorems

\* Inv holds initially.
LEMMA InitInv == Init => Inv
<1> SUFFICES ASSUME Init PROVE Inv
  OBVIOUS
<1>1. TypeOK
  BY InflightAssumption DEF Init, TypeOK, NoPayload, Targets, TaskIds
<1>2. LocksOK /\ TakingOK
  BY DEF Init, LocksOK, TakingOK, Claim, Locked
<1>3. ResolvedOK
  BY InflightAssumption DEF Init, ResolvedOK, Targets, Remaining
<1> QED
  BY <1>1, <1>2, <1>3 DEF Inv

\* A step that leaves locks, workers and resolved amounts alone keeps the
\* invariant if it keeps the types.
LEMMA IdleStep ==
  ASSUME Inv, TypeOK', UNCHANGED <<committed, voided, lock, workerVars>>
  PROVE  Inv'
<1>1. LocksOK'
  BY DEF Inv, LocksOK, Locked, workerVars
<1>2. TakingOK' /\ ResolvedOK'
  BY DEF Inv, TakingOK, Claim, ResolvedOK, Remaining, workerVars
<1> QED
  BY <1>1, <1>2 DEF Inv

\* A step of worker w that does not end in the phase "record" keeps the
\* invariant if it changes no other worker's state, no other worker's lock and
\* no resolved amount.
LEMMA LocalStep ==
  ASSUME Inv, TypeOK', NEW w \in Workers,
         UNCHANGED <<committed, voided>>,
         \A v \in Workers \ {w} : /\ pc'[v] = pc[v] /\ op'[v] = op[v]
                                  /\ taking'[v] = taking[v],
         \A v \in Workers \ {w}, t \in Targets : lock[t] = v => lock'[t] = v,
         pc'[w] # "record",
         pc'[w] # "idle" => op'[w] \in Ops,
         Locked(w)' => lock'[op'[w].target] = w
  PROVE  Inv'
<1>1. LocksOK'
  <2> SUFFICES ASSUME NEW v \in Workers
               PROVE /\ pc'[v] # "idle" => op'[v] \in Ops
                     /\ Locked(v)' => lock'[op'[v].target] = v
    BY DEF LocksOK
  <2>1. CASE v = w
    BY <2>1
  <2>2. CASE v # w
    BY <2>2 DEF Inv, LocksOK, Locked, Ops
  <2> QED
    BY <2>1, <2>2
<1>2. TakingOK'
  BY DEF Inv, TakingOK, Claim, Remaining
<1>3. ResolvedOK'
  BY DEF Inv, ResolvedOK, Remaining
<1> QED
  BY <1>1, <1>2, <1>3 DEF Inv

\* Placing a hold resolves nothing.
LEMMA PlaceInv == ASSUME Inv, NEW h \in Holds, Place(h) PROVE Inv'
<1>1. HoldAmount[h] \in Int
  BY InflightAssumption
<1>2. leg' \in [Holds -> {"absent", "queued", "inflight", "rejected"}] /\ pool' \in Int
  BY <1>1 DEF Inv, TypeOK, Place
<1>3. tasks' \in [TaskIds -> {"none", "pending", "active"}]
  BY DEF Inv, TypeOK, Place
<1>4. TypeOK'
  BY <1>2, <1>3 DEF Inv, TypeOK, Place, workerVars, counters
<1> QED
  BY <1>4, IdleStep DEF Place

\* Recording or rejecting the queue copy resolves nothing.
LEMMA RecordLegInv == ASSUME Inv, NEW h \in Holds, RecordLeg(h) PROVE Inv'
<1>1. HoldAmount[h] \in Int
  BY InflightAssumption
<1>2. TypeOK'
  BY <1>1 DEF Inv, TypeOK, RecordLeg, counters, workerVars, taskVars
<1> QED
  BY <1>2, IdleStep DEF RecordLeg

\* Queueing an action takes no lock and resolves nothing.
LEMMA QueueInflightActionInv ==
  ASSUME Inv, NEW h \in Holds, NEW action \in {"commit", "void"},
         NEW amount \in Nat,
         QueueInflightAction(h, action, amount)
  PROVE  Inv'
<1>1. payload' \in [Holds -> [action : {"commit", "void"}, amount : Nat, id : Nat]]
  BY DEF Inv, TypeOK, QueueInflightAction
<1>2. TypeOK'
  BY <1>1 DEF Inv, TypeOK, QueueInflightAction, counters, workerVars, rowVars
<1> QED
  BY <1>2, IdleStep DEF QueueInflightAction, rowVars

\* Acknowledging a task without legs changes the queue only.
LEMMA DropActionInv ==
  ASSUME Inv, NEW h \in Holds, NEW kind \in {"manual", "auto"}, DropAction(h, kind)
  PROVE  Inv'
<1>1. TypeOK'
  BY DEF Inv, TypeOK, DropAction, counters, workerVars, rowVars
<1> QED
  BY <1>1, IdleStep DEF DropAction, rowVars

\* No live worker depends on an orphaned lock.
LEMMA ExpireOrphanInv ==
  ASSUME Inv, NEW t \in Targets, ExpireOrphan(t) PROVE Inv'
<1>1. TypeOK'
  BY DEF Inv, TypeOK, ExpireOrphan, counters, workerVars, rowVars, taskVars
<1>2. \A s \in Targets, v \in Workers : lock[s] = v => lock'[s] = v
  BY InflightAssumption DEF Inv, TypeOK, ExpireOrphan
<1>3. LocksOK'
  BY <1>2 DEF Inv, LocksOK, Locked, ExpireOrphan, workerVars, Ops
<1>4. TakingOK' /\ ResolvedOK'
  BY DEF Inv, TakingOK, Claim, ResolvedOK, Remaining, ExpireOrphan, workerVars, rowVars
<1> QED
  BY <1>1, <1>3, <1>4 DEF Inv

\* Begin starts an operation on an idle worker, which then owns no lock.
LEMMA BeginInv ==
  ASSUME Inv, NEW w \in Workers, NEW o \in Ops, Begin(w, o),
         UNCHANGED <<rowVars, lock, payload, taking, outcome>>,
         tasks' \in [TaskIds -> {"none", "pending", "active"}],
         calls' \in Nat, actions' \in Nat, crashes' \in Nat
  PROVE  Inv'
<1>1. TypeOK'
  BY DEF Inv, TypeOK, Begin, rowVars
<1>2. \A v \in Workers \ {w} : pc'[v] = pc[v] /\ op'[v] = op[v]
  BY DEF Inv, TypeOK, Begin
<1>3. pc'[w] = "lock" /\ op'[w] = o
  BY DEF Inv, TypeOK, Begin
<1>4. ~Locked(w)'
  BY <1>3 DEF Locked
<1> QED
  BY <1>1, <1>2, <1>3, <1>4, LocalStep DEF rowVars

\* What a client asks for, and what a task asks for, is an operation.
LEMMA RequestType ==
  ASSUME NEW t \in Targets, NEW action \in {"commit", "void"}, NEW amount \in Nat
  PROVE  Request(t, action, amount) \in Ops
  BY DEF Request, Ops

\* The legs of a hold are targets.
LEMMA LegsType == \A h \in Holds : Legs(h) \subseteq Targets
  BY DEF Legs, Targets

\* The id the client holds is a target.
LEMMA ClientTargetType == \A h \in Holds : ClientTarget(h) \in Targets
  BY DEF ClientTarget, Targets

\* A synchronous call gives a worker a typed operation.
LEMMA CallLegsInv ==
  ASSUME Inv, NEW w \in Workers, NEW h \in Holds,
         NEW action \in {"commit", "void"}, NEW amount \in Nat,
         CallLegs(w, h, action, amount)
  PROVE  Inv'
<1>1. PICK t \in Legs(h) : Begin(w, Request(t, action, amount))
  BY DEF CallLegs
<1>2. Request(t, action, amount) \in Ops
  BY RequestType, LegsType
<1>3. /\ UNCHANGED <<rowVars, lock, payload, taking, outcome>>
      /\ tasks' \in [TaskIds -> {"none", "pending", "active"}]
      /\ calls' \in Nat /\ actions' \in Nat /\ crashes' \in Nat
  BY DEF CallLegs, taskVars, Inv, TypeOK
<1> QED
  BY <1>1, <1>2, <1>3, BeginInv

\* A bulk item gives a worker a typed operation.
LEMMA CallBulkInv ==
  ASSUME Inv, NEW w \in Workers, NEW h \in Holds,
         NEW action \in {"commit", "void"}, NEW amount \in Nat,
         CallBulk(w, h, action, amount)
  PROVE  Inv'
<1>1. Request(ClientTarget(h), action, amount) \in Ops
  BY RequestType, ClientTargetType
<1>2. /\ UNCHANGED <<rowVars, lock, payload, taking, outcome>>
      /\ tasks' \in [TaskIds -> {"none", "pending", "active"}]
      /\ calls' \in Nat /\ actions' \in Nat /\ crashes' \in Nat
  BY DEF CallBulk, taskVars, Inv, TypeOK
<1> QED
  BY <1>1, <1>2, BeginInv DEF CallBulk

\* A delivered action gives a worker a typed operation.
LEMMA DeliverActionInv ==
  ASSUME Inv, NEW w \in Workers, NEW h \in Holds, NEW kind \in {"manual", "auto"},
         DeliverAction(w, h, kind)
  PROVE  Inv'
<1> DEFINE i == <<h, kind>>
           p == IF kind = "auto"
                THEN [action |-> "commit", amount |-> 0, id |-> ScheduledId]
                ELSE payload[h]
           o(t) == [target |-> t, action |-> p.action, amount |-> p.amount,
                    id |-> p.id, task |-> i]
<1>1. PICK t \in Legs(h) : Begin(w, o(t))
  BY DEF DeliverAction
<1>2. p \in [action : {"commit", "void"}, amount : Nat, id : Nat]
  BY InflightAssumption DEF Inv, TypeOK, ScheduledId
<1>3. i \in TaskIds
  BY DEF TaskIds, Kinds
<1>4. o(t) \in Ops
  BY <1>2, <1>3, LegsType DEF Ops
<1>5. /\ UNCHANGED <<rowVars, lock, payload, taking, outcome>>
      /\ tasks' \in [TaskIds -> {"none", "pending", "active"}]
      /\ calls' \in Nat /\ actions' \in Nat /\ crashes' \in Nat
  BY DEF DeliverAction, counters, Inv, TypeOK
<1> QED
  BY <1>1, <1>4, <1>5, BeginInv

\* A delivered expiry gives a worker a typed operation.
LEMMA DeliverExpiryInv ==
  ASSUME Inv, NEW w \in Workers, NEW h \in Holds, DeliverExpiry(w, h)
  PROVE  Inv'
<1> DEFINE o == [Request(ClientTarget(h), "void", 0) EXCEPT !.task = <<h, "expiry">>]
<1>1. <<h, "expiry">> \in TaskIds
  BY DEF TaskIds, Kinds
<1>2. o \in Ops
  BY <1>1, ClientTargetType DEF Request, Ops
<1>3. /\ UNCHANGED <<rowVars, lock, payload, taking, outcome>>
      /\ tasks' \in [TaskIds -> {"none", "pending", "active"}]
      /\ calls' \in Nat /\ actions' \in Nat /\ crashes' \in Nat
  BY DEF DeliverExpiry, counters, Inv, TypeOK
<1> QED
  BY <1>2, <1>3, BeginInv DEF DeliverExpiry

\* SETNX succeeds only while nobody holds the lock.
LEMMA TakeLockInv == ASSUME Inv, NEW w \in Workers, TakeLock(w) PROVE Inv'
<1>1. op[w] \in Ops /\ op[w].target \in Targets
  BY DEF Inv, LocksOK, TakeLock, Ops
<1>2. TypeOK'
  BY <1>1 DEF Inv, TypeOK, TakeLock, rowVars, taskVars, counters
<1>3. /\ \A v \in Workers \ {w} : pc'[v] = pc[v]
      /\ pc'[w] = "validate"
      /\ UNCHANGED <<op, taking, committed, voided>>
  BY DEF Inv, TypeOK, TakeLock, rowVars
<1>4. \A v \in Workers \ {w}, t \in Targets : lock[t] = v => lock'[t] = v
  BY InflightAssumption DEF Inv, TypeOK, TakeLock
<1>5. lock'[op'[w].target] = w
  BY <1>1, <1>3 DEF Inv, TypeOK, TakeLock
<1> QED
  BY <1>1, <1>2, <1>3, <1>4, <1>5, LocalStep

\* An attempt that finds the lock taken claims nothing.
LEMMA LockTakenInv == ASSUME Inv, NEW w \in Workers, LockTaken(w) PROVE Inv'
<1>1. op[w] \in Ops
  BY DEF Inv, LocksOK, LockTaken
<1>2. TypeOK'
  BY DEF Inv, TypeOK, LockTaken, rowVars, taskVars, counters
<1>3. /\ \A v \in Workers \ {w} : pc'[v] = pc[v]
      /\ pc'[w] = "settle"
      /\ UNCHANGED <<op, taking, committed, voided, lock>>
  BY DEF Inv, TypeOK, LockTaken, rowVars
<1>4. ~Locked(w)'
  BY <1>3 DEF Locked
<1> QED
  BY <1>1, <1>2, <1>3, <1>4, LocalStep

\* The validated amount is positive and within what remains of the target.
LEMMA ValidateInv == ASSUME Inv, NEW w \in Workers, Validate(w) PROVE Inv'
<1> DEFINE t == op[w].target
<1>1. op[w] \in Ops /\ t \in Targets /\ op[w].amount \in Nat /\ lock[t] = w
  BY DEF Inv, LocksOK, Locked, Validate, Ops
<1>2. HoldAmount[t[1]] \in Nat /\ committed[t] \in 0 .. HoldAmount[t[1]]
  BY <1>1, InflightAssumption DEF Inv, ResolvedOK, Targets
<1>3. Remaining(t) \in Int
  BY <1>2 DEF Remaining
<1>4. TypeOK'
  BY <1>1, <1>3 DEF Inv, TypeOK, Validate, rowVars, taskVars, counters
<1>5. /\ \A v \in Workers \ {w} : pc'[v] = pc[v] /\ taking'[v] = taking[v]
      /\ UNCHANGED <<op, committed, voided, lock>>
      /\ pc'[w] \in {"record", "unlock"}
  BY DEF Inv, TypeOK, Validate, rowVars
<1>6. LocksOK'
  BY <1>1, <1>5 DEF Inv, LocksOK, Locked
<1>7. pc'[w] = "record" => Claim(w, t)'
  <2> SUFFICES ASSUME pc'[w] = "record" PROVE Claim(w, t)'
    OBVIOUS
  <2>1. /\ Permitted(t, op[w].action, op[w].amount)
        /\ taking'[w] = IF op[w].action = "commit" /\ op[w].amount # 0
                        THEN op[w].amount ELSE Remaining(t)
    BY DEF Inv, TypeOK, Validate
  <2>2. Remaining(t) > 0
    BY <1>2, <2>1 DEF Permitted, Remaining
  <2>3. taking'[w] \in 1 .. Remaining(t)
    BY <1>1, <1>3, <2>1, <2>2 DEF Permitted
  <2>4. Remaining(t)' = Remaining(t) /\ voided'[t] = 0 /\ op'[w] = op[w]
    BY <1>5, <2>1 DEF Remaining, Permitted
  <2>5. op[w].action = "void" => taking'[w] = Remaining(t)
    BY <2>1
  <2> QED
    BY <1>5, <2>3, <2>4, <2>5 DEF Claim, Remaining
<1>8. TakingOK'
  BY <1>5, <1>7 DEF Inv, TakingOK, Claim, Remaining
<1>9. ResolvedOK'
  BY <1>5 DEF Inv, ResolvedOK, Remaining
<1> QED
  BY <1>4, <1>6, <1>8, <1>9 DEF Inv

\* A record takes what its worker claimed; no other worker has a claim on the
\* same target, because it would own the same lock.
LEMMA RecordInv == ASSUME Inv, NEW w \in Workers, Record(w) PROVE Inv'
<1> DEFINE t == op[w].target
<1>1. op[w] \in Ops /\ t \in Targets /\ lock[t] = w
  BY DEF Inv, LocksOK, Locked, Record, Ops
<1>2. HoldAmount[t[1]] \in Nat /\ committed[t] \in 0 .. HoldAmount[t[1]]
  BY <1>1, InflightAssumption DEF Inv, ResolvedOK, Targets
<1>3. Claim(w, t)
  BY DEF Inv, TakingOK, Record
<1>4. taking[w] \in Int
  BY DEF Inv, TypeOK
<1>5. TypeOK'
  BY <1>1, <1>2, <1>4 DEF Inv, TypeOK, Record, taskVars, counters
<1>6. /\ \A v \in Workers \ {w} : pc'[v] = pc[v] /\ taking'[v] = taking[v]
      /\ UNCHANGED <<op, lock>>
      /\ pc'[w] = "unlock"
  BY DEF Inv, TypeOK, Record
<1>7. LocksOK'
  BY <1>1, <1>6 DEF Inv, LocksOK, Locked
<1>8. \A s \in Targets \ {t} : committed'[s] = committed[s] /\ voided'[s] = voided[s]
  BY DEF Inv, TypeOK, Record
<1>9. TakingOK'
  <2> SUFFICES ASSUME NEW v \in Workers, pc'[v] = "record"
               PROVE Claim(v, op[v].target)'
    BY <1>6 DEF TakingOK
  <2>1. v # w /\ pc[v] = "record"
    BY <1>6
  <2>2. op[v].target \in Targets /\ lock[op[v].target] = v
    BY <2>1 DEF Inv, LocksOK, Locked, Ops
  <2>3. op[v].target # t
    BY <1>1, <2>1, <2>2
  <2> QED
    BY <1>6, <1>8, <2>1, <2>2, <2>3 DEF Inv, TakingOK, Claim, Remaining
<1>10. ResolvedOK'
  <2> SUFFICES ASSUME NEW s \in Targets
               PROVE /\ committed'[s] \in 0 .. HoldAmount[s[1]]
                     /\ voided'[s] \in {0, HoldAmount[s[1]] - committed'[s]}
    BY DEF ResolvedOK, Remaining
  <2>1. CASE s # t
    BY <1>8, <2>1 DEF Inv, ResolvedOK, Remaining
  <2>2. CASE s = t /\ op[w].action = "commit"
    <3>1. committed'[t] = committed[t] + taking[w] /\ voided'[t] = voided[t]
      BY <1>1, <2>2 DEF Inv, TypeOK, Record
    <3> QED
      BY <1>2, <1>3, <2>2, <3>1 DEF Claim, Remaining
  <2>3. CASE s = t /\ op[w].action # "commit"
    <3>1. committed'[t] = committed[t] /\ voided'[t] = taking[w]
      BY <1>1, <2>3 DEF Inv, TypeOK, Record
    <3>2. op[w].action = "void"
      BY <1>1, <2>3 DEF Ops
    <3> QED
      BY <1>2, <1>3, <2>3, <3>1, <3>2 DEF Claim, Remaining
  <2> QED
    BY <2>1, <2>2, <2>3
<1> QED
  BY <1>5, <1>7, <1>9, <1>10 DEF Inv

\* A failed recording gives its claim up.
LEMMA RecordFailsInv == ASSUME Inv, NEW w \in Workers, RecordFails(w) PROVE Inv'
<1>1. op[w] \in Ops /\ lock[op[w].target] = w
  BY DEF Inv, LocksOK, Locked, RecordFails
<1>2. TypeOK'
  BY DEF Inv, TypeOK, RecordFails, rowVars, taskVars, counters
<1>3. /\ \A v \in Workers \ {w} : pc'[v] = pc[v] /\ taking'[v] = taking[v]
      /\ pc'[w] = "unlock"
      /\ UNCHANGED <<op, committed, voided, lock>>
  BY DEF Inv, TypeOK, RecordFails, rowVars
<1> QED
  BY <1>1, <1>2, <1>3, LocalStep

\* A worker gives up the lock of its own target only.
LEMMA UnlockInv == ASSUME Inv, NEW w \in Workers, Unlock(w) PROVE Inv'
<1>1. op[w] \in Ops /\ op[w].target \in Targets
  BY DEF Inv, LocksOK, Unlock, Ops
<1>2. TypeOK'
  BY <1>1 DEF Inv, TypeOK, Unlock, rowVars, taskVars, counters
<1>3. /\ \A v \in Workers \ {w} : pc'[v] = pc[v]
      /\ pc'[w] = "settle"
      /\ UNCHANGED <<op, taking, committed, voided>>
  BY DEF Inv, TypeOK, Unlock, rowVars
<1>4. \A v \in Workers \ {w}, t \in Targets : lock[t] = v => lock'[t] = v
  BY DEF Inv, TypeOK, Unlock
<1>5. ~Locked(w)'
  BY <1>3 DEF Locked
<1> QED
  BY <1>1, <1>2, <1>3, <1>4, <1>5, LocalStep

\* Forget leaves an idle worker behind.
LEMMA ForgetFacts ==
  ASSUME TypeOK, NEW w \in Workers, Forget(w)
  PROVE  /\ pc' \in [Workers -> {"idle", "lock", "validate", "record", "unlock", "settle"}]
         /\ op' \in [Workers -> Ops \cup {NoOp}]
         /\ taking' \in [Workers -> Int]
         /\ outcome' \in [Workers -> {"none", "applied", "terminal", "transient"}]
         /\ pc'[w] = "idle"
         /\ \A v \in Workers \ {w} : /\ pc'[v] = pc[v] /\ op'[v] = op[v]
                                      /\ taking'[v] = taking[v]
  BY DEF TypeOK, Forget

\* A settled worker is idle.
LEMMA SettleInv == ASSUME Inv, NEW w \in Workers, Settle(w) PROVE Inv'
<1>1. Forget(w)
  BY DEF Settle
<1>2. tasks' \in [TaskIds -> {"none", "pending", "active"}]
  BY DEF Inv, TypeOK, Settle, AfterAttempt
<1>3. TypeOK'
  BY <1>1, <1>2, ForgetFacts DEF Inv, TypeOK, Settle, rowVars, counters
<1>4. ~Locked(w)'
  BY <1>1, ForgetFacts DEF Inv, Locked
<1> QED
  BY <1>1, <1>3, <1>4, ForgetFacts, LocalStep DEF Settle, rowVars, Inv

\* A crashed worker is idle and its lock an orphan.
LEMMA CrashInv == ASSUME Inv, NEW w \in Workers, Crash(w) PROVE Inv'
<1>1. Forget(w)
  BY DEF Crash
<1>2. tasks' \in [TaskIds -> {"none", "pending", "active"}]
  BY DEF Inv, TypeOK, Crash
<1>3. /\ lock' \in [Targets -> Workers \cup {Free, Orphan}]
      /\ \A v \in Workers \ {w}, t \in Targets : lock[t] = v => lock'[t] = v
  BY DEF Inv, TypeOK, Crash
<1>4. TypeOK'
  BY <1>1, <1>2, <1>3, ForgetFacts DEF Inv, TypeOK, Crash, rowVars
<1>5. ~Locked(w)'
  BY <1>1, ForgetFacts DEF Inv, Locked
<1> QED
  BY <1>1, <1>3, <1>4, <1>5, ForgetFacts, LocalStep DEF Crash, rowVars, Inv

------------------------------------------------------------------------------
\* Every step keeps the invariant.
LEMMA NextInv == ASSUME Inv, [Next]_vars PROVE Inv'
<1>1. CASE UNCHANGED vars
  <2>1. TypeOK'
    BY <1>1 DEF vars, Inv, TypeOK, rowVars, taskVars, workerVars, counters
  <2> QED
    BY <1>1, <2>1, IdleStep DEF vars, rowVars
<1>2. CASE ClientStep
  <2>1. PICK h \in Holds :
          \/ Place(h)
          \/ \E action \in {"commit", "void"}, amount \in 0 .. HoldAmount[h] :
               \/ QueueInflightAction(h, action, amount)
               \/ \E w \in Workers : \/ CallLegs(w, h, action, amount)
                                     \/ CallBulk(w, h, action, amount)
    BY <1>2 DEF ClientStep
  <2>2. 0 .. HoldAmount[h] \subseteq Nat
    BY InflightAssumption
  <2> QED
    BY <2>1, <2>2, PlaceInv, QueueInflightActionInv, CallLegsInv, CallBulkInv
<1>3. CASE QueueStep
  BY <1>3, RecordLegInv, DropActionInv, DeliverActionInv, DeliverExpiryInv
  DEF QueueStep
<1>4. CASE \E w \in Workers : WorkerStep(w) \/ Crash(w)
  BY <1>4, TakeLockInv, LockTakenInv, ValidateInv, RecordInv, RecordFailsInv,
     UnlockInv, SettleInv, CrashInv DEF WorkerStep
<1>5. CASE \E t \in Targets : ExpireOrphan(t)
  BY <1>5, ExpireOrphanInv
<1> QED
  BY <1>1, <1>2, <1>3, <1>4, <1>5 DEF Next

\* The invariant holds in every reachable state: types, mutual exclusion on
\* the "inflight-commit:<id>" locks, and validated amounts that stay valid.
THEOREM InvHolds == Spec => []Inv
<1>1. Inv /\ [Next]_vars => Inv'
  BY NextInv
<1> QED
  BY <1>1, InitInv, PTL DEF Spec

\* Between the validation of a commit or a void and its recording nobody else
\* resolves the same id, whatever the number of workers
\* (CommitInflightTransactionWithRef, VoidInflightTransactionWithRef).
THEOREM ClaimsStayValid == Spec => []TakingOK
<1>1. Inv => TakingOK
  BY DEF Inv
<1> QED
  BY <1>1, InvHolds, PTL

\* Only the recording of a commit or void changes what the hold book sees.
LEMMA OnlyRecordResolves ==
  ASSUME Next, \A w \in Workers : ~Record(w)
  PROVE  UNCHANGED <<committed, voided>>
<1>1. CASE ClientStep
  BY <1>1 DEF ClientStep, Place, QueueInflightAction, CallLegs, CallBulk, rowVars
<1>2. CASE QueueStep
  BY <1>2 DEF QueueStep, RecordLeg, DropAction, DeliverAction, DeliverExpiry, rowVars
<1>3. CASE \E w \in Workers : WorkerStep(w) \/ Crash(w)
  BY <1>3 DEF WorkerStep, TakeLock, LockTaken, Validate, RecordFails, Unlock,
              Settle, Crash, rowVars
<1>4. CASE \E t \in Targets : ExpireOrphan(t)
  BY <1>4 DEF ExpireOrphan, rowVars
<1> QED
  BY <1>1, <1>2, <1>3, <1>4 DEF Next

\* A recorded commit takes a part of what is held, a recorded void the rest.
LEMMA RecordRefines ==
  ASSUME Inv, NEW w \in Workers, Record(w) PROVE Book!BookNext
<1>0. op[w] \in Ops
  BY DEF Inv, LocksOK, Record
<1>1. PICK t \in Targets : t = op[w].target
  BY <1>0 DEF Ops
<1> DEFINE heldNow == [s \in Targets |-> Remaining(s) - voided[s]]
           heldNext == [s \in Targets |-> HoldAmount[s[1]] - committed'[s] - voided'[s]]
<1>2. /\ Claim(w, t)
      /\ HoldAmount[t[1]] \in Nat
      /\ committed[t] \in 0 .. HoldAmount[t[1]]
  BY <1>1, InflightAssumption DEF Inv, TakingOK, ResolvedOK, Record, Targets
<1>3. \A s \in Targets \ {t} : committed'[s] = committed[s] /\ voided'[s] = voided[s]
  BY <1>1 DEF Inv, TypeOK, Record
<1>4. [s \in Targets |-> Remaining(s) - voided[s]]' = heldNext
  BY DEF Remaining
<1>5. heldNow[t] = Remaining(t) /\ t \notin {s \in Targets : voided[s] # 0}
  BY <1>1, <1>2 DEF Claim, Remaining
<1>6. CASE op[w].action = "commit"
  <2>1. /\ committed' = [committed EXCEPT ![t] = @ + taking[w]]
        /\ voided' = voided
    BY <1>1, <1>6 DEF Record
  <2>2. heldNext = [heldNow EXCEPT ![t] = @ - taking[w]]
    BY <1>1, <1>2, <2>1 DEF Claim, Remaining, Inv, TypeOK
  <2>3. Book!CommitPart(t)
    BY <1>2, <1>4, <1>5, <2>1, <2>2 DEF Book!CommitPart, Claim
  <2> QED
    BY <1>1, <2>3 DEF Book!BookNext
<1>7. CASE op[w].action # "commit"
  <2>1. /\ committed' = committed
        /\ voided' = [voided EXCEPT ![t] = taking[w]]
        /\ taking[w] = Remaining(t)
    BY <1>0, <1>1, <1>2, <1>7 DEF Record, Claim, Ops
  <2>2. heldNext = [heldNow EXCEPT ![t] = 0]
    <3>1. heldNext[t] = 0
      <4>1. voided'[t] = HoldAmount[t[1]] - committed[t]
        BY <1>1, <2>1 DEF Remaining, Inv, TypeOK
      <4> QED
        BY <1>1, <1>2, <2>1, <4>1
    <3>2. \A s \in Targets \ {t} : heldNext[s] = heldNow[s]
      BY <1>3 DEF Remaining
    <3> QED
      BY <3>1, <3>2
  <2>3. voided'[t] # 0 /\ heldNow[t] > 0
    BY <1>1, <1>2, <1>5, <2>1 DEF Claim, Remaining, Inv, TypeOK
  <2>4. {s \in Targets : voided'[s] # 0} = {s \in Targets : voided[s] # 0} \cup {t}
    BY <1>1, <1>3, <2>3
  <2>5. Book!VoidRest(t)
    BY <1>4, <1>5, <2>1, <2>2, <2>3, <2>4 DEF Book!VoidRest
  <2> QED
    BY <1>1, <2>5 DEF Book!BookNext
<1> QED
  BY <1>6, <1>7

\* Every transaction id is resolved once: commits and voids of one id, however
\* many workers race for it and however often their tasks are delivered, take
\* no more than its amount, and nothing follows a void.
THEOREM Refinement == Spec => BookRefinement
<1>1. Init => Book!BookInit
  <2> SUFFICES ASSUME Init PROVE Book!BookInit
    OBVIOUS
  <2>1. \A t \in Targets : HoldAmount[t[1]] \in Nat
    BY InflightAssumption DEF Targets
  <2>2. [t \in Targets |-> Remaining(t) - voided[t]] = [t \in Targets |-> HoldAmount[t[1]]]
    BY <2>1 DEF Init, Remaining
  <2>3. {t \in Targets : voided[t] # 0} = {}
    BY DEF Init
  <2> QED
    BY <2>2, <2>3 DEF Init, Book!BookInit
<1>2. Inv /\ [Next]_vars => [Book!BookNext]_(Book!bookVars)
  <2> SUFFICES ASSUME Inv, [Next]_vars, ~Book!BookNext PROVE UNCHANGED Book!bookVars
    OBVIOUS
  <2>1. UNCHANGED <<committed, voided>>
    BY RecordRefines, OnlyRecordResolves DEF vars, rowVars
  <2> QED
    BY <2>1 DEF Book!bookVars, Remaining
<1> QED
  BY <1>1, <1>2, InvHolds, PTL DEF Spec, BookRefinement, Book!BookSpec

(***************************************************************************)
(* Holds that are recorded without the queue (Queued = {}): a hold has one *)
(* id, so what is true of every id is true of every hold.  The pool is a   *)
(* sum over the open holds, and every step changes one of its terms.       *)
(***************************************************************************)

\* Without the queue a hold has its leg only, nothing is recorded for a hold
\* that is not open, and a worker that is about to record saw it open.
UnqueuedOK ==
  /\ \A h \in Holds : leg[h] \in {"absent", "inflight"}
  /\ \A w \in Workers : pc[w] = "record" => IsInflight(op[w].target)
  /\ \A t \in Targets : ~IsInflight(t) => committed[t] = 0 /\ voided[t] = 0

\* What each action id stands for: the hold and the action that a payload, a
\* worker or a recorded row has together with the id.
Marks ==
  {m \in Holds \X {"commit", "void"} \X (1 .. ScheduledId) :
     \/ m[3] = ScheduledId /\ m[2] = "commit"
     \/ m[2] = payload[m[1]].action /\ m[3] = payload[m[1]].id
     \/ \E w \in Workers : /\ pc[w] # "idle"
                           /\ m = <<op[w].target[1], op[w].action, op[w].id>>
     \/ \E part \in {"row", "leg"} : refs[<<<<m[1], part>>, m[2], m[3]>>] # 0}

\* An action id was given out before it is used, and stands for one action.
MarksOK ==
  /\ actions <= MaxActions
  /\ \A m \in Marks : m[3] <= actions \/ m[3] = ScheduledId
  /\ \A m, n \in Marks : m[1] = n[1] /\ m[3] = n[3] => m[2] = n[2]

\* A deterministic reference is carried by one row at most, of an open leg.
RefsOK ==
  /\ refs \in [References -> {0, 1}]
  /\ \A r \in References : refs[r] = 1 => IsInflight(r[1])

Open == {h \in Holds : leg[h] = "inflight"}

UnqueuedInv ==
  /\ Inv /\ UnqueuedOK /\ MarksOK /\ RefsOK
  /\ IsFiniteSet(Open) /\ PoolCoversHolds

\* What the holds of S have left, when c was committed and v voided.
Left(c, v, h) ==
  HoldAmount[h] - (c[<<h, "row">>] + v[<<h, "row">>] + c[<<h, "leg">>] + v[<<h, "leg">>])
LeftIn(c, v, S) == MapThenSumSet(LAMBDA h : Left(c, v, h), S)

\* LeftIn is a sum.
LEMMA LeftIsSum ==
  ASSUME NEW c, NEW v, NEW S, IsFiniteSet(S)
  PROVE  \E g : IsSum(g, [h \in S |-> Left(c, v, h)], S) /\ LeftIn(c, v, S) = g[S]
<1> DEFINE w == [h \in S |-> Left(c, v, h)]
           P(f) == f = [s \in SUBSET S |->
                          IF s = {} THEN 0
                          ELSE Left(c, v, CHOOSE x \in s : TRUE)
                               + f[s \ {CHOOSE x \in s : TRUE}]]
<1>1. LeftIn(c, v, S) = (CHOOSE f : P(f))[S]
  BY DEF LeftIn, MapThenSumSet, MapThenFoldSet
<1>2. ASSUME NEW g PROVE IsSum(g, w, S) <=> P(g)
  BY PickInSet DEF Pick, IsSum
<1>3. \E f : P(f)
  <2>1. PICK g : IsSum(g, w, S)
    BY SumExists
  <2>2. P(g)
    BY <1>2, <2>1
  <2> HIDE DEF P
  <2> QED
    BY <2>2
<1>4. P(CHOOSE f : P(f))
  <2> HIDE DEF P
  <2> QED
    BY <1>3
<1> QED
  BY <1>1, <1>2, <1>4

\* The pool in terms of LeftIn, in a state and in the next one.
LEMMA PoolIsLeft ==
  /\ PoolCoversHolds <=> pool = LeftIn(committed, voided, Open)
  /\ PoolCoversHolds' <=> pool' = LeftIn(committed', voided', Open')
BY DEF PoolCoversHolds, LeftIn, Left, Resolved, Open, MapThenSumSet, MapThenFoldSet

\* Nothing has nothing left.
LEMMA LeftEmpty == ASSUME NEW c, NEW v PROVE LeftIn(c, v, {}) = 0
<1>1. PICK g : IsSum(g, [h \in {} |-> Left(c, v, h)], {}) /\ LeftIn(c, v, {}) = g[{}]
  BY LeftIsSum, FS_EmptySet
<1> QED
  BY <1>1, SumEmpty

\* One more hold adds what it has left.
LEMMA LeftAdded ==
  ASSUME NEW c \in [Targets -> Int], NEW v \in [Targets -> Int],
         NEW S \in SUBSET Holds, IsFiniteSet(S), NEW a \in Holds, a \notin S,
         NEW T, T = S \cup {a}
  PROVE  LeftIn(c, v, T) = LeftIn(c, v, S) + Left(c, v, a) /\ LeftIn(c, v, S) \in Int
<1>0. \A h \in Holds : Left(c, v, h) \in Int
  BY InflightAssumption DEF Left, Targets
<1>1. PICK x : x = [h \in T |-> Left(c, v, h)]
  OBVIOUS
<1>2. PICK y : y = [h \in S |-> Left(c, v, h)]
  OBVIOUS
<1>3. /\ x \in [T -> Int] /\ x[a] = Left(c, v, a)
      /\ y \in [S -> Int] /\ \A z \in S : x[z] = y[z]
  BY <1>0, <1>1, <1>2
<1>4. IsFiniteSet(T)
  BY FS_AddElement
<1>5. PICK g : IsSum(g, x, T) /\ LeftIn(c, v, T) = g[T]
  BY <1>1, <1>4, LeftIsSum
<1>6. PICK h : IsSum(h, y, S) /\ LeftIn(c, v, S) = h[S]
  BY <1>2, LeftIsSum
<1>7. g[T] = h[S] + x[a] /\ h[S] \in Int
  BY <1>3, <1>5, <1>6, SumAdded
<1> QED
  BY <1>3, <1>5, <1>6, <1>7

\* The sum depends on what was taken from its holds only.
LEMMA LeftAgrees ==
  ASSUME NEW c, NEW v, NEW d, NEW u, NEW S, IsFiniteSet(S),
         \A h \in S : Left(c, v, h) = Left(d, u, h)
  PROVE  LeftIn(c, v, S) = LeftIn(d, u, S)
<1>1. PICK x : x = [h \in S |-> Left(c, v, h)]
  OBVIOUS
<1>2. PICK y : y = [h \in S |-> Left(d, u, h)]
  OBVIOUS
<1>3. x = y
  BY <1>1, <1>2
<1>4. PICK g : IsSum(g, x, S) /\ LeftIn(c, v, S) = g[S]
  BY <1>1, LeftIsSum
<1>5. PICK h : IsSum(h, y, S) /\ LeftIn(d, u, S) = h[S]
  BY <1>2, LeftIsSum
<1>6. g[S] = h[S]
  <2>1. S \in SUBSET S /\ S \subseteq S /\ \A z \in S : x[z] = y[z]
    BY <1>3
  <2> QED
    BY <1>4, <1>5, <2>1, SumAgree
<1> QED
  BY <1>4, <1>5, <1>6

\* Only placing, recording the queue copy and recording a commit or void
\* change rows and balances.
LEMMA RowsFrame ==
  ASSUME Next, \A h \in Holds : ~Place(h) /\ ~RecordLeg(h), \A w \in Workers : ~Record(w)
  PROVE  UNCHANGED rowVars
<1>1. CASE ClientStep
  BY <1>1 DEF ClientStep, QueueInflightAction, CallLegs, CallBulk
<1>2. CASE QueueStep
  BY <1>2 DEF QueueStep, DropAction, DeliverAction, DeliverExpiry
<1>3. CASE \E w \in Workers : WorkerStep(w) \/ Crash(w)
  BY <1>3 DEF WorkerStep, TakeLock, LockTaken, Validate, RecordFails, Unlock,
              Settle, Crash
<1>4. CASE \E t \in Targets : ExpireOrphan(t)
  BY <1>4 DEF ExpireOrphan
<1> QED
  BY <1>1, <1>2, <1>3, <1>4 DEF Next

\* Only queueing an action changes payloads and gives out an id.
LEMMA PayloadFrame ==
  ASSUME Next,
         \A h \in Holds : \A action \in {"commit", "void"}, amount \in 0 .. HoldAmount[h] :
           ~QueueInflightAction(h, action, amount)
  PROVE  UNCHANGED <<payload, actions>>
<1>1. CASE ClientStep
  BY <1>1 DEF ClientStep, Place, CallLegs, CallBulk, taskVars
<1>2. CASE QueueStep
  BY <1>2 DEF QueueStep, RecordLeg, DropAction, DeliverAction, DeliverExpiry, taskVars
<1>3. CASE \E w \in Workers : WorkerStep(w) \/ Crash(w)
  BY <1>3 DEF WorkerStep, TakeLock, LockTaken, Validate, Record, RecordFails, Unlock,
              Settle, Crash, taskVars
<1>4. CASE \E t \in Targets : ExpireOrphan(t)
  BY <1>4 DEF ExpireOrphan, taskVars
<1> QED
  BY <1>1, <1>2, <1>3, <1>4 DEF Next

\* Where the operation o of a worker may come from: a request without an action
\* id, a payload, or the scheduled commit.
Origin(o) ==
  \/ o.id = 0
  \/ \E h \in Holds :
       /\ o.target[1] = h
       /\ \/ o.action = payload[h].action /\ o.id = payload[h].id
          \/ o.action = "commit" /\ o.id = ScheduledId

\* A worker goes on with its operation or begins one.
Keeps(v) ==
  /\ pc'[v] # "idle" => \/ pc[v] # "idle" /\ op'[v] = op[v]
                        \/ Origin(op'[v])
  /\ pc'[v] = "record" => pc[v] = "record" /\ op'[v] = op[v]

\* Beginning an operation is not recording.
LEMMA BeginKeeps ==
  ASSUME TypeOK, NEW w \in Workers, NEW o, Begin(w, o), Origin(o), NEW v \in Workers
  PROVE  Keeps(v)
<1>1. CASE v = w
  <2>1. pc'[v] = "lock" /\ op'[v] = o
    BY <1>1 DEF TypeOK, Begin
  <2> QED
    BY <2>1 DEF Keeps
<1>2. CASE v # w
  <2>1. pc'[v] = pc[v] /\ op'[v] = op[v]
    BY <1>2 DEF TypeOK, Begin
  <2> QED
    BY <2>1 DEF Keeps
<1> QED
  BY <1>1, <1>2

\* The operations of a step that is not a worker's own.
LEMMA RequestsKeep ==
  ASSUME Inv, ClientStep \/ QueueStep \/ \E t \in Targets : ExpireOrphan(t),
         NEW v \in Workers
  PROVE  Keeps(v)
<1>0. TypeOK
  BY DEF Inv
<1>1. ASSUME UNCHANGED workerVars PROVE Keeps(v)
  BY <1>1 DEF Keeps, workerVars
<1>2. ASSUME NEW w \in Workers, NEW t, NEW action, NEW amount,
             Begin(w, Request(t, action, amount))
      PROVE  Keeps(v)
  <2>1. Origin(Request(t, action, amount))
    BY DEF Origin, Request
  <2> QED
    BY <1>0, <1>2, <2>1, BeginKeeps
<1>3. ASSUME NEW w \in Workers, NEW h \in Holds, NEW kind \in {"manual", "auto"},
             DeliverAction(w, h, kind)
      PROVE  Keeps(v)
  <2> DEFINE p == IF kind = "auto"
                  THEN [action |-> "commit", amount |-> 0, id |-> ScheduledId]
                  ELSE payload[h]
  <2>1. PICK t \in Legs(h) :
          Begin(w, [target |-> t, action |-> p.action, amount |-> p.amount,
                    id |-> p.id, task |-> <<h, kind>>])
    BY <1>3 DEF DeliverAction
  <2>2. PICK o : o = [target |-> t, action |-> p.action, amount |-> p.amount,
                      id |-> p.id, task |-> <<h, kind>>]
    OBVIOUS
  <2>3. t[1] = h
    BY <2>1 DEF Legs
  <2>4. o.target = t /\ o.action = p.action /\ o.id = p.id
    BY <2>2
  <2>5. Origin(o)
    BY <2>3, <2>4 DEF Origin
  <2>6. Begin(w, o)
    BY <2>1, <2>2
  <2> HIDE DEF p
  <2> QED
    BY <1>0, <2>5, <2>6, BeginKeeps
<1>4. ASSUME NEW w \in Workers, NEW h \in Holds, DeliverExpiry(w, h) PROVE Keeps(v)
  <2>1. PICK o : o = [Request(ClientTarget(h), "void", 0) EXCEPT !.task = <<h, "expiry">>]
    OBVIOUS
  <2>2. Origin(o)
    BY <2>1 DEF Origin, Request
  <2>3. Begin(w, o)
    BY <1>4, <2>1 DEF DeliverExpiry
  <2> QED
    BY <1>0, <2>2, <2>3, BeginKeeps
<1>5. CASE ClientStep
  BY <1>1, <1>2, <1>5 DEF ClientStep, Place, QueueInflightAction, CallLegs, CallBulk
<1>6. CASE QueueStep
  BY <1>1, <1>3, <1>4, <1>6 DEF QueueStep, RecordLeg, DropAction
<1>7. CASE \E t \in Targets : ExpireOrphan(t)
  BY <1>1, <1>7 DEF ExpireOrphan
<1> QED
  BY <1>5, <1>6, <1>7

\* The operations of a worker's own step: only Validate leads to recording.
LEMMA WorkersKeep ==
  ASSUME Inv, NEW w \in Workers, WorkerStep(w) \/ Crash(w), ~Validate(w),
         NEW v \in Workers
  PROVE  Keeps(v)
<1>1. CASE v = w
  BY <1>1 DEF Inv, TypeOK, Keeps, WorkerStep, TakeLock, LockTaken, Record, RecordFails, Unlock,
              Settle, Crash, Forget
<1>2. CASE v # w
  <2>1. pc'[v] = pc[v] /\ op'[v] = op[v]
    BY <1>2 DEF Inv, TypeOK, WorkerStep, TakeLock, LockTaken, Record, RecordFails, Unlock,
                Settle, Crash, Forget
  <2> QED
    BY <2>1 DEF Keeps
<1> QED
  BY <1>1, <1>2

\* What brings a mark about, without its type.
MarkedBy(m) ==
  \/ m[3] = ScheduledId /\ m[2] = "commit"
  \/ m[2] = payload[m[1]].action /\ m[3] = payload[m[1]].id
  \/ \E w \in Workers : /\ pc[w] # "idle"
                        /\ m = <<op[w].target[1], op[w].action, op[w].id>>
  \/ \E part \in {"row", "leg"} : refs[<<<<m[1], part>>, m[2], m[3]>>] # 0

\* A step that gives out no id brings about no mark: workers take their
\* operations from payloads, and rows their references from workers.
LEMMA MarksKept ==
  ASSUME Inv, UNCHANGED <<payload, actions>>,
         \A v \in Workers : pc'[v] # "idle" => \/ pc[v] # "idle" /\ op'[v] = op[v]
                                               \/ Origin(op'[v]),
         \A r \in References :
           refs'[r] # 0 => \/ refs[r] # 0
                           \/ \E w \in Workers : pc[w] # "idle" /\ r = Reference(op[w])
  PROVE  Marks' \subseteq Marks
<1> SUFFICES ASSUME NEW m \in Holds \X {"commit", "void"} \X (1 .. ScheduledId), MarkedBy(m)'
             PROVE  MarkedBy(m)
  BY DEF Marks, MarkedBy, ScheduledId
<1>1. CASE m[3] = ScheduledId /\ m[2] = "commit"
  BY <1>1 DEF MarkedBy
<1>2. CASE m[2] = payload'[m[1]].action /\ m[3] = payload'[m[1]].id
  BY <1>2 DEF MarkedBy
<1>3. ASSUME NEW v \in Workers, pc'[v] # "idle",
             m = <<op'[v].target[1], op'[v].action, op'[v].id>>
      PROVE  MarkedBy(m)
  <2>1. m[1] = op'[v].target[1] /\ m[2] = op'[v].action /\ m[3] = op'[v].id /\ m[3] # 0
    BY <1>3, InflightAssumption DEF ScheduledId
  <2>2. CASE pc[v] # "idle" /\ op'[v] = op[v]
    BY <1>3, <2>2 DEF MarkedBy
  <2>3. CASE Origin(op'[v])
    BY <2>1, <2>3 DEF MarkedBy, Origin
  <2> QED
    BY <1>3, <2>2, <2>3
<1>4. ASSUME NEW part \in {"row", "leg"}, refs'[<<<<m[1], part>>, m[2], m[3]>>] # 0
      PROVE  MarkedBy(m)
  <2>1. PICK r : r = <<<<m[1], part>>, m[2], m[3]>>
    OBVIOUS
  <2>2. r \in References
    BY <2>1 DEF References, Targets
  <2>3. CASE refs[r] # 0
    BY <2>1, <2>3 DEF MarkedBy
  <2>4. ASSUME NEW w \in Workers, pc[w] # "idle", r = Reference(op[w]) PROVE MarkedBy(m)
    <3>1. op[w].target = <<m[1], part>> /\ op[w].action = m[2] /\ op[w].id = m[3]
      BY <2>1, <2>4 DEF Reference
    <3>2. m = <<op[w].target[1], op[w].action, op[w].id>>
      BY <3>1
    <3> QED
      BY <2>4, <3>2 DEF MarkedBy
  <2> QED
    BY <1>4, <2>1, <2>2, <2>3, <2>4
<1> QED
  BY <1>1, <1>2, <1>3, <1>4 DEF MarkedBy, ScheduledId

\* A queued action gets an id that nothing carries yet.
LEMMA QueuedMarks ==
  ASSUME Inv, MarksOK, NEW h \in Holds, NEW action \in {"commit", "void"}, NEW amount \in Nat,
         QueueInflightAction(h, action, amount)
  PROVE  MarksOK'
<1>1. PICK new : new = <<h, action, actions + 1>>
  OBVIOUS
<1>2. /\ payload' = [payload EXCEPT ![h] = [action |-> action, amount |-> amount,
                                            id |-> actions + 1]]
      /\ UNCHANGED <<refs, pc, op>>
      /\ actions' = actions + 1 /\ actions < MaxActions
  BY DEF QueueInflightAction, rowVars, workerVars
<1>3. actions \in Nat /\ MaxActions \in Nat /\ ScheduledId = MaxActions + 1
  BY InflightAssumption DEF Inv, TypeOK, ScheduledId
<1>4. ASSUME NEW m \in Marks', m # new PROVE m \in Marks
  <2>1. m \in Holds \X {"commit", "void"} \X (1 .. ScheduledId) /\ MarkedBy(m)'
    BY <1>4 DEF Marks, MarkedBy, ScheduledId
  <2>2. CASE m[2] = payload'[m[1]].action /\ m[3] = payload'[m[1]].id
    <3>1. CASE m[1] = h
      <4>1. payload'[h].action = action /\ payload'[h].id = actions + 1
        BY <1>2 DEF Inv, TypeOK
      <4> QED
        BY <1>1, <1>4, <2>1, <2>2, <3>1, <4>1
    <3>2. CASE m[1] # h
      <4>1. payload'[m[1]] = payload[m[1]]
        BY <1>2, <2>1, <3>2 DEF Inv, TypeOK
      <4>2. MarkedBy(m)
        BY <2>2, <4>1 DEF MarkedBy
      <4> QED
        BY <2>1, <4>2 DEF Marks, MarkedBy
    <3> QED
      BY <3>1, <3>2
  <2>3. CASE ~(m[2] = payload'[m[1]].action /\ m[3] = payload'[m[1]].id)
    <3>1. MarkedBy(m)
      BY <1>2, <2>1, <2>3 DEF MarkedBy, ScheduledId
    <3> QED
      BY <2>1, <3>1 DEF Marks, MarkedBy
  <2> QED
    BY <2>2, <2>3
<1>5. \A m \in Marks : m[3] \in Nat /\ m[3] # actions + 1
  BY SMTT(30), <1>2, <1>3 DEF MarksOK, Marks
<1>6. new[3] = actions + 1
  BY <1>1
<1>7. \A m \in Marks' : m[3] <= actions + 1 \/ m[3] = ScheduledId
  BY <1>3, <1>4, <1>5, <1>6 DEF MarksOK
<1>8. ASSUME NEW m \in Marks', NEW n \in Marks', m[1] = n[1], m[3] = n[3]
      PROVE  m[2] = n[2]
  <2>1. CASE m = new \/ n = new
    <3>1. m = new /\ n = new
      BY <1>4, <1>5, <1>6, <1>8, <2>1
    <3> QED
      BY <3>1
  <2>2. CASE m # new /\ n # new
    BY <1>4, <1>8, <2>2 DEF MarksOK
  <2> QED
    BY <2>1, <2>2
<1>9. actions' <= MaxActions
  BY <1>2, <1>3
<1> QED
  BY <1>2, <1>7, <1>8, <1>9 DEF MarksOK, ScheduledId

\* A step that leaves rows and balances alone.
LEMMA QuietRows ==
  ASSUME UnqueuedInv, UNCHANGED rowVars,
         \A v \in Workers : pc'[v] = "record" => IsInflight(op'[v].target)
  PROVE  UnqueuedOK' /\ RefsOK' /\ IsFiniteSet(Open') /\ PoolCoversHolds'
<1>1. UNCHANGED <<leg, pool, committed, voided, refs>>
  BY DEF rowVars
<1>2. ASSUME NEW t PROVE IsInflight(t)' <=> IsInflight(t)
  BY <1>1 DEF IsInflight
<1>3. UnqueuedOK' /\ RefsOK'
  BY <1>1, <1>2 DEF UnqueuedInv, UnqueuedOK, RefsOK, References, ScheduledId
<1>4. Open' = Open
  BY <1>1 DEF Open
<1>5. PoolCoversHolds'
  BY <1>1, <1>4, PoolIsLeft DEF UnqueuedInv
<1> QED
  BY <1>3, <1>4, <1>5 DEF UnqueuedInv

\* Without the queue only legs are inflight.
LEMMA InflightLegs ==
  ASSUME Queued = {}, NEW t \in Targets
  PROVE  IsInflight(t) <=> t = <<t[1], "leg">> /\ leg[t[1]] = "inflight"
BY DEF IsInflight, Targets

\* The same of the next state.
LEMMA InflightLegsNext ==
  ASSUME Queued = {}, NEW t \in Targets
  PROVE  IsInflight(t)' <=> t = <<t[1], "leg">> /\ leg'[t[1]] = "inflight"
BY DEF IsInflight, Targets

\* A new hold puts its amount into the pool; nothing was taken from it yet.
LEMMA PlaceUnqueued ==
  ASSUME Queued = {}, UnqueuedInv, NEW h \in Holds, Place(h)
  PROVE  UnqueuedOK' /\ RefsOK' /\ IsFiniteSet(Open') /\ PoolCoversHolds'
<1>1. /\ leg[h] = "absent" /\ leg' = [leg EXCEPT ![h] = "inflight"]
      /\ pool' = pool + HoldAmount[h]
      /\ UNCHANGED <<committed, voided, refs, pc, op>>
  BY DEF Place, workerVars
<1>2. TypeOK /\ leg \in [Holds -> {"absent", "queued", "inflight", "rejected"}]
  BY DEF UnqueuedInv, Inv, TypeOK
<1>3. leg'[h] = "inflight" /\ \A g \in Holds \ {h} : leg'[g] = leg[g]
  BY <1>1, <1>2
<1>4. ASSUME NEW t \in Targets PROVE IsInflight(t) => IsInflight(t)'
  <2>1. t[1] \in Holds
    BY DEF Targets
  <2> QED
    BY <1>1, <1>3, <2>1, InflightLegs, InflightLegsNext
<1>5. UnqueuedOK'
  <2>1. \A g \in Holds : leg'[g] \in {"absent", "inflight"}
    BY <1>3 DEF UnqueuedInv, UnqueuedOK
  <2>2. ASSUME NEW v \in Workers, pc'[v] = "record" PROVE IsInflight(op[v].target)'
    <3>1. op[v].target \in Targets /\ IsInflight(op[v].target)
      BY <1>1, <2>2 DEF UnqueuedInv, UnqueuedOK, Inv, LocksOK, Ops
    <3>2. PICK t \in Targets : t = op[v].target
      BY <3>1
    <3>3. IsInflight(t)'
      BY <1>4, <3>1, <3>2
    <3> QED
      BY <1>1, <3>2, <3>3 DEF IsInflight
  <2>3. \A t \in Targets : ~IsInflight(t)' => committed'[t] = 0 /\ voided'[t] = 0
    BY <1>1, <1>4 DEF UnqueuedInv, UnqueuedOK
  <2> QED
    BY <1>1, <2>1, <2>2, <2>3 DEF UnqueuedOK
<1>6. RefsOK'
  <2>1. \A r \in References : r[1] \in Targets
    BY DEF References
  <2> QED
    BY <1>1, <1>4, <2>1 DEF UnqueuedInv, RefsOK, References, ScheduledId
<1>7. Open' = Open \cup {h} /\ h \notin Open /\ Open \in SUBSET Holds
  BY <1>1, <1>3 DEF Open
<1>8. IsFiniteSet(Open')
  BY <1>7, FS_AddElement DEF UnqueuedInv
<1>9. Left(committed, voided, h) = HoldAmount[h] /\ HoldAmount[h] \in Int
  <2>1. /\ <<h, "row">> \in Targets /\ ~IsInflight(<<h, "row">>)
        /\ <<h, "leg">> \in Targets /\ ~IsInflight(<<h, "leg">>)
    BY <1>1 DEF Targets, IsInflight
  <2>2. /\ committed[<<h, "row">>] = 0 /\ voided[<<h, "row">>] = 0
        /\ committed[<<h, "leg">>] = 0 /\ voided[<<h, "leg">>] = 0
    BY <2>1 DEF UnqueuedInv, UnqueuedOK
  <2> QED
    BY <2>2, InflightAssumption DEF Left
<1>10. PoolCoversHolds'
  <2>1. pool = LeftIn(committed, voided, Open)
    BY PoolIsLeft DEF UnqueuedInv
  <2>2. /\ committed \in [Targets -> Int] /\ voided \in [Targets -> Int]
        /\ IsFiniteSet(Open)
    BY DEF UnqueuedInv, Inv, TypeOK
  <2>3. PICK T : T = Open'
    OBVIOUS
  <2>4. T = Open \cup {h}
    BY <1>7, <2>3
  <2>5. LeftIn(committed, voided, T) = LeftIn(committed, voided, Open) + HoldAmount[h]
    BY <1>7, <1>9, <2>2, <2>4, LeftAdded
  <2>6. pool' = LeftIn(committed', voided', T)
    BY <1>1, <2>1, <2>5
  <2> QED
    BY <2>3, <2>6, PoolIsLeft
<1> QED
  BY <1>5, <1>6, <1>8, <1>10

\* A recorded commit or void takes its amount from the pool and from one hold.
LEMMA RecordUnqueued ==
  ASSUME Queued = {}, UnqueuedInv, NEW w \in Workers, Record(w)
  PROVE  UnqueuedOK' /\ RefsOK' /\ IsFiniteSet(Open') /\ PoolCoversHolds'
<1>1. op[w] \in Ops /\ op[w].target \in Targets
  BY DEF UnqueuedInv, Inv, LocksOK, Record, Ops
<1>2. PICK t \in Targets : t = op[w].target
  BY <1>1
<1>3. PICK h \in Holds : h = t[1]
  BY DEF Targets
<1>4. IsInflight(t) /\ t = <<h, "leg">> /\ leg[h] = "inflight"
  <2>1. IsInflight(t)
    BY <1>2 DEF UnqueuedInv, UnqueuedOK, Record
  <2> QED
    BY <1>3, <2>1, InflightLegs
<1>5. /\ pool' = pool - taking[w] /\ UNCHANGED <<leg, op>>
      /\ taking[w] \in Int
      /\ committed \in [Targets -> Int] /\ voided \in [Targets -> Int]
  BY DEF UnqueuedInv, Inv, TypeOK, Record
<1>6. \A s \in Targets \ {t} : committed'[s] = committed[s] /\ voided'[s] = voided[s]
  BY <1>2 DEF UnqueuedInv, Inv, TypeOK, Record
<1>7. /\ committed'[t] + voided'[t] = committed[t] + voided[t] + taking[w]
      /\ committed'[t] \in Int /\ voided'[t] \in Int
      /\ committed' \in [Targets -> Int] /\ voided' \in [Targets -> Int]
  <2>1. Claim(w, t)
    BY <1>2 DEF UnqueuedInv, Inv, TakingOK, Record
  <2>2. voided[t] = 0 /\ committed[t] \in Int
    BY <1>5, <2>1 DEF Claim
  <2>3. CASE op[w].action = "commit"
    <3>1. committed' = [committed EXCEPT ![t] = @ + taking[w]] /\ voided' = voided
      BY <1>2, <2>3 DEF Record
    <3>2. committed'[t] = committed[t] + taking[w] /\ voided'[t] = voided[t]
      BY <1>5, <3>1
    <3> QED
      BY <1>5, <2>2, <3>1, <3>2
  <2>4. CASE op[w].action # "commit"
    <3>1. committed' = committed /\ voided' = [voided EXCEPT ![t] = taking[w]]
      BY <1>2, <2>4 DEF Record
    <3>2. committed'[t] = committed[t] /\ voided'[t] = taking[w]
      BY <1>5, <3>1
    <3> QED
      BY <1>5, <2>2, <3>1, <3>2
  <2> QED
    BY <2>3, <2>4
<1>8. ASSUME NEW s PROVE IsInflight(s)' <=> IsInflight(s)
  BY <1>5 DEF IsInflight
<1>9. UnqueuedOK'
  <2>1. \A v \in Workers : pc'[v] = "record" => pc[v] = "record"
    BY DEF UnqueuedInv, Inv, TypeOK, Record
  <2> QED
    BY <1>4, <1>5, <1>6, <1>8, <2>1 DEF UnqueuedInv, UnqueuedOK
<1>10. RefsOK'
  <2>1. CASE op[w].id = 0
    <3>1. refs' = refs
      BY <2>1 DEF Record
    <3> QED
      BY <1>8, <3>1 DEF UnqueuedInv, RefsOK, References, ScheduledId
  <2>2. CASE op[w].id # 0
    <3>1. PICK r : r = Reference(op[w])
      OBVIOUS
    <3>2. refs[r] = 0 /\ refs' = [refs EXCEPT ![r] = @ + 1] /\ r[1] = t
      BY <1>2, <2>2, <3>1 DEF Record, ReferenceFree, Reference
    <3>3. /\ refs' \in [References -> {0, 1}]
          /\ \A s \in References : s # r => refs'[s] = refs[s]
      <4>1. refs \in [References -> {0, 1}] /\ refs' = [refs EXCEPT ![r] = 1]
        BY <3>2 DEF UnqueuedInv, RefsOK
      <4> QED
        BY <4>1
    <3>4. \A s \in References : refs'[s] = 1 => IsInflight(s[1])
      BY <1>4, <3>2, <3>3 DEF UnqueuedInv, RefsOK
    <3> QED
      BY <1>8, <3>3, <3>4 DEF RefsOK, References, ScheduledId
  <2> QED
    BY <2>1, <2>2
<1>11. Open' = Open /\ Open \in SUBSET Holds /\ h \in Open /\ IsFiniteSet(Open)
  BY <1>4, <1>5 DEF Open, UnqueuedInv
<1>12. PoolCoversHolds'
  <2>1. pool = LeftIn(committed, voided, Open)
    BY PoolIsLeft DEF UnqueuedInv
  <2>2. PICK S : S = Open \ {h}
    OBVIOUS
  <2>3. S \in SUBSET Holds /\ IsFiniteSet(S) /\ h \notin S /\ Open = S \cup {h}
    BY <1>11, <2>2, FS_Subset
  <2>4. LeftIn(committed, voided, Open) = LeftIn(committed, voided, S) + Left(committed, voided, h)
        /\ LeftIn(committed, voided, S) \in Int
    BY <1>5, <2>3, LeftAdded
  <2>5. LeftIn(committed', voided', Open) = LeftIn(committed', voided', S) + Left(committed', voided', h)
    BY <1>7, <2>3, LeftAdded
  <2>6. LeftIn(committed, voided, S) = LeftIn(committed', voided', S)
    <3>1. ASSUME NEW g \in S PROVE Left(committed, voided, g) = Left(committed', voided', g)
      <4>1. <<g, "row">> \in Targets \ {t} /\ <<g, "leg">> \in Targets \ {t}
        BY <1>4, <2>3 DEF Targets
      <4> QED
        BY <1>6, <4>1 DEF Left
    <3> QED
      BY <2>3, <3>1, LeftAgrees
  <2>7. Left(committed', voided', h) = Left(committed, voided, h) - taking[w]
        /\ Left(committed, voided, h) \in Int
    <3>1. <<h, "row">> \in Targets \ {t} /\ t \in Targets /\ <<h, "leg">> = t
      BY <1>4 DEF Targets
    <3>2. /\ committed'[<<h, "row">>] = committed[<<h, "row">>]
          /\ voided'[<<h, "row">>] = voided[<<h, "row">>]
          /\ committed[<<h, "row">>] \in Int /\ voided[<<h, "row">>] \in Int
          /\ committed[t] \in Int /\ voided[t] \in Int /\ HoldAmount[h] \in Int
      BY <1>5, <1>6, <3>1, InflightAssumption
    <3> QED
      BY <1>5, <1>7, <3>1, <3>2 DEF Left
  <2>8. pool' = LeftIn(committed', voided', Open)
    BY <1>5, <2>1, <2>4, <2>5, <2>6, <2>7
  <2> QED
    BY <1>11, <2>8, PoolIsLeft
<1> QED
  BY <1>9, <1>10, <1>11, <1>12

\* UnqueuedInv holds initially.
LEMMA InitUnqueued == ASSUME Init PROVE UnqueuedInv
<1>1. Inv
  BY InitInv
<1>2. UnqueuedOK
  BY DEF Init, UnqueuedOK, IsInflight, Targets
<1>3. RefsOK
  BY DEF Init, RefsOK
<1>4. MarksOK
  <2>1. MaxActions \in Nat /\ ScheduledId = MaxActions + 1 /\ actions = 0
    BY InflightAssumption DEF ScheduledId, Init
  <2>2. ASSUME NEW m \in Marks PROVE m[3] = ScheduledId /\ m[2] = "commit"
    <3>1. m[1] \in Holds /\ m[3] \in 1 .. ScheduledId
      BY DEF Marks
    <3>2. \A part \in {"row", "leg"} : <<<<m[1], part>>, m[2], m[3]>> \in References
      BY DEF Marks, References, Targets
    <3> QED
      BY <2>1, <3>1, <3>2 DEF Marks, Init, NoPayload
  <2> QED
    BY <2>1, <2>2 DEF MarksOK
<1>5. Open = {}
  BY DEF Init, Open
<1>6. IsFiniteSet(Open)
  BY <1>5, FS_EmptySet
<1>7. PoolCoversHolds
  BY <1>5, LeftEmpty, PoolIsLeft DEF Init
<1> QED
  BY <1>1, <1>2, <1>3, <1>4, <1>6, <1>7 DEF UnqueuedInv

\* Every step keeps UnqueuedInv.
LEMMA NextUnqueued == ASSUME Queued = {}, UnqueuedInv, [Next]_vars PROVE UnqueuedInv'
<1>0. Inv /\ Inv' /\ MarksOK /\ UnqueuedOK
  BY NextInv DEF UnqueuedInv
<1>1. CASE UNCHANGED vars
  <2>1. UNCHANGED <<rowVars, payload, actions, pc, op>>
    BY <1>1 DEF vars, taskVars, workerVars
  <2>2. UnqueuedOK' /\ RefsOK' /\ IsFiniteSet(Open') /\ PoolCoversHolds'
    BY <1>0, <2>1, QuietRows DEF UnqueuedOK
  <2>3. Marks' \subseteq Marks
    BY <1>0, <2>1, MarksKept DEF rowVars
  <2>4. MarksOK'
    BY <1>0, <2>1, <2>3 DEF MarksOK, ScheduledId
  <2> QED
    BY <1>0, <2>2, <2>4 DEF UnqueuedInv
<1>2. ASSUME Next PROVE UnqueuedInv'
  <2>1. \A h \in Holds : ~RecordLeg(h)
    BY <1>0 DEF UnqueuedOK, RecordLeg
  <2>2. ASSUME NEW v \in Workers, NEW w \in Workers, Validate(w)
        PROVE  /\ pc'[v] # "idle" => pc[v] # "idle" /\ op'[v] = op[v]
               /\ pc'[v] = "record" => IsInflight(op'[v].target)
    <3>1. op' = op /\ UNCHANGED rowVars
      BY <2>2 DEF Validate
    <3>2. CASE v # w
      <4>1. pc'[v] = pc[v]
        BY <1>0, <2>2, <3>2 DEF Inv, TypeOK, Validate
      <4> QED
        BY <1>0, <3>1, <4>1 DEF UnqueuedOK
    <3>3. CASE v = w
      <4>1. pc[w] = "validate"
        BY <2>2 DEF Validate
      <4>2. pc'[w] = "record" => IsInflight(op[w].target)
        BY <1>0, <2>2 DEF Inv, TypeOK, Validate, Permitted
      <4> QED
        BY <3>1, <3>3, <4>1, <4>2
    <3> QED
      BY <3>2, <3>3
  <2>3. ASSUME NEW v \in Workers, \A w \in Workers : ~Validate(w) PROVE Keeps(v)
    BY <1>0, <1>2, <2>3, RequestsKeep, WorkersKeep DEF Next
  <2>4. ASSUME NEW v \in Workers
        PROVE  /\ pc'[v] # "idle" => \/ pc[v] # "idle" /\ op'[v] = op[v]
                                     \/ Origin(op'[v])
               /\ pc'[v] = "record" => IsInflight(op'[v].target)
    <3>1. CASE \E w \in Workers : Validate(w)
      BY <2>2, <3>1
    <3>2. CASE \A w \in Workers : ~Validate(w)
      BY <1>0, <2>3, <3>2 DEF Keeps, UnqueuedOK
    <3> QED
      BY <3>1, <3>2
  <2>5. UnqueuedOK' /\ RefsOK' /\ IsFiniteSet(Open') /\ PoolCoversHolds'
    <3>1. CASE \E h \in Holds : Place(h)
      BY <3>1, PlaceUnqueued
    <3>2. CASE \E w \in Workers : Record(w)
      BY <3>2, RecordUnqueued
    <3>3. CASE (\A h \in Holds : ~Place(h)) /\ \A w \in Workers : ~Record(w)
      <4>1. UNCHANGED rowVars
        BY <1>2, <2>1, <3>3, RowsFrame
      <4> QED
        BY <2>4, <4>1, QuietRows
    <3> QED
      BY <3>1, <3>2, <3>3
  <2>6. MarksOK'
    <3>1. CASE \E h \in Holds : \E action \in {"commit", "void"}, amount \in 0 .. HoldAmount[h] :
                 QueueInflightAction(h, action, amount)
      <4>1. \A h \in Holds : 0 .. HoldAmount[h] \subseteq Nat
        BY InflightAssumption
      <4> QED
        BY <1>0, <3>1, <4>1, QueuedMarks
    <3>2. CASE \A h \in Holds : \A action \in {"commit", "void"}, amount \in 0 .. HoldAmount[h] :
                 ~QueueInflightAction(h, action, amount)
      <4>1. UNCHANGED <<payload, actions>>
        BY <1>2, <3>2, PayloadFrame
      <4>2. ASSUME NEW r \in References, refs'[r] # 0, refs[r] = 0
            PROVE  \E w \in Workers : pc[w] # "idle" /\ r = Reference(op[w])
        <5>1. PICK w \in Workers : Record(w)
          BY <1>2, <2>1, <4>2, RowsFrame DEF rowVars, Place
        <5>2. /\ pc[w] = "record"
              /\ refs' = IF op[w].id = 0 THEN refs ELSE [refs EXCEPT ![Reference(op[w])] = @ + 1]
          BY <5>1 DEF Record
        <5>3. refs \in [References -> {0, 1}]
          BY DEF UnqueuedInv, RefsOK
        <5>4. r = Reference(op[w])
          BY <4>2, <5>2, <5>3
        <5> QED
          BY <5>2, <5>4
      <4>3. Marks' \subseteq Marks
        BY <1>0, <2>4, <4>1, <4>2, MarksKept
      <4> QED
        BY <1>0, <4>1, <4>3 DEF MarksOK, ScheduledId
    <3> QED
      BY <3>1, <3>2
  <2> QED
    BY <1>0, <2>5, <2>6 DEF UnqueuedInv
<1> QED
  BY <1>1, <1>2

\* A hold has one id, and no id is resolved twice.
LEMMA UnqueuedResolvedOnce == ASSUME Queued = {}, UnqueuedInv PROVE HoldResolvedOnce
<1> SUFFICES ASSUME NEW h \in Holds
             PROVE  Resolved(h) <= IF leg[h] = "inflight" THEN HoldAmount[h] ELSE 0
  BY DEF HoldResolvedOnce
<1>1. /\ <<h, "row">> \in Targets /\ <<h, "leg">> \in Targets
      /\ ~IsInflight(<<h, "row">>) /\ (IsInflight(<<h, "leg">>) <=> leg[h] = "inflight")
  BY DEF Targets, IsInflight
<1>2. committed[<<h, "row">>] = 0 /\ voided[<<h, "row">>] = 0
  BY <1>1 DEF UnqueuedInv, UnqueuedOK
<1>3. leg[h] # "inflight" => committed[<<h, "leg">>] = 0 /\ voided[<<h, "leg">>] = 0
  BY <1>1 DEF UnqueuedInv, UnqueuedOK
<1>4. /\ committed[<<h, "leg">>] \in 0 .. HoldAmount[h]
      /\ voided[<<h, "leg">>] \in {0, HoldAmount[h] - committed[<<h, "leg">>]}
      /\ HoldAmount[h] \in Nat
  <2>1. <<h, "leg">>[1] = h
    OBVIOUS
  <2> QED
    BY <1>1, <2>1, InflightAssumption DEF UnqueuedInv, Inv, ResolvedOK, Remaining
<1> QED
  BY <1>2, <1>3, <1>4 DEF Resolved

\* The references of one hold and one action id: an id stands for one action,
\* an open hold has one id, and a reference is carried once.
LEMMA UnqueuedAppliedOnce == ASSUME Queued = {}, UnqueuedInv PROVE ActionAppliedOnce
<1> SUFFICES ASSUME NEW r \in References, NEW s \in References, refs[r] > 0, refs[s] > 0
             PROVE  refs[r] = 1 /\ (r[1][1] = s[1][1] /\ r[3] = s[3] => r = s)
  BY DEF ActionAppliedOnce
<1>1. refs[r] = 1 /\ refs[s] = 1
  BY DEF UnqueuedInv, RefsOK
<1>2. ASSUME r[1][1] = s[1][1], r[3] = s[3] PROVE r = s
  <2>1. PICK h : h = r[1][1]
    OBVIOUS
  <2>2. PICK id : id = r[3]
    OBVIOUS
  <2>3. /\ r = <<<<h, r[1][2]>>, r[2], id>> /\ s = <<<<h, s[1][2]>>, s[2], id>>
        /\ r[1][2] \in {"row", "leg"} /\ s[1][2] \in {"row", "leg"}
        /\ r[2] \in {"commit", "void"} /\ s[2] \in {"commit", "void"}
        /\ r[1] \in Targets /\ s[1] \in Targets
        /\ h \in Holds /\ id \in 1 .. ScheduledId
    BY <1>2, <2>1, <2>2 DEF References, Targets
  <2>4. IsInflight(r[1]) /\ IsInflight(s[1])
    BY <1>1 DEF UnqueuedInv, RefsOK
  <2>5. r[1][2] = "leg" /\ s[1][2] = "leg"
    BY <2>3, <2>4 DEF IsInflight
  <2>6. <<h, r[2], id>> \in Marks /\ <<h, s[2], id>> \in Marks
    <3>1. refs[<<<<h, r[1][2]>>, r[2], id>>] # 0 /\ refs[<<<<h, s[1][2]>>, s[2], id>>] # 0
      BY <1>1, <2>3
    <3> QED
      BY <2>3, <3>1 DEF Marks
  <2>7. r[2] = s[2]
    BY <2>6 DEF UnqueuedInv, MarksOK
  <2> QED
    BY <2>3, <2>5, <2>7
<1> QED
  BY <1>1, <1>2

\* Holds recorded without the queue, for any number of holds, workers, calls,
\* queued actions, expiries and crashes: a hold is resolved once, the pool is
\* exactly what the open holds have left, and a queued action counts once,
\* however often its task is delivered (VoidInflightTransactionWithRef,
\* checkSufficientInflightDebit, processInflightCommit).
THEOREM UnqueuedHoldsKept == ASSUME Queued = {} PROVE Spec => []HoldsInv
<1>1. UnqueuedInv /\ [Next]_vars => UnqueuedInv'
  BY NextUnqueued
<1>2. Init => UnqueuedInv
  BY InitUnqueued
<1>3. UnqueuedInv => HoldsInv
  BY UnqueuedResolvedOnce, UnqueuedAppliedOnce DEF UnqueuedInv, HoldsInv
<1> QED
  BY <1>1, <1>2, <1>3, PTL DEF Spec
==============================================================================
