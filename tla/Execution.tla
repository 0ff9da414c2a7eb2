------------------------------ MODULE Execution ------------------------------
(***************************************************************************)
(* recordTransactionSingle: workers that record transactions concurrently, *)
(* each under the distributed locks of the two balances it moves money     *)
(* between, against one Postgres database.                                 *)
(*                                                                         *)
(* A worker's attempt goes through these phases:                           *)
(*   acquire      MultiLocker.Lock, one SETNX per key in sorted order      *)
(*   rollback     the locks already taken are given back in reverse order  *)
(*   hooks        ExecutePreHooks, an external call that may fail          *)
(*   validate     TransactionExistsByRef                                   *)
(*   readSource, readDestination   the two SELECTs                         *)
(*   apply        applyTransactionToBalances, in memory                    *)
(*   persist      RecordTransactionWithBalancesAndOutbox, one SQL          *)
(*                transaction guarded by both balance versions             *)
(*   release      MultiLocker.Unlock in reverse order                      *)
(* Locks have a TTL: Redis may drop a key at any point of this, while its  *)
(* holder works on.  A worker may crash at any point and a request may be  *)
(* attempted again (by the queue, the recovery job or the client), also    *)
(* when an earlier attempt has succeeded without the caller learning it.   *)
(* Mutation plans, which change balances without a transaction, are in     *)
(* Positions.                                                              *)
(***************************************************************************)
EXTENDS Ledger, Sequences

CONSTANTS
  Workers,       \* concurrent executions: API handlers, queue workers, jobs
  Free,          \* a lock key that is absent from Redis
  Orphan,        \* the lock value of an attempt that crashed
  NoRequest,     \* an idle worker's request
  MaxAttempts    \* bound: how often one request is attempted

ASSUME ExecutionAssumption ==
  /\ Free \notin Workers
  /\ Orphan \notin Workers
  /\ Free # Orphan
  /\ NoRequest \notin Requests
  /\ MaxAttempts \in Nat

VARIABLES
  version,       \* blnk.balances.version
  lock,          \* Redis: the value stored under each balance's lock key
  pc,            \* the phase of each worker's attempt
  req,           \* the request each worker is executing
  held,          \* how many of the attempt's keys the worker has locked
  sourceRead,    \* the source balance as read: its amounts and version
  destRead,      \* the destination balance as read
  attempts       \* how often each request has been attempted

workerVars == <<pc, req, held, sourceRead, destRead>>
vars == <<balances, rows, version, lock, workerVars, attempts>>

Phases == {"idle", "acquire", "rollback", "hooks", "validate", "readSource",
           "readDestination", "apply", "persist", "release"}

\* The phases between the acquisition of the last lock and the release.
Critical == {"hooks", "validate", "readSource", "readDestination", "apply",
             "persist"}

Reads == [amounts : Amounts, version : Nat]
NoRead == [amounts |-> NewBalance, version |-> 0]

\* Faulty: only the source is locked.
LockKeysSource(r) == <<r.source>>

\* Faulty: the keys are locked in the order of the transfer.
LockKeysUnsorted(r) ==
  IF r.source = r.destination THEN <<r.source>> ELSE <<r.source, r.destination>>

\* NewMultiLocker: duplicates dropped, keys sorted.
LockKeys(r) ==
  IF r.source = r.destination THEN <<r.source>>
  ELSE IF r.source < r.destination THEN <<r.source, r.destination>>
       ELSE <<r.destination, r.source>>

Init ==
  /\ LedgerInit
  /\ version = [b \in Balances |-> 0]
  /\ lock = [b \in Balances |-> Free]
  /\ pc = [w \in Workers |-> "idle"]
  /\ req = [w \in Workers |-> NoRequest]
  /\ held = [w \in Workers |-> 0]
  /\ sourceRead = [w \in Workers |-> NoRead]
  /\ destRead = [w \in Workers |-> NoRead]
  /\ attempts = [r \in Requests |-> 0]

Goto(w, phase) == pc' = [pc EXCEPT ![w] = phase]

\* The attempt is over: the worker forgets everything about it.
Forget(w) ==
  /\ Goto(w, "idle")
  /\ req' = [req EXCEPT ![w] = NoRequest]
  /\ held' = [held EXCEPT ![w] = 0]
  /\ sourceRead' = [sourceRead EXCEPT ![w] = NoRead]
  /\ destRead' = [destRead EXCEPT ![w] = NoRead]

\* Faulty: DEL without comparing the value.
UnlockAny(w, k) == lock' = [lock EXCEPT ![k] = Free]

\* Locker.Unlock: the key is deleted only while it carries the caller's value.
Unlock(w, k) == lock' = [lock EXCEPT ![k] = IF @ = w THEN Free ELSE @]

------------------------------------------------------------------------------
\* executeWithLock: balance identifiers are resolved, the locker is built.
Start(w, r) ==
  /\ pc[w] = "idle"
  /\ attempts[r] < MaxAttempts
  /\ attempts' = [attempts EXCEPT ![r] = @ + 1]
  /\ req' = [req EXCEPT ![w] = r]
  /\ Goto(w, "acquire")
  /\ UNCHANGED <<ledgerVars, version, lock, held, sourceRead, destRead>>

\* Locker.Lock on the next key: SETNX succeeds.
AcquireKey(w) ==
  LET keys == LockKeys(req[w])
      k == keys[held[w] + 1]
  IN /\ pc[w] = "acquire"
     /\ lock[k] = Free
     /\ lock' = [lock EXCEPT ![k] = w]
     /\ held' = [held EXCEPT ![w] = @ + 1]
     /\ Goto(w, IF held[w] + 1 = Len(keys) THEN "hooks" ELSE "acquire")
     /\ UNCHANGED <<ledgerVars, version, req, sourceRead, destRead, attempts>>

\* SETNX finds the key taken: what was acquired is rolled back.
AcquireFails(w) ==
  /\ pc[w] = "acquire"
  /\ lock[LockKeys(req[w])[held[w] + 1]] # Free
  /\ Goto(w, "rollback")
  /\ UNCHANGED <<ledgerVars, version, lock, req, held, sourceRead, destRead,
                 attempts>>

\* The rollback loop of MultiLocker.Lock: errors are ignored.
RollbackKey(w) ==
  /\ pc[w] = "rollback"
  /\ held[w] > 0
  /\ Unlock(w, LockKeys(req[w])[held[w]])
  /\ held' = [held EXCEPT ![w] = @ - 1]
  /\ UNCHANGED <<ledgerVars, version, pc, req, sourceRead, destRead, attempts>>

\* WaitLock before its deadline: sleep with jitter, then the whole Lock again.
WaitAndRetry(w) ==
  /\ pc[w] = "rollback"
  /\ held[w] = 0
  /\ Goto(w, "acquire")
  /\ UNCHANGED <<ledgerVars, version, lock, req, held, sourceRead, destRead,
                 attempts>>

\* Lock without waiting, or WaitLock past its deadline: the caller gets an error.
LockTimeout(w) ==
  /\ pc[w] = "rollback"
  /\ held[w] = 0
  /\ Forget(w)
  /\ UNCHANGED <<ledgerVars, version, lock, attempts>>

------------------------------------------------------------------------------
ExecutePreHooks(w) ==
  /\ pc[w] = "hooks"
  /\ \E ok \in BOOLEAN : Goto(w, IF ok THEN "validate" ELSE "release")
  /\ UNCHANGED <<ledgerVars, version, lock, req, held, sourceRead, destRead,
                 attempts>>

ValidateTxn(w) ==
  /\ pc[w] = "validate"
  /\ Goto(w, IF Recorded(req[w].ref) THEN "release" ELSE "readSource")
  /\ UNCHANGED <<ledgerVars, version, lock, req, held, sourceRead, destRead,
                 attempts>>

ReadSource(w) ==
  /\ pc[w] = "readSource"
  /\ sourceRead' = [sourceRead EXCEPT ![w] =
                      [amounts |-> balances[req[w].source],
                       version |-> version[req[w].source]]]
  /\ Goto(w, "readDestination")
  /\ UNCHANGED <<ledgerVars, version, lock, req, held, destRead, attempts>>

ReadDestination(w) ==
  /\ pc[w] = "readDestination"
  /\ destRead' = [destRead EXCEPT ![w] =
                    [amounts |-> balances[req[w].destination],
                     version |-> version[req[w].destination]]]
  /\ Goto(w, "apply")
  /\ UNCHANGED <<ledgerVars, version, lock, req, held, sourceRead, attempts>>

\* processBalances on what was read.  A transaction whose amount is zero is
\* discarded by buildTransactionExecutionWork.
ProcessBalances(w) ==
  /\ pc[w] = "apply"
  /\ Goto(w, IF /\ Applicable(req[w], sourceRead[w].amounts,
                              destRead[w].amounts, 0)
                /\ req[w].amount # 0
             THEN "persist" ELSE "release")
  /\ UNCHANGED <<ledgerVars, version, lock, req, held, sourceRead, destRead,
                 attempts>>

\* updateBalance twice, then the insert.  The second update of one and the
\* same balance finds the version its first update has just raised.
VersionsMatch(w) ==
  /\ sourceRead[w].version = version[req[w].source]
  /\ destRead[w].version = version[req[w].destination]
  /\ req[w].source # req[w].destination

\* Faulty: no unique index on reference.
ReferenceUnchecked(w) == TRUE

\* The unique index on reference, which a concurrent insert may have taken
\* since ValidateTxn.
ReferenceFree(w) == ~Recorded(req[w].ref)

\* Faulty: updateBalance leaves the version alone.
PersistSameVersion(w) ==
  /\ pc[w] = "persist"
  /\ VersionsMatch(w)
  /\ ReferenceFree(w)
  /\ balances' = [balances EXCEPT
                    ![req[w].source] = Debit(req[w], sourceRead[w].amounts),
                    ![req[w].destination] = Credit(req[w], destRead[w].amounts)]
  /\ rows' = rows \cup {Row(req[w])}
  /\ Goto(w, "release")
  /\ UNCHANGED <<version, lock, req, held, sourceRead, destRead, attempts>>

\* RecordTransactionWithBalancesAndOutbox: both balances and the row, or none.
Persist(w) ==
  /\ pc[w] = "persist"
  /\ VersionsMatch(w)
  /\ ReferenceFree(w)
  /\ balances' = [balances EXCEPT
                    ![req[w].source] = Debit(req[w], sourceRead[w].amounts),
                    ![req[w].destination] = Credit(req[w], destRead[w].amounts)]
  /\ version' = [version EXCEPT ![req[w].source] = @ + 1,
                                ![req[w].destination] = @ + 1]
  /\ rows' = rows \cup {Row(req[w])}
  /\ Goto(w, "release")
  /\ UNCHANGED <<lock, req, held, sourceRead, destRead, attempts>>

\* A version conflict, a taken reference or a database error: the SQL
\* transaction is rolled back as a whole.
PersistFails(w) ==
  /\ pc[w] = "persist"
  /\ Goto(w, "release")
  /\ UNCHANGED <<ledgerVars, version, lock, req, held, sourceRead, destRead,
                 attempts>>

\* releaseLock, deferred by executeWithLock: errors are logged and ignored.
ReleaseKey(w) ==
  /\ pc[w] = "release"
  /\ Unlock(w, LockKeys(req[w])[held[w]])
  /\ IF held[w] = 1
     THEN Forget(w)
     ELSE /\ held' = [held EXCEPT ![w] = @ - 1]
          /\ UNCHANGED <<pc, req, sourceRead, destRead>>
  /\ UNCHANGED <<ledgerVars, version, attempts>>

------------------------------------------------------------------------------
\* The process dies.  Its lock values stay in Redis and nobody knows them.
Crash(w) ==
  /\ pc[w] # "idle"
  /\ lock' = [k \in Balances |-> IF lock[k] = w THEN Orphan ELSE lock[k]]
  /\ Forget(w)
  /\ UNCHANGED <<ledgerVars, version, attempts>>

\* Faulty: SETNX without a TTL.
ExpireLockNever(k) == FALSE /\ UNCHANGED vars

\* Redis drops a key whose TTL has run out, whoever holds it.
ExpireLock(k) ==
  /\ lock[k] # Free
  /\ lock' = [lock EXCEPT ![k] = Free]
  /\ UNCHANGED <<ledgerVars, version, workerVars, attempts>>

AcquireStep(w) ==
  \/ AcquireKey(w) \/ AcquireFails(w) \/ RollbackKey(w)
  \/ WaitAndRetry(w) \/ LockTimeout(w)

CriticalStep(w) ==
  \/ ExecutePreHooks(w) \/ ValidateTxn(w)
  \/ ReadSource(w) \/ ReadDestination(w)
  \/ ProcessBalances(w) \/ Persist(w) \/ PersistFails(w)

WorkerStep(w) == AcquireStep(w) \/ CriticalStep(w) \/ ReleaseKey(w)

Working ==
  \/ \E w \in Workers, r \in Requests : Start(w, r)
  \/ \E w \in Workers : WorkerStep(w) \/ Crash(w)

Next == Working \/ \E k \in Balances : ExpireLock(k)

Spec == Init /\ [][Next]_vars

\* The TTL (30 minutes by default) outlives every attempt: only the locks that
\* a crash left behind expire.
ExpireOrphan(k) == lock[k] = Orphan /\ ExpireLock(k)

\* A worker that does not crash runs on and Redis honours the TTL.  Nothing is
\* asked of WaitLock's deadline: the order of the locks must be enough.
Fairness ==
  /\ \A w \in Workers : WF_vars(WorkerStep(w))
  /\ \A k \in Balances : WF_vars(ExpireOrphan(k))

LongTTLSpec ==
  /\ Init /\ [][Working \/ \E k \in Balances : ExpireOrphan(k)]_vars
  /\ Fairness

------------------------------------------------------------------------------
TypeOK ==
  /\ balances \in [Balances -> Amounts]
  /\ rows \subseteq {Row(r) : r \in Requests}
  /\ version \in [Balances -> Nat]
  /\ lock \in [Balances -> Workers \cup {Free, Orphan}]
  /\ pc \in [Workers -> Phases]
  /\ req \in [Workers -> Requests \cup {NoRequest}]
  /\ held \in [Workers -> 0 .. 2]
  /\ sourceRead \in [Workers -> Reads]
  /\ destRead \in [Workers -> Reads]
  /\ attempts \in [Requests -> Nat]

\* The bookkeeping of an attempt: which locks it has taken at which phase.
LockPhaseOK(w) ==
  LET n == Len(LockKeys(req[w])) IN
  /\ pc[w] = "idle" => held[w] = 0
  /\ pc[w] # "idle" => req[w] \in Requests
  /\ pc[w] \in {"acquire", "rollback"} => held[w] < n
  /\ pc[w] \in Critical => held[w] = n
  /\ pc[w] = "release" => held[w] \in 1 .. n

\* A read is as old as its version says.
ReadOK(read, b) ==
  /\ read.version <= version[b]
  /\ read.version = version[b] => read.amounts = balances[b]

ReadsOK(w) ==
  /\ pc[w] \in {"readDestination", "apply", "persist"} =>
       ReadOK(sourceRead[w], req[w].source)
  /\ pc[w] \in {"apply", "persist"} =>
       ReadOK(destRead[w], req[w].destination)
  /\ pc[w] = "persist" =>
       Applicable(req[w], sourceRead[w].amounts, destRead[w].amounts, 0)

\* A balance that still has the version a worker read has the amounts it read,
\* and the funds check that let the worker reach its SQL transaction is true of
\* them: what makes updateBalance's WHERE version = $11 sufficient.
ReadsConsistent == \A w \in Workers : ReadsOK(w)

\* The inductive invariant of the refinement.
Inv ==
  /\ TypeOK
  /\ \A w \in Workers : LockPhaseOK(w)
  /\ ReadsConsistent

\* As long as no lock expires under a live holder, what an attempt has read
\* stays current until it writes: the sorted locks alone keep writers apart,
\* and the version check never has to refuse one (acquireLock, LockKeys).
LockedReadsStayCurrent ==
  \A w \in Workers :
    LET r == req[w] IN
    /\ pc[w] \in {"readDestination", "apply", "persist"} =>
         sourceRead[w] = [amounts |-> balances[r.source],
                          version |-> version[r.source]]
    /\ pc[w] \in {"apply", "persist"} =>
         destRead[w] = [amounts |-> balances[r.destination],
                        version |-> version[r.destination]]

\* A lock leaves its holder only by the holder's own step (or its crash) or by
\* expiry: a worker that is late never deletes the lock of the next holder
\* (Locker.Unlock compares the value).
OnlyHolderUnlocks ==
  [][\A k \in Balances, w \in Workers :
       (lock[k] = w /\ lock'[k] # w) =>
          \/ pc'[w] # pc[w] \/ held'[w] # held[w]
          \/ UNCHANGED workerVars]_vars

\* Every attempt ends, without WaitLock's deadline having to end it: transfers
\* in opposite directions never make one another roll back for ever, and a lock
\* orphaned by a crash does not stop them (NewMultiLocker sorts the keys).
EveryAttemptEnds ==
  \A w \in Workers : pc[w] # "idle" ~> pc[w] = "idle"

\* No lock key stays in Redis for ever, even when its holder crashed.
LocksAreFreed ==
  \A k \in Balances : lock[k] # Free ~> lock[k] = Free

\* Execution implements the atomic ledger: each step either posts one request
\* from the balances as they are, or changes neither balances nor rows.
LedgerRefinement == LedgerSpec
==============================================================================
