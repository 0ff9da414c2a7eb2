------------------------------ MODULE Positions ------------------------------
(***************************************************************************)
(* The rows of brokerage positions (database/brokerage.go): found or       *)
(* created by their key, corrected by mutation plans, written by the       *)
(* ledger's transactions, their holds recomputed from the transactions.    *)
(* Plans lock the keys in Redis, transactions lock balance ids: the two do *)
(* not exclude each other, only Postgres' row locks and the version of a   *)
(* row do.  A key is a number, in the order of its lock key.               *)
(***************************************************************************)
EXTENDS Integers, Sequences, FiniteSets, Functions

CONSTANTS
  PositionKeys,
  OpenKeys,      \* the keys that have a row from the beginning
  Plans,         \* plan -> its deltas, [key, amount, blocked, waiting]
  Entries,       \* ledger transactions, [id, kind, source, destination, amount, parent]
  PositionWorkers,
  Free,          \* a lock nobody holds
  MaxJobs,       \* bound: calls made
  MaxMishaps     \* bound: failing calls and lock expiries

VARIABLES
  position,      \* the rows, [key, by, amount, blocked, waiting, version]
  entered,       \* the ledger transactions on record
  applied,       \* the plans that were committed
  manual,        \* keys whose holds a plan has changed since they were computed
  answers,       \* the ids that FindOrCreatePosition returned
  keyLock,       \* Redis: the plan lock of each key
  rowLock,       \* Postgres: who has locked each row
  job,           \* what each worker is doing
  jobs, mishaps

positionVars == <<position, entered, applied, manual, answers, keyLock, rowLock, job, jobs, mishaps>>

\* Keys can be sorted.  The id of a transaction is unique, and a commit or void
\* has the ends of its hold.
PositionsAssumption ==
  /\ PositionKeys \subseteq Int /\ OpenKeys \subseteq PositionKeys
  /\ Free \notin PositionWorkers
  /\ IsFiniteSet(DOMAIN Plans)
  /\ \A plan \in DOMAIN Plans :
       Plans[plan] \in Seq([key : PositionKeys, amount : Int, blocked : Int, waiting : Int])
  /\ IsFiniteSet(Entries)
  /\ \A e \in Entries : /\ e.kind \in {"move", "hold", "commit", "void"} /\ e.amount \in Nat
                        /\ e.source \in PositionKeys /\ e.destination \in PositionKeys
  /\ \A e, f \in Entries : e.id = f.id => e = f
  /\ \A e, h \in Entries : e.kind \in {"commit", "void"} /\ e.parent = h.id =>
       h.kind = "hold" /\ h.source = e.source /\ h.destination = e.destination

\* A row is identified by its key and by who generated its id: a UUID, made
\* by the caller before the insert.
Zero(k, w) == [key |-> k, by |-> w, amount |-> 0, blocked |-> 0, waiting |-> 0, version |-> 0]
Id(r) == <<r.key, r.by>>
NoJob == [kind |-> "none", what |-> 0, stage |-> "start", todo |-> {}, writes |-> {}]

PositionInit ==
  /\ position = {Zero(k, Free) : k \in OpenKeys}
  /\ entered = {} /\ applied = {} /\ manual = {} /\ answers = {}
  /\ keyLock = [k \in PositionKeys |-> Free]
  /\ rowLock = [k \in PositionKeys |-> Free]
  /\ job = [w \in PositionWorkers |-> NoJob]
  /\ jobs = 0 /\ mishaps = 0

------------------------------------------------------------------------------
\* GetPosition: the row of a key.
HasRow(k) == \E r \in position : r.key = k
RowOf(k) == CHOOSE r \in position : r.key = k

\* Somebody's open transaction inserts the key.
Inserting(k, w) == rowLock[k] \notin {Free, w} /\ ~HasRow(k)

Starts(w, kind, what, todo) ==
  /\ job[w] = NoJob /\ jobs < MaxJobs
  /\ jobs' = jobs + 1
  /\ job' = [job EXCEPT ![w] = [NoJob EXCEPT !.kind = kind, !.what = what, !.todo = todo]]

Goes(w, stage) == job' = [job EXCEPT ![w].stage = stage]
Ends(w) == job' = [job EXCEPT ![w] = NoJob]
At(w, kind, stage) == job[w].kind = kind /\ job[w].stage = stage
RowsFreed(w) == rowLock' = [k \in PositionKeys |-> IF rowLock[k] = w THEN Free ELSE rowLock[k]]

\* FindOrCreatePosition: look, insert unless it exists by now, look again.
FindPosition(w, k) ==
  /\ IF HasRow(k)
     THEN /\ jobs < MaxJobs /\ jobs' = jobs + 1
          /\ answers' = answers \cup {Id(RowOf(k))} /\ UNCHANGED job
     ELSE Starts(w, "find", k, {}) /\ UNCHANGED answers
  /\ UNCHANGED <<position, entered, applied, manual, keyLock, rowLock, mishaps>>

InsertPosition(w) ==
  LET k == job[w].what IN
  /\ At(w, "find", "start") /\ ~Inserting(k, w)
  /\ position' = IF HasRow(k) THEN position ELSE position \cup {Zero(k, w)}
  /\ Goes(w, "again")
  /\ UNCHANGED <<entered, applied, manual, answers, keyLock, rowLock, jobs, mishaps>>

FoundPosition(w) ==
  /\ At(w, "find", "again")
  /\ answers' = answers \cup {Id(RowOf(job[w].what))}
  /\ Ends(w)
  /\ UNCHANGED <<position, entered, applied, manual, keyLock, rowLock, jobs, mishaps>>

------------------------------------------------------------------------------
\* Merge: the deltas of one key added up.
Total(deltas, k, field) ==
  SumFunction([n \in {m \in DOMAIN deltas : deltas[m].key = k} |-> deltas[n][field]])
Merged(plan, k) == [key |-> k, amount |-> Total(Plans[plan], k, "amount"),
                    blocked |-> Total(Plans[plan], k, "blocked"),
                    waiting |-> Total(Plans[plan], k, "waiting")]
IsNoOp(d) == d.amount = 0 /\ d.blocked = 0 /\ d.waiting = 0

\* Normalized: one delta per key, none without effect; they are taken in the
\* order of the keys.
Touched(plan) == {k \in PositionKeys : ~IsNoOp(Merged(plan, k))}
Normalized(plan) == {Merged(plan, k) : k \in Touched(plan)}
Due(todo) == {d \in todo : \A e \in todo : d.key <= e.key}

\* ApplyMutationPlan; a plan without effect ends at once.
ApplyMutationPlan(w, plan) ==
  /\ job[w] = NoJob /\ plan \notin applied
  /\ \A v \in PositionWorkers : ~(job[v].kind = "plan" /\ job[v].what = plan)
  /\ Normalized(plan) # {}
  /\ Starts(w, "plan", plan, Normalized(plan))
  /\ UNCHANGED <<position, entered, applied, manual, answers, keyLock, rowLock, mishaps>>

\* MultiLocker.WaitLock takes all the keys, or gives up after a while.
LockKeys(w) ==
  LET keys == {d.key : d \in job[w].todo} IN
  /\ At(w, "plan", "start") /\ \A k \in keys : keyLock[k] = Free
  /\ keyLock' = [k \in PositionKeys |-> IF k \in keys THEN w ELSE keyLock[k]]
  /\ Goes(w, "apply")
  /\ UNCHANGED <<position, entered, applied, manual, answers, rowLock, jobs, mishaps>>

WaitTimesOut(w) ==
  /\ At(w, "plan", "start") /\ \E d \in job[w].todo : keyLock[d.key] # Free
  /\ Ends(w)
  /\ UNCHANGED <<position, entered, applied, manual, answers, keyLock, rowLock, jobs, mishaps>>

\* The TTL of a plan that is still at work runs out.
ExpireKeys(w) ==
  /\ mishaps < MaxMishaps /\ mishaps' = mishaps + 1
  /\ \E S \in SUBSET {k \in PositionKeys : keyLock[k] = w} :
       S # {} /\ keyLock' = [k \in PositionKeys |-> IF k \in S THEN Free ELSE keyLock[k]]
  /\ UNCHANGED <<position, entered, applied, manual, answers, rowLock, job, jobs>>

Changed(row, d) == [row EXCEPT !.amount = @ + d.amount, !.blocked = @ + d.blocked,
                               !.waiting = @ + d.waiting, !.version = @ + 1]

Covered(row) == row.blocked >= 0 /\ row.waiting >= 0

\* applyOneDelta: lock the row, or insert it; nothing is seen before the end.
\* A hold below zero rolls everything back.
ApplyOneDelta(w, d) ==
  LET after == Changed(IF HasRow(d.key) THEN RowOf(d.key) ELSE Zero(d.key, w), d) IN
  /\ At(w, "plan", "apply") /\ d \in Due(job[w].todo)
  /\ rowLock[d.key] = Free
  /\ IF Covered(after)
     THEN /\ rowLock' = [rowLock EXCEPT ![d.key] = w]
          /\ job' = [job EXCEPT ![w].todo = @ \ {d}, ![w].writes = @ \cup {after}]
     ELSE RowsFreed(w) /\ Goes(w, "unlock")
  /\ UNCHANGED <<position, entered, applied, manual, answers, keyLock, jobs, mishaps>>

Failure(w) ==
  /\ At(w, "plan", "apply") /\ mishaps < MaxMishaps
  /\ mishaps' = mishaps + 1
  /\ RowsFreed(w) /\ Goes(w, "unlock")
  /\ UNCHANGED <<position, entered, applied, manual, answers, keyLock, jobs>>

\* The rows as a committed transaction leaves them: updates are by id.
Written(writes) == {r \in position : \A u \in writes : Id(u) # Id(r)} \cup writes

CommitPlan(w) ==
  /\ At(w, "plan", "apply") /\ job[w].todo = {}
  /\ position' = Written(job[w].writes)
  /\ applied' = applied \cup {job[w].what}
  /\ manual' = manual \cup {k \in PositionKeys : LET d == Merged(job[w].what, k) IN
                                                 d.blocked # 0 \/ d.waiting # 0}
  /\ RowsFreed(w) /\ Goes(w, "unlock")
  /\ UNCHANGED <<entered, answers, keyLock, jobs, mishaps>>

UnlockKeys(w) ==
  /\ At(w, "plan", "unlock")
  /\ keyLock' = [k \in PositionKeys |-> IF keyLock[k] = w THEN Free ELSE keyLock[k]]
  /\ Ends(w)
  /\ UNCHANGED <<position, entered, applied, manual, answers, rowLock, jobs, mishaps>>

------------------------------------------------------------------------------
\* A transaction of the ledger between two positions (Execution): both are
\* read, changed in memory, and written if their versions are still the same.
\* A commit takes a part of what remains of its hold, a void all of it.
Children(h, kind) == {e \in entered : e.parent = h.id /\ e.kind = kind}

Remaining(h) ==
  IF Children(h, "void") # {} THEN 0
  ELSE h.amount - SumFunction([e \in Children(h, "commit") |-> e.amount])

Enterable(e) ==
  /\ e \notin entered
  /\ e.kind \in {"commit", "void"} =>
       \E h \in entered : /\ h.id = e.parent /\ e.amount <= Remaining(h)
                          /\ e.kind = "void" => e.amount = Remaining(h)

\* The effect of an entry on its source and on its destination.
Effect(e, side) ==
  LET sign == IF side = "source" THEN -1 ELSE 1
      held == CASE e.kind = "hold" -> e.amount [] e.kind \in {"commit", "void"} -> -e.amount [] OTHER -> 0
  IN [key |-> e[side], amount |-> IF e.kind \in {"move", "commit"} THEN sign * e.amount ELSE 0,
      blocked |-> IF side = "source" THEN held ELSE 0,
      waiting |-> IF side = "source" THEN 0 ELSE held]

ReadPositions(w, e) ==
  /\ Enterable(e) /\ HasRow(e.source) /\ HasRow(e.destination)
  /\ job[w] = NoJob /\ jobs < MaxJobs /\ jobs' = jobs + 1
  /\ job' = [job EXCEPT ![w] =
       [NoJob EXCEPT !.kind = "entry", !.what = e,
          !.writes = {Changed(RowOf(e.source), Effect(e, "source")),
                      Changed(RowOf(e.destination), Effect(e, "destination"))}]]
  /\ UNCHANGED <<position, entered, applied, manual, answers, keyLock, rowLock, mishaps>>

\* The row still has the version that was read.
AsRead(u) == \E r \in position : Id(r) = Id(u) /\ r.version + 1 = u.version

\* Faulty: only the source's version is compared.
CurrentSource(e, writes) == e.source # e.destination /\ \A u \in writes : u.key = e.source => AsRead(u)

\* updateBalance: no row has another version than the one that was read; one
\* that is both source and destination has, the second time.
Current(e, writes) == e.source # e.destination /\ \A u \in writes : AsRead(u)

PersistEntry(w) ==
  LET e == job[w].what
      writes == job[w].writes
  IN
  /\ job[w].kind = "entry" /\ \A u \in writes : rowLock[u.key] = Free
  /\ IF Current(e, writes) /\ (\A u \in writes : Covered(u)) /\ Enterable(e)
     THEN position' = Written(writes) /\ entered' = entered \cup {e}
     ELSE UNCHANGED <<position, entered>>
  /\ Ends(w)
  /\ UNCHANGED <<applied, manual, answers, keyLock, rowLock, jobs, mishaps>>

------------------------------------------------------------------------------
\* RecomputeHolds: lock the row, sum up the live holds, write.
LockHolds(w, k) ==
  /\ HasRow(k) /\ rowLock[k] = Free
  /\ job[w] = NoJob /\ jobs < MaxJobs /\ jobs' = jobs + 1
  /\ job' = [job EXCEPT ![w] = [NoJob EXCEPT !.kind = "holds", !.what = k]]
  /\ rowLock' = [rowLock EXCEPT ![k] = w]
  /\ UNCHANGED <<position, entered, applied, manual, answers, keyLock, mishaps>>

LiveHolds(k, side) ==
  SumFunction([h \in {e \in entered : e.kind = "hold" /\ e[side] = k} |-> Remaining(h)])

RecomputeHolds(w) ==
  LET k == job[w].what IN
  /\ job[w].kind = "holds"
  /\ position' = Written({[RowOf(k) EXCEPT !.blocked = LiveHolds(k, "source"),
                                           !.waiting = LiveHolds(k, "destination"),
                                           !.version = @ + 1]})
  /\ manual' = manual \ {k}
  /\ RowsFreed(w) /\ Ends(w)
  /\ UNCHANGED <<entered, applied, answers, keyLock, jobs, mishaps>>

PositionStep(w) ==
  \/ \E k \in PositionKeys : FindPosition(w, k) \/ LockHolds(w, k)
  \/ InsertPosition(w) \/ FoundPosition(w)
  \/ \E plan \in DOMAIN Plans : ApplyMutationPlan(w, plan)
  \/ LockKeys(w) \/ WaitTimesOut(w) \/ Failure(w) \/ CommitPlan(w) \/ UnlockKeys(w)
  \/ \E d \in job[w].todo : ApplyOneDelta(w, d)
  \/ \E e \in Entries : ReadPositions(w, e)
  \/ PersistEntry(w) \/ RecomputeHolds(w)

PositionNext ==
  \/ \E w \in PositionWorkers : PositionStep(w)
  \/ \E w \in PositionWorkers : ExpireKeys(w)

PositionSpec == PositionInit /\ [][PositionNext]_positionVars

------------------------------------------------------------------------------
\* The rows and jobs are well formed, and no hold is below zero.
PositionsTypeOK ==
  /\ \A r \in position :
       /\ r.key \in PositionKeys /\ r.amount \in Int
       /\ r.blocked \in Nat /\ r.waiting \in Nat /\ r.version \in Nat
  /\ \A k \in PositionKeys : keyLock[k] \in PositionWorkers \cup {Free}
                             /\ rowLock[k] \in PositionWorkers \cup {Free}
  /\ \A w \in PositionWorkers : job[w].kind \in {"none", "find", "plan", "entry", "holds"}

\* However calls race, a key has one row and everybody is given that one
\* (FindOrCreatePosition, applyOneDelta).
OnePositionPerKey ==
  /\ \A r, s \in position : r.key = s.key => r = s
  /\ \A a \in answers : \E r \in position : a = Id(r)

\* What the committed plans and transactions add to a position.
Booked(k) ==
  SumFunction([plan \in applied |-> Merged(plan, k).amount])
  + SumFunction([e \in {f \in entered : f.destination = k} |-> Effect(e, "destination").amount])
  + SumFunction([e \in {f \in entered : f.source = k} |-> Effect(e, "source").amount])

\* No correction and no transaction is lost, and none is applied in part: a
\* position is the sum of the committed plans and transactions, although
\* their locks do not exclude each other (ApplyBalanceDeltas, updateBalance).
NothingLost == \A r \in position : r.amount = Booked(r.key)

\* The holds of a position are those of its live inflight transactions, also
\* while they are recomputed, unless a plan has changed them by hand since
\* (RecomputeHolds).
HoldsFollowTransactions ==
  \A r \in position : r.key \notin manual =>
    r.blocked = LiveHolds(r.key, "source") /\ r.waiting = LiveHolds(r.key, "destination")

\* A plan that waits for the row of another plan asks for a smaller key than
\* that one will: no plans ever wait for each other in a circle, also when
\* their Redis locks have expired (MutationPlan.Normalized).
PlansWaitUpwards ==
  \A v, w \in PositionWorkers :
    At(v, "plan", "apply") /\ At(w, "plan", "apply") /\ v # w =>
      \A d \in Due(job[v].todo), e \in job[w].todo : rowLock[d.key] = w => d.key < e.key

\* What plans, transactions and recomputations keep.
PositionsInv ==
  PositionsTypeOK /\ OnePositionPerKey /\ NothingLost /\ HoldsFollowTransactions /\ PlansWaitUpwards
==============================================================================
