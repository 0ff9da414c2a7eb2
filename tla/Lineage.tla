-------------------------------- MODULE Lineage --------------------------------
(***************************************************************************)
(* Fund lineage: which provider's funds a balance holds and spends.  A     *)
(* transaction and its outbox entry are recorded together; workers claim   *)
(* entries for a while and post shadow transactions for them, one step at  *)
(* a time, under lineage locks.  Steps fail, workers and callers die, and  *)
(* a claim may run out while its worker is still at it.                    *)
(*                                                                         *)
(* Shadow balances are what their rows add up to: a credit or receive adds *)
(* to the provider's funds of a balance, a release takes from them.  The   *)
(* aggregate of a balance is the sum of its providers.  Every balance has  *)
(* an identity of its own; a lineage lock outlives any attempt (30 minutes *)
(* to a claim's 30 seconds), so only a dead worker's locks run out.        *)
(***************************************************************************)
EXTENDS Integers, Sequences, SequencesExt, FiniteSetsExt

CONSTANTS
  Transactions,   \* [id -> [source, destination, provider, amount, inflight]]
  Scenarios,      \* [done : credits to start from, todo : what happens next]
  Tracked,        \* balances with track_fund_lineage
  NoProvider,     \* a transaction without BLNK_LINEAGE_PROVIDER
  Strategy,       \* of each tracked balance: "FIFO", "LIFO" or "PROPORTIONAL"
  OutboxWorkers, ClaimSize, MaxAttempts,
  MaxMishaps     \* bound: dead workers or callers, failing calls, claims that run out early

VARIABLES
  main,      \* the transactions themselves
  taken,     \* how much of each hold is committed
  outbox,    \* blnk.lineage_outbox, in order of creation
  rows,      \* the shadow transactions
  mapping,   \* blnk.lineage_mappings: the providers of a balance, oldest first
  work,      \* what each worker is at
  orphaned,  \* lineage locks of dead workers
  calls,     \* the shadow work that callers of commit and void have yet to do
  mishaps    \* so far

lineageVars == <<main, taken, outbox, rows, mapping, work, orphaned, calls, mishaps>>

Ids == DOMAIN Transactions
Providers == {Transactions[t].provider : t \in Ids} \ {NoProvider}
Aggregate == "aggregate"
Keys == Tracked \X (Providers \cup {Aggregate})
IdleWorker == [stage |-> "idle", todo |-> <<>>, providers |-> <<>>, allocations |-> <<>>, locks |-> {}]

\* Some credits have gone through the outbox before; the transactions to come
\* are one of the scenarios.
LineageInit ==
  \E s \in Scenarios :
    /\ main = [t \in Ids |-> CASE t \in s.todo -> "none" [] Contains(s.done, t) -> "applied" [] OTHER -> "absent"]
    /\ outbox = [i \in DOMAIN s.done |->
                   [txn |-> s.done[i], type |-> "credit", status |-> "completed", attempts |-> 0, locked |-> FALSE]]
    /\ rows = {[txn |-> t, kind |-> "credit", balance |-> Transactions[t].destination, status |-> "applied",
                provider |-> Transactions[t].provider, amount |-> Transactions[t].amount] : t \in ToSet(s.done)}
    /\ mapping = [b \in Tracked |->
                    LET credits == SelectSeq(s.done, LAMBDA t : Transactions[t].destination = b)
                    IN  [i \in DOMAIN credits |-> Transactions[credits[i]].provider]]
    /\ taken = [t \in Ids |-> 0]
    /\ orphaned = {} /\ calls = {} /\ mishaps = 0
    /\ work = [w \in OutboxWorkers |-> IdleWorker]

Mishap == mishaps < MaxMishaps /\ mishaps' = mishaps + 1
------------------------------------------------------------------------------
Total(R) == MapThenSumSet(LAMBDA r : r.amount, R)
Incoming(b, P) == {r \in rows : r.balance = b /\ r.provider \in P /\ r.kind # "release" /\ r.status = "applied"}
Outgoing(b, P, statuses) == {r \in rows : r.balance = b /\ r.provider \in P /\ r.kind = "release" /\ r.status \in statuses}

\* getLineageSources: the settled funds of the provider at the balance.
FundsOf(b, p) == Total(Incoming(b, {p})) - Total(Outgoing(b, {p}, {"applied"}))

\* What the aggregate of the balance can pay without an overdraft.
AggregateFunds(b) == Total(Incoming(b, Providers)) - Total(Outgoing(b, Providers, {"applied", "inflight"}))

\* sequentialAllocation: each source in turn, until the amount is reached.
Sequential(sources, amount) ==
  [i \in DOMAIN sources |->
     LET before == FoldLeft(LAMBDA n, s : n + s.amount, 0, SubSeq(sources, 1, i - 1))
     IN  [sources[i] EXCEPT !.amount = Max({0, Min({@, amount - before})})]]

\* Faulty: nobody takes what rounding leaves.
ProportionalRounded(sources, amount) ==
  LET total == FoldLeft(LAMBDA n, s : n + s.amount, 0, sources)
  IN  [i \in DOMAIN sources |-> [sources[i] EXCEPT !.amount = (Min({amount, total}) * @) \div total]]

\* proportionalAllocation: by share, the last one takes what is left.
Proportional(sources, amount) ==
  LET total == FoldLeft(LAMBDA n, s : n + s.amount, 0, sources)
      effective == Min({amount, total})
      share(i) == (effective * sources[i].amount) \div total
      last == Len(sources)
      rest == effective - MapThenSumSet(share, 1 .. last - 1)
  IN  [i \in DOMAIN sources |->
         [sources[i] EXCEPT !.amount = IF i = last THEN Min({@, rest}) ELSE share(i)]]

Positive(allocations) == SelectSeq(allocations, LAMBDA a : a.amount > 0)

\* calculateAllocation, of sources that are in order of their creation.
CalculateAllocation(sources, amount, strategy) ==
  CASE sources = <<>> -> <<>>
    [] sources # <<>> /\ strategy = "LIFO" -> Positive(Sequential(Reverse(sources), amount))
    [] sources # <<>> /\ strategy = "PROPORTIONAL" -> Positive(Proportional(sources, amount))
    [] OTHER -> Positive(Sequential(sources, amount))
------------------------------------------------------------------------------
\* What a transaction has moved, and what it has moved or holds back.
Moved(t) == IF main[t] = "applied" THEN Transactions[t].amount ELSE taken[t]
Claims(t) == IF main[t] = "inflight" THEN Transactions[t].amount ELSE Moved(t)

\* What the main balance can spend.
MainFunds(b) ==
  MapThenSumSet(Moved, {t \in Ids : Transactions[t].destination = b})
  - MapThenSumSet(Claims, {t \in Ids : Transactions[t].source = b})

NeedsCredit(t) == Transactions[t].provider # NoProvider /\ Transactions[t].destination \in Tracked
NeedsDebit(t) == Transactions[t].source \in Tracked

LineageType(t) ==
  CASE NeedsCredit(t) /\ NeedsDebit(t) -> "both" [] NeedsCredit(t) -> "credit" [] OTHER -> "debit"

Entry(t, type) == [txn |-> t, type |-> type, status |-> "pending", attempts |-> 0, locked |-> FALSE]

\* RecordTransactionWithBalancesAndOutbox, with PrepareLineageOutbox's entry.
RecordMain(t) ==
  /\ main[t] = "none"
  /\ NeedsDebit(t) => MainFunds(Transactions[t].source) >= Transactions[t].amount
  /\ main' = [main EXCEPT ![t] = IF Transactions[t].inflight THEN "inflight" ELSE "applied"]
  /\ outbox' = IF NeedsCredit(t) \/ NeedsDebit(t) THEN Append(outbox, Entry(t, LineageType(t))) ELSE outbox
  /\ UNCHANGED <<taken, rows, mapping, work, orphaned, calls, mishaps>>

\* CommitInflightTransaction: a part of the hold or all that is left of it;
\* the caller then turns to the shadows.
CommitMain(t, amount) ==
  LET left == Transactions[t].amount - taken[t] IN
  /\ main[t] = "inflight" /\ amount \in 1 .. left
  /\ taken' = [taken EXCEPT ![t] = @ + amount]
  /\ main' = [main EXCEPT ![t] = IF amount = left THEN "committed" ELSE @]
  /\ calls' = calls \cup {[txn |-> t, type |-> "shadow_commit"]}
  /\ UNCHANGED <<outbox, rows, mapping, work, orphaned, mishaps>>

\* VoidInflightTransaction: what is left of the hold.
VoidMain(t) ==
  /\ main[t] = "inflight"
  /\ main' = [main EXCEPT ![t] = "void"]
  /\ calls' = calls \cup {[txn |-> t, type |-> "shadow_void"]}
  /\ UNCHANGED <<taken, outbox, rows, mapping, work, orphaned, mishaps>>

InFlight(t) == {r \in rows : r.txn = t /\ r.status = "inflight"}

\* A shadow that was voided answers every commit and void with an error that is
\* not among those passed over; one that was committed is passed over.
Refusing(t) == \E r \in rows : r.txn = t /\ r.status = "void"

\* commitShadowTransactions, voidShadowTransactions: each in full, also when
\* only a part of the hold was committed.  R are the ones that could be settled.
SettleShadows(type, R) ==
  rows' = (rows \ R) \cup {[r EXCEPT !.status = IF type = "shadow_commit" THEN "applied" ELSE "void"] : r \in R}

\* InsertLineageOutbox: one entry of a type for a transaction, ever.
QueueShadowEntry(c) ==
  outbox' = IF \E i \in DOMAIN outbox : outbox[i].txn = c.txn /\ outbox[i].type = c.type
            THEN outbox ELSE Append(outbox, Entry(c.txn, c.type))

\* queueShadowWork: at once, and through the outbox if that fails.  The entry
\* may fail to be written too, which is only logged.
ShadowWork(c) ==
  /\ calls' = calls \ {c}
  /\ \/ /\ SettleShadows(c.type, InFlight(c.txn))
        /\ IF Refusing(c.txn) THEN QueueShadowEntry(c) ELSE UNCHANGED outbox
        /\ UNCHANGED mishaps
     \/ /\ Mishap
        /\ \E R \in SUBSET InFlight(c.txn) : SettleShadows(c.type, R)
        /\ QueueShadowEntry(c) \/ UNCHANGED outbox
  /\ UNCHANGED <<main, taken, mapping, work, orphaned>>

CallerDies(c) ==
  /\ Mishap
  /\ calls' = calls \ {c}
  /\ UNCHANGED <<main, taken, outbox, rows, mapping, work, orphaned>>
------------------------------------------------------------------------------
Claimable(i) == outbox[i].status \in {"pending", "processing"} /\ ~outbox[i].locked /\ outbox[i].attempts < MaxAttempts

\* ClaimPendingOutboxEntries: the oldest, in one statement.
Claim(w) ==
  LET free == {i \in DOMAIN outbox : Claimable(i)}
      batch == {i \in free : Cardinality({j \in free : j < i}) < ClaimSize}
  IN
  /\ work[w].stage = "idle" /\ batch # {}
  /\ outbox' = [i \in DOMAIN outbox |->
                  IF i \in batch THEN [outbox[i] EXCEPT !.status = "processing", !.locked = TRUE] ELSE outbox[i]]
  /\ work' = [work EXCEPT ![w] = [IdleWorker EXCEPT !.stage = "start", !.todo = SetToSortSeq(batch, <)]]
  /\ UNCHANGED <<main, taken, rows, mapping, orphaned, calls, mishaps>>

Claimed(i) == \E w \in OutboxWorkers : Contains(work[w].todo, i)

\* locked_until passes: in time for an abandoned entry, early for a slow worker.
ExpireClaim(i) ==
  /\ outbox[i].locked
  /\ IF Claimed(i) THEN Mishap ELSE UNCHANGED mishaps
  /\ outbox' = [outbox EXCEPT ![i].locked = FALSE]
  /\ UNCHANGED <<main, taken, rows, mapping, work, orphaned, calls>>

Current(w) == Head(work[w].todo)
Txn(w) == outbox[Current(w)].txn
Of(w) == Transactions[Txn(w)]
At(w, stage) == work[w].stage = stage
Goto(w, stage) == work' = [work EXCEPT ![w].stage = stage]

\* The next entry of the batch, the locks given back.
Finished(w) ==
  work' = [work EXCEPT ![w] =
             IF Len(@.todo) = 1 THEN IdleWorker
             ELSE [IdleWorker EXCEPT !.stage = "start", !.todo = Tail(work[w].todo)]]

\* Faulty: a failing entry is retried without counting the attempt.
MarkOutboxFailedUncounted(w) ==
  /\ outbox' = [outbox EXCEPT ![Current(w)].status = "pending", ![Current(w)].locked = FALSE]
  /\ Finished(w)

\* The attempt ends in an error: MarkOutboxFailed, whoever has the entry now.
MarkOutboxFailed(w) ==
  /\ outbox' = [outbox EXCEPT ![Current(w)].status =
                                IF outbox[Current(w)].attempts + 1 >= MaxAttempts THEN "failed" ELSE "pending",
                              ![Current(w)].attempts = @ + 1, ![Current(w)].locked = FALSE]
  /\ Finished(w)

MarkOutboxCompleted(w) ==
  /\ At(w, "done")
  /\ outbox' = [outbox EXCEPT ![Current(w)].status = "completed", ![Current(w)].locked = FALSE]
  /\ Finished(w)
  /\ UNCHANGED <<main, taken, rows, mapping, orphaned, calls, mishaps>>

\* A call of the current step fails.
StepFails(w) ==
  /\ work[w].stage \notin {"idle", "map", "done"} /\ Mishap
  /\ MarkOutboxFailed(w)
  /\ UNCHANGED <<main, taken, rows, mapping, orphaned, calls>>

WorkerDies(w) ==
  /\ ~At(w, "idle") /\ Mishap
  /\ orphaned' = orphaned \cup work[w].locks
  /\ work' = [work EXCEPT ![w] = IdleWorker]
  /\ UNCHANGED <<main, taken, outbox, rows, mapping, calls>>

ExpireOrphanedLocks ==
  /\ orphaned # {} /\ orphaned' = {}
  /\ UNCHANGED <<main, taken, outbox, rows, mapping, work, calls, mishaps>>
------------------------------------------------------------------------------
\* ProcessLineageFromOutbox and processLineage up to the first lock: a source
\* that is tracked must know the provider.
StartEntry(w) ==
  LET t == Txn(w)
      valid == NeedsDebit(t) => Contains(mapping[Of(w).source], Of(w).provider)
  IN
  /\ At(w, "start")
  /\ Goto(w, CASE outbox[Current(w)].type \in {"shadow_commit", "shadow_void"} -> "shadow"
               [] NeedsCredit(t) /\ valid -> "credit"
               [] NeedsDebit(t) -> "debit"
               [] OTHER -> "done")
  /\ UNCHANGED <<main, taken, outbox, rows, mapping, orphaned, calls, mishaps>>

\* The work that queueShadowWork left behind: a shadow that was voided before
\* fails the attempt, after all the others have been dealt with.
ShadowEntry(w) ==
  /\ At(w, "shadow")
  /\ SettleShadows(outbox[Current(w)].type, InFlight(Txn(w)))
  /\ IF Refusing(Txn(w)) THEN MarkOutboxFailed(w) ELSE Goto(w, "done") /\ UNCHANGED outbox
  /\ UNCHANGED <<main, taken, mapping, orphaned, calls, mishaps>>

Held == orphaned \cup UNION {work[w].locks : w \in OutboxWorkers}

\* acquireLineageLocks does not wait: a lock that is taken ends the attempt.
Lock(w, keys, next) ==
  IF keys \cap Held = {}
  THEN work' = [work EXCEPT ![w].stage = next, ![w].locks = keys] /\ UNCHANGED outbox
  ELSE MarkOutboxFailed(w)

Posted(t, kind, p) == \E r \in rows : r.txn = t /\ r.kind = kind /\ r.provider = p
Shadow(w, kind, b, p, amount) ==
  [txn |-> Txn(w), kind |-> kind, balance |-> b, provider |-> p, amount |-> amount,
   status |-> IF Of(w).inflight THEN "inflight" ELSE "applied"]

LockCredit(w) ==
  /\ At(w, "credit")
  /\ Lock(w, {<<Of(w).destination, Of(w).provider>>, <<Of(w).destination, Aggregate>>}, "post")
  /\ UNCHANGED <<main, taken, rows, mapping, orphaned, calls, mishaps>>

\* queueShadowCreditTransaction: a reference that was used is an error.
PostCredit(w) ==
  /\ At(w, "post")
  /\ IF Posted(Txn(w), "credit", Of(w).provider)
     THEN MarkOutboxFailed(w) /\ UNCHANGED rows
     ELSE /\ rows' = rows \cup {Shadow(w, "credit", Of(w).destination, Of(w).provider, Of(w).amount)}
          /\ Goto(w, "map") /\ UNCHANGED outbox
  /\ UNCHANGED <<main, taken, mapping, orphaned, calls, mishaps>>

Upsert(b, p) == mapping' = IF Contains(mapping[b], p) THEN mapping ELSE [mapping EXCEPT ![b] = Append(@, p)]

\* The mapping may fail to be written: the entry goes on all the same.
MapCredit(w) ==
  /\ At(w, "map")
  /\ \/ Upsert(Of(w).destination, Of(w).provider) /\ UNCHANGED mishaps
     \/ Mishap /\ UNCHANGED mapping
  /\ work' = [work EXCEPT ![w].locks = {}, ![w].stage = IF NeedsDebit(Txn(w)) THEN "debit" ELSE "done"]
  /\ UNCHANGED <<main, taken, outbox, rows, orphaned, calls>>

HasPendingCreditOutbox(b) ==
  \E i \in DOMAIN outbox :
    /\ outbox[i].type \in {"credit", "both"} /\ outbox[i].status \in {"pending", "processing"}
    /\ Transactions[outbox[i].txn].destination = b

\* processLineageDebit before the lock: without a mapping the debit waits for
\* credits that are still to come, and is dropped when there are none.
ReadMappings(w) ==
  LET b == Of(w).source IN
  /\ At(w, "debit")
  /\ CASE mapping[b] # <<>> ->
            work' = [work EXCEPT ![w].stage = "lock", ![w].providers = mapping[b]] /\ UNCHANGED outbox
       [] mapping[b] = <<>> /\ HasPendingCreditOutbox(b) -> MarkOutboxFailed(w)
       [] OTHER -> Goto(w, "done") /\ UNCHANGED outbox
  /\ UNCHANGED <<main, taken, rows, mapping, orphaned, calls, mishaps>>

Receives(w) == Of(w).destination \in Tracked

\* Faulty: only what the destination receives is locked.
LockDebitDestination(w) ==
  /\ At(w, "lock")
  /\ Lock(w, IF Receives(w) THEN {<<Of(w).destination, p>> : p \in ToSet(work[w].providers) \cup {Aggregate}} ELSE {},
          "allocate")
  /\ UNCHANGED <<main, taken, rows, mapping, orphaned, calls, mishaps>>

\* The source's shadows and aggregate, and those the destination receives on.
LockDebit(w) ==
  LET of(b) == {<<b, p>> : p \in ToSet(work[w].providers) \cup {Aggregate}} IN
  /\ At(w, "lock")
  /\ Lock(w, of(Of(w).source) \cup (IF Receives(w) THEN of(Of(w).destination) ELSE {}), "allocate")
  /\ UNCHANGED <<main, taken, rows, mapping, orphaned, calls, mishaps>>

ReleasedFor(t) == {r \in rows : r.txn = t /\ r.kind = "release"}

\* remainingDebitAmount: less what earlier attempts have released.
RemainingDebitAmount(w) == Of(w).amount - Total(ReleasedFor(Txn(w)))

Allocate(w) ==
  LET b == Of(w).source
      sources == SelectSeq([i \in DOMAIN work[w].providers |->
                              [provider |-> work[w].providers[i], amount |-> FundsOf(b, work[w].providers[i])]],
                           LAMBDA s : s.amount > 0)
      left == RemainingDebitAmount(w)
  IN
  /\ At(w, "allocate")
  /\ work' = [work EXCEPT ![w].allocations = IF left > 0 THEN CalculateAllocation(sources, left, Strategy[b]) ELSE <<>>,
                          ![w].stage = "release"]
  /\ UNCHANGED <<main, taken, outbox, rows, mapping, orphaned, calls, mishaps>>

Allocation(w) == Head(work[w].allocations)
NextAllocation(w) == work' = [work EXCEPT ![w].allocations = Tail(@), ![w].stage = "release"]

\* processAllocations: one provider's release, unless an earlier attempt has
\* posted it; the aggregate must be able to pay.  After the last one the
\* allocation is noted in the transaction and the locks are given back.
Release(w) ==
  /\ At(w, "release")
  /\ IF work[w].allocations = <<>>
     THEN work' = [work EXCEPT ![w].locks = {}, ![w].stage = "done"] /\ UNCHANGED <<rows, outbox>>
     ELSE LET a == Allocation(w) IN
          CASE Posted(Txn(w), "release", a.provider) -> NextAllocation(w) /\ UNCHANGED <<rows, outbox>>
            [] ~Posted(Txn(w), "release", a.provider) /\ AggregateFunds(Of(w).source) < a.amount ->
                 MarkOutboxFailed(w) /\ UNCHANGED rows
            [] OTHER ->
                 /\ rows' = rows \cup {Shadow(w, "release", Of(w).source, a.provider, a.amount)}
                 /\ (IF Receives(w) THEN Goto(w, "receive") ELSE NextAllocation(w)) /\ UNCHANGED outbox
  /\ UNCHANGED <<main, taken, mapping, orphaned, calls, mishaps>>

\* queueReceiveTransaction at the destination.
Receive(w) ==
  LET a == Allocation(w) IN
  /\ At(w, "receive")
  /\ IF Posted(Txn(w), "receive", a.provider)
     THEN MarkOutboxFailed(w) /\ UNCHANGED rows
     ELSE /\ rows' = rows \cup {Shadow(w, "receive", Of(w).destination, a.provider, a.amount)}
          /\ Goto(w, "mapReceive") /\ UNCHANGED outbox
  /\ UNCHANGED <<main, taken, mapping, orphaned, calls, mishaps>>

MapReceive(w) ==
  /\ At(w, "mapReceive")
  /\ Upsert(Of(w).destination, Allocation(w).provider)
  /\ NextAllocation(w)
  /\ UNCHANGED <<main, taken, outbox, rows, orphaned, calls, mishaps>>

------------------------------------------------------------------------------
\* What a live worker does next; a batch is claimed at every tick.
LineageWork(w) ==
  \/ Claim(w) \/ StartEntry(w) \/ ShadowEntry(w)
  \/ LockCredit(w) \/ PostCredit(w) \/ MapCredit(w)
  \/ ReadMappings(w) \/ LockDebit(w) \/ Allocate(w) \/ Release(w) \/ Receive(w) \/ MapReceive(w)
  \/ MarkOutboxCompleted(w)

LineageNext ==
  \/ \E t \in Ids : \/ RecordMain(t) \/ VoidMain(t)
                    \/ \E amount \in 1 .. Transactions[t].amount : CommitMain(t, amount)
  \/ \E c \in calls : ShadowWork(c) \/ CallerDies(c)
  \/ \E w \in OutboxWorkers : LineageWork(w) \/ StepFails(w) \/ WorkerDies(w)
  \/ \E i \in DOMAIN outbox : ExpireClaim(i)
  \/ ExpireOrphanedLocks

LineageSpec == LineageInit /\ [][LineageNext]_lineageVars

\* Abandoned claims and locks run out with time.
AbandonedRunsOut == ExpireOrphanedLocks \/ \E i \in DOMAIN outbox : ~Claimed(i) /\ ExpireClaim(i)

\* The outbox workers poll and go on as long as they live.
LineageFairness ==
  /\ \A w \in OutboxWorkers : WF_lineageVars(LineageWork(w))
  /\ WF_lineageVars(AbandonedRunsOut)

------------------------------------------------------------------------------
\* Entries, shadow rows and workers are well formed; an entry is never tried
\* more often than max_attempts.
LineageTypeOK ==
  /\ \A i \in DOMAIN outbox : /\ outbox[i].status \in {"pending", "processing", "completed", "failed"}
                              /\ outbox[i].attempts \in 0 .. MaxAttempts + Cardinality(OutboxWorkers) - 1
  /\ \A r \in rows : r.amount > 0 /\ r.status \in {"applied", "inflight", "void"}
  /\ \A w \in OutboxWorkers : work[w].locks \subseteq Keys

\* No strategy allocates more than is asked for, or from a source more than it
\* has.  FIFO and LIFO allocate all that is asked for and there; PROPORTIONAL
\* may leave a rest, since the last source takes what rounding leaves only up
\* to what it has, but always less than a unit for each other source but one
\* (calculateAllocation).
AllocationsExact ==
  \A n \in 1 .. 3, amount \in 0 .. 5 :
    \A funds \in [1 .. n -> 1 .. 3], strategy \in {"FIFO", "LIFO", "PROPORTIONAL"} :
      LET sources == [i \in 1 .. n |-> [provider |-> i, amount |-> funds[i]]]
          result == CalculateAllocation(sources, amount, strategy)
          total(seq) == FoldLeft(LAMBDA m, s : m + s.amount, 0, seq)
          rest == Min({amount, total(sources)}) - total(result)
      IN  /\ rest \in 0 .. IF strategy = "PROPORTIONAL" THEN Max({0, n - 2}) ELSE 0
          /\ \A i \in DOMAIN result : result[i].amount <= funds[result[i].provider]

\* However often a debit is retried, by one worker or by two at a time, its
\* releases together never exceed it (remainingDebitAmount).
ReleasedWithinDebit == \A t \in Ids : Total(ReleasedFor(t)) <= Transactions[t].amount

\* A balance receives from a provider exactly what was released to it: funds
\* do not change their amount on the way (processAllocations).
ReceivesHaveReleases ==
  \A r \in rows : r.kind = "receive" =>
    \E s \in ReleasedFor(r.txn) : s.provider = r.provider /\ s.amount = r.amount

\* No provider's funds are spent twice: as long as no release of them is or
\* was in flight, concurrent debits leave a provider at zero or above
\* (processLineageDebit under its locks).
ShadowsCovered ==
  \A b \in Tracked, p \in Providers :
    \/ FundsOf(b, p) >= 0
    \/ \E r \in rows : r.kind = "release" /\ r.provider = p /\ Transactions[r.txn].inflight

\* The shadows of a hold are committed only when some of it was, and voided only
\* when the rest of it was, also when the shadow work fails half way and is taken
\* up from the outbox.  That they are committed in full on the first partial
\* commit is what the code means to do (commitShadowTransactions: "shadow
\* transactions use their own amounts").
ShadowFollowsParent ==
  \A r \in rows : Transactions[r.txn].inflight =>
    /\ r.status = "applied" => taken[r.txn] > 0
    /\ r.status = "void" => main[r.txn] = "void"

\* In the end every entry is completed or given up, although claims run out
\* and workers die with locks held (LineageOutboxProcessor).
OutboxSettles == <>[](\A i \in DOMAIN outbox : outbox[i].status \in {"completed", "failed"})

\* What the outbox keeps in every interleaving of workers, callers, claims that
\* run out and failures: the parts above.
LineageInv ==
  LineageTypeOK /\ ReleasedWithinDebit /\ ReceivesHaveReleases /\ ShadowsCovered /\ ShadowFollowsParent
==============================================================================
