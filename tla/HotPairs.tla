------------------------------ MODULE HotPairs ------------------------------
(***************************************************************************)
(* Routing of one hot pair (source, destination, currency) between the     *)
(* normal queues and the hot queue.  The state of the pair is three Redis  *)
(* keys: `state' (absent means normal), `activity' and `contention'; the   *)
(* rows of the pair that wait in either lane are rows of Postgres.  A      *)
(* request reads the state, may count the rows of a lane, may write the    *)
(* state and stores its row with the lane it was given, each a step of its *)
(* own: no lock spans them.  A worker that loses a lock counts it, and     *)
(* marks the pair for promotion at the threshold.                          *)
(*                                                                         *)
(* `disturbed' and `raced' are history: they record the steps of others    *)
(* that fall between a request's read and its store, and the faults that   *)
(* send a row to the wrong lane.                                           *)
(***************************************************************************)
EXTENDS Naturals, Integers, FiniteSets

CONSTANTS Requests,                \* slots for transactions being queued for the pair
          Recorders,               \* workers that meet lock contention
          LockContentionThreshold, \* the configured threshold
          MaxContentions,          \* bound on contentions recorded
          MaxMishaps               \* bound on expiries and failed calls

VARIABLES state,       \* the state key; "normal" when it is absent
          activity,    \* whether the activity key is there
          contention,  \* the contention counter; 0 when it is absent
          pc,          \* what each request does next
          lane,        \* the lane in each request's metadata
          recorder,    \* what each recorder does next, and the count it got
          since,       \* contentions recorded since the pair was last demoted
          disturbed,   \* requests that were overtaken since they read the state
          raced,       \* a row or a state was written on a stale reading, or a fault met
          mishaps

hotVars == <<state, activity, contention, pc, lane, recorder, since, disturbed, raced, mishaps>>

HotAssumption == LockContentionThreshold \in Int /\ MaxContentions \in Nat /\ MaxMishaps \in Nat

\* NewManager: a threshold that is not configured is 3.
Threshold == IF LockContentionThreshold <= 0 THEN 3 ELSE LockContentionThreshold

Resolving == {"promoting", "hot", "checked", "cooling", "activate", "cool", "demote", "store"}

\* Rows of a lane that are still queued and have no child: what
\* CountQueuedTransactionsForPairLane counts.
Pending(l) == {r \in Requests : pc[r] = "queued" /\ lane[r] = l}

HotInit ==
  /\ state = "normal" /\ activity = FALSE /\ contention = 0
  /\ pc = [r \in Requests |-> "new"]
  /\ lane = [r \in Requests |-> "normal"]
  /\ recorder = [w \in Recorders |-> [at |-> "idle", tally |-> 0]]
  /\ since = 0
  /\ disturbed = {} /\ raced = FALSE
  /\ mishaps = 0

\* The requests other than r that have read the state and not yet stored their row.
Others(r) == {q \in Requests \ {r} : pc[q] \in Resolving}

Goto(r, p) == pc' = [pc EXCEPT ![r] = p]
GiveLane(r, l) == /\ lane' = [lane EXCEPT ![r] = l]
                  /\ Goto(r, "store")

\* A request writes the state key: whoever resolves at the same time has read
\* an older one, and a request that was itself overtaken writes on what it read.
WriteState(r, s) ==
  /\ state' = s
  /\ disturbed' = disturbed \cup Others(r)
  /\ raced' = (raced \/ r \in disturbed)

(***************************************************************************)
(* ResolveQueueLane.                                                       *)
(***************************************************************************)

\* GetState at the head of ResolveQueueLane.
ReadState(r) ==
  /\ pc[r] = "new"
  /\ \/ state = "normal" /\ GiveLane(r, "normal")
     \/ state = "promoting" /\ Goto(r, "promoting") /\ UNCHANGED lane
     \/ state = "hot" /\ Goto(r, "hot") /\ UNCHANGED lane
     \/ state = "cooling_down" /\ Goto(r, "cooling") /\ UNCHANGED lane
  /\ UNCHANGED <<state, activity, contention, recorder, since, disturbed, raced, mishaps>>

\* Faulty: a promoting pair goes hot with rows still in the normal lane.
CountNormalNever(r) ==
  /\ pc[r] = "promoting"
  /\ Goto(r, "activate")
  /\ UNCHANGED <<state, activity, contention, lane, recorder, since, disturbed, raced, mishaps>>

\* A promoting pair goes hot once its normal lane is drained.
CountNormal(r) ==
  /\ pc[r] = "promoting"
  /\ \/ Pending("normal") = {} /\ Goto(r, "activate") /\ UNCHANGED lane
     \/ Pending("normal") # {} /\ GiveLane(r, "normal")
  /\ UNCHANGED <<state, activity, contention, recorder, since, disturbed, raced, mishaps>>

ActivateHot(r) ==
  /\ pc[r] = "activate"
  /\ WriteState(r, "hot")
  /\ activity' = TRUE
  /\ GiveLane(r, "hot")
  /\ UNCHANGED <<contention, recorder, since, mishaps>>

\* A hot pair: HasRecentContention.
CheckActivity(r) ==
  /\ pc[r] = "hot"
  /\ \/ activity /\ GiveLane(r, "hot")
     \/ ~activity /\ Goto(r, "checked") /\ UNCHANGED lane
  /\ UNCHANGED <<state, activity, contention, recorder, since, disturbed, raced, mishaps>>

\* A hot pair without recent contention, or one that cools down, returns to
\* normal once its hot lane is drained.
CountHot(r) ==
  /\ \/ pc[r] = "checked" /\ Pending("hot") # {} /\ Goto(r, "cool") /\ UNCHANGED lane
     \/ pc[r] = "cooling" /\ Pending("hot") # {} /\ GiveLane(r, "hot")
     \/ /\ pc[r] \in {"checked", "cooling"} /\ Pending("hot") = {}
        /\ Goto(r, "demote") /\ UNCHANGED lane
  /\ UNCHANGED <<state, activity, contention, recorder, since, disturbed, raced, mishaps>>

StartCoolingDown(r) ==
  /\ pc[r] = "cool"
  /\ WriteState(r, "cooling_down")
  /\ GiveLane(r, "hot")
  /\ UNCHANGED <<activity, contention, recorder, since, mishaps>>

SetNormal(r) ==
  /\ pc[r] = "demote"
  /\ WriteState(r, "normal")
  /\ activity' = FALSE /\ contention' = 0 /\ since' = 0
  /\ GiveLane(r, "normal")
  /\ UNCHANGED <<recorder, mishaps>>

\* AssignQueueLane falls back to the normal lane when Redis or the count fails;
\* a state that was being written stays as it was.
ResolveFails(r) ==
  /\ pc[r] \in {"new"} \cup (Resolving \ {"store"})
  /\ mishaps < MaxMishaps /\ mishaps' = mishaps + 1
  /\ GiveLane(r, "normal")
  /\ raced' = TRUE
  /\ UNCHANGED <<state, activity, contention, recorder, since, disturbed>>

\* prepareTransactionForQueue returns and the QUEUED row is written with its lane.
Store(r) ==
  /\ pc[r] = "store"
  /\ Goto(r, "queued")
  /\ disturbed' = (disturbed \cup Others(r)) \ {r}
  /\ raced' = (raced \/ r \in disturbed)
  /\ UNCHANGED <<state, activity, contention, lane, recorder, since, mishaps>>

\* A worker applies or rejects the row, which has a child from then on; the
\* slot is free for the next request.
Decide(r) ==
  /\ pc[r] = "queued"
  /\ Goto(r, "new")
  /\ UNCHANGED <<state, activity, contention, lane, recorder, since, disturbed, raced, mishaps>>

(***************************************************************************)
(* RecordContention.                                                       *)
(***************************************************************************)

\* The transaction that increments the counter and renews both keys.
CountContention(w) ==
  /\ recorder[w].at = "idle" /\ since < MaxContentions
  /\ contention' = contention + 1
  /\ activity' = TRUE
  /\ since' = since + 1
  /\ recorder' = [recorder EXCEPT ![w] =
       IF contention' < Threshold THEN @ ELSE [at |-> "counted", tally |-> since']]
  /\ UNCHANGED <<state, pc, lane, disturbed, raced, mishaps>>

\* GetState: a pair that is not normal only has its state key renewed.
CheckState(w) ==
  /\ recorder[w].at = "counted"
  /\ recorder' = [recorder EXCEPT ![w] =
       IF state = "normal" THEN [@ EXCEPT !.at = "promote"] ELSE [at |-> "idle", tally |-> 0]]
  /\ UNCHANGED <<state, activity, contention, pc, lane, since, disturbed, raced, mishaps>>

\* setState(promoting): unconditional, whatever the state has become.
Promote(w) ==
  /\ recorder[w].at = "promote"
  /\ state' = "promoting"
  /\ recorder' = [recorder EXCEPT ![w] = [at |-> "idle", tally |-> 0]]
  /\ disturbed' = disturbed \cup {q \in Requests : pc[q] \in Resolving}
  /\ raced' = (raced \/ state \in {"hot", "cooling_down"})
  /\ UNCHANGED <<activity, contention, pc, lane, since, mishaps>>

(***************************************************************************)
(* The keys expire: `contention' and `activity' after the pair's TTL, the  *)
(* latter renewed whenever the former is, `state' after four times that.   *)
(***************************************************************************)
ContentionExpires ==
  /\ contention > 0 /\ contention' = 0
  /\ UNCHANGED <<state, activity, pc, lane, recorder, since, disturbed, raced, mishaps>>

ActivityExpires ==
  /\ activity /\ contention = 0
  /\ activity' = FALSE
  /\ UNCHANGED <<state, contention, pc, lane, recorder, since, disturbed, raced, mishaps>>

StateExpires ==
  /\ state # "normal"
  /\ mishaps < MaxMishaps /\ mishaps' = mishaps + 1
  /\ state' = "normal"
  /\ disturbed' = disturbed \cup {q \in Requests : pc[q] \in Resolving}
  /\ raced' = (raced \/ Pending("hot") # {})
  /\ UNCHANGED <<activity, contention, pc, lane, recorder, since>>

Resolve(r) ==
  \/ ReadState(r) \/ CountNormal(r) \/ ActivateHot(r) \/ CheckActivity(r)
  \/ CountHot(r) \/ StartCoolingDown(r) \/ SetNormal(r) \/ ResolveFails(r)

HotNext ==
  \/ \E r \in Requests : Resolve(r) \/ Store(r) \/ Decide(r)
  \/ \E w \in Recorders : CountContention(w) \/ CheckState(w) \/ Promote(w)
  \/ ContentionExpires
  \/ ActivityExpires
  \/ StateExpires

HotSpec == HotInit /\ [][HotNext]_hotVars

\* Type invariant; the counter never exceeds the contentions since the last demotion.
HotTypeOK ==
  /\ state \in {"normal", "promoting", "hot", "cooling_down"}
  /\ activity \in BOOLEAN /\ contention \in 0 .. MaxContentions
  /\ pc \in [Requests -> {"new", "queued"} \cup Resolving]
  /\ lane \in [Requests -> {"normal", "hot"}]
  /\ recorder \in [Recorders -> [at : {"idle", "counted", "promote"}, tally : 0 .. MaxContentions]]
  /\ contention <= since
  /\ disturbed \subseteq Requests /\ raced \in BOOLEAN /\ mishaps \in 0 .. MaxMishaps

\* The rows of a pair wait in one lane at a time, so that the hot queue never
\* overtakes the normal one (ResolveQueueLane drains a lane before it changes
\* over), except when a request was overtaken between its read and its store,
\* a promotion overwrote a hot pair, or a key was lost.
OneLaneAtATime == Pending("normal") = {} \/ Pending("hot") = {} \/ raced

\* Whoever goes on to promote a pair has counted the threshold's worth of
\* contentions since the pair was last demoted: SetNormal forgets the old ones
\* (RecordContention).  The pair may be demoted again before the promotion.
PromotedOnContention == \A w \in Recorders : recorder[w].at # "idle" => recorder[w].tally >= Threshold

\* What requests and recorders keep.
LanesInv == HotTypeOK /\ OneLaneAtATime /\ PromotedOnContention
=============================================================================
