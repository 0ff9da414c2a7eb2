------------------------------ MODULE MCPayments ------------------------------
(***************************************************************************)
(* For TLC, the execution of payments (Execution) and what follows from    *)
(* it, the lineage of the funds.  They share no state, so a behaviour is   *)
(* one of either: "active" says which, and the variables of the other stay *)
(* as they are.  Also the algorithms that have no state.                   *)
(***************************************************************************)
EXTENDS MCExecution, TLC

CONSTANTS
  Nothing,      \* no value; the state of a component that is not active
  Calls         \* the concurrent calls of each component

VARIABLES
  active,
  main, taken, outbox, shadows, mapping, work, orphaned, calls, mishaps

lineageVars == <<main, taken, outbox, shadows, mapping, work, orphaned, calls, mishaps>>

------------------------------------------------------------------------------
\* Two providers fund A, A pays B; two debits of a funded A; a hold that funds
\* A and a hold that spends it.
Transfer(s, d, p, a, i) == [source |-> s, destination |-> d, provider |-> p, amount |-> a, inflight |-> i]
Flow ==
  [c1 |-> Transfer("world", "A", "p1", 1, FALSE), c2 |-> Transfer("world", "A", "p2", 2, FALSE),
   d1 |-> Transfer("A", "B", "p1", 2, FALSE),
   d2 |-> Transfer("A", "world", Nothing, 1, FALSE), d3 |-> Transfer("A", "world", Nothing, 1, FALSE),
   h1 |-> Transfer("world", "A", "p1", 2, TRUE), h2 |-> Transfer("A", "B", "p1", 1, TRUE)]
Scenarios ==
  {[done |-> <<>>, todo |-> {"c1", "c2", "d1"}],
   [done |-> <<"c1", "c2">>, todo |-> {"d2", "d3"}],
   [done |-> <<>>, todo |-> {"h1", "h2"}]}
Strategy == [A |-> "FIFO", B |-> "LIFO"]
Tracked == {"A", "B"}
Lin == INSTANCE Lineage WITH Transactions <- Flow, NoProvider <- Nothing, OutboxWorkers <- Calls,
         ClaimSize <- 2, MaxAttempts <- 2, MaxMishaps <- 1, rows <- shadows

\* Rows of an upload and of the ledger, and rules.
Line(id, amount, date) ==
  [id |-> id, amount |-> amount, date |-> date, currency |-> "USD", ref |-> "rent", group |-> 0]
External == {Line(11, 3, 2), Line(12, 2, 1)}
Internal == {Line(1, 1, 1), Line(2, 2, 2), Line(3, 2, 3), Line(4, 3, 4)}
Criterion(f, o, d) == [field |-> f, operator |-> o, drift |-> d]
Ruleset ==
  {{Criterion("amount", "equals", 0), Criterion("date", "equals", 2)},
   {Criterion("amount", "equals", 0), Criterion("date", "equals", 0)},
   {Criterion("amount", "equals", 0), Criterion("date", "equals", 1), Criterion("currency", "equals", 0)}}
Match == INSTANCE Matching WITH Alike <- {{"rent", "rents"}}

Dates == INSTANCE SettleDates

------------------------------------------------------------------------------
LineageOff ==
  /\ main = Nothing /\ taken = Nothing /\ outbox = Nothing /\ shadows = Nothing /\ mapping = Nothing
  /\ work = Nothing /\ orphaned = Nothing /\ calls = Nothing /\ mishaps = Nothing

PaymentsInit ==
  /\ active \in {"payments", "lineage"}
  /\ Init
  /\ IF active = "lineage" THEN Lin!LineageInit ELSE LineageOff

PaymentsMove ==
  active = "payments" /\ Next /\ UNCHANGED <<active, lineageVars>>
LineageMoves ==
  active = "lineage" /\ Lin!LineageNext /\ UNCHANGED <<active, vars>>

PaymentsNext == PaymentsMove \/ LineageMoves

PaymentsSpec ==
  PaymentsInit /\ [][PaymentsNext]_<<active, vars, lineageVars>>

Symmetry == Permutations(Calls)

------------------------------------------------------------------------------
\* Lineage: however workers, callers, claims that run out and failures
\* interleave, a debit's releases never exceed it, a balance receives what was
\* released to it, no provider's funds are spent twice, and the shadows of a
\* hold are committed only when some of it was and voided only when its rest
\* was (processLineageDebit, commitShadowTransactions).
LineageInv == active = "lineage" => Lin!LineageInv

\* The pure algorithms, which do not depend on the state.  No strategy
\* allocates more than is asked for, or from a source more than it has; FIFO
\* and LIFO leave nothing, PROPORTIONAL less than a unit for each source but two
\* (calculateAllocation).  The range that the ledger is searched with loses no
\* match of rules that all compare the amount, exactly, and the date
\* (calculateMatchingBounds).  A trade settles exactly so many settlement days
\* after its day, or not at all if that is too far, for all holidays
\* (ComputeSettleDate).
AlgorithmsExact ==
  active = "payments" /\ rows = {} /\ held = [w \in Workers |-> 0] =>
    /\ Lin!AllocationsExact
    /\ Match!BoundsKeepMatches(External, Internal, Ruleset)
    /\ Dates!SettlesOnTime({2, 5, 8}, 0 .. 3, {4, 30})
==============================================================================
