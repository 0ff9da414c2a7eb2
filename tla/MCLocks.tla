------------------------------- MODULE MCLocks -------------------------------
(***************************************************************************)
(* For TLC, the two users of the distributed locks whose progress depends  *)
(* on abandoned keys running out: the execution of holds, commits and      *)
(* voids (Execution, under the lock's full TTL) and the lineage outbox     *)
(* (Lineage).  A behaviour is one of either: "active" says which, and the  *)
(* variables of the other stay as they are.                                *)
(***************************************************************************)
EXTENDS MCExecution

CONSTANTS NoProvider, OutboxWorkers

VARIABLES
  active,
  main, taken, outbox, shadows, mapping, work, orphaned, calls, mishaps

lineageVars == <<main, taken, outbox, shadows, mapping, work, orphaned, calls, mishaps>>

\* A credit and a debit of A; two debits of a funded A; a hold that funds A.
Transfer(s, d, p, a, i) == [source |-> s, destination |-> d, provider |-> p, amount |-> a, inflight |-> i]
Flow ==
  [c1 |-> Transfer("world", "A", "p1", 1, FALSE), c2 |-> Transfer("world", "A", "p2", 2, FALSE),
   d1 |-> Transfer("A", "B", "p1", 2, FALSE), d2 |-> Transfer("A", "world", NoProvider, 1, FALSE),
   h1 |-> Transfer("world", "A", "p1", 2, TRUE)]
Scenarios ==
  {[done |-> <<>>, todo |-> {"c1", "d1"}],
   [done |-> <<"c1", "c2">>, todo |-> {"d1", "d2"}],
   [done |-> <<>>, todo |-> {"h1"}]}
Strategy == [A |-> "FIFO", B |-> "LIFO"]
Tracked == {"A", "B"}
Lin == INSTANCE Lineage WITH Transactions <- Flow, ClaimSize <- 2, MaxAttempts <- 2, MaxMishaps <- 1,
         rows <- shadows

\* While execution is active the lineage rests in one of its initial states.
LocksInit ==
  /\ active \in {"execution", "lineage"} /\ Init /\ Lin!LineageInit
  /\ active = "execution" => main.c1 = "none"

ExecutionMoves ==
  /\ active = "execution" /\ (Working \/ \E k \in Balances : ExpireOrphan(k))
  /\ UNCHANGED <<active, lineageVars>>
LineageMoves == active = "lineage" /\ Lin!LineageNext /\ UNCHANGED <<active, vars>>

\* The fairness of each component (Fairness in Execution, LineageFairness in
\* Lineage), in its behaviours.
LocksSpec ==
  /\ LocksInit /\ [][ExecutionMoves \/ LineageMoves]_<<active, vars, lineageVars>>
  /\ \A w \in Workers : WF_vars(active = "execution" /\ WorkerStep(w))
  /\ \A k \in Balances : WF_vars(active = "execution" /\ ExpireOrphan(k))
  /\ \A w \in OutboxWorkers : WF_lineageVars(active = "lineage" /\ Lin!LineageWork(w))
  /\ WF_lineageVars(active = "lineage" /\ Lin!AbandonedRunsOut)

\* In the end every outbox entry is completed or given up, although claims run
\* out and workers die with locks held (LineageOutboxProcessor).
OutboxSettles == Lin!OutboxSettles
==============================================================================
