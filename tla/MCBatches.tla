------------------------------ MODULE MCBatches ------------------------------
(***************************************************************************)
(* For TLC, what ProcessTransactionInBatches works on: the rollback of     *)
(* bulk requests and refunds (Bulk), with up to two members, pages of one  *)
(* row, and a client whose refunds race the rollback and repeat each       *)
(* other; and reconciliations.  A behaviour is one of either: "active"     *)
(* says which, and the variables of the other stay as they are.            *)
(***************************************************************************)
EXTENDS Bulk, MCReconciliation

VARIABLE active

\* A member that fails after it was recorded is rolled back too: with two the
\* rollback has to page.  The clients of a queued request refund through the
\* queue; without a rollback one kind of request is enough.
MixedModes ==
  {r \in [size : {1, 2}, inflight : BOOLEAN, skipQueue : BOOLEAN, atomic : BOOLEAN,
          sync : BOOLEAN, calls : {0, 1, 2}, faults : {0, 1}] :
     /\ r.size + r.calls + r.faults = 3
     /\ r.sync => r.skipQueue /\ ~r.inflight
     /\ ~r.atomic => r.skipQueue /\ ~r.inflight /\ r.sync}

\* The ids the client refunds: the batch, and the first member by its own id
\* and by that of the copy that was executed.
FirstMember == {Batch, <<<<1, <<>>>>, "row">>, <<<<1, <<>>>>, "copy">>}

BatchesInit ==
  /\ active \in {"bulk", "reconciliation"}
  /\ Init /\ ReconInit
  /\ active = "reconciliation" => mode = CHOOSE m \in Modes : TRUE

BulkMoves == active = "bulk" /\ Next /\ UNCHANGED <<active, reconVars>>
ReconMoves == active = "reconciliation" /\ ReconNext /\ UNCHANGED <<active, vars>>

\* The fairness of bulk requests, in their behaviours.
BatchesSpec ==
  /\ BatchesInit /\ [][BulkMoves \/ ReconMoves]_<<active, vars, reconVars>>
  /\ \/ active = "bulk" /\ Fairness
     \/ active = "reconciliation"
==============================================================================
