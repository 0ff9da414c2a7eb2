------------------------------ MODULE MCDelivery ------------------------------
(***************************************************************************)
(* For TLC, the transaction queue in two settings that use the same        *)
(* variables, and what surrounds it (Delivery).  A behaviour is one of any *)
(* one of them: the variables of the others stay as they are.              *)
(***************************************************************************)
EXTENDS Queue, Delivery, TLC

VARIABLE setting   \* of the queue: "pair" or "same"

\* "pair": two requests that can be coalesced and a worker that retries, next
\* to a recovery job.
OneEach == [s \in Submissions |-> s]

\* "same": submissions 1 and 2 share a reference, 3 is scheduled; two workers,
\* and no process dies.
ThreeSubmissions == {1, 2, 3}
SameReference == [s \in ThreeSubmissions |-> IF s = 3 THEN 2 ELSE 1]
Same == INSTANCE Queue WITH Submissions <- ThreeSubmissions, RefOf <- SameReference, Scheduled <- {2},
          Workers <- Calls, MaxRetry <- 0, InsufficientFundRetries <- FALSE,
          RejectLockContentionImmediately <- TRUE, MaxCrashes <- 0

\* Two balances and a transfer; one balance is there and indexed before the
\* first of two reindex runs.
FirstBalance == [t \in Transfers |-> "b1"]
OneStart == {[old |-> <<"b2">>, over |-> {}]}

QueuesInit ==
  /\ DeliveryInit
  /\ setting \in {"pair", "same"} /\ (setting = "same" => active = "queue")
  /\ IF setting = "same" THEN Same!Init ELSE Init

QueueMoves ==
  /\ active = "queue"
  /\ \/ setting = "pair" /\ Next
     \/ setting = "same" /\ Same!Next
  /\ UNCHANGED <<active, setting, deliveryVars>>

\* Three contentions since a demotion, or two and a mishap; three edits of
\* hooks, or two and a mishap; two reindex runs, or one and a mishap.
Bounded ==
  /\ active = "lanes" => since + laneMishaps <= 3
  /\ active = "hooks" => edits + hookMishaps <= 3
  /\ active = "search" => Cardinality({r \in Runs : run[r].status # "none"}) + searchMishaps <= 2
DeliveryMoves == DeliveryNext /\ Bounded' /\ UNCHANGED <<setting, vars>>

QueuesSpec == QueuesInit /\ [][QueueMoves \/ DeliveryMoves]_<<active, setting, vars, deliveryVars>>

Symmetry == Permutations(Calls)
==============================================================================
