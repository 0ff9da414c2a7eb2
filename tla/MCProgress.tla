------------------------------ MODULE MCProgress ------------------------------
(***************************************************************************)
(* For TLC, the background work that must get done: sealing the chain      *)
(* (HashChain), and resolving holds by expiry and queued action            *)
(* (Inflight).  A behaviour is one of either: "active" says which, and the *)
(* variables of the other stay as they are.                                *)
(***************************************************************************)
EXTENDS HashChain

CONSTANTS
  Holds, Calls, Free, Orphan, NoOp

VARIABLES
  active,
  leg, pool, committed, voided, refs, lock, tasks, payload, holdPc, op, taking, outcome, calls, actions, crashes

holdVars == <<leg, pool, committed, voided, refs, lock, tasks, payload, holdPc, op, taking, outcome, calls, actions, crashes>>

\* One hold of 2 that expires and meets up to two queued actions.
TwoEach == [h \in Holds |-> 2]
Hold == INSTANCE Inflight WITH HoldAmount <- TwoEach, Queued <- {}, Expiring <- Holds, AutoCommit <- {},
          Workers <- Calls, MaxCalls <- 0, MaxActions <- 2, MaxCrashes <- 1, pc <- holdPc

ProgressInit == active \in {"chain", "holds"} /\ Init /\ Hold!Init

ChainMoves == active = "chain" /\ Next /\ UNCHANGED <<active, holdVars>>
HoldsMove == active = "holds" /\ Hold!Next /\ UNCHANGED <<active, vars>>

\* The fairness of each component, in its behaviours.
ProgressSpec ==
  /\ ProgressInit /\ [][ChainMoves \/ HoldsMove]_<<active, vars, holdVars>>
  /\ \/ active = "chain" /\ Fairness
     \/ active = "holds" /\ Hold!Fairness

\* A hold whose expiry was scheduled does not stay open for ever
\* (processInflightExpiry), and a queued commit or void leaves the queue, so
\* that the next one can be queued: ErrInflightActionQueued does not last
\* (processInflightCommit).
HoldWorkEnds == Hold!HoldWorkEnds
==============================================================================
