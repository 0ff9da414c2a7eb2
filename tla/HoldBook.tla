------------------------------- MODULE HoldBook -------------------------------
(***************************************************************************)
(* What an inflight transaction promises: its amount is held once, every   *)
(* commit turns a part of what is still held into a posting, a void gives  *)
(* the whole rest back, and nothing follows a void.  Inflight is shown to  *)
(* implement this for every transaction id a commit or a void may name.    *)
(***************************************************************************)
EXTENDS Naturals

CONSTANTS
  Ids,           \* the transaction ids that can be committed or voided
  Amount         \* the amount of each

VARIABLES
  held,          \* what is still to be committed or voided
  posted,        \* what has been committed
  closed         \* the ids that have been voided

bookVars == <<held, posted, closed>>

BookInit ==
  /\ held = Amount
  /\ posted = [i \in Ids |-> 0]
  /\ closed = {}

CommitPart(i) ==
  /\ i \notin closed
  /\ \E a \in 1 .. held[i] :
       /\ held' = [held EXCEPT ![i] = @ - a]
       /\ posted' = [posted EXCEPT ![i] = @ + a]
  /\ UNCHANGED closed

VoidRest(i) ==
  /\ i \notin closed
  /\ held[i] > 0
  /\ held' = [held EXCEPT ![i] = 0]
  /\ closed' = closed \cup {i}
  /\ UNCHANGED posted

BookNext == \E i \in Ids : CommitPart(i) \/ VoidRest(i)

BookSpec == BookInit /\ [][BookNext]_bookVars
==============================================================================
