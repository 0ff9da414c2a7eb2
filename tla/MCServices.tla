------------------------------ MODULE MCServices ------------------------------
(***************************************************************************)
(* For TLC, the services behind the API (Services) and the resolution of   *)
(* holds that skip the queue (Inflight), each under two concurrent calls.  *)
(***************************************************************************)
EXTENDS Inflight, Services, TLC

\* A hold of 2 that expires, so that it can be committed in parts, next to a
\* hold of 1 in the same pool.
Amounts == [h \in Holds |-> IF h \in Expiring THEN 2 ELSE 1]

\* Two buys, or a buy and a sell, of a client with money for one.
OneSell == {S \in SUBSET OrderIds : Cardinality(S) <= 1}

\* A plan that names a position twice, one in the opposite order, and one that
\* would take a hold below zero; a hold, its commit and void, and a transfer.
Delta(k, a, w) == [key |-> k, amount |-> a, blocked |-> 0, waiting |-> w]
MutationPlans ==
  [p \in {"fix", "back", "free"} |->
     CASE p = "fix"  -> <<Delta(2, 1, 0), Delta(1, -2, 0), Delta(2, 1, 0)>>
       [] p = "back" -> <<Delta(1, 1, 0), Delta(2, -1, 0)>>
       [] p = "free" -> <<Delta(2, 1, -1)>>]
Entry(i, kind, amount, parent) ==
  [id |-> i, kind |-> kind, source |-> 1, destination |-> 2, amount |-> amount, parent |-> parent]
LedgerEntries == {Entry(1, "hold", 2, 0), Entry(2, "commit", 1, 1), Entry(3, "void", 1, 1), Entry(4, "move", 1, 0)}

\* Two keys with one prefix; a key that may write everything next to one that
\* may handle keys.
Scope(resource, action) == [resource |-> resource, action |-> action]
TwoScopeSets == {{Scope("*", "write"), Scope("ledgers", "*")}, {Scope("api-keys", "*"), Scope("ledgers", "read")}}
OnePrefix == [k \in Keys |-> 0]

------------------------------------------------------------------------------
\* Any two of a call, a queued action and a crash, next to expiry and scheduled
\* commit.
MaxDisturbances == 2
HoldsMove ==
  /\ active = "holds" /\ Next
  /\ calls' + actions' + crashes' <= MaxDisturbances
  /\ UNCHANGED <<active, serviceVars>>

\* A client is blocked, or a caller meets a mishap; keys expire or a deletion fails.
Bounded ==
  /\ active = "orders" => (blocked => orderCrashes = 0)
  /\ active = "keys" => now + mishaps <= 1
ServicesMove == ServicesNext /\ Bounded' /\ UNCHANGED vars

CallsInit == ServicesInit /\ Init
CallsSpec == CallsInit /\ [][HoldsMove \/ ServicesMove]_<<active, vars, serviceVars>>

\* The components share no state, so one permutation of the orders serves the
\* owners and the watched balances too.
Symmetry == Permutations(Callers) \cup Permutations(OrderIds)
==============================================================================
