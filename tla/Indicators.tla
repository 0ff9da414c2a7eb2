------------------------------ MODULE Indicators ------------------------------
(***************************************************************************)
(* Balances named by an indicator ("@World") and a currency (balance.go).  *)
(* Transactions that name one look it up and create it when it is not      *)
(* there; several do so at the same time, and the API creates balances     *)
(* too.  The unique index unique_indicator_currency decides.               *)
(***************************************************************************)
EXTENDS Integers, FiniteSets

CONSTANTS
  Keys,          \* pairs of an indicator and a currency
  Lookups,       \* transactions that resolve an indicator
  NoKey,         \* none
  MaxIds         \* bound: balance ids generated

VARIABLES
  balance,       \* rows of blnk.balances: id and key
  ids,           \* ids generated
  lookup,        \* what each transaction is doing
  posted         \* balances announced to the search index and by webhook

indicatorVars == <<balance, ids, lookup, posted>>

IndicatorsAssumption == MaxIds \in Nat

AtRest == [key |-> NoKey, stage |-> "done", got |-> 0]

IndicatorInit ==
  /\ balance = {}
  /\ ids = 0
  /\ lookup = [c \in Lookups |-> AtRest]
  /\ posted = {}

\* GetBalanceByIndicator: the ids of the rows that it may return.
GetBalanceByIndicator(k) == {r.id : r \in {x \in balance : x.key = k}}

\* The INSERT of CreateBalance: a violation of the unique index is no error.
Insert(k) ==
  balance' = IF GetBalanceByIndicator(k) # {} THEN balance
             ELSE balance \cup {[id |-> ids + 1, key |-> k]}

\* CreateBalance: on a violation the caller gets, and announces, the empty
\* balance; its id is 0 here.
CreateBalance(k) ==
  /\ ids < MaxIds
  /\ ids' = ids + 1
  /\ Insert(k)
  /\ posted' = posted \cup {IF balance' = balance THEN 0 ELSE ids + 1}

\* POST /balances.
CreateBalanceRequest(k) == CreateBalance(k) /\ UNCHANGED lookup

------------------------------------------------------------------------------
\* getOrCreateBalanceByIndicator: the first look.  Any error of the query
\* counts as not found.
Look(c, k) ==
  /\ lookup[c].key = NoKey
  /\ \/ \E id \in GetBalanceByIndicator(k) :
          lookup' = [lookup EXCEPT ![c] = [key |-> k, stage |-> "done", got |-> id]]
     \/ lookup' = [lookup EXCEPT ![c] = [key |-> k, stage |-> "create", got |-> 0]]
  /\ UNCHANGED <<balance, ids, posted>>

\* The balance is created...
LookupCreates(c) ==
  /\ lookup[c].stage = "create"
  /\ CreateBalance(lookup[c].key)
  /\ lookup' = [lookup EXCEPT ![c].stage = "look"]

\* ...and looked up again, whoever created it.
LookAgain(c) ==
  /\ lookup[c].stage = "look"
  /\ \E id \in GetBalanceByIndicator(lookup[c].key) :
       lookup' = [lookup EXCEPT ![c].stage = "done", ![c].got = id]
  /\ UNCHANGED <<balance, ids, posted>>

------------------------------------------------------------------------------
IndicatorNext ==
  \/ \E k \in Keys : CreateBalanceRequest(k) \/ \E c \in Lookups : Look(c, k)
  \/ \E c \in Lookups : LookupCreates(c) \/ LookAgain(c)

IndicatorSpec == IndicatorInit /\ [][IndicatorNext]_indicatorVars

------------------------------------------------------------------------------
\* Rows and lookups are well formed; only the empty balance is announced
\* without a row.
IndicatorsTypeOK ==
  /\ \A r \in balance : r.id \in 1 .. ids /\ r.key \in Keys
  /\ ids \in 0 .. MaxIds
  /\ lookup \in [Lookups -> [key : Keys \cup {NoKey}, stage : {"create", "look", "done"}, got : 0 .. MaxIds]]
  /\ posted \subseteq {0} \cup {r.id : r \in balance}

\* Transactions that name the same indicator and currency post to the same
\* balance, however their lookups and creations interleave, and it is a row of
\* the table (getOrCreateBalanceByIndicator).
OneBalancePerIndicator ==
  /\ \A k \in Keys : Cardinality(GetBalanceByIndicator(k)) <= 1
  /\ \A c \in Lookups :
       lookup[c].key # NoKey /\ lookup[c].stage = "done" =>
         lookup[c].got \in GetBalanceByIndicator(lookup[c].key)
==============================================================================
