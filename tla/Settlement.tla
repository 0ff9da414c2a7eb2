------------------------------ MODULE Settlement ------------------------------
(***************************************************************************)
(* Trades and their settlement (brokerage.go, database/brokerage.go).      *)
(*                                                                         *)
(* One client trades one instrument.  All trades are due on the same day,  *)
(* so that their security legs are booked on one future balance, which     *)
(* settlement rolls to the spot balance.  A leg is an inflight transaction *)
(* recorded without the queue; that its recording, commit and void are     *)
(* single steps is what Execution and Inflight are about.                  *)
(*                                                                         *)
(* The weighted-average price is represented by how often each buy is      *)
(* blended into it, the quantity it is weighted with only by its sign.  A  *)
(* position can be short to begin with: trades_on_the_way lets a client    *)
(* sell what a buy, which may fail, has yet to deliver, and the roll       *)
(* allows overdraft.                                                       *)
(***************************************************************************)
EXTENDS Integers, FiniteSetsExt

CONSTANTS
  Trades,        \* booking references
  Buys,          \* the trades that buy, the others sell
  Qty,           \* the quantity of each
  OnTheWay,      \* the instrument's trades_on_the_way
  InitialSpots,  \* the settled positions to start from
  Runs,          \* settlement runs and SettleTrade calls
  Limit,         \* how many journals one run lists
  NoTrade,       \* a run that is at no leg
  MaxFaults      \* bound: crashes and failing calls

ASSUME SettlementAssumption ==
  /\ IsFiniteSet(Trades) /\ Buys \subseteq Trades
  /\ Qty \in [Trades -> Nat \ {0}]
  /\ OnTheWay \in BOOLEAN
  /\ InitialSpots \subseteq Int
  /\ Limit \in Nat \ {0}
  /\ NoTrade \notin Trades
  /\ MaxFaults \in Nat

Sells == Trades \ Buys

VARIABLES
  booking,       \* how far the caller that books each trade has come
  seen,          \* the settled quantity a seller has read
  money,         \* each trade's money leg
  security,      \* each trade's security leg
  spot,          \* posted quantity of the spot balance
  future,        \* posted quantity of the future balance
  wa,            \* wa_price: how often each trade is blended into it
  lots,          \* trades with a row in balance_lots
  journal,       \* status of each row of brokerage_settlement_journal
  inputs,        \* its wa_before, qty_before and created_at
  pc,            \* the phase of each run
  todo,          \* journals or legs a run has listed and not dealt with
  leg,           \* the trade a run is settling
  waRead,        \* the run's copy of spot.WAPrice
  qtyRead,       \* the run's copy of spot.Balance, plus what it has bought
  net,           \* the future quantity a run is about to roll
  faults         \* how many crashes and failures there were

bookVars == <<booking, seen>>
legVars == <<money, security>>
priceVars == <<wa, lots, journal, inputs>>
runVars == <<pc, todo, leg, waRead, qtyRead, net>>
vars == <<bookVars, legVars, spot, future, priceVars, runVars, faults>>

LegStates == {"none", "inflight", "applied", "void"}
NoBlend == [t \in Trades |-> 0]
NoInputs == [wa |-> NoBlend, qty |-> 0, at |-> 0]

Total(S) == MapThenSumSet(LAMBDA t : Qty[t], S)

Init ==
  /\ booking = [t \in Trades |-> "new"]
  /\ seen = [t \in Trades |-> 0]
  /\ money = [t \in Trades |-> "none"]
  /\ security = [t \in Trades |-> "none"]
  /\ spot \in InitialSpots
  /\ future = 0
  /\ wa = NoBlend
  /\ lots = {}
  /\ journal = [t \in Trades |-> "none"]
  /\ inputs = [t \in Trades |-> NoInputs]
  /\ pc = [r \in Runs |-> "idle"]
  /\ todo = [r \in Runs |-> {}]
  /\ leg = [r \in Runs |-> NoTrade]
  /\ waRead = [r \in Runs |-> NoBlend]
  /\ qtyRead = [r \in Runs |-> 0]
  /\ net = [r \in Runs |-> 0]
  /\ faults = 0

\* A crash, a database error or a lost answer.
Fault == faults < MaxFaults /\ faults' = faults + 1

------------------------------------------------------------------------------
\* BookTrade and SellTrade.
Booked(t, phase) == booking' = [booking EXCEPT ![t] = phase]

PendingLegs(S) == {t \in S : security[t] = "inflight"}

\* ComputeTradable with SumFutureHolds; a negative result is cut off at 0,
\* which no quantity fits into either.
Tradable(settled) ==
  settled - Total(PendingLegs(Sells))
    + IF OnTheWay THEN Total(PendingLegs(Buys)) ELSE 0

BeginBuy(t) ==
  /\ t \in Buys
  /\ booking[t] = "new"
  /\ Booked(t, "money")
  /\ UNCHANGED <<seen, legVars, spot, future, priceVars, runVars, faults>>

\* GetTradablePosition reads the spot balance before the future holds.
BeginSell(t) ==
  /\ t \in Sells
  /\ booking[t] = "new"
  /\ seen' = [seen EXCEPT ![t] = spot]
  /\ Booked(t, "check")
  /\ UNCHANGED <<legVars, spot, future, priceVars, runVars, faults>>

CheckTradable(t) ==
  /\ booking[t] = "check"
  /\ Booked(t, IF Qty[t] > Tradable(seen[t]) THEN "done" ELSE "money")
  /\ UNCHANGED <<seen, legVars, spot, future, priceVars, runVars, faults>>

\* The leg is recorded, refused (no funds, a reference that exists), or recorded
\* although the caller is told of a failure.
RecordMoney(t) ==
  /\ booking[t] = "money"
  /\ \/ /\ money' = [money EXCEPT ![t] = "inflight"]
        /\ Booked(t, "security")
        /\ UNCHANGED faults
     \/ /\ Booked(t, "done")
        /\ UNCHANGED <<money, faults>>
     \/ /\ Fault
        /\ money' = [money EXCEPT ![t] = "inflight"]
        /\ Booked(t, "done")
  /\ UNCHANGED <<seen, security, spot, future, priceVars, runVars>>

RecordSecurity(t) ==
  /\ booking[t] = "security"
  /\ \/ /\ security' = [security EXCEPT ![t] = "inflight"]
        /\ Booked(t, "done")
        /\ UNCHANGED faults
     \/ /\ Booked(t, "compensate")
        /\ UNCHANGED <<security, faults>>
     \/ /\ Fault
        /\ security' = [security EXCEPT ![t] = "inflight"]
        /\ Booked(t, "compensate")
  /\ UNCHANGED <<seen, money, spot, future, priceVars, runVars>>

\* VoidInflightTransaction refuses a committed leg; its error is only logged.
Compensate(t) ==
  /\ booking[t] = "compensate"
  /\ \/ /\ money' = [money EXCEPT ![t] = IF @ = "inflight" THEN "void" ELSE @]
        /\ UNCHANGED faults
     \/ Fault /\ UNCHANGED money
  /\ Booked(t, "done")
  /\ UNCHANGED <<seen, security, spot, future, priceVars, runVars>>

CrashBooking(t) ==
  /\ booking[t] \notin {"new", "done"}
  /\ Fault
  /\ Booked(t, "done")
  /\ UNCHANGED <<seen, legVars, spot, future, priceVars, runVars>>

------------------------------------------------------------------------------
\* RunSettlement and SettleTrade.
Goto(r, phase) == pc' = [pc EXCEPT ![r] = phase]

End(r) ==
  /\ Goto(r, "idle")
  /\ todo' = [todo EXCEPT ![r] = {}]
  /\ leg' = [leg EXCEPT ![r] = NoTrade]
  /\ waRead' = [waRead EXCEPT ![r] = NoBlend]
  /\ qtyRead' = [qtyRead EXCEPT ![r] = 0]
  /\ net' = [net EXCEPT ![r] = 0]

\* computeWAAfter: RecalculateWAPrice refuses a negative quantity.
Blendable(quantity) == quantity >= 0

Blend(price, t) == [price EXCEPT ![t] = @ + 1]

\* Faulty: the lot is left to its own transaction.
CompleteWithoutLot(t, price) ==
  /\ wa' = price
  /\ journal' = [journal EXCEPT ![t] = IF @ = "none" THEN @ ELSE "applied"]
  /\ UNCHANGED lots

\* One SQL transaction.  Neither the status of the journal nor that of the legs
\* is looked at; the lot is unique on balance and reference.
CompleteSettlementJournal(t, price) ==
  /\ wa' = price
  /\ lots' = lots \cup {t}
  /\ journal' = [journal EXCEPT ![t] = IF @ = "none" THEN @ ELSE "applied"]

PendingJournals == {t \in Trades : journal[t] = "pending"}

\* Faulty: the page is one row short.
ListShort ==
  {t \in PendingJournals :
     Cardinality({u \in PendingJournals : inputs[u].at <= inputs[t].at}) < Limit}

\* ORDER BY created_at ASC LIMIT $1.
ListPendingSettlementJournals ==
  {t \in PendingJournals :
     Cardinality({u \in PendingJournals : inputs[u].at < inputs[t].at}) < Limit}

\* RunSettlement begins with ReconcileSettlement, which lists journals; a run
\* that cannot list them goes on without.
StartRun(r) ==
  /\ pc[r] = "idle"
  /\ \/ /\ todo' = [todo EXCEPT ![r] = ListPendingSettlementJournals]
        /\ UNCHANGED faults
     \/ /\ todo' = [todo EXCEPT ![r] = {}]
        /\ Fault
  /\ Goto(r, "reconcile")
  /\ UNCHANGED <<bookVars, legVars, spot, future, priceVars, leg, waRead, qtyRead,
                 net>>

\* SettleTrade goes straight to the bucket of the trade.
SettleTrade(r, t) ==
  /\ pc[r] = "idle"
  /\ security[t] # "none"
  /\ Goto(r, "spot")
  /\ UNCHANGED <<bookVars, legVars, spot, future, priceVars, todo, leg, waRead,
                 qtyRead, net, faults>>

\* The oldest is dealt with first; one that cannot be completed is skipped.
ReconcileSettlement(r, t) ==
  /\ pc[r] = "reconcile"
  /\ t \in todo[r]
  /\ \A u \in todo[r] : inputs[t].at <= inputs[u].at
  /\ \/ /\ Blendable(inputs[t].qty)
        /\ CompleteSettlementJournal(t, Blend(inputs[t].wa, t))
        /\ UNCHANGED faults
     \/ /\ ~Blendable(inputs[t].qty)
        /\ UNCHANGED <<wa, lots, journal, faults>>
     \/ /\ Fault
        /\ UNCHANGED <<wa, lots, journal>>
  /\ todo' = [todo EXCEPT ![r] = @ \ {t}]
  /\ UNCHANGED <<bookVars, legVars, spot, future, inputs, pc, leg, waRead, qtyRead,
                 net>>

\* GetMaturedPositions leaves out a bucket without quantity and holds.
GetMaturedPositions(r) ==
  /\ pc[r] = "reconcile"
  /\ todo[r] = {}
  /\ IF future # 0 \/ PendingLegs(Trades) # {}
     THEN Goto(r, "spot") /\ UNCHANGED <<todo, leg, waRead, qtyRead, net>>
     ELSE End(r)
  /\ UNCHANGED <<bookVars, legVars, spot, future, priceVars, faults>>

\* settleFutureBalance, from here to Roll.
ReadSpot(r) ==
  /\ pc[r] = "spot"
  /\ waRead' = [waRead EXCEPT ![r] = wa]
  /\ qtyRead' = [qtyRead EXCEPT ![r] = spot]
  /\ Goto(r, "legs")
  /\ UNCHANGED <<bookVars, legVars, spot, future, priceVars, todo, leg, net,
                 faults>>

ReadLegs(r) ==
  /\ pc[r] = "legs"
  /\ todo' = [todo EXCEPT ![r] = PendingLegs(Trades)]
  /\ Goto(r, "begin")
  /\ UNCHANGED <<bookVars, legVars, spot, future, priceVars, leg, waRead, qtyRead,
                 net, faults>>

\* The place of the next journal in the order of created_at.
Now == Cardinality({t \in Trades : journal[t] # "none"}) + 1

\* ON CONFLICT DO NOTHING: what an earlier attempt wrote stays.
BeginSettlementJournal(r, t) ==
  IF journal[t] = "none"
  THEN /\ journal' = [journal EXCEPT ![t] = "pending"]
       /\ inputs' = [inputs EXCEPT ![t] = [wa |-> waRead[r], qty |-> qtyRead[r], at |-> Now]]
  ELSE UNCHANGED <<journal, inputs>>

\* settleSecurityLeg: buys come first, and only they have a journal.
BeginLeg(r, t) ==
  /\ pc[r] = "begin"
  /\ t \in todo[r]
  /\ t \in Sells => todo[r] \cap Buys = {}
  /\ IF t \in Buys THEN BeginSettlementJournal(r, t)
     ELSE UNCHANGED <<journal, inputs>>
  /\ todo' = [todo EXCEPT ![r] = @ \ {t}]
  /\ leg' = [leg EXCEPT ![r] = t]
  /\ Goto(r, "money")
  /\ UNCHANGED <<bookVars, legVars, spot, future, wa, lots, waRead, qtyRead, net,
                 faults>>

\* CommitInflightTransaction refuses a leg that is committed or voided.
CommitMoney(r) ==
  LET t == leg[r] IN
  /\ pc[r] = "money"
  /\ IF money[t] = "inflight"
     THEN /\ money' = [money EXCEPT ![t] = "applied"]
          /\ Goto(r, "security")
          /\ UNCHANGED <<todo, leg, waRead, qtyRead, net>>
     ELSE End(r) /\ UNCHANGED money
  /\ UNCHANGED <<bookVars, security, spot, future, priceVars, faults>>

CommitSecurity(r) ==
  LET t == leg[r] IN
  /\ pc[r] = "security"
  /\ IF security[t] = "inflight"
     THEN /\ security' = [security EXCEPT ![t] = "applied"]
          /\ future' = IF t \in Buys THEN future + Qty[t] ELSE future - Qty[t]
          /\ Goto(r, IF t \in Buys THEN "complete" ELSE "begin")
          /\ UNCHANGED <<todo, leg, waRead, qtyRead, net>>
     ELSE End(r) /\ UNCHANGED <<security, future>>
  /\ UNCHANGED <<bookVars, money, spot, priceVars, faults>>

\* The price is blended from what the run read, with its earlier buys.
CompleteLeg(r) ==
  LET t == leg[r] IN
  /\ pc[r] = "complete"
  /\ IF Blendable(qtyRead[r])
     THEN /\ CompleteSettlementJournal(t, Blend(waRead[r], t))
          /\ waRead' = [waRead EXCEPT ![r] = Blend(@, t)]
          /\ qtyRead' = [qtyRead EXCEPT ![r] = @ + Qty[t]]
          /\ Goto(r, "begin")
          /\ UNCHANGED <<todo, leg, net>>
     ELSE End(r) /\ UNCHANGED <<wa, lots, journal>>
  /\ UNCHANGED <<bookVars, legVars, spot, future, inputs, faults>>

ReadNet(r) ==
  /\ pc[r] = "begin"
  /\ todo[r] = {}
  /\ IF future = 0
     THEN End(r)
     ELSE /\ net' = [net EXCEPT ![r] = future]
          /\ Goto(r, "roll")
          /\ UNCHANGED <<todo, leg, waRead, qtyRead>>
  /\ UNCHANGED <<bookVars, legVars, spot, future, priceVars, faults>>

\* Faulty: the future balance is set to zero.
RollToZero(r) ==
  /\ pc[r] = "roll"
  /\ spot' = spot + net[r]
  /\ future' = 0
  /\ End(r)
  /\ UNCHANGED <<bookVars, legVars, priceVars, faults>>

\* netRollToSpot: a transfer under a new reference, in the direction of the
\* sign, with overdraft allowed.
Roll(r) ==
  /\ pc[r] = "roll"
  /\ spot' = spot + net[r]
  /\ future' = future - net[r]
  /\ End(r)
  /\ UNCHANGED <<bookVars, legVars, priceVars, faults>>

\* The process dies, or the call it is at fails: the bucket is given up.
AbortRun(r) ==
  /\ pc[r] # "idle"
  /\ Fault
  /\ End(r)
  /\ UNCHANGED <<bookVars, legVars, spot, future, priceVars>>

BookingStep(t) ==
  \/ BeginBuy(t) \/ BeginSell(t) \/ CheckTradable(t) \/ RecordMoney(t)
  \/ RecordSecurity(t) \/ Compensate(t) \/ CrashBooking(t)

RunStep(r) ==
  \/ \E t \in Trades : ReconcileSettlement(r, t) \/ BeginLeg(r, t)
  \/ GetMaturedPositions(r) \/ ReadSpot(r) \/ ReadLegs(r)
  \/ CommitMoney(r) \/ CommitSecurity(r) \/ CompleteLeg(r)
  \/ ReadNet(r) \/ Roll(r)

Next ==
  \/ \E t \in Trades : BookingStep(t)
  \/ \E r \in Runs : \/ StartRun(r) \/ RunStep(r) \/ AbortRun(r)
                     \/ \E t \in Trades : SettleTrade(r, t)

Spec == Init /\ [][Next]_vars

\* Settlement is run again and again, and a run that does not die goes on.
Fairness ==
  \A r \in Runs :
    /\ WF_vars(StartRun(r) \/ RunStep(r))
    /\ SF_vars(StartRun(r))

FairSpec == Spec /\ Fairness

------------------------------------------------------------------------------
TypeOK ==
  /\ booking \in [Trades -> {"new", "check", "money", "security", "compensate", "done"}]
  /\ seen \in [Trades -> Int]
  /\ money \in [Trades -> LegStates]
  /\ security \in [Trades -> LegStates]
  /\ spot \in Int /\ future \in Int
  /\ wa \in [Trades -> Nat]
  /\ lots \subseteq Buys
  /\ journal \in [Trades -> {"none", "pending", "applied"}]
  /\ inputs \in [Trades -> [wa : [Trades -> Nat], qty : Int, at : Nat]]
  /\ pc \in [Runs -> {"idle", "reconcile", "spot", "legs", "begin", "money",
                      "security", "complete", "roll"}]
  /\ todo \in [Runs -> SUBSET Trades]
  /\ leg \in [Runs -> Trades \cup {NoTrade}]
  /\ waRead \in [Runs -> [Trades -> Nat]]
  /\ qtyRead \in [Runs -> Int]
  /\ net \in [Runs -> Int]
  /\ faults \in Nat

\* A leg is recorded once, by the caller that books the trade.
BookingOK ==
  \A t \in Trades :
    /\ booking[t] \in {"new", "check", "money"} => money[t] = "none"
    /\ booking[t] \in {"new", "check", "money", "security"} => security[t] = "none"

\* What a run knows of the legs and journals it is at.
RunOK(r) ==
  /\ pc[r] = "reconcile" => \A t \in todo[r] : journal[t] # "none"
  /\ pc[r] \in {"money", "security", "complete"} =>
       /\ leg[r] \in Trades
       /\ leg[r] \in Buys => journal[leg[r]] # "none"
  /\ pc[r] = "security" => money[leg[r]] = "applied"
  /\ pc[r] = "complete" => leg[r] \in Buys

\* Every price, also one that a run or a journal remembers, is made of lots.
PricesOK ==
  \A t \in Trades :
    /\ wa[t] > 0 => t \in lots
    /\ \A r \in Runs : waRead[r][t] > 0 => t \in lots
    /\ \A u \in Trades : inputs[u].wa[t] > 0 => t \in lots

JournalsOK ==
  \A t \in Trades :
    /\ journal[t] # "none" => t \in Buys
    /\ journal[t] = "applied" <=> t \in lots

\* No security is delivered, by whichever of the runs and calls that race for a
\* bucket and after whatever they left half done, unless its money leg is
\* committed (settleSecurityLeg returns when the money leg cannot be).
DeliveryVersusPayment ==
  \A t \in Trades : security[t] = "applied" => money[t] = "applied"

\* What the committed security legs add up to.
Delivered ==
  Total({t \in Buys : security[t] = "applied"})
    - Total({t \in Sells : security[t] = "applied"})

\* Whatever two settlement runs do to the same bucket, even when both roll the
\* same net quantity, spot and future together change by what is delivered and
\* by nothing else (netRollToSpot, settleSecurityLeg).
PositionConserved ==
  [][(spot + future)' - (spot + future) = Delivered' - Delivered]_vars

\* A crash at any point after a buy's first commit finds its journal written,
\* and a price that a buy went into never lacks its lot: there is no half of the
\* side effects to look for (settleSecurityLeg: "a pending journal row capturing
\* wa_before/qty_before is written before the commits").
JournalComesFirst ==
  \A t \in Buys :
    /\ money[t] = "applied" => journal[t] # "none"
    /\ wa[t] > 0 => t \in lots
    /\ journal[t] = "applied" <=> t \in lots

\* The inductive invariant.
Inv ==
  /\ TypeOK
  /\ BookingOK
  /\ \A r \in Runs : RunOK(r)
  /\ PricesOK
  /\ JournalsOK
  /\ DeliveryVersusPayment
  /\ JournalComesFirst

\* A buy is blended into the weighted-average price once, however often its
\* settlement is interrupted and recovered (ReconcileSettlement: "wa_after is
\* recomputed deterministically and applied idempotently").
BlendedOnce == \A t \in Buys : wa[t] <= 1

\* The journals in front of t that no average can be computed for, as the
\* position was short when they were written, fill the page of every run.
Starved(t) ==
  Cardinality({u \in PendingJournals : /\ inputs[u].at < inputs[t].at
                                       /\ inputs[u].qty < 0}) >= Limit

\* A buy that was delivered, from a position that was not short, gets its lot
\* even when the run that delivered it died, unless journals in front of its own
\* that cannot be completed fill the page of ReconcileSettlement for ever.
DeliveredBuysGetLots ==
  \A t \in Buys :
    (security[t] = "applied" /\ inputs[t].qty >= 0) ~> (t \in lots \/ []Starved(t))
==============================================================================
