--------------------------- MODULE SettlementProofs ---------------------------
(***************************************************************************)
(* The theorems of Settlement, for any trades, quantities and number of    *)
(* runs, and for any number of faults.                                     *)
(***************************************************************************)
EXTENDS Settlement, SumTheorems

\* The types of what runs keep, and that a step of one leaves the others alone.
RunTypes ==
  /\ pc \in [Runs -> {"idle", "reconcile", "spot", "legs", "begin", "money", "security", "complete", "roll"}]
  /\ todo \in [Runs -> SUBSET Trades]
  /\ leg \in [Runs -> Trades \cup {NoTrade}]
  /\ waRead \in [Runs -> [Trades -> Nat]]
  /\ qtyRead \in [Runs -> Int]
  /\ net \in [Runs -> Int]

OthersKept(r) ==
  \A q \in Runs \ {r} :
    /\ pc'[q] = pc[q] /\ todo'[q] = todo[q] /\ leg'[q] = leg[q]
    /\ waRead'[q] = waRead[q]

LEMMA InitInv == Init => Inv
<1> SUFFICES ASSUME Init PROVE Inv
  OBVIOUS
<1>1. TypeOK
  BY SettlementAssumption DEF Init, TypeOK, LegStates, NoBlend, NoInputs
<1>2. BookingOK /\ JournalsOK /\ DeliveryVersusPayment
  BY DEF Init, BookingOK, JournalsOK, DeliveryVersusPayment
<1>3. \A r \in Runs : RunOK(r)
  BY DEF Init, RunOK
<1>4. PricesOK
  BY DEF Init, PricesOK, NoBlend, NoInputs
<1>5. JournalComesFirst
  BY SettlementAssumption DEF Init, JournalComesFirst, NoBlend
<1> QED
  BY <1>1, <1>2, <1>3, <1>4, <1>5 DEF Inv

\* A run that ends forgets everything.
LEMMA EndFacts ==
  ASSUME TypeOK, NEW r \in Runs, End(r)
  PROVE  /\ RunTypes'
         /\ pc'[r] = "idle"
         /\ waRead'[r] = NoBlend
         /\ OthersKept(r)
<1>1. RunTypes'
  BY DEF End, Goto, RunTypes, TypeOK, NoBlend
<1>2. pc'[r] = "idle" /\ waRead'[r] = NoBlend
  BY DEF End, Goto, TypeOK
<1>3. OthersKept(r)
  BY DEF End, Goto, TypeOK, OthersKept
<1> QED
  BY <1>1, <1>2, <1>3

\* Blending keeps the type of a price.
LEMMA BlendType ==
  ASSUME NEW p \in [Trades -> Nat], NEW t \in Trades
  PROVE  Blend(p, t) \in [Trades -> Nat]
<1>1. p[t] + 1 \in Nat
  OBVIOUS
<1> QED
  BY <1>1 DEF Blend

\* The place of a journal is a number.
LEMMA NowType == Now \in Nat
<1>1. {t \in Trades : journal[t] # "none"} \subseteq Trades /\ IsFiniteSet(Trades)
  BY SettlementAssumption
<1>2. Cardinality({t \in Trades : journal[t] # "none"}) \in Nat
  BY <1>1, FS_Subset, FS_CardinalityType
<1> QED
  BY <1>2 DEF Now

LEMMA StutterInv == Inv /\ UNCHANGED vars => Inv'
  BY DEF Inv, TypeOK, BookingOK, RunOK, PricesOK, JournalsOK, DeliveryVersusPayment,
         JournalComesFirst, vars, bookVars, legVars, priceVars, runVars

------------------------------------------------------------------------------
\* A buy is begun.
LEMMA BeginBuyInv == ASSUME Inv, NEW t \in Trades, BeginBuy(t) PROVE Inv'
<1> USE SettlementAssumption DEF Inv
<1>1. TypeOK'
  BY DEF BeginBuy, Booked, bookVars, legVars, priceVars, runVars, TypeOK
<1>2. BookingOK'
  BY DEF BeginBuy, Booked, bookVars, legVars, BookingOK
<1>3. ASSUME NEW q \in Runs PROVE RunOK(q)'
  BY DEF BeginBuy, legVars, priceVars, runVars, RunOK
<1>4. PricesOK'
  BY DEF BeginBuy, priceVars, runVars, PricesOK
<1>5. JournalsOK'
  BY DEF BeginBuy, priceVars, JournalsOK
<1>6. DeliveryVersusPayment'
  BY DEF BeginBuy, legVars, DeliveryVersusPayment
<1>7. JournalComesFirst'
  BY DEF BeginBuy, legVars, priceVars, JournalComesFirst
<1> QED
  BY <1>1, <1>2, <1>3, <1>4, <1>5, <1>6, <1>7 DEF Inv

\* A seller reads its settled quantity.
LEMMA BeginSellInv == ASSUME Inv, NEW t \in Trades, BeginSell(t) PROVE Inv'
<1> USE SettlementAssumption DEF Inv
<1>1. TypeOK'
  BY DEF BeginSell, Booked, bookVars, legVars, priceVars, runVars, TypeOK
<1>2. BookingOK'
  BY DEF BeginSell, Booked, bookVars, legVars, BookingOK
<1>3. ASSUME NEW q \in Runs PROVE RunOK(q)'
  BY DEF BeginSell, legVars, priceVars, runVars, RunOK
<1>4. PricesOK'
  BY DEF BeginSell, priceVars, runVars, PricesOK
<1>5. JournalsOK'
  BY DEF BeginSell, priceVars, JournalsOK
<1>6. DeliveryVersusPayment'
  BY DEF BeginSell, legVars, DeliveryVersusPayment
<1>7. JournalComesFirst'
  BY DEF BeginSell, legVars, priceVars, JournalComesFirst
<1> QED
  BY <1>1, <1>2, <1>3, <1>4, <1>5, <1>6, <1>7 DEF Inv

\* A seller passes or fails the check.
LEMMA CheckTradableInv == ASSUME Inv, NEW t \in Trades, CheckTradable(t) PROVE Inv'
<1> USE SettlementAssumption DEF Inv
<1>1. TypeOK'
  BY DEF CheckTradable, Booked, bookVars, legVars, priceVars, runVars, TypeOK
<1>2. BookingOK'
  BY DEF CheckTradable, Booked, bookVars, legVars, BookingOK
<1>3. ASSUME NEW q \in Runs PROVE RunOK(q)'
  BY DEF CheckTradable, legVars, priceVars, runVars, RunOK
<1>4. PricesOK'
  BY DEF CheckTradable, priceVars, runVars, PricesOK
<1>5. JournalsOK'
  BY DEF CheckTradable, priceVars, JournalsOK
<1>6. DeliveryVersusPayment'
  BY DEF CheckTradable, legVars, DeliveryVersusPayment
<1>7. JournalComesFirst'
  BY DEF CheckTradable, legVars, priceVars, JournalComesFirst
<1> QED
  BY <1>1, <1>2, <1>3, <1>4, <1>5, <1>6, <1>7 DEF Inv

\* The money leg is recorded, or not.
LEMMA RecordMoneyInv == ASSUME Inv, NEW t \in Trades, RecordMoney(t) PROVE Inv'
<1> USE SettlementAssumption DEF Inv
<1>1. TypeOK'
  <2>1. booking' \in [Trades -> {"new", "check", "money", "security", "compensate", "done"}]
    <3>1. \/ booking' = [booking EXCEPT ![t] = "security"]
          \/ booking' = [booking EXCEPT ![t] = "done"]
      BY DEF RecordMoney, Booked
    <3> QED
      BY <3>1 DEF TypeOK
  <2>2. faults' \in Nat
    BY DEF TypeOK, RecordMoney, Fault
  <2>3. money' \in [Trades -> LegStates]
    BY DEF TypeOK, RecordMoney, LegStates
  <2> QED
    BY <2>1, <2>2, <2>3 DEF RecordMoney, TypeOK, bookVars, legVars, priceVars, runVars
<1>2. BookingOK'
  BY DEF RecordMoney, Booked, Fault, LegStates, bookVars, legVars, TypeOK, BookingOK
<1>3. ASSUME NEW q \in Runs PROVE RunOK(q)'
  <2>1. \A u \in Trades : money[u] = "applied" => money'[u] = "applied"
    BY DEF RecordMoney, BookingOK, TypeOK
  <2> QED
    BY <2>1 DEF RecordMoney, priceVars, runVars, TypeOK, RunOK
<1>4. PricesOK'
  BY DEF RecordMoney, priceVars, runVars, PricesOK
<1>5. JournalsOK'
  BY DEF RecordMoney, priceVars, JournalsOK
<1>6. DeliveryVersusPayment'
  BY DEF RecordMoney, Booked, Fault, LegStates, legVars, TypeOK, BookingOK,
     DeliveryVersusPayment
<1>7. JournalComesFirst'
  BY DEF RecordMoney, legVars, priceVars, TypeOK, JournalComesFirst
<1> QED
  BY <1>1, <1>2, <1>3, <1>4, <1>5, <1>6, <1>7 DEF Inv

\* The security leg is recorded, or not, or unknown to the caller.
LEMMA RecordSecurityInv == ASSUME Inv, NEW t \in Trades, RecordSecurity(t) PROVE Inv'
<1> USE SettlementAssumption DEF Inv
<1>1. TypeOK'
  <2>1. booking' \in [Trades -> {"new", "check", "money", "security", "compensate", "done"}]
    <3>1. \/ booking' = [booking EXCEPT ![t] = "compensate"]
          \/ booking' = [booking EXCEPT ![t] = "done"]
      BY DEF RecordSecurity, Booked
    <3> QED
      BY <3>1 DEF TypeOK
  <2>2. faults' \in Nat
    BY DEF TypeOK, RecordSecurity, Fault
  <2>3. security' \in [Trades -> LegStates]
    BY DEF TypeOK, RecordSecurity, LegStates
  <2> QED
    BY <2>1, <2>2, <2>3 DEF RecordSecurity, TypeOK, bookVars, legVars, priceVars, runVars
<1>2. BookingOK'
  <2>1. booking'[t] \in {"done", "compensate"} /\ UNCHANGED money
    BY DEF RecordSecurity, Booked, TypeOK
  <2>2. \A u \in Trades \ {t} : booking'[u] = booking[u] /\ security'[u] = security[u]
    BY DEF RecordSecurity, Booked, TypeOK
  <2> QED
    BY <2>1, <2>2 DEF BookingOK
<1>3. ASSUME NEW q \in Runs PROVE RunOK(q)'
  BY DEF RecordSecurity, legVars, priceVars, runVars, RunOK
<1>4. PricesOK'
  BY DEF RecordSecurity, priceVars, runVars, PricesOK
<1>5. JournalsOK'
  BY DEF RecordSecurity, priceVars, JournalsOK
<1>6. DeliveryVersusPayment'
  BY DEF RecordSecurity, legVars, TypeOK, DeliveryVersusPayment
<1>7. JournalComesFirst'
  BY DEF RecordSecurity, legVars, priceVars, JournalComesFirst
<1> QED
  BY <1>1, <1>2, <1>3, <1>4, <1>5, <1>6, <1>7 DEF Inv

\* A money leg is voided only while it is inflight.
LEMMA CompensateInv == ASSUME Inv, NEW t \in Trades, Compensate(t) PROVE Inv'
<1> USE SettlementAssumption DEF Inv
<1>1. TypeOK'
  <2>1. booking' \in [Trades -> {"new", "check", "money", "security", "compensate", "done"}]
    BY DEF TypeOK, Compensate, Booked
  <2>2. faults' \in Nat
    BY DEF TypeOK, Compensate, Fault
  <2>3. money' \in [Trades -> LegStates]
    <3>1. \/ money' = [money EXCEPT ![t] = "void"]
          \/ money' = [money EXCEPT ![t] = money[t]]
          \/ money' = money
      BY DEF Compensate
    <3>2. money \in [Trades -> LegStates] /\ "void" \in LegStates
      BY DEF TypeOK, LegStates
    <3> QED
      BY <3>1, <3>2
  <2> QED
    BY <2>1, <2>2, <2>3 DEF Compensate, TypeOK, bookVars, legVars, priceVars, runVars
<1>2. BookingOK'
  BY DEF Compensate, Booked, Fault, LegStates, bookVars, legVars, TypeOK, BookingOK
<1>3. ASSUME NEW q \in Runs PROVE RunOK(q)'
  BY DEF Compensate, legVars, priceVars, runVars, TypeOK, RunOK
<1>4. PricesOK'
  BY DEF Compensate, priceVars, runVars, PricesOK
<1>5. JournalsOK'
  BY DEF Compensate, priceVars, JournalsOK
<1>6. DeliveryVersusPayment'
  BY DEF Compensate, legVars, TypeOK, DeliveryVersusPayment
<1>7. JournalComesFirst'
  BY DEF Compensate, legVars, priceVars, TypeOK, JournalComesFirst
<1> QED
  BY <1>1, <1>2, <1>3, <1>4, <1>5, <1>6, <1>7 DEF Inv

\* A caller dies.
LEMMA CrashBookingInv == ASSUME Inv, NEW t \in Trades, CrashBooking(t) PROVE Inv'
<1> USE SettlementAssumption DEF Inv
<1>1. TypeOK'
  BY DEF CrashBooking, Booked, Fault, bookVars, legVars, priceVars, runVars, TypeOK
<1>2. BookingOK'
  BY DEF CrashBooking, Booked, Fault, bookVars, legVars, BookingOK
<1>3. ASSUME NEW q \in Runs PROVE RunOK(q)'
  BY DEF CrashBooking, legVars, priceVars, runVars, RunOK
<1>4. PricesOK'
  BY DEF CrashBooking, priceVars, runVars, PricesOK
<1>5. JournalsOK'
  BY DEF CrashBooking, priceVars, JournalsOK
<1>6. DeliveryVersusPayment'
  BY DEF CrashBooking, legVars, DeliveryVersusPayment
<1>7. JournalComesFirst'
  BY DEF CrashBooking, legVars, priceVars, JournalComesFirst
<1> QED
  BY <1>1, <1>2, <1>3, <1>4, <1>5, <1>6, <1>7 DEF Inv

\* A run lists the pending journals.
LEMMA StartRunInv == ASSUME Inv, NEW r \in Runs, StartRun(r) PROVE Inv'
<1> USE SettlementAssumption DEF Inv
<1>0. PICK S \in SUBSET PendingJournals : todo' = [todo EXCEPT ![r] = S]
  BY DEF StartRun, ListPendingSettlementJournals
<1>1. TypeOK'
  <2>1. todo' \in [Runs -> SUBSET Trades]
    BY <1>0 DEF TypeOK, PendingJournals
  <2>2. faults' \in Nat
    BY DEF StartRun, Fault, TypeOK
  <2> QED
    BY <2>1, <2>2 DEF StartRun, Goto, bookVars, legVars, priceVars, TypeOK
<1>2. BookingOK'
  BY DEF StartRun, bookVars, legVars, BookingOK
<1>3. ASSUME NEW q \in Runs PROVE RunOK(q)'
  BY <1>0 DEF StartRun, PendingJournals, Goto, legVars, priceVars, TypeOK, RunOK
<1>4. PricesOK'
  BY DEF StartRun, priceVars, runVars, PricesOK
<1>5. JournalsOK'
  BY DEF StartRun, priceVars, JournalsOK
<1>6. DeliveryVersusPayment'
  BY DEF StartRun, legVars, DeliveryVersusPayment
<1>7. JournalComesFirst'
  BY DEF StartRun, legVars, priceVars, JournalComesFirst
<1> QED
  BY <1>1, <1>2, <1>3, <1>4, <1>5, <1>6, <1>7 DEF Inv

\* A bucket is settled on request.
LEMMA SettleTradeInv ==
  ASSUME Inv, NEW r \in Runs, NEW t \in Trades, SettleTrade(r, t)
  PROVE  Inv'
<1> USE SettlementAssumption DEF Inv
<1>1. TypeOK'
  BY DEF SettleTrade, Goto, bookVars, legVars, priceVars, runVars, TypeOK
<1>2. BookingOK'
  BY DEF SettleTrade, bookVars, legVars, BookingOK
<1>3. ASSUME NEW q \in Runs PROVE RunOK(q)'
  BY DEF SettleTrade, Goto, legVars, priceVars, runVars, RunOK
<1>4. PricesOK'
  BY DEF SettleTrade, priceVars, runVars, PricesOK
<1>5. JournalsOK'
  BY DEF SettleTrade, priceVars, JournalsOK
<1>6. DeliveryVersusPayment'
  BY DEF SettleTrade, legVars, DeliveryVersusPayment
<1>7. JournalComesFirst'
  BY DEF SettleTrade, legVars, priceVars, JournalComesFirst
<1> QED
  BY <1>1, <1>2, <1>3, <1>4, <1>5, <1>6, <1>7 DEF Inv

\* A journal is completed from its own inputs.
LEMMA ReconcileSettlementInv ==
  ASSUME Inv, NEW r \in Runs, NEW t \in Trades, ReconcileSettlement(r, t)
  PROVE  Inv'
<1> USE SettlementAssumption DEF Inv
<1>1. TypeOK'
  <2>1. wa' \in [Trades -> Nat]
    <3>1. inputs[t].wa \in [Trades -> Nat]
      BY DEF TypeOK
    <3>2. wa' = Blend(inputs[t].wa, t) \/ wa' = wa
      BY DEF ReconcileSettlement, CompleteSettlementJournal
    <3>3. Blend(inputs[t].wa, t) \in [Trades -> Nat]
      BY <3>1, BlendType
    <3>4. wa \in [Trades -> Nat]
      BY DEF TypeOK
    <3> QED
      BY <3>2, <3>3, <3>4
  <2>2. lots' \subseteq Buys
    BY DEF TypeOK, RunOK, JournalsOK, ReconcileSettlement, CompleteSettlementJournal
  <2>3. journal' \in [Trades -> {"none", "pending", "applied"}]
    BY DEF TypeOK, ReconcileSettlement, CompleteSettlementJournal
  <2>4. todo' \in [Runs -> SUBSET Trades]
    BY DEF TypeOK, ReconcileSettlement
  <2>5. faults' \in Nat
    BY DEF TypeOK, ReconcileSettlement, Fault
  <2> QED
    BY <2>1, <2>2, <2>3, <2>4, <2>5 DEF ReconcileSettlement, TypeOK, bookVars, legVars,
       priceVars, runVars
<1>2. BookingOK'
  BY DEF ReconcileSettlement, bookVars, legVars, BookingOK
<1>3. ASSUME NEW q \in Runs PROVE RunOK(q)'
  BY DEF ReconcileSettlement, Fault, CompleteSettlementJournal, Blend, legVars,
     priceVars, runVars, TypeOK, RunOK
<1>4. PricesOK'
  BY DEF ReconcileSettlement, Fault, CompleteSettlementJournal, Blend, priceVars,
     runVars, TypeOK, PricesOK
<1>5. JournalsOK'
  BY DEF ReconcileSettlement, Fault, CompleteSettlementJournal, Blend, priceVars,
     TypeOK, RunOK, JournalsOK
<1>6. DeliveryVersusPayment'
  BY DEF ReconcileSettlement, legVars, DeliveryVersusPayment
<1>7. JournalComesFirst'
  <2>1. \A u \in Buys : journal[u] # "none" => journal'[u] # "none"
    BY DEF ReconcileSettlement, CompleteSettlementJournal, TypeOK
  <2>2. UNCHANGED money
    BY DEF ReconcileSettlement, legVars
  <2>3. \A u \in Buys : money'[u] = "applied" => journal'[u] # "none"
    BY <2>1, <2>2 DEF JournalComesFirst
  <2> QED
    BY <1>4, <1>5, <2>3 DEF PricesOK, JournalsOK, JournalComesFirst
<1> QED
  BY <1>1, <1>2, <1>3, <1>4, <1>5, <1>6, <1>7 DEF Inv

\* A run finds the bucket due, or ends.
LEMMA GetMaturedPositionsInv ==
  ASSUME Inv, NEW r \in Runs, GetMaturedPositions(r)
  PROVE  Inv'
<1> USE SettlementAssumption DEF Inv
<1>1. TypeOK'
  <2>1. RunTypes'
    <3>1. CASE ~(future # 0 \/ PendingLegs(Trades) # {})
      <4>1. End(r)
        BY <3>1 DEF GetMaturedPositions
      <4> QED
        BY <4>1, EndFacts DEF Inv
    <3>2. CASE future # 0 \/ PendingLegs(Trades) # {}
      BY <3>2 DEF GetMaturedPositions, Goto, TypeOK, RunTypes
    <3> QED
      BY <3>1, <3>2
  <2> QED
    BY <2>1 DEF GetMaturedPositions, TypeOK, RunTypes, bookVars, legVars, priceVars,
       runVars
<1>2. BookingOK'
  BY DEF GetMaturedPositions, bookVars, legVars, BookingOK
<1>3. ASSUME NEW q \in Runs PROVE RunOK(q)'
  <2>1. CASE ~(future # 0 \/ PendingLegs(Trades) # {})
    <3>1. End(r) /\ UNCHANGED <<money, journal>>
      BY <2>1 DEF GetMaturedPositions, legVars, priceVars
    <3> QED
      BY <3>1, EndFacts DEF OthersKept, RunOK
  <2>2. CASE future # 0 \/ PendingLegs(Trades) # {}
    BY <2>2 DEF GetMaturedPositions, Goto, legVars, priceVars, TypeOK, RunOK
  <2> QED
    BY <2>1, <2>2
<1>4. PricesOK'
  <2>1. CASE ~(future # 0 \/ PendingLegs(Trades) # {})
    <3>1. End(r) /\ UNCHANGED <<wa, lots, inputs>>
      BY <2>1 DEF GetMaturedPositions, priceVars
    <3>2. \A v \in Trades : ~(NoBlend[v] > 0)
      BY DEF NoBlend
    <3> QED
      BY <3>1, <3>2, EndFacts DEF OthersKept, PricesOK
  <2>2. CASE future # 0 \/ PendingLegs(Trades) # {}
    <3>1. UNCHANGED <<waRead, wa, lots, inputs>>
      BY <2>2 DEF GetMaturedPositions, priceVars
    <3> QED
      BY <3>1 DEF PricesOK
  <2> QED
    BY <2>1, <2>2
<1>5. JournalsOK'
  BY DEF GetMaturedPositions, priceVars, JournalsOK
<1>6. DeliveryVersusPayment'
  BY DEF GetMaturedPositions, legVars, DeliveryVersusPayment
<1>7. JournalComesFirst'
  BY DEF GetMaturedPositions, legVars, priceVars, JournalComesFirst
<1> QED
  BY <1>1, <1>2, <1>3, <1>4, <1>5, <1>6, <1>7 DEF Inv

\* A run copies price and quantity.
LEMMA ReadSpotInv == ASSUME Inv, NEW r \in Runs, ReadSpot(r) PROVE Inv'
<1> USE SettlementAssumption DEF Inv
<1>1. TypeOK'
  BY DEF ReadSpot, Goto, bookVars, legVars, priceVars, runVars, TypeOK
<1>2. BookingOK'
  BY DEF ReadSpot, bookVars, legVars, BookingOK
<1>3. ASSUME NEW q \in Runs PROVE RunOK(q)'
  BY DEF ReadSpot, Goto, legVars, priceVars, runVars, RunOK
<1>4. PricesOK'
  BY DEF ReadSpot, priceVars, runVars, PricesOK
<1>5. JournalsOK'
  BY DEF ReadSpot, priceVars, JournalsOK
<1>6. DeliveryVersusPayment'
  BY DEF ReadSpot, legVars, DeliveryVersusPayment
<1>7. JournalComesFirst'
  BY DEF ReadSpot, legVars, priceVars, JournalComesFirst
<1> QED
  BY <1>1, <1>2, <1>3, <1>4, <1>5, <1>6, <1>7 DEF Inv

\* A run lists the pending legs.
LEMMA ReadLegsInv == ASSUME Inv, NEW r \in Runs, ReadLegs(r) PROVE Inv'
<1> USE SettlementAssumption DEF Inv
<1>1. TypeOK'
  BY DEF ReadLegs, Goto, PendingLegs, bookVars, legVars, priceVars, runVars, TypeOK
<1>2. BookingOK'
  BY DEF ReadLegs, bookVars, legVars, BookingOK
<1>3. ASSUME NEW q \in Runs PROVE RunOK(q)'
  BY DEF ReadLegs, Goto, PendingLegs, legVars, priceVars, runVars, RunOK
<1>4. PricesOK'
  BY DEF ReadLegs, priceVars, runVars, PricesOK
<1>5. JournalsOK'
  BY DEF ReadLegs, priceVars, JournalsOK
<1>6. DeliveryVersusPayment'
  BY DEF ReadLegs, legVars, DeliveryVersusPayment
<1>7. JournalComesFirst'
  BY DEF ReadLegs, legVars, priceVars, JournalComesFirst
<1> QED
  BY <1>1, <1>2, <1>3, <1>4, <1>5, <1>6, <1>7 DEF Inv

\* A buy's journal is written before anything is committed.
LEMMA BeginLegInv ==
  ASSUME Inv, NEW r \in Runs, NEW t \in Trades, BeginLeg(r, t)
  PROVE  Inv'
<1> USE SettlementAssumption DEF Inv
<1>1. TypeOK'
  <2>1. journal' \in [Trades -> {"none", "pending", "applied"}]
    <3>1. journal' = [journal EXCEPT ![t] = "pending"] \/ journal' = journal
      BY DEF BeginLeg, BeginSettlementJournal
    <3> QED
      BY <3>1 DEF TypeOK
  <2>2. inputs' \in [Trades -> [wa : [Trades -> Nat], qty : Int, at : Nat]]
    <3>1. PICK p \in [Trades -> Nat], k \in Int : p = waRead[r] /\ k = qtyRead[r]
      BY DEF TypeOK
    <3>2. [wa |-> p, qty |-> k, at |-> Now] \in [wa : [Trades -> Nat], qty : Int, at : Nat]
      BY NowType
    <3>3. \/ inputs' = [inputs EXCEPT ![t] = [wa |-> p, qty |-> k, at |-> Now]]
          \/ inputs' = inputs
      BY <3>1 DEF BeginLeg, BeginSettlementJournal
    <3> QED
      BY ZenonT(60), <3>2, <3>3 DEF TypeOK
  <2>3. RunTypes'
    BY DEF TypeOK, RunTypes, BeginLeg, Goto
  <2> QED
    BY <2>1, <2>2, <2>3 DEF BeginLeg, TypeOK, RunTypes, bookVars, legVars, priceVars,
       runVars
<1>2. BookingOK'
  BY DEF BeginLeg, bookVars, legVars, BookingOK
<1>3. ASSUME NEW q \in Runs PROVE RunOK(q)'
  BY DEF BeginLeg, Goto, BeginSettlementJournal, legVars, priceVars, runVars, TypeOK,
     RunOK
<1>4. PricesOK'
  <2>1. UNCHANGED <<wa, lots, waRead>>
    BY DEF BeginLeg
  <2>2. \A u \in Trades : inputs'[u].wa = inputs[u].wa \/ inputs'[u].wa = waRead[r]
    <3>1. \/ inputs' = [inputs EXCEPT ![t] = [wa |-> waRead[r], qty |-> qtyRead[r], at |-> Now]]
          \/ inputs' = inputs
      BY DEF BeginLeg, BeginSettlementJournal
    <3>2. DOMAIN inputs = Trades
      BY DEF TypeOK
    <3> QED
      BY <3>1, <3>2
  <2> QED
    BY <2>1, <2>2 DEF PricesOK
<1>5. JournalsOK'
  BY DEF BeginLeg, Goto, BeginSettlementJournal, priceVars, TypeOK, JournalsOK
<1>6. DeliveryVersusPayment'
  BY DEF BeginLeg, legVars, DeliveryVersusPayment
<1>7. JournalComesFirst'
  BY DEF BeginLeg, Goto, BeginSettlementJournal, legVars, priceVars, TypeOK,
     JournalComesFirst
<1> QED
  BY <1>1, <1>2, <1>3, <1>4, <1>5, <1>6, <1>7 DEF Inv

\* The money leg is committed under the journal.
LEMMA CommitMoneyInv == ASSUME Inv, NEW r \in Runs, CommitMoney(r) PROVE Inv'
<1> USE SettlementAssumption DEF Inv
<1>1. TypeOK'
  <2>1. RunTypes'
    <3>1. CASE ~(money[leg[r]] = "inflight")
      <4>1. End(r)
        BY <3>1 DEF CommitMoney
      <4> QED
        BY <4>1, EndFacts DEF Inv
    <3>2. CASE money[leg[r]] = "inflight"
      BY <3>2 DEF CommitMoney, Goto, TypeOK, RunTypes
    <3> QED
      BY <3>1, <3>2
  <2>2. money' \in [Trades -> LegStates]
    BY DEF TypeOK, CommitMoney, LegStates
  <2> QED
    BY <2>1, <2>2 DEF CommitMoney, TypeOK, RunTypes, bookVars, legVars, priceVars, runVars
<1>2. BookingOK'
  BY DEF CommitMoney, bookVars, legVars, TypeOK, BookingOK
<1>3. ASSUME NEW q \in Runs PROVE RunOK(q)'
  BY DEF CommitMoney, Goto, End, NoBlend, LegStates, legVars, priceVars, runVars,
     TypeOK, RunOK
<1>4. PricesOK'
  <2>1. CASE ~(money[leg[r]] = "inflight")
    <3>1. End(r) /\ UNCHANGED <<wa, lots, inputs>>
      BY <2>1 DEF CommitMoney, priceVars
    <3>2. \A v \in Trades : ~(NoBlend[v] > 0)
      BY DEF NoBlend
    <3> QED
      BY <3>1, <3>2, EndFacts DEF OthersKept, PricesOK
  <2>2. CASE money[leg[r]] = "inflight"
    <3>1. UNCHANGED <<waRead, wa, lots, inputs>>
      BY <2>2 DEF CommitMoney, priceVars
    <3> QED
      BY <3>1 DEF PricesOK
  <2> QED
    BY <2>1, <2>2
<1>5. JournalsOK'
  BY DEF CommitMoney, priceVars, JournalsOK
<1>6. DeliveryVersusPayment'
  BY DEF CommitMoney, legVars, TypeOK, DeliveryVersusPayment
<1>7. JournalComesFirst'
  BY DEF CommitMoney, Goto, End, NoBlend, LegStates, legVars, priceVars, TypeOK, RunOK,
     JournalComesFirst
<1> QED
  BY <1>1, <1>2, <1>3, <1>4, <1>5, <1>6, <1>7 DEF Inv

\* The security leg is committed after the money leg.
LEMMA CommitSecurityInv == ASSUME Inv, NEW r \in Runs, CommitSecurity(r) PROVE Inv'
<1> USE SettlementAssumption DEF Inv
<1>1. TypeOK'
  <2>1. RunTypes'
    <3>1. CASE ~(security[leg[r]] = "inflight")
      <4>1. End(r)
        BY <3>1 DEF CommitSecurity
      <4> QED
        BY <4>1, EndFacts DEF Inv
    <3>2. CASE security[leg[r]] = "inflight"
      BY <3>2 DEF CommitSecurity, Goto, TypeOK, RunTypes
    <3> QED
      BY <3>1, <3>2
  <2>2. security' \in [Trades -> LegStates]
    BY DEF TypeOK, CommitSecurity, LegStates
  <2>3. future' \in Int
    BY DEF TypeOK, CommitSecurity, RunOK
  <2> QED
    BY <2>1, <2>2, <2>3 DEF CommitSecurity, TypeOK, RunTypes, bookVars, legVars,
       priceVars, runVars
<1>2. BookingOK'
  BY DEF CommitSecurity, bookVars, legVars, TypeOK, BookingOK
<1>3. ASSUME NEW q \in Runs PROVE RunOK(q)'
  BY DEF CommitSecurity, Goto, End, NoBlend, LegStates, legVars, priceVars, runVars,
     TypeOK, RunOK
<1>4. PricesOK'
  <2>1. CASE ~(security[leg[r]] = "inflight")
    <3>1. End(r) /\ UNCHANGED <<wa, lots, inputs>>
      BY <2>1 DEF CommitSecurity, priceVars
    <3>2. \A v \in Trades : ~(NoBlend[v] > 0)
      BY DEF NoBlend
    <3> QED
      BY <3>1, <3>2, EndFacts DEF OthersKept, PricesOK
  <2>2. CASE security[leg[r]] = "inflight"
    <3>1. UNCHANGED <<waRead, wa, lots, inputs>>
      BY <2>2 DEF CommitSecurity, priceVars
    <3> QED
      BY <3>1 DEF PricesOK
  <2> QED
    BY <2>1, <2>2
<1>5. JournalsOK'
  BY DEF CommitSecurity, priceVars, JournalsOK
<1>6. DeliveryVersusPayment'
  BY DEF CommitSecurity, Goto, End, NoBlend, LegStates, legVars, TypeOK, RunOK,
     DeliveryVersusPayment
<1>7. JournalComesFirst'
  BY DEF CommitSecurity, legVars, priceVars, JournalComesFirst
<1> QED
  BY <1>1, <1>2, <1>3, <1>4, <1>5, <1>6, <1>7 DEF Inv

\* Price, lot and journal are written together.
LEMMA CompleteLegInv == ASSUME Inv, NEW r \in Runs, CompleteLeg(r) PROVE Inv'
<1> USE SettlementAssumption DEF Inv
<1>1. TypeOK'
  <2>1. RunTypes'
    <3>1. CASE ~(Blendable(qtyRead[r]))
      <4>1. End(r)
        BY <3>1 DEF CompleteLeg
      <4> QED
        BY <4>1, EndFacts DEF Inv
    <3>2. CASE Blendable(qtyRead[r])
      <4>1. PICK u \in Trades : u = leg[r]
        BY DEF CompleteLeg, RunOK
      <4>2. Blend(waRead[r], u) \in [Trades -> Nat] /\ qtyRead[r] + Qty[u] \in Int
        <5>1. waRead[r] \in [Trades -> Nat] /\ qtyRead[r] \in Int /\ Qty[u] \in Nat
          BY DEF TypeOK
        <5>2. Blend(waRead[r], u) \in [Trades -> Nat]
          BY <5>1, BlendType
        <5> QED
          BY <5>1, <5>2
      <4>3. /\ pc' = [pc EXCEPT ![r] = "begin"]
            /\ waRead' = [waRead EXCEPT ![r] = Blend(waRead[r], u)]
            /\ qtyRead' = [qtyRead EXCEPT ![r] = qtyRead[r] + Qty[u]]
            /\ UNCHANGED <<todo, leg, net>>
        BY <3>2, <4>1 DEF CompleteLeg, Goto
      <4>4. waRead' \in [Runs -> [Trades -> Nat]]
        BY <4>2, <4>3 DEF TypeOK
      <4>5. qtyRead' \in [Runs -> Int]
        BY <4>2, <4>3 DEF TypeOK
      <4>6. pc' \in [Runs -> {"idle", "reconcile", "spot", "legs", "begin", "money", "security", "complete", "roll"}]
        BY <4>3 DEF TypeOK
      <4> QED
        BY <4>3, <4>4, <4>5, <4>6 DEF TypeOK, RunTypes
    <3> QED
      BY <3>1, <3>2
  <2>2. wa' \in [Trades -> Nat]
    <3>1. PICK u \in Trades : u = leg[r]
      BY DEF CompleteLeg, RunOK
    <3>2. wa' = Blend(waRead[r], u) \/ wa' = wa
      BY <3>1 DEF CompleteLeg, CompleteSettlementJournal
    <3>3. waRead[r] \in [Trades -> Nat]
      BY DEF TypeOK
    <3>4. Blend(waRead[r], u) \in [Trades -> Nat]
      BY <3>3, BlendType
    <3>5. wa \in [Trades -> Nat]
      BY DEF TypeOK
    <3> QED
      BY <3>2, <3>4, <3>5
  <2>3. lots' \subseteq Buys
    BY DEF TypeOK, CompleteLeg, CompleteSettlementJournal, RunOK
  <2>4. journal' \in [Trades -> {"none", "pending", "applied"}]
    BY ZenonT(60) DEF TypeOK, CompleteLeg, CompleteSettlementJournal
  <2> QED
    BY <2>1, <2>2, <2>3, <2>4 DEF CompleteLeg, TypeOK, RunTypes, bookVars, legVars,
       priceVars, runVars
<1>2. BookingOK'
  BY DEF CompleteLeg, bookVars, legVars, BookingOK
<1>3. ASSUME NEW q \in Runs PROVE RunOK(q)'
  <2>1. CASE ~(Blendable(qtyRead[r]))
    <3>1. End(r) /\ UNCHANGED <<money, journal>>
      BY <2>1 DEF CompleteLeg, legVars, priceVars
    <3> QED
      BY <3>1, EndFacts DEF OthersKept, RunOK
  <2>2. CASE Blendable(qtyRead[r])
    BY <2>2 DEF CompleteLeg, Goto, legVars, priceVars, TypeOK, RunOK,
       CompleteSettlementJournal
  <2> QED
    BY <2>1, <2>2
<1>4. PricesOK'
  <2>1. CASE ~(Blendable(qtyRead[r]))
    <3>1. End(r) /\ UNCHANGED <<wa, lots, inputs>>
      BY <2>1 DEF CompleteLeg, priceVars
    <3>2. \A v \in Trades : ~(NoBlend[v] > 0)
      BY DEF NoBlend
    <3> QED
      BY <3>1, <3>2, EndFacts DEF OthersKept, PricesOK
  <2>2. CASE Blendable(qtyRead[r])
    <3>1. PICK u \in Buys : u = leg[r]
      BY DEF CompleteLeg, RunOK
    <3>2. /\ wa' = Blend(waRead[r], u)
          /\ lots' = lots \cup {u}
          /\ waRead' = [waRead EXCEPT ![r] = Blend(@, u)]
          /\ inputs' = inputs
      BY <2>2, <3>1 DEF CompleteLeg, CompleteSettlementJournal
    <3>3. \A v \in Trades : Blend(waRead[r], u)[v] > 0 => v \in lots'
      BY <3>2 DEF PricesOK, Blend, TypeOK
    <3>4. \A q \in Runs : waRead'[q] = IF q = r THEN Blend(waRead[r], u) ELSE waRead[q]
      BY <3>2 DEF TypeOK
    <3> QED
      BY <3>2, <3>3, <3>4 DEF PricesOK
  <2> QED
    BY <2>1, <2>2
<1>5. JournalsOK'
  BY DEF CompleteLeg, Goto, End, NoBlend, CompleteSettlementJournal, Blend, priceVars,
     TypeOK, RunOK, JournalsOK
<1>6. DeliveryVersusPayment'
  BY DEF CompleteLeg, legVars, DeliveryVersusPayment
<1>7. JournalComesFirst'
  <2>1. \A u \in Buys : journal[u] # "none" => journal'[u] # "none"
    BY DEF CompleteLeg, CompleteSettlementJournal, TypeOK
  <2>2. UNCHANGED money
    BY DEF CompleteLeg, legVars
  <2>3. \A u \in Buys : money'[u] = "applied" => journal'[u] # "none"
    BY <2>1, <2>2 DEF JournalComesFirst
  <2> QED
    BY <1>4, <1>5, <2>3 DEF PricesOK, JournalsOK, JournalComesFirst
<1> QED
  BY <1>1, <1>2, <1>3, <1>4, <1>5, <1>6, <1>7 DEF Inv

\* A run reads what is left to roll.
LEMMA ReadNetInv == ASSUME Inv, NEW r \in Runs, ReadNet(r) PROVE Inv'
<1> USE SettlementAssumption DEF Inv
<1>1. TypeOK'
  <2>1. RunTypes'
    <3>1. CASE future = 0
      <4>1. End(r)
        BY <3>1 DEF ReadNet
      <4> QED
        BY <4>1, EndFacts DEF Inv
    <3>2. CASE ~(future = 0)
      <4>1. pc' = [pc EXCEPT ![r] = "roll"] /\ net' = [net EXCEPT ![r] = future]
        BY <3>2 DEF ReadNet, Goto
      <4>2. UNCHANGED <<todo, leg, waRead, qtyRead>>
        BY <3>2 DEF ReadNet
      <4>3. net' \in [Runs -> Int]
        BY <4>1 DEF TypeOK
      <4>4. pc' \in [Runs -> {"idle", "reconcile", "spot", "legs", "begin", "money", "security", "complete", "roll"}]
        BY <4>1 DEF TypeOK
      <4> QED
        BY <4>2, <4>3, <4>4 DEF TypeOK, RunTypes
    <3> QED
      BY <3>1, <3>2
  <2> QED
    BY <2>1 DEF ReadNet, TypeOK, RunTypes, bookVars, legVars, priceVars, runVars
<1>2. BookingOK'
  BY DEF ReadNet, bookVars, legVars, BookingOK
<1>3. ASSUME NEW q \in Runs PROVE RunOK(q)'
  <2>1. CASE future = 0
    <3>1. End(r) /\ UNCHANGED <<money, journal>>
      BY <2>1 DEF ReadNet, legVars, priceVars
    <3> QED
      BY <3>1, EndFacts DEF OthersKept, RunOK
  <2>2. CASE ~(future = 0)
    BY <2>2 DEF ReadNet, Goto, legVars, priceVars, TypeOK, RunOK
  <2> QED
    BY <2>1, <2>2
<1>4. PricesOK'
  <2>1. CASE future = 0
    <3>1. End(r) /\ UNCHANGED <<wa, lots, inputs>>
      BY <2>1 DEF ReadNet, priceVars
    <3>2. \A v \in Trades : ~(NoBlend[v] > 0)
      BY DEF NoBlend
    <3> QED
      BY <3>1, <3>2, EndFacts DEF OthersKept, PricesOK
  <2>2. CASE ~(future = 0)
    <3>1. UNCHANGED <<waRead, wa, lots, inputs>>
      BY <2>2 DEF ReadNet, priceVars
    <3> QED
      BY <3>1 DEF PricesOK
  <2> QED
    BY <2>1, <2>2
<1>5. JournalsOK'
  BY DEF ReadNet, priceVars, JournalsOK
<1>6. DeliveryVersusPayment'
  BY DEF ReadNet, legVars, DeliveryVersusPayment
<1>7. JournalComesFirst'
  BY DEF ReadNet, legVars, priceVars, JournalComesFirst
<1> QED
  BY <1>1, <1>2, <1>3, <1>4, <1>5, <1>6, <1>7 DEF Inv

\* The net quantity is rolled.
LEMMA RollInv == ASSUME Inv, NEW r \in Runs, Roll(r) PROVE Inv'
<1> USE SettlementAssumption DEF Inv
<1>1. TypeOK'
  <2>1. End(r) /\ RunTypes'
    BY EndFacts DEF Roll
  <2>2. spot' \in Int /\ future' \in Int
    BY DEF Roll, TypeOK
  <2> QED
    BY <2>1, <2>2 DEF Roll, bookVars, legVars, priceVars, TypeOK, RunTypes
<1>2. BookingOK'
  BY DEF Roll, bookVars, legVars, BookingOK
<1>3. ASSUME NEW q \in Runs PROVE RunOK(q)'
  BY DEF Roll, Goto, End, NoBlend, legVars, priceVars, runVars, RunOK
<1>4. PricesOK'
  BY DEF Roll, Goto, End, NoBlend, priceVars, runVars, PricesOK
<1>5. JournalsOK'
  BY DEF Roll, priceVars, JournalsOK
<1>6. DeliveryVersusPayment'
  BY DEF Roll, legVars, DeliveryVersusPayment
<1>7. JournalComesFirst'
  BY DEF Roll, legVars, priceVars, JournalComesFirst
<1> QED
  BY <1>1, <1>2, <1>3, <1>4, <1>5, <1>6, <1>7 DEF Inv

\* A run dies.
LEMMA AbortRunInv == ASSUME Inv, NEW r \in Runs, AbortRun(r) PROVE Inv'
<1> USE SettlementAssumption DEF Inv
<1>1. TypeOK'
  BY DEF AbortRun, Goto, End, NoBlend, Fault, bookVars, legVars, priceVars, runVars,
     TypeOK
<1>2. BookingOK'
  BY DEF AbortRun, bookVars, legVars, BookingOK
<1>3. ASSUME NEW q \in Runs PROVE RunOK(q)'
  BY DEF AbortRun, Goto, End, NoBlend, Fault, legVars, priceVars, runVars, TypeOK, RunOK
<1>4. PricesOK'
  BY DEF AbortRun, Goto, End, NoBlend, Fault, priceVars, runVars, PricesOK
<1>5. JournalsOK'
  BY DEF AbortRun, priceVars, JournalsOK
<1>6. DeliveryVersusPayment'
  BY DEF AbortRun, legVars, DeliveryVersusPayment
<1>7. JournalComesFirst'
  BY DEF AbortRun, legVars, priceVars, JournalComesFirst
<1> QED
  BY <1>1, <1>2, <1>3, <1>4, <1>5, <1>6, <1>7 DEF Inv

------------------------------------------------------------------------------
LEMMA NextInv == Inv /\ [Next]_vars => Inv'
<1> SUFFICES ASSUME Inv, [Next]_vars PROVE Inv'
  OBVIOUS
<1>1. CASE \E t \in Trades : BookingStep(t)
  BY <1>1, BeginBuyInv, BeginSellInv, CheckTradableInv, RecordMoneyInv,
     RecordSecurityInv, CompensateInv, CrashBookingInv DEF BookingStep
<1>2. CASE \E r \in Runs : StartRun(r) \/ AbortRun(r)
  BY <1>2, StartRunInv, AbortRunInv
<1>3. CASE \E r \in Runs : RunStep(r)
  BY <1>3, ReconcileSettlementInv, GetMaturedPositionsInv, ReadSpotInv, ReadLegsInv,
     BeginLegInv, CommitMoneyInv, CommitSecurityInv, CompleteLegInv, ReadNetInv,
     RollInv DEF RunStep
<1>4. CASE \E r \in Runs, t \in Trades : SettleTrade(r, t)
  BY <1>4, SettleTradeInv
<1>5. CASE UNCHANGED vars
  BY <1>5, StutterInv
<1> QED
  BY <1>1, <1>2, <1>3, <1>4, <1>5 DEF Next

\* What runs, callers and journals know of one another is invariant
\* (settleSecurityLeg, ReconcileSettlement, BookTrade, SellTrade).
THEOREM InvHolds == Spec => []Inv
  BY InitInv, NextInv, PTL DEF Spec

\* No security is delivered before its money leg is committed, whatever fails
\* (settleSecurityLeg).
THEOREM DeliveredIsPaid == Spec => []DeliveryVersusPayment
<1>1. Inv => DeliveryVersusPayment
  BY DEF Inv
<1> QED
  BY <1>1, InvHolds, PTL

\* Journal, price and lot of a buy always agree, and the journal is there
\* before the first commit (BeginSettlementJournal, CompleteSettlementJournal).
THEOREM JournalIsFirst == Spec => []JournalComesFirst
<1>1. Inv => JournalComesFirst
  BY DEF Inv
<1> QED
  BY <1>1, InvHolds, PTL

(***************************************************************************)
(* Quantities.  Only the commit of a security leg delivers, and it moves   *)
(* the future balance by the quantity it delivers; a roll moves one        *)
(* balance up by what it moves the other down, whoever else has rolled     *)
(* the same quantity.                                                      *)
(***************************************************************************)

\* Total is the sum of the quantities.
LEMMA TotalIsSum ==
  ASSUME NEW S, IsFiniteSet(S)
  PROVE  \E g : IsSum(g, [t \in S |-> Qty[t]], S) /\ Total(S) = g[S]
<1> DEFINE w == [t \in S |-> Qty[t]]
           P(f) == f = [s \in SUBSET S |->
                          IF s = {} THEN 0
                          ELSE Qty[CHOOSE x \in s : TRUE] + f[s \ {CHOOSE x \in s : TRUE}]]
<1>1. Total(S) = (CHOOSE f : P(f))[S]
  BY DEF Total, MapThenSumSet, MapThenFoldSet
<1>2. ASSUME NEW g PROVE IsSum(g, w, S) <=> P(g)
  BY PickInSet DEF Pick, IsSum
<1>3. \E f : P(f)
  <2>1. PICK g : IsSum(g, w, S)
    BY SumExists
  <2>2. P(g)
    BY <1>2, <2>1
  <2> HIDE DEF P
  <2> QED
    BY <2>2
<1>4. P(CHOOSE f : P(f))
  <2> HIDE DEF P
  <2> QED
    BY <1>3
<1> QED
  BY <1>1, <1>2, <1>4

\* Totals are numbers.
LEMMA TotalType == ASSUME NEW S \in SUBSET Trades PROVE Total(S) \in Int
<1>1. IsFiniteSet(S)
  BY SettlementAssumption, FS_Subset
<1>2. PICK w : w = [t \in S |-> Qty[t]]
  OBVIOUS
<1>3. w \in [S -> Int]
  BY <1>2, SettlementAssumption
<1>4. PICK g : IsSum(g, w, S) /\ Total(S) = g[S]
  BY <1>1, <1>2, TotalIsSum
<1> QED
  BY <1>1, <1>3, <1>4, SumType

\* One more trade adds its quantity.
LEMMA TotalGrown ==
  ASSUME NEW S \in SUBSET Trades, NEW a \in Trades, a \notin S
  PROVE  Total(S \cup {a}) = Total(S) + Qty[a] /\ Total(S) \in Int
<1>1. PICK T : T = S \cup {a}
  OBVIOUS
<1>2. PICK w : w = [t \in T |-> Qty[t]]
  OBVIOUS
<1>3. PICK v : v = [t \in S |-> Qty[t]]
  OBVIOUS
<1>4. /\ w \in [T -> Int] /\ w[a] = Qty[a]
      /\ v \in [S -> Int] /\ \A x \in S : w[x] = v[x]
  BY <1>1, <1>2, <1>3, SettlementAssumption
<1>5. IsFiniteSet(S) /\ IsFiniteSet(T)
  BY <1>1, SettlementAssumption, FS_Subset
<1>6. PICK g : IsSum(g, w, T) /\ Total(T) = g[T]
  BY <1>2, <1>5, TotalIsSum
<1>7. PICK h : IsSum(h, v, S) /\ Total(S) = h[S]
  BY <1>3, <1>5, TotalIsSum
<1>8. g[T] = h[S] + w[a] /\ h[S] \in Int
  BY <1>1, <1>4, <1>5, <1>6, <1>7, SumAdded
<1> QED
  BY <1>1, <1>4, <1>6, <1>7, <1>8

\* A step after which the same legs are committed, and the quantity is at most
\* moved from one balance to the other.
LEMMA NothingDelivered ==
  ASSUME TypeOK, (spot + future)' = spot + future,
         \A t \in Trades : security'[t] = "applied" <=> security[t] = "applied"
  PROVE  (spot + future)' - (spot + future) = Delivered' - Delivered
<1>1. PICK B : B = {t \in Buys : security[t] = "applied"}
  OBVIOUS
<1>2. PICK S : S = {t \in Sells : security[t] = "applied"}
  OBVIOUS
<1>3. Total(B) \in Int /\ Total(S) \in Int
  <2>1. B \in SUBSET Trades /\ S \in SUBSET Trades
    BY <1>1, <1>2, SettlementAssumption DEF Sells
  <2> QED
    BY <2>1, TotalType
<1>4. /\ {t \in Buys : security'[t] = "applied"} = B
      /\ {t \in Sells : security'[t] = "applied"} = S
  BY <1>1, <1>2, SettlementAssumption DEF Sells
<1>5. Delivered = Total(B) - Total(S) /\ Delivered' = Total(B) - Total(S)
  BY <1>1, <1>2, <1>4 DEF Delivered
<1> QED
  BY <1>3, <1>5 DEF TypeOK

\* The commit of a security leg.
LEMMA CommitDelivers ==
  ASSUME Inv, NEW r \in Runs, CommitSecurity(r)
  PROVE  (spot + future)' - (spot + future) = Delivered' - Delivered
<1>0. TypeOK
  BY DEF Inv
<1>1. PICK a : a = leg[r]
  OBVIOUS
<1>2. a \in Trades
  BY <1>1 DEF Inv, RunOK, CommitSecurity
<1>3. CASE security[a] # "inflight"
  <2>1. UNCHANGED <<security, spot, future>>
    BY <1>1, <1>3 DEF CommitSecurity
  <2> QED
    BY <1>0, <2>1, NothingDelivered
<1>4. CASE security[a] = "inflight"
  <2>1. /\ security' = [security EXCEPT ![a] = "applied"]
        /\ future' = IF a \in Buys THEN future + Qty[a] ELSE future - Qty[a]
        /\ spot' = spot
    BY <1>1, <1>4 DEF CommitSecurity
  <2>2. PICK B : B = {t \in Buys : security[t] = "applied"}
    OBVIOUS
  <2>3. PICK S : S = {t \in Sells : security[t] = "applied"}
    OBVIOUS
  <2>4. \A t \in Trades : security'[t] = IF t = a THEN "applied" ELSE security[t]
    BY <1>0, <2>1 DEF TypeOK
  <2>5. B \in SUBSET Trades /\ S \in SUBSET Trades /\ a \notin B /\ a \notin S
    BY <1>4, <2>2, <2>3, SettlementAssumption DEF Sells
  <2>6. /\ {t \in Buys : security'[t] = "applied"} = IF a \in Buys THEN B \cup {a} ELSE B
        /\ {t \in Sells : security'[t] = "applied"} = IF a \in Buys THEN S ELSE S \cup {a}
    BY <1>2, <2>2, <2>3, <2>4, SettlementAssumption DEF Sells
  <2>7. /\ Total(B \cup {a}) = Total(B) + Qty[a] /\ Total(B) \in Int
        /\ Total(S \cup {a}) = Total(S) + Qty[a] /\ Total(S) \in Int
    BY <1>2, <2>5, TotalGrown
  <2>8. Qty[a] \in Int /\ spot \in Int /\ future \in Int
    BY <1>0, <1>2, SettlementAssumption DEF TypeOK
  <2>9. Delivered = Total(B) - Total(S)
    BY <2>2, <2>3 DEF Delivered
  <2>10. Delivered' = IF a \in Buys THEN Total(B \cup {a}) - Total(S) ELSE Total(B) - Total(S \cup {a})
    BY <2>6 DEF Delivered
  <2> QED
    BY <2>1, <2>7, <2>8, <2>9, <2>10
<1> QED
  BY <1>3, <1>4

\* Whatever settlement runs do to the same bucket, also when several roll the
\* same net quantity, spot and future together change by what is delivered and
\* by nothing else (netRollToSpot, settleSecurityLeg).
THEOREM QuantityKept == Spec => PositionConserved
<1>1. Inv /\ [Next]_vars => [(spot + future)' - (spot + future) = Delivered' - Delivered]_vars
  <2> SUFFICES ASSUME Inv, Next PROVE (spot + future)' - (spot + future) = Delivered' - Delivered
    OBVIOUS
  <2>0. TypeOK
    BY DEF Inv
  <2>1. CASE \E r \in Runs : CommitSecurity(r)
    BY <2>1, CommitDelivers
  <2>2. CASE \E r \in Runs : Roll(r)
    <3>1. PICK r \in Runs : Roll(r)
      BY <2>2
    <3>2. /\ security' = security /\ spot' = spot + net[r] /\ future' = future - net[r]
      BY <3>1 DEF Roll, legVars
    <3>3. spot \in Int /\ future \in Int /\ net[r] \in Int
      BY <2>0 DEF TypeOK
    <3>4. (spot + future)' = spot + future
      BY <3>2, <3>3
    <3> QED
      BY <2>0, <3>2, <3>4, NothingDelivered
  <2>3. CASE \E t \in Trades : RecordSecurity(t)
    <3>1. PICK t \in Trades : RecordSecurity(t)
      BY <2>3
    <3>2. /\ spot' = spot /\ future' = future /\ security[t] = "none"
          /\ security' = [security EXCEPT ![t] = "inflight"] \/ security' = security
      BY <3>1 DEF RecordSecurity, Inv, BookingOK
    <3>3. \A u \in Trades : security'[u] = "applied" <=> security[u] = "applied"
      BY <2>0, <3>2 DEF TypeOK
    <3> QED
      BY <2>0, <3>2, <3>3, NothingDelivered
  <2>4. CASE UNCHANGED <<security, spot, future>>
    BY <2>0, <2>4, NothingDelivered
  <2>5. \/ \E r \in Runs : CommitSecurity(r) \/ Roll(r)
        \/ \E t \in Trades : RecordSecurity(t)
        \/ UNCHANGED <<security, spot, future>>
    <3>1. ASSUME NEW t \in Trades, BookingStep(t), ~RecordSecurity(t)
          PROVE  UNCHANGED <<security, spot, future>>
      BY <3>1 DEF BookingStep, BeginBuy, BeginSell, CheckTradable, RecordMoney, Compensate, CrashBooking, legVars
    <3>2. ASSUME NEW r \in Runs, RunStep(r), ~CommitSecurity(r), ~Roll(r)
          PROVE  UNCHANGED <<security, spot, future>>
      BY <3>2 DEF RunStep, ReconcileSettlement, BeginLeg, GetMaturedPositions, ReadSpot, ReadLegs,
         CommitMoney, CompleteLeg, ReadNet, legVars
    <3>3. ASSUME NEW r \in Runs, StartRun(r) \/ AbortRun(r) \/ \E t \in Trades : SettleTrade(r, t)
          PROVE  UNCHANGED <<security, spot, future>>
      BY <3>3 DEF StartRun, AbortRun, SettleTrade, legVars
    <3> QED
      BY <3>1, <3>2, <3>3 DEF Next
  <2> QED
    BY <2>1, <2>2, <2>3, <2>4, <2>5
<1> QED
  BY <1>1, InitInv, NextInv, PTL DEF Spec, PositionConserved
==============================================================================
