---------------------------- MODULE ServicesProofs ----------------------------
(***************************************************************************)
(* The services behind the API, each for all values of its constants:      *)
(* orders (Orders), API keys (ApiKeys), balances found by their indicator  *)
(* (Indicators), balance monitors (Monitors), balance snapshots            *)
(* (Snapshots) and brokerage positions (Positions).  They share no state;  *)
(* every part has its own inductive invariant, and the theorems at the end *)
(* are about Services.                                                     *)
(***************************************************************************)
EXTENDS Services, Sequences, SumTheorems

(***************************************************************************)
(* Orders.  Calls overwrite each other's writes, so nothing follows from   *)
(* the order of the statuses alone.  What holds is that an order which     *)
(* somebody has as CHECKED or APPROVED, in the table or in memory, has its *)
(* checks passed, that one caller at most is between the two legs of an    *)
(* order, and that whoever has it as EXECUTED has booked both.             *)
(***************************************************************************)
OrderRows == [status : Ord!Statuses, aml : {"", "PASSED", "BLOCKED"}, trade : BOOLEAN]

\* A caller that is not idle is at an order.
CallsOK ==
  /\ call \in [Callers -> [id : OrderIds \cup {Nothing}, op : Ord!Ops, stage : Ord!Stages,
                           submit : BOOLEAN, read : OrderRows]]
  /\ \A c \in Callers : call[c] = Ord!Idle \/ call[c].id \in OrderIds

PassedOK(r) == r.status \in {"CHECKED", "APPROVED"} => r.aml = "PASSED"

\* Checked and approved orders have passed their checks.
ChecksOK ==
  /\ \A o \in OrderIds : PassedOK(order[o])
  /\ \A c \in Callers : PassedOK(call[c].read)
  /\ \A c \in Callers : call[c].op = "execute" /\ call[c].stage = "money" => call[c].read.aml = "PASSED"

\* The caller has booked the money leg and not yet the security leg.
Between(c) == call[c].op = "execute" /\ call[c].stage = "security"

\* One caller is between the legs of an order, and they are as it left them;
\* an order that a caller has as EXECUTED has both.
LegsOK ==
  /\ \A o \in OrderIds : money[o] = "none" => security[o] = "none"
  /\ \A c \in Callers : Between(c) => money[call[c].id] = "inflight" /\ security[call[c].id] = "none"
  /\ \A c, d \in Callers : Between(c) /\ Between(d) /\ call[c].id = call[d].id => c = d
  /\ \A c \in Callers : call[c].read.status = "EXECUTED" =>
       money[call[c].id] = "inflight" /\ security[call[c].id] = "inflight"

OrdersStrong == Ord!OrdersInv /\ CallsOK /\ ChecksOK /\ LegsOK

\* The instance's sets are finite, and counted, as everywhere.
LEMMA OrdFinite == ASSUME NEW S PROVE Ord!IsFiniteSet(S) <=> IsFiniteSet(S)
BY DEF Ord!IsFiniteSet, IsFiniteSet

\* Cardinalities of the instance.
LEMMA OrdCardinality == ASSUME NEW S PROVE Ord!Cardinality(S) = Cardinality(S)
BY DEF Ord!Cardinality, Cardinality

\* OrdersStrong holds initially.
LEMMA OrdersInitially == ASSUME Ord!OrdersAssumption, Ord!OrderInit PROVE OrdersStrong
<1>1. Ord!OrdersTypeOK
  BY DEF Ord!OrdersAssumption, Ord!OrderInit, Ord!OrdersTypeOK, Ord!NoRow, Ord!Idle, Ord!Statuses, Ord!Stages
<1>2. Ord!HoldsCovered
  <2>1. {o \in Ord!Buys : money[o] = "inflight"} = {}
    BY DEF Ord!OrderInit, Ord!Buys
  <2>2. Ord!Cardinality({}) = 0
    BY FS_EmptySet, OrdCardinality
  <2> QED
    BY <2>1, <2>2 DEF Ord!HoldsCovered, Ord!HeldMoney, Ord!OrdersAssumption
<1>3. Ord!ExecutedOrdersAreBooked
  BY DEF Ord!OrderInit, Ord!ExecutedOrdersAreBooked, Ord!NoRow
<1>4. CallsOK
  BY DEF Ord!OrderInit, CallsOK, Ord!Idle, Ord!NoRow, Ord!Ops, Ord!Stages, Ord!Statuses, OrderRows
<1>5. ChecksOK /\ LegsOK
  BY DEF Ord!OrderInit, ChecksOK, PassedOK, LegsOK, Between, Ord!Idle, Ord!NoRow
<1> QED
  BY <1>1, <1>2, <1>3, <1>4, <1>5 DEF OrdersStrong, Ord!OrdersInv

\* A step of caller c that books nothing and writes no order.
LEMMA CallStep ==
  ASSUME OrdersStrong, NEW c \in Callers, UNCHANGED <<sells, order, blocked, money, security>>,
         NEW k \in [id : OrderIds \cup {Nothing}, op : Ord!Ops, stage : Ord!Stages,
                    submit : BOOLEAN, read : OrderRows],
         call' = [call EXCEPT ![c] = k],
         k = Ord!Idle \/ k.id \in OrderIds,
         PassedOK(k.read),
         k.read.status = "EXECUTED" => money[k.id] = "inflight" /\ security[k.id] = "inflight",
         ~(k.op = "execute" /\ k.stage = "security"),
         k.op = "execute" /\ k.stage = "money" => k.read.aml = "PASSED"
  PROVE  OrdersStrong'
<1>1. call'[c] = k /\ \A d \in Callers \ {c} : call'[d] = call[d]
  BY DEF OrdersStrong, CallsOK
<1>2. CallsOK'
  BY <1>1 DEF OrdersStrong, CallsOK, OrderRows
<1>3. Ord!OrdersTypeOK'
  <2>1. \A d \in Callers : call'[d].id \in OrderIds \cup {Nothing} /\ call'[d].stage \in Ord!Stages
    BY <1>2 DEF CallsOK
  <2> QED
    BY <2>1 DEF OrdersStrong, Ord!OrdersInv, Ord!OrdersTypeOK, Ord!Stages, Ord!Statuses
<1>4. Ord!HoldsCovered' /\ Ord!ExecutedOrdersAreBooked'
  BY DEF OrdersStrong, Ord!OrdersInv, Ord!HoldsCovered, Ord!HeldMoney, Ord!Buys, Ord!ExecutedOrdersAreBooked
<1>5. ChecksOK'
  BY <1>1 DEF OrdersStrong, ChecksOK, PassedOK
<1>6. LegsOK'
  BY <1>1 DEF OrdersStrong, LegsOK, Between
<1> QED
  BY <1>2, <1>3, <1>4, <1>5, <1>6 DEF OrdersStrong, Ord!OrdersInv

\* The types of rows and calls, for the steps below.
LEMMA CallFacts ==
  ASSUME OrdersStrong, NEW c \in Callers
  PROVE  /\ call[c] \in [id : OrderIds \cup {Nothing}, op : Ord!Ops, stage : Ord!Stages,
                         submit : BOOLEAN, read : OrderRows]
         /\ call[c] = Ord!Idle \/ call[c].id \in OrderIds
         /\ PassedOK(call[c].read)
BY DEF OrdersStrong, CallsOK, ChecksOK

\* What an operation has read, when the order's status admits it.
LEMMA ReadingFacts ==
  ASSUME OrdersStrong, NEW o \in OrderIds, NEW op \in Ord!Ops, NEW submit \in BOOLEAN,
         Ord!Admits(op, order[o].status)
  PROVE  LET k == Ord!Reading(o, op, submit) IN
         /\ k \in [id : OrderIds \cup {Nothing}, op : Ord!Ops, stage : Ord!Stages,
                   submit : BOOLEAN, read : OrderRows]
         /\ k.id \in OrderIds /\ PassedOK(k.read) /\ k.read.status # "EXECUTED"
         /\ k.stage # "security"
         /\ k.op = "execute" /\ k.stage = "money" => k.read.aml = "PASSED"
<1>1. order[o] \in OrderRows /\ PassedOK(order[o])
  BY DEF OrdersStrong, Ord!OrdersInv, Ord!OrdersTypeOK, OrderRows, ChecksOK
<1>2. CASE op = "check"
  BY <1>1, <1>2 DEF Ord!Reading, Ord!Admits, Ord!Ops, Ord!Stages, PassedOK
<1>3. CASE op = "execute"
  BY <1>1, <1>3 DEF Ord!Reading, Ord!Admits, Ord!Ops, Ord!Stages, PassedOK, Ord!CanTransitionOrder
<1>4. CASE op = "approve"
  <2>1. PICK r : r = [order[o] EXCEPT !.status = "APPROVED"]
    OBVIOUS
  <2>2. r \in OrderRows /\ r.status = "APPROVED" /\ r.aml = order[o].aml /\ order[o].status = "CHECKED"
    BY <1>1, <1>4, <2>1 DEF OrderRows, Ord!Statuses, Ord!Admits, Ord!CanTransitionOrder
  <2>3. Ord!Reading(o, op, submit) = [id |-> o, op |-> op, submit |-> submit, stage |-> "write", read |-> r]
    BY <1>4, <2>1 DEF Ord!Reading
  <2> QED
    BY <1>1, <1>4, <2>2, <2>3 DEF Ord!Ops, Ord!Stages, PassedOK
<1>5. CASE op = "cancel"
  <2>1. PICK r : r = [order[o] EXCEPT !.status = "CANCELLED"]
    OBVIOUS
  <2>2. r \in OrderRows /\ r.status = "CANCELLED"
    BY <1>1, <2>1 DEF OrderRows, Ord!Statuses
  <2>3. Ord!Reading(o, op, submit) = [id |-> o, op |-> op, submit |-> submit, stage |-> "write", read |-> r]
    BY <1>5, <2>1 DEF Ord!Reading
  <2> QED
    BY <1>5, <2>2, <2>3 DEF Ord!Ops, Ord!Stages, PassedOK
<1> QED
  BY <1>2, <1>3, <1>4, <1>5 DEF Ord!Ops

\* An operation that starts, by itself or as the next of SubmitOrder.
LEMMA BeginOrders ==
  ASSUME OrdersStrong, NEW c \in Callers, NEW o \in OrderIds, NEW op \in Ord!Ops,
         Ord!Begin(c, o, op)
  PROVE  OrdersStrong'
<1>1. PICK k : k = Ord!Reading(o, op, FALSE)
  OBVIOUS
<1>2. call' = [call EXCEPT ![c] = k] /\ UNCHANGED <<sells, order, blocked, money, security>>
  BY <1>1 DEF Ord!Begin
<1>3. Ord!Admits(op, order[o].status)
  BY DEF Ord!Begin
<1> QED
  BY <1>1, <1>2, <1>3, ReadingFacts, CallStep

\* The idle caller is well formed.
LEMMA IdleFacts ==
  /\ Ord!Idle \in [id : OrderIds \cup {Nothing}, op : Ord!Ops, stage : Ord!Stages,
                   submit : BOOLEAN, read : OrderRows]
  /\ Ord!Idle.op = "check" /\ Ord!Idle.stage = "stop" /\ Ord!Idle.id = Nothing
  /\ PassedOK(Ord!Idle.read) /\ Ord!Idle.read.status # "EXECUTED"
BY DEF Ord!Idle, Ord!NoRow, Ord!Ops, Ord!Stages, Ord!Statuses, OrderRows, PassedOK

\* The next operation of a straight-through order.
LEMMA GoOnOrders ==
  ASSUME OrdersStrong, NEW c \in Callers, Ord!GoOn(c)
  PROVE  OrdersStrong'
<1>1. PICK k : k = IF Ord!Admits(call[c].op, order[call[c].id].status)
                   THEN Ord!Reading(call[c].id, call[c].op, TRUE) ELSE Ord!Idle
  OBVIOUS
<1>2. call' = [call EXCEPT ![c] = k] /\ UNCHANGED <<sells, order, blocked, money, security>>
  BY <1>1 DEF Ord!GoOn
<1>3. call[c].id \in OrderIds /\ call[c].op \in Ord!Ops
  BY CallFacts, IdleFacts DEF Ord!GoOn
<1>4. CASE Ord!Admits(call[c].op, order[call[c].id].status)
  <2>1. k = Ord!Reading(call[c].id, call[c].op, TRUE)
    BY <1>1, <1>4
  <2> QED
    BY <1>2, <1>3, <1>4, <2>1, ReadingFacts, CallStep
<1>5. CASE ~Ord!Admits(call[c].op, order[call[c].id].status)
  <2>1. k = Ord!Idle
    BY <1>1, <1>5
  <2> QED
    BY <1>2, <2>1, IdleFacts, CallStep
<1> QED
  BY <1>4, <1>5

\* A caller that dies leaves everything as it is.
LEMMA DiesOrders ==
  ASSUME OrdersStrong, NEW c \in Callers, Ord!CallerDies(c)
  PROVE  OrdersStrong'
<1>1. call' = [call EXCEPT ![c] = Ord!Idle] /\ UNCHANGED <<sells, order, blocked, money, security>>
  BY DEF Ord!CallerDies
<1> QED
  BY <1>1, IdleFacts, CallStep

\* Going on to another stage of the check.
LEMMA AtOrders ==
  ASSUME OrdersStrong, NEW c \in Callers, call[c].op = "check", call[c].id \in OrderIds,
         NEW stage \in Ord!Stages, Ord!At(c, stage),
         UNCHANGED <<sells, order, blocked, money, security>>
  PROVE  OrdersStrong'
<1>1. PICK k : k = [call[c] EXCEPT !.stage = stage]
  OBVIOUS
<1>2. call' = [call EXCEPT ![c] = k]
  BY <1>1 DEF Ord!At
<1>3. /\ k \in [id : OrderIds \cup {Nothing}, op : Ord!Ops, stage : Ord!Stages,
                submit : BOOLEAN, read : OrderRows]
      /\ k.id = call[c].id /\ k.op = "check" /\ k.read = call[c].read
  BY <1>1, CallFacts
<1>4. k.read.status = "EXECUTED" => money[k.id] = "inflight" /\ security[k.id] = "inflight"
  BY <1>3 DEF OrdersStrong, LegsOK
<1> QED
  BY <1>2, <1>3, <1>4, CallFacts, CallStep

\* Deciding what to write.
LEMMA BecomesOrders ==
  ASSUME OrdersStrong, NEW c \in Callers, call[c].id \in OrderIds,
         NEW status \in Ord!Statuses \ {"EXECUTED"}, NEW aml \in {"", "PASSED", "BLOCKED"},
         NEW trade \in BOOLEAN,
         status \in {"CHECKED", "APPROVED"} => aml = "PASSED",
         Ord!Becomes(c, status, aml, trade),
         UNCHANGED <<sells, order, blocked, money, security>>
  PROVE  OrdersStrong'
<1>0. PICK r : r = [status |-> status, aml |-> aml, trade |-> trade]
  OBVIOUS
<1>1. PICK k : k = [call[c] EXCEPT !.stage = "write", !.read = r]
  OBVIOUS
<1>2. call' = [call EXCEPT ![c] = k]
  BY <1>0, <1>1 DEF Ord!Becomes
<1>3. r \in OrderRows /\ PassedOK(r) /\ r.status # "EXECUTED"
  BY <1>0 DEF OrderRows, PassedOK
<1>4. /\ k \in [id : OrderIds \cup {Nothing}, op : Ord!Ops, stage : Ord!Stages,
                submit : BOOLEAN, read : OrderRows]
      /\ k.id = call[c].id /\ k.stage = "write" /\ k.read = r
  BY <1>1, <1>3, CallFacts DEF Ord!Stages
<1> QED
  BY <1>2, <1>3, <1>4, CallStep

\* The checks of an order.
LEMMA CheckOrders ==
  ASSUME OrdersStrong, NEW c \in Callers,
         \/ Ord!CheckStopList(c) \/ Ord!CheckTradingTime(c)
         \/ Ord!CheckSizeLimits(c) \/ Ord!CheckFunds(c)
  PROVE  OrdersStrong'
<1>1. call[c].id \in OrderIds /\ call[c].op = "check"
  BY CallFacts, IdleFacts
  DEF Ord!CheckStopList, Ord!CheckTradingTime, Ord!CheckSizeLimits, Ord!CheckFunds
<1>2. call[c].read.aml \in {"", "PASSED", "BLOCKED"}
  BY CallFacts DEF OrderRows
<1>3. UNCHANGED <<sells, order, blocked, money, security>>
  BY DEF Ord!CheckStopList, Ord!CheckTradingTime, Ord!CheckSizeLimits, Ord!CheckFunds
<1>4. \/ \E stage \in {"time", "size", "funds"} : Ord!At(c, stage)
      \/ Ord!Becomes(c, "REJECTED", "BLOCKED", FALSE)
      \/ Ord!Becomes(c, "REJECTED", call[c].read.aml, FALSE)
      \/ Ord!Becomes(c, "CHECKED", "PASSED", FALSE)
  BY DEF Ord!CheckStopList, Ord!CheckTradingTime, Ord!CheckSizeLimits, Ord!CheckFunds
<1>5. /\ {"time", "size", "funds"} \subseteq Ord!Stages
      /\ {"REJECTED", "CHECKED"} \subseteq Ord!Statuses \ {"EXECUTED"}
  BY DEF Ord!Stages, Ord!Statuses
<1>6. CASE \E stage \in {"time", "size", "funds"} : Ord!At(c, stage)
  BY <1>1, <1>3, <1>5, <1>6, AtOrders
<1>7. CASE Ord!Becomes(c, "REJECTED", "BLOCKED", FALSE)
  BY <1>1, <1>3, <1>5, <1>7, BecomesOrders
<1>8. CASE Ord!Becomes(c, "REJECTED", call[c].read.aml, FALSE)
  BY <1>1, <1>2, <1>3, <1>5, <1>8, BecomesOrders
<1>9. CASE Ord!Becomes(c, "CHECKED", "PASSED", FALSE)
  BY <1>1, <1>3, <1>5, <1>9, BecomesOrders
<1> QED
  BY <1>4, <1>6, <1>7, <1>8, <1>9

\* A step that changes rows but no caller's view, when the changed rows keep
\* what the callers and the table rely on.
LEMMA RowStep ==
  ASSUME OrdersStrong, NEW o \in OrderIds, NEW r \in OrderRows,
         order' = [order EXCEPT ![o] = r], PassedOK(r),
         r.status = "EXECUTED" => money[o] = "inflight" /\ security[o] = "inflight",
         UNCHANGED <<sells, blocked, money, security>>
  PROVE  /\ order' \in [OrderIds -> OrderRows]
         /\ \A p \in OrderIds : PassedOK(order'[p])
         /\ Ord!ExecutedOrdersAreBooked' /\ Ord!HoldsCovered'
<1>1. order \in [OrderIds -> OrderRows]
  BY DEF OrdersStrong, Ord!OrdersInv, Ord!OrdersTypeOK, OrderRows
<1>2. order'[o] = r /\ \A p \in OrderIds \ {o} : order'[p] = order[p]
  BY <1>1
<1>3. order' \in [OrderIds -> OrderRows]
  BY <1>1
<1>4. \A p \in OrderIds : PassedOK(order'[p])
  BY <1>2 DEF OrdersStrong, ChecksOK
<1>5. Ord!ExecutedOrdersAreBooked'
  BY <1>2 DEF OrdersStrong, Ord!OrdersInv, Ord!ExecutedOrdersAreBooked
<1>6. Ord!HoldsCovered'
  BY DEF OrdersStrong, Ord!OrdersInv, Ord!HoldsCovered, Ord!HeldMoney, Ord!Buys
<1> QED
  BY <1>3, <1>4, <1>5, <1>6

\* A new order, written by a caller that goes on with it or by none.
LEMMA CreateOrders ==
  ASSUME OrdersStrong, NEW o \in OrderIds, Ord!CreateOrder(o)
  PROVE  OrdersStrong'
<1>1. PICK r : r = [order[o] EXCEPT !.status = "DRAFT"]
  OBVIOUS
<1>2. order[o] \in OrderRows
  BY DEF OrdersStrong, Ord!OrdersInv, Ord!OrdersTypeOK, OrderRows
<1>3. r \in OrderRows /\ r.status = "DRAFT"
  BY <1>1, <1>2 DEF OrderRows, Ord!Statuses
<1>4. order' = [order EXCEPT ![o] = r] /\ UNCHANGED <<sells, blocked, money, security, call>>
  BY <1>1 DEF Ord!CreateOrder
<1>5. /\ order' \in [OrderIds -> OrderRows]
      /\ \A p \in OrderIds : PassedOK(order'[p])
      /\ Ord!ExecutedOrdersAreBooked' /\ Ord!HoldsCovered'
  BY <1>3, <1>4, RowStep DEF PassedOK
<1>6. Ord!OrdersTypeOK'
  BY <1>4, <1>5 DEF OrdersStrong, Ord!OrdersInv, Ord!OrdersTypeOK, OrderRows, Ord!Statuses, Ord!Stages
<1>7. CallsOK' /\ LegsOK'
  BY <1>4 DEF OrdersStrong, CallsOK, LegsOK, Between
<1>8. ChecksOK'
  BY <1>4, <1>5 DEF OrdersStrong, ChecksOK
<1> QED
  BY <1>5, <1>6, <1>7, <1>8 DEF OrdersStrong, Ord!OrdersInv

\* A caller writes an order and is then idle or about to read it again.
LEMMA WriteStep ==
  ASSUME OrdersStrong, NEW c \in Callers, NEW o \in OrderIds, NEW r \in OrderRows,
         order' = [order EXCEPT ![o] = r], PassedOK(r),
         r.status = "EXECUTED" => money[o] = "inflight" /\ security[o] = "inflight",
         UNCHANGED <<sells, blocked, money, security>>,
         NEW k \in [id : OrderIds \cup {Nothing}, op : Ord!Ops, stage : Ord!Stages,
                    submit : BOOLEAN, read : OrderRows],
         call' = [call EXCEPT ![c] = k],
         k = Ord!Idle \/ k.id \in OrderIds,
         k.read = Ord!NoRow, k.stage \in {"stop", "next"}
  PROVE  OrdersStrong'
<1>1. call'[c] = k /\ \A d \in Callers \ {c} : call'[d] = call[d]
  BY DEF OrdersStrong, CallsOK
<1>2. CallsOK'
  BY <1>1 DEF OrdersStrong, CallsOK, OrderRows
<1>3. /\ order' \in [OrderIds -> OrderRows]
      /\ \A p \in OrderIds : PassedOK(order'[p])
      /\ Ord!ExecutedOrdersAreBooked' /\ Ord!HoldsCovered'
  BY RowStep
<1>4. Ord!OrdersTypeOK'
  <2>1. \A d \in Callers : call'[d].id \in OrderIds \cup {Nothing} /\ call'[d].stage \in Ord!Stages
    BY <1>2 DEF CallsOK
  <2> QED
    BY <1>3, <2>1 DEF OrdersStrong, Ord!OrdersInv, Ord!OrdersTypeOK, Ord!Stages, Ord!Statuses, OrderRows
<1>5. k.read.status = "none" /\ k.stage # "security" /\ k.stage # "money"
  <2>1. Ord!NoRow.status = "none"
    BY DEF Ord!NoRow
  <2> QED
    BY <2>1
<1>6. ChecksOK'
  BY <1>1, <1>3, <1>5 DEF OrdersStrong, ChecksOK, PassedOK
<1>7. LegsOK'
  BY <1>1, <1>5 DEF OrdersStrong, LegsOK, Between
<1> QED
  BY <1>2, <1>3, <1>4, <1>6, <1>7 DEF OrdersStrong, Ord!OrdersInv

\* A caller about to read an order for its next operation.
LEMMA GoesOnFacts ==
  ASSUME NEW o \in OrderIds, NEW op \in Ord!Ops
  PROVE  LET k == [Ord!Idle EXCEPT !.id = o, !.op = op, !.submit = TRUE, !.stage = "next"] IN
         /\ k \in [id : OrderIds \cup {Nothing}, op : Ord!Ops, stage : Ord!Stages,
                   submit : BOOLEAN, read : OrderRows]
         /\ k.id = o /\ k.read = Ord!NoRow /\ k.stage = "next"
BY DEF Ord!Idle, Ord!Stages, Ord!NoRow, Ord!Statuses, OrderRows

\* A straight-through order is created.
LEMMA SubmitOrders ==
  ASSUME OrdersStrong, NEW c \in Callers, NEW o \in OrderIds, Ord!SubmitOrder(c, o)
  PROVE  OrdersStrong'
<1>1. PICK r : r = [order[o] EXCEPT !.status = "DRAFT"]
  OBVIOUS
<1>2. order[o] \in OrderRows
  BY DEF OrdersStrong, Ord!OrdersInv, Ord!OrdersTypeOK, OrderRows
<1>3. r \in OrderRows /\ r.status = "DRAFT" /\ PassedOK(r)
  BY <1>1, <1>2 DEF OrderRows, Ord!Statuses, PassedOK
<1>4. order' = [order EXCEPT ![o] = r] /\ UNCHANGED <<sells, blocked, money, security>>
  BY <1>1 DEF Ord!SubmitOrder
<1>5. PICK k : k = [Ord!Idle EXCEPT !.id = o, !.op = "check", !.submit = TRUE, !.stage = "next"]
  OBVIOUS
<1>6. call' = [call EXCEPT ![c] = k]
  BY <1>5 DEF Ord!SubmitOrder, Ord!GoesOnWith
<1>7. "check" \in Ord!Ops
  BY DEF Ord!Ops
<1>8. /\ k \in [id : OrderIds \cup {Nothing}, op : Ord!Ops, stage : Ord!Stages,
                submit : BOOLEAN, read : OrderRows]
      /\ k.id = o /\ k.read = Ord!NoRow /\ k.stage = "next"
  BY <1>5, <1>7, GoesOnFacts
<1> QED
  BY <1>3, <1>4, <1>6, <1>8, WriteStep

\* The order is written as the caller has it.
LEMMA UpdateOrders ==
  ASSUME OrdersStrong, NEW c \in Callers, Ord!UpdateOrder(c)
  PROVE  OrdersStrong'
<1>1. call[c].id \in OrderIds /\ call[c].id # Nothing
  BY CallFacts, IdleFacts DEF Ord!UpdateOrder
<1>2. PICK o \in OrderIds : o = call[c].id
  BY <1>1
<1>3. PICK r \in OrderRows : r = call[c].read
  BY CallFacts
<1>4. /\ order' = [order EXCEPT ![o] = r] /\ PassedOK(r)
      /\ UNCHANGED <<sells, blocked, money, security>>
  BY <1>2, <1>3, CallFacts DEF Ord!UpdateOrder
<1>5. r.status = "EXECUTED" => money[o] = "inflight" /\ security[o] = "inflight"
  BY <1>2, <1>3 DEF OrdersStrong, LegsOK
<1>6. CASE call' = [call EXCEPT ![c] = Ord!Idle]
  <2>1. Ord!Idle.read = Ord!NoRow
    BY DEF Ord!Idle
  <2> QED
    BY <1>4, <1>5, <1>6, <2>1, IdleFacts, WriteStep
<1>7. ASSUME NEW op \in {"approve", "execute"}, Ord!GoesOnWith(c, o, op) PROVE OrdersStrong'
  <2>1. PICK k : k = [Ord!Idle EXCEPT !.id = o, !.op = op, !.submit = TRUE, !.stage = "next"]
    OBVIOUS
  <2>2. call' = [call EXCEPT ![c] = k] /\ op \in Ord!Ops
    BY <1>7, <2>1 DEF Ord!GoesOnWith, Ord!Ops
  <2>3. /\ k \in [id : OrderIds \cup {Nothing}, op : Ord!Ops, stage : Ord!Stages,
                  submit : BOOLEAN, read : OrderRows]
        /\ k.id = o /\ k.read = Ord!NoRow /\ k.stage = "next"
    BY <2>1, <2>2, GoesOnFacts
  <2> QED
    BY <1>4, <1>5, <2>2, <2>3, WriteStep
<1>8. \/ call' = [call EXCEPT ![c] = Ord!Idle]
      \/ \E op \in {"approve", "execute"} : Ord!GoesOnWith(c, o, op)
  BY <1>2 DEF Ord!UpdateOrder
<1> QED
  BY <1>6, <1>7, <1>8

\* Blocking a client changes no order.
LEMMA StopListOrders ==
  ASSUME OrdersStrong, Ord!AddStopList
  PROVE  OrdersStrong'
<1>1. UNCHANGED <<sells, order, money, security, call>> /\ blocked' = TRUE
  BY DEF Ord!AddStopList
<1>2. Ord!OrdersInv'
  BY <1>1 DEF OrdersStrong, Ord!OrdersInv, Ord!OrdersTypeOK, Ord!HoldsCovered, Ord!HeldMoney, Ord!Buys,
              Ord!ExecutedOrdersAreBooked, Ord!Statuses, Ord!Stages
<1> QED
  BY <1>1, <1>2 DEF OrdersStrong, CallsOK, ChecksOK, LegsOK, Between

\* The holds stay covered when a money leg that can be booked is.
LEMMA MoneyHeld ==
  ASSUME Ord!OrdersAssumption, OrdersStrong, NEW o \in OrderIds, Ord!CanBook(o),
         money' = [money EXCEPT ![o] = "inflight"], sells' = sells
  PROVE  Ord!HoldsCovered'
<1>2. money[o] = "none" /\ (o \notin sells => Ord!FreeMoney >= 1)
  BY DEF Ord!CanBook
<1>3. /\ money \in [OrderIds -> {"none", "inflight", "void"}] /\ sells \subseteq OrderIds
      /\ IsFiniteSet(OrderIds) /\ Money \in Nat
  BY OrdFinite DEF OrdersStrong, Ord!OrdersInv, Ord!OrdersTypeOK, Ord!OrdersAssumption
<1>4. money'[o] = "inflight" /\ \A p \in OrderIds \ {o} : money'[p] = money[p]
  BY <1>3
<1> QED
  <2>1. PICK S : S = {p \in Ord!Buys : money[p] = "inflight"}
    OBVIOUS
  <2>2. PICK T : T = {p \in OrderIds \ sells : money'[p] = "inflight"}
    OBVIOUS
  <2>3. /\ Ord!HeldMoney(Ord!Buys) = Cardinality(S)
        /\ Ord!HeldMoney(Ord!Buys)' = Cardinality(T)
    BY <1>2, <2>1, <2>2, OrdCardinality DEF Ord!HeldMoney, Ord!Buys
  <2>4. IsFiniteSet(S) /\ o \notin S
    <3>1. S \subseteq OrderIds
      BY <2>1 DEF Ord!Buys
    <3> QED
      BY <1>2, <1>3, <2>1, <3>1, FS_Subset
  <2>5. Cardinality(S) \in Nat /\ Cardinality(S) <= Money
    BY <2>3, <2>4, FS_CardinalityType DEF OrdersStrong, Ord!OrdersInv, Ord!HoldsCovered
  <2>6. CASE o \in sells
    <3>1. T = S
      BY <1>2, <1>4, <2>1, <2>2, <2>6 DEF Ord!Buys
    <3> QED
      BY <2>3, <2>5, <3>1 DEF Ord!HoldsCovered
  <2>7. CASE o \notin sells
    <3>1. T = S \cup {o}
      BY <1>2, <1>4, <2>1, <2>2, <2>7 DEF Ord!Buys
    <3>2. Cardinality(T) = Cardinality(S) + 1
      BY <2>4, <3>1, FS_AddElement
    <3>3. Ord!FreeBalance(Money, Cardinality(S)) >= 1
      BY <1>2, <2>3, <2>7 DEF Ord!FreeMoney
    <3>4. Cardinality(S) < Money
      BY <1>3, <2>5, <3>3 DEF Ord!FreeBalance
    <3>5. Cardinality(T) <= Money
      BY <1>3, <2>5, <3>2, <3>4
    <3> QED
      BY <2>3, <3>5 DEF Ord!HoldsCovered
  <2> QED
    BY <2>6, <2>7

\* The money leg is booked while money, or a position, is free, whatever its
\* caller is told.
LEMMA LegBooked ==
  ASSUME Ord!OrdersAssumption, OrdersStrong, NEW c \in Callers, NEW o \in OrderIds,
         call[c].id = o, call[c].op = "execute", call[c].stage = "money", Ord!CanBook(o),
         money' = [money EXCEPT ![o] = "inflight"], UNCHANGED <<sells, order, blocked, security>>,
         NEW k \in [id : OrderIds \cup {Nothing}, op : Ord!Ops, stage : Ord!Stages,
                    submit : BOOLEAN, read : OrderRows],
         call' = [call EXCEPT ![c] = k], k.id = o, k.stage \in {"security", "write"},
         PassedOK(k.read), k.read.status # "EXECUTED"
  PROVE  OrdersStrong'
<1>1. money[o] = "none"
  BY DEF Ord!CanBook
<1>2. /\ money \in [OrderIds -> {"none", "inflight", "void"}] /\ sells \subseteq OrderIds
  BY DEF OrdersStrong, Ord!OrdersInv, Ord!OrdersTypeOK
<1>3. money'[o] = "inflight" /\ \A p \in OrderIds \ {o} : money'[p] = money[p]
  BY <1>2
<1>4. call'[c] = k /\ \A d \in Callers \ {c} : call'[d] = call[d]
  BY DEF OrdersStrong, CallsOK
<1>5. CallsOK'
  BY <1>4 DEF OrdersStrong, CallsOK, OrderRows
<1>6. Ord!OrdersTypeOK'
  <2>1. \A d \in Callers : call'[d].id \in OrderIds \cup {Nothing} /\ call'[d].stage \in Ord!Stages
    BY <1>5 DEF CallsOK
  <2> QED
    BY <1>2, <2>1 DEF OrdersStrong, Ord!OrdersInv, Ord!OrdersTypeOK, Ord!Stages, Ord!Statuses
<1>7. Ord!HoldsCovered'
  BY MoneyHeld
<1>8. Ord!ExecutedOrdersAreBooked'
  BY <1>1, <1>3 DEF OrdersStrong, Ord!OrdersInv, Ord!ExecutedOrdersAreBooked
<1>9. ChecksOK'
  BY <1>4 DEF OrdersStrong, ChecksOK
<1>10. security[o] = "none" /\ \A d \in Callers : Between(d) => call[d].id # o
  BY <1>1 DEF OrdersStrong, LegsOK
<1>11. LegsOK'
  BY <1>1, <1>3, <1>4, <1>10 DEF OrdersStrong, LegsOK, Between, CallsOK
<1> QED
  BY <1>5, <1>6, <1>7, <1>8, <1>9, <1>11 DEF OrdersStrong, Ord!OrdersInv

LEMMA BookMoneyOrders ==
  ASSUME Ord!OrdersAssumption, OrdersStrong, NEW c \in Callers, Ord!BookMoney(c)
  PROVE  OrdersStrong'
<1>1. PICK o \in OrderIds : o = call[c].id
  BY CallFacts, IdleFacts DEF Ord!BookMoney
<1>2. /\ call[c].op = "execute" /\ call[c].stage = "money" /\ Ord!CanBook(o)
      /\ money' = [money EXCEPT ![o] = "inflight"]
      /\ UNCHANGED <<sells, order, blocked, security>>
  BY <1>1 DEF Ord!BookMoney
<1>3. PICK k : k = [call[c] EXCEPT !.stage = "security"]
  OBVIOUS
<1>4. /\ call' = [call EXCEPT ![c] = k]
      /\ k \in [id : OrderIds \cup {Nothing}, op : Ord!Ops, stage : Ord!Stages,
                submit : BOOLEAN, read : OrderRows]
      /\ k.id = o /\ k.stage = "security" /\ k.read = call[c].read
  BY <1>1, <1>2, <1>3, CallFacts DEF Ord!BookMoney, Ord!At, Ord!Stages
<1>5. k.read.status # "EXECUTED" /\ PassedOK(k.read)
  BY <1>1, <1>2, <1>4 DEF OrdersStrong, LegsOK, ChecksOK, Ord!CanBook
<1> QED
  BY <1>1, <1>2, <1>4, <1>5, LegBooked

\* An execution that fails at the first leg.
LEMMA BookingFailsOrders ==
  ASSUME Ord!OrdersAssumption, OrdersStrong, NEW c \in Callers, Ord!BookingFails(c)
  PROVE  OrdersStrong'
<1>1. PICK o \in OrderIds : o = call[c].id
  BY CallFacts, IdleFacts DEF Ord!BookingFails
<1>2. call[c].read.aml \in {"", "PASSED", "BLOCKED"}
  BY CallFacts DEF OrderRows
<1>3. /\ Ord!Becomes(c, "REJECTED", call[c].read.aml, FALSE)
      /\ call[c].op = "execute" /\ call[c].stage = "money"
      /\ UNCHANGED <<sells, order, blocked, security>>
  BY DEF Ord!BookingFails
<1>4. CASE money' = money
  BY <1>1, <1>2, <1>3, <1>4, BecomesOrders DEF Ord!Statuses
<1>5. CASE Ord!CanBook(o) /\ money' = [money EXCEPT ![o] = "inflight"]
  <2>1. PICK r : r = [status |-> "REJECTED", aml |-> call[c].read.aml, trade |-> FALSE]
    OBVIOUS
  <2>2. PICK k : k = [call[c] EXCEPT !.stage = "write", !.read = r]
    OBVIOUS
  <2>3. r \in OrderRows /\ PassedOK(r) /\ r.status = "REJECTED"
    BY <1>2, <2>1 DEF OrderRows, PassedOK, Ord!Statuses
  <2>4. /\ call' = [call EXCEPT ![c] = k]
        /\ k \in [id : OrderIds \cup {Nothing}, op : Ord!Ops, stage : Ord!Stages,
                  submit : BOOLEAN, read : OrderRows]
        /\ k.id = o /\ k.stage = "write" /\ k.read = r
    BY <1>1, <1>3, <2>1, <2>2, <2>3, CallFacts DEF Ord!Becomes, Ord!Stages
  <2> QED
    BY <1>1, <1>3, <1>5, <2>3, <2>4, LegBooked
<1> QED
  BY <1>1, <1>4, <1>5 DEF Ord!BookingFails

\* The second leg or its failure: nobody else is between the legs of the order,
\* so nobody else's claim on it is touched.
LEMMA SecurityOrders ==
  ASSUME Ord!OrdersAssumption, OrdersStrong, NEW c \in Callers,
         Ord!BookSecurity(c) \/ Ord!SecurityFails(c)
  PROVE  OrdersStrong'
<1>1. PICK o \in OrderIds : o = call[c].id
  BY CallFacts, IdleFacts DEF Ord!BookSecurity, Ord!SecurityFails
<1>2. Between(c) /\ UNCHANGED <<sells, order, blocked>>
  BY DEF Ord!BookSecurity, Ord!SecurityFails, Between
<1>3. money[o] = "inflight" /\ security[o] = "none"
  BY <1>1, <1>2 DEF OrdersStrong, LegsOK
<1>4. /\ money \in [OrderIds -> {"none", "inflight", "void"}] /\ sells \subseteq OrderIds
      /\ security \in [OrderIds -> {"none", "inflight"}]
      /\ IsFiniteSet(OrderIds)
  BY OrdFinite DEF OrdersStrong, Ord!OrdersInv, Ord!OrdersTypeOK, Ord!OrdersAssumption
<1>5. PICK status \in {"EXECUTED", "REJECTED"} :
        /\ Ord!Becomes(c, status, call[c].read.aml, status = "EXECUTED")
        /\ status = "EXECUTED" => security' = [security EXCEPT ![o] = "inflight"] /\ money' = money
        /\ status = "REJECTED" => /\ money' \in {money, [money EXCEPT ![o] = "void"]}
                                  /\ security' \in {security, [security EXCEPT ![o] = "inflight"]}
  BY <1>1 DEF Ord!BookSecurity, Ord!SecurityFails
<1>6. /\ \A p \in OrderIds \ {o} : money'[p] = money[p] /\ security'[p] = security[p]
      /\ money' \in [OrderIds -> {"none", "inflight", "void"}]
      /\ security' \in [OrderIds -> {"none", "inflight"}]
      /\ money'[o] \in {"inflight", "void"}
      /\ status = "EXECUTED" => money'[o] = "inflight" /\ security'[o] = "inflight"
  BY <1>3, <1>4, <1>5
<1>7. PICK r : r = [status |-> status, aml |-> call[c].read.aml, trade |-> status = "EXECUTED"]
  OBVIOUS
<1>8. PICK k : k = [call[c] EXCEPT !.stage = "write", !.read = r]
  OBVIOUS
<1>9. r \in OrderRows /\ r.status = status /\ PassedOK(r)
  <2>1. call[c].read.aml \in {"", "PASSED", "BLOCKED"}
    BY CallFacts DEF OrderRows
  <2> QED
    BY <1>7, <2>1 DEF OrderRows, Ord!Statuses, PassedOK
<1>10. call' = [call EXCEPT ![c] = k]
  BY <1>5, <1>7, <1>8 DEF Ord!Becomes
<1>11. /\ k \in [id : OrderIds \cup {Nothing}, op : Ord!Ops, stage : Ord!Stages,
                 submit : BOOLEAN, read : OrderRows]
       /\ k.id = o /\ k.stage = "write" /\ k.read = r
  BY <1>1, <1>8, <1>9, CallFacts DEF Ord!Stages
<1>12. call'[c] = k /\ \A d \in Callers \ {c} : call'[d] = call[d]
  BY <1>10 DEF OrdersStrong, CallsOK
<1>13. CallsOK'
  BY <1>10, <1>11, <1>12 DEF OrdersStrong, CallsOK, OrderRows
<1>14. Ord!OrdersTypeOK'
  <2>1. \A d \in Callers : call'[d].id \in OrderIds \cup {Nothing} /\ call'[d].stage \in Ord!Stages
    BY <1>13 DEF CallsOK
  <2> QED
    BY <1>2, <1>4, <1>6, <2>1 DEF OrdersStrong, Ord!OrdersInv, Ord!OrdersTypeOK, Ord!Stages, Ord!Statuses
<1>15. Ord!HoldsCovered'
  <2>1. PICK S : S = {p \in Ord!Buys : money[p] = "inflight"}
    OBVIOUS
  <2>2. PICK T : T = {p \in OrderIds \ sells : money'[p] = "inflight"}
    OBVIOUS
  <2>3. /\ Ord!HeldMoney(Ord!Buys) = Cardinality(S)
        /\ Ord!HeldMoney(Ord!Buys)' = Cardinality(T)
    BY <1>2, <2>1, <2>2, OrdCardinality DEF Ord!HeldMoney, Ord!Buys
  <2>4. IsFiniteSet(S) /\ T \subseteq S
    <3>1. S \subseteq OrderIds
      BY <2>1 DEF Ord!Buys
    <3>2. T \subseteq S
      BY <1>3, <1>6, <2>1, <2>2 DEF Ord!Buys
    <3> QED
      BY <1>4, <3>1, <3>2, FS_Subset
  <2>5. Cardinality(T) <= Cardinality(S) /\ Cardinality(T) \in Nat /\ Cardinality(S) \in Nat
    BY <2>4, FS_Subset, FS_CardinalityType
  <2>6. Cardinality(S) <= Money /\ Money \in Nat
    BY <2>3 DEF OrdersStrong, Ord!OrdersInv, Ord!HoldsCovered, Ord!OrdersAssumption
  <2> QED
    BY <2>3, <2>5, <2>6 DEF Ord!HoldsCovered
<1>16. Ord!ExecutedOrdersAreBooked'
  BY <1>2, <1>3, <1>6 DEF OrdersStrong, Ord!OrdersInv, Ord!ExecutedOrdersAreBooked
<1>17. ChecksOK'
  BY <1>2, <1>9, <1>11, <1>12 DEF OrdersStrong, ChecksOK
<1>18. LegsOK'
  <2>1. \A p \in OrderIds : money'[p] = "none" => security'[p] = "none"
    BY <1>6 DEF OrdersStrong, LegsOK
  <2>2. ~Between(c)'
    BY <1>11, <1>12 DEF Between
  <2>3. ASSUME NEW d \in Callers \ {c}, Between(d)' PROVE Between(d) /\ call[d].id \in OrderIds \ {o}
    <3>1. Between(d)
      BY <1>12, <2>3 DEF Between
    <3>2. call[d].id # o
      BY <1>1, <1>2, <3>1 DEF OrdersStrong, LegsOK
    <3>3. call[d].id \in OrderIds
      BY <3>1, CallFacts, IdleFacts DEF Between
    <3> QED
      BY <3>1, <3>2, <3>3
  <2>4. \A d \in Callers : Between(d)' => money'[call'[d].id] = "inflight" /\ security'[call'[d].id] = "none"
    BY <1>6, <1>12, <2>2, <2>3 DEF OrdersStrong, LegsOK
  <2>5. \A d, e \in Callers : Between(d)' /\ Between(e)' /\ call'[d].id = call'[e].id => d = e
    BY <1>12, <2>2, <2>3 DEF OrdersStrong, LegsOK
  <2>6. ASSUME NEW d \in Callers, call'[d].read.status = "EXECUTED"
        PROVE  money'[call'[d].id] = "inflight" /\ security'[call'[d].id] = "inflight"
    <3>1. CASE d = c
      BY <1>6, <1>9, <1>11, <1>12, <2>6, <3>1
    <3>2. CASE d # c
      <4>1. call'[d] = call[d] /\ money[call[d].id] = "inflight" /\ security[call[d].id] = "inflight"
        BY <1>12, <2>6, <3>2 DEF OrdersStrong, LegsOK
      <4>2. call[d].id \in OrderIds
        <5>1. Ord!Idle.read.status # "EXECUTED"
          BY IdleFacts
        <5> QED
          BY <2>6, <4>1, <5>1, CallFacts
      <4> QED
        BY <1>3, <1>6, <4>1, <4>2
    <3> QED
      BY <3>1, <3>2
  <2> QED
    BY <2>1, <2>4, <2>5, <2>6 DEF LegsOK
<1> QED
  BY <1>13, <1>14, <1>15, <1>16, <1>17, <1>18 DEF OrdersStrong, Ord!OrdersInv

\* Every step keeps OrdersStrong.
LEMMA OrdersNext ==
  ASSUME Ord!OrdersAssumption, OrdersStrong, [Ord!OrderNext]_(Ord!orderVars)
  PROVE  OrdersStrong'
<1>1. CASE UNCHANGED Ord!orderVars
  <2>1. UNCHANGED <<order, sells, blocked, money, security, call>>
    BY <1>1 DEF Ord!orderVars
  <2>2. Ord!OrdersInv'
    BY <2>1 DEF OrdersStrong, Ord!OrdersInv, Ord!OrdersTypeOK, Ord!HoldsCovered, Ord!HeldMoney, Ord!Buys,
                Ord!ExecutedOrdersAreBooked, Ord!Statuses, Ord!Stages
  <2> QED
    BY <2>1, <2>2 DEF OrdersStrong, CallsOK, ChecksOK, LegsOK, Between
<1>2. CASE Ord!OrderNext
  <2>1. ASSUME NEW c \in Callers, Ord!OrderStep(c) PROVE OrdersStrong'
    BY <2>1, SubmitOrders, BeginOrders, CheckOrders, BookMoneyOrders, BookingFailsOrders,
       SecurityOrders, UpdateOrders, GoOnOrders, DiesOrders DEF Ord!OrderStep
  <2> QED
    BY <1>2, <2>1, CreateOrders, StopListOrders DEF Ord!OrderNext
<1> QED
  BY <1>1, <1>2

\* Only a caller that is at the first leg books it.
LEMMA FirstLeg ==
  ASSUME OrdersStrong, Ord!OrderNext, NEW o \in OrderIds, money[o] = "none", money'[o] = "inflight"
  PROVE  \E c \in Callers : (Ord!BookMoney(c) \/ Ord!BookingFails(c)) /\ call[c].id = o
<1>0. money \in [OrderIds -> {"none", "inflight", "void"}]
  BY DEF OrdersStrong, Ord!OrdersInv, Ord!OrdersTypeOK
<1>1. PICK c \in Callers : Ord!OrderStep(c) /\ money' # money
  BY DEF Ord!OrderNext, Ord!CreateOrder, Ord!AddStopList
<1>2. Ord!BookMoney(c) \/ Ord!BookingFails(c) \/ Ord!SecurityFails(c)
  BY <1>1 DEF Ord!OrderStep, Ord!SubmitOrder, Ord!Begin, Ord!CheckStopList, Ord!CheckTradingTime,
     Ord!CheckSizeLimits, Ord!CheckFunds, Ord!BookSecurity, Ord!UpdateOrder,
     Ord!GoOn, Ord!CallerDies
<1>3. ~Ord!SecurityFails(c)
  BY <1>0 DEF Ord!SecurityFails
<1>4. call[c].id = o
  BY <1>0, <1>2, <1>3 DEF Ord!BookMoney, Ord!BookingFails
<1> QED
  BY <1>2, <1>3, <1>4

\* Whoever books it has read the order with its checks passed.
LEMMA BooksChecked == ASSUME OrdersStrong, Ord!OrderNext PROVE Ord!BooksCheckedOrder
<1> SUFFICES ASSUME NEW o \in OrderIds, money[o] = "none", money'[o] = "inflight"
             PROVE  \E c \in Callers : call[c].id = o /\ call[c].read.aml = "PASSED"
  BY DEF Ord!BooksCheckedOrder
<1>1. PICK c \in Callers : (Ord!BookMoney(c) \/ Ord!BookingFails(c)) /\ call[c].id = o
  BY FirstLeg
<1>2. call[c].read.aml = "PASSED"
  BY <1>1 DEF Ord!BookMoney, Ord!BookingFails, OrdersStrong, ChecksOK
<1> QED
  BY <1>1, <1>2

(***************************************************************************)
(* API keys.  Copies and requests hold rows as they once were, of keys     *)
(* that exist; nothing but `revoked' of a row ever changes.  A copy that   *)
(* still says not revoked is accounted for by whoever revokes the row, or  *)
(* by `stale' from the moment the deletion is over.                        *)
(***************************************************************************)

\* Copies are kept under the prefix of their key, and they and the rows that
\* requests hold are of keys that exist.
CopiesOK ==
  /\ request = [s \in Callers |-> request[s]]
  /\ \A k \in Key!Known : row[k].id = k
  /\ \A p \in Key!Places, x \in Key!Prefixes :
       copy[p][x] # Nothing => copy[p][x].id \in Key!Known /\ PrefixOf[copy[p][x].id] = x
  /\ \A s \in Callers : request[s].at = "fill" => request[s].key.id \in Key!Known

KeysStrong == Key!KeysInv /\ CopiesOK

\* KeysStrong holds initially.
LEMMA KeysInitially == ASSUME Key!KeysAssumption, Key!KeyInit PROVE KeysStrong
<1>1. Key!KeysTypeOK
  BY DEF Key!KeyInit, Key!KeysTypeOK, Key!KeysAssumption
<1>2. Key!RevokedCopiesAreKnown /\ Key!DelegationNeverWidens
  BY DEF Key!KeyInit, Key!RevokedCopiesAreKnown, Key!DelegationNeverWidens, Key!Known
<1>3. CopiesOK
  BY DEF Key!KeyInit, CopiesOK, Key!Idle, Key!Known
<1> QED
  BY <1>1, <1>2, <1>3 DEF KeysStrong, Key!KeysInv

\* A request in one of the forms that KeysTypeOK allows.
RequestOK(r) ==
  \/ r = Key!Idle
  \/ r.at = "query" /\ r.id \in Keys
  \/ r.at \in {"fill", "check"} /\ r.key \in Key!Rows
  \/ r.at \in {"create", "revoke"} /\ r.principal \in Key!Rows \cup {Nothing}
  \/ r.at = "invalidate" /\ r.id \in Key!Known

\* The request of server s becomes r and the others stay.
LEMMA OneRequest ==
  ASSUME KeysStrong, NEW s \in Callers, NEW r, Key!Becomes(s, r)
  PROVE  /\ request'[s] = r /\ \A t \in Callers \ {s} : request'[t] = request[t]
         /\ request' = [t \in Callers |-> request'[t]]
BY DEF KeysStrong, CopiesOK, Key!Becomes

\* A step of server s that changes neither rows nor copies nor `stale' and
\* ends no deletion.
LEMMA RequestStep ==
  ASSUME Key!KeysAssumption, KeysStrong, NEW s \in Callers, NEW r, Key!Becomes(s, r), RequestOK(r),
         r.at = "fill" => r.key.id \in Key!Known, request[s].at # "invalidate",
         UNCHANGED <<row, copy, stale, now, mishaps>>
  PROVE  KeysStrong'
<1>1. /\ request'[s] = r /\ \A t \in Callers \ {s} : request'[t] = request[t]
      /\ request' = [t \in Callers |-> request'[t]]
  BY OneRequest
<1>2. Key!Known' = Key!Known
  BY DEF Key!Known
<1>3. Key!KeysTypeOK'
  <2>1. \A t \in Callers : RequestOK(request'[t])
    BY <1>1 DEF KeysStrong, Key!KeysInv, Key!KeysTypeOK, RequestOK
  <2> QED
    BY <1>2, <2>1 DEF KeysStrong, Key!KeysInv, Key!KeysTypeOK, RequestOK
<1>4. CopiesOK'
  BY <1>1, <1>2 DEF KeysStrong, CopiesOK
<1>5. Key!RevokedCopiesAreKnown'
  BY <1>1 DEF KeysStrong, Key!KeysInv, Key!RevokedCopiesAreKnown
<1>6. Key!DelegationNeverWidens'
  BY <1>2 DEF KeysStrong, Key!KeysInv, Key!DelegationNeverWidens
<1> QED
  BY <1>3, <1>4, <1>5, <1>6 DEF KeysStrong, Key!KeysInv

\* The row is read, the master key used, or the copy checked.
LEMMA ReadKeys ==
  ASSUME Key!KeysAssumption, KeysStrong, NEW s \in Callers,
         \/ Key!QueryRow(s) \/ Key!MasterRequest(s)
         \/ \E resource \in Resources, action \in Key!Actions : Key!Check(s, resource, action)
  PROVE  KeysStrong'
<1>1. RequestOK(request[s])
  BY DEF KeysStrong, Key!KeysInv, Key!KeysTypeOK, RequestOK
<1>2. RequestOK(Key!Idle) /\ Key!Idle.at = "idle"
  BY DEF RequestOK, Key!Idle
<1>3. CASE Key!QueryRow(s)
  <2>1. request[s].at = "query" /\ UNCHANGED <<row, copy, stale, now, mishaps>>
    BY <1>3 DEF Key!QueryRow
  <2>2. PICK k \in Keys : k = request[s].id
    BY <1>1, <2>1 DEF RequestOK, Key!Idle
  <2>3. PICK r : r = IF row[k] = Nothing THEN Key!Idle ELSE [at |-> "fill", key |-> row[k]]
    OBVIOUS
  <2>4. Key!Becomes(s, r)
    BY <1>3, <2>2, <2>3 DEF Key!QueryRow
  <2>5. CASE row[k] = Nothing
    BY <1>2, <2>1, <2>3, <2>4, <2>5, RequestStep
  <2>6. CASE row[k] # Nothing
    <3>1. row[k] \in Key!Rows /\ row[k].id \in Key!Known
      <4>1. k \in Key!Known
        BY <2>6 DEF Key!Known
      <4> QED
        BY <2>6, <4>1 DEF KeysStrong, CopiesOK, Key!KeysInv, Key!KeysTypeOK
    <3>2. r.at = "fill" /\ r.key = row[k]
      BY <2>3, <2>6
    <3>3. RequestOK(r)
      BY <3>1, <3>2 DEF RequestOK
    <3> QED
      BY <2>1, <2>4, <3>1, <3>2, <3>3, RequestStep
  <2> QED
    BY <2>5, <2>6
<1>4. CASE Key!MasterRequest(s)
  <2>1. request[s] = Key!Idle /\ UNCHANGED <<row, copy, stale, now, mishaps>>
    BY <1>4 DEF Key!MasterRequest
  <2>2. PICK handler \in {"create", "revoke"} : Key!Becomes(s, [at |-> handler, principal |-> Nothing])
    BY <1>4 DEF Key!MasterRequest
  <2>3. PICK r : r = [at |-> handler, principal |-> Nothing]
    OBVIOUS
  <2>4. RequestOK(r) /\ r.at # "fill"
    BY <2>3 DEF RequestOK
  <2> QED
    BY <1>2, <2>1, <2>2, <2>3, <2>4, RequestStep
<1>5. ASSUME NEW resource \in Resources, NEW action \in Key!Actions, Key!Check(s, resource, action)
      PROVE  KeysStrong'
  <2>1. request[s].at = "check" /\ UNCHANGED <<row, copy, stale, now, mishaps>>
    BY <1>5 DEF Key!Check
  <2>2. request[s].key \in Key!Rows
    BY <1>1, <2>1 DEF RequestOK, Key!Idle
  <2>3. PICK r : /\ Key!Becomes(s, r)
                 /\ \/ r = Key!Idle
                    \/ \E handler \in {"create", "revoke"} : r = [at |-> handler, principal |-> request[s].key]
    BY <1>5 DEF Key!Check
  <2>4. RequestOK(r) /\ r.at # "fill"
    BY <1>2, <2>2, <2>3 DEF RequestOK
  <2> QED
    BY <2>1, <2>3, <2>4, RequestStep
<1> QED
  BY <1>3, <1>4, <1>5

\* A look at the caches; a shared copy that is stale is so at the server too.
LEMMA LookUpKeys ==
  ASSUME Key!KeysAssumption, KeysStrong, NEW s \in Callers, NEW k \in Keys, Key!LookUp(s, k)
  PROVE  KeysStrong'
<1>1. PICK x \in Key!Prefixes : x = PrefixOf[k]
  BY DEF Key!Prefixes
<1>2. PICK place \in Key!Places : place = IF copy[s][x] # Nothing THEN s ELSE "shared"
  BY DEF Key!Places
<1>3. PICK found \in Key!Rows \cup {Nothing} : found = copy[place][x]
  BY DEF KeysStrong, Key!KeysInv, Key!KeysTypeOK
<1>4. /\ request[s] = Key!Idle /\ UNCHANGED <<row, now, mishaps>>
      /\ copy' = [copy EXCEPT ![s][x] = found]
      /\ stale' = IF place = s THEN stale
                  ELSE stale \cup {<<s, e[2]>> : e \in {f \in stale : f[1] = "shared" /\ PrefixOf[f[2]] = x}}
  BY <1>1, <1>2, <1>3 DEF Key!LookUp
<1>5. PICK r : /\ Key!Becomes(s, r)
               /\ r \in {[at |-> "check", key |-> found], [at |-> "query", id |-> k]}
               /\ r = [at |-> "check", key |-> found] => found # Nothing
  <2>1. PICK r : r = IF found # Nothing /\ found.id = k
                     THEN [at |-> "check", key |-> found] ELSE [at |-> "query", id |-> k]
    OBVIOUS
  <2>2. Key!Becomes(s, r)
    BY <1>1, <1>2, <1>3, <2>1 DEF Key!LookUp
  <2> QED
    BY <2>1, <2>2
<1>6. RequestOK(r) /\ r.at \notin {"fill", "invalidate"}
  BY <1>5 DEF RequestOK
<1>7. /\ request'[s] = r /\ \A t \in Callers \ {s} : request'[t] = request[t]
      /\ request' = [t \in Callers |-> request'[t]]
  BY <1>5, OneRequest
<1>8. copy \in [Key!Places -> [Key!Prefixes -> Key!Rows \cup {Nothing}]] /\ s \in Key!Places
  BY DEF KeysStrong, Key!KeysInv, Key!KeysTypeOK, Key!Places
<1>9. /\ copy' \in [Key!Places -> [Key!Prefixes -> Key!Rows \cup {Nothing}]]
      /\ copy'[s][x] = found
      /\ \A p \in Key!Places, y \in Key!Prefixes : p # s \/ y # x => copy'[p][y] = copy[p][y]
  BY <1>4, <1>8
<1>10. Key!Known' = Key!Known
  BY <1>4 DEF Key!Known
<1>11. stale' \subseteq Key!Places \X Keys /\ stale \subseteq stale'
  <2>1. stale \subseteq Key!Places \X Keys
    BY DEF KeysStrong, Key!KeysInv, Key!KeysTypeOK
  <2> QED
    BY <1>4, <1>8, <2>1
<1>12. Key!KeysTypeOK'
  <2>1. \A t \in Callers : RequestOK(request'[t])
    BY <1>6, <1>7 DEF KeysStrong, Key!KeysInv, Key!KeysTypeOK, RequestOK
  <2> QED
    BY <1>4, <1>9, <1>10, <1>11, <2>1 DEF KeysStrong, Key!KeysInv, Key!KeysTypeOK, RequestOK
<1>13. found # Nothing => found.id \in Key!Known /\ PrefixOf[found.id] = x
  BY <1>3 DEF KeysStrong, CopiesOK
<1>14. CopiesOK'
  BY <1>4, <1>6, <1>7, <1>9, <1>10, <1>13 DEF KeysStrong, CopiesOK
<1>15. Key!RevokedCopiesAreKnown'
  <2> SUFFICES ASSUME NEW p \in Key!Places, NEW y \in Key!Prefixes, copy'[p][y] # Nothing,
                      row[copy'[p][y].id].revoked, ~copy'[p][y].revoked
               PROVE  \/ <<p, copy'[p][y].id>> \in stale'
                      \/ \E t \in Callers : request'[t] = [at |-> "invalidate", id |-> copy'[p][y].id]
    BY <1>4 DEF Key!RevokedCopiesAreKnown
  <2>1. ASSUME NEW q \in Key!Places, copy[q][y] = copy'[p][y]
        PROVE  \/ <<q, copy'[p][y].id>> \in stale
               \/ \E t \in Callers : request'[t] = [at |-> "invalidate", id |-> copy'[p][y].id]
    <3>1. \/ <<q, copy[q][y].id>> \in stale
          \/ \E t \in Callers : request[t] = [at |-> "invalidate", id |-> copy[q][y].id]
      BY <2>1 DEF KeysStrong, Key!KeysInv, Key!RevokedCopiesAreKnown
    <3>2. ASSUME NEW t \in Callers, request[t] = [at |-> "invalidate", id |-> copy[q][y].id]
          PROVE  request'[t] = request[t]
      BY <1>4, <1>7, <3>2 DEF Key!Idle
    <3> QED
      BY <2>1, <3>1, <3>2
  <2>2. CASE p # s \/ y # x
    BY <1>9, <1>11, <2>1, <2>2
  <2>3. CASE p = s /\ y = x /\ place = s
    BY <1>3, <1>9, <1>11, <2>1, <2>3
  <2>4. CASE p = s /\ y = x /\ place # s
    <3>1. place = "shared" /\ copy["shared"][y] = copy'[p][y] /\ copy'[p][y] = found
      BY <1>2, <1>3, <1>9, <2>4
    <3>2. CASE <<"shared", found.id>> \in stale
      <4>1. PICK e : e = <<"shared", found.id>>
        OBVIOUS
      <4>2. e \in stale /\ e[1] = "shared" /\ e[2] = found.id /\ PrefixOf[e[2]] = x
        BY <1>13, <3>1, <3>2, <4>1
      <4>3. <<s, e[2]>> \in stale'
        BY <1>4, <2>4, <4>2
      <4> QED
        BY <2>4, <3>1, <4>2, <4>3
    <3>3. CASE <<"shared", found.id>> \notin stale
      BY <1>2, <2>1, <3>1, <3>3
    <3> QED
      BY <3>2, <3>3
  <2> QED
    BY <2>2, <2>3, <2>4
<1>16. Key!DelegationNeverWidens'
  BY <1>4, <1>10 DEF KeysStrong, Key!KeysInv, Key!DelegationNeverWidens
<1> QED
  BY <1>12, <1>14, <1>15, <1>16 DEF KeysStrong, Key!KeysInv

\* The row as it was read is cached at the server and in the shared cache.
LEMMA FillKeys ==
  ASSUME Key!KeysAssumption, KeysStrong, NEW s \in Callers, Key!FillCache(s)
  PROVE  KeysStrong'
<1>0. request[s].at = "fill" /\ UNCHANGED <<row, now, mishaps>>
  BY DEF Key!FillCache
<1>1. PICK k \in Key!Rows : k = request[s].key
  BY <1>0 DEF KeysStrong, Key!KeysInv, Key!KeysTypeOK, Key!Idle
<1>2. k.id \in Key!Known /\ k.id \in Keys
  BY <1>0, <1>1 DEF KeysStrong, CopiesOK, Key!Known
<1>3. PICK x \in Key!Prefixes : x = PrefixOf[k.id]
  BY <1>2 DEF Key!Prefixes
<1>4. PICK ps : ps = {s, "shared"}
  OBVIOUS
<1>5. /\ copy' = [p \in Key!Places |-> IF p \in ps THEN [copy[p] EXCEPT ![x] = k] ELSE copy[p]]
      /\ stale' = (stale \ Key!Freshened(ps, x))
                    \cup (IF row[k.id].revoked # k.revoked THEN ps \X {k.id} ELSE {})
      /\ Key!Becomes(s, [at |-> "check", key |-> k])
  BY <1>1, <1>3, <1>4 DEF Key!FillCache
<1>6. PICK r : r = [at |-> "check", key |-> k]
  OBVIOUS
<1>7. RequestOK(r) /\ r.at = "check"
  BY <1>6 DEF RequestOK
<1>8. /\ request'[s] = r /\ \A t \in Callers \ {s} : request'[t] = request[t]
      /\ request' = [t \in Callers |-> request'[t]]
  BY <1>5, <1>6, OneRequest
<1>9. copy \in [Key!Places -> [Key!Prefixes -> Key!Rows \cup {Nothing}]] /\ ps \subseteq Key!Places
  BY <1>4 DEF KeysStrong, Key!KeysInv, Key!KeysTypeOK, Key!Places
<1>10. /\ copy' \in [Key!Places -> [Key!Prefixes -> Key!Rows \cup {Nothing}]]
       /\ \A p \in ps : copy'[p][x] = k
       /\ \A p \in Key!Places, y \in Key!Prefixes : p \notin ps \/ y # x => copy'[p][y] = copy[p][y]
  BY <1>5, <1>9
<1>11. Key!Known' = Key!Known
  BY <1>0 DEF Key!Known
<1>12. stale' \subseteq Key!Places \X Keys
  <2>1. stale \subseteq Key!Places \X Keys
    BY DEF KeysStrong, Key!KeysInv, Key!KeysTypeOK
  <2>2. ps \X {k.id} \subseteq Key!Places \X Keys
    BY <1>2, <1>9
  <2> QED
    BY <1>5, <2>1, <2>2
<1>13. Key!KeysTypeOK'
  <2>1. \A t \in Callers : RequestOK(request'[t])
    BY <1>7, <1>8 DEF KeysStrong, Key!KeysInv, Key!KeysTypeOK, RequestOK
  <2> QED
    BY <1>0, <1>10, <1>11, <1>12, <2>1 DEF KeysStrong, Key!KeysInv, Key!KeysTypeOK, RequestOK
<1>14. CopiesOK'
  BY <1>0, <1>2, <1>3, <1>7, <1>8, <1>10, <1>11 DEF KeysStrong, CopiesOK
<1>15. Key!RevokedCopiesAreKnown'
  <2> SUFFICES ASSUME NEW p \in Key!Places, NEW y \in Key!Prefixes, copy'[p][y] # Nothing,
                      row[copy'[p][y].id].revoked, ~copy'[p][y].revoked
               PROVE  \/ <<p, copy'[p][y].id>> \in stale'
                      \/ \E t \in Callers : request'[t] = [at |-> "invalidate", id |-> copy'[p][y].id]
    BY <1>0 DEF Key!RevokedCopiesAreKnown
  <2>1. CASE p \in ps /\ y = x
    <3>1. copy'[p][y] = k
      BY <1>10, <2>1
    <3>2. <<p, k.id>> \in ps \X {k.id}
      BY <2>1
    <3>3. row[k.id].revoked # k.revoked
      BY <3>1
    <3>4. <<p, k.id>> \in stale'
      BY <1>5, <3>2, <3>3
    <3> QED
      BY <3>1, <3>4
  <2>2. CASE p \notin ps \/ y # x
    <3>1. copy'[p][y] = copy[p][y]
      BY <1>10, <2>2
    <3>2. \/ <<p, copy[p][y].id>> \in stale
          \/ \E t \in Callers : request[t] = [at |-> "invalidate", id |-> copy[p][y].id]
      BY <3>1 DEF KeysStrong, Key!KeysInv, Key!RevokedCopiesAreKnown
    <3>3. ASSUME NEW t \in Callers, request[t] = [at |-> "invalidate", id |-> copy[p][y].id]
          PROVE  request'[t] = request[t]
      BY <1>0, <1>8, <3>3
    <3>4. ASSUME <<p, copy[p][y].id>> \in stale PROVE <<p, copy[p][y].id>> \in stale'
      <4>1. PrefixOf[copy[p][y].id] = y
        BY <3>1 DEF KeysStrong, CopiesOK
      <4>2. <<p, copy[p][y].id>> \notin Key!Freshened(ps, x)
        BY <2>2, <4>1 DEF Key!Freshened
      <4> QED
        BY <1>5, <3>4, <4>2
    <3> QED
      BY <3>1, <3>2, <3>3, <3>4
  <2> QED
    BY <2>1, <2>2
<1>16. Key!DelegationNeverWidens'
  BY <1>0, <1>11 DEF KeysStrong, Key!KeysInv, Key!DelegationNeverWidens
<1> QED
  BY <1>13, <1>14, <1>15, <1>16 DEF KeysStrong, Key!KeysInv

\* A copy goes, at the end of its time.
LEMMA ExpireKeys ==
  ASSUME Key!KeysAssumption, KeysStrong, NEW p \in Key!Places, NEW x \in Key!Prefixes,
         Key!CopyExpires(p, x)
  PROVE  KeysStrong'
<1>1. /\ copy' = [copy EXCEPT ![p][x] = Nothing] /\ UNCHANGED <<row, request, now, mishaps>>
      /\ stale' = stale \ Key!Freshened({p}, x)
  BY DEF Key!CopyExpires
<1>2. /\ copy' \in [Key!Places -> [Key!Prefixes -> Key!Rows \cup {Nothing}]]
      /\ copy'[p][x] = Nothing
      /\ \A q \in Key!Places, y \in Key!Prefixes : q # p \/ y # x => copy'[q][y] = copy[q][y]
  BY <1>1 DEF KeysStrong, Key!KeysInv, Key!KeysTypeOK
<1>3. Key!Known' = Key!Known
  BY <1>1 DEF Key!Known
<1>4. Key!KeysTypeOK'
  BY <1>1, <1>2, <1>3 DEF KeysStrong, Key!KeysInv, Key!KeysTypeOK
<1>5. CopiesOK'
  BY <1>1, <1>2, <1>3 DEF KeysStrong, CopiesOK
<1>6. Key!RevokedCopiesAreKnown'
  <2> SUFFICES ASSUME NEW q \in Key!Places, NEW y \in Key!Prefixes, copy'[q][y] # Nothing,
                      row[copy'[q][y].id].revoked, ~copy'[q][y].revoked
               PROVE  \/ <<q, copy'[q][y].id>> \in stale'
                      \/ \E t \in Callers : request[t] = [at |-> "invalidate", id |-> copy'[q][y].id]
    BY <1>1 DEF Key!RevokedCopiesAreKnown
  <2>1. (q # p \/ y # x) /\ copy'[q][y] = copy[q][y]
    BY <1>2
  <2>2. \/ <<q, copy[q][y].id>> \in stale
        \/ \E t \in Callers : request[t] = [at |-> "invalidate", id |-> copy[q][y].id]
    BY <2>1 DEF KeysStrong, Key!KeysInv, Key!RevokedCopiesAreKnown
  <2>3. PrefixOf[copy[q][y].id] = y
    BY <2>1 DEF KeysStrong, CopiesOK
  <2>4. <<q, copy[q][y].id>> \notin Key!Freshened({p}, x)
    BY <2>1, <2>3 DEF Key!Freshened
  <2> QED
    BY <1>1, <2>1, <2>2, <2>4
<1>7. Key!DelegationNeverWidens'
  BY <1>1, <1>3 DEF KeysStrong, Key!KeysInv, Key!DelegationNeverWidens
<1> QED
  BY <1>4, <1>5, <1>6, <1>7 DEF KeysStrong, Key!KeysInv

\* The end of a deletion, whether it reached its places ps or none: the copies
\* of the key that are left are recorded as stale.
LEMMA EndDeletion ==
  ASSUME Key!KeysAssumption, KeysStrong, NEW s \in Callers, request[s].at = "invalidate",
         NEW ps \in SUBSET Key!Places, NEW k \in Keys, k = request[s].id, NEW x \in Key!Prefixes,
         x = PrefixOf[k],
         copy' = [p \in Key!Places |-> IF p \in ps THEN [copy[p] EXCEPT ![x] = Nothing] ELSE copy[p]],
         stale' = (stale \ Key!Freshened(ps, x)) \cup Key!LeftAt(Key!Places \ ps, k),
         Key!Becomes(s, Key!Idle), UNCHANGED <<row, now>>, mishaps' \in 0 .. MaxMishaps
  PROVE  KeysStrong'
<1>1. /\ request'[s] = Key!Idle /\ \A t \in Callers \ {s} : request'[t] = request[t]
      /\ request' = [t \in Callers |-> request'[t]]
  BY OneRequest
<1>2. copy \in [Key!Places -> [Key!Prefixes -> Key!Rows \cup {Nothing}]]
  BY DEF KeysStrong, Key!KeysInv, Key!KeysTypeOK
<1>3. /\ copy' \in [Key!Places -> [Key!Prefixes -> Key!Rows \cup {Nothing}]]
      /\ \A p \in ps : copy'[p][x] = Nothing
      /\ \A p \in Key!Places, y \in Key!Prefixes : p \notin ps \/ y # x => copy'[p][y] = copy[p][y]
  BY <1>2
<1>4. Key!Known' = Key!Known
  BY DEF Key!Known
<1>5. stale' \subseteq Key!Places \X Keys
  BY DEF KeysStrong, Key!KeysInv, Key!KeysTypeOK, Key!LeftAt
<1>6. Key!KeysTypeOK'
  <2>1. \A t \in Callers : RequestOK(request'[t])
    BY <1>1 DEF KeysStrong, Key!KeysInv, Key!KeysTypeOK, RequestOK
  <2> QED
    BY <1>3, <1>4, <1>5, <2>1 DEF KeysStrong, Key!KeysInv, Key!KeysTypeOK, RequestOK
<1>7. CopiesOK'
  BY <1>1, <1>3, <1>4 DEF KeysStrong, CopiesOK, Key!Idle
<1>8. Key!RevokedCopiesAreKnown'
  <2> SUFFICES ASSUME NEW p \in Key!Places, NEW y \in Key!Prefixes, copy'[p][y] # Nothing,
                      row[copy'[p][y].id].revoked, ~copy'[p][y].revoked
               PROVE  \/ <<p, copy'[p][y].id>> \in stale'
                      \/ \E t \in Callers : request'[t] = [at |-> "invalidate", id |-> copy'[p][y].id]
    BY DEF Key!RevokedCopiesAreKnown
  <2>1. (p \notin ps \/ y # x) /\ copy'[p][y] = copy[p][y]
    BY <1>3
  <2>2. PrefixOf[copy[p][y].id] = y
    BY <2>1 DEF KeysStrong, CopiesOK
  <2>3. CASE copy[p][y].id = k
    <3>1. y = x /\ p \in Key!Places \ ps
      BY <2>1, <2>2, <2>3
    <3>2. <<p, k>> \in Key!LeftAt(Key!Places \ ps, k)
      BY <2>1, <2>3, <3>1 DEF Key!LeftAt
    <3> QED
      BY <2>1, <2>3, <3>2
  <2>4. CASE copy[p][y].id # k
    <3>1. \/ <<p, copy[p][y].id>> \in stale
          \/ \E t \in Callers : request[t] = [at |-> "invalidate", id |-> copy[p][y].id]
      BY <2>1 DEF KeysStrong, Key!KeysInv, Key!RevokedCopiesAreKnown
    <3>2. ASSUME NEW t \in Callers, request[t] = [at |-> "invalidate", id |-> copy[p][y].id]
          PROVE  request'[t] = request[t]
      BY <1>1, <2>4, <3>2
    <3>3. <<p, copy[p][y].id>> \notin Key!Freshened(ps, x)
      BY <2>1, <2>2 DEF Key!Freshened
    <3> QED
      BY <2>1, <3>1, <3>2, <3>3
  <2> QED
    BY <2>3, <2>4
<1>9. Key!DelegationNeverWidens'
  BY <1>4 DEF KeysStrong, Key!KeysInv, Key!DelegationNeverWidens
<1> QED
  BY <1>6, <1>7, <1>8, <1>9 DEF KeysStrong, Key!KeysInv

\* The key of a deletion under way.
LEMMA DeletedKey ==
  ASSUME KeysStrong, NEW s \in Callers, request[s].at = "invalidate"
  PROVE  request[s].id \in Key!Known /\ request[s].id \in Keys
BY DEF KeysStrong, Key!KeysInv, Key!KeysTypeOK, Key!Idle, Key!Known

\* The copies at the server and in the shared cache are deleted.
LEMMA InvalidateKeys ==
  ASSUME Key!KeysAssumption, KeysStrong, NEW s \in Callers, Key!Invalidate(s)
  PROVE  KeysStrong'
<1>0. request[s].at = "invalidate"
  BY DEF Key!Invalidate
<1>1. PICK k \in Keys : k = request[s].id
  BY <1>0, DeletedKey
<1>2. PICK x \in Key!Prefixes : x = PrefixOf[k]
  BY DEF Key!Prefixes
<1>3. PICK ps \in SUBSET Key!Places : ps = {s, "shared"}
  BY DEF Key!Places
<1>4. /\ copy' = [p \in Key!Places |-> IF p \in ps THEN [copy[p] EXCEPT ![x] = Nothing] ELSE copy[p]]
      /\ stale' = (stale \ Key!Freshened(ps, x)) \cup Key!LeftAt(Key!Places \ ps, k)
      /\ Key!Becomes(s, Key!Idle) /\ UNCHANGED <<row, now>>
  BY <1>1, <1>2, <1>3 DEF Key!Invalidate
<1>5. mishaps' \in 0 .. MaxMishaps
  BY DEF Key!Invalidate, KeysStrong, Key!KeysInv, Key!KeysTypeOK
<1> QED
  BY <1>0, <1>1, <1>2, <1>4, <1>5, EndDeletion

\* The deletion fails or its server dies.
LEMMA InvalidateFailsKeys ==
  ASSUME Key!KeysAssumption, KeysStrong, NEW s \in Callers, Key!InvalidateFails(s)
  PROVE  KeysStrong'
<1>0. request[s].at = "invalidate"
  BY DEF Key!InvalidateFails
<1>1. PICK k \in Keys : k = request[s].id
  BY <1>0, DeletedKey
<1>2. PICK x \in Key!Prefixes : x = PrefixOf[k]
  BY DEF Key!Prefixes
<1>3. PICK ps \in SUBSET Key!Places : ps = {}
  OBVIOUS
<1>4. copy' = [p \in Key!Places |-> IF p \in ps THEN [copy[p] EXCEPT ![x] = Nothing] ELSE copy[p]]
  BY <1>3 DEF Key!InvalidateFails, KeysStrong, Key!KeysInv, Key!KeysTypeOK
<1>5. stale' = (stale \ Key!Freshened(ps, x)) \cup Key!LeftAt(Key!Places \ ps, k)
  <2>1. Key!Places \ ps = Key!Places /\ Key!Freshened(ps, x) = {}
    BY <1>3 DEF Key!Freshened
  <2>2. stale' = stale \cup Key!LeftAt(Key!Places, k)
    BY <1>1 DEF Key!InvalidateFails
  <2> QED
    BY <2>1, <2>2
<1>6. mishaps' \in 0 .. MaxMishaps /\ Key!Becomes(s, Key!Idle) /\ UNCHANGED <<row, now>>
  BY DEF Key!InvalidateFails, KeysStrong, Key!KeysInv, Key!KeysTypeOK, Key!KeysAssumption
<1> QED
  BY <1>0, <1>1, <1>2, <1>4, <1>5, <1>6, EndDeletion

\* What a row allows is what its scopes allow: no key can grant more.
LEMMA GrantsAreCovered ==
  ASSUME NEW caller, NEW requested, Key!CanGrantScopes(caller, requested), NEW resource, NEW action,
         Key!HasPermission(requested, resource, action)
  PROVE  Key!HasPermission(caller, resource, action)
<1>1. PICK r \in requested : r.resource \in {"*", resource} /\ r.action \in {"*", action}
  BY DEF Key!HasPermission
<1>2. PICK c \in caller : c.resource \in {"*", r.resource} /\ c.action \in {"*", r.action}
  BY DEF Key!CanGrantScopes, Key!ScopeCovers
<1> QED
  BY <1>1, <1>2 DEF Key!HasPermission

\* A step that changes the row of one key to r.
LEMMA RowOfKey ==
  ASSUME KeysStrong, NEW k \in Keys, NEW r \in Key!Rows, row' = [row EXCEPT ![k] = r], r.id = k,
         Key!KeysAssumption
  PROVE  /\ row' \in [Keys -> Key!Rows \cup {Nothing}]
         /\ row'[k] = r /\ \A j \in Keys \ {k} : row'[j] = row[j]
         /\ Key!Known' = Key!Known \cup {k}
         /\ \A j \in Key!Known' : row'[j].id = j
<1>1. row \in [Keys -> Key!Rows \cup {Nothing}] /\ r # Nothing
  BY DEF KeysStrong, Key!KeysInv, Key!KeysTypeOK, Key!KeysAssumption
<1>2. row'[k] = r /\ \A j \in Keys \ {k} : row'[j] = row[j]
  BY <1>1
<1>3. Key!Known' = Key!Known \cup {k}
  BY <1>1, <1>2 DEF Key!Known
<1>4. \A j \in Key!Known' : row'[j].id = j
  BY <1>2, <1>3 DEF KeysStrong, CopiesOK, Key!Known
<1> QED
  BY <1>1, <1>2, <1>3, <1>4

\* A key is created by the master key or by a key of its owner.
LEMMA CreateKeys ==
  ASSUME Key!KeysAssumption, KeysStrong, NEW s \in Callers, NEW k \in Keys, NEW o \in Owners,
         NEW sc \in ScopeSets, NEW e \in Lifetimes, Key!CreateAPIKey(s, k, o, sc, e)
  PROVE  KeysStrong'
<1>1. PICK principal \in Key!Rows \cup {Nothing} : principal = request[s].principal
  BY DEF KeysStrong, Key!KeysInv, Key!KeysTypeOK, Key!Idle, Key!CreateAPIKey
<1>2. PICK owner : owner = Key!ResolveAPIKeyOwner(principal, o)
  OBVIOUS
<1>3. /\ request[s].at = "create" /\ row[k] = Nothing /\ Key!Becomes(s, Key!Idle)
      /\ UNCHANGED <<copy, stale, now, mishaps>>
  BY DEF Key!CreateAPIKey, Key!Fresh
<1>4. RequestOK(Key!Idle) /\ Key!Idle.at = "idle"
  BY DEF RequestOK, Key!Idle
<1>5. CASE UNCHANGED row
  BY <1>3, <1>4, <1>5, RequestStep
<1>6. CASE row' # row
  <2>1. PICK r : r = Key!NewAPIKey(k, owner, sc, e, principal)
    OBVIOUS
  <2>2. /\ owner # Nothing /\ Key!ValidateGrantedScopes(principal, sc)
        /\ row' = [row EXCEPT ![k] = r]
    BY <1>1, <1>2, <1>6, <2>1 DEF Key!CreateAPIKey
  <2>3. owner = o /\ (principal # Nothing => o = principal.owner /\ Key!CanGrantScopes(principal.scopes, sc))
    BY <1>2, <2>2 DEF Key!ResolveAPIKeyOwner, Key!ValidateGrantedScopes
  <2>4. sc \in SUBSET Key!Scopes /\ e \in 0 .. MaxTime + 1
    BY DEF Key!KeysAssumption
  <2>5. PICK creator : creator = IF principal = Nothing THEN Nothing
                                 ELSE [owner |-> principal.owner, scopes |-> principal.scopes]
    OBVIOUS
  <2>6. /\ creator \in {Nothing} \cup [owner : Owners, scopes : SUBSET Key!Scopes]
        /\ creator # Nothing => /\ principal # Nothing /\ creator.owner = principal.owner
                              /\ creator.scopes = principal.scopes
    BY <1>1, <2>5 DEF Key!Rows
  <2>7. r = [id |-> k, owner |-> o, scopes |-> sc, expires |-> e, revoked |-> FALSE, creator |-> creator]
    BY <2>1, <2>3, <2>5 DEF Key!NewAPIKey
  <2>8. r \in Key!Rows /\ r.id = k /\ r.revoked = FALSE
    BY <2>4, <2>6, <2>7 DEF Key!Rows
  <2>9. /\ row' \in [Keys -> Key!Rows \cup {Nothing}]
        /\ row'[k] = r /\ \A j \in Keys \ {k} : row'[j] = row[j]
        /\ Key!Known' = Key!Known \cup {k}
        /\ \A j \in Key!Known' : row'[j].id = j
    BY <2>2, <2>8, RowOfKey
  <2>10. /\ request'[s] = Key!Idle /\ \A t \in Callers \ {s} : request'[t] = request[t]
         /\ request' = [t \in Callers |-> request'[t]]
    BY <1>3, OneRequest
  <2>11. Key!KeysTypeOK'
    <3>1. \A t \in Callers : RequestOK(request'[t])
      BY <1>4, <2>10 DEF KeysStrong, Key!KeysInv, Key!KeysTypeOK, RequestOK
    <3>2. Key!Known \subseteq Key!Known'
      BY <2>9
    <3> QED
      BY <1>3, <2>9, <3>1, <3>2 DEF KeysStrong, Key!KeysInv, Key!KeysTypeOK, RequestOK
  <2>12. CopiesOK'
    BY <1>3, <1>4, <2>9, <2>10 DEF KeysStrong, CopiesOK
  <2>13. Key!RevokedCopiesAreKnown'
    <3> SUFFICES ASSUME NEW p \in Key!Places, NEW y \in Key!Prefixes, copy[p][y] # Nothing,
                        row'[copy[p][y].id].revoked, ~copy[p][y].revoked
                 PROVE  \/ <<p, copy[p][y].id>> \in stale
                        \/ \E t \in Callers : request'[t] = [at |-> "invalidate", id |-> copy[p][y].id]
      BY <1>3 DEF Key!RevokedCopiesAreKnown
    <3>1. copy[p][y].id \in Key!Known /\ k \notin Key!Known
      BY <1>3 DEF KeysStrong, CopiesOK, Key!Known
    <3>2. row'[copy[p][y].id] = row[copy[p][y].id]
      BY <2>9, <3>1 DEF Key!Known
    <3>3. \/ <<p, copy[p][y].id>> \in stale
          \/ \E t \in Callers : request[t] = [at |-> "invalidate", id |-> copy[p][y].id]
      BY <3>2 DEF KeysStrong, Key!KeysInv, Key!RevokedCopiesAreKnown
    <3>4. ASSUME NEW t \in Callers, request[t] = [at |-> "invalidate", id |-> copy[p][y].id]
          PROVE  request'[t] = request[t]
      BY <1>3, <2>10, <3>4
    <3> QED
      BY <3>3, <3>4
  <2>14. Key!DelegationNeverWidens'
    <3> SUFFICES ASSUME NEW j \in Key!Known', row'[j].creator # Nothing
                 PROVE  /\ row'[j].owner = row'[j].creator.owner
                        /\ \A resource \in Resources, action \in Key!Actions :
                             Key!HasPermission(row'[j].scopes, resource, action) =>
                               Key!HasPermission(row'[j].creator.scopes, resource, action)
      BY DEF Key!DelegationNeverWidens, Key!HasPermission
    <3>1. CASE j = k
      <4>1. /\ row'[j].owner = o /\ row'[j].scopes = sc /\ row'[j].creator = creator
        BY <2>7, <2>9, <3>1
      <4>2. /\ principal # Nothing /\ creator.owner = principal.owner
            /\ creator.scopes = principal.scopes
        BY <2>6, <4>1
      <4> QED
        BY <2>3, <4>1, <4>2, GrantsAreCovered
    <3>2. CASE j # k
      <4>1. j \in Key!Known /\ row'[j] = row[j]
        BY <2>9, <3>2 DEF Key!Known
      <4> QED
        BY <4>1 DEF KeysStrong, Key!KeysInv, Key!DelegationNeverWidens
    <3> QED
      BY <3>1, <3>2
  <2> QED
    BY <2>11, <2>12, <2>13, <2>14 DEF KeysStrong, Key!KeysInv
<1> QED
  BY <1>5, <1>6

\* The row is revoked; its server goes on to delete the copies.
LEMMA RevokeKeys ==
  ASSUME Key!KeysAssumption, KeysStrong, NEW s \in Callers, NEW k \in Keys, NEW o \in Owners,
         Key!RevokeRow(s, k, o)
  PROVE  KeysStrong'
<1>1. request[s].at = "revoke" /\ UNCHANGED <<copy, stale, now, mishaps>>
  BY DEF Key!RevokeRow
<1>2. RequestOK(Key!Idle) /\ Key!Idle.at = "idle"
  BY DEF RequestOK, Key!Idle
<1>3. CASE Key!Becomes(s, Key!Idle) /\ UNCHANGED row
  BY <1>1, <1>2, <1>3, RequestStep
<1>4. CASE ~(Key!Becomes(s, Key!Idle) /\ UNCHANGED row)
  <2>1. /\ k \in Key!Known /\ row' = [row EXCEPT ![k].revoked = TRUE]
        /\ Key!Becomes(s, [at |-> "invalidate", id |-> k])
    BY <1>4 DEF Key!RevokeRow
  <2>2. row[k] \in Key!Rows /\ row[k].id = k
    BY <2>1 DEF KeysStrong, CopiesOK, Key!KeysInv, Key!KeysTypeOK, Key!Known
  <2>3. PICK r : r = [row[k] EXCEPT !.revoked = TRUE]
    OBVIOUS
  <2>4. /\ r \in Key!Rows /\ r.id = k /\ r.owner = row[k].owner /\ r.scopes = row[k].scopes
        /\ r.creator = row[k].creator
    BY <2>2, <2>3 DEF Key!Rows
  <2>5. row' = [row EXCEPT ![k] = r]
    BY <2>1, <2>3
  <2>6. /\ row' \in [Keys -> Key!Rows \cup {Nothing}]
        /\ row'[k] = r /\ \A j \in Keys \ {k} : row'[j] = row[j]
        /\ Key!Known' = Key!Known
        /\ \A j \in Key!Known' : row'[j].id = j
    <3>1. /\ row' \in [Keys -> Key!Rows \cup {Nothing}]
          /\ row'[k] = r /\ \A j \in Keys \ {k} : row'[j] = row[j]
          /\ Key!Known' = Key!Known \cup {k}
          /\ \A j \in Key!Known' : row'[j].id = j
      BY <2>4, <2>5, RowOfKey
    <3>2. Key!Known' = Key!Known
      BY <2>1, <3>1
    <3> QED
      BY <3>1, <3>2
  <2>7. PICK q : q = [at |-> "invalidate", id |-> k]
    OBVIOUS
  <2>8. RequestOK(q) /\ q.at = "invalidate"
    BY <2>1, <2>7 DEF RequestOK
  <2>9. /\ request'[s] = q /\ \A t \in Callers \ {s} : request'[t] = request[t]
        /\ request' = [t \in Callers |-> request'[t]]
    BY <2>1, <2>7, OneRequest
  <2>10. Key!KeysTypeOK'
    <3>1. \A t \in Callers : RequestOK(request'[t])
      BY <2>8, <2>9 DEF KeysStrong, Key!KeysInv, Key!KeysTypeOK, RequestOK
    <3> QED
      BY <1>1, <2>6, <3>1 DEF KeysStrong, Key!KeysInv, Key!KeysTypeOK, RequestOK
  <2>11. CopiesOK'
    BY <1>1, <2>6, <2>8, <2>9 DEF KeysStrong, CopiesOK
  <2>12. Key!RevokedCopiesAreKnown'
    <3> SUFFICES ASSUME NEW p \in Key!Places, NEW y \in Key!Prefixes, copy[p][y] # Nothing,
                        row'[copy[p][y].id].revoked, ~copy[p][y].revoked
                 PROVE  \/ <<p, copy[p][y].id>> \in stale
                        \/ \E t \in Callers : request'[t] = [at |-> "invalidate", id |-> copy[p][y].id]
      BY <1>1 DEF Key!RevokedCopiesAreKnown
    <3>1. CASE copy[p][y].id = k
      BY <2>7, <2>9, <3>1
    <3>2. CASE copy[p][y].id # k
      <4>1. row'[copy[p][y].id] = row[copy[p][y].id]
        BY <2>6, <3>2 DEF KeysStrong, CopiesOK, Key!Known
      <4>2. \/ <<p, copy[p][y].id>> \in stale
            \/ \E t \in Callers : request[t] = [at |-> "invalidate", id |-> copy[p][y].id]
        BY <4>1 DEF KeysStrong, Key!KeysInv, Key!RevokedCopiesAreKnown
      <4>3. ASSUME NEW t \in Callers, request[t] = [at |-> "invalidate", id |-> copy[p][y].id]
            PROVE  request'[t] = request[t]
        BY <1>1, <2>9, <4>3
      <4> QED
        BY <4>2, <4>3
    <3> QED
      BY <3>1, <3>2
  <2>13. Key!DelegationNeverWidens'
    <3> SUFFICES ASSUME NEW j \in Key!Known', row'[j].creator # Nothing
                 PROVE  /\ row'[j].owner = row'[j].creator.owner
                        /\ \A resource \in Resources, action \in Key!Actions :
                             Key!HasPermission(row'[j].scopes, resource, action) =>
                               Key!HasPermission(row'[j].creator.scopes, resource, action)
      BY DEF Key!DelegationNeverWidens, Key!HasPermission
    <3>1. /\ j \in Key!Known /\ row'[j].owner = row[j].owner
          /\ row'[j].scopes = row[j].scopes /\ row'[j].creator = row[j].creator
      BY <2>4, <2>6 DEF Key!Known
    <3> QED
      BY <3>1 DEF KeysStrong, Key!KeysInv, Key!DelegationNeverWidens
  <2> QED
    BY <2>10, <2>11, <2>12, <2>13 DEF KeysStrong, Key!KeysInv
<1> QED
  BY <1>3, <1>4

\* Every step keeps KeysStrong.
LEMMA KeysNext ==
  ASSUME Key!KeysAssumption, KeysStrong, [Key!KeyNext]_(Key!keyVars)
  PROVE  KeysStrong'
<1>1. ASSUME UNCHANGED <<row, copy, request, stale, mishaps>>, now' \in 0 .. MaxTime PROVE KeysStrong'
  <2>1. Key!Known' = Key!Known
    BY <1>1 DEF Key!Known
  <2>2. Key!KeysTypeOK' /\ CopiesOK'
    BY <1>1, <2>1 DEF KeysStrong, Key!KeysInv, Key!KeysTypeOK, CopiesOK
  <2>3. Key!RevokedCopiesAreKnown' /\ Key!DelegationNeverWidens'
    BY <1>1, <2>1 DEF KeysStrong, Key!KeysInv, Key!RevokedCopiesAreKnown, Key!DelegationNeverWidens
  <2> QED
    BY <2>2, <2>3 DEF KeysStrong, Key!KeysInv
<1>2. CASE UNCHANGED Key!keyVars
  BY <1>1, <1>2 DEF Key!keyVars, KeysStrong, Key!KeysInv, Key!KeysTypeOK
<1>3. CASE Key!Tick
  BY <1>1, <1>3 DEF Key!Tick, KeysStrong, Key!KeysInv, Key!KeysTypeOK, Key!KeysAssumption
<1>4. ASSUME NEW s \in Callers, Key!Authenticate(s) \/ Key!Handle(s) PROVE KeysStrong'
  BY <1>4, LookUpKeys, ReadKeys, FillKeys, CreateKeys, RevokeKeys, InvalidateKeys, InvalidateFailsKeys
  DEF Key!Authenticate, Key!Handle
<1> QED
  BY <1>2, <1>3, <1>4, ExpireKeys DEF Key!KeyNext

(***************************************************************************)
(* Balances by indicator.  Rows with the same key are the same row, and a  *)
(* lookup that is over has that one.                                       *)
(***************************************************************************)
LookupRows == [key : Indicators \cup {Nothing}, stage : {"create", "look", "done"}, got : 0 .. MaxIds]

IndicatorsStrong ==
  /\ Ind!IndicatorsTypeOK
  /\ \A r, s \in balance : r.key = s.key => r.id = s.id
  /\ \A c \in Lookups : lookup[c].stage # "done" => lookup[c].key \in Indicators
  /\ \A c \in Lookups :
       lookup[c].key # Nothing /\ lookup[c].stage = "done" =>
         lookup[c].got \in Ind!GetBalanceByIndicator(lookup[c].key)

\* One row of a key at most.
LEMMA OneRow == ASSUME IndicatorsStrong PROVE Ind!OneBalancePerIndicator
<1>1. ASSUME NEW k \in Indicators PROVE Ind!Cardinality(Ind!GetBalanceByIndicator(k)) <= 1
  <2>1. PICK S : S = Ind!GetBalanceByIndicator(k)
    OBVIOUS
  <2>2. \A x, y \in S : x = y
    BY <2>1 DEF Ind!GetBalanceByIndicator, IndicatorsStrong
  <2>3. S = {} \/ \E x : S = {x}
    BY <2>2
  <2>4. Cardinality(S) <= 1
    <3>1. CASE S = {}
      BY <3>1, FS_EmptySet
    <3>2. ASSUME NEW x, S = {x} PROVE Cardinality(S) <= 1
      <4>1. Cardinality(S) = 1
        BY <3>2, FS_Singleton
      <4> QED
        BY <4>1
    <3> QED
      BY <2>3, <3>1, <3>2
  <2>5. Ind!Cardinality(S) = Cardinality(S)
    BY DEF Ind!Cardinality, Cardinality
  <2> QED
    BY <2>1, <2>4, <2>5
<1> QED
  BY <1>1 DEF IndicatorsStrong, Ind!OneBalancePerIndicator

\* The ids of a key after a row was added for another one, or for a key that
\* had none.
LEMMA CreateIndicators ==
  ASSUME Ind!IndicatorsAssumption, IndicatorsStrong, NEW k \in Indicators, Ind!CreateBalance(k)
  PROVE  /\ \A r \in balance' : r.id \in 1 .. ids' /\ r.key \in Indicators
         /\ ids' \in 0 .. MaxIds /\ balance \subseteq balance'
         /\ posted' \subseteq {0} \cup {r.id : r \in balance'}
         /\ \A r, s \in balance' : r.key = s.key => r.id = s.id
<1>1. PICK n : n = [id |-> ids + 1, key |-> k]
  OBVIOUS
<1>2. n.id = ids + 1 /\ n.key = k
  BY <1>1
<1>3. ids \in Nat /\ ids' = ids + 1 /\ ids' \in 0 .. MaxIds
  BY DEF Ind!CreateBalance, IndicatorsStrong, Ind!IndicatorsTypeOK, Ind!IndicatorsAssumption
<1>4. \A r \in balance : r.id \in 1 .. ids' /\ r.key \in Indicators
  BY <1>3 DEF IndicatorsStrong, Ind!IndicatorsTypeOK
<1>5. CASE Ind!GetBalanceByIndicator(k) # {}
  <2>1. balance' = balance
    BY <1>5 DEF Ind!CreateBalance, Ind!Insert
  <2>2. posted' = posted \cup {0}
    BY <2>1 DEF Ind!CreateBalance
  <2> QED
    BY <1>3, <1>4, <2>1, <2>2 DEF IndicatorsStrong, Ind!IndicatorsTypeOK
<1>6. CASE Ind!GetBalanceByIndicator(k) = {}
  <2>1. balance' = balance \cup {n}
    BY <1>1, <1>6 DEF Ind!CreateBalance, Ind!Insert
  <2>2. \A r \in balance : r.key # k
    BY <1>6 DEF Ind!GetBalanceByIndicator
  <2>3. \A r, s \in balance' : r.key = s.key => r.id = s.id
    BY <1>2, <2>1, <2>2 DEF IndicatorsStrong
  <2>4. posted' \subseteq posted \cup {0, n.id}
    BY <1>2 DEF Ind!CreateBalance
  <2>5. posted' \subseteq {0} \cup {r.id : r \in balance'}
    BY <2>1, <2>4 DEF IndicatorsStrong, Ind!IndicatorsTypeOK
  <2>6. n.id \in 1 .. ids' /\ n.key \in Indicators
    BY <1>2, <1>3
  <2> QED
    BY <1>3, <1>4, <2>1, <2>3, <2>5, <2>6
<1> QED
  BY <1>5, <1>6

\* Rows stay, and with them what lookups have found.
LEMMA IndicatorsNext ==
  ASSUME Ind!IndicatorsAssumption, IndicatorsStrong, [Ind!IndicatorNext]_(Ind!indicatorVars)
  PROVE  IndicatorsStrong'
<1>1. lookup \in [Lookups -> LookupRows]
  BY DEF IndicatorsStrong, Ind!IndicatorsTypeOK, LookupRows
<1>2. ASSUME balance \subseteq balance', NEW k
      PROVE  Ind!GetBalanceByIndicator(k) \subseteq Ind!GetBalanceByIndicator(k)'
  BY <1>2 DEF Ind!GetBalanceByIndicator
<1>3. \A k : Ind!GetBalanceByIndicator(k) \subseteq 0 .. MaxIds
  BY DEF Ind!GetBalanceByIndicator, IndicatorsStrong, Ind!IndicatorsTypeOK, Ind!IndicatorsAssumption
<1>4. ASSUME NEW c \in Lookups, NEW n \in LookupRows, lookup' = [lookup EXCEPT ![c] = n],
             \A r \in balance' : r.id \in 1 .. ids' /\ r.key \in Indicators,
             ids' \in 0 .. MaxIds, balance \subseteq balance',
             posted' \subseteq {0} \cup {r.id : r \in balance'},
             \A r, s \in balance' : r.key = s.key => r.id = s.id,
             n.stage # "done" => n.key \in Indicators,
             n.key # Nothing /\ n.stage = "done" => n.got \in Ind!GetBalanceByIndicator(n.key)
      PROVE  IndicatorsStrong'
  <2>1. /\ lookup'[c] = n /\ \A d \in Lookups \ {c} : lookup'[d] = lookup[d]
        /\ lookup' \in [Lookups -> LookupRows]
    BY <1>1, <1>4
  <2>2. Ind!IndicatorsTypeOK'
    BY <1>4, <2>1 DEF Ind!IndicatorsTypeOK, LookupRows
  <2>3. ASSUME NEW d \in Lookups, lookup'[d].key # Nothing, lookup'[d].stage = "done"
        PROVE  (lookup[d].got \in Ind!GetBalanceByIndicator(lookup[d].key))'
    <3>1. PICK k : k = lookup'[d].key
      OBVIOUS
    <3>2. lookup'[d].got \in Ind!GetBalanceByIndicator(k)
      <4>1. CASE d = c
        BY <1>4, <2>1, <2>3, <3>1, <4>1
      <4>2. CASE d # c
        BY <2>1, <2>3, <3>1, <4>2 DEF IndicatorsStrong
      <4> QED
        BY <4>1, <4>2
    <3>3. lookup'[d].got \in Ind!GetBalanceByIndicator(k)'
      BY <1>2, <1>4, <3>2
    <3> QED
      BY <3>1, <3>3 DEF Ind!GetBalanceByIndicator
  <2>4. \A d \in Lookups : lookup'[d].stage # "done" => lookup'[d].key \in Indicators
    BY <1>4, <2>1 DEF IndicatorsStrong
  <2> QED
    BY <1>4, <2>2, <2>3, <2>4 DEF IndicatorsStrong
<1>5. /\ \A r \in balance : r.id \in 1 .. ids /\ r.key \in Indicators
      /\ ids \in 0 .. MaxIds /\ posted \subseteq {0} \cup {r.id : r \in balance}
      /\ \A r, s \in balance : r.key = s.key => r.id = s.id
  BY DEF IndicatorsStrong, Ind!IndicatorsTypeOK
<1>6. ASSUME NEW k \in Indicators, NEW c \in Lookups, Ind!Look(c, k) PROVE IndicatorsStrong'
  <2>1. UNCHANGED <<balance, ids, posted>>
    BY <1>6 DEF Ind!Look
  <2>2. ASSUME NEW i \in Ind!GetBalanceByIndicator(k),
               lookup' = [lookup EXCEPT ![c] = [key |-> k, stage |-> "done", got |-> i]]
        PROVE  IndicatorsStrong'
    <3>1. PICK n : n = [key |-> k, stage |-> "done", got |-> i]
      OBVIOUS
    <3>2. n \in LookupRows /\ n.key = k /\ n.stage = "done" /\ n.got = i
      BY <1>3, <3>1 DEF LookupRows
    <3> QED
      BY <1>4, <1>5, <2>1, <2>2, <3>1, <3>2
  <2>3. CASE lookup' = [lookup EXCEPT ![c] = [key |-> k, stage |-> "create", got |-> 0]]
    <3>1. PICK n : n = [key |-> k, stage |-> "create", got |-> 0]
      OBVIOUS
    <3>2. 0 \in 0 .. MaxIds
      BY DEF Ind!IndicatorsAssumption
    <3>3. n \in LookupRows /\ n.key = k /\ n.stage = "create"
      BY <3>1, <3>2 DEF LookupRows
    <3> QED
      BY <1>4, <1>5, <2>1, <2>3, <3>1, <3>3
  <2> QED
    BY <1>6, <2>2, <2>3 DEF Ind!Look
<1>7. ASSUME NEW c \in Lookups, Ind!LookupCreates(c) PROVE IndicatorsStrong'
  <2>1. lookup[c].key \in Indicators /\ lookup[c] \in LookupRows
    BY <1>1, <1>7 DEF Ind!LookupCreates, IndicatorsStrong
  <2>2. PICK k : k = lookup[c].key
    OBVIOUS
  <2>3. Ind!CreateBalance(k) /\ k \in Indicators
    BY <1>7, <2>1, <2>2 DEF Ind!LookupCreates
  <2>4. /\ \A r \in balance' : r.id \in 1 .. ids' /\ r.key \in Indicators
        /\ ids' \in 0 .. MaxIds /\ balance \subseteq balance'
        /\ posted' \subseteq {0} \cup {r.id : r \in balance'}
        /\ \A r, s \in balance' : r.key = s.key => r.id = s.id
    BY <2>3, CreateIndicators
  <2>5. PICK n : n = [lookup[c] EXCEPT !.stage = "look"]
    OBVIOUS
  <2>6. n \in LookupRows /\ n.stage = "look" /\ n.key = lookup[c].key
    BY <2>1, <2>5 DEF LookupRows
  <2>7. lookup' = [lookup EXCEPT ![c] = n]
    BY <1>7, <2>5 DEF Ind!LookupCreates
  <2> QED
    BY <1>4, <2>1, <2>4, <2>6, <2>7
<1>8. ASSUME NEW c \in Lookups, Ind!LookAgain(c) PROVE IndicatorsStrong'
  <2>1. UNCHANGED <<balance, ids, posted>> /\ lookup[c] \in LookupRows
    BY <1>1, <1>8 DEF Ind!LookAgain
  <2>2. PICK i \in Ind!GetBalanceByIndicator(lookup[c].key) :
          lookup' = [lookup EXCEPT ![c].stage = "done", ![c].got = i]
    BY <1>8 DEF Ind!LookAgain
  <2>3. PICK n : n = [key |-> lookup[c].key, stage |-> "done", got |-> i]
    OBVIOUS
  <2>4. lookup' = [lookup EXCEPT ![c] = n]
    <3>1. PICK m : m = [lookup[c] EXCEPT !.stage = "done", !.got = i]
      OBVIOUS
    <3>2. m = n
      <4>1. PICK l : l = lookup[c]
        OBVIOUS
      <4>2. l = [key |-> l.key, stage |-> l.stage, got |-> l.got]
        BY <2>1, <4>1 DEF LookupRows
      <4>3. m = [l EXCEPT !.stage = "done", !.got = i]
        BY <3>1, <4>1
      <4>4. m = [key |-> l.key, stage |-> "done", got |-> i]
        BY <4>2, <4>3
      <4> QED
        BY <2>3, <4>1, <4>4
    <3>3. lookup' = [lookup EXCEPT ![c] = m]
      BY <1>1, <2>2, <3>1
    <3> QED
      BY <3>2, <3>3
  <2>5. n \in LookupRows /\ n.stage = "done" /\ n.key = lookup[c].key /\ n.got = i
    BY <1>3, <2>1, <2>3 DEF LookupRows
  <2> QED
    BY <1>4, <1>5, <2>1, <2>2, <2>4, <2>5
<1>9. ASSUME NEW k \in Indicators, Ind!CreateBalanceRequest(k) PROVE IndicatorsStrong'
  <2>1. Ind!CreateBalance(k) /\ UNCHANGED lookup
    BY <1>9 DEF Ind!CreateBalanceRequest
  <2>2. /\ \A r \in balance' : r.id \in 1 .. ids' /\ r.key \in Indicators
        /\ ids' \in 0 .. MaxIds /\ balance \subseteq balance'
        /\ posted' \subseteq {0} \cup {r.id : r \in balance'}
        /\ \A r, s \in balance' : r.key = s.key => r.id = s.id
    BY <2>1, CreateIndicators
  <2>3. Ind!IndicatorsTypeOK'
    BY <2>1, <2>2 DEF IndicatorsStrong, Ind!IndicatorsTypeOK
  <2>4. ASSUME NEW d \in Lookups, lookup'[d].key # Nothing, lookup'[d].stage = "done"
        PROVE  (lookup[d].got \in Ind!GetBalanceByIndicator(lookup[d].key))'
    <3>1. PICK j : j = lookup'[d].key
      OBVIOUS
    <3>2. lookup'[d].got \in Ind!GetBalanceByIndicator(j)
      BY <2>1, <2>4, <3>1 DEF IndicatorsStrong
    <3>3. lookup'[d].got \in Ind!GetBalanceByIndicator(j)'
      BY <1>2, <2>2, <3>2
    <3> QED
      BY <3>1, <3>3 DEF Ind!GetBalanceByIndicator
  <2> QED
    BY <2>1, <2>2, <2>3, <2>4 DEF IndicatorsStrong
<1>10. CASE UNCHANGED Ind!indicatorVars
  BY <1>10 DEF Ind!indicatorVars, IndicatorsStrong, Ind!IndicatorsTypeOK, Ind!GetBalanceByIndicator
<1> QED
  BY <1>6, <1>7, <1>8, <1>9, <1>10 DEF Ind!IndicatorNext

\* IndicatorsStrong holds initially.
LEMMA IndicatorsInitially ==
  ASSUME Ind!IndicatorsAssumption, Ind!IndicatorInit PROVE IndicatorsStrong
<1>1. 0 \in 0 .. MaxIds
  BY DEF Ind!IndicatorsAssumption
<1>2. Ind!AtRest \in LookupRows /\ Ind!AtRest.key = Nothing /\ Ind!AtRest.stage = "done"
  BY <1>1 DEF LookupRows, Ind!AtRest
<1>3. lookup \in [Lookups -> LookupRows] /\ \A c \in Lookups : lookup[c] = Ind!AtRest
  BY <1>2 DEF Ind!IndicatorInit
<1>4. Ind!IndicatorsTypeOK
  BY <1>1, <1>3 DEF Ind!IndicatorInit, Ind!IndicatorsTypeOK, LookupRows
<1> QED
  BY <1>2, <1>3, <1>4 DEF IndicatorsStrong, Ind!IndicatorInit

(***************************************************************************)
(* Monitors.  A cached list that is neither out of date nor about to be    *)
(* deleted by a writer has the rows of its balance as they are.            *)
(***************************************************************************)
MonitorTypes ==
  /\ Mon!MonitorsTypeOK
  /\ cached = [b \in Watched |-> cached[b]] /\ reader = [r \in Readers |-> reader[r]]

ListsCurrent ==
  \A b \in Watched :
    cached[b] # Nothing /\ b \notin outdated /\ (\A w \in Callers : writer[w] # b) =>
      cached[b] = Mon!GetBalanceMonitors(b)

MonitorsStrong == MonitorTypes /\ ListsCurrent

\* One row changes: the lists of other balances than the one it was at and
\* the one it is at now stay as they are.
LEMMA OtherLists ==
  ASSUME Mon!MonitorsAssumption, MonitorsStrong, NEW m \in MonitorIds, NEW n \in Mon!Conditions \cup {Nothing},
         monitor' = [monitor EXCEPT ![m] = n], NEW b \in Watched,
         monitor[m] # Nothing => monitor[m].balance # b, n # Nothing => n.balance # b
  PROVE  Mon!GetBalanceMonitors(b)' = Mon!GetBalanceMonitors(b)
<1>1. monitor \in [MonitorIds -> Mon!Conditions \cup {Nothing}]
  BY DEF MonitorsStrong, MonitorTypes, Mon!MonitorsTypeOK
<1>2. monitor'[m] = n /\ \A x \in MonitorIds \ {m} : monitor'[x] = monitor[x]
  BY <1>1
<1>3. PICK S : S = {x \in MonitorIds : monitor[x] # Nothing /\ monitor[x].balance = b}
  OBVIOUS
<1>4. S = {x \in MonitorIds : monitor'[x] # Nothing /\ monitor'[x].balance = b} /\ m \notin S
  BY <1>2, <1>3
<1>5. Mon!GetBalanceMonitors(b) = {[id |-> x, row |-> monitor[x]] : x \in S}
  BY <1>3 DEF Mon!GetBalanceMonitors, Mon!Existing
<1>6. Mon!GetBalanceMonitors(b)' = {[id |-> x, row |-> monitor'[x]] : x \in S}
  BY <1>4 DEF Mon!GetBalanceMonitors, Mon!Existing
<1>7. \A x \in S : monitor'[x] = monitor[x]
  BY <1>2, <1>3, <1>4
<1> QED
  BY <1>5, <1>6, <1>7

\* A row changes and its writer has yet to delete a list; a row that moved has
\* left another one out of date.
LEMMA RowChanges ==
  ASSUME Mon!MonitorsAssumption, MonitorsStrong, NEW w \in Callers, NEW m \in MonitorIds,
         NEW n \in Mon!Conditions \cup {Nothing}, NEW b \in Watched, writer[w] = Nothing,
         monitor' = [monitor EXCEPT ![m] = n], writer' = [writer EXCEPT ![w] = b],
         UNCHANGED <<cached, reader, check, deaths>>, outdated \subseteq outdated', outdated' \subseteq Watched,
         monitor[m] # Nothing => monitor[m].balance = b \/ monitor[m].balance \in outdated',
         n # Nothing => n.balance = b
  PROVE  MonitorsStrong'
<1>1. /\ monitor \in [MonitorIds -> Mon!Conditions \cup {Nothing}]
      /\ writer \in [Callers -> Watched \cup {Nothing}]
  BY DEF MonitorsStrong, MonitorTypes, Mon!MonitorsTypeOK
<1>2. MonitorTypes'
  <2>1. /\ monitor' \in [MonitorIds -> Mon!Conditions \cup {Nothing}]
        /\ writer' \in [Callers -> Watched \cup {Nothing}]
    BY <1>1
  <2>2. Mon!Conditions' = Mon!Conditions
    BY DEF Mon!Conditions
  <2> QED
    BY <2>1, <2>2 DEF MonitorsStrong, MonitorTypes, Mon!MonitorsTypeOK
<1>3. writer'[w] = b /\ \A v \in Callers \ {w} : writer'[v] = writer[v]
  BY <1>1
<1>4. ASSUME NEW x \in Watched, cached[x] # Nothing, x \notin outdated', \A v \in Callers : writer'[v] # x
      PROVE  cached[x] = Mon!GetBalanceMonitors(x)'
  <2>1. x # b
    BY <1>3, <1>4
  <2>2. \A v \in Callers : writer[v] # x
    BY <1>3, <1>4 DEF Mon!MonitorsAssumption
  <2>3. cached[x] = Mon!GetBalanceMonitors(x)
    BY <1>4, <2>2 DEF MonitorsStrong, ListsCurrent
  <2>4. (monitor[m] # Nothing => monitor[m].balance # x) /\ (n # Nothing => n.balance # x)
    BY <1>4, <2>1
  <2>5. Mon!GetBalanceMonitors(x)' = Mon!GetBalanceMonitors(x)
    BY <2>4, OtherLists
  <2> QED
    BY <2>3, <2>5
<1> QED
  BY <1>2, <1>4 DEF MonitorsStrong, ListsCurrent

\* The change of a monitor.
LEMMA ChangeMonitors ==
  ASSUME Mon!MonitorsAssumption, MonitorsStrong, NEW w \in Callers, NEW m \in MonitorIds, Mon!Change(w, m)
  PROVE  MonitorsStrong'
<1>1. /\ monitor \in [MonitorIds -> Mon!Conditions \cup {Nothing}] /\ Nothing \notin Watched
      /\ outdated \subseteq Watched
  BY DEF MonitorsStrong, MonitorTypes, Mon!MonitorsTypeOK, Mon!MonitorsAssumption
<1>2. ASSUME NEW b \in Watched, NEW o \in Operators, NEW v \in Thresholds, Mon!CreateMonitor(w, m, b, o, v)
      PROVE  MonitorsStrong'
  <2>1. PICK n : n = Mon!Inserted(b, o, v, v)
    OBVIOUS
  <2>2. n \in Mon!Conditions /\ n.balance = b
    BY <2>1 DEF Mon!Inserted, Mon!Conditions
  <2>3. /\ writer[w] = Nothing /\ monitor[m] = Nothing
        /\ monitor' = [monitor EXCEPT ![m] = n] /\ writer' = [writer EXCEPT ![w] = b]
        /\ UNCHANGED <<cached, outdated, reader, check, deaths>>
    BY <1>2, <2>1 DEF Mon!CreateMonitor
  <2> QED
    BY <1>1, <2>2, <2>3, RowChanges
<1>3. ASSUME NEW b \in Watched, NEW o \in Operators, NEW v \in Thresholds, Mon!UpdateMonitor(w, m, b, o, v)
      PROVE  MonitorsStrong'
  <2>1. PICK n : n = [monitor[m] EXCEPT !.balance = b, !.operator = o, !.value = v]
    OBVIOUS
  <2>2. /\ writer[w] = Nothing /\ monitor[m] # Nothing
        /\ monitor' = [monitor EXCEPT ![m] = n] /\ writer' = [writer EXCEPT ![w] = b]
        /\ outdated' = IF monitor[m].balance # b THEN outdated \cup {monitor[m].balance} ELSE outdated
        /\ UNCHANGED <<cached, reader, check, deaths>>
    BY <1>3, <2>1 DEF Mon!UpdateMonitor
  <2>3. monitor[m] \in Mon!Conditions
    BY <1>1, <2>2
  <2>4. n \in Mon!Conditions /\ n.balance = b
    BY <2>1, <2>3 DEF Mon!Conditions
  <2>5. monitor[m].balance \in Watched
    BY <2>3 DEF Mon!Conditions
  <2>6. /\ outdated \subseteq outdated' /\ outdated' \subseteq Watched
        /\ monitor[m].balance = b \/ monitor[m].balance \in outdated'
    BY <1>1, <2>2, <2>5
  <2> QED
    BY <2>2, <2>4, <2>6, RowChanges
<1>4. CASE Mon!DeleteMonitor(w, m)
  <2>1. PICK b : b = monitor[m].balance
    OBVIOUS
  <2>2. PICK n : n = Nothing
    OBVIOUS
  <2>3. /\ writer[w] = Nothing /\ monitor[m] # Nothing
        /\ monitor' = [monitor EXCEPT ![m] = n] /\ writer' = [writer EXCEPT ![w] = b]
        /\ UNCHANGED <<cached, outdated, reader, check, deaths>>
    BY <1>4, <2>1, <2>2 DEF Mon!DeleteMonitor, Mon!GetMonitorByID
  <2>4. b \in Watched
    <3>1. monitor[m] \in Mon!Conditions
      BY <1>1, <2>3
    <3> QED
      BY <2>1, <3>1 DEF Mon!Conditions
  <2> QED
    BY <1>1, <2>1, <2>2, <2>3, <2>4, RowChanges
<1> QED
  BY <1>2, <1>3, <1>4 DEF Mon!Change

\* A step that leaves the rows alone and changes the list of one balance.
LEMMA ListChanges ==
  ASSUME Mon!MonitorsAssumption, MonitorsStrong, UNCHANGED monitor, NEW b \in Watched,
         NEW l, cached' = [cached EXCEPT ![b] = l],
         \A x \in Watched \ {b} : x \in outdated => x \in outdated',
         \A x \in Watched \ {b}, w \in Callers : writer[w] = x => \E v \in Callers : writer'[v] = x,
         outdated' \subseteq Watched, writer' \in [Callers -> Watched \cup {Nothing}],
         reader' = [r \in Readers |-> reader'[r]],
         \A r \in Readers : reader'[r].balance \in Watched \cup {Nothing}, deaths' \in 0 .. MaxMishaps,
         l = Nothing \/ b \in outdated' \/ l = Mon!GetBalanceMonitors(b)
         \/ (\E w \in Callers : writer'[w] = b)
  PROVE  MonitorsStrong'
<1>1. /\ cached = [x \in Watched |-> cached[x]]
      /\ monitor \in [MonitorIds -> Mon!Conditions \cup {Nothing}]
  BY DEF MonitorsStrong, MonitorTypes, Mon!MonitorsTypeOK
<1>2. /\ cached'[b] = l /\ \A x \in Watched \ {b} : cached'[x] = cached[x]
      /\ cached' = [x \in Watched |-> cached'[x]]
  BY <1>1
<1>3. MonitorTypes'
  BY <1>1, <1>2 DEF MonitorTypes, Mon!MonitorsTypeOK, Mon!Conditions
<1>4. ASSUME NEW x \in Watched, cached'[x] # Nothing, x \notin outdated', \A w \in Callers : writer'[w] # x
      PROVE  cached'[x] = Mon!GetBalanceMonitors(x)'
  <2>1. Mon!GetBalanceMonitors(x)' = Mon!GetBalanceMonitors(x)
    BY DEF Mon!GetBalanceMonitors, Mon!Existing
  <2>2. CASE x = b
    BY <1>2, <1>4, <2>1, <2>2
  <2>3. CASE x # b
    BY <1>2, <1>4, <2>1, <2>3 DEF MonitorsStrong, ListsCurrent
  <2> QED
    BY <2>2, <2>3
<1> QED
  BY <1>3, <1>4 DEF MonitorsStrong, ListsCurrent

\* The step of a writer that ends its change, with the list deleted or not.
LEMMA WriterEnds ==
  ASSUME Mon!MonitorsAssumption, MonitorsStrong, NEW w \in Callers,
         Mon!DeleteCached(w) \/ Mon!DeleteCachedFails(w)
  PROVE  MonitorsStrong'
<1>1. /\ writer \in [Callers -> Watched \cup {Nothing}] /\ outdated \subseteq Watched
      /\ cached = [x \in Watched |-> cached[x]] /\ reader = [r \in Readers |-> reader[r]]
      /\ \A r \in Readers : reader[r].balance \in Watched \cup {Nothing}
      /\ deaths \in 0 .. MaxMishaps /\ MaxMishaps \in Nat
  BY DEF MonitorsStrong, MonitorTypes, Mon!MonitorsTypeOK, Mon!MonitorsAssumption
<1>2. PICK b : b = writer[w]
  OBVIOUS
<1>3. /\ b \in Watched /\ writer' = [writer EXCEPT ![w] = Nothing] /\ UNCHANGED <<monitor, reader>>
  BY <1>1, <1>2 DEF Mon!DeleteCached, Mon!DeleteCachedFails
<1>4. /\ writer' \in [Callers -> Watched \cup {Nothing}]
      /\ \A v \in Callers \ {w} : writer'[v] = writer[v]
  BY <1>1, <1>3
<1>5. \A x \in Watched \ {b}, v \in Callers : writer[v] = x => \E u \in Callers : writer'[u] = x
  BY <1>2, <1>4
<1>6. CASE Mon!DeleteCached(w)
  <2>1. PICK l : l = Nothing
    OBVIOUS
  <2>2. cached' = [cached EXCEPT ![b] = l] /\ outdated' = outdated \ {b} /\ UNCHANGED deaths
    BY <1>2, <1>6, <2>1 DEF Mon!DeleteCached
  <2> QED
    BY <1>1, <1>3, <1>4, <1>5, <2>1, <2>2, ListChanges
<1>7. CASE Mon!DeleteCachedFails(w)
  <2>1. PICK l : l = cached[b]
    OBVIOUS
  <2>2. UNCHANGED cached /\ outdated' = outdated \cup {b} /\ deaths < MaxMishaps /\ deaths' = deaths + 1
    BY <1>2, <1>7 DEF Mon!DeleteCachedFails
  <2>3. cached' = [cached EXCEPT ![b] = l]
    BY <1>1, <2>1, <2>2
  <2>4. deaths' \in 0 .. MaxMishaps
    BY <1>1, <2>2
  <2>5. outdated' \subseteq Watched /\ b \in outdated' /\ outdated \subseteq outdated'
    BY <1>1, <1>3, <2>2
  <2> QED
    BY <1>1, <1>3, <1>4, <1>5, <2>3, <2>4, <2>5, ListChanges
<1> QED
  BY <1>6, <1>7

\* The list of a balance is filled or expires.
LEMMA ListsCome ==
  ASSUME Mon!MonitorsAssumption, MonitorsStrong,
         (\E r \in Readers : Mon!FillCached(r)) \/ \E b \in Watched : Mon!ExpireCached(b)
  PROVE  MonitorsStrong'
<1>1. /\ writer \in [Callers -> Watched \cup {Nothing}] /\ outdated \subseteq Watched
      /\ reader = [r \in Readers |-> reader[r]]
      /\ \A r \in Readers : reader[r].balance \in Watched \cup {Nothing}
      /\ deaths \in 0 .. MaxMishaps
  BY DEF MonitorsStrong, MonitorTypes, Mon!MonitorsTypeOK
<1>2. ASSUME NEW r \in Readers, Mon!FillCached(r) PROVE MonitorsStrong'
  <2>1. PICK b, l : b = reader[r].balance /\ l = reader[r].list
    OBVIOUS
  <2>2. /\ b # Nothing /\ cached' = [cached EXCEPT ![b] = l]
        /\ outdated' = IF l = Mon!GetBalanceMonitors(b) THEN outdated \ {b} ELSE outdated \cup {b}
        /\ reader' = [reader EXCEPT ![r] = Mon!Resting]
        /\ UNCHANGED <<monitor, writer, deaths>>
    BY <1>2, <2>1 DEF Mon!FillCached
  <2>3. b \in Watched
    BY <1>1, <2>1, <2>2
  <2>4. Mon!Resting.balance = Nothing
    BY DEF Mon!Resting
  <2>5. /\ reader' = [x \in Readers |-> reader'[x]]
        /\ \A x \in Readers : reader'[x].balance \in Watched \cup {Nothing}
    BY <1>1, <2>2, <2>4
  <2>6. outdated' \subseteq Watched /\ \A x \in Watched \ {b} : x \in outdated => x \in outdated'
    BY <1>1, <2>2, <2>3
  <2>7. b \in outdated' \/ l = Mon!GetBalanceMonitors(b)
    BY <2>2
  <2> QED
    BY <1>1, <2>2, <2>3, <2>5, <2>6, <2>7, ListChanges
<1>3. ASSUME NEW b \in Watched, Mon!ExpireCached(b) PROVE MonitorsStrong'
  <2>1. PICK l : l = Nothing
    OBVIOUS
  <2>2. /\ cached' = [cached EXCEPT ![b] = l] /\ outdated' = outdated \ {b}
        /\ UNCHANGED <<monitor, writer, reader, deaths>>
    BY <1>3, <2>1 DEF Mon!ExpireCached
  <2> QED
    BY <1>1, <2>1, <2>2, ListChanges
<1> QED
  BY <1>2, <1>3

\* Every step keeps MonitorsStrong.
LEMMA MonitorsNext ==
  ASSUME Mon!MonitorsAssumption, MonitorsStrong, [Mon!MonitorNext]_(Mon!monitorVars)
  PROVE  MonitorsStrong'
<1>1. ASSUME UNCHANGED <<monitor, cached, outdated, writer, deaths>>, reader' = [r \in Readers |-> reader'[r]],
             \A r \in Readers : reader'[r].balance \in Watched \cup {Nothing}
      PROVE  MonitorsStrong'
  BY <1>1 DEF MonitorsStrong, MonitorTypes, Mon!MonitorsTypeOK, Mon!Conditions, ListsCurrent,
              Mon!GetBalanceMonitors, Mon!Existing
<1>2. /\ reader = [r \in Readers |-> reader[r]]
      /\ \A r \in Readers : reader[r].balance \in Watched \cup {Nothing}
  BY DEF MonitorsStrong, MonitorTypes, Mon!MonitorsTypeOK
<1>3. ASSUME NEW r \in Readers, NEW b \in Watched, Mon!CheckCached(r, b) PROVE MonitorsStrong'
  <2>1. UNCHANGED <<monitor, cached, outdated, writer, reader, deaths>>
    BY <1>3 DEF Mon!CheckCached
  <2> QED
    BY <1>1, <1>2, <2>1
<1>4. ASSUME NEW r \in Readers, NEW b \in Watched, Mon!ReadMonitors(r, b) PROVE MonitorsStrong'
  <2>1. PICK n : n = [balance |-> b, list |-> Mon!GetBalanceMonitors(b)]
    OBVIOUS
  <2>2. reader' = [reader EXCEPT ![r] = n] /\ UNCHANGED <<monitor, cached, outdated, writer, deaths>>
    BY <1>4, <2>1 DEF Mon!ReadMonitors
  <2>3. n.balance = b
    BY <2>1
  <2>4. /\ reader' = [x \in Readers |-> reader'[x]]
        /\ \A x \in Readers : reader'[x].balance \in Watched \cup {Nothing}
    BY <1>2, <2>2, <2>3
  <2> QED
    BY <1>1, <2>2, <2>4
<1>5. CASE UNCHANGED Mon!monitorVars
  <2>1. UNCHANGED <<monitor, cached, outdated, writer, reader, deaths>>
    BY <1>5 DEF Mon!monitorVars
  <2> QED
    BY <1>1, <1>2, <2>1
<1> QED
  BY <1>3, <1>4, <1>5, ChangeMonitors, WriterEnds, ListsCome DEF Mon!MonitorNext

\* A check uses rows that are current, or its balance's list is one of the
\* exceptions.
LEMMA ChecksCurrent ==
  ASSUME Mon!MonitorsAssumption, MonitorsStrong, [Mon!MonitorNext]_(Mon!monitorVars)
  PROVE  Mon!AlertsTheCurrent
<1>1. ASSUME NEW b, NEW l, NEW a, check' = Mon!CheckBalanceMonitors(b, l, a),
             \/ b \in outdated \cup outdated' \/ (\E w \in Callers : writer[w] = b)
             \/ l = Mon!GetBalanceMonitors(b)
      PROVE  Mon!AlertsTheCurrent
  <2>1. check'.balance = b /\ check'.amount = a
    BY <1>1 DEF Mon!CheckBalanceMonitors
  <2> QED
    BY <1>1, <2>1 DEF Mon!AlertsTheCurrent
<1>2. ASSUME NEW r \in Readers, NEW b \in Watched, Mon!CheckCached(r, b) PROVE Mon!AlertsTheCurrent
  <2>1. PICK l : l = cached[b]
    OBVIOUS
  <2>2. PICK a \in Totals : check' = Mon!CheckBalanceMonitors(b, l, a)
    BY <1>2, <2>1 DEF Mon!CheckCached
  <2>3. l # Nothing
    BY <1>2, <2>1 DEF Mon!CheckCached
  <2>4. b \in outdated \/ (\E w \in Callers : writer[w] = b) \/ l = Mon!GetBalanceMonitors(b)
    BY <2>1, <2>3 DEF MonitorsStrong, ListsCurrent
  <2> QED
    BY <1>1, <2>2, <2>4
<1>3. ASSUME NEW r \in Readers, Mon!FillCached(r) PROVE Mon!AlertsTheCurrent
  <2>1. PICK b, l : b = reader[r].balance /\ l = reader[r].list
    OBVIOUS
  <2>2. PICK a \in Totals : check' = Mon!CheckBalanceMonitors(b, l, a)
    BY <1>3, <2>1 DEF Mon!FillCached
  <2>3. b \in outdated' \/ l = Mon!GetBalanceMonitors(b)
    BY <1>3, <2>1 DEF Mon!FillCached
  <2> QED
    BY <1>1, <2>2, <2>3
<1>4. ASSUME UNCHANGED check PROVE Mon!AlertsTheCurrent
  BY <1>4 DEF Mon!AlertsTheCurrent
<1>5. ASSUME NEW w \in Callers,
             (\E m \in MonitorIds : Mon!Change(w, m)) \/ Mon!DeleteCached(w) \/ Mon!DeleteCachedFails(w)
      PROVE  UNCHANGED check
  BY <1>5 DEF Mon!Change, Mon!CreateMonitor, Mon!UpdateMonitor, Mon!DeleteMonitor, Mon!DeleteCached,
              Mon!DeleteCachedFails
<1>6. ASSUME NEW b \in Watched, Mon!ExpireCached(b) \/ \E r \in Readers : Mon!ReadMonitors(r, b)
      PROVE  UNCHANGED check
  BY <1>6 DEF Mon!ExpireCached, Mon!ReadMonitors
<1>7. CASE UNCHANGED Mon!monitorVars
  BY <1>4, <1>7 DEF Mon!monitorVars
<1> QED
  BY <1>2, <1>3, <1>4, <1>5, <1>6, <1>7 DEF Mon!MonitorNext

\* MonitorsStrong holds initially.
LEMMA MonitorsInitially == ASSUME Mon!MonitorsAssumption, Mon!MonitorInit PROVE MonitorsStrong
BY DEF Mon!MonitorInit, MonitorsStrong, MonitorTypes, Mon!MonitorsTypeOK, ListsCurrent, Mon!Resting,
       Mon!MonitorsAssumption

(***************************************************************************)
(* Snapshots.  A balance is what its committed transactions add up to, and *)
(* so is a snapshot, of the transactions it has; committed transactions    *)
(* never change.  A run has left no balance behind it without a snapshot   *)
(* of its day, although it moves on by ids and takes batches of those that *)
(* lack one.                                                               *)
(***************************************************************************)
Funds == [credit : Nat, debit : Nat]
Shots == [balance : 1 .. MaxBalances, book : Funds, time : 1 .. Hours, has : SUBSET Transactions]
TxnRows ==
  [status : {"none", "begun", "APPLIED"}, source : 0 .. MaxBalances, destination : 0 .. MaxBalances,
   created : 0 .. Hours, effective : (1 .. Hours) \cup {Nothing}]
RunRows ==
  [stamp : (1 .. Hours) \cup {Nothing}, last : 0 .. MaxBalances, max : 0 .. MaxBalances, rows : SUBSET Shots]

SnapTypes ==
  /\ hour \in 1 .. Hours /\ count \in 1 .. MaxBalances
  /\ txn \in [Transactions -> TxnRows]
  /\ \A t \in Transactions : txn[t].status # "none" => txn[t].created >= 1 /\ txn[t].source >= 1 /\ txn[t].destination >= 1
  /\ book \in [1 .. MaxBalances -> Funds]
  /\ snapshots \subseteq Shots
  /\ run \in [Callers -> RunRows]

Into(b) == {t \in Transactions : txn[t].status = "APPLIED" /\ txn[t].destination = b}
OutOf(b) == {t \in Transactions : txn[t].status = "APPLIED" /\ txn[t].source = b}
BooksOK ==
  \A b \in 1 .. MaxBalances :
    book[b].credit = Cardinality(Into(b)) /\ book[b].debit = Cardinality(OutOf(b))

\* A snapshot shows the transactions that it has, which are committed.
ShotOK(s) ==
  /\ s.balance \in 1 .. count
  /\ \A t \in s.has : txn[t].status = "APPLIED" /\ s.balance \in {txn[t].source, txn[t].destination}
  /\ s.book.credit = Cardinality({t \in s.has : txn[t].destination = s.balance})
  /\ s.book.debit = Cardinality({t \in s.has : txn[t].source = s.balance})

CoversUpTo(r) ==
  run[r].stamp # Nothing =>
    /\ run[r].last < run[r].max /\ run[r].max <= count
    /\ \A b \in 1 .. run[r].last : Snap!SnapshotToday(b, r)

SnapStrong ==
  /\ SnapTypes /\ BooksOK
  /\ \A s \in snapshots : ShotOK(s)
  /\ \A r \in Callers : CoversUpTo(r) /\ \A s \in run[r].rows : ShotOK(s)

\* Cardinalities of the instance.
LEMMA SnapCounts ==
  /\ \A S : Snap!Cardinality(S) = Cardinality(S)
  /\ \A S : Snap!IsFiniteSet(S) <=> IsFiniteSet(S)
BY DEF Snap!Cardinality, Cardinality, Snap!IsFiniteSet, IsFiniteSet

\* Sets of transactions can be counted.
LEMMA TransactionsCount ==
  ASSUME Snap!SnapshotsAssumption, NEW S \in SUBSET Transactions
  PROVE  IsFiniteSet(S) /\ Cardinality(S) \in Nat
BY SnapCounts, FS_Subset, FS_CardinalityType DEF Snap!SnapshotsAssumption

\* SnapStrong holds initially.
LEMMA SnapInitially == ASSUME Snap!SnapshotsAssumption, Snap!SnapInit PROVE SnapStrong
<1>1. 0 \in 0 .. MaxBalances /\ 0 \in 0 .. Hours /\ 1 \in 1 .. MaxBalances /\ 1 \in 1 .. Hours
  BY DEF Snap!SnapshotsAssumption
<1>2. Snap!NoTxn \in TxnRows /\ Snap!RunIdle \in RunRows /\ Snap!NoFunds \in Funds
  BY <1>1 DEF Snap!NoTxn, TxnRows, Snap!RunIdle, RunRows, Snap!NoFunds, Funds
<1>3. SnapTypes
  BY <1>1, <1>2 DEF Snap!SnapInit, SnapTypes, Snap!NoTxn
<1>4. BooksOK
  <2> SUFFICES ASSUME NEW b \in 1 .. MaxBalances
               PROVE  book[b].credit = Cardinality(Into(b)) /\ book[b].debit = Cardinality(OutOf(b))
    BY DEF BooksOK
  <2>1. Into(b) = {} /\ OutOf(b) = {}
    BY DEF Snap!SnapInit, Snap!NoTxn, Into, OutOf
  <2>2. book[b].credit = 0 /\ book[b].debit = 0
    BY DEF Snap!SnapInit, Snap!NoFunds
  <2> QED
    BY <2>1, <2>2, FS_EmptySet
<1>5. \A r \in Callers : CoversUpTo(r) /\ run[r].rows = {}
  BY DEF Snap!SnapInit, Snap!RunIdle, CoversUpTo
<1> QED
  BY <1>3, <1>4, <1>5 DEF SnapStrong, Snap!SnapInit

\* A snapshot stays right when committed transactions stay as they are.
LEMMA ShotStays ==
  ASSUME SnapTypes, SnapTypes', NEW s \in Shots, ShotOK(s), count <= count',
         \A t \in Transactions : txn[t].status = "APPLIED" => txn'[t] = txn[t]
  PROVE  ShotOK(s)'
<1>1. s.has \subseteq Transactions /\ s.balance \in 1 .. count
  BY DEF Shots, ShotOK
<1>2. \A t \in s.has : txn'[t] = txn[t]
  BY <1>1 DEF ShotOK
<1>3. /\ {t \in s.has : txn'[t].destination = s.balance} = {t \in s.has : txn[t].destination = s.balance}
      /\ {t \in s.has : txn'[t].source = s.balance} = {t \in s.has : txn[t].source = s.balance}
  BY <1>2
<1>4. s.balance \in 1 .. count'
  BY <1>1 DEF SnapTypes
<1> QED
  BY <1>2, <1>3, <1>4 DEF ShotOK

\* Coverage is kept while the run rests and snapshots are only added.
LEMMA CoverageStays ==
  ASSUME SnapTypes, SnapTypes', NEW r \in Callers, CoversUpTo(r), run'[r] = run[r],
         snapshots \subseteq snapshots', count <= count'
  PROVE  CoversUpTo(r)'
<1> SUFFICES ASSUME run[r].stamp # Nothing PROVE CoversUpTo(r)'
  BY DEF CoversUpTo
<1>1. \A b \in 1 .. run[r].last : Snap!SnapshotToday(b, r)'
  BY DEF CoversUpTo, Snap!SnapshotToday, Snap!Day
<1>2. run[r].last < run[r].max /\ run[r].max <= count'
  BY DEF CoversUpTo, SnapTypes, RunRows
<1> QED
  BY <1>1, <1>2 DEF CoversUpTo

\* A step that no run takes.
LEMMA TransactionsStep ==
  ASSUME SnapStrong, SnapTypes', BooksOK', count <= count', UNCHANGED <<snapshots, run>>,
         \A t \in Transactions : txn[t].status = "APPLIED" => txn'[t] = txn[t]
  PROVE  SnapStrong'
<1>1. \A s \in snapshots : ShotOK(s)'
  BY ShotStays DEF SnapStrong, SnapTypes
<1>2. ASSUME NEW r \in Callers PROVE CoversUpTo(r)' /\ \A s \in run[r].rows : ShotOK(s)'
  <2>1. run[r].rows \subseteq Shots
    BY DEF SnapStrong, SnapTypes, RunRows
  <2>2. \A s \in run[r].rows : ShotOK(s)'
    BY <2>1, ShotStays DEF SnapStrong
  <2>3. CoversUpTo(r)'
    BY CoverageStays DEF SnapStrong
  <2> QED
    BY <2>2, <2>3
<1> QED
  BY <1>1, <1>2 DEF SnapStrong

\* A step of one run.
LEMMA RunMoves ==
  ASSUME SnapStrong, UNCHANGED <<hour, count, txn, book>>, NEW r \in Callers, NEW n \in RunRows,
         run' = [run EXCEPT ![r] = n], snapshots \subseteq snapshots', snapshots' \subseteq Shots,
         \A s \in snapshots' \cup n.rows : ShotOK(s), CoversUpTo(r)'
  PROVE  SnapStrong'
<1>1. SnapTypes'
  BY DEF SnapStrong, SnapTypes
<1>2. BooksOK'
  BY DEF SnapStrong, BooksOK, Into, OutOf
<1>3. \A s : ShotOK(s)' <=> ShotOK(s)
  BY DEF ShotOK
<1>4. ASSUME NEW q \in Callers PROVE CoversUpTo(q)' /\ \A s \in run'[q].rows : ShotOK(s)
  <2>1. CASE q = r
    BY <2>1 DEF SnapStrong, SnapTypes
  <2>2. CASE q # r
    <3>1. run'[q] = run[q] /\ count <= count'
      BY <2>2 DEF SnapStrong, SnapTypes
    <3> QED
      BY <1>1, <3>1, CoverageStays DEF SnapStrong
  <2> QED
    BY <2>1, <2>2
<1> QED
  BY <1>1, <1>2, <1>3, <1>4 DEF SnapStrong

\* The clock, and a new balance.
LEMMA TickSnap ==
  ASSUME Snap!SnapshotsAssumption, SnapStrong, Snap!Tick \/ Snap!CreateBalance PROVE SnapStrong'
<1>1. /\ UNCHANGED <<txn, book, snapshots, run>>
      /\ hour' \in 1 .. Hours /\ count' \in 1 .. MaxBalances /\ count <= count'
  BY DEF Snap!Tick, Snap!CreateBalance, SnapStrong, SnapTypes, Snap!SnapshotsAssumption
<1>2. SnapTypes' /\ BooksOK'
  BY <1>1 DEF SnapStrong, SnapTypes, BooksOK, Into, OutOf
<1> QED
  BY <1>1, <1>2, TransactionsStep

\* A transaction begins.
LEMMA BeginSnap ==
  ASSUME Snap!SnapshotsAssumption, SnapStrong, NEW t \in Transactions, NEW s \in Snap!Balances,
         NEW d \in Snap!Balances, NEW date \in (1 .. Hours) \cup {Nothing},
         Snap!BeginTransaction(t, s, d, date)
  PROVE  SnapStrong'
<1>1. PICK n : n = [status |-> "begun", source |-> s, destination |-> d, created |-> hour, effective |-> date]
  OBVIOUS
<1>2. /\ txn[t].status = "none" /\ txn' = [txn EXCEPT ![t] = n]
      /\ UNCHANGED <<hour, count, book, snapshots, run>>
  BY <1>1 DEF Snap!BeginTransaction
<1>3. /\ s \in 0 .. MaxBalances /\ d \in 0 .. MaxBalances /\ hour \in 0 .. Hours /\ hour >= 1
      /\ s >= 1 /\ d >= 1
  BY DEF Snap!Balances, SnapStrong, SnapTypes, Snap!SnapshotsAssumption
<1>4. n \in TxnRows /\ n.status = "begun" /\ n.created = hour /\ n.source = s /\ n.destination = d
  BY <1>1, <1>3 DEF TxnRows
<1>5. txn' \in [Transactions -> TxnRows] /\ \A u \in Transactions : txn'[u] = IF u = t THEN n ELSE txn[u]
  BY <1>2, <1>4 DEF SnapStrong, SnapTypes
<1>6. SnapTypes'
  BY <1>2, <1>3, <1>4, <1>5 DEF SnapStrong, SnapTypes
<1>7. \A u \in Transactions : txn[u].status = "APPLIED" => txn'[u] = txn[u]
  BY <1>2, <1>5
<1>8. \A b : Into(b)' = Into(b) /\ OutOf(b)' = OutOf(b)
  BY <1>2, <1>4, <1>5 DEF Into, OutOf
<1>9. BooksOK' /\ count <= count'
  BY <1>2, <1>8 DEF SnapStrong, SnapTypes, BooksOK
<1> QED
  BY <1>2, <1>6, <1>7, <1>9, TransactionsStep

\* A transaction is committed: one more for its source and its destination.
LEMMA CommitSnap ==
  ASSUME Snap!SnapshotsAssumption, SnapStrong, NEW t \in Transactions, Snap!CommitTransaction(t)
  PROVE  SnapStrong'
<1>1. PICK s : s = txn[t].source
  OBVIOUS
<1>2. PICK d : d = txn[t].destination
  OBVIOUS
<1>3. /\ txn[t].status = "begun" /\ txn' = [txn EXCEPT ![t].status = "APPLIED"]
      /\ book' = [book EXCEPT ![s].debit = book[s].debit + 1, ![d].credit = @ + 1]
      /\ UNCHANGED <<hour, count, snapshots, run>>
  BY <1>1, <1>2 DEF Snap!CommitTransaction
<1>4. s \in 1 .. MaxBalances /\ d \in 1 .. MaxBalances /\ txn[t] \in TxnRows
  BY <1>1, <1>2, <1>3 DEF SnapStrong, SnapTypes, TxnRows, Snap!SnapshotsAssumption
<1>5. PICK n : n = [txn[t] EXCEPT !.status = "APPLIED"]
  OBVIOUS
<1>6. /\ n \in TxnRows /\ n.status = "APPLIED" /\ n.source = s /\ n.destination = d
      /\ n.created = txn[t].created
  BY <1>1, <1>2, <1>4, <1>5 DEF TxnRows
<1>7. txn' \in [Transactions -> TxnRows] /\ \A u \in Transactions : txn'[u] = IF u = t THEN n ELSE txn[u]
  BY <1>3, <1>5, <1>6 DEF SnapStrong, SnapTypes
<1>8. /\ book' \in [1 .. MaxBalances -> Funds]
      /\ \A b \in 1 .. MaxBalances :
           /\ book'[b].debit = IF b = s THEN book[b].debit + 1 ELSE book[b].debit
           /\ book'[b].credit = IF b = d THEN book[b].credit + 1 ELSE book[b].credit
  <2>1. book \in [1 .. MaxBalances -> Funds]
    BY DEF SnapStrong, SnapTypes
  <2>2. PICK p : p = [book EXCEPT ![s].debit = book[s].debit + 1]
    OBVIOUS
  <2>3. /\ p \in [1 .. MaxBalances -> Funds]
        /\ \A b \in 1 .. MaxBalances :
             /\ p[b].debit = IF b = s THEN book[b].debit + 1 ELSE book[b].debit
             /\ p[b].credit = book[b].credit
    BY <1>4, <2>1, <2>2 DEF Funds
  <2>4. book' = [p EXCEPT ![d].credit = @ + 1]
    BY <1>3, <2>2
  <2> QED
    BY <1>4, <2>3, <2>4 DEF Funds
<1>9. SnapTypes'
  BY <1>3, <1>4, <1>6, <1>7, <1>8 DEF SnapStrong, SnapTypes
<1>10. \A u \in Transactions : txn[u].status = "APPLIED" => txn'[u] = txn[u]
  BY <1>3, <1>7
<1>11. \A b : Into(b)' = IF b = d THEN Into(b) \cup {t} ELSE Into(b)
  BY <1>3, <1>6, <1>7 DEF Into
<1>12. \A b : OutOf(b)' = IF b = s THEN OutOf(b) \cup {t} ELSE OutOf(b)
  BY <1>3, <1>6, <1>7 DEF OutOf
<1>13. ASSUME NEW b \in 1 .. MaxBalances
       PROVE  book'[b].credit = Cardinality(Into(b)') /\ book'[b].debit = Cardinality(OutOf(b)')
  <2>1. t \notin Into(b) /\ t \notin OutOf(b)
    BY <1>3 DEF Into, OutOf
  <2>2. IsFiniteSet(Into(b)) /\ IsFiniteSet(OutOf(b))
    BY TransactionsCount DEF Into, OutOf
  <2>3. /\ Cardinality(Into(b) \cup {t}) = Cardinality(Into(b)) + 1
        /\ Cardinality(OutOf(b) \cup {t}) = Cardinality(OutOf(b)) + 1
    BY <2>1, <2>2, FS_AddElement
  <2>4. book[b].credit = Cardinality(Into(b)) /\ book[b].debit = Cardinality(OutOf(b))
    BY DEF SnapStrong, BooksOK
  <2> QED
    BY <1>8, <1>11, <1>12, <2>3, <2>4
<1>14. BooksOK' /\ count <= count'
  BY <1>3, <1>13 DEF BooksOK, SnapStrong, SnapTypes
<1> QED
  BY <1>3, <1>9, <1>10, <1>14, TransactionsStep

\* A run begins, or ends by an error.
LEMMA BeginRunSnap ==
  ASSUME Snap!SnapshotsAssumption, SnapStrong, NEW r \in Callers,
         Snap!TakeBalanceSnapshots(r) \/ Snap!RunFails(r)
  PROVE  SnapStrong'
<1>1. PICK n : n = IF run[r] = Snap!RunIdle THEN [stamp |-> hour, last |-> 0, max |-> count, rows |-> {}]
                   ELSE Snap!RunIdle
  OBVIOUS
<1>2. run' = [run EXCEPT ![r] = n] /\ UNCHANGED <<hour, count, txn, book, snapshots>>
  BY <1>1 DEF Snap!TakeBalanceSnapshots, Snap!RunFails, Snap!RunIdle
<1>3. /\ 0 \in 0 .. MaxBalances /\ count \in 0 .. MaxBalances /\ count >= 1 /\ hour \in 1 .. Hours
      /\ Nothing \notin 1 .. Hours
  BY DEF SnapStrong, SnapTypes, Snap!SnapshotsAssumption
<1>4. /\ n \in RunRows /\ n.rows = {}
      /\ n.stamp # Nothing => n.last = 0 /\ n.max = count
  BY <1>1, <1>3 DEF RunRows, Snap!RunIdle
<1>5. run'[r] = n
  BY <1>2 DEF SnapStrong, SnapTypes
<1>6. CoversUpTo(r)'
  <2> SUFFICES ASSUME n.stamp # Nothing PROVE CoversUpTo(r)'
    BY <1>5 DEF CoversUpTo
  <2>1. 1 .. 0 = {}
    OBVIOUS
  <2>2. run'[r].last = 0 /\ run'[r].max = count' /\ count' >= 1 /\ count' \in Nat
    BY <1>2, <1>3, <1>4, <1>5
  <2> QED
    BY <2>1, <2>2 DEF CoversUpTo
<1> QED
  BY <1>2, <1>4, <1>6, RunMoves DEF SnapStrong, SnapTypes

\* The ids behind the next ones of a run, counted.
LEMMA IdsCount ==
  ASSUME NEW lo \in Nat, NEW b \in Nat, b > lo
  PROVE  IsFiniteSet(lo + 1 .. b - 1) /\ Cardinality(lo + 1 .. b - 1) = (b - 1) - lo
<1>1. /\ lo + 1 \in Int /\ b - 1 \in Int
      /\ (lo + 1 > b - 1 => (b - 1) - lo = 0) /\ ((b - 1) - (lo + 1)) + 1 = (b - 1) - lo
  OBVIOUS
<1>2. /\ IsFiniteSet(lo + 1 .. b - 1)
      /\ Cardinality(lo + 1 .. b - 1) = IF lo + 1 > b - 1 THEN 0 ELSE ((b - 1) - (lo + 1)) + 1
  BY <1>1, FS_Interval
<1> QED
  BY <1>1, <1>2

\* How far a turn moves a run: to the end of the next ids, behind all that it
\* leaves out.
LEMMA TurnMoves ==
  ASSUME Snap!SnapshotsAssumption, SnapStrong, NEW r \in Callers, run[r].stamp # Nothing,
         NEW m, m = Snap!Max(Snap!First(Snap!Ahead(r), BatchSize))
  PROVE  m \in run[r].last + 1 .. count /\ m <= run[r].last + BatchSize
<1>1. PICK lo : lo = run[r].last
  OBVIOUS
<1>2. /\ lo \in Nat /\ count \in Nat /\ lo < count /\ BatchSize \in Nat /\ BatchSize >= 1
  BY <1>1 DEF SnapStrong, SnapTypes, CoversUpTo, RunRows, Snap!SnapshotsAssumption
<1>3. Snap!Ahead(r) = lo + 1 .. count
  BY <1>1, <1>2 DEF Snap!Ahead, Snap!Balances
<1>4. PICK F : F = Snap!First(Snap!Ahead(r), BatchSize)
  OBVIOUS
<1>5. ASSUME NEW b \in lo + 1 .. count PROVE b \in F <=> b <= lo + BatchSize
  <2>1. {c \in Snap!Ahead(r) : c < b} = lo + 1 .. b - 1
    BY <1>2, <1>3
  <2>2. Cardinality({c \in Snap!Ahead(r) : c < b}) = (b - 1) - lo
    <3>1. b \in Nat /\ b > lo
      BY <1>2
    <3>2. Cardinality(lo + 1 .. b - 1) = (b - 1) - lo
      BY <1>2, <3>1, IdsCount
    <3> QED
      BY <2>1, <3>2
  <2>3. b \in F <=> (b - 1) - lo < BatchSize
    BY <1>3, <1>4, <2>2, SnapCounts DEF Snap!First
  <2> QED
    BY <1>2, <2>3
<1>6. F \subseteq lo + 1 .. count
  BY <1>3, <1>4 DEF Snap!First
<1>7. PICK top : top = IF lo + BatchSize <= count THEN lo + BatchSize ELSE count
  OBVIOUS
<1>8. top \in F /\ \A y \in F : top >= y
  BY <1>2, <1>5, <1>6, <1>7
<1>9. m = CHOOSE x \in F : \A y \in F : x >= y
  BY <1>4 DEF Snap!Max
<1>10. m \in F
  BY <1>8, <1>9
<1> QED
  BY <1>1, <1>2, <1>5, <1>6, <1>10

\* Of the balances that a turn moves past, it takes those that have no snapshot
\* of the day.
LEMMA TurnTakes ==
  ASSUME Snap!SnapshotsAssumption, SnapStrong, NEW r \in Callers, run[r].stamp # Nothing,
         NEW m, m = Snap!Max(Snap!First(Snap!Ahead(r), BatchSize)),
         NEW b \in run[r].last + 1 .. m, ~Snap!SnapshotToday(b, r)
  PROVE  b \in Snap!Batch(r)
<1>1. PICK lo : lo = run[r].last
  OBVIOUS
<1>2. /\ lo \in Nat /\ count \in Nat /\ BatchSize \in Nat /\ m \in lo + 1 .. count /\ m <= lo + BatchSize
  BY <1>1, TurnMoves DEF SnapStrong, SnapTypes, RunRows, Snap!SnapshotsAssumption
<1>3. b \in lo + 1 .. count /\ b <= lo + BatchSize
  BY <1>1, <1>2
<1>4. Snap!Ahead(r) = lo + 1 .. count
  BY <1>1, <1>2 DEF Snap!Ahead, Snap!Balances
<1>5. PICK S : S = {c \in Snap!Ahead(r) : ~Snap!SnapshotToday(c, r)}
  OBVIOUS
<1>6. {c \in S : c < b} \subseteq lo + 1 .. b - 1
  BY <1>2, <1>3, <1>4, <1>5
<1>7. IsFiniteSet(lo + 1 .. b - 1) /\ Cardinality(lo + 1 .. b - 1) = (b - 1) - lo
  BY <1>2, <1>3, IdsCount
<1>8. Cardinality({c \in S : c < b}) \in Nat /\ Cardinality({c \in S : c < b}) <= (b - 1) - lo
  BY <1>6, <1>7, FS_Subset, FS_CardinalityType
<1>9. Cardinality({c \in S : c < b}) < BatchSize
  BY <1>2, <1>3, <1>8
<1>10. b \in S
  BY <1>3, <1>4, <1>5
<1>11. Snap!Batch(r) = Snap!First(S, BatchSize)
  BY <1>5 DEF Snap!Batch
<1> QED
  BY <1>9, <1>10, <1>11, SnapCounts DEF Snap!First

\* A turn that takes nothing has nothing left to take.
LEMMA NothingLeft ==
  ASSUME Snap!SnapshotsAssumption, SnapStrong, NEW r \in Callers, run[r].stamp # Nothing,
         Snap!Batch(r) = {}
  PROVE  \A b \in run[r].last + 1 .. count : Snap!SnapshotToday(b, r)
<1> SUFFICES ASSUME NEW b \in run[r].last + 1 .. count, ~Snap!SnapshotToday(b, r) PROVE FALSE
  OBVIOUS
<1>1. PICK S : S = {c \in Snap!Ahead(r) : ~Snap!SnapshotToday(c, r)}
  OBVIOUS
<1>2. /\ run[r].last \in Nat /\ count \in Nat /\ BatchSize \in Nat /\ BatchSize >= 1
  BY DEF SnapStrong, SnapTypes, RunRows, Snap!SnapshotsAssumption
<1>3. b \in S /\ S \subseteq Nat
  BY <1>1, <1>2 DEF Snap!Ahead, Snap!Balances
<1>4. PICK c \in S : \A d \in S : ~(<<d, c>> \in OpToRel(<, Nat))
  BY <1>3, NatLessThanWellFounded, WFMin, Zenon
<1>5. {d \in S : d < c} = {}
  BY <1>3, <1>4 DEF OpToRel
<1>6. Cardinality({d \in S : d < c}) = 0
  BY <1>5, FS_EmptySet
<1>7. c \in Snap!First(S, BatchSize)
  BY <1>2, <1>6, SnapCounts DEF Snap!First
<1> QED
  BY <1>1, <1>7 DEF Snap!Batch

\* A snapshot that a turn takes shows the transactions it has.
LEMMA NewShot ==
  ASSUME Snap!SnapshotsAssumption, SnapStrong, NEW b \in 1 .. count, NEW time \in 1 .. Hours,
         NEW s, s = Snap!SnapshotOf(b, time)
  PROVE  s \in Shots /\ ShotOK(s) /\ s.balance = b /\ s.time = time
<1>1. b \in 1 .. MaxBalances
  BY DEF SnapStrong, SnapTypes, Snap!SnapshotsAssumption
<1>2. PICK has : has = {t \in Transactions : txn[t].status = "APPLIED" /\ b \in {txn[t].source, txn[t].destination}}
  OBVIOUS
<1>3. s = [balance |-> b, book |-> book[b], time |-> time, has |-> has]
  BY <1>2 DEF Snap!SnapshotOf
<1>4. book[b] \in Funds
  BY <1>1 DEF SnapStrong, SnapTypes
<1>5. s \in Shots /\ s.balance = b /\ s.time = time /\ s.has = has /\ s.book = book[b]
  BY <1>1, <1>2, <1>3, <1>4 DEF Shots
<1>6. {t \in has : txn[t].destination = b} = Into(b) /\ {t \in has : txn[t].source = b} = OutOf(b)
  BY <1>2 DEF Into, OutOf
<1>7. book[b].credit = Cardinality(Into(b)) /\ book[b].debit = Cardinality(OutOf(b))
  BY <1>1 DEF SnapStrong, BooksOK
<1>8. \A t \in has : txn[t].status = "APPLIED" /\ b \in {txn[t].source, txn[t].destination}
  BY <1>2
<1> QED
  BY <1>5, <1>6, <1>7, <1>8 DEF ShotOK

\* A turn of a run: it is behind no balance without a snapshot of the day, and
\* so is its end.
LEMMA TurnSnap ==
  ASSUME Snap!SnapshotsAssumption, SnapStrong, NEW r \in Callers, Snap!NextBatch(r)
  PROVE  /\ SnapStrong'
         /\ run'[r] = Snap!RunIdle =>
              \A b \in 1 .. run[r].max :
                \E s \in snapshots' : s.balance = b /\ Snap!Day(s.time) = Snap!Day(run[r].stamp)
<1>1. PICK taken : taken = Snap!Batch(r)
  OBVIOUS
<1>2. PICK m : m = Snap!Max(Snap!First(Snap!Ahead(r), BatchSize))
  OBVIOUS
<1>3. PICK stamp : stamp = run[r].stamp
  OBVIOUS
<1>4. PICK rows : rows = run[r].rows \cup {Snap!SnapshotOf(b, stamp) : b \in taken}
  OBVIOUS
<1>5. PICK n : n = IF taken = {} \/ m >= run[r].max THEN Snap!RunIdle
                   ELSE [run[r] EXCEPT !.last = m, !.rows = rows]
  OBVIOUS
<1>6. /\ stamp # Nothing
      /\ snapshots' = IF taken = {} \/ m >= run[r].max THEN snapshots \cup rows ELSE snapshots
      /\ run' = [run EXCEPT ![r] = n]
      /\ UNCHANGED <<hour, count, txn, book>>
  BY <1>1, <1>2, <1>3, <1>4, <1>5 DEF Snap!NextBatch
<1>7. /\ run[r] \in RunRows /\ stamp \in 1 .. Hours /\ count \in 1 .. MaxBalances
      /\ run[r].last \in Nat /\ run[r].max \in Nat /\ run[r].last < run[r].max /\ run[r].max <= count
      /\ run[r].rows \subseteq Shots
  BY <1>3, <1>6 DEF SnapStrong, SnapTypes, CoversUpTo, RunRows
<1>8. m \in run[r].last + 1 .. count /\ m \in Nat
  <2>1. m \in run[r].last + 1 .. count
    BY <1>2, <1>3, <1>6, TurnMoves
  <2> QED
    BY <1>7, <2>1
<1>9. taken \subseteq 1 .. count
  BY <1>1 DEF Snap!Batch, Snap!First, Snap!Ahead, Snap!Balances
<1>10. \A b \in taken : LET s == Snap!SnapshotOf(b, stamp) IN
         s \in Shots /\ ShotOK(s) /\ s.balance = b /\ s.time = stamp
  BY <1>7, <1>9, NewShot
<1>11. rows \subseteq Shots /\ \A s \in rows : ShotOK(s)
  BY <1>4, <1>7, <1>10 DEF SnapStrong
<1>12. \A s \in snapshots \cup rows : ShotOK(s)
  BY <1>11 DEF SnapStrong
<1>13. ASSUME NEW b \in 1 .. m
       PROVE  \E s \in snapshots \cup rows : s.balance = b /\ Snap!Day(s.time) = Snap!Day(stamp)
  <2>1. CASE Snap!SnapshotToday(b, r)
    BY <1>3, <1>4, <2>1 DEF Snap!SnapshotToday
  <2>2. CASE ~Snap!SnapshotToday(b, r)
    <3>1. ~(b \in 1 .. run[r].last)
      BY <1>3, <1>6, <2>2 DEF SnapStrong, CoversUpTo
    <3>2. b \in run[r].last + 1 .. m
      BY <1>7, <1>8, <3>1
    <3>3. b \in taken
      BY <1>1, <1>2, <1>3, <1>6, <2>2, <3>2, TurnTakes
    <3>4. PICK s : s = Snap!SnapshotOf(b, stamp)
      OBVIOUS
    <3>5. s \in rows /\ s.balance = b /\ s.time = stamp
      BY <1>4, <1>10, <3>3, <3>4
    <3> QED
      BY <3>5
  <2> QED
    BY <2>1, <2>2
<1>14. CASE taken = {} \/ m >= run[r].max
  <2>1. n = Snap!RunIdle /\ snapshots' = snapshots \cup rows
    BY <1>5, <1>6, <1>14
  <2>2. n \in RunRows /\ n.rows = {} /\ n.stamp = Nothing
    <3>1. 0 \in 0 .. MaxBalances
      BY DEF Snap!SnapshotsAssumption
    <3> QED
      BY <2>1, <3>1 DEF Snap!RunIdle, RunRows
  <2>3. run'[r] = n
    BY <1>6 DEF SnapStrong, SnapTypes
  <2>4. CoversUpTo(r)'
    BY <2>2, <2>3 DEF CoversUpTo
  <2>5. snapshots \subseteq snapshots' /\ snapshots' \subseteq Shots
    BY <1>11, <2>1 DEF SnapStrong, SnapTypes
  <2>6. \A s \in snapshots' \cup n.rows : ShotOK(s)
    BY <1>12, <2>1, <2>2
  <2>7. SnapStrong'
    BY <1>6, <2>2, <2>4, <2>5, <2>6, RunMoves
  <2>8. ASSUME NEW b \in 1 .. run[r].max
        PROVE  \E s \in snapshots' : s.balance = b /\ Snap!Day(s.time) = Snap!Day(run[r].stamp)
    <3>1. CASE m >= run[r].max
      <4>1. b \in 1 .. m
        BY <1>7, <1>8, <3>1
      <4> QED
        BY <1>3, <1>13, <2>1, <4>1
    <3>2. CASE taken = {}
      <4>1. b \in 1 .. run[r].last \/ b \in run[r].last + 1 .. count
        BY <1>7
      <4>2. \A c \in run[r].last + 1 .. count : Snap!SnapshotToday(c, r)
        BY <1>1, <1>3, <1>6, <3>2, NothingLeft
      <4>3. \A c \in 1 .. run[r].last : Snap!SnapshotToday(c, r)
        BY <1>3, <1>6 DEF SnapStrong, CoversUpTo
      <4>4. Snap!SnapshotToday(b, r)
        BY <4>1, <4>2, <4>3
      <4> QED
        BY <1>4, <2>1, <4>4 DEF Snap!SnapshotToday
    <3> QED
      BY <1>14, <3>1, <3>2
  <2> QED
    BY <2>7, <2>8
<1>15. CASE ~(taken = {} \/ m >= run[r].max)
  <2>1. n = [run[r] EXCEPT !.last = m, !.rows = rows] /\ snapshots' = snapshots /\ m < run[r].max
    BY <1>5, <1>6, <1>7, <1>8, <1>15
  <2>2. /\ n \in RunRows /\ n.rows = rows /\ n.stamp = stamp /\ n.last = m /\ n.max = run[r].max
    <3>1. m \in 0 .. MaxBalances
      BY <1>7, <1>8 DEF Snap!SnapshotsAssumption
    <3> QED
      BY <1>3, <1>7, <1>11, <2>1, <3>1 DEF RunRows
  <2>3. run'[r] = n
    BY <1>6 DEF SnapStrong, SnapTypes
  <2>4. \A b \in 1 .. m : Snap!SnapshotToday(b, r)'
    BY <1>13, <2>1, <2>2, <2>3 DEF Snap!SnapshotToday, Snap!Day
  <2>5. CoversUpTo(r)'
    BY <1>6, <1>7, <2>1, <2>2, <2>3, <2>4 DEF CoversUpTo
  <2>6. \A s \in snapshots' \cup n.rows : ShotOK(s)
    BY <1>12, <2>1, <2>2
  <2>7. snapshots \subseteq snapshots' /\ snapshots' \subseteq Shots
    BY <2>1 DEF SnapStrong, SnapTypes
  <2>8. SnapStrong'
    BY <1>6, <2>2, <2>5, <2>6, <2>7, RunMoves
  <2>9. run'[r] # Snap!RunIdle
    BY <1>6, <2>2, <2>3 DEF Snap!RunIdle
  <2> QED
    BY <2>8, <2>9
<1> QED
  BY <1>14, <1>15

\* Every step keeps SnapStrong.
LEMMA SnapSteps ==
  ASSUME Snap!SnapshotsAssumption, SnapStrong, [Snap!SnapNext]_snapVars PROVE SnapStrong'
<1>1. CASE UNCHANGED snapVars
  <2>1. UNCHANGED <<hour, count, txn, book, snapshots, run>>
    BY <1>1 DEF snapVars
  <2>2. SnapTypes'
    BY <2>1 DEF SnapStrong, SnapTypes
  <2>3. BooksOK'
    BY <2>1 DEF SnapStrong, BooksOK, Into, OutOf
  <2>4. count <= count'
    BY <2>1 DEF SnapStrong, SnapTypes
  <2> QED
    BY <2>1, <2>2, <2>3, <2>4, TransactionsStep
<1>2. CASE Snap!Tick \/ Snap!CreateBalance
  BY <1>2, TickSnap
<1>3. CASE \E t \in Transactions, s, d \in Snap!Balances, date \in (1 .. Hours) \cup {Nothing} :
             Snap!BeginTransaction(t, s, d, date)
  BY <1>3, BeginSnap
<1>4. CASE \E t \in Transactions : Snap!CommitTransaction(t)
  BY <1>4, CommitSnap
<1>5. CASE \E r \in Callers : Snap!TakeBalanceSnapshots(r) \/ Snap!RunFails(r)
  BY <1>5, BeginRunSnap
<1>6. CASE \E r \in Callers : Snap!NextBatch(r)
  BY <1>6, TurnSnap
<1> QED
  BY <1>1, <1>2, <1>3, <1>4, <1>5, <1>6 DEF Snap!SnapNext

\* Two disjoint sets of transactions count as their union.
LEMMA PartsCount ==
  ASSUME Snap!SnapshotsAssumption, NEW A \in SUBSET Transactions, NEW B \in SUBSET Transactions,
         NEW C, C = A \cup B, A \cap B = {}
  PROVE  /\ Cardinality(A) \in Nat /\ Cardinality(B) \in Nat /\ Cardinality(C) \in Nat
         /\ Cardinality(C) = Cardinality(A) + Cardinality(B)
<1>1. /\ IsFiniteSet(A) /\ Cardinality(A) \in Nat /\ IsFiniteSet(B) /\ Cardinality(B) \in Nat
  BY TransactionsCount
<1>2. Cardinality(A \cap B) = 0
  BY FS_EmptySet
<1>3. Cardinality(C) = Cardinality(A) + Cardinality(B) - Cardinality(A \cap B)
  BY <1>1, FS_Union
<1> QED
  BY <1>1, <1>2, <1>3

\* What a snapshot has and what is fetched after it, against everything: the
\* difference is what the snapshot has too early less what it lacks.
LEMMA Straddlers ==
  ASSUME Snap!SnapshotsAssumption, NEW Has \in SUBSET Transactions, NEW Early \in SUBSET Has,
         NEW Before \in SUBSET Transactions, NEW After \in SUBSET Transactions,
         Has \ Early \subseteq Before, Early \cap Before = {}, Before \cap After = {}
  PROVE  /\ (Cardinality(Has) + Cardinality(After)) - (0 + Cardinality(Before \cup After))
              = Cardinality(Early) - Cardinality(Before \ Has)
<1>1. /\ Cardinality(Has) = Cardinality(Early) + Cardinality(Has \ Early)
      /\ Cardinality(Early) \in Nat /\ Cardinality(Has \ Early) \in Nat /\ Cardinality(Has) \in Nat
  <2>1. Has = Early \cup (Has \ Early) /\ Early \cap (Has \ Early) = {}
    OBVIOUS
  <2> QED
    BY <2>1, PartsCount
<1>2. /\ Cardinality(Before) = Cardinality(Has \ Early) + Cardinality(Before \ Has)
      /\ Cardinality(Before \ Has) \in Nat /\ Cardinality(Before) \in Nat
  <2>1. Before = (Has \ Early) \cup (Before \ Has) /\ (Has \ Early) \cap (Before \ Has) = {}
    OBVIOUS
  <2> QED
    BY <2>1, PartsCount
<1>3. /\ Cardinality(Before \cup After) = Cardinality(Before) + Cardinality(After)
      /\ Cardinality(Before \cup After) \in Nat /\ Cardinality(After) \in Nat
  BY PartsCount
<1> QED
  BY <1>1, <1>2, <1>3

\* The snapshot that a balance at a time is built on, or none.
LEMMA RecentShot ==
  ASSUME Snap!SnapshotsAssumption, SnapStrong, NEW b \in Snap!Balances, NEW target \in 1 .. Hours,
         NEW s \in Snap!MostRecentSnapshots(b, target)
  PROVE  /\ s.balance = b /\ s.time \in 0 .. Hours /\ s.time <= target
         /\ s.has \subseteq Transactions
         /\ \A t \in s.has : txn[t].status = "APPLIED" /\ b \in {txn[t].source, txn[t].destination}
         /\ s.book.credit = Cardinality({t \in s.has : txn[t].destination = b})
         /\ s.book.debit = Cardinality({t \in s.has : txn[t].source = b})
<1>0. Hours \in Nat
  BY DEF Snap!SnapshotsAssumption
<1>1. CASE s \in snapshots /\ s.balance = b /\ s.time <= target
  <2>1. s \in Shots /\ ShotOK(s)
    BY <1>1 DEF SnapStrong, SnapTypes
  <2> QED
    BY <1>0, <1>1, <2>1 DEF Shots, ShotOK
<1>2. CASE s = [balance |-> b, book |-> Snap!NoFunds, time |-> 0, has |-> {}]
  <2>1. /\ s.balance = b /\ s.time = 0 /\ s.has = {} /\ s.book.credit = 0 /\ s.book.debit = 0
    BY <1>2 DEF Snap!NoFunds
  <2>2. {t \in s.has : txn[t].destination = b} = {} /\ {t \in s.has : txn[t].source = b} = {}
    BY <2>1
  <2>3. 0 \in 0 .. Hours /\ 0 <= target
    BY <1>0
  <2> QED
    BY <2>1, <2>2, <2>3, FS_EmptySet
<1> QED
  BY <1>1, <1>2 DEF Snap!MostRecentSnapshots

\* The answers differ by the transactions that the stamp puts on the wrong side.
LEMMA AnswersDiffer ==
  ASSUME Snap!SnapshotsAssumption, SnapStrong PROVE Snap!AnswersDifferByStraddlers
<1> SUFFICES ASSUME NEW b \in Snap!Balances, NEW target \in 1 .. Hours,
                    NEW s \in Snap!MostRecentSnapshots(b, target)
             PROVE  /\ Snap!AtTime(b, target, s).credit - Snap!FromSource(b, target).credit
                         = Cardinality({t \in Snap!TooEarly(s) : txn[t]["destination"] = b})
                           - Cardinality({t \in Snap!TooLate(s) : txn[t]["destination"] = b})
                    /\ Snap!AtTime(b, target, s).debit - Snap!FromSource(b, target).debit
                         = Cardinality({t \in Snap!TooEarly(s) : txn[t]["source"] = b})
                           - Cardinality({t \in Snap!TooLate(s) : txn[t]["source"] = b})
  BY SnapCounts DEF Snap!AnswersDifferByStraddlers
<1>1. /\ s.balance = b /\ s.time \in 0 .. Hours /\ s.time <= target
      /\ s.has \subseteq Transactions
      /\ \A t \in s.has : txn[t].status = "APPLIED" /\ b \in {txn[t].source, txn[t].destination}
      /\ s.book.credit = Cardinality({t \in s.has : txn[t].destination = b})
      /\ s.book.debit = Cardinality({t \in s.has : txn[t].source = b})
  BY RecentShot
<1>2. ASSUME NEW t \in Transactions, txn[t].status = "APPLIED" PROVE Snap!EffectiveDate(t) \in 1 .. Hours
  <2>1. txn[t] \in TxnRows /\ txn[t].created >= 1
    BY <1>2 DEF SnapStrong, SnapTypes
  <2>2. txn[t].created \in 1 .. Hours /\ txn[t].effective \in (1 .. Hours) \cup {Nothing}
    BY <2>1 DEF TxnRows, Snap!SnapshotsAssumption
  <2> QED
    BY <2>2 DEF Snap!EffectiveDate
<1>3. PICK Before : Before = Snap!FetchTransactions(b, 0, s.time)
  OBVIOUS
<1>4. PICK After : After = Snap!FetchTransactions(b, s.time, target)
  OBVIOUS
<1>5. PICK Early : Early = Snap!TooEarly(s)
  OBVIOUS
<1>6. /\ Before \subseteq Transactions /\ After \subseteq Transactions /\ Early \subseteq s.has
  BY <1>3, <1>4, <1>5 DEF Snap!FetchTransactions, Snap!TooEarly
<1>7. s.has \ Early \subseteq Before
  <2> SUFFICES ASSUME NEW t \in s.has \ Early PROVE t \in Before
    OBVIOUS
  <2>1. Snap!EffectiveDate(t) \in 1 .. Hours /\ ~(Snap!EffectiveDate(t) > s.time)
    BY <1>1, <1>2, <1>5 DEF Snap!TooEarly
  <2>2. Snap!EffectiveDate(t) > 0 /\ Snap!EffectiveDate(t) <= s.time
    BY <1>1, <2>1 DEF Snap!SnapshotsAssumption
  <2> QED
    BY <1>1, <1>3, <2>2 DEF Snap!FetchTransactions
<1>8. Early \cap Before = {} /\ Before \cap After = {}
  <2> SUFFICES ASSUME NEW t \in Before PROVE ~(Snap!EffectiveDate(t) > s.time)
    BY <1>4, <1>5 DEF Snap!FetchTransactions, Snap!TooEarly
  <2>1. Snap!EffectiveDate(t) \in 1 .. Hours /\ Snap!EffectiveDate(t) <= s.time
    BY <1>2, <1>3 DEF Snap!FetchTransactions
  <2> QED
    BY <1>1, <2>1 DEF Snap!SnapshotsAssumption
<1>9. Snap!FetchTransactions(b, 0, target) = Before \cup After
  <2>1. ASSUME NEW t \in Transactions, txn[t].status = "APPLIED"
        PROVE  Snap!EffectiveDate(t) > 0 /\ Snap!EffectiveDate(t) <= target
                 <=> \/ Snap!EffectiveDate(t) > 0 /\ Snap!EffectiveDate(t) <= s.time
                     \/ Snap!EffectiveDate(t) > s.time /\ Snap!EffectiveDate(t) <= target
    BY <1>1, <1>2, <2>1 DEF Snap!SnapshotsAssumption
  <2> QED
    BY <1>3, <1>4, <2>1 DEF Snap!FetchTransactions
<1>10. Snap!TooLate(s) = Before \ s.has
  BY <1>1, <1>3 DEF Snap!TooLate
<1>11. Snap!AtTime(b, target, s).credit - Snap!FromSource(b, target).credit
         = Cardinality({t \in Early : txn[t].destination = b})
           - Cardinality({t \in Before \ s.has : txn[t].destination = b})
  <2>1. PICK H : H = {t \in s.has : txn[t].destination = b}
    OBVIOUS
  <2>2. PICK E : E = {t \in Early : txn[t].destination = b}
    OBVIOUS
  <2>3. PICK B : B = {t \in Before : txn[t].destination = b}
    OBVIOUS
  <2>4. PICK A : A = {t \in After : txn[t].destination = b}
    OBVIOUS
  <2>5. /\ H \in SUBSET Transactions /\ E \in SUBSET H /\ B \in SUBSET Transactions
        /\ A \in SUBSET Transactions /\ H \ E \subseteq B /\ E \cap B = {} /\ B \cap A = {}
    BY <1>1, <1>6, <1>7, <1>8, <2>1, <2>2, <2>3, <2>4
  <2>6. (Cardinality(H) + Cardinality(A)) - (0 + Cardinality(B \cup A)) = Cardinality(E) - Cardinality(B \ H)
    BY ZenonT(60), <2>5, Straddlers
  <2>7. {t \in Before \ s.has : txn[t].destination = b} = B \ H
    BY <2>1, <2>3
  <2>8. {t \in Before \cup After : txn[t].destination = b} = B \cup A
    BY <2>3, <2>4
  <2>9. Snap!AtTime(b, target, s).credit = Cardinality(H) + Cardinality(A)
    BY <1>1, <1>4, <2>1, <2>4, SnapCounts DEF Snap!AtTime, Snap!Added
  <2>10. Snap!FromSource(b, target).credit = 0 + Cardinality(B \cup A)
    BY <1>9, <2>8, SnapCounts DEF Snap!FromSource, Snap!Added, Snap!NoFunds
  <2> QED
    BY <2>2, <2>6, <2>7, <2>9, <2>10
<1>12. Snap!AtTime(b, target, s).debit - Snap!FromSource(b, target).debit
         = Cardinality({t \in Early : txn[t].source = b})
           - Cardinality({t \in Before \ s.has : txn[t].source = b})
  <2>1. PICK H : H = {t \in s.has : txn[t].source = b}
    OBVIOUS
  <2>2. PICK E : E = {t \in Early : txn[t].source = b}
    OBVIOUS
  <2>3. PICK B : B = {t \in Before : txn[t].source = b}
    OBVIOUS
  <2>4. PICK A : A = {t \in After : txn[t].source = b}
    OBVIOUS
  <2>5. /\ H \in SUBSET Transactions /\ E \in SUBSET H /\ B \in SUBSET Transactions
        /\ A \in SUBSET Transactions /\ H \ E \subseteq B /\ E \cap B = {} /\ B \cap A = {}
    BY <1>1, <1>6, <1>7, <1>8, <2>1, <2>2, <2>3, <2>4
  <2>6. (Cardinality(H) + Cardinality(A)) - (0 + Cardinality(B \cup A)) = Cardinality(E) - Cardinality(B \ H)
    BY ZenonT(60), <2>5, Straddlers
  <2>7. {t \in Before \ s.has : txn[t].source = b} = B \ H
    BY <2>1, <2>3
  <2>8. {t \in Before \cup After : txn[t].source = b} = B \cup A
    BY <2>3, <2>4
  <2>9. Snap!AtTime(b, target, s).debit = Cardinality(H) + Cardinality(A)
    BY <1>1, <1>4, <2>1, <2>4, SnapCounts DEF Snap!AtTime, Snap!Added
  <2>10. Snap!FromSource(b, target).debit = 0 + Cardinality(B \cup A)
    BY <1>9, <2>8, SnapCounts DEF Snap!FromSource, Snap!Added, Snap!NoFunds
  <2> QED
    BY <2>2, <2>6, <2>7, <2>9, <2>10
<1>13. \A t \in Transactions : txn[t]["destination"] = txn[t].destination /\ txn[t]["source"] = txn[t].source
  BY DEF SnapStrong, SnapTypes, TxnRows
<1>14. \A S \in SUBSET Transactions :
         /\ {t \in S : txn[t]["destination"] = b} = {t \in S : txn[t].destination = b}
         /\ {t \in S : txn[t]["source"] = b} = {t \in S : txn[t].source = b}
  BY <1>13
<1>15. Early \in SUBSET Transactions /\ (Before \ s.has) \in SUBSET Transactions
  BY <1>1, <1>6
<1> QED
  BY <1>5, <1>10, <1>11, <1>12, <1>14, <1>15

\* SnapStrong says at least what the type invariant does.
LEMMA SnapTyped == ASSUME Snap!SnapshotsAssumption, SnapStrong PROVE Snap!SnapTypeOK
<1>1. \A b \in Snap!Balances : book[b].credit \in Nat /\ book[b].debit \in Nat
  BY DEF SnapStrong, SnapTypes, Funds, Snap!Balances, Snap!SnapshotsAssumption
<1>2. \A s \in snapshots : s.balance \in Snap!Balances /\ s.time \in 1 .. Hours
  BY DEF SnapStrong, SnapTypes, ShotOK, Shots, Snap!Balances
<1>3. \A t \in Transactions : txn[t].status \in {"none", "begun", "APPLIED"}
  BY DEF SnapStrong, SnapTypes, TxnRows
<1> QED
  BY <1>1, <1>2, <1>3 DEF SnapStrong, SnapTypes, CoversUpTo, Snap!SnapTypeOK

\* The run that a step ends has covered its balances.
LEMMA EndsCovered ==
  ASSUME Snap!SnapshotsAssumption, SnapStrong PROVE Snap!EndsWhenCovered
BY TurnSnap DEF Snap!EndsWhenCovered

(***************************************************************************)
(* Positions.  Plans and transactions are kept apart by row locks and row  *)
(* versions only.  What a plan is about to write was computed from the row *)
(* as it still is, because the plan has it locked; what a transaction is   *)
(* about to write was, or the row has a later version by now and the write *)
(* is refused.  So every write adds exactly its plan's or transaction's    *)
(* effect to the row, as the sums it is compared with grow by the same.    *)
(***************************************************************************)

RowFields == [key : PositionKeys, by : Callers \cup {Nothing}, amount : Int,
              blocked : Int, waiting : Int, version : Nat]
PositionRows == {r \in RowFields : Pos!Covered(r)}
PositionDeltas == [key : PositionKeys, amount : Int, blocked : Int, waiting : Int]
JobKinds == {"none", "find", "plan", "entry", "holds"}
JobRecords == [kind : JobKinds, what : {0} \cup PositionKeys \cup DOMAIN Plans \cup Entries,
               stage : {"start", "again", "apply", "unlock"},
               todo : SUBSET PositionDeltas, writes : SUBSET RowFields]

PosTypes ==
  /\ position \subseteq PositionRows
  /\ entered \subseteq Entries /\ applied \subseteq DOMAIN Plans /\ manual \subseteq PositionKeys
  /\ keyLock \in [PositionKeys -> Callers \cup {Nothing}]
  /\ rowLock \in [PositionKeys -> Callers \cup {Nothing}]
  /\ job \in [Callers -> JobRecords]

\* A key has one row, and everybody was given that one.
RowsOK ==
  /\ \A r, s \in position : r.key = s.key => r = s
  /\ \A a \in answers : \E r \in position : a = Pos!Id(r)

\* What a plan writes, it has locked and computed from the row as it is; the
\* keys that it touches are written or still to be written, in their order.
WriteOK(w, u) ==
  /\ u \in PositionRows /\ rowLock[u.key] = w
  /\ \/ \E r \in position : r.key = u.key /\ u = Pos!Changed(r, Pos!Merged(job[w].what, u.key))
     \/ /\ \A r \in position : r.key # u.key
        /\ u = Pos!Changed(Pos!Zero(u.key, w), Pos!Merged(job[w].what, u.key))

ApplyOK(w) ==
  /\ job[w].todo \subseteq Pos!Normalized(job[w].what)
  /\ \A u \in job[w].writes : WriteOK(w, u)
  /\ \A k \in Pos!Touched(job[w].what) :
       (\E d \in job[w].todo : d.key = k) \/ (\E u \in job[w].writes : u.key = k)
  /\ \A u \in job[w].writes, d \in job[w].todo : u.key < d.key

PlanOK(w) ==
  job[w].kind = "plan" =>
    /\ job[w].what \in DOMAIN Plans
    /\ job[w].stage # "unlock" => job[w].what \notin applied
    /\ job[w].stage = "start" =>
         job[w].todo = Pos!Normalized(job[w].what) /\ job[w].writes = {}
    /\ job[w].stage = "apply" => ApplyOK(w)

\* What a transaction writes was computed from the row as it is, or the row
\* has a later version.
DraftOK(u, e, side) ==
  \E r \in position :
    /\ r.key = e[side] /\ u.key = r.key /\ u.by = r.by /\ u.version <= r.version + 1
    /\ u.version = r.version + 1 => u = Pos!Changed(r, Pos!Effect(e, side))

EntryOK(w) ==
  job[w].kind = "entry" =>
    /\ job[w].what \in Entries
    /\ \E u, v \in job[w].writes : /\ job[w].writes = {u, v}
                                   /\ DraftOK(u, job[w].what, "source")
                                   /\ DraftOK(v, job[w].what, "destination")

JobOK(w) ==
  /\ job[w].kind = "none" => job[w] = Pos!NoJob
  /\ job[w].kind = "find" =>
       job[w].what \in PositionKeys /\ (job[w].stage = "again" => Pos!HasRow(job[w].what))
  /\ job[w].kind = "holds" =>
       job[w].what \in PositionKeys /\ Pos!HasRow(job[w].what) /\ rowLock[job[w].what] = w
  /\ PlanOK(w) /\ EntryOK(w)

\* A plan is applied once.
PlansApart ==
  \A v, w \in Callers : v # w /\ job[v].kind = "plan" /\ job[w].kind = "plan" => job[v].what # job[w].what

\* Whoever has a row locked is about to write it.
LocksOK ==
  \A k \in PositionKeys, w \in Callers : rowLock[k] = w =>
    \/ job[w].kind = "plan" /\ job[w].stage = "apply" /\ \E u \in job[w].writes : u.key = k
    \/ job[w].kind = "holds" /\ job[w].what = k

\* A commit or void comes after its hold, and takes no more than is left.
EnteredOK ==
  /\ \A c \in entered : c.kind \in {"commit", "void"} => \E h \in entered : h.id = c.parent
  /\ \A h \in entered : Pos!Remaining(h) \in Nat

\* A row says what its plans and transactions add up to; without a row that
\* is nothing.
KeyOK(k) ==
  /\ \A r \in position : r.key = k =>
       /\ r.amount = Pos!Booked(k)
       /\ k \notin manual => /\ r.blocked = Pos!LiveHolds(k, "source")
                             /\ r.waiting = Pos!LiveHolds(k, "destination")
  /\ (\A r \in position : r.key # k) =>
       /\ Pos!Booked(k) = 0 /\ Pos!LiveHolds(k, "source") = 0 /\ Pos!LiveHolds(k, "destination") = 0

BooksKept == \A k \in PositionKeys : KeyOK(k)

PosStrong ==
  /\ PosTypes /\ RowsOK /\ PlansApart /\ LocksOK /\ EnteredOK /\ BooksKept
  /\ \A w \in Callers : JobOK(w)

\* The instance adds up as everybody does.
LEMMA PosSum == ASSUME NEW f PROVE Pos!SumFunction(f) = SumFunction(f)
BY DEF Pos!SumFunction, Pos!SumFunctionOnSet, Pos!FoldFunctionOnSet, Pos!MapThenFoldSet,
   SumFunction, SumFunctionOnSet, FoldFunctionOnSet, MapThenFoldSet

\* It takes the same sets for finite.
LEMMA PosFinite == ASSUME NEW S PROVE Pos!IsFiniteSet(S) <=> IsFiniteSet(S)
BY DEF Pos!IsFiniteSet, IsFiniteSet

\* The merged delta of a key is a delta.
LEMMA MergedDelta ==
  ASSUME Pos!PositionsAssumption, NEW plan \in DOMAIN Plans, NEW k \in PositionKeys
  PROVE  Pos!Merged(plan, k) \in PositionDeltas /\ Pos!Merged(plan, k).key = k
<1>1. PICK deltas : deltas = Plans[plan]
  OBVIOUS
<1>2. deltas \in Seq(PositionDeltas)
  BY <1>1 DEF Pos!PositionsAssumption, PositionDeltas
<1>3. ASSUME NEW field \in {"amount", "blocked", "waiting"}
      PROVE  Pos!Total(deltas, k, field) \in Int
  <2>1. PICK S : S = {m \in DOMAIN deltas : deltas[m].key = k}
    OBVIOUS
  <2>2. IsFiniteSet(S)
    <3>1. DOMAIN deltas = 1 .. Len(deltas) /\ Len(deltas) \in Nat
      BY <1>2
    <3>2. IsFiniteSet(1 .. Len(deltas))
      <4>1. 1 \in Int /\ Len(deltas) \in Int
        BY <3>1
      <4> QED
        BY <4>1, FS_Interval
    <3> QED
      BY <2>1, <3>1, <3>2, FS_Subset
  <2>3. PICK f : f = [n \in S |-> deltas[n][field]]
    OBVIOUS
  <2>4. ASSUME NEW n \in S PROVE deltas[n][field] \in Int
    <3>1. deltas[n] \in PositionDeltas
      BY <1>2, <2>1
    <3> QED
      BY <3>1 DEF PositionDeltas
  <2>5. f \in [S -> Int]
    BY <2>3, <2>4
  <2>6. SumFunction(f) \in Int
    BY <2>2, <2>5, FunctionSumInt
  <2> QED
    BY <2>1, <2>3, <2>6, PosSum DEF Pos!Total
<1> QED
  BY <1>1, <1>3 DEF Pos!Merged, PositionDeltas

\* What an entry does to its ends.
LEMMA EffectDelta ==
  ASSUME Pos!PositionsAssumption, NEW e \in Entries, NEW side \in {"source", "destination"}
  PROVE  Pos!Effect(e, side) \in PositionDeltas /\ Pos!Effect(e, side).key = e[side]
BY DEF Pos!PositionsAssumption, Pos!Effect, PositionDeltas

\* A plan that is committed adds its deltas.
LEMMA PlanBooked ==
  ASSUME Pos!PositionsAssumption, PosTypes, NEW plan \in DOMAIN Plans, plan \notin applied,
         applied' = applied \cup {plan}, entered' = entered, NEW k \in PositionKeys
  PROVE  /\ Pos!Booked(k)' = Pos!Booked(k) + Pos!Merged(plan, k).amount /\ Pos!Booked(k) \in Int
         /\ \A side : Pos!LiveHolds(k, side)' = Pos!LiveHolds(k, side)
<1>1. IsFiniteSet(applied) /\ IsFiniteSet(entered)
  BY FS_Subset, PosFinite DEF Pos!PositionsAssumption, PosTypes
<1>2. PICK f : f = [p \in applied |-> Pos!Merged(p, k).amount]
  OBVIOUS
<1>14. PICK T : T = applied \cup {plan}
  OBVIOUS
<1>3. PICK g : g = [p \in T |-> Pos!Merged(p, k).amount]
  OBVIOUS
<1>4. ASSUME NEW p \in T PROVE Pos!Merged(p, k).amount \in Int
  <2>1. p \in DOMAIN Plans
    BY <1>14 DEF PosTypes
  <2> QED
    BY <2>1, MergedDelta DEF PositionDeltas
<1>5. f \in [applied -> Int] /\ g \in [T -> Int] /\ \A p \in applied : g[p] = f[p]
  BY <1>2, <1>3, <1>4, <1>14
<1>6. SumFunction(g) = SumFunction(f) + g[plan] /\ SumFunction(f) \in Int
  <2>1. plan \in T /\ T \ {plan} = applied /\ IsFiniteSet(T) /\ f = [p \in applied |-> g[p]]
    BY <1>1, <1>5, <1>14, FS_AddElement
  <2>3. g \in [T -> Int] /\ plan \in T /\ IsFiniteSet(T)
    BY <1>5, <2>1
  <2>2. SumFunction(g) = SumFunction([x \in T \ {plan} |-> g[x]]) + g[plan]
    BY ONLY <2>3, FunctionSumWithout
  <2> QED
    BY <1>1, <1>5, <2>1, <2>2, FunctionSumInt
<1>7. PICK a : a = SumFunction([e \in {x \in entered : x.destination = k} |-> Pos!Effect(e, "destination").amount])
  OBVIOUS
<1>8. PICK b : b = SumFunction([e \in {x \in entered : x.source = k} |-> Pos!Effect(e, "source").amount])
  OBVIOUS
<1>9. a \in Int /\ b \in Int
  <2>1. IsFiniteSet({x \in entered : x.destination = k}) /\ IsFiniteSet({x \in entered : x.source = k})
    BY <1>1, FS_Subset
  <2>2. \A e \in entered : Pos!Effect(e, "destination").amount \in Int /\ Pos!Effect(e, "source").amount \in Int
    BY EffectDelta DEF PosTypes, PositionDeltas
  <2>3. /\ [e \in {x \in entered : x.destination = k} |-> Pos!Effect(e, "destination").amount]
             \in [{x \in entered : x.destination = k} -> Int]
        /\ [e \in {x \in entered : x.source = k} |-> Pos!Effect(e, "source").amount]
             \in [{x \in entered : x.source = k} -> Int]
    BY <2>2
  <2> QED
    BY <1>7, <1>8, <2>1, <2>3, FunctionSumInt
<1>10. Pos!Booked(k) = SumFunction(f) + a + b
  BY <1>2, <1>7, <1>8, PosSum DEF Pos!Booked
<1>11. Pos!Booked(k)' = SumFunction(g) + a + b
  BY <1>3, <1>7, <1>8, <1>14, PosSum DEF Pos!Booked
<1>12. g[plan] = Pos!Merged(plan, k).amount /\ g[plan] \in Int
  BY <1>3, <1>5, <1>14
<1>13. \A side : Pos!LiveHolds(k, side)' = Pos!LiveHolds(k, side)
  BY DEF Pos!LiveHolds, Pos!Remaining, Pos!Children
<1> QED
  BY <1>6, <1>9, <1>10, <1>11, <1>12, <1>13

\* The sums of the position module, of any set of transactions.
EndsSum(E, k, side) == SumFunction([e \in {x \in E : x[side] = k} |-> Pos!Effect(e, side).amount])
Kids(E, h, kind) == {e \in E : e.parent = h.id /\ e.kind = kind}
KidSum(E, h) == SumFunction([e \in Kids(E, h, "commit") |-> e.amount])
Rest(E, h) == IF Kids(E, h, "void") # {} THEN 0 ELSE h.amount - KidSum(E, h)
HoldsAt(E, k, side) == {e \in E : e.kind = "hold" /\ e[side] = k}
LiveSum(E, k, side) == SumFunction([h \in HoldsAt(E, k, side) |-> Rest(E, h)])

\* They are the sums of what is entered.
LEMMA SumsOf ==
  ASSUME NEW k
  PROVE  /\ \A h : Pos!Remaining(h) = Rest(entered, h) /\ Pos!Remaining(h)' = Rest(entered', h')
         /\ \A side : /\ Pos!LiveHolds(k, side) = LiveSum(entered, k, side)
                      /\ Pos!LiveHolds(k, side)' = LiveSum(entered', k', side')
BY PosSum DEF Pos!Remaining, Pos!Children, Rest, Kids, KidSum, Pos!LiveHolds, LiveSum, HoldsAt

\* The effect of a transaction on one end.
EndsPart(e, k, side) == IF e[side] = k THEN Pos!Effect(e, side).amount ELSE 0

\* One more transaction has its effect on its ends.
LEMMA EndsGrown ==
  ASSUME Pos!PositionsAssumption, NEW E \in SUBSET Entries, NEW e \in Entries, e \notin E,
         NEW k, NEW side \in {"source", "destination"}
  PROVE  /\ EndsSum(E \cup {e}, k, side) = EndsSum(E, k, side) + EndsPart(e, k, side)
         /\ EndsSum(E, k, side) \in Int /\ EndsPart(e, k, side) \in Int
<1>1. PICK S, T : S = {x \in E : x[side] = k} /\ T = {x \in E \cup {e} : x[side] = k}
  OBVIOUS
<1>2. IsFiniteSet(S) /\ IsFiniteSet(T)
  <2>1. IsFiniteSet(Entries)
    BY PosFinite DEF Pos!PositionsAssumption
  <2> QED
    BY <1>1, <2>1, FS_Subset
<1>3. \A x \in E \cup {e} : Pos!Effect(x, side).amount \in Int
  BY EffectDelta DEF PositionDeltas
<1>4. PICK f, g : f = [x \in S |-> Pos!Effect(x, side).amount] /\ g = [x \in T |-> Pos!Effect(x, side).amount]
  OBVIOUS
<1>5. f \in [S -> Int] /\ g \in [T -> Int]
  BY <1>1, <1>3, <1>4
<1>6. EndsSum(E, k, side) = SumFunction(f) /\ EndsSum(E \cup {e}, k, side) = SumFunction(g)
  BY <1>1, <1>4 DEF EndsSum
<1>7. SumFunction(f) \in Int /\ EndsPart(e, k, side) \in Int
  <2>1. SumFunction(f) \in Int
    BY ONLY <1>2, <1>5, FunctionSumInt
  <2> QED
    BY <1>3, <2>1 DEF EndsPart
<1>8. CASE e[side] = k
  <2>1. e \in T /\ T \ {e} = S /\ f = [x \in S |-> g[x]]
    BY <1>1, <1>4, <1>8
  <2>2. SumFunction(g) = SumFunction([x \in T \ {e} |-> g[x]]) + g[e]
    BY ONLY <1>2, <1>5, <2>1, FunctionSumWithout
  <2>3. g[e] = EndsPart(e, k, side)
    BY <1>4, <1>8, <2>1 DEF EndsPart
  <2> QED
    BY <1>6, <1>7, <2>1, <2>2, <2>3
<1>9. CASE e[side] # k
  <2>1. S = T /\ f = g /\ EndsPart(e, k, side) = 0
    BY <1>1, <1>4, <1>9 DEF EndsPart
  <2> QED
    BY <1>6, <1>7, <2>1
<1> QED
  BY <1>8, <1>9

\* A transaction that is entered adds its effects.
LEMMA EntryBooked ==
  ASSUME Pos!PositionsAssumption, PosTypes, NEW e \in Entries, e \notin entered,
         applied' = applied, entered' = entered \cup {e}, NEW k \in PositionKeys
  PROVE  /\ Pos!Booked(k)' = Pos!Booked(k) + EndsPart(e, k, "source") + EndsPart(e, k, "destination")
         /\ Pos!Booked(k) \in Int
<1>1. IsFiniteSet(applied) /\ entered \in SUBSET Entries
  BY FS_Subset, PosFinite DEF Pos!PositionsAssumption, PosTypes
<1>2. PICK f : f = [p \in applied |-> Pos!Merged(p, k).amount]
  OBVIOUS
<1>3. f \in [applied -> Int]
  <2>1. ASSUME NEW p \in applied PROVE Pos!Merged(p, k).amount \in Int
    BY MergedDelta DEF PositionDeltas, PosTypes
  <2> QED
    BY <1>2, <2>1
<1>4. SumFunction(f) \in Int
  BY ONLY <1>1, <1>3, FunctionSumInt
<1>5. Pos!Booked(k) = SumFunction(f) + EndsSum(entered, k, "destination") + EndsSum(entered, k, "source")
  BY <1>2, PosSum DEF Pos!Booked, EndsSum
<1>6. Pos!Booked(k)' = SumFunction(f) + EndsSum(entered \cup {e}, k, "destination")
                                      + EndsSum(entered \cup {e}, k, "source")
  BY <1>2, PosSum DEF Pos!Booked, EndsSum
<1>7. ASSUME NEW side \in {"source", "destination"}
      PROVE  /\ EndsSum(entered \cup {e}, k, side) = EndsSum(entered, k, side) + EndsPart(e, k, side)
             /\ EndsSum(entered, k, side) \in Int /\ EndsPart(e, k, side) \in Int
  <2>1. PICK E : E = entered
    OBVIOUS
  <2>2. E \in SUBSET Entries /\ e \notin E /\ Pos!PositionsAssumption
    BY <1>1, <2>1
  <2>3. /\ EndsSum(E \cup {e}, k, side) = EndsSum(E, k, side) + EndsPart(e, k, side)
        /\ EndsSum(E, k, side) \in Int /\ EndsPart(e, k, side) \in Int
    <3>1. e \in Entries /\ side \in {"source", "destination"}
      OBVIOUS
    <3> QED
      BY ONLY <2>2, <3>1, EndsGrown, Zenon
  <2> QED
    BY <2>1, <2>3
<1> QED
  BY <1>4, <1>5, <1>6, <1>7

\* A transaction may be entered; what was entered is in order.
CanEnter(E, e) ==
  /\ e \notin E
  /\ e.kind \in {"commit", "void"} =>
       \E h \in E : h.id = e.parent /\ e.amount <= Rest(E, h) /\ (e.kind = "void" => e.amount = Rest(E, h))
SetOK(E) ==
  /\ \A c \in E : c.kind \in {"commit", "void"} => \E h \in E : h.id = c.parent
  /\ \A h \in E : Rest(E, h) \in Nat
Taken(e, h) == IF e.kind \in {"commit", "void"} /\ e.parent = h.id THEN e.amount ELSE 0

\* The commits of a hold add up to an integer.
LEMMA KidSumInt ==
  ASSUME Pos!PositionsAssumption, NEW E \in SUBSET Entries, NEW h \in Entries
  PROVE  KidSum(E, h) \in Int /\ Rest(E, h) \in Int
<1>1. PICK S, f : S = Kids(E, h, "commit") /\ f = [x \in S |-> x.amount]
  OBVIOUS
<1>2. IsFiniteSet(S) /\ f \in [S -> Int]
  <2>1. IsFiniteSet(Entries) /\ S \in SUBSET Entries /\ \A x \in Entries : x.amount \in Int
    BY <1>1, PosFinite DEF Pos!PositionsAssumption, Kids
  <2> QED
    BY <1>1, <2>1, FS_Subset
<1>3. SumFunction(f) \in Int
  BY ONLY <1>2, FunctionSumInt
<1> QED
  BY <1>1, <1>3 DEF KidSum, Rest, Pos!PositionsAssumption

\* A new transaction has no commits yet.
LEMMA RestNew ==
  ASSUME Pos!PositionsAssumption, NEW E \in SUBSET Entries, NEW e \in Entries, e \notin E, SetOK(E)
  PROVE  Rest(E \cup {e}, e) = e.amount
<1>1. \A c \in E \cup {e} : c.kind \in {"commit", "void"} => c.parent # e.id
  BY DEF SetOK, Pos!PositionsAssumption
<1>2. Kids(E \cup {e}, e, "void") = {} /\ Kids(E \cup {e}, e, "commit") = {}
  BY <1>1 DEF Kids
<1>3. PICK f : f = [x \in Kids(E \cup {e}, e, "commit") |-> x.amount]
  OBVIOUS
<1>4. DOMAIN f = {} /\ KidSum(E \cup {e}, e) = SumFunction(f)
  BY <1>2, <1>3 DEF KidSum
<1>5. KidSum(E \cup {e}, e) = 0
  BY <1>4, FunctionSumEmpty
<1>6. e.amount \in Nat
  BY DEF Pos!PositionsAssumption
<1>7. Rest(E \cup {e}, e) = e.amount - 0
  BY <1>2, <1>5 DEF Rest
<1> QED
  BY <1>6, <1>7

\* A commit or void takes its amount from what remains of its hold.
LEMMA RestAfter ==
  ASSUME Pos!PositionsAssumption, NEW E \in SUBSET Entries, NEW e \in Entries, CanEnter(E, e), SetOK(E),
         NEW h \in E
  PROVE  Rest(E \cup {e}, h) = Rest(E, h) - Taken(e, h) /\ Rest(E \cup {e}, h) \in Nat
<1>1. Rest(E, h) \in Nat /\ KidSum(E, h) \in Int /\ h.amount \in Nat /\ e.amount \in Nat
  BY KidSumInt DEF SetOK, Pos!PositionsAssumption
<1>2. ASSUME NEW kind, ~(e.parent = h.id /\ e.kind = kind)
      PROVE  Kids(E \cup {e}, h, kind) = Kids(E, h, kind)
  BY <1>2 DEF Kids
<1>3. CASE ~(e.kind \in {"commit", "void"} /\ e.parent = h.id)
  <2>1. /\ Kids(E \cup {e}, h, "commit") = Kids(E, h, "commit")
        /\ Kids(E \cup {e}, h, "void") = Kids(E, h, "void")
    BY <1>2, <1>3
  <2>2. Rest(E \cup {e}, h) = Rest(E, h)
    BY <2>1 DEF Rest, KidSum
  <2>3. Taken(e, h) = 0
    BY <1>3 DEF Taken
  <2> QED
    BY <1>1, <2>2, <2>3
<1>4. CASE e.kind = "void" /\ e.parent = h.id
  <2>1. e.amount = Rest(E, h)
    BY <1>4 DEF CanEnter, Pos!PositionsAssumption
  <2>2. e \in Kids(E \cup {e}, h, "void")
    BY <1>4 DEF Kids
  <2>3. Rest(E \cup {e}, h) = 0
    BY <2>2 DEF Rest
  <2> QED
    BY <1>1, <1>4, <2>1, <2>3 DEF Taken
<1>5. CASE e.kind = "commit" /\ e.parent = h.id
  <2>1. e.amount <= Rest(E, h)
    BY <1>5 DEF CanEnter, Pos!PositionsAssumption
  <2>2. Kids(E \cup {e}, h, "void") = Kids(E, h, "void")
    BY <1>2, <1>5
  <2>3. CASE Kids(E, h, "void") # {}
    <3>1. Rest(E, h) = 0 /\ Rest(E \cup {e}, h) = 0
      BY <2>2, <2>3 DEF Rest
    <3>2. Taken(e, h) = 0
      BY <1>1, <1>5, <2>1, <3>1 DEF Taken
    <3> QED
      BY <3>1, <3>2
  <2>4. CASE Kids(E, h, "void") = {}
    <3>1. PICK S, T : S = Kids(E, h, "commit") /\ T = Kids(E \cup {e}, h, "commit")
      OBVIOUS
    <3>2. PICK f, g : f = [x \in S |-> x.amount] /\ g = [x \in T |-> x.amount]
      OBVIOUS
    <3>3. IsFiniteSet(T) /\ g \in [T -> Int]
      <4>1. IsFiniteSet(Entries) /\ T \in SUBSET Entries /\ \A x \in Entries : x.amount \in Int
        BY <3>1, PosFinite DEF Pos!PositionsAssumption, Kids
      <4> QED
        BY <3>2, <4>1, FS_Subset
    <3>4. e \in T /\ T \ {e} = S
      BY <1>5, <3>1 DEF Kids, CanEnter
    <3>5. f = [x \in S |-> g[x]] /\ g[e] = e.amount
      BY <3>2, <3>4
    <3>6. SumFunction(g) = SumFunction([x \in T \ {e} |-> g[x]]) + g[e]
      BY ONLY <3>3, <3>4, FunctionSumWithout
    <3>7. KidSum(E \cup {e}, h) = KidSum(E, h) + e.amount
      BY <3>1, <3>2, <3>4, <3>5, <3>6 DEF KidSum
    <3>8. /\ Rest(E \cup {e}, h) = h.amount - KidSum(E \cup {e}, h) /\ Rest(E, h) = h.amount - KidSum(E, h)
      BY <2>2, <2>4 DEF Rest
    <3>9. Taken(e, h) = e.amount
      BY <1>5 DEF Taken
    <3> QED
      BY <1>1, <2>1, <3>7, <3>8, <3>9
  <2> QED
    BY <2>3, <2>4
<1> QED
  BY <1>3, <1>4, <1>5

\* What a new transaction holds at an end of it.
HeldPart(e, k, side) ==
  IF e[side] # k THEN 0
  ELSE IF e.kind = "hold" THEN e.amount
  ELSE IF e.kind \in {"commit", "void"} THEN -e.amount ELSE 0

\* What was entered stays in order.
LEMMA SetKept ==
  ASSUME Pos!PositionsAssumption, NEW E \in SUBSET Entries, NEW e \in Entries, CanEnter(E, e), SetOK(E)
  PROVE  SetOK(E \cup {e})
<1>1. ASSUME NEW h \in E PROVE Rest(E \cup {e}, h) \in Nat
  BY RestAfter
<1>2. Rest(E \cup {e}, e) \in Nat
  <2>1. e \notin E /\ e.amount \in Nat
    BY DEF CanEnter, Pos!PositionsAssumption
  <2> QED
    BY <2>1, RestNew
<1>3. \A c \in E \cup {e} : c.kind \in {"commit", "void"} => \E h \in E : h.id = c.parent
  BY DEF CanEnter, SetOK
<1> QED
  BY <1>1, <1>2, <1>3 DEF SetOK

\* The live holds of a key are counted without a commit taking too much.
LEMMA LiveNat ==
  ASSUME Pos!PositionsAssumption, NEW E \in SUBSET Entries, SetOK(E), NEW k, NEW side \in {"source", "destination"}
  PROVE  LiveSum(E, k, side) \in Nat
<1>1. PICK S, f : S = HoldsAt(E, k, side) /\ f = [h \in S |-> Rest(E, h)]
  OBVIOUS
<1>2. S \in SUBSET E /\ IsFiniteSet(Entries)
  BY <1>1, PosFinite DEF HoldsAt, Pos!PositionsAssumption
<1>3. IsFiniteSet(S) /\ f \in [S -> Nat]
  BY <1>1, <1>2, FS_Subset DEF SetOK
<1>4. SumFunction(f) \in Nat
  BY ONLY <1>3, FunctionSumNat
<1> QED
  BY <1>1, <1>4 DEF LiveSum

\* They change as the new transaction says.
LEMMA LiveGrown ==
  ASSUME Pos!PositionsAssumption, NEW E \in SUBSET Entries, NEW e \in Entries, CanEnter(E, e), SetOK(E),
         NEW k, NEW side \in {"source", "destination"}
  PROVE  LiveSum(E \cup {e}, k, side) = LiveSum(E, k, side) + HeldPart(e, k, side)
<1>1. PICK S, T : S = HoldsAt(E, k, side) /\ T = HoldsAt(E \cup {e}, k, side)
  OBVIOUS
<1>2. PICK f, g : f = [h \in S |-> Rest(E, h)] /\ g = [h \in T |-> Rest(E \cup {e}, h)]
  OBVIOUS
<1>3. LiveSum(E, k, side) = SumFunction(f) /\ LiveSum(E \cup {e}, k, side) = SumFunction(g)
  BY <1>1, <1>2 DEF LiveSum
<1>4. S \in SUBSET E /\ T \in SUBSET (E \cup {e}) /\ IsFiniteSet(S) /\ IsFiniteSet(T) /\ e \notin E
  <2>1. S \in SUBSET Entries /\ T \in SUBSET Entries /\ IsFiniteSet(Entries)
    BY <1>1, PosFinite DEF HoldsAt, Pos!PositionsAssumption
  <2> QED
    BY <1>1, <2>1, FS_Subset DEF HoldsAt, CanEnter
<1>5. f \in [S -> Int] /\ g \in [T -> Int]
  <2>1. \A h \in S : Rest(E, h) \in Int
    BY <1>4, KidSumInt
  <2>2. \A h \in T : Rest(E \cup {e}, h) \in Int
    <3>1. PICK D : D = E \cup {e}
      OBVIOUS
    <3>2. D \in SUBSET Entries /\ \A h \in T : h \in Entries
      BY <1>4, <3>1
    <3>3. \A h \in T : Rest(D, h) \in Int
      BY <3>2, KidSumInt
    <3> QED
      BY <3>1, <3>3
  <2> QED
    BY <1>2, <2>1, <2>2
<1>6. SumFunction(f) \in Int /\ e.amount \in Nat
  <2>1. SumFunction(f) \in Int
    BY ONLY <1>4, <1>5, FunctionSumInt
  <2> QED
    BY <2>1 DEF Pos!PositionsAssumption
<1>7. \A h \in E : Rest(E \cup {e}, h) = Rest(E, h) - Taken(e, h) /\ Rest(E, h) \in Int
  BY RestAfter DEF SetOK
<1>8. CASE e.kind = "hold" /\ e[side] = k
  <2>1. e \in T /\ T \ {e} = S
    BY <1>1, <1>4, <1>8 DEF HoldsAt
  <2>2. \A h \in S : g[h] = f[h]
    <3>1. \A h \in S : Taken(e, h) = 0 /\ h \in T
      BY <1>8, <2>1 DEF Taken
    <3>2. \A h \in S : Rest(E \cup {e}, h) = Rest(E, h)
      BY <1>4, <1>7, <3>1
    <3> QED
      BY <1>2, <3>1, <3>2
  <2>3. f = [h \in T \ {e} |-> g[h]]
    BY <1>2, <2>1, <2>2
  <2>4. g[e] = e.amount
    BY <1>2, <1>4, <2>1, RestNew
  <2>5. SumFunction(g) = SumFunction([h \in T \ {e} |-> g[h]]) + g[e]
    BY ONLY <1>4, <1>5, <2>1, FunctionSumWithout
  <2>6. HeldPart(e, k, side) = e.amount
    BY <1>8 DEF HeldPart
  <2> QED
    BY <1>3, <2>3, <2>4, <2>5, <2>6
<1>9. CASE e.kind \in {"commit", "void"} /\ e[side] = k
  <2>1. PICK h \in E : h.id = e.parent
    BY <1>9 DEF CanEnter
  <2>2. h.kind = "hold" /\ h[side] = k
    BY <1>9, <2>1 DEF Pos!PositionsAssumption
  <2>3. S = T /\ h \in S
    BY <1>1, <1>9, <2>2 DEF HoldsAt
  <2>4. Taken(e, h) = e.amount /\ \A i \in S : i # h => Taken(e, i) = 0
    <3>1. \A i \in S : i # h => e.parent # i.id
      BY <1>4, <2>1 DEF Pos!PositionsAssumption
    <3> QED
      BY <1>9, <2>1, <3>1 DEF Taken
  <2>5. g[h] = f[h] - e.amount /\ \A i \in S : i # h => g[i] = f[i]
    <3>1. \A i \in S : g[i] = Rest(E \cup {e}, i) /\ f[i] = Rest(E, i)
      BY <1>2, <2>3
    <3>2. \A i \in S : g[i] = f[i] - Taken(e, i) /\ f[i] \in Int
      BY <1>4, <1>7, <3>1
    <3> QED
      BY <2>3, <2>4, <3>2
  <2>6. SumFunction(g) = SumFunction(f) - f[h] + g[h]
    BY ONLY <1>4, <1>5, <2>3, <2>5, FunctionSumChanged
  <2>7. HeldPart(e, k, side) = -e.amount /\ f[h] \in Int
    BY <1>5, <1>9, <2>3 DEF HeldPart
  <2> QED
    BY <1>3, <1>6, <2>5, <2>6, <2>7
<1>10. CASE e[side] # k \/ e.kind \notin {"hold", "commit", "void"}
  <2>1. S = T
    BY <1>1, <1>10 DEF HoldsAt
  <2>2. \A h \in S : Taken(e, h) = 0
    <3>1. ASSUME NEW h \in S, e.kind \in {"commit", "void"}, e.parent = h.id PROVE FALSE
      <4>1. h[side] = e[side] /\ h[side] = k
        BY <1>1, <1>4, <3>1 DEF HoldsAt, Pos!PositionsAssumption
      <4> QED
        BY <1>10, <3>1, <4>1
    <3> QED
      BY <3>1 DEF Taken
  <2>3. f = g
    <3>1. \A h \in S : Rest(E, h) - Taken(e, h) = Rest(E, h)
      BY <1>4, <1>7, <2>2
    <3>2. \A h \in S : Rest(E \cup {e}, h) = Rest(E, h)
      BY <1>4, <1>7, <3>1
    <3> QED
      BY <1>2, <2>1, <3>2
  <2>4. HeldPart(e, k, side) = 0
    BY <1>10 DEF HeldPart
  <2> QED
    BY <1>3, <1>6, <2>3, <2>4
<1> QED
  BY <1>8, <1>9, <1>10 DEF Pos!PositionsAssumption

\* The live holds of a key change as the entered transaction says.
LEMMA LiveEntry ==
  ASSUME Pos!PositionsAssumption, PosTypes, EnteredOK, NEW e \in Entries, Pos!Enterable(e), entered' = entered \cup {e},
         NEW k \in PositionKeys, NEW side \in {"source", "destination"}
  PROVE  /\ Pos!LiveHolds(k, side)' = Pos!LiveHolds(k, side) + HeldPart(e, k, side)
         /\ Pos!LiveHolds(k, side) \in Nat
<1>1. PICK E : E = entered
  OBVIOUS
<1>2. E \in SUBSET Entries /\ CanEnter(E, e) /\ SetOK(E)
  BY <1>1, SumsOf DEF PosTypes, Pos!Enterable, CanEnter, EnteredOK, SetOK
<1>3. LiveSum(E, k, side) \in Nat
  BY <1>2, LiveNat
<1>4. LiveSum(E \cup {e}, k, side) = LiveSum(E, k, side) + HeldPart(e, k, side)
  BY <1>2, LiveGrown
<1> QED
  BY <1>1, <1>3, <1>4, SumsOf

\* Commits and voids stay in order.
LEMMA EnteredKept ==
  ASSUME Pos!PositionsAssumption, PosTypes, EnteredOK, NEW e \in Entries, Pos!Enterable(e), entered' = entered \cup {e}
  PROVE  EnteredOK'
<1>1. PICK E : E = entered
  OBVIOUS
<1>2. E \in SUBSET Entries /\ CanEnter(E, e) /\ SetOK(E)
  BY <1>1, SumsOf DEF PosTypes, Pos!Enterable, CanEnter, EnteredOK, SetOK
<1>3. SetOK(E \cup {e})
  BY <1>2, SetKept
<1> QED
  BY <1>1, <1>3, SumsOf DEF EnteredOK, SetOK

\* A step leaves every row, or one of a later version in its place.
RowsAdvance ==
  \A r \in position : \E s \in position' :
    s.key = r.key /\ s.by = r.by /\ r.version <= s.version /\ (r.version = s.version => s = r)

\* The rows that somebody has locked stay as they are, and locked.
Spared(v) ==
  \A k \in PositionKeys : rowLock[k] = v =>
    /\ rowLock'[k] = v
    /\ \A r \in position : r.key = k => r \in position'
    /\ \A r \in position' : r.key = k => r \in position

\* What a transaction is about to write stays current, or becomes outdated.
LEMMA DraftStays ==
  ASSUME PosTypes, position' \subseteq PositionRows, RowsAdvance, NEW u \in RowFields, NEW e, NEW side, DraftOK(u, e, side)
  PROVE  DraftOK(u, e, side)'
<1>1. PICK r \in position : /\ r.key = e[side] /\ u.key = r.key /\ u.by = r.by /\ u.version <= r.version + 1
                            /\ u.version = r.version + 1 => u = Pos!Changed(r, Pos!Effect(e, side))
  BY DEF DraftOK
<1>2. PICK s \in position' :
        s.key = r.key /\ s.by = r.by /\ r.version <= s.version /\ (r.version = s.version => s = r)
  BY DEF RowsAdvance
<1>3. CASE s = r
  BY <1>1, <1>2, <1>3 DEF DraftOK, Pos!Changed, Pos!Effect
<1>4. CASE s # r
  <2>1. u.version \in Nat /\ r.version \in Nat /\ s.version \in Nat
    BY DEF PosTypes, PositionRows, RowFields
  <2>2. u.version <= s.version + 1 /\ u.version # s.version + 1
    BY <1>1, <1>2, <1>4, <2>1
  <2> QED
    BY <1>1, <1>2, <2>2 DEF DraftOK
<1> QED
  BY <1>3, <1>4

\* What a plan is about to write stays current, for the row is locked.
LEMMA WriteStays ==
  ASSUME PosTypes, NEW v \in Callers, job'[v].what = job[v].what, Spared(v),
         NEW u \in RowFields, WriteOK(v, u)
  PROVE  WriteOK(v, u)'
<1>1. u.key \in PositionKeys /\ rowLock[u.key] = v
  BY DEF WriteOK, RowFields
<1>2. /\ rowLock'[u.key] = v /\ u \in PositionRows
      /\ \A r \in position : r.key = u.key => r \in position'
      /\ \A r \in position' : r.key = u.key => r \in position
  BY <1>1 DEF Spared, WriteOK
<1>3. PICK d : d = Pos!Merged(job[v].what, u.key)
  OBVIOUS
<1>4. CASE \E r \in position : r.key = u.key /\ u = Pos!Changed(r, d)
  BY <1>2, <1>3, <1>4 DEF WriteOK, Pos!Changed
<1>5. CASE (\A r \in position : r.key # u.key) /\ u = Pos!Changed(Pos!Zero(u.key, v), d)
  BY <1>2, <1>3, <1>5 DEF WriteOK, Pos!Changed
<1> QED
  BY <1>3, <1>4, <1>5 DEF WriteOK

\* So what others do disturbs no job.
LEMMA JobStays ==
  ASSUME PosTypes, NEW v \in Callers, JobOK(v), job'[v] = job[v],
         position' \subseteq PositionRows, RowsAdvance, Spared(v),
         job[v].kind = "plan" /\ job[v].what \in applied' => job[v].what \in applied
  PROVE  JobOK(v)'
<1>1. job[v] \in JobRecords
  BY DEF PosTypes
<1>2. \A k : Pos!HasRow(k) => Pos!HasRow(k)'
  BY DEF RowsAdvance, Pos!HasRow
<1>3. EntryOK(v)'
  <2> SUFFICES ASSUME job[v].kind = "entry" PROVE EntryOK(v)'
    BY DEF EntryOK
  <2>1. PICK u, x \in job[v].writes : /\ job[v].writes = {u, x}
                                      /\ DraftOK(u, job[v].what, "source")
                                      /\ DraftOK(x, job[v].what, "destination")
    BY DEF JobOK, EntryOK
  <2>2. u \in RowFields /\ x \in RowFields
    BY <1>1 DEF JobRecords
  <2>3. PICK e : e = job[v].what
    OBVIOUS
  <2>4. DraftOK(u, e, "source")' /\ DraftOK(x, e, "destination")'
    BY <2>1, <2>2, <2>3, DraftStays
  <2>5. e \in Entries
    BY <2>3 DEF JobOK, EntryOK
  <2> QED
    BY <2>1, <2>3, <2>4, <2>5 DEF EntryOK
<1>4. PlanOK(v)'
  <2> SUFFICES ASSUME job[v].kind = "plan" PROVE PlanOK(v)'
    BY DEF PlanOK
  <2>1. ASSUME job[v].stage = "apply" PROVE ApplyOK(v)'
    <3>1. ApplyOK(v)
      BY <2>1 DEF JobOK, PlanOK
    <3>2. ASSUME NEW u \in job[v].writes PROVE WriteOK(v, u)'
      <4>1. u \in RowFields /\ WriteOK(v, u)
        BY <1>1, <3>1 DEF JobRecords, ApplyOK
      <4> QED
        BY <4>1, WriteStays
    <3> QED
      BY <3>1, <3>2 DEF ApplyOK
  <2> QED
    BY <2>1 DEF JobOK, PlanOK
<1>5. job[v].kind = "holds" => job[v].what \in PositionKeys /\ Pos!HasRow(job[v].what)' /\ rowLock'[job[v].what] = v
  BY <1>2 DEF JobOK, Spared
<1>6. job[v].kind = "find" =>
       job[v].what \in PositionKeys /\ (job[v].stage = "again" => Pos!HasRow(job[v].what)')
  BY <1>2 DEF JobOK
<1>7. Pos!NoJob' = Pos!NoJob
  BY DEF Pos!NoJob
<1> QED
  BY <1>3, <1>4, <1>5, <1>6, <1>7 DEF JobOK, Pos!HasRow

\* Steps that change no row: what one worker does is all that can go wrong.
QuietJob(w, J) ==
  /\ J \in JobRecords /\ job' = [job EXCEPT ![w] = J]
  /\ J.kind = "plan" => \A v \in Callers : v # w /\ job[v].kind = "plan" => job[v].what # J.what

\* The other jobs stay as they are.
LEMMA Framed ==
  ASSUME PosTypes, NEW w \in Callers, NEW J, QuietJob(w, J)
  PROVE  job'[w] = J /\ job' \in [Callers -> JobRecords] /\ \A v \in Callers : v # w => job'[v] = job[v]
BY DEF QuietJob, PosTypes

\* No plan is applied by two.
LEMMA PlansStayApart ==
  ASSUME PosTypes, PlansApart, NEW w \in Callers, NEW J, QuietJob(w, J) PROVE PlansApart'
BY Framed DEF PlansApart, QuietJob

\* The rows that the worker has locked, it is about to write.
LocksOf(w) ==
  \A k \in PositionKeys : rowLock[k] = w =>
    \/ job[w].kind = "plan" /\ job[w].stage = "apply" /\ \E u \in job[w].writes : u.key = k
    \/ job[w].kind = "holds" /\ job[w].what = k

\* Whoever has a row locked is still about to write it.
LEMMA LocksStay ==
  ASSUME PosTypes, LocksOK, NEW w \in Callers, NEW J, QuietJob(w, J), LocksOf(w)',
         \A k \in PositionKeys, v \in Callers : v # w /\ rowLock'[k] = v => rowLock[k] = v
  PROVE  LocksOK'
<1>1. ASSUME NEW k \in PositionKeys, NEW v \in Callers, v # w, rowLock'[k] = v
      PROVE  \/ job'[v].kind = "plan" /\ job'[v].stage = "apply" /\ \E u \in job'[v].writes : u.key = k
             \/ job'[v].kind = "holds" /\ job'[v].what = k
  BY <1>1, Framed DEF LocksOK
<1> QED
  BY <1>1 DEF LocksOK, LocksOf

\* The sums depend on what was committed only.
LEMMA SumsStay ==
  ASSUME entered' = entered
  PROVE  /\ \A k, side : Pos!LiveHolds(k, side)' = Pos!LiveHolds(k, side)
         /\ applied' = applied => \A k : Pos!Booked(k)' = Pos!Booked(k)
         /\ EnteredOK => EnteredOK'
<1>1. ASSUME NEW h PROVE Pos!Remaining(h)' = Pos!Remaining(h)
  BY DEF Pos!Remaining, Pos!Children
<1>2. ASSUME NEW k, NEW side PROVE Pos!LiveHolds(k, side)' = Pos!LiveHolds(k, side)
  BY DEF Pos!LiveHolds, Pos!Remaining, Pos!Children
<1>3. ASSUME applied' = applied, NEW k PROVE Pos!Booked(k)' = Pos!Booked(k)
  BY <1>3 DEF Pos!Booked
<1>4. ASSUME EnteredOK PROVE EnteredOK'
  BY <1>1, <1>4 DEF EnteredOK
<1> QED
  BY <1>2, <1>3, <1>4

\* Rows and sums stay equal when neither changes.
LEMMA BooksStay ==
  ASSUME entered' = entered, applied' = applied, manual' = manual, position' = position, EnteredOK, BooksKept
  PROVE  EnteredOK' /\ BooksKept'
<1>1. ASSUME NEW k \in PositionKeys PROVE KeyOK(k)'
  <2>1. /\ Pos!Booked(k)' = Pos!Booked(k) /\ Pos!LiveHolds(k, "source")' = Pos!LiveHolds(k, "source")
        /\ Pos!LiveHolds(k, "destination")' = Pos!LiveHolds(k, "destination")
    BY SumsStay
  <2> QED
    BY <2>1 DEF BooksKept, KeyOK
<1> QED
  BY <1>1, SumsStay DEF BooksKept

\* A step that changes no row keeps the invariant if the worker does.
LEMMA QuietStep ==
  ASSUME Pos!PositionsAssumption, PosStrong, NEW w \in Callers, NEW J, QuietJob(w, J), JobOK(w)', RowsOK', LocksOf(w)',
         position' = position, entered' = entered, applied' = applied, manual' = manual,
         keyLock' \in [PositionKeys -> Callers \cup {Nothing}],
         rowLock' \in [PositionKeys -> Callers \cup {Nothing}],
         \A k \in PositionKeys, v \in Callers : v # w => (rowLock'[k] = v <=> rowLock[k] = v)
  PROVE  PosStrong'
<1>1. PosTypes /\ PlansApart /\ LocksOK /\ EnteredOK /\ BooksKept /\ \A v \in Callers : JobOK(v)
  BY DEF PosStrong
<1>2. PosTypes'
  BY <1>1, Framed DEF PosTypes
<1>3. PlansApart' /\ LocksOK'
  BY <1>1, PlansStayApart, LocksStay
<1>4. EnteredOK' /\ BooksKept'
  BY <1>1, BooksStay
<1>5. ASSUME NEW v \in Callers, v # w PROVE JobOK(v)'
  <2>1. position' \subseteq PositionRows /\ RowsAdvance
    BY <1>1, <1>2 DEF PosTypes, RowsAdvance, PositionRows, RowFields
  <2>2. Spared(v)
    BY <1>5 DEF Spared
  <2>3. job'[v] = job[v] /\ JobOK(v)
    BY <1>1, <1>5, Framed
  <2> QED
    BY <1>1, <2>1, <2>2, <2>3, JobStays
<1> QED
  BY <1>2, <1>3, <1>4, <1>5 DEF PosStrong

\* The row of a key.
LEMMA RowFound ==
  ASSUME NEW k, Pos!HasRow(k)
  PROVE  Pos!RowOf(k) \in position /\ Pos!RowOf(k).key = k
BY DEF Pos!HasRow, Pos!RowOf

\* An answer that is a row.
LEMMA AnswerKept ==
  ASSUME RowsOK, NEW k, Pos!HasRow(k), position' = position, answers' = answers \cup {Pos!Id(Pos!RowOf(k))}
  PROVE  RowsOK'
<1>1. PICK r \in position : r = Pos!RowOf(k)
  BY RowFound
<1>2. answers' = answers \cup {Pos!Id(r)}
  BY <1>1
<1>3. \A a \in answers' : \E s \in position : a = Pos!Id(s)
  BY <1>2 DEF RowsOK
<1> QED
  BY <1>3 DEF RowsOK, Pos!Id

\* To do nothing is a job.
LEMMA NoJobFits == Pos!NoJob \in JobRecords /\ Pos!NoJob.kind = "none"
BY DEF Pos!NoJob, JobRecords, JobKinds

\* Nobody has a row locked without a reason.
LEMMA IdleLocks ==
  ASSUME PosTypes, LocksOK, NEW w \in Callers, ~(job[w].kind = "plan" /\ job[w].stage = "apply"),
         job[w].kind # "holds"
  PROVE  \A k \in PositionKeys : rowLock[k] # w
BY DEF LocksOK

\* A worker that has ended.
LEMMA EndedStep ==
  ASSUME Pos!PositionsAssumption, PosStrong, NEW w \in Callers, Pos!Ends(w), RowsOK',
         ~(job[w].kind = "plan" /\ job[w].stage = "apply"), job[w].kind # "holds",
         position' = position, entered' = entered, applied' = applied, manual' = manual,
         keyLock' \in [PositionKeys -> Callers \cup {Nothing}], rowLock' = rowLock
  PROVE  PosStrong'
<1>1. PICK J : J = Pos!NoJob
  OBVIOUS
<1>2. QuietJob(w, J) /\ J.kind = "none"
  BY <1>1, NoJobFits DEF Pos!Ends, QuietJob
<1>3. PosTypes /\ LocksOK /\ job'[w] = J /\ rowLock \in [PositionKeys -> Callers \cup {Nothing}]
  BY <1>2, Framed DEF PosStrong, PosTypes
<1>4. JobOK(w)'
  <2>1. job'[w].kind = "none" /\ job'[w] = Pos!NoJob'
    BY <1>1, <1>2, <1>3 DEF Pos!NoJob
  <2> QED
    BY <2>1 DEF JobOK, PlanOK, EntryOK
<1>5. LocksOf(w)'
  BY <1>3, IdleLocks DEF LocksOf
<1> QED
  BY <1>2, <1>3, <1>4, <1>5, QuietStep

\* FindOrCreatePosition looks for the row.
LEMMA FindKeeps ==
  ASSUME Pos!PositionsAssumption, PosStrong, NEW w \in Callers, NEW k \in PositionKeys, Pos!FindPosition(w, k)
  PROVE  PosStrong'
<1> PosTypes /\ RowsOK /\ LocksOK /\ JobOK(w) /\ rowLock \in [PositionKeys -> Callers \cup {Nothing}]
    /\ keyLock \in [PositionKeys -> Callers \cup {Nothing}]
  BY DEF PosStrong, PosTypes
<1>1. position' = position /\ entered' = entered /\ applied' = applied /\ manual' = manual /\ keyLock' = keyLock
      /\ rowLock' = rowLock
  BY DEF Pos!FindPosition
<1>2. CASE Pos!HasRow(k)
  <2>1. RowsOK' /\ job' = job
    BY <1>1, <1>2, AnswerKept DEF Pos!FindPosition
  <2>2. PICK J : J = job[w]
    OBVIOUS
  <2>3. QuietJob(w, J)
    BY <2>1, <2>2 DEF QuietJob, PosStrong, PosTypes, PlansApart
  <2>4. JobOK(w)'
    <3>1. position' \subseteq PositionRows /\ RowsAdvance /\ Spared(w)
      BY <1>1 DEF PosTypes, RowsAdvance, PositionRows, RowFields, Spared
    <3> QED
      BY <1>1, <2>1, <3>1, JobStays
  <2>5. LocksOf(w)'
    BY <1>1, <2>1 DEF LocksOK, LocksOf
  <2> QED
    BY <1>1, <2>1, <2>3, <2>4, <2>5, QuietStep
<1>3. CASE ~Pos!HasRow(k)
  <2>1. /\ job[w] = Pos!NoJob /\ answers' = answers
        /\ job' = [job EXCEPT ![w] = [Pos!NoJob EXCEPT !.kind = "find", !.what = k, !.todo = {}]]
    BY <1>3 DEF Pos!FindPosition, Pos!Starts
  <2>2. PICK J : J = [Pos!NoJob EXCEPT !.kind = "find", !.what = k, !.todo = {}]
    OBVIOUS
  <2>3. J \in JobRecords /\ J.kind = "find" /\ J.what = k /\ J.stage = "start"
    BY <2>2 DEF Pos!NoJob, JobRecords, JobKinds
  <2>4. QuietJob(w, J) /\ RowsOK'
    BY <1>1, <2>1, <2>2, <2>3 DEF QuietJob, RowsOK
  <2>5. job'[w] = J
    BY <2>4, Framed
  <2>6. JobOK(w)'
    BY <2>3, <2>5 DEF JobOK, PlanOK, EntryOK
  <2>7. LocksOf(w)'
    BY <1>1, <2>1, IdleLocks, NoJobFits DEF LocksOf
  <2> QED
    BY <1>1, <2>4, <2>6, <2>7, QuietStep
<1> QED
  BY <1>2, <1>3

\* FindOrCreatePosition looks again.
LEMMA FoundKeeps ==
  ASSUME Pos!PositionsAssumption, PosStrong, NEW w \in Callers, Pos!FoundPosition(w) PROVE PosStrong'
<1>1. RowsOK /\ JobOK(w) /\ job[w].kind = "find" /\ job[w].stage = "again"
      /\ keyLock \in [PositionKeys -> Callers \cup {Nothing}]
  BY DEF Pos!FoundPosition, Pos!At, PosStrong, PosTypes
<1>2. PICK k : k = job[w].what
  OBVIOUS
<1>3. Pos!HasRow(k)
  BY <1>1, <1>2 DEF JobOK
<1>4. position' = position /\ entered' = entered /\ applied' = applied /\ manual' = manual /\ keyLock' = keyLock
      /\ rowLock' = rowLock /\ answers' = answers \cup {Pos!Id(Pos!RowOf(k))} /\ Pos!Ends(w)
  BY <1>2 DEF Pos!FoundPosition
<1>5. RowsOK'
  BY <1>1, <1>3, <1>4, AnswerKept
<1> QED
  BY <1>1, <1>4, <1>5, EndedStep

\* A plan does not get its locks.
LEMMA WaitKeeps ==
  ASSUME Pos!PositionsAssumption, PosStrong, NEW w \in Callers, Pos!WaitTimesOut(w) PROVE PosStrong'
<1>1. /\ job[w].kind = "plan" /\ job[w].stage = "start" /\ Pos!Ends(w)
      /\ position' = position /\ entered' = entered /\ applied' = applied /\ manual' = manual
      /\ keyLock' = keyLock /\ rowLock' = rowLock /\ answers' = answers
  BY DEF Pos!WaitTimesOut, Pos!At
<1>2. RowsOK' /\ keyLock' \in [PositionKeys -> Callers \cup {Nothing}]
  BY <1>1 DEF PosStrong, PosTypes, RowsOK
<1> QED
  BY <1>1, <1>2, EndedStep

\* A plan releases its locks.
LEMMA UnlockKeeps ==
  ASSUME Pos!PositionsAssumption, PosStrong, NEW w \in Callers, Pos!UnlockKeys(w) PROVE PosStrong'
<1>1. /\ job[w].kind = "plan" /\ job[w].stage = "unlock" /\ Pos!Ends(w)
      /\ position' = position /\ entered' = entered /\ applied' = applied /\ manual' = manual
      /\ rowLock' = rowLock /\ answers' = answers
      /\ keyLock' = [k \in PositionKeys |-> IF keyLock[k] = w THEN Nothing ELSE keyLock[k]]
  BY DEF Pos!UnlockKeys, Pos!At
<1>2. RowsOK' /\ keyLock' \in [PositionKeys -> Callers \cup {Nothing}]
  BY <1>1 DEF PosStrong, PosTypes, RowsOK
<1> QED
  BY <1>1, <1>2, EndedStep

\* The locks of a plan expire.
LEMMA ExpireKeeps ==
  ASSUME Pos!PositionsAssumption, PosStrong, NEW w \in Callers, Pos!ExpireKeys(w) PROVE PosStrong'
<1>1. /\ position' = position /\ entered' = entered /\ applied' = applied /\ manual' = manual
      /\ rowLock' = rowLock /\ answers' = answers /\ job' = job
  BY DEF Pos!ExpireKeys
<1>2. /\ PosTypes /\ RowsOK /\ PlansApart /\ LocksOK /\ EnteredOK /\ BooksKept /\ JobOK(w)
      /\ keyLock \in [PositionKeys -> Callers \cup {Nothing}] /\ rowLock \in [PositionKeys -> Callers \cup {Nothing}]
  BY DEF PosStrong, PosTypes
<1>3. keyLock' \in [PositionKeys -> Callers \cup {Nothing}]
  BY <1>2 DEF Pos!ExpireKeys
<1>4. PICK J : J = job[w]
  OBVIOUS
<1>5. QuietJob(w, J)
  BY <1>1, <1>2, <1>4 DEF QuietJob, PosTypes, PlansApart
<1>6. JobOK(w)'
  <2>1. position' \subseteq PositionRows /\ RowsAdvance /\ Spared(w)
    BY <1>1, <1>2 DEF PosTypes, RowsAdvance, PositionRows, RowFields, Spared
  <2> QED
    BY <1>1, <1>2, <2>1, JobStays
<1>7. LocksOf(w)' /\ RowsOK'
  BY <1>1, <1>2 DEF LocksOK, LocksOf, RowsOK
<1> QED
  BY <1>1, <1>2, <1>3, <1>5, <1>6, <1>7, QuietStep

\* A plan begins.
LEMMA PlanKeeps ==
  ASSUME Pos!PositionsAssumption, PosStrong, NEW w \in Callers, NEW plan \in DOMAIN Plans, Pos!ApplyMutationPlan(w, plan)
  PROVE  PosStrong'
<1>1. /\ position' = position /\ entered' = entered /\ applied' = applied /\ manual' = manual
      /\ keyLock' = keyLock /\ rowLock' = rowLock /\ answers' = answers
      /\ job[w] = Pos!NoJob /\ plan \notin applied
      /\ \A v \in Callers : ~(job[v].kind = "plan" /\ job[v].what = plan)
      /\ job' = [job EXCEPT ![w] = [Pos!NoJob EXCEPT !.kind = "plan", !.what = plan, !.todo = Pos!Normalized(plan)]]
  BY DEF Pos!ApplyMutationPlan, Pos!Starts
<1>2. /\ PosTypes /\ RowsOK /\ LocksOK
      /\ keyLock \in [PositionKeys -> Callers \cup {Nothing}] /\ rowLock \in [PositionKeys -> Callers \cup {Nothing}]
  BY DEF PosStrong, PosTypes
<1>3. Pos!Normalized(plan) \in SUBSET PositionDeltas
  BY MergedDelta DEF Pos!Normalized, Pos!Touched
<1>4. PICK D : D = Pos!Normalized(plan)
  OBVIOUS
<1>5. PICK J : J = [Pos!NoJob EXCEPT !.kind = "plan", !.what = plan, !.todo = D]
  OBVIOUS
<1>6. /\ J \in JobRecords /\ J.kind = "plan" /\ J.what = plan /\ J.stage = "start"
      /\ J.todo = Pos!Normalized(plan) /\ J.writes = {}
  BY <1>3, <1>4, <1>5 DEF Pos!NoJob, JobRecords, JobKinds
<1>7. QuietJob(w, J)
  BY <1>1, <1>4, <1>5, <1>6 DEF QuietJob
<1>8. job'[w] = J
  BY <1>2, <1>7, Framed
<1>9. JobOK(w)'
  <2>1. job'[w].todo = Pos!Normalized(job'[w].what)
    BY <1>6, <1>8
  <2>3. /\ job'[w].what \notin applied' /\ job'[w].what \in DOMAIN Plans
        /\ job'[w].stage = "start" /\ job'[w].writes = {}
    <3>1. applied' = applied /\ plan \notin applied
      BY <1>1
    <3> QED
      BY <1>6, <1>8, <3>1
  <2>2. PlanOK(w)'
    BY <2>1, <2>3 DEF PlanOK
  <2> QED
    BY <1>6, <1>8, <2>2 DEF JobOK, EntryOK
<1>10. LocksOf(w)' /\ RowsOK'
  <2>1. \A k \in PositionKeys : rowLock[k] # w
    BY <1>1, <1>2, IdleLocks, NoJobFits
  <2> QED
    BY <1>1, <1>2, <2>1 DEF LocksOf, RowsOK
<1> QED
  BY <1>1, <1>2, <1>7, <1>9, <1>10, QuietStep

\* A plan gets its locks.
LEMMA LockKeeps ==
  ASSUME Pos!PositionsAssumption, PosStrong, NEW w \in Callers, Pos!LockKeys(w) PROVE PosStrong'
<1>1. /\ position' = position /\ entered' = entered /\ applied' = applied /\ manual' = manual
      /\ rowLock' = rowLock /\ answers' = answers
      /\ job[w].kind = "plan" /\ job[w].stage = "start"
      /\ job' = [job EXCEPT ![w].stage = "apply"]
  BY DEF Pos!LockKeys, Pos!At, Pos!Goes
<1>2. /\ PosTypes /\ RowsOK /\ LocksOK /\ PlansApart /\ JobOK(w) /\ job[w] \in JobRecords
      /\ keyLock \in [PositionKeys -> Callers \cup {Nothing}] /\ rowLock \in [PositionKeys -> Callers \cup {Nothing}]
  BY DEF PosStrong, PosTypes
<1>3. keyLock' \in [PositionKeys -> Callers \cup {Nothing}]
  BY <1>2 DEF Pos!LockKeys
<1>4. PICK J : J = [job[w] EXCEPT !.stage = "apply"]
  OBVIOUS
<1>5. /\ J \in JobRecords /\ J.kind = "plan" /\ J.what = job[w].what /\ J.stage = "apply"
      /\ J.todo = job[w].todo /\ J.writes = job[w].writes
  BY <1>1, <1>2, <1>4 DEF JobRecords
<1>6. QuietJob(w, J)
  BY <1>1, <1>2, <1>4, <1>5 DEF QuietJob, PlansApart, PosTypes
<1>7. job'[w] = J
  BY <1>2, <1>6, Framed
<1>8. PICK plan \in DOMAIN Plans : plan = job[w].what
  BY <1>1, <1>2 DEF JobOK, PlanOK
<1>9. plan \notin applied /\ J.todo = Pos!Normalized(plan) /\ J.writes = {}
  BY <1>1, <1>2, <1>5, <1>8 DEF JobOK, PlanOK
<1>10. \A k \in Pos!Touched(plan) : \E d \in Pos!Normalized(plan) : d.key = k
  <2>1. \A k \in Pos!Touched(plan) : Pos!Merged(plan, k) \in Pos!Normalized(plan)
    BY DEF Pos!Normalized
  <2>2. \A k \in Pos!Touched(plan) : Pos!Merged(plan, k).key = k
    BY MergedDelta DEF Pos!Touched
  <2> QED
    BY <2>1, <2>2
<1>11. ApplyOK(w)'
  <2>1. /\ J.todo \subseteq Pos!Normalized(J.what)
        /\ \A k \in Pos!Touched(J.what) : (\E d \in J.todo : d.key = k) \/ (\E u \in J.writes : u.key = k)
    BY <1>5, <1>8, <1>9, <1>10
  <2> QED
    BY <1>7, <1>9, <2>1 DEF ApplyOK
<1>12. JobOK(w)'
  <2>1. PlanOK(w)'
    BY <1>1, <1>5, <1>7, <1>8, <1>9, <1>11 DEF PlanOK
  <2> QED
    BY <1>5, <1>7, <2>1 DEF JobOK, EntryOK
<1>13. LocksOf(w)' /\ RowsOK'
  <2>1. \A k \in PositionKeys : rowLock[k] # w
    BY <1>1, <1>2, IdleLocks
  <2> QED
    BY <1>1, <1>2, <2>1 DEF LocksOf, RowsOK
<1> QED
  BY <1>1, <1>2, <1>3, <1>6, <1>12, <1>13, QuietStep

\* A plan that gives up has no rows locked.
LEMMA RolledBack ==
  ASSUME Pos!PositionsAssumption, PosStrong, NEW w \in Callers, job[w].kind = "plan", Pos!RowsFreed(w), Pos!Goes(w, "unlock"),
         position' = position, entered' = entered, applied' = applied, manual' = manual, keyLock' = keyLock,
         answers' = answers
  PROVE  PosStrong'
<1>1. /\ PosTypes /\ RowsOK /\ LocksOK /\ PlansApart /\ JobOK(w) /\ job[w] \in JobRecords
      /\ keyLock \in [PositionKeys -> Callers \cup {Nothing}] /\ rowLock \in [PositionKeys -> Callers \cup {Nothing}]
  BY DEF PosStrong, PosTypes
<1>2. PICK J : J = [job[w] EXCEPT !.stage = "unlock"]
  OBVIOUS
<1>3. J \in JobRecords /\ J.kind = "plan" /\ J.what = job[w].what /\ J.stage = "unlock"
  BY <1>1, <1>2 DEF JobRecords
<1>4. QuietJob(w, J)
  BY <1>1, <1>2, <1>3 DEF QuietJob, PlansApart, PosTypes, Pos!Goes
<1>5. job'[w] = J
  BY <1>1, <1>4, Framed
<1>6. JobOK(w)'
  <2>1. J.what \in DOMAIN Plans
    BY <1>1, <1>3 DEF JobOK, PlanOK
  <2> QED
    BY <1>3, <1>5, <2>1 DEF JobOK, PlanOK, EntryOK
<1>7. /\ rowLock' \in [PositionKeys -> Callers \cup {Nothing}]
      /\ \A k \in PositionKeys : rowLock'[k] = IF rowLock[k] = w THEN Nothing ELSE rowLock[k]
  BY <1>1 DEF Pos!RowsFreed
<1>8. Nothing \notin Callers
  BY DEF Pos!PositionsAssumption
<1>9. LocksOf(w)' /\ RowsOK'
  BY <1>1, <1>7, <1>8 DEF LocksOf, RowsOK
<1>10. \A k \in PositionKeys, v \in Callers : v # w => (rowLock'[k] = v <=> rowLock[k] = v)
  BY <1>7, <1>8
<1> QED
  BY <1>1, <1>4, <1>6, <1>7, <1>9, <1>10, QuietStep

\* A plan fails.
LEMMA FailureKeeps ==
  ASSUME Pos!PositionsAssumption, PosStrong, NEW w \in Callers, Pos!Failure(w) PROVE PosStrong'
BY RolledBack DEF Pos!Failure, Pos!At

\* A row with a delta added is a row, but for its holds.
LEMMA ChangedRow ==
  ASSUME NEW r \in RowFields, NEW d \in PositionDeltas, NEW u, u = Pos!Changed(r, d)
  PROVE  /\ u \in RowFields /\ u.key = r.key /\ u.by = r.by /\ u.version = r.version + 1
         /\ u.amount = r.amount + d.amount /\ u.blocked = r.blocked + d.blocked
         /\ u.waiting = r.waiting + d.waiting
<1>1. /\ r.key \in PositionKeys /\ r.by \in Callers \cup {Nothing} /\ r.amount \in Int
      /\ r.blocked \in Int /\ r.waiting \in Int /\ r.version \in Nat
      /\ d.amount \in Int /\ d.blocked \in Int /\ d.waiting \in Int
  BY DEF RowFields, PositionDeltas
<1>2. r = [key |-> r.key, by |-> r.by, amount |-> r.amount, blocked |-> r.blocked, waiting |-> r.waiting,
           version |-> r.version]
  BY DEF RowFields
<1>3. u = [key |-> r.key, by |-> r.by, amount |-> r.amount + d.amount, blocked |-> r.blocked + d.blocked,
           waiting |-> r.waiting + d.waiting, version |-> r.version + 1]
  BY <1>2 DEF Pos!Changed
<1> QED
  BY <1>1, <1>3 DEF RowFields

\* A new row is a row.
LEMMA ZeroRow ==
  ASSUME NEW k \in PositionKeys, NEW w \in Callers, NEW z, z = Pos!Zero(k, w)
  PROVE  /\ z \in PositionRows /\ z.key = k /\ z.by = w /\ z.version = 0
         /\ z.amount = 0 /\ z.blocked = 0 /\ z.waiting = 0
BY DEF Pos!Zero, PositionRows, RowFields, Pos!Covered

\* A normalized plan has the merged delta of each key.
LEMMA NormalizedDelta ==
  ASSUME Pos!PositionsAssumption, NEW plan \in DOMAIN Plans, NEW d \in Pos!Normalized(plan)
  PROVE  d \in PositionDeltas /\ d.key \in PositionKeys /\ d = Pos!Merged(plan, d.key) /\ d.key \in Pos!Touched(plan)
<1>1. PICK k \in Pos!Touched(plan) : d = Pos!Merged(plan, k)
  BY DEF Pos!Normalized
<1>2. k \in PositionKeys
  BY DEF Pos!Touched
<1> QED
  BY <1>1, <1>2, MergedDelta

\* A plan locks a row and computes what it will write.
LEMMA DeltaKeeps ==
  ASSUME Pos!PositionsAssumption, PosStrong, NEW w \in Callers, NEW d \in job[w].todo, Pos!ApplyOneDelta(w, d)
  PROVE  PosStrong'
<1>1. /\ PosTypes /\ RowsOK /\ LocksOK /\ PlansApart /\ JobOK(w) /\ job[w] \in JobRecords
      /\ keyLock \in [PositionKeys -> Callers \cup {Nothing}] /\ rowLock \in [PositionKeys -> Callers \cup {Nothing}]
      /\ Nothing \notin Callers
  BY DEF PosStrong, PosTypes, Pos!PositionsAssumption
<1>2. PICK row0 : row0 = IF Pos!HasRow(d.key) THEN Pos!RowOf(d.key) ELSE Pos!Zero(d.key, w)
  OBVIOUS
<1>3. PICK after : after = Pos!Changed(row0, d)
  OBVIOUS
<1>4. /\ job[w].kind = "plan" /\ job[w].stage = "apply" /\ d \in Pos!Due(job[w].todo) /\ rowLock[d.key] = Nothing
      /\ position' = position /\ entered' = entered /\ applied' = applied /\ manual' = manual /\ keyLock' = keyLock
      /\ answers' = answers
  BY DEF Pos!ApplyOneDelta, Pos!At
<1>5. CASE ~Pos!Covered(after)
  <2>1. Pos!RowsFreed(w) /\ Pos!Goes(w, "unlock")
    BY <1>2, <1>3, <1>5 DEF Pos!ApplyOneDelta
  <2> QED
    BY <1>4, <2>1, RolledBack
<1>6. CASE Pos!Covered(after)
  <2>1. /\ rowLock' = [rowLock EXCEPT ![d.key] = w]
        /\ job' = [job EXCEPT ![w].todo = @ \ {d}, ![w].writes = @ \cup {after}]
    BY <1>2, <1>3, <1>6 DEF Pos!ApplyOneDelta
  <2>2. PICK plan \in DOMAIN Plans : plan = job[w].what
    BY <1>1, <1>4 DEF JobOK, PlanOK
  <2>3. plan \notin applied /\ ApplyOK(w)
    BY <1>1, <1>4, <2>2 DEF JobOK, PlanOK
  <2>4. job[w].todo \subseteq Pos!Normalized(plan) /\ d \in Pos!Normalized(plan)
    BY <2>2, <2>3 DEF ApplyOK
  <2>5. d \in PositionDeltas /\ d.key \in PositionKeys /\ d = Pos!Merged(plan, d.key)
    BY <2>4, NormalizedDelta
  <2>6. /\ row0 \in RowFields /\ row0.key = d.key
        /\ \/ row0 \in position
           \/ (\A r \in position : r.key # d.key) /\ row0 = Pos!Zero(d.key, w)
    <3>1. CASE Pos!HasRow(d.key)
      BY <1>1, <1>2, <3>1, RowFound DEF PosTypes, PositionRows
    <3>2. CASE ~Pos!HasRow(d.key)
      <4>1. row0 = Pos!Zero(d.key, w) /\ \A r \in position : r.key # d.key
        BY <1>2, <3>2 DEF Pos!HasRow
      <4> QED
        BY <2>5, <4>1, ZeroRow DEF PositionRows
    <3> QED
      BY <3>1, <3>2
  <2>7. after \in PositionRows /\ after \in RowFields /\ after.key = d.key
    BY <1>3, <1>6, <2>5, <2>6, ChangedRow DEF PositionRows
  <2>8. PICK J : J = [job[w] EXCEPT !.todo = job[w].todo \ {d}, !.writes = job[w].writes \cup {after}]
    OBVIOUS
  <2>9. /\ J \in JobRecords /\ J.kind = "plan" /\ J.stage = "apply" /\ J.what = plan
        /\ J.todo = job[w].todo \ {d} /\ J.writes = job[w].writes \cup {after}
    BY <1>1, <1>4, <2>2, <2>7, <2>8 DEF JobRecords
  <2>10. QuietJob(w, J)
    <3>1. job' = [job EXCEPT ![w] = J]
      BY <1>1, <2>1, <2>8 DEF PosTypes, JobRecords
    <3>2. \A v \in Callers : v # w /\ job[v].kind = "plan" => job[v].what # J.what
      BY <1>1, <1>4, <2>2, <2>9 DEF PlansApart
    <3> QED
      BY <2>9, <3>1, <3>2 DEF QuietJob
  <2>11. job'[w] = J
    BY <1>1, <2>10, Framed
  <2>12. /\ rowLock' \in [PositionKeys -> Callers \cup {Nothing}] /\ rowLock'[d.key] = w
         /\ \A k \in PositionKeys : k # d.key => rowLock'[k] = rowLock[k]
    BY <1>1, <2>1, <2>5
  <2>13. ApplyOK(w)'
    <3>1. ASSUME NEW u \in job[w].writes PROVE WriteOK(w, u)'
      <4>1. u \in RowFields /\ WriteOK(w, u) /\ job'[w].what = job[w].what
        BY <1>1, <2>2, <2>3, <2>9, <2>11 DEF ApplyOK, JobRecords
      <4>2. Spared(w)
        BY <1>4, <2>12 DEF Spared
      <4> QED
        BY <1>1, <4>1, <4>2, WriteStays
    <3>2. WriteOK(w, after)'
      <4>1. after = Pos!Changed(row0, Pos!Merged(job'[w].what, after.key))
        BY <1>3, <2>5, <2>7, <2>9, <2>11
      <4> QED
        BY <1>4, <2>6, <2>7, <2>12, <4>1 DEF WriteOK
    <3>3. \A u \in J.writes : WriteOK(w, u)'
      BY <2>9, <3>1, <3>2
    <3>4. ASSUME NEW k \in Pos!Touched(plan)
          PROVE  (\E x \in J.todo : x.key = k) \/ (\E u \in J.writes : u.key = k)
      BY <2>2, <2>3, <2>7, <2>9 DEF ApplyOK
    <3>5. ASSUME NEW u \in J.writes, NEW x \in J.todo PROVE u.key < x.key
      <4>1. x \in job[w].todo /\ x # d
        BY <2>9
      <4>2. CASE u \in job[w].writes
        BY <2>3, <4>1, <4>2 DEF ApplyOK
      <4>3. CASE u = after
        <5>1. d.key <= x.key
          BY <1>4, <4>1 DEF Pos!Due
        <5>2. x = Pos!Merged(plan, x.key) /\ x.key \in PositionKeys
          BY <2>4, <4>1, NormalizedDelta
        <5>3. x.key # d.key
          BY <2>5, <4>1, <5>2
        <5>4. x.key \in Int /\ d.key \in Int
          BY <2>5, <5>2 DEF Pos!PositionsAssumption
        <5> QED
          BY <2>7, <4>3, <5>1, <5>3, <5>4
      <4> QED
        BY <2>9, <4>2, <4>3
    <3>6. J.todo \subseteq Pos!Normalized(plan)
      BY <2>4, <2>9
    <3> QED
      BY <2>9, <2>11, <3>3, <3>4, <3>5, <3>6 DEF ApplyOK
  <2>14. JobOK(w)'
    <3>1. /\ job'[w].what \notin applied' /\ job'[w].what \in DOMAIN Plans
          /\ job'[w].stage = "apply" /\ job'[w].kind = "plan"
      <4>1. applied' = applied
        BY <1>4
      <4> QED
        BY <2>3, <2>9, <2>11, <4>1
    <3> QED
      BY <2>13, <3>1 DEF JobOK, PlanOK, EntryOK
  <2>15. LocksOf(w)'
    <3>1. ASSUME NEW k \in PositionKeys, rowLock'[k] = w PROVE \E u \in J.writes : u.key = k
      <4>1. CASE k = d.key
        BY <2>7, <2>9, <4>1
      <4>2. CASE k # d.key
        BY <1>1, <1>4, <2>9, <2>12, <3>1, <4>2 DEF LocksOK
      <4> QED
        BY <4>1, <4>2
    <3> QED
      BY <2>9, <2>11, <3>1 DEF LocksOf
  <2>16. RowsOK' /\ keyLock' \in [PositionKeys -> Callers \cup {Nothing}]
    BY <1>1, <1>4 DEF RowsOK
  <2>17. \A k \in PositionKeys, v \in Callers : v # w => (rowLock'[k] = v <=> rowLock[k] = v)
    BY <1>1, <1>4, <2>12
  <2> QED
    BY <1>4, <2>10, <2>12, <2>14, <2>15, <2>16, <2>17, QuietStep
<1> QED
  BY <1>5, <1>6

\* A transaction reads its positions.
LEMMA ReadKeeps ==
  ASSUME Pos!PositionsAssumption, PosStrong, NEW w \in Callers, NEW e \in Entries, Pos!ReadPositions(w, e)
  PROVE  PosStrong'
<1>1. /\ PosTypes /\ RowsOK /\ LocksOK
      /\ keyLock \in [PositionKeys -> Callers \cup {Nothing}] /\ rowLock \in [PositionKeys -> Callers \cup {Nothing}]
  BY DEF PosStrong, PosTypes
<1>2. PICK r, s \in position : r = Pos!RowOf(e.source) /\ s = Pos!RowOf(e.destination)
                               /\ r.key = e.source /\ s.key = e.destination
  BY RowFound DEF Pos!ReadPositions
<1>3. PICK u, x : u = Pos!Changed(r, Pos!Effect(e, "source")) /\ x = Pos!Changed(s, Pos!Effect(e, "destination"))
  OBVIOUS
<1>4. /\ job[w] = Pos!NoJob
      /\ job' = [job EXCEPT ![w] = [Pos!NoJob EXCEPT !.kind = "entry", !.what = e, !.writes = {u, x}]]
      /\ position' = position /\ entered' = entered /\ applied' = applied /\ manual' = manual
      /\ keyLock' = keyLock /\ rowLock' = rowLock /\ answers' = answers
  BY <1>2, <1>3 DEF Pos!ReadPositions
<1>5. r \in RowFields /\ s \in RowFields
  BY <1>1, <1>2 DEF PosTypes, PositionRows
<1>6. u \in RowFields /\ u.key = r.key /\ u.by = r.by /\ u.version = r.version + 1
  <2>1. PICK d : d = Pos!Effect(e, "source")
    OBVIOUS
  <2> QED
    BY <1>3, <1>5, <2>1, EffectDelta, ChangedRow
<1>7. x \in RowFields /\ x.key = s.key /\ x.by = s.by /\ x.version = s.version + 1
  <2>1. PICK d : d = Pos!Effect(e, "destination")
    OBVIOUS
  <2> QED
    BY <1>3, <1>5, <2>1, EffectDelta, ChangedRow
<1>8. DraftOK(u, e, "source")' /\ DraftOK(x, e, "destination")'
  <2>1. r.version \in Nat /\ s.version \in Nat
    BY <1>5 DEF RowFields
  <2> QED
    BY <1>2, <1>3, <1>4, <1>6, <1>7, <2>1 DEF DraftOK
<1>9. PICK J : J = [Pos!NoJob EXCEPT !.kind = "entry", !.what = e, !.writes = {u, x}]
  OBVIOUS
<1>10. J \in JobRecords /\ J.kind = "entry" /\ J.what = e /\ J.writes = {u, x}
  BY <1>6, <1>7, <1>9 DEF Pos!NoJob, JobRecords, JobKinds
<1>11. QuietJob(w, J)
  BY <1>4, <1>9, <1>10 DEF QuietJob
<1>12. job'[w] = J
  BY <1>1, <1>11, Framed
<1>13. JobOK(w)'
  <2>1. EntryOK(w)'
    <3>1. /\ job'[w].what = e /\ job'[w].writes = {u, x} /\ e \in Entries
          /\ u \in job'[w].writes /\ x \in job'[w].writes
      BY <1>10, <1>12
    <3> QED
      BY <1>8, <3>1 DEF EntryOK
  <2> QED
    BY <1>10, <1>12, <2>1 DEF JobOK, PlanOK
<1>14. LocksOf(w)' /\ RowsOK'
  <2>1. \A k \in PositionKeys : rowLock[k] # w
    BY <1>1, <1>4, IdleLocks, NoJobFits
  <2> QED
    BY <1>1, <1>4, <2>1 DEF LocksOf, RowsOK
<1> QED
  BY <1>1, <1>4, <1>11, <1>13, <1>14, QuietStep

\* RecomputeHolds locks the row.
LEMMA LockHoldsKeeps ==
  ASSUME Pos!PositionsAssumption, PosStrong, NEW w \in Callers, NEW k \in PositionKeys, Pos!LockHolds(w, k)
  PROVE  PosStrong'
<1>1. /\ PosTypes /\ RowsOK /\ LocksOK
      /\ keyLock \in [PositionKeys -> Callers \cup {Nothing}] /\ rowLock \in [PositionKeys -> Callers \cup {Nothing}]
      /\ Nothing \notin Callers
  BY DEF PosStrong, PosTypes, Pos!PositionsAssumption
<1>2. /\ Pos!HasRow(k) /\ rowLock[k] = Nothing /\ job[w] = Pos!NoJob
      /\ job' = [job EXCEPT ![w] = [Pos!NoJob EXCEPT !.kind = "holds", !.what = k]]
      /\ rowLock' = [rowLock EXCEPT ![k] = w]
      /\ position' = position /\ entered' = entered /\ applied' = applied /\ manual' = manual
      /\ keyLock' = keyLock /\ answers' = answers
  BY DEF Pos!LockHolds
<1>3. PICK J : J = [Pos!NoJob EXCEPT !.kind = "holds", !.what = k]
  OBVIOUS
<1>4. J \in JobRecords /\ J.kind = "holds" /\ J.what = k
  BY <1>3 DEF Pos!NoJob, JobRecords, JobKinds
<1>5. QuietJob(w, J)
  BY <1>2, <1>3, <1>4 DEF QuietJob
<1>6. job'[w] = J
  BY <1>1, <1>5, Framed
<1>7. rowLock'[k] = w /\ rowLock' \in [PositionKeys -> Callers \cup {Nothing}]
      /\ \A i \in PositionKeys : i # k => rowLock'[i] = rowLock[i]
  BY <1>1, <1>2
<1>8. JobOK(w)'
  <2>1. Pos!HasRow(k)'
    BY <1>2 DEF Pos!HasRow
  <2> QED
    BY <1>4, <1>6, <1>7, <2>1 DEF JobOK, PlanOK, EntryOK, Pos!HasRow
<1>9. LocksOf(w)' /\ RowsOK'
  <2>1. \A i \in PositionKeys : rowLock[i] # w
    BY <1>1, <1>2, IdleLocks, NoJobFits
  <2>2. LocksOf(w)'
    BY <1>4, <1>6, <1>7, <2>1 DEF LocksOf
  <2> QED
    BY <1>1, <1>2, <2>2 DEF RowsOK
<1>10. \A i \in PositionKeys, v \in Callers : v # w => (rowLock'[i] = v <=> rowLock[i] = v)
  BY <1>1, <1>2, <1>7
<1> QED
  BY <1>1, <1>2, <1>5, <1>7, <1>8, <1>9, <1>10, QuietStep

\* Rows are written in place of the rows of the same key, or added.
Replaces(W) ==
  /\ W \subseteq PositionRows
  /\ \A u, v \in W : u.key = v.key => u = v
  /\ \A u \in W : \/ \E r \in position : r.key = u.key /\ r.by = u.by /\ u.version = r.version + 1
                  \/ \A r \in position : r.key # u.key

\* What rows are there after a write.
LEMMA Wrote ==
  ASSUME PosTypes, RowsOK, NEW W, Replaces(W), position' = Pos!Written(W), answers' = answers
  PROVE  /\ position' \subseteq PositionRows /\ RowsOK' /\ RowsAdvance
         /\ \A r \in position' : r \in W \/ (r \in position /\ \A u \in W : u.key # r.key)
         /\ \A r \in position : r \in position' \/ \E u \in W : u.key = r.key
         /\ W \subseteq position'
<1>1. position' = {r \in position : \A u \in W : Pos!Id(u) # Pos!Id(r)} \cup W
  BY DEF Pos!Written
<1>2. \A r \in position, u \in W : Pos!Id(u) = Pos!Id(r) <=> u.key = r.key
  BY DEF Replaces, RowsOK, Pos!Id
<1>3. /\ \A r \in position' : r \in W \/ (r \in position /\ \A u \in W : u.key # r.key)
      /\ \A r \in position : r \in position' \/ \E u \in W : u.key = r.key
      /\ W \subseteq position'
  BY <1>1, <1>2
<1>4. position' \subseteq PositionRows
  BY <1>3 DEF Replaces, PosTypes
<1>5. \A r, s \in position' : r.key = s.key => r = s
  BY <1>3 DEF Replaces, RowsOK
<1>6. \A r \in position : r.version \in Nat
  BY DEF PosTypes, PositionRows, RowFields
<1>7. RowsAdvance
  <2> SUFFICES ASSUME NEW r \in position
               PROVE  \E s \in position' :
                        s.key = r.key /\ s.by = r.by /\ r.version <= s.version /\ (r.version = s.version => s = r)
    BY DEF RowsAdvance
  <2>1. CASE r \in position'
    BY <1>6, <2>1
  <2>2. CASE r \notin position'
    <3>1. PICK u \in W : u.key = r.key
      BY <1>3, <2>2
    <3>2. u.by = r.by /\ u.version = r.version + 1
      BY <3>1 DEF Replaces, RowsOK
    <3> QED
      BY <1>3, <1>6, <3>1, <3>2
  <2> QED
    BY <2>1, <2>2
<1>8. \A a \in answers' : \E s \in position' : a = Pos!Id(s)
  <2> SUFFICES ASSUME NEW a \in answers PROVE \E s \in position' : a = Pos!Id(s)
    OBVIOUS
  <2>1. PICK r \in position : a = Pos!Id(r)
    BY DEF RowsOK
  <2>2. PICK s \in position' : s.key = r.key /\ s.by = r.by
    BY <1>7 DEF RowsAdvance
  <2> QED
    BY <2>1, <2>2 DEF Pos!Id
<1> QED
  BY <1>3, <1>4, <1>5, <1>7, <1>8 DEF RowsOK, Pos!Id

\* Steps that write rows: nobody else has them locked.
LEMMA WritingStep ==
  ASSUME Pos!PositionsAssumption, PosStrong, NEW w \in Callers, NEW J, QuietJob(w, J), JobOK(w)', RowsOK', LocksOf(w)',
         EnteredOK', BooksKept', position' \subseteq PositionRows, RowsAdvance,
         entered' \subseteq Entries, applied' \subseteq DOMAIN Plans, manual' \subseteq PositionKeys,
         keyLock' = keyLock, rowLock' \in [PositionKeys -> Callers \cup {Nothing}],
         \A k \in PositionKeys, v \in Callers : v # w /\ rowLock'[k] = v => rowLock[k] = v,
         \A v \in Callers : v # w => Spared(v),
         \A v \in Callers : v # w /\ job[v].kind = "plan" /\ job[v].what \in applied' => job[v].what \in applied
  PROVE  PosStrong'
<1>1. PosTypes /\ PlansApart /\ LocksOK /\ \A v \in Callers : JobOK(v)
  BY DEF PosStrong
<1>2. PosTypes'
  BY <1>1, Framed DEF PosTypes
<1>3. PlansApart' /\ LocksOK'
  BY <1>1, PlansStayApart, LocksStay
<1>4. ASSUME NEW v \in Callers, v # w PROVE JobOK(v)'
  <2>1. job'[v] = job[v] /\ JobOK(v)
    BY <1>1, <1>4, Framed
  <2> QED
    BY <1>1, <1>4, <2>1, JobStays
<1> QED
  BY <1>2, <1>3, <1>4 DEF PosStrong

\* FindOrCreatePosition inserts the row, which has nothing booked yet.
LEMMA InsertKeeps ==
  ASSUME Pos!PositionsAssumption, PosStrong, NEW w \in Callers, Pos!InsertPosition(w) PROVE PosStrong'
<1>1. /\ PosTypes /\ RowsOK /\ LocksOK /\ PlansApart /\ JobOK(w) /\ job[w] \in JobRecords /\ EnteredOK /\ BooksKept
      /\ keyLock \in [PositionKeys -> Callers \cup {Nothing}] /\ rowLock \in [PositionKeys -> Callers \cup {Nothing}]
      /\ Nothing \notin Callers
  BY DEF PosStrong, PosTypes, Pos!PositionsAssumption
<1>2. PICK k : k = job[w].what
  OBVIOUS
<1>3. /\ job[w].kind = "find" /\ job[w].stage = "start" /\ ~Pos!Inserting(k, w)
      /\ position' = IF Pos!HasRow(k) THEN position ELSE position \cup {Pos!Zero(k, w)}
      /\ job' = [job EXCEPT ![w].stage = "again"]
      /\ entered' = entered /\ applied' = applied /\ manual' = manual /\ answers' = answers
      /\ keyLock' = keyLock /\ rowLock' = rowLock
  BY <1>2 DEF Pos!InsertPosition, Pos!At, Pos!Goes
<1>4. k \in PositionKeys
  BY <1>1, <1>2, <1>3 DEF JobOK
<1>5. PICK z : z = Pos!Zero(k, w)
  OBVIOUS
<1>6. z \in PositionRows /\ z.key = k /\ z.by = w /\ z.amount = 0 /\ z.blocked = 0 /\ z.waiting = 0
  BY <1>4, <1>5, ZeroRow
<1>7. /\ position \subseteq position' /\ \E r \in position' : r.key = k
      /\ \A r \in position' : r \in position \/ (r = z /\ \A s \in position : s.key # k)
  BY <1>3, <1>5, <1>6 DEF Pos!HasRow
<1>8. position' \subseteq PositionRows /\ RowsOK' /\ RowsAdvance
  <2>1. position' \subseteq PositionRows
    BY <1>1, <1>6, <1>7 DEF PosTypes
  <2>2. \A r, s \in position' : r.key = s.key => r = s
    BY <1>1, <1>6, <1>7 DEF RowsOK
  <2>3. \A a \in answers' : \E r \in position' : a = Pos!Id(r)
    BY <1>1, <1>3, <1>7 DEF RowsOK
  <2>4. RowsAdvance
    BY <1>1, <1>7 DEF RowsAdvance, PosTypes, PositionRows, RowFields
  <2> QED
    BY <2>1, <2>2, <2>3, <2>4 DEF RowsOK, Pos!Id
<1>9. PICK J : J = [job[w] EXCEPT !.stage = "again"]
  OBVIOUS
<1>10. J \in JobRecords /\ J.kind = "find" /\ J.what = k /\ J.stage = "again"
  BY <1>1, <1>2, <1>3, <1>9 DEF JobRecords
<1>11. QuietJob(w, J) /\ job'[w] = J
  <2>1. QuietJob(w, J)
    BY <1>1, <1>3, <1>9, <1>10 DEF QuietJob, PosTypes
  <2> QED
    BY <1>1, <2>1, Framed
<1>12. JobOK(w)'
  BY <1>4, <1>7, <1>10, <1>11 DEF JobOK, PlanOK, EntryOK, Pos!HasRow
<1>13. \A i \in PositionKeys : rowLock[i] # w
  BY <1>1, <1>3, IdleLocks
<1>14. LocksOf(w)'
  BY <1>3, <1>13 DEF LocksOf
<1>15. ASSUME NEW v \in Callers, v # w PROVE Spared(v)
  <2>1. (\A s \in position : s.key # k) => rowLock[k] # v
    BY <1>1, <1>3, <1>15 DEF Pos!Inserting, Pos!HasRow
  <2> QED
    BY <1>3, <1>6, <1>7, <2>1 DEF Spared
<1>16. EnteredOK' /\ BooksKept'
  <2>1. ASSUME NEW i \in PositionKeys PROVE KeyOK(i)'
    <3>1. /\ Pos!Booked(i)' = Pos!Booked(i) /\ Pos!LiveHolds(i, "source")' = Pos!LiveHolds(i, "source")
          /\ Pos!LiveHolds(i, "destination")' = Pos!LiveHolds(i, "destination")
      BY <1>3, SumsStay
    <3>2. KeyOK(i)
      BY <1>1 DEF BooksKept
    <3>3. manual' = manual
      BY <1>3
    <3> QED
      BY <1>6, <1>7, <3>1, <3>2, <3>3 DEF KeyOK
  <2>2. EnteredOK'
    BY <1>1, <1>3, SumsStay
  <2> QED
    BY <2>1, <2>2 DEF BooksKept
<1>17. entered' \subseteq Entries /\ applied' \subseteq DOMAIN Plans /\ manual' \subseteq PositionKeys
  BY <1>1, <1>3 DEF PosTypes
<1> QED
  BY <1>1, <1>3, <1>8, <1>11, <1>12, <1>14, <1>15, <1>16, <1>17, WritingStep

\* RecomputeHolds writes the live holds.
LEMMA RecomputeKeeps ==
  ASSUME Pos!PositionsAssumption, PosStrong, NEW w \in Callers, Pos!RecomputeHolds(w) PROVE PosStrong'
<1>1. /\ PosTypes /\ RowsOK /\ LocksOK /\ PlansApart /\ JobOK(w) /\ EnteredOK /\ BooksKept
      /\ rowLock \in [PositionKeys -> Callers \cup {Nothing}] /\ Nothing \notin Callers
  BY DEF PosStrong, PosTypes, Pos!PositionsAssumption
<1>2. PICK k : k = job[w].what
  OBVIOUS
<1>3. PICK b, q : b = Pos!LiveHolds(k, "source") /\ q = Pos!LiveHolds(k, "destination")
  OBVIOUS
<1>4. /\ job[w].kind = "holds" /\ k \in PositionKeys /\ Pos!HasRow(k) /\ rowLock[k] = w
  BY <1>1, <1>2 DEF Pos!RecomputeHolds, JobOK
<1>5. PICK r \in position : r = Pos!RowOf(k) /\ r.key = k
  BY <1>4, RowFound
<1>6. PICK u : u = [r EXCEPT !.blocked = b, !.waiting = q, !.version = r.version + 1]
  OBVIOUS
<1>7. /\ position' = Pos!Written({u}) /\ manual' = manual \ {k}
      /\ Pos!RowsFreed(w) /\ Pos!Ends(w)
      /\ entered' = entered /\ applied' = applied /\ answers' = answers /\ keyLock' = keyLock
  BY <1>2, <1>3, <1>5, <1>6 DEF Pos!RecomputeHolds
<1>8. b \in Nat /\ q \in Nat
  <2>1. PICK E : E = entered
    OBVIOUS
  <2>2. E \in SUBSET Entries /\ SetOK(E)
    BY <1>1, <2>1, SumsOf DEF PosTypes, EnteredOK, SetOK
  <2>3. LiveSum(E, k, "source") \in Nat /\ LiveSum(E, k, "destination") \in Nat
    BY <2>2, LiveNat
  <2> QED
    BY <1>3, <2>1, <2>3, SumsOf
<1>9. /\ u \in PositionRows /\ u.key = k /\ u.by = r.by /\ u.version = r.version + 1
      /\ u.amount = r.amount /\ u.blocked = b /\ u.waiting = q
  <2>1. r \in RowFields
    BY <1>1 DEF PosTypes, PositionRows
  <2>2. r = [key |-> r.key, by |-> r.by, amount |-> r.amount, blocked |-> r.blocked, waiting |-> r.waiting,
             version |-> r.version]
    BY <2>1 DEF RowFields
  <2>3. u = [key |-> r.key, by |-> r.by, amount |-> r.amount, blocked |-> b, waiting |-> q,
             version |-> r.version + 1]
    BY <1>6, <2>2
  <2>4. u \in RowFields
    BY <1>8, <2>1, <2>3 DEF RowFields
  <2> QED
    BY <1>5, <1>8, <2>3, <2>4 DEF PositionRows, Pos!Covered
<1>10. PICK W : W = {u}
  OBVIOUS
<1>11. Replaces(W)
  BY <1>1, <1>5, <1>9, <1>10 DEF Replaces
<1>12. /\ position' \subseteq PositionRows /\ RowsOK' /\ RowsAdvance
       /\ \A s \in position' : s = u \/ (s \in position /\ s.key # k)
       /\ \A s \in position : s \in position' \/ s.key = k
       /\ u \in position'
  <2>1. position' = Pos!Written(W) /\ answers' = answers
    BY <1>7, <1>10
  <2>2. /\ position' \subseteq PositionRows /\ RowsOK' /\ RowsAdvance
        /\ \A s \in position' : s \in W \/ (s \in position /\ \A x \in W : x.key # s.key)
        /\ \A s \in position : s \in position' \/ \E x \in W : x.key = s.key
        /\ W \subseteq position'
    BY <1>1, <1>11, <2>1, Wrote
  <2> QED
    BY <1>9, <1>10, <2>2
<1>13. PICK J : J = Pos!NoJob
  OBVIOUS
<1>14. QuietJob(w, J) /\ J.kind = "none" /\ job'[w] = J
  <2>1. QuietJob(w, J) /\ J.kind = "none"
    BY <1>7, <1>13, NoJobFits DEF QuietJob, Pos!Ends
  <2> QED
    BY <1>1, <2>1, Framed
<1>15. JobOK(w)'
  <2>1. job'[w].kind = "none" /\ job'[w] = Pos!NoJob'
    BY <1>13, <1>14 DEF Pos!NoJob
  <2> QED
    BY <2>1 DEF JobOK, PlanOK, EntryOK
<1>16. /\ rowLock' \in [PositionKeys -> Callers \cup {Nothing}]
       /\ \A i \in PositionKeys : rowLock'[i] = IF rowLock[i] = w THEN Nothing ELSE rowLock[i]
  BY <1>1, <1>7 DEF Pos!RowsFreed
<1>17. LocksOf(w)'
  BY <1>1, <1>16 DEF LocksOf
<1>18. ASSUME NEW v \in Callers, v # w PROVE Spared(v)
  BY <1>1, <1>4, <1>9, <1>12, <1>16, <1>18 DEF Spared
<1>19. EnteredOK' /\ BooksKept'
  <2>1. ASSUME NEW i \in PositionKeys PROVE KeyOK(i)'
    <3>1. /\ Pos!Booked(i)' = Pos!Booked(i) /\ Pos!LiveHolds(i, "source")' = Pos!LiveHolds(i, "source")
          /\ Pos!LiveHolds(i, "destination")' = Pos!LiveHolds(i, "destination")
      BY <1>7, SumsStay
    <3>2. KeyOK(i)
      BY <1>1 DEF BooksKept
    <3>3. i # k => (i \in manual' <=> i \in manual)
      BY <1>7
    <3>4. CASE i = k
      BY <1>3, <1>5, <1>9, <1>12, <3>1, <3>2, <3>4 DEF KeyOK
    <3>5. CASE i # k
      BY <1>9, <1>12, <3>1, <3>2, <3>3, <3>5 DEF KeyOK
    <3> QED
      BY <3>4, <3>5
  <2>2. EnteredOK'
    BY <1>1, <1>7, SumsStay
  <2> QED
    BY <2>1, <2>2 DEF BooksKept
<1>20. entered' \subseteq Entries /\ applied' \subseteq DOMAIN Plans /\ manual' \subseteq PositionKeys
  BY <1>1, <1>7 DEF PosTypes
<1>21. \A i \in PositionKeys, v \in Callers : v # w /\ rowLock'[i] = v => rowLock[i] = v
  BY <1>1, <1>16
<1> QED
  BY <1>7, <1>12, <1>14, <1>15, <1>16, <1>17, <1>18, <1>19, <1>20, <1>21, WritingStep

\* A plan is committed: its rows and the sums grow by its deltas.
LEMMA CommitKeeps ==
  ASSUME Pos!PositionsAssumption, PosStrong, NEW w \in Callers, Pos!CommitPlan(w) PROVE PosStrong'
<1>1. /\ PosTypes /\ RowsOK /\ LocksOK /\ PlansApart /\ JobOK(w) /\ EnteredOK /\ BooksKept /\ job[w] \in JobRecords
      /\ rowLock \in [PositionKeys -> Callers \cup {Nothing}] /\ Nothing \notin Callers
  BY DEF PosStrong, PosTypes, Pos!PositionsAssumption
<1>2. PICK W : W = job[w].writes
  OBVIOUS
<1>3. job[w].kind = "plan" /\ job[w].stage = "apply" /\ job[w].todo = {}
  BY DEF Pos!CommitPlan, Pos!At
<1>4. PICK plan \in DOMAIN Plans : plan = job[w].what
  BY <1>1, <1>3 DEF JobOK, PlanOK
<1>5. /\ position' = Pos!Written(W) /\ applied' = applied \cup {plan}
      /\ manual' = manual \cup {i \in PositionKeys : Pos!Merged(plan, i).blocked # 0 \/ Pos!Merged(plan, i).waiting # 0}
      /\ Pos!RowsFreed(w) /\ job' = [job EXCEPT ![w].stage = "unlock"]
      /\ entered' = entered /\ answers' = answers /\ keyLock' = keyLock
  BY <1>2, <1>4 DEF Pos!CommitPlan, Pos!Goes
<1>6. plan \notin applied /\ ApplyOK(w)
  BY <1>1, <1>3, <1>4 DEF JobOK, PlanOK
<1>7. ASSUME NEW u \in W
      PROVE  /\ u \in PositionRows /\ rowLock[u.key] = w /\ u.key \in PositionKeys
             /\ \/ \E r \in position : r.key = u.key /\ u = Pos!Changed(r, Pos!Merged(plan, u.key))
                \/ /\ \A r \in position : r.key # u.key
                   /\ u = Pos!Changed(Pos!Zero(u.key, w), Pos!Merged(plan, u.key))
  <2>1. WriteOK(w, u)
    BY <1>2, <1>6 DEF ApplyOK
  <2> QED
    BY <1>4, <2>1 DEF WriteOK, PositionRows, RowFields
<1>8. \A k \in PositionKeys : (\A u \in W : u.key # k) => k \notin Pos!Touched(plan)
  BY <1>2, <1>3, <1>4, <1>6 DEF ApplyOK
\* A written row is the row of its key, or nothing, with the delta added.
<1>9. ASSUME NEW u \in W, NEW r \in position, r.key = u.key
      PROVE  /\ u.by = r.by /\ u.version = r.version + 1
             /\ u.amount = r.amount + Pos!Merged(plan, u.key).amount
             /\ u.blocked = r.blocked + Pos!Merged(plan, u.key).blocked
             /\ u.waiting = r.waiting + Pos!Merged(plan, u.key).waiting
  <2>1. u = Pos!Changed(r, Pos!Merged(plan, u.key)) /\ u.key \in PositionKeys
    BY <1>1, <1>7, <1>9 DEF RowsOK
  <2>2. PICK d \in PositionDeltas : d = Pos!Merged(plan, u.key)
    BY <2>1, MergedDelta
  <2>3. r \in RowFields
    BY <1>1 DEF PosTypes, PositionRows
  <2> QED
    BY <2>1, <2>2, <2>3, ChangedRow
<1>10. ASSUME NEW u \in W, \A r \in position : r.key # u.key
       PROVE  /\ u.amount = 0 + Pos!Merged(plan, u.key).amount
              /\ u.blocked = 0 + Pos!Merged(plan, u.key).blocked
              /\ u.waiting = 0 + Pos!Merged(plan, u.key).waiting
  <2>1. u.key \in PositionKeys
    BY <1>7
  <2>2. PICK z : z = Pos!Zero(u.key, w)
    OBVIOUS
  <2>3. u = Pos!Changed(z, Pos!Merged(plan, u.key))
    BY <1>7, <1>10, <2>2
  <2>4. PICK d \in PositionDeltas : d = Pos!Merged(plan, u.key)
    BY <2>1, MergedDelta
  <2>5. z \in RowFields /\ z.amount = 0 /\ z.blocked = 0 /\ z.waiting = 0
    BY <2>1, <2>2, ZeroRow DEF PositionRows
  <2>6. u.amount = z.amount + d.amount /\ u.blocked = z.blocked + d.blocked /\ u.waiting = z.waiting + d.waiting
    BY <2>3, <2>4, <2>5, ChangedRow
  <2> QED
    BY <2>4, <2>5, <2>6
<1>11. Replaces(W)
  <2>1. W \subseteq PositionRows
    BY <1>7
  <2>2. ASSUME NEW u \in W, NEW x \in W, u.key = x.key PROVE u = x
    <3>1. CASE \E r \in position : r.key = u.key
      BY <1>1, <1>7, <2>2, <3>1 DEF RowsOK
    <3>2. CASE \A r \in position : r.key # u.key
      <4>1. u = Pos!Changed(Pos!Zero(u.key, w), Pos!Merged(plan, u.key))
        BY <1>7, <3>2
      <4>2. x = Pos!Changed(Pos!Zero(x.key, w), Pos!Merged(plan, x.key))
        BY <1>7, <2>2, <3>2
      <4> QED
        BY <2>2, <4>1, <4>2
    <3> QED
      BY <3>1, <3>2
  <2> QED
    BY <1>9, <2>1, <2>2 DEF Replaces
<1>12. /\ position' \subseteq PositionRows /\ RowsOK' /\ RowsAdvance
       /\ \A s \in position' : s \in W \/ (s \in position /\ \A x \in W : x.key # s.key)
       /\ \A s \in position : s \in position' \/ \E x \in W : x.key = s.key
       /\ W \subseteq position'
  BY <1>1, <1>5, <1>11, Wrote
<1>13. PICK J : J = [job[w] EXCEPT !.stage = "unlock"]
  OBVIOUS
<1>14. J \in JobRecords /\ J.kind = "plan" /\ J.what = plan /\ J.stage = "unlock"
  BY <1>1, <1>3, <1>4, <1>13 DEF JobRecords
<1>15. \A v \in Callers : v # w /\ job[v].kind = "plan" => job[v].what # plan
  BY <1>1, <1>3, <1>4 DEF PlansApart
<1>16. QuietJob(w, J) /\ job'[w] = J
  <2>1. QuietJob(w, J)
    BY <1>1, <1>5, <1>13, <1>14, <1>15 DEF QuietJob, PosTypes
  <2> QED
    BY <1>1, <2>1, Framed
<1>17. JobOK(w)'
  BY <1>14, <1>16 DEF JobOK, PlanOK, EntryOK
<1>18. /\ rowLock' \in [PositionKeys -> Callers \cup {Nothing}]
       /\ \A i \in PositionKeys : rowLock'[i] = IF rowLock[i] = w THEN Nothing ELSE rowLock[i]
  BY <1>1, <1>5 DEF Pos!RowsFreed
<1>19. LocksOf(w)' /\ \A i \in PositionKeys, v \in Callers : v # w /\ rowLock'[i] = v => rowLock[i] = v
  BY <1>1, <1>18 DEF LocksOf
<1>20. ASSUME NEW v \in Callers, v # w PROVE Spared(v)
  <2>1. ASSUME NEW i \in PositionKeys, rowLock[i] = v PROVE \A u \in W : u.key # i
    BY <1>7, <1>20, <2>1
  <2> QED
    BY <1>12, <1>18, <1>20, <2>1 DEF Spared
<1>21. ASSUME NEW i \in PositionKeys PROVE KeyOK(i)'
  <2>1. PICK d \in PositionDeltas : d = Pos!Merged(plan, i)
    BY MergedDelta
  <2>2. d.amount \in Int /\ d.blocked \in Int /\ d.waiting \in Int
    BY DEF PositionDeltas
  <2>3. Pos!Booked(i)' = Pos!Booked(i) + d.amount /\ Pos!Booked(i) \in Int
    BY <1>1, <1>5, <1>6, <2>1, PlanBooked
  <2>4. /\ Pos!LiveHolds(i, "source")' = Pos!LiveHolds(i, "source")
        /\ Pos!LiveHolds(i, "destination")' = Pos!LiveHolds(i, "destination")
    BY <1>5, SumsStay
  <2>5. KeyOK(i)
    BY <1>1 DEF BooksKept
  <2>6. i \notin manual' => i \notin manual /\ d.blocked = 0 /\ d.waiting = 0
    BY <1>5, <2>1
  <2>7. CASE \E u \in W : u.key = i
    <3>1. PICK u \in W : u.key = i
      BY <2>7
    <3>2. \A r \in position' : r.key = i => r = u
      BY <1>12, <3>1 DEF RowsOK
    <3>3. u \in position'
      BY <1>12
    <3>4. u.amount = Pos!Booked(i) + d.amount
      BY <1>9, <1>10, <2>1, <2>5, <3>1 DEF KeyOK
    <3>5. ASSUME i \notin manual' PROVE u.blocked = Pos!LiveHolds(i, "source")
                                        /\ u.waiting = Pos!LiveHolds(i, "destination")
      <4>1. CASE \E r \in position : r.key = i
        <5>1. PICK r \in position : r.key = i
          BY <4>1
        <5>2. u.blocked = r.blocked + d.blocked /\ u.waiting = r.waiting + d.waiting
          BY <1>9, <2>1, <3>1, <5>1
        <5>3. r.blocked \in Int /\ r.waiting \in Int
          BY <1>1 DEF PosTypes, PositionRows, RowFields
        <5>4. r.blocked = Pos!LiveHolds(i, "source") /\ r.waiting = Pos!LiveHolds(i, "destination")
          BY <2>5, <2>6, <3>5, <5>1 DEF KeyOK
        <5> QED
          BY <2>6, <3>5, <5>2, <5>3, <5>4
      <4>2. CASE \A r \in position : r.key # i
        <5>1. u.blocked = 0 + d.blocked /\ u.waiting = 0 + d.waiting
          BY <1>10, <2>1, <3>1, <4>2
        <5>2. Pos!LiveHolds(i, "source") = 0 /\ Pos!LiveHolds(i, "destination") = 0
          BY <2>5, <4>2 DEF KeyOK
        <5> QED
          BY <2>6, <3>5, <5>1, <5>2
      <4> QED
        BY <4>1, <4>2
    <3> QED
      BY <2>3, <2>4, <3>1, <3>2, <3>3, <3>4, <3>5 DEF KeyOK
  <2>8. CASE \A u \in W : u.key # i
    <3>1. d.amount = 0 /\ d.blocked = 0 /\ d.waiting = 0
      BY <1>8, <2>1, <2>8 DEF Pos!Touched, Pos!IsNoOp
    <3>2. Pos!Booked(i)' = Pos!Booked(i)
      BY <2>3, <3>1
    <3>3. \A r \in position' : r.key = i => r \in position
      BY <1>12, <2>8
    <3>4. \A r \in position : r.key = i => r \in position'
      BY <1>12, <2>8
    <3> QED
      BY <2>4, <2>5, <2>6, <3>2, <3>3, <3>4 DEF KeyOK
  <2> QED
    BY <2>7, <2>8
<1>22. EnteredOK' /\ BooksKept'
  BY <1>1, <1>5, <1>21, SumsStay DEF BooksKept
<1>23. entered' \subseteq Entries /\ applied' \subseteq DOMAIN Plans /\ manual' \subseteq PositionKeys
  BY <1>1, <1>5 DEF PosTypes
<1>24. \A v \in Callers : v # w /\ job[v].kind = "plan" /\ job[v].what \in applied' => job[v].what \in applied
  BY <1>5, <1>15
<1> QED
  BY <1>5, <1>12, <1>16, <1>17, <1>18, <1>19, <1>20, <1>22, <1>23, <1>24, WritingStep

\* What a transaction holds is what it does to the holds of its ends.
LEMMA EffectParts ==
  ASSUME Pos!PositionsAssumption, NEW e \in Entries, e.source # e.destination
  PROVE  /\ Pos!Effect(e, "source").amount = EndsPart(e, e.source, "source")
         /\ EndsPart(e, e.source, "destination") = 0 /\ EndsPart(e, e.destination, "source") = 0
         /\ Pos!Effect(e, "destination").amount = EndsPart(e, e.destination, "destination")
         /\ Pos!Effect(e, "source").blocked = HeldPart(e, e.source, "source")
         /\ Pos!Effect(e, "source").waiting = 0 /\ HeldPart(e, e.source, "destination") = 0
         /\ Pos!Effect(e, "destination").waiting = HeldPart(e, e.destination, "destination")
         /\ Pos!Effect(e, "destination").blocked = 0 /\ HeldPart(e, e.destination, "source") = 0
         /\ \A k : k # e.source /\ k # e.destination =>
              /\ EndsPart(e, k, "source") = 0 /\ EndsPart(e, k, "destination") = 0
              /\ HeldPart(e, k, "source") = 0 /\ HeldPart(e, k, "destination") = 0
<1>1. /\ Pos!Effect(e, "source").amount = EndsPart(e, e.source, "source")
      /\ EndsPart(e, e.source, "destination") = 0 /\ EndsPart(e, e.destination, "source") = 0
      /\ Pos!Effect(e, "destination").amount = EndsPart(e, e.destination, "destination")
  BY DEF EndsPart
<1>2. HeldPart(e, e.source, "destination") = 0 /\ HeldPart(e, e.destination, "source") = 0
  BY DEF HeldPart
<1>3. Pos!Effect(e, "source").waiting = 0 /\ Pos!Effect(e, "destination").blocked = 0
  BY DEF Pos!Effect
<1>4. e.kind \in {"move", "hold", "commit", "void"}
  BY DEF Pos!PositionsAssumption
<1>5. Pos!Effect(e, "source").blocked = HeldPart(e, e.source, "source")
  BY <1>4 DEF Pos!Effect, HeldPart
<1>6. Pos!Effect(e, "destination").waiting = HeldPart(e, e.destination, "destination")
  BY <1>4 DEF Pos!Effect, HeldPart
<1>7. \A k : k # e.source /\ k # e.destination =>
        /\ EndsPart(e, k, "source") = 0 /\ EndsPart(e, k, "destination") = 0
        /\ HeldPart(e, k, "source") = 0 /\ HeldPart(e, k, "destination") = 0
  BY DEF EndsPart, HeldPart
<1> QED
  BY <1>1, <1>2, <1>3, <1>5, <1>6, <1>7

\* A draft of the row as it is.
LEMMA DraftCurrent ==
  ASSUME Pos!PositionsAssumption, PosTypes, RowsOK, NEW e \in Entries, NEW side \in {"source", "destination"}, NEW u \in RowFields,
         DraftOK(u, e, side), Pos!AsRead(u)
  PROVE  \E r \in position :
           /\ r.key = e[side] /\ u.key = e[side] /\ u.by = r.by /\ u.version = r.version + 1
           /\ u.amount = r.amount + Pos!Effect(e, side).amount
           /\ u.blocked = r.blocked + Pos!Effect(e, side).blocked
           /\ u.waiting = r.waiting + Pos!Effect(e, side).waiting
<1>1. PICK r \in position : /\ r.key = e[side] /\ u.key = r.key /\ u.by = r.by /\ u.version <= r.version + 1
                            /\ u.version = r.version + 1 => u = Pos!Changed(r, Pos!Effect(e, side))
  BY DEF DraftOK
<1>2. PICK s \in position : s.key = u.key /\ s.version + 1 = u.version
  BY DEF Pos!AsRead, Pos!Id
<1>3. s = r
  BY <1>1, <1>2 DEF RowsOK
<1>4. u = Pos!Changed(r, Pos!Effect(e, side)) /\ r \in RowFields
  BY <1>1, <1>2, <1>3 DEF PosTypes, PositionRows
<1>5. PICK d \in PositionDeltas : d = Pos!Effect(e, side)
  BY EffectDelta
<1>6. /\ u.version = r.version + 1 /\ u.amount = r.amount + d.amount
      /\ u.blocked = r.blocked + d.blocked /\ u.waiting = r.waiting + d.waiting
  BY <1>4, <1>5, ChangedRow
<1> QED
  BY <1>1, <1>5, <1>6

\* A transaction is written: rows and sums grow by its effects.
LEMMA EnterKeeps ==
  ASSUME Pos!PositionsAssumption, PosStrong, NEW w \in Callers, job[w].kind = "entry",
         \A u \in job[w].writes : rowLock[u.key] = Nothing,
         Pos!Current(job[w].what, job[w].writes), \A u \in job[w].writes : Pos!Covered(u),
         Pos!Enterable(job[w].what), position' = Pos!Written(job[w].writes),
         entered' = entered \cup {job[w].what}, Pos!Ends(w),
         applied' = applied, manual' = manual, answers' = answers, keyLock' = keyLock, rowLock' = rowLock
  PROVE  PosStrong'
<1>1. /\ PosTypes /\ RowsOK /\ LocksOK /\ PlansApart /\ JobOK(w) /\ EnteredOK /\ BooksKept /\ job[w] \in JobRecords
      /\ rowLock \in [PositionKeys -> Callers \cup {Nothing}] /\ Nothing \notin Callers
  BY DEF PosStrong, PosTypes, Pos!PositionsAssumption
<1>2. PICK e \in Entries : e = job[w].what
  BY <1>1 DEF JobOK, EntryOK
<1>3. PICK u, x \in job[w].writes : /\ job[w].writes = {u, x}
                                    /\ DraftOK(u, e, "source") /\ DraftOK(x, e, "destination")
  BY <1>1, <1>2 DEF JobOK, EntryOK
<1>4. /\ e.source # e.destination /\ Pos!AsRead(u) /\ Pos!AsRead(x) /\ Pos!Enterable(e) /\ e \notin entered
      /\ entered' = entered \cup {e} /\ u \in RowFields /\ x \in RowFields
      /\ rowLock[u.key] = Nothing /\ rowLock[x.key] = Nothing
  BY <1>1, <1>2, <1>3 DEF Pos!Current, Pos!Enterable, JobRecords
<1>5. PICK r \in position :
        /\ r.key = e.source /\ u.key = e.source /\ u.by = r.by /\ u.version = r.version + 1
        /\ u.amount = r.amount + Pos!Effect(e, "source").amount
        /\ u.blocked = r.blocked + Pos!Effect(e, "source").blocked
        /\ u.waiting = r.waiting + Pos!Effect(e, "source").waiting
  BY <1>1, <1>3, <1>4, DraftCurrent
<1>6. PICK s \in position :
        /\ s.key = e.destination /\ x.key = e.destination /\ x.by = s.by /\ x.version = s.version + 1
        /\ x.amount = s.amount + Pos!Effect(e, "destination").amount
        /\ x.blocked = s.blocked + Pos!Effect(e, "destination").blocked
        /\ x.waiting = s.waiting + Pos!Effect(e, "destination").waiting
  BY <1>1, <1>3, <1>4, DraftCurrent
<1>7. PICK W : W = {u, x}
  OBVIOUS
<1>8. Replaces(W)
  <2>1. W \subseteq PositionRows
    BY <1>3, <1>4, <1>7 DEF PositionRows
  <2> QED
    BY <1>4, <1>5, <1>6, <1>7, <2>1 DEF Replaces
<1>9. /\ position' \subseteq PositionRows /\ RowsOK' /\ RowsAdvance
      /\ \A t \in position' : t \in {u, x} \/ (t \in position /\ t.key # e.source /\ t.key # e.destination)
      /\ \A t \in position : t \in position' \/ t.key = e.source \/ t.key = e.destination
      /\ u \in position' /\ x \in position'
  <2>1. position' = Pos!Written(W) /\ answers' = answers
    BY <1>3, <1>7
  <2>2. /\ position' \subseteq PositionRows /\ RowsOK' /\ RowsAdvance
        /\ \A t \in position' : t \in W \/ (t \in position /\ \A y \in W : y.key # t.key)
        /\ \A t \in position : t \in position' \/ \E y \in W : y.key = t.key
        /\ W \subseteq position'
    BY <1>1, <1>8, <2>1, Wrote
  <2> QED
    BY <1>5, <1>6, <1>7, <2>2
<1>10. PICK J : J = Pos!NoJob
  OBVIOUS
<1>11. QuietJob(w, J) /\ J.kind = "none" /\ job'[w] = J
  <2>1. QuietJob(w, J) /\ J.kind = "none"
    BY <1>10, NoJobFits DEF QuietJob, Pos!Ends
  <2> QED
    BY <1>1, <2>1, Framed
<1>12. JobOK(w)'
  <2>1. job'[w].kind = "none" /\ job'[w] = Pos!NoJob'
    BY <1>10, <1>11 DEF Pos!NoJob
  <2> QED
    BY <2>1 DEF JobOK, PlanOK, EntryOK
<1>13. LocksOf(w)'
  <2>1. \A k \in PositionKeys : rowLock[k] # w
    BY <1>1, IdleLocks
  <2> QED
    BY <2>1 DEF LocksOf
<1>14. ASSUME NEW v \in Callers, v # w PROVE Spared(v)
  <2>1. rowLock[e.source] # v /\ rowLock[e.destination] # v
    BY <1>1, <1>4, <1>5, <1>6
  <2> QED
    BY <1>5, <1>6, <1>9, <2>1 DEF Spared
<1>15. EnteredOK'
  BY <1>1, <1>4, EnteredKept
<1>16. ASSUME NEW i \in PositionKeys PROVE KeyOK(i)'
  <2>1. /\ Pos!Booked(i)' = Pos!Booked(i) + EndsPart(e, i, "source") + EndsPart(e, i, "destination")
        /\ Pos!Booked(i) \in Int
    BY <1>1, <1>4, EntryBooked
  <2>2. /\ Pos!LiveHolds(i, "source")' = Pos!LiveHolds(i, "source") + HeldPart(e, i, "source")
        /\ Pos!LiveHolds(i, "source") \in Nat
    BY <1>1, <1>4, LiveEntry
  <2>3. /\ Pos!LiveHolds(i, "destination")' = Pos!LiveHolds(i, "destination") + HeldPart(e, i, "destination")
        /\ Pos!LiveHolds(i, "destination") \in Nat
    BY <1>1, <1>4, LiveEntry
  <2>4. KeyOK(i)
    BY <1>1 DEF BooksKept
  <2>5. manual' = manual
    OBVIOUS
  <2>6. \A t \in position : t.amount \in Int /\ t.blocked \in Int /\ t.waiting \in Int
    BY <1>1 DEF PosTypes, PositionRows, RowFields
  <2>7. \A side \in {"source", "destination"} : Pos!Effect(e, side).amount \in Int
    BY EffectDelta DEF PositionDeltas
  <2>8. CASE i = e.source
    <3>1. \A t \in position' : t.key = i => t = u
      BY <1>5, <1>9, <2>8 DEF RowsOK
    <3>2. u.amount = Pos!Booked(i)'
      <4>1. r.amount = Pos!Booked(i)
        BY <1>5, <2>4, <2>8 DEF KeyOK
      <4>2. EndsPart(e, i, "source") = Pos!Effect(e, "source").amount /\ EndsPart(e, i, "destination") = 0
        BY <1>4, <2>8, EffectParts
      <4> QED
        BY <1>5, <2>1, <2>7, <4>1, <4>2
    <3>3. ASSUME i \notin manual PROVE u.blocked = Pos!LiveHolds(i, "source")'
                                       /\ u.waiting = Pos!LiveHolds(i, "destination")'
      <4>1. r.blocked = Pos!LiveHolds(i, "source") /\ r.waiting = Pos!LiveHolds(i, "destination")
        BY <1>5, <2>4, <2>8, <3>3 DEF KeyOK
      <4>2. /\ Pos!Effect(e, "source").blocked = HeldPart(e, i, "source") /\ Pos!Effect(e, "source").waiting = 0
            /\ HeldPart(e, i, "destination") = 0
        BY <1>4, <2>8, EffectParts
      <4> QED
        BY <1>5, <2>2, <2>3, <4>1, <4>2
    <3> QED
      BY <1>5, <1>9, <2>5, <2>8, <3>1, <3>2, <3>3 DEF KeyOK
  <2>9. CASE i = e.destination
    <3>1. \A t \in position' : t.key = i => t = x
      BY <1>6, <1>9, <2>9 DEF RowsOK
    <3>2. x.amount = Pos!Booked(i)'
      <4>1. s.amount = Pos!Booked(i)
        BY <1>6, <2>4, <2>9 DEF KeyOK
      <4>2. EndsPart(e, i, "destination") = Pos!Effect(e, "destination").amount /\ EndsPart(e, i, "source") = 0
        BY <1>4, <2>9, EffectParts
      <4> QED
        BY <1>6, <2>1, <2>7, <4>1, <4>2
    <3>3. ASSUME i \notin manual PROVE x.blocked = Pos!LiveHolds(i, "source")'
                                       /\ x.waiting = Pos!LiveHolds(i, "destination")'
      <4>1. s.blocked = Pos!LiveHolds(i, "source") /\ s.waiting = Pos!LiveHolds(i, "destination")
        BY <1>6, <2>4, <2>9, <3>3 DEF KeyOK
      <4>2. /\ Pos!Effect(e, "destination").waiting = HeldPart(e, i, "destination")
            /\ Pos!Effect(e, "destination").blocked = 0 /\ HeldPart(e, i, "source") = 0
        BY <1>4, <2>9, EffectParts
      <4> QED
        BY <1>6, <2>2, <2>3, <4>1, <4>2
    <3> QED
      BY <1>6, <1>9, <2>5, <2>9, <3>1, <3>2, <3>3 DEF KeyOK
  <2>10. CASE i # e.source /\ i # e.destination
    <3>1. /\ EndsPart(e, i, "source") = 0 /\ EndsPart(e, i, "destination") = 0
          /\ HeldPart(e, i, "source") = 0 /\ HeldPart(e, i, "destination") = 0
      BY <1>4, <2>10, EffectParts
    <3>2. /\ Pos!Booked(i)' = Pos!Booked(i) /\ Pos!LiveHolds(i, "source")' = Pos!LiveHolds(i, "source")
          /\ Pos!LiveHolds(i, "destination")' = Pos!LiveHolds(i, "destination")
      BY <2>1, <2>2, <2>3, <3>1
    <3>3. /\ \A t \in position' : t.key = i => t \in position
          /\ \A t \in position : t.key = i => t \in position'
      BY <1>5, <1>6, <1>9, <2>10
    <3> QED
      BY <2>4, <2>5, <3>2, <3>3 DEF KeyOK
  <2> QED
    BY <2>8, <2>9, <2>10
<1>17. BooksKept'
  BY <1>16 DEF BooksKept
<1>18. entered' \subseteq Entries /\ applied' \subseteq DOMAIN Plans /\ manual' \subseteq PositionKeys
  BY <1>1, <1>4 DEF PosTypes
<1> QED
  BY <1>1, <1>9, <1>11, <1>12, <1>13, <1>14, <1>15, <1>17, <1>18, WritingStep

\* A transaction is written, or refused.
LEMMA PersistKeeps ==
  ASSUME Pos!PositionsAssumption, PosStrong, NEW w \in Callers, Pos!PersistEntry(w) PROVE PosStrong'
<1>1. /\ job[w].kind = "entry" /\ \A u \in job[w].writes : rowLock[u.key] = Nothing
      /\ Pos!Ends(w) /\ applied' = applied /\ manual' = manual /\ answers' = answers
      /\ keyLock' = keyLock /\ rowLock' = rowLock
  BY DEF Pos!PersistEntry
<1>2. CASE /\ Pos!Current(job[w].what, job[w].writes) /\ \A u \in job[w].writes : Pos!Covered(u)
           /\ Pos!Enterable(job[w].what)
  <2>1. position' = Pos!Written(job[w].writes) /\ entered' = entered \cup {job[w].what}
    BY <1>2 DEF Pos!PersistEntry
  <2> QED
    BY <1>1, <1>2, <2>1, EnterKeeps
<1>3. CASE ~(/\ Pos!Current(job[w].what, job[w].writes) /\ \A u \in job[w].writes : Pos!Covered(u)
             /\ Pos!Enterable(job[w].what))
  <2>1. position' = position /\ entered' = entered
    BY <1>3 DEF Pos!PersistEntry
  <2>2. RowsOK' /\ keyLock' \in [PositionKeys -> Callers \cup {Nothing}]
    BY <1>1, <2>1 DEF PosStrong, PosTypes, RowsOK
  <2> QED
    BY <1>1, <2>1, <2>2, EndedStep
<1> QED
  BY <1>2, <1>3

\* There is nothing yet.
LEMMA PosInitially == ASSUME Pos!PositionsAssumption, Pos!PositionInit PROVE PosStrong
<1>1. /\ position = {Pos!Zero(k, Nothing) : k \in OpenKeys} /\ entered = {} /\ applied = {} /\ manual = {}
      /\ answers = {} /\ keyLock = [k \in PositionKeys |-> Nothing] /\ rowLock = [k \in PositionKeys |-> Nothing]
      /\ job = [w \in Callers |-> Pos!NoJob]
  BY DEF Pos!PositionInit
<1>2. OpenKeys \subseteq PositionKeys /\ Nothing \notin Callers
  BY DEF Pos!PositionsAssumption
<1>3. \A r \in position : /\ r \in PositionRows /\ r.amount = 0 /\ r.blocked = 0 /\ r.waiting = 0
                          /\ r = Pos!Zero(r.key, Nothing)
  BY <1>1, <1>2 DEF Pos!Zero, PositionRows, RowFields, Pos!Covered
<1>4. PosTypes
  <2>1. job \in [Callers -> JobRecords]
    BY <1>1, NoJobFits
  <2> QED
    BY <1>1, <1>3, <2>1 DEF PosTypes
<1>5. RowsOK
  BY <1>1, <1>3 DEF RowsOK
<1>6. \A w \in Callers : job[w] = Pos!NoJob /\ job[w].kind = "none"
  BY <1>1, NoJobFits
<1>7. PlansApart /\ \A w \in Callers : JobOK(w)
  BY <1>6 DEF PlansApart, JobOK, PlanOK, EntryOK
<1>8. LocksOK
  BY <1>1, <1>2 DEF LocksOK
<1>9. EnteredOK
  BY <1>1 DEF EnteredOK
<1>10. ASSUME NEW k \in PositionKeys
       PROVE  Pos!Booked(k) = 0 /\ Pos!LiveHolds(k, "source") = 0 /\ Pos!LiveHolds(k, "destination") = 0
  <2>1. PICK f : f = [p \in applied |-> Pos!Merged(p, k).amount]
    OBVIOUS
  <2>2. PICK a : a = [e \in {x \in entered : x.destination = k} |-> Pos!Effect(e, "destination").amount]
    OBVIOUS
  <2>3. PICK b : b = [e \in {x \in entered : x.source = k} |-> Pos!Effect(e, "source").amount]
    OBVIOUS
  <2>4. PICK g : g = [h \in {e \in entered : e.kind = "hold" /\ e.source = k} |-> Pos!Remaining(h)]
    OBVIOUS
  <2>5. PICK h : h = [i \in {e \in entered : e.kind = "hold" /\ e.destination = k} |-> Pos!Remaining(i)]
    OBVIOUS
  <2>6. DOMAIN f = {} /\ DOMAIN a = {} /\ DOMAIN b = {} /\ DOMAIN g = {} /\ DOMAIN h = {}
    BY <1>1, <2>1, <2>2, <2>3, <2>4, <2>5
  <2>7. /\ Pos!SumFunction(f) = 0 /\ Pos!SumFunction(a) = 0 /\ Pos!SumFunction(b) = 0
        /\ Pos!SumFunction(g) = 0 /\ Pos!SumFunction(h) = 0
    BY <2>6, PosSum, FunctionSumEmpty
  <2>8. Pos!Booked(k) = 0 + 0 + 0
    BY <2>1, <2>2, <2>3, <2>7 DEF Pos!Booked
  <2>9. Pos!LiveHolds(k, "source") = 0
    BY <2>4, <2>7 DEF Pos!LiveHolds
  <2>10. Pos!LiveHolds(k, "destination") = 0
    BY <2>5, <2>7 DEF Pos!LiveHolds
  <2> QED
    BY <2>8, <2>9, <2>10
<1>11. BooksKept
  BY <1>3, <1>10 DEF BooksKept, KeyOK
<1> QED
  BY <1>4, <1>5, <1>7, <1>8, <1>9, <1>11 DEF PosStrong

\* Nothing happens.
LEMMA PosUnchanged == ASSUME Pos!PositionsAssumption, PosStrong, UNCHANGED Pos!positionVars PROVE PosStrong'
<1>1. /\ position' = position /\ entered' = entered /\ applied' = applied /\ manual' = manual /\ answers' = answers
      /\ keyLock' = keyLock /\ rowLock' = rowLock /\ job' = job
  BY DEF Pos!positionVars
<1>2. /\ PosTypes /\ RowsOK /\ PlansApart /\ LocksOK /\ EnteredOK /\ BooksKept /\ \A w \in Callers : JobOK(w)
  BY DEF PosStrong
<1>3. PosTypes' /\ RowsOK' /\ PlansApart' /\ LocksOK'
  BY <1>1, <1>2 DEF PosTypes, RowsOK, PlansApart, LocksOK, Pos!Id
<1>4. EnteredOK' /\ BooksKept'
  BY <1>1, <1>2, BooksStay
<1>5. ASSUME NEW w \in Callers PROVE JobOK(w)'
  <2>1. position' \subseteq PositionRows /\ RowsAdvance /\ Spared(w)
    BY <1>1, <1>2 DEF PosTypes, RowsAdvance, PositionRows, RowFields, Spared
  <2> QED
    BY <1>1, <1>2, <2>1, JobStays
<1> QED
  BY <1>3, <1>4, <1>5 DEF PosStrong

\* Every step keeps the invariant.
LEMMA PosSteps == ASSUME Pos!PositionsAssumption, PosStrong, [Pos!PositionNext]_(Pos!positionVars) PROVE PosStrong'
<1>1. CASE UNCHANGED Pos!positionVars
  BY <1>1, PosUnchanged
<1>2. CASE \E w \in Callers : Pos!PositionStep(w)
  <2>1. PICK w \in Callers : Pos!PositionStep(w)
    BY <1>2
  <2>2. ASSUME NEW k \in PositionKeys, Pos!FindPosition(w, k) \/ Pos!LockHolds(w, k) PROVE PosStrong'
    BY <2>2, FindKeeps, LockHoldsKeeps
  <2>3. ASSUME NEW plan \in DOMAIN Plans, Pos!ApplyMutationPlan(w, plan) PROVE PosStrong'
    BY <2>3, PlanKeeps
  <2>4. ASSUME NEW d \in job[w].todo, Pos!ApplyOneDelta(w, d) PROVE PosStrong'
    BY <2>4, DeltaKeeps
  <2>5. ASSUME NEW e \in Entries, Pos!ReadPositions(w, e) PROVE PosStrong'
    BY <2>5, ReadKeeps
  <2>6. CASE Pos!InsertPosition(w) \/ Pos!FoundPosition(w)
    BY <2>6, InsertKeeps, FoundKeeps
  <2>7. CASE \/ Pos!LockKeys(w) \/ Pos!WaitTimesOut(w) \/ Pos!Failure(w) \/ Pos!CommitPlan(w) \/ Pos!UnlockKeys(w)
    BY <2>7, LockKeeps, WaitKeeps, FailureKeeps, CommitKeeps, UnlockKeeps
  <2>8. CASE Pos!PersistEntry(w) \/ Pos!RecomputeHolds(w)
    BY <2>8, PersistKeeps, RecomputeKeeps
  <2> QED
    BY <2>1, <2>2, <2>3, <2>4, <2>5, <2>6, <2>7, <2>8 DEF Pos!PositionStep
<1>3. CASE \E w \in Callers : Pos!ExpireKeys(w)
  BY <1>3, ExpireKeeps
<1> QED
  BY <1>1, <1>2, <1>3 DEF Pos!PositionNext

\* It implies what is promised of positions.
LEMMA PosEstablished == ASSUME Pos!PositionsAssumption, PosStrong PROVE Pos!PositionsInv
<1>1. /\ PosTypes /\ RowsOK /\ LocksOK /\ BooksKept /\ \A w \in Callers : JobOK(w)
  BY DEF PosStrong
<1>2. Pos!PositionsTypeOK
  BY <1>1 DEF PosTypes, PositionRows, RowFields, Pos!Covered, JobRecords, JobKinds, Pos!PositionsTypeOK
<1>3. Pos!OnePositionPerKey
  BY <1>1 DEF RowsOK, Pos!OnePositionPerKey
<1>4. \A r \in position : r.key \in PositionKeys
  BY <1>1 DEF PosTypes, PositionRows, RowFields
<1>5. Pos!NothingLost /\ Pos!HoldsFollowTransactions
  BY <1>1, <1>4 DEF BooksKept, KeyOK, Pos!NothingLost, Pos!HoldsFollowTransactions
<1>6. Pos!PlansWaitUpwards
  <2> SUFFICES ASSUME NEW v \in Callers, NEW w \in Callers, job[v].kind = "plan", job[v].stage = "apply",
                      job[w].kind = "plan", job[w].stage = "apply", v # w,
                      NEW d \in Pos!Due(job[v].todo), NEW e \in job[w].todo, rowLock[d.key] = w
               PROVE  d.key < e.key
    BY DEF Pos!PlansWaitUpwards, Pos!At
  <2>1. d.key \in PositionKeys
    BY <1>1 DEF Pos!Due, PosTypes, JobRecords, PositionDeltas
  <2>2. PICK u \in job[w].writes : u.key = d.key
    BY <1>1, <2>1 DEF LocksOK
  <2>3. ApplyOK(w)
    BY <1>1 DEF JobOK, PlanOK
  <2> QED
    BY <2>2, <2>3 DEF ApplyOK
<1> QED
  BY <1>2, <1>3, <1>5, <1>6 DEF Pos!PositionsInv

(***************************************************************************)
(* The services together.  An inactive service keeps its variables, and    *)
(* the active one takes its own steps, so what its steps keep, all steps   *)
(* keep while it is active.                                                *)
(***************************************************************************)

\* The active service takes one of its own steps, or none.
LEMMA OneMoves ==
  ASSUME [ServicesNext]_<<active, serviceVars>>
  PROVE  /\ active' = active
         /\ active = "orders" => [Ord!OrderNext]_(Ord!orderVars)
         /\ active = "positions" => [Pos!PositionNext]_(Pos!positionVars)
         /\ active = "snapshots" => [Snap!SnapNext]_snapVars
         /\ active = "monitors" => [Mon!MonitorNext]_(Mon!monitorVars)
         /\ active = "indicators" => [Ind!IndicatorNext]_(Ind!indicatorVars)
         /\ active = "keys" => [Key!KeyNext]_(Key!keyVars)
<1>1. CASE UNCHANGED <<active, serviceVars>>
  BY <1>1 DEF serviceVars, orderVars, positionVars, snapVars, monitorVars, indicatorVars, keyVars,
     Ord!orderVars, Pos!positionVars, Mon!monitorVars, Ind!indicatorVars, Key!keyVars
<1>2. CASE ServicesNext
  BY <1>2 DEF ServicesNext, OrdersMove, PositionsMove, SnapshotsMove, MonitorsMove, IndicatorsMove, KeysMove
<1> QED
  BY <1>1, <1>2

\* The invariant of each service while it is the active one.
ServicesStrong ==
  /\ active = "orders" => OrdersStrong
  /\ active = "positions" => PosStrong
  /\ active = "snapshots" => SnapStrong
  /\ active = "monitors" => MonitorsStrong
  /\ active = "indicators" => IndicatorsStrong
  /\ active = "keys" => KeysStrong

\* It holds initially.
LEMMA ServicesInitially == ServicesInit => ServicesStrong
<1>1. Pos!PositionsAssumption
  BY ServicesAssumption
<1> QED
  BY <1>1, ServicesAssumption, OrdersInitially, PosInitially, SnapInitially, MonitorsInitially,
     IndicatorsInitially, KeysInitially DEF ServicesInit, ServicesStrong

\* Every step keeps it.
LEMMA ServicesKeep == ServicesStrong /\ [ServicesNext]_<<active, serviceVars>> => ServicesStrong'
<1>1. Pos!PositionsAssumption
  BY ServicesAssumption
<1> QED
  BY <1>1, ServicesAssumption, OneMoves, OrdersNext, PosSteps, SnapSteps, MonitorsNext, IndicatorsNext, KeysNext
     DEF ServicesStrong

\* Orders, for any number of orders and concurrent calls: the client's holds
\* never exceed the settled money although every check is stale when its order
\* is executed, and an order that says EXECUTED has both legs (CheckOrder,
\* BookTrade, ExecuteOrder).
THEOREM OrdersKept == ServicesSpec => []OrdersInv
<1>1. ServicesStrong => OrdersInv
  BY DEF ServicesStrong, OrdersStrong, OrdersInv
<1> QED
  BY <1>1, ServicesInitially, ServicesKeep, PTL DEF ServicesSpec

\* No trade without its checks: whoever books the first leg of an order has
\* read it with its checks passed (CheckOrder, ApproveOrder, ExecuteOrder).
THEOREM ChecksComeFirst == ServicesSpec => BookedOrdersWereChecked
<1>1. ServicesStrong /\ [ServicesNext]_<<active, serviceVars>>
        => [active = "orders" => Ord!BooksCheckedOrder]_<<active, orderVars>>
  <2> SUFFICES ASSUME ServicesStrong, [ServicesNext]_<<active, serviceVars>>, active = "orders",
                      ~UNCHANGED <<active, orderVars>>
               PROVE  Ord!BooksCheckedOrder
    OBVIOUS
  <2>1. Ord!OrderNext
    BY OneMoves DEF orderVars, Ord!orderVars
  <2> QED
    BY <2>1, BooksChecked DEF ServicesStrong
<1> QED
  BY <1>1, ServicesInitially, ServicesKeep, PTL DEF ServicesSpec, BookedOrdersWereChecked

\* Positions, for any number of keys, plans, transactions and workers: a key
\* has one row and everybody is given that one; a position is the sum of the
\* committed plans and transactions although their locks do not exclude each
\* other; its holds are those of its live inflight transactions unless a plan
\* changed them; plans never wait for each other's rows in a circle
\* (FindOrCreatePosition, ApplyBalanceDeltas, updateBalance, RecomputeHolds).
THEOREM PositionsKept == ServicesSpec => []PositionsInv
<1>1. ServicesStrong => PositionsInv
  <2>1. Pos!PositionsAssumption
    BY ServicesAssumption
  <2> QED
    BY <2>1, PosEstablished DEF ServicesStrong, PositionsInv
<1> QED
  BY <1>1, ServicesInitially, ServicesKeep, PTL DEF ServicesSpec

\* API keys, for any number of keys, servers and requests: a copy of a revoked
\* key that does not say so is accounted for, and a key that a key created may
\* do nothing its creator could not (RevokeAPIKey, GetAPIKey,
\* resolveAPIKeyOwner, validateGrantedScopes).
THEOREM KeysKept == ServicesSpec => []KeysInv
<1>1. ServicesStrong => KeysInv
  BY DEF ServicesStrong, KeysStrong, KeysInv
<1> QED
  BY <1>1, ServicesInitially, ServicesKeep, PTL DEF ServicesSpec

\* Balances.  Built on a snapshot and built from all transactions they differ
\* by exactly the transactions that the stamp puts on the wrong side, for any
\* number of runs, batches and concurrent transactions (GetBalanceAtTime); and
\* transactions that name the same indicator and currency post to the same
\* balance, however many look it up and create it at once: CreateBalance takes a
\* violation of the unique index for a success and
\* getOrCreateBalanceByIndicator looks again.
THEOREM BalancesKept == ServicesSpec => []BalancesInv
<1>1. ServicesStrong => BalancesInv
  <2> SUFFICES ASSUME ServicesStrong PROVE BalancesInv
    OBVIOUS
  <2>1. active = "snapshots" => Snap!SnapTypeOK /\ Snap!AnswersDifferByStraddlers
    BY ServicesAssumption, SnapTyped, AnswersDiffer DEF ServicesStrong
  <2>2. active = "indicators" => Ind!IndicatorsTypeOK /\ Ind!OneBalancePerIndicator
    BY OneRow DEF ServicesStrong, IndicatorsStrong
  <2>3. active = "monitors" => Mon!MonitorsTypeOK
    BY DEF ServicesStrong, MonitorsStrong, MonitorTypes
  <2> QED
    BY <2>1, <2>2, <2>3 DEF BalancesInv
<1> QED
  BY <1>1, ServicesInitially, ServicesKeep, PTL DEF ServicesSpec

\* A run that ends has left no balance that was there when it began without a
\* snapshot of its day, for any batch size and any number of concurrent runs
\* (take_daily_balance_snapshots_batched).
THEOREM RunsCover == ServicesSpec => RunsCoverAllBalances
<1>1. ServicesStrong /\ [ServicesNext]_<<active, serviceVars>>
        => [active = "snapshots" => Snap!EndsWhenCovered]_<<active, snapVars>>
  BY ServicesAssumption, EndsCovered DEF ServicesStrong
<1> QED
  BY <1>1, ServicesInitially, ServicesKeep, PTL DEF ServicesSpec, RunsCoverAllBalances

\* A transaction alerts exactly the monitors of its balance whose condition
\* the balance meets, but for a list that a writer is about to delete or that
\* one of three accidents left out of date; for any number of monitors,
\* balances, writers and readers (checkBalanceMonitors, CreateMonitor,
\* UpdateMonitor, DeleteMonitor).
THEOREM AlertsComeWhenDue == ServicesSpec => AlertsAreDue
<1>1. ServicesStrong /\ [ServicesNext]_<<active, serviceVars>>
        => [active = "monitors" => Mon!AlertsTheCurrent]_<<active, monitorVars>>
  <2> SUFFICES ASSUME ServicesStrong, [ServicesNext]_<<active, serviceVars>>, active = "monitors",
                      ~UNCHANGED <<active, monitorVars>>
               PROVE  Mon!AlertsTheCurrent
    OBVIOUS
  <2>1. [Mon!MonitorNext]_(Mon!monitorVars) /\ ~UNCHANGED Mon!monitorVars
    BY OneMoves DEF monitorVars, Mon!monitorVars
  <2>2. [Mon!AlertsTheCurrent]_(Mon!monitorVars)
    BY <2>1, ServicesAssumption, ChecksCurrent DEF ServicesStrong
  <2> QED
    BY <2>1, <2>2
<1> QED
  BY <1>1, ServicesInitially, ServicesKeep, PTL DEF ServicesSpec, AlertsAreDue
==============================================================================
