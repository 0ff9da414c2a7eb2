-------------------------------- MODULE Orders --------------------------------
(***************************************************************************)
(* Orders: created as drafts, checked, approved, executed into trades or   *)
(* cancelled (order.go).  Every operation reads the order, works, and      *)
(* writes the whole order back; nothing ties the write to the read.  The   *)
(* operations of several callers interleave; a caller may die, an answer   *)
(* be lost, and the void that compensates a failed booking may fail.       *)
(*                                                                         *)
(* All orders are of one client, for one instrument at one price: a buy    *)
(* needs one unit of money, a sell delivers one unit of the position.      *)
(* Booking is BookTrade and SellTrade as Settlement has them; what becomes *)
(* of a booked trade is Settlement's.                                      *)
(***************************************************************************)
EXTENDS Integers, FiniteSets

CONSTANTS
  OrderIds,      \* the orders, each with a reference of its own
  SellChoices,   \* the sets of orders that may be the ones that sell
  Callers,       \* API calls at work at the same time
  NoOrder,       \* a caller that is at none
  Money,         \* the client's settled money
  Position,      \* the client's settled position
  MaxCrashes     \* bound: callers that die, lost answers and failing voids

VARIABLES
  order,         \* the rows of blnk.orders
  sells,         \* the orders whose side is SELL; it never changes
  blocked,       \* the client is on the stop list
  money,         \* money leg of each order's trade
  security,      \* security leg
  call,          \* what each caller is doing
  crashes

orderVars == <<order, sells, blocked, money, security, call, crashes>>

OrdersAssumption ==
  /\ IsFiniteSet(OrderIds) /\ NoOrder \notin OrderIds
  /\ SellChoices \subseteq SUBSET OrderIds
  /\ Money \in Nat /\ Position \in Nat

Statuses == {"none", "DRAFT", "CHECKED", "APPROVED", "EXECUTED", "REJECTED", "CANCELLED"}
Ops == {"check", "approve", "execute", "cancel"}
Stages == {"next", "stop", "time", "size", "funds", "money", "security", "write"}
NoRow == [status |-> "none", aml |-> "", trade |-> FALSE]
Idle == [id |-> NoOrder, op |-> "check", stage |-> "stop", submit |-> FALSE, read |-> NoRow]

OrderInit ==
  /\ order = [o \in OrderIds |-> NoRow]
  /\ sells \in SellChoices
  /\ blocked = FALSE
  /\ money = [o \in OrderIds |-> "none"]
  /\ security = [o \in OrderIds |-> "none"]
  /\ call = [c \in Callers |-> Idle]
  /\ crashes = 0

\* orderTransitions.
CanTransitionOrder(from, to) ==
  \/ from = "DRAFT" /\ to \in {"CHECKED", "REJECTED", "CANCELLED"}
  \/ from = "CHECKED" /\ to \in {"APPROVED", "REJECTED", "CANCELLED"}
  \/ from = "APPROVED" /\ to \in {"EXECUTED", "REJECTED", "CANCELLED"}

------------------------------------------------------------------------------
\* AddStopList: the client is blocked, for the instrument or altogether.
AddStopList == blocked' = TRUE /\ UNCHANGED <<sells, order, money, security, call, crashes>>
------------------------------------------------------------------------------
HeldMoney(S) == Cardinality({o \in S : money[o] = "inflight"})
Deliveries == Cardinality({o \in sells : security[o] = "inflight"})
Buys == OrderIds \ sells

\* FreeBalance, without a cap: never below zero.
FreeBalance(available, obligations) ==
  IF available < obligations THEN 0 ELSE available - obligations

\* GetFreeBalance of the money position and GetTradablePosition.
FreeMoney == FreeBalance(Money, HeldMoney(Buys))
TradablePosition == Position - Deliveries

CreateOrder(o) ==
  /\ order[o].status = "none"
  /\ order' = [order EXCEPT ![o].status = "DRAFT"]
  /\ UNCHANGED <<sells, blocked, money, security, call, crashes>>

At(c, stage) == call' = [call EXCEPT ![c].stage = stage]
\* The row the caller will write.
Becomes(c, status, aml, trade) ==
  call' = [call EXCEPT ![c].stage = "write",
             ![c].read = [status |-> status, aml |-> aml, trade |-> trade]]

\* What the operation requires of the status it reads.
Admits(op, status) ==
  CASE op = "check" -> status = "DRAFT"
    [] op = "approve" -> CanTransitionOrder(status, "APPROVED")
    [] op = "execute" -> CanTransitionOrder(status, "EXECUTED")
    [] op = "cancel" -> CanTransitionOrder(status, "CANCELLED")

Reading(o, op, submit) ==
  [id |-> o, op |-> op, submit |-> submit,
   stage |-> CASE op = "check" -> "stop" [] op = "execute" -> "money" [] OTHER -> "write",
   read |-> CASE op = "approve" -> [order[o] EXCEPT !.status = "APPROVED"]
              [] op = "cancel" -> [order[o] EXCEPT !.status = "CANCELLED"]
              [] OTHER -> order[o]]

\* Faulty: the status is not looked at.
BeginAnyStatus(c, o, op) ==
  /\ call[c] = Idle /\ order[o].status # "none"
  /\ call' = [call EXCEPT ![c] = Reading(o, op, FALSE)]
  /\ UNCHANGED <<sells, order, blocked, money, security, crashes>>

\* An operation starts: GetOrder, and the status must admit it.
Begin(c, o, op) ==
  /\ call[c] = Idle /\ Admits(op, order[o].status)
  /\ call' = [call EXCEPT ![c] = Reading(o, op, FALSE)]
  /\ UNCHANGED <<sells, order, blocked, money, security, crashes>>

\* A straight-through order's caller is about to read it for its next operation.
GoesOnWith(c, o, op) ==
  call' = [call EXCEPT ![c] = [Idle EXCEPT !.id = o, !.op = op, !.submit = TRUE, !.stage = "next"]]

\* SubmitOrder: create, and go on with the check.
SubmitOrder(c, o) ==
  /\ call[c] = Idle /\ order[o].status = "none"
  /\ order' = [order EXCEPT ![o].status = "DRAFT"]
  /\ GoesOnWith(c, o, "check")
  /\ UNCHANGED <<sells, blocked, money, security, crashes>>

\* runOrderChecks: one check after the other, each on what it reads then.
CheckStopList(c) ==
  /\ call[c].id # NoOrder /\ call[c].op = "check" /\ call[c].stage = "stop"
  /\ IF blocked THEN Becomes(c, "REJECTED", "BLOCKED", FALSE) ELSE At(c, "time")
  /\ UNCHANGED <<sells, order, blocked, money, security, crashes>>

\* isVenueOpen and checkSizeLimits: the venue's trading windows and the
\* instrument's limits let the order pass or they do not.
CheckTradingTime(c) ==
  /\ call[c].op = "check" /\ call[c].stage = "time"
  /\ At(c, "size") \/ Becomes(c, "REJECTED", call[c].read.aml, FALSE)
  /\ UNCHANGED <<sells, order, blocked, money, security, crashes>>

CheckSizeLimits(c) ==
  /\ call[c].op = "check" /\ call[c].stage = "size"
  /\ At(c, "funds") \/ Becomes(c, "REJECTED", call[c].read.aml, FALSE)
  /\ UNCHANGED <<sells, order, blocked, money, security, crashes>>

\* The free money for a buy, the tradable position for a sell.
CheckFunds(c) ==
  LET available == IF call[c].id \in sells THEN TradablePosition ELSE FreeMoney IN
  /\ call[c].op = "check" /\ call[c].stage = "funds"
  /\ IF available >= 1 THEN Becomes(c, "CHECKED", "PASSED", FALSE)
                       ELSE Becomes(c, "REJECTED", call[c].read.aml, FALSE)
  /\ UNCHANGED <<sells, order, blocked, money, security, crashes>>

\* The money leg can be recorded: its reference is new, a buy is funded, and a
\* sell finds a tradable position.
CanBook(o) ==
  /\ money[o] = "none"
  /\ IF o \in sells THEN TradablePosition >= 1 ELSE FreeMoney >= 1

BookMoney(c) ==
  LET o == call[c].id IN
  /\ call[c].op = "execute" /\ call[c].stage = "money"
  /\ CanBook(o)
  /\ money' = [money EXCEPT ![o] = "inflight"]
  /\ At(c, "security")
  /\ UNCHANGED <<sells, order, blocked, security, crashes>>

\* An answer is lost, a compensating void fails, or a caller dies.
Mishap == crashes < MaxCrashes /\ crashes' = crashes + 1

\* rejectOrderOnExecute, whatever the reason: the money leg is not recorded, or
\* is recorded although the caller is told of a failure.
BookingFails(c) ==
  LET o == call[c].id IN
  /\ call[c].op = "execute" /\ call[c].stage = "money"
  /\ \/ UNCHANGED <<money, crashes>>
     \/ Mishap /\ CanBook(o) /\ money' = [money EXCEPT ![o] = "inflight"]
  /\ Becomes(c, "REJECTED", call[c].read.aml, FALSE)
  /\ UNCHANGED <<sells, order, blocked, security>>

BookSecurity(c) ==
  LET o == call[c].id IN
  /\ call[c].op = "execute" /\ call[c].stage = "security"
  /\ security[o] = "none"
  /\ security' = [security EXCEPT ![o] = "inflight"]
  /\ Becomes(c, "EXECUTED", call[c].read.aml, TRUE)
  /\ UNCHANGED <<sells, order, blocked, money, crashes>>

\* Faulty: the order counts as executed although its second leg failed.
SecurityFailsExecuted(c) ==
  /\ call[c].op = "execute" /\ call[c].stage = "security"
  /\ Becomes(c, "EXECUTED", call[c].read.aml, TRUE)
  /\ UNCHANGED <<sells, order, blocked, security, money, crashes>>

\* The security leg fails: the money leg is voided and the order rejected.  The
\* leg may be there although its caller was told of a failure, and a void that
\* fails is only logged.
SecurityFails(c) ==
  LET o == call[c].id
      voided == [money EXCEPT ![o] = "void"]
  IN
  /\ call[c].op = "execute" /\ call[c].stage = "security"
  /\ \/ money' = voided /\ UNCHANGED <<security, crashes>>
     \/ /\ Mishap
        /\ security' \in {security, [security EXCEPT ![o] = "inflight"]}
        /\ money' \in {money, voided}
  /\ Becomes(c, "REJECTED", call[c].read.aml, FALSE)
  /\ UNCHANGED <<sells, order, blocked>>

\* UpdateOrder writes the order as the caller has it, whatever it has become
\* meanwhile; a straight-through order then goes on with its next operation,
\* which reads it again.
UpdateOrder(c) ==
  LET o == call[c].id
      after == CASE call[c].op = "check" -> "approve" [] OTHER -> "execute"
      goesOn == /\ call[c].submit /\ call[c].op \in {"check", "approve"}
                /\ call[c].read.status # "REJECTED"
  IN
  /\ o # NoOrder /\ call[c].stage = "write"
  /\ order' = [order EXCEPT ![o] = call[c].read]
  /\ IF goesOn THEN GoesOnWith(c, o, after) ELSE call' = [call EXCEPT ![c] = Idle]
  /\ UNCHANGED <<sells, blocked, money, security, crashes>>

\* The next operation of SubmitOrder.
GoOn(c) ==
  LET o == call[c].id IN
  /\ call[c].stage = "next"
  /\ call' = [call EXCEPT ![c] = IF Admits(call[c].op, order[o].status)
                                 THEN Reading(o, call[c].op, TRUE) ELSE Idle]
  /\ UNCHANGED <<sells, order, blocked, money, security, crashes>>

CallerDies(c) ==
  /\ call[c] # Idle /\ Mishap
  /\ call' = [call EXCEPT ![c] = Idle]
  /\ UNCHANGED <<sells, order, blocked, money, security>>

------------------------------------------------------------------------------
OrderStep(c) ==
  \/ \E o \in OrderIds : SubmitOrder(c, o) \/ \E op \in Ops : Begin(c, o, op)
  \/ CheckStopList(c) \/ CheckTradingTime(c) \/ CheckSizeLimits(c) \/ CheckFunds(c)
  \/ BookMoney(c) \/ BookingFails(c) \/ BookSecurity(c) \/ SecurityFails(c)
  \/ UpdateOrder(c) \/ GoOn(c) \/ CallerDies(c)

OrderNext ==
  \/ \E o \in OrderIds : CreateOrder(o)
  \/ AddStopList
  \/ \E c \in Callers : OrderStep(c)

OrderSpec == OrderInit /\ [][OrderNext]_orderVars

------------------------------------------------------------------------------
\* The rows and calls are well formed.
OrdersTypeOK ==
  /\ order \in [OrderIds -> [status : Statuses, aml : {"", "PASSED", "BLOCKED"}, trade : BOOLEAN]]
  /\ blocked \in BOOLEAN /\ sells \subseteq OrderIds
  /\ money \in [OrderIds -> {"none", "inflight", "void"}]
  /\ security \in [OrderIds -> {"none", "inflight"}]
  /\ \A c \in Callers : call[c].id \in OrderIds \cup {NoOrder} /\ call[c].stage \in Stages

\* Buys that were all checked against the same free money are not all booked:
\* the client's holds never exceed the settled money, although the check of an
\* order is stale by the time it is executed (CheckOrder, BookTrade).
HoldsCovered == HeldMoney(Buys) <= Money

\* An order that says EXECUTED has both legs of its trade, whatever else was
\* executed, rejected or retried at the same time (ExecuteOrder).
ExecutedOrdersAreBooked ==
  \A o \in OrderIds :
    order[o].status = "EXECUTED" => money[o] = "inflight" /\ security[o] = "inflight"

BooksCheckedOrder ==
  \A o \in OrderIds :
    money[o] = "none" /\ money'[o] = "inflight" =>
      \E c \in Callers : call[c].id = o /\ call[c].read.aml = "PASSED"

\* No trade without its checks: whoever books the first leg of an order has
\* read it with its checks passed, however checks, approvals and cancellations
\* of several callers overwrite each other (CheckOrder, ApproveOrder).
BookedOrdersWereChecked == [][BooksCheckedOrder]_orderVars

\* What the calls on orders keep.
OrdersInv == OrdersTypeOK /\ HoldsCovered /\ ExecutedOrdersAreBooked
==============================================================================
