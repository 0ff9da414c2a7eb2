----------------------------- MODULE SettleDates -----------------------------
(***************************************************************************)
(* The settlement calendar (model/brokerage.go): from the day of a trade,  *)
(* the offset of its settle code and the holidays of its venue, the day on *)
(* which it settles.  Days are numbered; day 1 is a Monday.                *)
(***************************************************************************)
EXTENDS Integers, FiniteSets

\* IsSettlementDay and ComputeSettleDate.
IsSettlementDay(day, holidays) == (day - 1) % 7 \notin {5, 6} /\ day \notin holidays

NoDay == 0

\* Day by day: one settlement day less to wait for, then the first one; an error
\* after maxLookahead rounds.
ComputeSettleDate(trade, offset, holidays, maxLookahead) ==
  LET walk[i \in 0 .. maxLookahead] ==
        IF i = 0 THEN [day |-> trade, left |-> offset, found |-> FALSE]
        ELSE LET at == walk[i - 1]
                 next == at.day + 1
                 closer == IF IsSettlementDay(next, holidays) THEN at.left - 1 ELSE at.left
             IN IF at.found THEN at
                ELSE IF at.left > 0 THEN [at EXCEPT !.day = next, !.left = closer]
                ELSE IF IsSettlementDay(at.day, holidays) THEN [at EXCEPT !.found = TRUE]
                ELSE [at EXCEPT !.day = next]
  IN IF walk[maxLookahead].found THEN walk[maxLookahead].day ELSE NoDay

\* A trade settles on a settlement day, exactly so many settlement days after
\* its own day, and on none if that is not within reach, for all holidays
\* (ComputeSettleDate).
SettlesOnTime(days, offsets, lookaheads) ==
  \A holidays \in SUBSET days, offset \in offsets, trade \in 1 .. 7, n \in lookaheads :
    LET settlement(from, to) == {d \in from .. to : IsSettlementDay(d, holidays)}
        due == {d \in settlement(trade, trade + n - 1) :
                  IF offset = 0 THEN settlement(trade, d) = {d}
                                ELSE Cardinality(settlement(trade + 1, d)) = offset}
        date == ComputeSettleDate(trade, offset, holidays, n)
    IN IF due = {} THEN date = NoDay ELSE due = {date}
==============================================================================
