----------------------------- MODULE MCSettlement -----------------------------
(***************************************************************************)
(* Settlement for TLC: buys of 2 and a sell of 1 that are due on the same  *)
(* day.                                                                    *)
(***************************************************************************)
EXTENDS Settlement

Quantities == [t \in Trades |-> IF t \in Buys THEN 2 ELSE 1]

\* A position that was sold short, an empty one and one to sell from.
Spots == {-1, 0, 1}

\* In "market" a buy and a sell meet two runs; in "recovery" two buys, of a
\* position that may be short, meet a run with more faults.
VARIABLE setting

TakesPart(t) == IF setting = "market" THEN t # "late" ELSE t # "sell"
Runners == IF setting = "market" THEN Runs ELSE {"r1"}

InSetting ==
  /\ \A t \in Trades : ~TakesPart(t) => booking[t] = "new"
  /\ \A r \in Runs \ Runners : pc[r] = "idle"
  /\ setting = "market" => faults <= 1

SettingsInit ==
  /\ Init
  /\ \/ setting = "market" /\ spot >= 0
     \/ setting = "recovery" /\ spot <= 0

Within(A) == A /\ UNCHANGED setting /\ InSetting'

SettingsNext == Within(Next)

SettingsSpec ==
  /\ SettingsInit /\ [][SettingsNext]_<<vars, setting>>
  /\ \A r \in Runs :
       /\ WF_<<vars, setting>>(Within(StartRun(r) \/ RunStep(r)))
       /\ SF_<<vars, setting>>(Within(StartRun(r)))
==============================================================================
