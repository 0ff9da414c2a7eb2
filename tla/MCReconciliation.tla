--------------------------- MODULE MCReconciliation ---------------------------
(***************************************************************************)
(* Reconciliation for TLC: two uploads of one and of two rows against a    *)
(* ledger of three, two of which form one group.                           *)
(***************************************************************************)
EXTENDS Reconciliation

Line(id, amount, date, ref, group) ==
  [id |-> id, amount |-> amount, date |-> date, currency |-> "USD", ref |-> ref, group |-> group]
Files == [u \in {"first", "second"} |->
            IF u = "first" THEN <<Line(11, 3, 2, "rent", 1), Line(12, 2, 1, "food", 2)>>
                           ELSE <<Line(21, 1, 2, "food", 1)>>]
Ledgers == <<Line(1, 1, 1, "rents", 1), Line(2, 2, 2, "rent", 1), Line(3, 2, 3, "food", 2)>>
Similar == {{"rent", "rents"}}

Criterion(f, o, d) == [field |-> f, operator |-> o, drift |-> d]
Exact == {Criterion("amount", "equals", 0), Criterion("date", "equals", 2)}
Sooner == {Criterion("amount", "equals", 0), Criterion("date", "equals", 0)}
ByText == {Criterion("reference", "contains", 0), Criterion("currency", "equals", 0)}
Lax == {Criterion("amount", "equals", 200)}
Rulebook == {Exact, Sooner, ByText, Lax}

BothUploads == [upload : {"first", "second"}, strategy : {"one_to_one"}, dry : {FALSE}]
AllStrategies == [upload : {"first"}, strategy : Strategies, dry : {FALSE}]
                 \cup [upload : {"first"}, strategy : {"one_to_one"}, dry : {TRUE}]
==============================================================================
