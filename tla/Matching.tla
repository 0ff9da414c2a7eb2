------------------------------ MODULE Matching ------------------------------
(***************************************************************************)
(* The matching rules of a reconciliation (reconciliation.go): which rules *)
(* are accepted, when a transaction and another one, or a group of them,   *)
(* match, and the range of amounts and dates the ledger is searched with.  *)
(*                                                                         *)
(* A transaction is [id, amount, date, currency, ref, group]: ref is any   *)
(* of its texts up to letter case, group its value in the column that the  *)
(* request groups by (0: empty).  Amounts are whole, drifts of amounts     *)
(* percentages.                                                            *)
(***************************************************************************)
EXTENDS Integers, FiniteSetsExt

CONSTANT Alike   \* pairs of different texts that partialMatch accepts

Abs(n) == IF n < 0 THEN -n ELSE n

------------------------------------------------------------------------------
\* validateRule.
Fields == {"amount", "date", "reference", "currency"}
Operators == {"equals", "greater_than", "less_than", "contains"}

ValidDrift(c) ==
  c.operator = "equals" =>
    CASE c.field = "amount" -> c.drift \in 0 .. 100
      [] c.field = "date" -> c.drift >= 0
      [] OTHER -> TRUE

ValidateRule(rule) ==
  rule # {} /\ \A c \in rule : c.field \in Fields /\ c.operator \in Operators /\ ValidDrift(c)

\* A transaction or a group of them as the criteria see it: a group has the
\* texts of all its members, which equals and contains try one by one.
Single(t) == [amount |-> t.amount, date |-> t.date, currency |-> t.currency, refs |-> {t.ref}]

Group(g) ==
  LET currencies == {t.currency : t \in g} IN
  [amount |-> MapThenSumSet(LAMBDA t : t.amount, g),
   date |-> Min({t.date : t \in g}),
   currency |-> IF Cardinality(currencies) = 1 THEN CHOOSE c \in currencies : TRUE ELSE "MIXED",
   refs |-> {t.ref : t \in g}]

MatchesGroupAmount(e, g, c) ==
  CASE c.operator = "equals" -> Abs(e - g) * 100 <= Abs(g) * c.drift
    [] c.operator = "greater_than" -> e > g
    [] c.operator = "less_than" -> e < g
    [] OTHER -> FALSE

MatchesGroupDate(e, g, c) ==
  CASE c.operator = "equals" -> Abs(e - g) <= c.drift
    [] c.operator = "greater_than" -> e > g
    [] c.operator = "less_than" -> e < g
    [] OTHER -> FALSE

MatchesString(e, texts, c) ==
  CASE c.operator = "equals" -> e \in texts
    [] c.operator = "contains" -> \E text \in texts : e = text \/ {e, text} \in Alike
    [] OTHER -> FALSE

MatchesCurrency(e, g, c) == g = "MIXED" \/ MatchesString(e, {g}, c)

MatchesRules(e, t, rs) ==
  \E rule \in rs : \A c \in rule :
    CASE c.field = "amount" -> MatchesGroupAmount(e.amount, t.amount, c)
      [] c.field = "date" -> MatchesGroupDate(e.date, t.date, c)
      [] c.field = "reference" -> MatchesString(e.ref, t.refs, c)
      [] c.field = "currency" -> MatchesCurrency(e.currency, t.currency, c)

\* calculateMatchingBounds: the widest range that any rule's criteria allow,
\* and GetTransactionsByCriteria with it.
Equals(rs, field) == {c \in UNION rs : c.field = field /\ c.operator = "equals"}

WithinBounds(value, of, slacks) ==
  slacks = {} \/ (of - Max(slacks) <= value /\ value <= of + Max(slacks))

Candidate(e, t, rs) ==
  /\ WithinBounds(100 * t.amount, 100 * e.amount,
                  {Abs(e.amount) * c.drift : c \in Equals(rs, "amount")})
  /\ WithinBounds(t.date, e.date, {c.drift : c \in Equals(rs, "date")})
  /\ e.currency = "" \/ t.currency = e.currency

------------------------------------------------------------------------------
\* The range that the ledger is searched with loses no match, for every set
\* of rules that all compare the amount, exactly, and the date, each with a
\* drift of its own (calculateMatchingBounds).
BoundsKeepMatches(externals, internals, ruleset) ==
  \A rs \in SUBSET ruleset :
    (\A rule \in rs : \A field \in {"amount", "date"} :
       \E c \in rule : c.field = field /\ c.operator = "equals" /\ (field = "amount" => c.drift = 0))
    => \A e \in externals, t \in internals :
         e.currency = t.currency /\ MatchesRules(e, Single(t), rs) => Candidate(e, t, rs)
==============================================================================
