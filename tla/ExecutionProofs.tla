--------------------------- MODULE ExecutionProofs ---------------------------
(***************************************************************************)
(* Proofs about the atomic ledger and about Execution, which implements    *)
(* it, for any sets of balances, requests and workers.                     *)
(***************************************************************************)
EXTENDS Execution, SumTheorems

\* Applying a transaction to a balance yields a balance.
LEMMA MathType ==
  ASSUME NEW r \in Requests, NEW b \in Amounts
  PROVE  Debit(r, b) \in Amounts /\ Credit(r, b) \in Amounts
<1>1. r.amount \in Nat /\ r.status \in {"QUEUED", "COMMIT", "VOID"}
  BY LedgerAssumption DEF Transactions
<1>2. /\ b.credit \in Int /\ b.debit \in Int
      /\ b.inflightCredit \in Int /\ b.inflightDebit \in Int
  BY DEF Amounts
<1>3. CASE r.status = "COMMIT"
  <2> DEFINE d == [b EXCEPT !.inflightDebit = b.inflightDebit - r.amount]
             c == [b EXCEPT !.inflightCredit = b.inflightCredit - r.amount]
  <2>1. d \in Amounts /\ d.debit \in Int /\ c \in Amounts /\ c.credit \in Int
    BY <1>1, <1>2 DEF Amounts
  <2>2. Debit(r, b) = [d EXCEPT !.debit = d.debit + r.amount]
    BY <1>2, <1>3 DEF Debit, addDebit, CommitInflightDebit,
      RollbackInflightDebit, Amounts
  <2>3. Credit(r, b) = [c EXCEPT !.credit = c.credit + r.amount]
    BY <1>2, <1>3 DEF Credit, addCredit, CommitInflightCredit,
      RollbackInflightCredit, Amounts
  <2> HIDE DEF d, c
  <2>4. QED BY <1>1, <2>1, <2>2, <2>3 DEF Amounts
<1>4. CASE r.status = "VOID"
  BY <1>1, <1>2, <1>4 DEF Debit, addDebit, CommitInflightDebit,
      RollbackInflightDebit, Credit, addCredit, CommitInflightCredit,
      RollbackInflightCredit, Amounts
<1>5. CASE r.status = "QUEUED" /\ r.inflight
  BY <1>1, <1>2, <1>5 DEF Debit, addDebit, CommitInflightDebit,
      RollbackInflightDebit, Credit, addCredit, CommitInflightCredit,
      RollbackInflightCredit, Amounts
<1>6. CASE r.status = "QUEUED" /\ ~r.inflight
  BY <1>1, <1>2, <1>6 DEF Debit, addDebit, CommitInflightDebit,
      RollbackInflightDebit, Credit, addCredit, CommitInflightCredit,
      RollbackInflightCredit, Amounts
<1>7. QED BY <1>1, <1>3, <1>4, <1>5, <1>6

\* What the two sides of a transaction do to the available balance and to the
\* holds of a balance.
LEMMA Effects ==
  ASSUME NEW r \in Requests, NEW b \in Amounts
  PROVE  /\ Available(Debit(r, b), 0) >=
              Available(b, 0) - IF Resolves(r) THEN 0 ELSE r.amount
         /\ Available(Credit(r, b), 0) >= Available(b, 0)
         /\ Debit(r, b).inflightCredit = b.inflightCredit
         /\ Credit(r, b).inflightDebit = b.inflightDebit
         /\ Debit(r, b).inflightDebit >=
              b.inflightDebit - IF Resolves(r) THEN r.amount ELSE 0
         /\ Credit(r, b).inflightCredit >=
              b.inflightCredit - IF Resolves(r) THEN r.amount ELSE 0
<1>1. r.amount \in Nat /\ r.status \in {"QUEUED", "COMMIT", "VOID"}
  BY LedgerAssumption DEF Transactions
<1>2. /\ b.credit \in Int /\ b.debit \in Int
      /\ b.inflightCredit \in Int /\ b.inflightDebit \in Int
  BY DEF Amounts
<1>3. CASE r.status = "COMMIT"
  <2>1. /\ Debit(r, b).credit = b.credit
        /\ Debit(r, b).debit = b.debit + r.amount
        /\ Debit(r, b).inflightDebit = b.inflightDebit - r.amount
        /\ Debit(r, b).inflightCredit = b.inflightCredit
    BY <1>3 DEF Debit, addDebit, CommitInflightDebit,
      RollbackInflightDebit, Amounts
  <2>2. /\ Credit(r, b).credit = b.credit + r.amount
        /\ Credit(r, b).debit = b.debit
        /\ Credit(r, b).inflightDebit = b.inflightDebit
        /\ Credit(r, b).inflightCredit = b.inflightCredit - r.amount
    BY <1>3 DEF Credit, addCredit, CommitInflightCredit,
      RollbackInflightCredit, Amounts
  <2>3. QED BY <1>1, <1>2, <1>3, <2>1, <2>2 DEF Available, Resolves
<1>4. CASE r.status = "VOID"
  BY <1>1, <1>2, <1>4 DEF Debit, addDebit, CommitInflightDebit,
      RollbackInflightDebit, Credit, addCredit, CommitInflightCredit,
      RollbackInflightCredit, Amounts, Available, Resolves
<1>5. CASE r.status = "QUEUED" /\ r.inflight
  BY <1>1, <1>2, <1>5 DEF Debit, addDebit, CommitInflightDebit,
      RollbackInflightDebit, Credit, addCredit, CommitInflightCredit,
      RollbackInflightCredit, Amounts, Available, Resolves
<1>6. CASE r.status = "QUEUED" /\ ~r.inflight
  BY <1>1, <1>2, <1>6 DEF Debit, addDebit, CommitInflightDebit,
      RollbackInflightDebit, Credit, addCredit, CommitInflightCredit,
      RollbackInflightCredit, Amounts, Available, Resolves
<1>7. QED BY <1>1, <1>3, <1>4, <1>5, <1>6

LedgerInv == LedgerTypeOK /\ NoUnauthorisedOverdraft /\ HoldsNeverNegative

\* New balances are typed, covered and without holds.
LEMMA LedgerInitInv == LedgerInit => LedgerInv
BY DEF LedgerInit, LedgerInv, LedgerTypeOK, NoUnauthorisedOverdraft, Covered,
   HoldsNeverNegative, NewBalance, Amounts, Available

\* The balances after a posting.
LEMMA Posted ==
  ASSUME LedgerTypeOK, NEW r \in Requests, Post(r)
  PROVE  /\ r.source \in Balances /\ r.destination \in Balances
         /\ balances[r.source] \in Amounts /\ balances[r.destination] \in Amounts
         /\ balances'[r.source] = Debit(r, balances[r.source])
         /\ balances'[r.destination] = Credit(r, balances[r.destination])
         /\ \A b \in Balances \ {r.source, r.destination} :
              balances'[b] = balances[b]
<1>1. r.source \in Balances /\ r.destination \in Balances
  BY LedgerAssumption DEF Transactions
<1>2. QED BY <1>1 DEF LedgerTypeOK, Post

\* One posting keeps types, cover and holds of both balances.
LEMMA PostInv ==
  ASSUME LedgerInv, NEW r \in Requests, Post(r)
  PROVE  LedgerInv'
<1> USE DEF LedgerInv
<1> DEFINE s == balances[r.source]
           d == balances[r.destination]
<1>1. /\ r.source \in Balances /\ r.destination \in Balances
      /\ s \in Amounts /\ d \in Amounts
      /\ balances'[r.source] = Debit(r, s)
      /\ balances'[r.destination] = Credit(r, d)
      /\ \A b \in Balances \ {r.source, r.destination} : balances'[b] = balances[b]
  BY Posted
<1>2. r.amount \in Nat /\ r.overdraftLimit \in Nat
  BY LedgerAssumption DEF Transactions
<1>3. LedgerTypeOK'
  BY <1>1, MathType DEF LedgerTypeOK, Post
<1>4. HoldsNeverNegative'
  <2>1. Resolves(r) => s.inflightDebit >= r.amount /\ d.inflightCredit >= r.amount
    BY DEF Post, Applicable
  <2>2. /\ s.inflightDebit \in Int /\ s.inflightCredit \in Int
        /\ d.inflightDebit \in Int /\ d.inflightCredit \in Int
    BY <1>1 DEF Amounts
  <2>3. /\ s.inflightDebit >= 0 /\ s.inflightCredit >= 0
        /\ d.inflightDebit >= 0 /\ d.inflightCredit >= 0
    BY <1>1 DEF HoldsNeverNegative
  <2>4. Debit(r, s).inflightDebit \in Int /\ Credit(r, d).inflightCredit \in Int
    BY <1>1, MathType DEF Amounts
  <2>5. Debit(r, s).inflightDebit >= 0 /\ Debit(r, s).inflightCredit >= 0
    BY <1>1, <1>2, <2>1, <2>2, <2>3, <2>4, Effects
  <2>6. Credit(r, d).inflightDebit >= 0 /\ Credit(r, d).inflightCredit >= 0
    BY <1>1, <1>2, <2>1, <2>2, <2>3, <2>4, Effects
  <2>7. QED BY <1>1, <2>5, <2>6 DEF HoldsNeverNegative
<1>5. ASSUME NEW b \in Balances,
             \A q \in Requests : q.source = b => ~UnlimitedOverdraft(q)
      PROVE  Covered(b)'
  <2>1. Covered(b) /\ balances[b] \in Amounts /\ Available(balances[b], 0) \in Int
    BY <1>5 DEF NoUnauthorisedOverdraft, LedgerTypeOK, Amounts, Available
  <2>2. ASSUME NEW x \in Int, x = Available(balances'[b], 0),
               x >= Available(balances[b], 0)
        PROVE  Covered(b)'
    <3>1. CASE Available(balances[b], 0) >= 0
      BY <2>1, <2>2, <3>1 DEF Covered
    <3>2. ASSUME NEW q \in Requests, q.source = b, q.overdraftLimit > 0,
                 Available(balances[b], 0) >= -q.overdraftLimit
          PROVE  Covered(b)'
      <4>1. q.overdraftLimit \in Nat
        BY LedgerAssumption DEF Transactions
      <4>2. x >= -q.overdraftLimit
        BY <2>1, <2>2, <3>2, <4>1
      <4>3. QED BY <2>2, <3>2, <4>2 DEF Covered
    <3>3. QED BY <2>1, <3>1, <3>2 DEF Covered
  <2>3. Available(balances'[b], 0) \in Int
    BY <1>3 DEF LedgerTypeOK, Amounts, Available
  <2>4. CASE b \notin {r.source, r.destination}
    BY <1>1, <2>1, <2>2, <2>4
  <2>5. CASE b = r.destination
    BY <1>1, <2>2, <2>3, <2>5, Effects
  <2>6. CASE b = r.source /\ Resolves(r)
    <3>1. Available(balances'[b], 0) >= Available(balances[b], 0) - 0
      BY <1>1, <2>6, Effects
    <3>2. QED BY <2>1, <2>2, <2>3, <3>1
  <2>7. CASE b = r.source /\ ~Resolves(r)
    <3>1. Available(balances'[b], 0) >= Available(balances[b], 0) - r.amount
      BY <1>1, <2>7, Effects
    <3>2. CanProcessTransaction(r, balances[b], 0) /\ ~UnlimitedOverdraft(r)
      BY <1>5, <2>7 DEF Post, Applicable
    <3>3. CASE Available(balances[b], 0) >= r.amount
      <4>1. Available(balances'[b], 0) >= 0
        BY <1>2, <2>1, <2>3, <3>1, <3>3
      <4>2. QED BY <4>1 DEF Covered
    <3>4. CASE /\ r.overdraftLimit > 0
               /\ Available(balances[b], 0) - r.amount >= -r.overdraftLimit
      <4>1. Available(balances'[b], 0) >= -r.overdraftLimit
        BY <1>2, <2>1, <2>3, <3>1, <3>4
      <4>2. QED BY <2>7, <3>4, <4>1 DEF Covered
    <3>5. QED BY <3>2, <3>3, <3>4 DEF CanProcessTransaction
  <2>8. QED BY <2>4, <2>5, <2>6, <2>7
<1>6. NoUnauthorisedOverdraft'
  BY <1>5 DEF NoUnauthorisedOverdraft
<1>7. QED BY <1>3, <1>4, <1>6

\* The atomic ledger keeps its types, its cover and its pooled holds,
\* whatever is posted (UpdateBalances, CommitInflightDebit, RollbackInflightDebit).
THEOREM LedgerInvHolds == LedgerSpec => []LedgerInv
<1>1. LedgerInv /\ [LedgerNext]_ledgerVars => LedgerInv'
  <2> SUFFICES ASSUME LedgerInv, [LedgerNext]_ledgerVars PROVE LedgerInv'
    OBVIOUS
  <2>1. ASSUME NEW r \in Requests, Post(r) PROVE LedgerInv'
    BY <2>1, PostInv
  <2>2. CASE UNCHANGED ledgerVars
    BY <2>2 DEF LedgerInv, LedgerTypeOK, NoUnauthorisedOverdraft, Covered,
       HoldsNeverNegative, ledgerVars
  <2>3. QED BY <2>1, <2>2 DEF LedgerNext
<1>2. QED BY <1>1, LedgerInitInv, PTL DEF LedgerSpec

\* The funds check of canProcessTransaction is enough: in an atomic ledger no
\* balance is overdrawn beyond what its transactions were allowed.
THEOREM NoOverdraft == LedgerSpec => []NoUnauthorisedOverdraft
<1>1. LedgerInv => NoUnauthorisedOverdraft
  BY DEF LedgerInv
<1>2. QED BY <1>1, LedgerInvHolds, PTL

\* The checks on the pooled holds are enough: holds never become negative.
THEOREM HoldsStayNonNegative == LedgerSpec => []HoldsNeverNegative
<1>1. LedgerInv => HoldsNeverNegative
  BY DEF LedgerInv
<1>2. QED BY <1>1, LedgerInvHolds, PTL

\* Total is the sum of the amounts.
LEMMA TotalIsSum ==
  ASSUME NEW S, IsFiniteSet(S)
  PROVE  \E g : IsSum(g, [row \in S |-> row.txn.amount], S) /\ Total(S) = g[S]
<1> DEFINE w == [row \in S |-> row.txn.amount]
           P(f) == f = [s \in SUBSET S |->
                          IF s = {} THEN 0
                          ELSE (CHOOSE x \in s : TRUE).txn.amount
                               + f[s \ {CHOOSE x \in s : TRUE}]]
<1>1. Total(S) = (CHOOSE f : P(f))[S]
  BY DEF Total, MapThenSumSet, MapThenFoldSet
<1>2. ASSUME NEW g PROVE IsSum(g, w, S) <=> P(g)
  BY PickInSet DEF Pick, IsSum
<1>3. \E f : P(f)
  <2>1. PICK g : IsSum(g, w, S)
    BY SumExists
  <2>2. P(g)
    BY <1>2, <2>1
  <2> HIDE DEF P
  <2> QED
    BY <2>2
<1>4. P(CHOOSE f : P(f))
  <2> HIDE DEF P
  <2> QED
    BY <1>3
<1> QED
  BY <1>1, <1>2, <1>4

\* Nothing adds up to 0.
LEMMA TotalEmpty == Total({}) = 0
<1>1. PICK g : IsSum(g, [row \in {} |-> row.txn.amount], {}) /\ Total({}) = g[{}]
  BY TotalIsSum, FS_EmptySet
<1> QED
  BY <1>1, SumEmpty

\* One more row adds its amount.
LEMMA TotalGrown ==
  ASSUME NEW S, IsFiniteSet(S), \A row \in S : row.txn.amount \in Int,
         NEW a, a \notin S, a.txn.amount \in Int
  PROVE  Total(S \cup {a}) = Total(S) + a.txn.amount /\ Total(S) \in Int
<1>1. PICK T : T = S \cup {a}
  OBVIOUS
<1>2. PICK w : w = [row \in T |-> row.txn.amount]
  OBVIOUS
<1>3. PICK v : v = [row \in S |-> row.txn.amount]
  OBVIOUS
<1>4. /\ w \in [T -> Int] /\ w[a] = a.txn.amount
      /\ v \in [S -> Int] /\ \A x \in S : w[x] = v[x]
  BY <1>1, <1>2, <1>3
<1>5. IsFiniteSet(T)
  BY <1>1, FS_AddElement
<1>6. PICK g : IsSum(g, w, T) /\ Total(T) = g[T]
  BY <1>2, <1>5, TotalIsSum
<1>7. PICK h : IsSum(h, v, S) /\ Total(S) = h[S]
  BY <1>3, TotalIsSum
<1>8. g[T] = h[S] + w[a] /\ h[S] \in Int
  BY <1>1, <1>4, <1>6, <1>7, SumAdded
<1> QED
  BY <1>1, <1>4, <1>6, <1>7, <1>8

\* The totals of some of the rows after one more row.
LEMMA TotalFiltered ==
  ASSUME NEW R, IsFiniteSet(R), \A row \in R : row.txn.amount \in Int,
         NEW a, a \notin R, a.txn.amount \in Int,
         NEW S \in SUBSET R, NEW T, NEW n,
         \/ T = S \cup {a} /\ n = a.txn.amount
         \/ T = S /\ n = 0
  PROVE  Total(T) = Total(S) + n /\ Total(S) \in Int /\ n \in Int
<1>1. IsFiniteSet(S) /\ a \notin S /\ \A row \in S : row.txn.amount \in Int
  BY FS_Subset
<1>2. Total(S \cup {a}) = Total(S) + a.txn.amount /\ Total(S) \in Int
  BY <1>1, TotalGrown
<1>3. CASE T = S \cup {a} /\ n = a.txn.amount
  BY <1>2, <1>3
<1>4. CASE T = S /\ n = 0
  BY <1>2, <1>4
<1> QED
  BY <1>3, <1>4

\* Balances with the same amounts are the same.
LEMMA SameAmounts ==
  ASSUME NEW x \in Amounts, NEW y \in Amounts, x.credit = y.credit, x.debit = y.debit,
         x.inflightCredit = y.inflightCredit, x.inflightDebit = y.inflightDebit
  PROVE  x = y
BY DEF Amounts

\* What a posting does to the amounts of its two balances.
LEMMA PostedAmounts ==
  ASSUME NEW r \in Requests, NEW b \in Amounts
  PROVE  LET posted == IF RecordedStatus(r) = "APPLIED" THEN r.amount ELSE 0
             hold == IF RecordedStatus(r) = "INFLIGHT" THEN r.amount ELSE 0
             resolved == IF Resolves(r) THEN r.amount ELSE 0
         IN /\ Debit(r, b) = [credit |-> b.credit, debit |-> b.debit + posted,
                              inflightCredit |-> b.inflightCredit,
                              inflightDebit |-> b.inflightDebit + hold - resolved]
            /\ Credit(r, b) = [credit |-> b.credit + posted, debit |-> b.debit,
                               inflightCredit |-> b.inflightCredit + hold - resolved,
                               inflightDebit |-> b.inflightDebit]
<1> USE DEF Debit, addDebit, CommitInflightDebit, RollbackInflightDebit, Credit,
      addCredit, CommitInflightCredit, RollbackInflightCredit, RecordedStatus, Resolves
<1>1. /\ r.amount \in Nat /\ r.status \in {"QUEUED", "COMMIT", "VOID"}
      /\ r.inflight \in BOOLEAN /\ (r.inflight => r.status = "QUEUED")
  BY LedgerAssumption DEF Transactions
<1>2. /\ b.credit \in Int /\ b.debit \in Int
      /\ b.inflightCredit \in Int /\ b.inflightDebit \in Int
      /\ b = [credit |-> b.credit, debit |-> b.debit,
              inflightCredit |-> b.inflightCredit, inflightDebit |-> b.inflightDebit]
  BY DEF Amounts
<1> DEFINE posted == IF RecordedStatus(r) = "APPLIED" THEN r.amount ELSE 0
           hold == IF RecordedStatus(r) = "INFLIGHT" THEN r.amount ELSE 0
           resolved == IF Resolves(r) THEN r.amount ELSE 0
           d == [credit |-> b.credit, debit |-> b.debit + posted,
                 inflightCredit |-> b.inflightCredit,
                 inflightDebit |-> b.inflightDebit + hold - resolved]
           c == [credit |-> b.credit + posted, debit |-> b.debit,
                 inflightCredit |-> b.inflightCredit + hold - resolved,
                 inflightDebit |-> b.inflightDebit]
<1>3. d \in Amounts /\ c \in Amounts
  BY <1>1, <1>2 DEF Amounts
<1>4. Debit(r, b) \in Amounts /\ Credit(r, b) \in Amounts
  BY MathType
<1>5. CASE r.status = "COMMIT"
  <2>1. posted = r.amount /\ hold = 0 /\ resolved = r.amount
    BY <1>1, <1>5
  <2>2. /\ Debit(r, b).credit = b.credit
        /\ Debit(r, b).debit = b.debit + r.amount
        /\ Debit(r, b).inflightDebit = b.inflightDebit - r.amount
        /\ Debit(r, b).inflightCredit = b.inflightCredit
    BY <1>5 DEF Amounts
  <2>3. /\ Credit(r, b).credit = b.credit + r.amount
        /\ Credit(r, b).debit = b.debit
        /\ Credit(r, b).inflightDebit = b.inflightDebit
        /\ Credit(r, b).inflightCredit = b.inflightCredit - r.amount
    BY <1>5 DEF Amounts
  <2> HIDE DEF posted, hold, resolved
  <2>4. /\ d.credit = b.credit /\ d.debit = b.debit + r.amount
        /\ d.inflightDebit = b.inflightDebit - r.amount
        /\ d.inflightCredit = b.inflightCredit
        /\ c.credit = b.credit + r.amount /\ c.debit = b.debit
        /\ c.inflightDebit = b.inflightDebit
        /\ c.inflightCredit = b.inflightCredit - r.amount
    BY <1>1, <1>2, <2>1
  <2> HIDE DEF Debit, Credit, d, c
  <2> QED
    BY <1>3, <1>4, <2>2, <2>3, <2>4, SameAmounts DEF d, c, posted, hold, resolved
<1>6. CASE r.status = "VOID"
  BY <1>1, <1>2, <1>6
<1>7. CASE r.status = "QUEUED" /\ r.inflight
  BY <1>1, <1>2, <1>7
<1>8. CASE r.status = "QUEUED" /\ ~r.inflight
  BY <1>1, <1>2, <1>8
<1> QED
  BY <1>1, <1>5, <1>6, <1>7, <1>8

MatchInv == LedgerTypeOK /\ IsFiniteSet(rows) /\ BalancesMatchRows

\* Without rows every balance is 0.
LEMMA MatchInit == LedgerInit => MatchInv
<1> SUFFICES ASSUME LedgerInit PROVE MatchInv
  OBVIOUS
<1>1. LedgerTypeOK
  BY DEF LedgerInit, LedgerTypeOK, NewBalance, Amounts
<1>2. \A b \in Balances : /\ To(PostedRows, b) = {} /\ From(PostedRows, b) = {}
                          /\ To(HoldRows, b) = {} /\ From(HoldRows, b) = {}
                          /\ To(ResolvingRows, b) = {} /\ From(ResolvingRows, b) = {}
  BY DEF LedgerInit, To, From, PostedRows, HoldRows, ResolvingRows
<1>3. BalancesMatchRows
  BY <1>2, TotalEmpty DEF BalancesMatchRows, LedgerInit, NewBalance
<1> QED
  BY <1>1, <1>3, FS_EmptySet DEF MatchInv, LedgerInit

\* A posting adds to the balances what its row adds to the totals.
LEMMA PostMatches ==
  ASSUME MatchInv, NEW r \in Requests, Post(r)
  PROVE  MatchInv'
<1> DEFINE a == Row(r)
           posted == IF RecordedStatus(r) = "APPLIED" THEN r.amount ELSE 0
           hold == IF RecordedStatus(r) = "INFLIGHT" THEN r.amount ELSE 0
           resolved == IF Resolves(r) THEN r.amount ELSE 0
<1>1. /\ a.txn = r /\ a.status = RecordedStatus(r)
      /\ a \notin rows /\ rows' = rows \cup {a}
  BY DEF Post, Recorded, Row
<1>2. /\ r.amount \in Int /\ r.source \in Balances /\ r.destination \in Balances
      /\ \A row \in rows : row.txn.amount \in Int
  BY LedgerAssumption DEF Transactions, MatchInv, LedgerTypeOK, Row
<1>3. IsFiniteSet(rows) /\ IsFiniteSet(rows')
  BY <1>1, FS_AddElement DEF MatchInv
<1>4. LedgerTypeOK'
  BY <1>1, <1>2, MathType DEF MatchInv, LedgerTypeOK, Post
<1> HIDE DEF a
<1>5. ASSUME NEW b \in Balances PROVE balances'[b] =
             [credit |-> Total(To(PostedRows, b)'),
              debit |-> Total(From(PostedRows, b)'),
              inflightCredit |-> Total(To(HoldRows, b)') - Total(To(ResolvingRows, b)'),
              inflightDebit |-> Total(From(HoldRows, b)') - Total(From(ResolvingRows, b)')]
  <2>1. /\ Total(To(PostedRows, b)') =
               Total(To(PostedRows, b)) + (IF r.destination = b THEN posted ELSE 0)
        /\ Total(To(PostedRows, b)) \in Int
    <3>1. To(PostedRows, b) \in SUBSET rows
      BY DEF To, PostedRows
    <3>2. \/ /\ To(PostedRows, b)' = To(PostedRows, b) \cup {a}
             /\ (IF r.destination = b THEN posted ELSE 0) = a.txn.amount
          \/ /\ To(PostedRows, b)' = To(PostedRows, b)
             /\ (IF r.destination = b THEN posted ELSE 0) = 0
      BY <1>1 DEF To, PostedRows
    <3> HIDE DEF posted
    <3> QED
      BY <1>1, <1>2, <1>3, <3>1, <3>2, TotalFiltered
  <2>2. /\ Total(From(PostedRows, b)') =
               Total(From(PostedRows, b)) + (IF r.source = b THEN posted ELSE 0)
        /\ Total(From(PostedRows, b)) \in Int
    <3>1. From(PostedRows, b) \in SUBSET rows
      BY DEF From, PostedRows
    <3>2. \/ /\ From(PostedRows, b)' = From(PostedRows, b) \cup {a}
             /\ (IF r.source = b THEN posted ELSE 0) = a.txn.amount
          \/ /\ From(PostedRows, b)' = From(PostedRows, b)
             /\ (IF r.source = b THEN posted ELSE 0) = 0
      BY <1>1 DEF From, PostedRows
    <3> HIDE DEF posted
    <3> QED
      BY <1>1, <1>2, <1>3, <3>1, <3>2, TotalFiltered
  <2>3. /\ Total(To(HoldRows, b)') =
               Total(To(HoldRows, b)) + (IF r.destination = b THEN hold ELSE 0)
        /\ Total(To(HoldRows, b)) \in Int
    <3>1. To(HoldRows, b) \in SUBSET rows
      BY DEF To, HoldRows
    <3>2. \/ /\ To(HoldRows, b)' = To(HoldRows, b) \cup {a}
             /\ (IF r.destination = b THEN hold ELSE 0) = a.txn.amount
          \/ /\ To(HoldRows, b)' = To(HoldRows, b)
             /\ (IF r.destination = b THEN hold ELSE 0) = 0
      BY <1>1 DEF To, HoldRows
    <3> HIDE DEF hold
    <3> QED
      BY <1>1, <1>2, <1>3, <3>1, <3>2, TotalFiltered
  <2>4. /\ Total(From(HoldRows, b)') =
               Total(From(HoldRows, b)) + (IF r.source = b THEN hold ELSE 0)
        /\ Total(From(HoldRows, b)) \in Int
    <3>1. From(HoldRows, b) \in SUBSET rows
      BY DEF From, HoldRows
    <3>2. \/ /\ From(HoldRows, b)' = From(HoldRows, b) \cup {a}
             /\ (IF r.source = b THEN hold ELSE 0) = a.txn.amount
          \/ /\ From(HoldRows, b)' = From(HoldRows, b)
             /\ (IF r.source = b THEN hold ELSE 0) = 0
      BY <1>1 DEF From, HoldRows
    <3> HIDE DEF hold
    <3> QED
      BY <1>1, <1>2, <1>3, <3>1, <3>2, TotalFiltered
  <2>5. /\ Total(To(ResolvingRows, b)') =
               Total(To(ResolvingRows, b)) + (IF r.destination = b THEN resolved ELSE 0)
        /\ Total(To(ResolvingRows, b)) \in Int
    <3>1. To(ResolvingRows, b) \in SUBSET rows
      BY DEF To, ResolvingRows
    <3>2. \/ /\ To(ResolvingRows, b)' = To(ResolvingRows, b) \cup {a}
             /\ (IF r.destination = b THEN resolved ELSE 0) = a.txn.amount
          \/ /\ To(ResolvingRows, b)' = To(ResolvingRows, b)
             /\ (IF r.destination = b THEN resolved ELSE 0) = 0
      BY <1>1 DEF To, ResolvingRows
    <3> HIDE DEF resolved
    <3> QED
      BY <1>1, <1>2, <1>3, <3>1, <3>2, TotalFiltered
  <2>6. /\ Total(From(ResolvingRows, b)') =
               Total(From(ResolvingRows, b)) + (IF r.source = b THEN resolved ELSE 0)
        /\ Total(From(ResolvingRows, b)) \in Int
    <3>1. From(ResolvingRows, b) \in SUBSET rows
      BY DEF From, ResolvingRows
    <3>2. \/ /\ From(ResolvingRows, b)' = From(ResolvingRows, b) \cup {a}
             /\ (IF r.source = b THEN resolved ELSE 0) = a.txn.amount
          \/ /\ From(ResolvingRows, b)' = From(ResolvingRows, b)
             /\ (IF r.source = b THEN resolved ELSE 0) = 0
      BY <1>1 DEF From, ResolvingRows
    <3> HIDE DEF resolved
    <3> QED
      BY <1>1, <1>2, <1>3, <3>1, <3>2, TotalFiltered
  <2> DEFINE x == balances[b]
  <2>7. /\ x.credit = Total(To(PostedRows, b))
        /\ x.debit = Total(From(PostedRows, b))
        /\ x.inflightCredit = Total(To(HoldRows, b)) - Total(To(ResolvingRows, b))
        /\ x.inflightDebit = Total(From(HoldRows, b)) - Total(From(ResolvingRows, b))
        /\ x = [credit |-> x.credit, debit |-> x.debit,
                inflightCredit |-> x.inflightCredit, inflightDebit |-> x.inflightDebit]
    <3>1. x = [credit |-> Total(To(PostedRows, b)),
               debit |-> Total(From(PostedRows, b)),
               inflightCredit |-> Total(To(HoldRows, b)) - Total(To(ResolvingRows, b)),
               inflightDebit |-> Total(From(HoldRows, b)) - Total(From(ResolvingRows, b))]
      BY DEF MatchInv, BalancesMatchRows
    <3> HIDE DEF x
    <3> QED
      BY <3>1
  <2>8. balances'[b] =
          [credit |-> x.credit + (IF r.destination = b THEN posted ELSE 0),
           debit |-> x.debit + (IF r.source = b THEN posted ELSE 0),
           inflightCredit |-> x.inflightCredit
             + (IF r.destination = b THEN hold ELSE 0)
             - (IF r.destination = b THEN resolved ELSE 0),
           inflightDebit |-> x.inflightDebit
             + (IF r.source = b THEN hold ELSE 0)
             - (IF r.source = b THEN resolved ELSE 0)]
    <3>1. r.source # r.destination
      BY DEF Post
    <3>2. /\ x \in Amounts
          /\ x.credit \in Int /\ x.debit \in Int
          /\ x.inflightCredit \in Int /\ x.inflightDebit \in Int
      BY DEF MatchInv, LedgerTypeOK, Amounts
    <3>3. CASE b = r.source
      <4>1. balances'[b] = Debit(r, x)
        BY <3>3, Posted DEF MatchInv
      <4>2. Debit(r, x) = [credit |-> x.credit, debit |-> x.debit + posted,
                           inflightCredit |-> x.inflightCredit,
                           inflightDebit |-> x.inflightDebit + hold - resolved]
        BY <3>2, PostedAmounts
      <4> HIDE DEF x, posted, hold, resolved
      <4> QED
        BY <3>1, <3>2, <3>3, <4>1, <4>2
    <3>4. CASE b = r.destination
      <4>1. balances'[b] = Credit(r, x)
        BY <3>4, Posted DEF MatchInv
      <4>2. Credit(r, x) = [credit |-> x.credit + posted, debit |-> x.debit,
                            inflightCredit |-> x.inflightCredit + hold - resolved,
                            inflightDebit |-> x.inflightDebit]
        BY <3>2, PostedAmounts
      <4> HIDE DEF x, posted, hold, resolved
      <4> QED
        BY <3>1, <3>2, <3>4, <4>1, <4>2
    <3>5. CASE b \notin {r.source, r.destination}
      <4>1. balances'[b] = x
        BY <3>5, Posted DEF MatchInv
      <4> HIDE DEF x, posted, hold, resolved
      <4> QED
        BY <2>7, <3>2, <3>5, <4>1
    <3> QED
      BY <3>3, <3>4, <3>5
  <2>9. posted \in Int /\ hold \in Int /\ resolved \in Int
    BY <1>2
  <2> HIDE DEF x, posted, hold, resolved
  <2> QED
    BY <2>1, <2>2, <2>3, <2>4, <2>5, <2>6, <2>7, <2>8, <2>9
<1>6. BalancesMatchRows'
  BY <1>5 DEF BalancesMatchRows
<1> QED
  BY <1>3, <1>4, <1>6 DEF MatchInv
\* The balances are what the recorded transactions add up to, for any set of
\* requests: an atomic posting loses nothing and counts nothing twice.
THEOREM LedgerMatchesRows == LedgerSpec => []BalancesMatchRows
<1>1. MatchInv /\ [LedgerNext]_ledgerVars => MatchInv'
  <2> SUFFICES ASSUME MatchInv, [LedgerNext]_ledgerVars PROVE MatchInv'
    OBVIOUS
  <2>1. ASSUME NEW r \in Requests, Post(r) PROVE MatchInv'
    BY <2>1, PostMatches
  <2>2. CASE UNCHANGED ledgerVars
    BY <2>2 DEF MatchInv, LedgerTypeOK, BalancesMatchRows, PostedRows, HoldRows,
       ResolvingRows, ledgerVars
  <2> QED
    BY <2>1, <2>2 DEF LedgerNext
<1>2. MatchInv => BalancesMatchRows
  BY DEF MatchInv
<1> QED
  BY <1>1, <1>2, MatchInit, PTL DEF LedgerSpec

------------------------------------------------------------------------------
\* NewMultiLocker yields one key per distinct balance of the transaction.
LEMMA LockKeysType ==
  ASSUME NEW r \in Requests
  PROVE  /\ Len(LockKeys(r)) \in {1, 2}
         /\ \A i \in 1 .. Len(LockKeys(r)) : LockKeys(r)[i] \in Balances
<1>1. r.source \in Balances /\ r.destination \in Balances
  BY LedgerAssumption DEF Transactions
<1>2. CASE r.source = r.destination
  BY <1>1, <1>2 DEF LockKeys
<1>3. CASE r.source # r.destination /\ r.source < r.destination
  BY <1>1, <1>3 DEF LockKeys
<1>4. CASE r.source # r.destination /\ ~(r.source < r.destination)
  BY <1>1, <1>4 DEF LockKeys
<1>5. QED BY <1>2, <1>3, <1>4

\* The invariant holds before any attempt has started.
LEMMA InitInv == Init => Inv
<1> SUFFICES ASSUME Init PROVE Inv
  OBVIOUS
<1>1. TypeOK
  BY DEF Init, LedgerInit, TypeOK, NewBalance, NoRead, Reads, Amounts, Phases
<1>2. \A w \in Workers : LockPhaseOK(w)
  BY DEF Init, LockPhaseOK, Critical
<1>3. ReadsConsistent
  BY DEF Init, ReadsConsistent, ReadsOK
<1>4. QED BY <1>1, <1>2, <1>3 DEF Inv

\* Worker v takes no part in the step.
Unmoved(v) ==
  /\ pc'[v] = pc[v] /\ req'[v] = req[v] /\ held'[v] = held[v]
  /\ sourceRead'[v] = sourceRead[v] /\ destRead'[v] = destRead[v]

\* A step of one worker that leaves the database alone keeps the invariant if
\* it keeps the types and that worker's own part of it.
LEMMA LocalStep ==
  ASSUME Inv, NEW w \in Workers, UNCHANGED <<ledgerVars, version>>,
         \A v \in Workers \ {w} : Unmoved(v),
         TypeOK', LockPhaseOK(w)', ReadsOK(w)'
  PROVE  Inv'
<1>1. ASSUME NEW v \in Workers PROVE LockPhaseOK(v)'
  <2>1. CASE v = w BY <2>1
  <2>2. CASE v # w BY <2>2 DEF Inv, LockPhaseOK, Unmoved
  <2>3. QED BY <2>1, <2>2
<1>2. ASSUME NEW v \in Workers PROVE ReadsOK(v)'
  <2>1. CASE v = w BY <2>1
  <2>2. CASE v # w
    BY <2>2 DEF Inv, ReadsConsistent, ReadsOK, ReadOK, Unmoved, ledgerVars
  <2>3. QED BY <2>1, <2>2
<1>3. QED BY <1>1, <1>2 DEF Inv, ReadsConsistent

\* What an idle worker has read is a typed read.
LEMMA NoReadType == NoRead \in Reads
BY DEF NoRead, Reads, NewBalance, Amounts

\* An attempt starts without locks and without reads.
LEMMA StartInv ==
  ASSUME Inv, NEW w \in Workers, NEW r \in Requests, Start(w, r)
  PROVE  Inv'
<1>1. TypeOK'
  BY DEF Inv, TypeOK, LockPhaseOK, Start, Goto, ledgerVars, Phases
<1>2. LockPhaseOK(w)'
  <2>1. held[w] = 0 /\ Len(LockKeys(r)) \in {1, 2}
    BY LockKeysType DEF Inv, LockPhaseOK, Start
  <2>2. req'[w] = r /\ held'[w] = held[w] /\ pc'[w] = "acquire"
    BY DEF Inv, TypeOK, Start, Goto
  <2>3. 0 < Len(LockKeys(r))
    BY <2>1
  <2>4. 0 < Len(LockKeys(req'[w]))
    BY <2>2, <2>3
  <2>5. held'[w] = 0
    BY <2>1, <2>2
  <2>6. QED BY <2>2, <2>4, <2>5 DEF LockPhaseOK, Critical
<1>3. ReadsOK(w)'
  BY DEF Inv, TypeOK, LockPhaseOK, ReadsConsistent, ReadsOK, ReadOK, Start, Goto, ledgerVars
<1>4. \A v \in Workers \ {w} : Unmoved(v)
  BY DEF Inv, TypeOK, Unmoved, Start, Goto
<1>5. UNCHANGED <<ledgerVars, version>>
  BY DEF Start
<1>6. QED BY <1>1, <1>2, <1>3, <1>4, <1>5, LocalStep

\* A SETNX counts one more key and at the last one enters the critical phases.
LEMMA AcquireKeyInv ==
  ASSUME Inv, NEW w \in Workers, AcquireKey(w)
  PROVE  Inv'
<1>a. req[w] \in Requests /\ held[w] \in 0 .. 2 /\ held[w] < Len(LockKeys(req[w]))
  BY DEF Inv, TypeOK, LockPhaseOK, AcquireKey
<1>b. Len(LockKeys(req[w])) \in {1, 2}
  BY <1>a, LockKeysType
<1>c. /\ req'[w] = req[w] /\ held'[w] = held[w] + 1
      /\ pc'[w] = IF held[w] + 1 = Len(LockKeys(req[w])) THEN "hooks" ELSE "acquire"
  BY DEF Inv, TypeOK, AcquireKey, Goto
<1>1. TypeOK'
  <2>1. held' \in [Workers -> 0 .. 2]
    BY <1>a, <1>b DEF Inv, TypeOK, AcquireKey
  <2>2. QED
    BY <2>1 DEF Inv, TypeOK, AcquireKey, Goto, ledgerVars, Phases
<1>2. LockPhaseOK(w)'
  BY <1>a, <1>b, <1>c DEF LockPhaseOK, Critical
<1>3. ReadsOK(w)'
  BY DEF Inv, TypeOK, LockPhaseOK, ReadsConsistent, ReadsOK, ReadOK, AcquireKey, Goto, ledgerVars
<1>4. \A v \in Workers \ {w} : Unmoved(v)
  BY DEF Inv, TypeOK, Unmoved, AcquireKey, Goto
<1>5. UNCHANGED <<ledgerVars, version>>
  BY DEF AcquireKey
<1>6. QED BY <1>1, <1>2, <1>3, <1>4, <1>5, LocalStep

\* A taken key sends the attempt to its rollback with the locks it has.
LEMMA AcquireFailsInv ==
  ASSUME Inv, NEW w \in Workers, AcquireFails(w)
  PROVE  Inv'
<1>1. TypeOK'
  BY DEF Inv, TypeOK, LockPhaseOK, AcquireFails, Goto, ledgerVars, Phases
<1>2. LockPhaseOK(w)'
  BY LockKeysType DEF Inv, TypeOK, LockPhaseOK, AcquireFails, Goto, Critical
<1>3. ReadsOK(w)'
  BY DEF Inv, TypeOK, LockPhaseOK, ReadsConsistent, ReadsOK, ReadOK, AcquireFails, Goto, ledgerVars
<1>4. \A v \in Workers \ {w} : Unmoved(v)
  BY DEF Inv, TypeOK, Unmoved, AcquireFails, Goto
<1>5. UNCHANGED <<ledgerVars, version>>
  BY DEF AcquireFails
<1>6. QED BY <1>1, <1>2, <1>3, <1>4, <1>5, LocalStep

\* The rollback gives up one key at a time.
LEMMA RollbackKeyInv ==
  ASSUME Inv, NEW w \in Workers, RollbackKey(w)
  PROVE  Inv'
<1>1. TypeOK'
  BY LockKeysType DEF Inv, TypeOK, LockPhaseOK, RollbackKey, Unlock, ledgerVars, Phases
<1>2. LockPhaseOK(w)'
  BY LockKeysType DEF Inv, TypeOK, LockPhaseOK, RollbackKey, Unlock, Critical
<1>3. ReadsOK(w)'
  BY DEF Inv, TypeOK, LockPhaseOK, ReadsConsistent, ReadsOK, ReadOK, RollbackKey, Unlock, ledgerVars
<1>4. \A v \in Workers \ {w} : Unmoved(v)
  BY DEF Inv, TypeOK, Unmoved, RollbackKey, Unlock
<1>5. UNCHANGED <<ledgerVars, version>>
  BY DEF RollbackKey
<1>6. QED BY <1>1, <1>2, <1>3, <1>4, <1>5, LocalStep

\* WaitLock starts over with no lock taken.
LEMMA WaitAndRetryInv ==
  ASSUME Inv, NEW w \in Workers, WaitAndRetry(w)
  PROVE  Inv'
<1>1. TypeOK'
  BY DEF Inv, TypeOK, LockPhaseOK, WaitAndRetry, Goto, ledgerVars, Phases
<1>2. LockPhaseOK(w)'
  BY LockKeysType DEF Inv, TypeOK, LockPhaseOK, WaitAndRetry, Goto, Critical
<1>3. ReadsOK(w)'
  BY DEF Inv, TypeOK, LockPhaseOK, ReadsConsistent, ReadsOK, ReadOK, WaitAndRetry, Goto, ledgerVars
<1>4. \A v \in Workers \ {w} : Unmoved(v)
  BY DEF Inv, TypeOK, Unmoved, WaitAndRetry, Goto
<1>5. UNCHANGED <<ledgerVars, version>>
  BY DEF WaitAndRetry
<1>6. QED BY <1>1, <1>2, <1>3, <1>4, <1>5, LocalStep

\* A lock timeout ends the attempt.
LEMMA LockTimeoutInv ==
  ASSUME Inv, NEW w \in Workers, LockTimeout(w)
  PROVE  Inv'
<1>1. TypeOK'
  BY NoReadType DEF Inv, TypeOK, LockPhaseOK, LockTimeout, Forget, Goto, ledgerVars, Phases
<1>2. LockPhaseOK(w)'
  BY LockKeysType DEF Inv, TypeOK, LockPhaseOK, LockTimeout, Forget, Goto, Critical
<1>3. ReadsOK(w)'
  BY DEF Inv, TypeOK, LockPhaseOK, ReadsConsistent, ReadsOK, ReadOK, LockTimeout, Forget, Goto, ledgerVars
<1>4. \A v \in Workers \ {w} : Unmoved(v)
  BY DEF Inv, TypeOK, Unmoved, LockTimeout, Forget, Goto
<1>5. UNCHANGED <<ledgerVars, version>>
  BY DEF LockTimeout
<1>6. QED BY <1>1, <1>2, <1>3, <1>4, <1>5, LocalStep

\* The hooks touch neither balances nor reads.
LEMMA ExecutePreHooksInv ==
  ASSUME Inv, NEW w \in Workers, ExecutePreHooks(w)
  PROVE  Inv'
<1>1. TypeOK'
  BY DEF Inv, TypeOK, LockPhaseOK, ExecutePreHooks, Goto, ledgerVars, Phases
<1>2. LockPhaseOK(w)'
  <2>1. req[w] \in Requests /\ held[w] = Len(LockKeys(req[w]))
    BY DEF Inv, LockPhaseOK, Critical, ExecutePreHooks
  <2>2. Len(LockKeys(req[w])) \in {1, 2}
    BY <2>1, LockKeysType
  <2>3. /\ req'[w] = req[w] /\ held'[w] = held[w]
        /\ pc'[w] \in {"validate", "release"}
    BY DEF Inv, TypeOK, ExecutePreHooks, Goto
  <2>4. Len(LockKeys(req[w])) \in 1 .. Len(LockKeys(req[w]))
    BY SMTT(30), <2>2
  <2>5. held'[w] = Len(LockKeys(req'[w]))
    BY <2>1, <2>3
  <2>6. held'[w] \in 1 .. Len(LockKeys(req'[w]))
    BY <2>1, <2>3, <2>4
  <2>7. QED BY <2>1, <2>3, <2>5, <2>6 DEF LockPhaseOK, Critical
<1>3. ReadsOK(w)'
  BY DEF Inv, TypeOK, LockPhaseOK, ReadsConsistent, ReadsOK, ReadOK, ExecutePreHooks, Goto, ledgerVars
<1>4. \A v \in Workers \ {w} : Unmoved(v)
  BY DEF Inv, TypeOK, Unmoved, ExecutePreHooks, Goto
<1>5. UNCHANGED <<ledgerVars, version>>
  BY DEF ExecutePreHooks
<1>6. QED BY <1>1, <1>2, <1>3, <1>4, <1>5, LocalStep

\* The reference check touches neither balances nor reads.
LEMMA ValidateTxnInv ==
  ASSUME Inv, NEW w \in Workers, ValidateTxn(w)
  PROVE  Inv'
<1>1. TypeOK'
  BY DEF Inv, TypeOK, LockPhaseOK, ValidateTxn, Goto, ledgerVars, Phases
<1>2. LockPhaseOK(w)'
  <2>1. req[w] \in Requests /\ held[w] = Len(LockKeys(req[w]))
    BY DEF Inv, LockPhaseOK, Critical, ValidateTxn
  <2>2. Len(LockKeys(req[w])) \in {1, 2}
    BY <2>1, LockKeysType
  <2>3. /\ req'[w] = req[w] /\ held'[w] = held[w]
        /\ pc'[w] \in {"readSource", "release"}
    BY DEF Inv, TypeOK, ValidateTxn, Goto
  <2>4. Len(LockKeys(req[w])) \in 1 .. Len(LockKeys(req[w]))
    BY <2>2
  <2>5. held'[w] = Len(LockKeys(req'[w]))
    BY <2>1, <2>3
  <2>6. held'[w] \in 1 .. Len(LockKeys(req'[w]))
    BY <2>1, <2>3, <2>4
  <2>7. QED BY <2>1, <2>3, <2>5, <2>6 DEF LockPhaseOK, Critical
<1>3. ReadsOK(w)'
  BY DEF Inv, TypeOK, LockPhaseOK, ReadsConsistent, ReadsOK, ReadOK, ValidateTxn, Goto, ledgerVars
<1>4. \A v \in Workers \ {w} : Unmoved(v)
  BY DEF Inv, TypeOK, Unmoved, ValidateTxn, Goto
<1>5. UNCHANGED <<ledgerVars, version>>
  BY DEF ValidateTxn
<1>6. QED BY <1>1, <1>2, <1>3, <1>4, <1>5, LocalStep

\* The source is read together with its version.
LEMMA ReadSourceInv ==
  ASSUME Inv, NEW w \in Workers, ReadSource(w)
  PROVE  Inv'
<1>1. TypeOK'
  BY LedgerAssumption DEF Inv, TypeOK, LockPhaseOK, ReadSource, Goto, ledgerVars, Phases, Reads, Transactions, Critical
<1>2. LockPhaseOK(w)'
  BY LockKeysType DEF Inv, TypeOK, LockPhaseOK, ReadSource, Goto, Critical
<1>3. ReadsOK(w)'
  <2>1. req[w].source \in Balances
    BY LedgerAssumption DEF Inv, LockPhaseOK, ReadSource, Transactions
  <2>2. /\ sourceRead'[w] = [amounts |-> balances[req[w].source],
                           version |-> version[req[w].source]]
        /\ pc'[w] = "readDestination" /\ req'[w] = req[w]
        /\ balances' = balances /\ version' = version
    BY DEF Inv, TypeOK, ReadSource, Goto, ledgerVars, ReadsConsistent, ReadsOK
  <2>3. ReadOK(sourceRead'[w], req[w].source)
    BY <2>1, <2>2 DEF ReadOK, Inv, TypeOK
  <2>4. QED BY <2>2, <2>3 DEF ReadsOK, ReadOK
<1>4. \A v \in Workers \ {w} : Unmoved(v)
  BY DEF Inv, TypeOK, Unmoved, ReadSource, Goto
<1>5. UNCHANGED <<ledgerVars, version>>
  BY DEF ReadSource
<1>6. QED BY <1>1, <1>2, <1>3, <1>4, <1>5, LocalStep

\* The destination is read later than the source, with its own version.
LEMMA ReadDestinationInv ==
  ASSUME Inv, NEW w \in Workers, ReadDestination(w)
  PROVE  Inv'
<1>1. TypeOK'
  BY LedgerAssumption DEF Inv, TypeOK, LockPhaseOK, ReadDestination, Goto, ledgerVars, Phases, Reads, Transactions, Critical
<1>2. LockPhaseOK(w)'
  BY LockKeysType DEF Inv, TypeOK, LockPhaseOK, ReadDestination, Goto, Critical
<1>3. ReadsOK(w)'
  <2>1. req[w].destination \in Balances
    BY LedgerAssumption DEF Inv, LockPhaseOK, ReadDestination, Transactions
  <2>2. /\ destRead'[w] = [amounts |-> balances[req[w].destination],
                           version |-> version[req[w].destination]]
        /\ pc'[w] = "apply" /\ req'[w] = req[w]
        /\ balances' = balances /\ version' = version
        /\ ReadOK(sourceRead[w], req[w].source) /\ sourceRead'[w] = sourceRead[w]
    BY DEF Inv, TypeOK, ReadDestination, Goto, ledgerVars, ReadsConsistent, ReadsOK
  <2>3. ReadOK(destRead'[w], req[w].destination)
    BY <2>1, <2>2 DEF ReadOK, Inv, TypeOK
  <2>4. QED BY <2>2, <2>3 DEF ReadsOK, ReadOK
<1>4. \A v \in Workers \ {w} : Unmoved(v)
  BY DEF Inv, TypeOK, Unmoved, ReadDestination, Goto
<1>5. UNCHANGED <<ledgerVars, version>>
  BY DEF ReadDestination
<1>6. QED BY <1>1, <1>2, <1>3, <1>4, <1>5, LocalStep

\* Only an applicable transaction goes on to its SQL transaction.
LEMMA ProcessBalancesInv ==
  ASSUME Inv, NEW w \in Workers, ProcessBalances(w)
  PROVE  Inv'
<1>1. TypeOK'
  BY DEF Inv, TypeOK, LockPhaseOK, ProcessBalances, Goto, ledgerVars, Phases
<1>2. LockPhaseOK(w)'
  <2>1. req[w] \in Requests /\ held[w] = Len(LockKeys(req[w]))
    BY DEF Inv, LockPhaseOK, Critical, ProcessBalances
  <2>2. Len(LockKeys(req[w])) \in {1, 2}
    BY <2>1, LockKeysType
  <2>3. /\ req'[w] = req[w] /\ held'[w] = held[w]
        /\ pc'[w] \in {"persist", "release"}
    BY DEF Inv, TypeOK, ProcessBalances, Goto
  <2>4. Len(LockKeys(req[w])) \in 1 .. Len(LockKeys(req[w]))
    BY <2>2
  <2>5. held'[w] = Len(LockKeys(req'[w]))
    BY <2>1, <2>3
  <2>6. held'[w] \in 1 .. Len(LockKeys(req'[w]))
    BY <2>1, <2>3, <2>4
  <2>7. QED BY <2>1, <2>3, <2>5, <2>6 DEF LockPhaseOK, Critical
<1>3. ReadsOK(w)'
  BY DEF Inv, TypeOK, LockPhaseOK, ReadsConsistent, ReadsOK, ReadOK, ProcessBalances, Goto, ledgerVars
<1>4. \A v \in Workers \ {w} : Unmoved(v)
  BY DEF Inv, TypeOK, Unmoved, ProcessBalances, Goto
<1>5. UNCHANGED <<ledgerVars, version>>
  BY DEF ProcessBalances
<1>6. QED BY <1>1, <1>2, <1>3, <1>4, <1>5, LocalStep

\* A rolled back SQL transaction changes nothing.
LEMMA PersistFailsInv ==
  ASSUME Inv, NEW w \in Workers, PersistFails(w)
  PROVE  Inv'
<1>1. TypeOK'
  BY DEF Inv, TypeOK, LockPhaseOK, PersistFails, Goto, ledgerVars, Phases
<1>2. LockPhaseOK(w)'
  <2>1. req[w] \in Requests /\ held[w] = Len(LockKeys(req[w]))
    BY DEF Inv, LockPhaseOK, Critical, PersistFails
  <2>2. Len(LockKeys(req[w])) \in {1, 2}
    BY <2>1, LockKeysType
  <2>3. /\ req'[w] = req[w] /\ held'[w] = held[w]
        /\ pc'[w] \in {"release"}
    BY DEF Inv, TypeOK, PersistFails, Goto
  <2>4. Len(LockKeys(req[w])) \in 1 .. Len(LockKeys(req[w]))
    BY <2>2
  <2>5. held'[w] = Len(LockKeys(req'[w]))
    BY <2>1, <2>3
  <2>6. held'[w] \in 1 .. Len(LockKeys(req'[w]))
    BY <2>1, <2>3, <2>4
  <2>7. QED BY <2>1, <2>3, <2>5, <2>6 DEF LockPhaseOK, Critical
<1>3. ReadsOK(w)'
  BY DEF Inv, TypeOK, LockPhaseOK, ReadsConsistent, ReadsOK, ReadOK, PersistFails, Goto, ledgerVars
<1>4. \A v \in Workers \ {w} : Unmoved(v)
  BY DEF Inv, TypeOK, Unmoved, PersistFails, Goto
<1>5. UNCHANGED <<ledgerVars, version>>
  BY DEF PersistFails
<1>6. QED BY <1>1, <1>2, <1>3, <1>4, <1>5, LocalStep

\* The release gives up one key at a time and then ends the attempt.
LEMMA ReleaseKeyInv ==
  ASSUME Inv, NEW w \in Workers, ReleaseKey(w)
  PROVE  Inv'
<1>1. TypeOK'
  <2>1. held[w] \in 1 .. 2
    BY LockKeysType DEF Inv, TypeOK, LockPhaseOK, ReleaseKey
  <2>2. /\ lock' \in [Balances -> Workers \cup {Free, Orphan}]
        /\ balances' = balances /\ rows' = rows /\ version' = version
        /\ attempts' = attempts
    BY DEF Inv, TypeOK, ReleaseKey, Unlock, ledgerVars
  <2>3. CASE held[w] = 1
    BY <2>2, <2>3, NoReadType DEF Inv, TypeOK, ReleaseKey, Forget, Goto, Phases
  <2>4. CASE held[w] = 2
    BY <2>2, <2>4 DEF Inv, TypeOK, ReleaseKey
  <2>5. QED BY <2>1, <2>3, <2>4
<1>2. LockPhaseOK(w)'
  BY LockKeysType DEF Inv, TypeOK, LockPhaseOK, ReleaseKey, Unlock, Forget, Goto, Critical
<1>3. ReadsOK(w)'
  BY DEF Inv, TypeOK, LockPhaseOK, ReadsConsistent, ReadsOK, ReadOK, ReleaseKey, Unlock, Forget, Goto, ledgerVars
<1>4. \A v \in Workers \ {w} : Unmoved(v)
  BY DEF Inv, TypeOK, Unmoved, ReleaseKey, Unlock, Forget, Goto
<1>5. UNCHANGED <<ledgerVars, version>>
  BY DEF ReleaseKey
<1>6. QED BY <1>1, <1>2, <1>3, <1>4, <1>5, LocalStep

\* A crash forgets the attempt and orphans its locks.
LEMMA CrashInv ==
  ASSUME Inv, NEW w \in Workers, Crash(w)
  PROVE  Inv'
<1>1. TypeOK'
  BY NoReadType DEF Inv, TypeOK, LockPhaseOK, Crash, Forget, Goto, ledgerVars, Phases
<1>2. LockPhaseOK(w)'
  BY LockKeysType DEF Inv, TypeOK, LockPhaseOK, Crash, Forget, Goto, Critical
<1>3. ReadsOK(w)'
  BY DEF Inv, TypeOK, LockPhaseOK, ReadsConsistent, ReadsOK, ReadOK, Crash, Forget, Goto, ledgerVars
<1>4. \A v \in Workers \ {w} : Unmoved(v)
  BY DEF Inv, TypeOK, Unmoved, Crash, Forget, Goto
<1>5. UNCHANGED <<ledgerVars, version>>
  BY DEF Crash
<1>6. QED BY <1>1, <1>2, <1>3, <1>4, <1>5, LocalStep

\* An expiry changes the locks only, on which no read depends.
LEMMA ExpireLockInv ==
  ASSUME Inv, NEW k \in Balances, ExpireLock(k)
  PROVE  Inv'
<1>1. TypeOK'
  BY DEF Inv, TypeOK, ExpireLock, ledgerVars, workerVars
<1>2. \A w \in Workers : LockPhaseOK(w)'
  BY DEF Inv, LockPhaseOK, ExpireLock, workerVars
<1>3. ReadsConsistent'
  BY DEF Inv, ReadsConsistent, ReadsOK, ReadOK, ExpireLock, workerVars, ledgerVars
<1>4. QED BY <1>1, <1>2, <1>3 DEF Inv

\* The SQL transaction writes the balances that were read at the versions they
\* still have, so it posts the request to the current balances.
LEMMA PersistPosts ==
  ASSUME Inv, NEW w \in Workers, Persist(w)
  PROVE  req[w] \in Requests /\ Post(req[w])
<1>1. req[w] \in Requests
  BY DEF Inv, LockPhaseOK, Persist
<1>2. req[w].source \in Balances /\ req[w].destination \in Balances
  BY <1>1, LedgerAssumption DEF Transactions
<1>3. /\ sourceRead[w].amounts = balances[req[w].source]
      /\ destRead[w].amounts = balances[req[w].destination]
  BY DEF Inv, ReadsConsistent, ReadsOK, ReadOK, Persist, VersionsMatch
<1>4. Applicable(req[w], balances[req[w].source], balances[req[w].destination], 0)
  BY <1>3 DEF Inv, ReadsConsistent, ReadsOK, Persist
<1>5. balances' = [balances EXCEPT
                     ![req[w].source] = Debit(req[w], @),
                     ![req[w].destination] = Credit(req[w], @)]
  BY <1>2, <1>3 DEF Inv, TypeOK, Persist, VersionsMatch
<1>6. QED BY <1>1, <1>4, <1>5 DEF Post, Persist, VersionsMatch, ReferenceFree

\* The versions of both balances rise, so the reads of the others become old.
LEMMA PersistInv ==
  ASSUME Inv, NEW w \in Workers, Persist(w)
  PROVE  Inv'
<1> DEFINE r == req[w]
<1>1. r \in Requests /\ r.source \in Balances /\ r.destination \in Balances
  BY LedgerAssumption DEF Inv, LockPhaseOK, Persist, Transactions
<1>2. /\ sourceRead[w].amounts \in Amounts /\ destRead[w].amounts \in Amounts
  BY DEF Inv, TypeOK, Reads
<1>3. TypeOK'
  <2>1. balances' \in [Balances -> Amounts]
    BY <1>1, <1>2, MathType DEF Inv, TypeOK, Persist
  <2>2. rows' \subseteq {Row(q) : q \in Requests}
    BY <1>1 DEF Inv, TypeOK, Persist
  <2>3. version' \in [Balances -> Nat]
    BY <1>1 DEF Inv, TypeOK, Persist
  <2>4. QED
    BY <2>1, <2>2, <2>3 DEF Inv, TypeOK, Persist, Goto, Phases
<1>4. ASSUME NEW v \in Workers PROVE LockPhaseOK(v)'
  <2>1. CASE v # w
    BY <2>1 DEF Inv, TypeOK, LockPhaseOK, Persist, Goto
  <2>2. CASE v = w
    <3>1. held[w] = Len(LockKeys(r)) /\ Len(LockKeys(r)) \in {1, 2}
      BY <1>1, LockKeysType DEF Inv, LockPhaseOK, Critical, Persist
    <3>2. held' = held /\ req' = req /\ pc'[w] = "release"
      BY DEF Inv, TypeOK, Persist, Goto
    <3>3. held[w] \in 1 .. Len(LockKeys(r))
      BY SMTT(30), <3>1
    <3>4. QED BY <1>1, <2>2, <3>2, <3>3 DEF LockPhaseOK, Critical
  <2>3. QED BY <2>1, <2>2
<1>5. ASSUME NEW v \in Workers PROVE ReadsOK(v)'
  <2>1. CASE v = w
    BY <2>1 DEF Inv, TypeOK, ReadsOK, Persist, Goto
  <2>2. CASE v # w
    <3>1. /\ pc'[v] = pc[v] /\ req'[v] = req[v]
          /\ sourceRead'[v] = sourceRead[v] /\ destRead'[v] = destRead[v]
      BY <2>2 DEF Inv, TypeOK, Persist, Goto
    <3>2. ASSUME NEW b \in Balances, NEW read \in Reads, ReadOK(read, b)
          PROVE  ReadOK(read, b)'
      <4>1. CASE b \in {r.source, r.destination}
        <5>1. version'[b] = version[b] + 1
          BY <1>1, <4>1 DEF Inv, TypeOK, Persist, VersionsMatch
        <5>2. version[b] \in Nat /\ read.version \in Nat
          BY <3>2 DEF Inv, TypeOK, Reads
        <5>3. QED BY <3>2, <5>1, <5>2 DEF ReadOK
      <4>2. CASE b \notin {r.source, r.destination}
        <5>1. version'[b] = version[b] /\ balances'[b] = balances[b]
          BY <1>1, <4>2 DEF Inv, TypeOK, Persist
        <5>2. QED BY <3>2, <5>1 DEF ReadOK
      <4>3. QED BY <4>1, <4>2
    <3>3. sourceRead[v] \in Reads /\ destRead[v] \in Reads
      BY DEF Inv, TypeOK
    <3>4. pc[v] # "idle" => req[v].source \in Balances /\ req[v].destination \in Balances
      BY LedgerAssumption DEF Inv, LockPhaseOK, Transactions
    <3>5. QED BY <3>1, <3>2, <3>3, <3>4 DEF Inv, ReadsConsistent, ReadsOK
  <2>3. QED BY <2>1, <2>2
<1>6. QED BY <1>3, <1>4, <1>5 DEF Inv, ReadsConsistent

\* Every step keeps the invariant.
LEMMA NextInv == Inv /\ [Next]_vars => Inv'
<1> SUFFICES ASSUME Inv, [Next]_vars PROVE Inv'
  OBVIOUS
<1>1. ASSUME NEW w \in Workers, NEW r \in Requests, Start(w, r) PROVE Inv'
  BY <1>1, StartInv
<1>2. ASSUME NEW w \in Workers, AcquireStep(w) PROVE Inv'
  BY <1>2, AcquireKeyInv, AcquireFailsInv, RollbackKeyInv, WaitAndRetryInv,
     LockTimeoutInv DEF AcquireStep
<1>3. ASSUME NEW w \in Workers, CriticalStep(w) PROVE Inv'
  BY <1>3, ExecutePreHooksInv, ValidateTxnInv, ReadSourceInv, ReadDestinationInv,
     ProcessBalancesInv, PersistInv, PersistFailsInv DEF CriticalStep
<1>4. ASSUME NEW w \in Workers, ReleaseKey(w) PROVE Inv'
  BY <1>4, ReleaseKeyInv
<1>5. ASSUME NEW w \in Workers, Crash(w) PROVE Inv'
  BY <1>5, CrashInv
<1>6. ASSUME NEW k \in Balances, ExpireLock(k) PROVE Inv'
  BY <1>6, ExpireLockInv
<1>7. CASE UNCHANGED vars
  BY <1>7 DEF Inv, TypeOK, LockPhaseOK, ReadsConsistent, ReadsOK, ReadOK, vars,
     workerVars
<1>8. QED
  BY <1>1, <1>2, <1>3, <1>4, <1>5, <1>6, <1>7 DEF Next, Working, WorkerStep

\* The types, the lock bookkeeping of every attempt and the link between
\* versions and amounts hold in every state, for any number of workers.
THEOREM InvHolds == Spec => []Inv
BY InitInv, NextInv, PTL DEF Spec

\* Every reachable state of Execution is well typed.
THEOREM TypeCorrect == Spec => []TypeOK
<1>1. Inv => TypeOK
  BY DEF Inv
<1>2. QED BY <1>1, InvHolds, PTL

\* A balance that still has the version a worker read has the amounts it read:
\* the version check of updateBalance catches every intervening write.
THEOREM ReadsAreConsistent == Spec => []ReadsConsistent
<1>1. Inv => ReadsConsistent
  BY DEF Inv
<1>2. QED BY <1>1, InvHolds, PTL

------------------------------------------------------------------------------
\* Every step is a posting of the atomic ledger or a stutter.
LEMMA NextRefines == Inv /\ [Next]_vars => [LedgerNext]_ledgerVars
<1> SUFFICES ASSUME Inv, [Next]_vars PROVE LedgerNext \/ UNCHANGED ledgerVars
  BY DEF ledgerVars
<1>1. ASSUME NEW w \in Workers, Persist(w) PROVE LedgerNext
  BY <1>1, PersistPosts DEF LedgerNext
<1>2. ASSUME NEW w \in Workers, WorkerStep(w), ~Persist(w) PROVE UNCHANGED ledgerVars
  BY <1>2 DEF WorkerStep, AcquireStep, CriticalStep, AcquireKey, AcquireFails,
     RollbackKey, WaitAndRetry, LockTimeout, ExecutePreHooks, ValidateTxn,
     ReadSource, ReadDestination, ProcessBalances, PersistFails, ReleaseKey
<1>3. ASSUME NEW w \in Workers, NEW r \in Requests, Start(w, r)
      PROVE UNCHANGED ledgerVars
  BY <1>3 DEF Start
<1>4. ASSUME NEW w \in Workers, Crash(w) PROVE UNCHANGED ledgerVars
  BY <1>4 DEF Crash
<1>5. ASSUME NEW k \in Balances, ExpireLock(k) PROVE UNCHANGED ledgerVars
  BY <1>5 DEF ExpireLock
<1>6. CASE UNCHANGED vars
  BY <1>6 DEF vars, ledgerVars
<1>7. QED
  BY <1>1, <1>2, <1>3, <1>4, <1>5, <1>6 DEF Next, Working

\* Execution implements the atomic ledger: whatever the locks do, each recorded
\* transaction takes effect on the balances of that instant, once per reference.
THEOREM Refinement == Spec => LedgerRefinement
<1>1. Init => LedgerInit
  BY DEF Init
<1>2. QED
  BY <1>1, NextRefines, InvHolds, PTL DEF Spec, LedgerSpec, LedgerRefinement

\* No schedule of workers, lock expiries, crashes and retries takes a balance
\* below what its transactions' overdraft settings allow.
THEOREM ExecutionNeverOverdraws == Spec => []NoUnauthorisedOverdraft
BY Refinement, NoOverdraft, PTL DEF LedgerRefinement

\* No such schedule lets the holds of a balance become negative.
THEOREM ExecutionKeepsHolds == Spec => []HoldsNeverNegative
BY Refinement, HoldsStayNonNegative, PTL DEF LedgerRefinement

\* Lost updates are impossible: whatever locks expire and whatever workers
\* crash, the balances are what the recorded transactions add up to.
THEOREM BalancesAlwaysMatch == Spec => []BalancesMatchRows
BY Refinement, LedgerMatchesRows, PTL DEF LedgerRefinement

------------------------------------------------------------------------------
\* An attempt's keys are its two balances, each once.
LEMMA LockKeysCover ==
  ASSUME NEW r \in Requests
  PROVE  /\ \A i, j \in 1 .. Len(LockKeys(r)) : LockKeys(r)[i] = LockKeys(r)[j] => i = j
         /\ \E i \in 1 .. Len(LockKeys(r)) : LockKeys(r)[i] = r.source
         /\ \E i \in 1 .. Len(LockKeys(r)) : LockKeys(r)[i] = r.destination
<1>1. r.source \in Nat /\ r.destination \in Nat
  BY LedgerAssumption DEF Transactions
<1>2. CASE r.source = r.destination
  <2>1. LockKeys(r) = <<r.source>>
    BY <1>2 DEF LockKeys
  <2> QED
    BY <1>2, <2>1
<1>3. ASSUME NEW a \in Nat, NEW b \in Nat, a # b, LockKeys(r) = <<a, b>>
      PROVE  /\ \A i, j \in 1 .. Len(LockKeys(r)) :
                  LockKeys(r)[i] = LockKeys(r)[j] => i = j
             /\ \E i \in 1 .. Len(LockKeys(r)) : LockKeys(r)[i] = a
             /\ \E i \in 1 .. Len(LockKeys(r)) : LockKeys(r)[i] = b
  <2>1. /\ Len(LockKeys(r)) = 2 /\ LockKeys(r)[1] = a /\ LockKeys(r)[2] = b
        /\ 1 .. 2 = {1, 2}
    BY <1>3
  <2>2. \A i, j \in {1, 2} : LockKeys(r)[i] = LockKeys(r)[j] => i = j
    BY <1>3, <2>1
  <2> QED
    BY <2>1, <2>2
<1>4. CASE r.source # r.destination
  <2>1. \/ LockKeys(r) = <<r.source, r.destination>>
        \/ LockKeys(r) = <<r.destination, r.source>>
    BY <1>4 DEF LockKeys
  <2> QED
    BY <1>1, <1>3, <1>4, <2>1
<1> QED
  BY <1>2, <1>4

\* A lock is taken from a worker only by that worker's own step or by expiry.
LEMMA UnlockStep ==
  ASSUME Inv, Next, NEW k \in Balances, NEW w \in Workers, lock[k] = w, lock'[k] # w
  PROVE  pc'[w] # pc[w] \/ held'[w] # held[w] \/ UNCHANGED workerVars
<1>1. ASSUME NEW l \in Balances, ExpireLock(l) PROVE UNCHANGED workerVars
  BY <1>1 DEF ExpireLock
<1>2. ASSUME NEW v \in Workers, NEW r \in Requests, Start(v, r) PROVE FALSE
  BY <1>2 DEF Start
<1>3. ASSUME NEW v \in Workers, Crash(v) PROVE pc'[w] # pc[w]
  <2>1. w = v
    BY <1>3 DEF Crash
  <2> QED
    BY <1>3, <2>1 DEF Crash, Forget, Goto, Inv, TypeOK
<1>4. ASSUME NEW v \in Workers, AcquireKey(v) PROVE FALSE
  BY <1>4, ExecutionAssumption DEF AcquireKey, Inv, TypeOK
<1>5. ASSUME NEW v \in Workers, RollbackKey(v) PROVE held'[w] # held[w]
  <2>1. w = v
    BY <1>5 DEF RollbackKey, Unlock, Inv, TypeOK
  <2>2. held' = [held EXCEPT ![v] = held[v] - 1] /\ held[v] \in 0 .. 2
    BY <1>5 DEF RollbackKey, Inv, TypeOK
  <2> QED
    BY <2>1, <2>2 DEF Inv, TypeOK
<1>6. ASSUME NEW v \in Workers, ReleaseKey(v) PROVE pc'[w] # pc[w] \/ held'[w] # held[w]
  <2>1. w = v
    BY <1>6 DEF ReleaseKey, Unlock, Inv, TypeOK
  <2>2. CASE held[v] = 1
    BY <1>6, <2>1, <2>2 DEF ReleaseKey, Forget, Goto, Inv, TypeOK
  <2>3. CASE held[v] # 1
    <3>1. held' = [held EXCEPT ![v] = held[v] - 1] /\ held[v] \in 0 .. 2
      BY <1>6, <2>3 DEF ReleaseKey, Inv, TypeOK
    <3> QED
      BY <2>1, <3>1 DEF Inv, TypeOK
  <2> QED
    BY <2>2, <2>3
<1>7. ASSUME NEW v \in Workers,
             \/ AcquireFails(v) \/ WaitAndRetry(v) \/ LockTimeout(v) \/ CriticalStep(v)
      PROVE  FALSE
  BY <1>7 DEF AcquireFails, WaitAndRetry, LockTimeout, CriticalStep, ExecutePreHooks,
     ValidateTxn, ReadSource, ReadDestination, ProcessBalances, Persist, PersistFails
<1> QED
  BY <1>1, <1>2, <1>3, <1>4, <1>5, <1>6, <1>7
  DEF Next, Working, WorkerStep, AcquireStep

\* A worker that is late never deletes the lock of the next holder: Unlock
\* compares the stored value, for any number of workers and expiries.
THEOREM LateWorkersUnlockNothing == Spec => OnlyHolderUnlocks
<1> DEFINE Own == \A k \in Balances, w \in Workers :
                    (lock[k] = w /\ lock'[k] # w) =>
                       \/ pc'[w] # pc[w] \/ held'[w] # held[w]
                       \/ UNCHANGED workerVars
<1>1. Inv /\ [Next]_vars => [Own]_vars
  BY UnlockStep
<1> QED
  BY <1>1, InvHolds, PTL DEF Spec, OnlyHolderUnlocks

------------------------------------------------------------------------------
\* A worker's keys carry its value as long as it counts them as locked.
KeepsLocks(w) ==
  pc[w] # "idle" => \A i \in 1 .. held[w] : lock[LockKeys(req[w])[i]] = w

\* The inductive invariant of LongTTLSpec.
LongTTLInv ==
  Inv /\ (\A w \in Workers : KeepsLocks(w)) /\ LockedReadsStayCurrent

LongTTLNext == Working \/ \E k \in Balances : ExpireOrphan(k)

\* The keys a worker counts as locked are keys, and its own.
LEMMA LockedKeys ==
  ASSUME LongTTLInv, NEW w \in Workers, pc[w] # "idle"
  PROVE  /\ req[w] \in Requests
         /\ held[w] \in 0 .. Len(LockKeys(req[w]))
         /\ \A i \in 1 .. held[w] : /\ i \in 1 .. Len(LockKeys(req[w]))
                                    /\ LockKeys(req[w])[i] \in Balances
                                    /\ lock[LockKeys(req[w])[i]] = w
<1>1. req[w] \in Requests
  BY DEF LongTTLInv, Inv, LockPhaseOK
<1>2. Len(LockKeys(req[w])) \in {1, 2}
  BY <1>1, LockKeysType
<1>3. held[w] \in 0 .. Len(LockKeys(req[w]))
  <2>1. PICK n \in {1, 2} : n = Len(LockKeys(req[w]))
    BY <1>2
  <2>2. /\ pc[w] \in {"acquire", "rollback"} => held[w] < n
        /\ pc[w] \in Critical => held[w] = n
        /\ pc[w] = "release" => held[w] \in 1 .. n
    BY <2>1 DEF LongTTLInv, Inv, LockPhaseOK
  <2>3. held[w] \in 0 .. 2 /\ pc[w] \in Phases
    BY DEF LongTTLInv, Inv, TypeOK
  <2>4. held[w] \in 0 .. n
    BY <2>2, <2>3 DEF Phases, Critical
  <2> QED
    BY <2>1, <2>4
<1>4. \A i \in 1 .. held[w] : i \in 1 .. Len(LockKeys(req[w]))
  BY <1>2, <1>3
<1> QED
  BY <1>1, <1>3, <1>4, LockKeysType DEF LongTTLInv, KeepsLocks

\* In the critical phases both balances of the attempt are locked.
LEMMA BothLocked ==
  ASSUME LongTTLInv, NEW w \in Workers, pc[w] \in Critical
  PROVE  lock[req[w].source] = w /\ lock[req[w].destination] = w
<1>1. pc[w] # "idle" /\ held[w] = Len(LockKeys(req[w]))
  BY DEF Critical, LongTTLInv, Inv, LockPhaseOK
<1> QED
  BY <1>1, LockedKeys, LockKeysCover

\* A step of worker w keeps the keys of the others when it touches no lock
\* that they hold.
LEMMA OthersKeep ==
  ASSUME LongTTLInv, NEW w \in Workers, NEW v \in Workers \ {w},
         pc'[v] = pc[v], req'[v] = req[v], held'[v] = held[v],
         \A k \in Balances : lock[k] = v => lock'[k] = v
  PROVE  KeepsLocks(v)'
BY LockedKeys DEF KeepsLocks

\* What worker v has read is what the database holds.
ReadsCurrent(v) ==
  /\ pc[v] \in {"readDestination", "apply", "persist"} =>
       sourceRead[v] = [amounts |-> balances[req[v].source],
                        version |-> version[req[v].source]]
  /\ pc[v] \in {"apply", "persist"} =>
       destRead[v] = [amounts |-> balances[req[v].destination],
                      version |-> version[req[v].destination]]

\* Start, waiting, timeouts and hooks: no lock changes hands.
LEMMA QuietLocks ==
  ASSUME LongTTLInv, NEW w \in Workers,
         \/ \E r \in Requests : Start(w, r)
         \/ AcquireFails(w) \/ WaitAndRetry(w) \/ LockTimeout(w) \/ CriticalStep(w)
  PROVE  \A v \in Workers : KeepsLocks(v)'
<1>1. /\ lock' = lock
      /\ \A v \in Workers \ {w} : pc'[v] = pc[v] /\ req'[v] = req[v] /\ held'[v] = held[v]
  BY DEF LongTTLInv, Inv, TypeOK, Start, AcquireFails, WaitAndRetry, LockTimeout,
     CriticalStep, ExecutePreHooks, ValidateTxn, ReadSource, ReadDestination,
     ProcessBalances, Persist, PersistFails, Goto, Forget
<1>2. \A v \in Workers \ {w} : KeepsLocks(v)'
  BY <1>1, OthersKeep
<1>3. KeepsLocks(w)'
  <2>1. CASE \E r \in Requests : Start(w, r)
    <3>1. held'[w] = 0
      BY <2>1 DEF LongTTLInv, Inv, LockPhaseOK, Start
    <3> QED
      BY <3>1 DEF KeepsLocks
  <2>2. CASE LockTimeout(w)
    <3>1. pc'[w] = "idle"
      BY <2>2 DEF LongTTLInv, Inv, TypeOK, LockTimeout, Forget, Goto
    <3> QED
      BY <3>1 DEF KeepsLocks
  <2>3. CASE AcquireFails(w) \/ WaitAndRetry(w) \/ CriticalStep(w)
    <3>1. pc[w] # "idle" /\ req' = req /\ held' = held
      BY <2>3 DEF AcquireFails, WaitAndRetry,
         CriticalStep, ExecutePreHooks, ValidateTxn, ReadSource, ReadDestination,
         ProcessBalances, Persist, PersistFails
    <3> QED
      BY <1>1, <3>1 DEF LongTTLInv, KeepsLocks
  <2> QED
    BY <2>1, <2>2, <2>3
<1> QED
  BY <1>2, <1>3
\* A key that is acquired was nobody's.
LEMMA AcquireKeyLocks ==
  ASSUME LongTTLInv, NEW w \in Workers, AcquireKey(w)
  PROVE  \A v \in Workers : KeepsLocks(v)'
<1> DEFINE keys == LockKeys(req[w])
           k == keys[held[w] + 1]
<1>1. /\ pc[w] = "acquire" /\ lock[k] = Free /\ lock' = [lock EXCEPT ![k] = w]
      /\ held' = [held EXCEPT ![w] = held[w] + 1] /\ req' = req
      /\ \A v \in Workers \ {w} : pc'[v] = pc[v] /\ held'[v] = held[v]
  BY DEF LongTTLInv, Inv, TypeOK, AcquireKey, Goto
<1>2. \A v \in Workers : v # Free
  BY ExecutionAssumption
<1>3. /\ req[w] \in Requests /\ held[w] \in 0 .. Len(keys) /\ held[w] < Len(keys)
      /\ Len(keys) \in {1, 2}
      /\ \A i \in 1 .. held[w] : keys[i] \in Balances /\ lock[keys[i]] = w
  BY <1>1, LockedKeys, LockKeysType DEF LongTTLInv, Inv, LockPhaseOK
<1>4. k \in Balances
  BY <1>3, LockKeysType
<1> HIDE DEF k, keys
<1>5. lock'[k] = w /\ \A l \in Balances : l # k => lock'[l] = lock[l]
  BY <1>1, <1>4 DEF LongTTLInv, Inv, TypeOK
<1>6. ASSUME NEW v \in Workers \ {w} PROVE KeepsLocks(v)'
  BY <1>1, <1>2, <1>5, OthersKeep
<1>7. held'[w] = held[w] + 1
  BY <1>1 DEF LongTTLInv, Inv, TypeOK
<1>8. \A i \in 1 .. held[w] + 1 : lock'[keys[i]] = w
  <2>1. \A i \in 1 .. held[w] : lock'[keys[i]] = w
    BY <1>2, <1>3, <1>5, <1>1
  <2>2. lock'[keys[held[w] + 1]] = w
    BY <1>5 DEF k
  <2>3. \A i \in 1 .. held[w] + 1 : i \in 1 .. held[w] \/ i = held[w] + 1
    BY <1>3
  <2> QED
    BY <2>1, <2>2, <2>3
<1>9. KeepsLocks(w)'
  BY <1>1, <1>7, <1>8 DEF KeepsLocks, keys
<1> QED
  BY <1>6, <1>9

\* The key that is given back is the last one locked; the others stay.
LEMMA UnlockLocks ==
  ASSUME LongTTLInv, NEW w \in Workers, pc[w] # "idle", held[w] > 0,
         Unlock(w, LockKeys(req[w])[held[w]]),
         pc'[w] = "idle" \/ (req'[w] = req[w] /\ held'[w] = held[w] - 1),
         \A v \in Workers \ {w} : pc'[v] = pc[v] /\ req'[v] = req[v] /\ held'[v] = held[v]
  PROVE  \A v \in Workers : KeepsLocks(v)'
<1> DEFINE keys == LockKeys(req[w])
           k == keys[held[w]]
<1>1. lock' = [lock EXCEPT ![k] = IF lock[k] = w THEN Free ELSE lock[k]]
  BY DEF Unlock
<1>2. /\ req[w] \in Requests /\ held[w] \in 0 .. Len(keys)
      /\ \A i \in 1 .. held[w] : /\ i \in 1 .. Len(keys)
                                 /\ keys[i] \in Balances
                                 /\ lock[keys[i]] = w
  BY LockedKeys
<1>3. /\ \A i, j \in 1 .. Len(keys) : keys[i] = keys[j] => i = j
      /\ Len(keys) \in {1, 2}
  BY <1>2, LockKeysCover, LockKeysType
<1>4. held[w] \in 1 .. held[w] /\ k \in Balances /\ lock[k] = w
  BY <1>2, <1>3
<1> HIDE DEF keys
<1>5. \A l \in Balances : l # k => lock'[l] = lock[l]
  BY <1>1, <1>4 DEF LongTTLInv, Inv, TypeOK
<1>6. ASSUME NEW v \in Workers \ {w} PROVE KeepsLocks(v)'
  <2>1. \A l \in Balances : lock[l] = v => lock'[l] = v
    BY <1>4, <1>5
  <2> QED
    BY <2>1, OthersKeep
<1>7. CASE pc'[w] = "idle"
  BY <1>6, <1>7 DEF KeepsLocks
<1>8. CASE req'[w] = req[w] /\ held'[w] = held[w] - 1
  <2>1. \A i \in 1 .. held[w] - 1 : i \in 1 .. held[w] /\ i # held[w]
    BY <1>2, <1>3
  <2>2. \A i \in 1 .. held[w] - 1 : keys[i] # k /\ keys[i] \in Balances /\ lock[keys[i]] = w
    BY <1>2, <1>3, <1>4, <2>1
  <2>3. \A i \in 1 .. held[w] - 1 : lock'[keys[i]] = w
    BY <1>5, <2>2
  <2>4. KeepsLocks(w)'
    BY <1>8, <2>3 DEF KeepsLocks, keys
  <2> QED
    BY <1>6, <2>4
<1> QED
  BY <1>7, <1>8

\* A worker that dies leaves its values behind, those of the others stay.
LEMMA CrashLocks ==
  ASSUME LongTTLInv, NEW w \in Workers, Crash(w)
  PROVE  \A v \in Workers : KeepsLocks(v)'
<1>1. /\ pc'[w] = "idle"
      /\ \A v \in Workers \ {w} : pc'[v] = pc[v] /\ req'[v] = req[v] /\ held'[v] = held[v]
      /\ \A k \in Balances : lock[k] # w => lock'[k] = lock[k]
  BY DEF LongTTLInv, Inv, TypeOK, Crash, Forget, Goto
<1>2. ASSUME NEW v \in Workers \ {w} PROVE KeepsLocks(v)'
  BY <1>1, OthersKeep
<1> QED
  BY <1>1, <1>2 DEF KeepsLocks

\* No step takes a lock from a worker that still counts it.
LEMMA LongTTLKeepsLocks ==
  ASSUME LongTTLInv, LongTTLNext PROVE \A v \in Workers : KeepsLocks(v)'
<1>1. ASSUME NEW k \in Balances, ExpireOrphan(k) PROVE \A v \in Workers : KeepsLocks(v)'
  <2>1. /\ UNCHANGED <<pc, req, held>>
        /\ \A l \in Balances : lock[l] # Orphan => lock'[l] = lock[l]
    BY <1>1 DEF ExpireOrphan, ExpireLock, workerVars, LongTTLInv, Inv, TypeOK
  <2>2. \A v \in Workers, l \in Balances : lock[l] = v => lock'[l] = v
    BY <2>1, ExecutionAssumption
  <2> QED
    BY <2>1, <2>2, LockedKeys DEF KeepsLocks
<1>2. ASSUME NEW w \in Workers, RollbackKey(w) PROVE \A v \in Workers : KeepsLocks(v)'
  <2>1. /\ pc[w] # "idle" /\ held[w] > 0 /\ Unlock(w, LockKeys(req[w])[held[w]])
        /\ req'[w] = req[w] /\ held'[w] = held[w] - 1
        /\ \A v \in Workers \ {w} : pc'[v] = pc[v] /\ req'[v] = req[v] /\ held'[v] = held[v]
    BY <1>2 DEF RollbackKey, LongTTLInv, Inv, TypeOK
  <2> QED
    BY <2>1, UnlockLocks
<1>3. ASSUME NEW w \in Workers, ReleaseKey(w) PROVE \A v \in Workers : KeepsLocks(v)'
  <2>1. pc[w] = "release" /\ held[w] \in 0 .. 2 /\ Unlock(w, LockKeys(req[w])[held[w]])
    BY <1>3 DEF ReleaseKey, LongTTLInv, Inv, TypeOK
  <2>2. held[w] > 0
    BY <2>1 DEF LongTTLInv, Inv, LockPhaseOK
  <2>3. /\ pc'[w] = "idle" \/ (req'[w] = req[w] /\ held'[w] = held[w] - 1)
        /\ \A v \in Workers \ {w} : pc'[v] = pc[v] /\ req'[v] = req[v] /\ held'[v] = held[v]
    BY <1>3 DEF ReleaseKey, Forget, Goto, LongTTLInv, Inv, TypeOK
  <2> QED
    BY <2>1, <2>2, <2>3, UnlockLocks
<1> QED
  BY <1>1, <1>2, <1>3, QuietLocks, AcquireKeyLocks, CrashLocks
  DEF LongTTLNext, Working, WorkerStep, AcquireStep
\* Only Persist writes balances.  Its two balances are locked, so nobody else
\* has read them.
LEMMA PersistKeepsReads ==
  ASSUME LongTTLInv, NEW w \in Workers, Persist(w), NEW v \in Workers, ReadsCurrent(v)
  PROVE  ReadsCurrent(v)'
<1>1. pc'[w] = "release"
  BY DEF Persist, Goto, LongTTLInv, Inv, TypeOK
<1>2. CASE v = w
  BY <1>1, <1>2 DEF ReadsCurrent
<1>3. CASE v # w
  <2>1. /\ pc'[v] = pc[v] /\ req'[v] = req[v]
        /\ sourceRead'[v] = sourceRead[v] /\ destRead'[v] = destRead[v]
    BY <1>3 DEF Persist, Goto, LongTTLInv, Inv, TypeOK
  <2>2. \A b \in Balances \ {req[w].source, req[w].destination} :
          balances'[b] = balances[b] /\ version'[b] = version[b]
    BY DEF Persist, LongTTLInv, Inv, TypeOK
  <2>3. lock[req[w].source] = w /\ lock[req[w].destination] = w
    BY BothLocked DEF Persist, Critical
  <2>4. CASE pc[v] \in {"readDestination", "apply", "persist"}
    <3>1. lock[req[v].source] = v /\ lock[req[v].destination] = v /\ req[v] \in Requests
      BY <2>4, BothLocked DEF Critical, LongTTLInv, Inv, LockPhaseOK
    <3>2. /\ req[v].source \in Balances \ {req[w].source, req[w].destination}
          /\ req[v].destination \in Balances \ {req[w].source, req[w].destination}
      BY <1>3, <2>3, <3>1, LedgerAssumption DEF Transactions
    <3> QED
      BY <2>1, <2>2, <3>2 DEF ReadsCurrent
  <2>5. CASE pc[v] \notin {"readDestination", "apply", "persist"}
    BY <2>1, <2>5 DEF ReadsCurrent
  <2> QED
    BY <2>4, <2>5
<1> QED
  BY <1>2, <1>3

\* A step that writes no balance keeps the reads that are current.
LEMMA QuietReads ==
  ASSUME LongTTLInv, UNCHANGED <<balances, version>>, NEW w \in Workers,
         NEW v \in Workers, ReadsCurrent(v),
         WorkerStep(w) \/ Crash(w) \/ \E r \in Requests : Start(w, r), ~Persist(w)
  PROVE  ReadsCurrent(v)'
<1>1. CASE v # w
  <2>1. /\ pc'[v] = pc[v] /\ req'[v] = req[v]
        /\ sourceRead'[v] = sourceRead[v] /\ destRead'[v] = destRead[v]
    BY <1>1 DEF LongTTLInv, Inv, TypeOK, Start, WorkerStep, AcquireStep, AcquireKey,
       AcquireFails, RollbackKey, WaitAndRetry, LockTimeout, CriticalStep,
       ExecutePreHooks, ValidateTxn, ReadSource, ReadDestination, ProcessBalances,
       PersistFails, ReleaseKey, Crash, Forget, Goto
  <2> QED
    BY <2>1 DEF ReadsCurrent
<1>2. CASE v = w
  <2>1. CASE ReadSource(w)
    <3>1. /\ pc'[w] = "readDestination" /\ req'[w] = req[w]
          /\ sourceRead'[w] = [amounts |-> balances[req[w].source],
                               version |-> version[req[w].source]]
      BY <2>1 DEF ReadSource, Goto, LongTTLInv, Inv, TypeOK
    <3> QED
      BY <1>2, <3>1 DEF ReadsCurrent
  <2>2. CASE ReadDestination(w)
    <3>1. /\ pc[w] = "readDestination" /\ pc'[w] = "apply" /\ req'[w] = req[w]
          /\ sourceRead'[w] = sourceRead[w]
          /\ destRead'[w] = [amounts |-> balances[req[w].destination],
                             version |-> version[req[w].destination]]
      BY <2>2 DEF ReadDestination, Goto, LongTTLInv, Inv, TypeOK
    <3> QED
      BY <1>2, <3>1 DEF ReadsCurrent
  <2>3. CASE ProcessBalances(w)
    <3>1. /\ pc[w] = "apply" /\ pc'[w] \in {"persist", "release"} /\ req'[w] = req[w]
          /\ sourceRead'[w] = sourceRead[w] /\ destRead'[w] = destRead[w]
      BY <2>3 DEF ProcessBalances, Goto, LongTTLInv, Inv, TypeOK
    <3> QED
      BY <1>2, <3>1 DEF ReadsCurrent
  <2>4. CASE /\ ~ReadSource(w) /\ ~ReadDestination(w) /\ ~ProcessBalances(w)
    <3>1. pc'[w] \notin {"readDestination", "apply", "persist"}
      BY <2>4 DEF LongTTLInv, Inv, TypeOK, Start, WorkerStep, AcquireStep, AcquireKey,
         AcquireFails, RollbackKey, WaitAndRetry, LockTimeout, CriticalStep,
         ExecutePreHooks, ValidateTxn, PersistFails, ReleaseKey, Crash, Forget, Goto
    <3> QED
      BY <1>2, <3>1 DEF ReadsCurrent
  <2> QED
    BY <2>1, <2>2, <2>3, <2>4
<1> QED
  BY <1>1, <1>2

\* Every step under a long TTL keeps the invariant.
LEMMA LongTTLNextInv == LongTTLInv /\ [LongTTLNext]_vars => LongTTLInv'
<1> SUFFICES ASSUME LongTTLInv, [LongTTLNext]_vars PROVE LongTTLInv'
  OBVIOUS
<1>1. Inv'
  <2>1. [Next]_vars
    BY DEF LongTTLNext, Next, ExpireOrphan
  <2> QED
    BY <2>1, NextInv DEF LongTTLInv
<1>2. CASE UNCHANGED vars
  <2>1. /\ \A w \in Workers : KeepsLocks(w)'
        /\ LockedReadsStayCurrent'
    BY <1>2 DEF LongTTLInv, KeepsLocks, LockedReadsStayCurrent, vars, workerVars
  <2> QED
    BY <1>1, <2>1 DEF LongTTLInv
<1>3. CASE LongTTLNext
  <2>1. \A v \in Workers : KeepsLocks(v)'
    BY <1>3, LongTTLKeepsLocks
  <2>2. \A v \in Workers : ReadsCurrent(v)
    BY DEF LongTTLInv, LockedReadsStayCurrent, ReadsCurrent
  <2>3. ASSUME NEW v \in Workers PROVE ReadsCurrent(v)'
    <3>1. ASSUME NEW k \in Balances, ExpireOrphan(k) PROVE ReadsCurrent(v)'
      BY <2>2, <3>1 DEF ExpireOrphan, ExpireLock, ReadsCurrent, ledgerVars, workerVars
    <3>2. ASSUME NEW w \in Workers, Persist(w) PROVE ReadsCurrent(v)'
      BY <2>2, <3>2, PersistKeepsReads
    <3>3. ASSUME NEW w \in Workers, ~Persist(w),
                 WorkerStep(w) \/ Crash(w) \/ \E r \in Requests : Start(w, r)
          PROVE  ReadsCurrent(v)'
      <4>1. UNCHANGED <<balances, version>>
        BY <3>3 DEF Start, WorkerStep, AcquireStep, AcquireKey, ledgerVars,
           AcquireFails, RollbackKey, WaitAndRetry, LockTimeout, CriticalStep,
           ExecutePreHooks, ValidateTxn, ReadSource, ReadDestination, ProcessBalances,
           PersistFails, ReleaseKey, Crash
      <4> QED
        BY <2>2, <3>3, <4>1, QuietReads
    <3> QED
      BY <1>3, <3>1, <3>2, <3>3 DEF LongTTLNext, Working
  <2>4. LockedReadsStayCurrent'
    BY <2>3 DEF LockedReadsStayCurrent, ReadsCurrent
  <2> QED
    BY <1>1, <2>1, <2>4 DEF LongTTLInv
<1> QED
  BY <1>2, <1>3

\* As long as the TTL outlives the attempts, the sorted locks alone keep what
\* an attempt has read current until it writes: the version check of
\* updateBalance is then never what refuses it.
THEOREM LocksKeepReadsCurrent == LongTTLSpec => []LockedReadsStayCurrent
<1>1. Init => LongTTLInv
  <2> SUFFICES ASSUME Init PROVE LongTTLInv
    OBVIOUS
  <2>1. \A w \in Workers : pc[w] = "idle"
    BY DEF Init
  <2> QED
    BY <2>1, InitInv DEF LongTTLInv, KeepsLocks, LockedReadsStayCurrent
<1>2. LongTTLInv => LockedReadsStayCurrent
  BY DEF LongTTLInv
<1> QED
  BY <1>1, <1>2, LongTTLNextInv, PTL DEF LongTTLSpec, LongTTLNext
==============================================================================
