--------------------------- MODULE HashChainProofs ---------------------------
(***************************************************************************)
(* However many chainers run and fail, the sealed rows form one chain, and *)
(* it only grows.  Inv is inductive: the lock on chain_state makes the     *)
(* head that a chainer extends the one it has read, and every stored hash  *)
(* is a prefix of that head.  The last part is about the verifier, whose   *)
(* pages fall between the batches: what it has compared so far stays true. *)
(***************************************************************************)
EXTENDS HashChain, FiniteSetTheorems, TLAPS

\* A prefix of a sequence is a prefix of every extension.
LEMMA PrefixKept ==
  ASSUME NEW S, NEW s \in Seq(S), NEW e \in Seq(S), NEW k \in 0 .. Len(s)
  PROVE  SubSeq(s \o e, 1, k) = SubSeq(s, 1, k)
<1>1. /\ s \o e \in Seq(S)
      /\ Len(s \o e) = Len(s) + Len(e)
      /\ \A i \in 1 .. Len(s) : (s \o e)[i] = s[i]
  OBVIOUS
<1>2. SubSeq(s \o e, 1, k) = [i \in 1 .. k |-> (s \o e)[i]]
  BY <1>1
<1>3. SubSeq(s, 1, k) = [i \in 1 .. k |-> s[i]]
  OBVIOUS
<1> QED
  BY <1>1, <1>2, <1>3

\* The first rows of an extension, appended, are a prefix of the whole.
LEMMA PrefixGrown ==
  ASSUME NEW S, NEW s \in Seq(S), NEW e \in Seq(S), NEW i \in 0 .. Len(e)
  PROVE  s \o [j \in 1 .. i |-> e[j]] = SubSeq(s \o e, 1, Len(s) + i)
<1> DEFINE p == [j \in 1 .. i |-> e[j]]
<1>1. /\ s \o e \in Seq(S)
      /\ Len(s \o e) = Len(s) + Len(e)
      /\ \A j \in 1 .. Len(s) + Len(e) :
           (s \o e)[j] = IF j <= Len(s) THEN s[j] ELSE e[j - Len(s)]
  OBVIOUS
<1>2. p \in Seq(S) /\ Len(p) = i
  OBVIOUS
<1>3. /\ s \o p \in Seq(S)
      /\ Len(s \o p) = Len(s) + i
      /\ \A j \in 1 .. Len(s) + i :
           (s \o p)[j] = IF j <= Len(s) THEN s[j] ELSE p[j - Len(s)]
  BY <1>2
<1>4. SubSeq(s \o e, 1, Len(s) + i) = [j \in 1 .. Len(s) + i |-> (s \o e)[j]]
  BY <1>1
<1>5. \A j \in 1 .. Len(s) + i : (s \o p)[j] = (s \o e)[j]
  BY <1>1, <1>3
<1>6. \A q \in Seq(S) : q = [j \in 1 .. Len(q) |-> q[j]]
  OBVIOUS
<1>7. s \o p = [j \in 1 .. Len(s) + i |-> (s \o p)[j]]
  <2> HIDE DEF p
  <2> QED
    BY <1>3, <1>6
<1> QED
  BY <1>4, <1>5, <1>7

\* Inv holds initially.
LEMMA InitInv == Init => Inv
<1> SUFFICES ASSUME Init PROVE Inv
  OBVIOUS
<1>1. TypeOK
  BY HashChainAssumption DEF Init, TypeOK, Genesis
<1>2. BatchOK
  BY DEF Init, BatchOK
<1>3. Sealed = {} /\ Len(head) = 0 /\ lastSeq = 0
  BY DEF Init, Sealed, Genesis
<1>4. ChainIntact
  BY <1>3 DEF ChainIntact
<1> QED
  BY <1>1, <1>2, <1>4 DEF Inv

\* A step that changes neither the chain nor a chainer keeps the invariant.
LEMMA QuietStep ==
  ASSUME Inv, inserted \subseteq inserted', inserted' \subseteq Ids, aged' \subseteq Ids,
         altered' \subseteq Ids, UNCHANGED <<chainVars, stateLock, chainerVars>>
  PROVE  Inv'
<1>1. TypeOK'
  BY DEF Inv, TypeOK, chainVars, chainerVars
<1>2. BatchOK'
  BY DEF Inv, BatchOK, chainVars, chainerVars
<1>3. ChainIntact'
  BY DEF Inv, ChainIntact, Sealed, chainVars
<1> QED
  BY <1>1, <1>2, <1>3 DEF Inv

\* Inserting, ageing and editing rows leaves the chain alone.
LEMMA TableInv ==
  ASSUME Inv, NEW t \in Ids, Insert(t) \/ Age(t) \/ Alter(t) PROVE Inv'
<1>1. UNCHANGED <<chainVars, stateLock, chainerVars>>
  BY DEF Insert, Age, Alter
<1>2. /\ inserted \subseteq inserted' /\ inserted' \subseteq Ids
      /\ aged' \subseteq Ids /\ altered' \subseteq Ids
  BY DEF Inv, TypeOK, Insert, Age, Alter
<1> QED
  BY <1>1, <1>2, QuietStep

\* The verifier only reads.
LEMMA VerifyInv == ASSUME Inv, VerifyStep PROVE Inv'
<1>1. UNCHANGED <<tableVars, chainVars, stateLock, chainerVars>>
  BY DEF VerifyStep, StartVerify, VerifyPage, EndVerify, ForgetVerdict
<1> QED
  BY <1>1, QuietStep DEF tableVars, Inv, TypeOK

\* A tick takes its cutoff before it locks anything.
LEMMA TickInv == ASSUME Inv, NEW c \in Chainers, Tick(c) PROVE Inv'
<1>1. TypeOK'
  BY DEF Inv, TypeOK, Tick, tableVars, chainVars
<1>2. BatchOK'
  BY DEF Inv, TypeOK, BatchOK, Tick, tableVars, chainVars
<1>3. ChainIntact'
  BY DEF Inv, ChainIntact, Sealed, Tick, chainVars
<1> QED
  BY <1>1, <1>2, <1>3 DEF Inv

\* Nobody is inside a batch when chain_state is locked.
LEMMA LockStateInv == ASSUME Inv, NEW c \in Chainers, LockState(c) PROVE Inv'
<1>1. TypeOK'
  BY DEF Inv, TypeOK, LockState, tableVars, chainVars
<1>2. BatchOK'
  BY HashChainAssumption DEF Inv, TypeOK, BatchOK, LockState, tableVars, chainVars
<1>3. ChainIntact'
  BY DEF Inv, ChainIntact, Sealed, LockState, chainVars
<1> QED
  BY <1>1, <1>2, <1>3 DEF Inv

\* The scan selects unchained rows in ascending order.
LEMMA ScanInv == ASSUME Inv, NEW c \in Chainers, Scan(c) PROVE Inv'
<1>1. PICK b \in Batches : IsBatch(b, Unchained(c)) /\ batch' = [batch EXCEPT ![c] = b]
  BY DEF Scan
<1>2. b \in Seq(Ids)
  BY HashChainAssumption DEF Batches
<1>3. TypeOK'
  BY <1>1, <1>2 DEF Inv, TypeOK, Scan, tableVars, chainVars
<1>4. /\ pc'[c] = "commit" /\ batch'[c] = b
      /\ \A d \in Chainers \ {c} : pc'[d] = pc[d] /\ batch'[d] = batch[d]
      /\ UNCHANGED <<inserted, seq, stateLock>>
  BY <1>1 DEF Inv, TypeOK, Scan, tableVars, chainVars
<1>5. \A i \in 1 .. Len(b) : b[i] \in inserted /\ seq[b[i]] = 0
  BY <1>1 DEF IsBatch, Unchained
<1>6. \A i, j \in 1 .. Len(b) : i < j => b[i] < b[j]
  BY <1>1 DEF IsBatch
<1>7. stateLock = c
  BY DEF Inv, BatchOK, Scan
<1>8. BatchOK'
  BY <1>4, <1>5, <1>6, <1>7 DEF Inv, BatchOK
<1>9. ChainIntact'
  BY DEF Inv, ChainIntact, Sealed, Scan, chainVars
<1> QED
  BY <1>3, <1>8, <1>9 DEF Inv

\* A rolled back batch leaves no link behind.
LEMMA RollbackInv == ASSUME Inv, NEW c \in Chainers, RollbackBatch(c) PROVE Inv'
<1>1. TypeOK'
  BY DEF Inv, TypeOK, RollbackBatch, EndTick, tableVars, chainVars
<1>2. BatchOK'
  BY HashChainAssumption
  DEF Inv, TypeOK, BatchOK, RollbackBatch, EndTick, tableVars, chainVars
<1>3. ChainIntact'
  BY DEF Inv, ChainIntact, Sealed, RollbackBatch, chainVars
<1> QED
  BY <1>1, <1>2, <1>3 DEF Inv

\* A function on 1 .. n is a sequence of that length.
LEMMA SeqOfFunction ==
  ASSUME NEW S, NEW n \in Nat, NEW f \in [1 .. n -> S]
  PROVE  f \in Seq(S) /\ Len(f) = n
OBVIOUS

\* The sealed fields of a row are an id and a content.
LEMMA RowType == ASSUME NEW t \in Ids PROVE ChainRow(t) \in Ids \X Contents
BY DEF ChainRow, Contents

\* A concatenation is a sequence, as long as its parts.
LEMMA ConcatType ==
  ASSUME NEW S, NEW s \in Seq(S), NEW e \in Seq(S)
  PROVE  s \o e \in Seq(S) /\ Len(s \o e) = Len(s) + Len(e)
OBVIOUS

\* Strictly ascending numbers are pairwise different.
LEMMA AscendingDiffer ==
  ASSUME NEW b \in Seq(Nat), \A i, j \in 1 .. Len(b) : i < j => b[i] < b[j]
  PROVE  \A i, j \in 1 .. Len(b) : b[i] = b[j] => i = j
<1>1. \A i \in 1 .. Len(b) : b[i] \in Nat
  OBVIOUS
<1> SUFFICES ASSUME NEW i \in 1 .. Len(b), NEW j \in 1 .. Len(b), b[i] = b[j], i # j
             PROVE  FALSE
  OBVIOUS
<1>2. i < j \/ j < i
  OBVIOUS
<1> QED
  BY <1>1, <1>2

\* What a committed batch does to the chain, row by row.
LEMMA CommitFacts ==
  ASSUME Inv, NEW c \in Chainers, CommitBatch(c), NEW b, b = batch[c]
  PROVE  /\ b \in Seq(Ids)
         /\ head' \in Seq(Ids \X Contents)
         /\ Len(head') = lastSeq + Len(b)
         /\ lastSeq' = lastSeq + Len(b)
         /\ \A k \in 0 .. lastSeq : SubSeq(head', 1, k) = SubSeq(head, 1, k)
         /\ \A i \in 1 .. Len(b) :
              /\ b[i] \in Ids
              /\ seq'[b[i]] = lastSeq + i
              /\ prevHash'[b[i]] = SubSeq(head', 1, lastSeq + i - 1)
              /\ hash'[b[i]] = SubSeq(head', 1, lastSeq + i)
         /\ \A t \in Ids : (\A i \in 1 .. Len(b) : b[i] # t) =>
              /\ seq'[t] = seq[t]
              /\ prevHash'[t] = prevHash[t]
              /\ hash'[t] = hash[t]
<1> DEFINE e == [j \in 1 .. Len(b) |-> ChainRow(b[j])]
           position(t) == CHOOSE i \in 1 .. Len(b) : b[i] = t
           sealed == {b[i] : i \in 1 .. Len(b)}
           Row == Ids \X Contents
<1>1. /\ b \in Seq(Ids)
      /\ head \in Seq(Row) /\ Len(head) = lastSeq /\ lastSeq \in Nat
  BY DEF Inv, TypeOK, ChainIntact
<1>2. /\ Len(b) \in Nat
      /\ \A i \in 1 .. Len(b) : b[i] \in Ids
  BY <1>1
<1>3. e \in Seq(Row) /\ Len(e) = Len(b)
  <2>1. \A j \in 1 .. Len(b) : ChainRow(b[j]) \in Row
    BY <1>2, RowType DEF Row
  <2>2. e \in [1 .. Len(b) -> Row]
    BY <2>1
  <2> HIDE DEF Row, e
  <2> QED
    BY <1>2, <2>2, SeqOfFunction
<1>4. \A i \in 0 .. Len(b) : HeadAfter(b, i) = head \o [j \in 1 .. i |-> e[j]]
  BY <1>1 DEF HeadAfter
<1>5. head' = head \o e
  <2>1. head' = HeadAfter(b, Len(b))
    BY DEF CommitBatch
  <2>2. HeadAfter(b, Len(b)) = head \o e
    BY DEF HeadAfter
  <2> QED
    BY <2>1, <2>2
<1> HIDE DEF e, Row
<1>6. \A i \in 0 .. Len(b) : HeadAfter(b, i) = SubSeq(head', 1, lastSeq + i)
  BY <1>1, <1>3, <1>4, <1>5, PrefixGrown
<1>7. head' \in Seq(Row) /\ Len(head') = lastSeq + Len(b)
  BY <1>1, <1>3, <1>5, ConcatType
<1>8. \A k \in 0 .. lastSeq : SubSeq(head', 1, k) = SubSeq(head, 1, k)
  BY <1>1, <1>3, <1>5, PrefixKept
<1>9. \A i, j \in 1 .. Len(b) : b[i] = b[j] => i = j
  <2>1. \A i, j \in 1 .. Len(b) : i < j => b[i] < b[j]
    BY DEF Inv, BatchOK, CommitBatch
  <2>2. b \in Seq(Nat)
    <3>1. b \in [1 .. Len(b) -> Nat]
      <4>1. b = [i \in 1 .. Len(b) |-> b[i]]
        BY <1>1
      <4>2. \A i \in 1 .. Len(b) : b[i] \in Nat
        BY <1>2, HashChainAssumption
      <4> QED
        BY <4>1, <4>2
    <3> QED
      BY <1>2, <3>1, SeqOfFunction
  <2> QED
    BY <2>1, <2>2, AscendingDiffer
<1>10. \A i \in 1 .. Len(b) : b[i] \in sealed /\ position(b[i]) = i
  BY <1>9
<1>11. /\ seq' = [t \in Ids |-> IF t \in sealed THEN lastSeq + position(t) ELSE seq[t]]
       /\ prevHash' = [t \in Ids |-> IF t \in sealed
                                     THEN HeadAfter(b, position(t) - 1) ELSE prevHash[t]]
       /\ hash' = [t \in Ids |-> IF t \in sealed
                                 THEN HeadAfter(b, position(t)) ELSE hash[t]]
       /\ lastSeq' = lastSeq + Len(b)
  BY DEF CommitBatch
<1>12. ASSUME NEW i \in 1 .. Len(b)
       PROVE  /\ seq'[b[i]] = lastSeq + i
              /\ prevHash'[b[i]] = SubSeq(head', 1, lastSeq + i - 1)
              /\ hash'[b[i]] = SubSeq(head', 1, lastSeq + i)
  <2> HIDE DEF sealed, position
  <2>1. b[i] \in Ids /\ b[i] \in sealed /\ position(b[i]) = i
    BY <1>2, <1>10
  <2>2. /\ seq'[b[i]] = lastSeq + i
        /\ prevHash'[b[i]] = HeadAfter(b, i - 1)
        /\ hash'[b[i]] = HeadAfter(b, i)
    BY <1>11, <2>1
  <2>3. i \in 0 .. Len(b) /\ i - 1 \in 0 .. Len(b) /\ lastSeq + (i - 1) = lastSeq + i - 1
    BY <1>1, <1>2
  <2> QED
    BY <1>6, <2>2, <2>3
<1>13. ASSUME NEW t \in Ids, \A i \in 1 .. Len(b) : b[i] # t
       PROVE  seq'[t] = seq[t] /\ prevHash'[t] = prevHash[t] /\ hash'[t] = hash[t]
  <2>1. t \notin sealed
    BY <1>13
  <2> HIDE DEF sealed, position
  <2> QED
    BY <1>11, <2>1
<1> QED
  BY <1>1, <1>2, <1>7, <1>8, <1>11, <1>12, <1>13 DEF Row

\* A committed batch continues the chain at the position it has locked.
LEMMA CommitInv == ASSUME Inv, NEW c \in Chainers, CommitBatch(c) PROVE Inv'
<1>1. PICK b : b = batch[c]
  OBVIOUS
<1>2. /\ b \in Seq(Ids)
      /\ head' \in Seq(Ids \X Contents)
      /\ Len(head') = lastSeq + Len(b)
      /\ lastSeq' = lastSeq + Len(b)
  BY <1>1, CommitFacts
<1>3. Len(b) \in Nat /\ lastSeq \in Nat /\ Len(head) = lastSeq /\ seq \in [Ids -> Nat]
  BY <1>2 DEF Inv, TypeOK, ChainIntact
<1>4. \A k \in 0 .. lastSeq : SubSeq(head', 1, k) = SubSeq(head, 1, k)
  BY <1>1, CommitFacts
<1>5. \A i \in 1 .. Len(b) : /\ b[i] \in Ids
                             /\ seq'[b[i]] = lastSeq + i
                             /\ prevHash'[b[i]] = SubSeq(head', 1, lastSeq + i - 1)
                             /\ hash'[b[i]] = SubSeq(head', 1, lastSeq + i)
  BY <1>1, CommitFacts
<1>6. \A t \in Ids : (\A i \in 1 .. Len(b) : b[i] # t) =>
                       seq'[t] = seq[t] /\ prevHash'[t] = prevHash[t] /\ hash'[t] = hash[t]
  BY <1>1, CommitFacts
<1>7. \A i \in 1 .. Len(b) : seq[b[i]] = 0
  BY <1>1 DEF Inv, BatchOK, CommitBatch
<1>8. /\ pc'[c] \in {"idle", "lock"}
      /\ pc' \in [Chainers -> {"idle", "lock", "scan", "commit"}]
      /\ \A d \in Chainers \ {c} : pc'[d] = pc[d]
  <2>1. \/ pc' = [pc EXCEPT ![c] = "idle"]
        \/ pc' = [pc EXCEPT ![c] = "lock"]
    BY DEF CommitBatch, EndTick
  <2>2. pc \in [Chainers -> {"idle", "lock", "scan", "commit"}]
    BY DEF Inv, TypeOK
  <2> QED
    BY <2>1, <2>2
<1>9. TypeOK'
  <2>1. seq' \in [Ids -> Nat]
    <3>1. \A t \in Ids : seq'[t] \in Nat
      BY <1>3, <1>5, <1>6
    <3>2. seq' = [t \in Ids |-> seq'[t]]
      BY DEF CommitBatch
    <3> QED
      BY <3>1, <3>2
  <2>2. batch' \in [Chainers -> Seq(Ids)]
    <3>1. << >> \in Seq(Ids)
      OBVIOUS
    <3>2. batch' = [batch EXCEPT ![c] = << >>] /\ batch \in [Chainers -> Seq(Ids)]
      BY DEF CommitBatch, Inv, TypeOK
    <3> QED
      BY <3>1, <3>2
  <2>3. stateLock' = Nobody /\ UNCHANGED <<inserted, aged, altered>>
    BY DEF CommitBatch, tableVars
  <2> QED
    BY <1>2, <1>3, <1>8, <2>1, <2>2, <2>3 DEF Inv, TypeOK
<1>10. BatchOK'
  <2>1. stateLock = c
    BY DEF Inv, BatchOK, CommitBatch
  <2>2. \A d \in Chainers \ {c} : pc[d] \notin {"scan", "commit"}
    BY <2>1 DEF Inv, BatchOK
  <2> QED
    BY <1>8, <2>2 DEF BatchOK
<1>11. ASSUME NEW t \in Sealed
       PROVE  /\ t \in Ids /\ seq[t] \in 1 .. lastSeq
              /\ seq'[t] = seq[t] /\ prevHash'[t] = prevHash[t] /\ hash'[t] = hash[t]
  <2>1. t \in Ids /\ seq[t] # 0 /\ seq[t] <= lastSeq
    BY DEF Sealed, Inv, ChainIntact
  <2>2. \A i \in 1 .. Len(b) : b[i] # t
    BY <1>7, <2>1
  <2> QED
    BY <1>3, <1>6, <2>1, <2>2
<1>12. \A t \in Sealed' : \/ t \in Sealed
                          \/ \E i \in 1 .. Len(b) : t = b[i]
  BY <1>6 DEF Sealed
<1>13. ChainIntact'
  <2>1. \A s, t \in Sealed' : seq'[s] = seq'[t] => s = t
    <3> SUFFICES ASSUME NEW s \in Sealed', NEW t \in Sealed', seq'[s] = seq'[t]
                 PROVE s = t
      OBVIOUS
    <3>1. CASE s \in Sealed /\ t \in Sealed
      BY <3>1, <1>11 DEF Inv, ChainIntact
    <3>2. CASE s \in Sealed /\ \E i \in 1 .. Len(b) : t = b[i]
      BY <3>2, <1>11, <1>3, <1>5
    <3>3. CASE t \in Sealed /\ \E i \in 1 .. Len(b) : s = b[i]
      BY <3>3, <1>11, <1>3, <1>5
    <3>4. CASE /\ \E i \in 1 .. Len(b) : s = b[i]
               /\ \E i \in 1 .. Len(b) : t = b[i]
      BY <3>4, <1>3, <1>5
    <3> QED
      BY <1>12, <3>1, <3>2, <3>3, <3>4
  <2>2. \A n \in 1 .. lastSeq' : \E t \in Sealed' : seq'[t] = n
    <3> SUFFICES ASSUME NEW n \in 1 .. lastSeq' PROVE \E t \in Sealed' : seq'[t] = n
      OBVIOUS
    <3>1. CASE n <= lastSeq
      <4>1. PICK t \in Sealed : seq[t] = n
        BY <1>2, <1>3, <3>1 DEF Inv, ChainIntact
      <4> QED
        BY <4>1, <1>11 DEF Sealed
    <3>2. CASE n > lastSeq
      <4>1. n - lastSeq \in 1 .. Len(b) /\ lastSeq + (n - lastSeq) = n
        BY <1>2, <1>3, <3>2
      <4>2. b[n - lastSeq] \in Ids /\ seq'[b[n - lastSeq]] = n
        BY <4>1, <1>5
      <4> QED
        BY <4>2, <1>3, <3>2 DEF Sealed
    <3> QED
      BY <1>2, <1>3, <3>1, <3>2
  <2>3. ASSUME NEW t \in Sealed'
        PROVE  /\ seq'[t] <= lastSeq'
               /\ prevHash'[t] = SubSeq(head', 1, seq'[t] - 1)
               /\ hash'[t] = SubSeq(head', 1, seq'[t])
    <3>1. CASE t \in Sealed
      <4>1. /\ seq[t] \in 1 .. lastSeq /\ seq'[t] = seq[t]
            /\ prevHash'[t] = prevHash[t] /\ hash'[t] = hash[t]
        BY <3>1, <1>11
      <4>2. prevHash[t] = SubSeq(head, 1, seq[t] - 1) /\ hash[t] = SubSeq(head, 1, seq[t])
        BY <3>1 DEF Inv, ChainIntact
      <4>3. seq[t] \in 0 .. lastSeq /\ seq[t] - 1 \in 0 .. lastSeq /\ seq[t] <= lastSeq'
        BY <1>2, <1>3, <4>1
      <4> QED
        BY <1>4, <4>1, <4>2, <4>3
    <3>2. CASE \E i \in 1 .. Len(b) : t = b[i]
      <4>1. PICK i \in 1 .. Len(b) : t = b[i]
        BY <3>2
      <4>2. /\ seq'[t] = lastSeq + i
            /\ prevHash'[t] = SubSeq(head', 1, lastSeq + i - 1)
            /\ hash'[t] = SubSeq(head', 1, lastSeq + i)
        BY <1>5, <4>1
      <4>3. seq'[t] <= lastSeq'
        BY <1>2, <1>3, <4>2
      <4>4. prevHash'[t] = SubSeq(head', 1, seq'[t] - 1)
        BY <1>3, <4>2
      <4>5. hash'[t] = SubSeq(head', 1, seq'[t])
        BY <4>2
      <4> QED
        BY <4>3, <4>4, <4>5
    <3> QED
      BY <1>12, <3>1, <3>2
  <2> QED
    BY <1>2, <2>1, <2>2, <2>3 DEF ChainIntact
<1> QED
  BY <1>9, <1>10, <1>13 DEF Inv

\* Every step keeps the invariant.
LEMMA NextInv == ASSUME Inv, [Next]_vars PROVE Inv'
<1>1. CASE UNCHANGED vars
  BY <1>1, QuietStep DEF vars, tableVars, Inv, TypeOK
<1>2. CASE Next
  BY <1>2, TableInv, VerifyInv, TickInv, LockStateInv, ScanInv, CommitInv, RollbackInv
  DEF Next, ChainerStep
<1> QED
  BY <1>1, <1>2

\* Types, exclusive batches and an intact chain, in every reachable state.
THEOREM InvHolds == Spec => []Inv
<1>1. Inv /\ [Next]_vars => Inv'
  BY NextInv
<1> QED
  BY <1>1, InitInv, PTL DEF Spec

\* The sealed rows form one gapless chain that ends in the recorded head, for
\* any number of chainers and any batch size (ChainPendingTransactions).
THEOREM ChainStaysIntact == Spec => []ChainIntact
<1>1. Inv => ChainIntact
  BY DEF Inv
<1> QED
  BY <1>1, InvHolds, PTL

\* The whole of a sequence is its prefix of full length.
LEMMA WholePrefix == ASSUME NEW S, NEW s \in Seq(S) PROVE SubSeq(s, 1, Len(s)) = s
OBVIOUS

\* A committed batch leaves the sealed rows and the recorded chain as they were.
LEMMA CommitExtends ==
  ASSUME Inv, NEW c \in Chainers, CommitBatch(c)
  PROVE  /\ \A t \in Sealed : /\ seq'[t] = seq[t]
                              /\ prevHash'[t] = prevHash[t]
                              /\ hash'[t] = hash[t]
         /\ lastSeq' >= lastSeq
         /\ SubSeq(head', 1, lastSeq) = head
<1>1. PICK b : b = batch[c]
  OBVIOUS
<1>2. /\ b \in Seq(Ids)
      /\ lastSeq' = lastSeq + Len(b)
      /\ \A k \in 0 .. lastSeq : SubSeq(head', 1, k) = SubSeq(head, 1, k)
      /\ \A t \in Ids : (\A i \in 1 .. Len(b) : b[i] # t) =>
           seq'[t] = seq[t] /\ prevHash'[t] = prevHash[t] /\ hash'[t] = hash[t]
  BY <1>1, CommitFacts
<1>3. /\ Len(b) \in Nat /\ lastSeq \in Nat
      /\ head \in Seq(Ids \X Contents) /\ Len(head) = lastSeq
  BY <1>2 DEF Inv, TypeOK, ChainIntact
<1>4. \A i \in 1 .. Len(b) : seq[b[i]] = 0
  BY <1>1 DEF Inv, BatchOK, CommitBatch
<1>5. \A t \in Sealed : t \in Ids /\ \A i \in 1 .. Len(b) : b[i] # t
  BY <1>4 DEF Sealed
<1>6. SubSeq(head', 1, lastSeq) = SubSeq(head, 1, lastSeq)
  BY <1>2, <1>3
<1>7. SubSeq(head, 1, lastSeq) = head
  BY <1>3, WholePrefix
<1> QED
  BY <1>2, <1>3, <1>5, <1>6, <1>7

\* No step moves or rewrites a sealed row, and the recorded chain only grows.
THEOREM SealsAreFinal == Spec => SealedForever
<1> DEFINE Extends == /\ \A t \in Sealed : /\ seq'[t] = seq[t]
                                           /\ prevHash'[t] = prevHash[t]
                                           /\ hash'[t] = hash[t]
                      /\ lastSeq' >= lastSeq
                      /\ SubSeq(head', 1, lastSeq) = head
<1>1. ASSUME Inv, UNCHANGED chainVars PROVE Extends
  <2>1. lastSeq \in Nat /\ head \in Seq(Ids \X Contents) /\ Len(head) = lastSeq
    BY <1>1 DEF Inv, TypeOK, ChainIntact
  <2>2. SubSeq(head', 1, lastSeq) = head
    BY <1>1, <2>1, WholePrefix DEF chainVars
  <2> QED
    BY <1>1, <2>1, <2>2 DEF chainVars
<1>2. ASSUME Inv, Next PROVE Extends
  <2>1. CASE \E c \in Chainers : CommitBatch(c)
    BY <1>2, <2>1, CommitExtends
  <2>2. CASE ~ \E c \in Chainers : CommitBatch(c)
    <3>1. UNCHANGED chainVars
      BY <1>2, <2>2
      DEF Next, Insert, Age, Alter, ChainerStep, Tick, LockState, Scan, RollbackBatch,
          VerifyStep, StartVerify, VerifyPage, EndVerify, ForgetVerdict
    <3> QED
      BY <1>1, <1>2, <3>1
  <2> QED
    BY <2>1, <2>2
<1>3. Inv /\ [Next]_vars => [Extends]_vars
  BY <1>2
<1> QED
  BY <1>3, InvHolds, PTL DEF Spec, SealedForever

------------------------------------------------------------------------------
Row == Ids \X Contents

\* The page shows every row before one that it shows.
LEMMA PageIsPrefix ==
  ASSUME Inv, NEW t \in NextPage, NEW s \in Ahead, seq[s] <= seq[t]
  PROVE  s \in NextPage
<1> DEFINE below(x) == {r \in Ahead : seq[r] < seq[x]}
<1>1. t \in Ahead /\ Cardinality(below(t)) < Page /\ Page \in Nat
  BY HashChainAssumption DEF NextPage
<1>2. \A r \in Ahead : r \in Sealed /\ r \in Ids /\ seq[r] \in 1 .. lastSeq
  BY DEF Ahead, Sealed, Inv, TypeOK, ChainIntact
<1>3. below(s) \in SUBSET below(t)
  <2>1. \A r \in Ahead : seq[r] < seq[s] => seq[r] < seq[t]
    BY <1>1, <1>2 DEF Inv, TypeOK
  <2> QED
    BY <2>1
<1>4. IsFiniteSet(below(t))
  <2> DEFINE f == [r \in below(t) |-> seq[r]]
  <2>1. f \in Injection(below(t), 1 .. lastSeq)
    <3>1. f \in [below(t) -> 1 .. lastSeq]
      BY <1>2
    <3>2. \A a, b \in below(t) : f[a] = f[b] => a = b
      BY <1>2 DEF Inv, ChainIntact
    <3> QED
      BY <3>1, <3>2 DEF Injection, IsInjective
  <2>2. IsFiniteSet(1 .. lastSeq)
    BY FS_Interval DEF Inv, TypeOK
  <2> HIDE DEF f, below
  <2> QED
    BY <2>1, <2>2, FS_Injection
<1> HIDE DEF below
<1>5. /\ Cardinality(below(s)) <= Cardinality(below(t))
      /\ Cardinality(below(s)) \in Nat /\ Cardinality(below(t)) \in Nat
  BY <1>3, <1>4, FS_Subset, FS_CardinalityType
<1>6. Cardinality(below(s)) < Page
  BY <1>1, <1>5
<1> QED
  BY <1>6 DEF NextPage, below

\* While rows are ahead, the page starts with the next position.
LEMMA PageNotEmpty ==
  ASSUME Inv, ReplayOK, verifier.phase = "replay", Ahead # {} PROVE NextPage # {}
<1>1. PICK s \in Ahead : TRUE
  OBVIOUS
<1>2. /\ s \in Sealed /\ seq[s] \in Nat /\ seq[s] <= lastSeq /\ seq[s] > verifier.last
      /\ verifier.last \in Nat /\ lastSeq \in Nat
  BY DEF Ahead, Sealed, Inv, TypeOK, ChainIntact, ReplayOK
<1>3. verifier.last + 1 \in 1 .. lastSeq
  BY <1>2
<1>4. PICK t \in Sealed : seq[t] = verifier.last + 1
  BY <1>3 DEF Inv, ChainIntact
<1>5. t \in Ahead
  BY <1>2, <1>4 DEF Ahead
<1>6. {r \in Ahead : seq[r] < seq[t]} = {}
  <2>1. \A r \in Ahead : seq[r] \in Nat /\ seq[r] > verifier.last
    BY DEF Ahead, Sealed, Inv, TypeOK
  <2> QED
    BY <1>2, <1>4, <2>1
<1>7. Cardinality({r \in Ahead : seq[r] < seq[t]}) < Page
  <2>1. Cardinality({r \in Ahead : seq[r] < seq[t]}) = 0
    BY <1>6, FS_EmptySet
  <2> QED
    BY <2>1, HashChainAssumption
<1> QED
  BY <1>5, <1>7 DEF NextPage

\* A set of rows has one with the highest position.
LEMMA HighestRow ==
  ASSUME Inv, NEW P \in SUBSET Sealed, P # {}
  PROVE  \E t \in P : \A s \in P : seq[s] <= seq[t]
<1> DEFINE left == {lastSeq - seq[t] : t \in P}
<1>1. \A t \in P : seq[t] \in Nat /\ seq[t] <= lastSeq /\ lastSeq \in Nat
  BY DEF Sealed, Inv, TypeOK, ChainIntact
<1>2. left \subseteq Nat /\ left # {}
  BY <1>1
<1>3. PICK n \in left : \A m \in left : ~ (<<m, n>> \in OpToRel(<, Nat))
  <2> HIDE DEF left
  <2> QED
    BY <1>2, WFMin, NatLessThanWellFounded
<1>4. \A m \in left : ~ (m < n)
  BY <1>2, <1>3 DEF OpToRel
<1>5. PICK t \in P : n = lastSeq - seq[t]
  BY <1>3
<1>6. ASSUME NEW s \in P PROVE seq[s] <= seq[t]
  <2>1. ~ (lastSeq - seq[s] < n)
    BY <1>4
  <2>2. seq[s] \in Nat /\ seq[t] \in Nat /\ lastSeq \in Nat
    BY <1>1
  <2> HIDE DEF left
  <2> QED
    BY <1>5, <2>1, <2>2
<1> QED
  BY <1>6
\* The head before a sealed row, and the head after it.
LEMMA SealedHashes ==
  ASSUME Inv, NEW t \in Sealed
  PROVE  /\ t \in Ids /\ seq[t] \in 1 .. lastSeq /\ seq[t] \in Nat
         /\ prevHash[t] = SubSeq(head, 1, seq[t] - 1)
         /\ hash[t] = SubSeq(head, 1, seq[t])
<1>1. t \in Ids /\ seq[t] # 0 /\ seq[t] \in Nat /\ lastSeq \in Nat
  BY DEF Sealed, Inv, TypeOK
<1>2. /\ seq[t] <= lastSeq
      /\ prevHash[t] = SubSeq(head, 1, seq[t] - 1)
      /\ hash[t] = SubSeq(head, 1, seq[t])
  BY DEF Inv, ChainIntact
<1> QED
  BY <1>1, <1>2

\* A prefix of the head is a chain of rows.
LEMMA HeadPrefix ==
  ASSUME Inv, NEW k \in 0 .. lastSeq PROVE SubSeq(head, 1, k) \in Seq(Row)
<1>1. head \in Seq(Row) /\ Len(head) = lastSeq /\ lastSeq \in Nat
  BY DEF Inv, TypeOK, ChainIntact, Row
<1> HIDE DEF Row
<1> QED
  BY <1>1

\* A row that links to the running head as stored is not edited.
LEMMA LinkedIsClean == ASSUME NEW t, NEW h, LinkOK(t, h) PROVE ~Dirty(t)
BY DEF LinkOK, Dirty

\* A row that fits its stored link continues the head before it.
LEMMA CleanIsLinked ==
  ASSUME NEW t, NEW h, ~Dirty(t), prevHash[t] = h PROVE LinkOK(t, h)
BY DEF LinkOK, Dirty

\* The verifier before anything is sealed.
LEMMA InitVerifierInv == Init => VerifierInv
<1> SUFFICES ASSUME Init PROVE VerifierInv
  OBVIOUS
<1>1. Sealed = {} /\ verifier = Idle
  BY DEF Init, Sealed
<1>2. << >> \in Seq(Row)
  OBVIOUS
<1> QED
  BY <1>1, <1>2 DEF VerifierInv, Idle, Genesis, Row, DirtyIsEdited, ReplayOK, VerifierIsRight,
     NoFalseAlarm, AlterationFound, VerifiedInFull

\* What a step of the table or of a chainer does to the verifier's invariant:
\* the chain grows, sealed rows stay, edits only accumulate.
LEMMA VerifierWaits ==
  ASSUME Inv, VerifierInv, UNCHANGED verifier, altered \subseteq altered',
         \A t \in Sealed : /\ seq'[t] = seq[t] /\ seq'[t] # 0
                           /\ prevHash'[t] = prevHash[t] /\ hash'[t] = hash[t],
         \A k \in 0 .. lastSeq : SubSeq(head', 1, k) = SubSeq(head, 1, k),
         lastSeq' \in Nat, lastSeq' >= lastSeq, DirtyIsEdited'
  PROVE  VerifierInv'
<1>1. /\ verifier' \in [phase : {"idle", "replay", "verified", "broken"}, endSeq : Nat,
                        endHead : Seq(Ids \X Contents), last : Nat,
                        head : Seq(Ids \X Contents), dirty : SUBSET Ids]
  BY DEF VerifierInv
<1>2. VerifierIsRight'
  BY DEF VerifierInv, VerifierIsRight, NoFalseAlarm, AlterationFound, VerifiedInFull
<1>3. ReplayOK'
  <2> SUFFICES ASSUME verifier.phase = "replay" PROVE ReplayOK'
    BY DEF ReplayOK
  <2>1. /\ verifier.last \in 0 .. lastSeq
        /\ verifier.head = SubSeq(head, 1, verifier.last)
        /\ verifier.endSeq \in 0 .. lastSeq
        /\ verifier.endHead = SubSeq(head, 1, verifier.endSeq)
        /\ verifier.dirty \subseteq {t \in Ahead : Dirty(t)}
        /\ lastSeq \in Nat
    BY DEF VerifierInv, ReplayOK, Inv, TypeOK
  <2>2. ASSUME NEW t \in verifier.dirty PROVE t \in Ahead' /\ Dirty(t)'
    <3>1. t \in Sealed /\ seq[t] > verifier.last /\ Dirty(t) /\ t \in Ids
      BY <2>1 DEF Ahead, Sealed
    <3>2. t \in Ahead'
      BY <3>1 DEF Ahead, Sealed
    <3>3. t \in altered
      BY <3>1 DEF VerifierInv, DirtyIsEdited
    <3>4. ChainRow(t)' = ChainRow(t)
      BY <3>3 DEF ChainRow
    <3>5. Dirty(t)'
      BY <3>1, <3>4 DEF Dirty, ComputeChainHash
    <3> QED
      BY <3>2, <3>5
  <2>3. /\ verifier.last \in 0 .. lastSeq' /\ verifier.endSeq \in 0 .. lastSeq'
        /\ verifier.head = SubSeq(head', 1, verifier.last)
        /\ verifier.endHead = SubSeq(head', 1, verifier.endSeq)
    <3>1. /\ SubSeq(head', 1, verifier.last) = SubSeq(head, 1, verifier.last)
          /\ SubSeq(head', 1, verifier.endSeq) = SubSeq(head, 1, verifier.endSeq)
      BY <2>1
    <3>2. verifier.last \in 0 .. lastSeq' /\ verifier.endSeq \in 0 .. lastSeq'
      BY <2>1
    <3> QED
      BY <2>1, <3>1, <3>2
  <2> QED
    BY <2>2, <2>3 DEF ReplayOK
<1> QED
  BY <1>1, <1>2, <1>3 DEF VerifierInv
\* One more element of a prefix.
LEMMA PrefixStep ==
  ASSUME NEW S, NEW s \in Seq(S), NEW k \in 1 .. Len(s)
  PROVE  SubSeq(s, 1, k) = Append(SubSeq(s, 1, k - 1), s[k])
<1>1. k - 1 \in 0 .. Len(s) /\ k \in Nat /\ Len(s) \in Nat
  OBVIOUS
<1>2. SubSeq(s, 1, k) = [i \in 1 .. k |-> s[i]]
  OBVIOUS
<1>3. SubSeq(s, 1, k - 1) = [i \in 1 .. k - 1 |-> s[i]]
  BY <1>1
<1>4. PICK p : p = SubSeq(s, 1, k - 1)
  OBVIOUS
<1>5. p \in Seq(S) /\ Len(p) = k - 1 /\ \A i \in 1 .. k - 1 : p[i] = s[i]
  <2>1. \A i \in 1 .. k - 1 : s[i] \in S
    BY <1>1
  <2>2. p = [i \in 1 .. k - 1 |-> s[i]]
    BY <1>3, <1>4
  <2>3. p \in [1 .. k - 1 -> S]
    BY <2>1, <2>2
  <2>4. k - 1 \in Nat
    BY <1>1
  <2>5. p \in Seq(S) /\ Len(p) = k - 1
    BY <2>3, <2>4, SeqOfFunction
  <2> QED
    BY <2>2, <2>5
<1>6. s[k] \in S
  BY <1>1
<1>7. /\ Append(p, s[k]) \in Seq(S) /\ Len(Append(p, s[k])) = k
      /\ \A i \in 1 .. k : Append(p, s[k])[i] = IF i = k THEN s[k] ELSE p[i]
  BY <1>1, <1>5, <1>6
<1>8. Append(p, s[k]) = [i \in 1 .. k |-> Append(p, s[k])[i]]
  BY <1>7
<1>9. \A i \in 1 .. k : Append(p, s[k])[i] = s[i]
  BY <1>1, <1>5, <1>7
<1> QED
  BY <1>2, <1>4, <1>8, <1>9

\* The rows of a committed batch are sealed with the content they have.
LEMMA CommitClean ==
  ASSUME Inv, DirtyIsEdited, NEW c \in Chainers, CommitBatch(c) PROVE DirtyIsEdited'
<1>1. PICK b : b = batch[c]
  OBVIOUS
<1>2. /\ b \in Seq(Ids)
      /\ head' \in Seq(Row)
      /\ Len(head') = lastSeq + Len(b)
      /\ \A i \in 1 .. Len(b) : /\ b[i] \in Ids
                                /\ prevHash'[b[i]] = SubSeq(head', 1, lastSeq + i - 1)
                                /\ hash'[b[i]] = SubSeq(head', 1, lastSeq + i)
      /\ \A t \in Ids : (\A i \in 1 .. Len(b) : b[i] # t) =>
           seq'[t] = seq[t] /\ prevHash'[t] = prevHash[t] /\ hash'[t] = hash[t]
  BY <1>1, CommitFacts DEF Row
<1>3. altered' = altered /\ \A t : ChainRow(t)' = ChainRow(t)
  BY DEF CommitBatch, tableVars, ChainRow
<1>4. head \in Seq(Row) /\ Len(head) = lastSeq /\ lastSeq \in Nat /\ Len(b) \in Nat
  BY <1>2 DEF Inv, TypeOK, ChainIntact, Row
<1>5. ASSUME NEW i \in 1 .. Len(b) PROVE head'[lastSeq + i] = ChainRow(b[i])
  <2> DEFINE e == [j \in 1 .. Len(b) |-> ChainRow(b[j])]
  <2>1. head' = head \o e
    BY <1>1 DEF CommitBatch, HeadAfter
  <2>2. e \in [1 .. Len(b) -> Row] /\ e[i] = ChainRow(b[i])
    BY <1>2, RowType DEF Row
  <2>3. e \in Seq(Row) /\ Len(e) = Len(b)
    <3> HIDE DEF e, Row
    <3> QED
      BY <1>4, <2>2, SeqOfFunction
  <2> HIDE DEF e, Row
  <2>4. (head \o e)[lastSeq + i] = e[i]
    BY <1>4, <2>3
  <2> QED
    BY <2>1, <2>2, <2>4
<1>6. ASSUME NEW i \in 1 .. Len(b) PROVE ~Dirty(b[i])'
  <2>1. lastSeq + i \in 1 .. Len(head')
    BY <1>2, <1>4
  <2>2. SubSeq(head', 1, lastSeq + i) =
          Append(SubSeq(head', 1, (lastSeq + i) - 1), head'[lastSeq + i])
    <3> HIDE DEF Row
    <3> QED
      BY <1>2, <2>1, PrefixStep
  <2>3. hash'[b[i]] = Append(prevHash'[b[i]], ChainRow(b[i]))
    <3>1. /\ prevHash'[b[i]] = SubSeq(head', 1, lastSeq + i - 1)
          /\ hash'[b[i]] = SubSeq(head', 1, lastSeq + i)
      BY <1>2
    <3>2. head'[lastSeq + i] = ChainRow(b[i])
      BY <1>5
    <3>3. (lastSeq + i) - 1 = lastSeq + i - 1
      BY <1>4
    <3> QED
      BY <2>2, <3>1, <3>2, <3>3, Zenon
  <2> QED
    BY <1>3, <2>3 DEF Dirty, ComputeChainHash
<1>7. ASSUME NEW t \in Sealed', Dirty(t)' PROVE t \in altered'
  <2>1. t \in Ids /\ seq'[t] # 0 /\ \A i \in 1 .. Len(b) : b[i] # t
    BY <1>6, <1>7 DEF Sealed
  <2>2. t \in Sealed /\ Dirty(t)
    BY <1>2, <1>3, <1>7, <2>1 DEF Sealed, Dirty, ComputeChainHash
  <2> QED
    BY <1>3, <2>2 DEF DirtyIsEdited
<1> QED
  BY <1>7 DEF DirtyIsEdited
\* Inserts, ageing, edits, and every step of a chainer.
LEMMA ApplicationVerifierInv ==
  ASSUME Inv, VerifierInv, Next, ~VerifyStep PROVE VerifierInv'
<1>1. UNCHANGED verifier /\ altered \subseteq altered'
  BY DEF Next, Insert, Age, Alter, ChainerStep, Tick, LockState, Scan, CommitBatch,
     RollbackBatch, tableVars
<1>2. lastSeq \in Nat /\ lastSeq' \in Nat
  BY NextInv DEF Inv, TypeOK
<1>3. CASE \E c \in Chainers : CommitBatch(c)
  <2>1. PICK c \in Chainers : CommitBatch(c)
    BY <1>3
  <2>2. DirtyIsEdited'
    BY <2>1, CommitClean DEF VerifierInv
  <2>3. \A k \in 0 .. lastSeq : SubSeq(head', 1, k) = SubSeq(head, 1, k)
    BY <2>1, CommitFacts
  <2>4. \A t \in Sealed : /\ seq'[t] = seq[t] /\ seq'[t] # 0
                          /\ prevHash'[t] = prevHash[t] /\ hash'[t] = hash[t]
    BY <2>1, CommitExtends DEF Sealed
  <2>5. lastSeq' >= lastSeq
    BY <2>1, CommitExtends
  <2> QED
    BY <1>1, <1>2, <2>2, <2>3, <2>4, <2>5, VerifierWaits
<1>4. CASE ~ \E c \in Chainers : CommitBatch(c)
  <2>1. UNCHANGED chainVars
    BY <1>4 DEF Next, Insert, Age, Alter, ChainerStep, Tick, LockState, Scan, RollbackBatch
  <2>2. UNCHANGED <<seq, prevHash, hash, lastSeq, head>> /\ Sealed' = Sealed
    BY <2>1 DEF chainVars, Sealed
  <2>3. DirtyIsEdited'
    <3> SUFFICES ASSUME NEW t \in Sealed, Dirty(t)', t \notin altered' PROVE FALSE
      BY <2>2 DEF DirtyIsEdited
    <3>1. ChainRow(t)' = ChainRow(t) /\ t \notin altered
      BY <1>1 DEF ChainRow
    <3>2. Dirty(t)
      BY <2>2, <3>1 DEF Dirty, ComputeChainHash
    <3> QED
      BY <3>1, <3>2 DEF VerifierInv, DirtyIsEdited
  <2>4. \A t \in Sealed : seq[t] # 0
    BY DEF Sealed
  <2>5. lastSeq' >= lastSeq
    BY <1>2, <2>2
  <2> QED
    BY <1>1, <1>2, <2>2, <2>3, <2>4, <2>5, VerifierWaits
<1> QED
  BY <1>3, <1>4

\* A step of the verifier leaves everything else alone.
LEMMA VerifierReads ==
  ASSUME VerifyStep
  PROVE  /\ UNCHANGED <<altered, seq, prevHash, hash, lastSeq, head>>
         /\ Sealed' = Sealed
         /\ \A t : Dirty(t)' = Dirty(t)
<1>1. UNCHANGED <<tableVars, chainVars>>
  BY DEF VerifyStep, StartVerify, VerifyPage, EndVerify, ForgetVerdict
<1> QED
  BY <1>1 DEF tableVars, chainVars, Sealed, Dirty, ChainRow, ComputeChainHash

\* The verification starts with the chain as it is recorded.
LEMMA StartVerifyInv ==
  ASSUME Inv, VerifierInv, StartVerify PROVE VerifierInv'
<1>1. VerifyStep
  BY DEF VerifyStep
<1>2. /\ UNCHANGED <<altered, seq, prevHash, hash, lastSeq, head>>
      /\ Sealed' = Sealed /\ \A t : Dirty(t)' = Dirty(t)
  BY <1>1, VerifierReads
<1>3. verifier' = [phase |-> "replay", endSeq |-> lastSeq, endHead |-> head,
                   last |-> 0, head |-> << >>,
                   dirty |-> {t \in Sealed : Dirty(t)}]
  BY DEF StartVerify, Genesis
<1>4. /\ lastSeq \in Nat /\ head \in Seq(Row) /\ Len(head) = lastSeq
      /\ << >> \in Seq(Row) /\ Sealed \subseteq Ids
      /\ \A t \in Sealed : seq[t] \in Nat /\ seq[t] # 0
  BY DEF Inv, TypeOK, ChainIntact, Row, Sealed
<1>5. SubSeq(head, 1, 0) = << >> /\ SubSeq(head, 1, lastSeq) = head
  <2> HIDE DEF Row
  <2> QED
    BY <1>4, WholePrefix
<1>6. {t \in Sealed : Dirty(t)} \subseteq {t \in Ahead' : Dirty(t)'}
  BY <1>2, <1>3, <1>4 DEF Ahead
<1>7. ReplayOK'
  BY <1>2, <1>3, <1>4, <1>5, <1>6 DEF ReplayOK
<1>8. verifier' \in [phase : {"idle", "replay", "verified", "broken"}, endSeq : Nat,
                     endHead : Seq(Row), last : Nat, head : Seq(Row), dirty : SUBSET Ids]
  <2> HIDE DEF Row
  <2> QED
    BY <1>3, <1>4
<1>9. VerifierIsRight'
  BY <1>3 DEF VerifierIsRight, NoFalseAlarm, AlterationFound, VerifiedInFull
<1>10. DirtyIsEdited'
  BY <1>2 DEF VerifierInv, DirtyIsEdited
<1> QED
  BY <1>7, <1>8, <1>9, <1>10 DEF VerifierInv, Row
\* The running head that a row of the page is compared with.
PageFirst(t) == seq[t] = verifier.last + 1
PageBefore(t) == {s \in NextPage : seq[s] = seq[t] - 1}
PageHead(t) == IF PageFirst(t) THEN verifier.head
               ELSE hash[CHOOSE s \in PageBefore(t) : TRUE]
PageOK == \A t \in NextPage : /\ PageFirst(t) \/ PageBefore(t) # {}
                              /\ LinkOK(t, PageHead(t))
PageLast == CHOOSE t \in NextPage : \A s \in NextPage : seq[s] <= seq[t]

\* Every row of the page has its predecessor on the page, and is compared with
\* the head that the chain had before it.
LEMMA PageHeads ==
  ASSUME Inv, ReplayOK, verifier.phase = "replay", NEW t \in NextPage
  PROVE  /\ PageFirst(t) \/ PageBefore(t) # {}
         /\ PageHead(t) = prevHash[t]
<1>1. t \in Ahead /\ t \in Sealed /\ seq[t] > verifier.last
  BY DEF NextPage, Ahead
<1>2. /\ seq[t] \in 1 .. lastSeq /\ lastSeq \in Nat
      /\ prevHash[t] = SubSeq(head, 1, seq[t] - 1)
  BY <1>1, SealedHashes DEF Inv, TypeOK
<1>3. verifier.last \in 0 .. lastSeq /\ verifier.head = SubSeq(head, 1, verifier.last)
  BY DEF ReplayOK
<1>4. CASE PageFirst(t)
  <2>1. seq[t] - 1 = verifier.last
    BY <1>2, <1>3, <1>4 DEF PageFirst
  <2> QED
    BY <1>2, <1>3, <1>4, <2>1 DEF PageHead
<1>5. CASE ~PageFirst(t)
  <2>1. seq[t] - 1 \in 1 .. lastSeq /\ seq[t] - 1 > verifier.last
    BY <1>1, <1>2, <1>3, <1>5 DEF PageFirst
  <2>2. PICK s \in Sealed : seq[s] = seq[t] - 1
    BY <2>1 DEF Inv, ChainIntact
  <2>3. s \in Ahead /\ seq[s] <= seq[t]
    BY <1>2, <2>1, <2>2 DEF Ahead
  <2>4. s \in PageBefore(t)
    BY <2>2, <2>3, PageIsPrefix DEF PageBefore
  <2>5. ASSUME NEW r \in PageBefore(t) PROVE hash[r] = prevHash[t]
    <3>1. r \in Sealed /\ seq[r] = seq[t] - 1
      BY DEF PageBefore, NextPage, Ahead
    <3>2. hash[r] = SubSeq(head, 1, seq[r])
      BY <3>1, SealedHashes
    <3> QED
      BY <1>2, <3>1, <3>2
  <2>6. (CHOOSE r \in PageBefore(t) : TRUE) \in PageBefore(t)
    BY <2>4
  <2> QED
    BY <1>5, <2>4, <2>5, <2>6 DEF PageHead
<1> QED
  BY <1>4, <1>5

\* The last row of a page has the highest position.
LEMMA LastOfPage ==
  ASSUME Inv, ReplayOK, verifier.phase = "replay", Ahead # {}
  PROVE  /\ PageLast \in NextPage
         /\ \A s \in NextPage : seq[s] <= seq[PageLast]
<1>1. NextPage # {} /\ NextPage \in SUBSET Sealed
  BY PageNotEmpty DEF NextPage, Ahead
<1>2. \E t \in NextPage : \A s \in NextPage : seq[s] <= seq[t]
  BY <1>1, HighestRow
<1> QED
  BY <1>2 DEF PageLast

\* A page that fits moves the running head to its last row; an edited row on
\* it does not fit; one that does not fit holds an edited row.
LEMMA VerifyPageInv ==
  ASSUME Inv, VerifierInv, VerifyPage PROVE VerifierInv'
<1>1. VerifyStep
  BY DEF VerifyStep
<1>2. /\ UNCHANGED <<altered, seq, prevHash, hash, lastSeq, head>>
      /\ Sealed' = Sealed /\ \A t : Dirty(t)' = Dirty(t)
  BY <1>1, VerifierReads
<1>3. DirtyIsEdited'
  BY <1>2 DEF VerifierInv, DirtyIsEdited
<1>4. /\ verifier.phase = "replay" /\ Ahead # {}
      /\ verifier' = IF PageOK
                     THEN [verifier EXCEPT !.last = seq[PageLast], !.head = hash[PageLast]]
                     ELSE [verifier EXCEPT !.phase = "broken"]
  BY DEF VerifyPage, PageOK, PageFirst, PageBefore, PageHead, PageLast
<1>5. /\ verifier \in [phase : {"idle", "replay", "verified", "broken"}, endSeq : Nat,
                       endHead : Seq(Row), last : Nat, head : Seq(Row), dirty : SUBSET Ids]
      /\ ReplayOK
  BY DEF VerifierInv, Row
<1>6. CASE ~PageOK
  <2>1. verifier' = [verifier EXCEPT !.phase = "broken"]
    BY <1>4, <1>6
  <2>2. PICK t \in NextPage : ~LinkOK(t, PageHead(t))
    BY <1>4, <1>5, <1>6, PageHeads DEF PageOK
  <2>3. Dirty(t)
    BY <1>4, <1>5, <2>2, PageHeads, CleanIsLinked
  <2>4. t \in Sealed
    BY DEF NextPage, Ahead
  <2>5. altered # {}
    BY <2>3, <2>4 DEF VerifierInv, DirtyIsEdited
  <2>6. /\ verifier'.phase = "broken"
        /\ verifier' \in [phase : {"idle", "replay", "verified", "broken"}, endSeq : Nat,
                          endHead : Seq(Row), last : Nat, head : Seq(Row),
                          dirty : SUBSET Ids]
    <3> HIDE DEF Row
    <3> QED
      BY <1>5, <2>1
  <2> QED
    BY <1>2, <1>3, <2>5, <2>6 DEF VerifierInv, ReplayOK, VerifierIsRight, NoFalseAlarm,
       AlterationFound, VerifiedInFull, Row
<1>7. CASE PageOK
  <2>1. verifier' = [verifier EXCEPT !.last = seq[PageLast], !.head = hash[PageLast]]
    BY <1>4, <1>7
  <2>2. PageLast \in NextPage /\ \A s \in NextPage : seq[s] <= seq[PageLast]
    BY <1>4, <1>5, LastOfPage
  <2>3. PageLast \in Sealed /\ PageLast \in Ahead
    BY <2>2 DEF NextPage, Ahead
  <2>4. /\ seq[PageLast] \in 1 .. lastSeq /\ lastSeq \in Nat
        /\ hash[PageLast] = SubSeq(head, 1, seq[PageLast])
    BY <2>3, SealedHashes DEF Inv, TypeOK
  <2>5. hash[PageLast] \in Seq(Row)
    <3>1. seq[PageLast] \in 0 .. lastSeq
      BY <2>4
    <3>2. SubSeq(head, 1, seq[PageLast]) \in Seq(Row)
      BY <3>1, HeadPrefix
    <3> QED
      BY <2>4, <3>2
  <2> HIDE DEF PageLast
  <2>6. /\ verifier'.phase = "replay"
        /\ verifier'.last = seq[PageLast] /\ verifier'.head = hash[PageLast]
        /\ verifier'.endSeq = verifier.endSeq /\ verifier'.endHead = verifier.endHead
        /\ verifier'.dirty = verifier.dirty
        /\ verifier' \in [phase : {"idle", "replay", "verified", "broken"}, endSeq : Nat,
                          endHead : Seq(Row), last : Nat, head : Seq(Row),
                          dirty : SUBSET Ids]
    <3> HIDE DEF Row
    <3>1. seq[PageLast] \in Nat
      BY <2>4
    <3> QED
      BY <1>4, <1>5, <2>1, <2>5, <3>1
  <2>7. ASSUME NEW t \in verifier.dirty PROVE t \in Ahead' /\ Dirty(t)'
    <3>1. t \in Ahead /\ Dirty(t) /\ t \in Sealed
      BY <1>4, <1>5 DEF ReplayOK, Ahead
    <3>2. t \notin NextPage
      BY <1>7, <3>1, LinkedIsClean DEF PageOK
    <3>3. ~(seq[t] <= seq[PageLast])
      BY <2>2, <3>1, <3>2, PageIsPrefix
    <3>4. seq[t] > seq[PageLast]
      BY <2>3, <3>1, <3>3, SealedHashes
    <3> QED
      BY <1>2, <2>6, <3>1, <3>4 DEF Ahead
  <2>8. ReplayOK'
    <3>1. /\ verifier'.last \in 0 .. lastSeq /\ verifier'.head = SubSeq(head, 1, verifier'.last)
      BY <2>4, <2>6
    <3>2. /\ verifier'.endSeq \in 0 .. lastSeq
          /\ verifier'.endHead = SubSeq(head, 1, verifier'.endSeq)
      BY <1>4, <1>5, <2>6 DEF ReplayOK
    <3> QED
      BY <1>2, <2>6, <2>7, <3>1, <3>2 DEF ReplayOK
  <2> QED
    BY <1>3, <2>6, <2>8 DEF VerifierInv, VerifierIsRight, NoFalseAlarm, AlterationFound,
       VerifiedInFull, Row
<1> QED
  BY <1>6, <1>7

\* No row is ahead: everything recorded at the start was replayed, no edited
\* row is left, and the running head is the recorded one if it stands there.
LEMMA EndVerifyInv ==
  ASSUME Inv, VerifierInv, EndVerify PROVE VerifierInv'
<1>1. VerifyStep
  BY DEF VerifyStep
<1>2. UNCHANGED altered /\ Sealed' = Sealed /\ \A t : Dirty(t)' = Dirty(t)
  BY <1>1, VerifierReads
<1>3. DirtyIsEdited'
  BY <1>2 DEF VerifierInv, DirtyIsEdited
<1>4. verifier.phase = "replay" /\ Ahead = {} /\ ReplayOK
  BY DEF EndVerify, VerifierInv
<1>5. ~(verifier.last = verifier.endSeq /\ verifier.head # verifier.endHead)
  BY <1>4 DEF ReplayOK
<1>6. verifier' = [verifier EXCEPT !.phase = "verified"]
  BY <1>5 DEF EndVerify
<1>7. verifier.dirty = {}
  BY <1>4 DEF ReplayOK
<1>8. verifier.last >= verifier.endSeq
  <2>1. /\ verifier.last \in 0 .. lastSeq /\ verifier.endSeq \in 0 .. lastSeq
        /\ lastSeq \in Nat
    BY <1>4 DEF ReplayOK, Inv, TypeOK
  <2>2. ASSUME verifier.endSeq > verifier.last PROVE FALSE
    <3>1. verifier.endSeq \in 1 .. lastSeq
      BY <2>1, <2>2
    <3>2. PICK t \in Sealed : seq[t] = verifier.endSeq
      BY <3>1 DEF Inv, ChainIntact
    <3>3. t \in Ahead
      BY <2>2, <3>2 DEF Ahead
    <3> QED
      BY <1>4, <3>3
  <2> QED
    BY <2>1, <2>2
<1>9. /\ verifier'.phase = "verified" /\ verifier'.dirty = verifier.dirty
      /\ verifier'.last = verifier.last /\ verifier'.endSeq = verifier.endSeq
      /\ verifier' \in [phase : {"idle", "replay", "verified", "broken"}, endSeq : Nat,
                        endHead : Seq(Row), last : Nat, head : Seq(Row), dirty : SUBSET Ids]
  <2>1. verifier \in [phase : {"idle", "replay", "verified", "broken"}, endSeq : Nat,
                      endHead : Seq(Row), last : Nat, head : Seq(Row), dirty : SUBSET Ids]
    BY DEF VerifierInv, Row
  <2> HIDE DEF Row
  <2> QED
    BY <1>6, <2>1
<1> QED
  BY <1>3, <1>7, <1>8, <1>9 DEF VerifierInv, ReplayOK, VerifierIsRight, NoFalseAlarm,
     AlterationFound, VerifiedInFull, Row

\* Every step keeps the verifier's invariant.
LEMMA NextVerifierInv ==
  ASSUME Inv, VerifierInv, [Next]_vars PROVE VerifierInv'
<1>1. CASE UNCHANGED vars
  BY <1>1 DEF vars, tableVars, chainVars, VerifierInv, DirtyIsEdited, ReplayOK, Ahead, Sealed,
     Dirty, ChainRow, ComputeChainHash, VerifierIsRight, NoFalseAlarm, AlterationFound,
     VerifiedInFull
<1>2. CASE ForgetVerdict
  <2>1. UNCHANGED altered /\ Sealed' = Sealed /\ \A t : Dirty(t)' = Dirty(t)
    BY <1>2, VerifierReads DEF VerifyStep
  <2>2. verifier' = Idle /\ << >> \in Seq(Row)
    BY <1>2 DEF ForgetVerdict
  <2> QED
    BY <2>1, <2>2 DEF VerifierInv, DirtyIsEdited, ReplayOK, Idle, Genesis, Row,
       VerifierIsRight, NoFalseAlarm, AlterationFound, VerifiedInFull
<1> QED
  BY <1>1, <1>2, ApplicationVerifierInv, StartVerifyInv, VerifyPageInv, EndVerifyInv
  DEF Next, VerifyStep

\* VerifyChain is right in either answer, for any page size and however many
\* batches are sealed while it reads: no false alarm, no edit missed, nothing
\* of the chain it started with left out.
THEOREM VerifierAlwaysRight == Spec => []VerifierIsRight
<1>1. Init => Inv /\ VerifierInv
  BY InitInv, InitVerifierInv
<1>2. Inv /\ VerifierInv /\ [Next]_vars => Inv' /\ VerifierInv'
  BY NextInv, NextVerifierInv
<1>3. VerifierInv => VerifierIsRight
  BY DEF VerifierInv
<1> QED
  BY <1>1, <1>2, <1>3, PTL DEF Spec
==============================================================================
