---------------------------- MODULE BatchProofs ----------------------------
(***************************************************************************)
(* What the two users of paged batches keep.  Bulk requests, rollbacks and *)
(* refunds: for any requests, clients, targets and page size.              *)
(* Reconciliations: for any uploads and ledger and any number of rules,    *)
(* reconciliations and workers, whatever fails or dies.                    *)
(***************************************************************************)
EXTENDS Bulk, Reconciliation, FiniteSetTheorems, TLAPS

(***************************************************************************)
(* Bulk requests.  A movement is made once because only the row or only    *)
(* the copy of it is ever executed, also when the row could not be saved.  *)
(* A rollback that pages by offset loses no member because the list of     *)
(* members does not change while it runs, unless a page cannot be read.    *)
(***************************************************************************)
Statuses == {"QUEUED", "APPLIED", "INFLIGHT", "VOID", "REJECTED"}

\* What the table, the submissions and the bulk request's next member are.
TableTypes ==
  /\ mode \in Modes /\ next \in Nat /\ order \in Seq(Movements)
  /\ DOMAIN table \subseteq Ids
  /\ \A id \in DOMAIN table : Move(id) \in Range(order) /\ table[id] \in Statuses
  /\ DOMAIN moved \subseteq Range(order) /\ DOMAIN queuedParent = Range(order)
  /\ \A p \in pending : p \in [move : Range(order), n : Nat, stage : {"persist", "copy", "original"}]

\* A movement is made by its row or by its copy, and a copy is that of a row
\* that is only QUEUED.
ExecutedOnce ==
  /\ \A t \in Range(order) :
       /\ Status(Copy(t)) # "none" => Status(Row(t)) = "QUEUED"
       /\ t \in DOMAIN moved => moved[t] = 1 /\ Executed \in {Status(Row(t)), Status(Copy(t))}
  /\ \A p \in pending : p.stage = "copy" => Status(Row(p.move)) = "QUEUED"

\* Without the queue, a member is submitted and recorded once, in one step, and
\* only members are listed under the batch.
MembersRecorded ==
  mode.skipQueue =>
    /\ \A p \in pending : ~IsMember(p.move)
    /\ \A t \in Range(order) : queuedParent[t] # Batch
    /\ \A id \in DOMAIN table : IsMember(Move(id)) =>
         Kind(id) # "copy" /\ table[id] = IF Kind(id) = "row" THEN Executed ELSE "VOID"
    /\ \A i \in DOMAIN order : IsMember(order[i]) =>
         /\ order[i][1] < next /\ Row(order[i]) \in DOMAIN table
         /\ \A j \in DOMAIN order : order[j] = order[i] => j = i

\* A row that may be listed for a refund where refunds go through the queue: a
\* member's, or that of a refund which could not be saved as QUEUED.
Returnable(id) == IsMember(Move(id)) \/ (Kind(id) = "row" /\ Status(id) \notin {"none", "QUEUED"})

\* Refunds that go through the queue are listed under themselves only, and are
\* refunds of such rows.
RefundsQueued ==
  ~mode.sync =>
    \A t \in Range(order) :
      /\ IsMember(t) => queuedParent[t] \in {Batch, NoId}
      /\ ~IsMember(t) => queuedParent[t] = Row(t) /\ Returnable(ParentOf(Row(t)))

TableStrong == TableTypes /\ ExecutedOnce /\ MembersRecorded /\ RefundsQueued

\* What the callers do.
CallTypes ==
  /\ outcome \in {"none", "APPLIED", "INFLIGHT", "kept", "rollback failed", "rolled back"}
  /\ pc \in [Callers -> {"idle", "run", "refund", "done"}] /\ parent \in [Callers -> {NoId, Batch} \cup Targets]
  /\ offset \in [Callers -> Nat] /\ jobs \in [Callers -> Seq(Ids)]
  /\ fetching \in [Callers -> BOOLEAN] /\ failed \in [Callers -> BOOLEAN]
  /\ \A l \in lock : Move(l[1]) \in Range(order) /\ l[2] \in Callers
  /\ \A c \in Callers : /\ pc[c] = "refund" => jobs[c] # <<>>
                        /\ fetching[c] => pc[c] \in {"run", "refund"}
                        /\ pc[c] \in {"run", "refund"} => parent[c] # NoId
                        /\ \A i \in DOMAIN jobs[c] : /\ jobs[c][i] \in DOMAIN table
                                                     /\ ~mode.sync => Returnable(jobs[c][i])

\* The members in the order of their submission, and how many came later.
Spots == {i \in DOMAIN order : IsMember(order[i])}
Later(i) == Cardinality({j \in Spots : j > i})

\* The rollback has the row to do, has started to undo it, or knows of a failure.
Cared(id) == UndoUnderWay(id) \/ failed[Batch] \/ \E j \in DOMAIN jobs[Batch] : jobs[Batch][j] = id

RollbackOK ==
  /\ pc[Batch] # "idle" => parent[Batch] = Batch
  /\ pc[Batch] \in {"run", "refund"} => outcome \in {"none", "rollback failed"}
  /\ pc[Batch] = "refund" => ~mode.inflight
  /\ mode.skipQueue /\ pc[Batch] \in {"run", "refund"} =>
       /\ offset[Batch] <= Cardinality(Spots)
       /\ ~fetching[Batch] /\ ~unlisted => offset[Batch] = Cardinality(Spots)
       /\ \A i \in Spots : \A id \in {Row(order[i])} : Later(i) < offset[Batch] => Cared(id)
  /\ mode.skipQueue /\ outcome = "rolled back" /\ ~unlisted =>
       \A i \in Spots : \A id \in {Row(order[i])} : UndoUnderWay(id)

CallStrong == CallTypes /\ RollbackOK

BulkStrong == TableStrong /\ CallStrong

\* What has failed.
FaultOK == unlisted \in BOOLEAN /\ lost \subseteq Movements /\ faults \in Nat /\ faults <= mode.faults

\* What failed is not forgotten.
FaultsStay == (unlisted => unlisted') /\ lost \subseteq lost'

------------------------------------------------------------------------------
\* A function with one more value.
LEMMA PutFacts ==
  ASSUME NEW f, NEW x, NEW v, NEW g, g = Put(f, x, v)
  PROVE  /\ DOMAIN g = {x} \cup DOMAIN f /\ g[x] = v
         /\ \A y \in DOMAIN f : y # x => g[y] = f[y]
BY DEF Put

\* A sequence with one more element.
LEMMA AppendFacts ==
  ASSUME NEW S, NEW s \in Seq(S), NEW e \in S, NEW z, z = Append(s, e)
  PROVE  /\ z \in Seq(S) /\ Len(s) \in Nat /\ Len(z) = Len(s) + 1 /\ z[Len(s) + 1] = e
         /\ DOMAIN s = 1 .. Len(s) /\ DOMAIN z = 1 .. Len(s) + 1
         /\ \A i \in DOMAIN s : z[i] = s[i]
OBVIOUS

\* Its elements.
LEMMA AppendRange ==
  ASSUME NEW S, NEW s \in Seq(S), NEW e \in S, NEW x
  PROVE  x \in Range(Append(s, e)) <=> x \in Range(s) \/ x = e
<1>1. PICK z : z = Append(s, e)
  OBVIOUS
<1>2. /\ Len(s) \in Nat /\ z[Len(s) + 1] = e
      /\ DOMAIN s = 1 .. Len(s) /\ DOMAIN z = 1 .. Len(s) + 1
      /\ \A i \in DOMAIN s : z[i] = s[i]
  BY <1>1, AppendFacts
<1>3. \A i \in DOMAIN z : i \in DOMAIN s \/ i = Len(s) + 1
  BY <1>2
<1>4. Len(s) + 1 \in DOMAIN z /\ \A i \in DOMAIN s : i \in DOMAIN z
  BY <1>2
<1>5. x \in Range(z) <=> x \in Range(s) \/ x = e
  BY <1>2, <1>3, <1>4 DEF Range
<1>6. QED
  BY <1>1, <1>5

\* A row's id says which movement it is of, and of what kind it is.
LEMMA IdFacts ==
  ASSUME NEW id \in Ids
  PROVE  /\ Move(id) \in Movements /\ Kind(id) \in Kinds /\ id = <<Move(id), Kind(id)>>
         /\ VoidOf(id) \in Ids /\ Kind(VoidOf(id)) \in {"rowVoid", "copyVoid"} /\ Move(VoidOf(id)) = Move(id)
<1>1. Move(id) \in Movements /\ Kind(id) \in Kinds /\ id = <<Move(id), Kind(id)>>
  BY DEF Ids, Move, Kind
<1>2. QED
  BY <1>1 DEF VoidOf, Ids, Move, Kind, Kinds

\* The ids of a movement.
LEMMA MoveFacts ==
  ASSUME NEW t \in Movements
  PROVE  /\ Row(t) \in Ids /\ Copy(t) \in Ids /\ Row(t) # Copy(t)
         /\ Move(Row(t)) = t /\ Move(Copy(t)) = t /\ Kind(Row(t)) = "row" /\ Kind(Copy(t)) = "copy"
         /\ t = <<t[1], t[2]>> /\ t[1] \in Nat /\ t[2] \in Seq(Kinds)
BY DEF Row, Copy, Move, Kind, Ids, Movements, Kinds

\* Members are movements.
LEMMA MemberFacts ==
  ASSUME NEW m \in Nat
  PROVE  <<m, <<>>>> \in Movements /\ IsMember(<<m, <<>>>>) /\ <<m, <<>>>>[1] = m
<1>1. <<>> \in Seq(Kinds)
  OBVIOUS
<1>2. PICK q : q = <<>>
  OBVIOUS
<1>3. <<m, q>> \in Movements /\ IsMember(<<m, q>>) /\ <<m, q>>[1] = m
  BY <1>1, <1>2 DEF Movements, IsMember
<1>4. QED
  BY <1>2, <1>3

\* A refund is a movement, no member, one level deeper, and a child of what it
\* refunds (prepareRefundTransaction).
LEMMA RefundFacts ==
  ASSUME NEW id \in Ids
  PROVE  /\ RefundOf(id) \in Movements /\ ~IsMember(RefundOf(id))
         /\ Len(RefundOf(id)[2]) = Len(Move(id)[2]) + 1
         /\ ParentOf(Row(RefundOf(id))) = id
<1>1. PICK m, q, k : m \in Nat /\ q \in Seq(Kinds) /\ k \in Kinds /\ id = <<<<m, q>>, k>>
  BY DEF Ids, Movements
<1>2. PICK z : z = Append(q, k)
  OBVIOUS
<1>3. z \in Seq(Kinds) /\ Len(z) = Len(q) + 1 /\ Len(q) \in Nat /\ z # <<>> /\ z[Len(q) + 1] = k
  BY SMTT(30), <1>1, <1>2
<1>4. RefundOf(id) = <<m, z>> /\ Move(id) = <<m, q>>
  BY <1>1, <1>2 DEF RefundOf, Move, Kind
<1>5. RefundOf(id) \in Movements /\ ~IsMember(RefundOf(id)) /\ Len(RefundOf(id)[2]) = Len(Move(id)[2]) + 1
  BY <1>1, <1>3, <1>4 DEF Movements, IsMember
<1>6. Front(z) = q
  <2>1. Front(z) = SubSeq(z, 1, Len(q))
    BY <1>3 DEF Front
  <2>2. \A i \in 1 .. Len(q) : z[i] = q[i]
    BY <1>1, <1>2
  <2>3. QED
    BY <1>1, <1>3, <2>1, <2>2
<1>7. Last(z) = k
  BY <1>3 DEF Last
<1>8. ParentOf(Row(<<m, z>>)) = <<<<m, q>>, k>>
  <2>1. Move(Row(<<m, z>>)) = <<m, z>> /\ Kind(Row(<<m, z>>)) = "row" /\ ~IsMember(<<m, z>>)
    BY <1>3 DEF Move, Row, Kind, IsMember
  <2>2. QED
    BY <1>6, <1>7, <2>1 DEF ParentOf
<1>9. QED
  BY <1>1, <1>4, <1>5, <1>8

\* Only members have the batch as their parent.
LEMMA ParentFacts ==
  ASSUME NEW id \in Ids
  PROVE  /\ ParentOf(id) \in Ids \cup {Batch}
         /\ ParentOf(id) = Batch <=> Kind(id) = "row" /\ IsMember(Move(id))
         /\ Kind(id) # "row" => Move(ParentOf(id)) = Move(id)
<1>1. PICK m, q, k : m \in Nat /\ q \in Seq(Kinds) /\ k \in Kinds /\ id = <<<<m, q>>, k>>
  BY DEF Ids, Movements
<1>2. Move(id) = <<m, q>> /\ Kind(id) = k /\ (IsMember(Move(id)) <=> q = <<>>)
  BY <1>1 DEF Move, Kind, IsMember
<1>3. Batch \notin Ids
  BY BulkAssumption
<1>4. CASE k # "row"
  <2>1. ParentOf(id) \in {<<<<m, q>>, "row">>, <<<<m, q>>, "copy">>}
    BY <1>1, <1>2, <1>4 DEF ParentOf, Kinds, Row, Copy
  <2>2. QED
    <3>1. ParentOf(id) \in Ids
      BY <1>1, <2>1 DEF Ids, Movements, Kinds
    <3>2. Move(ParentOf(id)) = <<m, q>>
      BY <2>1 DEF Move
    <3>3. QED
      BY <1>2, <1>3, <1>4, <3>1, <3>2
<1>5. CASE k = "row" /\ q = <<>>
  BY SMTT(30), <1>2, <1>5 DEF ParentOf
<1>6. CASE k = "row" /\ q # <<>>
  <2>1. ParentOf(id) = <<<<m, Front(q)>>, Last(q)>>
    BY <1>1, <1>2, <1>6 DEF ParentOf
  <2>2. Front(q) \in Seq(Kinds) /\ Last(q) \in Kinds
    <3>1. Len(q) \in Nat /\ Len(q) > 0
      BY <1>1, <1>6
    <3>2. \A i \in 1 .. Len(q) : q[i] \in Kinds
      BY <1>1
    <3>3. Front(q) \in Seq(Kinds)
      BY <1>1, <3>1, <3>2 DEF Front
    <3>4. QED
      BY <3>1, <3>2, <3>3 DEF Last
  <2>3. ParentOf(id) \in Ids
    BY <1>1, <2>1, <2>2 DEF Ids, Movements
  <2>4. QED
    BY <1>2, <1>3, <1>6, <2>3
<1>7. QED
  BY <1>4, <1>5, <1>6

\* What other steps may rely on: rows stay as they are, and a submission leaves
\* a row behind or is lost.
Grew ==
  /\ mode' = mode /\ Range(order) \subseteq Range(order')
  /\ DOMAIN table \subseteq DOMAIN table' /\ \A id \in DOMAIN table : table'[id] = table[id]
  /\ \A p \in pending : \/ Row(p.move) \in DOMAIN table' \/ p.move \in lost'
                        \/ \E q \in pending' : q.move = p.move
  /\ FaultsStay

\* Without the queue, no member is submitted.
MembersStay == mode.skipQueue => Spots' = Spots /\ \A i \in Spots : order'[i] = order[i]

\* Status tells which rows there are.
LEMMA StatusFacts ==
  ASSUME TableTypes
  PROVE  /\ \A id : Status(id) # "none" <=> id \in DOMAIN table
         /\ \A id \in DOMAIN table : Status(id) = table[id]
         /\ Executed \in {"INFLIGHT", "APPLIED"}
BY DEF TableTypes, Status, Statuses, Executed

\* The members' places do not change when a refund is submitted.
LEMMA SpotsKept ==
  ASSUME order \in Seq(Movements), NEW t \in Movements, ~IsMember(t), order' = Append(order, t)
  PROVE  Spots' = Spots /\ \A i \in Spots : order'[i] = order[i]
<1>1. /\ DOMAIN order = 1 .. Len(order) /\ DOMAIN order' = 1 .. Len(order) + 1
      /\ \A i \in DOMAIN order : order'[i] = order[i]
      /\ order'[Len(order) + 1] = t /\ Len(order) \in Nat
  BY AppendFacts
<1>2. \A i \in DOMAIN order' : i \in DOMAIN order \/ i = Len(order) + 1
  BY <1>1
<1>3. DOMAIN order \subseteq DOMAIN order'
  BY <1>1
<1>4. QED
  BY <1>1, <1>2, <1>3 DEF Spots

\* A submission through the queue (QueueTransaction).
LEMMA AsyncKeeps ==
  ASSUME TableStrong, FaultsStay, NEW t \in Movements, QueueAsync(t), mode' = mode, next' \in {next, next + 1},
         mode.skipQueue => ~IsMember(t), ~mode.sync /\ ~IsMember(t) => Returnable(ParentOf(Row(t)))
  PROVE  TableStrong' /\ Grew /\ MembersStay
<1>1. /\ Range(order') = Range(order) \cup {t} /\ order' \in Seq(Movements) /\ Len(order) \in Nat
      /\ DOMAIN order = 1 .. Len(order) /\ DOMAIN order' = 1 .. Len(order) + 1
      /\ \A i \in DOMAIN order : order'[i] = order[i]
      /\ order'[Len(order) + 1] = t
  <2>1. order \in Seq(Movements) /\ order' = Append(order, t)
    BY DEF QueueAsync, TableStrong, TableTypes
  <2>2. \A x : x \in Range(Append(order, t)) <=> x \in Range(order) \/ x = t
    BY <2>1, AppendRange
  <2>3. QED
    BY <2>1, <2>2, AppendFacts
<1>2. /\ table' = table /\ moved' = moved
      /\ pending' = pending \cup {[move |-> t, n |-> Len(order), stage |-> "persist"]}
  BY DEF QueueAsync
<1>3. PICK v : v = (IF IsMember(t) THEN Batch ELSE Row(t)) /\ queuedParent' = Put(queuedParent, t, v)
  BY DEF QueueAsync
<1>4. /\ DOMAIN queuedParent' = Range(order') /\ queuedParent'[t] = v
      /\ \A u \in Range(order) : u # t => queuedParent'[u] = queuedParent[u]
  <2>1. DOMAIN queuedParent = Range(order)
    BY DEF TableStrong, TableTypes
  <2>2. QED
    BY <1>1, <1>3, <2>1 DEF Put
<1>5. [move |-> t, n |-> Len(order), stage |-> "persist"]
        \in [move : Range(order'), n : Nat, stage : {"persist", "copy", "original"}]
  BY <1>1
<1>6. \A p \in pending : p \in [move : Range(order'), n : Nat, stage : {"persist", "copy", "original"}]
  BY <1>1 DEF TableStrong, TableTypes
<1>7. TableTypes'
  BY <1>1, <1>2, <1>4, <1>5, <1>6 DEF TableStrong, TableTypes
<1>8. \A id : Status(id)' = Status(id)
  BY <1>2 DEF Status
<1>9. Executed' = Executed
  BY DEF Executed
<1>10. t \notin Range(order) => t \notin DOMAIN moved' /\ Status(Copy(t)) = "none"
  BY <1>2, MoveFacts, StatusFacts DEF TableStrong, TableTypes
<1>11. ExecutedOnce'
  <2>1. ASSUME NEW u \in Range(order')
        PROVE  /\ Status(Copy(u))' # "none" => Status(Row(u))' = "QUEUED"
               /\ u \in DOMAIN moved' => moved'[u] = 1 /\ Executed' \in {Status(Row(u))', Status(Copy(u))'}
    <3>1. CASE u \in Range(order)
      BY <1>2, <1>8, <1>9, <3>1 DEF TableStrong, ExecutedOnce
    <3>2. CASE u \notin Range(order)
      BY <1>1, <1>8, <1>10, <3>2
    <3>3. QED
      BY <3>1, <3>2
  <2>2. \A p \in pending' : p.stage = "copy" => Status(Row(p.move))' = "QUEUED"
    BY <1>2, <1>8 DEF TableStrong, ExecutedOnce
  <2>3. QED
    BY <2>1, <2>2 DEF ExecutedOnce
<1>12. v # Batch \/ IsMember(t)
  BY <1>3, BulkAssumption, MoveFacts
<1>13. MembersRecorded'
  <2>1. SUFFICES ASSUME mode.skipQueue PROVE MembersRecorded'
    BY DEF MembersRecorded
  <2>2. ~IsMember(t)
    BY <2>1
  <2>3. \A p \in pending' : ~IsMember(p.move)
    BY <1>2, <2>1, <2>2 DEF TableStrong, MembersRecorded
  <2>4. \A u \in Range(order') : queuedParent'[u] # Batch
    BY <1>1, <1>4, <1>12, <2>1, <2>2 DEF TableStrong, MembersRecorded
  <2>5. \A id \in DOMAIN table' : IsMember(Move(id)) =>
          Kind(id) # "copy" /\ table'[id] = IF Kind(id) = "row" THEN Executed' ELSE "VOID"
    BY <1>2, <1>9, <2>1 DEF TableStrong, MembersRecorded
  <2>6. ASSUME NEW i \in DOMAIN order', IsMember(order'[i])
        PROVE  /\ order'[i][1] < next' /\ Row(order'[i]) \in DOMAIN table'
               /\ \A j \in DOMAIN order' : order'[j] = order'[i] => j = i
    <3>1. \A k \in DOMAIN order' : k \in DOMAIN order \/ k = Len(order) + 1
      BY <1>1
    <3>2. i \in DOMAIN order /\ order'[i] = order[i]
      BY <1>1, <2>2, <2>6, <3>1
    <3>3. order[i] \in Movements
      BY <3>2 DEF TableStrong, TableTypes
    <3>4. order[i][1] < next'
      BY <2>1, <2>6, <3>2, <3>3, MoveFacts DEF TableStrong, TableTypes, MembersRecorded
    <3>5. Row(order'[i]) \in DOMAIN table'
      BY <1>2, <2>1, <2>6, <3>2 DEF TableStrong, MembersRecorded
    <3>6. ASSUME NEW j \in DOMAIN order', order'[j] = order'[i] PROVE j = i
      BY <1>1, <2>1, <2>2, <2>6, <3>1, <3>2, <3>6 DEF TableStrong, MembersRecorded
    <3>7. QED
      BY <3>2, <3>4, <3>5, <3>6
  <2>7. QED
    BY <2>3, <2>4, <2>5, <2>6 DEF MembersRecorded
<1>14. RefundsQueued'
  <2>1. SUFFICES ASSUME ~mode.sync PROVE RefundsQueued'
    BY DEF RefundsQueued
  <2>2. \A x : Returnable(x) => Returnable(x)'
    BY <1>8 DEF Returnable
  <2>3. \A u \in Range(order') : /\ IsMember(u) => queuedParent'[u] \in {Batch, NoId}
                                 /\ ~IsMember(u) => queuedParent'[u] = Row(u) /\ Returnable(ParentOf(Row(u)))
    BY <1>1, <1>3, <1>4, <2>1 DEF TableStrong, RefundsQueued
  <2>4. QED
    BY <2>1, <2>2, <2>3 DEF RefundsQueued
<1>15. MembersStay
  BY SpotsKept DEF QueueAsync, TableStrong, TableTypes, MembersStay
<1>16. Grew
  BY <1>1, <1>2 DEF Grew
<1>17. QED
  BY <1>7, <1>11, <1>13, <1>14, <1>15, <1>16 DEF TableStrong

\* One more row in the table.
LEMMA StatusPut ==
  ASSUME TableTypes, NEW id \in Ids, Status(id) = "none", NEW s \in Statuses, table' = Put(table, id, s),
         mode' = mode
  PROVE  /\ DOMAIN table' = DOMAIN table \cup {id} /\ table'[id] = s
         /\ id \notin DOMAIN table /\ \A x \in DOMAIN table : table'[x] = table[x]
         /\ Status(id)' = s /\ \A x : x # id => Status(x)' = Status(x)
         /\ Executed' = Executed
<1>1. id \notin DOMAIN table
  BY StatusFacts
<1>2. DOMAIN table' = DOMAIN table \cup {id} /\ table'[id] = s /\ \A x \in DOMAIN table : table'[x] = table[x]
  BY <1>1 DEF Put
<1>3. Status(id)' = s
  BY <1>2 DEF Status
<1>4. \A x : x # id => Status(x)' = Status(x)
  BY <1>2 DEF Status
<1>5. QED
  BY <1>1, <1>2, <1>3, <1>4 DEF Executed

\* A movement without a row has not been made and has no copy.
LEMMA Untouched ==
  ASSUME TableStrong, NEW t \in Movements, Status(Row(t)) = "none"
  PROVE  /\ t \notin DOMAIN moved /\ Status(Copy(t)) = "none" /\ Times(t) = 0
         /\ \A p \in pending : p.move = t => p.stage # "copy"
<1>1. Status(Copy(t)) = "none"
  <2>1. CASE t \in Range(order)
    BY <2>1 DEF TableStrong, ExecutedOnce
  <2>2. CASE t \notin Range(order)
    BY <2>2, MoveFacts, StatusFacts DEF TableStrong, TableTypes
  <2>3. QED
    BY <2>1, <2>2
<1>2. t \notin DOMAIN moved
  BY <1>1, StatusFacts DEF TableStrong, TableTypes, ExecutedOnce
<1>3. \A p \in pending : p.move = t => p.stage # "copy"
  BY DEF TableStrong, TableTypes, ExecutedOnce
<1>4. QED
  BY <1>1, <1>2, <1>3 DEF Times

\* A step that only adds a row: the types.
LEMMA TypesPut ==
  ASSUME TableTypes, NEW id \in Ids, Status(id) = "none", NEW s \in Statuses, table' = Put(table, id, s),
         mode' = mode, next' = next, order' = order, queuedParent' = queuedParent,
         Move(id) \in Range(order), DOMAIN moved' \subseteq Range(order),
         \A p \in pending' : p \in [move : Range(order), n : Nat, stage : {"persist", "copy", "original"}]
  PROVE  TableTypes'
<1>1. /\ DOMAIN table' = DOMAIN table \cup {id} /\ table'[id] = s
      /\ \A x \in DOMAIN table : table'[x] = table[x]
  BY StatusPut
<1>2. DOMAIN table' \subseteq Ids
  BY <1>1 DEF TableTypes
<1>3. \A x \in DOMAIN table' : Move(x) \in Range(order') /\ table'[x] \in Statuses
  BY <1>1 DEF TableTypes
<1>4. QED
  BY <1>2, <1>3 DEF TableTypes

\* The members' part, when the row that is added is no member's or a VOID child.
LEMMA MembersPut ==
  ASSUME TableStrong, NEW id \in Ids, Status(id) = "none", NEW s \in Statuses, table' = Put(table, id, s),
         mode' = mode, next' = next, order' = order, queuedParent' = queuedParent,
         mode.skipQueue => ~IsMember(Move(id)) \/ (Kind(id) \in {"rowVoid", "copyVoid"} /\ s = "VOID"),
         \A p \in pending' : \E q \in pending : p.move = q.move
  PROVE  MembersRecorded' /\ MembersStay
<1>1. /\ DOMAIN table' = DOMAIN table \cup {id} /\ table'[id] = s /\ Executed' = Executed
      /\ \A x \in DOMAIN table : table'[x] = table[x]
  BY StatusPut DEF TableStrong
<1>2. MembersStay
  BY DEF MembersStay, Spots
<1>3. SUFFICES ASSUME mode.skipQueue PROVE MembersRecorded'
  BY <1>2 DEF MembersRecorded
<1>4. \A p \in pending' : ~IsMember(p.move)
  BY <1>3 DEF TableStrong, MembersRecorded
<1>5. \A t \in Range(order') : queuedParent'[t] # Batch
  BY <1>3 DEF TableStrong, MembersRecorded
<1>6. \A x \in DOMAIN table' : IsMember(Move(x)) =>
        Kind(x) # "copy" /\ table'[x] = IF Kind(x) = "row" THEN Executed' ELSE "VOID"
  BY <1>1, <1>3 DEF TableStrong, MembersRecorded
<1>7. \A i \in DOMAIN order' : IsMember(order'[i]) =>
         /\ order'[i][1] < next' /\ Row(order'[i]) \in DOMAIN table'
         /\ \A j \in DOMAIN order' : order'[j] = order'[i] => j = i
  BY <1>1, <1>3 DEF TableStrong, MembersRecorded
<1>8. QED
  BY <1>2, <1>4, <1>5, <1>6, <1>7 DEF MembersRecorded

\* The refunds' part.
LEMMA RefundsPut ==
  ASSUME TableStrong, NEW id \in Ids, Status(id) = "none", NEW s \in Statuses, table' = Put(table, id, s),
         mode' = mode, order' = order, queuedParent' = queuedParent
  PROVE  RefundsQueued'
<1>1. \A x : x # id => Status(x)' = Status(x)
  BY StatusPut DEF TableStrong
<1>2. \A x : Returnable(x) => Returnable(x)'
  BY <1>1 DEF Returnable
<1>3. QED
  BY <1>2 DEF TableStrong, RefundsQueued

\* The submitted transaction is persisted, or cannot be (processSingleTransaction).
LEMMA PersistKeeps ==
  ASSUME TableStrong, FaultsStay, NEW p \in pending, Persist(p)
  PROVE  TableStrong' /\ Grew /\ MembersStay
<1>1. /\ p.stage = "persist" /\ p.move \in Range(order) /\ p.n \in Nat
      /\ mode' = mode /\ order' = order /\ queuedParent' = queuedParent /\ moved' = moved /\ next' = next
  BY DEF Persist, TableStrong, TableTypes
<1>2. p.move \in Movements
  BY <1>1 DEF TableStrong, TableTypes, Range
<1>3. PICK t : t = p.move
  OBVIOUS
<1>4. PICK stage \in {"copy", "original"} :
        /\ pending' = (pending \ {p}) \cup {[p EXCEPT !.stage = stage]}
        /\ \/ stage = "copy" /\ Status(Row(t)) = "none" /\ table' = Put(table, Row(t), "QUEUED")
           \/ stage = "original" /\ table' = table
  BY <1>3 DEF Persist
<1>5. PICK q : q = [p EXCEPT !.stage = stage]
  OBVIOUS
<1>6. q.move = t /\ q.stage = stage /\ q \in [move : Range(order), n : Nat, stage : {"persist", "copy", "original"}]
  BY <1>3, <1>4, <1>5 DEF TableStrong, TableTypes
<1>7. \A r \in pending' : /\ r \in [move : Range(order), n : Nat, stage : {"persist", "copy", "original"}]
                          /\ r \in pending \/ r = q
  BY <1>4, <1>5, <1>6 DEF TableStrong, TableTypes
<1>8. \A r \in pending' : \E u \in pending : r.move = u.move
  BY <1>3, <1>6, <1>7
<1>9. \A r \in pending : \E u \in pending' : u.move = r.move
  BY <1>3, <1>4, <1>5, <1>6
<1>10. CASE stage = "original" /\ table' = table
  <2>1. TableTypes'
    BY <1>1, <1>7, <1>10 DEF TableStrong, TableTypes
  <2>2. Executed' = Executed /\ \A id : Status(id)' = Status(id)
    BY <1>1, <1>10 DEF Status, Executed
  <2>3. \A r \in pending' : r.stage = "copy" => Status(Row(r.move))' = "QUEUED"
    BY <1>6, <1>7, <1>10, <2>2 DEF TableStrong, ExecutedOnce
  <2>4. ExecutedOnce'
    BY <1>1, <2>2, <2>3 DEF TableStrong, ExecutedOnce
  <2>5. MembersRecorded'
    BY <1>1, <1>8, <1>10, <2>2 DEF TableStrong, MembersRecorded
  <2>6. RefundsQueued'
    BY <1>1, <2>2 DEF TableStrong, RefundsQueued, Returnable
  <2>7. MembersStay
    BY <1>1 DEF MembersStay, Spots
  <2>8. Grew
    BY <1>1, <1>9, <1>10 DEF Grew
  <2>9. QED
    BY <2>1, <2>4, <2>5, <2>6, <2>7, <2>8 DEF TableStrong
<1>11. CASE Status(Row(t)) = "none" /\ table' = Put(table, Row(t), "QUEUED")
  <2>1. Row(t) \in Ids /\ Move(Row(t)) = t /\ Kind(Row(t)) = "row" /\ "QUEUED" \in Statuses
    BY <1>2, <1>3, MoveFacts DEF Statuses
  <2>2. t \notin DOMAIN moved /\ Status(Copy(t)) = "none"
    BY <1>2, <1>3, <1>11, Untouched
  <2>3. /\ DOMAIN table' = DOMAIN table \cup {Row(t)} /\ \A x \in DOMAIN table : table'[x] = table[x]
        /\ Status(Row(t))' = "QUEUED" /\ Executed' = Executed
        /\ \A x : x # Row(t) => Status(x)' = Status(x)
    BY <1>1, <1>11, <2>1, StatusPut DEF TableStrong
  <2>4. TableTypes'
    BY <1>1, <1>3, <1>7, <1>11, <2>1, TypesPut DEF TableStrong, TableTypes
  <2>5. ASSUME NEW u \in Range(order')
        PROVE  /\ Status(Copy(u))' # "none" => Status(Row(u))' = "QUEUED"
               /\ u \in DOMAIN moved' => moved'[u] = 1 /\ Executed' \in {Status(Row(u))', Status(Copy(u))'}
    <3>1. u \in Range(order) /\ u \in Movements
      BY <1>1 DEF TableStrong, TableTypes, Range
    <3>2. Move(Row(u)) = u /\ Move(Copy(u)) = u /\ Kind(Copy(u)) = "copy"
      BY <3>1, MoveFacts
    <3>3. Status(Copy(u))' = Status(Copy(u))
      BY <2>1, <2>3, <3>2
    <3>4. CASE u = t
      BY <1>1, <2>2, <2>3, <3>3, <3>4
    <3>5. CASE u # t
      <4>1. Status(Row(u))' = Status(Row(u))
        BY <2>1, <2>3, <3>2, <3>5
      <4>2. QED
        BY <1>1, <2>3, <3>1, <3>3, <4>1 DEF TableStrong, ExecutedOnce
    <3>6. QED
      BY <3>4, <3>5
  <2>6. ASSUME NEW r \in pending' PROVE r.stage = "copy" => Status(Row(r.move))' = "QUEUED"
    <3>1. CASE r.move = t
      BY <2>3, <3>1
    <3>2. CASE r.move # t
      <4>1. r \in pending /\ r.move \in Range(order)
        BY <1>6, <1>7, <3>2 DEF TableStrong, TableTypes
      <4>2. r.move \in Movements
        BY <4>1 DEF TableStrong, TableTypes, Range
      <4>3. Row(r.move) # Row(t)
        BY <2>1, <3>2, <4>2, MoveFacts
      <4>4. QED
        BY <2>3, <4>1, <4>3 DEF TableStrong, ExecutedOnce
    <3>3. QED
      BY <3>1, <3>2
  <2>7. ExecutedOnce'
    BY <2>5, <2>6 DEF ExecutedOnce
  <2>8. mode.skipQueue => ~IsMember(t)
    BY <1>3 DEF TableStrong, MembersRecorded
  <2>9. MembersRecorded' /\ MembersStay
    BY <1>1, <1>8, <1>11, <2>1, <2>8, MembersPut
  <2>10. RefundsQueued'
    BY <1>1, <1>11, <2>1, RefundsPut
  <2>11. Grew
    BY <1>1, <1>9, <2>3 DEF Grew
  <2>12. QED
    BY <2>4, <2>7, <2>9, <2>10, <2>11 DEF TableStrong
<1>12. QED
  BY <1>4, <1>10, <1>11

\* A task of the queue ends with a row: the copy, or the submitted transaction
\* itself when that has none.
LEMMA TaskKeeps ==
  ASSUME TableStrong, NEW t \in Range(order), NEW id \in {Row(t), Copy(t)}, Status(id) = "none",
         id = Copy(t) => Status(Row(t)) = "QUEUED",
         NEW s \in Statuses, table' = Put(table, id, s),
         \/ s = Executed /\ moved' = Put(moved, t, Times(t) + 1)
         \/ moved' = moved,
         mode.skipQueue => ~IsMember(t),
         mode' = mode, next' = next, order' = order, queuedParent' = queuedParent, pending' \subseteq pending
  PROVE  TableStrong' /\ MembersStay
<1>1. t \in Movements
  BY DEF TableStrong, TableTypes, Range
<1>2. /\ id \in Ids /\ Move(id) = t /\ Kind(id) \in {"row", "copy"} /\ Row(t) # Copy(t)
      /\ Kind(Row(t)) = "row" /\ Kind(Copy(t)) = "copy"
  BY <1>1, MoveFacts
<1>3. t \notin DOMAIN moved /\ Times(t) = 0 /\ Status(Copy(t)) = "none"
  <2>1. CASE id = Row(t)
    BY <1>1, <2>1, Untouched
  <2>2. CASE id = Copy(t)
    BY <2>2, StatusFacts DEF TableStrong, ExecutedOnce, Times
  <2>3. QED
    BY <2>1, <2>2
<1>4. /\ Status(id)' = s /\ Executed' = Executed
      /\ \A x : x # id => Status(x)' = Status(x)
  BY <1>2, StatusPut DEF TableStrong
<1>5. /\ t \in DOMAIN moved' => moved'[t] = 1 /\ s = Executed
      /\ DOMAIN moved' \subseteq DOMAIN moved \cup {t}
      /\ \A u \in DOMAIN moved : moved'[u] = moved[u]
  BY <1>3 DEF Put
<1>6. TableTypes'
  <2>1. /\ \A p \in pending' : p \in [move : Range(order), n : Nat, stage : {"persist", "copy", "original"}]
        /\ DOMAIN moved' \subseteq Range(order)
    BY <1>5 DEF TableStrong, TableTypes
  <2>2. QED
    BY <1>2, <2>1, TypesPut DEF TableStrong
<1>7. ASSUME NEW u \in Range(order')
      PROVE  /\ Status(Copy(u))' # "none" => Status(Row(u))' = "QUEUED"
             /\ u \in DOMAIN moved' => moved'[u] = 1 /\ Executed' \in {Status(Row(u))', Status(Copy(u))'}
  <2>1. u \in Range(order) /\ u \in Movements
    BY DEF TableStrong, TableTypes, Range
  <2>2. Move(Row(u)) = u /\ Move(Copy(u)) = u
    BY <2>1, MoveFacts
  <2>3. CASE u = t /\ id = Row(t)
    BY <1>2, <1>3, <1>4, <1>5, <2>3
  <2>4. CASE u = t /\ id = Copy(t)
    BY <1>2, <1>4, <1>5, <2>4
  <2>5. CASE u # t
    <3>1. Status(Copy(u))' = Status(Copy(u)) /\ Status(Row(u))' = Status(Row(u))
      BY <1>2, <1>4, <2>2, <2>5
    <3>2. QED
      BY <1>4, <1>5, <2>1, <2>5, <3>1 DEF TableStrong, ExecutedOnce
  <2>6. QED
    BY <2>3, <2>4, <2>5
<1>8. ASSUME NEW r \in pending' PROVE r.stage = "copy" => Status(Row(r.move))' = "QUEUED"
  <2>1. r \in pending /\ r.move \in Range(order)
    BY DEF TableStrong, TableTypes
  <2>2. r.stage = "copy" => Status(Row(r.move)) = "QUEUED"
    BY <2>1 DEF TableStrong, ExecutedOnce
  <2>3. r.stage = "copy" => Row(r.move) # id
    BY <2>2
  <2>4. QED
    BY <1>4, <2>2, <2>3
<1>9. ExecutedOnce'
  BY <1>7, <1>8 DEF ExecutedOnce
<1>10. \A p \in pending' : \E q \in pending : p.move = q.move
  OBVIOUS
<1>11. MembersRecorded' /\ MembersStay
  BY <1>2, <1>10, MembersPut
<1>12. RefundsQueued'
  BY <1>2, RefundsPut
<1>13. QED
  BY <1>6, <1>9, <1>11, <1>12 DEF TableStrong

\* A task ends without a row.
LEMMA TaskEnds ==
  ASSUME TableStrong, table' = table, moved' = moved, pending' \subseteq pending,
         mode' = mode, next' = next, order' = order, queuedParent' = queuedParent
  PROVE  TableStrong' /\ MembersStay
<1>1. TableTypes'
  BY DEF TableStrong, TableTypes
<1>2. Executed' = Executed /\ \A id : Status(id)' = Status(id)
  BY DEF Status, Executed
<1>3. ExecutedOnce'
  BY <1>2 DEF TableStrong, ExecutedOnce
<1>4. MembersRecorded'
  BY <1>2 DEF TableStrong, MembersRecorded
<1>5. RefundsQueued'
  BY <1>2 DEF TableStrong, RefundsQueued, Returnable
<1>6. MembersStay
  BY DEF MembersStay, Spots
<1>7. QED
  BY <1>1, <1>3, <1>4, <1>5, <1>6 DEF TableStrong

\* A task of the queue is done or given up: it leaves a row, or is lost.
LEMMA ExecuteKeeps ==
  ASSUME TableStrong, FaultsStay, NEW p \in pending, Execute(p) \/ GiveUp(p)
  PROVE  TableStrong' /\ Grew /\ MembersStay
<1>1. /\ p.stage \in {"copy", "original"} /\ p.move \in Range(order)
      /\ mode' = mode /\ order' = order /\ queuedParent' = queuedParent /\ next' = next
      /\ pending' = pending \ {p}
  BY DEF Execute, GiveUp, TableStrong, TableTypes
<1>2. PICK t : t = p.move
  OBVIOUS
<1>3. t \in Range(order) /\ t \in Movements
  BY <1>1, <1>2 DEF TableStrong, TableTypes, Range
<1>4. Row(t) \in Ids /\ Copy(t) \in Ids /\ Move(Copy(t)) = t /\ Move(Row(t)) = t
  BY <1>3, MoveFacts
<1>5. PICK id : id = Queued(p)
  OBVIOUS
<1>6. id \in {Row(t), Copy(t)} /\ id \in Ids /\ Move(id) = t
  BY <1>2, <1>4, <1>5 DEF Queued
<1>7. p.stage = "copy" => Status(Row(t)) = "QUEUED"
  BY <1>2 DEF TableStrong, ExecutedOnce
<1>8. (id = Copy(t) => Status(Row(t)) = "QUEUED") /\ (id # Row(t) => Row(t) \in DOMAIN table)
  <2>1. id = Copy(t) => p.stage = "copy"
    BY <1>1, <1>2, <1>3, <1>5, MoveFacts DEF Queued
  <2>2. QED
    BY <1>6, <1>7, <2>1, StatusFacts DEF TableStrong
<1>9. mode.skipQueue => ~IsMember(t)
  BY <1>2 DEF TableStrong, MembersRecorded
<1>10. pending' \subseteq pending /\ \A r \in pending : r.move = t \/ r \in pending'
  BY <1>1, <1>2
<1>11. CASE Status(id) = "none" /\ table' # table
  <2>1. PICK s \in Statuses : /\ table' = Put(table, id, s)
                              /\ \/ s = Executed /\ moved' = Put(moved, t, Times(t) + 1)
                                 \/ moved' = moved
    <3>1. CASE Record(id)
      <4>1. table' = Put(table, id, Executed) /\ moved' = Put(moved, t, Times(t) + 1)
        BY <1>6, <3>1 DEF Record
      <4>2. Executed \in Statuses
        BY StatusFacts DEF Statuses, TableStrong
      <4>3. QED
        BY <4>1, <4>2
    <3>2. CASE table' = Put(table, id, "REJECTED") /\ moved' = moved
      BY <3>2 DEF Statuses
    <3>3. QED
      BY <1>5, <1>11, <3>1, <3>2 DEF Execute, GiveUp
  <2>2. TableStrong' /\ MembersStay
    <3>1. \/ s = Executed /\ moved' = Put(moved, t, Times(t) + 1)
          \/ moved' = moved
      BY <2>1
    <3>2. QED
      BY <1>1, <1>3, <1>6, <1>8, <1>9, <1>10, <1>11, <2>1, <3>1, TaskKeeps
  <2>3. /\ DOMAIN table' = DOMAIN table \cup {id} /\ \A x \in DOMAIN table : table'[x] = table[x]
    BY <1>1, <1>6, <1>11, <2>1, StatusPut DEF TableStrong
  <2>4. Row(t) \in DOMAIN table'
    BY <1>8, <2>3
  <2>5. \A r \in pending : Row(r.move) \in DOMAIN table' \/ \E q \in pending' : q.move = r.move
    BY <1>10, <2>4
  <2>6. Grew
    BY <1>1, <2>3, <2>5 DEF Grew
  <2>7. QED
    BY <2>2, <2>6
<1>12. CASE table' = table /\ moved' = moved /\ (Status(id) # "none" \/ t \in lost')
  <2>1. TableStrong' /\ MembersStay
    BY <1>1, <1>10, <1>12, TaskEnds
  <2>2. Row(t) \in DOMAIN table' \/ t \in lost'
    BY <1>6, <1>8, <1>12, StatusFacts DEF TableStrong
  <2>3. \A r \in pending : \/ Row(r.move) \in DOMAIN table' \/ r.move \in lost'
                           \/ \E q \in pending' : q.move = r.move
    BY <1>10, <2>2
  <2>4. Grew
    BY <1>1, <1>12, <2>3 DEF Grew
  <2>5. QED
    BY <2>1, <2>4
<1>13. QED
  <2>1. \/ Status(id) = "none" /\ table' = Put(table, id, Executed)
        \/ Status(id) = "none" /\ table' = Put(table, id, "REJECTED")
        \/ table' = table /\ moved' = moved /\ (Status(id) # "none" \/ t \in lost')
    BY <1>2, <1>5 DEF Execute, GiveUp, Record
  <2>2. ASSUME Status(id) = "none", NEW s, table' = Put(table, id, s) PROVE table' # table
    <3>1. id \notin DOMAIN table
      BY <2>2, StatusFacts DEF TableStrong
    <3>2. id \in DOMAIN table'
      BY <2>2 DEF Put
    <3>3. QED
      BY <3>1, <3>2
  <2>3. QED
    BY <1>11, <1>12, <2>1, <2>2

\* A hold gets its VOID child (VoidInflightTransaction).
LEMMA VoidKeeps ==
  ASSUME TableStrong, FaultsStay, NEW id \in DOMAIN table, Status(VoidOf(id)) = "none",
         table' = Put(table, VoidOf(id), "VOID"),
         mode' = mode, next' = next, order' = order, queuedParent' = queuedParent, pending' = pending, moved' = moved
  PROVE  TableStrong' /\ Grew /\ MembersStay /\ VoidOf(id) \in DOMAIN table'
<1>1. PICK v : v = VoidOf(id)
  OBVIOUS
<1>2. /\ v \in Ids /\ Move(v) \in Range(order) /\ Kind(v) \in {"rowVoid", "copyVoid"} /\ "VOID" \in Statuses
      /\ Status(v) = "none" /\ table' = Put(table, v, "VOID")
  BY <1>1, IdFacts DEF TableStrong, TableTypes, Statuses
<1>3. /\ DOMAIN table' = DOMAIN table \cup {v} /\ \A x \in DOMAIN table : table'[x] = table[x]
      /\ \A x : x # v => Status(x)' = Status(x)
      /\ Executed' = Executed
  BY <1>2, StatusPut DEF TableStrong
<1>4. TableTypes'
  BY <1>2, TypesPut DEF TableStrong, TableTypes
<1>5. \A u \in Range(order) : Status(Row(u))' = Status(Row(u)) /\ Status(Copy(u))' = Status(Copy(u))
  <2>1. \A u \in Range(order) : u \in Movements
    BY DEF TableStrong, TableTypes, Range
  <2>2. \A u \in Range(order) : Kind(Row(u)) = "row" /\ Kind(Copy(u)) = "copy"
    BY <2>1, MoveFacts
  <2>3. QED
    BY <1>2, <1>3, <2>2
<1>6. \A p \in pending : p.move \in Range(order)
  BY DEF TableStrong, TableTypes
<1>7. ExecutedOnce'
  BY <1>3, <1>5, <1>6 DEF TableStrong, ExecutedOnce
<1>8. \A p \in pending' : \E q \in pending : p.move = q.move
  OBVIOUS
<1>9. MembersRecorded' /\ MembersStay
  BY <1>2, <1>8, MembersPut
<1>10. RefundsQueued'
  BY <1>2, RefundsPut
<1>11. Grew
  BY <1>3 DEF Grew
<1>12. QED
  BY <1>1, <1>3, <1>4, <1>7, <1>9, <1>10, <1>11 DEF TableStrong

\* A submission that is recorded at once (QueueTransaction with skip_queue): a
\* client's refund, or the bulk request's next member.
LEMMA SyncKeeps ==
  ASSUME TableStrong, FaultsStay, NEW t \in Movements, QueueSync(t), mode' = mode,
         \/ ~IsMember(t) /\ next' = next /\ mode.sync /\ Move(ParentOf(Row(t))) \in Range(order)
         \/ mode.skipQueue /\ t = <<next, <<>>>> /\ next' = next + 1
  PROVE  TableStrong' /\ Grew /\ (~IsMember(t) => MembersStay)
<1>1. /\ \A x : x \in Range(order') <=> x \in Range(order) \/ x = t
      /\ order' \in Seq(Movements) /\ Len(order) \in Nat
      /\ DOMAIN order = 1 .. Len(order) /\ DOMAIN order' = 1 .. Len(order) + 1
      /\ \A i \in DOMAIN order : order'[i] = order[i]
      /\ order'[Len(order) + 1] = t
  <2>1. order \in Seq(Movements) /\ order' = Append(order, t)
    BY DEF QueueSync, TableStrong, TableTypes
  <2>2. \A x : x \in Range(Append(order, t)) <=> x \in Range(order) \/ x = t
    BY <2>1, AppendRange
  <2>3. QED
    BY <2>1, <2>2, AppendFacts
<1>2. Row(t) \in Ids /\ Move(Row(t)) = t /\ Kind(Row(t)) = "row"
  BY MoveFacts
<1>3. /\ Status(Row(t)) = "none" /\ table' = Put(table, Row(t), Executed)
      /\ moved' = Put(moved, t, Times(t) + 1) /\ pending' = pending
  BY <1>2 DEF QueueSync, Record
<1>4. /\ t \notin DOMAIN moved /\ Status(Copy(t)) = "none" /\ Times(t) = 0
      /\ \A p \in pending : p.move = t => p.stage # "copy"
  BY <1>3, Untouched
<1>5. Executed \in Statuses
  BY StatusFacts DEF TableStrong, Statuses
<1>6. /\ DOMAIN table' = DOMAIN table \cup {Row(t)} /\ table'[Row(t)] = Executed
      /\ \A x \in DOMAIN table : table'[x] = table[x]
      /\ Status(Row(t))' = Executed /\ Executed' = Executed
      /\ \A x : x # Row(t) => Status(x)' = Status(x)
  BY <1>2, <1>3, <1>5, StatusPut DEF TableStrong
<1>7. /\ DOMAIN moved' = DOMAIN moved \cup {t} /\ moved'[t] = 1
      /\ \A u \in DOMAIN moved : moved'[u] = moved[u]
  BY <1>3, <1>4 DEF Put
<1>8. PICK v : /\ v = IF IsMember(t) THEN NoId ELSE queuedParent[Move(ParentOf(Row(t)))]
               /\ queuedParent' = Put(queuedParent, t, v)
  BY DEF QueueSync
<1>9. /\ DOMAIN queuedParent' = DOMAIN queuedParent \cup {t} /\ queuedParent'[t] = v
      /\ \A u \in DOMAIN queuedParent : u # t => queuedParent'[u] = queuedParent[u]
  BY <1>8 DEF Put
<1>10. DOMAIN queuedParent = Range(order) /\ DOMAIN moved \subseteq Range(order)
  BY DEF TableStrong, TableTypes
<1>11. TableTypes'
  <2>1. mode' \in Modes /\ next' \in Nat
    BY DEF TableStrong, TableTypes
  <2>2. DOMAIN table' \subseteq Ids
    BY <1>2, <1>6 DEF TableStrong, TableTypes
  <2>3. \A id \in DOMAIN table' : Move(id) \in Range(order') /\ table'[id] \in Statuses
    BY <1>1, <1>2, <1>5, <1>6 DEF TableStrong, TableTypes
  <2>4. DOMAIN moved' \subseteq Range(order')
    BY <1>1, <1>7, <1>10
  <2>5. DOMAIN queuedParent' = Range(order')
    BY <1>1, <1>9, <1>10
  <2>6. \A p \in pending' : p \in [move : Range(order'), n : Nat, stage : {"persist", "copy", "original"}]
    BY <1>1, <1>3 DEF TableStrong, TableTypes
  <2>7. QED
    BY <1>1, <2>1, <2>2, <2>3, <2>4, <2>5, <2>6 DEF TableTypes
<1>12. ASSUME NEW u \in Range(order')
       PROVE  /\ Status(Copy(u))' # "none" => Status(Row(u))' = "QUEUED"
              /\ u \in DOMAIN moved' => moved'[u] = 1 /\ Executed' \in {Status(Row(u))', Status(Copy(u))'}
  <2>1. u \in Movements /\ (u \in Range(order) \/ u = t)
    BY <1>1 DEF Range
  <2>2. Move(Row(u)) = u /\ Kind(Copy(u)) = "copy"
    BY <2>1, MoveFacts
  <2>3. Status(Copy(u))' = Status(Copy(u))
    BY <1>2, <1>6, <2>2
  <2>4. CASE u = t
    BY <1>4, <1>6, <1>7, <2>3, <2>4
  <2>5. CASE u # t
    <3>1. Status(Row(u))' = Status(Row(u))
      BY <1>2, <1>6, <2>2, <2>5
    <3>2. QED
      BY <1>6, <1>7, <2>1, <2>3, <2>5, <3>1 DEF TableStrong, ExecutedOnce
  <2>6. QED
    BY <2>4, <2>5
<1>13. ASSUME NEW r \in pending'
       PROVE  r.stage = "copy" => Status(Row(r.move))' = "QUEUED"
  <2>1. r \in pending /\ r.move \in Range(order)
    BY <1>3 DEF TableStrong, TableTypes
  <2>2. r.move \in Movements
    BY <2>1 DEF TableStrong, TableTypes, Range
  <2>3. CASE r.move = t
    BY <1>4, <2>1, <2>3
  <2>4. CASE r.move # t
    <3>1. Row(r.move) # Row(t)
      BY <1>2, <2>2, <2>4, MoveFacts
    <3>2. QED
      BY <1>6, <2>1, <3>1 DEF TableStrong, ExecutedOnce
  <2>5. QED
    BY <2>3, <2>4
<1>14. ExecutedOnce'
  BY <1>12, <1>13 DEF ExecutedOnce
<1>15. MembersRecorded'
  <2>1. SUFFICES ASSUME mode.skipQueue PROVE MembersRecorded'
    BY DEF MembersRecorded
  <2>2. \A p \in pending' : ~IsMember(p.move)
    BY <1>3, <2>1 DEF TableStrong, MembersRecorded
  <2>3. v # Batch
    BY <1>8, <2>1, BulkAssumption DEF TableStrong, MembersRecorded, IsMember
  <2>4. \A u \in Range(order') : queuedParent'[u] # Batch
    BY <1>1, <1>9, <1>10, <2>1, <2>3 DEF TableStrong, MembersRecorded
  <2>5. \A id \in DOMAIN table' : IsMember(Move(id)) =>
          Kind(id) # "copy" /\ table'[id] = IF Kind(id) = "row" THEN Executed' ELSE "VOID"
    BY <1>2, <1>6, <2>1 DEF TableStrong, MembersRecorded
  <2>6. \A k \in DOMAIN order' : k \in DOMAIN order \/ k = Len(order) + 1
    BY <1>1
  <2>7. next' \in {next, next + 1} /\ next \in Nat
    BY DEF TableStrong, TableTypes
  <2>8. \A k \in DOMAIN order : order[k] \in Movements
    BY DEF TableStrong, TableTypes
  <2>9. IsMember(t) => t[1] = next /\ next' = next + 1
    BY MemberFacts, <2>7
  <2>10. \A k \in DOMAIN order : IsMember(order[k]) => order[k] # t
    <3>1. ASSUME NEW k \in DOMAIN order, IsMember(order[k]), order[k] = t PROVE FALSE
      <4>1. t[1] < next
        BY <2>1, <3>1 DEF TableStrong, MembersRecorded
      <4>2. QED
        BY <2>7, <2>9, <3>1, <4>1
    <3>2. QED
      BY <3>1
  <2>11. ASSUME NEW i \in DOMAIN order', IsMember(order'[i])
         PROVE  /\ order'[i][1] < next' /\ Row(order'[i]) \in DOMAIN table'
                /\ \A j \in DOMAIN order' : order'[j] = order'[i] => j = i
    <3>1. CASE i \in DOMAIN order
      <4>1. order'[i] = order[i]
        BY <1>1, <3>1
      <4>2. order[i][1] < next /\ Row(order[i]) \in DOMAIN table /\ \A j \in DOMAIN order : order[j] = order[i] => j = i
        BY <2>1, <2>11, <3>1, <4>1 DEF TableStrong, MembersRecorded
      <4>3. order[i][1] \in Nat
        BY <2>8, <3>1, MoveFacts
      <4>4. ASSUME NEW j \in DOMAIN order', order'[j] = order'[i] PROVE j = i
        BY <1>1, <2>6, <2>10, <2>11, <3>1, <4>1, <4>2, <4>4
      <4>5. order'[i][1] < next'
        BY <2>7, <4>1, <4>2, <4>3
      <4>6. QED
        BY <1>6, <4>1, <4>2, <4>4, <4>5
    <3>2. CASE i = Len(order) + 1
      <4>1. order'[i] = t /\ IsMember(t)
        BY <1>1, <2>11, <3>2
      <4>2. ASSUME NEW j \in DOMAIN order', order'[j] = order'[i] PROVE j = i
        BY <1>1, <2>6, <2>10, <3>2, <4>1, <4>2
      <4>3. t[1] < next'
        BY <2>7, <2>9, <4>1
      <4>4. QED
        BY <1>6, <4>1, <4>2, <4>3
    <3>3. QED
      BY <2>6, <3>1, <3>2
  <2>12. QED
    BY <2>2, <2>4, <2>5, <2>11 DEF MembersRecorded
<1>16. RefundsQueued'
  <2>1. SUFFICES ASSUME ~mode.sync PROVE RefundsQueued'
    BY DEF RefundsQueued
  <2>2. IsMember(t) /\ Len(t[2]) = 0 /\ v = NoId
    BY <1>8, <2>1 DEF IsMember
  <2>3. \A u \in Range(order') : /\ IsMember(u) => queuedParent'[u] \in {Batch, NoId}
                                 /\ ~IsMember(u) => queuedParent'[u] = Row(u) /\ Returnable(ParentOf(Row(u)))
    BY <1>1, <1>9, <1>10, <2>1, <2>2 DEF TableStrong, RefundsQueued
  <2>4. \A x : Returnable(x) => Returnable(x)'
    BY <1>3, <1>6 DEF Returnable
  <2>5. QED
    BY <2>3, <2>4 DEF RefundsQueued
<1>17. ~IsMember(t) => MembersStay
  BY SpotsKept DEF QueueSync, TableStrong, TableTypes, MembersStay
<1>18. Grew
  BY <1>1, <1>3, <1>6 DEF Grew
<1>19. QED
  BY <1>11, <1>14, <1>15, <1>16, <1>17, <1>18 DEF TableStrong

------------------------------------------------------------------------------
\* How many of L come after i.
Above(L, i) == Cardinality({j \in L : j > i})

\* Places are numbered by how many come after them, without gaps: a page is a
\* stretch of such numbers.
LEMMA RankFacts ==
  ASSUME NEW n \in Nat, NEW L \in SUBSET (1 .. n)
  PROVE  /\ IsFiniteSet(L) /\ Cardinality(L) \in Nat
         /\ \A i \in L : Above(L, i) \in 0 .. Cardinality(L) - 1
         /\ \A i, k \in L : Above(L, i) = Above(L, k) => i = k
         /\ \A m \in 0 .. Cardinality(L) - 1 : \E i \in L : Above(L, i) = m
<1>1. IsFiniteSet(L) /\ Cardinality(L) \in Nat
  <2>1. IsFiniteSet(1 .. n)
    BY FS_Interval
  <2>2. QED
    BY <2>1, FS_Subset, FS_CardinalityType
<1>2. ASSUME NEW i \in L, NEW k \in L, i < k PROVE Above(L, k) < Above(L, i)
  <2>1. PICK A, B : A = {j \in L : j > i} /\ B = {j \in L : j > k}
    OBVIOUS
  <2>2. B \subseteq A /\ k \in A /\ k \notin B
    <3>1. \A j \in L : j \in Int
      OBVIOUS
    <3>2. \A j \in L : j > k => j > i
      BY <1>2, <3>1
    <3>3. k > i /\ ~(k > k)
      BY <1>2, <3>1
    <3>4. QED
      BY <2>1, <3>2, <3>3
  <2>3. IsFiniteSet(A) /\ Cardinality(A) \in Nat
    BY <1>1, <2>1, FS_Subset, FS_CardinalityType
  <2>4. IsFiniteSet(B) /\ Cardinality(B) \in Nat /\ Cardinality(B) <= Cardinality(A) /\ (Cardinality(A) = Cardinality(B) => A = B)
    BY <2>2, <2>3, FS_Subset, FS_CardinalityType
  <2>5. Cardinality(B) < Cardinality(A)
    BY <2>2, <2>3, <2>4
  <2>6. QED
    BY <2>1, <2>5 DEF Above
<1>3. ASSUME NEW i \in L PROVE Above(L, i) \in 0 .. Cardinality(L) - 1
  <2>1. PICK A : A = {j \in L : j > i}
    OBVIOUS
  <2>2. A \subseteq L /\ i \notin A
    BY <2>1
  <2>3. Cardinality(A) \in Nat /\ Cardinality(A) <= Cardinality(L) /\ (Cardinality(L) = Cardinality(A) => L = A)
    BY <1>1, <2>2, FS_Subset, FS_CardinalityType
  <2>4. Cardinality(A) < Cardinality(L)
    BY <1>1, <2>2, <2>3
  <2>5. QED
    BY <1>1, <2>1, <2>3, <2>4 DEF Above
<1>4. \A i, k \in L : Above(L, i) = Above(L, k) => i = k
  <2>1. SUFFICES ASSUME NEW i \in L, NEW k \in L, Above(L, i) = Above(L, k) PROVE i = k
    OBVIOUS
  <2>2. Above(L, i) \in Int /\ Above(L, k) \in Int
    BY <1>1, <1>3
  <2>3. ~(i < k) /\ ~(k < i)
    BY <1>2, <2>1, <2>2
  <2>4. QED
    BY <2>3
<1>5. PICK f, T : f = [i \in L |-> Above(L, i)] /\ T = 0 .. Cardinality(L) - 1
  OBVIOUS
<1>6. IsFiniteSet(T) /\ Cardinality(T) = Cardinality(L)
  BY <1>1, <1>5, FS_Interval
<1>7. f \in [L -> T]
  BY <1>3, <1>5
<1>8. \A i, k \in L : f[i] = f[k] => i = k
  BY <1>4, <1>5
<1>9. f \in Injection(L, T)
  BY <1>7, <1>8 DEF Injection, IsInjective
<1>10. f \in Surjection(L, T)
  BY <1>6, <1>9, FS_Injection
<1>11. \A m \in T : \E i \in L : f[i] = m
  BY <1>10 DEF Surjection
<1>12. \A m \in 0 .. Cardinality(L) - 1 : \E i \in L : Above(L, i) = m
  BY <1>5, <1>11
<1>13. QED
  BY <1>1, <1>3, <1>4, <1>12

\* Newest lists the rows it is given, one for each place.
LEMMA NewestFacts ==
  ASSUME order \in Seq(Movements), NEW rows, NEW latest, latest = Latest(rows), NEW list, list = Newest(rows, latest)
  PROVE  /\ latest \in SUBSET (1 .. Len(order)) /\ Len(order) \in Nat
         /\ Cardinality(latest) \in Nat /\ Len(list) = Cardinality(latest)
         /\ list \in Seq(rows)
         /\ \A i \in latest : /\ Above(latest, i) + 1 \in 1 .. Len(list)
                              /\ Move(list[Above(latest, i) + 1]) = order[i]
<1>1. latest \in SUBSET (1 .. Len(order)) /\ Len(order) \in Nat
  BY DEF Latest
<1>2. Cardinality(latest) \in Nat
  BY <1>1, RankFacts
<1>3. PICK size : size = Cardinality(latest) /\ size \in Nat
  BY <1>2
<1>4. list = [n \in 1 .. size |-> CHOOSE id \in rows : \E i \in latest : Move(id) = order[i] /\ Above(latest, i) = n - 1]
  BY <1>3 DEF Newest, Above
<1>5. ASSUME NEW n \in 1 .. size
      PROVE  list[n] \in rows /\ \E i \in latest : Move(list[n]) = order[i] /\ Above(latest, i) = n - 1
  <2>1. n - 1 \in 0 .. size - 1
    BY <1>3
  <2>2. PICK i \in latest : Above(latest, i) = n - 1
    <3>1. \A m \in 0 .. Cardinality(latest) - 1 : \E i \in latest : Above(latest, i) = m
      BY ONLY <1>1, RankFacts
    <3>2. QED
      BY <1>3, <2>1, <3>1
  <2>3. PICK id \in rows : Move(id) = order[i]
    BY DEF Latest
  <2>4. \E id2 \in rows : \E k \in latest : Move(id2) = order[k] /\ Above(latest, k) = n - 1
    BY <2>2, <2>3
  <2>5. list[n] = CHOOSE id2 \in rows : \E k \in latest : Move(id2) = order[k] /\ Above(latest, k) = n - 1
    BY <1>4
  <2>6. QED
    BY <2>4, <2>5
<1>6. list \in [1 .. size -> rows]
  <2>1. DOMAIN list = 1 .. size /\ \A n \in 1 .. size : list[n] \in rows
    BY <1>4, <1>5
  <2>2. list = [n \in 1 .. size |-> list[n]]
    BY <1>4, <2>1
  <2>3. QED
    BY <2>1, <2>2
<1>7. list \in Seq(rows) /\ Len(list) = size
  BY <1>3, <1>6
<1>8. ASSUME NEW i \in latest
      PROVE  /\ Above(latest, i) + 1 \in 1 .. Len(list)
             /\ Move(list[Above(latest, i) + 1]) = order[i]
  <2>1. Above(latest, i) \in 0 .. size - 1
    BY <1>1, <1>3, RankFacts
  <2>2. PICK n : n = Above(latest, i) + 1 /\ n \in 1 .. size
    BY <1>3, <2>1
  <2>3. PICK k \in latest : Move(list[n]) = order[k] /\ Above(latest, k) = n - 1
    BY <1>5, <2>2
  <2>4. Above(latest, k) = Above(latest, i)
    BY <1>3, <2>1, <2>2, <2>3
  <2>5. k = i
    BY <1>1, <2>4, RankFacts
  <2>6. QED
    BY <1>7, <2>2, <2>3, <2>5
<1>9. QED
  BY <1>1, <1>2, <1>3, <1>7, <1>8

\* A page is the stretch that follows the offset, and is empty at the end only.
LEMMA PageFacts ==
  ASSUME NEW S, NEW list \in Seq(S), NEW from \in Nat, NEW page, page = Page(list, from)
  PROVE  /\ page \in Seq(S) /\ Len(page) \in Nat
         /\ from <= Len(list) => from + Len(page) <= Len(list)
         /\ page = <<>> => from >= Len(list)
         /\ \A n \in 1 .. Len(list) : from < n /\ n <= from + Len(page) => page[n - from] = list[n]
<1>1. BatchSize \in Nat /\ BatchSize > 0 /\ Len(list) \in Nat
  BY BulkAssumption
<1>2. PICK to : to = (IF from + BatchSize < Len(list) THEN from + BatchSize ELSE Len(list)) /\ to \in Nat
  BY <1>1
<1>3. page = SubSeq(list, from + 1, to)
  BY <1>2 DEF Page
<1>4. \A i \in 1 .. Len(list) : list[i] \in S
  OBVIOUS
<1>5. to <= Len(list)
  BY <1>1, <1>2
<1>6. page \in Seq(S)
  BY <1>1, <1>2, <1>3, <1>4, <1>5
<1>7. Len(page) = IF from < to THEN to - from ELSE 0
  BY <1>1, <1>2, <1>3
<1>8. ASSUME NEW n \in 1 .. Len(list), from < n, n <= from + Len(page)
      PROVE  page[n - from] = list[n]
  <2>1. PICK k : k = n - from /\ k \in 1 .. Len(page) /\ (from + 1) + k - 1 = n
    BY <1>1, <1>2, <1>7, <1>8
  <2>2. page[k] = list[(from + 1) + k - 1]
    BY <1>1, <1>2, <1>3, <1>5, <1>7, <2>1
  <2>3. QED
    BY <2>1, <2>2
<1>9. page = <<>> => from >= Len(list)
  BY <1>1, <1>2, <1>7
<1>10. QED
  BY <1>1, <1>2, <1>5, <1>6, <1>7, <1>8, <1>9

------------------------------------------------------------------------------
\* A fetcher lists rows of the table, and where refunds go through the queue
\* only members' rows and those of refunds that could not be saved.
LEMMA ListedRows ==
  ASSUME TableStrong, NEW c \in Callers, parent[c] \in {Batch} \cup Targets, c = Batch => parent[c] = Batch
  PROVE  /\ Listed(c) \subseteq DOMAIN table
         /\ ~mode.sync => \A id \in Listed(c) : Returnable(id)
<1>1. PICK p : p = parent[c]
  OBVIOUS
<1>2. Refundable(p) \subseteq DOMAIN table /\ Inflights(p) \subseteq DOMAIN table
  BY DEF Refundable, Inflights
<1>3. Listed(c) = Refundable(p) \/ (p = Batch /\ Listed(c) = Inflights(Batch))
  BY <1>1 DEF Listed
<1>4. SUFFICES ASSUME ~mode.sync, NEW id \in Listed(c), ~IsMember(Move(id)) PROVE Returnable(id)
  BY <1>2, <1>3 DEF Returnable
<1>5. /\ id \in DOMAIN table /\ id \in Ids /\ Move(id) \in Range(order)
  BY <1>2, <1>3 DEF TableStrong, TableTypes
<1>6. Move(id) \in Movements /\ Batch \notin Ids
  BY <1>5, IdFacts, BulkAssumption
<1>7. queuedParent[Move(id)] = Row(Move(id)) /\ Row(Move(id)) \in Ids /\ Move(Row(Move(id))) = Move(id)
  BY <1>4, <1>5, <1>6, MoveFacts DEF TableStrong, RefundsQueued
<1>8. /\ ParentOf(id) # Batch
      /\ Kind(id) # "row" => Move(ParentOf(id)) = Move(id)
  BY <1>4, <1>5, ParentFacts
<1>9. p # Batch => p \in Ids /\ IsMember(Move(p))
  BY <1>1, BulkAssumption DEF IsMember, Move
<1>10. CASE id \in Refundable(p)
  <2>1. \/ id = p
        \/ ParentOf(id) = p /\ table[id] \in {"APPLIED", "VOID"}
        \/ queuedParent[Move(id)] = p
    BY <1>10 DEF Refundable
  <2>2. Kind(id) = "row" /\ table[id] \in {"APPLIED", "VOID"}
    BY <1>4, <1>5, <1>6, <1>7, <1>8, <1>9, <2>1
  <2>3. QED
    BY <1>5, <2>2 DEF Returnable, Status
<1>11. CASE id \in Inflights(Batch)
  <2>1. id = Batch \/ ParentOf(id) = Batch \/ queuedParent[Move(id)] = Batch
    BY <1>11 DEF Inflights
  <2>2. QED
    BY <1>5, <1>6, <1>7, <1>8, <2>1
<1>12. QED
  BY <1>3, <1>10, <1>11

\* The rollback of a request that skipped the queue lists the rows of its
\* members, all of them, one for each, whatever else is in the table.
LEMMA ListedMembers ==
  ASSUME TableStrong, mode.skipQueue, parent[Batch] = Batch
  PROVE  /\ \A id : id \in Listed(Batch) <=> \E i \in Spots : id = Row(order[i])
         /\ Latest(Listed(Batch)) = Spots
<1>1. Batch \notin Ids
  BY BulkAssumption
<1>2. ASSUME NEW i \in Spots
      PROVE  /\ order[i] \in Movements /\ IsMember(order[i]) /\ Row(order[i]) \in DOMAIN table
             /\ table[Row(order[i])] = Executed /\ ParentOf(Row(order[i])) = Batch
             /\ Move(Row(order[i])) = order[i]
  <2>1. i \in DOMAIN order /\ IsMember(order[i])
    BY DEF Spots
  <2>2. order[i] \in Movements
    BY <2>1 DEF TableStrong, TableTypes
  <2>3. Row(order[i]) \in Ids /\ Move(Row(order[i])) = order[i] /\ Kind(Row(order[i])) = "row"
    BY <2>2, MoveFacts
  <2>4. ParentOf(Row(order[i])) = Batch
    BY <2>1, <2>3, ParentFacts
  <2>5. Row(order[i]) \in DOMAIN table
    BY <2>1 DEF TableStrong, MembersRecorded
  <2>6. table[Row(order[i])] = Executed
    BY <2>1, <2>3, <2>5 DEF TableStrong, MembersRecorded
  <2>7. QED
    BY <2>1, <2>2, <2>3, <2>4, <2>5, <2>6
<1>3. ASSUME NEW id \in DOMAIN table, ParentOf(id) = Batch
      PROVE  table[id] = Executed /\ \E i \in Spots : id = Row(order[i])
  <2>1. id \in Ids /\ Move(id) \in Range(order)
    BY DEF TableStrong, TableTypes
  <2>2. Kind(id) = "row" /\ IsMember(Move(id)) /\ id = <<Move(id), Kind(id)>>
    BY <1>3, <2>1, ParentFacts, IdFacts
  <2>3. PICK i \in DOMAIN order : order[i] = Move(id)
    BY <2>1 DEF Range
  <2>4. id = Row(order[i]) /\ i \in Spots
    BY <2>2, <2>3 DEF Row, Spots
  <2>5. table[id] = Executed
    BY <2>2 DEF TableStrong, MembersRecorded
  <2>6. QED
    BY <2>4, <2>5
<1>4. \A id \in DOMAIN table : id # Batch /\ queuedParent[Move(id)] # Batch
  BY <1>1 DEF TableStrong, TableTypes, MembersRecorded
<1>5. \A id : id \in Listed(Batch) <=> id \in DOMAIN table /\ ParentOf(id) = Batch
  <2>1. CASE ~mode.inflight
    <3>1. Listed(Batch) = Refundable(Batch) /\ Executed = "APPLIED"
      BY <2>1 DEF Listed, Executed
    <3>2. QED
      BY <1>3, <1>4, <3>1 DEF Refundable
  <2>2. CASE mode.inflight
    <3>1. Listed(Batch) = Inflights(Batch) /\ Executed = "INFLIGHT"
      BY <2>2 DEF Listed, Executed
    <3>2. PICK held : held = {id \in DOMAIN table : /\ table[id] = "INFLIGHT"
                                                     /\ \/ id = Batch \/ ParentOf(id) = Batch
                                                        \/ queuedParent[Move(id)] = Batch}
      OBVIOUS
    <3>3. PICK queued : queued = {id \in DOMAIN table : /\ table[id] = "QUEUED" /\ (id = Batch \/ ParentOf(id) = Batch)
                                                         /\ Status(Copy(Move(id))) \notin {"REJECTED", "INFLIGHT"}}
      OBVIOUS
    <3>4. Listed(Batch) = IF held # {} THEN held ELSE queued
      BY <3>1, <3>2, <3>3 DEF Inflights
    <3>5. \A id : id \in held <=> id \in DOMAIN table /\ ParentOf(id) = Batch
      BY <1>3, <1>4, <3>1, <3>2
    <3>6. queued = {}
      BY <1>3, <1>4, <3>1, <3>3
    <3>7. QED
      BY <3>4, <3>5, <3>6
  <2>3. QED
    BY <2>1, <2>2
<1>6. \A id : id \in Listed(Batch) <=> \E i \in Spots : id = Row(order[i])
  BY <1>2, <1>3, <1>5
<1>7. DOMAIN order = 1 .. Len(order) /\ Len(order) \in Nat
  BY DEF TableStrong, TableTypes
<1>8. ASSUME NEW i \in Spots PROVE i \in Latest(Listed(Batch))
  <2>1. i \in 1 .. Len(order) /\ \E id \in Listed(Batch) : Move(id) = order[i]
    BY <1>2, <1>6, <1>7 DEF Spots
  <2>2. \A j \in DOMAIN order : order[j] = order[i] => j = i
    BY <1>2 DEF TableStrong, MembersRecorded, Spots
  <2>3. \A j \in i + 1 .. Len(order) : order[j] # order[i]
    BY <1>7, <2>1, <2>2
  <2>4. QED
    BY <2>1, <2>3 DEF Latest
<1>9. ASSUME NEW i \in Latest(Listed(Batch)) PROVE i \in Spots
  <2>1. i \in DOMAIN order /\ \E id \in Listed(Batch) : Move(id) = order[i]
    BY <1>7 DEF Latest
  <2>2. QED
    BY <1>2, <1>6, <2>1 DEF Spots
<1>10. QED
  BY <1>6, <1>8, <1>9

\* What undoes a row stays under way: a submission that is gone from the queue
\* has left a row behind.
LEMMA UndoKept ==
  ASSUME TableStrong, TableStrong', Grew
  PROVE  \A id : UndoUnderWay(id) => UndoUnderWay(id)'
<1>1. SUFFICES ASSUME NEW id, UndoUnderWay(id) PROVE UndoUnderWay(id)'
  OBVIOUS
<1>2. \A x : Status(x) # "none" => Status(x)' # "none"
  <2>1. \A x : Status(x) # "none" => x \in DOMAIN table
    BY DEF Status
  <2>2. \A x \in DOMAIN table' : table'[x] \in Statuses
    BY DEF TableStrong, TableTypes
  <2>3. QED
    BY <2>1, <2>2 DEF Status, Statuses, Grew
<1>3. Undo(id)' = Undo(id) /\ mode' = mode
  BY DEF Undo, Grew
<1>4. CASE Status(Undo(id)) # "none"
  BY <1>2, <1>3, <1>4 DEF UndoUnderWay, Undo, Status
<1>5. CASE ~mode.inflight /\ RefundOf(id) \in lost
  BY <1>3, <1>5 DEF UndoUnderWay, Grew, FaultsStay
<1>6. CASE \E p \in pending : ~mode.inflight /\ p.move = RefundOf(id)
  <2>1. PICK p \in pending : ~mode.inflight /\ p.move = RefundOf(id)
    BY <1>6
  <2>2. CASE Row(p.move) \in DOMAIN table'
    <3>1. table'[Row(RefundOf(id))] \in Statuses
      BY <2>1, <2>2 DEF TableStrong, TableTypes
    <3>2. QED
      BY <1>3, <2>1, <2>2, <3>1 DEF UndoUnderWay, Undo, Status, Statuses
  <2>3. CASE \E q \in pending' : q.move = p.move
    BY <1>3, <2>1, <2>3 DEF UndoUnderWay
  <2>4. CASE p.move \in lost'
    BY <1>3, <2>1, <2>4 DEF UndoUnderWay
  <2>5. QED
    BY <2>2, <2>3, <2>4 DEF Grew
<1>7. QED
  BY <1>1, <1>4, <1>5, <1>6 DEF UndoUnderWay

\* A row that may be listed stays one.
LEMMA ReturnKept ==
  ASSUME Grew
  PROVE  \A id : Returnable(id) => Returnable(id)'
<1>1. ASSUME NEW id, Status(id) \notin {"none", "QUEUED"} PROVE Status(id)' = Status(id)
  BY <1>1 DEF Status, Grew
<1>2. QED
  BY <1>1 DEF Returnable

\* So do the jobs of a caller.
LEMMA JobsStay ==
  ASSUME CallTypes, Grew, NEW c \in Callers, jobs'[c] = jobs[c], NEW i \in DOMAIN jobs[c]
  PROVE  jobs[c][i] \in DOMAIN table' /\ (~mode.sync => Returnable(jobs[c][i])')
<1>1. PICK id : id = jobs[c][i] /\ id = jobs'[c][i]
  OBVIOUS
<1>2. id \in DOMAIN table /\ (~mode.sync => Returnable(id))
  BY <1>1 DEF CallTypes
<1>3. id \in DOMAIN table' /\ (~mode.sync => Returnable(id)')
  BY <1>2, ReturnKept DEF Grew
<1>4. Returnable(id)' => Returnable(jobs[c][i])'
  BY <1>1 DEF Returnable
<1>5. QED
  BY <1>1, <1>3, <1>4

\* The members' places, when none is submitted.
LEMMA LaterKept ==
  ASSUME MembersStay, mode.skipQueue, mode' = mode
  PROVE  /\ Spots' = Spots /\ \A i \in Spots : order'[i] = order[i]
         /\ \A i : Later(i)' = Later(i)
BY DEF MembersStay, Later

\* The number of members, and their places from the last.
LEMMA LaterFacts ==
  ASSUME TableStrong
  PROVE  /\ Cardinality(Spots) \in Nat /\ Spots \in SUBSET (1 .. Len(order)) /\ Len(order) \in Nat
         /\ \A i \in Spots : Later(i) = Above(Spots, i) /\ Later(i) \in 0 .. Cardinality(Spots) - 1
<1>1. Spots \in SUBSET (1 .. Len(order)) /\ Len(order) \in Nat
  BY DEF TableStrong, TableTypes, Spots
<1>2. Cardinality(Spots) \in Nat /\ \A i \in Spots : Above(Spots, i) \in 0 .. Cardinality(Spots) - 1
  BY ONLY <1>1, RankFacts
<1>3. QED
  BY <1>1, <1>2 DEF Later, Above

\* What a caller relies on holds while others work on the table.
LEMMA CallsKept ==
  ASSUME BulkStrong, TableStrong', Grew, MembersStay \/ (pc[Batch] = "idle" /\ outcome = "none"),
         pc' = pc, parent' = parent, offset' = offset, jobs' = jobs, fetching' = fetching, failed' = failed,
         outcome' = outcome, lock' \subseteq lock
  PROVE  CallStrong'
<1>1. /\ mode' = mode /\ Range(order) \subseteq Range(order') /\ DOMAIN table \subseteq DOMAIN table'
      /\ ~unlisted' => ~unlisted
  BY DEF Grew, FaultsStay
<1>2. CallTypes'
  <2>1. \A l \in lock' : Move(l[1]) \in Range(order') /\ l[2] \in Callers
    BY <1>1 DEF BulkStrong, CallStrong, CallTypes
  <2>2. \A c \in Callers : \A i \in DOMAIN jobs[c] : jobs[c][i] \in DOMAIN table' /\ (~mode.sync => Returnable(jobs[c][i])')
    BY JobsStay DEF BulkStrong, CallStrong
  <2>3. QED
    BY <1>1, <2>1, <2>2 DEF BulkStrong, CallStrong, CallTypes
<1>3. \A id : UndoUnderWay(id) => UndoUnderWay(id)'
  BY UndoKept DEF BulkStrong
<1>4. \A id : Cared(id) => Cared(id)'
  BY <1>3 DEF Cared
<1>5. ASSUME pc[Batch] = "idle", outcome = "none" PROVE RollbackOK'
  BY <1>5 DEF RollbackOK
<1>6. ASSUME MembersStay PROVE RollbackOK'
  <2>1. mode.skipQueue => /\ Spots' = Spots /\ \A i \in Spots : order'[i] = order[i]
                          /\ \A i : Later(i)' = Later(i)
    BY <1>1, <1>6, LaterKept
  <2>2. RollbackOK
    BY DEF BulkStrong, CallStrong
  <2>3. mode.skipQueue /\ pc[Batch] \in {"run", "refund"} =>
          /\ offset[Batch] <= Cardinality(Spots')
          /\ ~fetching[Batch] /\ ~unlisted' => offset[Batch] = Cardinality(Spots')
          /\ \A i \in Spots' : \A id \in {Row(order'[i])} : Later(i)' < offset[Batch] => Cared(id)'
    BY <1>1, <1>4, <2>1, <2>2 DEF RollbackOK
  <2>4. mode.skipQueue /\ outcome = "rolled back" /\ ~unlisted' =>
          \A i \in Spots' : \A id \in {Row(order'[i])} : UndoUnderWay(id)'
    BY <1>1, <1>3, <2>1, <2>2 DEF RollbackOK
  <2>5. QED
    BY <1>1, <2>2, <2>3, <2>4 DEF RollbackOK
<1>7. QED
  BY <1>2, <1>5, <1>6 DEF CallStrong

\* A worker takes a result: the rollback remembers the failure, or the row is
\* being undone.
LEMMA TookKeeps ==
  ASSUME BulkStrong, TableStrong', Grew, MembersStay, NEW c \in Callers, NEW e \in BOOLEAN,
         pc[c] \in {"run", "refund"}, jobs[c] # <<>>, Took(c, e),
         pc' = [pc EXCEPT ![c] = "run"], parent' = parent, offset' = offset, fetching' = fetching,
         outcome' = outcome, lock' \subseteq lock,
         c = Batch => e \/ \A id \in {jobs[c][1]} : UndoUnderWay(id)'
  PROVE  CallStrong'
<1>1. /\ mode' = mode /\ Range(order) \subseteq Range(order') /\ DOMAIN table \subseteq DOMAIN table'
      /\ ~unlisted' => ~unlisted
  BY DEF Grew, FaultsStay
<1>2. CallTypes
  BY DEF BulkStrong, CallStrong
<1>3. jobs[c] \in Seq(Ids) /\ Len(jobs[c]) \in Nat /\ Len(jobs[c]) > 0
  <2>1. PICK s : s = jobs[c] /\ s \in Seq(Ids) /\ s # <<>>
    BY <1>2 DEF CallTypes
  <2>2. Len(s) \in Nat /\ Len(s) > 0
    BY <2>1
  <2>3. QED
    BY <2>1, <2>2
<1>4. PICK z : z = Tail(jobs[c])
  OBVIOUS
<1>5. /\ z \in Seq(Ids) /\ DOMAIN z = 1 .. Len(jobs[c]) - 1 /\ DOMAIN jobs[c] = 1 .. Len(jobs[c])
      /\ \A i \in DOMAIN z : i + 1 \in DOMAIN jobs[c] /\ z[i] = jobs[c][i + 1]
  BY <1>3, <1>4
<1>6. jobs' = [jobs EXCEPT ![c] = z] /\ failed' = [failed EXCEPT ![c] = @ \/ e]
  BY <1>4 DEF Took
<1>7. /\ jobs'[c] = z /\ \A d \in Callers : d # c => jobs'[d] = jobs[d]
      /\ pc'[c] = "run" /\ \A d \in Callers : d # c => pc'[d] = pc[d]
  BY <1>2, <1>6 DEF CallTypes
<1>8. jobs' \in [Callers -> Seq(Ids)] /\ pc' \in [Callers -> {"idle", "run", "refund", "done"}]
  BY <1>2, <1>5, <1>6 DEF CallTypes
<1>9. failed' \in [Callers -> BOOLEAN] /\ failed'[c] = (failed[c] \/ e) /\ \A d \in Callers : d # c => failed'[d] = failed[d]
  BY <1>2, <1>6, Zenon DEF CallTypes
<1>10. CallTypes'
  <2>1. \A l \in lock' : Move(l[1]) \in Range(order') /\ l[2] \in Callers
    BY <1>1, <1>2 DEF CallTypes
  <2>2. ASSUME NEW d \in Callers
        PROVE  /\ pc'[d] = "refund" => jobs'[d] # <<>>
               /\ fetching'[d] => pc'[d] \in {"run", "refund"}
               /\ pc'[d] \in {"run", "refund"} => parent'[d] # NoId
               /\ \A i \in DOMAIN jobs'[d] : /\ jobs'[d][i] \in DOMAIN table'
                                             /\ ~mode'.sync => Returnable(jobs[d][i])'
    <3>1. CASE d = c
      <4>1. parent[c] # NoId /\ parent'[d] = parent[c] /\ pc'[d] = "run"
        BY <1>2, <1>7, <3>1 DEF CallTypes
      <4>2. ASSUME NEW i \in DOMAIN z PROVE z[i] \in DOMAIN table' /\ (~mode.sync => Returnable(jobs[d][i])')
        <5>1. PICK id : id = z[i] /\ id = jobs[c][i + 1] /\ id = jobs'[d][i]
          BY <1>5, <1>7, <3>1
        <5>2. id \in DOMAIN table /\ (~mode.sync => Returnable(id))
          BY <1>2, <1>5, <5>1 DEF CallTypes
        <5>3. ~mode.sync => Returnable(id)'
          BY <5>2, ReturnKept
        <5>4. Returnable(id)' => Returnable(jobs[d][i])'
          BY <5>1 DEF Returnable
        <5>5. QED
          BY <1>1, <5>1, <5>2, <5>3, <5>4
      <4>3. QED
        BY <1>1, <1>7, <3>1, <4>1, <4>2
    <3>2. CASE d # c
      <4>1. /\ pc'[d] = pc[d] /\ jobs'[d] = jobs[d]
            /\ pc[d] = "refund" => jobs[d] # <<>>
            /\ fetching[d] => pc[d] \in {"run", "refund"}
            /\ pc[d] \in {"run", "refund"} => parent[d] # NoId
        BY <1>2, <1>7, <3>2 DEF CallTypes
      <4>2. ASSUME NEW i \in DOMAIN jobs'[d] PROVE jobs'[d][i] \in DOMAIN table' /\ (~mode.sync => Returnable(jobs[d][i])')
        <5>1. i \in DOMAIN jobs[d] /\ jobs'[d][i] = jobs[d][i]
          BY <4>1
        <5>2. QED
          BY <1>2, <4>1, <5>1, JobsStay
      <4>3. QED
        BY <1>1, <4>1, <4>2
    <3>3. QED
      BY <3>1, <3>2
  <2>3. QED
    BY <1>2, <1>8, <1>9, <2>1, <2>2 DEF CallTypes
<1>11. \A id : UndoUnderWay(id) => UndoUnderWay(id)'
  BY UndoKept DEF BulkStrong
<1>12. Batch \in Callers
  BY DEF Callers
<1>13. ASSUME NEW id, Cared(id) PROVE Cared(id)'
  <2>1. CASE UndoUnderWay(id)
    BY <1>11, <2>1 DEF Cared
  <2>2. CASE failed[Batch]
    <3>1. failed'[Batch]
      BY <1>9, <1>12, <2>2
    <3>2. QED
      BY <3>1 DEF Cared
  <2>3. CASE \E j \in DOMAIN jobs[Batch] : jobs[Batch][j] = id
    <3>1. PICK j \in DOMAIN jobs[Batch] : jobs[Batch][j] = id
      BY <2>3
    <3>2. CASE c # Batch
      BY <1>7, <1>12, <3>1, <3>2 DEF Cared
    <3>3. CASE c = Batch /\ j = 1
      <4>1. e \/ UndoUnderWay(id)'
        BY <3>1, <3>3
      <4>2. CASE UndoUnderWay(id)'
        BY <4>2 DEF Cared
      <4>3. CASE e
        <5>1. failed'[Batch]
          BY <1>9, <3>3, <4>3
        <5>2. QED
          BY <5>1 DEF Cared
      <4>4. QED
        BY <4>1, <4>2, <4>3
    <3>4. CASE c = Batch /\ j # 1
      <4>1. j - 1 \in DOMAIN z /\ z[j - 1] = jobs[c][j]
        BY <1>3, <1>4, <1>5, <3>1, <3>4
      <4>2. QED
        BY <1>7, <3>1, <3>4, <4>1 DEF Cared
    <3>5. QED
      BY <3>2, <3>3, <3>4
  <2>4. QED
    BY <1>13, <2>1, <2>2, <2>3 DEF Cared
<1>14. RollbackOK'
  <2>1. mode.skipQueue => /\ Spots' = Spots /\ \A i \in Spots : order'[i] = order[i]
                          /\ \A i : Later(i)' = Later(i)
    BY <1>1, LaterKept
  <2>2. RollbackOK
    BY DEF BulkStrong, CallStrong
  <2>3. /\ pc'[Batch] # "idle" => pc[Batch] # "idle"
        /\ pc'[Batch] \in {"run", "refund"} => pc[Batch] \in {"run", "refund"}
        /\ pc'[Batch] = "refund" => pc[Batch] = "refund"
    BY <1>7, <1>12
  <2>4. mode.skipQueue /\ pc'[Batch] \in {"run", "refund"} =>
          /\ offset[Batch] <= Cardinality(Spots')
          /\ ~fetching[Batch] /\ ~unlisted' => offset[Batch] = Cardinality(Spots')
          /\ \A i \in Spots' : \A id \in {Row(order'[i])} : Later(i)' < offset[Batch] => Cared(id)'
    BY <1>1, <1>13, <2>1, <2>2, <2>3 DEF RollbackOK
  <2>5. mode.skipQueue /\ outcome = "rolled back" /\ ~unlisted' =>
          \A i \in Spots' : \A id \in {Row(order'[i])} : UndoUnderWay(id)'
    BY <1>1, <1>11, <2>1, <2>2 DEF RollbackOK
  <2>6. QED
    BY <1>1, <2>2, <2>3, <2>4, <2>5 DEF RollbackOK
<1>15. QED
  BY <1>10, <1>14 DEF CallStrong

\* A step that leaves the table alone.
LEMMA TableSame ==
  ASSUME TableStrong, FaultsStay, mode' = mode, next' = next, order' = order, table' = table,
         queuedParent' = queuedParent, pending' = pending, moved' = moved
  PROVE  TableStrong' /\ Grew /\ MembersStay
<1>1. pending' \subseteq pending
  OBVIOUS
<1>2. TableStrong' /\ MembersStay
  BY <1>1, TaskEnds
<1>3. Grew
  BY DEF Grew
<1>4. QED
  BY <1>2, <1>3

\* A caller starts its fetcher and its worker (ProcessTransactionInBatches).
LEMMA StartKeeps ==
  ASSUME BulkStrong, TableStrong', Grew, NEW c \in Callers, NEW p \in {Batch} \cup Targets,
         c # Batch => MembersStay, pc[c] = "idle", StartBatches(c, p), outcome' = outcome, lock' \subseteq lock,
         c = Batch => p = Batch /\ outcome = "none"
  PROVE  CallStrong'
<1>1. /\ mode' = mode /\ Range(order) \subseteq Range(order') /\ DOMAIN table \subseteq DOMAIN table'
      /\ ~unlisted' => ~unlisted
  BY DEF Grew, FaultsStay
<1>2. CallTypes /\ RollbackOK
  BY DEF BulkStrong, CallStrong
<1>3. Batch \in Callers
  BY DEF Callers
<1>4. /\ pc' = [pc EXCEPT ![c] = "run"] /\ parent' = [parent EXCEPT ![c] = p]
      /\ offset' = [offset EXCEPT ![c] = 0] /\ jobs' = [jobs EXCEPT ![c] = <<>>]
      /\ fetching' = [fetching EXCEPT ![c] = TRUE] /\ failed' = [failed EXCEPT ![c] = FALSE]
  BY DEF StartBatches
<1>5. /\ pc'[c] = "run" /\ parent'[c] = p /\ offset'[c] = 0 /\ jobs'[c] = <<>>
      /\ \A d \in Callers : d # c => /\ pc'[d] = pc[d] /\ parent'[d] = parent[d]
                                     /\ offset'[d] = offset[d] /\ jobs'[d] = jobs[d]
  BY <1>2, <1>4 DEF CallTypes
<1>6. /\ fetching'[c] = TRUE /\ failed'[c] = FALSE
      /\ \A d \in Callers : d # c => fetching'[d] = fetching[d] /\ failed'[d] = failed[d]
  BY <1>2, <1>4 DEF CallTypes
<1>7. /\ pc' \in [Callers -> {"idle", "run", "refund", "done"}] /\ parent' \in [Callers -> {NoId, Batch} \cup Targets]
      /\ offset' \in [Callers -> Nat]
  BY <1>2, <1>4 DEF CallTypes
<1>8. fetching' \in [Callers -> BOOLEAN] /\ failed' \in [Callers -> BOOLEAN]
  BY <1>2, <1>4 DEF CallTypes
<1>9. jobs' \in [Callers -> Seq(Ids)]
  <2>1. <<>> \in Seq(Ids)
    OBVIOUS
  <2>2. QED
    BY <1>2, <1>4, <2>1 DEF CallTypes
<1>10. p # NoId
  BY BulkAssumption
<1>11. CallTypes'
  <2>1. \A l \in lock' : Move(l[1]) \in Range(order') /\ l[2] \in Callers
    BY <1>1, <1>2 DEF CallTypes
  <2>2. ASSUME NEW d \in Callers
        PROVE  /\ pc'[d] = "refund" => jobs'[d] # <<>>
               /\ fetching'[d] => pc'[d] \in {"run", "refund"}
               /\ pc'[d] \in {"run", "refund"} => parent'[d] # NoId
               /\ \A i \in DOMAIN jobs'[d] : /\ jobs'[d][i] \in DOMAIN table'
                                             /\ ~mode'.sync => Returnable(jobs[d][i])'
    <3>1. CASE d = c
      <4>1. DOMAIN jobs'[d] = {}
        BY <1>5, <3>1
      <4>2. QED
        BY <1>5, <1>10, <3>1, <4>1
    <3>2. CASE d # c
      <4>1. /\ pc'[d] = pc[d] /\ jobs'[d] = jobs[d] /\ parent'[d] = parent[d]
            /\ pc[d] = "refund" => jobs[d] # <<>>
            /\ fetching'[d] => pc[d] \in {"run", "refund"}
            /\ pc[d] \in {"run", "refund"} => parent[d] # NoId
        BY <1>2, <1>5, <1>6, <3>2 DEF CallTypes
      <4>2. ASSUME NEW i \in DOMAIN jobs'[d] PROVE jobs'[d][i] \in DOMAIN table' /\ (~mode.sync => Returnable(jobs[d][i])')
        <5>1. i \in DOMAIN jobs[d] /\ jobs'[d][i] = jobs[d][i]
          BY <4>1
        <5>2. QED
          BY <1>2, <4>1, <5>1, JobsStay
      <4>3. QED
        BY <1>1, <4>1, <4>2
    <3>3. QED
      BY <3>1, <3>2
  <2>3. QED
    BY <1>2, <1>7, <1>8, <1>9, <2>1, <2>2 DEF CallTypes
<1>12. c # Batch /\ mode.skipQueue => /\ Spots' = Spots /\ \A i \in Spots : order'[i] = order[i]
                                      /\ \A i : Later(i)' = Later(i)
  BY <1>1, LaterKept
<1>13. \A id : UndoUnderWay(id) => UndoUnderWay(id)'
  BY UndoKept DEF BulkStrong
<1>14. ASSUME c = Batch PROVE RollbackOK'
  <2>1. Cardinality(Spots') \in Nat /\ \A i \in Spots' : Later(i)' \in Nat
    <3>1. Spots' \in SUBSET (1 .. Len(order')) /\ Len(order') \in Nat
      BY DEF TableStrong, TableTypes, Spots
    <3>2. Cardinality(Spots') \in Nat /\ \A i \in Spots' : Above(Spots', i) \in 0 .. Cardinality(Spots') - 1
      BY ONLY <3>1, RankFacts
    <3>3. QED
      BY <3>2 DEF Later, Above
  <2>2. mode.skipQueue => /\ offset'[Batch] <= Cardinality(Spots')
                          /\ \A i \in Spots' : ~(Later(i)' < offset'[Batch])
    BY <1>5, <1>14, <2>1
  <2>3. pc'[Batch] = "run" /\ parent'[Batch] = Batch /\ fetching'[Batch] = TRUE /\ outcome' = "none"
    BY <1>5, <1>6, <1>14
  <2>4. QED
    BY <1>1, <2>2, <2>3 DEF RollbackOK
<1>15. ASSUME c # Batch PROVE RollbackOK'
  <2>1. /\ pc'[Batch] = pc[Batch] /\ parent'[Batch] = parent[Batch] /\ offset'[Batch] = offset[Batch]
        /\ jobs'[Batch] = jobs[Batch] /\ fetching'[Batch] = fetching[Batch] /\ failed'[Batch] = failed[Batch]
    BY <1>3, <1>5, <1>6, <1>15
  <2>2. \A id : Cared(id) => Cared(id)'
    BY <1>13, <2>1 DEF Cared
  <2>3. mode.skipQueue /\ pc[Batch] \in {"run", "refund"} =>
          /\ offset'[Batch] <= Cardinality(Spots')
          /\ ~fetching'[Batch] /\ ~unlisted' => offset'[Batch] = Cardinality(Spots')
          /\ \A i \in Spots' : \A id \in {Row(order'[i])} : Later(i)' < offset'[Batch] => Cared(id)'
    BY <1>1, <1>2, <1>12, <1>15, <2>1, <2>2 DEF RollbackOK
  <2>4. mode.skipQueue /\ outcome = "rolled back" /\ ~unlisted' =>
          \A i \in Spots' : \A id \in {Row(order'[i])} : UndoUnderWay(id)'
    BY <1>1, <1>2, <1>12, <1>13, <1>15 DEF RollbackOK
  <2>5. QED
    BY <1>1, <1>2, <2>1, <2>3, <2>4 DEF RollbackOK
<1>16. QED
  BY <1>11, <1>14, <1>15 DEF CallStrong

\* The fetcher appends a page (fetchTransactions).
LEMMA FetchKeeps ==
  ASSUME BulkStrong, FaultsStay, NEW c \in Callers, Fetch(c)
  PROVE  BulkStrong'
<1>1. TableStrong /\ CallTypes /\ RollbackOK
  BY DEF BulkStrong, CallStrong
<1>2. /\ mode' = mode /\ next' = next /\ order' = order /\ table' = table /\ queuedParent' = queuedParent
      /\ pending' = pending /\ moved' = moved /\ outcome' = outcome /\ pc' = pc /\ parent' = parent
      /\ failed' = failed /\ lock' = lock
  BY DEF Fetch, tableVars
<1>3. TableStrong' /\ Grew /\ (~unlisted' => ~unlisted)
  BY <1>1, <1>2, TableSame DEF FaultsStay
<1>4. PICK rows, latest : rows = Listed(c) /\ latest = Latest(rows)
  OBVIOUS
<1>5. PICK list : list = Newest(rows, latest)
  OBVIOUS
<1>6. PICK page : page = Page(list, offset[c])
  OBVIOUS
<1>7. /\ fetching[c] /\ jobs' = [jobs EXCEPT ![c] = @ \o page]
      /\ offset' = [offset EXCEPT ![c] = @ + Len(page)] /\ fetching' = [fetching EXCEPT ![c] = page # <<>>]
  BY <1>4, <1>5, <1>6 DEF Fetch
<1>8. pc[c] \in {"run", "refund"} /\ parent[c] \in {Batch} \cup Targets /\ (c = Batch => parent[c] = Batch)
  BY <1>1, <1>7 DEF CallTypes, RollbackOK
<1>9. rows \subseteq DOMAIN table /\ (~mode.sync => \A id \in rows : Returnable(id))
  BY <1>1, <1>4, <1>8, ListedRows
<1>10. DOMAIN table \subseteq Ids /\ order \in Seq(Movements)
  BY <1>1 DEF TableStrong, TableTypes
<1>11. /\ list \in Seq(rows) /\ Len(list) = Cardinality(latest) /\ Cardinality(latest) \in Nat
       /\ \A i \in latest : /\ Above(latest, i) + 1 \in 1 .. Len(list)
                            /\ Move(list[Above(latest, i) + 1]) = order[i]
  BY <1>4, <1>5, <1>10, NewestFacts
<1>12. offset[c] \in Nat /\ jobs[c] \in Seq(Ids)
  BY <1>1 DEF CallTypes
<1>13. PICK from : from = offset[c] /\ from \in Nat
  BY <1>12
<1>14. page = Page(list, from)
  BY <1>6, <1>13
<1>15. /\ page \in Seq(rows) /\ Len(page) \in Nat
       /\ from <= Len(list) => from + Len(page) <= Len(list)
       /\ page = <<>> => from >= Len(list)
       /\ \A n \in 1 .. Len(list) : from < n /\ n <= from + Len(page) => page[n - from] = list[n]
  BY ONLY SMTT(30), <1>11, <1>13, <1>14, PageFacts
<1>16. PICK old, new : old = jobs[c] /\ new = old \o page
  OBVIOUS
<1>17. page \in Seq(Ids) /\ \A i \in 1 .. Len(page) : page[i] \in rows
  <2>1. rows \subseteq Ids
    BY <1>9, <1>10
  <2>2. DOMAIN page = 1 .. Len(page) /\ \A i \in 1 .. Len(page) : page[i] \in rows
    BY <1>15
  <2>3. QED
    BY <1>15, <2>1, <2>2
<1>18. /\ new \in Seq(Ids) /\ Len(old) \in Nat /\ Len(new) = Len(old) + Len(page) /\ DOMAIN new = 1 .. Len(old) + Len(page)
       /\ DOMAIN old = 1 .. Len(old)
       /\ \A i \in 1 .. Len(old) : new[i] = old[i]
       /\ \A i \in 1 .. Len(page) : new[Len(old) + i] = page[i]
  BY <1>12, <1>15, <1>16, <1>17
<1>19. \A i \in DOMAIN new : i \in DOMAIN old \/ (i - Len(old) \in 1 .. Len(page) /\ new[i] = page[i - Len(old)])
  <2>1. \A i \in DOMAIN new : i \in DOMAIN old \/ i - Len(old) \in 1 .. Len(page)
    BY <1>15, <1>18
  <2>2. \A i \in DOMAIN new : Len(old) + (i - Len(old)) = i
    BY <1>18
  <2>3. QED
    BY <1>18, <2>1, <2>2
<1>20. \A i \in DOMAIN new : i \in DOMAIN old \/ new[i] \in rows
  BY <1>17, <1>19
<1>21. /\ jobs'[c] = new /\ offset'[c] = from + Len(page) /\ fetching'[c] = (page # <<>>)
       /\ \A d \in Callers : d # c => jobs'[d] = jobs[d] /\ offset'[d] = offset[d] /\ fetching'[d] = fetching[d]
  BY <1>1, <1>7, <1>13, <1>16 DEF CallTypes
<1>22. CallTypes'
  <2>1. jobs' \in [Callers -> Seq(Ids)]
    BY <1>1, <1>7, <1>16, <1>18 DEF CallTypes
  <2>2. offset' \in [Callers -> Nat]
    <3>1. PICK k \in Nat : k = from + Len(page)
      BY <1>13, <1>15
    <3>2. offset' = [offset EXCEPT ![c] = k]
      BY <1>7, <1>13, <3>1
    <3>3. QED
      BY <1>1, <3>2 DEF CallTypes
  <2>3. fetching' \in [Callers -> BOOLEAN]
    BY <1>1, <1>7 DEF CallTypes
  <2>4. ASSUME NEW d \in Callers
        PROVE  /\ pc[d] = "refund" => jobs'[d] # <<>>
               /\ fetching'[d] => pc[d] \in {"run", "refund"}
               /\ \A i \in DOMAIN jobs'[d] : /\ jobs'[d][i] \in DOMAIN table
                                             /\ ~mode.sync => Returnable(jobs[d][i])'
    <3>1. CASE d = c
      <4>1. ASSUME NEW i \in DOMAIN new PROVE new[i] \in DOMAIN table /\ (~mode.sync => Returnable(new[i]))
        <5>1. CASE i \in DOMAIN old
          <6>1. new[i] = jobs[c][i] /\ i \in DOMAIN jobs[c]
            BY <1>16, <1>18, <5>1
          <6>2. QED
            BY <1>1, <6>1 DEF CallTypes
        <5>2. CASE new[i] \in rows
          BY <1>9, <5>2
        <5>3. QED
          BY <1>20, <5>1, <5>2
      <4>2. pc[c] = "refund" => new # <<>>
        <5>1. SUFFICES ASSUME pc[c] = "refund" PROVE new # <<>>
          OBVIOUS
        <5>2. old # <<>> /\ old \in Seq(Ids)
          BY <1>1, <1>16, <5>1 DEF CallTypes
        <5>3. Len(old) > 0
          BY <5>2
        <5>4. Len(new) > 0
          BY <1>15, <1>18, <5>3
        <5>5. QED
          BY <1>18, <5>4
      <4>3. ASSUME NEW i \in DOMAIN new PROVE ~mode.sync => Returnable(jobs[d][i])'
        <5>1. PICK id : id = new[i] /\ id = jobs'[d][i]
          BY <1>21, <3>1
        <5>2. ~mode.sync => Returnable(id)'
          BY <1>3, <4>1, <5>1, ReturnKept
        <5>3. QED
          BY <5>1, <5>2 DEF Returnable
      <4>4. QED
        BY <1>8, <1>21, <3>1, <4>1, <4>2, <4>3
    <3>2. CASE d # c
      <4>1. /\ jobs'[d] = jobs[d]
            /\ pc[d] = "refund" => jobs[d] # <<>>
            /\ fetching'[d] => pc[d] \in {"run", "refund"}
            /\ \A i \in DOMAIN jobs[d] : jobs[d][i] \in DOMAIN table
        BY <1>1, <1>21, <3>2 DEF CallTypes
      <4>2. ASSUME NEW i \in DOMAIN jobs'[d] PROVE ~mode.sync => Returnable(jobs[d][i])'
        <5>1. i \in DOMAIN jobs[d] /\ jobs'[d][i] = jobs[d][i]
          BY <4>1
        <5>2. QED
          BY <1>1, <1>3, <4>1, <5>1, JobsStay
      <4>3. QED
        BY <4>1, <4>2
    <3>3. QED
      BY <3>1, <3>2
  <2>5. QED
    BY <1>1, <1>2, <2>1, <2>2, <2>3, <2>4 DEF CallTypes
<1>23. Batch \in Callers
  BY DEF Callers
<1>24. Spots' = Spots /\ (\A i : Later(i)' = Later(i)) /\ \A id : UndoUnderWay(id) => UndoUnderWay(id)'
  BY <1>1, <1>2, <1>3, UndoKept DEF Spots, Later
<1>25. ASSUME NEW id, Cared(id) PROVE Cared(id)'
  <2>1. CASE UndoUnderWay(id) \/ failed[Batch]
    BY <1>2, <1>24, <2>1 DEF Cared
  <2>2. CASE \E j \in DOMAIN jobs[Batch] : jobs[Batch][j] = id
    <3>1. PICK j \in DOMAIN jobs[Batch] : jobs[Batch][j] = id
      BY <2>2
    <3>2. CASE c # Batch
      BY <1>21, <1>23, <3>1, <3>2 DEF Cared
    <3>3. CASE c = Batch
      <4>1. j \in DOMAIN new /\ new[j] = id
        BY <1>15, <1>16, <1>18, <3>1, <3>3
      <4>2. QED
        BY <1>21, <3>3, <4>1 DEF Cared
    <3>4. QED
      BY <3>2, <3>3
  <2>3. QED
    BY <1>25, <2>1, <2>2 DEF Cared
<1>26. mode.skipQueue /\ pc[Batch] \in {"run", "refund"} =>
         /\ offset'[Batch] <= Cardinality(Spots)
         /\ ~fetching'[Batch] /\ ~unlisted' => offset'[Batch] = Cardinality(Spots)
         /\ \A i \in Spots : \A id \in {Row(order[i])} : Later(i) < offset'[Batch] => Cared(id)'
  <2>1. SUFFICES ASSUME mode.skipQueue, pc[Batch] \in {"run", "refund"}
                 PROVE  /\ offset'[Batch] <= Cardinality(Spots)
                        /\ ~fetching'[Batch] /\ ~unlisted' => offset'[Batch] = Cardinality(Spots)
                        /\ \A i \in Spots : \A id \in {Row(order[i])} : Later(i) < offset'[Batch] => Cared(id)'
    OBVIOUS
  <2>2. /\ offset[Batch] <= Cardinality(Spots)
        /\ ~fetching[Batch] /\ ~unlisted => offset[Batch] = Cardinality(Spots)
        /\ \A i \in Spots : \A id \in {Row(order[i])} : Later(i) < offset[Batch] => Cared(id)
    BY <1>1, <2>1 DEF RollbackOK
  <2>3. CASE c # Batch
    BY <1>3, <1>21, <1>23, <1>25, <2>2, <2>3
  <2>4. CASE c = Batch
    <3>1. parent[Batch] = Batch
      BY <1>8, <2>4
    <3>2. latest = Spots /\ \A id : id \in rows <=> \E i \in Spots : id = Row(order[i])
      BY <1>1, <1>4, <2>1, <2>4, <3>1, ListedMembers
    <3>3. /\ Cardinality(Spots) \in Nat /\ Len(list) = Cardinality(Spots)
          /\ \A i \in Spots : Later(i) = Above(Spots, i) /\ Later(i) \in 0 .. Cardinality(Spots) - 1
      BY <1>1, <1>11, <3>2, LaterFacts
    <3>4. from <= Len(list) /\ offset'[Batch] = from + Len(page) /\ fetching'[Batch] = (page # <<>>)
      BY <1>13, <1>21, <2>2, <2>4, <3>3
    <3>5. offset'[Batch] <= Cardinality(Spots)
      BY <1>15, <3>3, <3>4
    <3>6. ~fetching'[Batch] => offset'[Batch] = Cardinality(Spots)
      <4>1. SUFFICES ASSUME page = <<>> PROVE offset'[Batch] = Cardinality(Spots)
        BY <3>4
      <4>2. Len(page) = 0
        BY <4>1
      <4>3. QED
        BY <1>13, <1>15, <3>3, <3>4, <4>1, <4>2
    <3>7. ASSUME NEW i \in Spots, NEW id \in {Row(order[i])}, Later(i) < offset'[Batch] PROVE Cared(id)'
      <4>1. CASE Later(i) < from
        <5>1. Cared(id)
          BY <1>13, <2>2, <2>4, <3>7, <4>1
        <5>2. QED
          BY <1>25, <5>1
      <4>2. CASE ~(Later(i) < from)
        <5>1. PICK n : n = Later(i) + 1 /\ n \in 1 .. Len(list) /\ Move(list[n]) = order[i]
          BY <1>11, <3>2, <3>3
        <5>2. Later(i) \in Nat
          BY <3>3
        <5>3. from < n /\ n <= from + Len(page) /\ n - from \in 1 .. Len(page)
          BY <1>13, <1>15, <3>4, <3>7, <4>2, <5>1, <5>2
        <5>4. page[n - from] = list[n]
          BY <1>15, <5>1, <5>3
        <5>5. list[n] = id
          <6>1. list[n] \in rows
            BY <1>17, <5>3, <5>4
          <6>2. PICK k \in Spots : list[n] = Row(order[k])
            BY <3>2, <6>1
          <6>3. order[k] \in Movements
            BY <1>10, <6>2 DEF Spots
          <6>4. Move(list[n]) = order[k]
            BY <6>2, <6>3, MoveFacts
          <6>5. QED
            BY <3>7, <5>1, <6>2, <6>4
        <5>6. PICK j : j = Len(old) + (n - from) /\ j \in DOMAIN new /\ new[j] = id
          BY <1>15, <1>18, <5>3, <5>4, <5>5
        <5>7. QED
          BY <1>21, <2>4, <5>6 DEF Cared
      <4>3. QED
        BY <4>1, <4>2
    <3>8. QED
      BY <3>5, <3>6, <3>7
  <2>5. QED
    BY <2>3, <2>4
<1>27. mode.skipQueue /\ outcome = "rolled back" /\ ~unlisted' =>
         \A i \in Spots : \A id \in {Row(order[i])} : UndoUnderWay(id)'
  BY <1>1, <1>3, <1>24 DEF RollbackOK
<1>28. RollbackOK'
  BY <1>1, <1>2, <1>24, <1>26, <1>27 DEF RollbackOK
<1>29. QED
  BY <1>3, <1>22, <1>28 DEF BulkStrong, CallStrong

\* A page cannot be read: the rollback is marked as one that could not list its
\* members (fetchTransactions).
LEMMA ListFailsKeeps ==
  ASSUME BulkStrong, FaultsStay, NEW c \in Callers, ListFails(c)
  PROVE  BulkStrong'
<1>1. TableStrong /\ CallTypes /\ RollbackOK
  BY DEF BulkStrong, CallStrong
<1>2. /\ mode' = mode /\ next' = next /\ order' = order /\ table' = table /\ queuedParent' = queuedParent
      /\ pending' = pending /\ moved' = moved /\ outcome' = outcome /\ pc' = pc /\ parent' = parent
      /\ offset' = offset /\ jobs' = jobs /\ failed' = failed /\ lock' = lock
      /\ fetching' = [fetching EXCEPT ![c] = FALSE] /\ (~unlisted' => c # Batch)
  BY DEF ListFails, tableVars
<1>3. TableStrong' /\ Grew /\ (~unlisted' => ~unlisted)
  BY <1>1, <1>2, TableSame DEF FaultsStay
<1>4. /\ fetching' \in [Callers -> BOOLEAN] /\ \A d \in Callers : fetching'[d] => fetching[d]
      /\ \A d \in Callers : d # c => fetching'[d] = fetching[d]
  BY <1>1, <1>2 DEF CallTypes
<1>5. CallTypes'
  <2>1. \A d \in Callers : \A i \in DOMAIN jobs[d] : jobs[d][i] \in DOMAIN table' /\ (~mode.sync => Returnable(jobs[d][i])')
    BY <1>1, <1>2, <1>3, JobsStay
  <2>2. \A d \in Callers : fetching'[d] => pc[d] \in {"run", "refund"}
    BY <1>1, <1>4 DEF CallTypes
  <2>3. QED
    BY <1>1, <1>2, <1>4, <2>1, <2>2 DEF CallTypes
<1>6. Spots' = Spots /\ (\A i : Later(i)' = Later(i)) /\ \A id : UndoUnderWay(id) => UndoUnderWay(id)'
  BY <1>1, <1>2, <1>3, UndoKept DEF Spots, Later
<1>7. \A id : Cared(id) => Cared(id)'
  BY <1>2, <1>6 DEF Cared
<1>8. mode.skipQueue /\ pc[Batch] \in {"run", "refund"} =>
        /\ ~fetching'[Batch] /\ ~unlisted' => offset[Batch] = Cardinality(Spots)
        /\ \A i \in Spots : \A id \in {Row(order[i])} : Later(i) < offset[Batch] => Cared(id)'
  BY <1>1, <1>2, <1>3, <1>4, <1>7 DEF RollbackOK, Callers
<1>9. mode.skipQueue /\ outcome = "rolled back" /\ ~unlisted' =>
        \A i \in Spots : \A id \in {Row(order[i])} : UndoUnderWay(id)'
  BY <1>1, <1>3, <1>6 DEF RollbackOK
<1>10. RollbackOK'
  BY <1>1, <1>2, <1>6, <1>8, <1>9 DEF RollbackOK
<1>11. QED
  BY <1>3, <1>5, <1>10 DEF BulkStrong, CallStrong

\* The rollback is reported as failed while its worker goes on.
LEMMA ReportKeeps ==
  ASSUME BulkStrong, FaultsStay, ReportUnlisted
  PROVE  BulkStrong'
<1>1. TableStrong /\ CallTypes /\ RollbackOK
  BY DEF BulkStrong, CallStrong
<1>2. /\ mode' = mode /\ next' = next /\ order' = order /\ table' = table /\ queuedParent' = queuedParent
      /\ pending' = pending /\ moved' = moved /\ pc' = pc /\ parent' = parent
      /\ offset' = offset /\ jobs' = jobs /\ fetching' = fetching /\ failed' = failed /\ lock' = lock
      /\ unlisted /\ outcome' = "rollback failed"
  BY DEF ReportUnlisted, tableVars, callVars
<1>3. TableStrong' /\ Grew /\ unlisted'
  BY <1>1, <1>2, TableSame DEF FaultsStay
<1>4. CallTypes'
  <2>1. \A d \in Callers : \A i \in DOMAIN jobs[d] : jobs[d][i] \in DOMAIN table' /\ (~mode.sync => Returnable(jobs[d][i])')
    BY <1>1, <1>2, <1>3, JobsStay
  <2>2. QED
    BY <1>1, <1>2, <2>1 DEF CallTypes
<1>5. Spots' = Spots /\ (\A i : Later(i)' = Later(i)) /\ \A id : UndoUnderWay(id) => UndoUnderWay(id)'
  BY <1>1, <1>2, <1>3, UndoKept DEF Spots, Later
<1>6. \A id : Cared(id) => Cared(id)'
  BY <1>2, <1>5 DEF Cared
<1>7. mode.skipQueue /\ pc[Batch] \in {"run", "refund"} =>
        \A i \in Spots : \A id \in {Row(order[i])} : Later(i) < offset[Batch] => Cared(id)'
  BY <1>1, <1>6 DEF RollbackOK
<1>8. RollbackOK'
  BY <1>1, <1>2, <1>3, <1>5, <1>7 DEF RollbackOK
<1>9. QED
  BY <1>3, <1>4, <1>8 DEF BulkStrong, CallStrong

\* The worker's call fails: the failure is remembered.
LEMMA WorkerFailsKeeps ==
  ASSUME BulkStrong, FaultsStay, NEW c \in Callers, WorkerFails(c)
  PROVE  BulkStrong'
<1>1. TableStrong
  BY DEF BulkStrong
<1>2. /\ mode' = mode /\ next' = next /\ order' = order /\ table' = table /\ queuedParent' = queuedParent
      /\ pending' = pending /\ moved' = moved /\ outcome' = outcome /\ parent' = parent
      /\ offset' = offset /\ fetching' = fetching /\ lock' \subseteq lock
      /\ pc[c] \in {"run", "refund"} /\ jobs[c] # <<>> /\ Took(c, TRUE) /\ pc' = [pc EXCEPT ![c] = "run"]
  BY DEF WorkerFails, tableVars, Release
<1>3. TableStrong' /\ Grew /\ MembersStay
  BY <1>1, <1>2, TableSame
<1>4. CallStrong'
  <2>1. TRUE \in BOOLEAN
    OBVIOUS
  <2>2. QED
    BY <1>2, <1>3, <2>1, TookKeeps
<1>5. QED
  BY <1>3, <1>4 DEF BulkStrong

\* A refund takes its lock or fails (RefundTransaction).
LEMMA BeginKeeps ==
  ASSUME BulkStrong, FaultsStay, NEW c \in Callers, BeginRefund(c)
  PROVE  BulkStrong'
<1>1. TableStrong /\ CallTypes /\ RollbackOK
  BY DEF BulkStrong, CallStrong
<1>2. /\ mode' = mode /\ next' = next /\ order' = order /\ table' = table /\ queuedParent' = queuedParent
      /\ pending' = pending /\ moved' = moved /\ outcome' = outcome /\ parent' = parent
      /\ offset' = offset /\ fetching' = fetching
      /\ pc[c] = "run" /\ jobs[c] # <<>> /\ (c # Batch \/ ~mode.inflight)
  BY DEF BeginRefund, tableVars
<1>3. TableStrong' /\ Grew /\ MembersStay
  BY <1>1, <1>2, TableSame
<1>4. PICK id : id = Head(jobs[c])
  OBVIOUS
<1>5. CASE ~Locked(id) /\ CanRefund(id)
  <2>1. /\ lock' = lock \cup {<<id, c>>} /\ pc' = [pc EXCEPT ![c] = "refund"] /\ jobs' = jobs /\ failed' = failed
    BY <1>4, <1>5 DEF BeginRefund
  <2>2. id \in DOMAIN table
    BY <1>1, <1>5, StatusFacts DEF CanRefund, TableStrong
  <2>3. \A l \in lock' : Move(l[1]) \in Range(order) /\ l[2] \in Callers
    <3>1. Move(id) \in Range(order)
      BY <1>1, <2>2 DEF TableStrong, TableTypes
    <3>2. <<id, c>>[1] = id /\ <<id, c>>[2] = c
      OBVIOUS
    <3>3. QED
      BY <1>1, <2>1, <3>1, <3>2 DEF CallTypes
  <2>4. pc' \in [Callers -> {"idle", "run", "refund", "done"}] /\ pc'[c] = "refund" /\ \A d \in Callers : d # c => pc'[d] = pc[d]
    BY <1>1, <2>1 DEF CallTypes
  <2>5. \A d \in Callers : /\ pc'[d] = "refund" => jobs[d] # <<>>
                           /\ fetching[d] => pc'[d] \in {"run", "refund"}
                           /\ pc'[d] \in {"run", "refund"} => parent[d] # NoId
    BY <1>1, <1>2, <2>4 DEF CallTypes
  <2>6. CallTypes'
    <3>1. \A d \in Callers : \A i \in DOMAIN jobs[d] : jobs[d][i] \in DOMAIN table' /\ (~mode.sync => Returnable(jobs[d][i])')
      BY <1>1, <1>3, <2>1, JobsStay
    <3>2. QED
      BY <1>1, <1>2, <2>1, <2>3, <2>4, <2>5, <3>1 DEF CallTypes
  <2>7. Batch \in Callers
    BY DEF Callers
  <2>8. /\ Spots' = Spots /\ (\A i : Later(i)' = Later(i)) /\ (~unlisted' => ~unlisted)
        /\ \A x : UndoUnderWay(x) => UndoUnderWay(x)'
    BY <1>1, <1>2, <1>3, UndoKept DEF Spots, Later, FaultsStay
  <2>9. \A x : Cared(x) => Cared(x)'
    BY <2>1, <2>8 DEF Cared
  <2>10. /\ pc'[Batch] # "idle" => pc[Batch] # "idle"
         /\ pc'[Batch] \in {"run", "refund"} => pc[Batch] \in {"run", "refund"}
         /\ pc'[Batch] = "refund" => ~mode.inflight
    BY <1>1, <1>2, <2>4, <2>7 DEF RollbackOK
  <2>11. mode.skipQueue /\ pc'[Batch] \in {"run", "refund"} =>
           /\ offset[Batch] <= Cardinality(Spots)
           /\ ~fetching[Batch] /\ ~unlisted' => offset[Batch] = Cardinality(Spots)
           /\ \A i \in Spots : \A x \in {Row(order[i])} : Later(i) < offset[Batch] => Cared(x)'
    BY <1>1, <2>8, <2>9, <2>10 DEF RollbackOK
  <2>12. mode.skipQueue /\ outcome = "rolled back" /\ ~unlisted' =>
           \A i \in Spots : \A x \in {Row(order[i])} : UndoUnderWay(x)'
    BY <1>1, <2>8 DEF RollbackOK
  <2>13. RollbackOK'
    BY <1>1, <1>2, <2>8, <2>10, <2>11, <2>12 DEF RollbackOK
  <2>14. QED
    BY <1>3, <2>6, <2>13 DEF BulkStrong, CallStrong
<1>6. CASE ~(~Locked(id) /\ CanRefund(id))
  <2>1. Took(c, TRUE) /\ lock' = lock /\ pc' = pc
    BY <1>4, <1>6 DEF BeginRefund
  <2>2. pc' = [pc EXCEPT ![c] = "run"]
    BY <1>1, <1>2, <2>1 DEF CallTypes
  <2>3. pc[c] \in {"run", "refund"} /\ lock' \subseteq lock /\ TRUE \in BOOLEAN
    BY <1>2, <2>1
  <2>4. CallStrong'
    BY <1>2, <1>3, <2>1, <2>2, <2>3, TookKeeps
  <2>5. QED
    BY <1>3, <2>4 DEF BulkStrong
<1>7. QED
  BY <1>5, <1>6

\* A refund is submitted (prepareRefundTransaction).
LEMMA FinishKeeps ==
  ASSUME BulkStrong, FaultsStay, NEW c \in Callers, FinishRefund(c)
  PROVE  BulkStrong'
<1>1. TableStrong /\ CallTypes /\ RollbackOK
  BY DEF BulkStrong, CallStrong
<1>2. /\ mode' = mode /\ next' = next /\ outcome' = outcome /\ parent' = parent
      /\ offset' = offset /\ fetching' = fetching /\ lock' \subseteq lock
      /\ pc[c] = "refund" /\ pc' = [pc EXCEPT ![c] = "run"]
  BY DEF FinishRefund, Release
<1>3. jobs[c] # <<>> /\ jobs[c] \in Seq(Ids)
  BY <1>1, <1>2 DEF CallTypes
<1>4. PICK id : id = Head(jobs[c])
  OBVIOUS
<1>5. id = jobs[c][1] /\ 1 \in DOMAIN jobs[c]
  <2>1. PICK s : s = jobs[c] /\ s \in Seq(Ids) /\ s # <<>>
    BY <1>3
  <2>2. 1 \in DOMAIN s /\ Head(s) = s[1]
    BY <2>1
  <2>3. QED
    BY <1>4, <2>1, <2>2
<1>6. id \in DOMAIN table /\ (~mode.sync => Returnable(id))
  BY <1>1, <1>5 DEF CallTypes
<1>7. id \in Ids /\ Move(id) \in Range(order)
  BY <1>1, <1>6 DEF TableStrong, TableTypes
<1>8. PICK t : t = RefundOf(id)
  OBVIOUS
<1>9. /\ t \in Movements /\ ~IsMember(t) /\ Len(t[2]) = Len(Move(id)[2]) + 1 /\ ParentOf(Row(t)) = id
  BY <1>7, <1>8, RefundFacts
<1>10. ~mode.sync /\ ~IsMember(t) => Returnable(ParentOf(Row(t)))
  BY <1>6, <1>9
<1>11. pc[c] \in {"run", "refund"} /\ TRUE \in BOOLEAN /\ FALSE \in BOOLEAN
  BY <1>2
<1>12. CASE Synchronously(c)
  <2>1. c # Batch /\ mode.sync
    BY <1>12 DEF Synchronously
  <2>2. CASE QueueSync(t) /\ Took(c, FALSE)
    <3>1. TableStrong' /\ Grew /\ MembersStay
      BY <1>1, <1>2, <1>7, <1>9, <2>1, <2>2, SyncKeeps
    <3>2. CallStrong'
      BY <1>2, <1>3, <1>11, <2>1, <2>2, <3>1, TookKeeps
    <3>3. QED
      BY <3>1, <3>2 DEF BulkStrong
  <2>3. CASE UNCHANGED tableVars /\ Took(c, TRUE)
    <3>1. TableStrong' /\ Grew /\ MembersStay
      BY <1>1, <1>2, <2>3, TableSame DEF tableVars
    <3>2. CallStrong'
      BY <1>2, <1>3, <1>11, <2>1, <2>3, <3>1, TookKeeps
    <3>3. QED
      BY <3>1, <3>2 DEF BulkStrong
  <2>4. QED
    BY <1>4, <1>8, <1>12, <2>2, <2>3 DEF FinishRefund
<1>13. CASE ~Synchronously(c)
  <2>1. QueueAsync(t) /\ Took(c, FALSE)
    BY <1>4, <1>8, <1>13 DEF FinishRefund
  <2>2. next' \in {next, next + 1}
    BY <1>2
  <2>3. TableStrong' /\ Grew /\ MembersStay
    BY <1>1, <1>2, <1>9, <1>10, <2>1, <2>2, AsyncKeeps
  <2>4. ASSUME c = Batch PROVE UndoUnderWay(id)'
    <3>1. ~mode'.inflight
      BY <1>1, <1>2, <2>4 DEF RollbackOK
    <3>2. PICK p : p = [move |-> t, n |-> Len(order), stage |-> "persist"] /\ p \in pending'
      BY <2>1 DEF QueueAsync
    <3>3. p.move = RefundOf(id)
      BY <1>8, <3>2
    <3>4. QED
      BY <3>1, <3>2, <3>3 DEF UndoUnderWay
  <2>5. c = Batch => FALSE \/ \A x \in {jobs[c][1]} : UndoUnderWay(x)'
    BY <1>5, <2>4
  <2>6. CallStrong'
    BY <1>2, <1>3, <1>11, <2>1, <2>3, <2>5, TookKeeps
  <2>7. QED
    BY <2>3, <2>6 DEF BulkStrong
<1>14. QED
  BY <1>12, <1>13

\* The rollback voids a hold (VoidWorker).
LEMMA VoidHoldKeeps ==
  ASSUME BulkStrong, FaultsStay, VoidHold
  PROVE  BulkStrong'
<1>1. TableStrong /\ CallTypes /\ RollbackOK
  BY DEF BulkStrong, CallStrong
<1>2. /\ mode' = mode /\ next' = next /\ order' = order /\ queuedParent' = queuedParent
      /\ pending' = pending /\ moved' = moved /\ outcome' = outcome /\ parent' = parent
      /\ offset' = offset /\ fetching' = fetching /\ pc' = pc /\ lock' = lock
      /\ pc[Batch] = "run" /\ jobs[Batch] # <<>> /\ mode.inflight
  BY DEF VoidHold
<1>3. Batch \in Callers
  BY DEF Callers
<1>4. PICK id : id = Head(jobs[Batch])
  OBVIOUS
<1>5. id = jobs[Batch][1] /\ 1 \in DOMAIN jobs[Batch]
  <2>1. PICK s : s = jobs[Batch] /\ s \in Seq(Ids) /\ s # <<>>
    BY <1>1, <1>2, <1>3 DEF CallTypes
  <2>2. 1 \in DOMAIN s /\ Head(s) = s[1]
    BY <2>1
  <2>3. QED
    BY <1>4, <2>1, <2>2
<1>6. id \in DOMAIN table
  BY <1>1, <1>3, <1>5 DEF CallTypes
<1>7. pc' = [pc EXCEPT ![Batch] = "run"] /\ pc[Batch] \in {"run", "refund"} /\ lock' \subseteq lock
  BY <1>1, <1>2, <1>3 DEF CallTypes
<1>8. CASE Status(VoidOf(id)) = "none"
  <2>1. table' = Put(table, VoidOf(id), "VOID") /\ Took(Batch, FALSE)
    BY <1>4, <1>8 DEF VoidHold
  <2>2. TableStrong' /\ Grew /\ MembersStay /\ VoidOf(id) \in DOMAIN table'
    BY <1>1, <1>2, <1>6, <1>8, <2>1, VoidKeeps
  <2>3. UndoUnderWay(id)'
    <3>1. table'[VoidOf(id)] \in Statuses
      BY <2>2 DEF TableStrong, TableTypes
    <3>2. QED
      BY <1>2, <2>2, <3>1 DEF UndoUnderWay, Undo, Status, Statuses
  <2>4. \A x \in {jobs[Batch][1]} : UndoUnderWay(x)'
    BY <1>5, <2>3
  <2>5. CallStrong'
    BY <1>2, <1>3, <1>7, <2>1, <2>2, <2>4, TookKeeps
  <2>6. QED
    BY <2>2, <2>5 DEF BulkStrong
<1>9. CASE Status(VoidOf(id)) # "none"
  <2>1. table' = table /\ Took(Batch, TRUE)
    BY <1>4, <1>9 DEF VoidHold
  <2>2. TableStrong' /\ Grew /\ MembersStay
    BY <1>1, <1>2, <2>1, TableSame
  <2>3. CallStrong'
    BY <1>2, <1>3, <1>7, <2>1, <2>2, TookKeeps
  <2>4. QED
    BY <2>2, <2>3 DEF BulkStrong
<1>10. QED
  BY <1>8, <1>9

\* A caller's work ends: by then the rollback has cared for every member, and
\* reports success only when nothing failed (ProcessTransactionInBatches).
LEMMA EndKeeps ==
  ASSUME BulkStrong, FaultsStay, NEW c \in Callers, FinishBatches(c)
  PROVE  BulkStrong'
<1>1. TableStrong /\ CallTypes /\ RollbackOK
  BY DEF BulkStrong, CallStrong
<1>2. /\ mode' = mode /\ next' = next /\ order' = order /\ table' = table /\ queuedParent' = queuedParent
      /\ pending' = pending /\ moved' = moved /\ parent' = parent
      /\ offset' = offset /\ jobs' = jobs /\ fetching' = fetching /\ failed' = failed /\ lock' = lock
      /\ pc[c] = "run" /\ ~fetching[c] /\ jobs[c] = <<>>
      /\ pc' = [pc EXCEPT ![c] = IF c = Batch THEN "done" ELSE "idle"]
      /\ outcome' = IF c # Batch \/ outcome # "none" THEN outcome ELSE IF failed[c] THEN "rollback failed" ELSE "rolled back"
  BY DEF FinishBatches, tableVars
<1>3. TableStrong' /\ Grew /\ (~unlisted' => ~unlisted)
  BY <1>1, <1>2, TableSame DEF FaultsStay
<1>4. Batch \in Callers
  BY DEF Callers
<1>5. /\ pc' \in [Callers -> {"idle", "run", "refund", "done"}] /\ pc'[c] = (IF c = Batch THEN "done" ELSE "idle")
      /\ \A d \in Callers : d # c => pc'[d] = pc[d]
  BY <1>1, <1>2 DEF CallTypes
<1>6. CallTypes'
  <2>1. \A d \in Callers : /\ pc'[d] = "refund" => jobs[d] # <<>>
                           /\ fetching[d] => pc'[d] \in {"run", "refund"}
                           /\ pc'[d] \in {"run", "refund"} => parent[d] # NoId
    BY <1>1, <1>2, <1>5 DEF CallTypes
  <2>2. outcome' \in {"none", "APPLIED", "INFLIGHT", "kept", "rollback failed", "rolled back"}
    BY <1>1, <1>2 DEF CallTypes
  <2>3. \A d \in Callers : \A i \in DOMAIN jobs[d] : jobs[d][i] \in DOMAIN table' /\ (~mode.sync => Returnable(jobs[d][i])')
    BY <1>1, <1>2, <1>3, JobsStay
  <2>4. QED
    BY <1>1, <1>2, <1>5, <2>1, <2>2, <2>3 DEF CallTypes
<1>7. Spots' = Spots /\ (\A i : Later(i)' = Later(i)) /\ \A x : UndoUnderWay(x) => UndoUnderWay(x)'
  BY <1>1, <1>2, <1>3, UndoKept DEF Spots, Later
<1>8. \A x : Cared(x) => Cared(x)'
  BY <1>2, <1>7 DEF Cared
<1>9. ASSUME c # Batch PROVE RollbackOK'
  <2>1. pc'[Batch] = pc[Batch] /\ outcome' = outcome
    BY <1>2, <1>4, <1>5, <1>9
  <2>2. mode.skipQueue /\ pc[Batch] \in {"run", "refund"} =>
          \A i \in Spots : \A x \in {Row(order[i])} : Later(i) < offset[Batch] => Cared(x)'
    BY <1>1, <1>8 DEF RollbackOK
  <2>3. mode.skipQueue /\ outcome = "rolled back" /\ ~unlisted' =>
          \A i \in Spots : \A x \in {Row(order[i])} : UndoUnderWay(x)'
    BY <1>1, <1>3, <1>7 DEF RollbackOK
  <2>4. QED
    BY <1>1, <1>2, <1>3, <1>7, <2>1, <2>2, <2>3 DEF RollbackOK
<1>10. ASSUME c = Batch PROVE RollbackOK'
  <2>1. pc'[Batch] = "done" /\ parent[Batch] = Batch
    BY <1>1, <1>2, <1>5, <1>10 DEF RollbackOK
  <2>2. ASSUME mode.skipQueue, outcome' = "rolled back", ~unlisted', NEW i \in Spots, NEW x \in {Row(order[i])}
        PROVE  UndoUnderWay(x)'
    <3>1. ~failed[Batch]
      BY <1>1, <1>2, <1>10, <2>2 DEF RollbackOK
    <3>2. offset[Batch] = Cardinality(Spots) /\ (Later(i) < offset[Batch] => Cared(x))
      BY <1>1, <1>2, <1>3, <1>10, <2>2 DEF RollbackOK
    <3>3. Later(i) < offset[Batch]
      BY <1>1, <3>2, LaterFacts
    <3>4. DOMAIN jobs[Batch] = {}
      <4>1. DOMAIN <<>> = {}
        OBVIOUS
      <4>2. QED
        BY <1>2, <1>10, <4>1
    <3>5. UndoUnderWay(x)
      BY <3>1, <3>2, <3>3, <3>4 DEF Cared
    <3>6. QED
      BY <1>7, <3>5
  <2>3. QED
    BY <1>2, <1>7, <2>1, <2>2 DEF RollbackOK
<1>11. QED
  BY <1>3, <1>6, <1>9, <1>10 DEF BulkStrong, CallStrong

\* The bulk request is answered without a rollback: every member was submitted,
\* or one failed and the request is not atomic.
LEMMA AnswerKeeps ==
  ASSUME BulkStrong, TableStrong', Grew, pc[Batch] = "idle", UNCHANGED callVars, lock' = lock,
         outcome' \in {"APPLIED", "INFLIGHT", "kept"}
  PROVE  CallStrong'
<1>1. /\ mode' = mode /\ Range(order) \subseteq Range(order') /\ DOMAIN table \subseteq DOMAIN table'
      /\ ~unlisted' => ~unlisted
  BY DEF Grew, FaultsStay
<1>2. CallTypes
  BY DEF BulkStrong, CallStrong
<1>3. /\ pc' = pc /\ parent' = parent /\ offset' = offset /\ jobs' = jobs /\ fetching' = fetching /\ failed' = failed
  BY DEF callVars
<1>4. \A l \in lock' : Move(l[1]) \in Range(order') /\ l[2] \in Callers
  BY <1>1, <1>2 DEF CallTypes
<1>5. \A c \in Callers : \A i \in DOMAIN jobs[c] : jobs[c][i] \in DOMAIN table' /\ (~mode.sync => Returnable(jobs[c][i])')
  BY <1>2, <1>3, JobsStay
<1>6. CallTypes'
  BY <1>1, <1>2, <1>3, <1>4, <1>5 DEF CallTypes
<1>7. RollbackOK'
  BY <1>3 DEF RollbackOK
<1>8. QED
  BY <1>6, <1>7 DEF CallStrong

\* The bulk request's loop (processBulkTransactions).
LEMMA BulkStepKeeps ==
  ASSUME BulkStrong, FaultsStay, BulkStep
  PROVE  BulkStrong'
<1>1. TableStrong /\ CallTypes /\ RollbackOK
  BY DEF BulkStrong, CallStrong
<1>2. PICK t : t = <<next, <<>>>>
  OBVIOUS
<1>3. next \in Nat
  BY <1>1 DEF TableStrong, TableTypes
<1>4. t \in Movements /\ IsMember(t) /\ Len(t[2]) = 0
  BY <1>2, <1>3, MemberFacts DEF IsMember
<1>5. Batch \in Callers
  BY DEF Callers
<1>6. ASSUME Submit, mode' = mode PROVE TableStrong' /\ Grew
  <2>1. next' = next + 1
    BY <1>6 DEF Submit
  <2>2. CASE mode.skipQueue
    <3>1. QueueSync(t)
      BY <1>2, <1>6, <2>2 DEF Submit
    <3>2. QED
      BY <1>1, <1>2, <1>4, <1>6, <2>1, <2>2, <3>1, SyncKeeps
  <2>3. CASE ~mode.skipQueue
    <3>1. QueueAsync(t) /\ next' \in {next, next + 1}
      BY <1>2, <1>6, <2>1, <2>3 DEF Submit
    <3>2. QED
      BY <1>1, <1>4, <1>6, <2>3, <3>1, AsyncKeeps
  <2>4. QED
    BY <2>2, <2>3
<1>7. CASE SubmitMember
  <2>1. /\ outcome = "none" /\ pc[Batch] = "idle" /\ Submit /\ mode' = mode
        /\ pc' = pc /\ parent' = parent /\ offset' = offset /\ jobs' = jobs /\ fetching' = fetching /\ failed' = failed
        /\ outcome' = outcome /\ lock' = lock
    BY <1>7 DEF SubmitMember, callVars
  <2>2. TableStrong' /\ Grew
    BY <1>6, <2>1
  <2>3. CallStrong'
    BY <2>1, <2>2, CallsKept
  <2>4. QED
    BY <2>2, <2>3 DEF BulkStrong
<1>8. CASE MemberFails
  <2>1. /\ outcome = "none" /\ pc[Batch] = "idle" /\ mode' = mode /\ lock' = lock /\ Rollback
        /\ Submit \/ UNCHANGED <<tableVars, next>>
    BY <1>8 DEF MemberFails
  <2>2. TableStrong' /\ Grew
    <3>1. CASE UNCHANGED <<tableVars, next>>
      BY <1>1, <2>1, <3>1, TableSame DEF tableVars
    <3>2. QED
      BY <1>6, <2>1, <3>1
  <2>3. CASE mode.atomic
    <3>1. StartBatches(Batch, Batch) /\ outcome' = outcome
      BY <2>1, <2>3 DEF Rollback
    <3>2. CallStrong'
      BY <1>5, <2>1, <2>2, <3>1, StartKeeps
    <3>3. QED
      BY <2>2, <3>2 DEF BulkStrong
  <2>4. CASE ~mode.atomic
    <3>1. outcome' = "kept" /\ UNCHANGED callVars
      BY <2>1, <2>4 DEF Rollback
    <3>2. CallStrong'
      BY <2>1, <2>2, <3>1, AnswerKeeps
    <3>3. QED
      BY <2>2, <3>2 DEF BulkStrong
  <2>5. QED
    BY <2>3, <2>4
<1>9. CASE Succeed
  <2>1. /\ pc[Batch] = "idle" /\ outcome' = Executed /\ mode' = mode /\ next' = next /\ UNCHANGED callVars /\ lock' = lock
        /\ order' = order /\ table' = table /\ queuedParent' = queuedParent /\ pending' = pending /\ moved' = moved
    BY <1>9 DEF Succeed, tableVars
  <2>2. TableStrong' /\ Grew /\ MembersStay
    BY <1>1, <2>1, TableSame
  <2>3. outcome' \in {"APPLIED", "INFLIGHT", "kept"}
    BY <2>1 DEF Executed
  <2>4. CallStrong'
    BY <2>1, <2>2, <2>3, AnswerKeeps
  <2>5. QED
    BY <2>2, <2>4 DEF BulkStrong
<1>10. QED
  BY <1>7, <1>8, <1>9 DEF BulkStep

\* A client calls (RefundTransaction of the API).
LEMMA RequestKeeps ==
  ASSUME BulkStrong, FaultsStay, NEW c \in Clients, NEW p \in Targets, RequestRefund(c, p)
  PROVE  BulkStrong'
<1>1. TableStrong
  BY DEF BulkStrong
<1>2. /\ pc[c] = "idle" /\ StartBatches(c, p) /\ mode' = mode /\ next' = next /\ outcome' = outcome /\ lock' = lock
      /\ order' = order /\ table' = table /\ queuedParent' = queuedParent /\ pending' = pending /\ moved' = moved
  BY DEF RequestRefund, tableVars
<1>3. TableStrong' /\ Grew /\ MembersStay
  BY <1>1, <1>2, TableSame
<1>4. c \in Callers /\ c # Batch /\ p \in {Batch} \cup Targets
  BY BulkAssumption DEF Callers
<1>5. CallStrong'
  BY <1>2, <1>3, <1>4, StartKeeps
<1>6. QED
  BY <1>3, <1>5 DEF BulkStrong

\* What failed is counted and not forgotten.
LEMMA FaultsKeep ==
  ASSUME TableStrong, FaultOK, [Next]_vars
  PROVE  FaultOK' /\ FaultsStay
<1>1. mode' = mode /\ mode.faults \in Nat
  <2>1. mode.faults \in Nat
    BY BulkAssumption DEF TableStrong, TableTypes
  <2>2. mode' = mode
    BY DEF Next, vars, BulkStep, SubmitMember, MemberFails, Succeed, QueueStep, Persist, Execute, FaultStep, GiveUp,
           ListFails, WorkerFails, ReportUnlisted, Fetch, WorkerStep, BeginRefund, FinishRefund, FinishBatches,
           VoidHold, RequestRefund, ExpireRefundLock
  <2>3. QED
    BY <2>1, <2>2
<1>2. ASSUME UNCHANGED faultVars PROVE FaultOK' /\ FaultsStay
  BY <1>1, <1>2 DEF faultVars, FaultOK, FaultsStay
<1>3. ASSUME Fault, lost' \subseteq Movements, lost \subseteq lost', unlisted' = unlisted \/ unlisted' \in BOOLEAN,
             unlisted => unlisted'
      PROVE  FaultOK' /\ FaultsStay
  BY <1>1, <1>3 DEF Fault, FaultOK, FaultsStay
<1>4. ASSUME NEW p \in pending, Persist(p) \/ Execute(p) \/ GiveUp(p) PROVE FaultOK' /\ FaultsStay
  <2>1. p.move \in Movements
    BY DEF TableStrong, TableTypes, Range
  <2>2. CASE UNCHANGED faultVars
    BY <1>2, <2>2
  <2>3. CASE Fault /\ unlisted' = unlisted /\ (lost' = lost \/ lost' = lost \cup {p.move})
    BY <1>3, <2>1, <2>3 DEF FaultOK
  <2>4. QED
    BY <1>4, <2>2, <2>3 DEF Persist, Execute, GiveUp, faultVars
<1>5. ASSUME NEW c \in Callers, ListFails(c) \/ WorkerFails(c) PROVE FaultOK' /\ FaultsStay
  <2>1. CASE ListFails(c)
    BY <1>3, <2>1 DEF ListFails, FaultOK
  <2>2. CASE WorkerFails(c)
    BY <1>3, <2>2 DEF WorkerFails, FaultOK
  <2>3. QED
    BY <1>5, <2>1, <2>2
<1>6. CASE BulkStep
  BY <1>2, <1>6 DEF BulkStep, SubmitMember, MemberFails, Succeed
<1>7. CASE QueueStep \/ FaultStep
  BY <1>2, <1>4, <1>5, <1>7 DEF QueueStep, FaultStep, ReportUnlisted
<1>8. ASSUME NEW c \in Callers, Fetch(c) \/ WorkerStep(c) PROVE FaultOK' /\ FaultsStay
  BY <1>2, <1>8 DEF Fetch, WorkerStep, BeginRefund, FinishRefund, FinishBatches, VoidHold
<1>9. ASSUME NEW c \in Clients, NEW p \in Targets, RequestRefund(c, p) PROVE FaultOK' /\ FaultsStay
  BY <1>2, <1>9 DEF RequestRefund
<1>10. ASSUME NEW l \in lock, ExpireRefundLock(l) PROVE FaultOK' /\ FaultsStay
  BY <1>2, <1>10 DEF ExpireRefundLock
<1>11. CASE UNCHANGED vars
  BY <1>2, <1>11 DEF vars
<1>12. QED
  BY <1>6, <1>7, <1>8, <1>9, <1>10, <1>11 DEF Next

\* Every step keeps what the proof relies on.
LEMMA BulkKeeps ==
  ASSUME BulkStrong, FaultsStay, [Next]_vars
  PROVE  BulkStrong'
<1>1. TableStrong
  BY DEF BulkStrong
<1>2. ASSUME NEW p \in pending, Persist(p) \/ Execute(p) \/ GiveUp(p) PROVE BulkStrong'
  <2>1. TableStrong' /\ Grew /\ MembersStay
    BY <1>1, <1>2, PersistKeeps, ExecuteKeeps
  <2>2. /\ pc' = pc /\ parent' = parent /\ offset' = offset /\ jobs' = jobs /\ fetching' = fetching
        /\ failed' = failed /\ outcome' = outcome /\ lock' = lock
    BY <1>2 DEF Persist, Execute, GiveUp, callVars
  <2>3. CallStrong'
    BY <2>1, <2>2, CallsKept
  <2>4. QED
    BY <2>1, <2>3 DEF BulkStrong
<1>3. ASSUME UNCHANGED <<mode, tableVars, next, outcome, callVars>>, lock' \subseteq lock PROVE BulkStrong'
  <2>1. /\ mode' = mode /\ next' = next /\ outcome' = outcome
        /\ order' = order /\ table' = table /\ queuedParent' = queuedParent /\ pending' = pending /\ moved' = moved
        /\ pc' = pc /\ parent' = parent /\ offset' = offset /\ jobs' = jobs /\ fetching' = fetching /\ failed' = failed
    BY <1>3 DEF tableVars, callVars
  <2>2. TableStrong' /\ Grew /\ MembersStay
    BY <1>1, <2>1, TableSame
  <2>3. CallStrong'
    BY <1>3, <2>1, <2>2, CallsKept
  <2>4. QED
    BY <2>2, <2>3 DEF BulkStrong
<1>4. CASE BulkStep
  BY <1>4, BulkStepKeeps
<1>5. CASE QueueStep
  BY <1>2, <1>5 DEF QueueStep
<1>6. ASSUME NEW c \in Callers, Fetch(c) \/ WorkerStep(c) \/ ListFails(c) \/ WorkerFails(c) PROVE BulkStrong'
  BY <1>6, ListFailsKeeps, WorkerFailsKeeps, FetchKeeps, BeginKeeps, FinishKeeps, EndKeeps, VoidHoldKeeps DEF WorkerStep
<1>7. ASSUME NEW c \in Clients, NEW p \in Targets, RequestRefund(c, p) PROVE BulkStrong'
  BY <1>7, RequestKeeps
<1>8. ASSUME NEW l \in lock, ExpireRefundLock(l) PROVE BulkStrong'
  <2>1. UNCHANGED <<mode, tableVars, next, outcome, callVars>> /\ lock' \subseteq lock
    BY <1>8 DEF ExpireRefundLock
  <2>2. QED
    BY <1>3, <2>1
<1>9. CASE UNCHANGED vars
  <2>1. UNCHANGED <<mode, tableVars, next, outcome, callVars>> /\ lock' \subseteq lock
    BY <1>9 DEF vars
  <2>2. QED
    BY <1>3, <2>1
<1>10. CASE FaultStep
  BY <1>2, <1>6, <1>10, ReportKeeps DEF FaultStep
<1>11. QED
  BY <1>4, <1>5, <1>6, <1>7, <1>8, <1>9, <1>10 DEF Next

\* Nothing has been submitted yet.
LEMMA BulkInitially ==
  ASSUME Init
  PROVE  BulkStrong /\ FaultOK
<1>1. /\ mode \in Modes /\ order = <<>> /\ table = <<>> /\ queuedParent = <<>> /\ pending = {} /\ moved = <<>>
      /\ next = 1 /\ outcome = "none" /\ pc = [c \in Callers |-> "idle"] /\ parent = [c \in Callers |-> NoId]
      /\ offset = [c \in Callers |-> 0] /\ jobs = [c \in Callers |-> <<>>]
      /\ fetching = [c \in Callers |-> FALSE] /\ failed = [c \in Callers |-> FALSE] /\ lock = {}
  BY DEF Init
<1>2. /\ order \in Seq(Movements) /\ DOMAIN order = {} /\ DOMAIN table = {} /\ DOMAIN queuedParent = {}
      /\ DOMAIN moved = {} /\ <<>> \in Seq(Ids)
  BY <1>1
<1>3. Range(order) = {}
  BY <1>2 DEF Range
<1>4. TableTypes
  BY <1>1, <1>2, <1>3 DEF TableTypes
<1>5. ExecutedOnce /\ MembersRecorded /\ RefundsQueued
  BY <1>1, <1>2, <1>3 DEF ExecutedOnce, MembersRecorded, RefundsQueued
<1>6. pc[Batch] = "idle" /\ \A c \in Callers : pc[c] = "idle" /\ fetching[c] = FALSE /\ jobs[c] = <<>> /\ DOMAIN jobs[c] = {}
  BY <1>1 DEF Callers
<1>7. CallTypes
  BY <1>1, <1>2, <1>6 DEF CallTypes
<1>8. RollbackOK
  BY <1>1, <1>6 DEF RollbackOK
<1>9. FaultOK
  <2>1. mode \in Modes
    BY DEF Init
  <2>2. mode.faults \in Nat
    BY <2>1, BulkAssumption
  <2>3. lost = {} /\ unlisted = FALSE /\ faults = 0
    BY DEF Init
  <2>4. lost \subseteq Movements /\ faults \in Nat /\ faults <= mode.faults
    BY <2>2, <2>3
  <2>5. unlisted \in BOOLEAN
    BY <2>3
  <2>6. QED
    BY <2>4, <2>5, Zenon DEF FaultOK
<1>10. QED
  BY <1>4, <1>5, <1>7, <1>8, <1>9 DEF BulkStrong, TableStrong, CallStrong

\* It implies what a reader wants to know.
LEMMA BulkImplied ==
  ASSUME BulkStrong, FaultOK
  PROVE  BulkInv
<1>1. TableStrong /\ CallTypes /\ RollbackOK
  BY DEF BulkStrong, CallStrong
<1>2. TypeOK
  <2>1. \A id \in DOMAIN table : /\ Kind(id) \in Kinds /\ Move(id) \in Range(order)
                                 /\ table[id] \in {"QUEUED", "APPLIED", "INFLIGHT", "VOID", "REJECTED"}
    BY <1>1, IdFacts DEF TableStrong, TableTypes, Statuses
  <2>2. \A p \in pending : p.stage \in {"persist", "copy", "original"}
    BY <1>1 DEF TableStrong, TableTypes
  <2>3. faults \in 0 .. mode.faults
    BY <1>1, BulkAssumption DEF FaultOK, TableStrong, TableTypes
  <2>4. QED
    BY <1>1, <2>1, <2>2, <2>3 DEF TypeOK, TableStrong, TableTypes, CallTypes, FaultOK
<1>3. RefundedOnce
  BY <1>1 DEF RefundedOnce, TableStrong, TableTypes, ExecutedOnce
<1>4. QueuedRefundsStand
  <2>1. SUFFICES ASSUME ~mode.sync, NEW t \in Range(order), Len(t[2]) > 1
                 PROVE  Status(Row(Move(ParentOf(Row(t))))) # "QUEUED"
    BY DEF QueuedRefundsStand
  <2>2. t \in Movements
    BY <1>1 DEF TableStrong, TableTypes, Range
  <2>3. t = <<t[1], t[2]>> /\ t[2] \in Seq(Kinds) /\ ~IsMember(t)
    BY <2>1, <2>2, MoveFacts DEF IsMember
  <2>4. PICK id : id = ParentOf(Row(t))
    OBVIOUS
  <2>5. id = <<<<t[1], Front(t[2])>>, Last(t[2])>>
    BY <2>2, <2>3, <2>4, MoveFacts DEF ParentOf
  <2>6. Move(id) = <<t[1], Front(t[2])>> /\ ~IsMember(Move(id)) /\ id = <<Move(id), Kind(id)>>
    <3>1. PICK q : q = t[2] /\ q \in Seq(Kinds) /\ Len(q) > 1
      BY <2>1, <2>3
    <3>2. Front(q) # <<>>
      <4>1. Len(Front(q)) = Len(q) - 1 /\ Len(q) \in Nat
        BY <3>1 DEF Front
      <4>2. QED
        BY <3>1, <4>1
    <3>3. QED
      BY <2>5, <3>1, <3>2 DEF Move, Kind, IsMember
  <2>7. Returnable(id)
    BY <1>1, <2>1, <2>3, <2>4 DEF TableStrong, RefundsQueued
  <2>8. id = Row(Move(id)) /\ Status(id) # "QUEUED"
    BY <2>6, <2>7 DEF Returnable, Row
  <2>9. QED
    BY <2>4, <2>8
<1>5. RolledBackWhenReported
  <2>1. SUFFICES ASSUME ~unlisted, outcome = "rolled back", mode.skipQueue, NEW m \in Members, NEW id \in Standing(m)
                 PROVE  UndoUnderWay(id)
    BY DEF RolledBackWhenReported, RollbackIsComplete
  <2>2. id \in DOMAIN table /\ Move(id) = <<m, <<>>>> /\ table[id] = Executed
    BY DEF Standing
  <2>3. id \in Ids /\ Move(id) \in Range(order)
    BY <1>1, <2>2 DEF TableStrong, TableTypes
  <2>4. IsMember(Move(id))
    BY <2>2 DEF IsMember
  <2>5. Kind(id) = "row"
    BY <1>1, <2>1, <2>2, <2>4 DEF TableStrong, MembersRecorded, Executed
  <2>6. id = <<Move(id), Kind(id)>>
    BY <2>3, IdFacts
  <2>7. PICK i \in DOMAIN order : order[i] = Move(id)
    BY <2>3 DEF Range
  <2>8. i \in Spots /\ id = Row(order[i])
    BY <2>4, <2>5, <2>6, <2>7 DEF Spots, Row
  <2>9. QED
    BY <1>1, <2>1, <2>8 DEF RollbackOK
<1>6. QED
  BY <1>2, <1>3, <1>4, <1>5 DEF BulkInv

\* However rollbacks and refunds race, no money is returned twice, a reported
\* rollback of a synchronous request has every member's undoing under way
\* unless its members could not be listed, and refunds saved as queued are not
\* refunded themselves (RefundTransaction, CreateBulkTransactions,
\* GetRefundableTransactionsByParentID): for any number of members, clients,
\* calls, failing calls and expiring locks, and any page size.
THEOREM BulkKept == Spec => []BulkInv
<1>1. Init => BulkStrong /\ FaultOK
  BY BulkInitially
<1>2. BulkStrong /\ FaultOK /\ [Next]_vars => (BulkStrong /\ FaultOK)'
  BY BulkKeeps, FaultsKeep DEF BulkStrong
<1>3. BulkStrong /\ FaultOK => BulkInv
  BY BulkImplied
<1>4. QED
  BY <1>1, <1>2, <1>3, PTL DEF Spec

------------------------------------------------------------------------------
(***************************************************************************)
(* Reconciliation.  What a run knows is kept apart from the variables: its *)
(* row c, its goroutine x, its workers k, and the matches M and unmatched  *)
(* entries U that it recorded.                                             *)
(***************************************************************************)
Items == {Internals[n] : n \in DOMAIN Internals}
         \cup UNION {{Uploads[u][n] : n \in DOMAIN Uploads[u]} : u \in DOMAIN Uploads}
ItemIds == {t.id : t \in Items}

ReconFields == [status : {"none", "started", "in_progress", "completed", "failed"},
                upload : DOMAIN Uploads, strategy : Strategies, dry : BOOLEAN,
                matched : Nat, unmatched : Nat]
RunFields == [stage : {"off", "begin", "rules", "work", "returned", "over"},
              rules : SUBSET RuleVersions, offset : Offsets, fetch : {"on", "ended", "failed"},
              jobs : Seq(Items), fetched : SUBSET ItemIds, matched : Nat, unmatched : Nat,
              failed : BOOLEAN, lost : BOOLEAN, processed : Nat]
WorkFields == [stage : {"idle", "match", "unmatch", "count", "hung", "stopped"},
               item : Items \cup {NoItem}, matches : SUBSET (ItemIds \X ItemIds), unmatched : Nat]

\* The transaction that a recorded match was found for.
Subject(c, m) == IF c.strategy = "many_to_one" THEN m[3] ELSE m[2]
Triples(r, job) == {<<r, p[1], p[2]>> : p \in job.matches}

\* Matches and unmatched entries that are counted and not recorded yet.
DueMatches(r, k) == UNION {Triples(r, k[w]) : w \in {v \in ReconWorkers : k[v].stage = "match"}}
DueUnmatched(r, k) ==
  {<<r, k[w].item.id>> : w \in {v \in ReconWorkers : k[v].stage \in {"match", "unmatch"} /\ k[v].unmatched > 0}}

\* The ids of the rows before an offset, in whatever upload.
Early(c, from) ==
  IF c.strategy = "many_to_one" THEN {Internals[n].id : n \in {m \in DOMAIN Internals : m <= from}}
  ELSE UNION {{Uploads[u][n].id : n \in {m \in DOMAIN Uploads[u] : m <= from}} : u \in DOMAIN Uploads}

Distinct(s) == \A i, j \in DOMAIN s : s[i].id = s[j].id => i = j
Busy(k, w) == k[w].stage # "idle"
Once(r, M, U, e) == /\ (\E m \in M : m[2] = e) \/ <<r, e>> \in U
                    /\ ~((\E m \in M : m[2] = e) /\ <<r, e>> \in U)

\* The counters are those of what is recorded or about to be.
Counted(r, c, x, k, M, U) ==
  ~c.dry =>
    /\ IsFiniteSet(M \cup DueMatches(r, k)) /\ x.matched = Cardinality(M \cup DueMatches(r, k))
    /\ IsFiniteSet(U \cup DueUnmatched(r, k)) /\ x.unmatched = Cardinality(U \cup DueUnmatched(r, k))

\* A transaction is in one place only: queued, at one worker, or recorded.
Placed(r, c, x, k, M, U) ==
  LET queued == IdsOf(x.jobs) IN
  /\ x.fetched \subseteq Early(c, x.offset)
  /\ Distinct(x.jobs) /\ queued \subseteq x.fetched
  /\ \A w \in ReconWorkers : Busy(k, w) => k[w].item \in Items /\ k[w].item.id \in x.fetched \ queued
  /\ \A v, w \in ReconWorkers : Busy(k, v) /\ Busy(k, w) /\ k[v].item.id = k[w].item.id => v = w
  /\ \A m \in M : Subject(c, m) \in x.fetched \ queued
  /\ \A u \in U : u[2] \in x.fetched \ queued
  /\ \A w \in ReconWorkers :
       /\ k[w].stage # "stopped"
       /\ k[w].stage = "match" =>
            /\ \A m \in Triples(r, k[w]) : Subject(c, m) = k[w].item.id
            /\ \A m \in M : Subject(c, m) # k[w].item.id
       /\ k[w].stage \in {"match", "unmatch"} => <<r, k[w].item.id>> \notin U
       /\ k[w].stage = "unmatch" => k[w].unmatched > 0

\* One to one: what a worker is about to record decides its transaction, and
\* every other one that was fetched is queued or decided.
Deciding(r, c, x, k, M, U) ==
  c.strategy = "one_to_one" /\ ~x.lost /\ ~c.dry =>
    /\ \A w \in ReconWorkers :
         /\ k[w].stage = "match" => k[w].matches # {} /\ k[w].unmatched = 0
         /\ k[w].stage = "unmatch" => \A m \in M : m[2] # k[w].item.id
         /\ k[w].stage = "count" => Once(r, M, U, k[w].item.id)
    /\ \A e \in x.fetched \ IdsOf(x.jobs) :
         Once(r, M, U, e) \/ \E w \in ReconWorkers : Busy(k, w) /\ k[w].item.id = e

RunOK(r, c, x, k, M, U) ==
  /\ c \in ReconFields /\ x \in RunFields /\ k \in [ReconWorkers -> WorkFields]
  /\ \A m \in M : m[1] = r
  /\ (\A u \in U : u[1] = r)
  /\ c.status = "none" => x.stage = "off"
  /\ x.stage \in {"off", "begin", "rules"} =>
       /\ M = {} /\ U = {} /\ (\A w \in ReconWorkers : ~Busy(k, w))
       /\ x.jobs = <<>> /\ x.fetched = {} /\ x.matched = 0 /\ x.unmatched = 0 /\ ~x.failed
  /\ x.stage = "work" /\ ~x.failed =>
       Counted(r, c, x, k, M, U) /\ Placed(r, c, x, k, M, U) /\ Deciding(r, c, x, k, M, U)
  /\ c.status = "completed" =>
       /\ x.stage = "over" /\ \A w \in ReconWorkers : ~Busy(k, w)
       /\ ~c.dry => c.matched = Cardinality(M) /\ c.unmatched = Cardinality(U)
       /\ c.strategy = "one_to_one" /\ ~x.lost /\ ~c.dry => \A e \in x.fetched : Once(r, M, U, e)

MatchesOf(r) == {m \in matches : m[1] = r}
UnmatchedOf(r) == {u \in unmatched : u[1] = r}

RulesOK ==
  /\ rules \in [RuleIds -> RuleVersions \cup {NoRule}]
  /\ \A i \in RuleIds : rules[i] = NoRule \/ ValidateRule(rules[i])
Whole(f) == DOMAIN f = Recons /\ f = [r \in Recons |-> f[r]]
RunsOK ==
  /\ Whole(recon) /\ Whole(run) /\ Whole(work)
  /\ saved \in [Recons -> Nat]
  /\ \A r \in Recons : saved[r] <= run[r].processed
  /\ \A r \in Recons : RunOK(r, recon[r], run[r], work[r], MatchesOf(r), UnmatchedOf(r))
CacheOK ==
  /\ cache = [o \in Offsets |-> cache[o]]
  /\ \A o \in Offsets : cache[o] = <<>> \/ \E u \in DOMAIN Uploads : cache[o] = PageOf(Uploads[u], o)
MarksOK ==
  /\ marking \subseteq matches
  /\ \A i \in DOMAIN marked : marked[i] # NoItem => \E m \in matches : m[2] = marked[i] /\ m[3] = i
RecStrong == RulesOK /\ RunsOK /\ CacheOK /\ MarksOK

------------------------------------------------------------------------------
\* Queued transactions: the first one and the others (processBatch's channel).
LEMMA QueueHead ==
  ASSUME NEW s \in Seq(Items), s # <<>>
  PROVE  /\ Head(s) \in Items /\ Tail(s) \in Seq(Items)
         /\ IdsOf(s) = {Head(s).id} \cup IdsOf(Tail(s))
         /\ Distinct(s) => Distinct(Tail(s)) /\ Head(s).id \notin IdsOf(Tail(s))
<1>1. Head(s) \in Items /\ Tail(s) \in Seq(Items) /\ Len(s) \in Nat \ {0} /\ Len(Tail(s)) = Len(s) - 1
  OBVIOUS
<1>2. /\ Head(s) = s[1] /\ DOMAIN s = 1 .. Len(s) /\ DOMAIN Tail(s) = 1 .. Len(s) - 1
      /\ \A i \in 1 .. Len(s) - 1 : Tail(s)[i] = s[i + 1]
  BY <1>1
<1>3. \A i \in DOMAIN s : s[i] = Head(s) \/ \E j \in DOMAIN Tail(s) : s[i] = Tail(s)[j]
  <2>1. TAKE i \in DOMAIN s
  <2>2. CASE i = 1
    BY <1>2, <2>2
  <2>3. CASE i # 1
    <3>1. i - 1 \in 1 .. Len(s) - 1 /\ Tail(s)[i - 1] = s[i]
      BY <1>1, <1>2, <2>3
    <3>2. QED
      BY <1>2, <3>1
  <2>4. QED
    BY <2>2, <2>3
<1>4. IdsOf(s) = {Head(s).id} \cup IdsOf(Tail(s))
  <2>1. IdsOf(s) \subseteq {Head(s).id} \cup IdsOf(Tail(s))
    BY <1>3 DEF IdsOf
  <2>2. Head(s).id \in IdsOf(s)
    BY <1>1, <1>2 DEF IdsOf
  <2>3. IdsOf(Tail(s)) \subseteq IdsOf(s)
    <3>1. \A j \in DOMAIN Tail(s) : j + 1 \in DOMAIN s /\ Tail(s)[j] = s[j + 1]
      BY <1>1, <1>2
    <3>2. QED
      BY <3>1 DEF IdsOf
  <2>4. QED
    BY <2>1, <2>2, <2>3
<1>5. ASSUME Distinct(s)
      PROVE  Distinct(Tail(s)) /\ Head(s).id \notin IdsOf(Tail(s))
  <2>1. \A i, j \in 1 .. Len(s) - 1 : Tail(s)[i].id = Tail(s)[j].id => i = j
    BY <1>1, <1>2, <1>5 DEF Distinct
  <2>2. \A j \in 1 .. Len(s) - 1 : Tail(s)[j].id # s[1].id
    BY <1>1, <1>2, <1>5 DEF Distinct
  <2>3. QED
    BY <1>2, <2>1, <2>2 DEF Distinct, IdsOf
<1>6. QED
  BY <1>1, <1>4, <1>5

\* Transactions queued behind others.
LEMMA QueueAppend ==
  ASSUME NEW s \in Seq(Items), NEW p \in Seq(Items)
  PROVE  /\ s \o p \in Seq(Items)
         /\ IdsOf(s \o p) = IdsOf(s) \cup IdsOf(p)
         /\ Distinct(s) /\ Distinct(p) /\ IdsOf(s) \cap IdsOf(p) = {} => Distinct(s \o p)
<1>1. /\ s \o p \in Seq(Items) /\ Len(s) \in Nat /\ Len(p) \in Nat
      /\ DOMAIN s = 1 .. Len(s) /\ DOMAIN p = 1 .. Len(p) /\ DOMAIN (s \o p) = 1 .. Len(s) + Len(p)
  OBVIOUS
<1>2. /\ \A i \in DOMAIN s : i \in DOMAIN (s \o p) /\ (s \o p)[i] = s[i]
      /\ \A i \in DOMAIN p : Len(s) + i \in DOMAIN (s \o p) /\ (s \o p)[Len(s) + i] = p[i]
  BY <1>1
<1>3. \A i \in DOMAIN (s \o p) : \/ i \in DOMAIN s /\ (s \o p)[i] = s[i]
                                 \/ i - Len(s) \in DOMAIN p /\ (s \o p)[i] = p[i - Len(s)]
  BY <1>1
<1>4. IdsOf(s \o p) = IdsOf(s) \cup IdsOf(p)
  <2>1. IdsOf(s \o p) \subseteq IdsOf(s) \cup IdsOf(p)
    BY <1>3 DEF IdsOf
  <2>2. IdsOf(s) \subseteq IdsOf(s \o p) /\ IdsOf(p) \subseteq IdsOf(s \o p)
    BY <1>2 DEF IdsOf
  <2>3. QED
    BY <2>1, <2>2
<1>5. ASSUME Distinct(s), Distinct(p), IdsOf(s) \cap IdsOf(p) = {}
      PROVE  Distinct(s \o p)
  <2>1. \A i \in DOMAIN s, j \in DOMAIN p : s[i].id # p[j].id
    BY <1>5 DEF IdsOf
  <2>2. SUFFICES ASSUME NEW i \in DOMAIN (s \o p), NEW j \in DOMAIN (s \o p), (s \o p)[i].id = (s \o p)[j].id
                 PROVE  i = j
    BY DEF Distinct
  <2>3. i \in 1 .. Len(s) + Len(p) /\ j \in 1 .. Len(s) + Len(p)
    BY <1>1
  <2>4. CASE i \in DOMAIN s /\ j \in DOMAIN s
    BY <1>2, <1>5, <2>2, <2>4 DEF Distinct
  <2>5. CASE i \notin DOMAIN s /\ j \notin DOMAIN s
    <3>1. i - Len(s) \in DOMAIN p /\ j - Len(s) \in DOMAIN p /\ p[i - Len(s)].id = p[j - Len(s)].id
      BY <1>3, <2>2, <2>5
    <3>2. i - Len(s) = j - Len(s)
      BY <1>5, <3>1 DEF Distinct
    <3>3. QED
      BY <1>1, <2>3, <3>2
  <2>6. CASE (i \in DOMAIN s) # (j \in DOMAIN s)
    BY <1>2, <1>3, <2>1, <2>2, <2>6
  <2>7. QED
    BY <2>4, <2>5, <2>6
<1>6. QED
  BY <1>1, <1>4, <1>5

\* A page of the rows that begins behind an offset (getExternalTransactionsPaginated).
LEMMA PageRows ==
  ASSUME NEW rows, rows \in Seq(Items), NEW o \in Nat
  PROVE  LET page == PageOf(rows, o) IN
         /\ page \in Seq(Items)
         /\ \A i \in DOMAIN page : i > 0 /\ i \in Nat /\ o + i \in DOMAIN rows /\ page[i] = rows[o + i]
                                   /\ o + i <= o + Len(page)
         /\ page # <<>> => o + Len(page) \in 0 .. Len(rows)
<1>1. /\ PageSize \in Nat \ {0} /\ Len(rows) \in Nat /\ DOMAIN rows = 1 .. Len(rows)
  BY ReconAssumption
<1>2. PICK m : m = Min({o + PageSize, Len(rows)})
  OBVIOUS
<1>3. m = IF o + PageSize <= Len(rows) THEN o + PageSize ELSE Len(rows)
  <2>1. \A a, b \in Int : Min({a, b}) = IF a <= b THEN a ELSE b
    BY DEF Min
  <2>2. QED
    BY <1>1, <1>2, <2>1
<1>4. m \in Nat /\ m <= Len(rows)
  <2>1. CASE o + PageSize <= Len(rows)
    BY <1>1, <1>3, <2>1
  <2>2. CASE ~(o + PageSize <= Len(rows))
    BY <1>1, <1>3, <2>2
  <2>3. QED
    BY <2>1, <2>2
<1>5. PICK page : page = SubSeq(rows, o + 1, m)
  OBVIOUS
<1>6. page = PageOf(rows, o)
  BY <1>2, <1>5 DEF PageOf
<1>7. page \in Seq(Items) /\ Len(page) = (IF o + 1 <= m THEN m - o ELSE 0) /\ DOMAIN page = 1 .. Len(page)
  BY <1>1, <1>4, <1>5
<1>8. \A i \in 1 .. Len(page) : page[i] = rows[o + i] /\ o + i \in 1 .. Len(rows)
  BY <1>1, <1>4, <1>5, <1>7
<1>9. page # <<>> => Len(page) # 0
  BY <1>7
<1>10. QED
  BY <1>1, <1>4, <1>6, <1>7, <1>8, <1>9

\* A function has a finite range on a finite set.
LEMMA FiniteRange == ASSUME NEW S, IsFiniteSet(S), NEW f PROVE IsFiniteSet({f[i] : i \in S})
<1>1. PICK T : T = {f[i] : i \in S}
  OBVIOUS
<1>2. PICK g : g = [i \in S |-> f[i]]
  OBVIOUS
<1>3. g \in Surjection(S, T)
  BY <1>1, <1>2 DEF Surjection
<1>4. IsFiniteSet(T)
  BY <1>3, FS_Surjection
<1>5. QED
  BY <1>1, <1>4

\* The rows of the uploads and of the ledger are transactions.
LEMMA RowsAreItems ==
  /\ Internals \in Seq(Items) /\ \A u \in DOMAIN Uploads : Uploads[u] \in Seq(Items)
  /\ \A t \in Items : t.id \in ItemIds
<1>1. ASSUME NEW s, s \in Seq({s[n] : n \in DOMAIN s}), {s[n] : n \in DOMAIN s} \subseteq Items
      PROVE  s \in Seq(Items)
  BY <1>1
<1>2. {Internals[n] : n \in DOMAIN Internals} \subseteq Items
  BY DEF Items
<1>3. \A u \in DOMAIN Uploads : {Uploads[u][n] : n \in DOMAIN Uploads[u]} \subseteq Items
  BY DEF Items
<1>4. QED
  BY <1>1, <1>2, <1>3, ReconAssumption DEF ItemIds

\* What reconciling a transaction comes to: pairs of this transaction, finitely
\* many, and at most one unmatched entry unless the worker hangs; one to one and
\* without a fault, either pairs or an entry.
OutcomeOK(c, e, fault, o) ==
  /\ o.matches \subseteq ItemIds \X ItemIds /\ IsFiniteSet(o.matches)
  /\ \A p \in o.matches : (IF c.strategy = "many_to_one" THEN p[2] ELSE p[1]) = e.id
  /\ o.unmatched \in Nat /\ o.hung \in BOOLEAN
  /\ ~o.hung => o.unmatched \in {0, 1}
  /\ c.strategy = "one_to_one" /\ ~fault =>
       ~o.hung /\ ((o.matches = {} /\ o.unmatched = 1) \/ (o.matches # {} /\ o.unmatched = 0))

\* Pairs of one transaction with rows of the ledger (oneToOneReconciliation).
LEMMA PairsWithRows ==
  ASSUME NEW e \in Items, NEW S \in SUBSET Rows
  PROVE  LET pairs == {<<e.id, Internals[n].id>> : n \in S} IN
         /\ pairs \subseteq ItemIds \X ItemIds /\ IsFiniteSet(pairs) /\ IsFiniteSet(S)
         /\ \A p \in pairs : p[1] = e.id
         /\ S # {} => pairs # {}
<1>1. Rows = 1 .. Len(Internals) /\ Len(Internals) \in Nat /\ \A n \in Rows : Internals[n] \in Items
  BY RowsAreItems DEF Rows
<1>2. IsFiniteSet(Rows)
  <2>1. 1 \in Int /\ Len(Internals) \in Int
    BY <1>1
  <2>2. QED
    BY <1>1, <2>1, FS_Interval
<1>3. IsFiniteSet(S)
  BY <1>2, FS_Subset
<1>4. PICK f : f = [n \in Rows |-> <<e.id, Internals[n].id>>]
  OBVIOUS
<1>5. {<<e.id, Internals[n].id>> : n \in S} = {f[n] : n \in S}
  BY <1>4
<1>6. IsFiniteSet({f[n] : n \in S})
  BY <1>3, FiniteRange
<1>7. e.id \in ItemIds /\ \A n \in S : Internals[n].id \in ItemIds
  BY <1>1, RowsAreItems
<1>8. {<<e.id, Internals[n].id>> : n \in S} \subseteq ItemIds \X ItemIds
  BY <1>7
<1>9. IsFiniteSet({<<e.id, Internals[n].id>> : n \in S})
  BY <1>5, <1>6
<1>10. /\ \A p \in {<<e.id, Internals[n].id>> : n \in S} : p[1] = e.id
       /\ S # {} => {<<e.id, Internals[n].id>> : n \in S} # {}
  <2>1. ASSUME NEW p \in {<<e.id, Internals[n].id>> : n \in S} PROVE p[1] = e.id
    <3>1. PICK n \in S : p = <<e.id, Internals[n].id>>
      OBVIOUS
    <3>2. QED
      BY <3>1
  <2>2. ASSUME NEW n \in S PROVE {<<e.id, Internals[m].id>> : m \in S} # {}
    <3>1. <<e.id, Internals[n].id>> \in {<<e.id, Internals[m].id>> : m \in S}
      OBVIOUS
    <3>2. QED
      BY <3>1
  <2>3. QED
    BY <2>1, <2>2
<1>11. QED
  BY ONLY <1>3, <1>8, <1>9, <1>10

\* One to one, the search works (findMatchingInternalTransaction).
LEMMA OneToOneOK ==
  ASSUME NEW c, NEW e \in Items, NEW rs, NEW o \in OneToOne(e, rs),
         c.strategy = "one_to_one"
  PROVE  OutcomeOK(c, e, FALSE, o)
<1>1. PICK fits : fits = Fits(e, rs)
  OBVIOUS
<1>2. fits \subseteq Rows /\ IsFiniteSet(fits)
  BY <1>1, PairsWithRows DEF Fits
<1>3. CASE fits = {}
  <2>1. o = [matches |-> {}, unmatched |-> 1, hung |-> FALSE]
    BY <1>1, <1>3 DEF OneToOne, Outcome
  <2>2. QED
    BY <2>1, FS_EmptySet DEF OutcomeOK
<1>4. CASE fits # {}
  <2>1. PICK n : n = Min({Cardinality(fits), MatchWorkers})
    OBVIOUS
  <2>2. Cardinality(fits) \in Nat \ {0} /\ MatchWorkers \in Nat \ {0}
    BY <1>2, <1>4, FS_CardinalityType, FS_EmptySet, ReconAssumption
  <2>3. n # 0
    <3>1. \A a, b \in Int : Min({a, b}) \in {a, b}
      BY DEF Min
    <3>2. QED
      BY <2>1, <2>2, <3>1
  <2>4. PICK S \in kSubset(n, fits) :
          o = [matches |-> {<<e.id, Internals[m].id>> : m \in S}, unmatched |-> 0, hung |-> FALSE]
    BY <1>1, <1>4, <2>1 DEF OneToOne, Outcome
  <2>5. S \subseteq fits /\ Cardinality(S) = n
    BY <2>4 DEF kSubset
  <2>6. S # {}
    BY <2>3, <2>5, FS_EmptySet
  <2>7. QED
    BY <1>2, <2>4, <2>5, <2>6, PairsWithRows DEF OutcomeOK
<1>5. QED
  BY <1>3, <1>4

\* One to one, the search fails half way.
LEMMA OneToOneFailsOK ==
  ASSUME NEW c, NEW e \in Items, NEW rs, NEW o \in OneToOneFails(e, rs),
         c.strategy = "one_to_one"
  PROVE  OutcomeOK(c, e, TRUE, o)
<1>1. PICK S \in SUBSET Fits(e, rs) :
        o = [matches |-> {<<e.id, Internals[m].id>> : m \in S}, unmatched |-> 1, hung |-> FALSE]
  BY DEF OneToOneFails, Outcome
<1>2. S \in SUBSET Rows
  BY DEF Fits
<1>3. QED
  BY <1>1, <1>2, PairsWithRows DEF OutcomeOK

\* The groups of a page are groups of rows (GroupTransactions).
LEMMA GroupsOfRows ==
  ASSUME NEW rows, rows \in Seq(Items)
  PROVE  LET pages == GroupPages(rows) IN
         /\ Len(pages) \in Nat /\ DOMAIN pages = 1 .. Len(pages)
         /\ \A p \in DOMAIN pages : \A g \in pages[p] : g \subseteq {rows[n] : n \in DOMAIN rows}
<1>1. PICK all : all = {rows[n] : n \in DOMAIN rows}
  OBVIOUS
<1>2. PICK keyed : keyed = {t \in all : t.group # 0}
  OBVIOUS
<1>3. IsFiniteSet(keyed)
  <2>1. DOMAIN rows = 1 .. Len(rows) /\ Len(rows) \in Int /\ 1 \in Int
    OBVIOUS
  <2>2. IsFiniteSet(DOMAIN rows)
    BY <2>1, FS_Interval
  <2>3. IsFiniteSet(all)
    BY <1>1, <2>2, FiniteRange
  <2>4. QED
    BY <1>2, <2>3, FS_Subset
<1>4. PICK n : n = (Cardinality(keyed) + PageSize - 1) \div PageSize
  OBVIOUS
<1>5. n \in Nat
  <2>1. Cardinality(keyed) \in Nat /\ PageSize \in Nat \ {0}
    BY <1>3, FS_CardinalityType, ReconAssumption
  <2>2. PICK a : a = Cardinality(keyed) + PageSize - 1
    OBVIOUS
  <2>3. a \in Nat /\ PageSize \in Nat /\ PageSize > 0
    BY <2>1, <2>2
  <2>4. a \div PageSize \in Int
    BY <2>3
  <2>5. a \div PageSize >= 0
    BY <2>3
  <2>6. QED
    BY <1>4, <2>2, <2>4, <2>5
<1>7. PICK pages : pages = GroupPages(rows)
  OBVIOUS
<1>8. pages = [p \in 1 .. n |-> pages[p]]
  BY <1>1, <1>2, <1>4, <1>7 DEF GroupPages
<1>9. Len(pages) = n /\ DOMAIN pages = 1 .. n
  BY <1>5, <1>8
<1>10. \A p \in 1 .. n : \A g \in pages[p] : g \subseteq all
  BY <1>1, <1>2, <1>4, <1>7 DEF GroupPages
<1>11. QED
  BY <1>1, <1>5, <1>7, <1>9, <1>10

\* One to many and many to one: at most one group of each page is taken, and at
\* most one page may be without one (oneToManyReconciliation).
LEMMA GroupOutcomesOK ==
  ASSUME NEW c, NEW e \in Items, NEW rs, NEW rows, rows \in Seq(Items),
         NEW n \in 0 .. Len(GroupPages(rows)), NEW fault,
         NEW o \in GroupOutcomes(e, rs, GroupPages(rows), n, c.strategy = "many_to_one"),
         c.strategy # "one_to_one"
  PROVE  OutcomeOK(c, e, fault, o)
<1>1. PICK pages : pages = GroupPages(rows)
  OBVIOUS
<1>2. PICK all : all = {rows[i] : i \in DOMAIN rows}
  OBVIOUS
<1>3. /\ n \in Nat /\ \A p \in 1 .. n : \A g \in pages[p] : g \subseteq all
  <2>1. Len(pages) \in Nat /\ DOMAIN pages = 1 .. Len(pages) /\ \A p \in DOMAIN pages : \A g \in pages[p] : g \subseteq all
    BY <1>1, <1>2, GroupsOfRows
  <2>2. n \in 0 .. Len(pages)
    BY <1>1
  <2>3. QED
    BY <2>1, <2>2
<1>5. PICK pair : pair = [t \in all |-> IF c.strategy = "many_to_one" THEN <<t.id, e.id>> ELSE <<e.id, t.id>>]
  OBVIOUS
<1>6. PICK f, open : /\ open \subseteq 1 .. n
                     /\ \A p \in DOMAIN f : f[p] \subseteq all
                     /\ o = [matches |-> {pair[t] : t \in UNION {f[p] : p \in DOMAIN f}},
                             unmatched |-> IF n = 0 THEN 1 ELSE Cardinality(open),
                             hung |-> Cardinality(open) > 1]
  <2>1. PICK open : open = {p \in 1 .. n : {g \in pages[p] : MatchesRules(e, Group(g), rs)} = {}}
    OBVIOUS
  <2>2. PICK external : external = (c.strategy = "many_to_one")
    OBVIOUS
  <2>3. o \in GroupOutcomes(e, rs, pages, n, external)
    BY <1>1, <2>2
  <2>4. PICK f \in [(1 .. n) \ open -> UNION {{g \in pages[p] : MatchesRules(e, Group(g), rs)} : p \in 1 .. n}] :
           /\ \A p \in DOMAIN f : f[p] \in {g \in pages[p] : MatchesRules(e, Group(g), rs)}
           /\ o = [matches |-> {IF external THEN <<t.id, e.id>> ELSE <<e.id, t.id>> :
                                  t \in UNION {f[p] : p \in DOMAIN f}},
                   unmatched |-> IF n = 0 THEN 1 ELSE Cardinality(open),
                   hung |-> Cardinality(open) > 1]
    BY <2>1, <2>3 DEF GroupOutcomes, Outcome
  <2>5. open \subseteq 1 .. n /\ \A p \in DOMAIN f : f[p] \subseteq all
    BY <1>3, <2>1, <2>4
  <2>6. {IF external THEN <<t.id, e.id>> ELSE <<e.id, t.id>> : t \in UNION {f[p] : p \in DOMAIN f}}
        = {pair[t] : t \in UNION {f[p] : p \in DOMAIN f}}
    BY <1>5, <2>2, <2>5
  <2>7. o = [matches |-> {pair[t] : t \in UNION {f[p] : p \in DOMAIN f}},
             unmatched |-> IF n = 0 THEN 1 ELSE Cardinality(open),
             hung |-> Cardinality(open) > 1]
    BY ONLY <2>4, <2>6
  <2>8. WITNESS f, open
  <2>9. QED
    BY ONLY <2>5, <2>7
<1>7. PICK used : used = UNION {f[p] : p \in DOMAIN f}
  OBVIOUS
<1>8. used \subseteq all /\ \A t \in all : t \in Items /\ t.id \in ItemIds
  BY <1>2, <1>6, <1>7, RowsAreItems
<1>9. IsFiniteSet(used)
  <2>1. DOMAIN rows = 1 .. Len(rows) /\ Len(rows) \in Int /\ 1 \in Int
    OBVIOUS
  <2>2. IsFiniteSet(DOMAIN rows)
    BY <2>1, FS_Interval
  <2>3. IsFiniteSet(all)
    BY <1>2, <2>2, FiniteRange
  <2>4. QED
    BY <1>8, <2>3, FS_Subset
<1>10. PICK pairs : pairs = {pair[t] : t \in used}
  OBVIOUS
<1>11. IsFiniteSet(pairs)
  BY <1>9, <1>10, FiniteRange
<1>12. e.id \in ItemIds
  BY RowsAreItems
<1>13. \A p \in pairs : p \in ItemIds \X ItemIds /\ (IF c.strategy = "many_to_one" THEN p[2] ELSE p[1]) = e.id
  <2>1. SUFFICES ASSUME NEW p \in pairs
                 PROVE  p \in ItemIds \X ItemIds /\ (IF c.strategy = "many_to_one" THEN p[2] ELSE p[1]) = e.id
    OBVIOUS
  <2>2. PICK t \in used : p = pair[t]
    BY <1>10
  <2>3. t.id \in ItemIds /\ t \in all
    BY <1>8
  <2>4. CASE c.strategy = "many_to_one"
    <3>1. p = <<t.id, e.id>>
      BY <1>5, <2>2, <2>3, <2>4
    <3>2. QED
      BY <1>12, <2>3, <2>4, <3>1
  <2>5. CASE c.strategy # "many_to_one"
    <3>1. p = <<e.id, t.id>>
      BY <1>5, <2>2, <2>3, <2>5
    <3>2. QED
      BY <1>12, <2>3, <2>5, <3>1
  <2>6. QED
    BY <2>4, <2>5
<1>14. Cardinality(open) \in Nat /\ Cardinality(open) = Cardinality(open) /\ (n = 0 => Cardinality(open) = 0)
  <2>1. IsFiniteSet(open)
    <3>1. 1 \in Int /\ n \in Int
      BY <1>3
    <3>2. IsFiniteSet(1 .. n)
      BY <3>1, FS_Interval
    <3>3. QED
      BY <1>6, <3>2, FS_Subset
  <2>2. n = 0 => open = {}
    BY <1>6
  <2>3. QED
    BY <2>1, <2>2, FS_CardinalityType, FS_EmptySet
<1>15. o = [matches |-> pairs, unmatched |-> IF n = 0 THEN 1 ELSE Cardinality(open), hung |-> Cardinality(open) > 1]
  BY <1>6, <1>7, <1>10, <1>14
<1>16. o.matches = pairs /\ o.hung = (Cardinality(open) > 1)
       /\ o.unmatched = IF n = 0 THEN 1 ELSE Cardinality(open)
  BY <1>15
<1>17. o.unmatched \in Nat /\ o.hung \in BOOLEAN /\ (~o.hung => o.unmatched \in {0, 1})
  <2>1. PICK i : i = Cardinality(open)
    OBVIOUS
  <2>2. i \in Nat /\ (~(i > 1) => i \in {0, 1})
    BY <1>14, <2>1
  <2>3. o.unmatched = IF n = 0 THEN 1 ELSE i
    BY <1>16, <2>1
  <2>4. o.hung = (i > 1)
    BY <1>16, <2>1
  <2>5. o.unmatched \in Nat /\ (~(i > 1) => o.unmatched \in {0, 1})
    BY <2>2, <2>3
  <2>6. o.hung \in BOOLEAN
    <3>1. (i > 1) = TRUE \/ (i > 1) = FALSE
      OBVIOUS
    <3>2. o.hung = TRUE \/ o.hung = FALSE
      BY ONLY <2>4, <3>1, Zenon
    <3>3. QED
      BY <3>2
  <2>7. ~o.hung => ~(i > 1)
    BY ONLY <2>4, Zenon
  <2>8. QED
    BY ONLY <2>5, <2>6, <2>7, Zenon
<1>18. QED
  BY <1>11, <1>13, <1>16, <1>17 DEF OutcomeOK

\* Whatever the strategy (createReconciler).
LEMMA OutcomesOK ==
  ASSUME NEW r \in Recons, recon[r] \in ReconFields, NEW e \in Items,
         NEW fault \in BOOLEAN, NEW o \in Outcomes(r, e, fault)
  PROVE  OutcomeOK(recon[r], e, fault, o)
<1>1. recon[r].strategy \in Strategies /\ recon[r].upload \in DOMAIN Uploads
  BY DEF ReconFields
<1>2. CASE recon[r].strategy # "one_to_one"
  <2>1. o \in GroupedReconciliation(r, e, fault)
    BY <1>2 DEF Outcomes
  <2>2. PICK rows : rows = IF recon[r].strategy = "one_to_many" THEN Internals ELSE Uploads[recon[r].upload]
    OBVIOUS
  <2>3. rows \in Seq(Items)
    BY <1>1, <2>2, RowsAreItems
  <2>4. GroupsOf(r) = GroupPages(rows)
    BY <2>2 DEF GroupsOf
  <2>5. PICK n \in 0 .. Len(GroupPages(rows)) :
          o \in GroupOutcomes(e, run[r].rules, GroupPages(rows), n, recon[r].strategy = "many_to_one")
    BY <2>1, <2>4 DEF GroupedReconciliation
  <2>6. QED
    BY <1>2, <2>3, <2>5, GroupOutcomesOK
<1>3. CASE recon[r].strategy = "one_to_one" /\ fault
  <2>1. o \in OneToOneFails(e, run[r].rules)
    BY <1>3 DEF Outcomes
  <2>2. OutcomeOK(recon[r], e, TRUE, o)
    BY <1>3, <2>1, OneToOneFailsOK
  <2>3. QED
    BY <1>3, <2>2
<1>4. CASE recon[r].strategy = "one_to_one" /\ ~fault
  <2>1. o \in OneToOne(e, run[r].rules)
    BY <1>4 DEF Outcomes
  <2>2. OutcomeOK(recon[r], e, FALSE, o)
    BY <1>4, <2>1, OneToOneOK
  <2>3. QED
    BY <1>4, <2>2 DEF OutcomeOK
<1>5. QED
  BY <1>2, <1>3, <1>4

------------------------------------------------------------------------------
\* As many triples as pairs.
LEMMA TriplesCount ==
  ASSUME NEW r, NEW job, job.matches \subseteq ItemIds \X ItemIds, IsFiniteSet(job.matches)
  PROVE  IsFiniteSet(Triples(r, job)) /\ Cardinality(Triples(r, job)) = Cardinality(job.matches)
<1>1. PICK P : P = job.matches
  OBVIOUS
<1>2. PICK f : f = [p \in P |-> <<r, p[1], p[2]>>]
  OBVIOUS
<1>3. PICK T : T = Triples(r, job)
  OBVIOUS
<1>4. f \in Surjection(P, T)
  BY <1>1, <1>2, <1>3 DEF Surjection, Triples
<1>5. \A p, q \in P : f[p] = f[q] => p = q
  <2>1. SUFFICES ASSUME NEW p \in P, NEW q \in P, f[p] = f[q] PROVE p = q
    OBVIOUS
  <2>2. <<r, p[1], p[2]>> = <<r, q[1], q[2]>>
    BY <1>2, <2>1
  <2>3. p[1] = q[1] /\ p[2] = q[2] /\ p = <<p[1], p[2]>> /\ q = <<q[1], q[2]>>
    BY <1>1, <2>2
  <2>4. QED
    BY <2>3
<1>6. f \in Injection(P, T)
  BY <1>2, <1>4, <1>5 DEF Injection, Surjection, IsInjective
<1>7. IsFiniteSet(P)
  BY <1>1
<1>8. IsFiniteSet(T) /\ Cardinality(T) = Cardinality(P)
  BY <1>4, <1>6, <1>7, FS_Surjection
<1>9. QED
  BY <1>1, <1>3, <1>8

\* What is due of the workers but one.
OthersMatches(r, k, w) == UNION {Triples(r, k[v]) : v \in {u \in ReconWorkers : u # w /\ k[u].stage = "match"}}
OthersUnmatched(r, k, w) ==
  {<<r, k[v].item.id>> : v \in {u \in ReconWorkers : u # w /\ k[u].stage \in {"match", "unmatch"} /\ k[u].unmatched > 0}}
OwnMatches(r, job) == IF job.stage = "match" THEN Triples(r, job) ELSE {}
OwnUnmatched(r, job) ==
  IF job.stage \in {"match", "unmatch"} /\ job.unmatched > 0 THEN {<<r, job.item.id>>} ELSE {}

\* It is due of one worker or of the others.
LEMMA DueSplit ==
  ASSUME NEW r, NEW k, NEW w \in ReconWorkers
  PROVE  /\ DueMatches(r, k) = OthersMatches(r, k, w) \cup OwnMatches(r, k[w])
         /\ DueUnmatched(r, k) = OthersUnmatched(r, k, w) \cup OwnUnmatched(r, k[w])
<1>1. DueMatches(r, k) = OthersMatches(r, k, w) \cup OwnMatches(r, k[w])
  <2>1. CASE k[w].stage = "match"
    BY <2>1 DEF DueMatches, OthersMatches, OwnMatches
  <2>2. CASE k[w].stage # "match"
    BY <2>2 DEF DueMatches, OthersMatches, OwnMatches
  <2>3. QED
    BY <2>1, <2>2
<1>2. DueUnmatched(r, k) = OthersUnmatched(r, k, w) \cup OwnUnmatched(r, k[w])
  <2>1. CASE k[w].stage \in {"match", "unmatch"} /\ k[w].unmatched > 0
    BY <2>1 DEF DueUnmatched, OthersUnmatched, OwnUnmatched
  <2>2. CASE ~(k[w].stage \in {"match", "unmatch"} /\ k[w].unmatched > 0)
    BY <2>2 DEF DueUnmatched, OthersUnmatched, OwnUnmatched
  <2>3. QED
    BY <2>1, <2>2
<1>3. QED
  BY <1>1, <1>2

\* A step of one worker leaves what is due of the others.
LEMMA DueAfter ==
  ASSUME NEW r, NEW k, NEW w \in ReconWorkers, NEW after, \A v \in ReconWorkers : v # w => after[v] = k[v]
  PROVE  /\ DueMatches(r, after) = OthersMatches(r, k, w) \cup OwnMatches(r, after[w])
         /\ DueUnmatched(r, after) = OthersUnmatched(r, k, w) \cup OwnUnmatched(r, after[w])
<1>1. OthersMatches(r, after, w) = OthersMatches(r, k, w)
  BY DEF OthersMatches
<1>2. OthersUnmatched(r, after, w) = OthersUnmatched(r, k, w)
  BY DEF OthersUnmatched
<1>3. /\ DueMatches(r, after) = OthersMatches(r, after, w) \cup OwnMatches(r, after[w])
      /\ DueUnmatched(r, after) = OthersUnmatched(r, after, w) \cup OwnUnmatched(r, after[w])
  BY ONLY DueSplit, w \in ReconWorkers
<1>4. QED
  BY ONLY <1>1, <1>2, <1>3

\* The types of what a run knows.
RunTypes(r, c, x, k, M, U) ==
  /\ c \in ReconFields /\ x \in RunFields /\ k \in [ReconWorkers -> WorkFields]
  /\ \A m \in M : m[1] = r
  /\ (\A u \in U : u[1] = r)

\* A run that will not complete has only its types to keep.
LEMMA RunLost ==
  ASSUME NEW r, NEW c, NEW x, NEW k, NEW M, NEW U, RunTypes(r, c, x, k, M, U),
         c.status \notin {"none", "completed"}, x.stage \in {"returned", "over"} \/ (x.stage = "work" /\ x.failed)
  PROVE  RunOK(r, c, x, k, M, U)
BY DEF RunOK, RunTypes

\* What there is to show of a run at work.
LEMMA RunLive ==
  ASSUME NEW r, NEW c, NEW x, NEW k, NEW M, NEW U, RunTypes(r, c, x, k, M, U),
         c.status \notin {"none", "completed"}, x.stage = "work", ~x.failed,
         Counted(r, c, x, k, M, U), Placed(r, c, x, k, M, U), Deciding(r, c, x, k, M, U)
  PROVE  RunOK(r, c, x, k, M, U)
BY DEF RunOK, RunTypes

\* What is known of a run with a worker at a transaction or one that fetches.
LEMMA RunKnown ==
  ASSUME NEW r, NEW c, NEW x, NEW k, NEW M, NEW U, RunOK(r, c, x, k, M, U),
         x.stage \in {"work", "returned"} \/ \E w \in ReconWorkers : k[w].stage # "idle"
  PROVE  /\ RunTypes(r, c, x, k, M, U) /\ c.status \notin {"none", "completed"}
         /\ x.stage \in {"work", "returned", "over"}
         /\ x.stage = "work" /\ ~x.failed =>
              Counted(r, c, x, k, M, U) /\ Placed(r, c, x, k, M, U) /\ Deciding(r, c, x, k, M, U)
<1>1. RunTypes(r, c, x, k, M, U)
  BY DEF RunOK, RunTypes
<1>2. c.status \notin {"none", "completed"} /\ x.stage \notin {"off", "begin", "rules"}
  BY DEF RunOK, Busy
<1>3. x.stage \in {"off", "begin", "rules", "work", "returned", "over"}
  BY DEF RunOK, RunFields
<1>4. x.stage = "work" /\ ~x.failed =>
        Counted(r, c, x, k, M, U) /\ Placed(r, c, x, k, M, U) /\ Deciding(r, c, x, k, M, U)
  BY DEF RunOK
<1>5. QED
  BY <1>1, <1>2, <1>3, <1>4

------------------------------------------------------------------------------
\* A worker takes a transaction (transactionProcessor.process).
TakeFacts(c, x, k, w, fault, o, y, job) ==
  /\ k[w].stage = "idle" /\ x.jobs # <<>> /\ OutcomeOK(c, Head(x.jobs), fault, o)
  /\ y \in RunFields /\ y.jobs = Tail(x.jobs) /\ y.lost = (x.lost \/ fault)
  /\ y.fetched = x.fetched /\ y.offset = x.offset
  /\ y.matched = x.matched + (IF o.hung THEN 0 ELSE Cardinality(o.matches))
  /\ y.unmatched = x.unmatched + (IF o.hung THEN 0 ELSE o.unmatched)
  /\ job \in WorkFields /\ job.item = Head(x.jobs) /\ job.matches = o.matches /\ job.unmatched = o.unmatched
  /\ job.stage = (IF o.hung THEN "hung" ELSE IF c.dry THEN "count" ELSE IF o.matches # {} THEN "match"
                  ELSE IF o.unmatched > 0 THEN "unmatch" ELSE "count")

\* The transaction it takes is the first of the queue.
LEMMA TakeItem ==
  ASSUME NEW r, NEW c, NEW x, NEW k, NEW M, NEW U, RunTypes(r, c, x, k, M, U),
         NEW w, NEW fault, NEW o, NEW y, NEW job, TakeFacts(c, x, k, w, fault, o, y, job)
  PROVE  job.item.id \in IdsOf(x.jobs) /\ IdsOf(x.jobs) = IdsOf(y.jobs) \cup {job.item.id}
<1>1. x.jobs \in Seq(Items) /\ x.jobs # <<>> /\ job.item = Head(x.jobs) /\ y.jobs = Tail(x.jobs)
  BY DEF RunTypes, RunFields, TakeFacts
<1>2. QED
  BY <1>1, QueueHead

\* The transaction it takes was nowhere else.
LEMMA TakePlaced ==
  ASSUME NEW r, NEW c, NEW x, NEW k, NEW M, NEW U, RunTypes(r, c, x, k, M, U), Placed(r, c, x, k, M, U),
         NEW w \in ReconWorkers, NEW fault \in BOOLEAN, NEW o, NEW y, NEW job, TakeFacts(c, x, k, w, fault, o, y, job),
         NEW after, after = [k EXCEPT ![w] = job]
  PROVE  Placed(r, c, y, after, M, U)
<1>2. after[w] = job /\ \A v \in ReconWorkers : v # w => after[v] = k[v]
  BY DEF RunTypes, TakeFacts
<1>3. PICK e : e = job.item
  OBVIOUS
<1>4. PICK old, new : old = IdsOf(x.jobs) /\ new = IdsOf(y.jobs)
  OBVIOUS
<1>5. /\ e \in Items /\ old = {e.id} \cup new /\ Distinct(y.jobs) /\ e.id \notin new
      /\ e.id \in x.fetched /\ old \subseteq x.fetched
  <2>1. x.jobs \in Seq(Items) /\ x.jobs # <<>> /\ e = Head(x.jobs) /\ y.jobs = Tail(x.jobs) /\ Distinct(x.jobs)
    BY <1>3 DEF RunTypes, RunFields, TakeFacts, Placed
  <2>2. old \subseteq x.fetched
    BY <1>4 DEF Placed
  <2>3. QED
    BY <1>4, <2>1, <2>2, QueueHead
<1>6. y.fetched = x.fetched /\ y.offset = x.offset
  BY DEF TakeFacts
<1>7. /\ y.fetched \subseteq Early(c, y.offset) /\ new \subseteq y.fetched
  BY <1>5, <1>6 DEF Placed
<1>8. \A v \in ReconWorkers : Busy(after, v) => after[v].item \in Items /\ after[v].item.id \in y.fetched \ new
  <2>1. \A v \in ReconWorkers : v # w /\ Busy(k, v) => k[v].item \in Items /\ k[v].item.id \in x.fetched \ old
    BY <1>4 DEF Placed
  <2>2. QED
    BY <1>2, <1>3, <1>5, <1>6, <2>1 DEF Busy
<1>9. \A u, v \in ReconWorkers : Busy(after, u) /\ Busy(after, v) /\ after[u].item.id = after[v].item.id => u = v
  <2>1. \A v \in ReconWorkers : v # w /\ Busy(k, v) => k[v].item.id # e.id
    BY <1>4, <1>5 DEF Placed
  <2>2. \A u, v \in ReconWorkers : Busy(k, u) /\ Busy(k, v) /\ k[u].item.id = k[v].item.id => u = v
    BY DEF Placed
  <2>3. QED
    BY <1>2, <1>3, <2>1, <2>2 DEF Busy
<1>10. /\ \A m \in M : Subject(c, m) \in y.fetched \ new /\ Subject(c, m) # e.id
       /\ \A u \in U : u[2] \in y.fetched \ new /\ u[2] # e.id
  BY <1>4, <1>5, <1>6 DEF Placed
<1>11. \A m \in Triples(r, job) : Subject(c, m) = e.id
  <2>1. SUFFICES ASSUME NEW m \in Triples(r, job) PROVE Subject(c, m) = e.id
    OBVIOUS
  <2>2. PICK p \in job.matches : m = <<r, p[1], p[2]>>
    BY DEF Triples
  <2>3. (IF c.strategy = "many_to_one" THEN p[2] ELSE p[1]) = e.id
    BY <1>3 DEF TakeFacts, OutcomeOK
  <2>4. m[2] = p[1] /\ m[3] = p[2]
    BY <2>2
  <2>5. QED
    BY <2>3, <2>4 DEF Subject
<1>12. <<r, e.id>> \notin U
  <2>1. <<r, e.id>>[2] = e.id
    OBVIOUS
  <2>2. QED
    BY <1>10, <2>1
<1>13. job.stage # "stopped" /\ (job.stage = "unmatch" => job.unmatched > 0)
  BY DEF TakeFacts
<1>14. \A v \in ReconWorkers :
         /\ after[v].stage # "stopped"
         /\ after[v].stage = "match" =>
              /\ \A m \in Triples(r, after[v]) : Subject(c, m) = after[v].item.id
              /\ \A m \in M : Subject(c, m) # after[v].item.id
         /\ after[v].stage \in {"match", "unmatch"} => <<r, after[v].item.id>> \notin U
         /\ after[v].stage = "unmatch" => after[v].unmatched > 0
  <2>1. SUFFICES ASSUME NEW v \in ReconWorkers
                 PROVE  /\ after[v].stage # "stopped"
                        /\ after[v].stage = "match" =>
                             /\ \A m \in Triples(r, after[v]) : Subject(c, m) = after[v].item.id
                             /\ \A m \in M : Subject(c, m) # after[v].item.id
                        /\ after[v].stage \in {"match", "unmatch"} => <<r, after[v].item.id>> \notin U
                        /\ after[v].stage = "unmatch" => after[v].unmatched > 0
    OBVIOUS
  <2>2. CASE v = w
    BY ONLY <1>2, <1>3, <1>10, <1>11, <1>12, <1>13, <2>2
  <2>3. CASE v # w
    BY <1>2, <2>3 DEF Placed
  <2>4. QED
    BY <2>2, <2>3
<1>15. QED
  BY ONLY <1>4, <1>5, <1>7, <1>8, <1>9, <1>10, <1>14 DEF Placed

\* It is counted with what it came to.
LEMMA TakeCounted ==
  ASSUME NEW r, NEW c, NEW x, NEW k, NEW M, NEW U, RunTypes(r, c, x, k, M, U), Placed(r, c, x, k, M, U),
         Counted(r, c, x, k, M, U),
         NEW w \in ReconWorkers, NEW fault \in BOOLEAN, NEW o, NEW y, NEW job, TakeFacts(c, x, k, w, fault, o, y, job),
         NEW after, after = [k EXCEPT ![w] = job]
  PROVE  Counted(r, c, y, after, M, U)
<1>1. SUFFICES ASSUME ~c.dry PROVE Counted(r, c, y, after, M, U)
  BY DEF Counted
<1>3. /\ DueMatches(r, after) = OthersMatches(r, k, w) \cup OwnMatches(r, job)
      /\ DueUnmatched(r, after) = OthersUnmatched(r, k, w) \cup OwnUnmatched(r, job)
  <2>1. after[w] = job /\ \A v \in ReconWorkers : v # w => after[v] = k[v]
    BY DEF RunTypes, TakeFacts
  <2>2. /\ DueMatches(r, after) = OthersMatches(r, k, w) \cup OwnMatches(r, after[w])
        /\ DueUnmatched(r, after) = OthersUnmatched(r, k, w) \cup OwnUnmatched(r, after[w])
    <3>1. \A v \in ReconWorkers : v # w => after[v] = k[v]
      BY <2>1
    <3>2. QED
      BY ONLY <3>1, w \in ReconWorkers, DueAfter
  <2>3. QED
    BY ONLY <2>1, <2>2
<1>4. DueMatches(r, k) = OthersMatches(r, k, w) /\ DueUnmatched(r, k) = OthersUnmatched(r, k, w)
  <2>1. OwnMatches(r, k[w]) = {} /\ OwnUnmatched(r, k[w]) = {}
    BY DEF TakeFacts, OwnMatches, OwnUnmatched
  <2>2. /\ DueMatches(r, k) = OthersMatches(r, k, w) \cup OwnMatches(r, k[w])
        /\ DueUnmatched(r, k) = OthersUnmatched(r, k, w) \cup OwnUnmatched(r, k[w])
    BY ONLY w \in ReconWorkers, DueSplit
  <2>3. QED
    BY ONLY <2>1, <2>2
<1>5. PICK A, B : A = M \cup DueMatches(r, k) /\ B = U \cup DueUnmatched(r, k)
  OBVIOUS
<1>6. /\ IsFiniteSet(A) /\ x.matched = Cardinality(A) /\ IsFiniteSet(B) /\ x.unmatched = Cardinality(B)
      /\ Cardinality(A) \in Nat /\ Cardinality(B) \in Nat
  BY <1>1, <1>5, FS_CardinalityType DEF Counted
<1>7. M \cup DueMatches(r, after) = A \cup OwnMatches(r, job) /\ U \cup DueUnmatched(r, after) = B \cup OwnUnmatched(r, job)
  BY <1>3, <1>4, <1>5
<1>8. PICK e : e = job.item.id
  OBVIOUS
<1>9. e \in IdsOf(x.jobs)
  <2>1. job.item.id \in IdsOf(x.jobs)
    BY ONLY TakeItem, RunTypes(r, c, x, k, M, U), TakeFacts(c, x, k, w, fault, o, y, job)
  <2>2. QED
    BY <1>8, <2>1
<1>10. \A m \in A : Subject(c, m) # e
  <2>1. \A m \in M : Subject(c, m) # e
    BY <1>9 DEF Placed
  <2>2. ASSUME NEW m \in DueMatches(r, k) PROVE Subject(c, m) # e
    <3>1. PICK v \in ReconWorkers : k[v].stage = "match" /\ m \in Triples(r, k[v])
      BY DEF DueMatches
    <3>2. Subject(c, m) = k[v].item.id /\ k[v].item.id \notin IdsOf(x.jobs)
      BY <3>1 DEF Placed, Busy
    <3>3. QED
      BY <1>9, <3>2
  <2>3. QED
    BY <1>5, <2>1, <2>2
<1>11. <<r, e>> \notin B
  <2>1. <<r, e>> \notin U
    <3>1. <<r, e>>[2] = e
      OBVIOUS
    <3>2. QED
      BY <1>9, <3>1 DEF Placed
  <2>2. <<r, e>> \notin DueUnmatched(r, k)
    <3>1. ASSUME <<r, e>> \in DueUnmatched(r, k) PROVE FALSE
      <4>1. PICK v \in ReconWorkers : k[v].stage \in {"match", "unmatch"} /\ <<r, e>> = <<r, k[v].item.id>>
        BY <3>1 DEF DueUnmatched
      <4>2. e = k[v].item.id /\ Busy(k, v)
        BY <4>1 DEF Busy
      <4>3. k[v].item.id \notin IdsOf(x.jobs)
        BY <4>2 DEF Placed
      <4>4. QED
        BY <1>9, <4>2, <4>3
    <3>2. QED
      BY <3>1
  <2>3. QED
    BY <1>5, <2>1, <2>2
<1>12. CASE o.hung
  <2>1. OwnMatches(r, job) = {} /\ OwnUnmatched(r, job) = {} /\ y.matched = x.matched /\ y.unmatched = x.unmatched
    BY <1>6, <1>12 DEF TakeFacts, OwnMatches, OwnUnmatched
  <2>2. QED
    BY <1>6, <1>7, <2>1 DEF Counted
<1>13. CASE ~o.hung
  <2>1. /\ y.matched = x.matched + Cardinality(o.matches) /\ y.unmatched = x.unmatched + o.unmatched
        /\ o.unmatched \in {0, 1} /\ IsFiniteSet(o.matches) /\ o.matches \subseteq ItemIds \X ItemIds
    BY <1>13 DEF TakeFacts, OutcomeOK
  <2>2. PICK N : N = OwnMatches(r, job)
    OBVIOUS
  <2>3. N = Triples(r, job)
    BY <1>1, <1>13, <2>2 DEF TakeFacts, OwnMatches, Triples
  <2>4. IsFiniteSet(N) /\ Cardinality(N) = Cardinality(o.matches)
    BY <2>1, <2>3, TriplesCount DEF TakeFacts
  <2>5. \A m \in N : Subject(c, m) = e
    <3>1. ASSUME NEW m \in N PROVE Subject(c, m) = e
      <4>1. PICK p \in o.matches : m = <<r, p[1], p[2]>>
        BY <2>3 DEF Triples, TakeFacts
      <4>2. (IF c.strategy = "many_to_one" THEN p[2] ELSE p[1]) = e
        BY <1>8 DEF TakeFacts, OutcomeOK
      <4>3. m[2] = p[1] /\ m[3] = p[2]
        BY <4>1
      <4>4. QED
        BY <4>2, <4>3 DEF Subject
    <3>2. QED
      BY <3>1
  <2>6. A \cap N = {}
    BY <1>10, <2>5
  <2>7. IsFiniteSet(A \cup N) /\ y.matched = Cardinality(A \cup N)
    <3>1. Cardinality(A \cup N) = Cardinality(A) + Cardinality(N) - Cardinality(A \cap N) /\ IsFiniteSet(A \cup N)
      BY <1>6, <2>4, FS_Union
    <3>2. Cardinality(A \cap N) = 0 /\ Cardinality(N) \in Nat
      BY <2>4, <2>6, FS_EmptySet, FS_CardinalityType
    <3>3. QED
      BY <1>6, <2>1, <2>4, <3>1, <3>2
  <2>8. IsFiniteSet(B \cup OwnUnmatched(r, job)) /\ y.unmatched = Cardinality(B \cup OwnUnmatched(r, job))
    <3>1. CASE o.unmatched = 0
      <4>1. OwnUnmatched(r, job) = {}
        BY <3>1 DEF OwnUnmatched, TakeFacts
      <4>2. QED
        BY <1>6, <2>1, <3>1, <4>1
    <3>2. CASE o.unmatched = 1
      <4>1. OwnUnmatched(r, job) = {<<r, e>>}
        BY <1>1, <1>8, <1>13, <3>2 DEF OwnUnmatched, TakeFacts
      <4>2. IsFiniteSet(B \cup {<<r, e>>}) /\ Cardinality(B \cup {<<r, e>>}) = Cardinality(B) + 1
        BY <1>6, <1>11, FS_AddElement
      <4>3. QED
        BY <1>6, <2>1, <3>2, <4>1, <4>2
    <3>3. QED
      BY <2>1, <3>1, <3>2
  <2>9. QED
    BY <1>7, <2>2, <2>7, <2>8 DEF Counted
<1>14. QED
  BY <1>12, <1>13

\* One to one, what it came to decides it.
LEMMA TakeDeciding ==
  ASSUME NEW r, NEW c, NEW x, NEW k, NEW M, NEW U, RunTypes(r, c, x, k, M, U), Placed(r, c, x, k, M, U),
         Deciding(r, c, x, k, M, U),
         NEW w \in ReconWorkers, NEW fault \in BOOLEAN, NEW o, NEW y, NEW job, TakeFacts(c, x, k, w, fault, o, y, job),
         NEW after, after = [k EXCEPT ![w] = job]
  PROVE  Deciding(r, c, y, after, M, U)
<1>1. SUFFICES ASSUME c.strategy = "one_to_one", ~y.lost, ~c.dry PROVE Deciding(r, c, y, after, M, U)
  BY DEF Deciding
<1>3. after[w] = job /\ \A v \in ReconWorkers : v # w => after[v] = k[v]
  BY DEF RunTypes, TakeFacts
<1>4. ~x.lost /\ ~fault
  BY <1>1 DEF TakeFacts
<1>5. PICK e : e = job.item.id
  OBVIOUS
<1>6. e \in IdsOf(x.jobs) /\ IdsOf(x.jobs) = IdsOf(y.jobs) \cup {e} /\ y.fetched = x.fetched
  <2>1. job.item.id \in IdsOf(x.jobs) /\ IdsOf(x.jobs) = IdsOf(y.jobs) \cup {job.item.id}
    BY ONLY TakeItem, RunTypes(r, c, x, k, M, U), TakeFacts(c, x, k, w, fault, o, y, job)
  <2>2. y.fetched = x.fetched
    BY DEF TakeFacts
  <2>3. QED
    BY <1>5, <2>1, <2>2
<1>7. \A m \in M : m[2] # e
  BY <1>1, <1>6 DEF Placed, Subject
<1>8. ~o.hung /\ ((o.matches = {} /\ o.unmatched = 1) \/ (o.matches # {} /\ o.unmatched = 0))
  BY <1>1, <1>4 DEF TakeFacts, OutcomeOK
<1>9. (job.stage = "match" /\ job.matches # {} /\ job.unmatched = 0) \/ job.stage = "unmatch"
  BY <1>1, <1>8 DEF TakeFacts
<1>10. \A v \in ReconWorkers :
         /\ k[v].stage = "match" => k[v].matches # {} /\ k[v].unmatched = 0
         /\ k[v].stage = "unmatch" => \A m \in M : m[2] # k[v].item.id
         /\ k[v].stage = "count" => Once(r, M, U, k[v].item.id)
  BY <1>1, <1>4 DEF Deciding
<1>11. \A v \in ReconWorkers :
         /\ after[v].stage = "match" => after[v].matches # {} /\ after[v].unmatched = 0
         /\ after[v].stage = "unmatch" => \A m \in M : m[2] # after[v].item.id
         /\ after[v].stage = "count" => Once(r, M, U, after[v].item.id)
  BY ONLY <1>3, <1>5, <1>7, <1>9, <1>10
<1>12. ASSUME NEW i \in y.fetched \ IdsOf(y.jobs)
       PROVE  Once(r, M, U, i) \/ \E v \in ReconWorkers : Busy(after, v) /\ after[v].item.id = i
  <2>1. CASE i = e
    BY <1>3, <1>5, <1>9, <2>1 DEF Busy
  <2>2. CASE i # e
    <3>1. i \in x.fetched \ IdsOf(x.jobs)
      BY <1>6, <1>12, <2>2
    <3>2. Once(r, M, U, i) \/ \E v \in ReconWorkers : Busy(k, v) /\ k[v].item.id = i
      BY <1>1, <1>4, <3>1 DEF Deciding
    <3>3. ~Busy(k, w)
      BY DEF TakeFacts, Busy
    <3>4. QED
      BY <1>3, <3>2, <3>3 DEF Busy
  <2>3. QED
    BY <2>1, <2>2
<1>13. Deciding(r, c, y, after, M, U)
  BY ONLY <1>11, <1>12 DEF Deciding
<1>14. QED
  BY ONLY <1>13

\* A worker goes on with the same transaction and records something.
OnlyWorker(k, w, after) ==
  /\ after \in [ReconWorkers -> WorkFields] /\ \A v \in ReconWorkers : v # w => after[v] = k[v]
  /\ after[w].item = k[w].item /\ after[w].matches = k[w].matches /\ after[w].unmatched = k[w].unmatched

\* The matches are recorded: what was due is on record.
LEMMA RecordMatchesOK ==
  ASSUME NEW r, NEW c, NEW x, NEW k, NEW M, NEW U, RunTypes(r, c, x, k, M, U),
         Counted(r, c, x, k, M, U), Placed(r, c, x, k, M, U), Deciding(r, c, x, k, M, U),
         NEW w \in ReconWorkers, k[w].stage = "match", NEW after, OnlyWorker(k, w, after),
         after[w].stage = (IF k[w].unmatched > 0 THEN "unmatch" ELSE "count"),
         NEW N, N = M \cup Triples(r, k[w])
  PROVE  Counted(r, c, x, after, N, U) /\ Placed(r, c, x, after, N, U) /\ Deciding(r, c, x, after, N, U)
<1>1. PICK e : e = k[w].item.id
  OBVIOUS
<1>2. /\ after[w].item.id = e /\ after[w].unmatched = k[w].unmatched /\ k[w].unmatched \in Nat
      /\ \A v \in ReconWorkers : v # w => after[v] = k[v]
  BY <1>1 DEF OnlyWorker, RunTypes, WorkFields
<1>3. e \in x.fetched \ IdsOf(x.jobs) /\ \A m \in Triples(r, k[w]) : Subject(c, m) = e
  BY <1>1 DEF Placed, Busy
<1>4. Counted(r, c, x, after, N, U)
  <2>1. /\ DueMatches(r, k) = OthersMatches(r, k, w) \cup OwnMatches(r, k[w])
        /\ DueUnmatched(r, k) = OthersUnmatched(r, k, w) \cup OwnUnmatched(r, k[w])
    BY ONLY w \in ReconWorkers, DueSplit
  <2>2. /\ DueMatches(r, after) = OthersMatches(r, k, w) \cup OwnMatches(r, after[w])
        /\ DueUnmatched(r, after) = OthersUnmatched(r, k, w) \cup OwnUnmatched(r, after[w])
    <3>1. \A v \in ReconWorkers : v # w => after[v] = k[v]
      BY <1>2
    <3>2. QED
      BY ONLY <3>1, w \in ReconWorkers, DueAfter
  <2>3. OwnMatches(r, k[w]) = Triples(r, k[w]) /\ OwnMatches(r, after[w]) = {}
    BY DEF OwnMatches
  <2>4. OwnUnmatched(r, k[w]) = OwnUnmatched(r, after[w])
    BY <1>1, <1>2 DEF OwnUnmatched
  <2>5. N \cup DueMatches(r, after) = M \cup DueMatches(r, k) /\ DueUnmatched(r, after) = DueUnmatched(r, k)
    BY ONLY <2>1, <2>2, <2>3, <2>4, N = M \cup Triples(r, k[w])
  <2>6. QED
    BY <2>5 DEF Counted
<1>5. Placed(r, c, x, after, N, U)
  <2>1. \A v \in ReconWorkers : Busy(after, v) => Busy(k, v) /\ after[v].item = k[v].item
    BY <1>2 DEF Busy, OnlyWorker
  <2>2. \A m \in N : Subject(c, m) \in x.fetched \ IdsOf(x.jobs)
    BY <1>3 DEF Placed
  <2>3. /\ after[w].stage \notin {"stopped", "match"} /\ <<r, after[w].item.id>> \notin U
        /\ after[w].stage = "unmatch" => after[w].unmatched > 0
    BY <1>1, <1>2 DEF Placed
  <2>4. ASSUME NEW v \in ReconWorkers, v # w, after[v].stage = "match", NEW m \in N
        PROVE  Subject(c, m) # after[v].item.id
    <3>1. CASE m \in M
      BY <1>2, <2>4, <3>1 DEF Placed
    <3>2. CASE m \in Triples(r, k[w])
      <4>1. k[v].item.id # e
        BY <1>1, <1>2, <2>4 DEF Placed, Busy
      <4>2. QED
        BY <1>2, <1>3, <2>4, <3>2, <4>1
    <3>3. QED
      BY <2>4, <3>1, <3>2
  <2>5. \A v \in ReconWorkers :
          /\ after[v].stage # "stopped"
          /\ after[v].stage = "match" =>
               /\ \A m \in Triples(r, after[v]) : Subject(c, m) = after[v].item.id
               /\ \A m \in N : Subject(c, m) # after[v].item.id
          /\ after[v].stage \in {"match", "unmatch"} => <<r, after[v].item.id>> \notin U
          /\ after[v].stage = "unmatch" => after[v].unmatched > 0
    BY <1>2, <2>3, <2>4 DEF Placed
  <2>6. \A v \in ReconWorkers : Busy(after, v) =>
          after[v].item \in Items /\ after[v].item.id \in x.fetched \ IdsOf(x.jobs)
    BY <2>1 DEF Placed
  <2>7. \A u, v \in ReconWorkers : Busy(after, u) /\ Busy(after, v) /\ after[u].item.id = after[v].item.id => u = v
    BY <2>1 DEF Placed
  <2>8. QED
    BY <2>2, <2>5, <2>6, <2>7 DEF Placed
<1>6. Deciding(r, c, x, after, N, U)
  <2>1. SUFFICES ASSUME c.strategy = "one_to_one", ~x.lost, ~c.dry PROVE Deciding(r, c, x, after, N, U)
    BY DEF Deciding
  <2>2. k[w].matches # {} /\ k[w].unmatched = 0
    BY <2>1 DEF Deciding
  <2>3. \A m \in Triples(r, k[w]) : m[2] = e
    BY <1>3, <2>1 DEF Subject
  <2>4. ASSUME NEW i, i # e PROVE Once(r, N, U, i) <=> Once(r, M, U, i)
    BY <2>3, <2>4 DEF Once
  <2>5. Once(r, N, U, e)
    <3>1. <<r, e>> \notin U
      BY <1>1 DEF Placed
    <3>2. \E m \in N : m[2] = e
      <4>1. PICK p \in k[w].matches : TRUE
        BY <2>2
      <4>2. <<r, p[1], p[2]>> \in Triples(r, k[w])
        BY DEF Triples
      <4>3. QED
        BY <2>3, <4>2
    <3>3. QED
      BY <3>1, <3>2 DEF Once
  <2>6. after[w].stage = "count"
    BY <2>2
  <2>7. \A v \in ReconWorkers : v # w /\ k[v].stage # "idle" => k[v].item.id # e
    BY <1>1 DEF Placed, Busy
  <2>8. \A v \in ReconWorkers :
          /\ k[v].stage = "match" => k[v].matches # {} /\ k[v].unmatched = 0
          /\ k[v].stage = "unmatch" => \A m \in M : m[2] # k[v].item.id
          /\ k[v].stage = "count" => Once(r, M, U, k[v].item.id)
    BY <2>1 DEF Deciding
  <2>9. ASSUME NEW v \in ReconWorkers
        PROVE  /\ after[v].stage = "match" => after[v].matches # {} /\ after[v].unmatched = 0
               /\ after[v].stage = "unmatch" => \A m \in N : m[2] # after[v].item.id
               /\ after[v].stage = "count" => Once(r, N, U, after[v].item.id)
    <3>1. CASE v = w
      BY <1>2, <2>5, <2>6, <3>1
    <3>2. CASE v # w
      <4>1. after[v] = k[v]
        BY <1>2, <3>2
      <4>2. k[v].stage = "unmatch" => \A m \in N : m[2] # k[v].item.id
        BY <2>3, <2>7, <2>8, <3>2
      <4>3. k[v].stage = "count" => Once(r, N, U, k[v].item.id)
        BY <2>4, <2>7, <2>8, <3>2
      <4>4. QED
        BY <2>8, <4>1, <4>2, <4>3
    <3>3. QED
      BY <3>1, <3>2
  <2>10. ASSUME NEW i \in x.fetched \ IdsOf(x.jobs)
         PROVE  Once(r, N, U, i) \/ \E v \in ReconWorkers : Busy(after, v) /\ after[v].item.id = i
    <3>1. CASE i = e
      BY <2>5, <3>1
    <3>2. CASE i # e
      <4>1. Once(r, M, U, i) \/ \E v \in ReconWorkers : Busy(k, v) /\ k[v].item.id = i
        BY <2>1 DEF Deciding
      <4>2. QED
        BY <1>1, <1>2, <2>4, <3>2, <4>1 DEF Busy
    <3>3. QED
      BY <3>1, <3>2
  <2>11. QED
    BY ONLY <2>9, <2>10 DEF Deciding
<1>7. QED
  BY ONLY <1>4, <1>5, <1>6

\* The unmatched entry is recorded.
LEMMA RecordUnmatchedOK ==
  ASSUME NEW r, NEW c, NEW x, NEW k, NEW M, NEW U, RunTypes(r, c, x, k, M, U),
         Counted(r, c, x, k, M, U), Placed(r, c, x, k, M, U), Deciding(r, c, x, k, M, U),
         NEW w \in ReconWorkers, k[w].stage = "unmatch", NEW after, OnlyWorker(k, w, after), after[w].stage = "count",
         NEW V, V = U \cup {<<r, k[w].item.id>>}
  PROVE  Counted(r, c, x, after, M, V) /\ Placed(r, c, x, after, M, V) /\ Deciding(r, c, x, after, M, V)
<1>1. PICK e : e = k[w].item.id
  OBVIOUS
<1>2. /\ after[w].item.id = e /\ after[w].unmatched = k[w].unmatched /\ V = U \cup {<<r, e>>}
      /\ \A v \in ReconWorkers : v # w => after[v] = k[v]
  BY <1>1 DEF OnlyWorker
<1>3. e \in x.fetched \ IdsOf(x.jobs) /\ k[w].unmatched > 0
  BY <1>1 DEF Placed, Busy
<1>4. Counted(r, c, x, after, M, V)
  <2>1. /\ DueMatches(r, k) = OthersMatches(r, k, w) \cup OwnMatches(r, k[w])
        /\ DueUnmatched(r, k) = OthersUnmatched(r, k, w) \cup OwnUnmatched(r, k[w])
    BY ONLY w \in ReconWorkers, DueSplit
  <2>2. /\ DueMatches(r, after) = OthersMatches(r, k, w) \cup OwnMatches(r, after[w])
        /\ DueUnmatched(r, after) = OthersUnmatched(r, k, w) \cup OwnUnmatched(r, after[w])
    <3>1. \A v \in ReconWorkers : v # w => after[v] = k[v]
      BY <1>2
    <3>2. QED
      BY ONLY <3>1, w \in ReconWorkers, DueAfter
  <2>3. OwnMatches(r, k[w]) = {} /\ OwnMatches(r, after[w]) = {}
    BY DEF OwnMatches
  <2>4. OwnUnmatched(r, k[w]) = {<<r, e>>} /\ OwnUnmatched(r, after[w]) = {}
    BY <1>1, <1>3 DEF OwnUnmatched
  <2>5. DueMatches(r, after) = DueMatches(r, k) /\ V \cup DueUnmatched(r, after) = U \cup DueUnmatched(r, k)
    BY ONLY <1>2, <2>1, <2>2, <2>3, <2>4
  <2>6. QED
    BY <2>5 DEF Counted
<1>5. Placed(r, c, x, after, M, V)
  <2>1. \A v \in ReconWorkers : Busy(after, v) => Busy(k, v) /\ after[v].item = k[v].item
    BY <1>2 DEF Busy, OnlyWorker
  <2>2. \A u \in V : u[2] \in x.fetched \ IdsOf(x.jobs)
    <3>1. <<r, e>>[2] = e
      OBVIOUS
    <3>2. QED
      BY <1>2, <1>3, <3>1 DEF Placed
  <2>3. ASSUME NEW v \in ReconWorkers, v # w, after[v].stage \in {"match", "unmatch"}
        PROVE  <<r, after[v].item.id>> \notin V
    <3>1. k[v].item.id # e /\ <<r, k[v].item.id>> \notin U /\ after[v] = k[v]
      BY <1>1, <1>2, <2>3 DEF Placed, Busy
    <3>2. QED
      BY <1>2, <3>1
  <2>4. \A v \in ReconWorkers :
          /\ after[v].stage # "stopped"
          /\ after[v].stage = "match" =>
               /\ \A m \in Triples(r, after[v]) : Subject(c, m) = after[v].item.id
               /\ \A m \in M : Subject(c, m) # after[v].item.id
          /\ after[v].stage \in {"match", "unmatch"} => <<r, after[v].item.id>> \notin V
          /\ after[v].stage = "unmatch" => after[v].unmatched > 0
    BY <1>2, <2>3 DEF Placed
  <2>5. \A v \in ReconWorkers : Busy(after, v) =>
          after[v].item \in Items /\ after[v].item.id \in x.fetched \ IdsOf(x.jobs)
    BY <2>1 DEF Placed
  <2>6. \A u, v \in ReconWorkers : Busy(after, u) /\ Busy(after, v) /\ after[u].item.id = after[v].item.id => u = v
    BY <2>1 DEF Placed
  <2>7. QED
    BY <2>2, <2>4, <2>5, <2>6 DEF Placed
<1>6. Deciding(r, c, x, after, M, V)
  <2>1. SUFFICES ASSUME c.strategy = "one_to_one", ~x.lost, ~c.dry PROVE Deciding(r, c, x, after, M, V)
    BY DEF Deciding
  <2>2. \A v \in ReconWorkers :
          /\ k[v].stage = "match" => k[v].matches # {} /\ k[v].unmatched = 0
          /\ k[v].stage = "unmatch" => \A m \in M : m[2] # k[v].item.id
          /\ k[v].stage = "count" => Once(r, M, U, k[v].item.id)
    BY <2>1 DEF Deciding
  <2>3. ASSUME NEW i, i # e PROVE Once(r, M, V, i) <=> Once(r, M, U, i)
    BY <1>2, <2>3 DEF Once
  <2>4. Once(r, M, V, e)
    BY <1>1, <1>2, <2>2 DEF Once
  <2>5. \A v \in ReconWorkers : v # w /\ k[v].stage # "idle" => k[v].item.id # e
    BY <1>1 DEF Placed, Busy
  <2>6. ASSUME NEW v \in ReconWorkers
        PROVE  /\ after[v].stage = "match" => after[v].matches # {} /\ after[v].unmatched = 0
               /\ after[v].stage = "unmatch" => \A m \in M : m[2] # after[v].item.id
               /\ after[v].stage = "count" => Once(r, M, V, after[v].item.id)
    <3>1. CASE v = w
      BY <1>2, <2>4, <3>1
    <3>2. CASE v # w
      <4>1. after[v] = k[v]
        BY <1>2, <3>2
      <4>2. k[v].stage = "count" => Once(r, M, V, k[v].item.id)
        BY <2>2, <2>3, <2>5, <3>2
      <4>3. QED
        BY <2>2, <4>1, <4>2
    <3>3. QED
      BY <3>1, <3>2
  <2>7. ASSUME NEW i \in x.fetched \ IdsOf(x.jobs)
        PROVE  Once(r, M, V, i) \/ \E v \in ReconWorkers : Busy(after, v) /\ after[v].item.id = i
    <3>1. CASE i = e
      BY <2>4, <3>1
    <3>2. CASE i # e
      <4>1. Once(r, M, U, i) \/ \E v \in ReconWorkers : Busy(k, v) /\ k[v].item.id = i
        BY <2>1 DEF Deciding
      <4>2. QED
        BY <1>1, <1>2, <2>3, <3>2, <4>1 DEF Busy
    <3>3. QED
      BY <3>1, <3>2
  <2>8. QED
    BY ONLY <2>6, <2>7 DEF Deciding
<1>7. QED
  BY ONLY <1>4, <1>5, <1>6

\* What a run at work knows and a step does not change.
SameWork(x, y) ==
  /\ y.jobs = x.jobs /\ y.fetched = x.fetched /\ y.offset = x.offset /\ y.lost = x.lost
  /\ y.matched = x.matched /\ y.unmatched = x.unmatched

\* The transaction is counted as processed and its worker free.
LEMMA CountOK ==
  ASSUME NEW r, NEW c, NEW x, NEW k, NEW M, NEW U, RunTypes(r, c, x, k, M, U),
         Counted(r, c, x, k, M, U), Placed(r, c, x, k, M, U), Deciding(r, c, x, k, M, U),
         NEW w \in ReconWorkers, k[w].stage = "count", NEW y, SameWork(x, y),
         NEW after, after[w].stage = "idle", \A v \in ReconWorkers : v # w => after[v] = k[v]
  PROVE  Counted(r, c, y, after, M, U) /\ Placed(r, c, y, after, M, U) /\ Deciding(r, c, y, after, M, U)
<1>1. Counted(r, c, y, after, M, U)
  <2>1. /\ DueMatches(r, k) = OthersMatches(r, k, w) \cup OwnMatches(r, k[w])
        /\ DueUnmatched(r, k) = OthersUnmatched(r, k, w) \cup OwnUnmatched(r, k[w])
    BY ONLY w \in ReconWorkers, DueSplit
  <2>2. /\ DueMatches(r, after) = OthersMatches(r, k, w) \cup OwnMatches(r, after[w])
        /\ DueUnmatched(r, after) = OthersUnmatched(r, k, w) \cup OwnUnmatched(r, after[w])
    <3>1. \A v \in ReconWorkers : v # w => after[v] = k[v]
      OBVIOUS
    <3>2. QED
      BY ONLY <3>1, w \in ReconWorkers, DueAfter
  <2>3. /\ OwnMatches(r, k[w]) = {} /\ OwnMatches(r, after[w]) = {}
        /\ OwnUnmatched(r, k[w]) = {} /\ OwnUnmatched(r, after[w]) = {}
    BY DEF OwnMatches, OwnUnmatched
  <2>4. DueMatches(r, after) = DueMatches(r, k) /\ DueUnmatched(r, after) = DueUnmatched(r, k)
    BY ONLY <2>1, <2>2, <2>3
  <2>5. QED
    BY <2>4 DEF Counted, SameWork
<1>2. \A v \in ReconWorkers : Busy(after, v) => v # w /\ Busy(k, v) /\ after[v] = k[v]
  BY DEF Busy
<1>3. Placed(r, c, y, after, M, U)
  BY <1>2 DEF Placed, SameWork, Busy
<1>4. Deciding(r, c, y, after, M, U)
  <2>1. SUFFICES ASSUME c.strategy = "one_to_one", ~y.lost, ~c.dry PROVE Deciding(r, c, y, after, M, U)
    BY DEF Deciding
  <2>2. ~x.lost /\ y.fetched = x.fetched /\ y.jobs = x.jobs
    BY <2>1 DEF SameWork
  <2>3. Once(r, M, U, k[w].item.id)
    BY <2>1, <2>2 DEF Deciding
  <2>4. \A v \in ReconWorkers :
          /\ after[v].stage = "match" => after[v].matches # {} /\ after[v].unmatched = 0
          /\ after[v].stage = "unmatch" => \A m \in M : m[2] # after[v].item.id
          /\ after[v].stage = "count" => Once(r, M, U, after[v].item.id)
    BY <2>1, <2>2 DEF Deciding
  <2>5. ASSUME NEW i \in y.fetched \ IdsOf(y.jobs)
        PROVE  Once(r, M, U, i) \/ \E v \in ReconWorkers : Busy(after, v) /\ after[v].item.id = i
    <3>1. Once(r, M, U, i) \/ \E v \in ReconWorkers : Busy(k, v) /\ k[v].item.id = i
      BY <2>1, <2>2 DEF Deciding
    <3>2. QED
      BY <2>3, <3>1 DEF Busy
  <2>6. QED
    BY ONLY <2>4, <2>5 DEF Deciding
<1>5. QED
  BY ONLY <1>1, <1>3, <1>4

\* More transactions are queued (fetchTransactions): none that was fetched before.
LEMMA FetchOK ==
  ASSUME NEW r, NEW c, NEW x, NEW k, NEW M, NEW U, RunTypes(r, c, x, k, M, U),
         Counted(r, c, x, k, M, U), Placed(r, c, x, k, M, U), Deciding(r, c, x, k, M, U),
         NEW page \in Seq(Items), Distinct(page), IdsOf(page) \cap x.fetched = {},
         NEW y, y.jobs = x.jobs \o page, y.fetched = x.fetched \cup IdsOf(page),
         y.fetched \subseteq Early(c, y.offset),
         y.lost = x.lost, y.matched = x.matched, y.unmatched = x.unmatched
  PROVE  Counted(r, c, y, k, M, U) /\ Placed(r, c, y, k, M, U) /\ Deciding(r, c, y, k, M, U)
<1>1. Counted(r, c, y, k, M, U)
  BY DEF Counted
<1>2. /\ IdsOf(y.jobs) = IdsOf(x.jobs) \cup IdsOf(page) /\ Distinct(y.jobs)
      /\ IdsOf(x.jobs) \subseteq x.fetched
  <2>1. x.jobs \in Seq(Items) /\ Distinct(x.jobs) /\ IdsOf(x.jobs) \subseteq x.fetched
    BY DEF RunTypes, RunFields, Placed
  <2>2. IdsOf(x.jobs) \cap IdsOf(page) = {}
    BY <2>1
  <2>3. QED
    BY <2>1, <2>2, QueueAppend
<1>3. y.fetched \ IdsOf(y.jobs) = x.fetched \ IdsOf(x.jobs)
  BY <1>2
<1>4. IdsOf(y.jobs) \subseteq y.fetched
  BY <1>2
<1>5. Placed(r, c, y, k, M, U)
  BY <1>2, <1>3, <1>4 DEF Placed
<1>6. Deciding(r, c, y, k, M, U)
  BY <1>3 DEF Deciding
<1>7. QED
  BY ONLY <1>1, <1>5, <1>6

\* A page holds rows behind its offset, each once: none that was fetched before,
\* whichever upload a cached page is of (getExternalTransactionsPaginated).
LEMMA PageIsNew ==
  ASSUME NEW c, NEW o \in Nat, NEW rows,
         \/ c.strategy = "many_to_one" /\ rows = Internals
         \/ c.strategy # "many_to_one" /\ \E u \in DOMAIN Uploads : rows = Uploads[u],
         NEW fetched, fetched \subseteq Early(c, o), NEW page, page = PageOf(rows, o)
  PROVE  /\ page \in Seq(Items) /\ Distinct(page) /\ IdsOf(page) \cap fetched = {}
         /\ fetched \cup IdsOf(page) \subseteq Early(c, o + Len(page))
         /\ IdsOf(page) \subseteq ItemIds
         /\ page # <<>> => o + Len(page) \in Offsets
<1>1. rows \in Seq(Items)
  BY RowsAreItems
<1>2. /\ page \in Seq(Items)
      /\ \A i \in DOMAIN page : i > 0 /\ i \in Nat /\ o + i \in DOMAIN rows /\ page[i] = rows[o + i]
                                /\ o + i <= o + Len(page)
      /\ page # <<>> => o + Len(page) \in 0 .. Len(rows)
  BY <1>1, PageRows
<1>3. \A i, j \in DOMAIN rows : rows[i].id = rows[j].id => i = j
  BY ReconAssumption
<1>4. Distinct(page)
  <2>1. SUFFICES ASSUME NEW i \in DOMAIN page, NEW j \in DOMAIN page, page[i].id = page[j].id PROVE i = j
    BY DEF Distinct
  <2>2. o + i = o + j
    BY <1>2, <1>3, <2>1
  <2>3. QED
    BY <1>2, <2>2
<1>5. Len(page) \in Nat /\ DOMAIN rows = 1 .. Len(rows)
  BY <1>1, <1>2
<1>6. \A i \in DOMAIN page : page[i].id \notin Early(c, o)
  <2>1. SUFFICES ASSUME NEW i \in DOMAIN page, page[i].id \in Early(c, o) PROVE FALSE
    OBVIOUS
  <2>2. page[i].id = rows[o + i].id /\ o + i \in DOMAIN rows /\ o + i > o
    BY <1>2
  <2>3. CASE c.strategy = "many_to_one"
    <3>1. PICK m \in DOMAIN Internals : m <= o /\ page[i].id = Internals[m].id
      BY <2>1, <2>3 DEF Early
    <3>2. rows = Internals
      BY <2>3
    <3>3. m = o + i
      BY <1>3, <2>2, <3>1, <3>2
    <3>4. QED
      BY <1>2, <3>1, <3>3
  <2>4. CASE c.strategy # "many_to_one"
    <3>0. PICK v \in DOMAIN Uploads : \E m \in DOMAIN Uploads[v] : m <= o /\ page[i].id = Uploads[v][m].id
      BY <2>1, <2>4 DEF Early
    <3>1. PICK m \in DOMAIN Uploads[v] : m <= o /\ page[i].id = Uploads[v][m].id
      BY <3>0
    <3>2. PICK u \in DOMAIN Uploads : rows = Uploads[u]
      BY <2>4
    <3>3. m = o + i
      <4>1. o + i \in DOMAIN Uploads[u] /\ Uploads[v][m].id = Uploads[u][o + i].id
        BY <2>2, <3>1, <3>2
      <4>2. \A a, d \in DOMAIN Uploads : \A n \in DOMAIN Uploads[a], l \in DOMAIN Uploads[d] :
              Uploads[a][n].id = Uploads[d][l].id => a = d /\ n = l
        BY ReconAssumption
      <4>3. QED
        BY ONLY <3>1, <4>1, <4>2, u \in DOMAIN Uploads, v \in DOMAIN Uploads
    <3>4. QED
      BY <1>2, <3>1, <3>3
  <2>5. QED
    BY <2>3, <2>4
<1>7. IdsOf(page) \cap fetched = {}
  BY <1>6 DEF IdsOf
<1>8. Early(c, o) \subseteq Early(c, o + Len(page))
  <2>1. ASSUME NEW s, s \in Seq(Items) PROVE \A m \in DOMAIN s : m <= o => m <= o + Len(page)
    BY <1>5, <2>1
  <2>2. CASE c.strategy = "many_to_one"
    BY <2>1, <2>2, RowsAreItems DEF Early
  <2>3. CASE c.strategy # "many_to_one"
    <3>1. \A u \in DOMAIN Uploads : \A m \in DOMAIN Uploads[u] : m <= o => m <= o + Len(page)
      BY <2>1, RowsAreItems
    <3>2. QED
      BY <2>3, <3>1 DEF Early
  <2>4. QED
    BY <2>2, <2>3
<1>9. \A i \in DOMAIN page : page[i].id \in Early(c, o + Len(page))
  <2>1. SUFFICES ASSUME NEW i \in DOMAIN page PROVE page[i].id \in Early(c, o + Len(page))
    OBVIOUS
  <2>2. PICK n \in DOMAIN rows : page[i].id = rows[n].id /\ n <= o + Len(page)
    BY <1>2
  <2>3. CASE c.strategy = "many_to_one"
    BY <2>2, <2>3 DEF Early
  <2>4. CASE c.strategy # "many_to_one"
    BY <2>2, <2>4 DEF Early
  <2>5. QED
    BY <2>3, <2>4
<1>10. fetched \cup IdsOf(page) \subseteq Early(c, o + Len(page))
  BY <1>8, <1>9 DEF IdsOf
<1>11. IdsOf(page) \subseteq ItemIds
  <2>1. \A i \in DOMAIN page : page[i] \in Items
    BY <1>2
  <2>2. QED
    BY <2>1, RowsAreItems DEF IdsOf
<1>12. page # <<>> => o + Len(page) \in Offsets
  BY <1>2 DEF Offsets
<1>13. QED
  BY ONLY <1>2, <1>4, <1>7, <1>10, <1>11, <1>12

\* A run at work that has done nothing yet (processReconciliation).
LEMMA WorkBegins ==
  ASSUME NEW r, NEW c, NEW y, NEW k, NEW M, NEW U, k \in [ReconWorkers -> WorkFields], M = {}, U = {},
         \A w \in ReconWorkers : ~Busy(k, w), y.jobs = <<>>, y.fetched = {}, y.matched = 0, y.unmatched = 0
  PROVE  Counted(r, c, y, k, M, U) /\ Placed(r, c, y, k, M, U) /\ Deciding(r, c, y, k, M, U)
<1>1. DueMatches(r, k) = {} /\ DueUnmatched(r, k) = {}
  BY DEF DueMatches, DueUnmatched, Busy
<1>2. M \cup DueMatches(r, k) = {} /\ U \cup DueUnmatched(r, k) = {}
  BY <1>1
<1>3. Counted(r, c, y, k, M, U)
  BY <1>2, FS_EmptySet DEF Counted
<1>4. IdsOf(y.jobs) = {} /\ Distinct(y.jobs)
  <2>1. DOMAIN <<>> = {}
    OBVIOUS
  <2>2. QED
    BY <2>1 DEF IdsOf, Distinct
<1>5. Placed(r, c, y, k, M, U)
  BY <1>4 DEF Placed, Busy
<1>6. Deciding(r, c, y, k, M, U)
  BY DEF Deciding, Busy
<1>7. QED
  BY <1>3, <1>5, <1>6

\* When the workers are done nothing is due, and what is counted is on record
\* (finalizeReconciliation).
LEMMA WorkEnds ==
  ASSUME NEW r, NEW c, NEW x, NEW k, NEW M, NEW U, x.stage = "work", ~x.failed, RunOK(r, c, x, k, M, U),
         ReconWorkers # {}, \A w \in ReconWorkers : k[w].stage = "stopped" \/ (k[w].stage = "idle" /\ x.jobs = <<>>)
  PROVE  /\ \A w \in ReconWorkers : ~Busy(k, w)
         /\ ~c.dry => x.matched = Cardinality(M) /\ x.unmatched = Cardinality(U)
         /\ c.strategy = "one_to_one" /\ ~x.lost /\ ~c.dry => \A e \in x.fetched : Once(r, M, U, e)
<1>1. Counted(r, c, x, k, M, U) /\ Placed(r, c, x, k, M, U) /\ Deciding(r, c, x, k, M, U)
  BY DEF RunOK
<1>2. (\A w \in ReconWorkers : ~Busy(k, w)) /\ x.jobs = <<>>
  BY <1>1 DEF Placed, Busy
<1>3. DueMatches(r, k) = {} /\ DueUnmatched(r, k) = {}
  BY <1>2 DEF DueMatches, DueUnmatched, Busy
<1>4. M \cup DueMatches(r, k) = M /\ U \cup DueUnmatched(r, k) = U
  BY <1>3
<1>5. ~c.dry => x.matched = Cardinality(M) /\ x.unmatched = Cardinality(U)
  BY <1>1, <1>4 DEF Counted
<1>6. IdsOf(x.jobs) = {}
  <2>1. DOMAIN <<>> = {}
    OBVIOUS
  <2>2. QED
    BY <1>2, <2>1 DEF IdsOf
<1>7. c.strategy = "one_to_one" /\ ~x.lost /\ ~c.dry => \A e \in x.fetched : Once(r, M, U, e)
  BY <1>1, <1>2, <1>6 DEF Deciding
<1>8. QED
  BY <1>2, <1>5, <1>7

------------------------------------------------------------------------------
\* StartReconciliation, and an instant one whose rows cannot be stored.
LEMMA RunAsked ==
  ASSUME NEW r, NEW c, NEW x, NEW k, NEW M, NEW U, RunOK(r, c, x, k, M, U), c.status = "none",
         NEW d \in ReconFields, NEW y \in RunFields,
         \/ d.status = "started" /\ y = [x EXCEPT !.stage = "begin"]
         \/ d.status = "failed" /\ y = x
  PROVE  RunOK(r, d, y, k, M, U)
<1>1. x.stage = "off" /\ x \in RunFields
  BY DEF RunOK
<1>2. /\ k \in [ReconWorkers -> WorkFields] /\ (\A m \in M : m[1] = r) /\ (\A u \in U : u[1] = r)
      /\ M = {} /\ U = {} /\ (\A w \in ReconWorkers : ~Busy(k, w))
      /\ x.jobs = <<>> /\ x.fetched = {} /\ x.matched = 0 /\ x.unmatched = 0 /\ ~x.failed
  BY <1>1 DEF RunOK
<1>3. /\ y.jobs = <<>> /\ y.fetched = {} /\ y.matched = 0 /\ y.unmatched = 0 /\ ~y.failed
      /\ y.stage \in {"off", "begin"} /\ d.status \notin {"none", "completed"}
  BY <1>1, <1>2 DEF RunFields
<1>4. QED
  BY ONLY <1>2, <1>3, d \in ReconFields, y \in RunFields DEF RunOK

\* processReconciliation: in progress, and the rules that are missing.
LEMMA RunBegins ==
  ASSUME NEW r, NEW c, NEW x, NEW k, NEW M, NEW U, RunOK(r, c, x, k, M, U), NEW d, NEW y,
         \/ x.stage = "begin" /\ y = [x EXCEPT !.stage = "rules"] /\ d = [c EXCEPT !.status = "in_progress", !.matched = 0, !.unmatched = 0]
         \/ x.stage = "rules" /\ y = [x EXCEPT !.stage = "over"] /\ d = [c EXCEPT !.status = "failed", !.matched = 0, !.unmatched = 0]
  PROVE  RunOK(r, d, y, k, M, U)
<1>1. c \in ReconFields /\ x \in RunFields
  BY DEF RunOK
<1>2. d \in ReconFields /\ d.status \notin {"none", "completed"}
  <2>1. CASE d = [c EXCEPT !.status = "in_progress", !.matched = 0, !.unmatched = 0]
    BY <1>1, <2>1 DEF ReconFields
  <2>2. CASE d = [c EXCEPT !.status = "failed", !.matched = 0, !.unmatched = 0]
    BY <1>1, <2>2 DEF ReconFields
  <2>3. QED
    BY <2>1, <2>2
<1>3. y \in RunFields
  BY <1>1 DEF RunFields
<1>4. /\ k \in [ReconWorkers -> WorkFields] /\ (\A m \in M : m[1] = r) /\ (\A u \in U : u[1] = r)
      /\ M = {} /\ U = {} /\ (\A w \in ReconWorkers : ~Busy(k, w))
      /\ x.jobs = <<>> /\ x.fetched = {} /\ x.matched = 0 /\ x.unmatched = 0 /\ ~x.failed
  BY DEF RunOK
<1>5. /\ y.jobs = <<>> /\ y.fetched = {} /\ y.matched = 0 /\ y.unmatched = 0 /\ ~y.failed
      /\ y.stage \in {"rules", "over"}
  BY <1>1, <1>4 DEF RunFields
<1>6. QED
  BY ONLY <1>2, <1>3, <1>4, <1>5 DEF RunOK

\* processReconciliation: the rules are there and the work begins.
LEMMA RunLoads ==
  ASSUME NEW r, NEW c, NEW x, NEW k, NEW M, NEW U, RunOK(r, c, x, k, M, U), x.stage = "rules",
         NEW R \in SUBSET RuleVersions, NEW y, y = [x EXCEPT !.stage = "work", !.rules = R]
  PROVE  RunOK(r, c, y, k, M, U)
<1>1. c \in ReconFields /\ x \in RunFields /\ c.status \notin {"none", "completed"}
  BY DEF RunOK
<1>2. y \in RunFields
  BY <1>1 DEF RunFields
<1>3. /\ k \in [ReconWorkers -> WorkFields] /\ (\A m \in M : m[1] = r) /\ (\A u \in U : u[1] = r)
      /\ M = {} /\ U = {} /\ (\A w \in ReconWorkers : ~Busy(k, w))
      /\ x.jobs = <<>> /\ x.fetched = {} /\ x.matched = 0 /\ x.unmatched = 0 /\ ~x.failed
  BY DEF RunOK
<1>4. /\ y.jobs = <<>> /\ y.fetched = {} /\ y.matched = 0 /\ y.unmatched = 0 /\ ~y.failed
      /\ y.stage = "work"
  BY <1>1, <1>3 DEF RunFields
<1>5. Counted(r, c, y, k, M, U) /\ Placed(r, c, y, k, M, U) /\ Deciding(r, c, y, k, M, U)
  BY ONLY <1>3, <1>4, WorkBegins
<1>6. RunTypes(r, c, y, k, M, U)
  BY <1>1, <1>2, <1>3 DEF RunTypes
<1>7. QED
  BY ONLY <1>1, <1>4, <1>5, <1>6, RunLive

\* finalizeReconciliation, and the return when the fetch fails.
LEMMA RunEnds ==
  ASSUME NEW r, NEW c, NEW x, NEW k, NEW M, NEW U, RunOK(r, c, x, k, M, U), x.stage = "work", ReconWorkers # {},
         NEW d, NEW y,
         \/ /\ \A w \in ReconWorkers : k[w].stage = "stopped" \/ (k[w].stage = "idle" /\ x.jobs = <<>>)
            /\ d = IF x.failed THEN [c EXCEPT !.status = "failed", !.matched = 0, !.unmatched = 0]
                   ELSE [c EXCEPT !.status = "completed", !.matched = x.matched, !.unmatched = x.unmatched]
            /\ y = [x EXCEPT !.stage = "over"]
         \/ /\ d = [c EXCEPT !.status = "failed", !.matched = 0, !.unmatched = 0]
            /\ y = [x EXCEPT !.stage = "returned"]
  PROVE  RunOK(r, d, y, k, M, U)
<1>1. RunTypes(r, c, x, k, M, U)
  BY RunKnown
<1>2. c \in ReconFields /\ x \in RunFields
  BY <1>1 DEF RunTypes
<1>3. y \in RunFields /\ y.stage \in {"returned", "over"}
  BY <1>2 DEF RunFields
<1>4. CASE d = [c EXCEPT !.status = "failed", !.matched = 0, !.unmatched = 0]
  <2>1. d \in ReconFields /\ d.status = "failed"
    BY <1>2, <1>4 DEF ReconFields
  <2>2. RunTypes(r, d, y, k, M, U)
    BY <1>1, <1>3, <2>1 DEF RunTypes
  <2>3. QED
    BY <1>3, <2>1, <2>2, RunLost
<1>5. CASE ~x.failed /\ y = [x EXCEPT !.stage = "over"]
           /\ d = [c EXCEPT !.status = "completed", !.matched = x.matched, !.unmatched = x.unmatched]
           /\ \A w \in ReconWorkers : k[w].stage = "stopped" \/ (k[w].stage = "idle" /\ x.jobs = <<>>)
  <2>1. /\ \A w \in ReconWorkers : ~Busy(k, w)
        /\ ~c.dry => x.matched = Cardinality(M) /\ x.unmatched = Cardinality(U)
        /\ c.strategy = "one_to_one" /\ ~x.lost /\ ~c.dry => \A e \in x.fetched : Once(r, M, U, e)
    BY <1>5, WorkEnds
  <2>2. /\ d \in ReconFields /\ d.status = "completed" /\ d.dry = c.dry /\ d.strategy = c.strategy
        /\ d.matched = x.matched /\ d.unmatched = x.unmatched
    BY <1>2, <1>5 DEF ReconFields, RunFields
  <2>3. y.stage = "over" /\ y.lost = x.lost /\ y.fetched = x.fetched
    BY <1>2, <1>5 DEF RunFields
  <2>4. QED
    BY ONLY <1>1, <1>3, <2>1, <2>2, <2>3 DEF RunOK, RunTypes
<1>6. QED
  BY <1>4, <1>5

\* A record fails or a fetch does: the run will not complete, or goes on.
LEMMA RunFetchFails ==
  ASSUME NEW r, NEW c, NEW x, NEW k, NEW M, NEW U, RunOK(r, c, x, k, M, U), x.stage \in {"work", "returned"},
         NEW f \in {"ended", "failed"}, NEW y, y = [x EXCEPT !.fetch = f]
  PROVE  RunOK(r, c, y, k, M, U)
<1>1. x \in RunFields
  BY DEF RunOK
<1>2. y \in RunFields /\ y.stage = x.stage /\ y.failed = x.failed /\ SameWork(x, y)
  BY <1>1 DEF RunFields, SameWork
<1>3. QED
  BY <1>2 DEF RunOK, SameWork, Counted, Placed, Deciding

\* A worker stops at a failed record.
LEMMA RunRecordFails ==
  ASSUME NEW r, NEW c, NEW x, NEW k, NEW M, NEW U, RunOK(r, c, x, k, M, U),
         NEW w \in ReconWorkers, k[w].stage \in {"match", "unmatch"},
         NEW y, y = [x EXCEPT !.failed = TRUE], NEW after, after = [k EXCEPT ![w].stage = "stopped"]
  PROVE  RunOK(r, c, y, after, M, U)
<1>1. RunTypes(r, c, x, k, M, U) /\ c.status \notin {"none", "completed"} /\ x.stage \in {"work", "returned", "over"}
  BY RunKnown
<1>2. y \in RunFields /\ y.stage = x.stage /\ y.failed
  BY <1>1 DEF RunTypes, RunFields
<1>3. after \in [ReconWorkers -> WorkFields]
  BY <1>1 DEF RunTypes, WorkFields
<1>4. RunTypes(r, c, y, after, M, U)
  BY <1>1, <1>2, <1>3 DEF RunTypes
<1>5. QED
  BY <1>1, <1>2, <1>4, RunLost

\* The process dies.
LEMMA RunCrashes ==
  ASSUME NEW r, NEW c, NEW x, NEW k, NEW M, NEW U, RunOK(r, c, x, k, M, U),
         NEW y, y = (IF x.stage = "off" THEN x ELSE [x EXCEPT !.stage = "over"]),
         NEW after, after \in [ReconWorkers -> WorkFields], \A w \in ReconWorkers : ~Busy(after, w)
  PROVE  RunOK(r, c, y, after, M, U)
<1>1. c \in ReconFields /\ x \in RunFields /\ (\A m \in M : m[1] = r) /\ (\A u \in U : u[1] = r)
  BY DEF RunOK
<1>2. /\ y \in RunFields /\ y.jobs = x.jobs /\ y.fetched = x.fetched /\ y.lost = x.lost
      /\ y.stage = (IF x.stage = "off" THEN "off" ELSE "over") /\ (x.stage = "off" => y = x)
  BY <1>1 DEF RunFields
<1>3. CASE x.stage = "off"
  <2>1. y = x /\ x.stage = "off" /\ y.stage = "off"
    BY <1>2, <1>3
  <2>2. QED
    BY <1>1, <1>2, <2>1 DEF RunOK
<1>4. CASE x.stage # "off"
  <2>1. y.stage = "over" /\ c.status # "none"
    BY <1>2, <1>4 DEF RunOK
  <2>2. c.status = "completed" =>
          /\ ~c.dry => c.matched = Cardinality(M) /\ c.unmatched = Cardinality(U)
          /\ c.strategy = "one_to_one" /\ ~y.lost /\ ~c.dry => \A e \in y.fetched : Once(r, M, U, e)
    BY <1>2 DEF RunOK
  <2>3. QED
    BY ONLY <1>1, <1>2, <2>1, <2>2, after \in [ReconWorkers -> WorkFields], \A w \in ReconWorkers : ~Busy(after, w) DEF RunOK
<1>5. QED
  BY <1>3, <1>4

\* A worker takes a transaction.
LEMMA RunTakes ==
  ASSUME NEW r, NEW c, NEW x, NEW k, NEW M, NEW U, RunOK(r, c, x, k, M, U), x.stage \in {"work", "returned"},
         NEW w \in ReconWorkers, NEW fault \in BOOLEAN, NEW o, NEW y, NEW job, TakeFacts(c, x, k, w, fault, o, y, job),
         y.stage = x.stage, y.failed = x.failed, NEW after, after = [k EXCEPT ![w] = job]
  PROVE  RunOK(r, c, y, after, M, U)
<1>1. /\ RunTypes(r, c, x, k, M, U) /\ c.status \notin {"none", "completed"}
      /\ x.stage = "work" /\ ~x.failed =>
           Counted(r, c, x, k, M, U) /\ Placed(r, c, x, k, M, U) /\ Deciding(r, c, x, k, M, U)
  BY RunKnown
<1>2. RunTypes(r, c, y, after, M, U)
  BY <1>1 DEF RunTypes, TakeFacts
<1>3. CASE x.stage = "work" /\ ~x.failed
  <2>1. RunTypes(r, c, x, k, M, U) /\ Counted(r, c, x, k, M, U) /\ Placed(r, c, x, k, M, U) /\ Deciding(r, c, x, k, M, U)
    BY <1>1, <1>3
  <2>2. Placed(r, c, y, after, M, U)
    BY ONLY <2>1, TakePlaced, w \in ReconWorkers, fault \in BOOLEAN, TakeFacts(c, x, k, w, fault, o, y, job),
            after = [k EXCEPT ![w] = job]
  <2>3. Counted(r, c, y, after, M, U)
    BY ONLY <2>1, TakeCounted, w \in ReconWorkers, fault \in BOOLEAN, TakeFacts(c, x, k, w, fault, o, y, job),
            after = [k EXCEPT ![w] = job]
  <2>4. Deciding(r, c, y, after, M, U)
    BY ONLY <2>1, TakeDeciding, w \in ReconWorkers, fault \in BOOLEAN, TakeFacts(c, x, k, w, fault, o, y, job),
            after = [k EXCEPT ![w] = job]
  <2>5. y.stage = "work" /\ ~y.failed
    BY <1>3
  <2>6. QED
    BY ONLY <1>1, <1>2, <2>2, <2>3, <2>4, <2>5, RunLive
<1>4. CASE ~(x.stage = "work" /\ ~x.failed)
  <2>1. y.stage = "returned" \/ (y.stage = "work" /\ y.failed)
    BY <1>4
  <2>2. QED
    BY <1>1, <1>2, <2>1, RunLost
<1>5. QED
  BY <1>3, <1>4

\* A worker records the matches.
LEMMA RunRecordsMatches ==
  ASSUME NEW r, NEW c, NEW x, NEW k, NEW M, NEW U, RunOK(r, c, x, k, M, U),
         NEW w \in ReconWorkers, k[w].stage = "match", NEW after, OnlyWorker(k, w, after),
         after[w].stage = (IF k[w].unmatched > 0 THEN "unmatch" ELSE "count"), NEW N, N = M \cup Triples(r, k[w])
  PROVE  RunOK(r, c, x, after, N, U)
<1>1. /\ RunTypes(r, c, x, k, M, U) /\ c.status \notin {"none", "completed"} /\ x.stage \in {"work", "returned", "over"}
      /\ x.stage = "work" /\ ~x.failed =>
           Counted(r, c, x, k, M, U) /\ Placed(r, c, x, k, M, U) /\ Deciding(r, c, x, k, M, U)
  BY RunKnown
<1>2. RunTypes(r, c, x, after, N, U)
  <2>1. \A m \in Triples(r, k[w]) : m[1] = r
    BY DEF Triples
  <2>2. QED
    BY <1>1, <2>1 DEF RunTypes, OnlyWorker
<1>3. CASE x.stage = "work" /\ ~x.failed
  <2>1. RunTypes(r, c, x, k, M, U) /\ Counted(r, c, x, k, M, U) /\ Placed(r, c, x, k, M, U) /\ Deciding(r, c, x, k, M, U)
    BY <1>1, <1>3
  <2>2. Counted(r, c, x, after, N, U) /\ Placed(r, c, x, after, N, U) /\ Deciding(r, c, x, after, N, U)
    BY ONLY <2>1, RecordMatchesOK, w \in ReconWorkers, k[w].stage = "match", OnlyWorker(k, w, after),
            after[w].stage = (IF k[w].unmatched > 0 THEN "unmatch" ELSE "count"), N = M \cup Triples(r, k[w])
  <2>3. QED
    BY ONLY <1>1, <1>2, <1>3, <2>2, RunLive
<1>4. CASE ~(x.stage = "work" /\ ~x.failed)
  BY <1>1, <1>2, <1>4, RunLost
<1>5. QED
  BY <1>3, <1>4

\* A worker records that a transaction is unmatched.
LEMMA RunRecordsUnmatched ==
  ASSUME NEW r, NEW c, NEW x, NEW k, NEW M, NEW U, RunOK(r, c, x, k, M, U),
         NEW w \in ReconWorkers, k[w].stage = "unmatch", NEW after, OnlyWorker(k, w, after), after[w].stage = "count",
         NEW V, V = U \cup {<<r, k[w].item.id>>}
  PROVE  RunOK(r, c, x, after, M, V)
<1>1. /\ RunTypes(r, c, x, k, M, U) /\ c.status \notin {"none", "completed"} /\ x.stage \in {"work", "returned", "over"}
      /\ x.stage = "work" /\ ~x.failed =>
           Counted(r, c, x, k, M, U) /\ Placed(r, c, x, k, M, U) /\ Deciding(r, c, x, k, M, U)
  BY RunKnown
<1>2. RunTypes(r, c, x, after, M, V)
  BY <1>1 DEF RunTypes, OnlyWorker
<1>3. CASE x.stage = "work" /\ ~x.failed
  <2>1. RunTypes(r, c, x, k, M, U) /\ Counted(r, c, x, k, M, U) /\ Placed(r, c, x, k, M, U) /\ Deciding(r, c, x, k, M, U)
    BY <1>1, <1>3
  <2>2. Counted(r, c, x, after, M, V) /\ Placed(r, c, x, after, M, V) /\ Deciding(r, c, x, after, M, V)
    BY ONLY <2>1, RecordUnmatchedOK, w \in ReconWorkers, k[w].stage = "unmatch", OnlyWorker(k, w, after),
            after[w].stage = "count", V = U \cup {<<r, k[w].item.id>>}
  <2>3. QED
    BY ONLY <1>1, <1>2, <1>3, <2>2, RunLive
<1>4. CASE ~(x.stage = "work" /\ ~x.failed)
  BY <1>1, <1>2, <1>4, RunLost
<1>5. QED
  BY <1>3, <1>4

\* A worker has processed a transaction.
LEMMA RunCounts ==
  ASSUME NEW r, NEW c, NEW x, NEW k, NEW M, NEW U, RunOK(r, c, x, k, M, U),
         NEW w \in ReconWorkers, k[w].stage = "count", NEW n \in Nat, NEW y, y = [x EXCEPT !.processed = n],
         NEW after, after \in [ReconWorkers -> WorkFields], after[w].stage = "idle",
         \A v \in ReconWorkers : v # w => after[v] = k[v]
  PROVE  RunOK(r, c, y, after, M, U)
<1>1. /\ RunTypes(r, c, x, k, M, U) /\ c.status \notin {"none", "completed"} /\ x.stage \in {"work", "returned", "over"}
      /\ x.stage = "work" /\ ~x.failed =>
           Counted(r, c, x, k, M, U) /\ Placed(r, c, x, k, M, U) /\ Deciding(r, c, x, k, M, U)
  BY RunKnown
<1>2. y \in RunFields /\ y.stage = x.stage /\ y.failed = x.failed /\ SameWork(x, y)
  BY <1>1 DEF RunTypes, RunFields, SameWork
<1>3. RunTypes(r, c, y, after, M, U)
  BY <1>1, <1>2 DEF RunTypes
<1>4. CASE x.stage = "work" /\ ~x.failed
  <2>1. RunTypes(r, c, x, k, M, U) /\ Counted(r, c, x, k, M, U) /\ Placed(r, c, x, k, M, U) /\ Deciding(r, c, x, k, M, U)
    BY <1>1, <1>4
  <2>2. SameWork(x, y)
    BY <1>2
  <2>3. Counted(r, c, y, after, M, U) /\ Placed(r, c, y, after, M, U) /\ Deciding(r, c, y, after, M, U)
    BY ONLY <2>1, <2>2, CountOK, w \in ReconWorkers, k[w].stage = "count", after[w].stage = "idle",
            \A v \in ReconWorkers : v # w => after[v] = k[v]
  <2>4. y.stage = "work" /\ ~y.failed
    BY <1>2, <1>4
  <2>5. QED
    BY ONLY <1>1, <1>3, <2>3, <2>4, RunLive
<1>5. CASE ~(x.stage = "work" /\ ~x.failed)
  BY <1>1, <1>2, <1>3, <1>5, RunLost
<1>6. QED
  BY <1>4, <1>5

\* A page is queued.
LEMMA RunFetches ==
  ASSUME NEW r, NEW c, NEW x, NEW k, NEW M, NEW U, RunOK(r, c, x, k, M, U),
         x.stage \in {"work", "returned"}, NEW rows,
         \/ c.strategy = "many_to_one" /\ rows = Internals
         \/ c.strategy # "many_to_one" /\ \E u \in DOMAIN Uploads : rows = Uploads[u],
         NEW page, page = PageOf(rows, x.offset), page # <<>>,
         NEW y, y = [x EXCEPT !.jobs = x.jobs \o page, !.offset = x.offset + Len(page),
                              !.fetched = x.fetched \cup IdsOf(page)]
  PROVE  RunOK(r, c, y, k, M, U)
<1>1. /\ RunTypes(r, c, x, k, M, U) /\ c.status \notin {"none", "completed"}
      /\ x.stage = "work" /\ ~x.failed =>
           Counted(r, c, x, k, M, U) /\ Placed(r, c, x, k, M, U) /\ Deciding(r, c, x, k, M, U)
  BY RunKnown
<1>2. x \in RunFields /\ x.offset \in Offsets /\ x.jobs \in Seq(Items)
  BY <1>1 DEF RunTypes, RunFields
<1>3. PICK o : o = x.offset
  OBVIOUS
<1>4. o \in Nat /\ page = PageOf(rows, o)
  <2>1. \A u \in DOMAIN Uploads : Len(Uploads[u]) \in Nat
    BY RowsAreItems
  <2>2. Len(Internals) \in Nat
    BY RowsAreItems
  <2>3. QED
    BY <1>2, <1>3, <2>1, <2>2 DEF Offsets
<1>5. /\ page \in Seq(Items) /\ IdsOf(page) \subseteq ItemIds /\ o + Len(page) \in Offsets
  <2>1. {} \subseteq Early(c, o)
    OBVIOUS
  <2>2. QED
    BY <1>4, <2>1, PageIsNew
<1>6. x.jobs \o page \in Seq(Items)
  BY <1>2, <1>5
<1>7. /\ y \in RunFields /\ y.stage = x.stage /\ y.failed = x.failed /\ y.jobs = x.jobs \o page
      /\ y.fetched = x.fetched \cup IdsOf(page) /\ y.offset = o + Len(page)
      /\ y.lost = x.lost /\ y.matched = x.matched /\ y.unmatched = x.unmatched
  BY <1>2, <1>3, <1>5, <1>6 DEF RunFields
<1>8. RunTypes(r, c, y, k, M, U)
  BY <1>1, <1>7 DEF RunTypes
<1>9. CASE x.stage = "work" /\ ~x.failed
  <2>1. RunTypes(r, c, x, k, M, U) /\ Counted(r, c, x, k, M, U) /\ Placed(r, c, x, k, M, U) /\ Deciding(r, c, x, k, M, U)
    BY <1>1, <1>9
  <2>2. PICK fetched : fetched = x.fetched
    OBVIOUS
  <2>3. fetched \subseteq Early(c, o)
    BY <1>3, <2>1, <2>2 DEF Placed
  <2>4. /\ Distinct(page) /\ IdsOf(page) \cap fetched = {}
        /\ fetched \cup IdsOf(page) \subseteq Early(c, o + Len(page))
    <3>1. \/ c.strategy = "many_to_one" /\ rows = Internals
          \/ c.strategy # "many_to_one" /\ \E u \in DOMAIN Uploads : rows = Uploads[u]
      OBVIOUS
    <3>2. QED
      BY ONLY ZenonT(60), <1>4, <2>3, <3>1, PageIsNew
  <2>5. /\ Distinct(page) /\ IdsOf(page) \cap x.fetched = {} /\ y.fetched \subseteq Early(c, y.offset)
    BY <1>7, <2>2, <2>4
  <2>6. Counted(r, c, y, k, M, U) /\ Placed(r, c, y, k, M, U) /\ Deciding(r, c, y, k, M, U)
    BY ONLY <1>5, <1>7, <2>1, <2>5, FetchOK
  <2>7. y.stage = "work" /\ ~y.failed
    BY <1>7, <1>9
  <2>8. QED
    BY ONLY <1>1, <1>8, <2>6, <2>7, RunLive
<1>10. CASE ~(x.stage = "work" /\ ~x.failed)
  <2>1. y.stage = "returned" \/ (y.stage = "work" /\ y.failed)
    BY <1>7, <1>10
  <2>2. QED
    BY <1>1, <1>8, <2>1, RunLost
<1>11. QED
  BY <1>9, <1>10

------------------------------------------------------------------------------
\* A step of one reconciliation changes its entries only.
Changed(f, g, r) == Whole(g) /\ \A s \in Recons : s # r => g[s] = f[s]

\* An entry that stays.
LEMMA EntryStays == ASSUME NEW f, Whole(f), NEW r PROVE Changed(f, f, r)
BY DEF Changed

\* The other reconciliations are as they were.
LEMMA RunsStep ==
  ASSUME RunsOK, NEW r \in Recons, Changed(recon, recon', r), Changed(run, run', r),
         Changed(work, work', r),
         \A s \in Recons : s # r => MatchesOf(s)' = MatchesOf(s) /\ UnmatchedOf(s)' = UnmatchedOf(s),
         saved' \in [Recons -> Nat], saved'[r] <= run'[r].processed,
         \A s \in Recons : s # r => saved'[s] = saved[s],
         RunOK(r, recon'[r], run'[r], work'[r], MatchesOf(r)', UnmatchedOf(r)')
  PROVE  RunsOK'
<1>1. \A s \in Recons : s # r => recon'[s] = recon[s] /\ run'[s] = run[s] /\ work'[s] = work[s]
  BY DEF Changed
<1>2. \A s \in Recons : RunOK(s, recon'[s], run'[s], work'[s], MatchesOf(s)', UnmatchedOf(s)')
  <2>1. TAKE s \in Recons
  <2>2. CASE s = r
    BY <2>2
  <2>3. CASE s # r
    <3>1. RunOK(s, recon[s], run[s], work[s], MatchesOf(s), UnmatchedOf(s))
      BY DEF RunsOK
    <3>2. QED
      BY <1>1, <2>3, <3>1
  <2>4. QED
    BY <2>2, <2>3
<1>3. \A s \in Recons : saved'[s] <= run'[s].processed
  BY <1>1 DEF RunsOK
<1>4. Whole(recon') /\ Whole(run') /\ Whole(work')
  BY DEF Changed
<1>5. QED
  BY <1>2, <1>3, <1>4 DEF RunsOK

\* The same, when only the goroutine and its workers move.
LEMMA RunsStepQuiet ==
  ASSUME RunsOK, NEW r \in Recons, Changed(recon, recon', r), Changed(run, run', r),
         Changed(work, work', r), matches' = matches, unmatched' = unmatched, saved' = saved,
         run'[r].processed = run[r].processed,
         RunOK(r, recon'[r], run'[r], work'[r], MatchesOf(r), UnmatchedOf(r))
  PROVE  RunsOK'
<1>1. \A s \in Recons : MatchesOf(s)' = MatchesOf(s) /\ UnmatchedOf(s)' = UnmatchedOf(s)
  BY DEF MatchesOf, UnmatchedOf
<1>2. saved' \in [Recons -> Nat] /\ saved'[r] <= run'[r].processed /\ \A s \in Recons : saved'[s] = saved[s]
  BY DEF RunsOK
<1>3. RunOK(r, recon'[r], run'[r], work'[r], MatchesOf(r)', UnmatchedOf(r)')
  BY <1>1
<1>4. QED
  BY <1>1, <1>2, <1>3, RunsStep

\* What the steps of a reconciliation leave alone.
LEMMA RestStays ==
  ASSUME RecStrong
  PROVE  /\ rules' = rules => RulesOK'
         /\ cache' = cache => CacheOK'
         /\ marking' = marking /\ marked' = marked /\ matches' = matches => MarksOK'
<1>1. rules' = rules => RulesOK'
  BY DEF RecStrong, RulesOK
<1>2. cache' = cache => CacheOK'
  BY DEF RecStrong, CacheOK
<1>3. marking' = marking /\ marked' = marked /\ matches' = matches => MarksOK'
  BY DEF RecStrong, MarksOK
<1>4. QED
  BY <1>1, <1>2, <1>3

\* What is known of each reconciliation.
LEMMA RunEntry ==
  ASSUME RecStrong, NEW r \in Recons
  PROVE  /\ RunsOK /\ Whole(recon) /\ Whole(run) /\ Whole(work)
         /\ RunOK(r, recon[r], run[r], work[r], MatchesOf(r), UnmatchedOf(r))
         /\ recon[r] \in ReconFields /\ run[r] \in RunFields /\ work[r] \in [ReconWorkers -> WorkFields]
BY DEF RecStrong, RunsOK, RunOK

\* StartReconciliation and StoreFails keep it.
LEMMA AskedKeeps ==
  ASSUME RecStrong, NEW r \in Recons, NEW q \in Requests,
         StartReconciliation(r, q) \/ StoreFails(r, q)
  PROVE  RecStrong'
<1>1. /\ RunsOK /\ Whole(recon) /\ Whole(run) /\ Whole(work)
      /\ RunOK(r, recon[r], run[r], work[r], MatchesOf(r), UnmatchedOf(r))
      /\ recon[r] \in ReconFields /\ run[r] \in RunFields /\ work[r] \in [ReconWorkers -> WorkFields]
  BY RunEntry
<1>2. PICK status : /\ status \in {"started", "failed"} /\ Asked(r, q, status)
                    /\ run' = (IF status = "started" THEN [run EXCEPT ![r].stage = "begin"] ELSE run)
  <2>1. CASE StartReconciliation(r, q)
    BY <2>1 DEF StartReconciliation
  <2>2. CASE StoreFails(r, q)
    BY <2>2 DEF StoreFails
  <2>3. QED
    BY <2>1, <2>2
<1>3. /\ recon[r].status = "none"
      /\ rules' = rules /\ matches' = matches /\ unmatched' = unmatched /\ saved' = saved /\ marking' = marking
      /\ marked' = marked /\ cache' = cache /\ work' = work
  BY DEF StartReconciliation, StoreFails
<1>4. PICK d : d = [NoRow EXCEPT !.status = status, !.upload = q.upload, !.strategy = q.strategy, !.dry = q.dry]
  OBVIOUS
<1>5. recon' = [recon EXCEPT ![r] = d]
  BY <1>2, <1>4 DEF Asked
<1>6. d \in ReconFields /\ d.status = status
  <2>1. q \in [upload : DOMAIN Uploads, strategy : Strategies, dry : BOOLEAN]
    BY ReconAssumption
  <2>2. QED
    BY <1>2, <1>4, <2>1 DEF ReconFields, NoRow
<1>7. Changed(recon, recon', r) /\ recon'[r] = d
  BY <1>1, <1>5 DEF Changed, Whole
<1>8. PICK y : y = IF status = "started" THEN [run[r] EXCEPT !.stage = "begin"] ELSE run[r]
  OBVIOUS
<1>9. y \in RunFields /\ y.processed = run[r].processed
  BY <1>1, <1>8 DEF RunFields
<1>10. Changed(run, run', r) /\ run'[r] = y
  <2>1. CASE status = "started"
    <3>1. run' = [run EXCEPT ![r] = y]
      BY <1>2, <1>8, <2>1
    <3>2. QED
      BY <1>1, <3>1 DEF Changed, Whole
  <2>2. CASE status # "started"
    BY <1>1, <1>2, <1>8, <2>2, EntryStays
  <2>3. QED
    BY <2>1, <2>2
<1>11. Changed(work, work', r) /\ work'[r] = work[r]
  BY <1>1, <1>3, EntryStays
<1>12. RunOK(r, d, y, work[r], MatchesOf(r), UnmatchedOf(r))
  <2>1. \/ d.status = "started" /\ y = [run[r] EXCEPT !.stage = "begin"]
        \/ d.status = "failed" /\ y = run[r]
    BY <1>2, <1>6, <1>8
  <2>2. QED
    BY ONLY <1>1, <1>3, <1>6, <1>9, <2>1, RunAsked
<1>13. RunsOK'
  BY <1>1, <1>3, <1>7, <1>9, <1>10, <1>11, <1>12, RunsStepQuiet
<1>14. QED
  BY <1>3, <1>13, RestStays DEF RecStrong

\* The steps of the goroutine that leave the workers alone: the status, the
\* rules and the end.
LEMMA GoroutineKeeps ==
  ASSUME RecStrong, NEW r \in Recons,
         Begin(r) \/ LoadRules(r) \/ Finish(r) \/ FinishFailed(r) \/ FetchFails(r)
  PROVE  RecStrong'
<1>1. /\ RunsOK /\ Whole(recon) /\ Whole(run) /\ Whole(work)
      /\ RunOK(r, recon[r], run[r], work[r], MatchesOf(r), UnmatchedOf(r))
      /\ recon[r] \in ReconFields /\ run[r] \in RunFields /\ work[r] \in [ReconWorkers -> WorkFields]
  BY RunEntry
<1>2. /\ rules' = rules /\ matches' = matches /\ unmatched' = unmatched /\ saved' = saved /\ marking' = marking
      /\ marked' = marked /\ cache' = cache /\ work' = work
  BY DEF Begin, LoadRules, Finish, FinishFailed, FetchFails, rowVars
<1>3. Changed(work, work', r) /\ work'[r] = work[r]
  BY <1>1, <1>2, EntryStays
<1>4. SUFFICES ASSUME TRUE
               PROVE \E d, y : /\ recon' = [recon EXCEPT ![r] = d] /\ run' = [run EXCEPT ![r] = y]
                      /\ y.processed = run[r].processed
                      /\ RunOK(r, d, y, work[r], MatchesOf(r), UnmatchedOf(r))
  <2>1. PICK d, y : /\ recon' = [recon EXCEPT ![r] = d] /\ run' = [run EXCEPT ![r] = y]
                    /\ y.processed = run[r].processed
                    /\ RunOK(r, d, y, work[r], MatchesOf(r), UnmatchedOf(r))
    BY <1>4
  <2>2. Changed(recon, recon', r) /\ recon'[r] = d /\ Changed(run, run', r) /\ run'[r] = y
    BY <1>1, <2>1 DEF Changed, Whole
  <2>3. RunsOK'
    BY <1>1, <1>2, <1>3, <2>1, <2>2, RunsStepQuiet
  <2>4. QED
    BY <1>2, <2>3, RestStays DEF RecStrong
<1>5. PICK c, x, k : c = recon[r] /\ x = run[r] /\ k = work[r]
  OBVIOUS
<1>6. c \in ReconFields /\ x \in RunFields /\ RunOK(r, c, x, k, MatchesOf(r), UnmatchedOf(r))
  BY <1>1, <1>5
<1>7. ReconWorkers # {}
  BY ReconAssumption
<1>8. recon = [recon EXCEPT ![r] = recon[r]]
  BY <1>1 DEF Whole
<1>9. CASE Begin(r)
  <2>1. PICK d, y : /\ d = [c EXCEPT !.status = "in_progress", !.matched = 0, !.unmatched = 0]
                    /\ y = [x EXCEPT !.stage = "rules"]
    OBVIOUS
  <2>2. x.stage = "begin" /\ recon' = [recon EXCEPT ![r] = d] /\ run' = [run EXCEPT ![r] = y]
    BY <1>5, <1>9, <2>1 DEF Begin, SetStatus
  <2>3. y.processed = x.processed
    BY <1>6, <2>1 DEF RunFields
  <2>4. RunOK(r, d, y, k, MatchesOf(r), UnmatchedOf(r))
    BY <1>6, <2>1, <2>2, RunBegins
  <2>5. QED
    BY <1>5, <2>2, <2>3, <2>4
<1>10. CASE LoadRules(r)
  <2>1. CASE \E i \in RuleIds : rules[i] = NoRule
    <3>1. PICK d, y : /\ d = [c EXCEPT !.status = "failed", !.matched = 0, !.unmatched = 0]
                      /\ y = [x EXCEPT !.stage = "over"]
      OBVIOUS
    <3>2. x.stage = "rules" /\ recon' = [recon EXCEPT ![r] = d] /\ run' = [run EXCEPT ![r] = y]
      BY <1>5, <1>10, <2>1, <3>1 DEF LoadRules, SetStatus
    <3>3. y.processed = x.processed
      BY <1>6, <3>1 DEF RunFields
    <3>4. RunOK(r, d, y, k, MatchesOf(r), UnmatchedOf(r))
      BY <1>6, <3>1, <3>2, RunBegins
    <3>5. QED
      BY <1>5, <3>2, <3>3, <3>4
  <2>2. CASE ~\E i \in RuleIds : rules[i] = NoRule
    <3>1. PICK R : R = {rules[i] : i \in RuleIds}
      OBVIOUS
    <3>2. R \in SUBSET RuleVersions
      BY <2>2, <3>1 DEF RecStrong, RulesOK
    <3>3. PICK y : y = [x EXCEPT !.stage = "work", !.rules = R]
      OBVIOUS
    <3>4. x.stage = "rules" /\ recon' = [recon EXCEPT ![r] = c] /\ run' = [run EXCEPT ![r] = y]
      BY <1>5, <1>8, <1>10, <2>2, <3>1, <3>3 DEF LoadRules
    <3>5. y.processed = x.processed
      BY <1>6, <3>3 DEF RunFields
    <3>6. RunOK(r, c, y, k, MatchesOf(r), UnmatchedOf(r))
      BY <1>6, <3>2, <3>3, <3>4, RunLoads
    <3>7. QED
      BY <1>5, <3>4, <3>5, <3>6
  <2>3. QED
    BY <2>1, <2>2
<1>11. CASE Finish(r)
  <2>1. PICK d, y : /\ d = (IF x.failed THEN [c EXCEPT !.status = "failed", !.matched = 0, !.unmatched = 0]
                            ELSE [c EXCEPT !.status = "completed", !.matched = x.matched, !.unmatched = x.unmatched])
                    /\ y = [x EXCEPT !.stage = "over"]
    OBVIOUS
  <2>2. /\ x.stage = "work" /\ recon' = [recon EXCEPT ![r] = d] /\ run' = [run EXCEPT ![r] = y]
        /\ \A w \in ReconWorkers : k[w].stage = "stopped" \/ (k[w].stage = "idle" /\ x.jobs = <<>>)
    <3>1. CASE x.failed
      BY <1>5, <1>11, <2>1, <3>1 DEF Finish, SetStatus, WorkersEnded
    <3>2. CASE ~x.failed
      BY <1>5, <1>11, <2>1, <3>2 DEF Finish, SetStatus, WorkersEnded
    <3>3. QED
      BY <3>1, <3>2
  <2>3. y.processed = x.processed
    BY <1>6, <2>1 DEF RunFields
  <2>4. RunOK(r, d, y, k, MatchesOf(r), UnmatchedOf(r))
    <3>1. /\ \A w \in ReconWorkers : k[w].stage = "stopped" \/ (k[w].stage = "idle" /\ x.jobs = <<>>)
          /\ d = (IF x.failed THEN [c EXCEPT !.status = "failed", !.matched = 0, !.unmatched = 0]
                  ELSE [c EXCEPT !.status = "completed", !.matched = x.matched, !.unmatched = x.unmatched])
          /\ y = [x EXCEPT !.stage = "over"]
      BY <2>1, <2>2
    <3>2. x.stage = "work"
      BY <2>2
    <3>3. QED
      BY ONLY <1>6, <1>7, <3>1, <3>2, RunEnds
  <2>5. QED
    BY <1>5, <2>2, <2>3, <2>4
<1>12. CASE FinishFailed(r)
  <2>1. PICK d, y : /\ d = [c EXCEPT !.status = "failed", !.matched = 0, !.unmatched = 0]
                    /\ y = [x EXCEPT !.stage = "returned"]
    OBVIOUS
  <2>2. x.stage = "work" /\ recon' = [recon EXCEPT ![r] = d] /\ run' = [run EXCEPT ![r] = y]
    BY <1>5, <1>12, <2>1 DEF FinishFailed, SetStatus
  <2>3. y.processed = x.processed
    BY <1>6, <2>1 DEF RunFields
  <2>4. RunOK(r, d, y, k, MatchesOf(r), UnmatchedOf(r))
    BY <1>6, <1>7, <2>1, <2>2, RunEnds
  <2>5. QED
    BY <1>5, <2>2, <2>3, <2>4
<1>13. CASE FetchFails(r)
  <2>1. PICK y : y = [x EXCEPT !.fetch = "failed"]
    OBVIOUS
  <2>2. /\ x.stage \in {"work", "returned"} /\ recon' = [recon EXCEPT ![r] = c]
        /\ run' = [run EXCEPT ![r] = y]
    BY <1>5, <1>8, <1>13, <2>1 DEF FetchFails, Fetching, rowVars
  <2>3. y.processed = x.processed
    BY <1>6, <2>1 DEF RunFields
  <2>4. RunOK(r, c, y, k, MatchesOf(r), UnmatchedOf(r))
    BY <1>6, <2>1, <2>2, RunFetchFails
  <2>5. QED
    BY <1>5, <2>2, <2>3, <2>4
<1>14. QED
  BY <1>9, <1>10, <1>11, <1>12, <1>13

\* A worker takes a transaction.
LEMMA TakeKeeps ==
  ASSUME RecStrong, NEW r \in Recons, NEW w \in ReconWorkers, NEW fault \in BOOLEAN, Take(r, w, fault)
  PROVE  RecStrong'
<1>1. /\ RunsOK /\ Whole(recon) /\ Whole(run) /\ Whole(work)
      /\ RunOK(r, recon[r], run[r], work[r], MatchesOf(r), UnmatchedOf(r))
      /\ recon[r] \in ReconFields /\ run[r] \in RunFields /\ work[r] \in [ReconWorkers -> WorkFields]
  BY RunEntry
<1>2. /\ rules' = rules /\ matches' = matches /\ unmatched' = unmatched /\ saved' = saved /\ marking' = marking
      /\ marked' = marked /\ cache' = cache /\ recon' = recon
      /\ run[r].stage \in {"work", "returned"} /\ work[r][w].stage = "idle" /\ run[r].jobs # <<>>
  BY DEF Take, rowVars
<1>3. PICK c, x, k : c = recon[r] /\ x = run[r] /\ k = work[r]
  OBVIOUS
<1>4. PICK item : item = Head(x.jobs)
  OBVIOUS
<1>5. PICK o \in Outcomes(r, item, fault) :
        /\ run' = [run EXCEPT ![r].jobs = Tail(@), ![r].lost = @ \/ fault,
                          ![r].matched = @ + IF o.hung THEN 0 ELSE Cardinality(o.matches),
                          ![r].unmatched = @ + IF o.hung THEN 0 ELSE o.unmatched]
        /\ work' = [work EXCEPT ![r][w] =
                           [stage |-> Stage(r, o), item |-> item,
                            matches |-> o.matches, unmatched |-> o.unmatched]]
  BY <1>3, <1>4 DEF Take
<1>6. x \in RunFields /\ x.jobs \in Seq(Items) /\ x.jobs # <<>> /\ c \in ReconFields /\ k \in [ReconWorkers -> WorkFields]
  BY <1>1, <1>2, <1>3 DEF RunFields
<1>7. item \in Items /\ Tail(x.jobs) \in Seq(Items)
  BY <1>4, <1>6
<1>8. OutcomeOK(c, item, fault, o)
  <2>1. OutcomeOK(recon[r], item, fault, o)
    BY ONLY <1>1, <1>7, OutcomesOK, fault \in BOOLEAN, o \in Outcomes(r, item, fault)
  <2>2. QED
    BY <1>3, <2>1
<1>9. PICK n : n = Cardinality(o.matches)
  OBVIOUS
<1>10. n \in Nat /\ n = Cardinality(o.matches)
  <2>1. IsFiniteSet(o.matches)
    BY <1>8 DEF OutcomeOK
  <2>2. QED
    BY <1>9, <2>1, FS_CardinalityType
<1>11. PICK y : y = [x EXCEPT !.jobs = Tail(x.jobs), !.lost = x.lost \/ fault,
                       !.matched = x.matched + (IF o.hung THEN 0 ELSE n),
                       !.unmatched = x.unmatched + (IF o.hung THEN 0 ELSE o.unmatched)]
  OBVIOUS
<1>12. PICK job : job = [stage |-> Stage(r, o), item |-> item, matches |-> o.matches, unmatched |-> o.unmatched]
  OBVIOUS
<1>13. PICK after : after = [k EXCEPT ![w] = job]
  OBVIOUS
<1>14. run' = [run EXCEPT ![r] = y]
  BY <1>3, <1>5, <1>10, <1>11
<1>15. work' = [work EXCEPT ![r] = after]
  BY <1>3, <1>5, <1>12, <1>13
<1>16. o.unmatched \in Nat /\ o.hung \in BOOLEAN /\ o.matches \subseteq ItemIds \X ItemIds
  BY <1>8 DEF OutcomeOK
<1>17. /\ (IF o.hung THEN 0 ELSE n) \in Nat /\ (IF o.hung THEN 0 ELSE o.unmatched) \in Nat
       /\ x.matched \in Nat /\ x.unmatched \in Nat
  BY <1>6, <1>10, <1>16 DEF RunFields
<1>18. /\ x.matched + (IF o.hung THEN 0 ELSE n) \in Nat /\ x.unmatched + (IF o.hung THEN 0 ELSE o.unmatched) \in Nat
       /\ (x.lost \/ fault) \in BOOLEAN
  BY <1>17
<1>19. /\ y \in RunFields /\ y.stage = x.stage /\ y.failed = x.failed /\ y.processed = x.processed
       /\ y.jobs = Tail(x.jobs) /\ y.lost = (x.lost \/ fault) /\ y.fetched = x.fetched /\ y.offset = x.offset
       /\ y.matched = x.matched + (IF o.hung THEN 0 ELSE n)
       /\ y.unmatched = x.unmatched + (IF o.hung THEN 0 ELSE o.unmatched)
  BY <1>6, <1>7, <1>11, <1>18 DEF RunFields
<1>20. Stage(r, o) = (IF o.hung THEN "hung" ELSE IF c.dry THEN "count" ELSE IF o.matches # {} THEN "match"
                          ELSE IF o.unmatched > 0 THEN "unmatch" ELSE "count")
  BY <1>3 DEF Stage, AfterMatches
<1>21. /\ job \in WorkFields /\ job.item = item /\ job.matches = o.matches /\ job.unmatched = o.unmatched
       /\ job.stage = Stage(r, o)
  <2>1. Stage(r, o) \in {"idle", "match", "unmatch", "count", "hung", "stopped"}
    BY <1>20
  <2>2. QED
    BY <1>7, <1>12, <1>16, <2>1 DEF WorkFields
<1>22. TakeFacts(c, x, k, w, fault, o, y, job)
  <2>1. k[w].stage = "idle"
    BY <1>2, <1>3
  <2>2. QED
    BY ONLY <1>4, <1>6, <1>8, <1>9, <1>19, <1>20, <1>21, <2>1 DEF TakeFacts
<1>23. RunOK(r, c, y, after, MatchesOf(r), UnmatchedOf(r))
  <2>1. RunOK(r, c, x, k, MatchesOf(r), UnmatchedOf(r)) /\ x.stage \in {"work", "returned"}
    BY <1>1, <1>2, <1>3
  <2>2. y.stage = x.stage /\ y.failed = x.failed
    BY <1>19
  <2>3. QED
    BY ONLY <1>13, <1>22, <2>1, <2>2, w \in ReconWorkers, fault \in BOOLEAN, RunTakes
<1>24. Changed(recon, recon', r) /\ recon'[r] = c
  BY <1>1, <1>2, <1>3, EntryStays
<1>25. Changed(run, run', r) /\ run'[r] = y /\ Changed(work, work', r) /\ work'[r] = after
  BY <1>1, <1>14, <1>15 DEF Changed, Whole
<1>26. RunsOK'
  BY <1>1, <1>2, <1>3, <1>19, <1>23, <1>24, <1>25, RunsStepQuiet
<1>27. QED
  BY <1>2, <1>26, RestStays DEF RecStrong

\* A worker stops at a failed record.
LEMMA RecordFailsKeeps ==
  ASSUME RecStrong, NEW r \in Recons, NEW w \in ReconWorkers, RecordFails(r, w)
  PROVE  RecStrong'
<1>1. /\ RunsOK /\ Whole(recon) /\ Whole(run) /\ Whole(work)
      /\ RunOK(r, recon[r], run[r], work[r], MatchesOf(r), UnmatchedOf(r))
      /\ recon[r] \in ReconFields /\ run[r] \in RunFields /\ work[r] \in [ReconWorkers -> WorkFields]
  BY RunEntry
<1>2. /\ rules' = rules /\ matches' = matches /\ unmatched' = unmatched /\ saved' = saved /\ marking' = marking
      /\ marked' = marked /\ cache' = cache /\ recon' = recon /\ work[r][w].stage \in {"match", "unmatch"}
  BY DEF RecordFails, rowVars
<1>3. PICK x, k : x = run[r] /\ k = work[r]
  OBVIOUS
<1>4. PICK y, after : y = [x EXCEPT !.failed = TRUE] /\ after = [k EXCEPT ![w].stage = "stopped"]
  OBVIOUS
<1>5. run' = [run EXCEPT ![r] = y]
  BY <1>3, <1>4 DEF RecordFails
<1>6. work' = [work EXCEPT ![r] = after]
  BY <1>3, <1>4 DEF RecordFails, Goes
<1>7. y.processed = x.processed
  BY <1>1, <1>3, <1>4 DEF RunFields
<1>8. RunOK(r, recon[r], y, after, MatchesOf(r), UnmatchedOf(r))
  BY <1>1, <1>2, <1>3, <1>4, RunRecordFails
<1>9. Changed(recon, recon', r) /\ recon'[r] = recon[r]
  BY <1>1, <1>2, EntryStays
<1>10. Changed(run, run', r) /\ run'[r] = y /\ Changed(work, work', r) /\ work'[r] = after
  BY <1>1, <1>5, <1>6 DEF Changed, Whole
<1>11. RunsOK'
  BY <1>1, <1>2, <1>3, <1>7, <1>8, <1>9, <1>10, RunsStepQuiet
<1>12. QED
  BY <1>2, <1>11, RestStays DEF RecStrong

\* A worker records its matches: those of the other runs are as they were.
LEMMA RecordMatchesKeeps ==
  ASSUME RecStrong, NEW r \in Recons, NEW w \in ReconWorkers, RecordMatches(r, w)
  PROVE  RecStrong'
<1>1. /\ RunsOK /\ Whole(recon) /\ Whole(run) /\ Whole(work)
      /\ RunOK(r, recon[r], run[r], work[r], MatchesOf(r), UnmatchedOf(r))
      /\ recon[r] \in ReconFields /\ run[r] \in RunFields /\ work[r] \in [ReconWorkers -> WorkFields]
  BY RunEntry
<1>2. PICK k : k = work[r]
  OBVIOUS
<1>3. /\ rules' = rules /\ unmatched' = unmatched /\ saved' = saved /\ marked' = marked /\ cache' = cache
      /\ recon' = recon /\ run' = run /\ k[w].stage = "match"
      /\ matches' = matches \cup Triples(r, k[w]) /\ marking' = marking \cup Triples(r, k[w])
  BY <1>2 DEF RecordMatches, Triples
<1>4. PICK after : after = [k EXCEPT ![w].stage = IF k[w].unmatched > 0 THEN "unmatch" ELSE "count"]
  OBVIOUS
<1>5. work' = [work EXCEPT ![r] = after]
  BY <1>2, <1>4 DEF RecordMatches, Goes, AfterMatches
<1>6. OnlyWorker(k, w, after) /\ after[w].stage = (IF k[w].unmatched > 0 THEN "unmatch" ELSE "count")
  BY <1>1, <1>2, <1>4 DEF OnlyWorker, WorkFields
<1>7. \A m \in Triples(r, k[w]) : m[1] = r
  BY DEF Triples
<1>8. PICK N : N = MatchesOf(r) \cup Triples(r, k[w])
  OBVIOUS
<1>9. /\ MatchesOf(r)' = N /\ UnmatchedOf(r)' = UnmatchedOf(r)
      /\ \A s \in Recons : s # r => MatchesOf(s)' = MatchesOf(s) /\ UnmatchedOf(s)' = UnmatchedOf(s)
  BY <1>3, <1>7, <1>8 DEF MatchesOf, UnmatchedOf
<1>10. RunOK(r, recon[r], run[r], after, N, UnmatchedOf(r))
  <2>1. RunOK(r, recon[r], run[r], k, MatchesOf(r), UnmatchedOf(r)) /\ k[w].stage = "match"
    BY <1>1, <1>2, <1>3
  <2>2. QED
    BY ONLY <1>6, <1>8, <2>1, w \in ReconWorkers, RunRecordsMatches
<1>11. /\ Changed(recon, recon', r) /\ recon'[r] = recon[r] /\ Changed(run, run', r) /\ run'[r] = run[r]
  BY <1>1, <1>3, EntryStays
<1>12. Changed(work, work', r) /\ work'[r] = after
  BY <1>1, <1>5 DEF Changed, Whole
<1>13. /\ saved' \in [Recons -> Nat] /\ saved'[r] <= run'[r].processed
       /\ \A s \in Recons : s # r => saved'[s] = saved[s]
  BY <1>1, <1>3 DEF RunsOK
<1>14. RunsOK'
  <2>1. RunOK(r, recon'[r], run'[r], work'[r], MatchesOf(r)', UnmatchedOf(r)')
    BY <1>9, <1>10, <1>11, <1>12
  <2>2. QED
    BY <1>1, <1>9, <1>11, <1>12, <1>13, <2>1, RunsStep
<1>15. MarksOK'
  BY <1>3 DEF RecStrong, MarksOK
<1>16. QED
  BY <1>3, <1>14, <1>15, RestStays DEF RecStrong

\* A worker records that its transaction is unmatched.
LEMMA RecordUnmatchedKeeps ==
  ASSUME RecStrong, NEW r \in Recons, NEW w \in ReconWorkers, RecordUnmatched(r, w)
  PROVE  RecStrong'
<1>1. /\ RunsOK /\ Whole(recon) /\ Whole(run) /\ Whole(work)
      /\ RunOK(r, recon[r], run[r], work[r], MatchesOf(r), UnmatchedOf(r))
      /\ recon[r] \in ReconFields /\ run[r] \in RunFields /\ work[r] \in [ReconWorkers -> WorkFields]
  BY RunEntry
<1>2. PICK k : k = work[r]
  OBVIOUS
<1>3. /\ rules' = rules /\ matches' = matches /\ saved' = saved /\ marking' = marking /\ marked' = marked
      /\ cache' = cache /\ recon' = recon /\ run' = run /\ k[w].stage = "unmatch"
      /\ unmatched' = unmatched \cup {<<r, k[w].item.id>>}
  BY <1>2 DEF RecordUnmatched
<1>4. PICK after : after = [k EXCEPT ![w].stage = "count"]
  OBVIOUS
<1>5. work' = [work EXCEPT ![r] = after]
  BY <1>2, <1>4 DEF RecordUnmatched, Goes
<1>6. OnlyWorker(k, w, after) /\ after[w].stage = "count"
  BY <1>1, <1>2, <1>4 DEF OnlyWorker, WorkFields
<1>8. PICK V : V = UnmatchedOf(r) \cup {<<r, k[w].item.id>>}
  OBVIOUS
<1>9. /\ MatchesOf(r)' = MatchesOf(r) /\ UnmatchedOf(r)' = V
      /\ \A s \in Recons : s # r => MatchesOf(s)' = MatchesOf(s) /\ UnmatchedOf(s)' = UnmatchedOf(s)
  BY <1>3, <1>8 DEF MatchesOf, UnmatchedOf
<1>10. RunOK(r, recon[r], run[r], after, MatchesOf(r), V)
  <2>1. RunOK(r, recon[r], run[r], k, MatchesOf(r), UnmatchedOf(r)) /\ k[w].stage = "unmatch"
    BY <1>1, <1>2, <1>3
  <2>2. QED
    BY ONLY <1>6, <1>8, <2>1, w \in ReconWorkers, RunRecordsUnmatched
<1>11. /\ Changed(recon, recon', r) /\ recon'[r] = recon[r] /\ Changed(run, run', r) /\ run'[r] = run[r]
  BY <1>1, <1>3, EntryStays
<1>12. Changed(work, work', r) /\ work'[r] = after
  BY <1>1, <1>5 DEF Changed, Whole
<1>13. /\ saved' \in [Recons -> Nat] /\ saved'[r] <= run'[r].processed
       /\ \A s \in Recons : s # r => saved'[s] = saved[s]
  BY <1>1, <1>3 DEF RunsOK
<1>14. RunsOK'
  <2>1. RunOK(r, recon'[r], run'[r], work'[r], MatchesOf(r)', UnmatchedOf(r)')
    BY <1>9, <1>10, <1>11, <1>12
  <2>2. QED
    BY <1>1, <1>9, <1>11, <1>12, <1>13, <2>1, RunsStep
<1>15. QED
  BY <1>3, <1>14, RestStays DEF RecStrong

\* A worker has processed its transaction; the count may be saved.
LEMMA CountKeeps ==
  ASSUME RecStrong, NEW r \in Recons, NEW w \in ReconWorkers, Count(r, w)
  PROVE  RecStrong'
<1>1. /\ RunsOK /\ Whole(recon) /\ Whole(run) /\ Whole(work)
      /\ RunOK(r, recon[r], run[r], work[r], MatchesOf(r), UnmatchedOf(r))
      /\ recon[r] \in ReconFields /\ run[r] \in RunFields /\ work[r] \in [ReconWorkers -> WorkFields]
  BY RunEntry
<1>2. PICK x, k, n : x = run[r] /\ k = work[r] /\ n = x.processed + 1
  OBVIOUS
<1>3. n \in Nat /\ n > x.processed /\ x.processed \in Nat
  BY <1>1, <1>2 DEF RunFields
<1>4. PICK y, after : y = [x EXCEPT !.processed = n] /\ after = [k EXCEPT ![w] = Idle]
  OBVIOUS
<1>5. /\ rules' = rules /\ recon' = recon /\ matches' = matches /\ unmatched' = unmatched /\ marking' = marking
      /\ marked' = marked /\ cache' = cache /\ k[w].stage = "count"
      /\ saved' = saved \/ saved' = [saved EXCEPT ![r] = n]
  BY <1>2 DEF Count, SaveReconciliationProgress
<1>6. run' = [run EXCEPT ![r] = y] /\ work' = [work EXCEPT ![r] = after]
  BY <1>2, <1>4 DEF Count
<1>7. /\ after \in [ReconWorkers -> WorkFields] /\ after[w].stage = "idle" /\ \A v \in ReconWorkers : v # w => after[v] = k[v]
  <2>1. Idle \in WorkFields /\ Idle.stage = "idle"
    BY DEF Idle, WorkFields
  <2>2. QED
    BY <1>1, <1>2, <1>4, <2>1
<1>8. y.processed = n
  BY <1>1, <1>2, <1>4 DEF RunFields
<1>9. RunOK(r, recon[r], y, after, MatchesOf(r), UnmatchedOf(r))
  <2>1. RunOK(r, recon[r], x, k, MatchesOf(r), UnmatchedOf(r)) /\ k[w].stage = "count"
    BY <1>1, <1>2, <1>5
  <2>2. QED
    BY <1>3, <1>4, <1>7, <2>1, RunCounts
<1>10. Changed(recon, recon', r) /\ recon'[r] = recon[r]
  BY <1>1, <1>5, EntryStays
<1>11. Changed(run, run', r) /\ run'[r] = y /\ Changed(work, work', r) /\ work'[r] = after
  BY <1>1, <1>6 DEF Changed, Whole
<1>12. saved \in [Recons -> Nat] /\ saved[r] <= x.processed
  BY <1>1, <1>2 DEF RunsOK
<1>13. /\ saved' \in [Recons -> Nat] /\ saved'[r] <= n /\ \A s \in Recons : s # r => saved'[s] = saved[s]
  <2>1. CASE saved' = saved
    BY <1>3, <1>12, <2>1
  <2>2. CASE saved' = [saved EXCEPT ![r] = n]
    BY <1>3, <1>12, <2>2
  <2>3. QED
    BY <1>5, <2>1, <2>2
<1>14. \A s \in Recons : MatchesOf(s)' = MatchesOf(s) /\ UnmatchedOf(s)' = UnmatchedOf(s)
  BY <1>5 DEF MatchesOf, UnmatchedOf
<1>15. RunsOK'
  <2>1. RunOK(r, recon'[r], run'[r], work'[r], MatchesOf(r)', UnmatchedOf(r)')
    BY <1>9, <1>10, <1>11, <1>14
  <2>2. saved'[r] <= run'[r].processed
    BY <1>8, <1>11, <1>13
  <2>3. QED
    BY <1>1, <1>10, <1>11, <1>13, <1>14, <2>1, <2>2, RunsStep
<1>16. QED
  BY <1>5, <1>15, RestStays DEF RecStrong

\* A page is fetched, from the cache or from the table.
LEMMA FetchPageKeeps ==
  ASSUME RecStrong, NEW r \in Recons, FetchPage(r)
  PROVE  RecStrong'
<1>1. /\ RunsOK /\ Whole(recon) /\ Whole(run) /\ Whole(work)
      /\ RunOK(r, recon[r], run[r], work[r], MatchesOf(r), UnmatchedOf(r))
      /\ recon[r] \in ReconFields /\ run[r] \in RunFields /\ work[r] \in [ReconWorkers -> WorkFields]
  BY RunEntry
<1>2. PICK c, x : c = recon[r] /\ x = run[r]
  OBVIOUS
<1>3. PICK page : page = CASE c.strategy = "many_to_one" -> PageOf(Internals, x.offset)
                           [] c.strategy # "many_to_one" /\ cache[x.offset] # <<>> -> cache[x.offset]
                           [] OTHER -> PageOf(Uploads[c.upload], x.offset)
  OBVIOUS
<1>4. /\ rules' = rules /\ recon' = recon /\ matches' = matches /\ unmatched' = unmatched /\ saved' = saved
      /\ marking' = marking /\ marked' = marked /\ work' = work /\ x.stage \in {"work", "returned"}
      /\ run' = (IF page = <<>> THEN [run EXCEPT ![r].fetch = "ended"]
                      ELSE [run EXCEPT ![r].jobs = @ \o page, ![r].offset = @ + Len(page),
                                            ![r].fetched = @ \cup IdsOf(page)])
      /\ cache' = (IF c.strategy # "many_to_one" THEN [cache EXCEPT ![x.offset] = page] ELSE cache)
  BY <1>2, <1>3 DEF FetchPage, Fetching, rowVars
<1>5. c.strategy \in Strategies /\ c.upload \in DOMAIN Uploads /\ x.offset \in Offsets /\ x \in RunFields
  BY <1>1, <1>2 DEF ReconFields, RunFields
<1>6. PICK rows : /\ page = PageOf(rows, x.offset)
                  /\ \/ c.strategy = "many_to_one" /\ rows = Internals
                     \/ c.strategy # "many_to_one" /\ \E u \in DOMAIN Uploads : rows = Uploads[u]
  <2>1. CASE c.strategy = "many_to_one"
    <3>1. page = PageOf(Internals, x.offset)
      BY <1>3, <2>1
    <3>2. QED
      BY <2>1, <3>1
  <2>2. CASE c.strategy # "many_to_one" /\ cache[x.offset] # <<>>
    <3>1. page = cache[x.offset]
      BY <1>3, <2>2
    <3>2. \E u \in DOMAIN Uploads : cache[x.offset] = PageOf(Uploads[u], x.offset)
      BY <1>5, <2>2 DEF RecStrong, CacheOK
    <3>3. QED
      BY <2>2, <3>1, <3>2
  <2>3. CASE c.strategy # "many_to_one" /\ cache[x.offset] = <<>>
    <3>1. page = PageOf(Uploads[c.upload], x.offset)
      BY <1>3, <2>3
    <3>2. QED
      BY <1>5, <2>3, <3>1
  <2>4. QED
    BY <2>1, <2>2, <2>3
<1>7. CacheOK'
  <2>1. CASE c.strategy = "many_to_one"
    BY <1>4, <2>1 DEF RecStrong, CacheOK
  <2>2. CASE c.strategy # "many_to_one"
    <3>1. \E u \in DOMAIN Uploads : page = PageOf(Uploads[u], x.offset)
      BY <1>6, <2>2
    <3>2. cache' = [cache EXCEPT ![x.offset] = page]
      BY <1>4, <2>2
    <3>3. QED
      BY <1>5, <3>1, <3>2 DEF RecStrong, CacheOK
  <2>3. QED
    BY <2>1, <2>2
<1>8. \E y : /\ run' = [run EXCEPT ![r] = y] /\ y.processed = x.processed
             /\ RunOK(r, c, y, work[r], MatchesOf(r), UnmatchedOf(r))
  <2>0. RunOK(r, c, x, work[r], MatchesOf(r), UnmatchedOf(r))
    BY <1>1, <1>2
  <2>1. CASE page = <<>>
    <3>1. PICK y : y = [x EXCEPT !.fetch = "ended"]
      OBVIOUS
    <3>2. run' = [run EXCEPT ![r] = y]
      BY <1>2, <1>4, <2>1, <3>1
    <3>3. y.processed = x.processed
      BY <1>5, <3>1 DEF RunFields
    <3>4. RunOK(r, c, y, work[r], MatchesOf(r), UnmatchedOf(r))
      BY <1>4, <2>0, <3>1, RunFetchFails
    <3>5. QED
      BY <3>2, <3>3, <3>4
  <2>2. CASE page # <<>>
    <3>1. PICK y : y = [x EXCEPT !.jobs = x.jobs \o page, !.offset = x.offset + Len(page),
                                 !.fetched = x.fetched \cup IdsOf(page)]
      OBVIOUS
    <3>2. run' = [run EXCEPT ![r] = y]
      BY <1>2, <1>4, <2>2, <3>1
    <3>3. y.processed = x.processed
      BY <1>5, <3>1 DEF RunFields
    <3>4. x.stage \in {"work", "returned"}
      BY <1>4
    <3>5. RunOK(r, c, y, work[r], MatchesOf(r), UnmatchedOf(r))
      BY ONLY <1>6, <2>0, <2>2, <3>1, <3>4, RunFetches
    <3>6. QED
      BY <3>2, <3>3, <3>5
  <2>3. QED
    BY <2>1, <2>2
<1>9. PICK y : /\ run' = [run EXCEPT ![r] = y] /\ y.processed = x.processed
               /\ RunOK(r, c, y, work[r], MatchesOf(r), UnmatchedOf(r))
  BY <1>8
<1>10. /\ Changed(recon, recon', r) /\ recon'[r] = recon[r] /\ Changed(work, work', r)
       /\ work'[r] = work[r]
  BY <1>1, <1>4, EntryStays
<1>11. Changed(run, run', r) /\ run'[r] = y
  BY <1>1, <1>9 DEF Changed, Whole
<1>12. RunsOK'
  BY <1>1, <1>2, <1>4, <1>9, <1>10, <1>11, RunsStepQuiet
<1>13. QED
  BY <1>4, <1>7, <1>12, RestStays DEF RecStrong

\* The process dies with all its runs.
LEMMA ReconCrashKeeps ==
  ASSUME RecStrong, Crash
  PROVE  RecStrong'
<1>1. /\ rules' = rules /\ recon' = recon /\ matches' = matches /\ unmatched' = unmatched /\ saved' = saved
      /\ marked' = marked /\ cache' = cache /\ marking' = {}
      /\ run' = [r \in Recons |-> IF run[r].stage = "off" THEN run[r]
                                       ELSE [run[r] EXCEPT !.stage = "over"]]
      /\ work' = [r \in Recons |-> [w \in ReconWorkers |-> Idle]]
  BY DEF Crash
<1>2. Whole(recon') /\ Whole(run') /\ Whole(work')
  BY <1>1 DEF RecStrong, RunsOK, Whole
<1>3. PICK after : after = [w \in ReconWorkers |-> Idle]
  OBVIOUS
<1>4. after \in [ReconWorkers -> WorkFields] /\ \A w \in ReconWorkers : ~Busy(after, w)
  BY <1>3 DEF Idle, WorkFields, Busy
<1>5. ASSUME NEW r \in Recons
      PROVE  /\ saved'[r] <= run'[r].processed
             /\ RunOK(r, recon'[r], run'[r], work'[r], MatchesOf(r)', UnmatchedOf(r)')
  <2>1. PICK x, y : x = run[r] /\ y = IF x.stage = "off" THEN x ELSE [x EXCEPT !.stage = "over"]
    OBVIOUS
  <2>2. run'[r] = y /\ work'[r] = after
    BY <1>1, <1>3, <2>1
  <2>3. RunOK(r, recon[r], x, work[r], MatchesOf(r), UnmatchedOf(r)) /\ x \in RunFields
    BY <2>1, RunEntry
  <2>4. RunOK(r, recon[r], y, after, MatchesOf(r), UnmatchedOf(r))
    BY <1>4, <2>1, <2>3, RunCrashes
  <2>5. MatchesOf(r)' = MatchesOf(r) /\ UnmatchedOf(r)' = UnmatchedOf(r)
    BY <1>1 DEF MatchesOf, UnmatchedOf
  <2>6. y.processed = x.processed
    BY <2>1, <2>3 DEF RunFields
  <2>7. saved[r] <= x.processed
    BY <2>1 DEF RecStrong, RunsOK
  <2>8. QED
    BY <1>1, <2>2, <2>4, <2>5, <2>6, <2>7
<1>6. RunsOK'
  BY <1>1, <1>2, <1>5 DEF RecStrong, RunsOK
<1>7. MarksOK'
  BY <1>1 DEF RecStrong, MarksOK
<1>8. QED
  BY <1>1, <1>6, <1>7, RestStays DEF RecStrong

\* Nothing of a run changes.
LEMMA RunsStay ==
  ASSUME RunsOK, recon' = recon, run' = run, work' = work, saved' = saved, matches' = matches,
         unmatched' = unmatched
  PROVE  RunsOK'
<1>1. \A s : MatchesOf(s)' = MatchesOf(s) /\ UnmatchedOf(s)' = UnmatchedOf(s)
  BY DEF MatchesOf, UnmatchedOf
<1>2. QED
  BY <1>1 DEF RunsOK

\* The rules, the marks and the cache.
LEMMA AroundKeeps ==
  ASSUME RecStrong,
         \/ \E i \in RuleIds : \/ \E rule \in RuleVersions : CreateMatchingRule(i, rule) \/ UpdateMatchingRule(i, rule)
                               \/ DeleteMatchingRule(i)
         \/ \E m \in marking : Mark(m)
         \/ \E o \in Offsets : ExpireCache(o)
         \/ UNCHANGED reconVars
  PROVE  RecStrong'
<1>1. RunsOK'
  <2>1. /\ recon' = recon /\ run' = run /\ work' = work /\ saved' = saved
        /\ matches' = matches /\ unmatched' = unmatched
    BY DEF CreateMatchingRule, UpdateMatchingRule, DeleteMatchingRule, Mark, ExpireCache,
           rowVars, reconVars
  <2>2. QED
    BY <2>1, RunsStay DEF RecStrong
<1>2. CASE \E i \in RuleIds : \/ \E rule \in RuleVersions : CreateMatchingRule(i, rule) \/ UpdateMatchingRule(i, rule)
                              \/ DeleteMatchingRule(i)
  <2>1. PICK i \in RuleIds : \/ \E rule \in RuleVersions : rules' = [rules EXCEPT ![i] = rule] /\ ValidateRule(rule)
                             \/ rules' = [rules EXCEPT ![i] = NoRule]
    BY <1>2 DEF CreateMatchingRule, UpdateMatchingRule, DeleteMatchingRule
  <2>2. RulesOK'
    BY <2>1 DEF RecStrong, RulesOK
  <2>3. cache' = cache /\ marking' = marking /\ marked' = marked /\ matches' = matches
    BY <1>2 DEF CreateMatchingRule, UpdateMatchingRule, DeleteMatchingRule, rowVars
  <2>4. QED
    BY <1>1, <2>2, <2>3, RestStays DEF RecStrong
<1>3. CASE \E m \in marking : Mark(m)
  <2>1. PICK m \in marking : /\ marking' = marking \ {m} /\ marked' = [marked EXCEPT ![m[3]] = m[2]]
                             /\ matches' = matches /\ rules' = rules /\ cache' = cache
    BY <1>3 DEF Mark
  <2>2. MarksOK'
    <3>1. marking' \subseteq matches' /\ m \in matches
      BY <2>1 DEF RecStrong, MarksOK
    <3>2. ASSUME NEW i \in DOMAIN marked', marked'[i] # NoItem PROVE \E n \in matches' : n[2] = marked'[i] /\ n[3] = i
      <4>1. CASE i = m[3]
        BY <2>1, <3>1, <3>2, <4>1
      <4>2. CASE i # m[3]
        <5>1. i \in DOMAIN marked /\ marked'[i] = marked[i]
          BY <2>1, <3>2, <4>2
        <5>2. QED
          BY <2>1, <3>2, <5>1 DEF RecStrong, MarksOK
      <4>3. QED
        BY <4>1, <4>2
    <3>3. QED
      BY <3>1, <3>2 DEF MarksOK
  <2>3. QED
    BY <1>1, <2>1, <2>2, RestStays DEF RecStrong
<1>4. CASE \E o \in Offsets : ExpireCache(o)
  <2>1. PICK o \in Offsets : /\ cache' = [cache EXCEPT ![o] = <<>>] /\ rules' = rules /\ marking' = marking
                                 /\ marked' = marked /\ matches' = matches
    BY <1>4 DEF ExpireCache, rowVars
  <2>2. CacheOK'
    BY <2>1 DEF RecStrong, CacheOK
  <2>3. QED
    BY <1>1, <2>1, <2>2, RestStays DEF RecStrong
<1>5. CASE UNCHANGED reconVars
  <2>1. rules' = rules /\ cache' = cache /\ marking' = marking /\ marked' = marked /\ matches' = matches
    BY <1>5 DEF reconVars, rowVars
  <2>2. QED
    BY <1>1, <2>1, RestStays DEF RecStrong
<1>6. QED
  BY <1>2, <1>3, <1>4, <1>5

\* Every step of the reconciliations keeps it.
LEMMA ReconKeeps ==
  ASSUME RecStrong, ReconNext \/ UNCHANGED reconVars
  PROVE  RecStrong'
<1>1. CASE \E r \in Recons : ReconStep(r)
  <2>1. PICK r \in Recons : ReconStep(r)
    BY <1>1
  <2>2. CASE \E q \in Requests : StartReconciliation(r, q) \/ StoreFails(r, q)
    BY <2>2, AskedKeeps
  <2>3. CASE Begin(r) \/ LoadRules(r) \/ FetchFails(r) \/ Finish(r) \/ FinishFailed(r)
    BY <2>3, GoroutineKeeps
  <2>4. CASE FetchPage(r)
    BY <2>4, FetchPageKeeps
  <2>5. CASE \E w \in ReconWorkers : \/ \E fault \in BOOLEAN : Take(r, w, fault)
                                \/ RecordMatches(r, w) \/ RecordUnmatched(r, w)
                                \/ RecordFails(r, w) \/ Count(r, w)
    BY <2>5, TakeKeeps, RecordMatchesKeeps, RecordUnmatchedKeeps, RecordFailsKeeps, CountKeeps
  <2>6. QED
    BY <2>1, <2>2, <2>3, <2>4, <2>5 DEF ReconStep
<1>2. CASE Crash
  BY <1>2, ReconCrashKeeps
<1>3. QED
  BY <1>1, <1>2, AroundKeeps DEF ReconNext

\* It holds before anything is asked for.
LEMMA ReconInitially ==
  ASSUME ReconInit
  PROVE  RecStrong
<1>1. RulesOK
  BY DEF ReconInit, RulesOK
<1>2. Whole(recon) /\ Whole(run) /\ Whole(work) /\ saved \in [Recons -> Nat]
  BY DEF ReconInit, Whole
<1>3. NoRow \in ReconFields /\ NoRow.status = "none"
  <2>1. (CHOOSE u \in DOMAIN Uploads : TRUE) \in DOMAIN Uploads
    BY ReconAssumption
  <2>2. QED
    BY <2>1 DEF NoRow, ReconFields, Strategies
<1>4. /\ NoRun \in RunFields /\ NoRun.stage = "off" /\ NoRun.processed = 0 /\ NoRun.jobs = <<>>
      /\ NoRun.fetched = {} /\ NoRun.matched = 0 /\ NoRun.unmatched = 0 /\ ~NoRun.failed
  <2>1. 0 \in Offsets
    <3>1. Len(Internals) \in Nat
      BY RowsAreItems
    <3>2. QED
      BY <3>1 DEF Offsets
  <2>2. QED
    BY <2>1 DEF NoRun, RunFields
<1>5. PICK k : k = [w \in ReconWorkers |-> Idle]
  OBVIOUS
<1>6. k \in [ReconWorkers -> WorkFields] /\ \A w \in ReconWorkers : ~Busy(k, w)
  BY <1>5 DEF Idle, WorkFields, Busy
<1>7. ASSUME NEW r \in Recons
      PROVE  /\ saved[r] <= run[r].processed
             /\ RunOK(r, recon[r], run[r], work[r], MatchesOf(r), UnmatchedOf(r))
  <2>1. /\ recon[r] = NoRow /\ run[r] = NoRun /\ work[r] = k /\ saved[r] = 0
        /\ MatchesOf(r) = {} /\ UnmatchedOf(r) = {}
    BY <1>5 DEF ReconInit, MatchesOf, UnmatchedOf
  <2>2. RunOK(r, NoRow, NoRun, k, {}, {})
    BY ONLY <1>3, <1>4, <1>6 DEF RunOK
  <2>3. QED
    BY <1>4, <2>1, <2>2
<1>8. CacheOK /\ MarksOK
  BY DEF ReconInit, CacheOK, MarksOK
<1>9. QED
  BY <1>1, <1>2, <1>7, <1>8 DEF RecStrong, RunsOK

\* It says what reconciliations keep.
LEMMA ReconHolds ==
  ASSUME RecStrong
  PROVE  ReconInv
<1>1. ReconTypeOK
  <2>1. ASSUME NEW r \in Recons
        PROVE  /\ recon[r].status \in {"none", "started", "in_progress", "completed", "failed"}
               /\ recon[r].matched \in Nat /\ recon[r].unmatched \in Nat
               /\ run[r].stage \in {"off", "begin", "rules", "work", "returned", "over"}
               /\ run[r].fetch \in {"on", "ended", "failed"} /\ run[r].offset \in Offsets
               /\ saved[r] <= run[r].processed
               /\ \A w \in ReconWorkers : work[r][w].stage \in {"idle", "match", "unmatch", "count", "hung", "stopped"}
    <3>1. recon[r] \in ReconFields /\ run[r] \in RunFields /\ work[r] \in [ReconWorkers -> WorkFields]
      BY RunEntry
    <3>2. saved[r] <= run[r].processed
      BY DEF RecStrong, RunsOK
    <3>3. QED
      BY <3>1, <3>2 DEF ReconFields, RunFields, WorkFields
  <2>2. QED
    BY <2>1 DEF ReconTypeOK, RecStrong, RulesOK
<1>2. CountsMatchRows
  <2>1. ASSUME NEW r \in Recons, recon[r].status = "completed", ~recon[r].dry
        PROVE  /\ recon[r].matched = Cardinality({m \in matches : m[1] = r})
               /\ recon[r].unmatched = Cardinality({u \in unmatched : u[1] = r})
    <3>1. recon[r].matched = Cardinality(MatchesOf(r)) /\ recon[r].unmatched = Cardinality(UnmatchedOf(r))
      BY <2>1, RunEntry DEF RunOK
    <3>2. QED
      BY <3>1 DEF MatchesOf, UnmatchedOf
  <2>2. QED
    BY <2>1 DEF CountsMatchRows
<1>3. DecidedExactlyOnce
  <2>1. ASSUME NEW r \in Recons, recon[r].status = "completed", ~recon[r].dry,
               recon[r].strategy = "one_to_one", ~run[r].lost, NEW e \in run[r].fetched
        PROVE  (\E m \in matches : m[1] = r /\ m[2] = e) # (<<r, e>> \in unmatched)
    <3>1. Once(r, MatchesOf(r), UnmatchedOf(r), e)
      BY <2>1, RunEntry DEF RunOK
    <3>2. (\E m \in MatchesOf(r) : m[2] = e) <=> (\E m \in matches : m[1] = r /\ m[2] = e)
      BY DEF MatchesOf
    <3>3. (<<r, e>> \in UnmatchedOf(r)) <=> (<<r, e>> \in unmatched)
      BY DEF UnmatchedOf
    <3>4. QED
      BY <3>1, <3>2, <3>3 DEF Once
  <2>2. QED
    BY <2>1 DEF DecidedExactlyOnce
<1>4. MarksHaveMatches
  BY DEF RecStrong, MarksOK, MarksHaveMatches
<1>5. QED
  BY <1>1, <1>2, <1>3, <1>4 DEF ReconInv

\* For any uploads and ledger, and any number of rules, reconciliations and
\* workers, whatever query fails and whenever the process dies: a completed
\* reconciliation reports as many matched and unmatched transactions as it
\* recorded, one to one has decided each transaction it fetched exactly once,
\* and a ledger transaction is marked only for a match on record
\* (transactionProcessor, oneToOneReconciliation, finalizeReconciliation,
\* updateMatchedTransactionsMetadata).
THEOREM ReconKept == ReconSpec => []ReconInv
<1>1. ReconInit => RecStrong
  BY ReconInitially
<1>2. RecStrong /\ [ReconNext]_reconVars => RecStrong'
  BY ReconKeeps
<1>3. RecStrong => ReconInv
  BY ReconHolds
<1>4. QED
  BY <1>1, <1>2, <1>3, PTL DEF ReconSpec
==============================================================================
