----------------------------- MODULE SearchIndex -----------------------------
(***************************************************************************)
(* The search index (internal/search, api/reindex.go) beside the database  *)
(* it copies.  After a change has committed, a goroutine queues an index   *)
(* task with the rows as they were; workers upsert them, a transaction     *)
(* after its balance.  A refused call or a crash loses the task.  A        *)
(* reindex drops the collections, creates them and upserts every row, page *)
(* by page, newest first.  Rows carry a version, documents the version     *)
(* they were made from; 0 stands for none.  Rejected transactions, whose   *)
(* tasks carry no balance, are left out.                                   *)
(*                                                                         *)
(* `missed', `overtaken', `early' and `broken' are history: the rows with  *)
(* a change that no task carries and no current document since, the        *)
(* documents that an older row was written over, the transactions that a   *)
(* reindex wrote before their balance, and whether a reindex failed.       *)
(***************************************************************************)
EXTENDS Naturals, Sequences, FiniteSets

CONSTANTS Balances, Transfers,  \* ids of the rows of two collections
          BalanceOf,            \* the balance each transfer refers to
          Indexers,             \* workers of the index queue
          Runs,                 \* reindex runs
          NoRun,
          Starts,               \* balances that exist and runs that are over at first
          BatchSize,            \* rows of a page
          MaxVersion,           \* bound on changes of a balance
          MaxMishaps            \* bound on failed calls and crashes

VARIABLES table,      \* rows of each collection, newest first
          version,    \* version of each row
          unread,     \* metadata updates whose goroutine has not read the row yet
          sending,    \* index tasks that a goroutine has yet to enqueue
          queue,      \* index tasks
          indexer,    \* the task each worker holds, and what is left of it
          collection, \* the collections that exist
          docs,       \* the documents
          run,        \* reindex services
          service,    \* the one the API's manager remembers
          missed, overtaken, early, broken, mishaps

searchVars == <<table, version, unread, sending, queue, indexer, collection, docs, run, service,
                missed, overtaken, early, broken, mishaps>>

SearchAssumption ==
  /\ Balances \cap Transfers = {} /\ IsFiniteSet(Balances) /\ IsFiniteSet(Transfers)
  /\ BalanceOf \in [Transfers -> Balances]
  /\ BatchSize \in Nat \ {0} /\ MaxVersion \in Nat \ {0}
  /\ \A s \in Starts : s.old \in Seq(Balances) /\ Len(s.old) = Cardinality({s.old[k] : k \in DOMAIN s.old})

Ids == Balances \cup Transfers
Collections == {"balances", "transactions"}
CollectionOf(i) == IF i \in Balances THEN "balances" ELSE "transactions"
Item(i) == [id |-> i, version |-> version[i]]

NotStarted == [status |-> "none", phase |-> "starting", offset |-> 0, page |-> <<>>]
Busy == [items |-> <<>>, left |-> <<>>]
Active(r) == run[r].status \in {"pending", "in_progress"}

SearchInit ==
  \E s \in Starts :
    LET existing == {s.old[k] : k \in DOMAIN s.old}
    IN /\ table = [c \in Collections |-> IF c = "balances" THEN s.old ELSE <<>>]
       /\ version = [i \in Ids |-> IF i \in existing THEN MaxVersion ELSE 0]
       /\ unread = {} /\ sending = {} /\ queue = {}
       /\ indexer = [w \in Indexers |-> Busy]
       /\ collection = IF existing = {} THEN {} ELSE Collections
       /\ docs = version
       /\ run = [r \in Runs |-> IF r \in s.over THEN [NotStarted EXCEPT !.status = "completed", !.phase = "done"]
                                ELSE NotStarted]
       /\ service = NoRun
       /\ missed = {} /\ overtaken = {} /\ early = {} /\ broken = FALSE /\ mishaps = 0

indexVars == <<collection, docs, overtaken, early, broken>>
runVars == <<run, service>>

Mishap == mishaps < MaxMishaps /\ mishaps' = mishaps + 1
IdsOf(task) == {task[k].id : k \in DOMAIN task}

(***************************************************************************)
(* Changes of the database and the tasks they leave to goroutines.         *)
(***************************************************************************)

\* postBalanceActions, after the insert.
CreateBalance(b) ==
  /\ version[b] = 0
  /\ version' = [version EXCEPT ![b] = 1]
  /\ table' = [table EXCEPT !["balances"] = <<b>> \o @]
  /\ sending' = sending \cup {<<[id |-> b, version |-> 1]>>}
  /\ UNCHANGED <<unread, queue, missed, indexer, indexVars, runVars, mishaps>>

\* A transaction commits: its balance changes, and one batch carries both,
\* the balance as a dependency.
PostTransactionActions(t) ==
  LET b == BalanceOf[t]
  IN /\ version[t] = 0 /\ version[b] \in 1 .. MaxVersion - 1
     /\ version' = [version EXCEPT ![t] = 1, ![b] = @ + 1]
     /\ table' = [table EXCEPT !["transactions"] = <<t>> \o @]
     /\ sending' = sending \cup {<<[id |-> b, version |-> version[b] + 1], [id |-> t, version |-> 1]>>}
     /\ UNCHANGED <<unread, queue, missed, indexer, indexVars, runVars, mishaps>>

\* A QUEUED row is written, and nothing is queued for the index.
RecordQueued(t) ==
  /\ version[t] = 0 /\ version[BalanceOf[t]] > 0
  /\ version' = [version EXCEPT ![t] = 1]
  /\ table' = [table EXCEPT !["transactions"] = <<t>> \o @]
  /\ missed' = missed \cup {t}
  /\ UNCHANGED <<unread, sending, queue, indexer, indexVars, runVars, mishaps>>

\* The goroutine enqueues its task...
Enqueue(task) ==
  /\ task \in sending /\ sending' = sending \ {task}
  /\ queue' = queue \cup {task}
  /\ UNCHANGED <<table, version, unread, missed, indexer, indexVars, runVars, mishaps>>

\* ...or is refused, or dies before it gets to it; nobody tries again.
EnqueueFails(task) ==
  /\ task \in sending /\ sending' = sending \ {task}
  /\ Mishap
  /\ missed' = missed \cup IdsOf(task)
  /\ UNCHANGED <<table, version, unread, queue, indexer, indexVars, runVars>>

\* UpdateMetadata writes the row and leaves the rest to a goroutine...
UpdateMetadata(b) ==
  /\ version[b] \in 1 .. MaxVersion - 1
  /\ version' = [version EXCEPT ![b] = @ + 1]
  /\ unread' = unread \cup {b}
  /\ UNCHANGED <<table, sending, queue, missed, indexer, indexVars, runVars, mishaps>>

\* ...which reads it again and queues what it finds, unless the read or the
\* call fails or the process dies.
QueueIndexData(b) ==
  /\ b \in unread /\ unread' = unread \ {b}
  /\ \/ queue' = queue \cup {<<Item(b)>>} /\ UNCHANGED <<missed, mishaps>>
     \/ Mishap /\ missed' = missed \cup {b} /\ UNCHANGED queue
  /\ UNCHANGED <<table, version, sending, indexer, indexVars, runVars>>

(***************************************************************************)
(* The workers.                                                            *)
(***************************************************************************)

\* HandleBatchNotification: dependencies first.
InOrder(task) == task

\* A task is taken: EnsureCollectionsExist.
IndexData(w, task) ==
  /\ indexer[w] = Busy /\ task \in queue
  /\ queue' = queue \ {task}
  /\ indexer' = [indexer EXCEPT ![w] = [items |-> task, left |-> InOrder(task)]]
  /\ collection' = Collections
  /\ UNCHANGED <<table, version, unread, sending, docs, missed, overtaken, early, broken, runVars, mishaps>>

\* upsertDocument replaces whatever is there, newer or not; a row that was
\* missed is made up for by a document of the row as it is.
UpsertDocument(item) ==
  /\ CollectionOf(item.id) \in collection
  /\ docs' = [docs EXCEPT ![item.id] = item.version]
  /\ missed' = IF item.version = version[item.id] THEN missed \ {item.id} ELSE missed
  /\ overtaken' = IF docs[item.id] > item.version THEN overtaken \cup {item.id} ELSE overtaken

HandleNotification(w) ==
  LET left == indexer[w].left
  IN /\ left # <<>>
     /\ UpsertDocument(Head(left))
     /\ indexer' = [indexer EXCEPT ![w] = IF Len(left) = 1 THEN Busy ELSE [@ EXCEPT !.left = Tail(left)]]
     /\ UNCHANGED <<table, version, unread, sending, queue, collection, early, broken, runVars, mishaps>>

\* The collection is gone, the call fails or the worker dies: asynq runs the
\* task again, and when its retries are used up archives it.
IndexingFails(w) ==
  LET left == indexer[w].left
      dropped == left # <<>> /\ CollectionOf(Head(left).id) \notin collection
  IN /\ left # <<>>
     /\ \/ /\ (dropped /\ UNCHANGED mishaps) \/ Mishap
           /\ queue' = queue \cup {indexer[w].items} /\ UNCHANGED missed
        \/ /\ Mishap
           /\ missed' = missed \cup IdsOf(left) /\ UNCHANGED queue
     /\ indexer' = [indexer EXCEPT ![w] = Busy]
     /\ UNCHANGED <<table, version, unread, sending, indexVars, runVars>>

(***************************************************************************)
(* Reindexing.                                                             *)
(***************************************************************************)
taskVars == <<unread, sending, queue, indexer>>
dbVars == <<table, version, taskVars, missed>>

Advance(r, changes) == run' = [run EXCEPT ![r] = changes]
Phase(r, p) == Advance(r, [run[r] EXCEPT !.phase = p, !.offset = 0, !.page = <<>>])

\* StartReindex (the handler): refused while the remembered service is in
\* progress; a service that has yet to start does not count.
RequestReindex(r) ==
  /\ run[r] = NotStarted
  /\ service # NoRun => run[service].status # "in_progress"
  /\ Advance(r, [NotStarted EXCEPT !.status = "pending"])
  /\ service' = r
  /\ UNCHANGED <<dbVars, indexVars, mishaps>>

\* TryReindexIfNeeded: at start-up, rows and no transaction documents.
TryReindexIfNeeded(r) ==
  /\ run[r] = NotStarted
  /\ \E i \in Ids : version[i] > 0
  /\ "transactions" \in collection /\ \A t \in Transfers : docs[t] = 0
  /\ Advance(r, [NotStarted EXCEPT !.status = "pending"])
  /\ UNCHANGED <<dbVars, indexVars, service, mishaps>>

StartReindex(r) ==
  /\ run[r].status = "pending"
  /\ Advance(r, [run[r] EXCEPT !.status = "in_progress", !.phase = "drop_balances"])
  /\ UNCHANGED <<dbVars, indexVars, service, mishaps>>

\* DropAllCollections, one after the other.
DropCollection(r) ==
  \E c \in Collections :
    /\ run[r].phase = IF c = "balances" THEN "drop_balances" ELSE "drop_transactions"
    /\ collection' = collection \ {c}
    /\ docs' = [i \in Ids |-> IF CollectionOf(i) = c THEN 0 ELSE docs[i]]
    /\ Phase(r, IF c = "balances" THEN "drop_transactions" ELSE "create")
    /\ UNCHANGED <<dbVars, overtaken, early, broken, service, mishaps>>

CreateCollections(r) ==
  /\ run[r].phase = "create"
  /\ collection' = Collections
  /\ Phase(r, "balances")
  /\ UNCHANGED <<dbVars, docs, overtaken, early, broken, service, mishaps>>

\* The rows after an offset, by created_at, newest first.
Page(c, offset) == SubSeq(table[c], offset + 1,
                          IF offset + BatchSize < Len(table[c]) THEN offset + BatchSize ELSE Len(table[c]))

\* Faulty: the offset moves one row too far.
ReadPageAhead(r) ==
  LET c == run[r].phase
      ids == Page(c, run[r].offset)
  IN /\ c \in Collections /\ run[r].page = <<>>
     /\ run[r].offset < Len(table[c])
     /\ Advance(r, [run[r] EXCEPT !.page = [k \in DOMAIN ids |-> Item(ids[k])],
                                  !.offset = @ + Len(ids) + 1])
     /\ UNCHANGED <<dbVars, indexVars, service, mishaps>>

\* indexBalances, indexTransactions: read a page...
ReadPage(r) ==
  LET c == run[r].phase
      ids == Page(c, run[r].offset)
  IN /\ c \in Collections /\ run[r].page = <<>>
     /\ run[r].offset < Len(table[c])
     /\ Advance(r, [run[r] EXCEPT !.page = [k \in DOMAIN ids |-> Item(ids[k])],
                                  !.offset = @ + Len(ids)])
     /\ UNCHANGED <<dbVars, indexVars, service, mishaps>>

\* ...and upsert its rows; a row that fails is an error of the run, which goes
\* on: the collection is gone, or the call fails.
IndexRow(r) ==
  LET item == Head(run[r].page)
  IN /\ run[r].page # <<>>
     /\ \/ UpsertDocument(item) /\ UNCHANGED <<broken, mishaps>>
        \/ /\ (CollectionOf(item.id) \notin collection /\ UNCHANGED mishaps) \/ Mishap
           /\ broken' = TRUE /\ UNCHANGED <<docs, missed, overtaken>>
     /\ early' = IF item.id \in Transfers /\ docs[BalanceOf[item.id]] = 0 THEN early \cup {item.id} ELSE early
     /\ Advance(r, [run[r] EXCEPT !.page = Tail(@)])
     /\ UNCHANGED <<table, version, taskVars, collection, service>>

\* An empty page ends a collection, and the last one the run.
EndOfTable(r) ==
  /\ run[r].phase \in Collections /\ run[r].page = <<>>
  /\ run[r].offset >= Len(table[run[r].phase])
  /\ IF run[r].phase = "balances" THEN Phase(r, "transactions")
     ELSE Advance(r, [run[r] EXCEPT !.status = "completed", !.phase = "done"])
  /\ UNCHANGED <<dbVars, indexVars, service, mishaps>>

\* failWithError, or the process dies: what was dropped stays dropped.
FailWithError(r) ==
  /\ run[r].status = "in_progress"
  /\ Mishap
  /\ Advance(r, [run[r] EXCEPT !.status = "failed", !.phase = "done", !.page = <<>>])
  /\ broken' = TRUE
  /\ UNCHANGED <<dbVars, collection, docs, overtaken, early, service>>

Reindex(r) ==
  \/ RequestReindex(r) \/ TryReindexIfNeeded(r) \/ StartReindex(r) \/ DropCollection(r)
  \/ CreateCollections(r) \/ ReadPage(r) \/ IndexRow(r) \/ EndOfTable(r) \/ FailWithError(r)

SearchNext ==
  \/ \E b \in Balances : CreateBalance(b) \/ UpdateMetadata(b) \/ QueueIndexData(b)
  \/ \E t \in Transfers : PostTransactionActions(t) \/ RecordQueued(t)
  \/ \E task \in sending : Enqueue(task) \/ EnqueueFails(task)
  \/ \E w \in Indexers : (\E task \in queue : IndexData(w, task)) \/ HandleNotification(w) \/ IndexingFails(w)
  \/ \E r \in Runs : Reindex(r)

SearchSpec == SearchInit /\ [][SearchNext]_searchVars

Items == [id : Ids, version : 1 .. MaxVersion]

\* Type invariant; the table lists the rows that exist, each once, and a run
\* has read no further than the rows it was offered.
SearchTypeOK ==
  /\ \A c \in Collections :
       /\ \A k \in DOMAIN table[c] : CollectionOf(table[c][k]) = c
       /\ Len(table[c]) = Cardinality({i \in Ids : CollectionOf(i) = c /\ version[i] > 0})
  /\ version \in [Ids -> 0 .. MaxVersion] /\ docs \in [Ids -> 0 .. MaxVersion]
  /\ unread \subseteq Balances
  /\ \A task \in sending \cup queue : \A k \in DOMAIN task : task[k] \in Items
  /\ \A w \in Indexers : Len(indexer[w].left) <= Len(indexer[w].items)
  /\ collection \subseteq Collections
  /\ \A i \in Ids : docs[i] <= version[i]
  /\ \A i \in Ids : docs[i] > 0 => CollectionOf(i) \in collection
  /\ \A r \in Runs : run[r].phase \in Collections => run[r].offset <= Len(table[run[r].phase])
  /\ service \in Runs \cup {NoRun} /\ missed \cup overtaken \subseteq Ids
  /\ early \subseteq Transfers /\ broken \in BOOLEAN

NoRunActive == \A r \in Runs : ~Active(r)
Quiet == NoRunActive /\ unread = {} /\ sending = {} /\ queue = {} /\ \A w \in Indexers : indexer[w] = Busy

\* When nothing is left to index, every row has its document, made from the
\* row as it is: a reindex that pages by offset under concurrent inserts, and
\* drops what the workers have just written, loses none, and makes up for the
\* changes whose task was lost.  The exceptions are such a change until its row
\* is written again, a document that an older copy was written over, and a
\* reindex that failed.
IndexIsComplete ==
  Quiet /\ ~broken => \A i \in Ids \ (missed \cup overtaken) : docs[i] = version[i]

\* Outside a reindex, a transaction's document refers to a balance's document:
\* batches and reindexing both write balances first.  A reindex that had done
\* with the balances when this one was created writes the transaction early.
ReferencesResolve ==
  NoRunActive /\ ~broken => \A t \in Transfers \ early : docs[t] > 0 => docs[BalanceOf[t]] > 0

\* What index workers and reindex runs keep.
SearchInv == SearchTypeOK /\ IndexIsComplete /\ ReferencesResolve
=============================================================================
