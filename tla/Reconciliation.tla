---------------------------- MODULE Reconciliation ----------------------------
(***************************************************************************)
(* Reconciliation of uploaded external transactions with the ledger's own  *)
(* (reconciliation.go): the three strategies and the runs, whose worker    *)
(* goroutines share counters, a page cache and a fetch that may fail while *)
(* they work.  The process may die at any time.  The rules are those of    *)
(* Matching.  The ledger does not grow during a run, and dates differ.     *)
(***************************************************************************)
EXTENDS Integers, Sequences, FiniteSets, FiniteSetsExt, Matching

CONSTANTS
  Uploads,       \* upload id -> its rows, latest first
  Internals,     \* the ledger's transactions, oldest first
  RuleVersions,  \* the rules clients send: sets of criteria
  RuleIds,       \* the rules every reconciliation is asked to use
  NoRule,        \* a rule id without a row
  Recons,        \* reconciliations
  Requests,      \* what may be asked for: [upload, strategy, dry]
  ReconWorkers,  \* the goroutines of one run
  NoItem,        \* an idle worker's transaction
  PageSize,      \* transaction.batch_size
  MatchWorkers,  \* transaction.max_workers of one search
  ProgressInterval,
  MaxMishaps     \* bound: failures, crashes and rule changes

VARIABLES
  rules,         \* blnk.matching_rules
  recon,         \* blnk.reconciliations
  matches,       \* blnk.matches: <<reconciliation, external, internal>>
  unmatched,     \* blnk.unmatched: <<reconciliation, id>>
  saved,         \* blnk.reconciliation_progress: the processed count
  marking,       \* metadata updates of matched transactions under way
  marked,        \* what the metadata of each ledger transaction says
  cache,         \* the cached page of external transactions, by offset
  run,           \* the goroutine of each reconciliation
  work,          \* its workers
  mishaps

rowVars == <<recon, matches, unmatched, saved, marking, marked>>
reconVars == <<rules, rowVars, cache, run, work, mishaps>>

Strategies == {"one_to_one", "one_to_many", "many_to_one"}
Rows == DOMAIN Internals
IdsOf(rows) == {rows[n].id : n \in DOMAIN rows}
Offsets == (0 .. Len(Internals)) \cup UNION {0 .. Len(Uploads[u]) : u \in DOMAIN Uploads}

\* The id of an external transaction is the primary key of its table, as that of
\* a ledger transaction is; page size, workers and interval are positive.
ASSUME ReconAssumption ==
  /\ DOMAIN Uploads # {} /\ ReconWorkers # {}
  /\ \A u \in DOMAIN Uploads : Uploads[u] \in Seq({Uploads[u][n] : n \in DOMAIN Uploads[u]})
  /\ Internals \in Seq({Internals[n] : n \in DOMAIN Internals})
  /\ \A u, v \in DOMAIN Uploads : \A n \in DOMAIN Uploads[u], m \in DOMAIN Uploads[v] :
       Uploads[u][n].id = Uploads[v][m].id => u = v /\ n = m
  /\ \A n, m \in DOMAIN Internals : Internals[n].id = Internals[m].id => n = m
  /\ Requests \subseteq [upload : DOMAIN Uploads, strategy : Strategies, dry : BOOLEAN]
  /\ {PageSize, MatchWorkers, ProgressInterval} \subseteq Nat \ {0} /\ MaxMishaps \in Nat

------------------------------------------------------------------------------
\* What reconciling one transaction can come to.
Outcome(pairs, n, hung) == [matches |-> pairs, unmatched |-> n, hung |-> hung]

\* findMatchingInternalTransaction: each worker of the search stops at its
\* first match; nothing keeps a ledger transaction to one external one.
Fits(e, rs) == {n \in Rows : /\ Candidate(e, Internals[n], rs)
                             /\ MatchesRules(e, Single(Internals[n]), rs)}

OneToOne(e, rs) ==
  LET fits == Fits(e, rs) IN
  IF fits = {} THEN {Outcome({}, 1, FALSE)}
  ELSE {Outcome({<<e.id, Internals[n].id>> : n \in S}, 0, FALSE) :
          S \in kSubset(Min({Cardinality(fits), MatchWorkers}), fits)}

\* The search fails after some pages: what it sent stays, and the transaction
\* is unmatched as well.
OneToOneFails(e, rs) ==
  {Outcome({<<e.id, Internals[n].id>> : n \in S}, 1, FALSE) :
     S \in {T \in SUBSET Fits(e, rs) : Cardinality(T) <= MatchWorkers}}

\* GroupTransactions and FetchAndGroupExternalTransactions: pages of the rows
\* that have a key, in its order, each grouped for itself.
GroupPages(rows) ==
  LET keyed == {t \in {rows[n] : n \in DOMAIN rows} : t.group # 0}
      before(t) == {s \in keyed : s.group < t.group \/ (s.group = t.group /\ s.id < t.id)}
      page(p) == {t \in keyed : Cardinality(before(t)) \div PageSize = p - 1}
  IN [p \in 1 .. (Cardinality(keyed) + PageSize - 1) \div PageSize |->
        {{t \in page(p) : t.group = k} : k \in {t.group : t \in page(p)}}]

\* The first n pages: on each, the transaction takes one group that fits, or
\* is unmatched.  unMatchChan takes one entry and is read only after all
\* pages: a second entry blocks for ever.
GroupOutcomes(e, rs, pages, n, external) ==
  LET fitting(p) == {g \in pages[p] : MatchesRules(e, Group(g), rs)}
      open == {p \in 1 .. n : fitting(p) = {}}
      choices == {f \in [(1 .. n) \ open -> UNION {fitting(p) : p \in 1 .. n}] :
                    \A p \in DOMAIN f : f[p] \in fitting(p)}
      pair(t) == IF external THEN <<t.id, e.id>> ELSE <<e.id, t.id>>
  IN {Outcome({pair(t) : t \in UNION {f[p] : p \in DOMAIN f}},
              IF n = 0 THEN 1 ELSE Cardinality(open), Cardinality(open) > 1) : f \in choices}

\* The pages end when they are used up, when a query fails, or when the only
\* group of a page was taken before the loop looks at the map.
Ended(e, rs, pages, n) ==
  \/ n = Len(pages)
  \/ n > 0 /\ Cardinality(pages[n]) = 1 /\ \A g \in pages[n] : MatchesRules(e, Group(g), rs)

GroupsOf(r) ==
  GroupPages(IF recon[r].strategy = "one_to_many" THEN Internals ELSE Uploads[recon[r].upload])

\* oneToManyReconciliation and manyToOneReconciliation.
GroupedReconciliation(r, e, fault) ==
  LET rs == run[r].rules
      pages == GroupsOf(r)
  IN UNION {GroupOutcomes(e, rs, pages, n, recon[r].strategy = "many_to_one") :
              n \in {m \in 0 .. Len(pages) : fault \/ Ended(e, rs, pages, m)}}

\* createReconciler: by strategy.
Outcomes(r, e, fault) ==
  CASE recon[r].strategy # "one_to_one" -> GroupedReconciliation(r, e, fault)
    [] recon[r].strategy = "one_to_one" /\ fault -> OneToOneFails(e, run[r].rules)
    [] OTHER -> OneToOne(e, run[r].rules)

------------------------------------------------------------------------------
NoRow == [status |-> "none", upload |-> CHOOSE u \in DOMAIN Uploads : TRUE,
          strategy |-> "one_to_one", dry |-> FALSE, matched |-> 0, unmatched |-> 0]
NoRun == [stage |-> "off", rules |-> {}, offset |-> 0, fetch |-> "on", jobs |-> <<>>,
          fetched |-> {}, matched |-> 0, unmatched |-> 0, failed |-> FALSE, lost |-> FALSE,
          processed |-> 0]
Idle == [stage |-> "idle", item |-> NoItem, matches |-> {}, unmatched |-> 0]

ReconInit ==
  /\ rules = [i \in RuleIds |-> NoRule]
  /\ recon = [r \in Recons |-> NoRow]
  /\ matches = {} /\ unmatched = {}
  /\ saved = [r \in Recons |-> 0]
  /\ marking = {}
  /\ marked = [i \in IdsOf(Internals) |-> NoItem]
  /\ cache = [o \in Offsets |-> <<>>]
  /\ run = [r \in Recons |-> NoRun]
  /\ work = [r \in Recons |-> [w \in ReconWorkers |-> Idle]]
  /\ mishaps = 0

Mishap == mishaps < MaxMishaps /\ mishaps' = mishaps + 1
Same == UNCHANGED mishaps

CreateMatchingRule(i, rule) ==
  /\ rules[i] = NoRule /\ ValidateRule(rule)
  /\ rules' = [rules EXCEPT ![i] = rule]
  /\ UNCHANGED <<rowVars, cache, run, work, mishaps>>

UpdateMatchingRule(i, rule) ==
  /\ rules[i] # NoRule /\ ValidateRule(rule) /\ Mishap
  /\ rules' = [rules EXCEPT ![i] = rule]
  /\ UNCHANGED <<rowVars, cache, run, work>>

DeleteMatchingRule(i) ==
  /\ rules[i] # NoRule /\ Mishap
  /\ rules' = [rules EXCEPT ![i] = NoRule]
  /\ UNCHANGED <<rowVars, cache, run, work>>

\* UpdateReconciliationStatus: the status and the counts, whatever they were.
SetStatus(r, status, m, u) ==
  recon' = [recon EXCEPT ![r].status = status, ![r].matched = m, ![r].unmatched = u]

Asked(r, q, status) ==
  recon' = [recon EXCEPT ![r] = [NoRow EXCEPT !.status = status, !.upload = q.upload,
                                              !.strategy = q.strategy, !.dry = q.dry]]

\* StartReconciliation, and StartInstantReconciliation once its rows are
\* stored as an upload of their own.
StartReconciliation(r, q) ==
  /\ recon[r].status = "none"
  /\ Asked(r, q, "started")
  /\ run' = [run EXCEPT ![r].stage = "begin"]
  /\ UNCHANGED <<rules, matches, unmatched, saved, marking, marked, cache, work, mishaps>>

\* An instant reconciliation one of whose rows cannot be stored.
StoreFails(r, q) ==
  /\ recon[r].status = "none" /\ Mishap
  /\ Asked(r, q, "failed")
  /\ UNCHANGED <<rules, matches, unmatched, saved, marking, marked, cache, run, work>>

\* processReconciliation: the status, the rules, then the transactions.
Begin(r) ==
  /\ run[r].stage = "begin"
  /\ SetStatus(r, "in_progress", 0, 0)
  /\ run' = [run EXCEPT ![r].stage = "rules"]
  /\ UNCHANGED <<rules, matches, unmatched, saved, marking, marked, cache, work, mishaps>>

LoadRules(r) ==
  /\ run[r].stage = "rules"
  /\ IF \E i \in RuleIds : rules[i] = NoRule
     THEN /\ SetStatus(r, "failed", 0, 0)
          /\ run' = [run EXCEPT ![r].stage = "over"]
     ELSE /\ run' = [run EXCEPT ![r].stage = "work", ![r].rules = {rules[i] : i \in RuleIds}]
          /\ UNCHANGED recon
  /\ UNCHANGED <<rules, matches, unmatched, saved, marking, marked, cache, work, mishaps>>

------------------------------------------------------------------------------
PageOf(rows, offset) ==
  SubSeq(rows, offset + 1, Min({offset + PageSize, Len(rows)}))

Fetching(r) == run[r].stage \in {"work", "returned"} /\ run[r].fetch = "on"

\* fetchTransactions with getInternalTransactionsPaginated, or with
\* getExternalTransactionsPaginated, whose cached page is looked up by its
\* offset only.
FetchPage(r) ==
  LET offset == run[r].offset
      external == recon[r].strategy # "many_to_one"
      page == CASE ~external -> PageOf(Internals, offset)
                [] external /\ cache[offset] # <<>> -> cache[offset]
                [] OTHER -> PageOf(Uploads[recon[r].upload], offset)
  IN
  /\ Fetching(r)
  /\ run' = IF page = <<>> THEN [run EXCEPT ![r].fetch = "ended"]
            ELSE [run EXCEPT ![r].jobs = @ \o page, ![r].offset = @ + Len(page),
                             ![r].fetched = @ \cup IdsOf(page)]
  /\ cache' = IF external THEN [cache EXCEPT ![offset] = page] ELSE cache
  /\ UNCHANGED <<rules, rowVars, work, mishaps>>

FetchFails(r) ==
  /\ Fetching(r) /\ Mishap
  /\ run' = [run EXCEPT ![r].fetch = "failed"]
  /\ UNCHANGED <<rules, rowVars, cache, work>>

\* The cached page is five minutes old.
ExpireCache(o) ==
  /\ cache[o] # <<>>
  /\ cache' = [cache EXCEPT ![o] = <<>>]
  /\ UNCHANGED <<rules, rowVars, run, work, mishaps>>

------------------------------------------------------------------------------
\* Where a worker goes on: matches, then unmatched entries, then the count.
AfterMatches(o) == IF o.unmatched > 0 THEN "unmatch" ELSE "count"

Stage(r, o) ==
  IF o.hung THEN "hung"
  ELSE IF recon[r].dry THEN "count"
  ELSE IF o.matches # {} THEN "match"
  ELSE AfterMatches(o)

\* A worker takes a transaction and reconciles it; the counters are shared.
Take(r, w, fault) ==
  /\ run[r].stage \in {"work", "returned"}
  /\ work[r][w].stage = "idle" /\ run[r].jobs # <<>>
  /\ IF fault THEN Mishap ELSE Same
  /\ LET item == Head(run[r].jobs) IN
     \E o \in Outcomes(r, item, fault) :
       /\ run' = [run EXCEPT ![r].jobs = Tail(@), ![r].lost = @ \/ fault,
                    ![r].matched = @ + IF o.hung THEN 0 ELSE Cardinality(o.matches),
                    ![r].unmatched = @ + IF o.hung THEN 0 ELSE o.unmatched]
       /\ work' = [work EXCEPT ![r][w] =
                     [stage |-> Stage(r, o), item |-> item,
                      matches |-> o.matches, unmatched |-> o.unmatched]]
  /\ UNCHANGED <<rules, rowVars, cache>>

Goes(r, w, stage) == work' = [work EXCEPT ![r][w].stage = stage]

RecordMatches(r, w) ==
  LET new == {<<r, p[1], p[2]>> : p \in work[r][w].matches} IN
  /\ work[r][w].stage = "match"
  /\ matches' = matches \cup new
  /\ marking' = marking \cup new
  /\ Goes(r, w, AfterMatches(work[r][w]))
  /\ UNCHANGED <<rules, recon, unmatched, saved, marked, cache, run, mishaps>>

RecordUnmatched(r, w) ==
  /\ work[r][w].stage = "unmatch"
  /\ unmatched' = unmatched \cup {<<r, work[r][w].item.id>>}
  /\ Goes(r, w, "count")
  /\ UNCHANGED <<rules, recon, matches, saved, marking, marked, cache, run, mishaps>>

\* Faulty: the error is swallowed.
RecordFailsSilently(r, w) ==
  /\ work[r][w].stage \in {"match", "unmatch"} /\ Mishap
  /\ Goes(r, w, "count")
  /\ UNCHANGED <<rules, rowVars, cache, run>>

\* Either record fails: the worker reports the error and stops.
RecordFails(r, w) ==
  /\ work[r][w].stage \in {"match", "unmatch"} /\ Mishap
  /\ Goes(r, w, "stopped")
  /\ run' = [run EXCEPT ![r].failed = TRUE]
  /\ UNCHANGED <<rules, rowVars, cache>>

SaveReconciliationProgress(r, processed) == saved' = [saved EXCEPT ![r] = processed]

\* The transaction is processed; every so often the count is saved, or the
\* failure to save it logged.
Count(r, w) ==
  LET processed == run[r].processed + 1 IN
  /\ work[r][w].stage = "count"
  /\ run' = [run EXCEPT ![r].processed = processed]
  /\ IF processed % ProgressInterval = 0 THEN SaveReconciliationProgress(r, processed) ELSE UNCHANGED saved
  /\ work' = [work EXCEPT ![r][w] = Idle]
  /\ UNCHANGED <<rules, recon, matches, unmatched, marking, marked, cache, mishaps>>

\* updateMatchedTransactionsMetadata, in a goroutine of its own.
Mark(m) ==
  /\ m \in marking
  /\ marking' = marking \ {m}
  /\ marked' = [marked EXCEPT ![m[3]] = m[2]]
  /\ UNCHANGED <<rules, recon, matches, unmatched, saved, cache, run, work, mishaps>>

------------------------------------------------------------------------------
WorkersEnded(r) ==
  \A w \in ReconWorkers :
    \/ work[r][w].stage = "stopped"
    \/ work[r][w].stage = "idle" /\ run[r].fetch # "on" /\ run[r].jobs = <<>>

\* ProcessTransactionInBatches returns, and finalizeReconciliation.
Finish(r) ==
  /\ run[r].stage = "work" /\ WorkersEnded(r)
  /\ IF run[r].failed THEN SetStatus(r, "failed", 0, 0)
     ELSE SetStatus(r, "completed", run[r].matched, run[r].unmatched)
  /\ run' = [run EXCEPT ![r].stage = "over"]
  /\ UNCHANGED <<rules, matches, unmatched, saved, marking, marked, cache, work, mishaps>>

\* It returns at once when the fetch fails; the workers finish what is queued.
FinishFailed(r) ==
  /\ run[r].stage = "work" /\ run[r].fetch = "failed"
  /\ SetStatus(r, "failed", 0, 0)
  /\ run' = [run EXCEPT ![r].stage = "returned"]
  /\ UNCHANGED <<rules, matches, unmatched, saved, marking, marked, cache, work, mishaps>>

\* The process dies, with all its runs; nothing resumes them.
Crash ==
  /\ Mishap
  /\ run' = [r \in Recons |-> IF run[r].stage = "off" THEN run[r] ELSE [run[r] EXCEPT !.stage = "over"]]
  /\ work' = [r \in Recons |-> [w \in ReconWorkers |-> Idle]]
  /\ marking' = {}
  /\ UNCHANGED <<rules, recon, matches, unmatched, saved, marked, cache>>

ReconStep(r) ==
  \/ \E q \in Requests : StartReconciliation(r, q) \/ StoreFails(r, q)
  \/ Begin(r) \/ LoadRules(r) \/ FetchPage(r) \/ FetchFails(r) \/ Finish(r) \/ FinishFailed(r)
  \/ \E w \in ReconWorkers :
       \/ \E fault \in BOOLEAN : Take(r, w, fault)
       \/ RecordMatches(r, w) \/ RecordUnmatched(r, w) \/ RecordFails(r, w) \/ Count(r, w)

ReconNext ==
  \/ \E i \in RuleIds : \/ \E rule \in RuleVersions : CreateMatchingRule(i, rule) \/ UpdateMatchingRule(i, rule)
                        \/ DeleteMatchingRule(i)
  \/ \E r \in Recons : ReconStep(r)
  \/ \E m \in marking : Mark(m)
  \/ \E o \in Offsets : ExpireCache(o)
  \/ Crash

ReconSpec == ReconInit /\ [][ReconNext]_reconVars

------------------------------------------------------------------------------
\* The rows, runs and workers are well formed, and only valid rules are stored.
ReconTypeOK ==
  /\ \A i \in RuleIds : rules[i] = NoRule \/ ValidateRule(rules[i])
  /\ \A r \in Recons :
       /\ recon[r].status \in {"none", "started", "in_progress", "completed", "failed"}
       /\ recon[r].matched \in Nat /\ recon[r].unmatched \in Nat
       /\ run[r].stage \in {"off", "begin", "rules", "work", "returned", "over"}
       /\ run[r].fetch \in {"on", "ended", "failed"} /\ run[r].offset \in Offsets
       /\ saved[r] <= run[r].processed
       /\ \A w \in ReconWorkers : work[r][w].stage \in {"idle", "match", "unmatch", "count", "hung", "stopped"}

\* A completed reconciliation reports as many matched and unmatched
\* transactions as it recorded, whatever its workers counted at the same time
\* and whatever failed (transactionProcessor, finalizeReconciliation).
CountsMatchRows ==
  \A r \in Recons :
    recon[r].status = "completed" /\ ~recon[r].dry =>
      /\ recon[r].matched = Cardinality({m \in matches : m[1] = r})
      /\ recon[r].unmatched = Cardinality({u \in unmatched : u[1] = r})

\* A completed one-to-one reconciliation has decided each transaction that it
\* fetched: it is matched or unmatched and not both, unless a search failed
\* half way (oneToOneReconciliation).
DecidedExactlyOnce ==
  \A r \in Recons :
    /\ recon[r].status = "completed" /\ ~recon[r].dry
    /\ recon[r].strategy = "one_to_one" /\ ~run[r].lost
    => \A e \in run[r].fetched :
         (\E m \in matches : m[1] = r /\ m[2] = e) # (<<r, e>> \in unmatched)

\* A ledger transaction is marked as reconciled with an external one only if
\* that match is on record; a dry run and a failed record leave no mark
\* (updateMatchedTransactionsMetadata).
MarksHaveMatches ==
  \A i \in DOMAIN marked : marked[i] # NoItem => \E m \in matches : m[2] = marked[i] /\ m[3] = i

\* A reconciliation works on the transactions of the upload it was asked for
\* (GetExternalTransactionsPaginated).
ReconcilesItsUpload ==
  \A r \in Recons :
    recon[r].strategy # "many_to_one" => run[r].fetched \subseteq IdsOf(Uploads[recon[r].upload])

\* What reconciliations keep, whatever fails or dies.
ReconInv == ReconTypeOK /\ CountsMatchRows /\ DecidedExactlyOnce /\ MarksHaveMatches
==============================================================================
