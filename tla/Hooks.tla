-------------------------------- MODULE Hooks --------------------------------
(***************************************************************************)
(* Transaction hooks (internal/hooks) and webhook deliveries (webhooks.go).*)
(* A hook is one Redis key and a member of the set of its type; an edit    *)
(* changes the two in separate commands.  A transaction queues a task with *)
(* a copy of every active hook; the attempt that executes the task writes  *)
(* that copy back with its outcome.  asynq retries an attempt that returns *)
(* an error until the task's retries are spent.                            *)
(*                                                                         *)
(* `torn' is history: the hooks whose key and sets were written by         *)
(* overlapping edits, by an edit that died, or from an outdated copy.      *)
(***************************************************************************)
EXTENDS Naturals, FiniteSets

CONSTANTS HookIds,           \* ids of hooks
          Editors,           \* API calls that change hooks
          Tasks,             \* slots for queued deliveries
          NoHook, NoTask,
          RetryCounts,       \* retry counts a client may ask for
          MaxHookRetryCount, \* cap on a registered hook's retries
          DefaultRetries,    \* asynq's retries for a task without an option
          MaxEdits,          \* bound on edits begun
          MaxMishaps         \* bound on edits that die

VARIABLES registry,  \* the key of each hook, with the edit that wrote it
          listed,    \* the set of each type
          editor,    \* the edit each editor is in the middle of
          task,      \* queued deliveries
          torn, edits, mishaps

hookVars == <<registry, listed, editor, task, torn, edits, mishaps>>

ValidTypes == {"pre", "post"}
\* getTypeKey: whatever else a client calls a type has a set of its own.
Types == ValidTypes \cup {"other"}
\* A hook as it was registered, or as it was last updated.
HookRecords ==
  LET Hook(by, retries) == [type : Types, active : BOOLEAN, by : {by}, retries : retries,
                            edit : 1 .. MaxEdits, success : BOOLEAN]
  IN Hook("register", 0 .. MaxHookRetryCount) \cup Hook("update", RetryCounts)

HooksAssumption ==
  /\ RetryCounts \subseteq Nat
  /\ MaxHookRetryCount \in Nat /\ DefaultRetries \in Nat /\ MaxEdits \in Nat /\ MaxMishaps \in Nat
  /\ NoHook \notin HookIds \cup HookRecords
  /\ NoTask \notin [id : HookIds \cup {NoHook}, hook : HookRecords \cup {NoHook}, left : Nat]

Resting == [at |-> "rest"]
Editing(h) == {e \in Editors : editor[e] # Resting /\ editor[e].id = h}
Becomes(e, s) == editor' = [editor EXCEPT ![e] = s]

HookInit ==
  /\ registry = [h \in HookIds |-> NoHook]
  /\ listed = [t \in Types |-> {}]
  /\ editor = [e \in Editors |-> Resting]
  /\ task = [k \in Tasks |-> NoTask]
  /\ torn = {} /\ edits = 0 /\ mishaps = 0

\* An edit of h begins: two that overlap may leave key and sets apart.
Begin(h) ==
  /\ edits < MaxEdits /\ edits' = edits + 1
  /\ torn' = IF Editing(h) # {} THEN torn \cup {h} ELSE torn

(***************************************************************************)
(* The registry.                                                           *)
(***************************************************************************)

\* validateHook caps the retry count.
ValidateHook(type, active, retries) ==
  [type |-> type, active |-> active, by |-> "register", edit |-> edits + 1, success |-> FALSE,
   retries |-> IF retries > MaxHookRetryCount THEN MaxHookRetryCount ELSE retries]

\* RegisterHook stores the key; an id that the client chose may be in use, and
\* is then a member of its old type's set as well.
RegisterHook(e, h, type, active, retries) ==
  /\ editor[e] = Resting /\ type \in ValidTypes
  /\ edits < MaxEdits /\ edits' = edits + 1
  /\ registry' = [registry EXCEPT ![h] = ValidateHook(type, active, retries)]
  /\ Becomes(e, [at |-> "add", id |-> h, type |-> type])
  /\ torn' = IF Editing(h) # {} \/ registry[h] # NoHook THEN torn \cup {h} ELSE torn
  /\ UNCHANGED <<listed, task, mishaps>>

\* ...and then adds it to the set of its type.
AddToType(e) ==
  /\ editor[e].at = "add"
  /\ listed' = [listed EXCEPT ![editor[e].type] = @ \cup {editor[e].id}]
  /\ Becomes(e, Resting)
  /\ UNCHANGED <<registry, task, torn, edits, mishaps>>

\* UpdateHook reads the hook; what the client sends is not validated, its
\* retry count included.
UpdateHook(e, h, type, active, retries) ==
  /\ editor[e] = Resting /\ registry[h] # NoHook
  /\ Begin(h)
  /\ Becomes(e, [at |-> IF registry[h].type # type THEN "move" ELSE "store", id |-> h,
                 old |-> registry[h].type,
                 new |-> [type |-> type, active |-> active, by |-> "update", retries |-> retries,
                          edit |-> edits + 1, success |-> registry[h].success]])
  /\ UNCHANGED <<registry, listed, task, mishaps>>

\* Faulty: a hook that changes its type stays in its old set.
RemoveFromTypeNever(e) ==
  /\ editor[e].at = "move"
  /\ Becomes(e, [editor[e] EXCEPT !.at = "join"])
  /\ UNCHANGED <<registry, listed, task, torn, edits, mishaps>>

\* A change of type: out of the old set...
RemoveFromType(e) ==
  /\ editor[e].at = "move"
  /\ listed' = [listed EXCEPT ![editor[e].old] = @ \ {editor[e].id}]
  /\ Becomes(e, [editor[e] EXCEPT !.at = "join"])
  /\ UNCHANGED <<registry, task, torn, edits, mishaps>>

\* ...into the new one...
JoinType(e) ==
  /\ editor[e].at = "join"
  /\ listed' = [listed EXCEPT ![editor[e].new.type] = @ \cup {editor[e].id}]
  /\ Becomes(e, [editor[e] EXCEPT !.at = "store"])
  /\ UNCHANGED <<registry, task, torn, edits, mishaps>>

\* ...and the key is written last.
StoreHook(e) ==
  /\ editor[e].at = "store"
  /\ registry' = [registry EXCEPT ![editor[e].id] = editor[e].new]
  /\ Becomes(e, Resting)
  /\ UNCHANGED <<listed, task, torn, edits, mishaps>>

\* DeleteHook reads the hook for its type...
DeleteHook(e, h) ==
  /\ editor[e] = Resting /\ registry[h] # NoHook
  /\ Begin(h)
  /\ Becomes(e, [at |-> "delete", id |-> h, old |-> registry[h].type])
  /\ UNCHANGED <<registry, listed, task, mishaps>>

\* ...and sends two commands in one pipeline, which is no transaction.
DeleteKey(e) ==
  /\ editor[e].at = "delete"
  /\ registry' = [registry EXCEPT ![editor[e].id] = NoHook]
  /\ Becomes(e, [editor[e] EXCEPT !.at = "leave"])
  /\ UNCHANGED <<listed, task, torn, edits, mishaps>>

LeaveType(e) ==
  /\ editor[e].at = "leave"
  /\ listed' = [listed EXCEPT ![editor[e].old] = @ \ {editor[e].id}]
  /\ Becomes(e, Resting)
  /\ UNCHANGED <<registry, task, torn, edits, mishaps>>

\* Redis fails in the middle of an edit, or the server dies.
EditDies(e) ==
  /\ editor[e] # Resting
  /\ mishaps < MaxMishaps /\ mishaps' = mishaps + 1
  /\ torn' = torn \cup {editor[e].id}
  /\ Becomes(e, Resting)
  /\ UNCHANGED <<registry, listed, task, edits>>

(***************************************************************************)
(* Deliveries.                                                             *)
(***************************************************************************)

\* ListHooks: the members of a type's set whose key is there.
ListHooks(type) == {h \in listed[type] : registry[h] # NoHook}

\* A transaction runs its pre or post hooks: queueHook enqueues a copy of each
\* active hook that is listed.  One slot stands for the task of one of them.
QueueHook(k, h, type) ==
  /\ task[k] = NoTask
  /\ h \in ListHooks(type) /\ registry[h].active
  /\ task' = [task EXCEPT ![k] = [id |-> h, hook |-> registry[h], left |-> registry[h].retries]]
  /\ UNCHANGED <<registry, listed, editor, torn, edits, mishaps>>

\* SendWebhook enqueues an event with asynq's own number of retries.
SendWebhook(k) ==
  /\ task[k] = NoTask
  /\ task' = [task EXCEPT ![k] = [id |-> NoHook, hook |-> NoHook, left |-> DefaultRetries]]
  /\ UNCHANGED <<registry, listed, editor, torn, edits, mishaps>>

\* asynq: a task ends with a success, or when its retries are spent.
Settle(k, ok) ==
  task' = [task EXCEPT ![k] = IF ok \/ task[k].left = 0 THEN NoTask
                               ELSE [task[k] EXCEPT !.left = task[k].left - 1]]

\* updateHookStatus writes the task's copy of the hook over its key.
UpdateHookStatus(h, copy, ok) ==
  /\ registry' = [registry EXCEPT ![h] = [copy EXCEPT !.success = ok]]
  /\ torn' = IF registry[h] = NoHook \/ registry[h].edit # copy.edit THEN torn \cup {h} ELSE torn

\* What an endpoint may answer: a class of status and a kind of body, which
\* is empty, no JSON, JSON of another shape, or says "success" or not.
Answers == [status : {"2xx", "3xx", "4xx"}, body : {"empty", "text", "other", "success", "failure"}]

\* executeHook: a body that says so decides, whatever the status; a redirect
\* counts as success unless its body is empty.
Succeeds(answer) ==
  \/ answer.body = "success"
  \/ answer.body = "empty" /\ answer.status = "2xx"
  \/ answer.body \in {"text", "other"} /\ answer.status # "4xx"

\* executeHook: the endpoint answers and the outcome is stored.
ExecuteHook(k, answer) ==
  LET ok == Succeeds(answer)
  IN /\ task[k] # NoTask /\ task[k].id # NoHook
     /\ UpdateHookStatus(task[k].id, task[k].hook, ok)
     /\ Settle(k, ok)
     /\ UNCHANGED <<listed, editor, edits, mishaps>>

\* The call times out, and with it the context the status is written under.
ExecuteHookTimesOut(k) ==
  /\ task[k] # NoTask /\ task[k].id # NoHook
  /\ Settle(k, FALSE)
  /\ UNCHANGED <<registry, listed, editor, torn, edits, mishaps>>

\* ProcessWebhook: processHTTP returns an error for a failed call or for an
\* answer outside 2xx.
ProcessWebhook(k, ok) ==
  /\ task[k] # NoTask /\ task[k].id = NoHook
  /\ Settle(k, ok)
  /\ UNCHANGED <<registry, listed, editor, torn, edits, mishaps>>

Edit(e) ==
  \/ \E h \in HookIds, t \in Types, a \in BOOLEAN, n \in RetryCounts :
       RegisterHook(e, h, t, a, n) \/ UpdateHook(e, h, t, a, n)
  \/ \E h \in HookIds : DeleteHook(e, h)
  \/ AddToType(e) \/ RemoveFromType(e) \/ JoinType(e) \/ StoreHook(e)
  \/ DeleteKey(e) \/ LeaveType(e) \/ EditDies(e)

Deliver(k) ==
  \/ \E h \in HookIds, t \in ValidTypes : QueueHook(k, h, t)
  \/ SendWebhook(k)
  \/ \E answer \in Answers : ExecuteHook(k, answer)
  \/ \E ok \in BOOLEAN : ProcessWebhook(k, ok)
  \/ ExecuteHookTimesOut(k)

HookNext == (\E e \in Editors : Edit(e)) \/ (\E k \in Tasks : Deliver(k))

HookSpec == HookInit /\ [][HookNext]_hookVars

\* Type invariant; an edit is in the middle of something that can follow.
HooksTypeOK ==
  /\ registry \in [HookIds -> HookRecords \cup {NoHook}]
  /\ listed \in [Types -> SUBSET HookIds]
  /\ \A e \in Editors :
       \/ editor[e] = Resting
       \/ editor[e] \in [at : {"add"}, id : HookIds, type : ValidTypes]
       \/ editor[e] \in [at : {"move", "join", "store"}, id : HookIds, old : Types, new : HookRecords]
       \/ editor[e] \in [at : {"delete", "leave"}, id : HookIds, old : Types]
  /\ \A k \in Tasks :
       \/ task[k] = NoTask
       \/ task[k] \in [id : HookIds, hook : HookRecords, left : Nat]
       \/ task[k] \in [id : {NoHook}, hook : {NoHook}, left : 0 .. DefaultRetries]
  /\ torn \subseteq HookIds /\ edits \in 0 .. MaxEdits /\ mishaps \in 0 .. MaxMishaps

\* A hook that exists is a member of the set of its own type and of no other,
\* and one that was deleted of none: between edits its key and the sets agree,
\* unless edits overlapped, one died, an id was registered twice, or an attempt
\* wrote back a copy from before the last edit (a deleted hook reappears).
HooksAreListedOnce ==
  \A h \in HookIds \ torn : Editing(h) = {} =>
    \A t \in Types : h \in listed[t] <=> registry[h] # NoHook /\ registry[h].type = t

\* What edits and deliveries keep.
HooksInv == HooksTypeOK /\ HooksAreListedOnce
=============================================================================
