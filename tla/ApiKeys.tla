------------------------------- MODULE ApiKeys -------------------------------
(***************************************************************************)
(* API keys (api/apikeys.go, api/middleware, database/api_key.go): rows in *)
(* the database, and copies of them in a cache that is shared (Redis) and, *)
(* for a minute, local to each server.  A request is authenticated from    *)
(* the cache or from the row, which then fills the cache; a key may create *)
(* keys of its owner and revoke them.  A revocation writes the row and     *)
(* then deletes the copies of its own server and the shared one.  The two  *)
(* deletions are one step: only another request of the same server could   *)
(* tell, and a server has one at a time here.                              *)
(*                                                                         *)
(* `stale' is history: the places that were left with an outdated copy.    *)
(***************************************************************************)
EXTENDS Integers, FiniteSets

CONSTANTS Keys,        \* ids of keys, numbers
          PrefixOf,    \* the prefix of each key, by which it is looked up
          Owners,      \* owners of keys
          Resources,   \* resources of the API, "api-keys" among them
          ScopeSets,   \* the sets of scopes a request may ask for
          Servers,     \* API server processes, each with one request at a time
          NoKey,       \* no row, no copy, no principal
          Lifetimes,   \* when a new key may expire
          MaxTime,     \* bound on the clock
          MaxMishaps   \* bound on failed cache calls and crashes

VARIABLES row,      \* rows of blnk.api_keys
          copy,     \* the copy of a key at each place, per prefix
          request,  \* what each server is doing
          stale,    \* <<place, key>>: copies left behind by a revocation
          now, mishaps

keyVars == <<row, copy, request, stale, now, mishaps>>

Prefixes == {PrefixOf[k] : k \in Keys}
Places == Servers \cup {"shared"}
Actions == {"read", "write", "delete"}
Scopes == [resource : Resources \cup {"*"}, action : Actions \cup {"*"}]
Rows == [id : Keys, owner : Owners, scopes : SUBSET Scopes, expires : 0 .. MaxTime + 1,
         revoked : BOOLEAN, creator : {NoKey} \cup [owner : Owners, scopes : SUBSET Scopes]]

KeysAssumption ==
  /\ "shared" \notin Servers
  /\ NoKey \notin Rows /\ NoKey \notin Owners
  /\ NoKey \notin [owner : Owners, scopes : SUBSET Scopes]
  /\ ScopeSets \subseteq SUBSET Scopes
  /\ MaxTime \in Nat /\ MaxMishaps \in Nat
  /\ Lifetimes \subseteq 0 .. MaxTime + 1

Idle == [at |-> "idle"]
Known == {k \in Keys : row[k] # NoKey}

(***************************************************************************)
(* Scopes.                                                                 *)
(***************************************************************************)

\* HasPermission: some scope names the resource or all, and the action or all.
HasPermission(scopes, resource, action) ==
  \E s \in scopes : s.resource \in {"*", resource} /\ s.action \in {"*", action}

ScopeCovers(granted, requested) ==
  /\ granted.resource \in {"*", requested.resource}
  /\ granted.action \in {"*", requested.action}

CanGrantScopes(caller, requested) == \A r \in requested : \E c \in caller : ScopeCovers(c, r)

\* The master key may do everything; `principal' is NoKey for it.
ValidateGrantedScopes(principal, requested) ==
  principal # NoKey => CanGrantScopes(principal.scopes, requested)

\* The owner a request acts for; NoKey when it may not act for the one it names.
ResolveAPIKeyOwner(principal, requested) ==
  IF principal = NoKey \/ requested = principal.owner THEN requested ELSE NoKey

IsValid(k) == ~k.revoked /\ now < k.expires

KeyInit ==
  /\ row = [k \in Keys |-> NoKey]
  /\ copy = [p \in Places |-> [x \in Prefixes |-> NoKey]]
  /\ request = [s \in Servers |-> Idle]
  /\ stale = {}
  /\ now = 0 /\ mishaps = 0

Becomes(s, r) == request' = [request EXCEPT ![s] = r]

(***************************************************************************)
(* Authenticate.                                                           *)
(***************************************************************************)

\* A request with the key k: GetAPIKey looks at the local and the shared copy
\* under the key's prefix; a shared one becomes the local one too.
LookUp(s, k) ==
  LET x == PrefixOf[k]
      place == IF copy[s][x] # NoKey THEN s ELSE "shared"
      found == copy[place][x]
      hit == found # NoKey /\ found.id = k
  IN /\ request[s] = Idle
     /\ Becomes(s, IF hit THEN [at |-> "check", key |-> found] ELSE [at |-> "query", id |-> k])
     /\ copy' = [copy EXCEPT ![s][x] = found]
     /\ stale' = IF place = s THEN stale
                 ELSE stale \cup {<<s, e[2]>> : e \in {f \in stale : f[1] = "shared" /\ PrefixOf[f[2]] = x}}
     /\ UNCHANGED <<row, now, mishaps>>

\* A miss: the rows with the prefix are read and the key verified.
QueryRow(s) ==
  /\ request[s].at = "query"
  /\ LET k == request[s].id
     IN Becomes(s, IF row[k] = NoKey THEN Idle ELSE [at |-> "fill", key |-> row[k]])
  /\ UNCHANGED <<row, copy, stale, now, mishaps>>

\* The copies that are replaced or deleted at places ps are no longer stale.
Freshened(ps, x) == {e \in stale : e[1] \in ps /\ PrefixOf[e[2]] = x}

\* The row as it was read is cached, whatever has become of it.
FillCache(s) ==
  /\ request[s].at = "fill"
  /\ LET k == request[s].key
         x == PrefixOf[k.id]
         ps == {s, "shared"}
     IN /\ copy' = [p \in Places |-> IF p \in ps THEN [copy[p] EXCEPT ![x] = k] ELSE copy[p]]
        /\ stale' = (stale \ Freshened(ps, x))
                      \cup (IF row[k.id].revoked # k.revoked THEN ps \X {k.id} ELSE {})
        /\ Becomes(s, [at |-> "check", key |-> k])
  /\ UNCHANGED <<row, now, mishaps>>

\* Validity, resource and permission; a request on another resource ends
\* here, one on api-keys goes on to its handler.
Check(s, resource, action) ==
  LET k == request[s].key
      accepted == IsValid(k) /\ HasPermission(k.scopes, resource, action)
      handler == IF action = "write" THEN "create" ELSE "revoke"
  IN /\ request[s].at = "check"
     /\ Becomes(s, IF accepted /\ resource = "api-keys" /\ action # "read"
                   THEN [at |-> handler, principal |-> k] ELSE Idle)
     /\ UNCHANGED <<row, copy, stale, now, mishaps>>

\* The master key goes straight to a handler.
MasterRequest(s) ==
  /\ request[s] = Idle
  /\ \E handler \in {"create", "revoke"} : Becomes(s, [at |-> handler, principal |-> NoKey])
  /\ UNCHANGED <<row, copy, stale, now, mishaps>>

(***************************************************************************)
(* The handlers.                                                           *)
(***************************************************************************)
NewAPIKey(k, owner, scopes, expires, principal) ==
  [id |-> k, owner |-> owner, scopes |-> scopes, expires |-> expires, revoked |-> FALSE,
   creator |-> IF principal = NoKey THEN NoKey
               ELSE [owner |-> principal.owner, scopes |-> principal.scopes]]

\* Ids are generated, here in order.
Fresh(k) == row[k] = NoKey /\ \A j \in Keys : j < k => row[j] # NoKey

CreateAPIKey(s, k, requested, scopes, expires) ==
  LET principal == request[s].principal
      owner == ResolveAPIKeyOwner(principal, requested)
  IN /\ request[s].at = "create" /\ Fresh(k)
     /\ Becomes(s, Idle)
     /\ \/ /\ owner # NoKey /\ ValidateGrantedScopes(principal, scopes)
           /\ row' = [row EXCEPT ![k] = NewAPIKey(k, owner, scopes, expires, principal)]
        \/ /\ ~(owner # NoKey /\ ValidateGrantedScopes(principal, scopes))
           /\ UNCHANGED row
     /\ UNCHANGED <<copy, stale, now, mishaps>>

\* RevokeAPIKey: the row of that id and owner is updated, if there is one.
RevokeRow(s, k, requested) ==
  LET owner == ResolveAPIKeyOwner(request[s].principal, requested)
  IN /\ request[s].at = "revoke"
     /\ \/ /\ k \in Known /\ row[k].owner = owner
           /\ row' = [row EXCEPT ![k].revoked = TRUE]
           /\ Becomes(s, [at |-> "invalidate", id |-> k])
        \/ /\ ~(k \in Known /\ row[k].owner = owner)
           /\ Becomes(s, Idle) /\ UNCHANGED row
     /\ UNCHANGED <<copy, stale, now, mishaps>>

\* Copies of k that a revocation leaves at places ps.
LeftAt(ps, k) == {<<p, k>> : p \in {q \in ps : copy[q][PrefixOf[k]] # NoKey
                                                 /\ copy[q][PrefixOf[k]].id = k
                                                 /\ ~copy[q][PrefixOf[k]].revoked}}

\* Faulty: only the local copy is deleted.
InvalidateLocal(s) ==
  /\ request[s].at = "invalidate"
  /\ LET k == request[s].id
     IN /\ copy' = [copy EXCEPT ![s][PrefixOf[k]] = NoKey]
        /\ stale' = (stale \ Freshened({s}, PrefixOf[k])) \cup LeftAt(Servers \ {s}, k)
  /\ Becomes(s, Idle)
  /\ UNCHANGED <<row, now, mishaps>>

\* Cache.Delete reaches the shared copy and the server's own.
Invalidate(s) ==
  /\ request[s].at = "invalidate"
  /\ LET k == request[s].id
         x == PrefixOf[k]
         ps == {s, "shared"}
     IN /\ copy' = [p \in Places |-> IF p \in ps THEN [copy[p] EXCEPT ![x] = NoKey] ELSE copy[p]]
        /\ stale' = (stale \ Freshened(ps, x)) \cup LeftAt(Places \ ps, k)
  /\ Becomes(s, Idle)
  /\ UNCHANGED <<row, now, mishaps>>

\* The delete fails, which is only logged, or the server dies before it.
InvalidateFails(s) ==
  /\ request[s].at = "invalidate"
  /\ mishaps < MaxMishaps /\ mishaps' = mishaps + 1
  /\ stale' = stale \cup LeftAt(Places, request[s].id)
  /\ Becomes(s, Idle)
  /\ UNCHANGED <<row, copy, now>>

\* A copy expires, after a minute or five.
CopyExpires(p, x) ==
  /\ copy[p][x] # NoKey
  /\ copy' = [copy EXCEPT ![p][x] = NoKey]
  /\ stale' = stale \ Freshened({p}, x)
  /\ UNCHANGED <<row, request, now, mishaps>>

Tick == /\ now < MaxTime /\ now' = now + 1
        /\ UNCHANGED <<row, copy, request, stale, mishaps>>

Authenticate(s) ==
  \/ \E k \in Keys : LookUp(s, k)
  \/ QueryRow(s) \/ FillCache(s) \/ MasterRequest(s)
  \/ \E resource \in Resources, action \in Actions : Check(s, resource, action)

Handle(s) ==
  \/ \E k \in Keys, o \in Owners, sc \in ScopeSets, e \in Lifetimes : CreateAPIKey(s, k, o, sc, e)
  \/ \E k \in Keys, o \in Owners : RevokeRow(s, k, o)
  \/ Invalidate(s) \/ InvalidateFails(s)

KeyNext ==
  \/ \E s \in Servers : Authenticate(s) \/ Handle(s)
  \/ \E p \in Places, x \in Prefixes : CopyExpires(p, x)
  \/ Tick

KeySpec == KeyInit /\ [][KeyNext]_keyVars

\* Type invariant; a request past the cache holds a row of the key it named.
KeysTypeOK ==
  /\ row \in [Keys -> Rows \cup {NoKey}]
  /\ copy \in [Places -> [Prefixes -> Rows \cup {NoKey}]]
  /\ \A s \in Servers :
       \/ request[s] = Idle
       \/ request[s].at = "query" /\ request[s].id \in Keys
       \/ request[s].at \in {"fill", "check"} /\ request[s].key \in Rows
       \/ request[s].at \in {"create", "revoke"} /\ request[s].principal \in Rows \cup {NoKey}
       \/ request[s].at = "invalidate" /\ request[s].id \in Known
  /\ stale \subseteq Places \X Keys
  /\ now \in 0 .. MaxTime /\ mishaps \in 0 .. MaxMishaps

\* A revocation takes effect with the request that follows it: a copy of a key
\* that is not marked revoked while its row is can only be one whose deletion
\* is still under way, failed, or was overtaken by a reader's fill, or the
\* short-lived local copy of another server.
RevokedCopiesAreKnown ==
  \A p \in Places, x \in Prefixes :
    LET k == copy[p][x]
    IN k # NoKey /\ row[k.id].revoked /\ ~k.revoked =>
         \/ <<p, k.id>> \in stale
         \/ \E s \in Servers : request[s] = [at |-> "invalidate", id |-> k.id]

\* A key that a key created belongs to its creator's owner and may do nothing
\* its creator could not (resolveAPIKeyOwner, and validateGrantedScopes agrees
\* with HasPermission, wildcards included).
DelegationNeverWidens ==
  \A k \in Known : row[k].creator # NoKey =>
    /\ row[k].owner = row[k].creator.owner
    /\ \A resource \in Resources, action \in Actions :
         HasPermission(row[k].scopes, resource, action) =>
           HasPermission(row[k].creator.scopes, resource, action)

\* What authentication, delegation and revocation keep.
KeysInv == KeysTypeOK /\ RevokedCopiesAreKnown /\ DelegationNeverWidens
=============================================================================
