------------------------------ MODULE HashChain ------------------------------
(***************************************************************************)
(* The tamper-evident chain over the transactions table: the chainer of    *)
(* every server seals old rows in batches (chain_worker.go,                *)
(* database/chain.go), and verify-chain replays the chain while they do.   *)
(*                                                                         *)
(* A batch is one SQL transaction that starts by locking the chain_state   *)
(* row, so it is modelled by the point where it gets that lock, the scan,  *)
(* and its commit or rollback.  Links written before the commit are seen   *)
(* by nobody else.                                                         *)
(*                                                                         *)
(* SHA-256 is taken to be free of collisions: a hash is the sequence of    *)
(* the rows that went into it.  A row is its id and its content, which the *)
(* application never changes; Alter is an edit behind its back.            *)
(***************************************************************************)
EXTENDS Integers, Sequences, FiniteSets

CONSTANTS
  Ids,           \* transactions.id, in insertion order
  Chainers,      \* the running ChainProcessors
  BatchSize,     \* rows sealed by one SQL transaction
  MaxBatches,    \* maxBatchesPerTick
  Page,          \* rows the verifier reads at a time
  Nobody         \* the chain_state row is not locked

ASSUME HashChainAssumption ==
  /\ Ids \subseteq Nat \ {0}
  /\ BatchSize \in Nat \ {0}
  /\ MaxBatches \in Nat \ {0}
  /\ Page \in Nat \ {0}
  /\ Nobody \notin Chainers

VARIABLES
  inserted,      \* the rows whose insert is committed
  aged,          \* the rows created before now minus trailing_delay
  altered,       \* the rows whose content was edited behind the application
  seq,           \* chain_seq, 0 for NULL
  prevHash,      \* chain_prev_hash
  hash,          \* chain_hash
  lastSeq, head, \* the chain_state row
  stateLock,     \* who has locked it
  pc,            \* each chainer's phase
  cutoff,        \* the rows its tick considers old enough
  batch,         \* the rows its SQL transaction has scanned
  done,          \* the batches of its tick so far
  verifier       \* the state of a running VerifyChain

tableVars == <<inserted, aged, altered>>
chainVars == <<seq, prevHash, hash, lastSeq, head>>
chainerVars == <<pc, cutoff, batch, done>>
vars == <<tableVars, chainVars, stateLock, chainerVars, verifier>>

Genesis == << >>

Contents == {"recorded", "edited"}

\* The sealed fields of a row.
ChainRow(t) == <<t, IF t \in altered THEN "edited" ELSE "recorded">>

ComputeChainHash(prev, row) == Append(prev, row)

\* The verifier before it starts.  dirty are the sealed rows that no longer
\* had their sealed content when it started.
Idle == [phase |-> "idle", endSeq |-> 0, endHead |-> Genesis, last |-> 0,
         head |-> Genesis, dirty |-> {}]

Init ==
  /\ inserted = {} /\ aged = {} /\ altered = {}
  /\ seq = [t \in Ids |-> 0]
  /\ prevHash = [t \in Ids |-> Genesis]
  /\ hash = [t \in Ids |-> Genesis]
  /\ lastSeq = 0 /\ head = Genesis
  /\ stateLock = Nobody
  /\ pc = [c \in Chainers |-> "idle"]
  /\ cutoff = [c \in Chainers |-> {}]
  /\ batch = [c \in Chainers |-> << >>]
  /\ done = [c \in Chainers |-> 0]
  /\ verifier = Idle

------------------------------------------------------------------------------
\* Rows are committed in any order of their ids and of their creation times.
Insert(t) ==
  /\ t \notin inserted
  /\ inserted' = inserted \cup {t}
  /\ UNCHANGED <<aged, altered, chainVars, stateLock, chainerVars, verifier>>

Age(t) ==
  /\ t \notin aged
  /\ aged' = aged \cup {t}
  /\ UNCHANGED <<inserted, altered, chainVars, stateLock, chainerVars, verifier>>

\* Not a step of the application: its trigger forbids the update.
Alter(t) ==
  /\ t \in inserted \ altered
  /\ altered' = altered \cup {t}
  /\ UNCHANGED <<inserted, aged, chainVars, stateLock, chainerVars, verifier>>

------------------------------------------------------------------------------
\* processTick: the cutoff is taken once for all batches of the tick.
Tick(c) ==
  /\ pc[c] = "idle"
  /\ pc' = [pc EXCEPT ![c] = "lock"]
  /\ cutoff' = [cutoff EXCEPT ![c] = aged]
  /\ UNCHANGED <<tableVars, chainVars, stateLock, batch, done, verifier>>

EndTick(c) ==
  /\ pc' = [pc EXCEPT ![c] = "idle"]
  /\ cutoff' = [cutoff EXCEPT ![c] = {}]
  /\ done' = [done EXCEPT ![c] = 0]

\* SELECT ... FOR UPDATE: waits for the other chainers and reads what the last
\* of them has committed.
LockState(c) ==
  /\ pc[c] = "lock"
  /\ stateLock = Nobody
  /\ stateLock' = c
  /\ pc' = [pc EXCEPT ![c] = "scan"]
  /\ UNCHANGED <<tableVars, chainVars, cutoff, batch, done, verifier>>

\* Faulty: rows are taken whether or not they have a chain_seq.
UnchainedAny(c) == inserted \cap cutoff[c]

\* Faulty: the scan continues after the highest id that was sealed.
UnchainedCursor(c) ==
  {t \in inserted \cap cutoff[c] : \A s \in Ids : seq[s] # 0 => s < t}

\* chain_seq IS NULL AND created_at < cutoff
Unchained(c) == {t \in inserted \cap cutoff[c] : seq[t] = 0}

\* ORDER BY id ASC LIMIT BatchSize
IsBatch(b, rows) ==
  /\ \A i \in 1 .. Len(b) : b[i] \in rows
  /\ \A i, j \in 1 .. Len(b) : i < j => b[i] < b[j]
  /\ \A t \in rows : \/ \E i \in 1 .. Len(b) : b[i] = t
                     \/ Len(b) = BatchSize /\ \A i \in 1 .. Len(b) : b[i] < t

Batches == UNION {[1 .. n -> Ids] : n \in 0 .. BatchSize}

Scan(c) ==
  /\ pc[c] = "scan"
  /\ \E b \in Batches :
       /\ IsBatch(b, Unchained(c))
       /\ batch' = [batch EXCEPT ![c] = b]
  /\ pc' = [pc EXCEPT ![c] = "commit"]
  /\ UNCHANGED <<tableVars, chainVars, stateLock, cutoff, done, verifier>>

\* The head after the first i rows of a batch: ComputeChainHash, row by row.
HeadAfter(b, i) == head \o [j \in 1 .. i |-> ChainRow(b[j])]

\* The links and the advanced chain_state become visible together.  The tick
\* goes on while batches are full.
CommitBatch(c) ==
  LET b == batch[c]
      position(t) == CHOOSE i \in 1 .. Len(b) : b[i] = t
      sealed == {b[i] : i \in 1 .. Len(b)}
  IN /\ pc[c] = "commit"
     /\ seq' = [t \in Ids |-> IF t \in sealed THEN lastSeq + position(t) ELSE seq[t]]
     /\ prevHash' = [t \in Ids |-> IF t \in sealed
                                   THEN HeadAfter(b, position(t) - 1) ELSE prevHash[t]]
     /\ hash' = [t \in Ids |-> IF t \in sealed
                               THEN HeadAfter(b, position(t)) ELSE hash[t]]
     /\ lastSeq' = lastSeq + Len(b)
     /\ head' = HeadAfter(b, Len(b))
     /\ stateLock' = Nobody
     /\ batch' = [batch EXCEPT ![c] = << >>]
     /\ IF Len(b) < BatchSize \/ done[c] + 1 = MaxBatches
        THEN EndTick(c)
        ELSE /\ pc' = [pc EXCEPT ![c] = "lock"]
             /\ done' = [done EXCEPT ![c] = @ + 1]
             /\ UNCHANGED cutoff
     /\ UNCHANGED <<tableVars, verifier>>

\* A database error or a crash: the SQL transaction is rolled back, the tick
\* is over.
RollbackBatch(c) ==
  /\ pc[c] # "idle"
  /\ stateLock' = IF stateLock = c THEN Nobody ELSE stateLock
  /\ batch' = [batch EXCEPT ![c] = << >>]
  /\ EndTick(c)
  /\ UNCHANGED <<tableVars, chainVars, verifier>>

------------------------------------------------------------------------------
Sealed == {t \in Ids : seq[t] # 0}

\* The stored link of a row does not fit its content.
Dirty(t) == hash[t] # ComputeChainHash(prevHash[t], ChainRow(t))

StartVerify ==
  /\ verifier.phase = "idle"
  /\ verifier' = [phase |-> "replay", endSeq |-> lastSeq, endHead |-> head,
                  last |-> 0, head |-> Genesis,
                  dirty |-> {t \in Sealed : Dirty(t)}]
  /\ UNCHANGED <<tableVars, chainVars, stateLock, chainerVars>>

\* The row follows the running head h.
LinkOK(t, h) ==
  /\ prevHash[t] = h
  /\ ComputeChainHash(h, ChainRow(t)) = hash[t]

\* GetChainedTransactionsAfter
Ahead == {t \in Sealed : seq[t] > verifier.last}
NextPage == {t \in Ahead : Cardinality({s \in Ahead : seq[s] < seq[t]}) < Page}

\* The rows of one page are replayed in the order of their positions: each
\* must be the successor of the one before and linked to it.
VerifyPage ==
  LET before(t) == {s \in NextPage : seq[s] = seq[t] - 1}
      first(t) == seq[t] = verifier.last + 1
      headBefore(t) == IF first(t) THEN verifier.head
                       ELSE hash[CHOOSE s \in before(t) : TRUE]
      last == CHOOSE t \in NextPage : \A s \in NextPage : seq[s] <= seq[t]
  IN /\ verifier.phase = "replay"
     /\ Ahead # {}
     /\ verifier' =
          IF \A t \in NextPage : /\ first(t) \/ before(t) # {}
                                 /\ LinkOK(t, headBefore(t))
          THEN [verifier EXCEPT !.last = seq[last], !.head = hash[last]]
          ELSE [verifier EXCEPT !.phase = "broken"]
     /\ UNCHANGED <<tableVars, chainVars, stateLock, chainerVars>>

\* Faulty: the recorded head is compared at any length.
EndVerifyAnyLength ==
  /\ verifier.phase = "replay"
  /\ Ahead = {}
  /\ verifier' = [verifier EXCEPT !.phase =
                    IF verifier.head # verifier.endHead THEN "broken" ELSE "verified"]
  /\ UNCHANGED <<tableVars, chainVars, stateLock, chainerVars>>

\* No more rows.  The recorded head is compared at the recorded length only.
EndVerify ==
  /\ verifier.phase = "replay"
  /\ Ahead = {}
  /\ verifier' = [verifier EXCEPT !.phase =
                    IF /\ verifier.last = verifier.endSeq
                       /\ verifier.head # verifier.endHead
                    THEN "broken" ELSE "verified"]
  /\ UNCHANGED <<tableVars, chainVars, stateLock, chainerVars>>

\* The command is run again.
ForgetVerdict ==
  /\ verifier.phase \in {"verified", "broken"}
  /\ verifier' = Idle
  /\ UNCHANGED <<tableVars, chainVars, stateLock, chainerVars>>

ChainerStep(c) == Tick(c) \/ LockState(c) \/ Scan(c) \/ CommitBatch(c)
VerifyStep == StartVerify \/ VerifyPage \/ EndVerify \/ ForgetVerdict

Next ==
  \/ \E t \in Ids : Insert(t) \/ Age(t) \/ Alter(t)
  \/ \E c \in Chainers : ChainerStep(c) \/ RollbackBatch(c)
  \/ VerifyStep

Spec == Init /\ [][Next]_vars

\* The ticker of every running chainer keeps firing, the FOR UPDATE queue lets
\* a waiting chainer through, batches do not fail for ever, and time passes.
Fairness ==
  /\ \A c \in Chainers : /\ WF_vars(Tick(c)) /\ SF_vars(LockState(c))
                         /\ SF_vars(Scan(c)) /\ SF_vars(CommitBatch(c))
  /\ \A t \in Ids : WF_vars(Age(t))

FairSpec == Spec /\ Fairness

------------------------------------------------------------------------------
TypeOK ==
  /\ inserted \subseteq Ids /\ aged \subseteq Ids /\ altered \subseteq Ids
  /\ seq \in [Ids -> Nat]
  /\ lastSeq \in Nat
  /\ head \in Seq(Ids \X Contents)
  /\ stateLock \in Chainers \cup {Nobody}
  /\ pc \in [Chainers -> {"idle", "lock", "scan", "commit"}]
  /\ batch \in [Chainers -> Seq(Ids)]

\* Only the chainer that has locked chain_state is inside a batch, and what it
\* has scanned is still unchained, in ascending order.
BatchOK ==
  \A c \in Chainers :
    /\ pc[c] \in {"scan", "commit"} => stateLock = c
    /\ pc[c] = "commit" =>
         /\ \A i \in 1 .. Len(batch[c]) : batch[c][i] \in inserted /\ seq[batch[c][i]] = 0
         /\ \A i, j \in 1 .. Len(batch[c]) : i < j => batch[c][i] < batch[c][j]

\* However many chainers race, fail and restart, the sealed rows form one
\* chain: positions 1 to last_seq, each taken once, every stored hash a prefix
\* of the head that chain_state records (ChainPendingTransactions).
ChainIntact ==
  /\ Len(head) = lastSeq
  /\ \A s, t \in Sealed : seq[s] = seq[t] => s = t
  /\ \A n \in 1 .. lastSeq : \E t \in Sealed : seq[t] = n
  /\ \A t \in Sealed :
       /\ seq[t] <= lastSeq
       /\ prevHash[t] = SubSeq(head, 1, seq[t] - 1)
       /\ hash[t] = SubSeq(head, 1, seq[t])

Inv == TypeOK /\ BatchOK /\ ChainIntact

\* A sealed row keeps its place and its hashes, and the recorded chain only
\* ever grows.
SealedForever ==
  [][/\ \A t \in Sealed : /\ seq'[t] = seq[t]
                          /\ prevHash'[t] = prevHash[t]
                          /\ hash'[t] = hash[t]
     /\ lastSeq' >= lastSeq
     /\ SubSeq(head', 1, lastSeq) = head]_vars

\* VerifyChain raises no false alarm: without edits behind the application's
\* back it never reports a broken link, although batches are sealed between
\* its reading of chain_state and its last page.
NoFalseAlarm == verifier.phase = "broken" => altered # {}

\* An edit of a sealed row is found by every verification started after it.
AlterationFound == verifier.phase = "verified" => verifier.dirty = {}

\* A successful verification covers at least the chain as it was recorded when
\* the verification started.
VerifiedInFull == verifier.phase = "verified" => verifier.last >= verifier.endSeq

\* The verifier, reading page by page while batches are sealed, is right in
\* either answer, about all of the chain that was there when it began.
VerifierIsRight == NoFalseAlarm /\ AlterationFound /\ VerifiedInFull

\* Only an edit makes a stored link disagree with its row.
DirtyIsEdited == \A t \in Sealed : Dirty(t) => t \in altered

\* While a verification runs, its running head and the recorded head are the
\* heads the chain had at their positions, and the edited rows that it is to
\* find are still ahead of it.
ReplayOK ==
  verifier.phase = "replay" =>
    /\ verifier.last \in 0 .. lastSeq
    /\ verifier.head = SubSeq(head, 1, verifier.last)
    /\ verifier.endSeq \in 0 .. lastSeq
    /\ verifier.endHead = SubSeq(head, 1, verifier.endSeq)
    /\ verifier.dirty \subseteq {t \in Ahead : Dirty(t)}

\* Inductive, together with Inv.
VerifierInv ==
  /\ verifier \in [phase : {"idle", "replay", "verified", "broken"}, endSeq : Nat,
                   endHead : Seq(Ids \X Contents), last : Nat,
                   head : Seq(Ids \X Contents), dirty : SUBSET Ids]
  /\ DirtyIsEdited
  /\ ReplayOK
  /\ VerifierIsRight

\* Every committed transaction is sealed in the end, also one that became
\* visible after rows with higher ids had been sealed.
EverythingSealed == \A t \in Ids : t \in inserted ~> seq[t] # 0
==============================================================================
