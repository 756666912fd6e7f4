------------------------------- MODULE Upload -------------------------------
(***************************************************************************)
(* Resumable uploads: Manager on top of PostgresStore (internal/upload).   *)
(*                                                                         *)
(* A mutation is a transaction.  The Manager observes the time first; the  *)
(* store then locks and reads the session row (SELECT ... FOR UPDATE),     *)
(* decides in Go on what it read, writes, and commits.  So a call takes    *)
(* three steps here: Call... (clock read, `calls'), Lock (row locked and   *)
(* read, `txs'), and the action that decides, writes and commits.          *)
(* Anything may happen in between; a caller that dies or whose context is  *)
(* cancelled loses the call (Lose) or rolls back (Rollback), and a caller  *)
(* whose answer got lost simply calls again.                               *)
(*                                                                         *)
(* `replies' collects every successful answer ever sent: what clients, and *)
(* the process that finalizes the object from a commit plan, rely on.      *)
(***************************************************************************)
EXTENDS UploadSession

CONSTANTS
    DeclaredSizes,  \* sizes clients declare, within Manager.maxBytes
    ChunkSizes,     \* Manager.chunkBytes, one value per deployed configuration
    PartTries,      \* pairs of index and size that clients try
    SessionTTL,     \* Manager.sessionTTL
    MaxSkew         \* how far the clock of an API process may lag behind

\* Bounds of the model; the code has none of them.
CONSTANTS
    MaxClock,       \* the clock stops here
    MaxInFlight     \* calls and transactions in progress at once

\* What NewManager and validatePartWrite insist on.
ASSUME UploadPolicyAssumption ==
    /\ DeclaredSizes \subseteq Nat \ {0}
    /\ ChunkSizes \subseteq 1..MaxInt32
    /\ PartTries \subseteq Nat \X (1..MaxInt32)
    /\ SessionTTL \in Nat \ {0}
    /\ MaxSkew \in Nat

VARIABLES
    upload_session, \* the table: a row, or NoSession, for each id
    upload_part,    \* the table of part rows
    clock,          \* the latest instant any process reads
    calls,          \* calls that have not reached the row yet
    txs,            \* transactions that hold a row lock, and the row they read
    replies         \* successful answers sent so far

vars == <<upload_session, upload_part, clock, calls, txs, replies>>

----------------------------------------------------------------------------
StartCall ==
    {c \in [op : {"start"}, upload : Uploads, owner : Owners,
            declared : DeclaredSizes, chunk : ChunkSizes, now : Nat] :
        ExpectedChunks(c.declared, c.chunk) <= MaxInt32}
PartCall ==
    [op : {"part"}, upload : Uploads, owner : Owners, index : Nat,
     size : 1..MaxInt32, digest : Digests, backend : BackendParts, now : Nat]
PlainCall == [op : {"begin_commit", "abort"}, upload : Uploads, owner : Owners, now : Nat]
CompleteCall ==
    [op : {"complete"}, upload : Uploads, owner : Owners, digest : Digests, now : Nat]

OwnedCall == PartCall \cup PlainCall \cup CompleteCall

Transaction == [call : OwnedCall, read : Session]

Reply ==
    [op : {"part"}, upload : Uploads, sent : Digests, part : Part]
    \cup [op : {"plan"}, upload : Uploads, parts : SUBSET Part]
    \cup [op : {"complete"}, upload : Uploads, digest : Digests]
    \cup [op : {"abort"}, upload : Uploads]

PartsOf(u) == {p \in upload_part : p.upload = u}

Sessions == {u \in Uploads : upload_session[u] # NoSession}

\* What an API process may read from its clock.
Readings == {t \in 0..clock : t + MaxSkew >= clock}

----------------------------------------------------------------------------
Init ==
    /\ upload_session = [u \in Uploads |-> NoSession]
    /\ upload_part = {}
    /\ clock = 0
    /\ calls = {}
    /\ txs = {}
    /\ replies = {}

Tick ==
    /\ clock < MaxClock
    /\ clock' = clock + 1
    /\ UNCHANGED <<upload_session, upload_part, calls, txs, replies>>

Send(c) ==
    /\ Cardinality(calls) + Cardinality(txs) < MaxInFlight
    /\ calls' = calls \cup {c}
    /\ UNCHANGED <<upload_session, upload_part, clock, txs, replies>>

\* Manager.Start up to the INSERT; the new id is random.
CallStart(o, u, declared, chunk, now) ==
    /\ ExpectedChunks(declared, chunk) <= MaxInt32
    /\ Send([op |-> "start", upload |-> u, owner |-> o,
             declared |-> declared, chunk |-> chunk, now |-> now])

\* Manager.RecordPart, BeginCommit, Complete and Abort up to the transaction.
\* Nobody can name an upload before Start has returned its id.
CallPart(o, u, i, size, digest, backend, now) ==
    /\ u \in Sessions
    /\ Send([op |-> "part", upload |-> u, owner |-> o, index |-> i, size |-> size,
             digest |-> digest, backend |-> backend, now |-> now])

CallPlain(op, o, u, now) ==
    /\ u \in Sessions
    /\ Send([op |-> op, upload |-> u, owner |-> o, now |-> now])

CallComplete(o, u, digest, now) ==
    /\ u \in Sessions
    /\ Send([op |-> "complete", upload |-> u, owner |-> o, digest |-> digest, now |-> now])

\* The call never reaches PostgreSQL, or fails there without effect.
Lose(c) ==
    /\ calls' = calls \ {c}
    /\ UNCHANGED <<upload_session, upload_part, clock, txs, replies>>

\* PostgresStore.Create: one INSERT; an id that is taken is ErrConflict.
Create(c) ==
    /\ c.op = "start"
    /\ upload_session' =
          IF c.upload \in Sessions
          THEN upload_session
          ELSE [upload_session EXCEPT
                  ![c.upload] = StartRow(c.owner, c.declared, c.chunk, c.now, SessionTTL)]
    /\ calls' = calls \ {c}
    /\ UNCHANGED <<upload_part, clock, txs, replies>>

----------------------------------------------------------------------------
\* Faulty variant: the row is read without FOR UPDATE.
LockFreeAlways(u) == TRUE

\* No other transaction has the row locked.
LockFree(u) == \A t \in txs : t.call.upload # u

\* Faulty variant: the row is found by id alone.
LockAnyOwner(c) ==
    /\ c.op # "start"
    /\ c.upload \in Sessions
    /\ LockFree(c.upload)
    /\ txs' = txs \cup {[call |-> c, read |-> upload_session[c.upload]]}
    /\ calls' = calls \ {c}
    /\ UNCHANGED <<upload_session, upload_part, clock, replies>>

\* lockOwnedSession finds the row of this owner.
Lock(c) ==
    /\ c.op # "start"
    /\ c.upload \in Sessions
    /\ upload_session[c.upload].owner = c.owner
    /\ LockFree(c.upload)
    /\ txs' = txs \cup {[call |-> c, read |-> upload_session[c.upload]]}
    /\ calls' = calls \ {c}
    /\ UNCHANGED <<upload_session, upload_part, clock, replies>>

\* ErrNotFound: lockOwnedSession hides the uploads of other owners.
NotFound(c) ==
    /\ c.op # "start"
    /\ c.upload \in Sessions => upload_session[c.upload].owner # c.owner
    /\ Lose(c)

\* A transaction ends: its lock is released.
End(t) == txs' = txs \ {t} /\ UNCHANGED <<clock, calls>>

\* The transaction's process dies, its context is cancelled or COMMIT fails.
Rollback(t) == End(t) /\ UNCHANGED <<upload_session, upload_part, replies>>

\* UPDATE upload_session SET ... WHERE id = ...
Write(t, row) == upload_session' = [upload_session EXCEPT ![t.call.upload] = row]

Answer(r) == replies' = replies \cup {r}

\* RecordPart answers an identical retry with the part it has.
RepeatPart(t) ==
    LET c == t.call
        u == c.upload
    IN /\ c.op = "part"
       /\ CanRepeatPart(t.read, PartsOf(u), c)
       /\ \E p \in Existing(PartsOf(u), c) :
             Answer([op |-> "part", upload |-> u, sent |-> c.digest, part |-> p])
       /\ End(t)
       /\ UNCHANGED <<upload_session, upload_part>>

\* RecordPart accepts the next part.
RecordPart(t) ==
    LET c == t.call
        u == c.upload
    IN /\ c.op = "part"
       /\ CanAddPart(t.read, PartsOf(u), c)
       /\ upload_part' = upload_part \cup {PartOf(c)}
       /\ Write(t, AddPartRow(upload_session[u], t.read, c))
       /\ Answer([op |-> "part", upload |-> u, sent |-> c.digest, part |-> PartOf(c)])
       /\ End(t)

BeginCommit(t) ==
    LET c == t.call
        u == c.upload
    IN /\ c.op = "begin_commit"
       /\ CanBeginCommit(t.read, PartsOf(u), c.now)
       /\ Write(t, BeginCommitRow(upload_session[u], t.read, c.now))
       /\ Answer([op |-> "plan", upload |-> u, parts |-> PartsOf(u)])
       /\ End(t)
       /\ UNCHANGED upload_part

Complete(t) ==
    LET c == t.call
        u == c.upload
    IN /\ c.op = "complete"
       /\ \/ CanRepeatComplete(t.read, c.digest) /\ UNCHANGED upload_session
          \/ /\ CanComplete(t.read, c.now)
             /\ Write(t, CompleteRow(upload_session[u], t.read, c.digest, c.now))
       /\ Answer([op |-> "complete", upload |-> u, digest |-> c.digest])
       /\ End(t)
       /\ UNCHANGED upload_part

Abort(t) ==
    LET c == t.call
        u == c.upload
    IN /\ c.op = "abort"
       /\ \/ CanRepeatAbort(t.read) /\ UNCHANGED upload_session
          \/ /\ CanAbort(t.read, c.now)
             /\ Write(t, AbortRow(upload_session[u], t.read, c.now))
       /\ Answer([op |-> "abort", upload |-> u])
       /\ End(t)
       /\ UNCHANGED upload_part

\* Every error a transaction returns after it has locked the row: ErrExpired,
\* ErrInvalidState, ErrPartConflict, ErrPartOutOfOrder, ErrPartSize,
\* ErrIncomplete, ErrConflict.  Nothing is written.
Refuse(t) ==
    LET c == t.call
        s == t.read
        parts == PartsOf(c.upload)
    IN /\ CASE c.op = "part"         -> ~CanRepeatPart(s, parts, c) /\ ~CanAddPart(s, parts, c)
            [] c.op = "begin_commit" -> ~CanBeginCommit(s, parts, c.now)
            [] c.op = "complete"     -> ~CanRepeatComplete(s, c.digest) /\ ~CanComplete(s, c.now)
            [] c.op = "abort"        -> ~CanRepeatAbort(s) /\ ~CanAbort(s, c.now)
       /\ Rollback(t)

Next ==
    \/ Tick
    \/ \E o \in Owners, u \in Uploads, d \in DeclaredSizes, k \in ChunkSizes, now \in Readings :
          CallStart(o, u, d, k, now)
    \/ \E o \in Owners, u \in Uploads, try \in PartTries,
          digest \in Digests, b \in BackendParts, now \in Readings :
          CallPart(o, u, try[1], try[2], digest, b, now)
    \/ \E op \in {"begin_commit", "abort"}, o \in Owners, u \in Uploads, now \in Readings :
          CallPlain(op, o, u, now)
    \/ \E o \in Owners, u \in Uploads, digest \in Digests, now \in Readings :
          CallComplete(o, u, digest, now)
    \/ \E c \in calls : Lose(c)
    \/ \E c \in calls : Create(c)
    \/ \E c \in calls : Lock(c)
    \/ \E c \in calls : NotFound(c)
    \/ \E t \in txs : Rollback(t)
    \/ \E t \in txs : RepeatPart(t)
    \/ \E t \in txs : RecordPart(t)
    \/ \E t \in txs : BeginCommit(t)
    \/ \E t \in txs : Complete(t)
    \/ \E t \in txs : Abort(t)
    \/ \E t \in txs : Refuse(t)

Spec == Init /\ [][Next]_vars

----------------------------------------------------------------------------
(* Invariants                                                              *)

\* Every variable has its type.
TypeOK ==
    /\ upload_session \in [Uploads -> Session \cup {NoSession}]
    /\ upload_part \subseteq Part
    /\ clock \in Nat
    /\ calls \subseteq StartCall \cup OwnedCall
    /\ txs \subseteq Transaction
    /\ replies \subseteq Reply

\* What a transaction read under its lock is still the stored row when it
\* decides and writes, however many transactions want the same upload: the Go
\* code decides on a copy of the row, and only FOR UPDATE keeps it true.
SnapshotCurrent ==
    \A t \in txs :
        /\ t.read = upload_session[t.call.upload]
        /\ t.read.owner = t.call.owner
        /\ \A x \in txs : x.call.upload = t.call.upload => x = t

\* Bytes of the first n parts of a session.
BytesUpTo(s, n) == IF n = s.expected_chunks THEN s.declared_size ELSE Consumed(s, n)

ProgressTold(s, parts) ==
    /\ {p.part_index : p \in parts} = 0 .. s.received_chunks - 1
    /\ \A p, q \in parts : p.part_index = q.part_index => p = q
    /\ \A p \in parts : p.byte_size = ExpectedPartSize(s, p.part_index)
    /\ s.received_chunks <= s.expected_chunks
    /\ s.received_bytes = BytesUpTo(s, s.received_chunks)

\* The denormalised counters tell the truth about the part rows: the parts of
\* an upload are exactly the indexes below received_chunks, one row each, each
\* of the size its position demands, and received_bytes is their total.  A
\* client that resumes from the counters leaves no gap and repeats nothing.
ProgressExact ==
    \A u \in Uploads :
        IF u \in Sessions
        THEN ProgressTold(upload_session[u], PartsOf(u))
        ELSE PartsOf(u) = {}

PartKept(r, parts) == r.part \in parts /\ r.part.sha256 = r.sent

\* A part that was acknowledged stays as it was acknowledged, and is the chunk
\* the client sent: whichever retries and conflicting writes come later, the
\* stored row is the one each client was told of, so two clients never believe
\* in different contents of an index.
AcknowledgedPartsKept ==
    \A r \in replies : r.op = "part" => PartKept(r, PartsOf(r.upload))

PlanExact(r, s, parts) ==
    /\ r.parts = parts
    /\ s.status # "uploading"
    /\ Cardinality(r.parts) = s.expected_chunks
    /\ TotalSize(r.parts) = s.declared_size

\* Every commit plan ever handed out still describes the upload: it lists the
\* stored parts, all of them, in sizes that add up to the declared size, and
\* nothing was added since.  The finalizer works from the plan long after the
\* transaction that made it is gone.
PlansExact ==
    \A r \in replies : r.op = "plan" =>
        PlanExact(r, upload_session[r.upload], PartsOf(r.upload))

OutcomeTold(r, s) ==
    /\ r.op = "complete" => s.status = "committed" /\ s.committed_sha256 = r.digest
    /\ r.op = "abort" => s.status \in {"aborted", "expired"}

\* All successful answers about how an upload ended agree with each other and
\* with the row: never both completed and aborted, never two object digests,
\* however Complete and Abort race and are retried.
OutcomeAgreed == \A r \in replies : OutcomeTold(r, upload_session[r.upload])

\* validateStoredSession accepts every row the store wrote, so no upload becomes
\* unreadable, and no CHECK or primary key rejects a write the Go code decided
\* to make.
SessionsAccepted ==
    \A u \in Sessions :
        /\ ValidateStoredSession(upload_session[u])
        /\ TableConstraints(upload_session[u], PartsOf(u))

----------------------------------------------------------------------------
(* Action properties                                                       *)

Forward(old, new, parts, newParts) ==
    /\ new.owner = old.owner
    /\ new.declared_size = old.declared_size
    /\ new.chunk_size = old.chunk_size
    /\ new.expected_chunks = old.expected_chunks
    /\ new.expires_at = old.expires_at
    /\ old.status \in Closed => new = old
    /\ old.status = "committing" => new.status # "uploading"
    /\ old.status # "uploading" => newParts = parts
    /\ parts \subseteq newParts
    /\ old.updated_at <= new.updated_at

\* A closed upload never changes again, neither its row nor its parts; an open
\* one only moves forward: parts are added and never altered, committing never
\* goes back to uploading, updated_at never goes back although the observed
\* instants of racing calls do, and the declared metadata stays.
OnlyForward ==
    [][\A u \in Sessions :
          Forward(upload_session[u], upload_session'[u], PartsOf(u), PartsOf(u)')]_vars

\* The upload is past its expiry by every clock, and no call read its clock
\* before the expiry and is still under way.
Overdue(u) ==
    LET end == upload_session[u].expires_at
    IN /\ end + MaxSkew <= clock
       /\ \A c \in calls : c.upload = u /\ c.op # "start" => c.now >= end
       /\ \A t \in txs : t.call.upload = u => t.call.now >= end

\* The "exclusive expiry instant" of ErrExpired is final.  A call is judged by
\* the instant at which its process read the clock, so it may commit after the
\* expiry; once the last such call is over, the upload takes no part, hands out
\* no plan and is completed by nobody for ever, whatever the clocks of the
\* processes show.  It may still be aborted.
ExpiryFinal ==
    [][\A u \in Sessions :
          Overdue(u) =>
              /\ Overdue(u)'
              /\ PartsOf(u)' = PartsOf(u)
              /\ upload_session'[u].status \in {upload_session[u].status, "aborted"}
              /\ \A r \in replies' \ replies :
                    r.upload = u => r.op \in {"complete", "abort"}]_vars
============================================================================
