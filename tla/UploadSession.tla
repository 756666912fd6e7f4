--------------------------- MODULE UploadSession ---------------------------
(***************************************************************************)
(* One upload_session row, the upload_part rows under it, and the checks   *)
(* and updates PostgresStore makes on them (internal/upload/upload.go and  *)
(* storage_postgres.go).  Pure operators: `s' is a session row, `parts'    *)
(* its part rows, `now' the instant the Go caller observed.                *)
(*                                                                         *)
(* Left out because no guard or property reads them: file name, content    *)
(* type, object key, multipart handle.  A digest and a backend part id are *)
(* opaque values.                                                          *)
(***************************************************************************)
EXTENDS Integers, FiniteSets, FiniteSetsExt

CONSTANTS
    Owners,         \* authenticated or anonymous owners
    Uploads,        \* upload ids
    Digests,        \* SHA-256 values, of chunks and of objects
    NoDigest,       \* committed_sha256 IS NULL
    BackendParts    \* backend part ids

ASSUME DigestAssumption == NoDigest \notin Digests

NoTime == -1

MaxInt32 == 2147483647

UploadStatus == {"uploading", "committing", "committed", "aborted", "expired"}

Closed == {"committed", "aborted", "expired"}

Session ==
    [owner            : Owners,
     declared_size    : Nat \ {0},
     chunk_size       : Nat \ {0},
     expected_chunks  : Nat \ {0},
     received_chunks  : Nat,
     received_bytes   : Nat,
     status           : UploadStatus,
     committed_sha256 : Digests \cup {NoDigest},
     created_at       : Nat,
     updated_at       : Nat,
     committed_at     : Nat \cup {NoTime},
     expires_at       : Nat]

\* The id has no row.
NoSession == [status |-> "absent"]

Part ==
    [upload          : Uploads,
     part_index      : Nat,
     byte_size       : Nat \ {0},
     sha256          : Digests,
     backend_part_id : BackendParts,
     created_at      : Nat]

\* Faulty variant: the caller's instant as it is.
MaxTimeNot(left, right) == left

MaxTime(left, right) == IF left < right THEN right ELSE left

----------------------------------------------------------------------------
(* Geometry.                                                               *)

\* Faulty variant: the final part is forgotten.
ExpectedChunksFloor(declared, chunk) == (declared - 1) \div chunk

ExpectedChunks(declared, chunk) == (declared - 1) \div chunk + 1

\* Bytes of the parts before index i, all of them full chunks.
Consumed(s, i) == i * s.chunk_size

\* expectedPartSize, for the indexes it does not refuse.
ExpectedPartSize(s, i) ==
    IF i < s.expected_chunks - 1
    THEN s.chunk_size
    ELSE s.declared_size - Consumed(s, s.expected_chunks - 1)

\* The indexes expectedPartSize does not refuse.
HasPartSize(s, i) ==
    /\ i < s.expected_chunks
    /\ i < s.expected_chunks - 1 \/ Consumed(s, i) < s.declared_size

TotalSize(parts) == MapThenSumSet(LAMBDA p : p.byte_size, parts)

\* Faulty variant: the denormalised counters are trusted half way.
CompletePartsByCount(s, parts) == Cardinality(parts) + 1 >= s.expected_chunks

\* validateCompleteParts
CompleteParts(s, parts) ==
    /\ s.received_chunks = s.expected_chunks
    /\ s.received_bytes = s.declared_size
    /\ Cardinality(parts) = s.expected_chunks
    /\ {p.part_index : p \in parts} = 0 .. s.expected_chunks - 1
    /\ \A p \in parts :
          /\ HasPartSize(s, p.part_index)
          /\ p.byte_size = ExpectedPartSize(s, p.part_index)
    /\ TotalSize(parts) = s.declared_size

----------------------------------------------------------------------------
(* What the store refuses to read or to keep.                              *)

\* validateStoredSession, run on every row a statement returns.
ValidateStoredSession(s) ==
    /\ s.expected_chunks = ExpectedChunks(s.declared_size, s.chunk_size)
    /\ s.expected_chunks <= MaxInt32
    /\ s.received_chunks \in 0 .. s.expected_chunks
    /\ s.received_bytes \in 0 .. s.declared_size
    /\ s.updated_at >= s.created_at
    /\ s.expires_at > s.created_at
    /\ IF s.status = "committed"
       THEN s.committed_sha256 # NoDigest /\ s.committed_at # NoTime
       ELSE s.committed_sha256 = NoDigest /\ s.committed_at = NoTime

\* The CHECK constraints of upload_session on columns that change, and the
\* primary key of upload_part.
TableConstraints(s, parts) ==
    /\ s.received_chunks <= s.expected_chunks
    /\ s.received_bytes <= s.declared_size
    /\ s.status = "committed" <=> s.committed_sha256 # NoDigest
    /\ s.status = "committed" <=> s.committed_at # NoTime
    /\ s.updated_at >= s.created_at
    /\ \A p, q \in parts : p.part_index = q.part_index => p = q

----------------------------------------------------------------------------
(* Manager.Start and Store.Create.                                         *)
StartRow(owner, declared, chunk, now, ttl) ==
    [owner            |-> owner,
     declared_size    |-> declared,
     chunk_size       |-> chunk,
     expected_chunks  |-> ExpectedChunks(declared, chunk),
     received_chunks  |-> 0,
     received_bytes   |-> 0,
     status           |-> "uploading",
     committed_sha256 |-> NoDigest,
     created_at       |-> now,
     updated_at       |-> now,
     committed_at     |-> NoTime,
     expires_at       |-> now + ttl]

(* The checks RecordPart, BeginCommit and Complete share: not expired at   *)
(* the observed instant, and not observed before the creation.             *)

\* Faulty variant: the expiry instant counts as valid.
TimelyInclusive(s, now) == s.created_at <= now /\ now <= s.expires_at

Timely(s, now) == s.created_at <= now /\ now < s.expires_at

----------------------------------------------------------------------------
(* Store.RecordPart; `w' is the PartWrite.                                 *)
PartOf(w) ==
    [upload |-> w.upload, part_index |-> w.index, byte_size |-> w.size,
     sha256 |-> w.digest, backend_part_id |-> w.backend, created_at |-> w.now]

Existing(parts, w) == {p \in parts : p.part_index = w.index}

\* Faulty variant: a retry is recognised by its size alone.
SamePartBySize(p, w) == p.byte_size = w.size

\* An identical retry; the backend part id may differ.
SamePart(p, w) == p.byte_size = w.size /\ p.sha256 = w.digest

CanRepeatPart(s, parts, w) ==
    /\ Timely(s, w.now)
    /\ s.status = "uploading"
    /\ \E p \in Existing(parts, w) : SamePart(p, w)

\* Faulty variant: any missing part may come next.
CanAddPartAnyOrder(s, parts, w) ==
    /\ Timely(s, w.now)
    /\ s.status = "uploading"
    /\ Existing(parts, w) = {}
    /\ HasPartSize(s, w.index)
    /\ w.size = ExpectedPartSize(s, w.index)

CanAddPart(s, parts, w) ==
    /\ Timely(s, w.now)
    /\ s.status = "uploading"
    /\ Existing(parts, w) = {}
    /\ w.index = s.received_chunks
    /\ HasPartSize(s, w.index)
    /\ w.size = ExpectedPartSize(s, w.index)

AddPartRow(s, read, w) ==
    [s EXCEPT !.received_chunks = @ + 1,
              !.received_bytes  = @ + w.size,
              !.updated_at      = MaxTime(w.now, read.updated_at)]

----------------------------------------------------------------------------
(* Store.BeginCommit: the parts are frozen by the status.                  *)
CanBeginCommit(s, parts, now) ==
    /\ Timely(s, now)
    /\ s.status \in {"uploading", "committing"}
    /\ CompleteParts(s, parts)

BeginCommitRow(s, read, now) ==
    IF read.status = "uploading"
    THEN [s EXCEPT !.status = "committing", !.updated_at = MaxTime(now, read.updated_at)]
    ELSE s

----------------------------------------------------------------------------
(* Store.Complete.                                                         *)

\* Faulty variant: a repeated completion is not compared.
CanRepeatCompleteAny(s, digest) == s.status = "committed"

CanRepeatComplete(s, digest) ==
    s.status = "committed" /\ s.committed_sha256 = digest

CanComplete(s, now) == s.status = "committing" /\ Timely(s, now)

\* Faulty variant: the instant of the completion is not recorded.
CompleteRowNoInstant(s, read, digest, now) ==
    [s EXCEPT !.status           = "committed",
              !.committed_sha256 = digest,
              !.updated_at       = MaxTime(now, read.updated_at)]

CompleteRow(s, read, digest, now) ==
    [s EXCEPT !.status           = "committed",
              !.committed_sha256 = digest,
              !.committed_at     = MaxTime(now, read.updated_at),
              !.updated_at       = MaxTime(now, read.updated_at)]

----------------------------------------------------------------------------
(* Store.Abort: no expiry check, an expired upload may still be aborted.   *)
CanRepeatAbort(s) == s.status \in {"aborted", "expired"}

CanAbort(s, now) ==
    s.status \in {"uploading", "committing"} /\ s.created_at <= now

AbortRow(s, read, now) ==
    [s EXCEPT !.status = "aborted", !.updated_at = MaxTime(now, read.updated_at)]
============================================================================
