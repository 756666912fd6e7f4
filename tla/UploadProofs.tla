---------------------------- MODULE UploadProofs ----------------------------
(***************************************************************************)
(* Upload keeps its promises for every set of uploads, owners, sizes and   *)
(* chunk sizes, every TTL and clock skew, and any number of calls and      *)
(* transactions in progress.                                               *)
(*                                                                         *)
(* UploadInv is inductive.  Its hinge is SnapshotCurrent: what a           *)
(* transaction read is the stored row, so each write is one of the row     *)
(* steps proved first (lemma TransactionStep puts them into the tables),   *)
(* and every other step leaves the tables alone (QuietStep).               *)
(***************************************************************************)
EXTENDS Upload, TLAPS

----------------------------------------------------------------------------
(* One upload_session row and its part rows: what each statement of        *)
(* PostgresStore does to them keeps SessionInv, whatever the sizes, the    *)
(* chunk size and the observed instants.                                   *)

\* The parts before the last are full chunks and the last is not empty.
Geometry(s) ==
    /\ (s.expected_chunks - 1) * s.chunk_size < s.declared_size
    /\ s.declared_size <= s.expected_chunks * s.chunk_size

\* Every stored instant of an upload that is not aborted lies before the expiry:
\* it is what some call read from its clock in time.
InTime(s, parts) ==
    /\ s.status \in {"uploading", "committing", "committed"} => s.updated_at < s.expires_at
    /\ s.status = "committed" => s.committed_at < s.expires_at
    /\ \A p \in parts : s.created_at <= p.created_at /\ p.created_at < s.expires_at

\* Everything that holds of a stored session and its parts.
SessionInv(s, parts) ==
    /\ Geometry(s)
    /\ ProgressTold(s, parts)
    /\ InTime(s, parts)
    /\ ValidateStoredSession(s)
    /\ TableConstraints(s, parts)

----------------------------------------------------------------------------
\* expectedChunks, as Manager.Start computes it, is at least one; all chunks but
\* the last fit strictly below the declared size, and all of them cover it.
LEMMA ChunksCover ==
    ASSUME NEW d \in Nat \ {0}, NEW c \in Nat \ {0}
    PROVE  /\ ExpectedChunks(d, c) \in Nat \ {0}
           /\ (ExpectedChunks(d, c) - 1) * c < d
           /\ d <= ExpectedChunks(d, c) * c
<1> DEFINE q == (d - 1) \div c
<1>1. q \in Nat /\ d - 1 >= 0
  OBVIOUS
<1>2. q * c <= d - 1 /\ d - 1 < (q + 1) * c
  BY <1>1
<1>3. ExpectedChunks(d, c) = q + 1
  BY DEF ExpectedChunks
<1> HIDE DEF q
<1> QED
  BY <1>1, <1>2, <1>3

\* The bound of int32 is a natural number.
LEMMA Int32Bound == MaxInt32 \in Nat
BY SMT DEF MaxInt32

\* maxTime returns one of its arguments, and neither is later.
LEMMA MaxTimeFacts ==
    ASSUME NEW a \in Nat, NEW b \in Nat
    PROVE  /\ MaxTime(a, b) \in Nat
           /\ MaxTime(a, b) >= a
           /\ MaxTime(a, b) >= b
           /\ MaxTime(a, b) = a \/ MaxTime(a, b) = b
BY DEF MaxTime

\* The fields of a session have the types of their columns.
LEMMA SessionFields ==
    ASSUME NEW s \in Session
    PROVE  /\ s.declared_size \in Nat \ {0}
           /\ s.chunk_size \in Nat \ {0}
           /\ s.expected_chunks \in Nat \ {0}
           /\ s.received_chunks \in Nat
           /\ s.received_bytes \in Nat
           /\ s.status \in UploadStatus
           /\ s.created_at \in Nat
           /\ s.updated_at \in Nat
           /\ s.committed_at \in Nat \cup {NoTime}
           /\ s.expires_at \in Nat
           /\ s.committed_sha256 \in Digests \cup {NoDigest}
           /\ s # NoSession
<1>1. s.status \in UploadStatus
  BY DEF Session
<1>2. s # NoSession
  BY <1>1 DEF NoSession, UploadStatus
<1> QED
  BY <1>2 DEF Session

\* Fewer than all parts of a session fall short of the declared size.
LEMMA BytesShort ==
    ASSUME NEW s \in Session, Geometry(s), NEW n \in Nat, n < s.expected_chunks
    PROVE  Consumed(s, n) \in Nat /\ Consumed(s, n) < s.declared_size
<1> DEFINE c == s.chunk_size
           e == s.expected_chunks
           d == s.declared_size
<1>1. c \in Nat \ {0} /\ e \in Nat \ {0} /\ d \in Nat \ {0}
  BY SessionFields
<1>2. (e - 1) * c < d /\ n <= e - 1
  BY <1>1 DEF Geometry
<1> HIDE DEF c, e, d
<1>3. n * c \in Nat /\ n * c <= (e - 1) * c
  BY <1>1, <1>2
<1>4. Consumed(s, n) = n * c
  BY DEF Consumed, c
<1>5. (e - 1) * c \in Int
  BY <1>1
<1> QED
  BY <1>1, <1>2, <1>3, <1>4, <1>5 DEF d

----------------------------------------------------------------------------
\* PostgresStore.Create inserts a session that satisfies the invariant, with no
\* part.
LEMMA StartKeeps ==
    ASSUME NEW c \in StartCall
    PROVE  LET s == StartRow(c.owner, c.declared, c.chunk, c.now, SessionTTL)
           IN s \in Session /\ SessionInv(s, {})
<1> DEFINE e == ExpectedChunks(c.declared, c.chunk)
           s == StartRow(c.owner, c.declared, c.chunk, c.now, SessionTTL)
<1>1. /\ c.owner \in Owners /\ c.declared \in Nat \ {0}
      /\ c.chunk \in Nat \ {0} /\ c.now \in Nat /\ e <= MaxInt32
  <2>1. c \in [op : {"start"}, upload : Uploads, owner : Owners,
               declared : DeclaredSizes, chunk : ChunkSizes, now : Nat]
    BY DEF StartCall
  <2>2. e <= MaxInt32
    BY DEF StartCall
  <2>3. /\ c.owner \in Owners /\ c.declared \in DeclaredSizes
        /\ c.chunk \in ChunkSizes /\ c.now \in Nat
    BY <2>1
  <2>4. DeclaredSizes \subseteq Nat \ {0} /\ ChunkSizes \subseteq Nat \ {0}
    BY UploadPolicyAssumption, Int32Bound
  <2> HIDE DEF e
  <2> QED
    BY <2>2, <2>3, <2>4
<1>2. /\ e \in Nat \ {0} /\ (e - 1) * c.chunk < c.declared
      /\ c.declared <= e * c.chunk
  BY <1>1, ChunksCover
<1>3. SessionTTL \in Nat \ {0}
  BY UploadPolicyAssumption
<1> HIDE DEF e
<1>4. s = [owner |-> c.owner, declared_size |-> c.declared, chunk_size |-> c.chunk,
           expected_chunks |-> e, received_chunks |-> 0, received_bytes |-> 0,
           status |-> "uploading", committed_sha256 |-> NoDigest,
           created_at |-> c.now, updated_at |-> c.now, committed_at |-> NoTime,
           expires_at |-> c.now + SessionTTL]
  BY DEF StartRow, e
<1>5. s \in Session
  BY <1>1, <1>2, <1>3, <1>4 DEF Session, UploadStatus
<1>6. /\ s.declared_size = c.declared /\ s.chunk_size = c.chunk /\ s.expected_chunks = e
      /\ s.received_chunks = 0 /\ s.received_bytes = 0 /\ s.status = "uploading"
      /\ s.committed_sha256 = NoDigest /\ s.committed_at = NoTime
      /\ s.created_at = c.now /\ s.updated_at = c.now
      /\ s.expires_at = c.now + SessionTTL
  BY <1>4
<1> HIDE DEF s
<1>7. Geometry(s)
  BY <1>2, <1>6 DEF Geometry
<1>8. ProgressTold(s, {})
  <2>1. BytesUpTo(s, 0) = 0
    BY <1>1, <1>2, <1>6 DEF BytesUpTo, Consumed
  <2> QED
    BY <2>1, <1>2, <1>6 DEF ProgressTold
<1>9. InTime(s, {})
  BY <1>1, <1>3, <1>6 DEF InTime
<1>10. ValidateStoredSession(s)
  BY <1>1, <1>2, <1>3, <1>6 DEF ValidateStoredSession, e
<1>11. TableConstraints(s, {})
  BY <1>1, <1>2, <1>6 DEF TableConstraints
<1> QED
  BY <1>5, <1>7, <1>8, <1>9, <1>10, <1>11 DEF SessionInv, s

\* PostgresStore.RecordPart keeps the invariant when it accepts the next part:
\* the counters grow by exactly the part that was inserted.
LEMMA AddPartKeeps ==
    ASSUME NEW s \in Session, NEW parts \in SUBSET Part, SessionInv(s, parts),
           NEW w \in PartCall, CanAddPart(s, parts, w)
    PROVE  LET new == AddPartRow(s, s, w)
               newParts == parts \cup {PartOf(w)}
           IN /\ new \in Session
              /\ PartOf(w) \in Part
              /\ SessionInv(new, newParts)
              /\ Forward(s, new, parts, newParts)
<1> DEFINE new == AddPartRow(s, s, w)
           newParts == parts \cup {PartOf(w)}
           n == s.received_chunks
           t == MaxTime(w.now, s.updated_at)
<1>1. /\ w.upload \in Uploads /\ w.index \in Nat /\ w.size \in Nat \ {0}
      /\ w.digest \in Digests /\ w.backend \in BackendParts /\ w.now \in Nat
  BY Int32Bound DEF PartCall
<1>2. /\ s.declared_size \in Nat \ {0} /\ s.chunk_size \in Nat \ {0}
      /\ s.expected_chunks \in Nat \ {0} /\ n \in Nat /\ s.received_bytes \in Nat
      /\ s.created_at \in Nat /\ s.updated_at \in Nat /\ s.expires_at \in Nat
  BY SessionFields
<1>3. /\ s.created_at <= w.now /\ w.now < s.expires_at /\ s.status = "uploading"
      /\ w.index = n /\ n < s.expected_chunks
      /\ w.size = ExpectedPartSize(s, n)
      /\ \A p \in parts : p.part_index # n
  BY DEF CanAddPart, Timely, HasPartSize, Existing
<1>4. t \in Nat /\ t >= w.now /\ t >= s.updated_at /\ (t = w.now \/ t = s.updated_at)
  BY <1>1, <1>2, MaxTimeFacts
<1> HIDE DEF t
<1>5. new = [s EXCEPT !.received_chunks = n + 1, !.received_bytes = s.received_bytes + w.size,
                      !.updated_at = t]
  BY DEF AddPartRow, t
<1>6. new \in Session
  <2>1. n + 1 \in Nat /\ s.received_bytes + w.size \in Nat
    BY <1>1, <1>2
  <2> HIDE DEF new, n
  <2> QED
    BY <1>4, <1>5, <2>1 DEF Session
<1>7. /\ new.declared_size = s.declared_size /\ new.chunk_size = s.chunk_size
      /\ new.expected_chunks = s.expected_chunks /\ new.received_chunks = n + 1
      /\ new.received_bytes = s.received_bytes + w.size /\ new.status = s.status
      /\ new.committed_sha256 = s.committed_sha256 /\ new.committed_at = s.committed_at
      /\ new.created_at = s.created_at /\ new.updated_at = t /\ new.expires_at = s.expires_at
      /\ new.owner = s.owner
  BY <1>5 DEF Session
<1>8. /\ PartOf(w) \in Part /\ PartOf(w).part_index = n /\ PartOf(w).byte_size = w.size
      /\ PartOf(w).created_at = w.now
  BY <1>1, <1>3 DEF PartOf, Part
<1> HIDE DEF new
<1>9. \A i : ExpectedPartSize(new, i) = ExpectedPartSize(s, i)
  BY <1>7 DEF ExpectedPartSize, Consumed
<1>10. new.received_bytes = BytesUpTo(new, n + 1)
  <2>1. s.received_bytes = n * s.chunk_size
    BY <1>2, <1>3 DEF SessionInv, ProgressTold, BytesUpTo, Consumed
  <2>2. CASE n + 1 = s.expected_chunks
    <3>1. w.size = s.declared_size - n * s.chunk_size
      BY <1>2, <1>3, <2>2 DEF ExpectedPartSize, Consumed
    <3>2. BytesUpTo(new, n + 1) = s.declared_size
      BY <1>7, <2>2 DEF BytesUpTo
    <3>3. n * s.chunk_size \in Int
      BY <1>2
    <3> QED
      BY <1>2, <1>7, <2>1, <3>1, <3>2, <3>3
  <2>3. CASE n + 1 # s.expected_chunks
    <3>1. w.size = s.chunk_size
      BY <1>2, <1>3, <2>3 DEF ExpectedPartSize
    <3>2. BytesUpTo(new, n + 1) = (n + 1) * s.chunk_size
      BY <1>7, <2>3 DEF BytesUpTo, Consumed
    <3> QED
      BY <1>2, <1>7, <2>1, <3>1, <3>2
  <2> QED
    BY <2>2, <2>3
<1>11. ProgressTold(new, newParts)
  <2>1. {p.part_index : p \in newParts} = 0 .. (n + 1) - 1
    <3>1. {p.part_index : p \in parts} = 0 .. n - 1
      BY DEF SessionInv, ProgressTold
    <3>2. {p.part_index : p \in newParts} = {p.part_index : p \in parts} \cup {n}
      BY <1>8
    <3> QED
      BY <3>1, <3>2, <1>2
  <2>2. \A p, q \in newParts : p.part_index = q.part_index => p = q
    BY <1>3, <1>8 DEF SessionInv, ProgressTold
  <2>3. \A p \in newParts : p.byte_size = ExpectedPartSize(new, p.part_index)
    BY <1>3, <1>8, <1>9 DEF SessionInv, ProgressTold
  <2> QED
    BY <1>2, <1>3, <1>7, <1>10, <2>1, <2>2, <2>3 DEF ProgressTold
<1>12. Geometry(new)
  BY <1>7 DEF SessionInv, Geometry
<1>13. InTime(new, newParts)
  BY <1>1, <1>2, <1>3, <1>4, <1>7, <1>8 DEF SessionInv, InTime
<1>14. new.received_bytes \in 0 .. s.declared_size
  <2>1. CASE n + 1 = s.expected_chunks
    BY <1>2, <1>7, <1>10, <2>1 DEF BytesUpTo
  <2>2. CASE n + 1 # s.expected_chunks
    <3>1. Consumed(new, n + 1) \in Nat /\ Consumed(new, n + 1) < new.declared_size
      BY <1>2, <1>3, <1>6, <1>7, <1>12, <2>2, BytesShort
    <3> QED
      BY <1>2, <1>7, <1>10, <2>2, <3>1 DEF BytesUpTo
  <2> QED
    BY <2>1, <2>2
<1>15. ValidateStoredSession(new)
  BY <1>2, <1>3, <1>4, <1>7, <1>14 DEF SessionInv, ValidateStoredSession
<1>16. TableConstraints(new, newParts)
  <2>1. \A p, q \in newParts : p.part_index = q.part_index => p = q
    BY <1>11 DEF ProgressTold
  <2> QED
    BY <1>2, <1>3, <1>4, <1>7, <1>14, <2>1 DEF SessionInv, TableConstraints
<1>17. Forward(s, new, parts, newParts)
  BY <1>2, <1>3, <1>4, <1>7 DEF Forward, Closed
<1> QED
  BY <1>6, <1>8, <1>11, <1>12, <1>13, <1>15, <1>16, <1>17 DEF SessionInv, new

\* A statement that changes nothing but the status, the two completion columns
\* and updated_at keeps the invariant, if the new status may have that instant.
LEMMA StatusKeeps ==
    ASSUME NEW s \in Session, NEW parts \in SUBSET Part, SessionInv(s, parts),
           NEW status \in UploadStatus, NEW t \in Nat, t >= s.updated_at,
           NEW digest \in Digests \cup {NoDigest}, NEW at \in Nat \cup {NoTime},
           status \in {"uploading", "committing", "committed"} => t < s.expires_at,
           IF status = "committed" THEN digest # NoDigest /\ at = t
                                   ELSE digest = NoDigest /\ at = NoTime
    PROVE  LET new == [s EXCEPT !.status = status, !.committed_sha256 = digest,
                                !.committed_at = at, !.updated_at = t]
           IN /\ new \in Session
              /\ SessionInv(new, parts)
              /\ /\ s.status \in {"uploading", "committing"}
                 /\ s.status = "committing" => status # "uploading"
                 => Forward(s, new, parts, parts)
<1> DEFINE new == [s EXCEPT !.status = status, !.committed_sha256 = digest,
                            !.committed_at = at, !.updated_at = t]
<1>1. new \in Session
  BY DEF Session
<1>2. /\ new.declared_size = s.declared_size /\ new.chunk_size = s.chunk_size
      /\ new.expected_chunks = s.expected_chunks
      /\ new.received_chunks = s.received_chunks /\ new.received_bytes = s.received_bytes
      /\ new.status = status /\ new.committed_sha256 = digest /\ new.committed_at = at
      /\ new.created_at = s.created_at /\ new.updated_at = t /\ new.expires_at = s.expires_at
      /\ new.owner = s.owner
  BY DEF Session
<1>3. s.created_at \in Nat /\ s.updated_at \in Nat /\ s.expires_at \in Nat
  BY SessionFields
<1> HIDE DEF new
<1>4. Geometry(new)
  BY <1>2 DEF SessionInv, Geometry
<1>5. ProgressTold(new, parts)
  BY <1>2 DEF SessionInv, ProgressTold, BytesUpTo, Consumed, ExpectedPartSize
<1>6. InTime(new, parts)
  BY <1>2, <1>3 DEF SessionInv, InTime, NoTime
<1>7. ValidateStoredSession(new)
  BY <1>2, <1>3 DEF SessionInv, ValidateStoredSession, NoTime
<1>8. TableConstraints(new, parts)
  BY <1>2, <1>3 DEF SessionInv, ValidateStoredSession, TableConstraints, NoTime
<1>9. /\ s.status \in {"uploading", "committing"}
      /\ s.status = "committing" => status # "uploading"
      => Forward(s, new, parts, parts)
  BY <1>2, <1>3 DEF Forward, Closed
<1> QED
  BY <1>1, <1>4, <1>5, <1>6, <1>7, <1>8, <1>9 DEF SessionInv, new

\* A statement that writes nothing is a step forward as well.
LEMMA SameForward ==
    ASSUME NEW s \in Session, NEW parts
    PROVE  Forward(s, s, parts, parts)
BY SessionFields DEF Forward

\* Rows that are not committed carry no completion columns.
LEMMA OpenRow ==
    ASSUME NEW s \in Session, NEW parts, SessionInv(s, parts), s.status # "committed"
    PROVE  s.committed_sha256 = NoDigest /\ s.committed_at = NoTime
BY DEF SessionInv, ValidateStoredSession

\* PostgresStore.BeginCommit keeps the invariant.
LEMMA BeginCommitKeeps ==
    ASSUME NEW s \in Session, NEW parts \in SUBSET Part, SessionInv(s, parts),
           NEW now \in Nat, CanBeginCommit(s, parts, now)
    PROVE  LET new == BeginCommitRow(s, s, now)
           IN /\ new \in Session
              /\ SessionInv(new, parts)
              /\ Forward(s, new, parts, parts)
              /\ new.status = "committing"
<1>1. CASE s.status = "committing"
  BY <1>1, SameForward DEF BeginCommitRow
<1>2. CASE s.status = "uploading"
  <2> DEFINE t == MaxTime(now, s.updated_at)
             new == [s EXCEPT !.status = "committing", !.committed_sha256 = NoDigest,
                              !.committed_at = NoTime, !.updated_at = t]
  <2>1. s.updated_at \in Nat /\ s.expires_at \in Nat
    BY SessionFields
  <2>2. t \in Nat /\ t >= s.updated_at /\ (t = now \/ t = s.updated_at)
    BY <2>1, MaxTimeFacts
  <2>3. now < s.expires_at /\ s.updated_at < s.expires_at
    BY <1>2 DEF CanBeginCommit, Timely, SessionInv, InTime
  <2> HIDE DEF t
  <2>4. t < s.expires_at
    BY <2>1, <2>2, <2>3
  <2>5. new \in Session /\ SessionInv(new, parts) /\ Forward(s, new, parts, parts)
    BY <1>2, <2>2, <2>4, StatusKeeps DEF UploadStatus
  <2>6. BeginCommitRow(s, s, now) = new
    <3>1. s.committed_sha256 = NoDigest /\ s.committed_at = NoTime
      BY <1>2, OpenRow
    <3>2. BeginCommitRow(s, s, now) = [s EXCEPT !.status = "committing", !.updated_at = t]
      BY <1>2 DEF BeginCommitRow, t
    <3> QED
      BY <3>1, <3>2 DEF Session
  <2>7. new.status = "committing"
    BY DEF Session
  <2> QED
    BY <2>5, <2>6, <2>7
<1> QED
  BY <1>1, <1>2 DEF CanBeginCommit

\* PostgresStore.Complete keeps the invariant.
LEMMA CompleteKeeps ==
    ASSUME NEW s \in Session, NEW parts \in SUBSET Part, SessionInv(s, parts),
           NEW now \in Nat, NEW digest \in Digests, CanComplete(s, now)
    PROVE  LET new == CompleteRow(s, s, digest, now)
           IN /\ new \in Session
              /\ SessionInv(new, parts)
              /\ Forward(s, new, parts, parts)
              /\ new.status = "committed"
              /\ new.committed_sha256 = digest
<1> DEFINE t == MaxTime(now, s.updated_at)
           new == [s EXCEPT !.status = "committed", !.committed_sha256 = digest,
                            !.committed_at = t, !.updated_at = t]
<1>1. s.updated_at \in Nat /\ s.expires_at \in Nat
  BY SessionFields
<1>2. t \in Nat /\ t >= s.updated_at /\ (t = now \/ t = s.updated_at)
  BY <1>1, MaxTimeFacts
<1>3. s.status = "committing" /\ now < s.expires_at /\ s.updated_at < s.expires_at
  BY DEF CanComplete, Timely, SessionInv, InTime
<1> HIDE DEF t
<1>4. t < s.expires_at
  BY <1>1, <1>2, <1>3
<1>5. new \in Session /\ SessionInv(new, parts) /\ Forward(s, new, parts, parts)
  BY <1>2, <1>3, <1>4, DigestAssumption, StatusKeeps DEF UploadStatus
<1>6. CompleteRow(s, s, digest, now) = new
  BY DEF CompleteRow, t, Session
<1>7. new.status = "committed" /\ new.committed_sha256 = digest
  BY DEF Session
<1> QED
  BY <1>5, <1>6, <1>7

\* PostgresStore.Abort keeps the invariant.
LEMMA AbortKeeps ==
    ASSUME NEW s \in Session, NEW parts \in SUBSET Part, SessionInv(s, parts),
           NEW now \in Nat, CanAbort(s, now)
    PROVE  LET new == AbortRow(s, s, now)
           IN /\ new \in Session
              /\ SessionInv(new, parts)
              /\ Forward(s, new, parts, parts)
              /\ new.status = "aborted"
<1> DEFINE t == MaxTime(now, s.updated_at)
           new == [s EXCEPT !.status = "aborted", !.committed_sha256 = NoDigest,
                            !.committed_at = NoTime, !.updated_at = t]
<1>1. t \in Nat /\ t >= s.updated_at
  BY SessionFields, MaxTimeFacts
<1>2. s.status \in {"uploading", "committing"}
  BY DEF CanAbort
<1> HIDE DEF t
<1>3. new \in Session /\ SessionInv(new, parts) /\ Forward(s, new, parts, parts)
  BY <1>1, <1>2, StatusKeeps DEF UploadStatus
<1>4. AbortRow(s, s, now) = new
  <2>1. s.committed_sha256 = NoDigest /\ s.committed_at = NoTime
    BY <1>2, OpenRow
  <2> QED
    BY <2>1 DEF AbortRow, t, Session
<1>5. new.status = "aborted"
  BY DEF Session
<1> QED
  BY <1>3, <1>4, <1>5

\* Answers already sent stay true over a step forward.
LEMMA RepliesStayTrue ==
    ASSUME NEW s \in Session, NEW new \in Session, NEW parts, NEW newParts,
           Forward(s, new, parts, newParts), NEW r
    PROVE  /\ PartKept(r, parts) => PartKept(r, newParts)
           /\ PlanExact(r, s, parts) => PlanExact(r, new, newParts)
           /\ OutcomeTold(r, s) => OutcomeTold(r, new)
<1>1. s.status \in UploadStatus /\ new.status \in UploadStatus
  BY SessionFields
<1>2. PartKept(r, parts) => PartKept(r, newParts)
  BY DEF Forward, PartKept
<1>3. s.status # "uploading" => new.status # "uploading"
  BY <1>1 DEF Forward, Closed, UploadStatus
<1>4. PlanExact(r, s, parts) => PlanExact(r, new, newParts)
  BY <1>3 DEF Forward, PlanExact
<1>5. OutcomeTold(r, s) => OutcomeTold(r, new)
  BY DEF Forward, Closed, OutcomeTold
<1> QED
  BY <1>2, <1>4, <1>5

----------------------------------------------------------------------------
(* The tables, the transactions and the answers.                           *)


\* What an answer says is true of the session and its parts.
Told(r, s, parts) ==
    /\ r.op = "part" => PartKept(r, parts)
    /\ r.op = "plan" => PlanExact(r, s, parts)
    /\ OutcomeTold(r, s)

SessionsKept ==
    \A u \in Uploads :
        IF u \in Sessions
        THEN SessionInv(upload_session[u], PartsOf(u))
        ELSE PartsOf(u) = {}

RepliesTrue ==
    \A r \in replies :
        r.upload \in Sessions /\ Told(r, upload_session[r.upload], PartsOf(r.upload))

\* The inductive invariant.
UploadInv == TypeOK /\ SnapshotCurrent /\ SessionsKept /\ RepliesTrue

\* What OnlyForward says of one step.
ForwardStep ==
    \A u \in Sessions :
        Forward(upload_session[u], upload_session'[u], PartsOf(u), PartsOf(u)')

----------------------------------------------------------------------------
\* Ids with a row, and the row.
LEMMA SessionRows ==
    ASSUME TypeOK
    PROVE  /\ Sessions \subseteq Uploads
           /\ \A u \in Sessions : upload_session[u] \in Session
           /\ \A u \in Uploads : upload_session[u] \in Session => u \in Sessions
BY SessionFields DEF TypeOK, Sessions

\* A transaction works on a stored session that belongs to its caller.
LEMMA TransactionRow ==
    ASSUME TypeOK, SnapshotCurrent, NEW t \in txs
    PROVE  /\ t.call \in OwnedCall
           /\ t.call.upload \in Sessions
           /\ t.call.now \in Nat
           /\ t.read \in Session
           /\ t.read = upload_session[t.call.upload]
<1>1. t.call \in OwnedCall /\ t.read \in Session
  BY DEF TypeOK, Transaction
<1>2. t.call.upload \in Uploads /\ t.call.now \in Nat
  BY <1>1 DEF OwnedCall, PartCall, PlainCall, CompleteCall
<1>3. t.read = upload_session[t.call.upload]
  BY DEF SnapshotCurrent
<1> QED
  BY <1>1, <1>2, <1>3, SessionRows

\* A step that leaves the tables and the answers alone keeps the invariant, if
\* calls and transactions keep their types and snapshots.
LEMMA QuietStep ==
    ASSUME UploadInv, UNCHANGED <<upload_session, upload_part, replies>>,
           TypeOK', SnapshotCurrent'
    PROVE  UploadInv' /\ ForwardStep
<1>1. Sessions' = Sessions /\ \A u : PartsOf(u)' = PartsOf(u)
  BY DEF Sessions, PartsOf
<1>2. SessionsKept' /\ RepliesTrue'
  BY <1>1 DEF UploadInv, SessionsKept, RepliesTrue
<1>3. ForwardStep
  BY <1>1, SessionRows, SameForward DEF UploadInv, ForwardStep
<1> QED
  BY <1>2, <1>3 DEF UploadInv

\* A transaction that moves its session forward, adds parts to it and answers
\* the truth keeps the invariant.
LEMMA TransactionStep ==
    ASSUME UploadInv, NEW t \in txs, NEW u, u = t.call.upload,
           NEW new \in Session, NEW added \in SUBSET Part,
           \A p \in added : p.upload = u,
           NEW r \in Reply, r.upload = u,
           upload_session' = [upload_session EXCEPT ![u] = new],
           upload_part' = upload_part \cup added,
           replies' = replies \cup {r},
           End(t),
           SessionInv(new, PartsOf(u) \cup added),
           Forward(upload_session[u], new, PartsOf(u), PartsOf(u) \cup added),
           Told(r, new, PartsOf(u) \cup added)
    PROVE  UploadInv' /\ ForwardStep
<1>1. TypeOK /\ SnapshotCurrent /\ SessionsKept /\ RepliesTrue
  BY DEF UploadInv
<1>2. u \in Sessions /\ u \in Uploads /\ upload_session[u] \in Session /\ new # NoSession
  BY <1>1, TransactionRow, SessionRows, SessionFields
<1>3. /\ upload_session'[u] = new
      /\ \A x \in Uploads : x # u => upload_session'[x] = upload_session[x]
  BY <1>1, <1>2 DEF TypeOK
<1>4. Sessions' = Sessions
  BY <1>2, <1>3 DEF Sessions
<1>5. /\ PartsOf(u)' = PartsOf(u) \cup added
      /\ \A x : x # u => PartsOf(x)' = PartsOf(x)
  BY DEF PartsOf
<1>6. TypeOK'
  <2>1. upload_session' \in [Uploads -> Session \cup {NoSession}]
    BY <1>1, <1>2 DEF TypeOK
  <2>2. /\ upload_part' \subseteq Part /\ clock' \in Nat
        /\ calls' \subseteq StartCall \cup OwnedCall
        /\ txs' \subseteq Transaction /\ replies' \subseteq Reply
    BY <1>1 DEF TypeOK, End
  <2> QED
    BY <2>1, <2>2 DEF TypeOK
<1>7. SnapshotCurrent'
  <2> SUFFICES ASSUME NEW x \in txs'
               PROVE  /\ x.read = upload_session'[x.call.upload]
                      /\ x.read.owner = x.call.owner
                      /\ \A y \in txs' : y.call.upload = x.call.upload => y = x
    BY DEF SnapshotCurrent
  <2>1. x \in txs /\ x # t /\ txs' \subseteq txs
    BY DEF End
  <2>2. x.call.upload # u
    BY <1>1, <2>1 DEF SnapshotCurrent
  <2>3. x.call.upload \in Uploads
    BY <1>1, <2>1, TransactionRow, SessionRows
  <2> QED
    BY <1>1, <1>3, <2>1, <2>2, <2>3 DEF SnapshotCurrent
<1>8. SessionsKept'
  BY <1>1, <1>2, <1>3, <1>4, <1>5 DEF SessionsKept
<1>9. RepliesTrue'
  <2> SUFFICES ASSUME NEW x \in replies'
               PROVE  /\ x.upload \in Sessions
                      /\ Told(x, upload_session'[x.upload], PartsOf(x.upload)')
    BY <1>4 DEF RepliesTrue
  <2>1. CASE x = r
    BY <1>2, <1>3, <1>5, <2>1
  <2>2. CASE x \in replies /\ x.upload # u
    <3>1. x.upload \in Sessions /\ x.upload \in Uploads
      BY <1>1, <2>2, SessionRows DEF RepliesTrue
    <3> QED
      BY <1>1, <1>3, <1>5, <2>2, <3>1 DEF RepliesTrue
  <2>3. CASE x \in replies /\ x.upload = u
    <3>1. Told(x, upload_session[u], PartsOf(u))
      BY <1>1, <2>3 DEF RepliesTrue
    <3>2. Told(x, new, PartsOf(u) \cup added)
      BY <1>2, <3>1, RepliesStayTrue DEF Told
    <3> QED
      BY <1>2, <1>3, <1>5, <2>3, <3>2
  <2> QED
    BY <2>1, <2>2, <2>3
<1>10. ForwardStep
  <2> SUFFICES ASSUME NEW x \in Sessions
               PROVE  Forward(upload_session[x], upload_session'[x], PartsOf(x), PartsOf(x)')
    BY DEF ForwardStep
  <2>1. x \in Uploads /\ upload_session[x] \in Session
    BY <1>1, SessionRows
  <2>2. CASE x = u
    BY <1>3, <1>5, <2>2
  <2>3. CASE x # u
    BY <1>3, <1>5, <2>1, <2>3, SameForward
  <2> QED
    BY <2>2, <2>3
<1> QED
  BY <1>6, <1>7, <1>8, <1>9, <1>10 DEF UploadInv

----------------------------------------------------------------------------
(* A new call in flight, a call lost or not found, a lock taken, a         *)
(* rollback, a refusal and the passing of time touch neither the tables    *)
(* nor the answers.                                                        *)

\* A Manager method sends its call.
LEMMA SendStep ==
    ASSUME UploadInv, NEW c \in StartCall \cup OwnedCall, Send(c)
    PROVE  UploadInv' /\ ForwardStep
<1>1. TypeOK'
  BY DEF Send, UploadInv, TypeOK
<1>2. SnapshotCurrent'
  BY DEF Send, UploadInv, SnapshotCurrent
<1> QED
  BY <1>1, <1>2, QuietStep DEF Send

\* A call that is lost or not found.
LEMMA LoseStep ==
    ASSUME UploadInv, NEW c \in calls, Lose(c)
    PROVE  UploadInv' /\ ForwardStep
<1>1. TypeOK'
  BY DEF Lose, UploadInv, TypeOK
<1>2. SnapshotCurrent'
  BY DEF Lose, UploadInv, SnapshotCurrent
<1> QED
  BY <1>1, <1>2, QuietStep DEF Lose

\* A transaction that ends without writing.
LEMMA RollbackStep ==
    ASSUME UploadInv, NEW t \in txs, Rollback(t)
    PROVE  UploadInv' /\ ForwardStep
<1>1. TypeOK'
  BY DEF Rollback, End, UploadInv, TypeOK
<1>2. SnapshotCurrent'
  BY DEF Rollback, End, UploadInv, SnapshotCurrent
<1> QED
  BY <1>1, <1>2, QuietStep DEF Rollback

\* Tick and stuttering.
LEMMA TickStep ==
    ASSUME UploadInv, Tick \/ UNCHANGED vars
    PROVE  UploadInv' /\ ForwardStep
<1>1. UNCHANGED <<upload_session, upload_part, calls, txs, replies>> /\ clock' \in Nat
  BY DEF Tick, vars, UploadInv, TypeOK
<1>2. TypeOK'
  BY <1>1 DEF UploadInv, TypeOK
<1>3. SnapshotCurrent'
  BY <1>1 DEF UploadInv, SnapshotCurrent
<1> QED
  BY <1>1, <1>2, <1>3, QuietStep

\* lockOwnedSession reads the row it locks, and no other transaction has it.
LEMMA LockStep ==
    ASSUME UploadInv, NEW c \in calls, Lock(c)
    PROVE  UploadInv' /\ ForwardStep
<1> DEFINE t == [call |-> c, read |-> upload_session[c.upload]]
<1>1. TypeOK /\ SnapshotCurrent
  BY DEF UploadInv
<1>2. c \in OwnedCall
  BY <1>1 DEF Lock, TypeOK, StartCall
<1>3. upload_session[c.upload] \in Session
  BY <1>1, SessionRows DEF Lock
<1>4. t \in Transaction
  BY <1>2, <1>3 DEF Transaction
<1>5. TypeOK'
  BY <1>1, <1>4 DEF Lock, TypeOK
<1>6. t.call = c /\ t.read = upload_session[c.upload]
  OBVIOUS
<1>7. SnapshotCurrent'
  <2>1. /\ upload_session' = upload_session /\ txs' = txs \cup {t}
        /\ upload_session[c.upload].owner = c.owner
        /\ \A x \in txs : x.call.upload # c.upload
    BY DEF Lock, LockFree
  <2> HIDE DEF t
  <2> QED
    BY <1>1, <1>6, <2>1 DEF SnapshotCurrent
<1> QED
  BY <1>5, <1>7, QuietStep DEF Lock

\* PostgresStore.Create adds a session, or leaves the one that has the id.
LEMMA CreateStep ==
    ASSUME UploadInv, NEW c \in calls, Create(c)
    PROVE  UploadInv' /\ ForwardStep
<1>1. TypeOK /\ SnapshotCurrent /\ SessionsKept /\ RepliesTrue
  BY DEF UploadInv
<1>2. UNCHANGED <<upload_part, clock, txs, replies>> /\ calls' = calls \ {c}
  BY DEF Create
<1>3. CASE c.upload \in Sessions
  <2>1. upload_session' = upload_session
    BY <1>3 DEF Create
  <2>2. TypeOK'
    BY <1>1, <1>2, <2>1 DEF TypeOK
  <2>3. SnapshotCurrent'
    BY <1>1, <1>2, <2>1 DEF SnapshotCurrent
  <2> QED
    BY <1>2, <2>1, <2>2, <2>3, QuietStep
<1>4. CASE c.upload \notin Sessions
  <2>1. c \in StartCall /\ c.upload \in Uploads
    BY <1>1 DEF Create, TypeOK, OwnedCall, PartCall, PlainCall, CompleteCall, StartCall
  <2>2. PICK new \in Session :
           /\ upload_session' = [upload_session EXCEPT ![c.upload] = new]
           /\ SessionInv(new, {})
    BY <1>4, <2>1, StartKeeps DEF Create
  <2>3. /\ upload_session'[c.upload] = new /\ new # NoSession
        /\ \A x \in Uploads : x # c.upload => upload_session'[x] = upload_session[x]
    BY <1>1, <2>1, <2>2, SessionFields DEF TypeOK
  <2>4. Sessions' = Sessions \cup {c.upload} /\ \A x : PartsOf(x)' = PartsOf(x)
    BY <1>2, <2>1, <2>3 DEF Sessions, PartsOf
  <2>5. TypeOK'
    BY <1>1, <1>2, <2>1, <2>2 DEF TypeOK
  <2>6. \A x \in Sessions : x # c.upload /\ upload_session'[x] = upload_session[x]
    BY <1>1, <1>4, <2>3, SessionRows
  <2>7. SnapshotCurrent'
    <3>1. \A t \in txs : upload_session'[t.call.upload] = upload_session[t.call.upload]
      BY <1>1, <2>6, TransactionRow
    <3> QED
      BY <1>1, <1>2, <3>1 DEF SnapshotCurrent
  <2>8. SessionsKept'
    <3> SUFFICES ASSUME NEW x \in Uploads
                 PROVE  IF x \in Sessions'
                        THEN SessionInv(upload_session'[x], PartsOf(x))
                        ELSE PartsOf(x) = {}
      BY <2>4 DEF SessionsKept
    <3>1. CASE x = c.upload
      BY <1>1, <1>4, <2>1, <2>2, <2>3, <2>4, <3>1 DEF SessionsKept
    <3>2. CASE x # c.upload
      BY <1>1, <2>3, <2>4, <3>2 DEF SessionsKept
    <3> QED
      BY <3>1, <3>2
  <2>9. RepliesTrue'
    BY <1>1, <1>2, <2>4, <2>6 DEF RepliesTrue
  <2>10. ForwardStep
    BY <1>1, <2>4, <2>6, SessionRows, SameForward DEF ForwardStep
  <2> QED
    BY <2>5, <2>7, <2>8, <2>9, <2>10 DEF UploadInv
<1> QED
  BY <1>3, <1>4

----------------------------------------------------------------------------
\* RecordPart on an identical retry answers the stored part.
LEMMA RepeatPartStep ==
    ASSUME UploadInv, NEW t \in txs, RepeatPart(t)
    PROVE  UploadInv' /\ ForwardStep
<1> DEFINE c == t.call
           u == c.upload
           s == upload_session[u]
<1>1. TypeOK /\ SnapshotCurrent /\ SessionsKept /\ c.op = "part"
  BY DEF UploadInv, RepeatPart
<1>2. u \in Sessions /\ u \in Uploads /\ s \in Session /\ c \in OwnedCall
  BY <1>1, TransactionRow, SessionRows
<1>3. c.digest \in Digests
  BY <1>1, <1>2 DEF OwnedCall, PartCall, PlainCall, CompleteCall
<1>4. PartsOf(u) \subseteq Part
  BY <1>1 DEF TypeOK, PartsOf
<1>5. SessionInv(s, PartsOf(u))
  BY <1>1, <1>2 DEF SessionsKept
<1>6. PICK p \in Existing(PartsOf(u), c) :
         replies' = replies \cup {[op |-> "part", upload |-> u, sent |-> c.digest, part |-> p]}
  BY DEF RepeatPart, Answer
<1>7. p \in PartsOf(u) /\ p.sha256 = c.digest
  <2>1. PICK q \in Existing(PartsOf(u), c) : SamePart(q, c)
    BY DEF RepeatPart, CanRepeatPart
  <2>2. p \in PartsOf(u) /\ q \in PartsOf(u) /\ p.part_index = q.part_index
    BY <2>1 DEF Existing
  <2>3. p = q
    BY <1>5, <2>2 DEF SessionInv, ProgressTold
  <2> QED
    BY <2>1, <2>2, <2>3 DEF SamePart
<1> DEFINE r == [op |-> "part", upload |-> u, sent |-> c.digest, part |-> p]
<1>8. r \in Reply /\ r.upload = u /\ r.op = "part" /\ r.part = p /\ r.sent = c.digest
  BY <1>2, <1>3, <1>4, <1>7 DEF Reply
<1> HIDE DEF r
<1>9. Told(r, s, PartsOf(u))
  BY <1>7, <1>8 DEF Told, PartKept, OutcomeTold
<1>10. upload_session' = [upload_session EXCEPT ![u] = s] /\ upload_part' = upload_part \cup {}
  BY <1>1, <1>2 DEF RepeatPart, TypeOK
<1>11. Forward(s, s, PartsOf(u), PartsOf(u) \cup {}) /\ PartsOf(u) \cup {} = PartsOf(u)
  BY <1>2, SameForward
<1>12. replies' = replies \cup {r} /\ End(t)
  BY <1>6 DEF RepeatPart, r
<1> QED
  BY <1>2, <1>5, <1>8, <1>9, <1>10, <1>11, <1>12, TransactionStep

\* RecordPart inserts the next part.
LEMMA RecordPartStep ==
    ASSUME UploadInv, NEW t \in txs, RecordPart(t)
    PROVE  UploadInv' /\ ForwardStep
<1> DEFINE c == t.call
           u == c.upload
           s == upload_session[u]
           new == AddPartRow(s, s, c)
<1>1. TypeOK /\ SnapshotCurrent /\ SessionsKept /\ c.op = "part"
  BY DEF UploadInv, RecordPart
<1>2. u \in Sessions /\ u \in Uploads /\ s \in Session /\ c \in OwnedCall /\ t.read = s
  BY <1>1, TransactionRow, SessionRows
<1>3. c \in PartCall
  BY <1>1, <1>2 DEF OwnedCall, PlainCall, CompleteCall
<1>4. PartsOf(u) \in SUBSET Part
  BY <1>1 DEF TypeOK, PartsOf
<1>5. SessionInv(s, PartsOf(u))
  BY <1>1, <1>2 DEF SessionsKept
<1>6. CanAddPart(s, PartsOf(u), c)
  BY <1>2 DEF RecordPart
<1>7. /\ new \in Session /\ PartOf(c) \in Part
      /\ SessionInv(new, PartsOf(u) \cup {PartOf(c)})
      /\ Forward(s, new, PartsOf(u), PartsOf(u) \cup {PartOf(c)})
  BY <1>2, <1>3, <1>4, <1>5, <1>6, AddPartKeeps
<1>8. PartOf(c).upload = u /\ PartOf(c).sha256 = c.digest /\ c.digest \in Digests
  BY <1>3 DEF PartOf, PartCall
<1> DEFINE r == [op |-> "part", upload |-> u, sent |-> c.digest, part |-> PartOf(c)]
<1>9. r \in Reply /\ r.upload = u /\ r.op = "part" /\ r.part = PartOf(c) /\ r.sent = c.digest
  BY <1>2, <1>7, <1>8 DEF Reply
<1>10. /\ upload_session' = [upload_session EXCEPT ![u] = new]
       /\ upload_part' = upload_part \cup {PartOf(c)}
       /\ replies' = replies \cup {r} /\ End(t)
  BY <1>2 DEF RecordPart, Write, Answer
<1> HIDE DEF r, new
<1>11. Told(r, new, PartsOf(u) \cup {PartOf(c)})
  BY <1>8, <1>9 DEF Told, PartKept, OutcomeTold
<1> QED
  BY <1>7, <1>8, <1>9, <1>10, <1>11, TransactionStep

\* BeginCommit freezes the parts and hands out the plan.
LEMMA BeginCommitStep ==
    ASSUME UploadInv, NEW t \in txs, BeginCommit(t)
    PROVE  UploadInv' /\ ForwardStep
<1> DEFINE c == t.call
           u == c.upload
           s == upload_session[u]
           new == BeginCommitRow(s, s, c.now)
           r == [op |-> "plan", upload |-> u, parts |-> PartsOf(u)]
<1>1. TypeOK /\ SnapshotCurrent /\ SessionsKept
  BY DEF UploadInv
<1>2. u \in Sessions /\ u \in Uploads /\ s \in Session /\ c.now \in Nat /\ t.read = s
  BY <1>1, TransactionRow, SessionRows
<1>3. PartsOf(u) \in SUBSET Part
  BY <1>1 DEF TypeOK, PartsOf
<1>4. SessionInv(s, PartsOf(u))
  BY <1>1, <1>2 DEF SessionsKept
<1>5. CanBeginCommit(s, PartsOf(u), c.now)
  BY <1>2 DEF BeginCommit
<1>6. /\ new \in Session /\ SessionInv(new, PartsOf(u))
      /\ Forward(s, new, PartsOf(u), PartsOf(u)) /\ new.status = "committing"
  BY <1>2, <1>3, <1>4, <1>5, BeginCommitKeeps
<1>7. r \in Reply /\ r.upload = u /\ r.op = "plan" /\ r.parts = PartsOf(u)
  BY <1>2, <1>3 DEF Reply
<1>8. /\ upload_session' = [upload_session EXCEPT ![u] = new]
      /\ upload_part' = upload_part \cup {}
      /\ replies' = replies \cup {r} /\ End(t)
  BY <1>2 DEF BeginCommit, Write, Answer
<1> HIDE DEF r, new
<1>9. Told(r, new, PartsOf(u))
  BY <1>5, <1>6, <1>7
  DEF Told, PlanExact, OutcomeTold, CanBeginCommit, CompleteParts, Forward
<1>10. PartsOf(u) \cup {} = PartsOf(u)
  OBVIOUS
<1> QED
  BY <1>6, <1>7, <1>8, <1>9, <1>10, TransactionStep

\* Complete records the first digest, or confirms it.
LEMMA CompleteStep ==
    ASSUME UploadInv, NEW t \in txs, Complete(t)
    PROVE  UploadInv' /\ ForwardStep
<1> DEFINE c == t.call
           u == c.upload
           s == upload_session[u]
           r == [op |-> "complete", upload |-> u, digest |-> c.digest]
<1>1. TypeOK /\ SnapshotCurrent /\ SessionsKept /\ c.op = "complete"
  BY DEF UploadInv, Complete
<1>2. /\ u \in Sessions /\ u \in Uploads /\ s \in Session /\ c \in OwnedCall
      /\ c.now \in Nat /\ t.read = s
  BY <1>1, TransactionRow, SessionRows
<1>3. c.digest \in Digests
  BY <1>1, <1>2 DEF OwnedCall, PartCall, PlainCall, CompleteCall
<1>4. PartsOf(u) \in SUBSET Part
  BY <1>1 DEF TypeOK, PartsOf
<1>5. SessionInv(s, PartsOf(u))
  BY <1>1, <1>2 DEF SessionsKept
<1>6. r \in Reply /\ r.upload = u /\ r.op = "complete" /\ r.digest = c.digest
  BY <1>2, <1>3 DEF Reply
<1>7. upload_part' = upload_part \cup {} /\ replies' = replies \cup {r} /\ End(t)
  BY DEF Complete, Answer
<1>8. PartsOf(u) \cup {} = PartsOf(u)
  OBVIOUS
<1> HIDE DEF r
<1>9. CASE CanRepeatComplete(t.read, c.digest) /\ UNCHANGED upload_session
  <2>1. upload_session' = [upload_session EXCEPT ![u] = s]
    BY <1>1, <1>2, <1>9 DEF TypeOK
  <2>2. Told(r, s, PartsOf(u))
    BY <1>2, <1>6, <1>9 DEF Told, OutcomeTold, CanRepeatComplete
  <2>3. Forward(s, s, PartsOf(u), PartsOf(u))
    BY <1>2, SameForward
  <2> QED
    BY <1>2, <1>5, <1>6, <1>7, <1>8, <2>1, <2>2, <2>3, TransactionStep
<1>10. CASE /\ CanComplete(t.read, c.now)
            /\ Write(t, CompleteRow(upload_session[u], t.read, c.digest, c.now))
  <2> DEFINE new == CompleteRow(s, s, c.digest, c.now)
  <2>1. /\ new \in Session /\ SessionInv(new, PartsOf(u))
        /\ Forward(s, new, PartsOf(u), PartsOf(u))
        /\ new.status = "committed" /\ new.committed_sha256 = c.digest
    BY <1>2, <1>3, <1>4, <1>5, <1>10, CompleteKeeps
  <2>2. upload_session' = [upload_session EXCEPT ![u] = new]
    BY <1>2, <1>10 DEF Write
  <2> HIDE DEF new
  <2>3. Told(r, new, PartsOf(u))
    BY <1>6, <2>1 DEF Told, OutcomeTold
  <2> QED
    BY <1>6, <1>7, <1>8, <2>1, <2>2, <2>3, TransactionStep
<1> QED
  BY <1>9, <1>10 DEF Complete

\* Abort closes an open session, or confirms that it is closed.
LEMMA AbortStep ==
    ASSUME UploadInv, NEW t \in txs, Abort(t)
    PROVE  UploadInv' /\ ForwardStep
<1> DEFINE c == t.call
           u == c.upload
           s == upload_session[u]
           r == [op |-> "abort", upload |-> u]
<1>1. TypeOK /\ SnapshotCurrent /\ SessionsKept
  BY DEF UploadInv
<1>2. u \in Sessions /\ u \in Uploads /\ s \in Session /\ c.now \in Nat /\ t.read = s
  BY <1>1, TransactionRow, SessionRows
<1>3. PartsOf(u) \in SUBSET Part
  BY <1>1 DEF TypeOK, PartsOf
<1>4. SessionInv(s, PartsOf(u))
  BY <1>1, <1>2 DEF SessionsKept
<1>5. r \in Reply /\ r.upload = u /\ r.op = "abort"
  BY <1>2 DEF Reply
<1>6. upload_part' = upload_part \cup {} /\ replies' = replies \cup {r} /\ End(t)
  BY DEF Abort, Answer
<1>7. PartsOf(u) \cup {} = PartsOf(u)
  OBVIOUS
<1> HIDE DEF r
<1>8. CASE CanRepeatAbort(t.read) /\ UNCHANGED upload_session
  <2>1. upload_session' = [upload_session EXCEPT ![u] = s]
    BY <1>1, <1>2, <1>8 DEF TypeOK
  <2>2. Told(r, s, PartsOf(u))
    BY <1>2, <1>5, <1>8 DEF Told, OutcomeTold, CanRepeatAbort
  <2>3. Forward(s, s, PartsOf(u), PartsOf(u))
    BY <1>2, SameForward
  <2> QED
    BY <1>2, <1>4, <1>5, <1>6, <1>7, <2>1, <2>2, <2>3, TransactionStep
<1>9. CASE /\ CanAbort(t.read, c.now)
           /\ Write(t, AbortRow(upload_session[u], t.read, c.now))
  <2> DEFINE new == AbortRow(s, s, c.now)
  <2>1. /\ new \in Session /\ SessionInv(new, PartsOf(u))
        /\ Forward(s, new, PartsOf(u), PartsOf(u)) /\ new.status = "aborted"
    BY <1>2, <1>3, <1>4, <1>9, AbortKeeps
  <2>2. upload_session' = [upload_session EXCEPT ![u] = new]
    BY <1>2, <1>9 DEF Write
  <2> HIDE DEF new
  <2>3. Told(r, new, PartsOf(u))
    BY <1>5, <2>1 DEF Told, OutcomeTold
  <2> QED
    BY <1>5, <1>6, <1>7, <2>1, <2>2, <2>3, TransactionStep
<1> QED
  BY <1>8, <1>9 DEF Abort

----------------------------------------------------------------------------
\* Empty tables satisfy the invariant.
LEMMA InitInv == Init => UploadInv
<1> SUFFICES ASSUME Init PROVE UploadInv
  OBVIOUS
<1>1. TypeOK
  BY DEF Init, TypeOK
<1>2. Sessions = {} /\ \A u : PartsOf(u) = {}
  BY DEF Init, Sessions, PartsOf
<1>3. SnapshotCurrent
  BY DEF Init, SnapshotCurrent
<1>4. SessionsKept /\ RepliesTrue
  BY <1>2 DEF Init, SessionsKept, RepliesTrue
<1> QED
  BY <1>1, <1>3, <1>4 DEF UploadInv

\* Every step keeps the invariant and moves forward.
LEMMA NextInv == UploadInv /\ [Next]_vars => UploadInv' /\ ForwardStep
<1> SUFFICES ASSUME UploadInv, [Next]_vars
             PROVE  UploadInv' /\ ForwardStep
  OBVIOUS
<1>1. clock \in Nat /\ Readings \subseteq Nat
  BY DEF UploadInv, TypeOK, Readings
<1>2. CASE Tick \/ UNCHANGED vars
  BY <1>2, TickStep
<1>3. ASSUME NEW o \in Owners, NEW u \in Uploads, NEW d \in DeclaredSizes,
             NEW k \in ChunkSizes, NEW now \in Readings, CallStart(o, u, d, k, now)
      PROVE  UploadInv' /\ ForwardStep
  <2> DEFINE c == [op |-> "start", upload |-> u, owner |-> o,
                   declared |-> d, chunk |-> k, now |-> now]
  <2>1. c.declared = d /\ c.chunk = k
    OBVIOUS
  <2>2. c \in StartCall
    BY <1>1, <1>3, <2>1 DEF StartCall, CallStart
  <2>3. Send(c)
    BY <1>3 DEF CallStart
  <2> QED
    BY <2>2, <2>3, SendStep
<1>4. ASSUME NEW o \in Owners, NEW u \in Uploads, NEW try \in PartTries,
             NEW digest \in Digests, NEW b \in BackendParts, NEW now \in Readings,
             CallPart(o, u, try[1], try[2], digest, b, now)
      PROVE  UploadInv' /\ ForwardStep
  <2> DEFINE c == [op |-> "part", upload |-> u, owner |-> o, index |-> try[1],
                   size |-> try[2], digest |-> digest, backend |-> b, now |-> now]
  <2>1. try[1] \in Nat /\ try[2] \in 1..MaxInt32
    BY UploadPolicyAssumption
  <2>2. c \in OwnedCall
    BY <1>1, <2>1 DEF OwnedCall, PartCall
  <2>3. Send(c)
    BY <1>4 DEF CallPart
  <2> QED
    BY <2>2, <2>3, SendStep
<1>5. ASSUME NEW op \in {"begin_commit", "abort"}, NEW o \in Owners, NEW u \in Uploads,
             NEW now \in Readings, CallPlain(op, o, u, now)
      PROVE  UploadInv' /\ ForwardStep
  <2> DEFINE c == [op |-> op, upload |-> u, owner |-> o, now |-> now]
  <2>1. c \in OwnedCall
    BY <1>1 DEF OwnedCall, PlainCall
  <2>2. Send(c)
    BY <1>5 DEF CallPlain
  <2> QED
    BY <2>1, <2>2, SendStep
<1>6. ASSUME NEW o \in Owners, NEW u \in Uploads, NEW digest \in Digests,
             NEW now \in Readings, CallComplete(o, u, digest, now)
      PROVE  UploadInv' /\ ForwardStep
  <2> DEFINE c == [op |-> "complete", upload |-> u, owner |-> o,
                   digest |-> digest, now |-> now]
  <2>1. c \in OwnedCall
    BY <1>1 DEF OwnedCall, CompleteCall
  <2>2. Send(c)
    BY <1>6 DEF CallComplete
  <2> QED
    BY <2>1, <2>2, SendStep
<1>7. ASSUME NEW c \in calls, Lose(c) \/ NotFound(c)
      PROVE  UploadInv' /\ ForwardStep
  BY <1>7, LoseStep DEF NotFound
<1>8. ASSUME NEW c \in calls, Create(c)
      PROVE  UploadInv' /\ ForwardStep
  BY <1>8, CreateStep
<1>9. ASSUME NEW c \in calls, Lock(c)
      PROVE  UploadInv' /\ ForwardStep
  BY <1>9, LockStep
<1>10. ASSUME NEW t \in txs, Rollback(t) \/ Refuse(t)
       PROVE  UploadInv' /\ ForwardStep
  BY <1>10, RollbackStep DEF Refuse
<1>11. ASSUME NEW t \in txs,
              RepeatPart(t) \/ RecordPart(t) \/ BeginCommit(t) \/ Complete(t) \/ Abort(t)
       PROVE  UploadInv' /\ ForwardStep
  BY <1>11, RepeatPartStep, RecordPartStep, BeginCommitStep, CompleteStep, AbortStep
<1> QED
  BY <1>2, <1>3, <1>4, <1>5, <1>6, <1>7, <1>8, <1>9, <1>10, <1>11 DEF Next

\* The parts of the invariant that the runs check.
LEMMA InvProperties ==
    UploadInv => /\ TypeOK /\ SnapshotCurrent
                 /\ ProgressExact /\ AcknowledgedPartsKept /\ PlansExact
                 /\ OutcomeAgreed /\ SessionsAccepted
<1> SUFFICES ASSUME UploadInv
             PROVE  /\ TypeOK /\ SnapshotCurrent
                    /\ ProgressExact /\ AcknowledgedPartsKept /\ PlansExact
                    /\ OutcomeAgreed /\ SessionsAccepted
  OBVIOUS
<1>1. TypeOK /\ SnapshotCurrent /\ SessionsKept /\ RepliesTrue
  BY DEF UploadInv
<1>2. \A u \in Sessions : SessionInv(upload_session[u], PartsOf(u))
  BY <1>1, SessionRows DEF SessionsKept
<1>3. ProgressExact
  BY <1>1 DEF SessionsKept, SessionInv, ProgressExact
<1>4. AcknowledgedPartsKept /\ PlansExact /\ OutcomeAgreed
  BY <1>1 DEF RepliesTrue, Told, AcknowledgedPartsKept, PlansExact, OutcomeAgreed
<1>5. SessionsAccepted
  BY <1>2 DEF SessionInv, SessionsAccepted
<1> QED
  BY <1>1, <1>3, <1>4, <1>5

\* UploadInv holds in every reachable state.
THEOREM InvAlways == Spec => []UploadInv
BY InitInv, NextInv, PTL DEF Spec

\* Tables, calls, transactions and answers keep their types.
THEOREM UploadTypeCorrect == Spec => []TypeOK
BY InvAlways, InvProperties, PTL

\* The row lock of lockOwnedSession keeps what a transaction read current until
\* the transaction ends.
THEOREM SnapshotCurrentAlways == Spec => []SnapshotCurrent
BY InvAlways, InvProperties, PTL

\* The counters of RecordPart and the part rows always agree, for every declared
\* size and chunk size.
THEOREM ProgressExactAlways == Spec => []ProgressExact
BY InvAlways, InvProperties, PTL

\* No part RecordPart acknowledged is ever replaced or lost.
THEOREM AcknowledgedPartsKeptAlways == Spec => []AcknowledgedPartsKept
BY InvAlways, InvProperties, PTL

\* Every commit plan of BeginCommit describes the stored parts for ever.
THEOREM PlansExactAlways == Spec => []PlansExact
BY InvAlways, InvProperties, PTL

\* Complete and Abort never tell two callers different outcomes.
THEOREM OutcomeAgreedAlways == Spec => []OutcomeAgreed
BY InvAlways, InvProperties, PTL

\* validateStoredSession and the table constraints accept every stored row.
THEOREM SessionsAcceptedAlways == Spec => []SessionsAccepted
BY InvAlways, InvProperties, PTL

\* No statement changes a closed upload or takes an open one back.
THEOREM OnlyForwardAlways == Spec => OnlyForward
<1>1. UploadInv /\ [Next]_vars =>
      [\A u \in Sessions :
          Forward(upload_session[u], upload_session'[u], PartsOf(u), PartsOf(u)')]_vars
  BY NextInv DEF ForwardStep
<1> QED
  BY <1>1, InvAlways, PTL DEF Spec, OnlyForward

----------------------------------------------------------------------------
(* After the expiry                                                         *)

\* Time goes on, a new call carries what its process has just read from its
\* clock, and a new transaction runs a call that was under way.
LEMMA StepOrigins ==
    ASSUME TypeOK, [Next]_vars
    PROVE  /\ clock' \in Nat /\ clock <= clock'
           /\ \A c \in calls' : c \in calls \/ c.now \in Readings
           /\ \A t \in txs' : t \in txs \/ (t.call \in calls /\ t.call.op # "start")
<1>0. clock \in Nat
  BY DEF TypeOK
<1>1. CASE Tick
  <2>1. clock' = clock + 1 /\ calls' = calls /\ txs' = txs
    BY <1>1 DEF Tick
  <2>2. clock' \in Nat /\ clock <= clock'
    BY <1>0, <2>1
  <2> QED
    BY <2>1, <2>2
<1>9. CASE UNCHANGED vars
  <2>1. clock' = clock /\ calls' = calls /\ txs' = txs
    BY <1>9 DEF vars
  <2>2. clock' \in Nat /\ clock <= clock'
    BY <1>0, <2>1
  <2> QED
    BY <2>1, <2>2
<1>2. ASSUME NEW c, c.now \in Readings, Send(c)
      PROVE  /\ clock' = clock /\ txs' = txs
             /\ \A d \in calls' : d \in calls \/ d.now \in Readings
  BY <1>2 DEF Send
<1>3. ASSUME NEW o \in Owners, NEW u \in Uploads, NEW now \in Readings,
             \/ \E d \in DeclaredSizes, k \in ChunkSizes : CallStart(o, u, d, k, now)
             \/ \E try \in PartTries, digest \in Digests, b \in BackendParts :
                   CallPart(o, u, try[1], try[2], digest, b, now)
             \/ \E op \in {"begin_commit", "abort"} : CallPlain(op, o, u, now)
             \/ \E digest \in Digests : CallComplete(o, u, digest, now)
      PROVE  \E c : c.now \in Readings /\ Send(c)
  BY <1>3 DEF CallStart, CallPart, CallPlain, CallComplete
<1>4. ASSUME NEW c \in calls, Lose(c) \/ NotFound(c) \/ Create(c) \/ Lock(c)
      PROVE  /\ clock' = clock /\ calls' \subseteq calls
             /\ \A t \in txs' : t \in txs \/ (t.call \in calls /\ t.call.op # "start")
  <2>1. CASE Lose(c) \/ NotFound(c)
    BY <2>1 DEF Lose, NotFound
  <2>2. CASE Create(c)
    BY <2>2 DEF Create
  <2>3. CASE Lock(c)
    BY <2>3 DEF Lock
  <2> QED
    BY <1>4, <2>1, <2>2, <2>3
<1>5. ASSUME NEW t \in txs, \/ Rollback(t) \/ Refuse(t) \/ RepeatPart(t) \/ RecordPart(t)
                            \/ BeginCommit(t) \/ Complete(t) \/ Abort(t)
      PROVE  clock' = clock /\ calls' = calls /\ txs' \subseteq txs
  <2>1. End(t)
    BY <1>5 DEF Rollback, Refuse, RepeatPart, RecordPart, BeginCommit, Complete, Abort
  <2> QED
    BY <2>1 DEF End
<1>6. CASE \E c : c.now \in Readings /\ Send(c)
  <2>1. PICK c : c.now \in Readings /\ Send(c)
    BY <1>6
  <2>2. /\ clock' = clock /\ txs' = txs
        /\ \A d \in calls' : d \in calls \/ d.now \in Readings
    BY <1>2, <2>1
  <2>3. clock' \in Nat /\ clock <= clock'
    BY <1>0, <2>2
  <2> QED
    BY <2>2, <2>3
<1>7. CASE \E c \in calls : Lose(c) \/ NotFound(c) \/ Create(c) \/ Lock(c)
  <2>1. PICK c \in calls : Lose(c) \/ NotFound(c) \/ Create(c) \/ Lock(c)
    BY <1>7
  <2>2. /\ clock' = clock /\ calls' \subseteq calls
        /\ \A t \in txs' : t \in txs \/ (t.call \in calls /\ t.call.op # "start")
    BY <1>4, <2>1
  <2>3. clock' \in Nat /\ clock <= clock'
    BY <1>0, <2>2
  <2> QED
    BY <2>2, <2>3
<1>8. CASE \E t \in txs : \/ Rollback(t) \/ Refuse(t) \/ RepeatPart(t) \/ RecordPart(t)
                         \/ BeginCommit(t) \/ Complete(t) \/ Abort(t)
  <2>1. PICK t \in txs : \/ Rollback(t) \/ Refuse(t) \/ RepeatPart(t) \/ RecordPart(t)
                        \/ BeginCommit(t) \/ Complete(t) \/ Abort(t)
    BY <1>8
  <2>2. clock' = clock /\ calls' = calls /\ txs' \subseteq txs
    BY <1>5, <2>1
  <2>3. clock' \in Nat /\ clock <= clock'
    BY <1>0, <2>2
  <2> QED
    BY <2>2, <2>3
<1> QED
  BY <1>1, <1>3, <1>6, <1>7, <1>8, <1>9 DEF Next

\* What the transaction of an overdue call can still do to its upload.
LEMMA OverdueTransaction ==
    ASSUME UploadInv, NEW u \in Sessions, Overdue(u), NEW t \in txs,
           \/ RepeatPart(t) \/ RecordPart(t) \/ BeginCommit(t) \/ Complete(t) \/ Abort(t)
    PROVE  /\ PartsOf(u)' = PartsOf(u)
           /\ upload_session'[u].status \in {upload_session[u].status, "aborted"}
           /\ \A r \in replies' \ replies : r.upload = u => r.op \in {"complete", "abort"}
<1> DEFINE v == t.call.upload
<1>1. /\ t \in Transaction /\ upload_session \in [Uploads -> Session \cup {NoSession}]
      /\ v \in Uploads /\ u \in Uploads
  BY TransactionRow DEF UploadInv, TypeOK, Sessions
<1>2. t.read = upload_session[v]
  BY DEF UploadInv, SnapshotCurrent
<1>3. CASE v # u
  <2>1. upload_session'[u] = upload_session[u]
    BY <1>1, <1>3 DEF RepeatPart, RecordPart, BeginCommit, Complete, Abort, Write
  <2>2. PartsOf(u)' = PartsOf(u)
    BY <1>3 DEF RepeatPart, RecordPart, BeginCommit, Complete, Abort, PartsOf, PartOf
  <2>3. \A r \in replies' \ replies : r.upload = v
    BY DEF RepeatPart, RecordPart, BeginCommit, Complete, Abort, Answer
  <2> QED
    BY <1>3, <2>1, <2>2, <2>3
<1>4. CASE v = u
  <2>1. ~Timely(t.read, t.call.now)
    <3>1. t.call.now \in Nat /\ upload_session[u].expires_at \in Nat
      BY <1>1, TransactionRow, SessionRows, SessionFields DEF UploadInv
    <3>2. t.call.now >= upload_session[u].expires_at
      BY <1>4 DEF Overdue
    <3> QED
      BY <1>2, <1>4, <3>1, <3>2 DEF Timely
  <2>2. CASE Complete(t)
    BY <1>2, <1>4, <2>1, <2>2 DEF Complete, CanComplete, Answer, PartsOf
  <2>3. CASE Abort(t)
    <3>1. upload_session' = upload_session
             \/ upload_session'[u].status = "aborted"
      <4>1. upload_session[u] \in Session
        BY <1>1 DEF Sessions
      <4>2. CASE upload_session' = upload_session
        BY <4>2
      <4>3. CASE Write(t, AbortRow(upload_session[v], t.read, t.call.now))
        <5>1. upload_session'[u] = AbortRow(upload_session[u], t.read, t.call.now)
          BY <1>1, <1>4, <4>3 DEF Write
        <5> QED
          BY <4>1, <5>1 DEF AbortRow, Session
      <4> QED
        BY <2>3, <4>2, <4>3 DEF Abort
    <3>2. /\ PartsOf(u)' = PartsOf(u)
          /\ \A r \in replies' \ replies : r.op = "abort"
      BY <2>3 DEF Abort, Answer, PartsOf
    <3> QED
      BY <3>1, <3>2
  <2>4. ~RepeatPart(t) /\ ~RecordPart(t) /\ ~BeginCommit(t)
    BY <2>1 DEF RepeatPart, RecordPart, BeginCommit, CanRepeatPart, CanAddPart, CanBeginCommit
  <2> QED
    BY <2>2, <2>3, <2>4
<1> QED
  BY <1>3, <1>4

\* Once an upload is past its expiry by every clock, and every call from before
\* is over, no statement but Abort changes it, for every skew of the clocks.
THEOREM ExpiryFinalAlways == Spec => ExpiryFinal
<1>1. ASSUME UploadInv, [Next]_vars, NEW u \in Sessions, Overdue(u)
      PROVE  Overdue(u)'
  <2> DEFINE end == upload_session[u].expires_at
  <2>1. /\ upload_session'[u].expires_at = end /\ end \in Nat
        /\ MaxSkew \in Nat /\ clock \in Nat
    BY <1>1, NextInv, SessionRows, SessionFields, UploadPolicyAssumption
       DEF ForwardStep, Forward, UploadInv, TypeOK
  <2>2. \A c \in calls' : c \in calls \/ c.now >= end
    <3>1. clock \in Nat /\ end + MaxSkew <= clock /\ TypeOK
      BY <1>1 DEF UploadInv, TypeOK, Overdue
    <3>2. \A n \in Readings : n \in Nat /\ n >= end
      BY <2>1, <3>1 DEF Readings
    <3> QED
      BY <1>1, <3>1, <3>2, StepOrigins
  <2>3. \A t \in txs' : t.call.upload = u => t.call.now >= end
    BY <1>1, StepOrigins DEF UploadInv, Overdue
  <2>4. end + MaxSkew <= clock'
    BY <1>1, <2>1, StepOrigins DEF UploadInv, Overdue
  <2>5. \A c \in calls' : c.upload = u /\ c.op # "start" => c.now >= end
    BY <1>1, <2>2 DEF Overdue
  <2> QED
    BY <2>1, <2>3, <2>4, <2>5 DEF Overdue
<1>2. ASSUME UploadInv, [Next]_vars, NEW u \in Sessions, Overdue(u)
      PROVE  /\ PartsOf(u)' = PartsOf(u)
             /\ upload_session'[u].status \in {upload_session[u].status, "aborted"}
             /\ \A r \in replies' \ replies : r.upload = u => r.op \in {"complete", "abort"}
  <2>1. CASE \E t \in txs : \/ RepeatPart(t) \/ RecordPart(t) \/ BeginCommit(t)
                           \/ Complete(t) \/ Abort(t)
    BY <1>2, <2>1, OverdueTransaction
  <2>2. CASE \E c \in calls : Create(c)
    <3>1. PICK c \in calls : Create(c)
      BY <2>2
    <3>2. upload_session'[u] = upload_session[u]
      BY <1>2, <3>1 DEF Create, Sessions, UploadInv, TypeOK
    <3> QED
      BY <3>1, <3>2 DEF Create, PartsOf
  <2>3. CASE UNCHANGED <<upload_session, upload_part, replies>>
    BY <2>3 DEF PartsOf
  <2>4. \/ \E t \in txs : \/ RepeatPart(t) \/ RecordPart(t) \/ BeginCommit(t)
                         \/ Complete(t) \/ Abort(t)
        \/ \E c \in calls : Create(c)
        \/ UNCHANGED <<upload_session, upload_part, replies>>
    BY <1>2 DEF Next, vars, Tick, CallStart, CallPart, CallPlain, CallComplete, Send, Lose,
                Lock, NotFound, Rollback, Refuse
  <2> QED
    BY <2>1, <2>2, <2>3, <2>4
<1>3. UploadInv /\ [Next]_vars =>
      [\A u \in Sessions :
          Overdue(u) =>
              /\ Overdue(u)'
              /\ PartsOf(u)' = PartsOf(u)
              /\ upload_session'[u].status \in {upload_session[u].status, "aborted"}
              /\ \A r \in replies' \ replies :
                    r.upload = u => r.op \in {"complete", "abort"}]_vars
  BY <1>1, <1>2
<1> QED
  BY <1>3, InvAlways, PTL DEF Spec, ExpiryFinal
=============================================================================
