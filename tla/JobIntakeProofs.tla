--------------------------- MODULE JobIntakeProofs ---------------------------
(***************************************************************************)
(* JobIntake keeps its promises and implements DocumentFlow, for every set *)
(* of uploads, owners, anonymous owners and job ids, and any number of     *)
(* statements in flight.                                                   *)
(*                                                                         *)
(* Everything an upload does is, for the document, one of the moves of     *)
(* SessionMove (lemma UploadStep); a closed session does not move, so a    *)
(* job keeps saying the truth about the upload it was made of (JobsTrue).  *)
(* IdsApart is what makes DELETE ... WHERE id = ... hit one row.           *)
(***************************************************************************)
EXTENDS JobIntake, UploadProofs

OpenStatus == {"uploading", "committing"}

Completed(u, digest) == [op |-> "complete", upload |-> u, digest |-> digest]

\* How a step of Upload may change a row: it is inserted, or an open session stays
\* open or ends, and a completion is answered.
SessionMove(u, old, new) ==
    \/ /\ old = NoSession
       /\ new.status = "uploading"
       /\ new.declared_size \in DeclaredSizes
    \/ /\ old \in Session
       /\ old.status \in OpenStatus
       /\ new.owner = old.owner
       /\ new.declared_size = old.declared_size
       /\ \/ new.status \in OpenStatus \cup {"aborted"}
          \/ /\ new.status = "committed"
             /\ new.committed_sha256 \in Digests
             /\ Completed(u, new.committed_sha256) \in replies'

UploadMove ==
    /\ replies \subseteq replies'
    /\ \/ UNCHANGED upload_session
       \/ \E u \in Uploads, new \in Session :
             /\ upload_session' = [upload_session EXCEPT ![u] = new]
             /\ SessionMove(u, upload_session[u], new)

\* A session is committed only if some caller was told so.
CommitsAnswered ==
    \A u \in Sessions :
        upload_session[u].status = "committed" =>
            Completed(u, upload_session[u].committed_sha256) \in replies

JobTrue(j, s) ==
    /\ s.status = "committed"
    /\ j.owner = s.owner
    /\ j.input_sha256 = s.committed_sha256
    /\ j.input_bytes = s.declared_size

\* Every job says what its upload says.
JobsTrue ==
    \A u \in Stored : u \in Sessions /\ JobTrue(pdf_job[u], upload_session[u])

\* Every job told is the stored one, before its deletion, and told to its owner.
ToldTrue ==
    \A a \in told :
        /\ a.upload \in Stored
        /\ a.caller = a.job.owner
        /\ ~a.job.deleted
        /\ [pdf_job[a.upload] EXCEPT !.deleted = FALSE] = a.job

\* No two jobs have or are about to get the same id.
IdsApart ==
    /\ \A u, v \in Stored : pdf_job[u].id = pdf_job[v].id => u = v
    /\ \A c \in job_calls : c.op = "create" =>
          /\ \A u \in Stored : pdf_job[u].id # c.id
          /\ \A d \in job_calls : d.op = "create" /\ d.id = c.id => d = c

\* The inductive invariant.
IntakeInv ==
    /\ IntakeTypeOK
    /\ UploadInv
    /\ CommitsAnswered
    /\ JobsTrue
    /\ ToldTrue
    /\ IdsApart

----------------------------------------------------------------------------
(* What the steps of Upload do to a document.                              *)

\* PostgresStore.Create inserts an open session or nothing.
LEMMA CreateMove ==
    ASSUME UploadInv, NEW c \in calls, Create(c)
    PROVE  UploadMove
<1>1. replies' = replies /\ TypeOK
  BY DEF Create, UploadInv
<1>2. CASE c.upload \in Sessions
  BY <1>1, <1>2 DEF Create, UploadMove
<1>3. CASE c.upload \notin Sessions
  <2> DEFINE new == StartRow(c.owner, c.declared, c.chunk, c.now, SessionTTL)
  <2>1. c \in StartCall /\ c.upload \in Uploads /\ c.declared \in DeclaredSizes
    BY <1>1 DEF Create, TypeOK, OwnedCall, PartCall, PlainCall, CompleteCall, StartCall
  <2>2. new \in Session
    BY <2>1, StartKeeps
  <2>3. new.status = "uploading" /\ new.declared_size = c.declared
    BY DEF StartRow
  <2>4. upload_session' = [upload_session EXCEPT ![c.upload] = new]
    BY <1>3 DEF Create
  <2> HIDE DEF new
  <2>5. upload_session[c.upload] = NoSession
    BY <1>3, <2>1 DEF Sessions
  <2> QED
    BY <1>1, <2>1, <2>2, <2>3, <2>4, <2>5 DEF UploadMove, SessionMove
<1> QED
  BY <1>2, <1>3

\* RecordPart leaves an open session open.
LEMMA RecordPartMove ==
    ASSUME UploadInv, NEW t \in txs, RecordPart(t)
    PROVE  UploadMove
<1> DEFINE c == t.call
           u == c.upload
           s == upload_session[u]
           new == AddPartRow(s, s, c)
<1>1. TypeOK /\ SnapshotCurrent /\ SessionsKept /\ c.op = "part"
  BY DEF UploadInv, RecordPart
<1>2. u \in Sessions /\ u \in Uploads /\ s \in Session /\ c \in OwnedCall /\ t.read = s
  BY <1>1, TransactionRow, SessionRows
<1>3. c \in PartCall
  BY <1>1, <1>2 DEF OwnedCall, PlainCall, CompleteCall
<1>4. PartsOf(u) \in SUBSET Part /\ SessionInv(s, PartsOf(u))
  BY <1>1, <1>2 DEF TypeOK, PartsOf, SessionsKept
<1>5. CanAddPart(s, PartsOf(u), c)
  BY <1>2 DEF RecordPart
<1>6. new \in Session /\ Forward(s, new, PartsOf(u), PartsOf(u) \cup {PartOf(c)})
  BY <1>2, <1>3, <1>4, <1>5, AddPartKeeps
<1>7. new.status = s.status /\ s.status = "uploading"
  BY <1>2, <1>5 DEF AddPartRow, CanAddPart, Session
<1>8. upload_session' = [upload_session EXCEPT ![u] = new] /\ replies \subseteq replies'
  BY <1>2 DEF RecordPart, Write, Answer
<1> HIDE DEF new
<1>9. SessionMove(u, s, new)
  BY <1>2, <1>6, <1>7 DEF SessionMove, OpenStatus, Forward
<1> QED
  BY <1>2, <1>6, <1>8, <1>9 DEF UploadMove

\* BeginCommit leaves an open session open.
LEMMA BeginCommitMove ==
    ASSUME UploadInv, NEW t \in txs, BeginCommit(t)
    PROVE  UploadMove
<1> DEFINE c == t.call
           u == c.upload
           s == upload_session[u]
           new == BeginCommitRow(s, s, c.now)
<1>1. TypeOK /\ SnapshotCurrent /\ SessionsKept
  BY DEF UploadInv
<1>2. u \in Sessions /\ u \in Uploads /\ s \in Session /\ c.now \in Nat /\ t.read = s
  BY <1>1, TransactionRow, SessionRows
<1>3. PartsOf(u) \in SUBSET Part /\ SessionInv(s, PartsOf(u))
  BY <1>1, <1>2 DEF TypeOK, PartsOf, SessionsKept
<1>4. CanBeginCommit(s, PartsOf(u), c.now)
  BY <1>2 DEF BeginCommit
<1>5. /\ new \in Session /\ Forward(s, new, PartsOf(u), PartsOf(u))
      /\ new.status = "committing" /\ s.status \in OpenStatus
  BY <1>2, <1>3, <1>4, BeginCommitKeeps DEF CanBeginCommit, OpenStatus
<1>6. upload_session' = [upload_session EXCEPT ![u] = new] /\ replies \subseteq replies'
  BY <1>2 DEF BeginCommit, Write, Answer
<1> HIDE DEF new
<1>7. SessionMove(u, s, new)
  BY <1>2, <1>5 DEF SessionMove, OpenStatus, Forward
<1> QED
  BY <1>2, <1>5, <1>6, <1>7 DEF UploadMove

\* Complete commits an open session and says so.
LEMMA CompleteMove ==
    ASSUME UploadInv, NEW t \in txs, Complete(t)
    PROVE  UploadMove
<1> DEFINE c == t.call
           u == c.upload
           s == upload_session[u]
           new == CompleteRow(s, s, c.digest, c.now)
<1>1. TypeOK /\ SnapshotCurrent /\ SessionsKept /\ c.op = "complete"
  BY DEF UploadInv, Complete
<1>2. /\ u \in Sessions /\ u \in Uploads /\ s \in Session /\ c \in OwnedCall
      /\ c.now \in Nat /\ t.read = s
  BY <1>1, TransactionRow, SessionRows
<1>3. c.digest \in Digests
  BY <1>1, <1>2 DEF OwnedCall, PartCall, PlainCall, CompleteCall
<1>4. PartsOf(u) \in SUBSET Part /\ SessionInv(s, PartsOf(u))
  BY <1>1, <1>2 DEF TypeOK, PartsOf, SessionsKept
<1>5. replies' = replies \cup {Completed(u, c.digest)}
  BY DEF Complete, Answer, Completed
<1>6. CASE UNCHANGED upload_session
  BY <1>5, <1>6 DEF UploadMove
<1>7. CASE /\ CanComplete(t.read, c.now)
           /\ Write(t, CompleteRow(upload_session[u], t.read, c.digest, c.now))
  <2>1. /\ new \in Session /\ Forward(s, new, PartsOf(u), PartsOf(u))
        /\ new.status = "committed" /\ new.committed_sha256 = c.digest
        /\ s.status \in OpenStatus
    BY <1>2, <1>3, <1>4, <1>7, CompleteKeeps DEF CanComplete, OpenStatus
  <2>2. upload_session' = [upload_session EXCEPT ![u] = new]
    BY <1>2, <1>7 DEF Write
  <2> HIDE DEF new
  <2>3. SessionMove(u, s, new)
    BY <1>2, <1>3, <1>5, <2>1 DEF SessionMove, Forward
  <2> QED
    BY <1>2, <1>5, <2>1, <2>2, <2>3 DEF UploadMove
<1> QED
  BY <1>6, <1>7 DEF Complete

\* Abort closes an open session.
LEMMA AbortMove ==
    ASSUME UploadInv, NEW t \in txs, Abort(t)
    PROVE  UploadMove
<1> DEFINE c == t.call
           u == c.upload
           s == upload_session[u]
           new == AbortRow(s, s, c.now)
<1>1. TypeOK /\ SnapshotCurrent /\ SessionsKept
  BY DEF UploadInv
<1>2. u \in Sessions /\ u \in Uploads /\ s \in Session /\ c.now \in Nat /\ t.read = s
  BY <1>1, TransactionRow, SessionRows
<1>3. PartsOf(u) \in SUBSET Part /\ SessionInv(s, PartsOf(u))
  BY <1>1, <1>2 DEF TypeOK, PartsOf, SessionsKept
<1>4. replies \subseteq replies'
  BY DEF Abort, Answer
<1>5. CASE UNCHANGED upload_session
  BY <1>4, <1>5 DEF UploadMove
<1>6. CASE /\ CanAbort(t.read, c.now)
           /\ Write(t, AbortRow(upload_session[u], t.read, c.now))
  <2>1. /\ new \in Session /\ Forward(s, new, PartsOf(u), PartsOf(u))
        /\ new.status = "aborted" /\ s.status \in OpenStatus
    BY <1>2, <1>3, <1>6, AbortKeeps DEF CanAbort, OpenStatus
  <2>2. upload_session' = [upload_session EXCEPT ![u] = new]
    BY <1>2, <1>6 DEF Write
  <2> HIDE DEF new
  <2>3. SessionMove(u, s, new)
    BY <1>2, <2>1 DEF SessionMove, Forward
  <2> QED
    BY <1>2, <1>4, <2>1, <2>2, <2>3 DEF UploadMove
<1> QED
  BY <1>5, <1>6 DEF Abort

\* Every step of Upload is such a move.
LEMMA UploadStep ==
    ASSUME UploadInv, Next
    PROVE  UploadMove
<1>1. CASE \E t \in txs : RecordPart(t) \/ BeginCommit(t) \/ Complete(t) \/ Abort(t)
  BY <1>1, RecordPartMove, BeginCommitMove, CompleteMove, AbortMove
<1>2. CASE \E c \in calls : Create(c)
  BY <1>2, CreateMove
<1>3. CASE UNCHANGED upload_session /\ replies \subseteq replies'
  BY <1>3 DEF UploadMove
<1>4. ASSUME NEW t \in txs, RepeatPart(t) \/ Rollback(t) \/ Refuse(t)
      PROVE  UNCHANGED upload_session /\ replies \subseteq replies'
  BY <1>4 DEF RepeatPart, Answer, Rollback, Refuse
<1>5. ASSUME NEW c \in calls, Lose(c) \/ Lock(c) \/ NotFound(c)
      PROVE  UNCHANGED upload_session /\ replies \subseteq replies'
  BY <1>5 DEF Lose, Lock, NotFound
<1>6. Tick => UNCHANGED upload_session /\ replies \subseteq replies'
  BY DEF Tick
<1>7. ASSUME NEW o, NEW u, NEW d, NEW k, NEW now, CallStart(o, u, d, k, now)
      PROVE  UNCHANGED upload_session /\ replies \subseteq replies'
  BY <1>7 DEF CallStart, Send
<1>8. ASSUME NEW o, NEW u, NEW i, NEW size, NEW digest, NEW b, NEW now,
             CallPart(o, u, i, size, digest, b, now)
      PROVE  UNCHANGED upload_session /\ replies \subseteq replies'
  BY <1>8 DEF CallPart, Send
<1>9. ASSUME NEW op, NEW o, NEW u, NEW now, CallPlain(op, o, u, now)
      PROVE  UNCHANGED upload_session /\ replies \subseteq replies'
  BY <1>9 DEF CallPlain, Send
<1>10. ASSUME NEW o, NEW u, NEW digest, NEW now, CallComplete(o, u, digest, now)
       PROVE  UNCHANGED upload_session /\ replies \subseteq replies'
  BY <1>10 DEF CallComplete, Send
<1> QED
  BY <1>1, <1>2, <1>3, <1>4, <1>5, <1>6, <1>7, <1>8, <1>9, <1>10 DEF Next

----------------------------------------------------------------------------
(* Rows of jobs.                                                           *)

\* A job is not the absence of one.
LEMMA JobFields ==
    ASSUME NEW j \in Job
    PROVE  /\ j # NoJob
           /\ j.id \in JobIds /\ j.owner \in Owners /\ j.deleted \in BOOLEAN
           /\ j.input_sha256 \in Digests /\ j.input_bytes \in Nat
           /\ j.creator \in Creators \cup {NoCreator}
           /\ [j EXCEPT !.deleted = FALSE] \in Job
           /\ [j EXCEPT !.deleted = TRUE] \in Job
<1>1. "status" \notin DOMAIN j
  BY DEF Job
<1>2. "status" \in DOMAIN NoJob
  BY DEF NoJob
<1> QED
  BY <1>1, <1>2 DEF Job

\* Uploads with a job, and the job.
LEMMA StoredRows ==
    ASSUME IntakeTypeOK
    PROVE  /\ Stored \subseteq Uploads
           /\ \A u \in Stored : pdf_job[u] \in Job
           /\ \A u \in Uploads : u \in Stored \/ pdf_job[u] = NoJob
BY DEF IntakeTypeOK, Stored

\* The statement of Create says what it needs.
LEMMA CreateCall ==
    ASSUME NEW c \in JobCall, c.op = "create"
    PROVE  /\ c.id \in JobIds /\ c.upload \in Uploads /\ c.owner \in Owners
           /\ c.creator \in Creators \cup {NoCreator}
BY DEF JobCall

\* A committed session becomes a job that says the truth about it.
LEMMA JobRowTrue ==
    ASSUME IntakeInv, NEW c \in job_calls, c.op = "create", Source(c)
    PROVE  /\ c.upload \in Uploads
           /\ JobRow(c) \in Job
           /\ JobTrue(JobRow(c), upload_session[c.upload])
           /\ JobRow(c).id = c.id /\ JobRow(c).owner = c.owner /\ ~JobRow(c).deleted
<1> DEFINE s == upload_session[c.upload]
<1>1. /\ c.id \in JobIds /\ c.upload \in Uploads /\ c.owner \in Owners
      /\ c.creator \in Creators \cup {NoCreator}
  BY CreateCall DEF IntakeInv, IntakeTypeOK
<1>2. /\ s.owner = c.owner /\ s.status = "committed" /\ s.committed_sha256 # NoDigest
      /\ s.committed_sha256 \in Digests \cup {NoDigest} /\ s.declared_size \in Nat
  BY SessionRows, SessionFields DEF IntakeInv, UploadInv, Source
<1> QED
  BY <1>1, <1>2 DEF JobRow, Job, JobTrue

----------------------------------------------------------------------------
\* A step of Upload leaves jobs alone and keeps what they say true.
LEMMA UploadKeeps ==
    ASSUME IntakeInv, [Next]_vars, UNCHANGED jobVars
    PROVE  IntakeInv'
<1>1. UploadInv' /\ UploadMove
  BY NextInv, UploadStep DEF IntakeInv, UploadMove, vars
<1>2. UNCHANGED <<pdf_job, job_calls, told>> /\ Stored' = Stored
  BY DEF jobVars, Stored
<1>3. IntakeTypeOK'
  BY <1>1, <1>2 DEF IntakeInv, IntakeTypeOK, UploadInv
<1>4. ToldTrue' /\ IdsApart'
  BY <1>2 DEF IntakeInv, ToldTrue, IdsApart
<1>5. CASE UNCHANGED upload_session
  <2>1. Sessions' = Sessions
    BY <1>5 DEF Sessions
  <2>2. CommitsAnswered' /\ JobsTrue'
    BY <1>1, <1>2, <1>5, <2>1 DEF IntakeInv, CommitsAnswered, JobsTrue, UploadMove
  <2> QED
    BY <1>1, <1>3, <1>4, <2>2 DEF IntakeInv
<1>6. ASSUME NEW u \in Uploads, NEW new \in Session,
             upload_session' = [upload_session EXCEPT ![u] = new],
             SessionMove(u, upload_session[u], new)
      PROVE  CommitsAnswered' /\ JobsTrue'
  <2>1. /\ upload_session'[u] = new /\ new # NoSession
        /\ \A x \in Uploads : x # u => upload_session'[x] = upload_session[x]
    BY <1>6, SessionFields DEF IntakeInv, UploadInv, TypeOK
  <2>2. Sessions' = Sessions \cup {u} /\ Sessions \subseteq Uploads
    BY <2>1 DEF Sessions
  <2>3. new.status = "committed" => Completed(u, new.committed_sha256) \in replies'
    BY <1>6 DEF SessionMove, OpenStatus
  <2>4. CommitsAnswered'
    BY <1>1, <2>1, <2>2, <2>3 DEF IntakeInv, CommitsAnswered, UploadMove
  <2>5. ~(u \in Sessions /\ upload_session[u].status = "committed")
    BY <1>6 DEF SessionMove, OpenStatus, Sessions
  <2>6. JobsTrue'
    BY <1>2, <2>1, <2>2, <2>5 DEF IntakeInv, JobsTrue, JobTrue
  <2> QED
    BY <2>4, <2>6
<1> QED
  BY <1>1, <1>3, <1>4, <1>5, <1>6 DEF UploadMove, IntakeInv

\* A step of jobs leaves the uploads alone.
LEMMA UploadsStay ==
    ASSUME IntakeInv, UNCHANGED uploadVars
    PROVE  /\ UploadInv' /\ CommitsAnswered' /\ TypeOK'
           /\ Sessions' = Sessions /\ UNCHANGED <<upload_session, replies>>
<1>1. UNCHANGED vars /\ UNCHANGED <<upload_session, replies>>
  BY DEF uploadVars, vars
<1>2. UploadInv'
  BY <1>1, NextInv DEF IntakeInv
<1>3. Sessions' = Sessions
  BY <1>1 DEF Sessions
<1> QED
  BY <1>1, <1>2, <1>3 DEF IntakeInv, CommitsAnswered, UploadInv

\* Manager.Create and Delete send their statement.
LEMMA SendJobCallKeeps ==
    ASSUME IntakeInv, NEW c \in JobCall, SendJobCall(c),
           c.op = "create" => c.id \notin IdsInUse
    PROVE  IntakeInv'
<1>1. /\ UploadInv' /\ CommitsAnswered' /\ TypeOK'
      /\ Sessions' = Sessions /\ UNCHANGED <<upload_session, replies>>
  BY UploadsStay DEF SendJobCall
<1>2. job_calls' = job_calls \cup {c} /\ UNCHANGED <<pdf_job, told>> /\ Stored' = Stored
  BY DEF SendJobCall, Stored
<1>3. IntakeTypeOK' /\ JobsTrue' /\ ToldTrue'
  BY <1>1, <1>2 DEF IntakeInv, IntakeTypeOK, JobsTrue, ToldTrue
<1>4. c.op = "create" =>
         /\ \A u \in Stored : pdf_job[u].id # c.id
         /\ \A d \in job_calls : d.id # c.id
  BY DEF IdsInUse
<1>5. IdsApart'
  BY <1>2, <1>4 DEF IntakeInv, IdsApart
<1> QED
  BY <1>1, <1>3, <1>5 DEF IntakeInv

\* A statement that changes nothing, told or not.
LEMMA SettleKeeps ==
    ASSUME IntakeInv, NEW c \in job_calls, Settle(c), UNCHANGED pdf_job,
           NEW more \in SUBSET Creation,
           told' = told \cup more,
           \A a \in more : /\ a.upload \in Stored
                           /\ ~pdf_job[a.upload].deleted
                           /\ a.job = pdf_job[a.upload]
                           /\ a.caller = a.job.owner
    PROVE  IntakeInv'
<1>1. /\ UploadInv' /\ CommitsAnswered' /\ TypeOK'
      /\ Sessions' = Sessions /\ UNCHANGED <<upload_session, replies>>
  BY UploadsStay DEF Settle
<1>2. job_calls' = job_calls \ {c} /\ Stored' = Stored
  BY DEF Settle, Stored
<1>3. IntakeTypeOK' /\ JobsTrue'
  <2>1. told' \subseteq Creation
    BY DEF IntakeInv, IntakeTypeOK
  <2> QED
    BY <1>1, <1>2, <2>1 DEF IntakeInv, IntakeTypeOK, JobsTrue
<1>4. IdsApart'
  BY <1>2 DEF IntakeInv, IdsApart
<1>5. \A j \in Job : ~j.deleted => [j EXCEPT !.deleted = FALSE] = j
  BY DEF Job
<1>6. ToldTrue'
  <2>1. \A a \in more : [pdf_job[a.upload] EXCEPT !.deleted = FALSE] = a.job
    BY <1>5, StoredRows DEF IntakeInv
  <2> QED
    BY <1>2, <2>1 DEF IntakeInv, ToldTrue
<1> QED
  BY <1>1, <1>3, <1>4, <1>6 DEF IntakeInv

\* The INSERT of Create.
LEMMA CreateJobKeeps ==
    ASSUME IntakeInv, NEW c \in job_calls, CreateJob(c)
    PROVE  IntakeInv'
<1> DEFINE u == c.upload
           j == JobRow(c)
<1>1. /\ UploadInv' /\ CommitsAnswered' /\ TypeOK'
      /\ Sessions' = Sessions /\ UNCHANGED <<upload_session, replies>>
  BY UploadsStay DEF CreateJob, Settle
<1>2. /\ u \in Uploads /\ j \in Job /\ JobTrue(j, upload_session[u])
      /\ j.id = c.id /\ ~j.deleted /\ c.op = "create" /\ u \in Sessions
  BY JobRowTrue DEF CreateJob, Source
<1>3. /\ pdf_job[u] = NoJob /\ pdf_job' = [pdf_job EXCEPT ![u] = j]
      /\ told' = told \cup {[upload |-> u, caller |-> c.owner, job |-> j]}
      /\ job_calls' = job_calls \ {c}
  BY DEF CreateJob, Settle, Tell
<1>10. j.owner = c.owner /\ c.owner \in Owners
  BY <1>2, JobRowTrue, CreateCall DEF CreateJob, IntakeInv, IntakeTypeOK
<1> HIDE DEF j
<1>4. /\ pdf_job'[u] = j /\ j # NoJob
      /\ \A x \in Uploads : x # u => pdf_job'[x] = pdf_job[x]
  BY <1>2, <1>3, JobFields DEF IntakeInv, IntakeTypeOK
<1>5. Stored' = Stored \cup {u} /\ u \notin Stored /\ Stored \subseteq Uploads
  BY <1>2, <1>3, <1>4 DEF Stored
<1>6. IntakeTypeOK'
  <2>1. [upload |-> u, caller |-> c.owner, job |-> j] \in Creation
    BY <1>2, <1>10 DEF Creation
  <2>2. told' \subseteq Creation
    BY <1>3, <2>1 DEF IntakeInv, IntakeTypeOK
  <2> QED
    BY <1>1, <1>2, <1>3, <2>2 DEF IntakeInv, IntakeTypeOK
<1>7. JobsTrue'
  BY <1>1, <1>2, <1>4, <1>5 DEF IntakeInv, JobsTrue
<1>8. ToldTrue'
  <2>1. [j EXCEPT !.deleted = FALSE] = j
    BY <1>2 DEF Job
  <2>2. \A a \in told : a.upload \in Stored /\ a.upload # u
    BY <1>5 DEF IntakeInv, ToldTrue
  <2>3. \A a \in told : pdf_job'[a.upload] = pdf_job[a.upload]
    BY <1>4, <1>5, <2>2
  <2> DEFINE b == [upload |-> u, caller |-> c.owner, job |-> j]
  <2>4. b.upload = u /\ b.job = j /\ b.caller = b.job.owner
    BY <1>10
  <2>5. told' = told \cup {b}
    BY <1>3
  <2> HIDE DEF b
  <2> QED
    BY <1>2, <1>4, <1>5, <2>1, <2>2, <2>3, <2>4, <2>5 DEF IntakeInv, ToldTrue
<1>9. IdsApart'
  BY <1>2, <1>3, <1>4, <1>5 DEF IntakeInv, IdsApart
<1> QED
  BY <1>1, <1>6, <1>7, <1>8, <1>9 DEF IntakeInv

\* Delete turns jobs into tombstones and changes nothing else of them.
LEMMA DeleteJobKeeps ==
    ASSUME IntakeInv, NEW c \in job_calls, DeleteJob(c)
    PROVE  IntakeInv'
<1>1. /\ UploadInv' /\ CommitsAnswered' /\ TypeOK'
      /\ Sessions' = Sessions /\ UNCHANGED <<upload_session, replies>>
  BY UploadsStay DEF DeleteJob, Settle
<1>2. job_calls' = job_calls \ {c} /\ told' = told
  BY DEF DeleteJob, Settle
<1>3. \A u \in Uploads :
         pdf_job'[u] = IF u \in Stored /\ pdf_job[u].id = c.id /\ pdf_job[u].owner = c.owner
                       THEN [pdf_job[u] EXCEPT !.deleted = TRUE] ELSE pdf_job[u]
  BY DEF DeleteJob
<1>4. \A j \in Job :
         LET k == [j EXCEPT !.deleted = TRUE]
         IN /\ k \in Job /\ k # NoJob
            /\ k.id = j.id /\ k.owner = j.owner
            /\ k.input_sha256 = j.input_sha256 /\ k.input_bytes = j.input_bytes
            /\ [k EXCEPT !.deleted = FALSE] = [j EXCEPT !.deleted = FALSE]
  <2>1. \A j \in Job : [j EXCEPT !.deleted = TRUE] \in Job
    BY DEF Job
  <2> QED
    BY <2>1, JobFields DEF Job
<1>5. \A u \in Stored :
         /\ pdf_job'[u] \in Job /\ pdf_job'[u] # NoJob
         /\ pdf_job'[u].id = pdf_job[u].id /\ pdf_job'[u].owner = pdf_job[u].owner
         /\ pdf_job'[u].input_sha256 = pdf_job[u].input_sha256
         /\ pdf_job'[u].input_bytes = pdf_job[u].input_bytes
         /\ [pdf_job'[u] EXCEPT !.deleted = FALSE] = [pdf_job[u] EXCEPT !.deleted = FALSE]
  <2> SUFFICES ASSUME NEW u \in Stored
               PROVE  /\ pdf_job'[u] \in Job /\ pdf_job'[u] # NoJob
                      /\ pdf_job'[u].id = pdf_job[u].id /\ pdf_job'[u].owner = pdf_job[u].owner
                      /\ pdf_job'[u].input_sha256 = pdf_job[u].input_sha256
                      /\ pdf_job'[u].input_bytes = pdf_job[u].input_bytes
                      /\ [pdf_job'[u] EXCEPT !.deleted = FALSE]
                            = [pdf_job[u] EXCEPT !.deleted = FALSE]
    OBVIOUS
  <2>1. u \in Uploads /\ pdf_job[u] \in Job /\ pdf_job[u] # NoJob
    BY StoredRows, JobFields DEF IntakeInv
  <2>2. pdf_job'[u] = pdf_job[u] \/ pdf_job'[u] = [pdf_job[u] EXCEPT !.deleted = TRUE]
    BY <1>3, <2>1
  <2> QED
    BY <1>4, <2>1, <2>2
<1>6. \A u \in Uploads \ Stored : pdf_job'[u] = NoJob
  BY <1>3, StoredRows DEF IntakeInv
<1>7. Stored' = Stored
  BY <1>5, <1>6 DEF Stored
<1>8. IntakeTypeOK'
  <2>1. DOMAIN pdf_job' = Uploads /\ pdf_job' = [u \in Uploads |-> pdf_job'[u]]
    BY DEF DeleteJob
  <2>2. \A u \in Uploads : pdf_job'[u] \in Job \cup {NoJob}
    BY <1>5, <1>6
  <2>3. pdf_job' \in [Uploads -> Job \cup {NoJob}]
    BY <2>1, <2>2
  <2> QED
    BY <1>1, <1>2, <2>3 DEF IntakeInv, IntakeTypeOK
<1>9. JobsTrue'
  BY <1>1, <1>5, <1>7 DEF IntakeInv, JobsTrue, JobTrue
<1>10. ToldTrue'
  BY <1>2, <1>5, <1>7 DEF IntakeInv, ToldTrue
<1>11. IdsApart'
  <2>1. \A u \in Stored : pdf_job'[u].id = pdf_job[u].id
    BY <1>5
  <2> QED
    BY <1>2, <1>7, <2>1 DEF IntakeInv, IdsApart
<1> QED
  BY <1>1, <1>8, <1>9, <1>10, <1>11 DEF IntakeInv

----------------------------------------------------------------------------
\* No session, no job, no answer.
LEMMA IntakeInitInv == IntakeInit => IntakeInv
<1> SUFFICES ASSUME IntakeInit PROVE IntakeInv
  OBVIOUS
<1>1. UploadInv
  BY InitInv DEF IntakeInit
<1>2. Sessions = {} /\ Stored = {}
  BY DEF IntakeInit, Init, Sessions, Stored
<1>3. IntakeTypeOK
  BY <1>1 DEF IntakeInit, IntakeTypeOK, UploadInv
<1> QED
  BY <1>1, <1>2, <1>3
  DEF IntakeInit, IntakeInv, CommitsAnswered, JobsTrue, ToldTrue, IdsApart

\* Every step keeps the invariant.
LEMMA IntakeNextInv == IntakeInv /\ [IntakeNext]_intakeVars => IntakeInv'
<1> SUFFICES ASSUME IntakeInv, [IntakeNext]_intakeVars PROVE IntakeInv'
  OBVIOUS
<1>1. CASE (Next /\ UNCHANGED jobVars) \/ UNCHANGED intakeVars
  BY <1>1, UploadKeeps DEF intakeVars, uploadVars
<1>2. ASSUME NEW o \in Owners, NEW u \in Uploads, NEW creator \in Creators \cup {NoCreator},
             NEW id \in JobIds, CallCreateJob(o, u, creator, id)
      PROVE  IntakeInv'
  <2> DEFINE c == [op |-> "create", id |-> id, upload |-> u, owner |-> o,
                   creator |-> creator]
  <2>1. c \in JobCall /\ c.id = id
    BY DEF JobCall
  <2>2. SendJobCall(c) /\ id \notin IdsInUse
    BY <1>2 DEF CallCreateJob
  <2> QED
    BY <2>1, <2>2, SendJobCallKeeps
<1>3. ASSUME NEW o \in Owners, NEW u \in Uploads, CallDeleteJob(o, u)
      PROVE  IntakeInv'
  <2> DEFINE c == [op |-> "delete", id |-> pdf_job[u].id, owner |-> o]
  <2>1. pdf_job[u].id \in JobIds
    BY <1>3, StoredRows, JobFields DEF IntakeInv, CallDeleteJob
  <2>2. c \in JobCall /\ c.op # "create"
    BY <2>1 DEF JobCall
  <2>3. SendJobCall(c)
    BY <1>3 DEF CallDeleteJob
  <2> QED
    BY <2>2, <2>3, SendJobCallKeeps
<1>4. ASSUME NEW c \in job_calls, LoseJobCall(c) \/ RefuseCreate(c)
      PROVE  IntakeInv'
  <2>1. Settle(c) /\ UNCHANGED pdf_job /\ told' = told \cup {}
    BY <1>4 DEF LoseJobCall, RefuseCreate
  <2>2. {} \in SUBSET Creation
    OBVIOUS
  <2> QED
    BY <2>1, <2>2, SettleKeeps
<1>5. ASSUME NEW c \in job_calls, CreateJob(c)
      PROVE  IntakeInv'
  BY <1>5, CreateJobKeeps
<1>6. ASSUME NEW c \in job_calls, ReturnExisting(c)
      PROVE  IntakeInv'
  <2> DEFINE a == [upload |-> c.upload, caller |-> c.owner, job |-> pdf_job[c.upload]]
  <2>1. /\ c.upload \in Stored /\ ~pdf_job[c.upload].deleted /\ Settle(c)
        /\ c.op = "create" /\ pdf_job[c.upload].owner = c.owner
        /\ UNCHANGED pdf_job /\ told' = told \cup {a}
    BY <1>6 DEF ReturnExisting, Tell
  <2>2. /\ a \in Creation /\ a.upload = c.upload /\ a.job = pdf_job[c.upload]
        /\ a.caller = a.job.owner
    <3>1. c \in JobCall /\ c.upload \in Uploads /\ pdf_job[c.upload] \in Job
      BY <2>1, StoredRows DEF IntakeInv, IntakeTypeOK
    <3>2. c.owner \in Owners
      BY <2>1, <3>1, CreateCall
    <3> QED
      BY <2>1, <3>1, <3>2 DEF Creation
  <2> HIDE DEF a
  <2> DEFINE more == {a}
  <2>3. /\ more \in SUBSET Creation
        /\ told' = told \cup more
        /\ \A b \in more : /\ b.upload \in Stored
                           /\ ~pdf_job[b.upload].deleted
                           /\ b.job = pdf_job[b.upload]
                           /\ b.caller = b.job.owner
    BY <2>1, <2>2
  <2> HIDE DEF more
  <2> QED
    BY <2>1, <2>3, SettleKeeps
<1>7. ASSUME NEW c \in job_calls, DeleteJob(c)
      PROVE  IntakeInv'
  BY <1>7, DeleteJobKeeps
<1> QED
  BY <1>1, <1>2, <1>3, <1>4, <1>5, <1>6, <1>7 DEF IntakeNext

\* What callers were told follows from the invariant.
LEMMA AgreementFollows == IntakeInv => CreationsAgree
<1> SUFFICES ASSUME IntakeInv, NEW a \in told
             PROVE  /\ ~a.job.deleted
                    /\ [pdf_job[a.upload] EXCEPT !.deleted = FALSE] = a.job
                    /\ a.caller = a.job.owner
                    /\ a.job.owner = upload_session[a.upload].owner
                    /\ Completed(a.upload, a.job.input_sha256) \in replies
  BY DEF CreationsAgree, Completed
<1> DEFINE j == pdf_job[a.upload]
<1>1. /\ a.upload \in Stored /\ ~a.job.deleted /\ [j EXCEPT !.deleted = FALSE] = a.job
      /\ a.caller = a.job.owner
  BY DEF IntakeInv, ToldTrue
<1>2. j \in Job /\ a.upload \in Sessions /\ JobTrue(j, upload_session[a.upload])
  BY <1>1, StoredRows DEF IntakeInv, JobsTrue
<1>3. a.job.owner = j.owner /\ a.job.input_sha256 = j.input_sha256
  BY <1>1, <1>2 DEF Job
<1> QED
  BY <1>1, <1>2, <1>3 DEF IntakeInv, CommitsAnswered, JobTrue

\* IntakeInv holds in every reachable state.
THEOREM IntakeInvAlways == IntakeSpec => []IntakeInv
BY IntakeInitInv, IntakeNextInv, PTL DEF IntakeSpec

\* Rows, statements and answers of job creation keep their types.
THEOREM IntakeTypeCorrect == IntakeSpec => []IntakeTypeOK
<1>1. IntakeInv => IntakeTypeOK
  BY DEF IntakeInv
<1> QED
  BY <1>1, IntakeInvAlways, PTL

\* However often Create is asked for an upload and whatever it races with, all its
\* callers are told the one job of the upload, and they are its owner.
THEOREM CreationsAgreeAlways == IntakeSpec => []CreationsAgree
BY AgreementFollows, IntakeInvAlways, PTL

----------------------------------------------------------------------------
(* JobIntake implements DocumentFlow.                                      *)

\* The document and job tables that DocumentFlow sees.
Documents == [u \in Uploads |-> DocumentOf(u)]
JobTable == [u \in Uploads |-> JobOf(u)]

\* Rows that stay give documents and jobs that stay.
LEMMA SameDocument ==
    ASSUME NEW u, upload_session'[u] = upload_session[u]
    PROVE  DocumentOf(u)' = DocumentOf(u)
BY DEF DocumentOf

\* What the job row of an upload means depends on that row alone.
LEMMA SameJob ==
    ASSUME NEW u, pdf_job'[u] = pdf_job[u]
    PROVE  JobOf(u)' = JobOf(u)
BY DEF JobOf

\* A step that leaves both tables alone is a stutter.
LEMMA FlowStutter ==
    ASSUME UNCHANGED <<upload_session, pdf_job>>
    PROVE  UNCHANGED Flow!vars
<1>1. \A u \in Uploads : DocumentOf(u)' = DocumentOf(u) /\ JobOf(u)' = JobOf(u)
  BY SameDocument, SameJob
<1> QED
  BY <1>1 DEF Flow!vars

\* A step of Upload opens, commits or closes one document at most.
LEMMA FlowUpload ==
    ASSUME IntakeInv, UploadMove, UNCHANGED jobVars
    PROVE  [Flow!Next]_(Flow!vars)
<1>1. UNCHANGED pdf_job /\ JobTable' = JobTable
  BY SameJob DEF jobVars, JobTable
<1>2. CASE UNCHANGED upload_session
  BY <1>1, <1>2, FlowStutter
<1>3. ASSUME NEW u \in Uploads, NEW new \in Session,
             upload_session' = [upload_session EXCEPT ![u] = new],
             SessionMove(u, upload_session[u], new)
      PROVE  [Flow!Next]_(Flow!vars)
  <2> DEFINE s == upload_session[u]
  <2>1. /\ upload_session'[u] = new
        /\ \A x \in Uploads : x # u => upload_session'[x] = upload_session[x]
    BY <1>3 DEF IntakeInv, UploadInv, TypeOK
  <2>2. \A x \in Uploads : x # u => DocumentOf(x)' = DocumentOf(x)
    BY <2>1, SameDocument
  <2>3. Documents' = [Documents EXCEPT ![u] = DocumentOf(u)'] /\ Documents[u] = DocumentOf(u)
    BY <2>2 DEF Documents
  <2>4. CASE s = NoSession /\ new.status = "uploading" /\ new.declared_size \in DeclaredSizes
    <3>1. DocumentOf(u) = Flow!Nothing
      BY <2>4 DEF DocumentOf, NoSession, Flow!Nothing
    <3>2. DocumentOf(u)' = [stage |-> "open", owner |-> new.owner, bytes |-> new.declared_size]
      BY <2>1, <2>4 DEF DocumentOf
    <3>3. new.owner \in Owners
      BY DEF Session
    <3>4. Flow!Open(u, new.owner, new.declared_size)
      BY <1>1, <2>3, <3>1, <3>2 DEF Flow!Open, Documents, JobTable
    <3> QED
      BY <2>4, <3>3, <3>4 DEF Flow!Next
  <2>5. CASE /\ s \in Session /\ s.status \in OpenStatus
             /\ new.owner = s.owner /\ new.declared_size = s.declared_size
    <3>1. DocumentOf(u) = [stage |-> "open", owner |-> s.owner, bytes |-> s.declared_size]
      BY <2>5 DEF DocumentOf, OpenStatus
    <3>2. CASE new.status \in OpenStatus
      <4>1. DocumentOf(u)' = DocumentOf(u)
        BY <2>1, <2>5, <3>1, <3>2 DEF DocumentOf, OpenStatus
      <4>2. Documents' = Documents
        BY <2>3, <4>1 DEF Documents
      <4> QED
        BY <1>1, <4>2 DEF Flow!vars, Documents, JobTable
    <3>3. CASE new.status = "aborted"
      <4>1. DocumentOf(u)' = [stage |-> "closed", owner |-> s.owner, bytes |-> s.declared_size]
        BY <2>1, <2>5, <3>3 DEF DocumentOf
      <4>2. DocumentOf(u)' = [DocumentOf(u) EXCEPT !.stage = "closed"]
        BY <3>1, <4>1
      <4>3. Documents' = [Documents EXCEPT ![u].stage = "closed"]
        BY <2>3, <4>2
      <4>4. Documents[u].stage = "open"
        BY <2>3, <3>1
      <4>5. Flow!Close(u)
        BY <1>1, <4>3, <4>4 DEF Flow!Close, Documents, JobTable
      <4> QED
        BY <4>5 DEF Flow!Next
    <3>4. CASE new.status = "committed" /\ new.committed_sha256 \in Digests
      <4>1. DocumentOf(u)' = [stage |-> "committed", owner |-> s.owner,
                              bytes |-> s.declared_size, digest |-> new.committed_sha256]
        BY <2>1, <2>5, <3>4 DEF DocumentOf
      <4>2. Documents' = [Documents EXCEPT ![u] =
               [stage |-> "committed", owner |-> @.owner, bytes |-> @.bytes,
                digest |-> new.committed_sha256]]
        BY <2>3, <3>1, <4>1
      <4>3. Documents[u].stage = "open"
        BY <2>3, <3>1
      <4>4. Flow!Commit(u, new.committed_sha256)
        BY <1>1, <4>2, <4>3 DEF Flow!Commit, Documents, JobTable
      <4> QED
        BY <3>4, <4>4 DEF Flow!Next
    <3> QED
      BY <1>3, <2>5, <3>2, <3>3, <3>4, SessionFields DEF SessionMove
  <2> QED
    BY <1>3, <2>4, <2>5 DEF SessionMove
<1> QED
  BY <1>2, <1>3 DEF UploadMove

\* The INSERT of Create submits the document.
LEMMA FlowSubmit ==
    ASSUME IntakeInv, NEW c \in job_calls, CreateJob(c)
    PROVE  [Flow!Next]_(Flow!vars)
<1> DEFINE u == c.upload
           s == upload_session[u]
           j == JobRow(c)
<1>1. /\ u \in Uploads /\ j \in Job /\ JobTrue(j, s) /\ j.id = c.id /\ ~j.deleted
      /\ c.op = "create"
  BY JobRowTrue DEF CreateJob
<1>2. /\ pdf_job[u] = NoJob /\ pdf_job' = [pdf_job EXCEPT ![u] = j]
      /\ UNCHANGED upload_session
  BY DEF CreateJob, Settle, uploadVars, vars
<1> HIDE DEF j
<1>3. /\ pdf_job'[u] = j /\ j # NoJob
      /\ \A x \in Uploads : x # u => pdf_job'[x] = pdf_job[x]
  BY <1>1, <1>2, JobFields DEF IntakeInv, IntakeTypeOK
<1>4. Documents' = Documents
  BY <1>2, SameDocument DEF Documents
<1>5. \A x \in Uploads : x # u => JobOf(x)' = JobOf(x)
  BY <1>3, SameJob
<1>6. JobTable' = [JobTable EXCEPT ![u] = JobOf(u)']
  BY <1>5 DEF JobTable
<1>7. JobOf(u) = Flow!Nothing
  BY <1>2 DEF JobOf, Flow!Nothing
<1>8. DocumentOf(u) = [stage |-> "committed", owner |-> s.owner,
                       bytes |-> s.declared_size, digest |-> s.committed_sha256]
  BY <1>1 DEF JobTrue, DocumentOf
<1>9. JobOf(u)' = [stage |-> "live", id |-> c.id, owner |-> DocumentOf(u).owner,
                   bytes |-> DocumentOf(u).bytes, digest |-> DocumentOf(u).digest]
  BY <1>1, <1>3, <1>8 DEF JobTrue, JobOf
<1>10. \A x \in Uploads : JobOf(x) # Flow!Nothing => JobOf(x).id # c.id
  <2> SUFFICES ASSUME NEW x \in Uploads, JobOf(x) # Flow!Nothing
               PROVE  JobOf(x).id # c.id
    OBVIOUS
  <2>1. pdf_job[x] # NoJob
    BY DEF JobOf, Flow!Nothing
  <2>2. pdf_job[x].id # c.id
    BY <1>1, <2>1 DEF IntakeInv, IdsApart, Stored
  <2> QED
    BY <2>1, <2>2 DEF JobOf
<1>11. c.id \in JobIds
  BY <1>1, CreateCall DEF IntakeInv, IntakeTypeOK
<1>12. Flow!Submit(u, c.id)
  <2>1. Documents[u] = DocumentOf(u) /\ JobTable[u] = JobOf(u)
    BY <1>1 DEF Documents, JobTable
  <2>2. Documents[u].stage = "committed" /\ JobTable[u] = Flow!Nothing
    BY <1>7, <1>8, <2>1
  <2>3. \A x \in Uploads : JobTable[x] # Flow!Nothing => JobTable[x].id # c.id
    BY <1>10 DEF JobTable
  <2>4. JobTable' = [JobTable EXCEPT ![u] =
           [stage |-> "live", id |-> c.id, owner |-> Documents[u].owner,
            bytes |-> Documents[u].bytes, digest |-> Documents[u].digest]]
    BY <1>6, <1>9, <2>1
  <2> QED
    BY <1>4, <2>2, <2>3, <2>4 DEF Flow!Submit, Documents, JobTable
<1> QED
  BY <1>1, <1>11, <1>12 DEF Flow!Next

\* Delete deletes the one job with the id, or nothing.
LEMMA FlowDelete ==
    ASSUME IntakeInv, NEW c \in job_calls, DeleteJob(c)
    PROVE  [Flow!Next]_(Flow!vars)
<1> DEFINE Hit(u) == u \in Stored /\ pdf_job[u].id = c.id /\ pdf_job[u].owner = c.owner
<1>1. UNCHANGED upload_session /\ Documents' = Documents
  BY SameDocument DEF DeleteJob, Settle, uploadVars, vars, Documents
<1>2. \A x \in Uploads :
         pdf_job'[x] = IF Hit(x) THEN [pdf_job[x] EXCEPT !.deleted = TRUE] ELSE pdf_job[x]
  BY DEF DeleteJob
<1>3. ASSUME NEW u \in Uploads, Hit(u), ~pdf_job[u].deleted
      PROVE  [Flow!Next]_(Flow!vars)
  <2> DEFINE j == pdf_job[u]
             k == [j EXCEPT !.deleted = TRUE]
  <2>1. j \in Job /\ j # NoJob /\ k \in Job /\ k # NoJob /\ pdf_job'[u] = k
    BY <1>2, <1>3, StoredRows, JobFields DEF IntakeInv
  <2>2. /\ k.deleted /\ k.id = j.id /\ k.owner = j.owner
        /\ k.input_bytes = j.input_bytes /\ k.input_sha256 = j.input_sha256
    BY <2>1 DEF Job
  <2>3. \A x \in Uploads : x # u => ~Hit(x)
    BY <1>3 DEF IntakeInv, IdsApart
  <2>4. \A x \in Uploads : x # u => JobOf(x)' = JobOf(x)
    BY <1>2, <2>3, SameJob
  <2>5. JobTable' = [JobTable EXCEPT ![u] = JobOf(u)']
    BY <2>4 DEF JobTable
  <2>6. JobOf(u) = [stage |-> "live", id |-> j.id, owner |-> j.owner,
                    bytes |-> j.input_bytes, digest |-> j.input_sha256]
    BY <1>3, <2>1 DEF JobOf
  <2>7. JobOf(u)' = [stage |-> "deleted", id |-> j.id, owner |-> j.owner,
                     bytes |-> j.input_bytes, digest |-> j.input_sha256]
    BY <2>1, <2>2 DEF JobOf
  <2>8. JobOf(u)' = [JobOf(u) EXCEPT !.stage = "deleted"]
    BY <2>6, <2>7
  <2>9. JobTable[u] = JobOf(u) /\ JobTable[u].stage = "live"
    BY <2>6 DEF JobTable
  <2>10. JobTable' = [JobTable EXCEPT ![u].stage = "deleted"]
    BY <2>5, <2>8, <2>9
  <2>11. Flow!Delete(u)
    BY <1>1, <2>9, <2>10 DEF Flow!Delete, Documents, JobTable
  <2> QED
    BY <2>11 DEF Flow!Next
<1>4. CASE \A u \in Uploads : Hit(u) => pdf_job[u].deleted
  <2>1. \A j \in Job : j.deleted => [j EXCEPT !.deleted = TRUE] = j
    BY DEF Job
  <2>2. \A x \in Uploads : pdf_job'[x] = pdf_job[x]
    BY <1>2, <1>4, <2>1, StoredRows DEF IntakeInv
  <2>3. JobTable' = JobTable
    BY <2>2, SameJob DEF JobTable
  <2> QED
    BY <1>1, <2>3 DEF Flow!vars, Documents, JobTable
<1> QED
  BY <1>3, <1>4

\* Every step of JobIntake is a step of DocumentFlow or a stutter.
LEMMA FlowStep == IntakeInv /\ [IntakeNext]_intakeVars => [Flow!Next]_(Flow!vars)
<1> SUFFICES ASSUME IntakeInv, [IntakeNext]_intakeVars PROVE [Flow!Next]_(Flow!vars)
  OBVIOUS
<1>1. CASE Next /\ UNCHANGED jobVars
  BY <1>1, UploadStep, FlowUpload DEF IntakeInv
<1>2. CASE UNCHANGED intakeVars
  BY <1>2, FlowStutter DEF intakeVars, uploadVars, vars, jobVars
<1>3. ASSUME NEW c, SendJobCall(c) \/ LoseJobCall(c) \/ RefuseCreate(c) \/ ReturnExisting(c)
      PROVE  [Flow!Next]_(Flow!vars)
  BY <1>3, FlowStutter
  DEF SendJobCall, LoseJobCall, RefuseCreate, ReturnExisting, Settle, uploadVars, vars
<1>4. ASSUME NEW o, NEW u, NEW creator, NEW id, CallCreateJob(o, u, creator, id)
      PROVE  [Flow!Next]_(Flow!vars)
  BY <1>3, <1>4 DEF CallCreateJob
<1>5. ASSUME NEW o, NEW u, CallDeleteJob(o, u)
      PROVE  [Flow!Next]_(Flow!vars)
  BY <1>3, <1>5 DEF CallDeleteJob
<1>6. ASSUME NEW c \in job_calls, CreateJob(c)
      PROVE  [Flow!Next]_(Flow!vars)
  BY <1>6, FlowSubmit
<1>7. ASSUME NEW c \in job_calls, DeleteJob(c)
      PROVE  [Flow!Next]_(Flow!vars)
  BY <1>7, FlowDelete
<1> QED
  BY <1>1, <1>2, <1>3, <1>4, <1>5, <1>6, <1>7 DEF IntakeNext

\* No row is no document and no job.
LEMMA FlowInit == IntakeInit => Flow!Init
<1> SUFFICES ASSUME IntakeInit PROVE Flow!Init
  OBVIOUS
<1>1. \A u \in Uploads : DocumentOf(u) = Flow!Nothing /\ JobOf(u) = Flow!Nothing
  BY DEF IntakeInit, Init, DocumentOf, JobOf, NoSession, Flow!Nothing
<1> QED
  BY <1>1 DEF Flow!Init

\* Uploads, creations and deletions implement DocumentFlow: one commitment per
\* document, one job per committed document, no revival.
THEOREM FlowRefined == IntakeSpec => ImplementsFlow
BY FlowInit, FlowStep, IntakeInvAlways, PTL DEF IntakeSpec, ImplementsFlow, Flow!Spec
=============================================================================
