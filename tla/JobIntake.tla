------------------------------ MODULE JobIntake ------------------------------
(***************************************************************************)
(* From upload to job: Upload composed with the creation and deletion of   *)
(* jobs (Manager.Create and Delete of internal/job on PostgresStore).      *)
(*                                                                         *)
(* Create is one statement that reads the upload and inserts the job; it   *)
(* runs at any moment after it was sent, however the upload moves          *)
(* meanwhile, and clients that heard no answer send it again.  What        *)
(* happens to a job after its creation is the subject of JobQueue; here a  *)
(* job is what its creation made of it, and whether it is deleted.         *)
(***************************************************************************)
EXTENDS Upload

CONSTANTS
    Anonymous,      \* owners that are anonymous sessions
    Creators,       \* identity snapshots of authenticated callers
    NoCreator,      \* the snapshot of an anonymous caller
    JobIds          \* job ids; a random id is in use nowhere else

CONSTANT MaxJobCalls    \* bound: statements on jobs in flight

ASSUME IntakeAssumption ==
    /\ Anonymous \subseteq Owners
    /\ NoCreator \notin Creators

VARIABLES
    pdf_job,        \* the job of each upload, or NoJob; upload_id is UNIQUE
    job_calls,      \* statements sent and not yet applied
    told            \* what callers of Create were told: who, and which job

uploadVars == vars
jobVars == <<pdf_job, job_calls, told>>
intakeVars == <<uploadVars, jobVars>>

----------------------------------------------------------------------------
NoJob == [status |-> "absent"]

Job ==
    [id : JobIds, owner : Owners, creator : Creators \cup {NoCreator},
     input_sha256 : Digests, input_bytes : Nat, deleted : BOOLEAN]

\* The record that a caller was told a job.
Creation == [upload : Uploads, caller : Owners, job : Job]

JobCall ==
    [op : {"create"}, id : JobIds, upload : Uploads, owner : Owners,
     creator : Creators \cup {NoCreator}]
    \cup [op : {"delete"}, id : JobIds, owner : Owners]

Stored == {u \in Uploads : pdf_job[u] # NoJob}

\* validateCreator: a snapshot for authenticated owners and for no others.
CreatorAccepted(owner, creator) == owner \in Anonymous <=> creator = NoCreator

IdsInUse == {pdf_job[u].id : u \in Stored} \cup {c.id : c \in job_calls}

\* The source of the INSERT.
Source(c) ==
    /\ c.upload \in Sessions
    /\ LET s == upload_session[c.upload]
       IN /\ s.owner = c.owner
          /\ s.status = "committed"
          /\ s.committed_sha256 # NoDigest
          /\ s.committed_at # NoTime
          /\ s.received_bytes = s.declared_size

----------------------------------------------------------------------------
IntakeInit ==
    /\ Init
    /\ pdf_job = [u \in Uploads |-> NoJob]
    /\ job_calls = {}
    /\ told = {}

SendJobCall(c) ==
    /\ Cardinality(job_calls) < MaxJobCalls
    /\ job_calls' = job_calls \cup {c}
    /\ UNCHANGED <<uploadVars, pdf_job, told>>

\* Manager.Create up to the statement.
CallCreateJob(o, u, creator, id) ==
    /\ u \in Sessions
    /\ CreatorAccepted(o, creator)
    /\ id \notin IdsInUse
    /\ SendJobCall([op |-> "create", id |-> id, upload |-> u, owner |-> o,
                    creator |-> creator])

\* Manager.Delete up to the statement.
CallDeleteJob(o, u) ==
    /\ u \in Stored
    /\ SendJobCall([op |-> "delete", id |-> pdf_job[u].id, owner |-> o])

\* The statement is over, was refused, or never arrives.
Settle(c) == job_calls' = job_calls \ {c} /\ UNCHANGED uploadVars

LoseJobCall(c) == Settle(c) /\ UNCHANGED <<pdf_job, told>>

JobRow(c) ==
    LET s == upload_session[c.upload]
    IN [id |-> c.id, owner |-> c.owner, creator |-> c.creator,
        input_sha256 |-> s.committed_sha256, input_bytes |-> s.declared_size,
        deleted |-> FALSE]

\* The caller of Create is told a job.
Tell(c, job) == told' = told \cup {[upload |-> c.upload, caller |-> c.owner, job |-> job]}

\* Create inserts the job.
CreateJob(c) ==
    /\ c.op = "create"
    /\ Source(c)
    /\ pdf_job[c.upload] = NoJob
    /\ pdf_job' = [pdf_job EXCEPT ![c.upload] = JobRow(c)]
    /\ Tell(c, JobRow(c))
    /\ Settle(c)

\* Faulty variant: a job the upload already has is returned before the upload
\* and its owner are looked at.
ReturnExistingFirst(c) ==
    /\ c.op = "create"
    /\ c.upload \in Stored
    /\ ~pdf_job[c.upload].deleted
    /\ Tell(c, pdf_job[c.upload])
    /\ Settle(c)
    /\ UNCHANGED pdf_job

\* Faulty variant: the conflict makes a live job of the tombstone.
ReturnExistingRevived(c) ==
    /\ c.op = "create"
    /\ Source(c)
    /\ c.upload \in Stored
    /\ pdf_job' = [pdf_job EXCEPT ![c.upload].deleted = FALSE]
    /\ Tell(c, pdf_job'[c.upload])
    /\ Settle(c)

\* ON CONFLICT (upload_id): the owner's job is returned as it is.
ReturnExisting(c) ==
    /\ c.op = "create"
    /\ Source(c)
    /\ c.upload \in Stored
    /\ pdf_job[c.upload].owner = c.owner
    /\ ~pdf_job[c.upload].deleted
    /\ Tell(c, pdf_job[c.upload])
    /\ Settle(c)
    /\ UNCHANGED pdf_job

\* ErrNotFound, and ErrConflict for a deleted job.
RefuseCreate(c) ==
    /\ c.op = "create"
    /\ \/ ~Source(c)
       \/ c.upload \in Stored /\ pdf_job[c.upload].owner # c.owner
       \/ c.upload \in Stored /\ pdf_job[c.upload].deleted
    /\ LoseJobCall(c)

\* Delete leaves a tombstone; it succeeds also if it finds nothing to delete.
DeleteJob(c) ==
    /\ c.op = "delete"
    /\ pdf_job' = [u \in Uploads |->
          IF u \in Stored /\ pdf_job[u].id = c.id /\ pdf_job[u].owner = c.owner
          THEN [pdf_job[u] EXCEPT !.deleted = TRUE] ELSE pdf_job[u]]
    /\ Settle(c)
    /\ UNCHANGED told

IntakeNext ==
    \/ Next /\ UNCHANGED jobVars
    \/ \E o \in Owners, u \in Uploads, creator \in Creators \cup {NoCreator}, id \in JobIds :
          CallCreateJob(o, u, creator, id)
    \/ \E o \in Owners, u \in Uploads : CallDeleteJob(o, u)
    \/ \E c \in job_calls : LoseJobCall(c)
    \/ \E c \in job_calls : CreateJob(c)
    \/ \E c \in job_calls : ReturnExisting(c)
    \/ \E c \in job_calls : RefuseCreate(c)
    \/ \E c \in job_calls : DeleteJob(c)

IntakeSpec == IntakeInit /\ [][IntakeNext]_intakeVars

----------------------------------------------------------------------------
\* Every variable has its type.
IntakeTypeOK ==
    /\ TypeOK
    /\ pdf_job \in [Uploads -> Job \cup {NoJob}]
    /\ job_calls \subseteq JobCall
    /\ told \subseteq Creation

\* "CreateRequest ... used to create exactly one durable job": all callers of
\* Create for an upload, however often they ask and whatever they race with,
\* are told the same job with the identity snapshot of the first, nobody is told
\* a job but its owner, who owns the upload, or one that is deleted, and the
\* input is the object whose completion was acknowledged.
CreationsAgree ==
    \A a \in told :
        /\ ~a.job.deleted
        /\ [pdf_job[a.upload] EXCEPT !.deleted = FALSE] = a.job
        /\ a.caller = a.job.owner
        /\ a.job.owner = upload_session[a.upload].owner
        /\ [op |-> "complete", upload |-> a.upload, digest |-> a.job.input_sha256] \in replies

\* What the rows mean for a document.
DocumentOf(u) ==
    LET s == upload_session[u]
    IN CASE s.status = "absent" -> [stage |-> "none"]
         [] s.status \in {"uploading", "committing"} ->
               [stage |-> "open", owner |-> s.owner, bytes |-> s.declared_size]
         [] s.status = "committed" ->
               [stage |-> "committed", owner |-> s.owner, bytes |-> s.declared_size,
                digest |-> s.committed_sha256]
         [] s.status \in {"aborted", "expired"} ->
               [stage |-> "closed", owner |-> s.owner, bytes |-> s.declared_size]

JobOf(u) ==
    LET j == pdf_job[u]
    IN IF j = NoJob THEN [stage |-> "none"]
       ELSE [stage |-> IF j.deleted THEN "deleted" ELSE "live", id |-> j.id,
             owner |-> j.owner, bytes |-> j.input_bytes, digest |-> j.input_sha256]

Flow == INSTANCE DocumentFlow WITH
            Documents <- Uploads, People <- Owners, Contents <- Digests,
            Identities <- JobIds, Sizes <- DeclaredSizes,
            document <- [u \in Uploads |-> DocumentOf(u)],
            job <- [u \in Uploads |-> JobOf(u)]

\* Uploads, creations and deletions together keep the promises of DocumentFlow.
ImplementsFlow == Flow!Spec
============================================================================
