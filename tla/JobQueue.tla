------------------------------ MODULE JobQueue ------------------------------
(***************************************************************************)
(* The durable job queue of internal/job: Manager (owner operations) and   *)
(* Queue (worker operations) on top of PostgresStore.                      *)
(*                                                                         *)
(* Manager and Queue read their clock in Go and only then send the SQL     *)
(* statement.  So every operation is two steps here: Call... reads the     *)
(* clock and puts the statement in `calls'; the action named after the     *)
(* store method applies the statement, atomically, whenever PostgreSQL     *)
(* gets to it.  Between the two, time passes, other statements run, the    *)
(* caller may crash, and the statement may never arrive (Lose).            *)
(*                                                                         *)
(* A worker's attempt at a job is a record of `held': the snapshot its     *)
(* last successful statement returned.  It says which status the worker    *)
(* expects and until when it believes it owns the lease.                   *)
(***************************************************************************)
EXTENDS JobStore, FiniteSets

CONSTANTS
    Jobs,           \* committed uploads; upload_id is UNIQUE in pdf_job
    Owners,         \* callers of the owner operations
    OwnerOf,        \* the owner of each upload, copied into its job
    ProgressValues, \* progress percentages workers report
    LeaseDuration,  \* Queue.leaseDuration
    RetryDelay,     \* Queue.retryDelay
    RecoveryBatch,  \* Queue.recoveryBatch
    Retention,      \* Manager.retention
    MaxAttempts,    \* Manager.maxAttempts
    Sequential      \* TRUE: a worker identity is one thread that makes one
                    \* call at a time and works on one job at a time.
                    \* FALSE: it may have several goroutines and statements
                    \* in flight (WORKER_CONCURRENCY > 1, background heartbeat,
                    \* a statement that outlives its cancelled context).

\* Bounds of the model; the code has none of them.
CONSTANTS
    MaxClock,       \* the clock stops here
    MaxInFlight,    \* statements in flight at once
    MaxVersion,     \* row version from which workers stop making lease calls
    LastWorkerCall  \* workers make calls up to this instant; heartbeats for jobs
                    \* that have been asked to stop are bound by neither

\* What NewManager and NewQueue insist on.
ASSUME PolicyAssumption ==
    /\ LeaseDuration \in Nat \ {0}
    /\ RetryDelay \in Nat
    /\ RecoveryBatch \in Nat \ {0}
    /\ Retention \in Nat \ {0}
    /\ MaxAttempts \in Nat \ {0}

ASSUME ActorAssumption ==
    /\ OwnerOf \in [Jobs -> Owners]
    /\ ProgressValues \subseteq 0..100
    /\ Sequential \in BOOLEAN

VARIABLES
    pdf_job,    \* the table: a row, or NoRow, for each upload
    clock,      \* the instant every process reads
    calls,      \* statements sent and not yet applied
    held        \* attempts workers are making, as last reported to them

vars == <<pdf_job, clock, calls, held>>

----------------------------------------------------------------------------
OwnerCall == [op : {"create", "cancel", "delete"}, job : Jobs, owner : Owners, now : Nat]
ClaimCall == [op : {"claim"}, worker : Workers, now : Nat]
HeartbeatCall == [op : {"heartbeat"}, worker : Workers, job : Jobs, attempt : Nat, now : Nat]
TransitionCall ==
    {c \in [op : {"transition"}, worker : Workers, job : Jobs, attempt : Nat,
            expected : ActiveStatus, next : Status, progress : 0..100, now : Nat] :
        WorkerMayRequest(c.expected, c.next, c.progress)}
RecoverCall == [op : {"recover"}, now : Nat]

LeaseCall == HeartbeatCall \cup TransitionCall
Call == OwnerCall \cup ClaimCall \cup LeaseCall \cup RecoverCall

Attempt ==
    [worker : Workers, job : Jobs, attempt : Nat, status : ActiveStatus, until : Nat]

\* What a claim, heartbeat or non-terminal transition reports to the worker.
Snapshot(w, j, attempt, r) ==
    [worker |-> w, job |-> j, attempt |-> attempt,
     status |-> r.status, until |-> r.lease_expires_at]

\* Faulty variant: the attempt goes on after a terminal transition.
RefreshedForEver(c, r) ==
    LET mine == {g \in held : g.worker = c.worker /\ g.job = c.job /\ g.attempt = c.attempt}
    IN (held \ mine) \cup {Snapshot(g.worker, g.job, g.attempt, r) : g \in mine}

\* The attempt that sent c learns the row r that c left; the attempt is over
\* when r is terminal, and unaffected when its worker has already dropped it.
Refreshed(c, r) ==
    LET mine == {g \in held : g.worker = c.worker /\ g.job = c.job /\ g.attempt = c.attempt}
    IN (held \ mine) \cup
       {Snapshot(g.worker, g.job, g.attempt, r) : g \in {h \in mine : IsActive(r)}}

\* No statement of worker w is in flight.
Idle(w) == \A c \in calls : c.op \in {"claim", "heartbeat", "transition"} => c.worker # w

\* Rows that other statements in flight may have locked, which SKIP LOCKED
\* passes over.
Lockable(c) ==
    {j \in Jobs : \E d \in calls \ {c} : d.op \in {"claim", "recover"} \/ d.job = j}

----------------------------------------------------------------------------
Init ==
    /\ pdf_job = [j \in Jobs |-> NoRow]
    /\ clock = 0
    /\ calls = {}
    /\ held = {}

Tick ==
    /\ clock < MaxClock
    /\ clock' = clock + 1
    /\ UNCHANGED <<pdf_job, calls, held>>

Send(c) ==
    /\ Cardinality(calls) < MaxInFlight
    /\ calls' = calls \cup {c}
    /\ UNCHANGED <<pdf_job, clock, held>>

\* Manager.Create, Manager.Cancel and Manager.Delete up to the statement.  The
\* id of a job is generated by Create, so nobody can name a job before it exists.
CallOwner(op, j, o) ==
    /\ op # "create" => pdf_job[j] # NoRow
    /\ Send([op |-> op, job |-> j, owner |-> o, now |-> clock])

\* Queue.Claim up to the statement.
CallClaim(w) ==
    /\ clock <= LastWorkerCall
    /\ Sequential => Idle(w) /\ \A g \in held : g.worker # w
    /\ Send([op |-> "claim", worker |-> w, now |-> clock])

\* Queue.Heartbeat up to the statement.  For a job asked to stop, whose version
\* heartbeats leave alone, workers send them for ever.
CallHeartbeat(g) ==
    /\ \/ clock <= LastWorkerCall /\ pdf_job[g.job].version < MaxVersion
       \/ StopRequested(pdf_job[g.job])
    /\ Sequential => Idle(g.worker)
    /\ Send([op |-> "heartbeat", worker |-> g.worker, job |-> g.job,
             attempt |-> g.attempt, now |-> clock])

\* Queue.Transition up to the statement.
CallTransition(g, next, progress) ==
    /\ clock <= LastWorkerCall /\ pdf_job[g.job].version < MaxVersion
    /\ Sequential => Idle(g.worker)
    /\ WorkerMayRequest(g.status, next, progress)
    /\ Send([op |-> "transition", worker |-> g.worker, job |-> g.job,
             attempt |-> g.attempt, expected |-> g.status, next |-> next,
             progress |-> progress, now |-> clock])

\* Queue.RecoverExpired up to the statement.
CallRecover == Send([op |-> "recover", now |-> clock])

\* The statement never reaches PostgreSQL, or fails there without effect.
Lose(c) ==
    /\ calls' = calls \ {c}
    /\ UNCHANGED <<pdf_job, clock, held>>

\* A worker crashes, times out or gives up; its statements stay in flight.
Abandon(g) ==
    /\ held' = held \ {g}
    /\ UNCHANGED <<pdf_job, clock, calls>>

----------------------------------------------------------------------------
Done(c) == calls' = calls \ {c} /\ UNCHANGED clock

\* PostgresStore.Create: inserts the seed, or returns the job the upload
\* already has; another owner finds no upload.
Create(c) ==
    /\ c.op = "create"
    /\ pdf_job' = IF c.owner = OwnerOf[c.job] /\ pdf_job[c.job] = NoRow
                  THEN [pdf_job EXCEPT ![c.job] = SeedRow(c.now, Retention, MaxAttempts)]
                  ELSE pdf_job
    /\ Done(c)
    /\ UNCHANGED held

\* PostgresStore.Cancel
Cancel(c) ==
    /\ c.op = "cancel"
    /\ pdf_job' = IF c.owner = OwnerOf[c.job] /\ CancelMatches(pdf_job[c.job])
                  THEN [pdf_job EXCEPT ![c.job] = CancelRow(@, c.now)]
                  ELSE pdf_job
    /\ Done(c)
    /\ UNCHANGED held

\* PostgresStore.Delete
Delete(c) ==
    /\ c.op = "delete"
    /\ pdf_job' = IF c.owner = OwnerOf[c.job] /\ DeleteMatches(pdf_job[c.job])
                  THEN [pdf_job EXCEPT ![c.job] = DeleteRow(@, c.now)]
                  ELSE pdf_job
    /\ Done(c)
    /\ UNCHANGED held

\* PostgresStore.Claim: the first claimable row that is not locked.
Claim(c) ==
    /\ c.op = "claim"
    /\ \E skipped \in SUBSET Lockable(c) :
          LET ready == {j \in Jobs \ skipped : Claimable(pdf_job[j], c.now)}
          IN \/ /\ ready = {}      \* ErrNoJobAvailable
                /\ UNCHANGED <<pdf_job, held>>
             \/ \E j \in ready :
                   /\ \A k \in ready : ~ClaimedBefore(pdf_job[k], pdf_job[j])
                   /\ pdf_job' = [pdf_job EXCEPT
                         ![j] = ClaimRow(@, c.worker, c.now, c.now + LeaseDuration)]
                   /\ held' = held \cup
                         {Snapshot(c.worker, j, pdf_job'[j].attempt_count, pdf_job'[j])}
    /\ Done(c)

\* PostgresStore.Heartbeat on a valid lease; a stop request changes nothing
\* and is reported as ErrCancellationRequested.
Heartbeat(c) ==
    /\ c.op = "heartbeat"
    /\ LeaseValid(pdf_job[c.job], c.worker, c.now)
    /\ pdf_job' = [pdf_job EXCEPT ![c.job] = HeartbeatRow(@, c.now, c.now + LeaseDuration)]
    /\ held' = Refreshed(c, pdf_job'[c.job])
    /\ Done(c)

\* PostgresStore.Transition when the row matches.
Transition(c) ==
    /\ c.op = "transition"
    /\ TransitionMatches(pdf_job[c.job], c.worker, c.expected, c.next, c.progress, c.now)
    /\ pdf_job' = [pdf_job EXCEPT
          ![c.job] = TransitionRow(@, c.next, c.progress, c.now, c.now + LeaseDuration)]
    /\ held' = Refreshed(c, pdf_job'[c.job])
    /\ Done(c)

\* ErrLeaseLost: no row matched.  The worker may go on or Abandon.
LeaseLost(c) ==
    /\ \/ c.op = "heartbeat" /\ ~LeaseValid(pdf_job[c.job], c.worker, c.now)
       \/ /\ c.op = "transition"
          /\ ~TransitionMatches(pdf_job[c.job], c.worker, c.expected, c.next, c.progress, c.now)
    /\ Done(c)
    /\ UNCHANGED <<pdf_job, held>>

\* PostgresStore.RecoverExpired: the oldest RecoveryBatch expired leases that
\* are not locked, each row settled or requeued.
RecoverExpired(c) ==
    /\ c.op = "recover"
    /\ \E skipped \in SUBSET Lockable(c) :
          LET expired == {j \in Jobs \ skipped : LeaseExpired(pdf_job[j], c.now)}
          IN \E batch \in SUBSET expired :
                /\ Cardinality(batch) <= RecoveryBatch
                /\ batch # expired => Cardinality(batch) = RecoveryBatch
                /\ \A j \in batch, k \in expired \ batch :
                      ~RecoveredBefore(pdf_job[k], pdf_job[j])
                /\ pdf_job' = [j \in Jobs |->
                      IF j \in batch
                      THEN RecoverRow(pdf_job[j], c.now, c.now + RetryDelay)
                      ELSE pdf_job[j]]
    /\ Done(c)
    /\ UNCHANGED held

Next ==
    \/ Tick
    \/ \E op \in {"create", "cancel", "delete"}, j \in Jobs, o \in Owners : CallOwner(op, j, o)
    \/ \E w \in Workers : CallClaim(w)
    \/ \E g \in held : CallHeartbeat(g)
    \/ \E g \in held, next \in Status, progress \in ProgressValues :
          CallTransition(g, next, progress)
    \/ \E g \in held : Abandon(g)
    \/ CallRecover
    \/ \E c \in calls : Lose(c)
    \/ \E c \in calls : Create(c)
    \/ \E c \in calls : Cancel(c)
    \/ \E c \in calls : Delete(c)
    \/ \E c \in calls : Claim(c)
    \/ \E c \in calls : Heartbeat(c)
    \/ \E c \in calls : Transition(c)
    \/ \E c \in calls : LeaseLost(c)
    \/ \E c \in calls : RecoverExpired(c)

Spec == Init /\ [][Next]_vars

\* A recovery pass that settles or requeues job j.
Recovers(j) == \E c \in calls : RecoverExpired(c) /\ pdf_job'[j] # pdf_job[j]

\* Time goes on, statements in flight are answered or fail, some process keeps
\* calling RecoverExpired, and no row is locked during every single pass.
\* Nothing is assumed of owners and workers.
RecoveryFairness ==
    /\ WF_vars(Tick)
    /\ WF_vars(\E c \in calls : Lose(c))
    /\ SF_vars(CallRecover)
    /\ \A j \in Jobs : SF_vars(Recovers(j))

FairSpec == Spec /\ RecoveryFairness

----------------------------------------------------------------------------
(* Invariants                                                              *)

Rows == {j \in Jobs : pdf_job[j] # NoRow}

\* Every variable has its type, and no statement in flight carries an instant
\* that the clock has not reached.
TypeOK ==
    /\ pdf_job \in [Jobs -> Row \cup {NoRow}]
    /\ clock \in Nat
    /\ calls \subseteq Call
    /\ held \subseteq Attempt
    /\ \A c \in calls : c.now <= clock

LeaseShape(r) ==
    IF IsActive(r)
    THEN /\ r.lease_owner \in Workers
         /\ r.heartbeat_at # NullTime
         /\ r.lease_expires_at = r.heartbeat_at + LeaseDuration
    ELSE /\ r.lease_owner = NoWorker
         /\ r.heartbeat_at = NullTime
         /\ r.lease_expires_at = NullTime

\* A row carries a complete lease exactly while it is active: owner, heartbeat
\* and deadline come and go together, so RecoverExpired finds every active row
\* by its deadline and no inactive row blocks on a leftover lease.  Each of the
\* six statements writes these columns on its own.
LeasesConsistent == \A j \in Rows : LeaseShape(pdf_job[j])

BudgetKept(r) ==
    /\ r.attempt_count <= r.max_attempts
    /\ r.status = "queued" => r.attempt_count < r.max_attempts
    /\ r.status \in ActiveStatus \cup {"completed"} => r.attempt_count > 0
    /\ r.error_code = "lease_attempts_exhausted" => r.attempt_count = r.max_attempts
    /\ r.started_at # NullTime <=> r.attempt_count > 0

\* However claims, crashes and recoveries interleave, a job is never started
\* more often than max_attempts (validateStoredJob would refuse the row from
\* then on), and a job sent back to the queue always has an attempt left: a
\* queued row that Claim's attempt guard skips for ever cannot arise.
AttemptsBounded == \A j \in Rows : BudgetKept(pdf_job[j])

StopKept(r) ==
    /\ r.status = "queued" => ~StopRequested(r)
    /\ r.cancel_requested_at # NullTime => r.status \in ActiveStatus \cup {"cancelled"}
    /\ r.status = "cancelled" => r.cancel_requested_at # NullTime
    /\ IsActive(r) /\ r.deletion_requested_at # NullTime => r.cancel_requested_at # NullTime

\* A stop request that found the job unfinished is never overtaken: the job does
\* not complete, fail or return to the queue after it, whatever statement was
\* already in flight; and no job is cancelled that nobody asked to stop.
StopHonoured == \A j \in Rows : StopKept(pdf_job[j])

OutcomeKept(r) ==
    /\ r.status \in TerminalStatus <=> r.completed_at # NullTime
    /\ r.status = "failed" <=> r.error_code # "none"
    /\ r.status = "completed" => r.progress_percent = 100
    /\ r.status = "queued" => r.progress_percent = 0

\* A finished row tells how it ended (time, error, progress), and a row that is
\* queued again after an interrupted attempt shows none of that attempt's
\* progress or errors.
OutcomeRecorded == \A j \in Rows : OutcomeKept(pdf_job[j])

RowAccepted(r) ==
    /\ PdfJobTimestampOrder(r)
    /\ ValidateStoredJob(r)
    /\ \A t \in {r.started_at, r.completed_at, r.heartbeat_at,
                 r.cancel_requested_at, r.deletion_requested_at} : t <= r.updated_at

\* With any delay between reading the clock and applying a statement, the CHECK
\* constraint pdf_job_timestamp_order rejects no statement and validateStoredJob
\* refuses no row (it would turn a statement that took effect into an error):
\* late statements write instants of the past, but none before the job's
\* creation and none that updated_at does not cover.
RowsAccepted == \A j \in Rows : RowAccepted(pdf_job[j])

\* Two workers never both believe that they own the same job: as long as the
\* deadline last reported to one of them lies ahead, nobody else has the job.
ExclusiveLease ==
    \A g, h \in held : g.job = h.job /\ g # h => g.until <= clock \/ h.until <= clock

----------------------------------------------------------------------------
(* Action properties                                                       *)

\* Progress shown for one attempt never goes back, whichever of the worker's
\* reports is applied last; only a requeue starts again from zero.
ProgressMonotonic ==
    [][\A j \in Rows :
          \/ pdf_job'[j].progress_percent >= pdf_job[j].progress_percent
          \/ IsActive(pdf_job[j]) /\ pdf_job'[j].status = "queued"]_vars

\* What the owner has asked for so far, and what became of it.
RequestState(r) == <<r.status, r.cancel_requested_at, r.deletion_requested_at>>

\* The version tells rows apart up to the retention deadline: a statement that
\* changes anything else adds exactly one, and a cancellation or deletion that
\* asks for nothing new, because it repeats one or comes too late, adds nothing,
\* however the owner's requests race with the worker.  Rows of one version may
\* differ in the deadline: a repeated deletion with an earlier instant lowers it
\* and leaves the version, in spite of "each effective durable mutation"
\* (job.go:189).  The deadline never moves out.
VersionIdentifiesRow ==
    [][\A j \in Rows :
          LET old == pdf_job[j]
              new == pdf_job'[j]
          IN /\ new.expires_at <= old.expires_at
             /\ \/ new = [old EXCEPT !.expires_at = new.expires_at]
                \/ new.version = old.version + 1
             /\ \A c \in calls \ calls' :
                   /\ c.op \in {"cancel", "delete"} /\ c.job = j
                   /\ RequestState(new) = RequestState(old)
                   => new.version = old.version]_vars

\* A statement of an earlier attempt has no effect on a later one: once the
\* lease was lost and the job claimed again, the stale attempt can neither
\* extend the new lease nor decide the job's outcome.
AttemptFenced ==
    [][\A c \in calls \ calls' :
          c.op \in {"heartbeat", "transition"} /\ pdf_job'[c.job] # pdf_job[c.job]
          => pdf_job[c.job].attempt_count = c.attempt]_vars

----------------------------------------------------------------------------
(* Liveness                                                                *)

\* A job that was asked to stop is eventually cancelled, even when its worker
\* ignores the request and keeps sending heartbeats: they no longer extend the
\* lease, so recovery gets to the row.
StopEventuallyCancels ==
    \A j \in Jobs :
        (j \in Rows /\ pdf_job[j].cancel_requested_at # NullTime)
        ~> (pdf_job[j].status = "cancelled")

\* Once workers claim nothing and extend no lease, no job stays active: each row
\* is found by its deadline and requeued or settled, whichever batch it falls
\* into.
NoJobStuckActive == <>[](\A j \in Rows : ~IsActive(pdf_job[j]))

----------------------------------------------------------------------------
(* The queue implements the lifecycle each job is promised.                *)
Lifecycle == INSTANCE JobLifecycle WITH
    MaxTries <- MaxAttempts,
    status   <- [j \in Jobs |-> pdf_job[j].status],
    stopping <- [j \in Jobs |-> j \in Rows /\ pdf_job[j].cancel_requested_at # NullTime],
    tries    <- [j \in Jobs |-> IF j \in Rows THEN pdf_job[j].attempt_count ELSE 0]

\* Every behaviour of the queue is, job by job, a behaviour of JobLifecycle:
\* statuses move only along the table in status.go (the SQL statements do not
\* consult it), tries are bounded, a stop request ends in cancelled.
ImplementsLifecycle == Lifecycle!Spec
============================================================================
