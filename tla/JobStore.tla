------------------------------ MODULE JobStore ------------------------------
(***************************************************************************)
(* One row of the pdf_job table and the statements PostgresStore runs on   *)
(* it (internal/job/storage_postgres.go and storage_postgres_queue.go).    *)
(* Every store method is ONE SQL statement, so PostgreSQL applies it       *)
(* atomically to the row: an operator below is the WHERE clause of such a  *)
(* statement, or the row its SET list leaves.  The instant `now' is a      *)
(* parameter, because the Go caller reads its clock before it sends the    *)
(* statement.                                                              *)
(*                                                                         *)
(* Time is counted in the smallest unit the table stores (a microsecond).  *)
(* Columns no guard and no property reads (file name, object keys, digest, *)
(* sizes, creator snapshot, progress message) are left out.                *)
(***************************************************************************)
EXTENDS Integers, JobStatus

CONSTANTS
    Workers,    \* worker identities, the values of lease_owner
    NoWorker    \* lease_owner IS NULL

ASSUME WorkersAssumption == NoWorker \notin Workers

\* SQL NULL in a nullable timestamptz column.
NullTime == -1

OptTime == Nat \cup {NullTime}

\* error_code: NULL, the code a worker reports, the code recovery writes.
ErrorCode == {"none", "worker_reported", "lease_attempts_exhausted"}

Row == [status                : Status,
        progress_percent      : 0..100,
        attempt_count         : Nat,
        max_attempts          : Nat \ {0},
        available_at          : Nat,
        lease_owner           : Workers \cup {NoWorker},
        lease_expires_at      : OptTime,
        heartbeat_at          : OptTime,
        cancel_requested_at   : OptTime,
        deletion_requested_at : OptTime,
        error_code            : ErrorCode,
        created_at            : Nat,
        updated_at            : Nat,
        started_at            : OptTime,
        completed_at          : OptTime,
        expires_at            : Nat,
        version               : Nat \ {0}]

\* The id has no row: no WHERE clause below holds of it.
NoRow == [status |-> "absent"]

Greatest(a, b) == IF a >= b THEN a ELSE b

Least(a, b) == IF a <= b THEN a ELSE b

Coalesce(t, default) == IF t # NullTime THEN t ELSE default

IsActive(r) == r.status \in ActiveStatus

\* cancel_requested_at IS NOT NULL OR deletion_requested_at IS NOT NULL
StopRequested(r) ==
    \/ r.cancel_requested_at # NullTime
    \/ r.deletion_requested_at # NullTime

\* The CHECK constraint pdf_job_timestamp_order.
PdfJobTimestampOrder(r) ==
    /\ r.updated_at >= r.created_at
    /\ r.available_at >= r.created_at
    /\ r.expires_at > r.created_at
    /\ \A t \in {r.started_at, r.completed_at, r.heartbeat_at,
                 r.cancel_requested_at, r.deletion_requested_at} :
          t = NullTime \/ t >= r.created_at

\* validateStoredJob, run by scanJob on every row a statement returns: after
\* the statement has taken effect.
ValidateStoredJob(r) ==
    /\ r.status \in Status
    /\ r.progress_percent \in 0..100
    /\ r.attempt_count \in 0..r.max_attempts
    /\ r.max_attempts > 0
    /\ r.updated_at >= r.created_at
    /\ r.available_at >= r.created_at
    /\ r.version > 0
    /\ \A t \in {r.lease_expires_at, r.heartbeat_at, r.cancel_requested_at,
                 r.started_at, r.completed_at, r.deletion_requested_at} :
          t = NullTime \/ t >= r.created_at

----------------------------------------------------------------------------
(* Store.Create: the INSERT with the seed Manager.Create builds.           *)
SeedRow(now, retention, maxAttempts) ==
    [status                |-> "queued",
     progress_percent      |-> 0,
     attempt_count         |-> 0,
     max_attempts          |-> maxAttempts,
     available_at          |-> now,
     lease_owner           |-> NoWorker,
     lease_expires_at      |-> NullTime,
     heartbeat_at          |-> NullTime,
     cancel_requested_at   |-> NullTime,
     deletion_requested_at |-> NullTime,
     error_code            |-> "none",
     created_at            |-> now,
     updated_at            |-> now,
     started_at            |-> NullTime,
     completed_at          |-> NullTime,
     expires_at            |-> now + retention,
     version               |-> 1]

----------------------------------------------------------------------------
(* Store.Claim.                                                            *)
Claimable(r, now) ==
    /\ r.status = "queued"
    /\ r.available_at <= now
    /\ r.expires_at > now
    /\ r.attempt_count < r.max_attempts
    /\ ~StopRequested(r)

\* ORDER BY available_at, created_at, id: the id is a random UUID, so rows
\* that tie on both instants come in any order.
ClaimedBefore(r, s) ==
    \/ r.available_at < s.available_at
    \/ r.available_at = s.available_at /\ r.created_at < s.created_at

ClaimRow(r, w, now, until) ==
    [r EXCEPT !.status           = "analyzing",
              !.attempt_count    = @ + 1,
              !.lease_owner      = w,
              !.lease_expires_at = until,
              !.heartbeat_at     = now,
              !.started_at       = Coalesce(@, Greatest(now, r.created_at)),
              !.updated_at       = Greatest(@, now),
              !.version          = @ + 1]

----------------------------------------------------------------------------
(* Store.Heartbeat and Store.Transition: statements under a lease.         *)
\* Faulty variant: any worker's statement matches, whoever owns the lease.
LeaseValidAnyOwner(r, w, now) ==
    /\ IsActive(r)
    /\ r.lease_expires_at > now

LeaseValid(r, w, now) ==
    /\ IsActive(r)
    /\ r.lease_owner = w
    /\ r.lease_expires_at > now

\* Faulty variant: the lease columns are set without looking for a stop request.
HeartbeatRowExtending(r, now, until) ==
    [r EXCEPT !.lease_expires_at = until,
              !.heartbeat_at     = now,
              !.updated_at       = IF StopRequested(r) THEN @ ELSE Greatest(@, now),
              !.version          = IF StopRequested(r) THEN @ ELSE @ + 1]

\* A row with a stop request matches but keeps its lease as it is.
HeartbeatRow(r, now, until) ==
    IF StopRequested(r)
    THEN r
    ELSE [r EXCEPT !.lease_expires_at = until,
                   !.heartbeat_at     = now,
                   !.updated_at       = Greatest(@, now),
                   !.version          = @ + 1]

\* Faulty variant: the lifecycle table is not consulted.
WorkerMayRequestAnyEdge(expected, next, progress) ==
    /\ expected \in ActiveStatus
    /\ next \in Status \ {"queued", "expired"}
    /\ progress \in 0..100
    /\ next = "completed" => progress = 100

\* Faulty variant: a job may complete at any percentage.
WorkerMayRequestEarlyEnd(expected, next, progress) ==
    /\ ValidateTransition(expected, next)
    /\ expected \in ActiveStatus
    /\ next \notin {"queued", "expired"}
    /\ progress \in 0..100

\* validateTransition, run before the statement is sent.  Error details go with
\* "failed" and with nothing else, so TransitionRow tells them from `next'.
WorkerMayRequest(expected, next, progress) ==
    /\ ValidateTransition(expected, next)
    /\ expected # "queued"
    /\ expected \notin TerminalStatus
    /\ next # "queued"
    /\ next # "expired"
    /\ progress \in 0..100
    /\ next = "completed" => progress = 100

\* Faulty variant: a stop request does not stand in the way of other outcomes.
TransitionMatchesIgnoringStop(r, w, expected, next, progress, now) ==
    /\ LeaseValid(r, w, now)
    /\ r.status = expected
    /\ r.progress_percent <= progress
    /\ next = "cancelled" => StopRequested(r)

\* Faulty variant: reports are applied whatever progress they carry.
TransitionMatchesAnyProgress(r, w, expected, next, progress, now) ==
    /\ LeaseValid(r, w, now)
    /\ r.status = expected
    /\ StopRequested(r) <=> next = "cancelled"

TransitionMatches(r, w, expected, next, progress, now) ==
    /\ LeaseValid(r, w, now)
    /\ r.status = expected
    /\ r.progress_percent <= progress
    /\ StopRequested(r) <=> next = "cancelled"

\* Faulty variant: only success gives the lease back.
ReleasesLeaseOnSuccess(next) == next = "completed"

ReleasesLease(next) == next \in TerminalStatus

TransitionRow(r, next, progress, now, until) ==
    LET terminal == ReleasesLease(next) IN
    [r EXCEPT !.status           = next,
              !.progress_percent = progress,
              !.error_code       = IF next = "failed" THEN "worker_reported" ELSE @,
              !.lease_owner      = IF terminal THEN NoWorker ELSE @,
              !.lease_expires_at = IF terminal THEN NullTime ELSE until,
              !.heartbeat_at     = IF terminal THEN NullTime ELSE now,
              !.completed_at     = IF next \in TerminalStatus
                                   THEN Coalesce(@, Greatest(now, r.created_at))
                                   ELSE @,
              !.updated_at       = Greatest(@, now),
              !.version          = @ + 1]

----------------------------------------------------------------------------
(* Store.RecoverExpired.                                                   *)
\* Faulty variant: leases are taken back one instant early.
LeaseExpiredEarly(r, now) ==
    /\ IsActive(r)
    /\ r.lease_expires_at <= now + 1

\* Faulty variant: the deadline itself still counts as leased.
LeaseExpiredLate(r, now) ==
    /\ IsActive(r)
    /\ r.lease_expires_at < now

LeaseExpired(r, now) ==
    /\ IsActive(r)
    /\ r.lease_expires_at <= now

\* ORDER BY lease_expires_at, id
RecoveredBefore(r, s) == r.lease_expires_at < s.lease_expires_at

\* Faulty variant: one attempt too many.
RecoveryOutcomeOneMoreTry(r) ==
    IF StopRequested(r) THEN "cancelled"
    ELSE IF r.attempt_count > r.max_attempts THEN "failed"
    ELSE "queued"

\* Faulty variant: recovery does not look for stop requests.
RecoveryOutcomeIgnoringStop(r) ==
    IF r.attempt_count >= r.max_attempts THEN "failed" ELSE "queued"

RecoveryOutcome(r) ==
    IF StopRequested(r) THEN "cancelled"
    ELSE IF r.attempt_count >= r.max_attempts THEN "failed"
    ELSE "queued"

RecoverRow(r, now, retryAt) ==
    LET outcome == RecoveryOutcome(r)
    IN [r EXCEPT !.status           = outcome,
                 !.progress_percent = IF outcome = "queued" THEN 0 ELSE @,
                 !.available_at     = IF outcome = "queued" THEN retryAt ELSE @,
                 !.lease_owner      = NoWorker,
                 !.lease_expires_at = NullTime,
                 !.heartbeat_at     = NullTime,
                 !.error_code       = IF outcome = "failed"
                                      THEN "lease_attempts_exhausted" ELSE @,
                 !.completed_at     = IF outcome = "queued" THEN @
                                      ELSE Coalesce(@, Greatest(now, r.created_at)),
                 !.updated_at       = Greatest(@, now),
                 !.version          = @ + 1]

----------------------------------------------------------------------------
(* Store.Cancel and Store.Delete: the owner's statements.                  *)

\* The SET list the two statements share: queued work is cancelled at once,
\* running work is asked to stop, and the first request time is kept.
RequestStop(r, now) ==
    LET at == Greatest(now, r.created_at) IN
    [r EXCEPT !.status              = IF @ = "queued" THEN "cancelled" ELSE @,
              !.cancel_requested_at = IF r.status \in {"queued"} \cup ActiveStatus
                                      THEN Coalesce(@, at) ELSE @,
              !.completed_at        = IF r.status = "queued" THEN Coalesce(@, at) ELSE @]

\* Faulty variant: only queued work makes a request count as a change.
StopIsNewsIfQueued(r) == r.status = "queued"

\* queued, or running and not yet asked to stop
StopIsNews(r) ==
    \/ r.status = "queued"
    \/ IsActive(r) /\ r.cancel_requested_at = NullTime

CancelMatches(r) == r.status # "absent" /\ r.deletion_requested_at = NullTime

CancelRow(r, now) ==
    [RequestStop(r, now) EXCEPT
        !.updated_at = IF StopIsNews(r) THEN Greatest(@, now) ELSE @,
        !.version    = IF StopIsNews(r) THEN @ + 1 ELSE @]

DeleteMatches(r) == r.status # "absent"

\* Faulty variant: retention ends at the instant of the request, full stop.
TombstoneExpiryAtOnce(r, now) == Least(r.expires_at, now)

TombstoneExpiry(r, now) == Least(r.expires_at, Greatest(now, r.created_at + 1))

DeleteRow(r, now) ==
    LET news == StopIsNews(r) \/ r.deletion_requested_at = NullTime IN
    [RequestStop(r, now) EXCEPT
        !.deletion_requested_at = Coalesce(@, Greatest(now, r.created_at)),
        !.expires_at            = TombstoneExpiry(r, now),
        !.updated_at            = IF news THEN Greatest(@, now) ELSE @,
        !.version               = IF news THEN @ + 1 ELSE @]
============================================================================
