# Verification of go-pdf-forge

TLA+ models of go-pdf-forge, the TLC runs that check them, and TLAPS proofs about
them. Paths below are relative to the repository; every definition that models
code is tied to its lines in `PROJECT.json` under `map`.

The repository (v0.0.10) holds the persistence layer of a PDF service: jobs,
uploads, anonymous sessions, quotas and migrations, all on PostgreSQL, with the
configuration, connection pools and test schemas they need, and an SMTP client
for diagnosis. There is no API handler, worker loop or object store yet (ROADMAP
phases 2 to 5). Coordination happens in SQL statements and row locks alone,
called by any number of API and worker processes, and that is what is modelled.

## 1. Inventory

| Component | State | Operations | Modules |
|---|---|---|---|
| job lifecycle and queue, `internal/job` | `pdf_job` | Manager: Create, Cancel, Delete, Get; Queue: Claim, Heartbeat, Transition, RecoverExpired | `JobStatus`, `JobStore`, `JobQueue`, `JobLifecycle`; Create in `JobIntake` |
| resumable uploads, `internal/upload` | `upload_session`, `upload_part` | Start, RecordPart, BeginCommit, Complete, Abort, Get | `UploadSession`, `Upload` |
| from upload to job (both of the above) | rows of both | Create and Delete of jobs while uploads move | `JobIntake`, `DocumentFlow` |
| anonymous sessions, `internal/anonymous/session.go`, `storage_postgres.go` | `anonymous_session` | Create, Authenticate, Revoke | `AnonymousSession` |
| anonymous quotas, `quota.go`, `storage_quota_postgres.go` | `anonymous_usage`, `anonymous_ip_usage` | ConsumeSessionCreation, Consume (uploads, jobs, bytes) | `AnonymousQuota` |
| schema migrator, `internal/database/migrate.go` | `schema_migration`, the schema | LoadMigrations, Up, DownAll | `MigrationFiles`, `Migrator` |
| configuration, `internal/config` | none | Load, LoadDatabase | `Configuration` |
| database pool, `internal/database/database.go` | connections | Open, Close | `Startup` |
| isolated test schemas, `testschema.go`, `internal/testpostgres` | two pools, a schema | Open, Close | `Startup` |
| SMTP diagnostic client, `internal/smtppoc`, `cmd/mail-poc` | one connection per call | Send | `SmtpClient` |
| tokens, documentation checker, protobuf contracts, build version, scripts | none that outlives a call | | not modelled, section 8 |

How they interact. A job is created from a committed upload, in one statement that
reads `upload_session` and inserts into `pdf_job`; `JobIntake` composes the two.
Uploads and jobs belong to a user or an anonymous session. A quota charge locks
the anonymous session row, so it excludes touches and revocations of that session;
`AnonymousQuota` extends `AnonymousSession`. Settings flow from the environment
through `config.Load` into the pool and the constructors of the managers, each of
which checks its own limits again; `Startup` composes them. All components share
the database that the migrator brings up to date.

What is hard to test, and where (`hazards` in `PROJECT.json` has the list):

- *Instants read early.* Managers read the clock in Go, then send a statement
  that may wait for a lock. Statements are applied in another order than their
  instants, and the clocks of processes disagree.
- *Calls that are lost, repeated or late.* A caller may die, or its context end,
  before or after the commit. Workers crash while they hold a lease. A mail
  server accepts a message after the client has given up.
- *Decisions on what was read.* Uploads and quotas decide in Go on a row read
  under a lock; sessions decide on a row read without any lock.
- *Locks.* Two row locks in a fixed order (quotas), `SKIP LOCKED` (queue), an
  advisory lock (migrator), a mutex (test schemas).
- *Limits.* Attempts, part geometry, quota limits at their boundary, settings at
  the bounds of two validations in different packages.
- *Steps that fail half-way.* A migration of a batch, a schema created but not
  migrated, a drop whose answer is lost.

What makes each component correct:

- jobs: status moves along the table in `status.go`, which the SQL statements do
  not consult; a stop request ends in cancelled; attempts are bounded; a lease is
  held by one worker; expired leases are recovered;
- uploads: counters tell the truth about the parts; what was acknowledged stays;
  all callers learn one outcome; once an upload is past its expiry by every clock and
  the calls from before are over, it is completed by nobody;
- intake: an upload becomes the input of at most one job, of the same owner and
  with the acknowledged digest; no caller is told of another owner's job; a deleted
  job does not come back;
- sessions: expiry and revocation are final; recorded use is the latest use;
- quotas: no limit is passed; both tables agree; no deadlock; a revoked session
  spends nothing;
- migrations: the ledger describes the schema and has the history of one build;
- start: no manager refuses what validation accepted, and the pool refuses it before
  anything exists or opens as configured; failing starts leave nothing behind; a test
  schema reported as closed is gone;
- mail: a mode as ParseMode returns it is never downgraded; an error tells what became
  of the message; a call returns.

## 2. Modules and how they correspond to the code

**JobStatus, JobStore.** `status.go`, and the row `Job` with one operator per SQL
predicate (`Claimable`, `LeaseValid`, `TransitionMatches`, `LeaseExpired`,
`CancelMatches`, ...) and one per SET clause (`ClaimRow`, `HeartbeatRow`,
`RecoverRow`, ...). `PdfJobTimestampOrder` is the CHECK of that name and
`ValidateStoredJob` the check `scanJob` runs on every row returned.

**JobQueue.** Each operation takes two steps: `Call...` reads the clock and puts
a statement into `calls`; the action named after the store method applies it
atomically, at any later time. `Lose` drops a statement, `Abandon` is a worker
that crashes or gives up. `held` is what workers were last told. The constant
`Sequential` separates workers that use their identity for one call and one job
at a time from workers with several goroutines. Jobs use a single clock: no skew
between processes is modelled for leases.

**JobLifecycle.** The abstract promise per job: status, stop request, tries. A
recovery batch moves several jobs in one step, so a step lets every job make at
most one move. `JobQueue!Lifecycle` instantiates it with a refinement mapping.

**UploadSession, Upload.** The first has the row, part geometry and the check and
update of each operation as pure operators. The second has the transactions: a
`Call...` step (clock read), `Lock` (`SELECT ... FOR UPDATE`; the row read is kept
in `txs`), then one action that decides on the row read, writes and commits.
`Rollback` and `Lose` are failures at any point, a repeated call is a retry.
API clocks lag behind by up to `MaxSkew`. `replies` collects every success
reported. The object store behind the parts is external: backend part ids and
digests are opaque.

**JobIntake, DocumentFlow.** JobIntake extends Upload with `Create` and `Delete` of
jobs. A `Call...` step puts a statement in `job_calls`; `CreateJob`,
`ReturnExisting` or `RefuseCreate` applies it against the rows of that moment, so it
may race every transaction of the upload. `told` collects the jobs returned, with the
owner who called. What happens to a job after its creation is left to JobQueue.
DocumentFlow is the abstract promise, without clocks, parts, transactions or calls;
`Flow` instantiates it.

**AnonymousSession.** Authenticate and Revoke run no transaction: `Get` reads the
row, `Admit` reads the clock and checks the expiry, then one statement
(`TouchActive`, `RevokeRow`) is applied. The row may change between any two. A
token is reduced to the secret it carries.

**AnonymousQuota** extends AnonymousSession: charges are transactions on a
connection that take the locks of `LockOrder` one after the other, read both
usages, and decide. `ensureIPUsage` followed by `SELECT ... FOR UPDATE` is one
step, since both wait for the same holder and an absent counter row counts zero.
Row statements of sessions wait while a charge holds the row. Each process has
its own policy (limits and window length).

**MigrationFiles, Migrator.** A directory is a set of files; `LoadMigrations`
gives its migrations in order of version, and `LoadAccepts` refuses duplicate
versions, misnamed files and missing or repeated directions. A process starts only
with a directory that is accepted. A run is one transaction: `Lock` (the advisory lock),
`Validate`, then `Apply` or `Revert` migration by migration, then `Commit`.
PostgreSQL's DDL is transactional, so a run works on its own copy of ledger and
schema until it commits; `Fail` ends it at any point, and a commit whose answer is
lost is a commit. Directories differ as builds do and may diverge. What Up reports
to its caller is not modelled.

**Configuration, Startup.** `Configuration` has every name of the environment with
its default, what parses, and the two validations. Sizes are in KiB and durations
in milliseconds; a setting is a small record, so that it can be unset, blank,
garbage or a value. `Startup` goes from an environment to open pools: the program
`migrate` is `cmd/pdf-migrate`, `test` an integration test on an isolated schema,
`service` the API process, which is not written yet: it loads the whole
configuration and hands it to the constructors that exist. `PoolAccepts` stands for
what `buildPoolConfig` refuses although Validate accepted it: counts beyond 32 bits, and
a host that cannot stand in a URL (of `DB_HOST`, the value "garbage").
`pgxpool.ParseConfig` also reads libpq's own variables and files; that these may be
unusable is part of `ConnectMainFails` and `ConnectAdminFails`, since no setting decides
it. `MaxInt32` is the bound of int4 columns and 32-bit pool sizes; it is a constant, given
a small value in the run (above every default it is compared with), since only its
place matters.

**SmtpClient.** `Send` as `cmd/mail-poc` calls it, one phase per command whose answer
it waits for. Commands travel on `wire` and the server takes them off one by one,
also after the call has given up; it may offer and answer anything. `net/smtp` is
external: which command follows which answer, PLAIN authentication refused in
clear to a host that is not local, one fallback from EHLO to HELO. The message
itself (`BuildMessage`) is data. A mode is one of the three that ParseMode returns, or
another spelling of one, which Validate accepts and Send treats as plain.

`MC...` modules hold only constants and symmetry sets. Operators marked "Faulty
variant" are plausible bugs; nothing uses them except the mutants of
`PROJECT.json`, which show that each checked property fails when the code is
wrong in that way.

## 3. Runs

| Run | Instance | Shows |
|---|---|---|
| `job_queue` | 1 job, 2 workers, 2 statements in flight | rows stay consistent, attempts bounded, stop requests honoured, every row accepted by its checks, outcomes and progress never go back, `JobLifecycle` implemented |
| `job_sequential` | the same, sequential workers | a reported lease is exclusive; stale attempts have no effect |
| `job_liveness` | 2 jobs, recovery batches of 1, 1 statement in flight, workers that send heartbeats for ever for a job asked to stop | stop requests end in cancelled although the worker ignores them, no job stays active once workers make no other call |
| `job_stale_attempt` | 1 worker identity, 1 job | counterexample, section 5 |
| `upload` | 1 upload of 2 parts, its owner and another, 2 digests, skew 1, expiry 2, clock to 3 | counters, acknowledged parts, plans, outcomes, stored rows; expiry is final |
| `job_intake` | 1 upload, an authenticated and an anonymous owner, 3 job ids, 2 statements on jobs and 2 calls on the upload in flight | every transaction works on a current row of its own owner; creations agree on one job, told to its owner only; `DocumentFlow` implemented |
| `anonymous_session` | 1 session, 2 addresses, 2 calls, skew 1 | revocation and expiry are final, last use truthful |
| `quota_limits` | 2 sessions, 2 addresses, 2 transactions | limits of both scopes, agreement of both tables |
| `quota_contention` | 1 session, 1 address, 2 transactions of any kind, 2 policies with different windows, skew 1, 1 use or revocation under way | decisions on current counters, no circular wait, nothing charged after revocation |
| `migrator` | 3 processes, 4 diverging histories and directories that do not load | ledger truthful, one history, history only appended |
| `startup` | 3 programs, every setting at its bounds and pairs of related settings, 2 goroutines that close | accepted configurations are refused by the pool at once or run as configured, failing starts leak nothing, Close truthful |
| `smtp` | 2 calls, every usable kind of settings, the mode in 2 spellings each, and each way to spoil one | transport kept for modes as ParseMode returns them, outcome truthful, Send returns |

**Bounds and why they are enough.** Components keep their rows independent, so one
job or one upload with two concurrent callers already shows every race on a row;
`job_liveness` adds a second row, because batches only matter with two; `upload` and
`job_intake` have a second owner, because owner checks do. Two workers suffice for "lost
and taken over". The clock runs past the lease and the deadline in question, and
instants of calls lag behind it; in `upload` it runs one past the expiry, so that every
lagging clock has passed it too. Two attempts let a job be requeued once and
exhausted once. Three bytes in chunks of two give a full part and a shorter last
one. `job_intake` needs only one part, since parts are the subject of `upload`, but
lets a part be sent again under another backend id (the proofs cover this case for
every property of `upload`); it has three job ids for two creations that race and one
that comes after a deletion. A session limit of 2 under an address limit of 3 lets
either scope be the one that refuses. Four histories are the cases that `validateAppliedMigrationHistory` tells
apart: a prefix, an extension, changed content, a gap; the other directories each
break one rule of `LoadMigrations`. `startup` takes every setting unset, blank,
garbage, at each bound and beside it, while the others keep usable values; two
settings vary together where one check relates them. Settings that no check
relates are validated independently of each other. Two goroutines show every race
for the mutex of a test schema. Two calls of Send show a repetition after a call that
failed while its message was still on its way. `MaxVersion`, `LastWorkerCall`,
`MaxInFlight`, `MaxJobCalls` and `MaxCalls` only bound how long or how many callers
keep calling. In `quota_limits` no session is used or revoked (`MaxRequests = 0`);
`quota_contention` and `anonymous_session` cover that. Two transactions suffice for
a circle of waits, since each needs at most two rows, and the two policies differ
in the session limits and in the window.

The deadlock check is off where the system may really stop: in the job
configurations (clock at its bound, job settled, calls used up), in `startup`
(programs end) and in `smtp` (calls used up). All others check it.

## 4. Fairness

`job_liveness` (`RecoveryFairness`): time advances, some process keeps calling
RecoverExpired, statements in flight are eventually gone, and a pass eventually
reaches each expired row. Nothing is assumed of owners or workers: a worker may send a
heartbeat at any time for a job asked to stop (`CallHeartbeat` has no bound there), and
it is the WHERE clause of Heartbeat that lets the lease run out. The process
that calls RecoverExpired is not in the repository yet, so this states what the
future worker loop must provide. Strong fairness is needed for the pass because
`SKIP LOCKED` may skip a row repeatedly but, with short transactions, not for ever;
and for the call because other calls may occupy the bounded `calls` set.

`smtp` (`FairSpec`): weak fairness of the clock reaching the deadline (the timeout of
the dialer, then `SetDeadline` on the connection, `client.go:140`) and of the
runtime waking a call whose deadline has passed. Nothing is assumed of the server
or the network.

## 5. Where code and comments disagree

- `AttemptFenced` (run `job_stale_attempt`): a lease is recognised by worker identity,
  not by attempt. A worker that reclaims its own lost job lets statements of the lost
  attempt act on the new one (`ARCHITECTURE.md:100`). Holds for sequential workers.

Remarks that no run is kept for:

- Heartbeat sets `lease_expires_at` whatever is stored (`storage_postgres_queue.go:64`),
  so of two lease statements of one worker the older one, applied last, shortens the
  lease, where `queue.go:24` says "extends". ExclusiveLease is claimed for sequential
  workers only, who never have two such statements under way; the deadline any other
  worker was told by its newer heartbeat may lie beyond the stored one.
- Delete lowers `expires_at` of a job that is already marked deleted when it carries an
  earlier instant (`storage_postgres.go:227`) and leaves the version, which counts only
  new requests (lines 234-239). `job.go:189` says that the version "increases on each
  effective durable mutation". So the version does not identify the retention deadline;
  VersionIdentifiesRow says that it identifies everything else, and that no owner's
  request without news raises it.
- Config validation is said to report "every invalid PostgreSQL setting"
  (`config.go:432`), but `buildPoolConfig` refuses some that pass: connection counts beyond
  32 bits (`database.go:82-88`), and whatever `pgxpool.ParseConfig` cannot take, such as a
  socket path or a name with a space as host (lines 90-105). StartsAsConfigured says
  that this happens before anything is opened or created.
- "It never downgrades from TLS to clear text" (`client.go:104-105` of `smtppoc`) is not
  true of every configuration that Validate accepts: Validate drops the result of
  ParseMode (line 78), so `TLS` in capitals or with spaces is valid, and Send, which
  compares the mode as it is spelt (lines 130-135 and 155), dials and goes on in clear.
  TransportKept is stated for modes as ParseMode returns them, which is what mail-poc
  passes (`main.go:67-74`); without that condition the run `smtp` violates it. The
  password stays off the network in either case, because `net/smtp` refuses to send it.
- Up returns the migrations collected so far together with the error, although they
  were rolled back (`migrate.go:140`, against the comment at line 51). `cmd/pdf-migrate`
  ignores the result on error.
- `NothingLeaks` has an exception: after a failing migration `testpostgres.Open` drops
  the error of its only Close, so schema and admin pool may stay.
- Closing a test schema waits for acquired connections without regard to its context,
  and cancelling the context of Send has no effect once the connection stands.

## 6. Proofs

Every invariant and every action property that a run checks, and both refinements,
are also theorems: they hold for every value of the constants, under the named
assumptions of the modules. TLAPS checks them with Z3, Zenon and, for temporal
steps, LS4. Each proof module extends the module it is about; its theorems come
last and rest on one inductive invariant, with one lemma per action.

`JobStoreProofs`, `JobQueueProofs`. The row invariants LeasesConsistent,
AttemptsBounded, StopHonoured and OutcomeRecorded are not inductive one by one (a
requeue may break the budget unless the lease shape is known, and so on); their
conjunction with the row's type, `RowInv`, is. JobStoreProofs shows for each SET clause
that it preserves `RowInv` when its WHERE clause holds; JobQueueProofs lifts that to
steps of the queue. On top of it:

- ProgressMonotonic and VersionIdentifiesRow need only `RowInv`, the table of row steps
  and, for requests that bring nothing new, `NoNewsNoVersion`; so does the refinement of
  JobLifecycle, with `LimitSame` (every job has the attempt limit of its creation).
- RowsAccepted needs `OnTime`: a statement that names a job was issued after the job
  was created, so late instants are never older than the row.
- ExclusiveLease and AttemptFenced are proved from the assumption `Sequential` (a worker
  identity makes one call at a time, for one job); section 5 shows that without
  it AttemptFenced is false. `SequentialInv` says that a worker has one statement or
  one attempt, that whoever owns the lease knows the job by its current attempt number,
  and that a deadline it was told and that lies ahead is the stored one.

`UploadProofs`: TypeOK, SnapshotCurrent, ProgressExact, AcknowledgedPartsKept,
PlansExact, OutcomeAgreed, SessionsAccepted, OnlyForward, ExpiryFinal. The hinge is
SnapshotCurrent: what a transaction read is still stored when it decides, so the
checks made on the copy hold of the row. `UploadInv` adds the geometry of the row
(chunks cover the declared size, the last one is not empty) and, for each reply, that
it is still true. `ChunksCover` is the arithmetic fact about ceiling division that the
last part rests on. For ExpiryFinal, `StepOrigins` says where the calls and transactions
of a step come from (a new call reads a clock that has passed the expiry, so an overdue
upload stays overdue), and `OverdueTransaction` what a transaction of a call from after
the expiry may still write: nothing but an abort.

`JobIntakeProofs`: CreationsAgree and the refinement of DocumentFlow. `IntakeInv` adds to
`UploadInv` that each stored job tells the truth about its upload, that each job told
is the stored one and the caller its owner, and that no id is used twice (else DELETE by id might hit
another row). Every action of Upload is, for the document, one of a few moves of its
session (`UploadStep`); a closed session does not move, so jobs stay true.

`AnonymousProofs`: LastUseTruthful and RevocationFinal of AnonymousSession, from
`SessionInv`; then that AnonymousQuota leaves sessions undisturbed (`SessionsUndisturbed`:
its behaviours are behaviours of AnonymousSession), so they hold there too; then
LimitsKept, UsageBalanced, DecisionsCurrent, NoCircularWait and RevokedSpendsNothing
from `QuotaInv`. Its core is `TxsInv`: no row is locked twice, a transaction that has
locked a session row has found it not revoked and it still is not, and what was read
under locks is stored unchanged. NoCircularWait follows because session rows are
locked before address rows. The sums are recursive functions on subsets
(`MapThenSumSet`); that adding to one counter adds as much to the sum (`SumAdds`) is
proved by a minimal counterexample, since subsets of a finite set are well-founded.

`MigratorProofs`: LedgerTruthful, OneHistory, HistoryAppends. First, `BuildSorted`: what
LoadMigrations returns for an accepted directory is strictly increasing in
version; such a sequence exists because the rank of a migration is a bijection. The
invariant `MigratorInv` says that the lock has one holder and that its copy is a
history of its own build; `ValidHistory` turns the test of
`validateAppliedMigrationHistory` into that, `ApplyExtends` and `RevertShortens` keep it.

`StartupProofs`: StartsAsConfigured, NothingLeaks, CloseTruthful, for every environment and
not only those with settings at their bounds. The configuration lemmas show that
what Validate accepts passes each manager (`ManagersFollow`) and, where `PoolAccepts` holds,
yields a pool of the configured size (`PoolSettings`, `Int32Same`); the rest
of `StartupInv` says which phase holds which resource.

`SmtpClientProofs`: TransportKept, OutcomeTruthful. `SmtpInv` says of each thing on the wire
that it belongs to a phase its call has reached, and of each call how far its
message has got.

What is assumed. The named ASSUMEs are what the constructors validate (durations and
limits positive, counts in range) and what the data are: a directory and the sets of
sessions and addresses are finite, some build starts, at least one policy is in force,
numeric settings are numbers once they parse. TLC evaluates them in the runs. Taken as
given, by the shape of the actions and not by an ASSUME, is the atomicity of PostgreSQL:
a statement takes effect whole or not at all, and a transaction that does not commit
changes nothing, DDL included. So a failure between the two updates of a quota charge,
or between two migrations of a batch, is a transaction that never happened.

Which run shows which invariant on a small instance is the table of section 3; the
type invariant and SnapshotCurrent of Upload are checked in `job_intake`, whose steps
include all of Upload's. The type invariants of the other modules are part of the
inductive invariants above, without a run of their own.

Only model-checked: liveness (StopEventuallyCancels, NoJobStuckActive, SendReturns), since
fairness and ENABLED are out of the prover's reach.

## 7. Plan

Done: every component with state is modelled and checked, and all its safety properties
are proved. Left:

1. An abstract quota (two accounts charged atomically) that AnonymousQuota implements,
   and an abstract ledger for the migrator; their refinements proved.
2. Clock skew between workers for job leases, which the queue's single clock leaves out.
   Liveness with two statements in flight, so that recovery skips locked rows in the run.
3. The claims that become checkable once the code exists: purge of expired jobs and
   uploads, the worker loop that gives RecoverExpired its fairness.

## 8. Not modelled, and why

- `token.go`: its promises are cryptographic; a token is reduced to the secret it
  carries. `doccheck`, `version`, scripts: build-time tools without state. Protobuf
  contracts and generated code: no handler implements them.
- Get, Ping and the lists: single reads that change nothing.
- Command lines of `pdf-migrate` and `mail-poc`: flags and output. `pdf-migrate --list`
  connects to nothing.
- What Up reports, and the wording of any error.
- `BuildMessage` and header encoding: data; no decision depends on it after Validate.
- Object storage, purge, retention and the PDF worker do not exist in the repository. In
  particular no code sets the statuses `expired` of jobs and uploads, so what becomes
  of abandoned uploads and of queued jobs past their retention is no claim to check.
- Data no guard reads: file names, content types, object keys, object and report
  columns of jobs.
