------------------------------- MODULE Startup -------------------------------
(***************************************************************************)
(* From the environment to open connection pools and back: how a program   *)
(* reads its configuration, opens its pool (internal/database/database.go) *)
(* and constructs its managers, and how an integration test opens and      *)
(* closes an isolated schema (testschema.go, internal/testpostgres).       *)
(*                                                                         *)
(* cmd/pdf-migrate is the program "migrate", an integration test is the    *)
(* program "test".  The program "service" stands for the API process of    *)
(* ARCHITECTURE.md, whose command is not written yet: it loads the whole   *)
(* configuration and hands it to the constructors that exist.              *)
(***************************************************************************)
EXTENDS Configuration

CONSTANTS
    Environments,   \* environments programs are started in
    Closers,        \* goroutines of a test that close the schema
    NoCloser

ASSUME StartupAssumption == NoCloser \notin Closers

\* Numbers are parsed, and the pepper counts by its length.
ASSUME EnvironmentAssumption ==
    \A e \in Environments : \A n \in Numbers : e[n].kind = "value" => e[n].value \in Int

Programs == {"service", "migrate", "test"}

VARIABLES
    env,        \* the environment
    program,    \* what is started
    config,     \* settings loaded from it
    phase,      \* how far the program has come
    main,       \* the pool it works with
    main_size,  \* the most connections that pool opens
    admin,      \* the second pool of a test, which owns the schema
    schema,     \* whether the isolated schema exists
    lost,       \* whether a statement that creates or drops it has failed
    sealed,     \* TestSchema.closed
    holder,     \* the goroutine that holds TestSchema.mu
    told,       \* what the last Close of each goroutine returned
    failure     \* why the program did not start

inputs == <<env, program>>
pools == <<main, main_size, admin>>
closing == <<sealed, holder, told>>
vars == <<inputs, config, phase, pools, schema, lost, closing, failure>>

----------------------------------------------------------------------------
Phases == {"start", "opening_admin", "admin_ping", "creating", "opening", "main_ping",
           "dropping", "migrating", "abandoned", "managers", "running", "ended", "dead"}

PoolStates == {"none", "open", "closed"}

Failures == {"none", "configuration", "pool", "connection", "schema", "migration", "managers"}

\* buildPoolConfig on settings that Validate accepts.  Of the host Validate only
\* asks that it is not blank, while pgxpool.ParseConfig is given it in a URL: a
\* socket directory ("/var/run/postgresql") or a host with a space is refused.
PoolAccepts ==
    /\ config["DB_MAX_CONNECTIONS"] <= MaxInt32
    /\ config["DB_MIN_CONNECTIONS"] <= MaxInt32
    /\ config["DB_HOST"] # "garbage"

\* Conversion to a signed 32-bit integer.
Int32(n) == ((n + MaxInt32 + 1) % (2 * (MaxInt32 + 1))) - (MaxInt32 + 1)

\* upload.NewManager
UploadManagerAccepts ==
    /\ config["MAX_UPLOAD_BYTES"] > 0
    /\ config["UPLOAD_CHUNK_BYTES"] > 0
    /\ config["UPLOAD_CHUNK_BYTES"] <= config["MAX_UPLOAD_BYTES"]
    /\ config["UPLOAD_CHUNK_BYTES"] <= MaxInt32
    /\ config["UPLOAD_SESSION_TTL"] > 0

\* job.NewManager; the number of attempts is not configured.
JobManagerAccepts == config["PDF_TARGET_BYTES"] > 0 /\ config["JOB_RETENTION"] > 0

\* anonymous.NewManager
SessionManagerAccepts ==
    config["ANONYMOUS_TOKEN_PEPPER"] >= 32 /\ config["ANONYMOUS_SESSION_TTL"] > 0

\* anonymous.NewQuotaManager and QuotaLimits.Validate
QuotaManagerAccepts ==
    /\ config["ANONYMOUS_TOKEN_PEPPER"] >= 32
    /\ config["ANONYMOUS_QUOTA_WINDOW"] >= Minute
    /\ config["ANONYMOUS_QUOTA_WINDOW"] % 1000 = 0
    /\ \A n \in CountNames : config[n] \in 1..MaxInt32
    /\ config["ANONYMOUS_QUOTA_BYTES_PER_SESSION"] > 0
    /\ config["ANONYMOUS_QUOTA_BYTES_PER_IP"] > 0

\* Only authenticated clients need no anonymous managers.
ManagersAccept ==
    /\ UploadManagerAccepts
    /\ JobManagerAccepts
    /\ config["AUTH_MODE"] # "required" => SessionManagerAccepts /\ QuotaManagerAccepts

----------------------------------------------------------------------------
Init ==
    /\ env \in Environments
    /\ program \in Programs
    /\ config = <<>>
    /\ phase = "start"
    /\ main = "none"
    /\ main_size = 0
    /\ admin = "none"
    /\ schema = FALSE
    /\ lost = FALSE
    /\ sealed = FALSE
    /\ holder = NoCloser
    /\ told = [c \in Closers |-> "none"]
    /\ failure = "none"

GoOn(p) == phase' = p /\ UNCHANGED failure

Abort(p, reason) == phase' = p /\ failure' = reason

Accepted ==
    IF program = "service" THEN LoadAccepts(env) ELSE LoadDatabaseAccepts(env)

\* Load or LoadDatabase
Configure ==
    /\ phase = "start"
    /\ config' = Loaded(env, IF program = "service" THEN Names ELSE DatabaseNames)
    /\ IF Accepted THEN GoOn(IF program = "test" THEN "opening_admin" ELSE "opening")
       ELSE Abort("ended", "configuration")
    /\ UNCHANGED <<inputs, pools, schema, lost, closing>>

\* OpenTestSchema opens its first pool.
OpenAdmin ==
    /\ phase = "opening_admin"
    /\ PoolAccepts
    /\ admin' = "open"
    /\ GoOn("admin_ping")
    /\ UNCHANGED <<inputs, config, main, main_size, schema, lost, closing>>

AdminPinged ==
    /\ phase = "admin_ping"
    /\ GoOn("creating")
    /\ UNCHANGED <<inputs, config, pools, schema, lost, closing>>

\* CREATE SCHEMA under a fresh random name.
CreateSchema ==
    /\ phase = "creating"
    /\ schema' = TRUE
    /\ GoOn("opening")
    /\ UNCHANGED <<inputs, config, pools, lost, closing>>

\* The statement fails, or its answer is lost: nothing is dropped.
CreateSchemaFails ==
    /\ phase = "creating"
    /\ schema' \in BOOLEAN
    /\ lost' = TRUE
    /\ admin' = "closed"
    /\ Abort("ended", "schema")
    /\ UNCHANGED <<inputs, config, main, main_size, closing>>

\* The pool the program works with: database.Open, or the isolated pool.
OpenMain ==
    /\ phase = "opening"
    /\ PoolAccepts
    /\ main' = "open"
    /\ main_size' = Int32(config["DB_MAX_CONNECTIONS"])
    /\ GoOn("main_ping")
    /\ UNCHANGED <<inputs, config, admin, schema, lost, closing>>

MainPinged ==
    /\ phase = "main_ping"
    /\ GoOn(IF program = "service" THEN "managers" ELSE "migrating")
    /\ UNCHANGED <<inputs, config, pools, schema, lost, closing>>

\* buildPoolConfig refuses the settings.
RefusePool ==
    /\ phase \in {"opening_admin", "opening"}
    /\ ~PoolAccepts
    /\ Abort("ended", "pool")
    /\ UNCHANGED <<inputs, config, pools, schema, lost, closing>>

\* Faulty variant: a failing check leaves the schema of a test behind.
ConnectMainFailsDirty ==
    /\ phase \in {"opening", "main_ping"}
    /\ main' = IF phase = "main_ping" THEN "closed" ELSE main
    /\ admin' = IF program = "test" THEN "closed" ELSE admin
    /\ Abort("ended", "connection")
    /\ UNCHANGED <<inputs, config, main_size, schema, lost, closing>>

\* The pool cannot be created (also if ParseConfig finds libpq's own variables or
\* files unusable), or no connection stands within ConnectTimeout or before the
\* context is cancelled.
ConnectMainFails ==
    /\ phase \in {"opening", "main_ping"}
    /\ main' = IF phase = "main_ping" THEN "closed" ELSE main
    /\ Abort(IF program = "test" THEN "dropping" ELSE "ended", "connection")
    /\ UNCHANGED <<inputs, config, main_size, admin, schema, lost, closing>>

ConnectAdminFails ==
    /\ phase \in {"opening_admin", "admin_ping"}
    /\ admin' = IF phase = "admin_ping" THEN "closed" ELSE admin
    /\ Abort("ended", "connection")
    /\ UNCHANGED <<inputs, config, main, main_size, schema, lost, closing>>

\* dropTestSchema: the drop fails before or after it took effect.
Drop(succeeds) ==
    /\ schema' \in IF succeeds THEN {FALSE} ELSE {FALSE, schema}
    /\ lost' = (lost \/ ~succeeds)

\* OpenTestSchema cleans up, even if its context is cancelled, and looks at no
\* error.
CleanUp ==
    /\ phase = "dropping"
    /\ \E succeeds \in BOOLEAN : Drop(succeeds)
    /\ admin' = "closed"
    /\ GoOn("ended")
    /\ UNCHANGED <<inputs, config, main, main_size, closing>>

\* Migrator.Up, by pdf-migrate or for the schema of a test.  pdf-migrate --check
\* only opens and closes the pool, and ends the same way.
Migrated ==
    /\ phase = "migrating"
    /\ main' = IF program = "test" THEN main ELSE "closed"
    /\ GoOn(IF program = "test" THEN "running" ELSE "ended")
    /\ UNCHANGED <<inputs, config, main_size, admin, schema, lost, closing>>

MigrationFails ==
    /\ phase = "migrating"
    /\ main' = IF program = "test" THEN main ELSE "closed"
    /\ Abort(IF program = "test" THEN "abandoned" ELSE "ended", "migration")
    /\ UNCHANGED <<inputs, config, main_size, admin, schema, lost, closing>>

\* The service constructs its managers, or gives up and closes its pool.
ConstructManagers ==
    /\ phase = "managers"
    /\ main' = IF ManagersAccept THEN main ELSE "closed"
    /\ IF ManagersAccept THEN GoOn("running") ELSE Abort("ended", "managers")
    /\ UNCHANGED <<inputs, config, main_size, admin, schema, lost, closing>>

StopService ==
    /\ phase = "running"
    /\ program = "service"
    /\ main' = "closed"
    /\ GoOn("ended")
    /\ UNCHANGED <<inputs, config, main_size, admin, schema, lost, closing>>

----------------------------------------------------------------------------
\* Close of an open schema takes the mutex and closes the isolated pool.  After
\* a failed migration testpostgres.Open itself calls Close, once.
BeginClose(c) ==
    /\ program = "test"
    /\ phase \in {"running", "abandoned"}
    /\ holder = NoCloser
    /\ ~sealed
    /\ holder' = c
    /\ main' = "closed"
    /\ UNCHANGED <<inputs, config, phase, main_size, admin, schema, lost, sealed, told, failure>>

AfterClose == IF phase = "abandoned" THEN "ended" ELSE phase

\* Faulty variant: closed is set although the drop fails.
CloseFailsSealed(c) ==
    /\ holder = c
    /\ Drop(FALSE)
    /\ sealed' = TRUE
    /\ holder' = NoCloser
    /\ told' = [told EXCEPT ![c] = "error"]
    /\ GoOn(AfterClose)
    /\ UNCHANGED <<inputs, config, pools>>

\* The error is returned; another Close may try again.
CloseFails(c) ==
    /\ holder = c
    /\ Drop(FALSE)
    /\ holder' = NoCloser
    /\ told' = [told EXCEPT ![c] = "error"]
    /\ GoOn(AfterClose)
    /\ UNCHANGED <<inputs, config, pools, sealed>>

CloseSucceeds(c) ==
    /\ holder = c
    /\ Drop(TRUE)
    /\ admin' = "closed"
    /\ sealed' = TRUE
    /\ holder' = NoCloser
    /\ told' = [told EXCEPT ![c] = "nil"]
    /\ GoOn(AfterClose)
    /\ UNCHANGED <<inputs, config, main, main_size>>

\* Close of a closed schema does nothing.
CloseAgain(c) ==
    /\ phase = "running"
    /\ holder = NoCloser
    /\ sealed
    /\ told' = [told EXCEPT ![c] = "nil"]
    /\ UNCHANGED <<inputs, config, phase, pools, schema, lost, sealed, holder, failure>>

\* The process dies, and its connections with it.
Die ==
    /\ phase \notin {"ended", "dead"}
    /\ phase' = "dead"
    /\ main' = IF main = "open" THEN "closed" ELSE main
    /\ admin' = IF admin = "open" THEN "closed" ELSE admin
    /\ holder' = NoCloser
    /\ UNCHANGED <<inputs, config, main_size, schema, lost, sealed, told, failure>>

Next ==
    \/ Configure
    \/ OpenAdmin
    \/ AdminPinged
    \/ CreateSchema
    \/ CreateSchemaFails
    \/ OpenMain
    \/ MainPinged
    \/ RefusePool
    \/ ConnectMainFails
    \/ ConnectAdminFails
    \/ CleanUp
    \/ Migrated
    \/ MigrationFails
    \/ ConstructManagers
    \/ StopService
    \/ \E c \in Closers : BeginClose(c)
    \/ \E c \in Closers : CloseFails(c)
    \/ \E c \in Closers : CloseSucceeds(c)
    \/ \E c \in Closers : CloseAgain(c)
    \/ Die

Spec == Init /\ [][Next]_vars

----------------------------------------------------------------------------
\* Every variable has its type.
TypeOK ==
    /\ program \in Programs
    /\ phase \in Phases
    /\ main \in PoolStates
    /\ main_size \in Int
    /\ admin \in PoolStates
    /\ schema \in BOOLEAN
    /\ lost \in BOOLEAN
    /\ sealed \in BOOLEAN
    /\ holder \in Closers \cup {NoCloser}
    /\ told \in [Closers -> {"none", "nil", "error"}]
    /\ failure \in Failures

\* The checks of config.Validate and those of the constructors, kept in four
\* other packages, agree: no configuration that is accepted is refused by a
\* manager.  The pool may still refuse what Validate accepted, connection counts
\* beyond 32 bits or a host no URL can name, but only before anything is opened
\* or created; a pool that opens has exactly the configured size.
StartsAsConfigured ==
    /\ failure # "managers"
    /\ failure = "pool" => main = "none" /\ admin = "none" /\ ~schema
    /\ main = "open" => main_size = config["DB_MAX_CONNECTIONS"]

\* However a start fails, it leaves no pool and no schema behind, except after
\* a statement on the schema itself has failed.
NothingLeaks ==
    phase = "ended" =>
        /\ main # "open"
        /\ admin = "open" => lost /\ failure = "migration"
        /\ schema => lost

\* "A failed drop is returned so leaked test data is visible": if Close tells
\* any of its callers that it succeeded, the schema is gone; as long as it is
\* there, a test can still close it.
CloseTruthful ==
    /\ (\E c \in Closers : told[c] = "nil") => ~schema
    /\ schema /\ phase = "running" /\ program = "test" => ~sealed /\ admin = "open"
============================================================================
