---------------------------- MODULE StartupProofs ----------------------------
(***************************************************************************)
(* Startup keeps its promises in every environment, not only at the bounds *)
(* of each setting, and for any number of goroutines that close a schema.  *)
(***************************************************************************)
EXTENDS Startup, TLAPS

----------------------------------------------------------------------------
(* Configuration.                                                          *)

DatabaseNumbers == DOMAIN DatabaseNumberDefaults
RuntimeNumbers == QuotaNames \cup DOMAIN RuntimeDefaults \cup {"ANONYMOUS_TOKEN_PEPPER"}

\* The names of the settings that are numbers.
LEMMA NumberNames ==
    /\ DatabaseNumbers = {"DB_PORT", "DB_CONNECT_TIMEOUT", "DB_HEALTH_TIMEOUT",
          "DB_MIGRATION_TIMEOUT", "DB_MAX_CONNECTIONS", "DB_MIN_CONNECTIONS",
          "DB_MAX_CONNECTION_AGE", "DB_MAX_CONNECTION_IDLE", "DB_HEALTH_CHECK_PERIOD"}
    /\ QuotaNames = {"ANONYMOUS_QUOTA_WINDOW", "ANONYMOUS_QUOTA_SESSIONS_PER_IP",
          "ANONYMOUS_QUOTA_UPLOADS_PER_SESSION", "ANONYMOUS_QUOTA_UPLOADS_PER_IP",
          "ANONYMOUS_QUOTA_JOBS_PER_SESSION", "ANONYMOUS_QUOTA_JOBS_PER_IP",
          "ANONYMOUS_QUOTA_BYTES_PER_SESSION", "ANONYMOUS_QUOTA_BYTES_PER_IP"}
    /\ DOMAIN RuntimeDefaults = {"MAX_UPLOAD_BYTES", "UPLOAD_CHUNK_BYTES", "UPLOAD_SESSION_TTL",
          "PDF_TARGET_BYTES", "JOB_RETENTION", "WORKER_CONCURRENCY", "ANONYMOUS_SESSION_TTL"}
BY DEF DatabaseNumbers, DatabaseNumberDefaults, QuotaNames, QuotaDefaults, RuntimeDefaults

\* Their defaults are numbers.
LEMMA NumberDefaults == \A n \in Numbers : Default(n) \in Int
<1>1. \A n \in QuotaNames : QuotaDefaults[n] \in Int
  BY DEF QuotaNames, QuotaDefaults, Hour, Minute
<1>2. \A n \in DOMAIN RuntimeDefaults : RuntimeDefaults[n] \in Int
  BY DEF RuntimeDefaults, Hour, Minute
<1>3. \A n \in DOMAIN DatabaseNumberDefaults : DatabaseNumberDefaults[n] \in Int
  BY DEF DatabaseNumberDefaults, Minute
<1>4. Default("ANONYMOUS_TOKEN_PEPPER") \in Int
  BY NumberNames DEF Default, DatabaseNumbers, DatabaseTextDefaults, RuntimeTextDefaults,
                     OtherDefaults
<1>5. ASSUME NEW n \in QuotaNames PROVE Default(n) = QuotaDefaults[n]
  BY NumberNames DEF Default, DatabaseNumbers, DatabaseTextDefaults, RuntimeTextDefaults,
                     OtherDefaults
<1>6. ASSUME NEW n \in DOMAIN RuntimeDefaults PROVE Default(n) = RuntimeDefaults[n]
  BY NumberNames DEF Default, DatabaseNumbers, DatabaseTextDefaults, RuntimeTextDefaults,
                     OtherDefaults
<1>7. ASSUME NEW n \in DOMAIN DatabaseNumberDefaults PROVE Default(n) = DatabaseNumberDefaults[n]
  BY NumberNames DEF Default, DatabaseNumbers, DatabaseTextDefaults, RuntimeTextDefaults,
                     OtherDefaults
<1> QED
  BY <1>1, <1>2, <1>3, <1>4, <1>5, <1>6, <1>7 DEF Numbers

\* What is loaded as a number is one.
LEMMA NumbersLoaded ==
    ASSUME NEW e \in Environments, NEW names, NEW n \in Numbers \cap names
    PROVE  Loaded(e, names)[n] \in Int
<1>1. n \notin Texts
  BY NumberNames DEF Numbers, DatabaseNumbers, Texts, DatabaseTextDefaults, RuntimeTextDefaults
<1>2. Read(e, n) \in Int
  BY <1>1, NumberDefaults, EnvironmentAssumption DEF Read
<1> QED
  BY <1>2 DEF Loaded

\* The settings of the database that the pool is built from.
LEMMA PoolSettings ==
    ASSUME NEW cfg, DatabaseValid(cfg), \A n \in DatabaseNumbers : cfg[n] \in Int
    PROVE  /\ cfg["DB_MAX_CONNECTIONS"] \in Int /\ cfg["DB_MAX_CONNECTIONS"] > 0
           /\ cfg["DB_MIN_CONNECTIONS"] \in Int
           /\ cfg["DB_MIN_CONNECTIONS"] <= cfg["DB_MAX_CONNECTIONS"]
BY NumberNames DEF DatabaseValid, DatabaseNumbers

\* A count that fits 32 bits is not changed by the conversion.
LEMMA Int32Same ==
    ASSUME NEW n \in Int, n > 0, n <= MaxInt32
    PROVE  Int32(n) = n
<1> DEFINE x == n + MaxInt32 + 1
           w == 2 * (MaxInt32 + 1)
<1>1. MaxInt32 \in Nat /\ x \in Nat /\ w \in Nat \ {0} /\ x < w
  BY MaxInt32Assumption
<1>2. x % w = x
  <2> HIDE DEF x, w
  <2> QED
    BY <1>1
<1> QED
  BY <1>1, <1>2 DEF Int32

\* What Config.Validate accepts, every constructor accepts.
LEMMA ManagersFollow ==
    ASSUME Valid(config), \A n \in Numbers : config[n] \in Int
    PROVE  ManagersAccept
<1>1. /\ \A n \in DOMAIN RuntimeDefaults : config[n] > 0
      /\ config["UPLOAD_CHUNK_BYTES"] <= MaxInt32
      /\ config["UPLOAD_CHUNK_BYTES"] <= config["MAX_UPLOAD_BYTES"]
      /\ config["AUTH_MODE"] # "required" => config["ANONYMOUS_TOKEN_PEPPER"] >= 32
  BY DEF Valid
<1>2. /\ config["ANONYMOUS_QUOTA_WINDOW"] >= Minute
      /\ config["ANONYMOUS_QUOTA_WINDOW"] % 1000 = 0
      /\ \A n \in QuotaNames : config[n] > 0
      /\ \A n \in CountNames : config[n] <= MaxInt32
  BY DEF Valid, QuotasValid
<1>3. UploadManagerAccepts /\ JobManagerAccepts
  BY <1>1, NumberNames DEF UploadManagerAccepts, JobManagerAccepts
<1>4. config["AUTH_MODE"] # "required" => SessionManagerAccepts
  BY <1>1, NumberNames DEF SessionManagerAccepts
<1>5. \A n \in CountNames : config[n] \in 1 .. MaxInt32
  BY <1>2, MaxInt32Assumption DEF CountNames, Numbers
<1>6. config["AUTH_MODE"] # "required" => QuotaManagerAccepts
  BY <1>1, <1>2, <1>5, NumberNames DEF QuotaManagerAccepts
<1> QED
  BY <1>3, <1>4, <1>6 DEF ManagersAccept

----------------------------------------------------------------------------
(* The life of a program.                                                  *)

\* What the program works with after its configuration is accepted.
Configured ==
    /\ DatabaseValid(config)
    /\ \A n \in DatabaseNumbers : config[n] \in Int
    /\ program = "service" => Valid(config) /\ \A n \in Numbers : config[n] \in Int

\* Which checks have been passed.
ConfigInv ==
    /\ env \in Environments
    /\ phase \notin {"start", "dead"} /\ failure # "configuration" => Configured
    /\ phase = "start" => failure = "none"
    /\ failure = "configuration" => phase = "ended"
    /\ failure # "managers"
    /\ failure = "pool" => phase = "ended" /\ main = "none" /\ admin = "none" /\ ~schema

\* The pool the program works with.
MainInv ==
    /\ main = "open" =>
          /\ phase \in {"main_ping", "migrating", "managers", "running", "abandoned"}
          /\ main_size = config["DB_MAX_CONNECTIONS"]
    /\ phase \in {"start", "opening_admin", "admin_ping", "creating", "opening"} => main = "none"
    /\ phase = "managers" => program = "service"

\* The phases in which a test has its first pool, before it works with its schema.
Prepared ==
    {"admin_ping", "creating", "opening", "main_ping", "dropping", "migrating"}

\* The schema of a test, and the pool that owns it.
SchemaInv ==
    /\ phase \in {"opening_admin", "admin_ping", "creating", "dropping", "abandoned"} =>
          program = "test"
    /\ program # "test" => admin = "none" /\ ~schema /\ ~sealed /\ holder = NoCloser
    /\ phase \in {"start", "opening_admin"} => admin = "none"
    /\ phase \in {"start", "opening_admin", "admin_ping", "creating"} => ~schema
    /\ program = "test" /\ phase \in Prepared => admin = "open" /\ PoolAccepts
    /\ phase = "abandoned" => failure = "migration" /\ ~sealed
    /\ phase \in {"running", "abandoned"} /\ program = "test" /\ ~sealed => admin = "open"
    /\ phase = "ended" =>
          /\ admin = "open" => lost /\ failure = "migration"
          /\ schema => lost

\* Who closes it, and what is told of it.
ClosingInv ==
    /\ holder # NoCloser =>
          /\ program = "test" /\ phase \in {"running", "abandoned"}
          /\ ~sealed /\ main = "closed"
    /\ sealed => ~schema /\ phase \in {"running", "ended", "dead"}
    /\ (\E c \in Closers : told[c] = "nil") => sealed

\* The inductive invariant.
StartupInv == TypeOK /\ ConfigInv /\ MainInv /\ SchemaInv /\ ClosingInv

\* Nothing is open before the start.
LEMMA StartupInitInv == Init => StartupInv
<1> SUFFICES ASSUME Init PROVE StartupInv
  OBVIOUS
<1>1. TypeOK
  <2>1. program \in Programs /\ phase \in Phases /\ failure \in Failures
    BY DEF Init, Phases, Failures
  <2>2. main \in PoolStates /\ admin \in PoolStates /\ main_size \in Int
    BY DEF Init, PoolStates
  <2>3. schema \in BOOLEAN /\ lost \in BOOLEAN /\ sealed \in BOOLEAN
    BY DEF Init
  <2>4. holder \in Closers \cup {NoCloser} /\ told \in [Closers -> {"none", "nil", "error"}]
    BY DEF Init
  <2> QED
    BY <2>1, <2>2, <2>3, <2>4 DEF TypeOK
<1>2. ConfigInv /\ MainInv /\ SchemaInv
  BY DEF Init, ConfigInv, MainInv, SchemaInv, Prepared
<1>3. ClosingInv
  BY DEF Init, ClosingInv
<1> QED
  BY <1>1, <1>2, <1>3 DEF StartupInv

\* What is loaded and accepted is as the constructors need it.
LEMMA ConfigureStep ==
    ASSUME StartupInv, Configure
    PROVE  failure' = "none" => Configured'
<1> DEFINE names == IF program = "service" THEN Names ELSE DatabaseNames
<1>1. config' = Loaded(env, names) /\ program' = program /\ env \in Environments
  BY DEF Configure, inputs, StartupInv, ConfigInv
<1>2. failure' = "none" => Accepted
  BY DEF Configure, Abort
<1>3. /\ DatabaseNumbers \subseteq names /\ DatabaseNumbers \subseteq Numbers
      /\ Numbers \subseteq Names
  BY DEF DatabaseNumbers, DatabaseNames, Names, RuntimeNames, Numbers, OtherDefaults
<1>4. \A n \in DatabaseNumbers : config'[n] \in Int
  BY <1>1, <1>3, NumbersLoaded
<1>5. program = "service" => \A n \in Numbers : config'[n] \in Int
  BY <1>1, <1>3, NumbersLoaded
<1>6. Accepted => DatabaseValid(config') /\ (program = "service" => Valid(config'))
  BY <1>1 DEF Accepted, LoadAccepts, LoadDatabaseAccepts, Valid
<1> QED
  BY <1>1, <1>2, <1>4, <1>5, <1>6 DEF Configured

\* Steps that leave the settings alone.
LEMMA SettingsStay ==
    ASSUME UNCHANGED <<config, program>>
    PROVE  (Configured' <=> Configured) /\ (PoolAccepts' <=> PoolAccepts)
BY DEF Configured, DatabaseValid, Valid, QuotasValid, PoolAccepts

\* Steps in which a start goes on.
Proceeds ==
    OpenAdmin \/ AdminPinged \/ CreateSchema \/ MainPinged \/ Migrated \/ ConstructManagers

\* Steps in which it fails or ends.
Gives ==
    \/ RefusePool \/ CreateSchemaFails \/ ConnectMainFails \/ ConnectAdminFails \/ CleanUp
    \/ MigrationFails \/ StopService \/ Die

\* Steps of Close.
Closes ==
    \E c \in Closers : BeginClose(c) \/ CloseFails(c) \/ CloseSucceeds(c) \/ CloseAgain(c)

\* The settings are loaded, and accepted or not.
LEMMA ConfigureKeeps ==
    ASSUME StartupInv, Configure
    PROVE  StartupInv'
<1> USE DEF Configure, GoOn, Abort, inputs, pools, closing
<1>1. TypeOK'
  BY DEF StartupInv, TypeOK, Phases, Failures
<1>2. ConfigInv'
  BY ConfigureStep DEF StartupInv, ConfigInv
<1>3. MainInv' /\ ClosingInv'
  BY DEF StartupInv, MainInv, ClosingInv
<1>4. SchemaInv'
  BY DEF StartupInv, SchemaInv, ClosingInv, Prepared
<1> QED
  BY <1>1, <1>2, <1>3, <1>4 DEF StartupInv

\* The pool has the configured size.
LEMMA OpenMainKeeps ==
    ASSUME StartupInv, OpenMain
    PROVE  StartupInv'
<1> USE DEF OpenMain, GoOn, inputs, closing
<1>1. main_size' = config["DB_MAX_CONNECTIONS"] /\ config["DB_MAX_CONNECTIONS"] \in Int
  <2>1. Configured
    BY DEF StartupInv, ConfigInv
  <2> QED
    BY <2>1, PoolSettings, Int32Same DEF Configured, PoolAccepts
<1>2. TypeOK'
  BY <1>1 DEF StartupInv, TypeOK, Phases, PoolStates
<1>3. ConfigInv'
  BY SettingsStay DEF StartupInv, ConfigInv
<1>4. MainInv' /\ ClosingInv'
  BY <1>1 DEF StartupInv, MainInv, ClosingInv
<1>5. SchemaInv'
  BY SettingsStay DEF StartupInv, SchemaInv, Prepared
<1> QED
  BY <1>2, <1>3, <1>4, <1>5 DEF StartupInv

\* The managers accept what Validate accepted.
LEMMA ManagersAgree ==
    ASSUME StartupInv, phase = "managers"
    PROVE  ManagersAccept
BY ManagersFollow DEF StartupInv, ConfigInv, MainInv, Configured

\* What the pool refuses, it refuses before anything is opened or created: the
\* second pool of a test is built from the settings the first was built from.
LEMMA PoolAgree ==
    ASSUME StartupInv, RefusePool
    PROVE  /\ main = "none" /\ admin = "none" /\ ~schema
           /\ program = "test" => phase = "opening_admin"
<1>1. program = "test" => phase = "opening_admin"
  BY DEF StartupInv, SchemaInv, Prepared, RefusePool
<1>2. main = "none"
  BY DEF StartupInv, MainInv, RefusePool
<1> QED
  BY <1>1, <1>2 DEF StartupInv, SchemaInv, RefusePool

\* A start goes on.
LEMMA ProceedsKeeps ==
    ASSUME StartupInv, Proceeds
    PROVE  StartupInv'
<1> USE DEF Proceeds, OpenAdmin, AdminPinged, CreateSchema, MainPinged, Migrated,
            ConstructManagers, GoOn, Abort, inputs, pools, closing
<1>1. TypeOK'
  BY DEF StartupInv, TypeOK, Phases, PoolStates, Failures
<1>2. ConfigInv'
  BY ManagersAgree, SettingsStay DEF StartupInv, ConfigInv
<1>3. MainInv'
  BY DEF StartupInv, MainInv
<1>4. SchemaInv'
  BY ManagersAgree, SettingsStay DEF StartupInv, TypeOK, MainInv, SchemaInv, ClosingInv, Prepared
<1>5. ClosingInv'
  BY DEF StartupInv, ClosingInv
<1> QED
  BY <1>1, <1>2, <1>3, <1>4, <1>5 DEF StartupInv

\* A start fails, or a program ends.
LEMMA GivesKeeps ==
    ASSUME StartupInv, Gives
    PROVE  StartupInv'
<1> USE DEF Gives, RefusePool, CreateSchemaFails, ConnectMainFails, ConnectAdminFails, CleanUp,
            MigrationFails, StopService, Die, Drop, GoOn, Abort, inputs, pools, closing
<1>1. TypeOK'
  BY DEF StartupInv, TypeOK, Phases, PoolStates, Failures
<1>2. ConfigInv'
  <2> USE SettingsStay DEF StartupInv, ConfigInv
  <2>1. CASE RefusePool
    BY <2>1, PoolAgree
  <2>2. CASE CreateSchemaFails \/ ConnectMainFails \/ ConnectAdminFails \/ MigrationFails
    BY <2>2
  <2>3. CASE CleanUp \/ StopService
    BY <2>3
  <2>4. CASE Die
    BY <2>4
  <2> QED
    BY <2>1, <2>2, <2>3, <2>4
<1>3. MainInv'
  BY DEF StartupInv, MainInv
<1>4. SchemaInv'
  <2> USE SettingsStay DEF StartupInv, SchemaInv, Prepared
  <2>1. CASE RefusePool
    BY <2>1, PoolAgree
  <2>2. CASE CreateSchemaFails
    BY <2>2
  <2>3. CASE ConnectMainFails \/ ConnectAdminFails
    BY <2>3
  <2>4. CASE CleanUp
    BY <2>4 DEF TypeOK
  <2>5. CASE MigrationFails
    BY <2>5 DEF ClosingInv
  <2>6. CASE StopService \/ Die
    BY <2>6
  <2> QED
    BY <2>1, <2>2, <2>3, <2>4, <2>5, <2>6
<1>5. ClosingInv'
  <2> USE DEF StartupInv, ClosingInv
  <2>1. CASE RefusePool \/ ConnectMainFails \/ ConnectAdminFails \/ MigrationFails
    BY <2>1
  <2>2. CASE CreateSchemaFails \/ CleanUp
    <3>1. ~sealed /\ holder = NoCloser /\ UNCHANGED <<sealed, holder, told>>
      BY <2>2
    <3> QED
      BY <3>1
  <2>3. CASE StopService
    BY <2>3 DEF SchemaInv
  <2>4. CASE Die
    BY <2>4
  <2> QED
    BY <2>1, <2>2, <2>3, <2>4
<1> QED
  BY <1>1, <1>2, <1>3, <1>4, <1>5 DEF StartupInv

\* A test closes its schema.
LEMMA ClosesKeeps ==
    ASSUME StartupInv, Closes
    PROVE  StartupInv'
<1> USE StartupAssumption DEF Closes, BeginClose, CloseFails, CloseSucceeds, CloseAgain, AfterClose,
            Drop, GoOn, inputs, pools
<1>1. TypeOK'
  BY DEF StartupInv, TypeOK, Phases, PoolStates
<1>2. ConfigInv'
  BY SettingsStay DEF StartupInv, ConfigInv, ClosingInv
<1>3. MainInv'
  BY DEF StartupInv, MainInv, ClosingInv
<1>4. SchemaInv'
  <2> USE SettingsStay DEF StartupInv, TypeOK, SchemaInv, ClosingInv, Prepared
  <2>1. ASSUME NEW c \in Closers, BeginClose(c) \/ CloseAgain(c) PROVE SchemaInv'
    BY <2>1
  <2>2. ASSUME NEW c \in Closers, CloseFails(c) PROVE SchemaInv'
    BY <2>2
  <2>3. ASSUME NEW c \in Closers, CloseSucceeds(c) PROVE SchemaInv'
    BY <2>3
  <2> QED
    BY <2>1, <2>2, <2>3
<1>5. ClosingInv'
  <2> USE DEF StartupInv, TypeOK, SchemaInv, ClosingInv
  <2>1. ASSUME NEW c \in Closers, BeginClose(c) \/ CloseAgain(c) PROVE ClosingInv'
    BY <2>1
  <2>2. ASSUME NEW c \in Closers, CloseFails(c) PROVE ClosingInv'
    BY <2>2
  <2>3. ASSUME NEW c \in Closers, CloseSucceeds(c) PROVE ClosingInv'
    BY <2>3
  <2> QED
    BY <2>1, <2>2, <2>3
<1> QED
  BY <1>1, <1>2, <1>3, <1>4, <1>5 DEF StartupInv

\* Every step keeps the invariant.
LEMMA StartupNextInv == StartupInv /\ [Next]_vars => StartupInv'
<1> SUFFICES ASSUME StartupInv, [Next]_vars PROVE StartupInv'
  OBVIOUS
<1>1. CASE UNCHANGED vars
  BY <1>1, SettingsStay DEF vars, inputs, pools, closing, StartupInv, TypeOK, ConfigInv, MainInv,
     SchemaInv, ClosingInv
<1>2. CASE Next
  <2>1. Configure \/ OpenMain \/ Proceeds \/ Gives \/ Closes
    BY <1>2 DEF Next, Proceeds, Gives, Closes
  <2> QED
    BY <2>1, ConfigureKeeps, OpenMainKeeps, ProceedsKeeps, GivesKeeps, ClosesKeeps
<1> QED
  BY <1>1, <1>2

\* StartupInv holds in every reachable state.
THEOREM StartupInvAlways == Spec => []StartupInv
BY StartupInitInv, StartupNextInv, PTL DEF Spec

\* In every environment: what config.Validate accepts no manager refuses, the pool
\* refuses it before anything exists or not at all, and a pool that is opened has
\* the configured size.
THEOREM StartsAsConfiguredAlways == Spec => []StartsAsConfigured
<1>1. StartupInv => StartsAsConfigured
  BY DEF StartupInv, ConfigInv, MainInv, StartsAsConfigured
<1> QED
  BY <1>1, StartupInvAlways, PTL

\* However a start fails, nothing stays open or behind.
THEOREM NothingLeaksAlways == Spec => []NothingLeaks
<1>1. StartupInv => NothingLeaks
  BY DEF StartupInv, MainInv, SchemaInv, NothingLeaks
<1> QED
  BY <1>1, StartupInvAlways, PTL

\* Close tells nobody that the schema is gone while it is there, whoever closes it
\* at the same time.
THEOREM CloseTruthfulAlways == Spec => []CloseTruthful
<1>1. StartupInv => CloseTruthful
  BY DEF StartupInv, SchemaInv, ClosingInv, CloseTruthful
<1> QED
  BY <1>1, StartupInvAlways, PTL
=============================================================================
