---------------------------- MODULE Configuration ----------------------------
(***************************************************************************)
(* Process configuration (internal/config/config.go): how the environment  *)
(* becomes settings, and which settings Validate accepts.                  *)
(*                                                                         *)
(* An environment gives each name a raw value: unset, blank, text that     *)
(* does not parse ("garbage": also a number beyond 64 bits, or a host that *)
(* cannot stand in a URL), or a value.                                     *)
(* Sizes are counted in KiB and durations in milliseconds.                 *)
(***************************************************************************)
EXTENDS Integers

CONSTANT MaxInt32   \* the largest 32-bit integer

Minute == 60000
Hour == 60 * Minute

ASSUME MaxInt32Assumption == MaxInt32 \in Nat \ {0}

----------------------------------------------------------------------------
\* Values used for names that are not set.
QuotaDefaults ==
    [ANONYMOUS_QUOTA_WINDOW              |-> 24 * Hour,
     ANONYMOUS_QUOTA_SESSIONS_PER_IP     |-> 20,
     ANONYMOUS_QUOTA_UPLOADS_PER_SESSION |-> 10,
     ANONYMOUS_QUOTA_UPLOADS_PER_IP      |-> 50,
     ANONYMOUS_QUOTA_JOBS_PER_SESSION    |-> 10,
     ANONYMOUS_QUOTA_JOBS_PER_IP         |-> 50,
     ANONYMOUS_QUOTA_BYTES_PER_SESSION   |-> 1048576,
     ANONYMOUS_QUOTA_BYTES_PER_IP        |-> 5242880]

RuntimeDefaults ==
    [MAX_UPLOAD_BYTES      |-> 262144,
     UPLOAD_CHUNK_BYTES    |-> 8192,
     UPLOAD_SESSION_TTL    |-> 24 * Hour,
     PDF_TARGET_BYTES      |-> 76800,
     JOB_RETENTION         |-> 48 * Hour,
     WORKER_CONCURRENCY    |-> 1,
     ANONYMOUS_SESSION_TTL |-> 48 * Hour]

DatabaseNumberDefaults ==
    [DB_PORT                |-> 5432,
     DB_CONNECT_TIMEOUT     |-> 5000,
     DB_HEALTH_TIMEOUT      |-> 2000,
     DB_MIGRATION_TIMEOUT   |-> 2 * Minute,
     DB_MAX_CONNECTIONS     |-> 10,
     DB_MIN_CONNECTIONS     |-> 0,
     DB_MAX_CONNECTION_AGE  |-> 30 * Minute,
     DB_MAX_CONNECTION_IDLE |-> 5 * Minute,
     DB_HEALTH_CHECK_PERIOD |-> 30000]

DatabaseTextDefaults ==
    [DB_DRIVER   |-> "postgres",
     DB_HOST     |-> "127.0.0.1",
     DB_NAME     |-> "go_pdf_forge",
     DB_USER     |-> "go_pdf_forge",
     DB_PASSWORD |-> "",
     DB_SSL_MODE |-> "disable"]

\* Of the endpoint only the scheme matters, of the pepper its length.
RuntimeTextDefaults ==
    [AUTH_MODE            |-> "optional",
     S3_ENDPOINT          |-> "http",
     S3_REGION            |-> "garage",
     S3_BUCKET            |-> "go-pdf-forge",
     S3_ACCESS_KEY_ID     |-> "",
     S3_SECRET_ACCESS_KEY |-> ""]

OtherDefaults == [ANONYMOUS_TOKEN_PEPPER |-> 0, S3_PATH_STYLE |-> TRUE]

QuotaNames == DOMAIN QuotaDefaults
DatabaseNames == DOMAIN DatabaseNumberDefaults \cup DOMAIN DatabaseTextDefaults
RuntimeNames ==
    QuotaNames \cup DOMAIN RuntimeDefaults \cup DOMAIN RuntimeTextDefaults
        \cup DOMAIN OtherDefaults
Names == DatabaseNames \cup RuntimeNames

\* Names whose values are numbers, sizes or durations.
Numbers ==
    QuotaNames \cup DOMAIN RuntimeDefaults \cup DOMAIN DatabaseNumberDefaults
        \cup {"ANONYMOUS_TOKEN_PEPPER"}

Default(n) ==
    CASE n \in QuotaNames                     -> QuotaDefaults[n]
      [] n \in DOMAIN RuntimeDefaults         -> RuntimeDefaults[n]
      [] n \in DOMAIN DatabaseNumberDefaults  -> DatabaseNumberDefaults[n]
      [] n \in DOMAIN DatabaseTextDefaults    -> DatabaseTextDefaults[n]
      [] n \in DOMAIN RuntimeTextDefaults     -> RuntimeTextDefaults[n]
      [] n \in DOMAIN OtherDefaults           -> OtherDefaults[n]

----------------------------------------------------------------------------
\* Names whose text is used as it is, without surrounding space.
Texts == DOMAIN DatabaseTextDefaults \cup DOMAIN RuntimeTextDefaults

\* intValue, int64Value, durationValue and boolValue fail on such a text.
Parses(env, n) ==
    n \in Texts \cup {"ANONYMOUS_TOKEN_PEPPER"} \/ env[n].kind # "garbage"

\* A blank text is the empty text; any other blank value counts as not set.
Read(env, n) ==
    CASE env[n].kind = "value"                     -> env[n].value
      [] env[n].kind = "blank" /\ n \in Texts      -> ""
      [] env[n].kind = "garbage" /\ n \in Texts    -> "garbage"
      [] OTHER                                     -> Default(n)

Loaded(env, names) == [n \in names |-> Read(env, n)]

----------------------------------------------------------------------------
CountNames == QuotaNames \ {"ANONYMOUS_QUOTA_WINDOW", "ANONYMOUS_QUOTA_BYTES_PER_SESSION",
                            "ANONYMOUS_QUOTA_BYTES_PER_IP"}

\* Faulty variant: counts are not compared with the width of their columns.
QuotasValidUnbounded(cfg) ==
    /\ cfg["ANONYMOUS_QUOTA_WINDOW"] >= Minute
    /\ cfg["ANONYMOUS_QUOTA_WINDOW"] % 1000 = 0
    /\ \A n \in QuotaNames : cfg[n] > 0

\* AnonymousQuotas.validate
QuotasValid(cfg) ==
    /\ cfg["ANONYMOUS_QUOTA_WINDOW"] >= Minute
    /\ cfg["ANONYMOUS_QUOTA_WINDOW"] % 1000 = 0
    /\ \A n \in QuotaNames : cfg[n] > 0
    /\ \A n \in CountNames : cfg[n] <= MaxInt32

SSLModes == {"disable", "allow", "prefer", "require", "verify-ca", "verify-full"}

MaxPort == 65535

\* Database.validate
DatabaseValid(cfg) ==
    /\ cfg["DB_DRIVER"] = "postgres"
    /\ cfg["DB_PORT"] \in 1..MaxPort
    /\ \A n \in {"DB_HOST", "DB_NAME", "DB_USER", "DB_PASSWORD"} : cfg[n] # ""
    /\ cfg["DB_SSL_MODE"] \in SSLModes
    /\ \A n \in DOMAIN DatabaseNumberDefaults \ {"DB_MIN_CONNECTIONS"} : cfg[n] > 0
    /\ cfg["DB_MIN_CONNECTIONS"] >= 0
    /\ cfg["DB_MIN_CONNECTIONS"] <= cfg["DB_MAX_CONNECTIONS"]

\* Config.Validate
Valid(cfg) ==
    /\ cfg["AUTH_MODE"] \in {"required", "optional", "anonymous"}
    /\ \A n \in DOMAIN RuntimeDefaults : cfg[n] > 0
    /\ cfg["UPLOAD_CHUNK_BYTES"] <= MaxInt32
    /\ cfg["UPLOAD_CHUNK_BYTES"] <= cfg["MAX_UPLOAD_BYTES"]
    /\ cfg["AUTH_MODE"] # "required" => cfg["ANONYMOUS_TOKEN_PEPPER"] >= 32
    /\ QuotasValid(cfg)
    /\ DatabaseValid(cfg)
    /\ cfg["S3_ENDPOINT"] \in {"http", "https"}
    /\ \A n \in {"S3_REGION", "S3_BUCKET", "S3_ACCESS_KEY_ID", "S3_SECRET_ACCESS_KEY"} :
          cfg[n] # ""

\* Load, and LoadDatabase for programs that need nothing else.
LoadAccepts(env) ==
    (\A n \in Names : Parses(env, n)) /\ Valid(Loaded(env, Names))
LoadDatabaseAccepts(env) ==
    (\A n \in DatabaseNames : Parses(env, n)) /\ DatabaseValid(Loaded(env, DatabaseNames))
============================================================================
