------------------------------ MODULE MCStartup ------------------------------
(***************************************************************************)
(* Environments of the instance of Startup that TLC checks.                *)
(***************************************************************************)
EXTENDS Startup, TLC

MCValue(v) == [kind |-> "value", value |-> v]
MCUnset == [kind |-> "unset"]

\* Only the secrets have no usable default.
MCBase ==
    [n \in Names |->
        CASE n \in {"DB_PASSWORD", "S3_ACCESS_KEY_ID", "S3_SECRET_ACCESS_KEY"} -> MCValue("secret")
          [] n = "ANONYMOUS_TOKEN_PEPPER" -> MCValue(32)
          [] OTHER -> MCUnset]

MCNumbers == DOMAIN RuntimeDefaults \cup DOMAIN DatabaseNumberDefaults \cup QuotaNames

\* Each bound, the value before it and the value after it.
MCBoundary(n) ==
    CASE n = "DB_PORT"                -> {0, 1, 65535, 65536}
      [] n = "ANONYMOUS_QUOTA_WINDOW" -> {Minute - 1000, Minute, Minute + 1, Minute + 1000}
      [] n \in {"UPLOAD_CHUNK_BYTES", "MAX_UPLOAD_BYTES", "DB_MAX_CONNECTIONS",
                "DB_MIN_CONNECTIONS"} -> {-1, 0, 1, 2, MaxInt32, MaxInt32 + 1}
      [] n \in CountNames             -> {0, 1, MaxInt32, MaxInt32 + 1}
      [] n \in MCNumbers              -> {-1, 0, 1}
      [] n = "ANONYMOUS_TOKEN_PEPPER" -> {31, 32}
      [] n = "AUTH_MODE"              -> {"required", "optional", "anonymous"}
      [] n = "S3_PATH_STYLE"          -> {TRUE, FALSE}
      [] n = "S3_ENDPOINT"            -> {"http", "https", "ftp"}
      [] n = "DB_SSL_MODE"            -> SSLModes
      [] n \in Texts                  -> {"postgres", "text"}

\* Every name set in every way.
MCChanges ==
    UNION {{<<n, raw>> : raw \in {MCUnset, [kind |-> "blank"], [kind |-> "garbage"]}
                                  \cup {MCValue(v) : v \in MCBoundary(n)}} : n \in Names}

\* Values of two settings that one check relates.
MCRelated ==
    {{"UPLOAD_CHUNK_BYTES", "MAX_UPLOAD_BYTES"}, {"DB_MIN_CONNECTIONS", "DB_MAX_CONNECTIONS"},
     {"AUTH_MODE", "ANONYMOUS_TOKEN_PEPPER"}}

MCEnvironments ==
    {[MCBase EXCEPT ![c[1]] = c[2]] : c \in MCChanges}
    \cup UNION {{[MCBase EXCEPT ![c[1]] = c[2], ![d[1]] = d[2]] :
                    c \in {x \in MCChanges : x[1] \in pair},
                    d \in {x \in MCChanges : x[1] \in pair}} : pair \in MCRelated}

CloserSymmetry == Permutations(Closers)
============================================================================
