------------------------------ MODULE Migrator ------------------------------
(***************************************************************************)
(* Schema migrations (internal/database/migrate.go): several processes,    *)
(* of one or of different builds, run Up on one database; tests also run   *)
(* DownAll.                                                                *)
(*                                                                         *)
(* A run is one transaction that takes the advisory lock (Lock), reads the *)
(* ledger and compares it with the migrations of its build (Validate),     *)
(* and applies or reverts one migration at a time (Apply, Revert).  DDL is *)
(* transactional in PostgreSQL: until Commit all changes are seen by the   *)
(* run alone.  A migration is its version and its content; the checksum    *)
(* covers name and both directions, so equal contents mean the same        *)
(* migration.                                                              *)
(***************************************************************************)
EXTENDS MigrationFiles

CONSTANTS
    Runners,        \* processes
    Directories     \* the files embedded in each build

ASSUME DirectoryAssumption ==
    \A d \in Directories :
        /\ IsFiniteSet(d)
        /\ \A e \in d :
              e.kind \in EntryKinds /\ (e.kind = "migration" => e.version \in Nat)

\* Some build starts; without one nothing ever runs.
ASSUME BuildAssumption == \E d \in Directories : LoadAccepts(d)

\* NewMigrator: builds that start.
Builds == {LoadMigrations(d) : d \in {d \in Directories : LoadAccepts(d)}}

Migrations == UNION {ToSet(b) : b \in Builds}

VARIABLES
    ledger,         \* committed rows of schema_migration
    ledger_exists,  \* whether that table exists
    schema,         \* migrations whose effects the committed schema has
    runs            \* the run of each process

vars == <<ledger, ledger_exists, schema, runs>>

----------------------------------------------------------------------------
NoRun == [phase |-> "none"]

Run ==
    [op      : {"up", "down"},
     build   : Builds,
     phase   : {"waiting", "locked", "checked"},
     applied : SUBSET Migrations,    \* the ledger as this run sees it
     schema  : SUBSET Migrations]    \* the schema as this run sees it

Locked == {r \in Runners : runs[r].phase \in {"locked", "checked"}}

\* Faulty variant: migrations this build does not know are ignored.
HistoryUnchanged(b, applied) ==
    /\ \A m \in applied, i \in 1..Len(b) : b[i].version = m.version => b[i] = m
    /\ \A i, j \in 1..Len(b) : i < j /\ b[j] \in applied => b[i] \in applied

\* validateAppliedMigrationHistory: everything applied is known to this build,
\* unchanged, and nothing is applied after something missing.
HistoryValid(b, applied) ==
    /\ applied \subseteq ToSet(b)
    /\ \A i, j \in 1..Len(b) : i < j /\ b[j] \in applied => b[i] \in applied

\* Indexes of the migrations an Up has left, and a DownAll.
Pending(run) == {i \in 1..Len(run.build) :
                    \A m \in run.applied : m.version # run.build[i].version}
Present(run) == {i \in 1..Len(run.build) :
                    \E m \in run.applied : m.version = run.build[i].version}

----------------------------------------------------------------------------
Init ==
    /\ ledger = {}
    /\ ledger_exists = FALSE
    /\ schema = {}
    /\ runs = [r \in Runners |-> NoRun]

Continue(r, run) ==
    /\ runs' = [runs EXCEPT ![r] = run]
    /\ UNCHANGED <<ledger, ledger_exists, schema>>

\* The transaction ends and releases the advisory lock.
End(r) == runs' = [runs EXCEPT ![r] = NoRun]

Begin(r, op, b) ==
    /\ runs[r] = NoRun
    /\ Continue(r, [op |-> op, build |-> b, phase |-> "waiting",
                    applied |-> {}, schema |-> {}])

\* Faulty variant: no advisory lock.
LockFreeAlways(r) == TRUE

LockFree(r) == Locked = {}

\* pg_advisory_xact_lock, then the statements that read the database; only the
\* holder of the lock writes to it.
Lock(r) ==
    /\ runs[r].phase = "waiting"
    /\ LockFree(r)
    /\ Continue(r, [runs[r] EXCEPT !.phase = "locked",
                                   !.applied = ledger, !.schema = schema])

\* The ledger agrees with the build.  Up creates a missing ledger, DownAll
\* cannot read it.
Validate(r) ==
    /\ runs[r].phase = "locked"
    /\ runs[r].op = "down" => ledger_exists
    /\ HistoryValid(runs[r].build, runs[r].applied)
    /\ Continue(r, [runs[r] EXCEPT !.phase = "checked"])

\* The next pending migration and its ledger row.
Apply(r) ==
    LET run == runs[r]
    IN /\ run.phase = "checked"
       /\ run.op = "up"
       /\ \E i \in Pending(run) :
             /\ \A j \in Pending(run) : i <= j
             /\ Continue(r, [run EXCEPT !.applied = @ \cup {run.build[i]},
                                        !.schema = @ \cup {run.build[i]}])

\* The newest migration present is reverted and its ledger row deleted.
Revert(r) ==
    LET run == runs[r]
    IN /\ run.phase = "checked"
       /\ run.op = "down"
       /\ \E i \in Present(run) :
             /\ \A j \in Present(run) : j <= i
             /\ Continue(r, [run EXCEPT
                   !.applied = {m \in @ : m.version # run.build[i].version},
                   !.schema = @ \ {run.build[i]}])

Finished(run) ==
    /\ run.phase = "checked"
    /\ IF run.op = "up" THEN Pending(run) = {} ELSE Present(run) = {}

\* Faulty variant: the ledger is written outside the transaction of the DDL.
CommitLedgerOnly(r) ==
    /\ ledger' = runs[r].applied
    /\ ledger_exists' = (runs[r].op = "up")
    /\ UNCHANGED schema

\* DownAll drops the ledger with whatever it holds.
CommitChanges(r) ==
    /\ ledger' = IF runs[r].op = "up" THEN runs[r].applied ELSE {}
    /\ ledger_exists' = (runs[r].op = "up")
    /\ schema' = runs[r].schema

\* The caller may hear of it or not.
Commit(r) ==
    /\ Finished(runs[r])
    /\ CommitChanges(r)
    /\ End(r)

\* A statement or COMMIT fails, the history is refused, the context is
\* cancelled or the process dies: everything is rolled back.
Fail(r) ==
    /\ runs[r] # NoRun
    /\ End(r)
    /\ UNCHANGED <<ledger, ledger_exists, schema>>

Next ==
    \/ \E r \in Runners, op \in {"up", "down"}, b \in Builds : Begin(r, op, b)
    \/ \E r \in Runners : Lock(r)
    \/ \E r \in Runners : Validate(r)
    \/ \E r \in Runners : Apply(r)
    \/ \E r \in Runners : Revert(r)
    \/ \E r \in Runners : Commit(r)
    \/ \E r \in Runners : Fail(r)

Spec == Init /\ [][Next]_vars

----------------------------------------------------------------------------
\* Every variable has its type.
TypeOK ==
    /\ ledger \subseteq Migrations
    /\ ledger_exists \in BOOLEAN
    /\ schema \subseteq Migrations
    /\ runs \in [Runners -> Run \cup {NoRun}]

\* The ledger tells the truth about the schema: a migration is recorded exactly
\* if its changes are there, whatever failed or died half way.
LedgerTruthful == schema = ledger

\* The database always has the history of one build, from its first migration
\* on and without a gap, even if diverged builds run against it.
OneHistory ==
    \E b \in Builds : \E n \in 0..Len(b) : ledger = {b[i] : i \in 1..n}

\* Without DownAll history only grows at its end: nothing recorded is changed,
\* and nothing is inserted before it.
HistoryAppends ==
    [][ledger_exists' =>
          /\ ledger \subseteq ledger'
          /\ \A m \in ledger' \ ledger, k \in ledger :
                k.version < m.version]_vars
============================================================================
