--------------------------- MODULE MigratorProofs ---------------------------
(***************************************************************************)
(* The migrator keeps its promises for any number of processes and of      *)
(* builds, whatever their directories hold.                                *)
(*                                                                         *)
(* First what LoadMigrations returns: the migrations of the directory,     *)
(* each once, in order of version.  A migration's rank, the number of      *)
(* smaller versions, is a bijection, so an ordered sequence exists.        *)
(***************************************************************************)
EXTENDS Migrator, FiniteSetTheorems, TLAPS

\* A finite set of migrations with different versions.
Distinct(ms) ==
    /\ IsFiniteSet(ms)
    /\ \A m \in ms : m.version \in Nat
    /\ \A m, k \in ms : m.version = k.version => m = k

Smaller(ms, m) == {k \in ms : k.version < m.version}
Rank(ms) == [m \in ms |-> Cardinality(Smaller(ms, m)) + 1]

\* A migration of a larger version has a larger rank, at most the number of all.
LEMMA RankMonotonic ==
    ASSUME NEW ms, Distinct(ms), NEW m \in ms
    PROVE  /\ Rank(ms)[m] \in 1..Cardinality(ms)
           /\ \A k \in ms : m.version < k.version => Rank(ms)[m] < Rank(ms)[k]
<1>1. \A k \in ms : /\ IsFiniteSet(Smaller(ms, k))
                    /\ Smaller(ms, k) \subseteq ms
                    /\ Cardinality(Smaller(ms, k)) \in Nat
                    /\ Cardinality(Smaller(ms, k)) < Cardinality(ms)
  <2> TAKE k \in ms
  <2>1. Smaller(ms, k) \subseteq ms /\ k \notin Smaller(ms, k)
    BY DEF Smaller, Distinct
  <2>2. IsFiniteSet(Smaller(ms, k)) /\ Cardinality(Smaller(ms, k)) <= Cardinality(ms)
        /\ Cardinality(Smaller(ms, k)) # Cardinality(ms)
    BY <2>1, FS_Subset DEF Distinct
  <2>3. Cardinality(Smaller(ms, k)) \in Nat /\ Cardinality(ms) \in Nat
    BY <2>2, FS_CardinalityType DEF Distinct
  <2> QED
    BY <2>1, <2>2, <2>3
<1>2. Cardinality(ms) \in Nat
  BY FS_CardinalityType DEF Distinct
<1>3. ASSUME NEW k \in ms, m.version < k.version
      PROVE  Cardinality(Smaller(ms, m)) < Cardinality(Smaller(ms, k))
  <2>1. Smaller(ms, m) \subseteq Smaller(ms, k)
    BY <1>3 DEF Smaller, Distinct
  <2>2. m \in Smaller(ms, k) /\ m \notin Smaller(ms, m)
    BY <1>3 DEF Smaller, Distinct
  <2>3. Cardinality(Smaller(ms, m)) <= Cardinality(Smaller(ms, k))
        /\ Cardinality(Smaller(ms, m)) # Cardinality(Smaller(ms, k))
    BY <1>1, <2>1, <2>2, FS_Subset
  <2> QED
    BY <1>1, <2>3
<1> QED
  BY <1>1, <1>2, <1>3 DEF Rank

\* So ranks count the migrations.
LEMMA RankBijective ==
    ASSUME NEW ms, Distinct(ms)
    PROVE  Rank(ms) \in Bijection(ms, 1..Cardinality(ms))
<1> DEFINE n == Cardinality(ms)
<1>1. n \in Nat
  BY FS_CardinalityType DEF Distinct
<1>2. Rank(ms) \in [ms -> 1..n]
  BY RankMonotonic DEF Rank
<1>3. ASSUME NEW m \in ms, NEW k \in ms, Rank(ms)[m] = Rank(ms)[k] PROVE m = k
  <2>1. Rank(ms)[m] \in Nat /\ Rank(ms)[k] \in Nat
    BY <1>1, <1>2
  <2>2. ~(m.version < k.version) /\ ~(k.version < m.version)
    BY <1>3, <2>1, RankMonotonic
  <2> QED
    BY <2>2 DEF Distinct
<1>4. Rank(ms) \in Injection(ms, 1..n)
  BY <1>2, <1>3 DEF Injection, IsInjective
<1>5. IsFiniteSet(1..n) /\ Cardinality(1..n) = n
  BY <1>1, FS_Interval
<1>6. Rank(ms) \in Surjection(ms, 1..n)
  BY <1>4, <1>5, FS_Injection
<1> QED
  BY <1>4, <1>6 DEF Bijection

\* An accepted directory has finitely many migrations of different versions.
LEMMA DirectoryDistinct ==
    ASSUME NEW d \in Directories, LoadAccepts(d)
    PROVE  Distinct({MigrationOf(e) : e \in SqlFiles(d)})
<1> DEFINE files == SqlFiles(d)
           ms == {MigrationOf(e) : e \in files}
           f == [e \in files |-> MigrationOf(e)]
<1>1. IsFiniteSet(files)
  <2>1. files \subseteq d
    BY DEF SqlFiles
  <2> QED
    BY <2>1, DirectoryAssumption, FS_Subset
<1>2. IsFiniteSet(ms)
  <2>1. f \in Surjection(files, ms)
    BY DEF Surjection
  <2> QED
    BY <1>1, <2>1, FS_Surjection
<1>3. \A e \in files : e.version \in Nat /\ MigrationOf(e).version = e.version
  BY DirectoryAssumption DEF LoadAccepts, SqlFiles, MigrationOf
<1>4. \A e, g \in files : e.version = g.version => e = g
  BY DEF LoadAccepts
<1> QED
  BY <1>2, <1>3, <1>4 DEF Distinct

\* A build holds the migrations of its directory in order of version.
LEMMA BuildSorted ==
    ASSUME NEW b \in Builds
    PROVE  /\ b \in Seq(Migrations)
           /\ \A i \in 1..Len(b) : b[i] \in Migrations /\ b[i].version \in Nat
           /\ \A i, j \in 1..Len(b) : i < j => b[i].version < b[j].version
<1>1. PICK d \in Directories : LoadAccepts(d) /\ b = LoadMigrations(d)
  BY DEF Builds
<1> DEFINE ms == {MigrationOf(e) : e \in SqlFiles(d)}
           n == Cardinality(ms)
           Increasing(s) == \A i, j \in 1..Len(s) : i < j => s[i].version < s[j].version
<1>2. Distinct(ms)
  BY <1>1, DirectoryDistinct
<1> HIDE DEF ms
<1>3. n \in Nat
  BY <1>2, FS_CardinalityType DEF Distinct
<1>4. \E s \in SetToSeqs(ms) : Increasing(s)
  <2> DEFINE r == Rank(ms)
             s == [i \in 1..n |-> CHOOSE m \in ms : r[m] = i]
  <2>1. /\ r \in [ms -> 1..n]
        /\ \A i \in 1..n : \E m \in ms : r[m] = i
    BY <1>2, RankBijective DEF Bijection, Surjection
  <2>2. \A i \in 1..n : s[i] \in ms /\ r[s[i]] = i
    BY <2>1
  <2>3. s \in [1..n -> ms]
    BY <2>2
  <2>4. \A i, j \in 1..n : i # j => s[i] # s[j]
    BY <2>2
  <2>5. s \in SetToSeqs(ms)
    BY <2>3, <2>4 DEF SetToSeqs
  <2>6. Len(s) = n
    BY <1>3
  <2>7. ASSUME NEW i \in 1..n, NEW j \in 1..n, i < j PROVE s[i].version < s[j].version
    <3>1. s[i] \in ms /\ s[j] \in ms /\ r[s[i]] = i /\ r[s[j]] = j
      BY <2>2
    <3> HIDE DEF s, r
    <3>2. s[i].version \in Nat /\ s[j].version \in Nat
      BY <1>2, <3>1 DEF Distinct
    <3>3. ~(s[j].version < s[i].version) 
      BY <1>2, <1>3, <2>7, <3>1, RankMonotonic DEF r
    <3>4. s[i].version # s[j].version
      BY <1>2, <2>7, <3>1 DEF Distinct
    <3> QED
      BY <3>2, <3>3, <3>4
  <2> QED
    BY <2>5, <2>6, <2>7
<1>5. b \in SetToSeqs(ms) /\ Increasing(b)
  BY <1>1, <1>4 DEF LoadMigrations, ms
<1>6. b \in [1..n -> ms] /\ Len(b) = n /\ b \in Seq(ms)
  BY <1>3, <1>5 DEF SetToSeqs
<1>7. /\ \A i \in 1..Len(b) : b[i] \in ToSet(b)
      /\ ToSet(b) \subseteq Migrations
  BY <1>6 DEF ToSet, Migrations
<1> QED
  BY <1>2, <1>5, <1>6, <1>7 DEF Distinct

----------------------------------------------------------------------------
(* The runs.  The advisory lock keeps what its holder read current.        *)

\* The first migrations of a build, and nothing else.
HistoryOf(b, applied) == \E n \in 0..Len(b) : applied = {b[i] : i \in 1..n}

LockExclusive == \A r, q \in Locked : r = q

\* A run that holds the lock works on copies of the committed tables; once it
\* has checked the history, on one of its own build.
WorksOnCopies ==
    \A r \in Locked :
        LET run == runs[r]
        IN /\ run.phase = "locked" => run.applied = ledger
           /\ run.schema = run.applied
           /\ run.phase = "checked" => HistoryOf(run.build, run.applied)
           /\ run.phase = "checked" /\ run.op = "up" =>
                 HistoryOf(run.build, ledger) /\ ledger \subseteq run.applied

\* The inductive invariant.
MigratorInv == TypeOK /\ LedgerTruthful /\ OneHistory /\ LockExclusive /\ WorksOnCopies

----------------------------------------------------------------------------
\* What validateAppliedMigrationHistory accepts is a history of the build.
LEMMA ValidHistory ==
    ASSUME NEW b \in Builds, NEW applied, HistoryValid(b, applied)
    PROVE  HistoryOf(b, applied)
<1> DEFINE S == {i \in 1..Len(b) : b[i] \in applied}
<1>1. Len(b) \in Nat /\ applied = {b[i] : i \in S}
  <2>1. b \in Seq(Migrations)
    BY BuildSorted
  <2> QED
    BY <2>1 DEF HistoryValid, ToSet
<1>2. \A i, j \in 1..Len(b) : i < j /\ j \in S => i \in S
  BY DEF HistoryValid
<1> DEFINE n == Cardinality(S)
<1>3. IsFiniteSet(S) /\ n \in Nat /\ n <= Len(b)
  <2>1. IsFiniteSet(1..Len(b)) /\ Cardinality(1..Len(b)) = Len(b)
    BY <1>1, FS_Interval
  <2> QED
    BY <2>1, FS_Subset, FS_CardinalityType
<1>4. \A i \in S : i \in 1..n
  <2> TAKE i \in S
  <2>1. 1..i \subseteq S
    BY <1>1, <1>2
  <2>2. i \in Nat \ {0} /\ Cardinality(1..i) = i
    BY FS_Interval
  <2> HIDE DEF S
  <2> QED
    BY <1>3, <2>1, <2>2, FS_Subset
<1>5. S = 1..n
  <2>1. IsFiniteSet(1..n) /\ Cardinality(1..n) = n
    BY <1>3, FS_Interval
  <2> HIDE DEF S
  <2> QED
    BY <1>3, <1>4, <2>1, FS_Subset
<1> HIDE DEF S
<1> QED
  BY <1>1, <1>3, <1>5 DEF HistoryOf

\* Two histories of one build: the larger extends the smaller at its end.
LEMMA HistoriesExtend ==
    ASSUME NEW b \in Builds, NEW old, NEW new, HistoryOf(b, old), HistoryOf(b, new),
           old \subseteq new
    PROVE  \A m \in new \ old, k \in old : k.version < m.version
<1>1. PICK n \in 0..Len(b) : old = {b[i] : i \in 1..n}
  BY DEF HistoryOf
<1>2. PICK p \in 0..Len(b) : new = {b[i] : i \in 1..p}
  BY DEF HistoryOf
<1> TAKE m \in new \ old, k \in old
<1>3. Len(b) \in Nat
  BY BuildSorted
<1>4. PICK i \in 1..n : k = b[i]
  BY <1>1
<1>5. PICK j \in 1..p : m = b[j] /\ ~(j <= n)
  BY <1>1, <1>2, <1>3
<1> QED
  BY <1>3, <1>4, <1>5, BuildSorted

\* Applying the first pending migration keeps a history of the build.
LEMMA ApplyExtends ==
    ASSUME NEW run, run.build \in Builds, HistoryOf(run.build, run.applied),
           NEW i \in Pending(run), \A j \in Pending(run) : i <= j
    PROVE  HistoryOf(run.build, run.applied \cup {run.build[i]})
<1> DEFINE b == run.build
<1>1. PICK n \in 0..Len(b) : run.applied = {b[j] : j \in 1..n}
  BY DEF HistoryOf
<1>2. /\ Len(b) \in Nat
      /\ \A j \in 1..Len(b) : b[j].version \in Nat
      /\ \A j, k \in 1..Len(b) : j < k => b[j].version < b[k].version
  BY BuildSorted
<1>3. \A j \in 1..Len(b) : j \in Pending(run) <=> n < j
  <2> TAKE j \in 1..Len(b)
  <2>1. ASSUME NEW k \in 1..n, n < j PROVE b[k].version # b[j].version
    BY <1>2, <2>1
  <2>2. j <= n => j \in 1..n
    BY <1>2
  <2> QED
    BY <1>1, <1>2, <2>1, <2>2 DEF Pending
<1>4. i \in 1..Len(b)
  BY DEF Pending
<1>5. i = n + 1
  <2>1. n < i /\ n + 1 \in 1..Len(b)
    BY <1>2, <1>3, <1>4
  <2> QED
    BY <1>2, <1>3, <1>4, <2>1
<1>6. run.applied \cup {b[i]} = {b[j] : j \in 1..i}
  BY <1>1, <1>5
<1>7. i \in 0..Len(b)
  BY <1>2, <1>4
<1> QED
  BY <1>6, <1>7 DEF HistoryOf

\* Reverting the newest migration present removes the end of the history, and
\* of ledger and schema the same.
LEMMA RevertShortens ==
    ASSUME NEW run, run.build \in Builds, HistoryOf(run.build, run.applied),
           NEW i \in Present(run), \A j \in Present(run) : j <= i
    PROVE  /\ {m \in run.applied : m.version # run.build[i].version}
                 = run.applied \ {run.build[i]}
           /\ HistoryOf(run.build, run.applied \ {run.build[i]})
<1> DEFINE b == run.build
<1>1. PICK n \in 0..Len(b) : run.applied = {b[j] : j \in 1..n}
  BY DEF HistoryOf
<1>2. /\ Len(b) \in Nat
      /\ \A j \in 1..Len(b) : b[j].version \in Nat
      /\ \A j, k \in 1..Len(b) : j < k => b[j].version < b[k].version
  BY BuildSorted
<1>3. \A j, k \in 1..Len(b) : b[j].version = b[k].version => j = k
  <2> TAKE j, k \in 1..Len(b)
  <2>1. j < k \/ j = k \/ k < j
    BY <1>2
  <2> QED
    BY <1>2, <2>1
<1>4. i \in 1..Len(b) /\ 1..n \subseteq 1..Len(b)
  BY <1>2 DEF Present
<1>5. \A j \in 1..Len(b) : j \in Present(run) <=> j \in 1..n
  <2> TAKE j \in 1..Len(b)
  <2>1. j \in 1..n => b[j] \in run.applied
    BY <1>1
  <2>2. ASSUME NEW m \in run.applied, m.version = b[j].version PROVE j \in 1..n
    BY <1>1, <1>3, <1>4, <2>2
  <2> QED
    BY <2>1, <2>2 DEF Present
<1>6. i = n
  <2>1. i \in 1..n
    BY <1>4, <1>5
  <2>2. n \in 1..n
    BY <1>2, <2>1
  <2> QED
    BY <1>2, <1>4, <1>5, <2>1, <2>2
<1>7. \A j \in 1..n : b[j].version = b[i].version <=> b[j] = b[i]
  BY <1>3, <1>4
<1>8. {m \in run.applied : m.version # b[i].version} = run.applied \ {b[i]}
  BY <1>1, <1>7
<1>9. run.applied \ {b[i]} = {b[j] : j \in 1..(n - 1)}
  <2>1. \A j \in 1..n : b[j] = b[i] <=> j = i
    BY <1>3, <1>4
  <2>2. 1..(n - 1) = 1..n \ {i}
    BY <1>2, <1>6
  <2> QED
    BY <1>1, <2>1, <2>2
<1>10. n - 1 \in 0..Len(b)
  BY <1>2, <1>4, <1>6
<1> QED
  BY <1>8, <1>9, <1>10 DEF HistoryOf

----------------------------------------------------------------------------
\* Steps that write nothing and leave the lock's holders as they are, or fewer.
LEMMA CopiesStay ==
    ASSUME MigratorInv, UNCHANGED <<ledger, ledger_exists, schema>>,
           runs' \in [Runners -> Run \cup {NoRun}],
           Locked' \subseteq Locked, \A q \in Locked' : runs'[q] = runs[q]
    PROVE  MigratorInv'
<1>1. WorksOnCopies'
  <2> SUFFICES ASSUME NEW q \in Locked'
               PROVE  LET run == runs[q]
                      IN /\ run.phase = "locked" => run.applied = ledger
                         /\ run.schema = run.applied
                         /\ run.phase = "checked" => HistoryOf(run.build, run.applied)
                         /\ run.phase = "checked" /\ run.op = "up" =>
                               HistoryOf(run.build, ledger) /\ ledger \subseteq run.applied
    BY DEF WorksOnCopies, HistoryOf
  <2> QED
    BY DEF MigratorInv, WorksOnCopies
<1>2. LockExclusive'
  BY DEF MigratorInv, LockExclusive
<1> QED
  BY <1>1, <1>2 DEF MigratorInv, TypeOK, LedgerTruthful, OneHistory

\* A process without a run starts one, or one without the lock ends.
LEMMA OutsideStep ==
    ASSUME MigratorInv, NEW r \in Runners, NEW run \in Run \cup {NoRun},
           run.phase \in {"none", "waiting"}, r \notin Locked,
           runs' = [runs EXCEPT ![r] = run], UNCHANGED <<ledger, ledger_exists, schema>>
    PROVE  MigratorInv'
<1>1. runs' \in [Runners -> Run \cup {NoRun}] /\ runs'[r] = run
      /\ \A q \in Runners \ {r} : runs'[q] = runs[q]
  BY DEF MigratorInv, TypeOK
<1>2. Locked' = Locked
  BY <1>1 DEF Locked
<1>3. \A q \in Locked : runs'[q] = runs[q]
  BY <1>1 DEF Locked
<1> QED
  BY <1>1, <1>2, <1>3, CopiesStay

\* A transaction that holds no change ends: nothing is written.
LEMMA EndStep ==
    ASSUME MigratorInv, NEW r \in Runners, End(r), UNCHANGED <<ledger, ledger_exists, schema>>
    PROVE  MigratorInv'
<1>1. runs' \in [Runners -> Run \cup {NoRun}] /\ runs'[r] = NoRun
      /\ \A q \in Runners \ {r} : runs'[q] = runs[q]
  BY DEF MigratorInv, TypeOK, End
<1>2. Locked' = Locked \ {r}
  BY <1>1 DEF Locked, NoRun
<1>3. \A q \in Locked \ {r} : runs'[q] = runs[q]
  BY <1>1 DEF Locked
<1> QED
  BY <1>1, <1>2, <1>3, CopiesStay

\* The holder of the lock is the only one, and goes on with a copy that is still
\* what WorksOnCopies says.
LEMMA HolderStep ==
    ASSUME MigratorInv, NEW r \in Runners, NEW run \in Run,
           Locked \subseteq {r}, Continue(r, run),
           run.phase \in {"locked", "checked"},
           run.phase = "locked" => run.applied = ledger,
           run.schema = run.applied,
           run.phase = "checked" => HistoryOf(run.build, run.applied),
           run.phase = "checked" /\ run.op = "up" =>
              HistoryOf(run.build, ledger) /\ ledger \subseteq run.applied
    PROVE  MigratorInv'
<1>1. runs' \in [Runners -> Run \cup {NoRun}] /\ runs'[r] = run
      /\ \A q \in Runners \ {r} : runs'[q] = runs[q]
  BY DEF MigratorInv, TypeOK, Continue
<1>2. Locked' = {r}
  BY <1>1 DEF Locked
<1>3. UNCHANGED <<ledger, ledger_exists, schema>>
  BY DEF Continue
<1>4. WorksOnCopies'
  BY <1>1, <1>2, <1>3 DEF WorksOnCopies, HistoryOf
<1> QED
  BY <1>1, <1>2, <1>3, <1>4 DEF MigratorInv, TypeOK, LedgerTruthful, OneHistory, LockExclusive

\* The run of the lock's holder, and that nobody else holds it.
LEMMA Holder ==
    ASSUME MigratorInv, NEW r \in Runners, runs[r].phase \in {"locked", "checked"}
    PROVE  /\ runs[r] \in Run
           /\ r \in Locked
           /\ Locked \subseteq {r}
<1> QED
  BY DEF MigratorInv, TypeOK, LockExclusive, Locked, NoRun

\* The run that gets the advisory lock reads the committed tables.
LEMMA LockStep ==
    ASSUME MigratorInv, NEW r \in Runners, Lock(r)
    PROVE  MigratorInv'
<1> DEFINE run == [runs[r] EXCEPT !.phase = "locked", !.applied = ledger, !.schema = schema]
<1>1. runs[r] \in Run /\ Locked = {}
  BY DEF MigratorInv, TypeOK, Lock, LockFree, NoRun
<1>2. /\ run \in Run
      /\ run.phase = "locked" /\ run.applied = ledger /\ run.schema = ledger
  BY <1>1 DEF Run, MigratorInv, TypeOK, LedgerTruthful
<1>3. Continue(r, run)
  BY DEF Lock
<1> HIDE DEF run
<1> QED
  BY <1>1, <1>2, <1>3, HolderStep

\* A history that is accepted is one of the run's own build.
LEMMA ValidateStep ==
    ASSUME MigratorInv, NEW r \in Runners, Validate(r)
    PROVE  MigratorInv'
<1> DEFINE run == [runs[r] EXCEPT !.phase = "checked"]
<1>1. runs[r] \in Run /\ r \in Locked /\ Locked \subseteq {r}
  BY Holder DEF Validate
<1>2. runs[r].applied = ledger /\ runs[r].schema = ledger
  BY <1>1 DEF MigratorInv, WorksOnCopies, Validate
<1>3. /\ run \in Run
      /\ run.phase = "checked" /\ run.build = runs[r].build
      /\ run.applied = ledger /\ run.schema = ledger
  BY <1>1, <1>2 DEF Run
<1>4. HistoryOf(run.build, ledger)
  BY <1>1, <1>2, <1>3, ValidHistory DEF Validate, Run
<1>5. Continue(r, run)
  BY DEF Validate
<1> HIDE DEF run
<1> QED
  BY <1>1, <1>3, <1>4, <1>5, HolderStep

\* Up's next migration extends the copy by the next of its build.
LEMMA ApplyStep ==
    ASSUME MigratorInv, NEW r \in Runners, Apply(r)
    PROVE  MigratorInv'
<1>1. runs[r] \in Run /\ r \in Locked /\ Locked \subseteq {r}
  BY Holder DEF Apply
<1>2. PICK i \in Pending(runs[r]) :
        /\ \A j \in Pending(runs[r]) : i <= j
        /\ Continue(r, [runs[r] EXCEPT !.applied = @ \cup {runs[r].build[i]},
                                       !.schema = @ \cup {runs[r].build[i]}])
  BY DEF Apply
<1> DEFINE m == runs[r].build[i]
           run == [runs[r] EXCEPT !.applied = @ \cup {m}, !.schema = @ \cup {m}]
<1>3. /\ runs[r].phase = "checked" /\ runs[r].op = "up"
      /\ runs[r].schema = runs[r].applied
      /\ HistoryOf(runs[r].build, runs[r].applied)
      /\ HistoryOf(runs[r].build, ledger) /\ ledger \subseteq runs[r].applied
  BY <1>1 DEF MigratorInv, WorksOnCopies, Apply
<1>4. runs[r].build \in Builds /\ m \in Migrations
  BY <1>1, BuildSorted DEF Run, Pending
<1>5. /\ run \in Run
      /\ run.phase = "checked" /\ run.op = "up" /\ run.build = runs[r].build
      /\ run.applied = runs[r].applied \cup {m} /\ run.schema = run.applied
  BY <1>1, <1>3, <1>4 DEF Run
<1>6. HistoryOf(run.build, run.applied)
  BY <1>2, <1>3, <1>4, <1>5, ApplyExtends
<1>7. Continue(r, run) /\ HistoryOf(run.build, ledger) /\ ledger \subseteq run.applied
  BY <1>2, <1>3, <1>5
<1> HIDE DEF run
<1> QED
  BY <1>1, <1>5, <1>6, <1>7, HolderStep

\* DownAll's next migration takes the last one off the copy.
LEMMA RevertStep ==
    ASSUME MigratorInv, NEW r \in Runners, Revert(r)
    PROVE  MigratorInv'
<1>1. runs[r] \in Run /\ r \in Locked /\ Locked \subseteq {r}
  BY Holder DEF Revert
<1>2. PICK i \in Present(runs[r]) :
        /\ \A j \in Present(runs[r]) : j <= i
        /\ Continue(r, [runs[r] EXCEPT
               !.applied = {m \in @ : m.version # runs[r].build[i].version},
               !.schema = @ \ {runs[r].build[i]}])
  BY DEF Revert
<1> DEFINE k == runs[r].build[i]
           run == [runs[r] EXCEPT !.applied = {m \in @ : m.version # k.version},
                                  !.schema = @ \ {k}]
<1>3. /\ runs[r].phase = "checked" /\ runs[r].op = "down"
      /\ runs[r].schema = runs[r].applied
      /\ HistoryOf(runs[r].build, runs[r].applied)
  BY <1>1 DEF MigratorInv, WorksOnCopies, Revert
<1>4. runs[r].build \in Builds
  BY <1>1 DEF Run
<1>5. /\ {m \in runs[r].applied : m.version # k.version} = runs[r].applied \ {k}
      /\ HistoryOf(runs[r].build, runs[r].applied \ {k})
  BY <1>2, <1>3, <1>4, RevertShortens
<1>6. /\ run \in Run
      /\ run.phase = "checked" /\ run.op = "down" /\ run.build = runs[r].build
      /\ run.applied = runs[r].applied \ {k} /\ run.schema = run.applied
  BY <1>1, <1>3, <1>5 DEF Run
<1>7. Continue(r, run)
  BY <1>2
<1> HIDE DEF run
<1> QED
  BY <1>1, <1>5, <1>6, <1>7, HolderStep

\* What a finished run commits: an Up a longer history of its build, a DownAll
\* an empty schema.
LEMMA Committed ==
    ASSUME MigratorInv, NEW r \in Runners, Finished(runs[r])
    PROVE  /\ runs[r] \in Run /\ r \in Locked /\ Locked \subseteq {r}
           /\ runs[r].schema = runs[r].applied
           /\ HistoryOf(runs[r].build, runs[r].applied)
           /\ runs[r].op = "up" =>
                 HistoryOf(runs[r].build, ledger) /\ ledger \subseteq runs[r].applied
           /\ runs[r].op # "up" => runs[r].applied = {}
<1>1. runs[r] \in Run /\ r \in Locked /\ Locked \subseteq {r}
  BY Holder DEF Finished
<1>2. /\ runs[r].schema = runs[r].applied
      /\ HistoryOf(runs[r].build, runs[r].applied)
      /\ runs[r].op = "up" => HistoryOf(runs[r].build, ledger) /\ ledger \subseteq runs[r].applied
  BY <1>1 DEF MigratorInv, WorksOnCopies, Finished
<1>3. ASSUME runs[r].op # "up", NEW m \in runs[r].applied PROVE FALSE
  <2>1. PICK n \in 0..Len(runs[r].build) : runs[r].applied = {runs[r].build[i] : i \in 1..n}
    BY <1>2 DEF HistoryOf
  <2>2. Len(runs[r].build) \in Nat
    BY <1>1, BuildSorted DEF Run
  <2>3. PICK i \in 1..n : m = runs[r].build[i]
    BY <1>3, <2>1
  <2>4. i \in Present(runs[r])
    BY <1>3, <2>2, <2>3 DEF Present
  <2> QED
    BY <1>3, <2>4 DEF Finished
<1> QED
  BY <1>1, <1>2, <1>3

\* What is committed is the history of the build that ran.
LEMMA CommitStep ==
    ASSUME MigratorInv, NEW r \in Runners, Commit(r)
    PROVE  MigratorInv'
<1>1. /\ runs[r] \in Run /\ r \in Locked /\ Locked \subseteq {r}
      /\ runs[r].schema = runs[r].applied
      /\ HistoryOf(runs[r].build, runs[r].applied)
      /\ runs[r].op # "up" => runs[r].applied = {}
  BY Committed DEF Commit
<1>2. /\ runs' \in [Runners -> Run \cup {NoRun}] /\ runs'[r] = NoRun
      /\ \A q \in Runners \ {r} : runs'[q] = runs[q]
  BY DEF MigratorInv, TypeOK, Commit, End
<1>3. Locked' = {}
  BY <1>1, <1>2 DEF Locked, NoRun
<1>4. ledger' = runs[r].applied /\ schema' = ledger' /\ ledger_exists' \in BOOLEAN
  BY <1>1 DEF Commit, CommitChanges
<1>5. OneHistory'
  BY <1>1, <1>4 DEF OneHistory, HistoryOf, Run
<1>6. TypeOK'
  BY <1>1, <1>2, <1>4 DEF TypeOK, Run
<1> QED
  BY <1>3, <1>4, <1>5, <1>6 DEF MigratorInv, LedgerTruthful, LockExclusive, WorksOnCopies

\* An empty database has the empty history of some build.
LEMMA InitInv == Init => MigratorInv
<1> SUFFICES ASSUME Init PROVE MigratorInv
  OBVIOUS
<1>1. OneHistory
  <2>1. PICK d \in Directories : LoadAccepts(d)
    BY BuildAssumption
  <2>2. LoadMigrations(d) \in Builds
    BY <2>1 DEF Builds
  <2>3. 0 \in 0..Len(LoadMigrations(d)) /\ {LoadMigrations(d)[i] : i \in 1..0} = {}
    BY <2>2, BuildSorted
  <2> QED
    BY <2>2, <2>3 DEF OneHistory, Init
<1>2. Locked = {}
  BY DEF Init, Locked, NoRun
<1>3. TypeOK
  BY DEF Init, TypeOK
<1> QED
  BY <1>1, <1>2, <1>3 DEF Init, MigratorInv, LedgerTruthful, LockExclusive, WorksOnCopies

\* Every step of every process keeps the invariant.
LEMMA NextInv == MigratorInv /\ [Next]_vars => MigratorInv'
<1> SUFFICES ASSUME MigratorInv, [Next]_vars PROVE MigratorInv'
  OBVIOUS
<1>1. ASSUME NEW r \in Runners, NEW op \in {"up", "down"}, NEW b \in Builds, Begin(r, op, b)
      PROVE  MigratorInv'
  <2> DEFINE run == [op |-> op, build |-> b, phase |-> "waiting", applied |-> {}, schema |-> {}]
  <2>1. run \in Run /\ run.phase = "waiting"
    BY DEF Run
  <2>2. r \notin Locked
    BY <1>1 DEF Begin, Locked, NoRun
  <2>3. runs' = [runs EXCEPT ![r] = run] /\ UNCHANGED <<ledger, ledger_exists, schema>>
    BY <1>1 DEF Begin, Continue
  <2> HIDE DEF run
  <2> QED
    BY <2>1, <2>2, <2>3, OutsideStep
<1>2. ASSUME NEW r \in Runners, Fail(r) PROVE MigratorInv'
  BY <1>2, EndStep DEF Fail
<1>3. CASE UNCHANGED vars
  <2>1. runs' = runs /\ UNCHANGED <<ledger, ledger_exists, schema>>
    BY <1>3 DEF vars
  <2>2. Locked' = Locked /\ runs' \in [Runners -> Run \cup {NoRun}]
    BY <2>1 DEF Locked, MigratorInv, TypeOK
  <2> QED
    BY <2>1, <2>2, CopiesStay
<1> QED
  BY <1>1, <1>2, <1>3, LockStep, ValidateStep, ApplyStep, RevertStep, CommitStep DEF Next

\* Every variable of the migrator keeps its type, the lock has one holder, and
\* what the holder works on is true.
THEOREM MigratorInvAlways == Spec => []MigratorInv
BY InitInv, NextInv, PTL DEF Spec

\* A migration is recorded in schema_migration exactly if its changes are in the
\* schema, whichever processes fail or die while they migrate.
THEOREM LedgerTruthfulAlways == Spec => []LedgerTruthful
<1>1. MigratorInv => LedgerTruthful
  BY DEF MigratorInv
<1> QED
  BY <1>1, MigratorInvAlways, PTL

\* The ledger always holds the first migrations of one build, in whatever order
\* builds that diverge run against the database.
THEOREM OneHistoryAlways == Spec => []OneHistory
<1>1. MigratorInv => OneHistory
  BY DEF MigratorInv
<1> QED
  BY <1>1, MigratorInvAlways, PTL

\* As long as the ledger is there, Up only adds migrations of later versions.
THEOREM HistoryAppendsAlways == Spec => HistoryAppends
<1> DEFINE Appends == ledger_exists' =>
                         /\ ledger \subseteq ledger'
                         /\ \A m \in ledger' \ ledger, k \in ledger : k.version < m.version
<1>1. ASSUME MigratorInv, Next PROVE Appends
  <2>1. ASSUME NEW r \in Runners, Commit(r) PROVE Appends
    <3>1. CASE runs[r].op = "up"
      <4>1. ledger' = runs[r].applied /\ runs[r].build \in Builds
        BY <1>1, <2>1, <3>1, Committed DEF Commit, CommitChanges, Run
      <4> QED
        BY <1>1, <2>1, <3>1, <4>1, Committed, HistoriesExtend DEF Commit
    <3>2. CASE runs[r].op # "up"
      BY <2>1, <3>2 DEF Commit, CommitChanges
    <3> QED
      BY <3>1, <3>2
  <2>2. ASSUME ledger' = ledger PROVE Appends
    BY <2>2
  <2> QED
    BY <1>1, <2>1, <2>2 DEF Next, Begin, Lock, Validate, Apply, Revert, Fail, Continue
<1>2. MigratorInv /\ [Next]_vars => [Appends]_vars
  BY <1>1
<1> QED
  BY <1>2, MigratorInvAlways, PTL DEF Spec, HistoryAppends
=============================================================================
