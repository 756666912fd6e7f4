----------------------------- MODULE MCMigrator -----------------------------
(***************************************************************************)
(* Instances of Migrator for TLC.                                          *)
(***************************************************************************)
EXTENDS Migrator, TLC

MCFile(version, name, text) ==
    [kind |-> "migration", version |-> version, name |-> name, text |-> text]

MCText == <<"up", "create", "down", "drop">>

MCFirst    == MCFile(1, "a", MCText)
MCSecond   == MCFile(3, "b", MCText)
MCThird    == MCFile(4, "c", MCText)
MCChanged  == MCFile(3, "b", <<"note", "up", "alter", "create", "down", "drop">>)
MCInserted == MCFile(2, "e", MCText)

\* A release, its successor, and builds of two diverged branches: one has
\* changed a migration, one has inserted a migration before a released one.
MCReleases ==
    {{MCFirst, MCSecond, [kind |-> "other"]}, {MCFirst, MCSecond, MCThird},
     {MCFirst, MCChanged}, {MCFirst, MCInserted, MCSecond}}

\* Builds that must not start: files missing, misnamed, of one version, or
\* without exactly one section for each direction.
MCBroken ==
    {{}, {[kind |-> "other"]}, {MCFirst, [kind |-> "misnamed"]}, {MCSecond, MCChanged}}
    \cup {{MCFirst, MCFile(3, "b", text)} :
            text \in {<<>>, <<"up", "create">>, <<"create", "down", "drop">>,
                      <<"down", "drop", "up", "create">>, <<"up", "down", "drop">>,
                      <<"up", "create", "down">>,
                      <<"up", "create", "up", "create", "down", "drop">>,
                      <<"up", "create", "down", "drop", "down", "drop">>}}

MCDirectories == MCReleases \cup MCBroken

RunnerSymmetry == Permutations(Runners)
============================================================================
