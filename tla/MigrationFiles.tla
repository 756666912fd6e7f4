---------------------------- MODULE MigrationFiles ----------------------------
(***************************************************************************)
(* How a build's directory of SQL files becomes its ordered migrations     *)
(* (LoadMigrations and splitMigration of internal/database/migrate.go).    *)
(*                                                                         *)
(* A directory is a set of entries.  The text of a file is the sequence of *)
(* its migration markers and of the pieces of SQL between them; pieces     *)
(* stand for text that is not blank.                                       *)
(***************************************************************************)
EXTENDS Integers, Sequences, FiniteSets, SequencesExt

\* "other" entries are subdirectories and files that are not SQL; misnamed ones
\* are SQL files without a version of fourteen digits and a name.
EntryKinds == {"migration", "misnamed", "other"}

Positions(text, token) == {i \in 1..Len(text) : text[i] = token}

Between(text, first, last) == {i \in first..last : text[i] \notin {"up", "down"}}

\* splitMigration: one up marker, then SQL, then one down marker, then SQL.
Splits(text) ==
    \E up, down \in 1..Len(text) :
        /\ Positions(text, "up") = {up}
        /\ Positions(text, "down") = {down}
        /\ up < down
        /\ Between(text, up, down) # {}
        /\ Between(text, down, Len(text)) # {}

SqlFiles(directory) == {e \in directory : e.kind # "other"}

\* One bad file, a version used twice, or no file at all, and the program does
\* not start.
LoadAccepts(directory) ==
    /\ SqlFiles(directory) # {}
    /\ \A e \in SqlFiles(directory) : e.kind = "migration" /\ Splits(e.text)
    /\ \A e, f \in SqlFiles(directory) : e.version = f.version => e = f

\* Name, both directions and checksum: what makes two migrations the same.
MigrationOf(e) == [version |-> e.version, content |-> <<e.name, e.text>>]

\* In order of version.
LoadMigrations(directory) ==
    CHOOSE s \in SetToSeqs({MigrationOf(e) : e \in SqlFiles(directory)}) :
        \A i, j \in 1..Len(s) : i < j => s[i].version < s[j].version
============================================================================
