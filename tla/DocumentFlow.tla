---------------------------- MODULE DocumentFlow ----------------------------
(***************************************************************************)
(* What uploads and job creation together promise about a document: it is  *)
(* received, then either committed, with one digest for good, or closed;   *)
(* a committed document becomes the input of at most one job, ever, of the *)
(* same owner; and a job that was deleted is neither revived nor replaced. *)
(* Without clocks, parts, transactions and calls.  JobIntake implements    *)
(* this specification.                                                     *)
(***************************************************************************)
EXTENDS Naturals

CONSTANTS
    Documents,
    People,         \* who owns documents and jobs
    Contents,       \* digests of documents
    Sizes,          \* sizes of documents
    Identities      \* what distinguishes jobs

VARIABLES
    document,   \* the stage of each document, its owner, size and digest
    job         \* the job of each document

vars == <<document, job>>

Nothing == [stage |-> "none"]

Init ==
    /\ document = [d \in Documents |-> Nothing]
    /\ job = [d \in Documents |-> Nothing]

Open(d, person, bytes) ==
    /\ document[d] = Nothing
    /\ document' = [document EXCEPT ![d] =
          [stage |-> "open", owner |-> person, bytes |-> bytes]]
    /\ UNCHANGED job

Commit(d, content) ==
    /\ document[d].stage = "open"
    /\ document' = [document EXCEPT ![d] =
          [stage |-> "committed", owner |-> @.owner, bytes |-> @.bytes, digest |-> content]]
    /\ UNCHANGED job

Close(d) ==
    /\ document[d].stage = "open"
    /\ document' = [document EXCEPT ![d].stage = "closed"]
    /\ UNCHANGED job

Submit(d, id) ==
    /\ document[d].stage = "committed"
    /\ job[d] = Nothing
    /\ \A e \in Documents : job[e] # Nothing => job[e].id # id
    /\ job' = [job EXCEPT ![d] =
          [stage |-> "live", id |-> id, owner |-> document[d].owner,
           bytes |-> document[d].bytes, digest |-> document[d].digest]]
    /\ UNCHANGED document

Delete(d) ==
    /\ job[d].stage = "live"
    /\ job' = [job EXCEPT ![d].stage = "deleted"]
    /\ UNCHANGED document

Next ==
    \E d \in Documents :
        \/ \E person \in People, bytes \in Sizes : Open(d, person, bytes)
        \/ \E content \in Contents : Commit(d, content)
        \/ Close(d)
        \/ \E id \in Identities : Submit(d, id)
        \/ Delete(d)

Spec == Init /\ [][Next]_vars
============================================================================
