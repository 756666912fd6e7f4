---------------------------- MODULE JobLifecycle ----------------------------
(***************************************************************************)
(* What the job subsystem promises about each job, without rows, clocks,   *)
(* leases, workers or calls: a status that moves along the transitions     *)
(* table of internal/job/status.go, a bounded number of tries, and a       *)
(* request to stop that no later decision can override.  JobQueue          *)
(* implements this specification.                                          *)
(*                                                                         *)
(* One statement may move several jobs (a recovery batch does), so a step  *)
(* lets every job make at most one move.                                   *)
(***************************************************************************)
EXTENDS Naturals, JobStatus

CONSTANTS
    Jobs,       \* job identities
    MaxTries    \* how often a job may be handed to a worker

VARIABLES
    status,     \* the lifecycle state of each job, or "absent"
    stopping,   \* the owner asked for the job to stop before it ended
    tries       \* how often the job was handed to a worker

vars == <<status, stopping, tries>>

Init ==
    /\ status = [j \in Jobs |-> "absent"]
    /\ stopping = [j \in Jobs |-> FALSE]
    /\ tries = [j \in Jobs |-> 0]

Moves(j, s) == status[j] # s /\ status'[j] = s

Keeps(j, f) == f'[j] = f[j]

\* The job becomes durable, with a full budget.
Submit(j) ==
    /\ status[j] = "absent"
    /\ Moves(j, "queued")
    /\ Keeps(j, stopping)
    /\ Keeps(j, tries)

\* A worker is given the job: it costs a try, and nobody asked to stop.
Start(j) ==
    /\ status[j] = "queued"
    /\ ~stopping[j]
    /\ tries[j] < MaxTries
    /\ Moves(j, "analyzing")
    /\ tries'[j] = tries[j] + 1
    /\ Keeps(j, stopping)

\* Work advances or ends along the table, as long as nobody asked to stop.
Progress(j) ==
    /\ status[j] \in ActiveStatus
    /\ ~stopping[j]
    /\ \E s \in (ActiveStatus \cup {"completed", "failed"}) \cap Transitions[status[j]] :
          Moves(j, s)
    /\ Keeps(j, stopping)
    /\ Keeps(j, tries)

\* Interrupted work goes back to the queue while tries remain.
Retry(j) ==
    /\ status[j] \in ActiveStatus
    /\ ~stopping[j]
    /\ tries[j] < MaxTries
    /\ Moves(j, "queued")
    /\ Keeps(j, stopping)
    /\ Keeps(j, tries)

\* The owner's request: running work keeps running, queued work ends at once.
AskToStop(j) ==
    /\ status[j] \in ActiveStatus \cup {"queued"}
    /\ ~stopping[j]
    /\ stopping'[j] = TRUE
    /\ \/ status[j] \in ActiveStatus /\ Keeps(j, status)
       \/ status[j] = "queued" /\ Moves(j, "cancelled")
    /\ Keeps(j, tries)

\* The only way on for a job that was asked to stop.
Stop(j) ==
    /\ status[j] \in ActiveStatus
    /\ stopping[j]
    /\ Moves(j, "cancelled")
    /\ Keeps(j, stopping)
    /\ Keeps(j, tries)

Stays(j) == Keeps(j, status) /\ Keeps(j, stopping) /\ Keeps(j, tries)

JobStep(j) ==
    \/ Submit(j) \/ Start(j) \/ Progress(j) \/ Retry(j)
    \/ AskToStop(j) \/ Stop(j) \/ Stays(j)

Next ==
    /\ status' \in [Jobs -> Status \cup {"absent"}]
    /\ stopping' \in [Jobs -> BOOLEAN]
    /\ tries' \in [Jobs -> Nat]
    /\ \A j \in Jobs : JobStep(j)

Spec == Init /\ [][Next]_vars
============================================================================
