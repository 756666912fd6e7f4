----------------------------- MODULE JobStatus -----------------------------
(***************************************************************************)
(* The durable lifecycle states of a PDF job and the edges between them    *)
(* (internal/job/status.go).  Pure definitions: no state, no constants.    *)
(***************************************************************************)

ActiveStatus == {"analyzing", "optimizing", "validating"}

\* Status.Terminal: processing has stopped.
TerminalStatus == {"completed", "failed", "cancelled", "expired"}

\* Status.Valid: the keys of the transitions table.
Status == {"queued"} \cup ActiveStatus \cup TerminalStatus

\* The transitions table.
Transitions ==
    [s \in Status |->
        CASE s = "queued"     -> {"analyzing", "failed", "cancelled"}
          [] s = "analyzing"  -> {"queued", "optimizing", "completed", "failed", "cancelled"}
          [] s = "optimizing" -> {"queued", "validating", "failed", "cancelled"}
          [] s = "validating" -> {"queued", "optimizing", "completed", "failed", "cancelled"}
          [] s = "expired"    -> {}
          [] OTHER            -> {"expired"}]

CanTransitionTo(s, next) == next \in Transitions[s]

\* ValidateTransition: both states known, and next a direct successor.
ValidateTransition(s, next) ==
    /\ s \in Status
    /\ next \in Status
    /\ CanTransitionTo(s, next)
============================================================================
