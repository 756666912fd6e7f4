--------------------------- MODULE JobQueueProofs ---------------------------
(***************************************************************************)
(* Invariants and action properties of JobQueue, and its refinement of     *)
(* JobLifecycle, for every set of jobs, workers and owners and every       *)
(* policy NewManager and NewQueue accept.                                  *)
(***************************************************************************)
EXTENDS JobStoreProofs

----------------------------------------------------------------------------
(* Statements and attempts                                                  *)

\* The fields of a statement, by its operation.
LEMMA CallFields ==
    ASSUME NEW c \in Call
    PROVE  /\ c.now \in Nat
           /\ c.op \in {"create", "cancel", "delete"} => c.job \in Jobs /\ c.owner \in Owners
           /\ c.op = "claim" => c.worker \in Workers
           /\ c.op \in {"heartbeat", "transition"} =>
                 c.worker \in Workers /\ c.job \in Jobs /\ c.attempt \in Nat
           /\ c.op = "transition" =>
                 /\ c.expected \in ActiveStatus /\ c.next \in Status /\ c.progress \in 0..100
                 /\ WorkerMayRequest(c.expected, c.next, c.progress)
  BY DEF Call, OwnerCall, ClaimCall, LeaseCall, HeartbeatCall, TransitionCall, RecoverCall

\* Sending a statement that carries the clock keeps the types.
LEMMA SendType ==
    ASSUME TypeOK, NEW c \in Call, c.now = clock, Send(c)
    PROVE  TypeOK'
  BY DEF TypeOK, Send

\* What a worker is told about a row it holds active is an attempt.
LEMMA RefreshedType ==
    ASSUME TypeOK, NEW c \in Call, c.op \in {"heartbeat", "transition"}, NEW r \in Row,
           IsActive(r) => r.lease_expires_at \in Nat
    PROVE  Refreshed(c, r) \subseteq Attempt
  <1>1. \A g \in held : IsActive(r) => Snapshot(g.worker, g.job, g.attempt, r) \in Attempt
    BY DEF TypeOK, Attempt, Snapshot, IsActive
  <1> QED BY <1>1 DEF Refreshed, TypeOK

----------------------------------------------------------------------------
(* The table: what a step does to every row                                 *)

\* Statements under a lease, and the instants of those that name job j.
LeaseCalls == {c \in calls : c.op \in {"heartbeat", "transition"}}

Instants(j) == {c.now : c \in {d \in LeaseCalls : d.job = j}}

\* Workers whose claim is in flight.
Claimants == {c.worker : c \in {d \in calls : d.op = "claim"}}

\* What a step does to the table, given the types.
TableStep ==
    /\ pdf_job' \in [Jobs -> Row \cup {NoRow}]
    /\ \A j \in Jobs : RowStep(pdf_job[j], pdf_job'[j], Instants(j), Claimants)

\* A statement that rewrites one row is a table step.
LEMMA OneRowStep ==
    ASSUME TypeOK, NEW j \in Jobs, NEW s, RowStep(pdf_job[j], s, Instants(j), Claimants),
           pdf_job' = [pdf_job EXCEPT ![j] = s]
    PROVE  TableStep
  <1>1. pdf_job[j] \in Row \cup {NoRow} /\ pdf_job \in [Jobs -> Row \cup {NoRow}]
    BY DEF TypeOK
  <1>2. s \in Row \cup {NoRow}
    BY <1>1, RowStepType
  <1>3. \A k \in Jobs : RowStep(pdf_job[k], pdf_job'[k], Instants(k), Claimants)
    BY <1>1 DEF RowStep
  <1> QED BY <1>1, <1>2, <1>3 DEF TableStep

\* A step that leaves the table alone is a table step.
LEMMA NoRowStep ==
    ASSUME TypeOK, pdf_job' = pdf_job
    PROVE  TableStep
  BY DEF TypeOK, TableStep, RowStep

\* Every step is a table step.
LEMMA StepTable ==
    ASSUME TypeOK, [Next]_vars
    PROVE  TableStep
  <1>0. /\ \A c \in calls : c \in Call
        /\ \A j \in Jobs : pdf_job[j] \in Row \cup {NoRow}
    BY DEF TypeOK
  <1>1. CASE \/ Tick \/ CallRecover
             \/ \E op \in {"create", "cancel", "delete"}, j \in Jobs, o \in Owners :
                   CallOwner(op, j, o)
             \/ \E w \in Workers : CallClaim(w)
             \/ \E g \in held : CallHeartbeat(g) \/ Abandon(g)
             \/ \E g \in held, next \in Status, progress \in ProgressValues :
                   CallTransition(g, next, progress)
             \/ \E c \in calls : Lose(c) \/ LeaseLost(c)
             \/ UNCHANGED vars
    <2>1. pdf_job' = pdf_job
      BY <1>1 DEF Tick, CallRecover, CallOwner, CallClaim, CallHeartbeat, Abandon, CallTransition,
                  Lose, LeaseLost, Send, vars
    <2> QED BY <2>1, NoRowStep
  <1>2. ASSUME NEW c \in calls, Create(c) PROVE TableStep
    <2>1. CASE pdf_job' = pdf_job
      BY <2>1, NoRowStep
    <2>2. CASE pdf_job' # pdf_job
      <3>1. c.job \in Jobs /\ c.now \in Nat
        BY <1>0, <1>2, CallFields DEF Create
      <3>2. /\ pdf_job[c.job] = NoRow
            /\ pdf_job' = [pdf_job EXCEPT ![c.job] = SeedRow(c.now, Retention, MaxAttempts)]
        BY <1>2, <2>2 DEF Create
      <3>3. RowStep(pdf_job[c.job], SeedRow(c.now, Retention, MaxAttempts),
                    Instants(c.job), Claimants)
        BY <3>1, <3>2 DEF RowStep
      <3> QED BY <3>1, <3>2, <3>3, OneRowStep
    <2> QED BY <2>1, <2>2
  <1>3. ASSUME NEW c \in calls, Cancel(c) PROVE TableStep
    <2>1. CASE pdf_job' = pdf_job
      BY <2>1, NoRowStep
    <2>2. CASE pdf_job' # pdf_job
      <3>1. c.job \in Jobs /\ c.now \in Nat
        BY <1>0, <1>3, CallFields DEF Cancel
      <3>2. /\ CancelMatches(pdf_job[c.job])
            /\ pdf_job' = [pdf_job EXCEPT ![c.job] = CancelRow(pdf_job[c.job], c.now)]
        BY <1>3, <2>2 DEF Cancel
      <3>3. pdf_job[c.job] \in Row
        BY <1>0, <3>1, <3>2, RowPresent DEF CancelMatches
      <3>4. RowStep(pdf_job[c.job], CancelRow(pdf_job[c.job], c.now), Instants(c.job), Claimants)
        BY <3>1, <3>3 DEF RowStep
      <3> QED BY <3>1, <3>2, <3>4, OneRowStep
    <2> QED BY <2>1, <2>2
  <1>4. ASSUME NEW c \in calls, Delete(c) PROVE TableStep
    <2>1. CASE pdf_job' = pdf_job
      BY <2>1, NoRowStep
    <2>2. CASE pdf_job' # pdf_job
      <3>1. c.job \in Jobs /\ c.now \in Nat
        BY <1>0, <1>4, CallFields DEF Delete
      <3>2. /\ DeleteMatches(pdf_job[c.job])
            /\ pdf_job' = [pdf_job EXCEPT ![c.job] = DeleteRow(pdf_job[c.job], c.now)]
        BY <1>4, <2>2 DEF Delete
      <3>3. pdf_job[c.job] \in Row
        BY <1>0, <3>1, <3>2, RowPresent DEF DeleteMatches
      <3>4. RowStep(pdf_job[c.job], DeleteRow(pdf_job[c.job], c.now), Instants(c.job), Claimants)
        BY <3>1, <3>3 DEF RowStep
      <3> QED BY <3>1, <3>2, <3>4, OneRowStep
    <2> QED BY <2>1, <2>2
  <1>5. ASSUME NEW c \in calls, Claim(c) PROVE TableStep
    <2>1. CASE pdf_job' = pdf_job
      BY <2>1, NoRowStep
    <2>2. CASE pdf_job' # pdf_job
      <3>1. c.worker \in Workers /\ c.now \in Nat
        BY <1>0, <1>5, CallFields DEF Claim
      <3>2. PICK j \in Jobs :
               /\ Claimable(pdf_job[j], c.now)
               /\ pdf_job' = [pdf_job EXCEPT
                     ![j] = ClaimRow(pdf_job[j], c.worker, c.now, c.now + LeaseDuration)]
        BY <1>5, <2>2 DEF Claim
      <3>3. pdf_job[j] \in Row
        BY <1>0, <3>2, RowPresent DEF Claimable
      <3>4. c.worker \in Claimants
        BY <1>5 DEF Claim, Claimants
      <3>5. RowStep(pdf_job[j], ClaimRow(pdf_job[j], c.worker, c.now, c.now + LeaseDuration),
                    Instants(j), Claimants)
        BY <3>1, <3>2, <3>3, <3>4 DEF RowStep
      <3> QED BY <3>2, <3>5, OneRowStep
    <2> QED BY <2>1, <2>2
  <1>6. ASSUME NEW c \in calls, Heartbeat(c) PROVE TableStep
    <2>1. c.worker \in Workers /\ c.job \in Jobs /\ c.now \in Nat
      BY <1>0, <1>6, CallFields DEF Heartbeat
    <2>2. pdf_job[c.job] \in Row
      BY <1>0, <1>6, <2>1, RowPresent DEF Heartbeat, LeaseValid, IsActive, ActiveStatus
    <2>3. RowStep(pdf_job[c.job], HeartbeatRow(pdf_job[c.job], c.now, c.now + LeaseDuration),
                  Instants(c.job), Claimants)
      BY <1>6, <2>1, <2>2 DEF RowStep, Heartbeat, Instants, LeaseCalls
    <2> QED BY <1>6, <2>1, <2>3, OneRowStep DEF Heartbeat
  <1>7. ASSUME NEW c \in calls, Transition(c) PROVE TableStep
    <2>1. /\ c.worker \in Workers /\ c.job \in Jobs /\ c.now \in Nat
          /\ c.expected \in ActiveStatus /\ c.next \in Status /\ c.progress \in 0..100
          /\ WorkerMayRequest(c.expected, c.next, c.progress)
      BY <1>0, <1>7, CallFields DEF Transition
    <2>2. pdf_job[c.job] \in Row
      BY <1>0, <1>7, <2>1, RowPresent
         DEF Transition, TransitionMatches, LeaseValid, IsActive, ActiveStatus
    <2>3. RowStep(pdf_job[c.job],
                  TransitionRow(pdf_job[c.job], c.next, c.progress, c.now, c.now + LeaseDuration),
                  Instants(c.job), Claimants)
      BY <1>7, <2>1, <2>2 DEF RowStep, Transition, Instants, LeaseCalls
    <2> QED BY <1>7, <2>1, <2>3, OneRowStep DEF Transition
  <1>8. ASSUME NEW c \in calls, RecoverExpired(c) PROVE TableStep
    <2>1. c.now \in Nat
      BY <1>0, CallFields
    <2>2. PICK batch \in SUBSET Jobs :
             /\ \A j \in batch : LeaseExpired(pdf_job[j], c.now)
             /\ pdf_job' = [j \in Jobs |->
                   IF j \in batch THEN RecoverRow(pdf_job[j], c.now, c.now + RetryDelay)
                   ELSE pdf_job[j]]
      BY <1>8 DEF RecoverExpired
    <2>3. ASSUME NEW j \in Jobs
          PROVE  RowStep(pdf_job[j], pdf_job'[j], Instants(j), Claimants)
      <3>1. CASE j \in batch
        <4>1. pdf_job[j] \in Row
          BY <1>0, <2>2, <3>1, RowPresent DEF LeaseExpired, IsActive, ActiveStatus
        <4> QED BY <2>1, <2>2, <3>1, <4>1 DEF RowStep
      <3>2. CASE j \notin batch
        BY <2>2, <3>2 DEF RowStep
      <3> QED BY <3>1, <3>2
    <2>4. \A j \in Jobs : pdf_job'[j] \in Row \cup {NoRow}
      BY <1>0, <2>3, RowStepType
    <2> QED BY <2>2, <2>3, <2>4 DEF TableStep
  <1> QED BY <1>1, <1>2, <1>3, <1>4, <1>5, <1>6, <1>7, <1>8 DEF Next

----------------------------------------------------------------------------
(* Type correctness                                                         *)

\* Applying a statement keeps the types of everything but `held'.
LEMMA DoneType ==
    ASSUME TypeOK, TableStep, NEW c \in calls, Done(c), held' \subseteq Attempt
    PROVE  TypeOK'
  BY DEF TypeOK, TableStep, Done

\* Every step keeps the types.
LEMMA TypeStep == TypeOK /\ [Next]_vars => TypeOK'
  <1> SUFFICES ASSUME TypeOK, [Next]_vars PROVE TypeOK'
    OBVIOUS
  <1>0. /\ \A c \in calls : c \in Call
        /\ \A g \in held : g \in Attempt
        /\ \A j \in Jobs : pdf_job[j] \in Row \cup {NoRow}
        /\ clock \in Nat
        /\ held \subseteq Attempt
        /\ TableStep
    BY StepTable DEF TypeOK
  <1>1. CASE Tick
    <2>1. \A c \in calls : c.now \in Nat
      BY <1>0, CallFields
    <2> QED BY <1>1, <1>0, <2>1 DEF TypeOK, Tick
  <1>2. ASSUME NEW op \in {"create", "cancel", "delete"}, NEW j \in Jobs, NEW o \in Owners,
               CallOwner(op, j, o)
        PROVE  TypeOK'
    <2>1. [op |-> op, job |-> j, owner |-> o, now |-> clock] \in Call
      BY <1>0 DEF Call, OwnerCall
    <2> QED BY <1>2, <2>1, SendType DEF CallOwner
  <1>3. ASSUME NEW w \in Workers, CallClaim(w) PROVE TypeOK'
    <2>1. [op |-> "claim", worker |-> w, now |-> clock] \in Call
      BY <1>0 DEF Call, ClaimCall
    <2> QED BY <1>3, <2>1, SendType DEF CallClaim
  <1>4. ASSUME NEW g \in held, CallHeartbeat(g) PROVE TypeOK'
    <2>1. [op |-> "heartbeat", worker |-> g.worker, job |-> g.job,
           attempt |-> g.attempt, now |-> clock] \in Call
      BY <1>0 DEF Call, LeaseCall, HeartbeatCall, Attempt
    <2> QED BY <1>4, <2>1, SendType DEF CallHeartbeat
  <1>5. ASSUME NEW g \in held, NEW next \in Status, NEW progress \in ProgressValues,
               CallTransition(g, next, progress)
        PROVE  TypeOK'
    <2>1. [op |-> "transition", worker |-> g.worker, job |-> g.job,
           attempt |-> g.attempt, expected |-> g.status, next |-> next,
           progress |-> progress, now |-> clock] \in TransitionCall
      BY <1>0, <1>5, ActorAssumption DEF TransitionCall, Attempt, CallTransition
    <2> QED BY <1>5, <2>1, SendType DEF CallTransition, Call, LeaseCall
  <1>6. ASSUME NEW g \in held, Abandon(g) PROVE TypeOK'
    BY <1>6 DEF TypeOK, Abandon
  <1>7. CASE CallRecover
    <2>1. [op |-> "recover", now |-> clock] \in Call
      BY <1>0 DEF Call, RecoverCall
    <2> QED BY <1>7, <2>1, SendType DEF CallRecover
  <1>8. ASSUME NEW c \in calls, Lose(c) PROVE TypeOK'
    BY <1>8 DEF TypeOK, Lose
  <1>9. ASSUME NEW c \in calls,
               Create(c) \/ Cancel(c) \/ Delete(c) \/ LeaseLost(c) \/ RecoverExpired(c)
        PROVE  TypeOK'
    <2>1. Done(c) /\ held' = held
      BY <1>9 DEF Create, Cancel, Delete, LeaseLost, RecoverExpired
    <2> QED BY <1>0, <2>1, DoneType
  <1>10. ASSUME NEW c \in calls, Claim(c) PROVE TypeOK'
    <2>1. Done(c)
      BY <1>10 DEF Claim
    <2>2. CASE held' = held
      BY <1>0, <2>1, <2>2, DoneType
    <2>3. CASE held' # held
      <3>1. c.worker \in Workers /\ c.now \in Nat /\ c.now + LeaseDuration \in Nat
        BY <1>0, <1>10, CallFields, PolicyAssumption DEF Claim
      <3>2. PICK j \in Jobs :
               /\ Claimable(pdf_job[j], c.now)
               /\ pdf_job' = [pdf_job EXCEPT
                     ![j] = ClaimRow(pdf_job[j], c.worker, c.now, c.now + LeaseDuration)]
               /\ held' = held \cup
                     {Snapshot(c.worker, j, pdf_job'[j].attempt_count, pdf_job'[j])}
        BY <1>10, <2>3 DEF Claim
      <3>3. pdf_job[j] \in Row
        BY <1>0, <3>2, RowPresent DEF Claimable
      <3>4. PICK s \in Row : s = ClaimRow(pdf_job[j], c.worker, c.now, c.now + LeaseDuration)
        BY <3>1, <3>3, ClaimRowType
      <3>5. /\ s.status = "analyzing" /\ s.lease_expires_at = c.now + LeaseDuration
            /\ s.attempt_count \in Nat
        BY <3>3, <3>4 DEF ClaimRow, Row
      <3>6. pdf_job'[j] = s
        BY <3>2, <3>4 DEF TypeOK
      <3>7. Snapshot(c.worker, j, s.attempt_count, s) \in Attempt
        BY <3>1, <3>5 DEF Snapshot, Attempt, ActiveStatus
      <3> QED BY <1>0, <2>1, <3>2, <3>6, <3>7, DoneType
    <2> QED BY <2>2, <2>3
  <1>11. ASSUME NEW c \in calls, Heartbeat(c) PROVE TypeOK'
    <2>1. /\ c.op = "heartbeat" /\ Done(c) /\ held' = Refreshed(c, pdf_job'[c.job])
          /\ c.job \in Jobs /\ c.now \in Nat /\ c.now + LeaseDuration \in Nat
      BY <1>0, <1>11, CallFields, PolicyAssumption DEF Heartbeat
    <2>2. pdf_job[c.job] \in Row
      BY <1>0, <1>11, <2>1, RowPresent DEF Heartbeat, LeaseValid, IsActive, ActiveStatus
    <2>3. PICK s \in Row : s = HeartbeatRow(pdf_job[c.job], c.now, c.now + LeaseDuration)
      BY <2>1, <2>2, HeartbeatRowType
    <2>4. pdf_job'[c.job] = s
      BY <1>11, <2>1, <2>3 DEF Heartbeat, TypeOK
    <2>5. s.lease_expires_at \in Nat
      <3>1. pdf_job[c.job].lease_expires_at \in Nat
        BY <1>11, <2>1, <2>2 DEF Heartbeat, LeaseValid, Row, OptTime, NullTime
      <3> QED BY <2>1, <2>2, <2>3, <3>1 DEF HeartbeatRow, Row
    <2>6. Refreshed(c, s) \subseteq Attempt
      BY <1>0, <2>1, <2>5, RefreshedType
    <2> QED BY <1>0, <2>1, <2>4, <2>6, DoneType
  <1>12. ASSUME NEW c \in calls, Transition(c) PROVE TypeOK'
    <2>1. /\ c.op = "transition" /\ Done(c) /\ held' = Refreshed(c, pdf_job'[c.job])
          /\ c.job \in Jobs /\ c.now \in Nat /\ c.now + LeaseDuration \in Nat
          /\ c.next \in Status /\ c.progress \in 0..100
      BY <1>0, <1>12, CallFields, PolicyAssumption DEF Transition
    <2>2. pdf_job[c.job] \in Row
      BY <1>0, <1>12, <2>1, RowPresent
         DEF Transition, TransitionMatches, LeaseValid, IsActive, ActiveStatus
    <2>3. PICK s \in Row :
             s = TransitionRow(pdf_job[c.job], c.next, c.progress, c.now, c.now + LeaseDuration)
      BY <2>1, <2>2, TransitionRowType
    <2>4. pdf_job'[c.job] = s
      BY <1>12, <2>1, <2>3 DEF Transition, TypeOK
    <2>5. IsActive(s) => s.lease_expires_at \in Nat
      <3>1. /\ s.status = c.next
            /\ s.lease_expires_at = IF c.next \in TerminalStatus THEN NullTime
                                    ELSE c.now + LeaseDuration
        BY <2>2, <2>3 DEF TransitionRow, ReleasesLease, Row
      <3> QED BY <2>1, <3>1 DEF IsActive, ActiveStatus, TerminalStatus
    <2>6. Refreshed(c, s) \subseteq Attempt
      BY <1>0, <2>1, <2>5, RefreshedType
    <2> QED BY <1>0, <2>1, <2>4, <2>6, DoneType
  <1>13. CASE UNCHANGED vars
    BY <1>13 DEF TypeOK, vars
  <1> QED BY <1>1, <1>2, <1>3, <1>4, <1>5, <1>6, <1>7, <1>8, <1>9, <1>10, <1>11, <1>12, <1>13
          DEF Next

\* The initial state has the types.
LEMMA TypeInit == Init => TypeOK
  BY DEF Init, TypeOK

\* Type correctness of the queue: tables, statements in flight and attempts
\* always have their types, for any number of jobs, workers and owners.
THEOREM TypeCorrect == Spec => []TypeOK
  BY TypeInit, TypeStep, PTL DEF Spec

----------------------------------------------------------------------------
(* The row invariants                                                       *)

RowsInv == \A j \in Rows : RowInv(pdf_job[j])

\* Every step keeps the invariants of every row.
LEMMA RowsStep == TypeOK /\ RowsInv /\ [Next]_vars => RowsInv'
  <1> SUFFICES ASSUME TypeOK, RowsInv, [Next]_vars, NEW j \in Jobs, pdf_job'[j] # NoRow
               PROVE  RowInv(pdf_job'[j])
    BY DEF RowsInv, Rows
  <1>1. /\ RowStep(pdf_job[j], pdf_job'[j], Instants(j), Claimants)
        /\ pdf_job[j] \in Row \cup {NoRow}
    BY StepTable DEF TableStep, TypeOK
  <1>2. CASE pdf_job[j] = NoRow
    <2>1. PICK now \in Nat : pdf_job'[j] = SeedRow(now, Retention, MaxAttempts)
      BY <1>1, <1>2, RowStatus DEF RowStep
    <2> QED BY <2>1, SeedRowInv
  <1>3. CASE pdf_job[j] # NoRow
    <2>1. RowInv(pdf_job[j]) /\ pdf_job[j] \in Row
      BY <1>1, <1>3 DEF RowsInv, Rows
    <2> QED BY <1>1, <2>1, RowStepInv
  <1> QED BY <1>2, <1>3

\* There are no rows to begin with.
LEMMA RowsInit == Init => RowsInv
  BY DEF Init, RowsInv, Rows

\* The four row invariants hold together in every reachable state.
THEOREM RowsCorrect == Spec => []RowsInv
  <1>1. Spec => []TypeOK
    BY TypeCorrect
  <1> QED BY <1>1, RowsInit, RowsStep, PTL DEF Spec

\* A row carries a complete lease exactly while it is active.
THEOREM LeasesConsistentAlways == Spec => []LeasesConsistent
  <1>1. RowsInv => LeasesConsistent
    BY DEF RowsInv, RowInv, LeasesConsistent
  <1> QED BY <1>1, RowsCorrect, PTL

\* No job is started more often than max_attempts, and a queued job always has
\* an attempt left.
THEOREM AttemptsBoundedAlways == Spec => []AttemptsBounded
  <1>1. RowsInv => AttemptsBounded
    BY DEF RowsInv, RowInv, AttemptsBounded
  <1> QED BY <1>1, RowsCorrect, PTL

\* A stop request that found the job unfinished is never overtaken by another
\* outcome, and only requested jobs are cancelled.
THEOREM StopHonouredAlways == Spec => []StopHonoured
  <1>1. RowsInv => StopHonoured
    BY DEF RowsInv, RowInv, StopHonoured
  <1> QED BY <1>1, RowsCorrect, PTL

\* Finished rows tell how they ended, requeued rows start clean.
THEOREM OutcomeRecordedAlways == Spec => []OutcomeRecorded
  <1>1. RowsInv => OutcomeRecorded
    BY DEF RowsInv, RowInv, OutcomeRecorded
  <1> QED BY <1>1, RowsCorrect, PTL

----------------------------------------------------------------------------
(* Progress and version                                                     *)

\* Progress shown for one attempt never goes back.
THEOREM ProgressMonotonicAlways == Spec => ProgressMonotonic
  <1> DEFINE Step == \A j \in Rows :
                        \/ pdf_job'[j].progress_percent >= pdf_job[j].progress_percent
                        \/ IsActive(pdf_job[j]) /\ pdf_job'[j].status = "queued"
  <1>1. TypeOK /\ [Next]_vars => Step
    <2> SUFFICES ASSUME TypeOK, [Next]_vars, NEW j \in Jobs, pdf_job[j] # NoRow
                 PROVE  \/ pdf_job'[j].progress_percent >= pdf_job[j].progress_percent
                        \/ IsActive(pdf_job[j]) /\ pdf_job'[j].status = "queued"
      BY DEF Rows
    <2> QED BY StepTable, ProgressRowStep DEF TableStep, TypeOK
  <1> QED BY <1>1, TypeCorrect, PTL DEF Spec, ProgressMonotonic

\* A request that is news shows in what the owner has asked for.
LEMMA NewsShows ==
    ASSUME NEW r \in Row, NEW now \in Nat
    PROVE  /\ StopIsNews(r) => RequestState(CancelRow(r, now)) # RequestState(r)
           /\ StopIsNews(r) \/ r.deletion_requested_at = NullTime =>
                 RequestState(DeleteRow(r, now)) # RequestState(r)
  <1> DEFINE at == Greatest(now, r.created_at)
  <1>1. at # NullTime
    BY DEF Greatest, Row, NullTime
  <1>2. /\ r.status = "queued" => CancelRow(r, now).status # r.status
        /\ r.status = "queued" => DeleteRow(r, now).status # r.status
    BY CancelFields, DeleteFields
  <1>3. IsActive(r) /\ r.cancel_requested_at = NullTime =>
           /\ CancelRow(r, now).cancel_requested_at = at
           /\ DeleteRow(r, now).cancel_requested_at = at
    BY CancelFields, DeleteFields DEF IsActive, Coalesce
  <1>4. r.deletion_requested_at = NullTime => DeleteRow(r, now).deletion_requested_at = at
    BY DeleteFields DEF Coalesce
  <1>5. ASSUME NEW s, RequestState(s) = RequestState(r)
        PROVE  /\ s.status = r.status
               /\ s.cancel_requested_at = r.cancel_requested_at
               /\ s.deletion_requested_at = r.deletion_requested_at
    BY <1>5 DEF RequestState
  <1> HIDE DEF at
  <1> QED BY <1>1, <1>2, <1>3, <1>4, <1>5 DEF StopIsNews

\* An owner's statement that asks for nothing new leaves the version alone.
LEMMA NoNewsNoVersion ==
    ASSUME TypeOK, [Next]_vars, NEW j \in Jobs, pdf_job[j] # NoRow,
           NEW c \in calls, c \notin calls', c.op \in {"cancel", "delete"}, c.job = j,
           RequestState(pdf_job'[j]) = RequestState(pdf_job[j])
    PROVE  pdf_job'[j].version = pdf_job[j].version
  <1>1. pdf_job[j] \in Row /\ pdf_job \in [Jobs -> Row \cup {NoRow}] /\ c.now \in Nat
    BY CallFields DEF TypeOK
  <1>2. Lose(c) \/ Cancel(c) \/ Delete(c)
    <2>1. CASE \/ Tick \/ CallRecover
               \/ \E op \in {"create", "cancel", "delete"}, i \in Jobs, o \in Owners :
                     CallOwner(op, i, o)
               \/ \E w \in Workers : CallClaim(w)
               \/ \E g \in held : CallHeartbeat(g) \/ Abandon(g)
               \/ \E g \in held, next \in Status, progress \in ProgressValues :
                     CallTransition(g, next, progress)
               \/ UNCHANGED vars
      BY <2>1 DEF Tick, CallRecover, CallOwner, CallClaim, CallHeartbeat, Abandon,
                  CallTransition, Send, vars
    <2>2. CASE \E d \in calls : \/ Create(d) \/ Claim(d) \/ Heartbeat(d) \/ Transition(d)
                                 \/ LeaseLost(d) \/ RecoverExpired(d)
      <3>1. PICK d \in calls : /\ d.op \notin {"cancel", "delete"}
                               /\ calls' = calls \ {d}
        BY <2>2 DEF Create, Claim, Heartbeat, Transition, LeaseLost, RecoverExpired, Done
      <3> QED BY <3>1
    <2>3. CASE \E d \in calls : Lose(d) \/ Cancel(d) \/ Delete(d)
      <3>1. PICK d \in calls : (Lose(d) \/ Cancel(d) \/ Delete(d)) /\ calls' = calls \ {d}
        BY <2>3 DEF Lose, Cancel, Delete, Done
      <3> QED BY <3>1
    <2> QED BY <2>1, <2>2, <2>3 DEF Next
  <1>3. CASE pdf_job'[j] = pdf_job[j]
    BY <1>3
  <1>4. CASE pdf_job'[j] = CancelRow(pdf_job[j], c.now)
    <2>1. CASE StopIsNews(pdf_job[j])
      BY <1>1, <1>4, <2>1, NewsShows
    <2>2. CASE ~StopIsNews(pdf_job[j])
      BY <1>1, <1>4, <2>2, CancelFields
    <2> QED BY <2>1, <2>2
  <1>5. CASE pdf_job'[j] = DeleteRow(pdf_job[j], c.now)
    <2>1. CASE StopIsNews(pdf_job[j]) \/ pdf_job[j].deletion_requested_at = NullTime
      BY <1>1, <1>5, <2>1, NewsShows
    <2>2. CASE ~(StopIsNews(pdf_job[j]) \/ pdf_job[j].deletion_requested_at = NullTime)
      BY <1>1, <1>5, <2>2, DeleteFields
    <2> QED BY <2>1, <2>2
  <1>6. \/ pdf_job'[j] = pdf_job[j]
        \/ pdf_job'[j] = CancelRow(pdf_job[j], c.now)
        \/ pdf_job'[j] = DeleteRow(pdf_job[j], c.now)
    BY <1>1, <1>2 DEF Lose, Cancel, Delete
  <1> QED BY <1>3, <1>4, <1>5, <1>6

\* The version tells rows apart up to the retention deadline, and an owner's
\* request that asks for nothing new leaves it alone.
THEOREM VersionIdentifiesRowAlways == Spec => VersionIdentifiesRow
  <1> DEFINE Step == \A j \in Rows :
                        LET old == pdf_job[j]
                            new == pdf_job'[j]
                        IN /\ new.expires_at <= old.expires_at
                           /\ \/ new = [old EXCEPT !.expires_at = new.expires_at]
                              \/ new.version = old.version + 1
                           /\ \A c \in calls \ calls' :
                                 /\ c.op \in {"cancel", "delete"} /\ c.job = j
                                 /\ RequestState(new) = RequestState(old)
                                 => new.version = old.version
  <1>1. TypeOK /\ [Next]_vars => Step
    <2> SUFFICES ASSUME TypeOK, [Next]_vars, NEW j \in Jobs, pdf_job[j] # NoRow
                 PROVE  /\ pdf_job'[j].expires_at <= pdf_job[j].expires_at
                        /\ \/ pdf_job'[j] =
                                 [pdf_job[j] EXCEPT !.expires_at = pdf_job'[j].expires_at]
                           \/ pdf_job'[j].version = pdf_job[j].version + 1
                        /\ \A c \in calls \ calls' :
                              c.op \in {"cancel", "delete"} /\ c.job = j
                                  /\ RequestState(pdf_job'[j]) = RequestState(pdf_job[j])
                              => pdf_job'[j].version = pdf_job[j].version
      BY DEF Rows
    <2>1. \A c \in calls \ calls' :
             c.op \in {"cancel", "delete"} /\ c.job = j
                 /\ RequestState(pdf_job'[j]) = RequestState(pdf_job[j])
             => pdf_job'[j].version = pdf_job[j].version
      BY NoNewsNoVersion
    <2> QED BY <2>1, StepTable, VersionRowStep DEF TableStep, TypeOK
  <1> QED BY <1>1, TypeCorrect, PTL DEF Spec, VersionIdentifiesRow

----------------------------------------------------------------------------
(* The statements in flight and the attempts, from one step to the next     *)

\* Two records of one attempt: statements and attempts name it alike.
SameAttempt(a, b) == a.worker = b.worker /\ a.job = b.job /\ a.attempt = b.attempt

\* A statement in flight after a step was in flight before, or was sent now;
\* a statement under a lease is sent for an attempt the worker is making.
LEMMA CallsStep ==
    ASSUME TypeOK, [Next]_vars, NEW c \in calls'
    PROVE  \/ c \in calls
           \/ /\ c.now = clock
              /\ calls' = calls \cup {c}
              /\ UNCHANGED <<pdf_job, clock, held>>
              /\ c.op \in {"heartbeat", "transition"} =>
                    \E g \in held : SameAttempt(c, g) /\ (Sequential => Idle(g.worker))
              /\ c.op = "claim" /\ Sequential =>
                    Idle(c.worker) /\ \A g \in held : g.worker # c.worker
  <1> DEFINE Sent == /\ c.now = clock
                     /\ calls' = calls \cup {c}
                     /\ UNCHANGED <<pdf_job, clock, held>>
                     /\ c.op \in {"heartbeat", "transition"} =>
                           \E g \in held : SameAttempt(c, g) /\ (Sequential => Idle(g.worker))
                     /\ c.op = "claim" /\ Sequential =>
                           Idle(c.worker) /\ \A g \in held : g.worker # c.worker
  <1> SUFFICES ASSUME c \notin calls PROVE Sent
    OBVIOUS
  <1>1. ASSUME NEW op \in {"create", "cancel", "delete"}, NEW j \in Jobs, NEW o \in Owners,
               CallOwner(op, j, o)
        PROVE  Sent
    BY <1>1 DEF CallOwner, Send
  <1>2. ASSUME NEW w \in Workers, CallClaim(w) PROVE Sent
    BY <1>2 DEF CallClaim, Send
  <1>3. ASSUME NEW g \in held, CallHeartbeat(g) PROVE Sent
    BY <1>3 DEF CallHeartbeat, Send, SameAttempt
  <1>4. ASSUME NEW g \in held, NEW next \in Status, NEW progress \in ProgressValues,
               CallTransition(g, next, progress)
        PROVE  Sent
    BY <1>4 DEF CallTransition, Send, SameAttempt
  <1>5. CASE CallRecover
    BY <1>5 DEF CallRecover, Send
  <1>6. ASSUME calls' \subseteq calls PROVE FALSE
    BY <1>6
  <1>7. \A d \in calls : Lose(d) \/ Done(d) => calls' \subseteq calls
    BY DEF Lose, Done
  <1>8. CASE Tick \/ \E g \in held : Abandon(g)
    BY <1>6, <1>8 DEF Tick, Abandon
  <1>9. CASE UNCHANGED vars
    BY <1>6, <1>9 DEF vars
  <1>10. \A d \in calls : Create(d) \/ Cancel(d) \/ Delete(d) \/ Claim(d) \/ Heartbeat(d)
                          \/ Transition(d) \/ LeaseLost(d) \/ RecoverExpired(d) => Done(d)
    BY DEF Create, Cancel, Delete, Claim, Heartbeat, Transition, LeaseLost, RecoverExpired
  <1> HIDE DEF Sent
  <1> QED BY <1>1, <1>2, <1>3, <1>4, <1>5, <1>6, <1>7, <1>8, <1>9, <1>10 DEF Next

\* Claim call c got the row of attempt h.
Claimed(c, h) ==
    /\ c.op = "claim"
    /\ calls' = calls \ {c}
    /\ h.worker = c.worker
    /\ h.job \in Jobs
    /\ Claimable(pdf_job[h.job], c.now)
    /\ pdf_job' = [pdf_job EXCEPT
          ![h.job] = ClaimRow(pdf_job[h.job], c.worker, c.now, c.now + LeaseDuration)]
    /\ h.attempt = pdf_job'[h.job].attempt_count
    /\ h.until = pdf_job'[h.job].lease_expires_at
    /\ held' = held \cup {h}

\* Statement c renewed the lease of attempt g, which is h from now on.
Renewed(c, g, h) ==
    /\ c.op \in {"heartbeat", "transition"}
    /\ SameAttempt(c, g)
    /\ SameAttempt(h, g)
    /\ held' = Refreshed(c, pdf_job'[c.job])
    /\ LeaseValid(pdf_job[c.job], c.worker, c.now)
    /\ h.until = pdf_job'[h.job].lease_expires_at
    /\ IsActive(pdf_job'[h.job])

\* The attempt c was sent for is recorded with the row c left, or is over.
LEMMA RefreshedFields ==
    ASSUME NEW c, NEW r, NEW h \in Refreshed(c, r)
    PROVE  \/ h \in held /\ ~SameAttempt(c, h)
           \/ \E g \in held : /\ SameAttempt(c, g) /\ SameAttempt(h, g)
                              /\ h = Snapshot(g.worker, g.job, g.attempt, r)
                              /\ h.until = r.lease_expires_at
                              /\ IsActive(r)
  BY DEF Refreshed, Snapshot, SameAttempt

\* An attempt after a step was made before, was just claimed, or was renewed.
LEMMA HeldStep ==
    ASSUME TypeOK, [Next]_vars, NEW h \in held'
    PROVE  \/ h \in held
           \/ \E c \in calls : Claimed(c, h)
           \/ \E c \in calls, g \in held : Renewed(c, g, h)
  <1> DEFINE Known == \/ h \in held
                      \/ \E c \in calls : Claimed(c, h)
                      \/ \E c \in calls, g \in held : Renewed(c, g, h)
  <1>1. ASSUME NEW c \in calls, Claim(c) PROVE Known
    <2> SUFFICES ASSUME h \notin held PROVE Claimed(c, h)
      OBVIOUS
    <2>1. PICK j \in Jobs :
             /\ Claimable(pdf_job[j], c.now)
             /\ pdf_job' = [pdf_job EXCEPT
                   ![j] = ClaimRow(pdf_job[j], c.worker, c.now, c.now + LeaseDuration)]
             /\ held' = held \cup
                   {Snapshot(c.worker, j, pdf_job'[j].attempt_count, pdf_job'[j])}
      BY <1>1 DEF Claim
    <2>2. h = Snapshot(c.worker, j, pdf_job'[j].attempt_count, pdf_job'[j])
      BY <2>1
    <2>3. h.worker = c.worker /\ h.job = j
      BY <2>2 DEF Snapshot
    <2>4. h.attempt = pdf_job'[j].attempt_count /\ h.until = pdf_job'[j].lease_expires_at
      BY <2>2 DEF Snapshot
    <2> QED BY <1>1, <2>1, <2>2, <2>3, <2>4 DEF Claim, Done, Claimed
  <1>2. ASSUME NEW c \in calls, Heartbeat(c) PROVE Known
    BY <1>2, RefreshedFields DEF Heartbeat, Renewed, SameAttempt
  <1>3. ASSUME NEW c \in calls, Transition(c) PROVE Known
    BY <1>3, RefreshedFields DEF Transition, TransitionMatches, Renewed, SameAttempt
  <1>4. CASE held' \subseteq held
    BY <1>4
  <1>5. CASE Tick \/ CallRecover \/ UNCHANGED vars
    BY <1>4, <1>5 DEF Tick, CallRecover, Send, vars
  <1>6. ASSUME NEW op \in {"create", "cancel", "delete"}, NEW j \in Jobs, NEW o \in Owners,
               CallOwner(op, j, o)
        PROVE  held' \subseteq held
    BY <1>6 DEF CallOwner, Send
  <1>7. ASSUME NEW g \in held,
               \/ CallHeartbeat(g) \/ Abandon(g)
               \/ \E next \in Status, progress \in ProgressValues :
                     CallTransition(g, next, progress)
        PROVE  held' \subseteq held
    BY <1>7 DEF CallHeartbeat, CallTransition, Abandon, Send
  <1>8. ASSUME NEW w \in Workers, CallClaim(w) PROVE held' \subseteq held
    BY <1>8 DEF CallClaim, Send
  <1>9. ASSUME NEW c \in calls,
               \/ Lose(c) \/ Create(c) \/ Cancel(c) \/ Delete(c)
               \/ LeaseLost(c) \/ RecoverExpired(c)
        PROVE  held' \subseteq held
    BY <1>9 DEF Lose, Create, Cancel, Delete, LeaseLost, RecoverExpired
  <1> HIDE DEF Known
  <1> QED BY <1>1, <1>2, <1>3, <1>4, <1>5, <1>6, <1>7, <1>8, <1>9 DEF Next, Known

\* A step keeps every row there is, its creation instant and attempt limit.
LEMMA RowsStay ==
    ASSUME TypeOK, [Next]_vars, NEW j \in Rows
    PROVE  /\ j \in Rows'
           /\ pdf_job[j] \in Row
           /\ pdf_job'[j] \in Row
           /\ pdf_job'[j].created_at = pdf_job[j].created_at
           /\ pdf_job'[j].max_attempts = pdf_job[j].max_attempts
  <1>1. j \in Jobs /\ pdf_job[j] \in Row
    BY DEF Rows, TypeOK
  <1>2. RowStep(pdf_job[j], pdf_job'[j], Instants(j), Claimants)
    BY <1>1, StepTable DEF TableStep
  <1>3. pdf_job'[j] \in Row /\ pdf_job'[j] # NoRow
    BY <1>1, <1>2, RowStepType, RowStatus
  <1> QED BY <1>1, <1>2, <1>3, OriginRowStep DEF Rows

\* The clock only runs forward.
LEMMA ClockStep ==
    ASSUME TypeOK, [Next]_vars
    PROVE  clock \in Nat /\ clock' \in Nat /\ clock <= clock'
  <1>1. clock' \in {clock, clock + 1}
    BY DEF Next, Tick, CallOwner, CallClaim, CallHeartbeat, CallTransition, CallRecover, Send,
           Lose, Abandon, Create, Cancel, Delete, Claim, Heartbeat, Transition, LeaseLost,
           RecoverExpired, Done, vars
  <1> QED BY <1>1 DEF TypeOK

----------------------------------------------------------------------------
(* Late statements: RowsAccepted needs to know that no statement under a    *)
(* lease carries an instant before the creation of its job.                 *)

\* Jobs outlive the statements and attempts that name them, and nobody named
\* them before they were created.
OnTime ==
    /\ \A g \in held : g.job \in Rows /\ pdf_job[g.job].created_at <= clock
    /\ \A c \in LeaseCalls : c.job \in Rows /\ pdf_job[c.job].created_at <= c.now

\* OnTime needs what the rows need: that a job is claimable only once it is
\* created.
LEMMA OnTimeStep == TypeOK /\ RowsAccepted /\ OnTime /\ [Next]_vars => OnTime'
  <1> SUFFICES ASSUME TypeOK, RowsAccepted, OnTime, [Next]_vars PROVE OnTime'
    OBVIOUS
  <1>0. clock \in Nat /\ clock' \in Nat /\ clock <= clock'
    BY ClockStep
  <1>1. \A j \in Rows : /\ j \in Rows'
                        /\ pdf_job[j].created_at \in Nat
                        /\ pdf_job'[j].created_at = pdf_job[j].created_at
    BY RowsStay DEF Row
  <1>2. ASSUME NEW h \in held' PROVE h.job \in Rows' /\ pdf_job'[h.job].created_at <= clock'
    <2>1. CASE h \in held
      BY <1>0, <1>1, <2>1 DEF OnTime
    <2>2. ASSUME NEW c \in calls, Claimed(c, h)
          PROVE  h.job \in Rows' /\ pdf_job'[h.job].created_at <= clock'
      <3>1. c.now \in Nat /\ c.now <= clock
        BY CallFields DEF TypeOK
      <3>2. h.job \in Rows /\ pdf_job[h.job] \in Row
        BY <2>2, RowPresent DEF Claimed, Claimable, TypeOK, Rows, NoRow
      <3>3. pdf_job[h.job].created_at <= c.now
        BY <2>2, <3>1, <3>2, AcceptedColumns DEF Claimed, Claimable, RowsAccepted, Row
      <3> QED BY <1>0, <1>1, <3>1, <3>2, <3>3
    <2>3. ASSUME NEW c \in calls, NEW g \in held, Renewed(c, g, h)
          PROVE  h.job \in Rows' /\ pdf_job'[h.job].created_at <= clock'
      BY <1>0, <1>1, <2>3 DEF OnTime, Renewed, SameAttempt
    <2> QED BY <2>1, <2>2, <2>3, HeldStep
  <1>3. ASSUME NEW c \in calls', c.op \in {"heartbeat", "transition"}
        PROVE  c.job \in Rows' /\ pdf_job'[c.job].created_at <= c.now
    BY <1>1, <1>3, CallsStep DEF OnTime, LeaseCalls, SameAttempt
  <1> QED BY <1>2, <1>3 DEF OnTime, LeaseCalls

\* Every step leaves accepted rows.
LEMMA AcceptedStep == TypeOK /\ RowsInv /\ RowsAccepted /\ OnTime /\ [Next]_vars => RowsAccepted'
  <1> SUFFICES ASSUME TypeOK, RowsInv, RowsAccepted, OnTime, [Next]_vars,
                      NEW j \in Jobs, pdf_job'[j] # NoRow
               PROVE  RowAccepted(pdf_job'[j])
    BY DEF RowsAccepted, Rows
  <1>1. /\ RowStep(pdf_job[j], pdf_job'[j], Instants(j), Claimants)
        /\ pdf_job[j] \in Row \cup {NoRow}
    BY StepTable DEF TableStep, TypeOK
  <1>2. CASE pdf_job[j] = NoRow
    <2>1. PICK now \in Nat : pdf_job'[j] = SeedRow(now, Retention, MaxAttempts)
      BY <1>1, <1>2, RowStatus DEF RowStep
    <2> QED BY <2>1, SeedAccepted
  <1>3. CASE pdf_job[j] # NoRow
    <2>1. RowInv(pdf_job[j]) /\ RowAccepted(pdf_job[j]) /\ pdf_job[j] \in Row
      BY <1>1, <1>3 DEF RowsInv, RowsAccepted, Rows
    <2>2. \A t \in Instants(j) : pdf_job[j].created_at <= t
      BY DEF OnTime, Instants
    <2> QED BY <1>1, <2>1, <2>2, AcceptedRowStep
  <1> QED BY <1>2, <1>3

\* However late a statement is applied, pdf_job_timestamp_order rejects none
\* and validateStoredJob refuses no row.
THEOREM RowsAcceptedAlways == Spec => []RowsAccepted
  <1> DEFINE IInv == TypeOK /\ RowsInv /\ RowsAccepted /\ OnTime
  <1>1. Init => IInv
    BY TypeInit, RowsInit DEF Init, RowsAccepted, Rows, OnTime, LeaseCalls
  <1>2. IInv /\ [Next]_vars => IInv'
    BY TypeStep, RowsStep, AcceptedStep, OnTimeStep
  <1>3. IInv => RowsAccepted
    OBVIOUS
  <1> QED BY <1>1, <1>2, <1>3, PTL DEF Spec

----------------------------------------------------------------------------
(* Worker identities that are one thread: one call at a time, one attempt at*)
(* a time.  What a worker knows of its lease is then what the row says, as  *)
(* long as the lease runs.                                                  *)

\* Statements in flight that workers send.
WorkerCalls == {c \in calls : c.op \in {"claim", "heartbeat", "transition"}}

\* One statement in flight and one attempt for each worker.
OneCall == \A c, d \in WorkerCalls : c.worker = d.worker => c = d

OneAttempt == \A g, h \in held : g.worker = h.worker => g = h

\* A worker that claims makes no attempt; the statement it sends under a lease
\* is for the attempt it makes.
CallsMatchAttempts ==
    \A c \in WorkerCalls, g \in held :
        c.worker = g.worker => c \in LeaseCalls /\ SameAttempt(c, g)

Single == OneCall /\ OneAttempt /\ CallsMatchAttempts

\* A renewed lease replaces the attempt of its worker.
LEMMA RefreshedSingle ==
    ASSUME OneAttempt, NEW c, NEW r, NEW g \in Refreshed(c, r), NEW h \in Refreshed(c, r),
           g.worker = h.worker
    PROVE  g = h
  <1>1. CASE g \in held /\ h \in held
    BY <1>1 DEF OneAttempt
  <1>2. ASSUME NEW a \in held, NEW b \in held, a.worker = b.worker PROVE a = b
    BY <1>2 DEF OneAttempt
  <1> QED BY <1>1, <1>2, RefreshedFields DEF SameAttempt, Snapshot

\* A sequential worker stays single.
LEMMA SingleStep ==
    ASSUME Sequential, TypeOK, Single, [Next]_vars
    PROVE  Single'
  <1>1. \A c \in WorkerCalls' : c \in calls'
    BY DEF WorkerCalls
  <1>2. \A c \in LeaseCalls' : c.op \in {"heartbeat", "transition"}
    BY DEF LeaseCalls
  <1>3. ASSUME NEW c \in WorkerCalls', c \notin calls
        PROVE  /\ UNCHANGED held
               /\ calls' = calls \cup {c}
               /\ Idle(c.worker)
               /\ \A g \in held : g.worker = c.worker => c \in LeaseCalls' /\ SameAttempt(c, g)
    <2>1. c.op \in {"claim", "heartbeat", "transition"}
      BY DEF WorkerCalls
    <2>2. CASE c.op = "claim"
      BY <1>1, <1>3, <2>2, CallsStep
    <2>3. CASE c.op # "claim"
      <3>1. PICK g \in held : SameAttempt(c, g) /\ Idle(g.worker)
        BY <1>1, <1>3, <2>1, <2>3, CallsStep
      <3>2. UNCHANGED held /\ calls' = calls \cup {c}
        BY <1>1, <1>3, CallsStep
      <3> QED BY <2>1, <2>3, <3>1, <3>2 DEF SameAttempt, Single, OneAttempt, LeaseCalls
    <2> QED BY <2>2, <2>3
  <1>4. OneCall'
    <2> SUFFICES ASSUME NEW c \in WorkerCalls', NEW d \in WorkerCalls', c.worker = d.worker
                 PROVE  c = d
      BY DEF OneCall
    <2>1. CASE c \in calls /\ d \in calls
      BY <2>1 DEF Single, OneCall, WorkerCalls
    <2>2. CASE c \notin calls
      BY <1>1, <1>3, <2>2 DEF Idle, WorkerCalls
    <2>3. CASE d \notin calls
      BY <1>1, <1>3, <2>3 DEF Idle, WorkerCalls
    <2> QED BY <2>1, <2>2, <2>3
  <1>5. ASSUME NEW c \in calls, NEW h, Claimed(c, h)
        PROVE  /\ \A g \in held : g.worker # h.worker
               /\ \A d \in WorkerCalls' : d.worker # h.worker
    <2>1. c \in WorkerCalls /\ c \notin LeaseCalls /\ c \notin calls'
      BY <1>5 DEF Claimed, WorkerCalls, LeaseCalls
    <2>2. \A d \in WorkerCalls' : d \in WorkerCalls /\ d # c
      BY <1>5, <2>1 DEF Claimed, WorkerCalls
    <2> QED BY <1>5, <2>1, <2>2 DEF Claimed, Single, OneCall, CallsMatchAttempts
  <1>6. OneAttempt'
    <2> SUFFICES ASSUME NEW g \in held', NEW h \in held', g.worker = h.worker
                 PROVE  g = h
      BY DEF OneAttempt
    <2>1. ASSUME NEW c \in calls, Claimed(c, h) PROVE g = h
      BY <1>5, <2>1 DEF Claimed
    <2>2. ASSUME NEW c \in calls, Claimed(c, g) PROVE g = h
      BY <1>5, <2>2 DEF Claimed
    <2>3. ASSUME NEW e, held' = Refreshed(e, pdf_job'[e.job]) PROVE g = h
      BY <2>3, RefreshedSingle DEF Single
    <2>4. CASE g \in held /\ h \in held
      BY <2>4 DEF Single, OneAttempt
    <2> QED BY <2>1, <2>2, <2>3, <2>4, HeldStep DEF Renewed
  <1>7. CallsMatchAttempts'
    <2> SUFFICES ASSUME NEW c \in WorkerCalls', NEW h \in held', c.worker = h.worker
                 PROVE  c \in LeaseCalls' /\ SameAttempt(c, h)
      BY DEF CallsMatchAttempts
    <2>1. CASE c \notin calls
      BY <1>3, <2>1
    <2>2. CASE c \in calls
      <3>1. c \in WorkerCalls
        BY <2>2 DEF WorkerCalls
      <3>2. CASE h \in held
        BY <1>1, <3>1, <3>2 DEF Single, CallsMatchAttempts, LeaseCalls
      <3>3. ASSUME NEW d \in calls, Claimed(d, h) PROVE FALSE
        BY <1>5, <3>3
      <3>4. ASSUME NEW d \in calls, NEW g \in held, Renewed(d, g, h)
            PROVE  c \in LeaseCalls' /\ SameAttempt(c, h)
        BY <1>1, <3>1, <3>4 DEF Single, CallsMatchAttempts, LeaseCalls, Renewed, SameAttempt
      <3> QED BY <3>2, <3>3, <3>4, HeldStep
    <2> QED BY <2>1, <2>2
  <1> QED BY <1>4, <1>6, <1>7 DEF Single

\* Whoever owns the lease of a job knows the job by its current attempt: a
\* statement or an attempt of the owner carries the number the row carries.
AttemptCurrent ==
    \A g \in held \cup LeaseCalls :
        /\ g.job \in Rows
        /\ pdf_job[g.job].lease_owner = g.worker => pdf_job[g.job].attempt_count = g.attempt

\* A lease that its worker believes to be running is the one in the row.
LeaseKnown ==
    \A g \in held :
        g.until > clock =>
            /\ IsActive(pdf_job[g.job])
            /\ pdf_job[g.job].lease_owner = g.worker
            /\ pdf_job[g.job].lease_expires_at = g.until

\* A worker that holds an attempt or has a statement under a lease in flight
\* has no claim in flight.
LEMMA NotClaiming ==
    ASSUME TypeOK, Single, NEW g \in held \cup LeaseCalls
    PROVE  g.worker \notin Claimants /\ g.worker \in Workers
  <1>1. \A c \in calls : c.op = "claim" => c \in WorkerCalls /\ c \notin LeaseCalls
    BY DEF WorkerCalls, LeaseCalls
  <1>2. \A c \in LeaseCalls : c \in WorkerCalls
    BY DEF WorkerCalls, LeaseCalls
  <1>3. g.worker \in Workers
    BY CallFields DEF TypeOK, Attempt, LeaseCalls
  <1>4. g.worker \notin Claimants
    BY <1>1, <1>2 DEF Single, OneCall, CallsMatchAttempts, Claimants
  <1> QED BY <1>3, <1>4

\* Attempts stay current: a claim, which starts the next one, is sent by a
\* worker that has nothing else under way.
LEMMA AttemptCurrentStep ==
    ASSUME Sequential, TypeOK, Single, AttemptCurrent, [Next]_vars
    PROVE  AttemptCurrent'
  <1> DEFINE Current(g) ==
                /\ g.job \in Rows'
                /\ pdf_job'[g.job].lease_owner = g.worker =>
                      pdf_job'[g.job].attempt_count = g.attempt
  <1>1. ASSUME NEW g \in held \cup LeaseCalls PROVE Current(g)
    <2>1. g.job \in Rows /\ g.worker \in Workers /\ g.worker \notin Claimants
      BY NotClaiming DEF AttemptCurrent
    <2>2. pdf_job[g.job] \in Row /\ g.job \in Rows' /\ g.job \in Jobs
      BY <2>1, RowsStay DEF Rows
    <2>3. RowStep(pdf_job[g.job], pdf_job'[g.job], Instants(g.job), Claimants)
      BY <2>2, StepTable DEF TableStep
    <2>4. \/ pdf_job'[g.job].lease_owner \in Claimants
          \/ /\ pdf_job'[g.job].attempt_count = pdf_job[g.job].attempt_count
             /\ pdf_job'[g.job].lease_owner \in {pdf_job[g.job].lease_owner, NoWorker}
      BY <2>2, <2>3, AttemptRowStep
    <2> QED BY <2>1, <2>2, <2>4, WorkersAssumption DEF AttemptCurrent
  <1>2. ASSUME NEW h \in held' PROVE Current(h)
    <2>1. ASSUME NEW c \in calls, Claimed(c, h) PROVE Current(h)
      <3>1. h.job \in Rows
        BY <2>1 DEF Claimed, Claimable, Rows, NoRow
      <3> QED BY <2>1, <3>1, RowsStay DEF Claimed
    <2>2. ASSUME NEW c \in calls, NEW g \in held, Renewed(c, g, h) PROVE Current(h)
      BY <1>1, <2>2 DEF Renewed, SameAttempt
    <2> QED BY <1>1, <2>1, <2>2, HeldStep
  <1>3. ASSUME NEW c \in LeaseCalls' PROVE Current(c)
    <2>1. c \in calls' /\ c.op \in {"heartbeat", "transition"}
      BY DEF LeaseCalls
    <2>2. CASE c \in calls
      BY <1>1, <2>1, <2>2 DEF LeaseCalls
    <2>3. CASE c \notin calls
      <3>1. PICK g \in held : SameAttempt(c, g)
        BY <2>1, <2>3, CallsStep
      <3> QED BY <1>1, <3>1 DEF SameAttempt
    <2> QED BY <2>2, <2>3
  <1> QED BY <1>2, <1>3 DEF AttemptCurrent

\* What a step does to the lease of an active row: a statement of the owner
\* renews it, recovery takes it back after its deadline, or it stays.
LEMMA LeaseStep ==
    ASSUME TypeOK, [Next]_vars, NEW j \in Rows, IsActive(pdf_job[j])
    PROVE  \/ \E c \in LeaseCalls :
                 /\ c.job = j
                 /\ LeaseValid(pdf_job[j], c.worker, c.now)
                 /\ held' = Refreshed(c, pdf_job'[j])
           \/ pdf_job[j].lease_expires_at <= clock
           \/ /\ IsActive(pdf_job'[j])
              /\ pdf_job'[j].lease_owner = pdf_job[j].lease_owner
              /\ pdf_job'[j].lease_expires_at = pdf_job[j].lease_expires_at
  <1> DEFINE Kept == /\ IsActive(pdf_job'[j])
                     /\ pdf_job'[j].lease_owner = pdf_job[j].lease_owner
                     /\ pdf_job'[j].lease_expires_at = pdf_job[j].lease_expires_at
  <1>0. /\ j \in Jobs /\ pdf_job[j] \in Row /\ pdf_job[j] # NoRow
        /\ pdf_job \in [Jobs -> Row \cup {NoRow}]
        /\ clock \in Nat
        /\ \A c \in calls : c \in Call /\ c.now \in Nat /\ c.now <= clock
    BY RowsStay, CallFields DEF Rows, TypeOK
  <1>1. CASE pdf_job'[j] = pdf_job[j]
    BY <1>1
  <1>2. ASSUME NEW c \in calls, Create(c) PROVE pdf_job'[j] = pdf_job[j]
    BY <1>0, <1>2 DEF Create
  <1>3. ASSUME NEW c \in calls, Cancel(c) PROVE Kept
    <2>1. pdf_job'[j] \in {pdf_job[j], CancelRow(pdf_job[j], c.now)}
      BY <1>0, <1>3 DEF Cancel
    <2> QED BY <1>0, <2>1, CancelFields DEF IsActive, ActiveStatus
  <1>4. ASSUME NEW c \in calls, Delete(c) PROVE Kept
    <2>1. pdf_job'[j] \in {pdf_job[j], DeleteRow(pdf_job[j], c.now)}
      BY <1>0, <1>4 DEF Delete
    <2> QED BY <1>0, <2>1, DeleteFields DEF IsActive, ActiveStatus
  <1>5. ASSUME NEW c \in calls, Claim(c) PROVE pdf_job'[j] = pdf_job[j]
    <2>1. ~Claimable(pdf_job[j], c.now)
      BY DEF Claimable, IsActive, ActiveStatus
    <2> QED BY <1>0, <1>5, <2>1 DEF Claim
  <1>6. ASSUME NEW c \in calls, Heartbeat(c) \/ Transition(c), pdf_job'[j] # pdf_job[j]
        PROVE  \E d \in LeaseCalls : /\ d.job = j
                                     /\ LeaseValid(pdf_job[j], d.worker, d.now)
                                     /\ held' = Refreshed(d, pdf_job'[j])
    <2>1. c.job = j
      BY <1>0, <1>6 DEF Heartbeat, Transition
    <2> QED BY <1>6, <2>1 DEF Heartbeat, Transition, TransitionMatches, LeaseCalls
  <1>7. ASSUME NEW c \in calls, RecoverExpired(c), pdf_job'[j] # pdf_job[j]
        PROVE  pdf_job[j].lease_expires_at <= clock
    <2>1. LeaseExpired(pdf_job[j], c.now)
      BY <1>0, <1>7 DEF RecoverExpired
    <2> QED BY <1>0, <2>1 DEF LeaseExpired, Row, OptTime, NullTime
  <1>8. CASE UNCHANGED pdf_job
    BY <1>8
  <1>9. CASE \/ Tick \/ CallRecover
             \/ \E op \in {"create", "cancel", "delete"}, k \in Jobs, o \in Owners :
                   CallOwner(op, k, o)
             \/ \E w \in Workers : CallClaim(w)
             \/ \E g \in held : CallHeartbeat(g) \/ Abandon(g)
             \/ \E g \in held, next \in Status, progress \in ProgressValues :
                   CallTransition(g, next, progress)
             \/ \E c \in calls : Lose(c) \/ LeaseLost(c)
             \/ UNCHANGED vars
    BY <1>8, <1>9 DEF Tick, CallRecover, CallOwner, CallClaim, CallHeartbeat, Abandon,
                      CallTransition, Lose, LeaseLost, Send, vars
  <1> HIDE DEF Kept
  <1> QED BY <1>1, <1>2, <1>3, <1>4, <1>5, <1>6, <1>7, <1>9 DEF Next, Kept

\* The deadlines workers know stay true.
LEMMA LeaseKnownStep ==
    ASSUME Sequential, TypeOK, RowsInv, Single, AttemptCurrent, LeaseKnown, [Next]_vars
    PROVE  LeaseKnown'
  <1> DEFINE Known(g) == /\ IsActive(pdf_job'[g.job])
                         /\ pdf_job'[g.job].lease_owner = g.worker
                         /\ pdf_job'[g.job].lease_expires_at = g.until
  <1> SUFFICES ASSUME NEW h \in held', h.until > clock' PROVE Known(h)
    BY DEF LeaseKnown
  <1>0. clock \in Nat /\ clock' \in Nat /\ clock <= clock'
    BY ClockStep
  <1>1. ASSUME NEW c \in calls, Claimed(c, h) PROVE Known(h)
    <2>1. /\ h.job \in Jobs /\ h.worker = c.worker /\ h.until = pdf_job'[h.job].lease_expires_at
          /\ pdf_job'[h.job] = ClaimRow(pdf_job[h.job], c.worker, c.now, c.now + LeaseDuration)
      BY <1>1 DEF Claimed, TypeOK
    <2>2. pdf_job[h.job] \in Row
      BY <1>1, <2>1, RowPresent DEF Claimed, Claimable, TypeOK
    <2> QED BY <2>1, <2>2, ClaimFields DEF IsActive, ActiveStatus
  <1>2. ASSUME NEW c \in calls, NEW g \in held, Renewed(c, g, h) PROVE Known(h)
    <2>1. /\ h.worker = c.worker /\ h.job = c.job /\ h.job \in Rows /\ h.worker \in Workers
          /\ h.worker \notin Claimants
          /\ pdf_job[h.job].lease_owner = h.worker
          /\ pdf_job'[h.job].lease_expires_at = h.until
          /\ IsActive(pdf_job'[h.job])
      BY <1>2, NotClaiming DEF Renewed, SameAttempt, AttemptCurrent, LeaseValid
    <2>2. /\ pdf_job[h.job] \in Row /\ h.job \in Rows' /\ h.job \in Jobs
          /\ RowStep(pdf_job[h.job], pdf_job'[h.job], Instants(h.job), Claimants)
      BY <2>1, RowsStay, StepTable DEF Rows, TableStep
    <2>3. pdf_job[h.job].status # "queued"
      BY <1>2, <2>1 DEF Renewed, LeaseValid, IsActive, ActiveStatus
    <2>4. pdf_job'[h.job].lease_owner \in {h.worker, NoWorker}
      BY <2>1, <2>2, <2>3, AttemptRowStep
    <2>5. pdf_job'[h.job].lease_owner # NoWorker
      BY <2>1, <2>2, RowsStep, WorkersAssumption DEF RowsInv, RowInv, LeaseShape
    <2> QED BY <2>1, <2>4, <2>5
  <1>3. CASE h \in held
    <2>1. /\ h.job \in Rows /\ h.until \in Nat /\ h.until > clock
          /\ IsActive(pdf_job[h.job])
          /\ pdf_job[h.job].lease_owner = h.worker
          /\ pdf_job[h.job].lease_expires_at = h.until
      BY <1>0, <1>3 DEF TypeOK, Attempt, AttemptCurrent, LeaseKnown
    <2>2. ASSUME NEW c \in LeaseCalls, c.job = h.job,
                 LeaseValid(pdf_job[h.job], c.worker, c.now),
                 held' = Refreshed(c, pdf_job'[h.job])
          PROVE  Known(h)
      <3>1. c \in calls /\ c \in WorkerCalls /\ c.op \in {"heartbeat", "transition"}
        BY DEF LeaseCalls, WorkerCalls
      <3>2. SameAttempt(c, h)
        BY <1>3, <2>1, <2>2, <3>1 DEF LeaseValid, Single, CallsMatchAttempts
      <3>3. PICK g \in held : /\ SameAttempt(c, g) /\ SameAttempt(h, g)
                              /\ h.until = pdf_job'[h.job].lease_expires_at
                              /\ IsActive(pdf_job'[h.job])
        BY <2>2, <3>2, RefreshedFields
      <3>4. Renewed(c, g, h)
        BY <2>2, <3>1, <3>3 DEF Renewed
      <3> QED BY <1>2, <3>1, <3>4
    <2> QED BY <1>0, <2>1, <2>2, LeaseStep
  <1> HIDE DEF Known
  <1> QED BY <1>1, <1>2, <1>3, HeldStep

\* What holds of workers that make one call at a time.
SequentialInv == TypeOK /\ RowsInv /\ Single /\ AttemptCurrent /\ LeaseKnown

\* It holds to begin with, and every step keeps it.
LEMMA SequentialInductive ==
    ASSUME Sequential
    PROVE  /\ Init => SequentialInv
           /\ SequentialInv /\ [Next]_vars => SequentialInv'
  <1>1. Init => SequentialInv
    BY TypeInit, RowsInit
       DEF Init, SequentialInv, Single, OneCall, OneAttempt, CallsMatchAttempts, WorkerCalls,
           LeaseCalls, AttemptCurrent, LeaseKnown
  <1>2. SequentialInv /\ [Next]_vars => SequentialInv'
    BY TypeStep, RowsStep, SingleStep, AttemptCurrentStep, LeaseKnownStep DEF SequentialInv
  <1> QED BY <1>1, <1>2

\* Two workers never both believe that they own the same job, when each makes
\* one call at a time.
THEOREM ExclusiveLeaseAlways ==
    ASSUME Sequential
    PROVE  Spec => []ExclusiveLease
  <1>1. Init => SequentialInv
    BY SequentialInductive
  <1>2. SequentialInv /\ [Next]_vars => SequentialInv'
    BY SequentialInductive
  <1>3. SequentialInv => ExclusiveLease
    <2> SUFFICES ASSUME SequentialInv, NEW g \in held, NEW h \in held, g.job = h.job, g # h,
                        ~(g.until <= clock), ~(h.until <= clock)
                 PROVE  FALSE
      BY DEF ExclusiveLease
    <2>1. g.until > clock /\ h.until > clock
      BY DEF SequentialInv, TypeOK, Attempt
    <2>2. g.worker = h.worker
      BY <2>1 DEF SequentialInv, LeaseKnown
    <2> QED BY <2>2 DEF SequentialInv, Single, OneAttempt
  <1> QED BY <1>1, <1>2, <1>3, PTL DEF Spec

\* A statement of an earlier attempt has no effect on a later one, when each
\* worker makes one call at a time.
THEOREM AttemptFencedAlways ==
    ASSUME Sequential
    PROVE  Spec => AttemptFenced
  <1> DEFINE Step == \A c \in calls \ calls' :
                        c.op \in {"heartbeat", "transition"} /\ pdf_job'[c.job] # pdf_job[c.job]
                        => pdf_job[c.job].attempt_count = c.attempt
  <1>1. Init => SequentialInv
    BY SequentialInductive
  <1>2. SequentialInv /\ [Next]_vars => SequentialInv'
    BY SequentialInductive
  <1>3. SequentialInv /\ [Next]_vars => Step
    <2> SUFFICES ASSUME SequentialInv, [Next]_vars, NEW c \in calls, c \notin calls',
                        c.op \in {"heartbeat", "transition"}, pdf_job'[c.job] # pdf_job[c.job]
                 PROVE  pdf_job[c.job].attempt_count = c.attempt
      OBVIOUS
    <2>1. ASSUME NEW d \in calls, calls' = calls \ {d} PROVE d = c
      BY <2>1
    <2>2. ASSUME NEW d \in calls, Heartbeat(d) \/ Transition(d)
          PROVE  LeaseValid(pdf_job[c.job], c.worker, c.now)
      BY <2>1, <2>2 DEF Heartbeat, Transition, TransitionMatches, Done
    <2>3. ASSUME NEW d \in calls,
                 Create(d) \/ Cancel(d) \/ Delete(d) \/ Claim(d) \/ RecoverExpired(d)
          PROVE  FALSE
      BY <2>1, <2>3 DEF Create, Cancel, Delete, Claim, RecoverExpired, Done
    <2>4. ~(Tick \/ CallRecover \/ UNCHANGED vars)
      BY DEF Tick, CallRecover, Send, vars
    <2>5. \A op \in {"create", "cancel", "delete"}, j \in Jobs, o \in Owners :
             ~CallOwner(op, j, o)
      BY DEF CallOwner, Send
    <2>6. \A w \in Workers : ~CallClaim(w)
      BY DEF CallClaim, Send
    <2>7. \A g \in held : /\ ~CallHeartbeat(g) /\ ~Abandon(g)
                          /\ \A next \in Status, progress \in ProgressValues :
                                ~CallTransition(g, next, progress)
      BY DEF CallHeartbeat, CallTransition, Abandon, Send
    <2>8. \A d \in calls : ~Lose(d) /\ ~LeaseLost(d)
      BY DEF Lose, LeaseLost
    <2>9. LeaseValid(pdf_job[c.job], c.worker, c.now)
      BY <2>2, <2>3, <2>4, <2>5, <2>6, <2>7, <2>8 DEF Next
    <2> QED BY <2>9 DEF LeaseValid, SequentialInv, AttemptCurrent, LeaseCalls
  <1> QED BY <1>1, <1>2, <1>3, PTL DEF Spec, AttemptFenced

----------------------------------------------------------------------------
(* The refinement of JobLifecycle                                           *)

\* Every job has the attempt limit of the manager that created it.
LimitSame == \A j \in Rows : pdf_job[j].max_attempts = MaxAttempts

\* A step keeps it.
LEMMA LimitStep == TypeOK /\ LimitSame /\ [Next]_vars => LimitSame'
  <1> SUFFICES ASSUME TypeOK, LimitSame, [Next]_vars, NEW j \in Jobs, pdf_job'[j] # NoRow
               PROVE  pdf_job'[j].max_attempts = MaxAttempts
    BY DEF LimitSame, Rows
  <1>1. CASE j \in Rows
    BY <1>1, RowsStay DEF LimitSame
  <1>2. CASE j \notin Rows
    <2>1. pdf_job[j] = NoRow /\ RowStep(pdf_job[j], pdf_job'[j], Instants(j), Claimants)
      BY <1>2, StepTable DEF Rows, TableStep
    <2>2. PICK now \in Nat : pdf_job'[j] = SeedRow(now, Retention, MaxAttempts)
      BY <2>1, RowStatus DEF RowStep
    <2> QED BY <2>2 DEF SeedRow
  <1> QED BY <1>1, <1>2

\* The lifecycle reads the same tables.
LEMMA LifecycleTables ==
    /\ Lifecycle!ActiveStatus = ActiveStatus
    /\ Lifecycle!Status = Status
    /\ Lifecycle!Transitions = Transitions
  <1>1. Lifecycle!ActiveStatus = ActiveStatus
    BY DEF Lifecycle!ActiveStatus, ActiveStatus
  <1>2. Lifecycle!TerminalStatus = TerminalStatus
    BY DEF Lifecycle!TerminalStatus, TerminalStatus
  <1>3. Lifecycle!Status = Status
    BY <1>1, <1>2 DEF Lifecycle!Status, Status
  <1>4. Lifecycle!Transitions = Transitions
    BY <1>3 DEF Lifecycle!Transitions, Transitions
  <1> QED BY <1>1, <1>3, <1>4

\* A step of the queue is a step of the lifecycle: every job makes one of its
\* moves or stays.
LEMMA LifecycleStep ==
    ASSUME TypeOK, RowsInv, LimitSame, [Next]_vars
    PROVE  Lifecycle!Next
  <1>0. /\ pdf_job \in [Jobs -> Row \cup {NoRow}]
        /\ pdf_job' \in [Jobs -> Row \cup {NoRow}]
    BY StepTable DEF TypeOK, TableStep
  <1>1. /\ \A r \in Row : r.status \in Status /\ r.attempt_count \in Nat
        /\ NoRow.status = "absent"
    BY RowStatus DEF Row, NoRow
  <1>2. ASSUME NEW j \in Jobs PROVE Lifecycle!JobStep(j)
    <2> DEFINE r == pdf_job[j]
               s == pdf_job'[j]
    <2>1. RowStep(r, s, Instants(j), Claimants) /\ r \in Row \cup {NoRow}
      BY <1>0, StepTable DEF TableStep
    <2>2. CASE r = NoRow
      <3>1. s = NoRow \/ \E now \in Nat : s = SeedRow(now, Retention, MaxAttempts)
        BY <2>1, <2>2, RowStatus DEF RowStep
      <3>2. CASE s = NoRow
        BY <1>0, <2>2, <3>2 DEF Lifecycle!JobStep, Lifecycle!Stays, Lifecycle!Keeps, Rows
      <3>3. CASE \E now \in Nat : s = SeedRow(now, Retention, MaxAttempts)
        <4>1. /\ s.status = "queued" /\ s.cancel_requested_at = NullTime
              /\ s.attempt_count = 0 /\ s # NoRow
          BY <3>3 DEF SeedRow, NoRow
        <4>2. r.status = "absent"
          BY <2>2 DEF NoRow
        <4> QED BY <1>0, <2>2, <4>1, <4>2
                DEF Lifecycle!JobStep, Lifecycle!Submit, Lifecycle!Moves, Lifecycle!Keeps, Rows
      <3> QED BY <3>1, <3>2, <3>3
    <2>3. CASE r # NoRow
      <3>1. j \in Rows /\ j \in Rows' /\ r \in Row
        BY <2>1, <2>3, RowsStay DEF Rows
      <3>2. RowMove(r, s)
        BY <2>1, <3>1, MoveRowStep DEF RowsInv, LimitSame
      <3> QED BY <1>0, <3>1, <3>2, LifecycleTables
              DEF RowMove, Asked, Lifecycle!Moves, Lifecycle!Keeps, Lifecycle!JobStep,
                  Lifecycle!Start, Lifecycle!Progress, Lifecycle!Retry, Lifecycle!AskToStop,
                  Lifecycle!Stop, Lifecycle!Stays
    <2> QED BY <2>2, <2>3
  <1>3. \A j \in Jobs : /\ pdf_job'[j] \in Row \cup {NoRow}
                        /\ pdf_job'[j].status \in Status \cup {"absent"}
                        /\ j \in Rows' => pdf_job'[j].attempt_count \in Nat
    <2> SUFFICES ASSUME NEW j \in Jobs
                 PROVE  /\ pdf_job'[j] \in Row \cup {NoRow}
                        /\ pdf_job'[j].status \in Status \cup {"absent"}
                        /\ j \in Rows' => pdf_job'[j].attempt_count \in Nat
      OBVIOUS
    <2>1. pdf_job'[j] \in Row \cup {NoRow}
      BY <1>0
    <2>2. j \in Rows' => pdf_job'[j] # NoRow
      BY DEF Rows
    <2>3. CASE pdf_job'[j] = NoRow
      BY <1>1, <2>1, <2>2, <2>3
    <2>4. CASE pdf_job'[j] \in Row
      BY <1>1, <2>1, <2>4
    <2> QED BY <2>1, <2>3, <2>4
  <1> QED BY <1>2, <1>3, LifecycleTables DEF Lifecycle!Next

\* The queue implements the lifecycle, for every set of jobs, workers and
\* owners and however their statements interleave.
THEOREM Refinement == Spec => ImplementsLifecycle
  <1> DEFINE IInv == TypeOK /\ RowsInv /\ LimitSame
  <1>1. Init => IInv
    BY TypeInit, RowsInit DEF Init, LimitSame, Rows
  <1>2. IInv /\ [Next]_vars => IInv'
    BY TypeStep, RowsStep, LimitStep
  <1>3. Init => Lifecycle!Init
    <2> SUFFICES ASSUME Init PROVE Lifecycle!Init
      OBVIOUS
    <2>1. \A j \in Jobs : pdf_job[j] = NoRow /\ j \notin Rows /\ pdf_job[j].status = "absent"
      BY DEF Init, Rows, NoRow
    <2> QED BY <2>1 DEF Lifecycle!Init
  <1>4. IInv /\ [Next]_vars => [Lifecycle!Next]_Lifecycle!vars
    BY LifecycleStep
  <1> QED BY <1>1, <1>2, <1>3, <1>4, PTL DEF Spec, ImplementsLifecycle, Lifecycle!Spec
============================================================================
