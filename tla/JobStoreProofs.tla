--------------------------- MODULE JobStoreProofs ---------------------------
(***************************************************************************)
(* What each statement of JobStore does to a well-formed row: to its type, *)
(* its columns, the invariants of a row, and its place in the lifecycle.   *)
(* The proofs of JobQueueProofs cite these lemmas.                         *)
(***************************************************************************)
EXTENDS JobQueue, TLAPS

----------------------------------------------------------------------------
(* Types                                                                    *)

\* GREATEST of two instants is one of them and reaches both.
LEMMA GreatestNat ==
    ASSUME NEW a \in Nat, NEW b \in Nat
    PROVE  /\ Greatest(a, b) \in Nat
           /\ Greatest(a, b) >= a
           /\ Greatest(a, b) >= b
  BY DEF Greatest

\* COALESCE of a nullable instant with an instant is an instant.
LEMMA CoalesceNat ==
    ASSUME NEW t \in OptTime, NEW a \in Nat
    PROVE  /\ Coalesce(t, a) \in Nat
           /\ Coalesce(t, a) # NullTime
  BY DEF Coalesce, OptTime, NullTime

\* The values the statements compute from the columns of a row.
LEMMA RowValues ==
    ASSUME NEW r \in Row, NEW now \in Nat
    PROVE  /\ r.attempt_count + 1 \in Nat
           /\ r.version + 1 \in Nat \ {0}
           /\ Greatest(r.updated_at, now) \in Nat
           /\ Greatest(now, r.created_at) \in Nat
           /\ TombstoneExpiry(r, now) \in Nat
           /\ now \in OptTime
           /\ NullTime \in OptTime
           /\ \A t \in OptTime : Coalesce(t, Greatest(now, r.created_at)) \in OptTime
  <1>1. /\ r.attempt_count \in Nat /\ r.version \in Nat \ {0} /\ r.updated_at \in Nat
        /\ r.created_at \in Nat /\ r.expires_at \in Nat
    BY DEF Row
  <1>2. TombstoneExpiry(r, now) \in Nat
    BY <1>1 DEF TombstoneExpiry, Greatest, Least
  <1>3. \A a \in Nat : a \in OptTime
    BY DEF OptTime
  <1>4. NullTime \in OptTime
    BY DEF OptTime
  <1>5. Greatest(r.updated_at, now) \in Nat /\ Greatest(now, r.created_at) \in Nat
    BY <1>1, GreatestNat
  <1>6. \A t \in OptTime : Coalesce(t, Greatest(now, r.created_at)) \in OptTime
    BY <1>3, <1>5, CoalesceNat
  <1>7. r.attempt_count + 1 \in Nat /\ r.version + 1 \in Nat \ {0}
    BY <1>1
  <1> QED BY <1>2, <1>3, <1>4, <1>5, <1>6, <1>7

\* The optional instants of a row.
LEMMA RowTimes ==
    ASSUME NEW r \in Row
    PROVE  /\ {r.started_at, r.completed_at, r.heartbeat_at, r.cancel_requested_at,
               r.deletion_requested_at, r.lease_expires_at} \subseteq OptTime
           /\ {r.created_at, r.updated_at, r.available_at, r.expires_at} \subseteq Nat
  BY DEF Row

\* A row that some WHERE clause matched is there.
LEMMA RowPresent ==
    ASSUME NEW r \in Row \cup {NoRow}, r.status # "absent"
    PROVE  r \in Row
  BY DEF NoRow

\* NoRow is told apart from every row by its status.
LEMMA RowStatus ==
    ASSUME NEW r \in Row
    PROVE  r.status \in Status /\ r.status # "absent" /\ r # NoRow
  BY DEF Row, NoRow, Status, ActiveStatus, TerminalStatus

\* The seed of Manager.Create is a row.
LEMMA SeedRowType ==
    ASSUME NEW now \in Nat, NEW d \in Nat \ {0}, NEW n \in Nat \ {0}
    PROVE  SeedRow(now, d, n) \in Row
  BY DEF SeedRow, Row, Status, ErrorCode, OptTime, NullTime

\* A claim yields a row.
LEMMA ClaimRowType ==
    ASSUME NEW r \in Row, NEW w \in Workers, NEW now \in Nat, NEW until \in Nat
    PROVE  ClaimRow(r, w, now, until) \in Row
  <1>0. /\ r.attempt_count + 1 \in Nat /\ r.version + 1 \in Nat \ {0}
        /\ Greatest(r.updated_at, now) \in Nat
        /\ now \in OptTime /\ NullTime \in OptTime
    BY RowValues
  <1>1. Coalesce(r.started_at, Greatest(now, r.created_at)) \in OptTime
    BY RowValues DEF Row
  <1>2. "analyzing" \in Status /\ until \in OptTime
    BY DEF Status, ActiveStatus, OptTime
  <1> QED BY <1>0, <1>1, <1>2 DEF ClaimRow, Row

\* A heartbeat yields a row.
LEMMA HeartbeatRowType ==
    ASSUME NEW r \in Row, NEW now \in Nat, NEW until \in Nat
    PROVE  HeartbeatRow(r, now, until) \in Row
  <1>1. until \in OptTime
    BY DEF OptTime
  <1> QED BY <1>1, RowValues DEF HeartbeatRow, Row

\* A transition yields a row.
LEMMA TransitionRowType ==
    ASSUME NEW r \in Row, NEW next \in Status, NEW p \in 0..100, NEW now \in Nat,
           NEW until \in Nat
    PROVE  TransitionRow(r, next, p, now, until) \in Row
  <1>0. /\ r.attempt_count + 1 \in Nat /\ r.version + 1 \in Nat \ {0}
        /\ Greatest(r.updated_at, now) \in Nat
        /\ now \in OptTime /\ NullTime \in OptTime
    BY RowValues
  <1>1. (IF next = "failed" THEN "worker_reported" ELSE r.error_code) \in ErrorCode
    BY DEF Row, ErrorCode
  <1>2. (IF ReleasesLease(next) THEN NoWorker ELSE r.lease_owner) \in Workers \cup {NoWorker}
    BY DEF Row
  <1>3. /\ (IF ReleasesLease(next) THEN NullTime ELSE until) \in OptTime
        /\ (IF ReleasesLease(next) THEN NullTime ELSE now) \in OptTime
    BY DEF OptTime
  <1>4. (IF next \in TerminalStatus THEN Coalesce(r.completed_at, Greatest(now, r.created_at))
         ELSE r.completed_at) \in OptTime
    BY RowValues DEF Row
  <1> QED BY <1>0, <1>1, <1>2, <1>3, <1>4 DEF TransitionRow, Row

\* Recovery yields a row.
LEMMA RecoverRowType ==
    ASSUME NEW r \in Row, NEW now \in Nat, NEW retryAt \in Nat
    PROVE  RecoverRow(r, now, retryAt) \in Row
  <1>0. /\ r.attempt_count + 1 \in Nat /\ r.version + 1 \in Nat \ {0}
        /\ Greatest(r.updated_at, now) \in Nat
        /\ now \in OptTime /\ NullTime \in OptTime
    BY RowValues
  <1>1. RecoveryOutcome(r) \in Status
    BY DEF RecoveryOutcome, Status, TerminalStatus
  <1>2. (IF RecoveryOutcome(r) = "queued" THEN 0 ELSE r.progress_percent) \in 0..100
    BY DEF Row
  <1>3. (IF RecoveryOutcome(r) = "queued" THEN retryAt ELSE r.available_at) \in Nat
    BY DEF Row
  <1>4. (IF RecoveryOutcome(r) = "failed" THEN "lease_attempts_exhausted" ELSE r.error_code)
        \in ErrorCode
    BY DEF Row, ErrorCode
  <1>5. (IF RecoveryOutcome(r) = "queued" THEN r.completed_at
         ELSE Coalesce(r.completed_at, Greatest(now, r.created_at))) \in OptTime
    BY RowValues DEF Row
  <1> QED BY <1>0, <1>1, <1>2, <1>3, <1>4, <1>5 DEF RecoverRow, Row

\* What a stop request leaves is a row.
LEMMA RequestStopType ==
    ASSUME NEW r \in Row, NEW now \in Nat
    PROVE  RequestStop(r, now) \in Row
  <1>1. (IF r.status = "queued" THEN "cancelled" ELSE r.status) \in Status
    BY DEF Row, Status, TerminalStatus
  <1>2. (IF r.status \in {"queued"} \cup ActiveStatus
         THEN Coalesce(r.cancel_requested_at, Greatest(now, r.created_at))
         ELSE r.cancel_requested_at) \in OptTime
    BY RowValues DEF Row
  <1>3. (IF r.status = "queued" THEN Coalesce(r.completed_at, Greatest(now, r.created_at))
         ELSE r.completed_at) \in OptTime
    BY RowValues DEF Row
  <1> QED BY <1>1, <1>2, <1>3 DEF RequestStop, Row

\* A cancellation yields a row.
LEMMA CancelRowType ==
    ASSUME NEW r \in Row, NEW now \in Nat
    PROVE  CancelRow(r, now) \in Row
  <1>1. PICK s \in Row : s = RequestStop(r, now)
    BY RequestStopType
  <1>2. /\ s.version + 1 \in Nat \ {0}
        /\ Greatest(s.updated_at, now) \in Nat
    BY RowValues
  <1>3. /\ (IF StopIsNews(r) THEN Greatest(s.updated_at, now) ELSE s.updated_at) \in Nat
        /\ (IF StopIsNews(r) THEN s.version + 1 ELSE s.version) \in Nat \ {0}
    BY <1>2 DEF Row
  <1>4. CancelRow(r, now) =
          [s EXCEPT !.updated_at = IF StopIsNews(r) THEN Greatest(s.updated_at, now)
                                   ELSE s.updated_at,
                    !.version    = IF StopIsNews(r) THEN s.version + 1 ELSE s.version]
    BY <1>1 DEF CancelRow
  <1> QED BY <1>3, <1>4 DEF Row

\* A deletion yields a row.
LEMMA DeleteRowType ==
    ASSUME NEW r \in Row, NEW now \in Nat
    PROVE  DeleteRow(r, now) \in Row
  <1>1. PICK s \in Row : s = RequestStop(r, now)
    BY RequestStopType
  <1>2. Coalesce(s.deletion_requested_at, Greatest(now, r.created_at)) \in OptTime
    BY RowValues DEF Row
  <1>3. /\ s.version + 1 \in Nat \ {0}
        /\ Greatest(s.updated_at, now) \in Nat
    BY RowValues
  <1> DEFINE news == StopIsNews(r) \/ r.deletion_requested_at = NullTime
  <1>4. /\ (IF news THEN Greatest(s.updated_at, now) ELSE s.updated_at) \in Nat
        /\ (IF news THEN s.version + 1 ELSE s.version) \in Nat \ {0}
    BY <1>3 DEF Row
  <1>6. TombstoneExpiry(r, now) \in Nat
    BY RowValues
  <1>5. DeleteRow(r, now) =
          [s EXCEPT !.deletion_requested_at =
                        Coalesce(s.deletion_requested_at, Greatest(now, r.created_at)),
                    !.expires_at = TombstoneExpiry(r, now),
                    !.updated_at = IF news THEN Greatest(s.updated_at, now) ELSE s.updated_at,
                    !.version    = IF news THEN s.version + 1 ELSE s.version]
    BY <1>1 DEF DeleteRow
  <1> HIDE DEF news
  <1> QED BY <1>2, <1>4, <1>5, <1>6 DEF Row

----------------------------------------------------------------------------
(* The columns each statement leaves.                                       *)

\* What a claim writes.
LEMMA ClaimFields ==
    ASSUME NEW r \in Row, NEW w, NEW now, NEW until
    PROVE  LET s == ClaimRow(r, w, now, until)
           IN /\ s.status = "analyzing"
              /\ s.progress_percent = r.progress_percent
              /\ s.attempt_count = r.attempt_count + 1
              /\ s.max_attempts = r.max_attempts
              /\ s.available_at = r.available_at
              /\ s.lease_owner = w
              /\ s.lease_expires_at = until
              /\ s.heartbeat_at = now
              /\ s.cancel_requested_at = r.cancel_requested_at
              /\ s.deletion_requested_at = r.deletion_requested_at
              /\ s.error_code = r.error_code
              /\ s.created_at = r.created_at
              /\ s.updated_at = Greatest(r.updated_at, now)
              /\ s.started_at = Coalesce(r.started_at, Greatest(now, r.created_at))
              /\ s.completed_at = r.completed_at
              /\ s.expires_at = r.expires_at
              /\ s.version = r.version + 1
  BY DEF ClaimRow, Row

\* What a heartbeat writes, unless the job was asked to stop.
LEMMA HeartbeatFields ==
    ASSUME NEW r \in Row, NEW now, NEW until, ~StopRequested(r)
    PROVE  LET s == HeartbeatRow(r, now, until)
           IN /\ s.status = r.status
              /\ s.progress_percent = r.progress_percent
              /\ s.attempt_count = r.attempt_count
              /\ s.max_attempts = r.max_attempts
              /\ s.available_at = r.available_at
              /\ s.lease_owner = r.lease_owner
              /\ s.lease_expires_at = until
              /\ s.heartbeat_at = now
              /\ s.cancel_requested_at = r.cancel_requested_at
              /\ s.deletion_requested_at = r.deletion_requested_at
              /\ s.error_code = r.error_code
              /\ s.created_at = r.created_at
              /\ s.updated_at = Greatest(r.updated_at, now)
              /\ s.started_at = r.started_at
              /\ s.completed_at = r.completed_at
              /\ s.expires_at = r.expires_at
              /\ s.version = r.version + 1
  BY DEF HeartbeatRow, Row

\* What a worker's transition writes.
LEMMA TransitionFields ==
    ASSUME NEW r \in Row, NEW next, NEW p, NEW now, NEW until
    PROVE  LET s == TransitionRow(r, next, p, now, until)
           IN /\ s.status = next
              /\ s.progress_percent = p
              /\ s.attempt_count = r.attempt_count
              /\ s.max_attempts = r.max_attempts
              /\ s.available_at = r.available_at
              /\ s.lease_owner = IF next \in TerminalStatus THEN NoWorker ELSE r.lease_owner
              /\ s.lease_expires_at = IF next \in TerminalStatus THEN NullTime ELSE until
              /\ s.heartbeat_at = IF next \in TerminalStatus THEN NullTime ELSE now
              /\ s.cancel_requested_at = r.cancel_requested_at
              /\ s.deletion_requested_at = r.deletion_requested_at
              /\ s.error_code = IF next = "failed" THEN "worker_reported" ELSE r.error_code
              /\ s.created_at = r.created_at
              /\ s.updated_at = Greatest(r.updated_at, now)
              /\ s.started_at = r.started_at
              /\ s.completed_at = IF next \in TerminalStatus
                                  THEN Coalesce(r.completed_at, Greatest(now, r.created_at))
                                  ELSE r.completed_at
              /\ s.expires_at = r.expires_at
              /\ s.version = r.version + 1
  BY DEF TransitionRow, ReleasesLease, Row

\* What recovery writes.
LEMMA RecoverFields ==
    ASSUME NEW r \in Row, NEW now, NEW retryAt
    PROVE  LET s == RecoverRow(r, now, retryAt)
               o == RecoveryOutcome(r)
           IN /\ s.status = o
              /\ s.progress_percent = IF o = "queued" THEN 0 ELSE r.progress_percent
              /\ s.attempt_count = r.attempt_count
              /\ s.max_attempts = r.max_attempts
              /\ s.available_at = IF o = "queued" THEN retryAt ELSE r.available_at
              /\ s.lease_owner = NoWorker
              /\ s.lease_expires_at = NullTime
              /\ s.heartbeat_at = NullTime
              /\ s.cancel_requested_at = r.cancel_requested_at
              /\ s.deletion_requested_at = r.deletion_requested_at
              /\ s.error_code = IF o = "failed" THEN "lease_attempts_exhausted"
                                ELSE r.error_code
              /\ s.created_at = r.created_at
              /\ s.updated_at = Greatest(r.updated_at, now)
              /\ s.started_at = r.started_at
              /\ s.completed_at = IF o = "queued" THEN r.completed_at
                                  ELSE Coalesce(r.completed_at, Greatest(now, r.created_at))
              /\ s.expires_at = r.expires_at
              /\ s.version = r.version + 1
  BY DEF RecoverRow, Row

\* What a cancellation writes.
LEMMA CancelFields ==
    ASSUME NEW r \in Row, NEW now
    PROVE  LET s == CancelRow(r, now)
               at == Greatest(now, r.created_at)
           IN /\ s.status = IF r.status = "queued" THEN "cancelled" ELSE r.status
              /\ s.progress_percent = r.progress_percent
              /\ s.attempt_count = r.attempt_count
              /\ s.max_attempts = r.max_attempts
              /\ s.available_at = r.available_at
              /\ s.lease_owner = r.lease_owner
              /\ s.lease_expires_at = r.lease_expires_at
              /\ s.heartbeat_at = r.heartbeat_at
              /\ s.cancel_requested_at = IF r.status \in {"queued"} \cup ActiveStatus
                                         THEN Coalesce(r.cancel_requested_at, at)
                                         ELSE r.cancel_requested_at
              /\ s.deletion_requested_at = r.deletion_requested_at
              /\ s.error_code = r.error_code
              /\ s.created_at = r.created_at
              /\ s.updated_at = IF StopIsNews(r) THEN Greatest(r.updated_at, now)
                                ELSE r.updated_at
              /\ s.started_at = r.started_at
              /\ s.completed_at = IF r.status = "queued" THEN Coalesce(r.completed_at, at)
                                  ELSE r.completed_at
              /\ s.expires_at = r.expires_at
              /\ s.version = IF StopIsNews(r) THEN r.version + 1 ELSE r.version
  BY DEF CancelRow, RequestStop, Row

\* What a deletion writes.
LEMMA DeleteFields ==
    ASSUME NEW r \in Row, NEW now
    PROVE  LET s == DeleteRow(r, now)
               at == Greatest(now, r.created_at)
               news == StopIsNews(r) \/ r.deletion_requested_at = NullTime
           IN /\ s.status = IF r.status = "queued" THEN "cancelled" ELSE r.status
              /\ s.progress_percent = r.progress_percent
              /\ s.attempt_count = r.attempt_count
              /\ s.max_attempts = r.max_attempts
              /\ s.available_at = r.available_at
              /\ s.lease_owner = r.lease_owner
              /\ s.lease_expires_at = r.lease_expires_at
              /\ s.heartbeat_at = r.heartbeat_at
              /\ s.cancel_requested_at = IF r.status \in {"queued"} \cup ActiveStatus
                                         THEN Coalesce(r.cancel_requested_at, at)
                                         ELSE r.cancel_requested_at
              /\ s.deletion_requested_at = Coalesce(r.deletion_requested_at, at)
              /\ s.error_code = r.error_code
              /\ s.created_at = r.created_at
              /\ s.updated_at = IF news THEN Greatest(r.updated_at, now) ELSE r.updated_at
              /\ s.started_at = r.started_at
              /\ s.completed_at = IF r.status = "queued" THEN Coalesce(r.completed_at, at)
                                  ELSE r.completed_at
              /\ s.expires_at = TombstoneExpiry(r, now)
              /\ s.version = IF news THEN r.version + 1 ELSE r.version
  BY DEF DeleteRow, RequestStop, Row

\* A stop request that is no news leaves the row as it is.
LEMMA NoNews ==
    ASSUME NEW r \in Row, NEW now \in Nat, ~StopIsNews(r)
    PROVE  RequestStop(r, now) = r
  BY DEF RequestStop, StopIsNews, IsActive, Coalesce, Row

----------------------------------------------------------------------------
(* The invariants of a row.  LeaseShape, BudgetKept, StopKept and           *)
(* OutcomeKept rest on one another: recovery fails a job rather than requeue*)
(* it by its attempts, and cancels it by its stop request.                  *)

RowInv(r) == LeaseShape(r) /\ BudgetKept(r) /\ StopKept(r) /\ OutcomeKept(r)

\* A new job satisfies the row invariants.
LEMMA SeedRowInv ==
    ASSUME NEW now \in Nat
    PROVE  RowInv(SeedRow(now, Retention, MaxAttempts))
  BY PolicyAssumption
     DEF RowInv, SeedRow, LeaseShape, BudgetKept, StopKept, OutcomeKept, IsActive,
         StopRequested, ActiveStatus, TerminalStatus, NullTime

\* A claim keeps the row invariants.
LEMMA ClaimRowInv ==
    ASSUME NEW r \in Row, NEW w \in Workers, NEW now \in Nat,
           RowInv(r), Claimable(r, now)
    PROVE  RowInv(ClaimRow(r, w, now, now + LeaseDuration))
  <1> DEFINE s == ClaimRow(r, w, now, now + LeaseDuration)
  <1>1. /\ s.status = "analyzing"
        /\ s.progress_percent = r.progress_percent
        /\ s.attempt_count = r.attempt_count + 1
        /\ s.max_attempts = r.max_attempts
        /\ s.lease_owner = w
        /\ s.lease_expires_at = now + LeaseDuration
        /\ s.heartbeat_at = now
        /\ s.cancel_requested_at = r.cancel_requested_at
        /\ s.deletion_requested_at = r.deletion_requested_at
        /\ s.error_code = r.error_code
        /\ s.started_at = Coalesce(r.started_at, Greatest(now, r.created_at))
        /\ s.completed_at = r.completed_at
    BY ClaimFields
  <1>2. LeaseShape(s)
    BY <1>1 DEF LeaseShape, IsActive, ActiveStatus, NullTime
  <1>3. BudgetKept(s)
    <2>1. s.started_at # NullTime
      BY <1>1, CoalesceNat, RowValues DEF Row
    <2>2. r.attempt_count \in Nat /\ r.max_attempts \in Nat
      BY DEF Row
    <2> QED BY <1>1, <2>1, <2>2 DEF RowInv, BudgetKept, Claimable, OutcomeKept
  <1>4. StopKept(s)
    BY <1>1 DEF RowInv, StopKept, Claimable, StopRequested, IsActive, ActiveStatus
  <1>5. OutcomeKept(s)
    BY <1>1 DEF RowInv, OutcomeKept, Claimable, TerminalStatus
  <1> QED BY <1>2, <1>3, <1>4, <1>5 DEF RowInv

\* A heartbeat keeps the row invariants.
LEMMA HeartbeatRowInv ==
    ASSUME NEW r \in Row, NEW w \in Workers, NEW now \in Nat,
           RowInv(r), LeaseValid(r, w, now)
    PROVE  RowInv(HeartbeatRow(r, now, now + LeaseDuration))
  <1> DEFINE s == HeartbeatRow(r, now, now + LeaseDuration)
  <1>1. CASE StopRequested(r)
    BY <1>1 DEF HeartbeatRow
  <1>2. CASE ~StopRequested(r)
    <2>1. /\ s.status = r.status
          /\ s.progress_percent = r.progress_percent
          /\ s.attempt_count = r.attempt_count
          /\ s.max_attempts = r.max_attempts
          /\ s.lease_owner = r.lease_owner
          /\ s.lease_expires_at = now + LeaseDuration
          /\ s.heartbeat_at = now
          /\ s.cancel_requested_at = r.cancel_requested_at
          /\ s.deletion_requested_at = r.deletion_requested_at
          /\ s.error_code = r.error_code
          /\ s.started_at = r.started_at
          /\ s.completed_at = r.completed_at
      BY <1>2, HeartbeatFields
    <2>2. LeaseShape(s)
      BY <2>1 DEF RowInv, LeaseShape, LeaseValid, IsActive, NullTime
    <2> HIDE DEF s
    <2>3. BudgetKept(s)
      BY <2>1 DEF RowInv, BudgetKept
    <2>4. StopKept(s)
      BY <2>1 DEF RowInv, StopKept, StopRequested, IsActive
    <2>5. OutcomeKept(s)
      BY <2>1 DEF RowInv, OutcomeKept
    <2> QED BY <2>2, <2>3, <2>4, <2>5 DEF RowInv, s
  <1> QED BY <1>1, <1>2

\* A transition that a worker may request keeps the row invariants.
LEMMA TransitionRowInv ==
    ASSUME NEW r \in Row, NEW w \in Workers, NEW now \in Nat, NEW expected \in ActiveStatus,
           NEW next \in Status, NEW p \in 0..100,
           RowInv(r), WorkerMayRequest(expected, next, p),
           TransitionMatches(r, w, expected, next, p, now)
    PROVE  RowInv(TransitionRow(r, next, p, now, now + LeaseDuration))
  <1> DEFINE s == TransitionRow(r, next, p, now, now + LeaseDuration)
  <1>1. /\ s.status = next
        /\ s.progress_percent = p
        /\ s.attempt_count = r.attempt_count
        /\ s.max_attempts = r.max_attempts
        /\ s.lease_owner = IF next \in TerminalStatus THEN NoWorker ELSE r.lease_owner
        /\ s.lease_expires_at = IF next \in TerminalStatus THEN NullTime ELSE now + LeaseDuration
        /\ s.heartbeat_at = IF next \in TerminalStatus THEN NullTime ELSE now
        /\ s.cancel_requested_at = r.cancel_requested_at
        /\ s.deletion_requested_at = r.deletion_requested_at
        /\ s.error_code = IF next = "failed" THEN "worker_reported" ELSE r.error_code
        /\ s.started_at = r.started_at
        /\ s.completed_at = IF next \in TerminalStatus
                            THEN Coalesce(r.completed_at, Greatest(now, r.created_at))
                            ELSE r.completed_at
    BY TransitionFields
  <1>2. /\ r.status \in ActiveStatus
        /\ r.error_code = "none"
        /\ r.completed_at = NullTime
        /\ r.lease_owner \in Workers
    BY DEF RowInv, OutcomeKept, LeaseShape, TransitionMatches, LeaseValid, IsActive,
           ActiveStatus, TerminalStatus
  <1>3. next \in ActiveStatus \cup {"completed", "failed", "cancelled"}
    BY DEF WorkerMayRequest, Status, TerminalStatus
  <1>4. Coalesce(r.completed_at, Greatest(now, r.created_at)) # NullTime
    BY RowValues, CoalesceNat DEF Row
  <1> HIDE DEF s
  <1>5. LeaseShape(s)
    BY <1>1, <1>2, <1>3 DEF LeaseShape, IsActive, ActiveStatus, TerminalStatus, NullTime
  <1>6. BudgetKept(s)
    BY <1>1, <1>2, <1>3 DEF RowInv, BudgetKept, ActiveStatus
  <1>7. StopKept(s)
    BY <1>1, <1>2, <1>3
       DEF RowInv, StopKept, TransitionMatches, StopRequested, IsActive, ActiveStatus
  <1>8. OutcomeKept(s)
    BY <1>1, <1>2, <1>3, <1>4
       DEF OutcomeKept, WorkerMayRequest, ActiveStatus, TerminalStatus
  <1> QED BY <1>5, <1>6, <1>7, <1>8 DEF RowInv, s

\* Recovery keeps the row invariants.
LEMMA RecoverRowInv ==
    ASSUME NEW r \in Row, NEW now \in Nat, NEW retryAt \in Nat,
           RowInv(r), LeaseExpired(r, now)
    PROVE  RowInv(RecoverRow(r, now, retryAt))
  <1> DEFINE s == RecoverRow(r, now, retryAt)
             o == RecoveryOutcome(r)
  <1>1. /\ s.status = o
        /\ s.progress_percent = IF o = "queued" THEN 0 ELSE r.progress_percent
        /\ s.attempt_count = r.attempt_count
        /\ s.max_attempts = r.max_attempts
        /\ s.lease_owner = NoWorker
        /\ s.lease_expires_at = NullTime
        /\ s.heartbeat_at = NullTime
        /\ s.cancel_requested_at = r.cancel_requested_at
        /\ s.deletion_requested_at = r.deletion_requested_at
        /\ s.error_code = IF o = "failed" THEN "lease_attempts_exhausted" ELSE r.error_code
        /\ s.started_at = r.started_at
        /\ s.completed_at = IF o = "queued" THEN r.completed_at
                            ELSE Coalesce(r.completed_at, Greatest(now, r.created_at))
    BY RecoverFields
  <1>2. /\ r.status \in ActiveStatus
        /\ r.error_code = "none"
        /\ r.completed_at = NullTime
    BY DEF RowInv, OutcomeKept, LeaseExpired, IsActive, ActiveStatus, TerminalStatus
  <1>3. Coalesce(r.completed_at, Greatest(now, r.created_at)) # NullTime
    BY RowValues, CoalesceNat DEF Row
  <1>4. r.attempt_count \in Nat /\ r.max_attempts \in Nat
    BY DEF Row
  <1>5. /\ o \in {"queued", "failed", "cancelled"}
        /\ o = "queued" <=> ~StopRequested(r) /\ r.attempt_count < r.max_attempts
        /\ o = "cancelled" <=> StopRequested(r)
    BY <1>4 DEF RecoveryOutcome
  <1> HIDE DEF s, o
  <1>6. LeaseShape(s)
    BY <1>1, <1>5 DEF LeaseShape, IsActive, ActiveStatus
  <1>7. BudgetKept(s)
    BY <1>1, <1>2, <1>4, <1>5 DEF RowInv, BudgetKept, ActiveStatus
  <1>8. StopKept(s)
    BY <1>1, <1>2, <1>5 DEF RowInv, StopKept, StopRequested, IsActive, ActiveStatus
  <1>9. OutcomeKept(s)
    BY <1>1, <1>2, <1>3, <1>5 DEF OutcomeKept, ActiveStatus, TerminalStatus
  <1> QED BY <1>6, <1>7, <1>8, <1>9 DEF RowInv, s

\* The columns of a row after a stop request.
LEMMA RequestStopFields ==
    ASSUME NEW r \in Row, NEW now \in Nat
    PROVE  LET s  == RequestStop(r, now)
               at == Greatest(now, r.created_at)
           IN /\ s \in Row
              /\ s.status = IF r.status = "queued" THEN "cancelled" ELSE r.status
              /\ s.progress_percent = r.progress_percent
              /\ s.attempt_count = r.attempt_count
              /\ s.max_attempts = r.max_attempts
              /\ s.lease_owner = r.lease_owner
              /\ s.lease_expires_at = r.lease_expires_at
              /\ s.heartbeat_at = r.heartbeat_at
              /\ s.cancel_requested_at = IF r.status \in {"queued"} \cup ActiveStatus
                                         THEN Coalesce(r.cancel_requested_at, at)
                                         ELSE r.cancel_requested_at
              /\ s.deletion_requested_at = r.deletion_requested_at
              /\ s.error_code = r.error_code
              /\ s.started_at = r.started_at
              /\ s.completed_at = IF r.status = "queued" THEN Coalesce(r.completed_at, at)
                                  ELSE r.completed_at
              /\ s.created_at = r.created_at
              /\ s.updated_at = r.updated_at
              /\ s.available_at = r.available_at
              /\ s.expires_at = r.expires_at
              /\ s.version = r.version
  <1>1. RequestStop(r, now) \in Row
    BY RequestStopType
  <1> QED BY <1>1 DEF RequestStop, Row

\* Two rows agree on the columns of the row invariants, a tombstone apart.
SameCore(s, q) ==
    /\ s.status = q.status
    /\ s.progress_percent = q.progress_percent
    /\ s.attempt_count = q.attempt_count
    /\ s.max_attempts = q.max_attempts
    /\ s.lease_owner = q.lease_owner
    /\ s.lease_expires_at = q.lease_expires_at
    /\ s.heartbeat_at = q.heartbeat_at
    /\ s.cancel_requested_at = q.cancel_requested_at
    /\ s.error_code = q.error_code
    /\ s.started_at = q.started_at
    /\ s.completed_at = q.completed_at

\* A row that agrees with RequestStop's result satisfies the row
\* invariants.
LEMMA RequestStopInv ==
    ASSUME NEW r \in Row, NEW now \in Nat, NEW s \in Row, RowInv(r),
           SameCore(s, RequestStop(r, now))
    PROVE  RowInv(s)
  <1>1. /\ s.status = IF r.status = "queued" THEN "cancelled" ELSE r.status
        /\ s.progress_percent = r.progress_percent
        /\ s.attempt_count = r.attempt_count
        /\ s.max_attempts = r.max_attempts
        /\ s.lease_owner = r.lease_owner
        /\ s.lease_expires_at = r.lease_expires_at
        /\ s.heartbeat_at = r.heartbeat_at
        /\ s.cancel_requested_at = IF r.status \in {"queued"} \cup ActiveStatus
                                   THEN Coalesce(r.cancel_requested_at, Greatest(now, r.created_at))
                                   ELSE r.cancel_requested_at
        /\ s.error_code = r.error_code
        /\ s.started_at = r.started_at
        /\ s.completed_at = IF r.status = "queued"
                            THEN Coalesce(r.completed_at, Greatest(now, r.created_at))
                            ELSE r.completed_at
    BY RequestStopFields DEF SameCore
  <1>2. /\ Coalesce(r.completed_at, Greatest(now, r.created_at)) # NullTime
        /\ Coalesce(r.cancel_requested_at, Greatest(now, r.created_at)) # NullTime
    BY RowValues, CoalesceNat DEF Row
  <1>3. LeaseShape(s)
    BY <1>1 DEF RowInv, LeaseShape, IsActive, ActiveStatus
  <1>4. BudgetKept(s)
    BY <1>1 DEF RowInv, BudgetKept, ActiveStatus
  <1>5. StopKept(s)
    BY <1>1, <1>2 DEF RowInv, StopKept, StopRequested, IsActive, ActiveStatus
  <1>6. OutcomeKept(s)
    BY <1>1, <1>2 DEF RowInv, OutcomeKept, TerminalStatus
  <1> QED BY <1>3, <1>4, <1>5, <1>6 DEF RowInv

\* A cancellation keeps the row invariants.
LEMMA CancelRowInv ==
    ASSUME NEW r \in Row, NEW now \in Nat, RowInv(r)
    PROVE  RowInv(CancelRow(r, now))
  <1>1. PICK q \in Row : q = RequestStop(r, now)
    BY RequestStopType
  <1>2. PICK s \in Row : s = CancelRow(r, now)
    BY CancelRowType
  <1>3. SameCore(s, q)
    BY <1>1, <1>2 DEF CancelRow, SameCore, Row
  <1> QED BY <1>1, <1>2, <1>3, RequestStopInv

\* A deletion keeps the row invariants.
LEMMA DeleteRowInv ==
    ASSUME NEW r \in Row, NEW now \in Nat, RowInv(r)
    PROVE  RowInv(DeleteRow(r, now))
  <1>1. PICK q \in Row : q = RequestStop(r, now)
    BY RequestStopType
  <1>2. PICK s \in Row : s = DeleteRow(r, now)
    BY DeleteRowType
  <1>3. SameCore(s, q)
    BY <1>1, <1>2 DEF DeleteRow, SameCore, Row
  <1> QED BY <1>1, <1>2, <1>3, RequestStopInv

----------------------------------------------------------------------------
(* RowAccepted: what the CHECK constraint and validateStoredJob demand.     *)

\* The instant t of row r lies between its creation and its last change.
Covered(t, r) == t = NullTime \/ (r.created_at <= t /\ t <= r.updated_at)

\* RowAccepted, column by column.
LEMMA AcceptedColumns ==
    ASSUME NEW r \in Row
    PROVE  RowAccepted(r) <=>
              /\ r.attempt_count <= r.max_attempts
              /\ r.created_at <= r.updated_at
              /\ r.created_at <= r.available_at
              /\ r.created_at < r.expires_at
              /\ r.lease_expires_at = NullTime \/ r.created_at <= r.lease_expires_at
              /\ Covered(r.started_at, r)
              /\ Covered(r.completed_at, r)
              /\ Covered(r.heartbeat_at, r)
              /\ Covered(r.cancel_requested_at, r)
              /\ Covered(r.deletion_requested_at, r)
  BY DEF Row, RowAccepted, PdfJobTimestampOrder, ValidateStoredJob, Covered, OptTime, NullTime

\* An instant stays covered when the row's last change moves on, and an
\* instant written together with it is covered.
LEMMA CoveredLater ==
    ASSUME NEW r \in Row, NEW s \in Row, NEW now \in Nat, NEW t \in OptTime,
           s.created_at = r.created_at, s.updated_at = Greatest(r.updated_at, now),
           r.created_at <= r.updated_at
    PROVE  /\ Covered(t, r) => Covered(t, s)
           /\ r.created_at <= now => Covered(now, s)
           /\ Covered(t, r) => Covered(Coalesce(t, Greatest(now, r.created_at)), s)
           /\ s.created_at <= s.updated_at
  BY DEF Row, Covered, OptTime, NullTime, Greatest, Coalesce

\* A new job is accepted.
LEMMA SeedAccepted ==
    ASSUME NEW now \in Nat
    PROVE  RowAccepted(SeedRow(now, Retention, MaxAttempts))
  <1>1. PICK s \in Row : s = SeedRow(now, Retention, MaxAttempts)
    BY SeedRowType, PolicyAssumption
  <1> QED BY <1>1, AcceptedColumns, PolicyAssumption DEF SeedRow, Covered

\* A claim leaves an accepted row: a row is claimable only once it is created.
LEMMA ClaimAccepted ==
    ASSUME NEW r \in Row, NEW w \in Workers, NEW now \in Nat, RowAccepted(r), Claimable(r, now)
    PROVE  RowAccepted(ClaimRow(r, w, now, now + LeaseDuration))
  <1>1. PICK s \in Row : s = ClaimRow(r, w, now, now + LeaseDuration)
    BY ClaimRowType, PolicyAssumption
  <1>2. r.created_at <= now
    BY AcceptedColumns DEF Claimable, Row
  <1>3. s.attempt_count <= s.max_attempts
    BY <1>1, ClaimFields DEF Claimable, Row
  <1>4. s.created_at <= s.lease_expires_at
    BY <1>1, <1>2, ClaimFields, PolicyAssumption DEF Row
  <1> QED
    BY <1>1, <1>2, <1>3, <1>4, ClaimFields, AcceptedColumns, RowTimes, CoveredLater

\* A heartbeat sent after the job was created leaves an accepted row.
LEMMA HeartbeatAccepted ==
    ASSUME NEW r \in Row, NEW now \in Nat, RowAccepted(r), r.created_at <= now
    PROVE  RowAccepted(HeartbeatRow(r, now, now + LeaseDuration))
  <1>1. CASE StopRequested(r)
    BY <1>1 DEF HeartbeatRow
  <1>2. CASE ~StopRequested(r)
    <2>1. PICK s \in Row : s = HeartbeatRow(r, now, now + LeaseDuration)
      BY HeartbeatRowType, PolicyAssumption
    <2>2. s.created_at <= s.lease_expires_at
      BY <1>2, <2>1, HeartbeatFields, PolicyAssumption DEF Row
    <2> QED
      BY <1>2, <2>1, <2>2, HeartbeatFields, AcceptedColumns, RowTimes, CoveredLater
  <1> QED BY <1>1, <1>2

\* So does a transition.
LEMMA TransitionAccepted ==
    ASSUME NEW r \in Row, NEW next \in Status, NEW p \in 0..100, NEW now \in Nat,
           RowAccepted(r), r.created_at <= now
    PROVE  RowAccepted(TransitionRow(r, next, p, now, now + LeaseDuration))
  <1>0. now + LeaseDuration \in Nat
    BY PolicyAssumption
  <1>1. PICK s \in Row : s = TransitionRow(r, next, p, now, now + LeaseDuration)
    BY <1>0, TransitionRowType
  <1>2. s.lease_expires_at = NullTime \/ s.created_at <= s.lease_expires_at
    BY <1>1, TransitionFields, PolicyAssumption DEF Row
  <1>3. Covered(NullTime, s)
    BY DEF Covered
  <1> QED
    BY <1>1, <1>2, <1>3, TransitionFields, AcceptedColumns, RowTimes, CoveredLater

\* Recovery leaves an accepted row: the lease it takes back expired after the
\* job was created.
LEMMA RecoverAccepted ==
    ASSUME NEW r \in Row, NEW now \in Nat, RowAccepted(r), LeaseShape(r), LeaseExpired(r, now)
    PROVE  RowAccepted(RecoverRow(r, now, now + RetryDelay))
  <1>1. PICK s \in Row : s = RecoverRow(r, now, now + RetryDelay)
    BY RecoverRowType, PolicyAssumption
  <1>2. r.created_at <= now
    BY AcceptedColumns, PolicyAssumption, RowTimes
       DEF LeaseExpired, LeaseShape, Row, OptTime, NullTime
  <1>3. s.created_at <= s.available_at
    BY <1>1, <1>2, RecoverFields, AcceptedColumns, PolicyAssumption DEF Row
  <1>4. Covered(NullTime, s)
    BY DEF Covered
  <1> QED
    BY <1>1, <1>2, <1>3, <1>4, RecoverFields, AcceptedColumns, RowTimes, CoveredLater

\* A cancellation leaves an accepted row, whenever it was sent.
LEMMA CancelAccepted ==
    ASSUME NEW r \in Row, NEW now \in Nat, RowAccepted(r)
    PROVE  RowAccepted(CancelRow(r, now))
  <1>1. PICK s \in Row : s = CancelRow(r, now)
    BY CancelRowType
  <1>2. CASE StopIsNews(r)
    BY <1>1, <1>2, CancelFields, AcceptedColumns, RowTimes, CoveredLater
  <1>3. CASE ~StopIsNews(r)
    <2>1. s = r
      BY <1>1, <1>3, NoNews DEF CancelRow, Row
    <2> QED BY <1>1, <2>1
  <1> QED BY <1>2, <1>3

\* So does a deletion: the tombstone expires after the job was created.
LEMMA DeleteAccepted ==
    ASSUME NEW r \in Row, NEW now \in Nat, RowAccepted(r)
    PROVE  RowAccepted(DeleteRow(r, now))
  <1>1. PICK s \in Row : s = DeleteRow(r, now)
    BY DeleteRowType
  <1>2. s.created_at < s.expires_at
    BY <1>1, DeleteFields, AcceptedColumns DEF TombstoneExpiry, Least, Greatest, Row
  <1>3. CASE StopIsNews(r) \/ r.deletion_requested_at = NullTime
    BY <1>1, <1>2, <1>3, DeleteFields, AcceptedColumns, RowTimes, CoveredLater
  <1>4. CASE ~(StopIsNews(r) \/ r.deletion_requested_at = NullTime)
    <2>1. RequestStop(r, now) = r
      BY <1>4, NoNews
    <2>2. Coalesce(r.deletion_requested_at, Greatest(now, r.created_at)) = r.deletion_requested_at
      BY <1>4 DEF Coalesce
    <2>3. s = [r EXCEPT !.expires_at = s.expires_at]
      BY <1>1, <1>4, <2>1, <2>2 DEF DeleteRow, Row
    <2> QED BY <1>1, <1>2, <2>3, AcceptedColumns DEF Covered, Row
  <1> QED BY <1>3, <1>4

----------------------------------------------------------------------------
(* Every step of the queue changes every row by one statement, or not at    *)
(* all.  Type correctness, the row invariants, the action properties and the*)
(* refinement are read off this classification.  The set `instants' holds   *)
(* those that statements under a lease carry, `claimants' the workers whose *)
(* claim is in flight.                                                      *)

RowStep(r, s, instants, claimants) ==
    \/ s = r
    \/ r = NoRow /\ \E now \in Nat : s = SeedRow(now, Retention, MaxAttempts)
    \/ /\ r \in Row
       /\ \E now \in Nat :
             \/ \E w \in Workers :
                   /\ w \in claimants
                   /\ Claimable(r, now)
                   /\ s = ClaimRow(r, w, now, now + LeaseDuration)
             \/ \E w \in Workers :
                   /\ now \in instants
                   /\ LeaseValid(r, w, now)
                   /\ s = HeartbeatRow(r, now, now + LeaseDuration)
             \/ \E w \in Workers, expected \in ActiveStatus, next \in Status, p \in 0..100 :
                   /\ now \in instants
                   /\ WorkerMayRequest(expected, next, p)
                   /\ TransitionMatches(r, w, expected, next, p, now)
                   /\ s = TransitionRow(r, next, p, now, now + LeaseDuration)
             \/ LeaseExpired(r, now) /\ s = RecoverRow(r, now, now + RetryDelay)
             \/ s = CancelRow(r, now)
             \/ s = DeleteRow(r, now)

\* A statement never removes a row and leaves a row of the right type.
LEMMA RowStepType ==
    ASSUME NEW r \in Row \cup {NoRow}, NEW s, NEW T, NEW W, RowStep(r, s, T, W)
    PROVE  /\ s \in Row \cup {NoRow}
           /\ r \in Row => s \in Row
  <1>1. \A now \in Nat : now + LeaseDuration \in Nat /\ now + RetryDelay \in Nat
    BY PolicyAssumption
  <1>2. CASE s = r
    BY <1>2
  <1>3. CASE r = NoRow /\ \E now \in Nat : s = SeedRow(now, Retention, MaxAttempts)
    BY <1>3, SeedRowType, RowStatus, PolicyAssumption
  <1>4. ASSUME r \in Row, NEW now \in Nat, NEW w \in Workers,
               s = ClaimRow(r, w, now, now + LeaseDuration)
        PROVE  s \in Row
    BY <1>1, <1>4, ClaimRowType
  <1>5. ASSUME r \in Row, NEW now \in Nat, s = HeartbeatRow(r, now, now + LeaseDuration)
        PROVE  s \in Row
    BY <1>1, <1>5, HeartbeatRowType
  <1>6. ASSUME r \in Row, NEW now \in Nat, NEW next \in Status, NEW p \in 0..100,
               s = TransitionRow(r, next, p, now, now + LeaseDuration)
        PROVE  s \in Row
    BY <1>1, <1>6, TransitionRowType
  <1>7. ASSUME r \in Row, NEW now \in Nat, s = RecoverRow(r, now, now + RetryDelay)
        PROVE  s \in Row
    BY <1>1, <1>7, RecoverRowType
  <1>8. ASSUME r \in Row, NEW now \in Nat, s = CancelRow(r, now) \/ s = DeleteRow(r, now)
        PROVE  s \in Row
    BY <1>8, CancelRowType, DeleteRowType
  <1> QED BY <1>2, <1>3, <1>4, <1>5, <1>6, <1>7, <1>8 DEF RowStep

\* Every statement keeps the row invariants.
LEMMA RowStepInv ==
    ASSUME NEW r \in Row, NEW s, NEW T, NEW W, RowInv(r), RowStep(r, s, T, W)
    PROVE  RowInv(s)
  <1>1. ASSUME NEW now \in Nat, NEW w \in Workers, Claimable(r, now),
               s = ClaimRow(r, w, now, now + LeaseDuration)
        PROVE  RowInv(s)
    BY <1>1, ClaimRowInv
  <1>2. ASSUME NEW now \in Nat, NEW w \in Workers, LeaseValid(r, w, now),
               s = HeartbeatRow(r, now, now + LeaseDuration)
        PROVE  RowInv(s)
    BY <1>2, HeartbeatRowInv
  <1>3. ASSUME NEW now \in Nat, NEW w \in Workers, NEW expected \in ActiveStatus,
               NEW next \in Status, NEW p \in 0..100, WorkerMayRequest(expected, next, p),
               TransitionMatches(r, w, expected, next, p, now),
               s = TransitionRow(r, next, p, now, now + LeaseDuration)
        PROVE  RowInv(s)
    BY <1>3, TransitionRowInv
  <1>4. ASSUME NEW now \in Nat, LeaseExpired(r, now), s = RecoverRow(r, now, now + RetryDelay)
        PROVE  RowInv(s)
    <2>1. now + RetryDelay \in Nat
      BY PolicyAssumption
    <2> QED BY <1>4, <2>1, RecoverRowInv
  <1>5. ASSUME NEW now \in Nat, s = CancelRow(r, now) \/ s = DeleteRow(r, now)
        PROVE  RowInv(s)
    BY <1>5, CancelRowInv, DeleteRowInv
  <1>6. r # NoRow
    BY RowStatus
  <1> QED BY <1>1, <1>2, <1>3, <1>4, <1>5, <1>6 DEF RowStep

\* No statement touches the creation instant or the attempt limit of a row.
LEMMA OriginRowStep ==
    ASSUME NEW r \in Row, NEW s, NEW T, NEW W, RowStep(r, s, T, W)
    PROVE  s.created_at = r.created_at /\ s.max_attempts = r.max_attempts
  <1> DEFINE Kept == s.created_at = r.created_at /\ s.max_attempts = r.max_attempts
  <1>1. \A now, w, until : s = ClaimRow(r, w, now, until) => Kept
    BY ClaimFields
  <1>2. \A now, until : s = HeartbeatRow(r, now, until) => Kept
    BY HeartbeatFields DEF HeartbeatRow
  <1>3. \A next, p, now, until : s = TransitionRow(r, next, p, now, until) => Kept
    BY TransitionFields
  <1>4. \A now, retryAt : s = RecoverRow(r, now, retryAt) => Kept
    BY RecoverFields
  <1>5. \A now : s = CancelRow(r, now) \/ s = DeleteRow(r, now) => Kept
    BY CancelFields, DeleteFields
  <1>6. r # NoRow /\ (s = r => Kept)
    BY RowStatus
  <1> HIDE DEF Kept
  <1> QED BY <1>1, <1>2, <1>3, <1>4, <1>5, <1>6 DEF RowStep, Kept

\* Every statement leaves an accepted row, provided that those under a lease
\* were sent after the job was created.
LEMMA AcceptedRowStep ==
    ASSUME NEW r \in Row, NEW s, NEW T, NEW W, RowInv(r), RowAccepted(r), RowStep(r, s, T, W),
           \A t \in T : r.created_at <= t
    PROVE  RowAccepted(s)
  <1>1. ASSUME NEW now \in Nat, NEW w \in Workers, Claimable(r, now),
               s = ClaimRow(r, w, now, now + LeaseDuration)
        PROVE  RowAccepted(s)
    BY <1>1, ClaimAccepted
  <1>2. ASSUME NEW now \in Nat, now \in T, s = HeartbeatRow(r, now, now + LeaseDuration)
        PROVE  RowAccepted(s)
    BY <1>2, HeartbeatAccepted
  <1>3. ASSUME NEW now \in Nat, now \in T, NEW next \in Status, NEW p \in 0..100,
               s = TransitionRow(r, next, p, now, now + LeaseDuration)
        PROVE  RowAccepted(s)
    BY <1>3, TransitionAccepted
  <1>4. ASSUME NEW now \in Nat, LeaseExpired(r, now), s = RecoverRow(r, now, now + RetryDelay)
        PROVE  RowAccepted(s)
    BY <1>4, RecoverAccepted DEF RowInv
  <1>5. ASSUME NEW now \in Nat, s = CancelRow(r, now) \/ s = DeleteRow(r, now)
        PROVE  RowAccepted(s)
    BY <1>5, CancelAccepted, DeleteAccepted
  <1>6. r # NoRow
    BY RowStatus
  <1> QED BY <1>1, <1>2, <1>3, <1>4, <1>5, <1>6 DEF RowStep

\* Only a requeue takes progress back.
LEMMA ProgressRowStep ==
    ASSUME NEW r \in Row, NEW s, NEW T, NEW W, RowStep(r, s, T, W)
    PROVE  \/ s.progress_percent >= r.progress_percent
           \/ IsActive(r) /\ s.status = "queued"
  <1> DEFINE Kept == \/ s.progress_percent >= r.progress_percent
                     \/ IsActive(r) /\ s.status = "queued"
  <1>0. r.progress_percent \in 0..100
    BY DEF Row
  <1>1. \A now, w, until : s = ClaimRow(r, w, now, until) => Kept
    BY <1>0, ClaimFields
  <1>2. \A now, until : s = HeartbeatRow(r, now, until) => Kept
    BY <1>0, HeartbeatFields DEF HeartbeatRow
  <1>3. ASSUME NEW w, NEW expected, NEW next, NEW p, NEW now, NEW until,
               TransitionMatches(r, w, expected, next, p, now),
               s = TransitionRow(r, next, p, now, until)
        PROVE  Kept
    BY <1>0, <1>3, TransitionFields DEF TransitionMatches
  <1>4. ASSUME NEW now, NEW retryAt, LeaseExpired(r, now), s = RecoverRow(r, now, retryAt)
        PROVE  Kept
    BY <1>0, <1>4, RecoverFields DEF LeaseExpired
  <1>5. \A now : s = CancelRow(r, now) \/ s = DeleteRow(r, now) => Kept
    BY <1>0, CancelFields, DeleteFields
  <1>6. r # NoRow /\ (s = r => Kept)
    BY <1>0, RowStatus
  <1> HIDE DEF Kept
  <1> QED BY <1>1, <1>2, <1>3, <1>4, <1>5, <1>6 DEF RowStep, Kept

\* A statement that changes a row counts one version up, and never moves the
\* retention deadline out; a repeated deletion may lower it silently.
LEMMA VersionRowStep ==
    ASSUME NEW r \in Row, NEW s, NEW T, NEW W, RowStep(r, s, T, W)
    PROVE  /\ s.expires_at <= r.expires_at
           /\ \/ s = [r EXCEPT !.expires_at = s.expires_at]
              \/ s.version = r.version + 1
  <1> DEFINE Kept == /\ s.expires_at <= r.expires_at
                     /\ \/ s = [r EXCEPT !.expires_at = s.expires_at]
                        \/ s.version = r.version + 1
  <1>0. /\ r # NoRow
        /\ r.expires_at \in Nat
        /\ r = [r EXCEPT !.expires_at = r.expires_at]
    BY RowStatus DEF Row
  <1>1. \A now, w, until : s = ClaimRow(r, w, now, until) => Kept
    BY <1>0, ClaimFields
  <1>2. \A now, until : s = HeartbeatRow(r, now, until) => Kept
    BY <1>0, HeartbeatFields DEF HeartbeatRow
  <1>3. \A next, p, now, until : s = TransitionRow(r, next, p, now, until) => Kept
    BY <1>0, TransitionFields
  <1>4. \A now, retryAt : s = RecoverRow(r, now, retryAt) => Kept
    BY <1>0, RecoverFields
  <1>5. ASSUME NEW now \in Nat, s = CancelRow(r, now)
        PROVE Kept
    <2>1. CASE StopIsNews(r)
      BY <1>0, <1>5, <2>1, CancelFields
    <2>2. CASE ~StopIsNews(r)
      <3>1. RequestStop(r, now) = r
        BY <2>2, NoNews
      <3>2. CancelRow(r, now) = r
        BY <2>2, <3>1 DEF CancelRow, Row
      <3> QED BY <1>0, <1>5, <3>2
    <2> QED BY <2>1, <2>2
  <1>6. ASSUME NEW now \in Nat, s = DeleteRow(r, now)
        PROVE  Kept
    <2>0. s.expires_at = TombstoneExpiry(r, now) /\ TombstoneExpiry(r, now) <= r.expires_at
      BY <1>6, DeleteFields DEF Row, TombstoneExpiry, Least, Greatest
    <2>1. CASE StopIsNews(r) \/ r.deletion_requested_at = NullTime
      BY <1>6, <2>0, <2>1, DeleteFields
    <2>2. CASE ~(StopIsNews(r) \/ r.deletion_requested_at = NullTime)
      <3>1. RequestStop(r, now) = r
        BY <2>2, NoNews
      <3>2. Coalesce(r.deletion_requested_at, Greatest(now, r.created_at)) = r.deletion_requested_at
        BY <2>2 DEF Coalesce
      <3>3. s = [r EXCEPT !.expires_at = s.expires_at]
        BY <1>6, <2>0, <2>2, <3>1, <3>2 DEF DeleteRow, Row
      <3> QED BY <2>0, <3>3
    <2> QED BY <2>1, <2>2
  <1>7. s = r => Kept
    BY <1>0
  <1> HIDE DEF Kept
  <1> QED BY <1>0, <1>1, <1>2, <1>3, <1>4, <1>5, <1>6, <1>7 DEF RowStep, Kept

\* A row changes its attempt by a claim only, and its owner by a claim or by
\* losing it.
LEMMA AttemptRowStep ==
    ASSUME NEW r \in Row, NEW s, NEW T, NEW W, RowStep(r, s, T, W)
    PROVE  \/ r.status = "queued" /\ s.lease_owner \in W
           \/ s.attempt_count = r.attempt_count /\ s.lease_owner \in {r.lease_owner, NoWorker}
  <1> DEFINE Kept == /\ s.attempt_count = r.attempt_count
                     /\ s.lease_owner \in {r.lease_owner, NoWorker}
  <1>1. \A now, w, until : Claimable(r, now) /\ w \in W /\ s = ClaimRow(r, w, now, until) =>
           r.status = "queued" /\ s.lease_owner \in W
    BY ClaimFields DEF Claimable
  <1>2. \A now, until : s = HeartbeatRow(r, now, until) => Kept
    BY HeartbeatFields DEF HeartbeatRow
  <1>3. \A next, p, now, until : s = TransitionRow(r, next, p, now, until) => Kept
    BY TransitionFields
  <1>4. \A now, retryAt : s = RecoverRow(r, now, retryAt) => Kept
    BY RecoverFields
  <1>5. \A now : s = CancelRow(r, now) \/ s = DeleteRow(r, now) => Kept
    BY CancelFields, DeleteFields
  <1>6. r # NoRow /\ (s = r => Kept)
    BY RowStatus
  <1> HIDE DEF Kept
  <1> QED BY <1>1, <1>2, <1>3, <1>4, <1>5, <1>6 DEF RowStep, Kept

----------------------------------------------------------------------------
(* The moves of JobLifecycle                                                *)

Asked(r) == r.cancel_requested_at # NullTime

\* A job's move in JobLifecycle, between two rows of the table.
RowMove(r, s) ==
    \/ /\ r.status = "queued" /\ ~Asked(r) /\ r.attempt_count < MaxAttempts
       /\ s.status = "analyzing" /\ s.attempt_count = r.attempt_count + 1 /\ ~Asked(s)
    \/ /\ r.status \in ActiveStatus /\ ~Asked(r)
       /\ s.status \in (ActiveStatus \cup {"completed", "failed"}) \cap Transitions[r.status]
       /\ s.status # r.status
       /\ s.attempt_count = r.attempt_count /\ ~Asked(s)
    \/ /\ r.status \in ActiveStatus /\ ~Asked(r) /\ r.attempt_count < MaxAttempts
       /\ s.status = "queued" /\ s.attempt_count = r.attempt_count /\ ~Asked(s)
    \/ /\ r.status \in ActiveStatus \cup {"queued"} /\ ~Asked(r) /\ Asked(s)
       /\ \/ r.status \in ActiveStatus /\ s.status = r.status
          \/ r.status = "queued" /\ s.status = "cancelled"
       /\ s.attempt_count = r.attempt_count
    \/ /\ r.status \in ActiveStatus /\ Asked(r)
       /\ s.status = "cancelled" /\ s.attempt_count = r.attempt_count /\ Asked(s)
    \/ /\ s.status = r.status /\ s.attempt_count = r.attempt_count /\ (Asked(s) <=> Asked(r))

\* The edges of the transitions table that leave an active status.
LEMMA ActiveEdges ==
    ASSUME NEW a \in ActiveStatus
    PROVE  /\ "failed" \in Transitions[a]
           /\ a \notin Transitions[a]
           /\ a # "queued" /\ a \notin TerminalStatus
  BY DEF ActiveStatus, Transitions, Status, TerminalStatus

\* A stop request in the words of the lifecycle.
LEMMA StopMove ==
    ASSUME NEW r \in Row, NEW s, NEW now \in Nat, RowInv(r),
           s = CancelRow(r, now) \/ s = DeleteRow(r, now)
    PROVE  RowMove(r, s)
  <1>1. /\ s.status = IF r.status = "queued" THEN "cancelled" ELSE r.status
        /\ s.attempt_count = r.attempt_count
        /\ s.cancel_requested_at = IF r.status \in {"queued"} \cup ActiveStatus
                                   THEN Coalesce(r.cancel_requested_at, Greatest(now, r.created_at))
                                   ELSE r.cancel_requested_at
    BY CancelFields, DeleteFields
  <1>2. Coalesce(r.cancel_requested_at, Greatest(now, r.created_at)) # NullTime
    BY RowValues, CoalesceNat DEF Row
  <1>3. r.status = "queued" => ~Asked(r)
    BY DEF RowInv, StopKept, StopRequested, Asked
  <1> QED BY <1>1, <1>2, <1>3 DEF RowMove, Asked, ActiveStatus

\* Every statement makes at most one move of the lifecycle.
LEMMA MoveRowStep ==
    ASSUME NEW r \in Row, NEW s, NEW T, NEW W, RowStep(r, s, T, W), RowInv(r),
           r.max_attempts = MaxAttempts
    PROVE  RowMove(r, s)
  <1>0. /\ r # NoRow
        /\ r.attempt_count \in Nat
        /\ IsActive(r) => (StopRequested(r) <=> Asked(r))
    BY RowStatus DEF Row, RowInv, StopKept, StopRequested, Asked
  <1>1. ASSUME NEW now \in Nat, NEW w \in Workers, Claimable(r, now),
               s = ClaimRow(r, w, now, now + LeaseDuration)
        PROVE  RowMove(r, s)
    BY <1>0, <1>1, ClaimFields DEF Claimable, StopRequested, RowMove, Asked
  <1>2. ASSUME NEW now \in Nat, s = HeartbeatRow(r, now, now + LeaseDuration)
        PROVE  RowMove(r, s)
    BY <1>2, HeartbeatFields DEF HeartbeatRow, RowMove, Asked
  <1>3. ASSUME NEW now \in Nat, NEW w \in Workers, NEW expected \in ActiveStatus,
               NEW next \in Status, NEW p \in 0..100, WorkerMayRequest(expected, next, p),
               TransitionMatches(r, w, expected, next, p, now),
               s = TransitionRow(r, next, p, now, now + LeaseDuration)
        PROVE  RowMove(r, s)
    <2>1. /\ r.status = expected /\ IsActive(r)
          /\ Asked(r) <=> next = "cancelled"
          /\ next \in Transitions[expected]
          /\ next \in ActiveStatus \cup {"completed", "failed", "cancelled"}
      BY <1>0, <1>3 DEF TransitionMatches, LeaseValid, WorkerMayRequest, ValidateTransition,
                        CanTransitionTo, Status, TerminalStatus
    <2>2. s.status = next /\ s.attempt_count = r.attempt_count /\ (Asked(s) <=> Asked(r))
      BY <1>3, TransitionFields DEF Asked
    <2>3. next # r.status
      BY <2>1, ActiveEdges
    <2>4. CASE next = "cancelled"
      BY <2>1, <2>2, <2>4 DEF RowMove
    <2>5. CASE next # "cancelled"
      BY <2>1, <2>2, <2>3, <2>5 DEF RowMove
    <2> QED BY <2>4, <2>5
  <1>4. ASSUME NEW now \in Nat, LeaseExpired(r, now), s = RecoverRow(r, now, now + RetryDelay)
        PROVE  RowMove(r, s)
    <2>1. r.status \in ActiveStatus /\ (StopRequested(r) <=> Asked(r))
      BY <1>0, <1>4 DEF LeaseExpired, IsActive
    <2>2. /\ s.status = RecoveryOutcome(r) /\ s.attempt_count = r.attempt_count
          /\ Asked(s) <=> Asked(r)
      BY <1>4, RecoverFields DEF Asked
    <2>3. "failed" \in Transitions[r.status] /\ r.status \notin {"failed", "queued"}
      BY <2>1, ActiveEdges DEF TerminalStatus
    <2>4. CASE StopRequested(r)
      BY <2>1, <2>2, <2>4 DEF RecoveryOutcome, RowMove
    <2>5. CASE ~StopRequested(r) /\ r.attempt_count >= r.max_attempts
      BY <2>1, <2>2, <2>3, <2>5 DEF RecoveryOutcome, RowMove
    <2>6. CASE ~StopRequested(r) /\ ~(r.attempt_count >= r.max_attempts)
      BY <1>0, <2>1, <2>2, <2>6, PolicyAssumption DEF RecoveryOutcome, RowMove
    <2> QED BY <2>4, <2>5, <2>6
  <1>5. ASSUME NEW now \in Nat, s = CancelRow(r, now) \/ s = DeleteRow(r, now)
        PROVE  RowMove(r, s)
    BY <1>5, StopMove
  <1>6. s = r => RowMove(r, s)
    BY DEF RowMove
  <1> QED BY <1>0, <1>1, <1>2, <1>3, <1>4, <1>5, <1>6 DEF RowStep
============================================================================
