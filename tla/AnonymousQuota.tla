--------------------------- MODULE AnonymousQuota ---------------------------
(***************************************************************************)
(* Fixed-window quotas of anonymous clients: QuotaManager on top of        *)
(* PostgresQuotaStore (internal/anonymous/quota.go and                     *)
(* storage_quota_postgres.go), composed with the sessions they charge.     *)
(*                                                                         *)
(* A charge is one transaction.  Its instant and window are chosen before  *)
(* it begins (Begin...).  It locks the active session row (LockSession),   *)
(* then the counter row of the address (LockAddress), reads both usages,   *)
(* decides in Go, increments and commits (Charge).  Row locks last until   *)
(* the transaction ends.  A new session is charged to the address only.    *)
(*                                                                         *)
(* ensureIPUsage and SELECT ... FOR UPDATE are one step: both wait for the *)
(* transaction that inserted or locked the counter row, and a row that     *)
(* does not exist counts zero.                                             *)
(***************************************************************************)
EXTENDS AnonymousSession, Sequences

CONSTANTS
    Connections,    \* database connections, at most one transaction on each
    Policies,       \* limits of the deployed API processes
    Charges         \* metric and amount of what clients consume

Counts == {"uploads", "jobs"}
Metrics == Counts \cup {"bytes"}
AddressMetrics == Metrics \cup {"sessions"}

MaxInt32 == 2147483647

\* QuotaLimits.Validate and UsageDelta.validate: counts fit int4 columns.
ASSUME QuotaPolicyAssumption ==
    /\ Policies # {}
    /\ \A p \in Policies :
          /\ p.window \in Nat \ {0}
          /\ p.session \in [Metrics -> Nat \ {0}]
          /\ p.address \in [AddressMetrics -> Nat \ {0}]
          /\ \A m \in Counts : p.session[m] <= MaxInt32
          /\ \A m \in Counts \cup {"sessions"} : p.address[m] <= MaxInt32
    /\ \A c \in Charges : c[1] \in Metrics /\ c[2] \in Nat \ {0}

\* Session ids and address digests have a fixed length.
ASSUME QuotaFiniteAssumption == IsFiniteSet(Sessions) /\ IsFiniteSet(IPs)

VARIABLES
    anonymous_usage,    \* counters of a session, for each address and window
    anonymous_ip_usage, \* counters of an address, for each window
    txs                 \* the transaction of each connection

quotaVars == <<anonymous_usage, anonymous_ip_usage, txs>>
vars == <<sessionVars, quotaVars>>

----------------------------------------------------------------------------
\* Windows are identified by their first instant.
Windows == 0..MaxClock

WindowOf(p, now) == now - (now % p.window)

Idle == [op |-> "idle"]

\* A transaction is the row locks it holds, in the order it took them, and what
\* it read under them.
CreationTx ==
    [op : {"creation"}, policy : Policies, ip : IPs, now : Windows, locks : Nat,
     address_read : [AddressMetrics -> Nat]]
ConsumeTx ==
    [op : {"consume"}, policy : Policies, session : Sessions, ip : IPs, charge : Charges,
     now : Windows, locks : Nat,
     address_read : [AddressMetrics -> Nat], session_read : [Metrics -> Nat]]

Window(t) == WindowOf(t.policy, t.now)

SessionRow(t) == <<"session", t.session>>
AddressRow(t) == <<"address", t.ip, Window(t)>>

\* Faulty variant: bytes are charged to the address first.
LockOrderByCharge(t) ==
    CASE t.op = "creation"                              -> <<AddressRow(t)>>
      [] t.op = "consume" /\ t.charge[1] = "bytes"      -> <<AddressRow(t), SessionRow(t)>>
      [] t.op = "consume" /\ t.charge[1] # "bytes"      -> <<SessionRow(t), AddressRow(t)>>

LockOrder(t) ==
    IF t.op = "creation" THEN <<AddressRow(t)>> ELSE <<SessionRow(t), AddressRow(t)>>

Active == {k \in Connections : txs[k] # Idle}
Held(t) == {LockOrder(t)[i] : i \in 1 .. t.locks}
Wants(t, row) == t.locks < Len(LockOrder(t)) /\ LockOrder(t)[t.locks + 1] = row

\* Faulty variant: counters are read without FOR UPDATE.
RowFreeCounters(row) == row[1] = "session" => \A k \in Active : row \notin Held(txs[k])

RowFree(row) == \A k \in Active : row \notin Held(txs[k])

\* COALESCE(SUM(...), 0)
SumOf(f) == MapThenSumSet(LAMBDA x : f[x], DOMAIN f)

\* Faulty variant: what the session spent from other addresses is not counted.
SessionUsageHere(s, ip, w) == anonymous_usage[<<s, ip, w>>]

\* readSessionUsage: the sum over all addresses.
SessionUsage(s, ip, w) ==
    [m \in Metrics |-> SumOf([a \in IPs |-> anonymous_usage[<<s, a, w>>][m]])]

\* Written so that no sum can overflow.
Exceeds(current, delta, limit) == current > limit \/ delta > limit - current

Delta(t, m) == IF m = t.charge[1] THEN t.charge[2] ELSE 0

\* checkScopedLimits for both scopes: every metric, also those not charged.
WithinLimits(t) ==
    \A m \in Metrics :
        /\ ~Exceeds(t.session_read[m], Delta(t, m), t.policy.session[m])
        /\ ~Exceeds(t.address_read[m], Delta(t, m), t.policy.address[m])

----------------------------------------------------------------------------
Init ==
    /\ SessionInit
    /\ anonymous_usage = [key \in Sessions \X IPs \X Windows |-> [m \in Metrics |-> 0]]
    /\ anonymous_ip_usage = [key \in IPs \X Windows |-> [m \in AddressMetrics |-> 0]]
    /\ txs = [k \in Connections |-> Idle]

Begin(k, t) ==
    /\ txs[k] = Idle
    /\ txs' = [txs EXCEPT ![k] = t]
    /\ UNCHANGED <<sessionVars, anonymous_usage, anonymous_ip_usage>>

\* QuotaManager.ConsumeSessionCreation
BeginCreation(k, p, ip, now) ==
    Begin(k, [op |-> "creation", policy |-> p, ip |-> ip, now |-> now, locks |-> 0,
              address_read |-> [m \in AddressMetrics |-> 0]])

\* QuotaManager.consume
BeginConsume(k, p, s, ip, charge, now) ==
    Begin(k, [op |-> "consume", policy |-> p, session |-> s, ip |-> ip, charge |-> charge,
              now |-> now, locks |-> 0,
              address_read |-> [m \in AddressMetrics |-> 0],
              session_read |-> [m \in Metrics |-> 0]])

End(k) ==
    /\ txs' = [txs EXCEPT ![k] = Idle]
    /\ UNCHANGED sessionVars

\* Rolled back: the process dies, the context is cancelled, COMMIT fails.
Rollback(k) ==
    /\ k \in Active
    /\ End(k)
    /\ UNCHANGED <<anonymous_usage, anonymous_ip_usage>>

\* Faulty variant: a revoked session may still be charged.
ChargeableRevoked(t) ==
    t.session \in Known /\ ~Expired(anonymous_session[t.session], t.now)

\* WHERE of lockActiveSession.
Chargeable(t) ==
    /\ t.session \in Known
    /\ ~Revoked(anonymous_session[t.session])
    /\ ~Expired(anonymous_session[t.session], t.now)

LockSession(k) ==
    LET t == txs[k]
    IN /\ t.op = "consume"
       /\ Wants(t, SessionRow(t))
       /\ RowFree(SessionRow(t))
       /\ Chargeable(t)
       /\ txs' = [txs EXCEPT ![k].locks = @ + 1]
       /\ UNCHANGED <<sessionVars, anonymous_usage, anonymous_ip_usage>>

\* ErrSessionInactive
SessionInactive(k) ==
    LET t == txs[k]
    IN /\ t.op = "consume"
       /\ Wants(t, SessionRow(t))
       /\ ~Chargeable(t)
       /\ Rollback(k)

\* ensureIPUsage, readIPUsageForUpdate and, for a session, readSessionUsage.
LockAddress(k) ==
    LET t == txs[k]
        locked == [t EXCEPT !.locks = @ + 1,
                            !.address_read = anonymous_ip_usage[<<t.ip, Window(t)>>]]
    IN /\ k \in Active
       /\ Wants(t, AddressRow(t))
       /\ RowFree(AddressRow(t))
       /\ txs' = [txs EXCEPT ![k] =
             IF t.op = "creation" THEN locked
             ELSE [locked EXCEPT !.session_read = SessionUsage(t.session, t.ip, Window(t))]]
       /\ UNCHANGED <<sessionVars, anonymous_usage, anonymous_ip_usage>>

LocksTaken(t) == t.locks = Len(LockOrder(t))

CreationAllowed(t) == ~Exceeds(t.address_read["sessions"], 1, t.policy.address["sessions"])

\* Increments are relative to the stored counters.
ChargeAddress(t, m, amount) ==
    anonymous_ip_usage' = [anonymous_ip_usage EXCEPT ![<<t.ip, Window(t)>>][m] = @ + amount]

\* ConsumeSessionCreation commits.
ChargeCreation(k) ==
    LET t == txs[k]
    IN /\ t.op = "creation"
       /\ LocksTaken(t)
       /\ CreationAllowed(t)
       /\ ChargeAddress(t, "sessions", 1)
       /\ End(k)
       /\ UNCHANGED anonymous_usage

\* Faulty variant: a repeated key replaces the counters.
ChargeSessionReplace(t) ==
    anonymous_usage' = [anonymous_usage EXCEPT ![<<t.session, t.ip, Window(t)>>] =
        [m \in Metrics |-> Delta(t, m)]]

\* INSERT ... ON CONFLICT DO UPDATE
ChargeSession(t) ==
    anonymous_usage' =
        [anonymous_usage EXCEPT ![<<t.session, t.ip, Window(t)>>][t.charge[1]] = @ + t.charge[2]]

\* Consume commits.
Charge(k) ==
    LET t == txs[k]
    IN /\ t.op = "consume"
       /\ LocksTaken(t)
       /\ WithinLimits(t)
       /\ ChargeSession(t)
       /\ ChargeAddress(t, t.charge[1], t.charge[2])
       /\ End(k)

\* QuotaExceededError
Exceeded(k) ==
    LET t == txs[k]
    IN /\ k \in Active
       /\ LocksTaken(t)
       /\ IF t.op = "creation" THEN ~CreationAllowed(t) ELSE ~WithinLimits(t)
       /\ Rollback(k)

\* Statements of the session manager wait for the transaction that locks the
\* row.
SessionRowStatement(r) ==
    /\ RowFree(<<"session", r.session>>)
    /\ RowStatement(r)
    /\ UNCHANGED quotaVars

Next ==
    \/ SessionStep /\ UNCHANGED quotaVars
    \/ \E r \in requests : SessionRowStatement(r)
    \/ \E k \in Connections, p \in Policies, ip \in IPs, now \in Readings :
          BeginCreation(k, p, ip, now)
    \/ \E k \in Connections, p \in Policies, s \in Sessions, ip \in IPs,
          c \in Charges, now \in Readings :
          BeginConsume(k, p, s, ip, c, now)
    \/ \E k \in Connections : LockSession(k)
    \/ \E k \in Connections : SessionInactive(k)
    \/ \E k \in Connections : LockAddress(k)
    \/ \E k \in Connections : ChargeCreation(k)
    \/ \E k \in Connections : Charge(k)
    \/ \E k \in Connections : Exceeded(k)
    \/ \E k \in Connections : Rollback(k)

Spec == Init /\ [][Next]_vars

----------------------------------------------------------------------------
\* Every variable has its type; the counts of a session fit their int4 columns.
TypeOK ==
    /\ SessionTypeOK
    /\ anonymous_usage \in [Sessions \X IPs \X Windows -> [Metrics -> Nat]]
    /\ \A key \in Sessions \X IPs \X Windows, m \in Counts :
          anonymous_usage[key][m] <= MaxInt32
    /\ anonymous_ip_usage \in [IPs \X Windows -> [AddressMetrics -> Nat]]
    /\ txs \in [Connections -> CreationTx \cup ConsumeTx \cup {Idle}]
    /\ \A k \in Active : txs[k].locks <= Len(LockOrder(txs[k]))

\* In a window no session and no address spends more than the most generous
\* policy in force allows, however many transactions charge the same session
\* from several addresses, or the same address for several sessions, at once.
LimitsKept ==
    \A w \in Windows :
        /\ \A s \in Sessions, m \in Metrics : \E p \in Policies :
              SumOf([a \in IPs |-> anonymous_usage[<<s, a, w>>][m]]) <= p.session[m]
        /\ \A ip \in IPs, m \in AddressMetrics : \E p \in Policies :
              anonymous_ip_usage[<<ip, w>>][m] <= p.address[m]

\* The two tables tell the same story: what an address has spent in a window is
\* what all sessions together have spent from it.
UsageBalanced ==
    \A ip \in IPs, w \in Windows, m \in Metrics :
        anonymous_ip_usage[<<ip, w>>][m] =
            SumOf([s \in Sessions |-> anonymous_usage[<<s, ip, w>>][m]])

\* The usage a transaction decides on, and reports, is still the stored usage
\* when it decides.
DecisionsCurrent ==
    \A k \in Active :
        LET t == txs[k]
            w == Window(t)
        IN LocksTaken(t) =>
              /\ t.address_read = anonymous_ip_usage[<<t.ip, w>>]
              /\ t.op = "consume" => t.session_read = [m \in Metrics |->
                    SumOf([a \in IPs |-> anonymous_usage[<<t.session, a, w>>][m]])]

\* The row j waits for is locked by a member of K.
WaitsFor(j, K) ==
    \E i \in K : \E row \in Held(txs[i]) : Wants(txs[j], row)

\* Transactions never wait for each other in a circle: of any transactions
\* together, one waits for none of the others.
NoCircularWait ==
    \A K \in SUBSET Active : K # {} => \E k \in K : ~WaitsFor(k, K)

\* A session that has been revoked spends nothing more, not even by a
\* transaction that was under way when it was revoked.
RevokedSpendsNothing ==
    [][\A s \in Known :
          Revoked(anonymous_session[s]) =>
              \A ip \in IPs, w \in Windows :
                  anonymous_usage'[<<s, ip, w>>] = anonymous_usage[<<s, ip, w>>]]_vars
============================================================================
