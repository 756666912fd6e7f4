-------------------------- MODULE AnonymousSession --------------------------
(***************************************************************************)
(* Anonymous capability sessions: Manager on top of PostgresSessionStore   *)
(* (internal/anonymous/session.go and storage_postgres.go).                *)
(*                                                                         *)
(* Authenticate and Revoke run no transaction.  They read the row (Get),   *)
(* check it in Go, read the clock (Admit), and then send one more          *)
(* statement (TouchActive, RevokeRow); the row may change between any two  *)
(* of these steps, and the caller may give up after any of them (Lose).    *)
(* Clocks of API processes may lag behind each other.                      *)
(*                                                                         *)
(* The token is reduced to the secret it carries: Parse and Matches accept *)
(* exactly the secret the session was created with.  `identities' collects *)
(* the successful authentications.                                         *)
(***************************************************************************)
EXTENDS Integers, FiniteSets, FiniteSetsExt

CONSTANTS
    Sessions,       \* ids of anonymous sessions
    Secrets,        \* secrets, as random as the ids
    IPs,            \* digests of client addresses
    SessionTTL,     \* Manager.ttl
    MaxSkew         \* how far the clock of an API process may lag behind

\* Bounds of the model; the code has none of them.
CONSTANTS
    MaxClock,       \* the clock stops here
    MaxRequests     \* Authenticate and Revoke calls in progress at once

\* What NewManager insists on; and the clock shows numbers.
ASSUME SessionPolicyAssumption ==
    /\ SessionTTL \in Nat \ {0}
    /\ MaxSkew \in Nat
    /\ MaxClock \in Nat

VARIABLES
    anonymous_session,  \* the table: a row, or NoRow, for each id
    clock,              \* the latest instant any process reads
    requests,           \* Authenticate and Revoke calls in progress
    identities          \* successful authentications so far

sessionVars == <<anonymous_session, clock, requests, identities>>

----------------------------------------------------------------------------
NoTime == -1

Row ==
    [secret       : Secrets,
     initial_ip   : IPs,
     last_ip      : IPs,
     created_at   : Nat,
     last_seen_at : Nat,
     expires_at   : Nat,
     revoked_at   : Nat \cup {NoTime}]

\* The id has no row.
NoRow == [secret |-> "none"]

Request ==
    [op     : {"authenticate", "revoke"},
     session: Sessions,
     secret : Secrets,
     ip     : IPs,
     phase  : {"sent", "found", "admitted"},
     at     : Nat \cup {NoTime}]

Known == {s \in Sessions : anonymous_session[s] # NoRow}

Revoked(row) == row.revoked_at # NoTime

\* The deadline is exclusive.
Expired(row, now) == now >= row.expires_at

\* What an API process may read from its clock.
Readings == {t \in 0..clock : t + MaxSkew >= clock}

----------------------------------------------------------------------------
SessionInit ==
    /\ anonymous_session = [s \in Sessions |-> NoRow]
    /\ clock = 0
    /\ requests = {}
    /\ identities = {}

Tick ==
    /\ clock < MaxClock
    /\ clock' = clock + 1
    /\ UNCHANGED <<anonymous_session, requests, identities>>

\* Manager.Create: one INSERT.  An id or a secret that is taken is
\* ErrSessionConflict, and nothing is stored.
Create(s, secret, ip, now) ==
    /\ s \notin Known
    /\ \A k \in Known : anonymous_session[k].secret # secret
    /\ anonymous_session' =
          [anonymous_session EXCEPT ![s] =
              [secret |-> secret, initial_ip |-> ip, last_ip |-> ip, created_at |-> now,
               last_seen_at |-> now, expires_at |-> now + SessionTTL, revoked_at |-> NoTime]]
    /\ UNCHANGED <<clock, requests, identities>>

\* A client presents a capability, genuine or not.
Ask(op, s, secret, ip) ==
    /\ Cardinality(requests) < MaxRequests
    /\ requests' = requests \cup
          {[op |-> op, session |-> s, secret |-> secret, ip |-> ip,
            phase |-> "sent", at |-> NoTime]}
    /\ UNCHANGED <<anonymous_session, clock, identities>>

Advance(r, next) == requests' = (requests \ {r}) \cup {next}
Finish(r) == requests' = requests \ {r}

Genuine(r) == r.session \in Known /\ anonymous_session[r.session].secret = r.secret

\* Store.Get, Matches and Revoked: the capability is genuine and not revoked.
Get(r) ==
    /\ r.phase = "sent"
    /\ Genuine(r)
    /\ ~Revoked(anonymous_session[r.session])
    /\ Advance(r, [r EXCEPT !.phase = "found"])
    /\ UNCHANGED <<anonymous_session, clock, identities>>

\* ErrInvalidCapability, or ErrSessionRevoked from Authenticate.
Refuse(r) ==
    /\ r.phase = "sent"
    /\ Genuine(r) => r.op = "authenticate" /\ Revoked(anonymous_session[r.session])
    /\ Finish(r)
    /\ UNCHANGED <<anonymous_session, clock, identities>>

\* Revoke of a session that is revoked already succeeds.
AlreadyRevoked(r) ==
    /\ r.phase = "sent"
    /\ r.op = "revoke"
    /\ Genuine(r)
    /\ Revoked(anonymous_session[r.session])
    /\ Finish(r)
    /\ UNCHANGED <<anonymous_session, clock, identities>>

\* Only now is the clock read, and the expiry checked.
Admit(r, now) ==
    /\ r.phase = "found"
    /\ IF Expired(anonymous_session[r.session], now)
       THEN Finish(r)
       ELSE Advance(r, [r EXCEPT !.phase = "admitted", !.at = now])
    /\ UNCHANGED <<anonymous_session, clock, identities>>

\* The caller dies, or its statement fails without effect.
Lose(r) ==
    /\ Finish(r)
    /\ UNCHANGED <<anonymous_session, clock, identities>>

\* Faulty variant: TouchActive by id and deadline alone.
TouchMatchesRevoked(row, at) == ~Expired(row, at)

\* WHERE of TouchActive.
TouchMatches(row, at) == ~Revoked(row) /\ ~Expired(row, at)

\* Faulty variant: the address of the last statement, not of the last use.
TouchRowLastWrite(row, ip, at) ==
    [row EXCEPT !.last_ip = ip,
                !.last_seen_at = IF row.last_seen_at <= at THEN at ELSE @]

\* SET of TouchActive: an older use does not replace a newer one.
TouchRow(row, ip, at) ==
    IF row.last_seen_at <= at
    THEN [row EXCEPT !.last_ip = ip, !.last_seen_at = at]
    ELSE row

\* Store.TouchActive found the session still active: the caller is who it
\* claims to be.
TouchActive(r) ==
    /\ r.phase = "admitted"
    /\ r.op = "authenticate"
    /\ TouchMatches(anonymous_session[r.session], r.at)
    /\ anonymous_session' = [anonymous_session EXCEPT ![r.session] = TouchRow(@, r.ip, r.at)]
    /\ identities' = identities \cup {[session |-> r.session, ip |-> r.ip, at |-> r.at]}
    /\ Finish(r)
    /\ UNCHANGED clock

\* ErrSessionInactive: expiry or revocation came in between.
TouchInactive(r) ==
    /\ r.phase = "admitted"
    /\ r.op = "authenticate"
    /\ ~TouchMatches(anonymous_session[r.session], r.at)
    /\ Finish(r)
    /\ UNCHANGED <<anonymous_session, clock, identities>>

\* COALESCE(revoked_at, $2)
FirstRevocation(row, at) == IF Revoked(row) THEN row.revoked_at ELSE at

\* Store.Revoke
RevokeRow(r) ==
    /\ r.phase = "admitted"
    /\ r.op = "revoke"
    /\ anonymous_session' =
          [anonymous_session EXCEPT ![r.session].revoked_at =
              FirstRevocation(anonymous_session[r.session], r.at)]
    /\ Finish(r)
    /\ UNCHANGED <<clock, identities>>

\* Statements that write a row, and wait while another transaction locks it.
RowStatement(r) == TouchActive(r) \/ RevokeRow(r)

\* Everything else.
SessionStep ==
    \/ Tick
    \/ \E s \in Sessions, secret \in Secrets, ip \in IPs, now \in Readings :
          Create(s, secret, ip, now)
    \/ \E op \in {"authenticate", "revoke"}, s \in Sessions, secret \in Secrets, ip \in IPs :
          Ask(op, s, secret, ip)
    \/ \E r \in requests : Get(r)
    \/ \E r \in requests : Refuse(r)
    \/ \E r \in requests : AlreadyRevoked(r)
    \/ \E r \in requests, now \in Readings : Admit(r, now)
    \/ \E r \in requests : Lose(r)
    \/ \E r \in requests : TouchInactive(r)

SessionNext == SessionStep \/ \E r \in requests : RowStatement(r)

SessionSpec == SessionInit /\ [][SessionNext]_sessionVars

----------------------------------------------------------------------------
\* Every variable has its type.
SessionTypeOK ==
    /\ anonymous_session \in [Sessions -> Row \cup {NoRow}]
    /\ clock \in Nat
    /\ requests \subseteq Request
    /\ identities \subseteq [session : Sessions, ip : IPs, at : Nat]

Uses(s) == {i \in identities : i.session = s}

LastUse(row) == [ip |-> row.last_ip, at |-> row.last_seen_at]

FirstUse(row) == [ip |-> row.initial_ip, at |-> row.created_at]

\* last_seen_at and last_ip_hash together describe one and the same use of the
\* session, the latest one: the creation or a successful authentication that no
\* other is later than, although touches are applied in any order.
LastUseTruthful ==
    \A s \in Known :
        LET row == anonymous_session[s]
            uses == {FirstUse(row)} \cup {[ip |-> i.ip, at |-> i.at] : i \in Uses(s)}
        IN /\ LastUse(row) \in uses
           /\ \A use \in uses : use.at <= row.last_seen_at

\* A revocation is final: from then on the row never changes, the instant of the
\* first revocation included, and no call is authenticated any more, not even
\* one that read the row before the revocation.
RevocationFinal ==
    [][\A s \in Known :
          Revoked(anonymous_session[s]) =>
              /\ anonymous_session'[s] = anonymous_session[s]
              /\ Uses(s)' = Uses(s)]_sessionVars
============================================================================
