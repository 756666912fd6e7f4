-------------------------- MODULE AnonymousProofs --------------------------
(***************************************************************************)
(* AnonymousSession and AnonymousQuota keep their promises for every       *)
(* finite set of sessions and addresses, any number of connections and     *)
(* requests, all policies, charges, TTLs and clock skews.                  *)
(*                                                                         *)
(* First the sums of usage: what the transaction adds to one counter, it   *)
(* adds to the sums that the limits are about.  Then the sessions; then    *)
(* the transactions, whose row locks keep what they read current.          *)
(***************************************************************************)
EXTENDS AnonymousQuota, FiniteSetTheorems, TLAPS

--------------------------------------------------
(* Sums.  MapThenSumSet is a recursive function on the subsets of a set;   *)
(* finite sets are well-founded by inclusion, and so are the naturals.     *)

\* A set of subsets of a finite set has a minimal member.
LEMMA MinimalSubset ==
    ASSUME NEW S, IsFiniteSet(S), NEW T, T \subseteq SUBSET S, T # {}
    PROVE  \E t \in T : \A u \in T : ~(u \subseteq t /\ u # t)
<1>1. IsWellFoundedOn(StrictSubsetOrdering(S), FiniteSubsetsOf(S))
  BY FS_StrictSubsetOrderingWellFounded
<1>2. T \subseteq FiniteSubsetsOf(S)
  BY FS_Subset DEF FiniteSubsetsOf
<1>3. \E x \in T : \A y \in T : ~ (<<y, x>> \in StrictSubsetOrdering(S))
  BY <1>1, <1>2, WFMin
<1> QED
  BY <1>3 DEF StrictSubsetOrdering

\* A set of natural numbers has a least member.
LEMMA LeastNumber ==
    ASSUME NEW T, T \subseteq Nat, T # {}
    PROVE  \E t \in T : \A u \in T : t <= u
<1>1. PICK n \in T : n \in Nat
  OBVIOUS
<1> DEFINE S == 0 .. n
           U == {0 .. k : k \in {i \in T : i <= n}}
<1>2. IsFiniteSet(S)
  BY <1>1, FS_Interval
<1>3. U \subseteq SUBSET S /\ U # {}
  BY <1>1
<1>4. PICK t \in U : \A u \in U : ~(u \subseteq t /\ u # t)
  <2> HIDE DEF S, U
  <2> QED
    BY <1>2, <1>3, MinimalSubset
<1>5. PICK k \in T : k <= n /\ t = 0 .. k
  OBVIOUS
<1>6. ASSUME NEW i \in T, i < k PROVE FALSE
  <2>1. 0 .. i \in U /\ 0 .. i \subseteq 0 .. k /\ k \in 0 .. k /\ k \notin 0 .. i
    BY <1>1, <1>5, <1>6
  <2> QED
    BY <1>4, <1>5, <2>1
<1> QED
  BY <1>6

Pick(s) == CHOOSE x \in s : TRUE

\* What MapThenSumSet computes at s, given its values g at smaller sets.
Step(f, g, s) == IF s = {} THEN 0 ELSE f[Pick(s)] + g[s \ {Pick(s)}]

\* The recursive function of MapThenSumSet.
Partial(f) == CHOOSE g : g = [s \in SUBSET DOMAIN f |-> Step(f, g, s)]

\* SumOf is the value of that function at the whole domain.
LEMMA SumUnfolds ==
    ASSUME NEW f
    PROVE  SumOf(f) = Partial(f)[DOMAIN f]
BY DEF SumOf, MapThenSumSet, MapThenFoldSet, Partial, Step, Pick

\* The recursion has a solution on the subsets of up to n elements.
LEMMA PartialUpTo ==
    ASSUME NEW f, IsFiniteSet(DOMAIN f), NEW n \in Nat
    PROVE  \E g : g = [s \in {x \in SUBSET DOMAIN f : Cardinality(x) <= n} |-> Step(f, g, s)]
<1> DEFINE Small(k) == {x \in SUBSET DOMAIN f : Cardinality(x) <= k}
           Solved(k) == \E g : g = [s \in Small(k) |-> Step(f, g, s)]
           T == {k \in Nat : ~Solved(k)}
<1>1. \A x \in SUBSET DOMAIN f : IsFiniteSet(x) /\ Cardinality(x) \in Nat
  BY FS_Subset, FS_CardinalityType
<1>2. \A x \in SUBSET DOMAIN f : x # {} =>
         /\ Pick(x) \in x /\ x \ {Pick(x)} \in SUBSET DOMAIN f
         /\ Cardinality(x \ {Pick(x)}) = Cardinality(x) - 1
  BY <1>1, FS_RemoveElement DEF Pick
<1>3. Solved(0)
  <2> DEFINE g == [s \in Small(0) |-> 0]
  <2>1. \A s \in Small(0) : s = {}
    BY <1>1, FS_EmptySet
  <2>2. g = [s \in Small(0) |-> Step(f, g, s)]
    BY <2>1 DEF Step
  <2> QED
    BY <2>2
<1>4. ASSUME NEW k \in Nat, Solved(k)
      PROVE  Solved(k + 1)
  <2>1. PICK g : g = [s \in Small(k) |-> Step(f, g, s)]
    BY <1>4
  <2> DEFINE h == [s \in Small(k + 1) |-> Step(f, g, s)]
  <2>2. \A s \in Small(k) : s \in Small(k + 1) /\ h[s] = g[s]
    BY <1>1, <2>1
  <2>3. \A s \in Small(k + 1) : s # {} => s \ {Pick(s)} \in Small(k)
    BY <1>1, <1>2
  <2>4. \A s \in Small(k + 1) : Step(f, g, s) = Step(f, h, s)
    BY <2>2, <2>3 DEF Step
  <2>5. h = [s \in Small(k + 1) |-> Step(f, h, s)]
    BY <2>4
  <2> QED
    BY <2>5
<1> HIDE DEF Solved
<1>5. T = {}
  <2> SUFFICES ASSUME T # {} PROVE FALSE
    OBVIOUS
  <2>1. PICK t \in T : \A u \in T : t <= u
    BY LeastNumber
  <2>2. t # 0 /\ t - 1 \in Nat /\ t - 1 \notin T
    BY <1>3, <2>1
  <2>3. Solved(t - 1)
    BY <2>2
  <2>4. Solved((t - 1) + 1)
    BY <1>4, <2>2, <2>3
  <2> QED
    BY <2>1, <2>4
<1> QED
  BY <1>5 DEF Solved

\* So it has one on all subsets of a finite set.
LEMMA PartialUnfolds ==
    ASSUME NEW f, IsFiniteSet(DOMAIN f), NEW s \in SUBSET DOMAIN f
    PROVE  Partial(f)[s] = Step(f, Partial(f), s)
<1> DEFINE n == Cardinality(DOMAIN f)
<1>1. n \in Nat /\ \A x \in SUBSET DOMAIN f : Cardinality(x) <= n
  BY FS_Subset, FS_CardinalityType
<1>2. {x \in SUBSET DOMAIN f : Cardinality(x) <= n} = SUBSET DOMAIN f
  BY <1>1
<1>3. \E g : g = [x \in SUBSET DOMAIN f |-> Step(f, g, x)]
  <2> HIDE DEF n
  <2>1. \E g : g = [x \in {y \in SUBSET DOMAIN f : Cardinality(y) <= n} |-> Step(f, g, x)]
    BY <1>1, PartialUpTo
  <2> QED
    BY <1>2, <2>1
<1>4. Partial(f) = [x \in SUBSET DOMAIN f |-> Step(f, Partial(f), x)]
  BY <1>3 DEF Partial
<1> QED
  BY <1>4

\* Sums of natural numbers are natural numbers, and no summand exceeds the sum.
LEMMA SumBounds ==
    ASSUME NEW S, IsFiniteSet(S), NEW f \in [S -> Nat]
    PROVE  SumOf(f) \in Nat /\ \A a \in S : f[a] <= SumOf(f)
<1> DEFINE Good(s) == Partial(f)[s] \in Nat /\ \A a \in s : f[a] <= Partial(f)[s]
           T == {s \in SUBSET S : ~Good(s)}
<1>1. T = {}
  <2> SUFFICES ASSUME T # {} PROVE FALSE
    OBVIOUS
  <2>1. PICK t \in T : \A u \in T : ~(u \subseteq t /\ u # t)
    <3>1. T \subseteq SUBSET S
      OBVIOUS
    <3> HIDE DEF T
    <3> QED
      BY <3>1, MinimalSubset
  <2> DEFINE x == Pick(t)
             u == t \ {x}
  <2>2. t \in SUBSET S /\ ~Good(t) /\ Partial(f)[t] = Step(f, Partial(f), t)
    BY <2>1, PartialUnfolds
  <2>3. t # {}
    BY <2>2 DEF Step
  <2>4. x \in t /\ f[x] \in Nat
    BY <2>2, <2>3 DEF Pick
  <2>5. Good(u)
    BY <2>1, <2>2, <2>4
  <2>6. Partial(f)[t] = f[x] + Partial(f)[u]
    BY <2>2, <2>3 DEF Step
  <2>7. \A a \in t : f[a] \in Nat /\ (a = x \/ a \in u)
    BY <2>2
  <2> HIDE DEF x, u
  <2>8. Good(t)
    BY <2>4, <2>5, <2>6, <2>7
  <2> QED
    BY <2>2, <2>8
<1> QED
  BY <1>1, SumUnfolds

\* Adding to one summand adds to the sum.
LEMMA SumAdds ==
    ASSUME NEW S, IsFiniteSet(S), NEW f \in [S -> Nat], NEW a \in S, NEW n \in Nat
    PROVE  SumOf([f EXCEPT ![a] = @ + n]) = SumOf(f) + n
<1> DEFINE h == [f EXCEPT ![a] = @ + n]
           Good(s) == /\ Partial(f)[s] \in Nat
                      /\ Partial(h)[s] = IF a \in s THEN Partial(f)[s] + n ELSE Partial(f)[s]
           T == {s \in SUBSET S : ~Good(s)}
<1>1. /\ h \in [S -> Nat] /\ h[a] = f[a] + n
      /\ \A x \in S : x # a => h[x] = f[x]
  OBVIOUS
<1> HIDE DEF h
<1>2. T = {}
  <2> SUFFICES ASSUME T # {} PROVE FALSE
    OBVIOUS
  <2>1. PICK t \in T : \A u \in T : ~(u \subseteq t /\ u # t)
    <3>1. T \subseteq SUBSET S
      OBVIOUS
    <3> HIDE DEF T
    <3> QED
      BY <3>1, MinimalSubset
  <2> DEFINE x == Pick(t)
             u == t \ {x}
  <2>2. /\ t \in SUBSET S /\ ~Good(t)
        /\ Partial(f)[t] = Step(f, Partial(f), t)
        /\ Partial(h)[t] = Step(h, Partial(h), t)
    BY <1>1, <2>1, PartialUnfolds
  <2>3. t # {}
    BY <2>2 DEF Step
  <2>4. x \in t /\ f[x] \in Nat
    BY <2>2, <2>3 DEF Pick
  <2>5. Good(u)
    BY <2>1, <2>2, <2>4
  <2>6. Partial(f)[t] = f[x] + Partial(f)[u] /\ Partial(h)[t] = h[x] + Partial(h)[u]
    BY <2>2, <2>3 DEF Step
  <2>7. (a \in u <=> a \in t /\ a # x) /\ (x # a => h[x] = f[x])
    BY <1>1, <2>2, <2>4
  <2> HIDE DEF x, u
  <2>8. Good(t)
    BY <1>1, <2>4, <2>5, <2>6, <2>7
  <2> QED
    BY <2>2, <2>8
<1> QED
  BY <1>1, <1>2, SumUnfolds DEF h

\* The same, of a function that is given by its values.
LEMMA SumAddsAt ==
    ASSUME NEW S, IsFiniteSet(S), NEW f \in [S -> Nat], NEW a \in S, NEW n \in Nat,
           NEW g, g = [x \in S |-> g[x]],
           \A x \in S : g[x] = IF x = a THEN f[x] + n ELSE f[x]
    PROVE  SumOf(g) = SumOf(f) + n
<1>1. g = [f EXCEPT ![a] = @ + n]
  OBVIOUS
<1> QED
  BY <1>1, SumAdds

\* Nothing adds up to nothing.
LEMMA SumZero ==
    ASSUME NEW S, IsFiniteSet(S)
    PROVE  SumOf([a \in S |-> 0]) = 0
<1> DEFINE f == [a \in S |-> 0]
           T == {s \in SUBSET S : Partial(f)[s] # 0}
<1>1. T = {}
  <2> SUFFICES ASSUME T # {} PROVE FALSE
    OBVIOUS
  <2>1. PICK t \in T : \A u \in T : ~(u \subseteq t /\ u # t)
    <3>1. T \subseteq SUBSET S
      OBVIOUS
    <3> HIDE DEF T
    <3> QED
      BY <3>1, MinimalSubset
  <2> DEFINE x == Pick(t)
             u == t \ {x}
  <2>2. t \in SUBSET S /\ Partial(f)[t] # 0 /\ Partial(f)[t] = Step(f, Partial(f), t)
    BY <2>1, PartialUnfolds
  <2>3. t # {}
    BY <2>2 DEF Step
  <2>4. x \in t /\ f[x] = 0
    BY <2>2, <2>3 DEF Pick
  <2>5. Partial(f)[u] = 0
    BY <2>1, <2>2, <2>4
  <2> QED
    BY <2>2, <2>3, <2>4, <2>5 DEF Step
<1> QED
  BY <1>1, SumUnfolds

----------------------------------------------------------------------------
(* Sessions.                                                               *)

\* A request that has passed the first checks names a session that exists.
RequestsKnown ==
    \A r \in requests : r.phase # "sent" =>
        r.session \in Known /\ (r.phase = "admitted" => r.at \in Nat)

\* What LastUseTruthful says of one session.
LastUsed(s) ==
    LET row == anonymous_session[s]
    IN /\ \/ row.last_ip = row.initial_ip /\ row.last_seen_at = row.created_at
          \/ \E i \in Uses(s) : row.last_ip = i.ip /\ row.last_seen_at = i.at
       /\ row.created_at <= row.last_seen_at
       /\ \A i \in Uses(s) : i.at <= row.last_seen_at

\* The inductive invariant of sessions.
SessionInv ==
    /\ SessionTypeOK
    /\ RequestsKnown
    /\ \A i \in identities : i.session \in Known
    /\ \A s \in Known : LastUsed(s)

\* Session s is as it was.
Stays(s) ==
    /\ s \in Known'
    /\ anonymous_session'[s] = anonymous_session[s]
    /\ Uses(s)' = Uses(s)

\* A row is not the absence of one, and its columns have their types.
LEMMA RowFields ==
    ASSUME NEW row \in Row
    PROVE  /\ row # NoRow
           /\ row.initial_ip \in IPs /\ row.last_ip \in IPs
           /\ row.created_at \in Nat /\ row.last_seen_at \in Nat /\ row.expires_at \in Nat
           /\ row.revoked_at \in Nat \cup {NoTime}
<1>1. "last_ip" \in DOMAIN row
  BY DEF Row
<1>2. "last_ip" \notin DOMAIN NoRow
  BY DEF NoRow
<1> QED
  BY <1>1, <1>2 DEF Row

\* Ids with a row, and the row.
LEMMA KnownRows ==
    ASSUME SessionTypeOK
    PROVE  /\ Known \subseteq Sessions
           /\ \A s \in Known : anonymous_session[s] \in Row
           /\ \A s \in Sessions \ Known : anonymous_session[s] = NoRow
BY DEF SessionTypeOK, Known

\* What API processes read from their clocks are instants.
LEMMA ReadingsFacts ==
    ASSUME SessionTypeOK
    PROVE  Readings \subseteq Nat /\ \A now \in Readings : now <= clock
BY DEF SessionTypeOK, Readings

\* A step that leaves rows and identities alone, and whose requests know their
\* sessions.
LEMMA RequestStep ==
    ASSUME SessionInv, UNCHANGED <<anonymous_session, identities>>,
           clock' \in Nat, requests' \subseteq Request, RequestsKnown'
    PROVE  SessionInv' /\ \A s \in Known : Stays(s)
<1>1. Known' = Known /\ \A s : Uses(s)' = Uses(s)
  BY DEF Known, Uses
<1>2. SessionTypeOK'
  BY DEF SessionInv, SessionTypeOK
<1>3. \A s \in Known : LastUsed(s)'
  BY <1>1 DEF SessionInv, LastUsed
<1> QED
  BY <1>1, <1>2, <1>3 DEF SessionInv, Stays

\* A request that ends, or goes on as a request that knows its session.
LEMMA AdvanceStep ==
    ASSUME SessionInv, NEW r \in requests, UNCHANGED <<anonymous_session, clock, identities>>,
           \/ Finish(r)
           \/ \E next \in Request :
                 /\ Advance(r, next)
                 /\ next.session \in Known /\ (next.phase = "admitted" => next.at \in Nat)
    PROVE  SessionInv' /\ \A s \in Known : Stays(s)
<1>1. clock' \in Nat /\ requests' \subseteq Request /\ Known' = Known
  BY DEF SessionInv, SessionTypeOK, Finish, Advance, Known
<1>2. RequestsKnown'
  BY <1>1 DEF SessionInv, RequestsKnown, Finish, Advance
<1> QED
  BY <1>1, <1>2, RequestStep

\* Manager.Create inserts a row under a new id.
LEMMA CreateStep ==
    ASSUME SessionInv, NEW s \in Sessions, NEW secret \in Secrets, NEW ip \in IPs,
           NEW now \in Readings, Create(s, secret, ip, now)
    PROVE  SessionInv' /\ \A x \in Known : Stays(x)
<1> DEFINE new == [secret |-> secret, initial_ip |-> ip, last_ip |-> ip, created_at |-> now,
                   last_seen_at |-> now, expires_at |-> now + SessionTTL, revoked_at |-> NoTime]
<1>1. /\ s \notin Known /\ UNCHANGED <<clock, requests, identities>>
      /\ anonymous_session' = [anonymous_session EXCEPT ![s] = new]
      /\ SessionTypeOK
  BY DEF Create, SessionInv
<1>2. now \in Nat /\ SessionTTL \in Nat
  BY <1>1, ReadingsFacts, SessionPolicyAssumption
<1>3. /\ new \in Row /\ new.last_ip = new.initial_ip
      /\ new.last_seen_at = new.created_at /\ new.created_at = now
  BY <1>2 DEF Row
<1> HIDE DEF new
<1>4. /\ anonymous_session'[s] = new /\ new # NoRow
      /\ \A x \in Sessions : x # s => anonymous_session'[x] = anonymous_session[x]
  BY <1>1, <1>3, RowFields DEF SessionTypeOK
<1>5. Known' = Known \cup {s} /\ Known \subseteq Sessions
  BY <1>4 DEF Known
<1>6. Uses(s) = {} /\ \A x : Uses(x)' = Uses(x)
  BY <1>1 DEF Uses, SessionInv
<1>7. SessionTypeOK'
  BY <1>1, <1>3 DEF SessionTypeOK
<1>8. \A x \in Known : x # s /\ Stays(x)
  BY <1>1, <1>4, <1>5, <1>6 DEF Stays
<1>9. \A x \in Known' : LastUsed(x)'
  <2>1. LastUsed(s)'
    BY <1>2, <1>3, <1>4, <1>6 DEF LastUsed
  <2>2. \A x \in Known : LastUsed(x)'
    BY <1>8 DEF SessionInv, LastUsed, Stays
  <2> QED
    BY <1>5, <2>1, <2>2
<1> QED
  BY <1>1, <1>5, <1>7, <1>8, <1>9 DEF SessionInv, RequestsKnown

\* Everything but the two statements that write a row leaves the rows there are as
\* they are.
LEMMA SessionStepKeeps ==
    ASSUME SessionInv, SessionStep \/ UNCHANGED sessionVars
    PROVE  SessionInv' /\ \A s \in Known : Stays(s)
<1>1. SessionTypeOK /\ requests \subseteq Request /\ Readings \subseteq Nat
  BY ReadingsFacts DEF SessionInv, SessionTypeOK
<1>2. CASE Tick \/ UNCHANGED sessionVars
  <2>1. /\ UNCHANGED <<anonymous_session, requests, identities>>
        /\ clock' \in Nat /\ Known' = Known
    BY <1>1, <1>2 DEF Tick, sessionVars, SessionTypeOK, Known
  <2> QED
    BY <1>1, <2>1, RequestStep DEF SessionInv, RequestsKnown
<1>3. ASSUME NEW s \in Sessions, NEW secret \in Secrets, NEW ip \in IPs, NEW now \in Readings,
             Create(s, secret, ip, now)
      PROVE  SessionInv' /\ \A x \in Known : Stays(x)
  BY <1>3, CreateStep
<1>4. ASSUME NEW op \in {"authenticate", "revoke"}, NEW s \in Sessions, NEW secret \in Secrets,
             NEW ip \in IPs, Ask(op, s, secret, ip)
      PROVE  SessionInv' /\ \A x \in Known : Stays(x)
  <2> DEFINE r == [op |-> op, session |-> s, secret |-> secret, ip |-> ip,
                   phase |-> "sent", at |-> NoTime]
  <2>1. r \in Request /\ r.phase = "sent"
    BY DEF Request
  <2>2. requests' = requests \cup {r} /\ UNCHANGED <<anonymous_session, clock, identities>>
    BY <1>4 DEF Ask
  <2> HIDE DEF r
  <2>3. Known' = Known /\ clock' \in Nat
    BY <1>1, <2>2 DEF Known, SessionTypeOK
  <2> QED
    BY <1>1, <2>1, <2>2, <2>3, RequestStep DEF SessionInv, RequestsKnown
<1>5. ASSUME NEW r \in requests,
             Refuse(r) \/ AlreadyRevoked(r) \/ Lose(r) \/ TouchInactive(r)
      PROVE  SessionInv' /\ \A x \in Known : Stays(x)
  BY <1>5, AdvanceStep DEF Refuse, AlreadyRevoked, Lose, TouchInactive
<1>6. ASSUME NEW r \in requests, Get(r)
      PROVE  SessionInv' /\ \A x \in Known : Stays(x)
  <2> DEFINE next == [r EXCEPT !.phase = "found"]
  <2>1. next \in Request /\ next.phase = "found" /\ next.session = r.session
    BY <1>1 DEF Request
  <2>2. r.session \in Known /\ Advance(r, next)
    BY <1>6 DEF Get, Genuine
  <2> HIDE DEF next
  <2> QED
    BY <1>6, <2>1, <2>2, AdvanceStep DEF Get
<1>7. ASSUME NEW r \in requests, NEW now \in Readings, Admit(r, now)
      PROVE  SessionInv' /\ \A x \in Known : Stays(x)
  <2> DEFINE next == [r EXCEPT !.phase = "admitted", !.at = now]
  <2>1. next \in Request /\ next.at = now /\ next.session = r.session /\ now \in Nat
    BY <1>1 DEF Request
  <2>2. r.session \in Known /\ (Finish(r) \/ Advance(r, next))
    BY <1>7 DEF Admit, SessionInv, RequestsKnown
  <2> HIDE DEF next
  <2> QED
    BY <1>7, <2>1, <2>2, AdvanceStep DEF Admit
<1> QED
  BY <1>2, <1>3, <1>4, <1>5, <1>6, <1>7 DEF SessionStep

\* What the writing statements may do: one row, which is not revoked, is written;
\* ids and clock stay.
LEMMA RowStatementKeeps ==
    ASSUME SessionInv, NEW r \in requests, RowStatement(r)
    PROVE  /\ SessionInv' /\ clock' = clock /\ Known' = Known
           /\ r.session \in Known
           /\ \A s \in Known :
                 s # r.session \/ Revoked(anonymous_session[s]) => Stays(s)
<1> DEFINE s == r.session
           row == anonymous_session[s]
<1>1. /\ SessionTypeOK /\ r \in Request /\ r.phase = "admitted"
      /\ requests' = requests \ {r} /\ clock' = clock
  BY DEF SessionInv, SessionTypeOK, RowStatement, TouchActive, RevokeRow, Finish
<1>2. s \in Known /\ s \in Sessions /\ row \in Row /\ r.at \in Nat /\ r.ip \in IPs
  BY <1>1, KnownRows DEF SessionInv, RequestsKnown, Request
<1>3. /\ row.initial_ip \in IPs /\ row.last_ip \in IPs /\ row.created_at \in Nat
      /\ row.last_seen_at \in Nat /\ row.revoked_at \in Nat \cup {NoTime}
  BY <1>2, RowFields
<1>4. LastUsed(s)
  BY <1>2 DEF SessionInv
<1>5. ASSUME NEW new \in Row, NEW added \in SUBSET [session : {s}, ip : IPs, at : Nat],
             anonymous_session' = [anonymous_session EXCEPT ![s] = new],
             identities' = identities \cup added,
             LastUsed(s)',
             Revoked(row) => new = row /\ added = {}
      PROVE  /\ SessionInv' /\ clock' = clock /\ Known' = Known
             /\ \A x \in Known : x # s \/ Revoked(anonymous_session[x]) => Stays(x)
  <2>1. /\ anonymous_session'[s] = new /\ new # NoRow
        /\ \A x \in Sessions : x # s => anonymous_session'[x] = anonymous_session[x]
    BY <1>1, <1>2, <1>5, RowFields DEF SessionTypeOK
  <2>2. Known' = Known /\ Known \subseteq Sessions
    BY <1>2, <2>1 DEF Known
  <2>3. \A i \in added : i.session = s /\ i \in [session : Sessions, ip : IPs, at : Nat]
    BY <1>2
  <2>4. SessionTypeOK'
    BY <1>1, <1>2, <1>5, <2>3 DEF SessionTypeOK
  <2>5. \A x : x # s \/ added = {} => Uses(x)' = Uses(x)
    BY <1>5, <2>3 DEF Uses
  <2>6. \A x \in Known : x # s \/ Revoked(anonymous_session[x]) => Stays(x)
    BY <1>5, <2>1, <2>2, <2>5 DEF Stays
  <2>7. \A x \in Known' : LastUsed(x)'
    BY <1>5, <2>2, <2>6 DEF SessionInv, LastUsed, Stays
  <2>8. RequestsKnown' /\ \A i \in identities' : i.session \in Known'
    BY <1>1, <1>2, <1>5, <2>2, <2>3 DEF SessionInv, RequestsKnown
  <2> QED
    BY <1>1, <2>2, <2>4, <2>6, <2>7, <2>8 DEF SessionInv
<1>6. CASE TouchActive(r)
  <2> DEFINE new == TouchRow(row, r.ip, r.at)
             i == [session |-> s, ip |-> r.ip, at |-> r.at]
  <2>1. /\ ~Revoked(row) /\ anonymous_session' = [anonymous_session EXCEPT ![s] = new]
        /\ identities' = identities \cup {i}
    BY <1>6 DEF TouchActive, TouchMatches
  <2>2. new \in Row
    BY <1>2 DEF TouchRow, Row
  <2>3. /\ new.initial_ip = row.initial_ip /\ new.created_at = row.created_at
        /\ IF row.last_seen_at <= r.at
           THEN new.last_ip = r.ip /\ new.last_seen_at = r.at
           ELSE new.last_ip = row.last_ip /\ new.last_seen_at = row.last_seen_at
    BY <1>2 DEF TouchRow, Row
  <2>4. i.session = s /\ i.ip = r.ip /\ i.at = r.at
    OBVIOUS
  <2>5. {i} \in SUBSET [session : {s}, ip : IPs, at : Nat]
    BY <1>2
  <2> HIDE DEF new, i
  <2>6. anonymous_session'[s] = new /\ Uses(s)' = Uses(s) \cup {i}
    BY <1>1, <1>2, <2>1, <2>4 DEF SessionTypeOK, Uses
  <2>7. \A j \in Uses(s) : j.at \in Nat
    BY <1>1 DEF SessionTypeOK, Uses
  <2>8. LastUsed(s)'
    BY <1>2, <1>3, <1>4, <2>3, <2>4, <2>6, <2>7 DEF LastUsed
  <2> QED
    BY <1>2, <1>5, <2>1, <2>2, <2>5, <2>8
<1>7. CASE RevokeRow(r)
  <2> DEFINE at == FirstRevocation(row, r.at)
             new == [row EXCEPT !.revoked_at = at]
  <2>1. /\ anonymous_session' = [anonymous_session EXCEPT ![s] = new]
        /\ identities' = identities \cup {}
    BY <1>1, <1>2, <1>7 DEF RevokeRow, SessionTypeOK
  <2>2. at \in Nat \cup {NoTime} /\ (Revoked(row) => at = row.revoked_at)
    BY <1>2, <1>3 DEF FirstRevocation
  <2> HIDE DEF at
  <2>3. /\ new \in Row /\ new.initial_ip = row.initial_ip /\ new.created_at = row.created_at
        /\ new.last_ip = row.last_ip /\ new.last_seen_at = row.last_seen_at
        /\ at = row.revoked_at => new = row
    BY <1>2, <2>2 DEF Row
  <2> HIDE DEF new
  <2>4. anonymous_session'[s] = new /\ Uses(s)' = Uses(s)
    BY <1>1, <1>2, <2>1 DEF SessionTypeOK, Uses
  <2>5. LastUsed(s)'
    BY <1>4, <2>3, <2>4 DEF LastUsed
  <2>6. {} \in SUBSET [session : {s}, ip : IPs, at : Nat]
    OBVIOUS
  <2> QED
    BY <1>2, <1>5, <2>1, <2>2, <2>3, <2>5, <2>6
<1> QED
  BY <1>2, <1>6, <1>7 DEF RowStatement

\* No session, no request.
LEMMA SessionInitInv == SessionInit => SessionInv
<1> SUFFICES ASSUME SessionInit PROVE SessionInv
  OBVIOUS
<1>1. Known = {}
  BY DEF SessionInit, Known
<1> QED
  BY <1>1 DEF SessionInit, SessionInv, SessionTypeOK, RequestsKnown

\* Every step of sessions keeps the invariant, and revoked sessions as they are.
LEMMA SessionNextInv ==
    SessionInv /\ [SessionNext]_sessionVars =>
        /\ SessionInv'
        /\ \A s \in Known : Revoked(anonymous_session[s]) => Stays(s)
BY SessionStepKeeps, RowStatementKeeps DEF SessionNext

\* LastUsed is what LastUseTruthful says of each session.
LEMMA LastUseFollows == SessionInv => LastUseTruthful
<1> SUFFICES ASSUME SessionInv, NEW s \in Known
             PROVE  LET row == anonymous_session[s]
                        uses == {FirstUse(row)} \cup {[ip |-> i.ip, at |-> i.at] : i \in Uses(s)}
                    IN LastUse(row) \in uses /\ \A use \in uses : use.at <= row.last_seen_at
  BY DEF LastUseTruthful
<1>1. LastUsed(s)
  BY DEF SessionInv
<1> QED
  BY <1>1 DEF LastUsed, LastUse, FirstUse

\* SessionInv holds in every reachable state.
THEOREM SessionInvAlways == SessionSpec => []SessionInv
BY SessionInitInv, SessionNextInv, PTL DEF SessionSpec

\* last_seen_at and last_ip_hash always describe the latest use of a session,
\* although TouchActive is applied in any order.
THEOREM LastUseTruthfulAlways == SessionSpec => []LastUseTruthful
BY LastUseFollows, SessionInvAlways, PTL

\* Nothing changes a revoked session, and nobody is authenticated with it.
THEOREM RevocationFinalAlways == SessionSpec => RevocationFinal
<1>1. SessionInv /\ [SessionNext]_sessionVars =>
      [\A s \in Known :
          Revoked(anonymous_session[s]) =>
              /\ anonymous_session'[s] = anonymous_session[s]
              /\ Uses(s)' = Uses(s)]_sessionVars
  BY SessionNextInv DEF Stays
<1> QED
  BY <1>1, SessionInvAlways, PTL DEF SessionSpec, RevocationFinal

----------------------------------------------------------------------------
(* Quotas.                                                                 *)

Transactions == CreationTx \cup ConsumeTx

\* What the sums of LimitsKept and UsageBalanced are taken over.
BySession(s, w, m) == [a \in IPs |-> anonymous_usage[<<s, a, w>>][m]]
ByAddress(a, w, m) == [s \in Sessions |-> anonymous_usage[<<s, a, w>>][m]]

UsageTypeOK ==
    /\ anonymous_usage \in [Sessions \X IPs \X Windows -> [Metrics -> Nat]]
    /\ anonymous_ip_usage \in [IPs \X Windows -> [AddressMetrics -> Nat]]

\* What t has read once it holds all its locks is what is stored.
ReadsCurrent(t) ==
    LocksTaken(t) =>
        /\ t.address_read = anonymous_ip_usage[<<t.ip, Window(t)>>]
        /\ t.op = "consume" =>
              t.session_read = [m \in Metrics |-> SumOf(BySession(t.session, Window(t), m))]

\* A session whose row is locked is not revoked.
LockedActive(t) ==
    t.op = "consume" /\ t.locks > 0 =>
        t.session \in Known /\ ~Revoked(anonymous_session[t.session])

\* What holds of each transaction.
Proper(t) ==
    /\ t \in Transactions
    /\ t.locks <= Len(LockOrder(t))
    /\ LockedActive(t)
    /\ ReadsCurrent(t)

\* No row is locked twice.
LocksExclusive == \A j, k \in Active : j # k => Held(txs[j]) \cap Held(txs[k]) = {}

TxsInv ==
    /\ txs \in [Connections -> Transactions \cup {Idle}]
    /\ \A k \in Active : Proper(txs[k])
    /\ LocksExclusive

\* The inductive invariant of quotas.
QuotaInv ==
    /\ SessionInv
    /\ clock \in Windows
    /\ UsageTypeOK
    /\ LimitsKept
    /\ UsageBalanced
    /\ TxsInv

\* A window begins no later than its instants.
LEMMA WindowFacts ==
    ASSUME NEW p \in Policies, NEW now \in Windows
    PROVE  WindowOf(p, now) \in Windows
<1>1. p.window \in Nat \ {0} /\ MaxClock \in Nat /\ now \in Nat /\ now <= MaxClock
  BY QuotaPolicyAssumption, SessionPolicyAssumption DEF Windows
<1>2. now % p.window \in 0 .. now
  BY <1>1
<1> QED
  BY <1>1, <1>2 DEF WindowOf, Windows

\* The fields of a transaction that the proofs use.
LEMMA TransactionFields ==
    ASSUME NEW t \in Transactions
    PROVE  /\ t # Idle /\ t.op \in {"creation", "consume"}
           /\ t.op = "creation" <=> t \in CreationTx
           /\ t.op = "consume" <=> t \in ConsumeTx
           /\ t.policy \in Policies /\ t.ip \in IPs /\ t.now \in Windows /\ t.locks \in Nat
           /\ t.address_read \in [AddressMetrics -> Nat]
           /\ Window(t) \in Windows
           /\ t.op = "consume" =>
                 /\ t.session \in Sessions
                 /\ t.charge \in Charges /\ t.charge[1] \in Metrics /\ t.charge[2] \in Nat
                 /\ t.session_read \in [Metrics -> Nat]
<1>1. /\ t.op \in {"creation", "consume"}
      /\ t.op = "creation" <=> t \in CreationTx
      /\ t.op = "consume" <=> t \in ConsumeTx
      /\ t.policy \in Policies /\ t.ip \in IPs /\ t.now \in Windows /\ t.locks \in Nat
      /\ t.address_read \in [AddressMetrics -> Nat]
  BY DEF Transactions, CreationTx, ConsumeTx
<1>2. t.op = "consume" =>
         t.session \in Sessions /\ t.charge \in Charges /\ t.session_read \in [Metrics -> Nat]
  BY <1>1 DEF ConsumeTx
<1>3. \A c \in Charges : c[1] \in Metrics /\ c[2] \in Nat
  BY QuotaPolicyAssumption
<1>4. Window(t) \in Windows
  BY <1>1, WindowFacts DEF Window
<1>5. t # Idle
  BY <1>1 DEF Idle
<1> QED
  BY <1>1, <1>2, <1>3, <1>4, <1>5

\* The name of a row tells what it is a row of.
LEMMA RowNames ==
    ASSUME NEW t, NEW u
    PROVE  /\ SessionRow(t) # AddressRow(u)
           /\ SessionRow(t) = SessionRow(u) <=> t.session = u.session
           /\ AddressRow(t) = AddressRow(u) <=> t.ip = u.ip /\ Window(t) = Window(u)
BY DEF SessionRow, AddressRow

\* A creation locks the counter row of its address.
LEMMA CreationLocks ==
    ASSUME NEW t, t.op = "creation", t.locks \in Nat, t.locks <= Len(LockOrder(t))
    PROVE  /\ Len(LockOrder(t)) = 1
           /\ LocksTaken(t) <=> t.locks = 1
           /\ Held(t) = IF t.locks = 0 THEN {} ELSE {AddressRow(t)}
           /\ \A row : Wants(t, row) <=> t.locks = 0 /\ row = AddressRow(t)
<1>1. LockOrder(t) = <<AddressRow(t)>>
  BY DEF LockOrder
<1> HIDE DEF AddressRow
<1>2. Len(LockOrder(t)) = 1 /\ LockOrder(t)[1] = AddressRow(t) /\ t.locks \in {0, 1}
  BY <1>1
<1>3. Held(t) = IF t.locks = 0 THEN {} ELSE {AddressRow(t)}
  BY <1>2 DEF Held
<1>4. \A row : Wants(t, row) <=> t.locks = 0 /\ row = AddressRow(t)
  BY <1>2 DEF Wants
<1> QED
  BY <1>2, <1>3, <1>4 DEF LocksTaken

\* A charge locks the row of its session, then the counter row of its address.
LEMMA ConsumeLocks ==
    ASSUME NEW t, t.op = "consume", t.locks \in Nat, t.locks <= Len(LockOrder(t))
    PROVE  /\ Len(LockOrder(t)) = 2
           /\ LocksTaken(t) <=> t.locks = 2
           /\ Held(t) = IF t.locks = 0 THEN {}
                        ELSE IF t.locks = 1 THEN {SessionRow(t)}
                        ELSE {SessionRow(t), AddressRow(t)}
           /\ \A row : Wants(t, row) <=> \/ t.locks = 0 /\ row = SessionRow(t)
                                         \/ t.locks = 1 /\ row = AddressRow(t)
<1>1. LockOrder(t) = <<SessionRow(t), AddressRow(t)>>
  BY DEF LockOrder
<1>2. /\ Len(LockOrder(t)) = 2 /\ t.locks \in {0, 1, 2}
      /\ LockOrder(t)[1] = SessionRow(t) /\ LockOrder(t)[2] = AddressRow(t)
  BY <1>1
<1>3. Held(t) = IF t.locks = 0 THEN {}
                ELSE IF t.locks = 1 THEN {SessionRow(t)}
                ELSE {SessionRow(t), AddressRow(t)}
  <2>1. CASE t.locks = 0
    BY <2>1 DEF Held
  <2>2. CASE t.locks = 1
    BY <1>2, <2>2 DEF Held
  <2>3. CASE t.locks = 2
    <3>1. 1 .. 2 = {1, 2}
      OBVIOUS
    <3> QED
      BY <1>2, <2>3, <3>1 DEF Held
  <2> QED
    BY <1>2, <2>1, <2>2, <2>3
<1>4. \A row : Wants(t, row) <=> \/ t.locks = 0 /\ row = SessionRow(t)
                                 \/ t.locks = 1 /\ row = AddressRow(t)
  BY <1>2 DEF Wants
<1> QED
  BY <1>2, <1>3, <1>4 DEF LocksTaken

\* Active transactions are proper ones.
LEMMA ActiveFacts ==
    ASSUME TxsInv
    PROVE  /\ Active \subseteq Connections
           /\ \A k \in Connections : k \in Active <=> txs[k] \in Transactions
           /\ \A k \in Active : Proper(txs[k]) /\ txs[k].locks \in Nat
<1>1. \A k \in Connections : txs[k] \in Transactions => txs[k] # Idle
  BY TransactionFields
<1>2. Active \subseteq Connections /\ \A k \in Active : Proper(txs[k])
  BY DEF TxsInv, Active
<1>3. \A k \in Active : txs[k].locks \in Nat
  BY <1>2, TransactionFields DEF Proper
<1> QED
  BY <1>1, <1>2, <1>3 DEF TxsInv, Active

\* The transaction of one connection becomes new; sessions and counters stay.
LEMMA TxStep ==
    ASSUME TxsInv, NEW k \in Connections, NEW new \in Transactions \cup {Idle},
           txs' = [txs EXCEPT ![k] = new],
           UNCHANGED <<anonymous_session, anonymous_usage, anonymous_ip_usage>>,
           new # Idle => /\ Proper(new)
                         /\ \A j \in Active \ {k} : Held(txs[j]) \cap Held(new) = {}
    PROVE  TxsInv'
<1>1. /\ txs'[k] = new /\ txs' \in [Connections -> Transactions \cup {Idle}]
      /\ \A j \in Connections : j # k => txs'[j] = txs[j]
  BY DEF TxsInv
<1>2. \A j \in Active' : j \in Connections /\ (j # k => j \in Active) /\ (j = k => new # Idle)
  BY <1>1 DEF Active
<1>3. \A t : Proper(t)' <=> Proper(t)
  BY DEF Proper, LockedActive, ReadsCurrent, Known, BySession
<1>4. \A j \in Active' : Proper(txs[j])'
  BY <1>1, <1>2, <1>3 DEF TxsInv
<1>5. ASSUME NEW i \in Active', NEW j \in Active', i # j
      PROVE  Held(txs'[i]) \cap Held(txs'[j]) = {}
  BY <1>1, <1>2, <1>5 DEF TxsInv, LocksExclusive
<1> QED
  BY <1>1, <1>4, <1>5 DEF TxsInv, LocksExclusive

\* Incrementing the usage of a session adds to one of its sums, and to one sum of
\* the address.
LEMMA ChargeSessionAdds ==
    ASSUME UsageTypeOK, NEW t \in ConsumeTx, ChargeSession(t)
    PROVE  /\ anonymous_usage' \in [Sessions \X IPs \X Windows -> [Metrics -> Nat]]
           /\ \A s \in Sessions, a \in IPs, w \in Windows :
                 s # t.session => anonymous_usage'[<<s, a, w>>] = anonymous_usage[<<s, a, w>>]
           /\ \A s \in Sessions, w \in Windows, m \in Metrics :
                 SumOf(BySession(s, w, m))' =
                    IF s = t.session /\ w = Window(t) /\ m = t.charge[1]
                    THEN SumOf(BySession(s, w, m)) + t.charge[2] ELSE SumOf(BySession(s, w, m))
           /\ \A a \in IPs, w \in Windows, m \in Metrics :
                 SumOf(ByAddress(a, w, m))' =
                    IF a = t.ip /\ w = Window(t) /\ m = t.charge[1]
                    THEN SumOf(ByAddress(a, w, m)) + t.charge[2] ELSE SumOf(ByAddress(a, w, m))
<1> DEFINE v == Window(t)
           mc == t.charge[1]
           n == t.charge[2]
<1>1. /\ t.session \in Sessions /\ t.ip \in IPs /\ v \in Windows
      /\ mc \in Metrics /\ n \in Nat
  BY TransactionFields DEF Transactions, ConsumeTx
<1>2. anonymous_usage' = [anonymous_usage EXCEPT ![<<t.session, t.ip, v>>][mc] = @ + n]
  BY DEF ChargeSession
<1> HIDE DEF v, mc, n
<1>3. anonymous_usage' \in [Sessions \X IPs \X Windows -> [Metrics -> Nat]]
  BY <1>1, <1>2 DEF UsageTypeOK
<1>4. \A s \in Sessions, a \in IPs, w \in Windows, m \in Metrics :
         /\ anonymous_usage[<<s, a, w>>][m] \in Nat
         /\ anonymous_usage'[<<s, a, w>>][m] =
               IF s = t.session /\ a = t.ip /\ w = v /\ m = mc
               THEN anonymous_usage[<<s, a, w>>][m] + n ELSE anonymous_usage[<<s, a, w>>][m]
  BY <1>1, <1>2 DEF UsageTypeOK
<1>5. \A s \in Sessions, a \in IPs, w \in Windows :
         s # t.session => anonymous_usage'[<<s, a, w>>] = anonymous_usage[<<s, a, w>>]
  BY <1>1, <1>2 DEF UsageTypeOK
<1>6. ASSUME NEW s \in Sessions, NEW w \in Windows, NEW m \in Metrics
      PROVE  SumOf(BySession(s, w, m))' =
                IF s = t.session /\ w = v /\ m = mc
                THEN SumOf(BySession(s, w, m)) + n ELSE SumOf(BySession(s, w, m))
  <2> DEFINE f == BySession(s, w, m)
             g == [a \in IPs |-> anonymous_usage'[<<s, a, w>>][m]]
             P == s = t.session /\ w = v /\ m = mc
  <2>1. \A a \in IPs :
           /\ f[a] \in Nat
           /\ g[a] = IF P /\ a = t.ip THEN f[a] + n ELSE f[a]
    BY <1>4 DEF BySession
  <2>2. f = [a \in IPs |-> f[a]] /\ g = [a \in IPs |-> g[a]]
    BY DEF BySession
  <2>3. SumOf(BySession(s, w, m))' = SumOf(g)
    BY DEF BySession
  <2> HIDE DEF f, g
  <2>4. f \in [IPs -> Nat]
    BY <2>1, <2>2
  <2>5. ASSUME P PROVE SumOf(g) = SumOf(f) + n
    BY <1>1, <2>1, <2>2, <2>4, <2>5, SumAddsAt, QuotaFiniteAssumption
  <2>6. ASSUME ~P PROVE g = f
    BY <2>1, <2>2, <2>6
  <2> QED
    BY <2>3, <2>5, <2>6 DEF f
<1>7. ASSUME NEW a \in IPs, NEW w \in Windows, NEW m \in Metrics
      PROVE  SumOf(ByAddress(a, w, m))' =
                IF a = t.ip /\ w = v /\ m = mc
                THEN SumOf(ByAddress(a, w, m)) + n ELSE SumOf(ByAddress(a, w, m))
  <2> DEFINE f == ByAddress(a, w, m)
             g == [s \in Sessions |-> anonymous_usage'[<<s, a, w>>][m]]
             P == a = t.ip /\ w = v /\ m = mc
  <2>1. \A s \in Sessions :
           /\ f[s] \in Nat
           /\ g[s] = IF P /\ s = t.session THEN f[s] + n ELSE f[s]
    BY <1>4 DEF ByAddress
  <2>2. f = [s \in Sessions |-> f[s]] /\ g = [s \in Sessions |-> g[s]]
    BY DEF ByAddress
  <2>3. SumOf(ByAddress(a, w, m))' = SumOf(g)
    BY DEF ByAddress
  <2> HIDE DEF f, g
  <2>4. f \in [Sessions -> Nat]
    BY <2>1, <2>2
  <2>5. ASSUME P PROVE SumOf(g) = SumOf(f) + n
    BY <1>1, <2>1, <2>2, <2>4, <2>5, SumAddsAt, QuotaFiniteAssumption
  <2>6. ASSUME ~P PROVE g = f
    BY <2>1, <2>2, <2>6
  <2> QED
    BY <2>3, <2>5, <2>6 DEF f
<1> QED
  BY <1>3, <1>5, <1>6, <1>7 DEF v, mc, n

\* Incrementing a counter of an address.
LEMMA ChargeAddressAdds ==
    ASSUME UsageTypeOK, NEW t \in Transactions, NEW m \in AddressMetrics, NEW n \in Nat,
           ChargeAddress(t, m, n)
    PROVE  /\ anonymous_ip_usage' \in [IPs \X Windows -> [AddressMetrics -> Nat]]
           /\ \A a \in IPs, w \in Windows :
                 ~(a = t.ip /\ w = Window(t)) =>
                    anonymous_ip_usage'[<<a, w>>] = anonymous_ip_usage[<<a, w>>]
           /\ \A a \in IPs, w \in Windows, x \in AddressMetrics :
                 anonymous_ip_usage'[<<a, w>>][x] =
                    IF a = t.ip /\ w = Window(t) /\ x = m
                    THEN anonymous_ip_usage[<<a, w>>][x] + n ELSE anonymous_ip_usage[<<a, w>>][x]
<1> DEFINE v == Window(t)
<1>1. t.ip \in IPs /\ v \in Windows
  BY TransactionFields
<1>2. anonymous_ip_usage' = [anonymous_ip_usage EXCEPT ![<<t.ip, v>>][m] = @ + n]
  BY DEF ChargeAddress
<1> HIDE DEF v
<1>3. anonymous_ip_usage' \in [IPs \X Windows -> [AddressMetrics -> Nat]]
  BY <1>1, <1>2 DEF UsageTypeOK
<1>4. \A a \in IPs, w \in Windows :
         ~(a = t.ip /\ w = v) => anonymous_ip_usage'[<<a, w>>] = anonymous_ip_usage[<<a, w>>]
  BY <1>1, <1>2 DEF UsageTypeOK
<1>5. \A a \in IPs, w \in Windows, x \in AddressMetrics :
         anonymous_ip_usage'[<<a, w>>][x] =
            IF a = t.ip /\ w = v /\ x = m
            THEN anonymous_ip_usage[<<a, w>>][x] + n ELSE anonymous_ip_usage[<<a, w>>][x]
  BY <1>1, <1>2 DEF UsageTypeOK
<1> QED
  BY <1>3, <1>4, <1>5 DEF v

\* What is exceeded by nobody stays within the limit.
LEMMA NotExceeded ==
    ASSUME NEW current \in Nat, NEW delta \in Nat, NEW limit \in Nat,
           ~Exceeds(current, delta, limit)
    PROVE  current + delta <= limit
BY DEF Exceeds

\* An address whose usage changes within the limits of some policy.
LEMMA AddressLimitKept ==
    ASSUME UsageTypeOK, LimitsKept, NEW t \in Transactions, NEW m \in AddressMetrics,
           NEW n \in Nat, ChargeAddress(t, m, n),
           ~Exceeds(anonymous_ip_usage[<<t.ip, Window(t)>>][m], n, t.policy.address[m])
    PROVE  \A w \in Windows, a \in IPs, x \in AddressMetrics : \E p \in Policies :
              anonymous_ip_usage'[<<a, w>>][x] <= p.address[x]
<1> SUFFICES ASSUME NEW w \in Windows, NEW a \in IPs, NEW x \in AddressMetrics
             PROVE  \E p \in Policies : anonymous_ip_usage'[<<a, w>>][x] <= p.address[x]
  OBVIOUS
<1>1. t.policy \in Policies /\ t.ip \in IPs /\ Window(t) \in Windows
  BY TransactionFields
<1>2. CASE a = t.ip /\ w = Window(t) /\ x = m
  <2>1. t.policy.address[m] \in Nat /\ anonymous_ip_usage[<<a, w>>][x] \in Nat
    BY <1>1, QuotaPolicyAssumption DEF UsageTypeOK
  <2>2. anonymous_ip_usage[<<a, w>>][x] + n <= t.policy.address[m]
    BY <1>2, <2>1, NotExceeded
  <2> QED
    BY <1>1, <1>2, <2>2, ChargeAddressAdds
<1>3. CASE ~(a = t.ip /\ w = Window(t) /\ x = m)
  <2>1. anonymous_ip_usage'[<<a, w>>][x] = anonymous_ip_usage[<<a, w>>][x]
    BY <1>3, ChargeAddressAdds
  <2> QED
    BY <2>1 DEF LimitsKept
<1> QED
  BY <1>2, <1>3

\* A transaction that has all its locks holds the rows of its session and its
\* address.
LEMMA TakenHeld ==
    ASSUME NEW t, Proper(t), LocksTaken(t)
    PROVE  /\ AddressRow(t) \in Held(t)
           /\ t.op = "consume" => SessionRow(t) \in Held(t) /\ t.locks > 0
<1>1. t.locks \in Nat /\ t.op \in {"creation", "consume"} /\ t.locks <= Len(LockOrder(t))
  BY TransactionFields DEF Proper
<1>2. CASE t.op = "creation"
  BY <1>1, <1>2, CreationLocks
<1>3. CASE t.op = "consume"
  BY <1>1, <1>3, ConsumeLocks
<1> QED
  BY <1>1, <1>2, <1>3

\* What nobody writes stays current.
LEMMA ReadsStay ==
    ASSUME NEW t, ReadsCurrent(t),
           LocksTaken(t) =>
              /\ anonymous_ip_usage'[<<t.ip, Window(t)>>] = anonymous_ip_usage[<<t.ip, Window(t)>>]
              /\ t.op = "consume" => \A a \in IPs :
                    anonymous_usage'[<<t.session, a, Window(t)>>] =
                       anonymous_usage[<<t.session, a, Window(t)>>]
    PROVE  ReadsCurrent(t)'
<1>1. LocksTaken(t)' <=> LocksTaken(t)
  BY DEF LocksTaken, LockOrder
<1>2. ASSUME LocksTaken(t), t.op = "consume", NEW m \in Metrics
      PROVE  BySession(t.session, Window(t), m)' = BySession(t.session, Window(t), m)
  BY <1>2 DEF BySession
<1> QED
  BY <1>1, <1>2 DEF ReadsCurrent

\* A transaction that holds all its locks commits: the others keep theirs, and
\* what they read stays current.
LEMMA CommitStep ==
    ASSUME QuotaInv, NEW k \in Active, LocksTaken(txs[k]), UsageTypeOK',
           txs' = [txs EXCEPT ![k] = Idle], UNCHANGED sessionVars,
           \A a \in IPs, w \in Windows :
              ~(a = txs[k].ip /\ w = Window(txs[k])) =>
                 anonymous_ip_usage'[<<a, w>>] = anonymous_ip_usage[<<a, w>>],
           \A s \in Sessions, a \in IPs, w \in Windows :
              ~(txs[k].op = "consume" /\ s = txs[k].session) =>
                 anonymous_usage'[<<s, a, w>>] = anonymous_usage[<<s, a, w>>]
    PROVE  TxsInv'
<1>1. TxsInv /\ k \in Connections
  BY ActiveFacts DEF QuotaInv
<1>2. /\ txs'[k] = Idle /\ txs' \in [Connections -> Transactions \cup {Idle}]
      /\ \A j \in Connections : j # k => txs'[j] = txs[j]
  BY <1>1 DEF TxsInv
<1>3. \A j \in Active' : j \in Active /\ j # k /\ txs'[j] = txs[j]
  BY <1>2 DEF Active
<1>4. LocksExclusive'
  BY <1>1, <1>3 DEF TxsInv, LocksExclusive
<1>5. ASSUME NEW j \in Active, j # k
      PROVE  Proper(txs[j])'
  <2> DEFINE t == txs[j]
             u == txs[k]
  <2>1. Proper(t) /\ t \in Transactions /\ Proper(u) /\ u \in Transactions
    BY <1>1, ActiveFacts DEF Proper
  <2>2. LockedActive(t)'
    BY <1>2, <1>3, <1>5, <2>1, ActiveFacts, <1>1 DEF Proper, LockedActive, Known, sessionVars
  <2>3. Held(t) \cap Held(u) = {} /\ AddressRow(u) \in Held(u)
    BY <1>1, <1>5, <2>1, TakenHeld DEF TxsInv, LocksExclusive
  <2>4. LocksTaken(t) => ~(t.ip = u.ip /\ Window(t) = Window(u))
    BY <2>1, <2>3, TakenHeld, RowNames
  <2>5. LocksTaken(t) /\ t.op = "consume" => ~(u.op = "consume" /\ t.session = u.session)
    BY <2>1, <2>3, TakenHeld, RowNames
  <2>6. t.ip \in IPs /\ Window(t) \in Windows /\ (t.op = "consume" => t.session \in Sessions)
    BY <2>1, TransactionFields
  <2>7. ReadsCurrent(t)
    BY <2>1 DEF Proper
  <2>8. ASSUME NEW x, x = t PROVE ReadsCurrent(x)'
    <3>1. ReadsCurrent(x)
      BY <2>7, <2>8
    <3>2. LocksTaken(x) =>
            /\ anonymous_ip_usage'[<<x.ip, Window(x)>>] = anonymous_ip_usage[<<x.ip, Window(x)>>]
            /\ x.op = "consume" => \A a \in IPs :
                  anonymous_usage'[<<x.session, a, Window(x)>>] =
                     anonymous_usage[<<x.session, a, Window(x)>>]
      BY <2>4, <2>5, <2>6, <2>8
    <3> QED
      BY <3>1, <3>2, ReadsStay
  <2> QED
    BY <1>1, <1>2, <1>5, <2>1, <2>2, <2>8, ActiveFacts DEF Proper
<1> QED
  BY <1>2, <1>3, <1>4, <1>5 DEF TxsInv

\* Steps that leave the counters alone keep what is said of them.
LEMMA QuietStep ==
    ASSUME QuotaInv, UNCHANGED <<anonymous_usage, anonymous_ip_usage>>,
           SessionInv', clock' \in Windows, TxsInv'
    PROVE  QuotaInv'
<1>1. UsageTypeOK'
  BY DEF QuotaInv, UsageTypeOK
<1>2. LimitsKept'
  BY DEF QuotaInv, LimitsKept
<1>3. UsageBalanced'
  <2> SUFFICES ASSUME NEW ip \in IPs, NEW w \in Windows, NEW m \in Metrics
               PROVE  anonymous_ip_usage'[<<ip, w>>][m] =
                         SumOf([s \in Sessions |-> anonymous_usage'[<<s, ip, w>>][m]])
    BY DEF UsageBalanced
  <2>1. anonymous_ip_usage[<<ip, w>>][m] =
           SumOf([s \in Sessions |-> anonymous_usage[<<s, ip, w>>][m]])
    BY DEF QuotaInv, UsageBalanced
  <2> QED
    BY <2>1
<1> QED
  BY <1>1, <1>2, <1>3 DEF QuotaInv

\* Sessions whose rows are locked stay as they are while sessions make a step.
LEMMA SessionsStep ==
    ASSUME QuotaInv, UNCHANGED quotaVars, SessionInv', clock' \in Windows,
           \A k \in Active : txs[k].op = "consume" /\ txs[k].locks > 0 => Stays(txs[k].session)
    PROVE  QuotaInv'
<1>1. /\ Active' = Active /\ txs' = txs /\ TxsInv
      /\ UNCHANGED <<anonymous_usage, anonymous_ip_usage>>
  BY DEF quotaVars, Active, QuotaInv
<1>2. ASSUME NEW k \in Active PROVE Proper(txs[k])'
  <2>1. Proper(txs[k])
    BY <1>1, ActiveFacts
  <2>2. LockedActive(txs[k])'
    BY <1>1, <2>1 DEF Proper, LockedActive, Stays
  <2>3. ReadsCurrent(txs[k])'
    BY <1>1, <2>1 DEF Proper, ReadsCurrent, BySession
  <2> QED
    BY <1>1, <2>1, <2>2, <2>3 DEF Proper
<1>3. TxsInv'
  BY <1>1, <1>2 DEF TxsInv, LocksExclusive
<1> QED
  BY <1>1, <1>3, QuietStep

\* The clock stops at its bound.
LEMMA ClockStep ==
    ASSUME clock \in Windows, SessionStep \/ UNCHANGED sessionVars
    PROVE  clock' \in Windows
<1>1. clock' = clock \/ Tick
  BY DEF SessionStep, sessionVars, Create, Ask, Get, Refuse, AlreadyRevoked, Admit, Lose,
         TouchInactive
<1> QED
  BY <1>1, SessionPolicyAssumption DEF Tick, Windows

\* Steps of one transaction that write nothing.
LEMMA QuietTx ==
    ASSUME QuotaInv, NEW k \in Connections, NEW new \in Transactions \cup {Idle},
           txs' = [txs EXCEPT ![k] = new],
           UNCHANGED <<sessionVars, anonymous_usage, anonymous_ip_usage>>,
           new # Idle => /\ Proper(new)
                         /\ \A j \in Active \ {k} : Held(txs[j]) \cap Held(new) = {}
    PROVE  QuotaInv'
<1>1. UNCHANGED anonymous_session /\ TxsInv /\ clock' \in Windows
  BY DEF sessionVars, QuotaInv
<1>2. TxsInv'
  BY <1>1, TxStep
<1>3. SessionInv'
  BY SessionStepKeeps DEF QuotaInv
<1> QED
  BY <1>1, <1>2, <1>3, QuietStep

\* A transaction that takes its next lock, which nobody holds.
LEMMA LockStep ==
    ASSUME TxsInv, NEW k \in Active, NEW row, RowFree(row),
           NEW new, Held(new) \subseteq Held(txs[k]) \cup {row}
    PROVE  \A j \in Active \ {k} : Held(txs[j]) \cap Held(new) = {}
BY DEF TxsInv, LocksExclusive, RowFree

\* A transaction begins without locks.
LEMMA BeginStep ==
    ASSUME QuotaInv, NEW k \in Connections, NEW t \in Transactions, t.locks = 0, Begin(k, t)
    PROVE  QuotaInv'
<1>1. /\ Len(LockOrder(t)) > 0 /\ ~LocksTaken(t) /\ Held(t) = {}
  <2>1. t.op \in {"creation", "consume"}
    BY TransactionFields
  <2>2. Len(LockOrder(t)) \in {1, 2}
    BY <2>1 DEF LockOrder
  <2> QED
    BY <2>2 DEF LocksTaken, Held
<1>2. Proper(t)
  BY <1>1 DEF Proper, LockedActive, ReadsCurrent
<1>3. UNCHANGED <<sessionVars, anonymous_usage, anonymous_ip_usage>> /\ t # Idle
  BY TransactionFields DEF Begin
<1>4. txs' = [txs EXCEPT ![k] = t]
  BY DEF Begin
<1> QED
  BY <1>1, <1>2, <1>3, <1>4, QuietTx

\* ConsumeSessionCreation and consume begin.
LEMMA BeginsStep ==
    ASSUME QuotaInv, NEW k \in Connections, NEW p \in Policies, NEW ip \in IPs,
           NEW now \in Readings,
           \/ BeginCreation(k, p, ip, now)
           \/ \E s \in Sessions, c \in Charges : BeginConsume(k, p, s, ip, c, now)
    PROVE  QuotaInv'
<1>1. now \in Windows
  BY ReadingsFacts, SessionPolicyAssumption DEF QuotaInv, SessionInv, Windows
<1>2. CASE BeginCreation(k, p, ip, now)
  <2> DEFINE t == [op |-> "creation", policy |-> p, ip |-> ip, now |-> now, locks |-> 0,
                   address_read |-> [m \in AddressMetrics |-> 0]]
  <2>1. t \in Transactions /\ t.locks = 0
    BY <1>1 DEF Transactions, CreationTx
  <2>2. Begin(k, t)
    BY <1>2 DEF BeginCreation
  <2> HIDE DEF t
  <2> QED
    BY <2>1, <2>2, BeginStep
<1>3. ASSUME NEW s \in Sessions, NEW c \in Charges, BeginConsume(k, p, s, ip, c, now)
      PROVE  QuotaInv'
  <2> DEFINE t == [op |-> "consume", policy |-> p, session |-> s, ip |-> ip, charge |-> c,
                   now |-> now, locks |-> 0, address_read |-> [m \in AddressMetrics |-> 0],
                   session_read |-> [m \in Metrics |-> 0]]
  <2>1. t \in Transactions /\ t.locks = 0
    BY <1>1 DEF Transactions, ConsumeTx
  <2>2. Begin(k, t)
    BY <1>3 DEF BeginConsume
  <2> HIDE DEF t
  <2> QED
    BY <2>1, <2>2, BeginStep
<1> QED
  BY <1>2, <1>3

\* lockActiveSession: the session is active, and its row is free.
LEMMA LockSessionStep ==
    ASSUME QuotaInv, NEW k \in Connections, LockSession(k)
    PROVE  QuotaInv'
<1> DEFINE t == txs[k]
           new == [t EXCEPT !.locks = @ + 1]
<1>1. /\ t.op = "consume" /\ Wants(t, SessionRow(t)) /\ RowFree(SessionRow(t)) /\ Chargeable(t)
      /\ txs' = [txs EXCEPT ![k] = new]
      /\ UNCHANGED <<sessionVars, anonymous_usage, anonymous_ip_usage>>
  BY DEF LockSession, QuotaInv, TxsInv
<1>2. k \in Active /\ TxsInv
  BY <1>1 DEF Active, Idle, QuotaInv
<1>3. Proper(t) /\ t \in ConsumeTx /\ t.locks \in Nat
  BY <1>1, <1>2, ActiveFacts, TransactionFields DEF Proper
<1>4. t.locks = 0
  BY <1>1, <1>3, ConsumeLocks, RowNames DEF Proper
<1>5. /\ new \in ConsumeTx /\ new.op = t.op /\ new.locks = 1 /\ new.session = t.session
      /\ new.ip = t.ip /\ Window(new) = Window(t)
  BY <1>3, <1>4 DEF ConsumeTx, Window
<1> HIDE DEF new
<1>6. Len(LockOrder(new)) = 2
  BY <1>1, <1>5 DEF LockOrder
<1>7. ~LocksTaken(new) /\ Held(new) = {SessionRow(t)}
  <2>1. SessionRow(new) = SessionRow(t)
    BY <1>5 DEF SessionRow
  <2> QED
    BY <1>1, <1>5, <1>6, <2>1, ConsumeLocks
<1>8. Proper(new)
  BY <1>1, <1>5, <1>6, <1>7 DEF Proper, LockedActive, ReadsCurrent, Transactions, Chargeable
<1>9. \A j \in Active \ {k} : Held(txs[j]) \cap Held(new) = {}
  BY <1>1, <1>2, <1>7 DEF RowFree
<1> QED
  BY <1>1, <1>5, <1>8, <1>9, QuietTx DEF Transactions

\* A transaction with one more lock, and with what it reads.
Locking(t) == [t EXCEPT !.locks = @ + 1]
ReadAddress(t, read) == [t EXCEPT !.address_read = read]
ReadSession(t, sum) == [t EXCEPT !.session_read = sum]

\* A creation with its only lock.
LEMMA CreationRead ==
    ASSUME NEW t \in CreationTx, t.locks = 0, NEW read \in [AddressMetrics -> Nat],
           NEW new, new = ReadAddress(Locking(t), read)
    PROVE  /\ new \in CreationTx /\ new.op = "creation" /\ new.locks = 1 /\ new.address_read = read
           /\ AddressRow(new) = AddressRow(t) /\ new.ip = t.ip /\ Window(new) = Window(t)
           /\ Len(LockOrder(new)) = 1 /\ Held(new) = {AddressRow(t)}
<1>1. /\ new \in CreationTx /\ new.op = "creation" /\ new.locks = 1 /\ new.address_read = read
      /\ new.ip = t.ip /\ new.policy = t.policy /\ new.now = t.now
  <2> DEFINE mid == Locking(t)
  <2>1. /\ mid \in CreationTx /\ mid.locks = 1 /\ mid.op = "creation"
        /\ mid.ip = t.ip /\ mid.policy = t.policy /\ mid.now = t.now
    BY DEF CreationTx, Locking
  <2>2. new = ReadAddress(mid, read)
    OBVIOUS
  <2> HIDE DEF mid
  <2> QED
    BY <2>1, <2>2 DEF CreationTx, ReadAddress
<1>2. Window(new) = Window(t) /\ AddressRow(new) = AddressRow(t)
  BY <1>1 DEF Window, AddressRow
<1>3. Len(LockOrder(new)) = 1
  BY <1>1 DEF LockOrder
<1>4. new.locks \in Nat /\ new.locks <= Len(LockOrder(new))
  BY <1>1, <1>3
<1>5. Held(new) = IF new.locks = 0 THEN {} ELSE {AddressRow(new)}
  BY <1>1, <1>4, CreationLocks
<1> QED
  BY <1>1, <1>2, <1>3, <1>5

\* A charge with its second lock.
LEMMA ConsumeRead ==
    ASSUME NEW t \in ConsumeTx, t.locks = 1, NEW read \in [AddressMetrics -> Nat],
           NEW sum \in [Metrics -> Nat],
           NEW new, new = ReadSession(ReadAddress(Locking(t), read), sum)
    PROVE  /\ new \in ConsumeTx /\ new.op = "consume" /\ new.locks = 2
           /\ new.address_read = read /\ new.session_read = sum
           /\ new.session = t.session /\ new.ip = t.ip /\ Window(new) = Window(t)
           /\ Len(LockOrder(new)) = 2 /\ Held(new) = Held(t) \cup {AddressRow(t)}
<1>1. /\ new \in ConsumeTx /\ new.op = "consume" /\ new.locks = 2 /\ t.op = "consume"
      /\ new.address_read = read /\ new.session_read = sum
      /\ new.session = t.session /\ new.ip = t.ip
      /\ new.policy = t.policy /\ new.now = t.now
  <2> DEFINE mid == Locking(t)
             next == ReadAddress(mid, read)
  <2>1. /\ mid \in ConsumeTx /\ mid.locks = 2 /\ mid.op = "consume" /\ mid.session = t.session
        /\ mid.ip = t.ip /\ mid.policy = t.policy /\ mid.now = t.now
    BY DEF ConsumeTx, Locking
  <2>2. new = ReadSession(next, sum)
    OBVIOUS
  <2> HIDE DEF mid
  <2>3. /\ next \in ConsumeTx /\ next.locks = 2 /\ next.op = "consume"
        /\ next.session = t.session /\ next.address_read = read
        /\ next.ip = t.ip /\ next.policy = t.policy /\ next.now = t.now
    BY <2>1 DEF ConsumeTx, ReadAddress
  <2> HIDE DEF next
  <2>4. t.op = "consume"
    BY DEF ConsumeTx
  <2> QED
    BY <2>2, <2>3, <2>4 DEF ConsumeTx, ReadSession
<1>2. /\ Window(new) = Window(t) /\ AddressRow(new) = AddressRow(t)
      /\ SessionRow(new) = SessionRow(t)
  BY <1>1 DEF Window, AddressRow, SessionRow
<1>3. Len(LockOrder(new)) = 2 /\ Len(LockOrder(t)) = 2
  BY <1>1 DEF LockOrder
<1>4. /\ new.locks \in Nat /\ new.locks <= Len(LockOrder(new))
      /\ t.locks \in Nat /\ t.locks <= Len(LockOrder(t))
  BY <1>1, <1>3
<1>5. Held(new) = IF new.locks = 0 THEN {}
                  ELSE IF new.locks = 1 THEN {SessionRow(new)}
                  ELSE {SessionRow(new), AddressRow(new)}
  BY <1>1, <1>4, ConsumeLocks
<1>6. Held(t) = IF t.locks = 0 THEN {}
                ELSE IF t.locks = 1 THEN {SessionRow(t)}
                ELSE {SessionRow(t), AddressRow(t)}
  BY <1>1, <1>4, ConsumeLocks
<1> QED
  BY <1>1, <1>2, <1>3, <1>5, <1>6

\* ensureIPUsage and the reads under the lock.
LEMMA LockAddressStep ==
    ASSUME QuotaInv, NEW k \in Connections, LockAddress(k)
    PROVE  QuotaInv'
<1> DEFINE t == txs[k]
           read == anonymous_ip_usage[<<t.ip, Window(t)>>]
           locked == [t EXCEPT !.locks = @ + 1, !.address_read = read]
           sum == SessionUsage(t.session, t.ip, Window(t))
           new == IF t.op = "creation" THEN locked ELSE [locked EXCEPT !.session_read = sum]
<1>1. /\ k \in Active /\ Wants(t, AddressRow(t)) /\ RowFree(AddressRow(t))
      /\ txs' = [txs EXCEPT ![k] = new]
      /\ UNCHANGED <<sessionVars, anonymous_usage, anonymous_ip_usage>>
  BY DEF LockAddress
<1>2. TxsInv /\ UsageTypeOK
  BY DEF QuotaInv
<1>3. Proper(t) /\ t \in Transactions /\ t.locks \in Nat
  BY <1>1, <1>2, ActiveFacts DEF Proper
<1>4. read \in [AddressMetrics -> Nat]
  BY <1>2, <1>3, TransactionFields DEF UsageTypeOK
<1>5. t.op = "consume" =>
         /\ sum = [m \in Metrics |-> SumOf(BySession(t.session, Window(t), m))]
         /\ sum \in [Metrics -> Nat]
  <2> SUFFICES ASSUME t.op = "consume"
               PROVE  /\ sum = [m \in Metrics |-> SumOf(BySession(t.session, Window(t), m))]
                      /\ sum \in [Metrics -> Nat]
    OBVIOUS
  <2>1. sum = [m \in Metrics |-> SumOf(BySession(t.session, Window(t), m))]
    BY DEF SessionUsage, BySession
  <2>2. t.session \in Sessions /\ Window(t) \in Windows
    BY <1>3, TransactionFields
  <2>3. \A m \in Metrics : SumOf(BySession(t.session, Window(t), m)) \in Nat
    <3> SUFFICES ASSUME NEW m \in Metrics
                 PROVE  SumOf(BySession(t.session, Window(t), m)) \in Nat
      OBVIOUS
    <3>1. BySession(t.session, Window(t), m) \in [IPs -> Nat]
      BY <1>2, <2>2 DEF BySession, UsageTypeOK
    <3> QED
      BY <3>1, SumBounds, QuotaFiniteAssumption
  <2> QED
    BY <2>1, <2>3
<1> HIDE DEF read, sum
<1>6. CASE t.op = "creation"
  <2>1. t \in CreationTx /\ t.locks = 0
    BY <1>1, <1>3, <1>6, TransactionFields, CreationLocks DEF Proper
  <2>2. new = ReadAddress(Locking(t), read)
    BY <1>6 DEF ReadAddress, Locking
  <2> HIDE DEF new
  <2>3. /\ new \in CreationTx /\ new.op = "creation" /\ new.locks = 1
        /\ new.address_read = read /\ new.ip = t.ip /\ Window(new) = Window(t)
        /\ Len(LockOrder(new)) = 1 /\ Held(new) = {AddressRow(t)}
    <3> HIDE DEF t
    <3> QED
      BY <1>4, <2>1, <2>2, CreationRead
  <2>4. Proper(new)
    BY <2>3 DEF Proper, LockedActive, ReadsCurrent, Transactions, read
  <2>5. \A j \in Active \ {k} : Held(txs[j]) \cap Held(new) = {}
    BY <1>1, <2>3 DEF RowFree
  <2> QED
    BY <1>1, <2>3, <2>4, <2>5, QuietTx DEF Transactions
<1>7. CASE t.op = "consume"
  <2>1. t \in ConsumeTx /\ t.locks = 1
    BY <1>1, <1>3, <1>7, TransactionFields, ConsumeLocks, RowNames DEF Proper
  <2>2. new = ReadSession(ReadAddress(Locking(t), read), sum)
    BY <1>7 DEF ReadSession, ReadAddress, Locking
  <2> HIDE DEF new
  <2>3. /\ new \in ConsumeTx /\ new.op = "consume" /\ new.locks = 2
        /\ new.address_read = read /\ new.session_read = sum
        /\ new.session = t.session /\ new.ip = t.ip /\ Window(new) = Window(t)
        /\ Len(LockOrder(new)) = 2 /\ Held(new) = Held(t) \cup {AddressRow(t)}
    <3> HIDE DEF t
    <3> QED
      BY <1>4, <1>5, <1>7, <2>1, <2>2, ConsumeRead
  <2>4. LockedActive(new)
    BY <1>3, <1>7, <2>1, <2>3 DEF Proper, LockedActive
  <2>5. ReadsCurrent(new)
    BY <1>5, <1>7, <2>3 DEF ReadsCurrent, read
  <2>6. Proper(new)
    BY <2>3, <2>4, <2>5 DEF Proper, Transactions
  <2>7. \A j \in Active \ {k} : Held(txs[j]) \cap Held(new) = {}
    BY <1>1, <1>2, <2>3, LockStep
  <2> QED
    BY <1>1, <2>3, <2>6, <2>7, QuietTx DEF Transactions
<1> QED
  BY <1>3, <1>6, <1>7, TransactionFields

\* A transaction that is rolled back leaves nothing behind.
LEMMA RollbackStep ==
    ASSUME QuotaInv, NEW k \in Connections, Rollback(k)
    PROVE  QuotaInv'
BY QuietTx DEF Rollback, End

\* ConsumeSessionCreation commits.
LEMMA ChargeCreationStep ==
    ASSUME QuotaInv, NEW k \in Connections, ChargeCreation(k)
    PROVE  QuotaInv'
<1> DEFINE t == txs[k]
<1>1. /\ t.op = "creation" /\ LocksTaken(t) /\ CreationAllowed(t)
      /\ ChargeAddress(t, "sessions", 1)
      /\ txs' = [txs EXCEPT ![k] = Idle] /\ UNCHANGED <<sessionVars, anonymous_usage>>
  BY DEF ChargeCreation, End
<1>2. k \in Active /\ TxsInv /\ UsageTypeOK /\ LimitsKept /\ UsageBalanced
  BY <1>1 DEF Active, Idle, QuotaInv
<1>3. Proper(t) /\ t \in Transactions
  BY <1>2, ActiveFacts DEF Proper
<1>4. "sessions" \in AddressMetrics /\ Metrics \subseteq AddressMetrics /\ "sessions" \notin Metrics
  BY DEF AddressMetrics, Metrics, Counts
<1>5. ~Exceeds(anonymous_ip_usage[<<t.ip, Window(t)>>]["sessions"], 1, t.policy.address["sessions"])
  BY <1>1, <1>3 DEF CreationAllowed, Proper, ReadsCurrent
<1> HIDE DEF t
<1>6. UsageTypeOK'
  BY <1>1, <1>2, <1>3, <1>4, ChargeAddressAdds DEF UsageTypeOK
<1>7. LimitsKept'
  <2> SUFFICES ASSUME NEW w \in Windows
               PROVE  /\ \A s \in Sessions, m \in Metrics : \E p \in Policies :
                            SumOf([a \in IPs |-> anonymous_usage'[<<s, a, w>>][m]]) <= p.session[m]
                      /\ \A ip \in IPs, m \in AddressMetrics : \E p \in Policies :
                            anonymous_ip_usage'[<<ip, w>>][m] <= p.address[m]
    BY DEF LimitsKept
  <2>1. \A s \in Sessions, m \in Metrics : \E p \in Policies :
           SumOf([a \in IPs |-> anonymous_usage[<<s, a, w>>][m]]) <= p.session[m]
    BY <1>2 DEF LimitsKept
  <2>2. \A ip \in IPs, m \in AddressMetrics : \E p \in Policies :
           anonymous_ip_usage'[<<ip, w>>][m] <= p.address[m]
    BY <1>1, <1>2, <1>3, <1>4, <1>5, AddressLimitKept
  <2>3. anonymous_usage' = anonymous_usage
    BY <1>1
  <2> QED
    BY <2>1, <2>2, <2>3
<1>8. UsageBalanced'
  <2> SUFFICES ASSUME NEW ip \in IPs, NEW w \in Windows, NEW m \in Metrics
               PROVE  anonymous_ip_usage'[<<ip, w>>][m] =
                         SumOf([s \in Sessions |-> anonymous_usage'[<<s, ip, w>>][m]])
    BY DEF UsageBalanced
  <2>1. anonymous_ip_usage[<<ip, w>>][m] =
           SumOf([s \in Sessions |-> anonymous_usage[<<s, ip, w>>][m]])
    BY <1>2 DEF UsageBalanced
  <2>2. anonymous_ip_usage'[<<ip, w>>][m] = anonymous_ip_usage[<<ip, w>>][m]
    BY <1>1, <1>2, <1>3, <1>4, ChargeAddressAdds
  <2>3. anonymous_usage' = anonymous_usage
    BY <1>1
  <2> QED
    BY <2>1, <2>2, <2>3
<1>9. TxsInv'
  BY <1>1, <1>2, <1>3, <1>4, <1>6, ChargeAddressAdds, CommitStep DEF t
<1>10. SessionInv' /\ clock' \in Windows
  BY <1>1, SessionStepKeeps DEF QuotaInv, sessionVars
<1> QED
  BY <1>6, <1>7, <1>8, <1>9, <1>10 DEF QuotaInv

\* Consume commits.
LEMMA ChargeStep ==
    ASSUME QuotaInv, NEW k \in Connections, Charge(k)
    PROVE  /\ QuotaInv'
           /\ txs[k].session \in Known /\ ~Revoked(anonymous_session[txs[k].session])
           /\ \A s \in Sessions, a \in IPs, w \in Windows :
                 s # txs[k].session => anonymous_usage'[<<s, a, w>>] = anonymous_usage[<<s, a, w>>]
<1> DEFINE t == txs[k]
           mc == t.charge[1]
           n == t.charge[2]
<1>1. /\ t.op = "consume" /\ LocksTaken(t) /\ WithinLimits(t)
      /\ ChargeSession(t) /\ ChargeAddress(t, mc, n)
      /\ txs' = [txs EXCEPT ![k] = Idle] /\ UNCHANGED sessionVars
  BY DEF Charge, End
<1>2. k \in Active /\ TxsInv /\ UsageTypeOK /\ LimitsKept /\ UsageBalanced
  BY <1>1 DEF Active, Idle, QuotaInv
<1>3. Proper(t) /\ t \in Transactions
  BY <1>2, ActiveFacts DEF Proper
<1>4. /\ t \in ConsumeTx /\ t.session \in Sessions /\ t.ip \in IPs /\ Window(t) \in Windows
      /\ t.policy \in Policies /\ mc \in Metrics /\ n \in Nat
  BY <1>1, <1>3, TransactionFields
<1>5. mc \in AddressMetrics /\ Metrics \subseteq AddressMetrics
  BY <1>4 DEF AddressMetrics
<1>6. /\ ~Exceeds(SumOf(BySession(t.session, Window(t), mc)), n, t.policy.session[mc])
      /\ ~Exceeds(anonymous_ip_usage[<<t.ip, Window(t)>>][mc], n, t.policy.address[mc])
  <2>1. /\ t.session_read[mc] = SumOf(BySession(t.session, Window(t), mc))
        /\ t.address_read = anonymous_ip_usage[<<t.ip, Window(t)>>]
    BY <1>1, <1>3, <1>4 DEF Proper, ReadsCurrent
  <2>2. Delta(t, mc) = n
    BY DEF Delta
  <2> QED
    BY <1>1, <1>4, <2>1, <2>2 DEF WithinLimits
<1>7. t.session \in Known /\ ~Revoked(anonymous_session[t.session])
  BY <1>1, <1>3, TakenHeld DEF Proper, LockedActive
<1> HIDE DEF t, mc, n
<1>8. UsageTypeOK'
  BY <1>1, <1>2, <1>3, <1>4, <1>5, ChargeAddressAdds, ChargeSessionAdds DEF UsageTypeOK
<1>9. ASSUME NEW s \in Sessions, NEW w \in Windows, NEW m \in Metrics
      PROVE  \E p \in Policies :
                SumOf([a \in IPs |-> anonymous_usage'[<<s, a, w>>][m]]) <= p.session[m]
  <2> DEFINE sum == SumOf(BySession(s, w, m))
             sums == SumOf([a \in IPs |-> anonymous_usage'[<<s, a, w>>][m]])
  <2>1. sums = IF s = t.session /\ w = Window(t) /\ m = mc THEN sum + n ELSE sum
    <3>1. SumOf(BySession(s, w, m))' = sums
      BY DEF BySession
    <3>2. SumOf(BySession(s, w, m))' =
             IF s = t.session /\ w = Window(t) /\ m = mc THEN sum + n ELSE sum
      BY <1>1, <1>2, <1>4, ChargeSessionAdds DEF mc, n
    <3> QED
      BY <3>1, <3>2
  <2>2. \E p \in Policies : sum <= p.session[m]
    BY <1>2 DEF LimitsKept, BySession
  <2>3. sum \in Nat
    <3>1. BySession(s, w, m) \in [IPs -> Nat]
      BY <1>2 DEF BySession, UsageTypeOK
    <3> QED
      BY <3>1, SumBounds, QuotaFiniteAssumption
  <2> HIDE DEF sums
  <2>4. CASE s = t.session /\ w = Window(t) /\ m = mc
    <3>1. ~Exceeds(sum, n, t.policy.session[m])
      BY <1>6, <2>4
    <3>2. t.policy.session[m] \in Nat
      BY <1>4, QuotaPolicyAssumption
    <3> HIDE DEF sum
    <3>3. sum + n <= t.policy.session[m]
      BY <1>4, <2>3, <3>1, <3>2, NotExceeded
    <3> QED
      BY <1>4, <2>1, <2>4, <3>3 DEF sums
  <2>5. CASE ~(s = t.session /\ w = Window(t) /\ m = mc)
    BY <2>1, <2>2, <2>5 DEF sums
  <2> QED
    BY <2>4, <2>5
<1>10. LimitsKept'
  <2> SUFFICES ASSUME NEW w \in Windows
               PROVE  /\ \A s \in Sessions, m \in Metrics : \E p \in Policies :
                            SumOf([a \in IPs |-> anonymous_usage'[<<s, a, w>>][m]]) <= p.session[m]
                      /\ \A ip \in IPs, m \in AddressMetrics : \E p \in Policies :
                            anonymous_ip_usage'[<<ip, w>>][m] <= p.address[m]
    BY DEF LimitsKept
  <2>1. \A ip \in IPs, m \in AddressMetrics : \E p \in Policies :
           anonymous_ip_usage'[<<ip, w>>][m] <= p.address[m]
    BY <1>1, <1>2, <1>3, <1>4, <1>5, <1>6, AddressLimitKept
  <2> QED
    BY <1>9, <2>1
<1>11. UsageBalanced'
  <2> SUFFICES ASSUME NEW ip \in IPs, NEW w \in Windows, NEW m \in Metrics
               PROVE  anonymous_ip_usage'[<<ip, w>>][m] =
                         SumOf([s \in Sessions |-> anonymous_usage'[<<s, ip, w>>][m]])
    BY DEF UsageBalanced
  <2>1. anonymous_ip_usage[<<ip, w>>][m] = SumOf(ByAddress(ip, w, m))
    BY <1>2 DEF UsageBalanced, ByAddress
  <2>2. anonymous_ip_usage'[<<ip, w>>][m] =
           IF ip = t.ip /\ w = Window(t) /\ m = mc
           THEN anonymous_ip_usage[<<ip, w>>][m] + n ELSE anonymous_ip_usage[<<ip, w>>][m]
    BY <1>1, <1>2, <1>3, <1>4, <1>5, ChargeAddressAdds
  <2>3. SumOf(ByAddress(ip, w, m))' =
           IF ip = t.ip /\ w = Window(t) /\ m = mc
           THEN SumOf(ByAddress(ip, w, m)) + n ELSE SumOf(ByAddress(ip, w, m))
    BY <1>1, <1>2, <1>4, ChargeSessionAdds DEF mc, n
  <2>4. SumOf(ByAddress(ip, w, m))' =
           SumOf([s \in Sessions |-> anonymous_usage'[<<s, ip, w>>][m]])
    BY DEF ByAddress
  <2> QED
    BY <2>1, <2>2, <2>3, <2>4
<1>12. \A s \in Sessions, a \in IPs, w \in Windows :
          s # t.session => anonymous_usage'[<<s, a, w>>] = anonymous_usage[<<s, a, w>>]
  BY <1>1, <1>2, <1>4, ChargeSessionAdds
<1>13. TxsInv'
  <2>1. \A a \in IPs, w \in Windows :
           ~(a = t.ip /\ w = Window(t)) =>
              anonymous_ip_usage'[<<a, w>>] = anonymous_ip_usage[<<a, w>>]
    BY <1>1, <1>2, <1>3, <1>4, <1>5, ChargeAddressAdds
  <2>2. /\ t.op = "consume" /\ LocksTaken(t)
        /\ txs' = [txs EXCEPT ![k] = Idle] /\ UNCHANGED sessionVars
    BY <1>1
  <2> QED
    BY <1>2, <1>8, <1>12, <2>1, <2>2, CommitStep DEF t
<1>14. SessionInv' /\ clock' \in Windows
  BY <1>1, SessionStepKeeps DEF QuotaInv, sessionVars
<1>15. QuotaInv'
  BY <1>8, <1>10, <1>11, <1>13, <1>14 DEF QuotaInv
<1> QED
  BY <1>7, <1>12, <1>15 DEF t

\* Authenticate and Revoke wait for the transaction that locks the row.
LEMMA SessionRowStatementStep ==
    ASSUME QuotaInv, NEW r \in requests, SessionRowStatement(r)
    PROVE  QuotaInv'
<1>1. RowFree(<<"session", r.session>>) /\ RowStatement(r) /\ UNCHANGED quotaVars
  BY DEF SessionRowStatement
<1>2. /\ SessionInv' /\ clock' = clock
      /\ \A s \in Known : s # r.session => Stays(s)
  BY <1>1, RowStatementKeeps DEF QuotaInv
<1>3. ASSUME NEW k \in Active, txs[k].op = "consume", txs[k].locks > 0
      PROVE  Stays(txs[k].session)
  <2>1. Proper(txs[k]) /\ txs[k].locks \in Nat
    BY ActiveFacts DEF QuotaInv
  <2>2. txs[k].session \in Known /\ txs[k].locks <= Len(LockOrder(txs[k]))
    BY <1>3, <2>1 DEF Proper, LockedActive
  <2>3. SessionRow(txs[k]) \in Held(txs[k])
    BY <1>3, <2>1, <2>2, ConsumeLocks
  <2>4. txs[k].session # r.session
    BY <1>1, <2>3 DEF RowFree, SessionRow
  <2> QED
    BY <1>2, <2>2, <2>4
<1> QED
  BY <1>1, <1>2, <1>3, SessionsStep DEF QuotaInv

\* Every step of quotas is a step of sessions, or leaves them alone.
LEMMA SessionPart == [Next]_vars => [SessionNext]_sessionVars
<1> SUFFICES ASSUME [Next]_vars PROVE [SessionNext]_sessionVars
  OBVIOUS
<1>1. CASE UNCHANGED vars
  BY <1>1 DEF vars
<1>2. CASE SessionStep /\ UNCHANGED quotaVars
  BY <1>2 DEF SessionNext
<1>3. ASSUME NEW r \in requests, SessionRowStatement(r) PROVE SessionNext
  BY <1>3 DEF SessionRowStatement, SessionNext
<1>4. ASSUME NEW k \in Connections, NEW p \in Policies, NEW ip \in IPs, NEW now \in Readings,
             \/ BeginCreation(k, p, ip, now)
             \/ \E s \in Sessions, c \in Charges : BeginConsume(k, p, s, ip, c, now)
      PROVE  UNCHANGED sessionVars
  BY <1>4 DEF BeginCreation, BeginConsume, Begin
<1>5. ASSUME NEW k \in Connections,
             \/ LockSession(k) \/ LockAddress(k) \/ SessionInactive(k) \/ Exceeded(k)
             \/ Rollback(k) \/ ChargeCreation(k) \/ Charge(k)
      PROVE  UNCHANGED sessionVars
  BY <1>5 DEF LockSession, LockAddress, SessionInactive, Exceeded, Rollback, ChargeCreation,
              Charge, End
<1> QED
  BY <1>1, <1>2, <1>3, <1>4, <1>5 DEF Next

\* QuotaInv holds before the first request.
LEMMA QuotaInitInv == Init => QuotaInv
<1> SUFFICES ASSUME Init PROVE QuotaInv
  OBVIOUS
<1>1. /\ SessionInv
      /\ anonymous_usage = [key \in Sessions \X IPs \X Windows |-> [m \in Metrics |-> 0]]
      /\ anonymous_ip_usage = [key \in IPs \X Windows |-> [m \in AddressMetrics |-> 0]]
      /\ txs = [k \in Connections |-> Idle]
  BY SessionInitInv DEF Init
<1>2. clock \in Windows
  BY SessionPolicyAssumption DEF Init, SessionInit, Windows
<1>3. UsageTypeOK
  BY <1>1 DEF UsageTypeOK
<1>4. LimitsKept
  <2>1. PICK p \in Policies : TRUE
    BY QuotaPolicyAssumption
  <2>2. /\ \A m \in Metrics : p.session[m] \in Nat
        /\ \A m \in AddressMetrics : p.address[m] \in Nat
    BY QuotaPolicyAssumption
  <2>3. ASSUME NEW w \in Windows, NEW s \in Sessions, NEW m \in Metrics
        PROVE  SumOf([a \in IPs |-> anonymous_usage[<<s, a, w>>][m]]) <= p.session[m]
    <3>1. SumOf([a \in IPs |-> anonymous_usage[<<s, a, w>>][m]]) = 0
      <4>1. [a \in IPs |-> anonymous_usage[<<s, a, w>>][m]] = [a \in IPs |-> 0]
        BY <1>1
      <4> QED
        BY <4>1, SumZero, QuotaFiniteAssumption
    <3> QED
      BY <2>2, <3>1
  <2>4. ASSUME NEW w \in Windows, NEW a \in IPs, NEW m \in AddressMetrics
        PROVE  anonymous_ip_usage[<<a, w>>][m] <= p.address[m]
    BY <1>1, <2>2
  <2> QED
    BY <2>3, <2>4 DEF LimitsKept
<1>5. UsageBalanced
  <2> SUFFICES ASSUME NEW ip \in IPs, NEW w \in Windows, NEW m \in Metrics
               PROVE  anonymous_ip_usage[<<ip, w>>][m] =
                         SumOf([x \in Sessions |-> anonymous_usage[<<x, ip, w>>][m]])
    BY DEF UsageBalanced
  <2>1. [x \in Sessions |-> anonymous_usage[<<x, ip, w>>][m]] = [x \in Sessions |-> 0]
    BY <1>1
  <2>2. anonymous_ip_usage[<<ip, w>>][m] = 0
    BY <1>1 DEF AddressMetrics
  <2> QED
    BY <2>1, <2>2, SumZero, QuotaFiniteAssumption
<1>6. TxsInv
  BY <1>1 DEF TxsInv, Active, LocksExclusive
<1> QED
  BY <1>1, <1>2, <1>3, <1>4, <1>5, <1>6 DEF QuotaInv

\* Every step keeps it.
LEMMA QuotaNextInv == QuotaInv /\ [Next]_vars => QuotaInv'
<1> SUFFICES ASSUME QuotaInv, [Next]_vars PROVE QuotaInv'
  OBVIOUS
<1>1. CASE (SessionStep /\ UNCHANGED quotaVars) \/ UNCHANGED vars
  <2>1. SessionStep \/ UNCHANGED sessionVars
    BY <1>1 DEF vars
  <2>2. SessionInv' /\ (\A s \in Known : Stays(s)) /\ clock' \in Windows
    BY <2>1, SessionStepKeeps, ClockStep DEF QuotaInv
  <2>3. \A k \in Active : txs[k].op = "consume" /\ txs[k].locks > 0 => txs[k].session \in Known
    BY ActiveFacts DEF QuotaInv, Proper, LockedActive
  <2> QED
    BY <1>1, <2>2, <2>3, SessionsStep DEF vars
<1>2. ASSUME NEW r \in requests, SessionRowStatement(r) PROVE QuotaInv'
  BY <1>2, SessionRowStatementStep
<1>3. ASSUME NEW k \in Connections, NEW p \in Policies, NEW ip \in IPs, NEW now \in Readings,
             \/ BeginCreation(k, p, ip, now)
             \/ \E s \in Sessions, c \in Charges : BeginConsume(k, p, s, ip, c, now)
      PROVE  QuotaInv'
  BY <1>3, BeginsStep
<1>4. ASSUME NEW k \in Connections, LockSession(k) PROVE QuotaInv'
  BY <1>4, LockSessionStep
<1>5. ASSUME NEW k \in Connections, LockAddress(k) PROVE QuotaInv'
  BY <1>5, LockAddressStep
<1>6. ASSUME NEW k \in Connections, SessionInactive(k) \/ Exceeded(k) \/ Rollback(k)
      PROVE  QuotaInv'
  BY <1>6, RollbackStep DEF SessionInactive, Exceeded
<1>7. ASSUME NEW k \in Connections, ChargeCreation(k) PROVE QuotaInv'
  BY <1>7, ChargeCreationStep
<1>8. ASSUME NEW k \in Connections, Charge(k) PROVE QuotaInv'
  BY <1>8, ChargeStep
<1> QED
  BY <1>1, <1>2, <1>3, <1>4, <1>5, <1>6, <1>7, <1>8 DEF Next

\* QuotaInv holds in every reachable state.
THEOREM QuotaInvAlways == Spec => []QuotaInv
BY QuotaInitInv, QuotaNextInv, PTL DEF Spec

\* Transactions of quotas disturb no session: all that is proved of sessions
\* holds of sessions under quotas.
THEOREM SessionsUndisturbed == Spec => SessionSpec
<1>1. Init => SessionInit
  BY DEF Init
<1> QED
  BY <1>1, SessionPart, PTL DEF Spec, SessionSpec

\* Every variable has its type; in particular the counts of a session, whose sums
\* are limited, fit their columns.
THEOREM QuotaTypeCorrect == Spec => []TypeOK
<1>1. QuotaInv => TypeOK
  <2> SUFFICES ASSUME QuotaInv PROVE TypeOK
    OBVIOUS
  <2>1. /\ SessionTypeOK /\ UsageTypeOK /\ TxsInv /\ LimitsKept
        /\ \A k \in Active : txs[k].locks <= Len(LockOrder(txs[k]))
    BY ActiveFacts DEF QuotaInv, SessionInv, Proper
  <2>2. ASSUME NEW s \in Sessions, NEW a \in IPs, NEW w \in Windows, NEW m \in Counts
        PROVE  anonymous_usage[<<s, a, w>>][m] <= MaxInt32
    <3>1. m \in Metrics
      BY DEF Metrics
    <3>2. /\ BySession(s, w, m) \in [IPs -> Nat]
          /\ BySession(s, w, m)[a] = anonymous_usage[<<s, a, w>>][m]
      BY <2>1, <3>1 DEF BySession, UsageTypeOK
    <3>3. SumOf(BySession(s, w, m)) \in Nat /\ BySession(s, w, m)[a] <= SumOf(BySession(s, w, m))
      BY <3>2, SumBounds, QuotaFiniteAssumption
    <3>4. PICK p \in Policies : SumOf(BySession(s, w, m)) <= p.session[m]
      BY <2>1, <3>1 DEF LimitsKept, BySession
    <3>5. p.session[m] \in Nat /\ p.session[m] <= MaxInt32 /\ MaxInt32 \in Nat
      BY <3>1, QuotaPolicyAssumption DEF MaxInt32
    <3>6. BySession(s, w, m)[a] \in Nat
      BY <3>2
    <3> QED
      BY <3>2, <3>3, <3>4, <3>5, <3>6
  <2> QED
    BY <2>1, <2>2 DEF TypeOK, UsageTypeOK, TxsInv, Transactions
<1> QED
  BY <1>1, QuotaInvAlways, PTL

\* No session and no address ever spends more in a window than the most generous
\* policy in force allows.
THEOREM LimitsKeptAlways == Spec => []LimitsKept
<1>1. QuotaInv => LimitsKept
  BY DEF QuotaInv
<1> QED
  BY <1>1, QuotaInvAlways, PTL

\* The two usage tables always tell the same story.
THEOREM UsageBalancedAlways == Spec => []UsageBalanced
<1>1. QuotaInv => UsageBalanced
  BY DEF QuotaInv
<1> QED
  BY <1>1, QuotaInvAlways, PTL

\* A transaction always decides on the usage that is stored.
THEOREM DecisionsCurrentAlways == Spec => []DecisionsCurrent
<1>1. QuotaInv => DecisionsCurrent
  BY ActiveFacts DEF QuotaInv, Proper, ReadsCurrent, BySession, DecisionsCurrent
<1> QED
  BY <1>1, QuotaInvAlways, PTL

\* Transactions never wait for each other in a circle: whoever holds the row of
\* an address holds all it needs, and waits for nobody.
THEOREM NoCircularWaitAlways == Spec => []NoCircularWait
<1>1. QuotaInv => NoCircularWait
  <2> SUFFICES ASSUME QuotaInv, NEW K \in SUBSET Active, K # {},
                      \A k \in K : WaitsFor(k, K)
               PROVE  FALSE
    BY DEF NoCircularWait
  <2>1. \A k \in K : /\ txs[k].locks \in Nat /\ txs[k].locks <= Len(LockOrder(txs[k]))
                     /\ txs[k].op \in {"creation", "consume"}
    BY ActiveFacts, TransactionFields DEF QuotaInv, Proper
  <2>2. ASSUME NEW i \in K, NEW row \in Held(txs[i])
        PROVE  row = SessionRow(txs[i]) /\ txs[i].op = "consume" /\ txs[i].locks = 1
    <3>1. PICK wanted : Wants(txs[i], wanted)
      BY DEF WaitsFor
    <3>2. CASE txs[i].op = "creation"
      BY <2>1, <2>2, <3>1, <3>2, CreationLocks
    <3>3. CASE txs[i].op = "consume"
      BY <2>1, <2>2, <3>1, <3>3, ConsumeLocks
    <3> QED
      BY <2>1, <3>2, <3>3
  <2>3. PICK j \in K : TRUE
    OBVIOUS
  <2>4. PICK i \in K : \E row \in Held(txs[i]) : Wants(txs[j], row)
    BY <2>3 DEF WaitsFor
  <2>5. txs[i].op = "consume" /\ txs[i].locks = 1
    BY <2>2, <2>4
  <2>6. PICK h \in K : \E row \in Held(txs[h]) : Wants(txs[i], row)
    BY <2>4 DEF WaitsFor
  <2>7. Wants(txs[i], SessionRow(txs[h]))
    BY <2>2, <2>6
  <2> QED
    BY <2>1, <2>5, <2>7, ConsumeLocks, RowNames
<1> QED
  BY <1>1, QuotaInvAlways, PTL

\* A revoked session spends nothing, not even in a transaction under way: the
\* transaction that charges it has held its row since it saw it active.
THEOREM RevokedSpendsNothingAlways == Spec => RevokedSpendsNothing
<1>1. QuotaInv /\ [Next]_vars =>
      [\A s \in Known :
          Revoked(anonymous_session[s]) =>
              \A ip \in IPs, w \in Windows :
                  anonymous_usage'[<<s, ip, w>>] = anonymous_usage[<<s, ip, w>>]]_vars
  <2> SUFFICES ASSUME QuotaInv, Next, NEW s \in Known, Revoked(anonymous_session[s])
               PROVE  \A ip \in IPs, w \in Windows :
                         anonymous_usage'[<<s, ip, w>>] = anonymous_usage[<<s, ip, w>>]
    OBVIOUS
  <2>1. ASSUME NEW k \in Connections, Charge(k)
        PROVE  \A ip \in IPs, w \in Windows :
                  anonymous_usage'[<<s, ip, w>>] = anonymous_usage[<<s, ip, w>>]
    BY <2>1, ChargeStep DEF Known
  <2>2. (\E k \in Connections : Charge(k)) \/ UNCHANGED anonymous_usage
    BY DEF Next, quotaVars, SessionRowStatement, BeginCreation, BeginConsume, Begin, LockSession,
           LockAddress, SessionInactive, Exceeded, Rollback, ChargeCreation
  <2> QED
    BY <2>1, <2>2
<1> QED
  BY <1>1, QuotaInvAlways, PTL DEF Spec, RevokedSpendsNothing
=============================================================================
