-------------------------- MODULE SmtpClientProofs --------------------------
(***************************************************************************)
(* SmtpClient keeps its promises for every settings, any number of calls   *)
(* and every server.                                                       *)
(*                                                                         *)
(* Two inductive invariants do the work.  TransportInv relates the phase   *)
(* of a call to the encryption of its connection; what was sent follows.   *)
(* DeliveryInv follows the end of the message of each call: it is on its   *)
(* way, or accepted, or neither, and which of them the call knows.         *)
(***************************************************************************)
EXTENDS SmtpClient, TLAPS

\* What may be said before the upgrade in the STARTTLS mode.
InClear == {"idle", "connect", "greeting", "ehlo", "helo", "starttls", "handshake"}

\* Only the configured host gets an encrypted connection, and past the phases in
\* clear the TLS modes have one.
TransportInv ==
    /\ secured => peer
    /\ phase # "idle" => Valid(settings)
    /\ settings.mode = "tls" /\ phase \notin {"idle", "connect"} => secured
    /\ settings.mode = "starttls" /\ phase \notin InClear => secured

Running(c) == c = call /\ phase # "idle"

\* Calls begin one after the other, and nothing is known of those to come.
CallInv ==
    /\ phase # "idle" => call \in Calls
    /\ phase \in {"idle", "connect"} => answer = "none"
    /\ \A m \in wire : m.call <= call
    /\ \A c \in Calls : c > call => inbox[c] = 0
    /\ \A c \in Calls : outcome[c] = "none" <=> c > call \/ Running(c)

\* The end of the message of call c is on its way.
Pending(c) == [call |-> c, command |-> "finish"] \in wire

\* The server accepts the message of a call once, and only after the call has
\* asked for it; the call knows, or its error leaves it open.
Delivery(c) ==
    /\ inbox[c] \in {0, 1}
    /\ Pending(c) => inbox[c] = 0
    /\ Pending(c) \/ inbox[c] = 1 =>
          IF Running(c) THEN phase \in {"finish", "quit"}
                        ELSE outcome[c] \in {"sent", "finish", "quit"}
    /\ Running(c) /\ phase = "quit" => inbox[c] = 1
    /\ Running(c) /\ phase = "finish" /\ answer = "ok" => inbox[c] = 1
    /\ outcome[c] = "sent" => inbox[c] = 1

DeliveryInv == \A c \in Calls : Delivery(c)

\* The inductive invariant.
SmtpInv == TypeOK /\ TransportInv /\ TransportKept /\ CallInv /\ DeliveryInv

----------------------------------------------------------------------------
\* A step that leaves the call, its phase and the settings alone, and accepts
\* nothing: the server's steps and the passing of the deadline.
LEMMA QuietStep ==
    ASSUME SmtpInv, TypeOK',
           UNCHANGED <<settings, call, phase, peer, secured, crossed, inbox, outcome>>,
           wire' \subseteq wire, answer' \in {answer, "none", "refused"},
           phase \in {"idle", "connect"} => answer' = "none"
    PROVE  SmtpInv'
<1>1. TransportInv' /\ TransportKept'
  BY DEF SmtpInv, TransportInv, TransportKept
<1>2. CallInv'
  BY DEF SmtpInv, CallInv, Running
<1>3. DeliveryInv'
  BY DEF SmtpInv, DeliveryInv, Delivery, Pending, Running
<1> QED
  BY <1>1, <1>2, <1>3 DEF SmtpInv

\* A call returns: with nil only after QUIT was acknowledged, and from the end of
\* the message on with an error that leaves the delivery open.
LEMMA ReturnStep ==
    ASSUME SmtpInv, phase # "idle", NEW result \in Outcomes \ {"none"}, Return(result),
           phase \in {"finish", "quit"} => result \in {"sent", "finish", "quit"},
           result = "sent" => phase = "quit"
    PROVE  SmtpInv'
<1>1. /\ phase' = "idle" /\ link' = "none" /\ answer' = "none"
      /\ outcome' = [outcome EXCEPT ![call] = result]
      /\ UNCHANGED <<settings, call, peer, secured, expired, wire, crossed, inbox>>
  BY DEF Return
<1>2. call \in Calls /\ TypeOK
  BY DEF SmtpInv, CallInv
<1>3. /\ outcome'[call] = result
      /\ \A c \in Calls : c # call => outcome'[c] = outcome[c]
  BY <1>1, <1>2 DEF TypeOK
<1>4. TypeOK'
  BY <1>1, <1>2 DEF TypeOK, Phases
<1>5. TransportInv' /\ TransportKept'
  BY <1>1 DEF SmtpInv, TransportInv, TransportKept, InClear
<1>6. CallInv'
  BY <1>1, <1>2, <1>3 DEF SmtpInv, CallInv, Running, Calls, TypeOK
<1>7. DeliveryInv'
  <2> SUFFICES ASSUME NEW c \in Calls PROVE Delivery(c)'
    BY DEF DeliveryInv
  <2>1. Delivery(c) /\ Delivery(call)
    BY <1>2 DEF SmtpInv, DeliveryInv
  <2>2. CASE c = call
    BY <1>1, <1>2, <1>3, <2>1, <2>2 DEF Delivery, Pending, Running
  <2>3. CASE c # call
    BY <1>1, <1>3, <2>1, <2>3 DEF Delivery, Pending, Running
  <2> QED
    BY <2>2, <2>3
<1> QED
  BY <1>4, <1>5, <1>6, <1>7 DEF SmtpInv

\* A call goes on to a phase it may enter with the encryption it has, and to QUIT
\* only when the message was accepted.
LEMMA EnterStep ==
    ASSUME SmtpInv, phase # "idle", NEW p \in Phases \ {"idle", "connect"},
           NEW encrypted \in BOOLEAN, Enter(p, encrypted),
           encrypted => peer,
           settings.mode = "tls" => encrypted,
           settings.mode = "starttls" /\ p \notin InClear => encrypted,
           p = "auth" => encrypted \/ settings.host = "localhost",
           p = "quit" <=> phase = "finish",
           p = "quit" => answer = "ok",
           phase # "quit"
    PROVE  SmtpInv'
<1>1. /\ phase' = p /\ secured' = encrypted /\ answer' = "none"
      /\ UNCHANGED <<settings, call, link, peer, expired, inbox, outcome>>
      /\ wire' = IF p \in Commands THEN wire \cup {[call |-> call, command |-> p]} ELSE wire
      /\ crossed' = crossed \cup {[item |-> i, secured |-> encrypted, peer |-> peer] :
                                  i \in Carries(p)}
  BY DEF Enter
<1>2. call \in Calls /\ TypeOK
  BY DEF SmtpInv, CallInv
<1>3. /\ Carries(p) \subseteq {"credentials", "envelope", "message"}
      /\ Carries(p) # {} => p \notin InClear
      /\ "credentials" \in Carries(p) => p = "auth"
  BY DEF Carries, InClear
<1>4. TypeOK'
  <2>1. wire' \subseteq [call : Calls, command : Commands]
    BY <1>1, <1>2 DEF TypeOK
  <2>2. crossed' \subseteq [item : {"credentials", "envelope", "message"},
                            secured : BOOLEAN, peer : BOOLEAN]
    BY <1>1, <1>2, <1>3 DEF TypeOK
  <2> QED
    BY <1>1, <1>2, <2>1, <2>2 DEF TypeOK
<1>5. TransportInv'
  BY <1>1 DEF SmtpInv, TransportInv
<1>6. TransportKept'
  <2>1. ASSUME NEW i \in Carries(p)
        PROVE  /\ settings.mode \in Modes \ {"plain"} => encrypted /\ peer
               /\ i = "credentials" => encrypted \/ settings.host = "localhost"
    BY <1>3, <2>1 DEF Modes
  <2> QED
    BY <1>1, <2>1 DEF SmtpInv, TransportKept
<1>7. CallInv'
  BY <1>1, <1>2 DEF SmtpInv, CallInv, Running, Calls, TypeOK
<1>8. DeliveryInv'
  <2> SUFFICES ASSUME NEW c \in Calls PROVE Delivery(c)'
    BY DEF DeliveryInv
  <2>1. Delivery(c) /\ Delivery(call)
    BY <1>2 DEF SmtpInv, DeliveryInv
  <2>2. CASE c = call
    <3>1. CASE p \in {"finish", "quit"}
      BY <1>1, <1>2, <2>1, <2>2, <3>1 DEF Delivery, Pending, Running
    <3>2. CASE p \notin {"finish", "quit"}
      BY <1>1, <1>2, <2>1, <2>2, <3>2 DEF Delivery, Pending, Running
    <3> QED
      BY <3>1, <3>2
  <2>3. CASE c # call
    BY <1>1, <2>1, <2>3 DEF Delivery, Pending, Running
  <2> QED
    BY <2>2, <2>3
<1> QED
  BY <1>4, <1>5, <1>6, <1>7, <1>8 DEF SmtpInv

----------------------------------------------------------------------------
\* The settings and a new call.
LEMMA BeginStep ==
    ASSUME SmtpInv, Begin
    PROVE  SmtpInv'
<1>1. /\ call' = call + 1 /\ call' \in Calls /\ call \in Nat /\ TypeOK /\ phase = "idle"
      /\ phase' = IF Valid(settings) THEN "connect" ELSE "idle"
      /\ outcome' = [outcome EXCEPT ![call'] = IF Valid(settings) THEN "none" ELSE "invalid"]
      /\ secured' = FALSE /\ peer' \in BOOLEAN /\ expired' = FALSE
      /\ UNCHANGED <<settings, link, wire, answer, crossed, inbox>>
  BY SmtpAssumption DEF Begin, SmtpInv, TypeOK, Calls
<1>2. /\ outcome'[call'] = IF Valid(settings) THEN "none" ELSE "invalid"
      /\ \A c \in Calls : c # call' => outcome'[c] = outcome[c]
  BY <1>1 DEF TypeOK
<1>3. TypeOK'
  BY <1>1 DEF TypeOK, Phases, Outcomes
<1>4. TransportInv' /\ TransportKept'
  BY <1>1 DEF SmtpInv, TransportInv, TransportKept, InClear
<1>5. /\ inbox[call'] = 0 /\ ~Pending(call')
      /\ \A m \in wire : m.call <= call
  BY <1>1 DEF SmtpInv, CallInv, Pending
<1>6. CallInv'
  BY <1>1, <1>2, <1>5 DEF SmtpInv, CallInv, Running, Calls, TypeOK
<1>7. DeliveryInv'
  <2> SUFFICES ASSUME NEW c \in Calls PROVE Delivery(c)'
    BY DEF DeliveryInv
  <2>1. CASE c = call'
    BY <1>1, <1>2, <1>5, <2>1 DEF Delivery, Pending, Running
  <2>2. CASE c # call'
    BY <1>1, <1>2, <2>2 DEF SmtpInv, DeliveryInv, Delivery, Pending, Running
  <2> QED
    BY <2>1, <2>2
<1> QED
  BY <1>3, <1>4, <1>6, <1>7 DEF SmtpInv

\* The connection is made.
LEMMA ConnectStep ==
    ASSUME SmtpInv, Connect
    PROVE  SmtpInv'
<1>1. /\ phase = "connect" /\ phase' = "greeting" /\ link' = "up"
      /\ secured' = (settings.mode = "tls") /\ (settings.mode = "tls" => peer)
      /\ wire' = wire \cup {[call |-> call, command |-> "greeting"]}
      /\ UNCHANGED <<settings, call, peer, expired, answer, crossed, inbox, outcome>>
  BY DEF Connect, HandshakeSucceeds
<1>2. call \in Calls /\ TypeOK /\ answer = "none"
  BY <1>1 DEF SmtpInv, CallInv
<1>3. TypeOK'
  BY <1>1, <1>2 DEF TypeOK, Phases, Commands
<1>4. TransportInv' /\ TransportKept'
  BY <1>1 DEF SmtpInv, TransportInv, TransportKept, InClear
<1>5. CallInv'
  BY <1>1, <1>2 DEF SmtpInv, CallInv, Running, Calls, TypeOK
<1>6. DeliveryInv'
  BY <1>1, <1>2 DEF SmtpInv, DeliveryInv, Delivery, Pending, Running
<1> QED
  BY <1>3, <1>4, <1>5, <1>6 DEF SmtpInv

\* The answer to EHLO or HELO decides on encryption and authentication.
LEMMA ReadHelloStep ==
    ASSUME SmtpInv, ReadHello
    PROVE  SmtpInv'
<1>1. /\ phase \in {"ehlo", "helo", "ehlo_tls"}
      /\ secured \in BOOLEAN
      /\ secured => peer
      /\ settings.mode = "tls" => secured
  BY DEF ReadHello, Reading, SmtpInv, TypeOK, TransportInv
<1>2. PICK offered \in SUBSET {"starttls", "auth"} :
         LET p == AfterHello(offered, secured)
         IN IF p = "unsupported" THEN Return(p) ELSE Enter(p, secured)
  BY DEF ReadHello
<1> DEFINE p == AfterHello(offered, secured)
<1>3. /\ p \in {"unsupported", "starttls", "auth", "leave", "mail"}
      /\ settings.mode = "starttls" /\ ~secured => p \in {"starttls", "unsupported"}
      /\ p = "auth" => secured \/ settings.host = "localhost"
  BY DEF AfterHello
<1>4. CASE p = "unsupported"
  BY <1>1, <1>2, <1>4, ReturnStep DEF Outcomes
<1>5. CASE p # "unsupported"
  <2>1. \/ Enter("starttls", secured)
        \/ Enter("auth", secured) /\ (secured \/ settings.host = "localhost")
        \/ Enter("leave", secured)
        \/ Enter("mail", secured)
    BY <1>2, <1>3, <1>5
  <2>2. ~Enter("starttls", secured) => (settings.mode = "starttls" => secured)
    BY <1>2, <1>3, <1>5
  <2> HIDE DEF p
  <2>3. CASE Enter("starttls", secured)
    BY <1>1, <2>3, EnterStep DEF Phases, Commands, InClear
  <2>4. CASE Enter("auth", secured) /\ (secured \/ settings.host = "localhost")
    BY <1>1, <2>2, <2>4, EnterStep DEF Phases, Commands, InClear
  <2>5. CASE Enter("leave", secured)
    BY <1>1, <2>2, <2>5, EnterStep DEF Phases, Commands, InClear
  <2>6. CASE Enter("mail", secured)
    BY <1>1, <2>2, <2>6, EnterStep DEF Phases, Commands, InClear
  <2> QED
    BY <2>1, <2>3, <2>4, <2>5, <2>6
<1> QED
  BY <1>4, <1>5

\* The dialogue goes on.
LEMMA DialogueStep ==
    ASSUME SmtpInv, FallBack \/ Handshake \/ ReadOk \/ WriteMessage \/ ReadAuthRefused
    PROVE  SmtpInv'
<1>1. /\ secured \in BOOLEAN /\ TypeOK
      /\ secured => peer
      /\ settings.mode = "tls" /\ phase \notin {"idle", "connect"} => secured
      /\ settings.mode = "starttls" /\ phase \notin InClear => secured
  BY DEF SmtpInv, TypeOK, TransportInv
<1>2. CASE FallBack
  <2>1. phase = "ehlo" /\ Enter("helo", secured)
    BY <1>2 DEF FallBack, Reading
  <2> QED
    BY <1>1, <2>1, EnterStep DEF Phases, Commands, InClear
<1>3. CASE Handshake
  <2>1. phase = "handshake" /\ peer /\ Enter("ehlo_tls", TRUE)
    BY <1>3 DEF Handshake, HandshakeSucceeds
  <2> QED
    BY <1>1, <2>1, EnterStep DEF Phases, Commands, InClear
<1>4. CASE ReadOk
  <2>1. phase \in DOMAIN Following /\ answer = "ok" /\ Enter(Following[phase], secured)
    BY <1>4 DEF ReadOk, Reading
  <2>2. \/ phase = "greeting" /\ Enter("ehlo", secured)
        \/ phase = "starttls" /\ Enter("handshake", secured)
        \/ phase = "auth" /\ Enter("mail", secured)
        \/ phase = "mail" /\ Enter("rcpt", secured)
        \/ phase = "rcpt" /\ Enter("data", secured)
        \/ phase = "data" /\ Enter("body", secured)
        \/ phase = "finish" /\ Enter("quit", secured)
    BY <2>1 DEF Following
  <2> QED
    BY <1>1, <2>1, <2>2, EnterStep DEF Phases, Commands, InClear
<1>5. CASE WriteMessage
  <2>1. phase = "body" /\ Enter("finish", secured)
    BY <1>5 DEF WriteMessage
  <2> QED
    BY <1>1, <2>1, EnterStep DEF Phases, Commands, InClear
<1>6. CASE ReadAuthRefused
  <2>1. phase = "auth" /\ Enter("leave", secured)
    BY <1>6 DEF ReadAuthRefused, Reading
  <2> QED
    BY <1>1, <2>1, EnterStep DEF Phases, Commands, InClear
<1> QED
  BY <1>2, <1>3, <1>4, <1>5, <1>6

\* Every way to return.
LEMMA EndStep ==
    ASSUME SmtpInv, ReadQuit \/ ReadRefused \/ Leave \/ Fail \/ TimeOut
    PROVE  SmtpInv'
<1>1. phase \in Phases
  BY DEF SmtpInv, TypeOK
<1>2. CASE ReadQuit
  BY <1>2, ReturnStep DEF ReadQuit, Reading, Outcomes
<1>3. CASE ReadRefused
  <2>1. phase \in Commands /\ Return(phase)
    BY <1>3 DEF ReadRefused
  <2>2. phase \in Outcomes \ {"none"} /\ phase # "idle" /\ phase # "sent"
    BY <2>1 DEF Commands, Phases, Outcomes
  <2> QED
    BY <2>1, <2>2, ReturnStep
<1>4. CASE Leave
  BY <1>4, ReturnStep DEF Leave, Outcomes, Phases, Commands
<1>5. CASE Fail \/ TimeOut
  <2>1. phase # "idle" /\ Return(Failure)
    BY <1>5 DEF Fail, TimeOut
  <2>2. /\ Failure \in Outcomes \ {"none", "sent"}
        /\ phase \in {"finish", "quit"} => Failure = phase
    BY <1>1 DEF Failure, Outcomes, Phases, Commands
  <2> QED
    BY <2>1, <2>2, ReturnStep
<1> QED
  BY <1>2, <1>3, <1>4, <1>5

\* The server processes a command, also one of a call that has given up.
LEMMA ServeStep ==
    ASSUME SmtpInv, NEW m \in wire, NEW code \in {"ok", "refused"}, Serve(m, code)
    PROVE  SmtpInv'
<1>1. /\ wire' = wire \ {m}
      /\ answer' = IF m.call = call /\ m.command = phase /\ link = "up" THEN code ELSE answer
      /\ inbox' = IF m.command = "finish" /\ code = "ok"
                  THEN [inbox EXCEPT ![m.call] = @ + 1] ELSE inbox
      /\ UNCHANGED <<settings, call, phase, link, peer, secured, expired, crossed, outcome>>
  BY DEF Serve
<1>2. /\ m.call \in Calls /\ m.command \in Commands /\ TypeOK
      /\ m = [call |-> m.call, command |-> m.command]
  BY DEF SmtpInv, TypeOK
<1>3. m.command = phase => phase \notin {"idle", "connect"}
  BY <1>2 DEF Commands
<1>4. CASE ~(m.command = "finish" /\ code = "ok")
  <2>1. TypeOK'
    BY <1>1, <1>2, <1>4 DEF TypeOK
  <2>2. CASE code = "refused" \/ ~(m.call = call /\ m.command = phase /\ link = "up")
    <3>1. answer' \in {answer, "none", "refused"}
      BY <1>1, <2>2
    <3> QED
      BY <1>1, <1>3, <1>4, <2>1, <3>1, QuietStep DEF SmtpInv, CallInv
  <2>3. CASE code = "ok" /\ phase # "finish" /\ phase \notin {"idle", "connect"}
    <3>1. TransportInv' /\ TransportKept'
      BY <1>1 DEF SmtpInv, TransportInv, TransportKept
    <3>2. CallInv'
      BY <1>1, <1>4, <2>3 DEF SmtpInv, CallInv, Running
    <3>3. DeliveryInv'
      BY <1>1, <1>4, <2>3 DEF SmtpInv, DeliveryInv, Delivery, Pending, Running
    <3> QED
      BY <2>1, <3>1, <3>2, <3>3 DEF SmtpInv
  <2> QED
    BY <1>3, <1>4, <2>2, <2>3
<1>5. CASE m.command = "finish" /\ code = "ok"
  <2> DEFINE d == m.call
  <2>1. d \in Calls /\ Delivery(d) /\ Pending(d) /\ d <= call
    BY <1>2, <1>5 DEF SmtpInv, DeliveryInv, Pending, CallInv
  <2>2. inbox[d] = 0 /\ inbox' = [inbox EXCEPT ![d] = 1]
    <3>1. inbox[d] = 0 /\ inbox' = [inbox EXCEPT ![d] = inbox[d] + 1]
      BY <1>1, <1>5, <2>1 DEF Delivery
    <3> QED
      BY <3>1
  <2>3. /\ inbox'[d] = 1 /\ \A c \in Calls : c # d => inbox'[c] = inbox[c]
    BY <1>2, <2>1, <2>2 DEF TypeOK
  <2>4. answer' \in {answer, "ok"} /\ (answer' # answer => phase = "finish" /\ d = call)
    BY <1>1, <1>5
  <2>5. TypeOK'
    BY <1>1, <1>2, <2>1, <2>2, <2>4 DEF TypeOK
  <2>6. TransportInv' /\ TransportKept'
    BY <1>1 DEF SmtpInv, TransportInv, TransportKept
  <2>7. CallInv'
    BY <1>1, <1>2, <2>1, <2>3, <2>4 DEF SmtpInv, CallInv, Running, Calls, TypeOK
  <2>8. DeliveryInv'
    <3> SUFFICES ASSUME NEW c \in Calls PROVE Delivery(c)'
      BY DEF DeliveryInv
    <3>1. CASE c = d
      <4>1. ~Pending(c)'
        BY <1>1, <1>2, <1>5, <3>1 DEF Pending
      <4> QED
        BY <1>1, <2>1, <2>3, <3>1, <4>1 DEF Delivery, Running
    <3>2. CASE c # d
      <4>1. Pending(c)' <=> Pending(c)
        BY <1>1, <1>2, <3>2 DEF Pending
      <4>2. Delivery(c)
        BY DEF SmtpInv, DeliveryInv
      <4>3. ~Running(c) \/ answer' = answer
        BY <2>4, <3>2 DEF Running
      <4> QED
        BY <1>1, <2>3, <3>2, <4>1, <4>2, <4>3 DEF Delivery, Running
    <3> QED
      BY <3>1, <3>2
  <2> QED
    BY <2>5, <2>6, <2>7, <2>8 DEF SmtpInv
<1> QED
  BY <1>4, <1>5

\* The connection breaks, the deadline passes, or nothing happens.
LEMMA OutsideStep ==
    ASSUME SmtpInv, Break \/ Expire \/ UNCHANGED vars
    PROVE  SmtpInv'
<1>1. /\ UNCHANGED <<settings, call, phase, peer, secured, crossed, inbox, outcome>>
      /\ wire' \subseteq wire /\ answer' \in {answer, "none"}
      /\ link' \in {link, "lost"} /\ expired' \in {expired, TRUE}
  BY DEF Break, Expire, vars
<1>2. TypeOK'
  BY <1>1 DEF SmtpInv, TypeOK
<1> QED
  BY <1>1, <1>2, QuietStep DEF SmtpInv, CallInv

----------------------------------------------------------------------------
\* Nothing has been sent.
LEMMA InitInv == Init => SmtpInv
<1> SUFFICES ASSUME Init PROVE SmtpInv
  OBVIOUS
<1>1. TypeOK
  BY DEF Init, TypeOK, Phases, Outcomes
<1>2. TransportInv /\ TransportKept
  BY DEF Init, TransportInv, TransportKept, InClear
<1>3. CallInv
  BY SmtpAssumption DEF Init, CallInv, Running, Calls
<1>4. DeliveryInv
  BY DEF Init, DeliveryInv, Delivery, Pending, Running
<1> QED
  BY <1>1, <1>2, <1>3, <1>4 DEF SmtpInv

\* Every step keeps the invariant.
LEMMA NextInv == SmtpInv /\ [Next]_vars => SmtpInv'
<1> SUFFICES ASSUME SmtpInv, [Next]_vars PROVE SmtpInv'
  OBVIOUS
<1>1. CASE Begin
  BY <1>1, BeginStep
<1>2. CASE Connect
  BY <1>2, ConnectStep
<1>3. CASE ReadHello
  BY <1>3, ReadHelloStep
<1>4. CASE FallBack \/ Handshake \/ ReadOk \/ WriteMessage \/ ReadAuthRefused
  BY <1>4, DialogueStep
<1>5. CASE ReadQuit \/ ReadRefused \/ Leave \/ Fail \/ TimeOut
  BY <1>5, EndStep
<1>6. CASE \E m \in wire, code \in {"ok", "refused"} : Serve(m, code)
  BY <1>6, ServeStep
<1>7. CASE Break \/ Expire \/ UNCHANGED vars
  BY <1>7, OutsideStep
<1> QED
  BY <1>1, <1>2, <1>3, <1>4, <1>5, <1>6, <1>7 DEF Next

\* SmtpInv holds in every reachable state.
THEOREM SmtpInvAlways == Spec => []SmtpInv
BY InitInv, NextInv, PTL DEF Spec

\* In the modes starttls and tls, as ParseMode returns them, Send sends nothing but
\* the dialogue before the upgrade in clear or to another host; however the mode is
\* spelt, it never sends the password in clear over the network.
THEOREM TransportKeptAlways == Spec => []TransportKept
<1>1. SmtpInv => TransportKept
  BY DEF SmtpInv
<1> QED
  BY <1>1, SmtpInvAlways, PTL

\* What Send returns tells what became of the message, whatever the server does
\* after the call has given up.
THEOREM OutcomeTruthfulAlways == Spec => []OutcomeTruthful
<1>1. SmtpInv => OutcomeTruthful
  BY DEF SmtpInv, CallInv, DeliveryInv, Delivery, OutcomeTruthful, Running
<1> QED
  BY <1>1, SmtpInvAlways, PTL
=============================================================================
