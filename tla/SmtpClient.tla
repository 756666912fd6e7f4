------------------------------ MODULE SmtpClient ------------------------------
(***************************************************************************)
(* The SMTP diagnostic client (internal/smtppoc/client.go) as cmd/mail-poc *)
(* runs it: the operator calls Send, and calls it again after a failure.   *)
(* mail-poc hands Send the mode that ParseMode returned; Config also takes *)
(* other spellings, and what Send does with those is modelled as well.     *)
(* The client of net/smtp is modelled from how Send uses it.               *)
(*                                                                         *)
(* The phase of a call is the command whose answer Send waits for; the     *)
(* command is sent in the step that enters the phase.  The server takes    *)
(* commands off the wire one by one, also those of a call that has given   *)
(* up.  The connection may break, and the deadline may pass, at any time.  *)
(***************************************************************************)
EXTENDS Integers, FiniteSets

CONSTANTS
    Choices,    \* the settings operators use
    MaxCalls    \* bound: calls of Send

Calls == 1..MaxCalls

\* The modes.
Modes == {"plain", "starttls", "tls"}

\* ParseMode ignores letter case and spaces: each mode, and one spelling of it
\* that is not the mode itself.  Anything else is an error.
ParseMode ==
    [plain |-> "plain", starttls |-> "starttls", tls |-> "tls",
     PLAIN |-> "plain", STARTTLS |-> "starttls", TLS |-> "tls"]

\* Config, as far as Validate and the transport tell settings apart.
Settings ==
    [host            : {"", "localhost", "relay"},
     port            : Int,
     mode            : DOMAIN ParseMode \cup {"other"},
     from            : {"mailbox", "malformed"},
     to              : {"mailbox", "malformed"},
     username        : BOOLEAN,
     password        : BOOLEAN,
     client_hostname : {"", "name", "newline"},
     timeout         : Int]

ASSUME SmtpAssumption == Choices \subseteq Settings /\ MaxCalls \in Nat

VARIABLES
    settings,   \* of every call
    call,       \* the number of the call that began last
    phase,      \* what that call waits for, "idle" when it has returned
    link,       \* its connection
    peer,       \* whether whoever answers proves to be the configured host
    secured,    \* whether the connection is encrypted
    expired,    \* whether the deadline of the call has passed
    wire,       \* commands the server has not processed yet
    answer,     \* the answer the call has not read yet
    crossed,    \* what has been sent, and how
    inbox,      \* how many messages of each call the server has accepted
    outcome     \* what each call returned

vars == <<settings, call, phase, link, peer, secured, expired, wire, answer,
          crossed, inbox, outcome>>

----------------------------------------------------------------------------
Commands == {"greeting", "ehlo", "helo", "starttls", "ehlo_tls", "auth", "mail",
             "rcpt", "data", "finish", "quit", "leave"}
Phases == Commands \cup {"idle", "connect", "handshake", "body"}

\* A call has not returned, succeeded, was refused by Validate, missed an
\* extension, or failed in a phase.
Outcomes == Phases \cup {"none", "sent", "invalid", "unsupported"}

Carries(p) ==
    CASE p = "auth"             -> {"credentials"}
      [] p \in {"mail", "rcpt"} -> {"envelope"}
      [] p = "body"             -> {"message"}
      [] OTHER                  -> {}

MaxPort == 65535

\* Config.Validate: the mode must parse, but stays as it is spelt.
Valid(s) ==
    /\ s.host # ""
    /\ s.port \in 1..MaxPort
    /\ s.mode \in DOMAIN ParseMode
    /\ s.from = "mailbox"
    /\ s.to = "mailbox"
    /\ s.timeout > 0
    /\ s.username = s.password
    /\ s.client_hostname # "newline"

Init ==
    /\ settings \in Choices
    /\ call = 0
    /\ phase = "idle"
    /\ link = "none"
    /\ peer = FALSE
    /\ secured = FALSE
    /\ expired = FALSE
    /\ wire = {}
    /\ answer = "none"
    /\ crossed = {}
    /\ inbox = [c \in Calls |-> 0]
    /\ outcome = [c \in Calls |-> "none"]

----------------------------------------------------------------------------
\* Send returns; its deferred calls close the connection.
Return(result) ==
    /\ phase' = "idle"
    /\ link' = "none"
    /\ answer' = "none"
    /\ outcome' = [outcome EXCEPT ![call] = result]
    /\ UNCHANGED <<settings, call, peer, secured, expired, wire, crossed, inbox>>

\* Send goes on to phase p over a connection that is encrypted or not.
Enter(p, encrypted) ==
    /\ phase' = p
    /\ secured' = encrypted
    /\ answer' = "none"
    /\ wire' = IF p \in Commands THEN wire \cup {[call |-> call, command |-> p]} ELSE wire
    /\ crossed' = crossed \cup {[item |-> i, secured |-> encrypted, peer |-> peer] :
                                i \in Carries(p)}
    /\ UNCHANGED <<settings, call, link, peer, expired, inbox, outcome>>

\* The first validation is that of mail-poc, the second that of Send.
Begin ==
    /\ phase = "idle"
    /\ call < MaxCalls
    /\ call # 0 => outcome[call] # "sent"
    /\ call' = call + 1
    /\ phase' = IF Valid(settings) THEN "connect" ELSE "idle"
    /\ outcome' = [outcome EXCEPT ![call'] = IF Valid(settings) THEN "none" ELSE "invalid"]
    /\ secured' = FALSE
    /\ expired' = FALSE
    /\ peer' \in BOOLEAN
    /\ UNCHANGED <<settings, link, wire, answer, crossed, inbox>>

\* Every TLS handshake verifies the certificate against Host.
HandshakeSucceeds == peer

\* Dial, with TLS or without, and wait for the greeting.  Send compares the mode
\* with the constants, so every other spelling goes the way of plain.
Connect ==
    LET tls == settings.mode = "tls"
    IN /\ phase = "connect"
       /\ ~expired
       /\ tls => HandshakeSucceeds
       /\ phase' = "greeting"
       /\ link' = "up"
       /\ secured' = tls
       /\ wire' = wire \cup {[call |-> call, command |-> "greeting"]}
       /\ UNCHANGED <<settings, call, peer, expired, answer, crossed, inbox, outcome>>

\* Faulty variant: the upgrade is skipped if the server does not offer it.
AfterHelloLenient(offered, encrypted) ==
    CASE settings.mode = "starttls" /\ ~encrypted /\ "starttls" \in offered -> "starttls"
      [] OTHER -> IF settings.username THEN "auth" ELSE "mail"

\* What follows EHLO or HELO.  PLAIN authentication of net/smtp refuses to send
\* the password in clear to a host that is not local, and quits.
AfterHello(offered, encrypted) ==
    CASE settings.mode = "starttls" /\ ~encrypted ->
            IF "starttls" \in offered THEN "starttls" ELSE "unsupported"
      [] ~(settings.mode = "starttls" /\ ~encrypted) /\ settings.username ->
            IF "auth" \notin offered THEN "unsupported"
            ELSE IF encrypted \/ settings.host = "localhost" THEN "auth" ELSE "leave"
      [] OTHER -> "mail"

\* The answer is read.
Reading(p, code) == phase = p /\ answer = code /\ ~expired

\* The server advertises what it likes; HELO has no extensions.
ReadHello ==
    /\ \/ Reading("ehlo", "ok")
       \/ Reading("helo", "ok")
       \/ Reading("ehlo_tls", "ok")
    /\ \E offered \in SUBSET {"starttls", "auth"} :
          /\ phase = "helo" => offered = {}
          /\ LET p == AfterHello(offered, secured)
             IN IF p = "unsupported" THEN Return(p) ELSE Enter(p, secured)

\* Only the first EHLO falls back to HELO.
FallBack == Reading("ehlo", "refused") /\ Enter("helo", secured)

\* The handshake after STARTTLS runs when the second EHLO is written.
Handshake ==
    /\ phase = "handshake"
    /\ ~expired
    /\ link = "up"
    /\ HandshakeSucceeds
    /\ Enter("ehlo_tls", TRUE)

\* The dialogue from the greeting to the end of the message.
Following ==
    [greeting |-> "ehlo", starttls |-> "handshake", auth |-> "mail", mail |-> "rcpt",
     rcpt |-> "data", data |-> "body", finish |-> "quit"]

\* Faulty variant: any answer to the end of the message will do.
ReadOkAnyEnd ==
    /\ phase \in DOMAIN Following
    /\ Reading(phase, "ok") \/ Reading("finish", "refused")
    /\ Enter(Following[phase], secured)

ReadOk ==
    /\ phase \in DOMAIN Following
    /\ Reading(phase, "ok")
    /\ Enter(Following[phase], secured)

WriteMessage ==
    /\ phase = "body"
    /\ ~expired
    /\ link = "up"
    /\ Enter("finish", secured)

\* QUIT is acknowledged: nil.
ReadQuit == Reading("quit", "ok") /\ Return("sent")

\* After a refused authentication net/smtp cancels the exchange and quits, and
\* no answer matters any more.
ReadAuthRefused == Reading("auth", "refused") /\ Enter("leave", secured)

\* Refusals that are not an error of Send at once.
Tolerated == {"ehlo", "auth", "leave"}

ReadRefused ==
    /\ phase \in Commands \ Tolerated
    /\ Reading(phase, "refused")
    /\ Return(phase)

Leave ==
    /\ phase = "leave"
    /\ answer # "none"
    /\ Return("auth")

\* The phase named by the error.
Failure == IF phase = "leave" THEN "auth" ELSE phase

\* The host does not answer, the context is cancelled while dialling, the
\* certificate is refused, or the connection breaks.  Cancelling the context
\* does nothing once the connection stands.
Fail ==
    /\ \/ phase = "connect"
       \/ phase = "handshake"
       \/ phase \in Phases \ {"idle"} /\ link = "lost" /\ answer = "none"
    /\ Return(Failure)

\* Faulty variant: SetDeadline is missing.
UnderDeadlineDialling == phase = "connect"

\* The dialer's timeout, then the deadline of the connection.
UnderDeadline == phase # "idle"

Expire ==
    /\ UnderDeadline
    /\ ~expired
    /\ expired' = TRUE
    /\ UNCHANGED <<settings, call, phase, link, peer, secured, wire, answer,
                   crossed, inbox, outcome>>

\* Reads and writes fail after the deadline.
TimeOut ==
    /\ phase # "idle"
    /\ expired
    /\ Return(Failure)

----------------------------------------------------------------------------
\* The server processes a command; the answer reaches a call that still waits.
Serve(m, code) ==
    /\ wire' = wire \ {m}
    /\ answer' = IF m.call = call /\ m.command = phase /\ link = "up" THEN code ELSE answer
    /\ inbox' = IF m.command = "finish" /\ code = "ok"
                THEN [inbox EXCEPT ![m.call] = @ + 1] ELSE inbox
    /\ UNCHANGED <<settings, call, phase, link, peer, secured, expired, crossed, outcome>>

\* The connection breaks, before or after what is on its way arrives.
Break ==
    /\ link = "up"
    /\ link' = "lost"
    /\ wire' \in {wire, {m \in wire : m.call # call}}
    /\ answer' \in {answer, "none"}
    /\ UNCHANGED <<settings, call, phase, peer, secured, expired, crossed, inbox, outcome>>

Next ==
    \/ Begin
    \/ Connect
    \/ ReadHello
    \/ FallBack
    \/ Handshake
    \/ ReadOk
    \/ WriteMessage
    \/ ReadQuit
    \/ ReadAuthRefused
    \/ ReadRefused
    \/ Leave
    \/ Fail
    \/ Expire
    \/ TimeOut
    \/ \E m \in wire, code \in {"ok", "refused"} : Serve(m, code)
    \/ Break

Spec == Init /\ [][Next]_vars

\* The clock runs, and the runtime wakes a call whose deadline has passed.
FairSpec == Spec /\ WF_vars(Expire) /\ WF_vars(TimeOut)

----------------------------------------------------------------------------
\* Every variable has its type.
TypeOK ==
    /\ settings \in Choices
    /\ call \in Calls \cup {0}
    /\ phase \in Phases
    /\ link \in {"none", "up", "lost"}
    /\ peer \in BOOLEAN
    /\ secured \in BOOLEAN
    /\ expired \in BOOLEAN
    /\ wire \subseteq [call : Calls, command : Commands]
    /\ answer \in {"none", "ok", "refused"}
    /\ crossed \subseteq [item : {"credentials", "envelope", "message"},
                          secured : BOOLEAN, peer : BOOLEAN]
    /\ inbox \in [Calls -> Nat]
    /\ outcome \in [Calls -> Outcomes]

\* Callers that hand Send a mode as ParseMode returns it, as mail-poc does, get
\* no downgrade: whatever the server offers, refuses or answers, and however
\* often Send is called, in the modes starttls and tls nothing but the dialogue
\* before the upgrade is sent in clear or to another host.  For other spellings
\* Send does not keep this: Validate accepts "TLS", and Send dials in clear.  The
\* password crosses the network in clear under no setting at all.
TransportKept ==
    \A x \in crossed :
        /\ settings.mode \in Modes \ {"plain"} => x.secured /\ x.peer
        /\ x.item = "credentials" => x.secured \/ settings.host = "localhost"

\* The error tells what became of the message, also when the server processes
\* it after the call has given up: nil means accepted, and only an error at the
\* end of DATA or at QUIT leaves open whether sending again sends it twice.
OutcomeTruthful ==
    \A c \in Calls :
        /\ inbox[c] <= 1
        /\ outcome[c] = "sent" => inbox[c] = 1
        /\ inbox[c] = 1 /\ outcome[c] # "none" => outcome[c] \in {"sent", "finish", "quit"}

\* Send returns: no server keeps it waiting for ever, at any step.
SendReturns == phase # "idle" ~> phase = "idle"
============================================================================
