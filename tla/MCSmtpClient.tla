---------------------------- MODULE MCSmtpClient ----------------------------
(***************************************************************************)
(* Settings of the instance of SmtpClient that TLC checks.                 *)
(***************************************************************************)
EXTENDS SmtpClient, TLC

MCUsable ==
    {[host |-> host, port |-> 25, mode |-> mode, from |-> "mailbox", to |-> "mailbox",
      username |-> login, password |-> login, client_hostname |-> name, timeout |-> 1] :
        host \in {"localhost", "relay"}, mode \in DOMAIN ParseMode, login \in BOOLEAN,
        name \in {"", "name"}}

\* Every usable setting, and each way to spoil one of them.
MCChoices ==
    LET s == CHOOSE u \in MCUsable : u.username
    IN MCUsable \cup
       {[s EXCEPT !.host = ""], [s EXCEPT !.port = 0], [s EXCEPT !.port = 65536],
        [s EXCEPT !.mode = "other"], [s EXCEPT !.from = "malformed"],
        [s EXCEPT !.to = "malformed"], [s EXCEPT !.username = FALSE],
        [s EXCEPT !.password = FALSE], [s EXCEPT !.client_hostname = "newline"],
        [s EXCEPT !.timeout = 0]}
============================================================================
