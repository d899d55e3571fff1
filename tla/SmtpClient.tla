---------------------------- MODULE SmtpClient -----------------------------
(***************************************************************************)
(* One SMTPClient.send: connect, EHLO, STARTTLS, log in, then hand the     *)
(* message over with smtplib's send_message, and turn whatever happens     *)
(* into a report.  smtplib and the server are modelled by what each        *)
(* exchange can yield.  The client retries nothing.                        *)
(***************************************************************************)
EXTENDS Naturals, SmtpPromise

CONSTANT OverlongReplies  \* may a reply line exceed smtplib's 8192 bytes?

VARIABLES config,   \* SMTPTransportConfig, as far as it steers the conversation
          stage,    \* the exchange that comes next
          sending,  \* send()'s flag: the message is being handed over
          secured,  \* the connection is encrypted
          taken,    \* the server has taken the message
          pending,  \* the report that waits for smtplib's RSET
          report    \* what send() told its caller, in the service's terms

vars == <<config, stage, sending, secured, taken, pending, report>>

-----------------------------------------------------------------------------
(* Replies and exceptions. *)

SecurityMode == {"STARTTLS", "TLS_IMPLICIT", "PLAINTEXT_LOCAL_TEST_ONLY"}

(* Credentials are refused for a plaintext connection.                     *)
Config == {c \in [mode : SecurityMode, login : BOOLEAN] :
              c.mode = "PLAINTEXT_LOCAL_TEST_ONLY" => ~c.login}

Report == {"ACCEPTED", "TRANSIENT_FAILURE", "PERMANENT_FAILURE", "UNKNOWN"}

(* The reply to a command: the code it hopes for, 421, 4xx, 5xx, any other *)
(* or unreadable code; the connection lost or timed out; a line too long.  *)
Refusal == {"closing", "transient", "permanent", "odd"}
Broken == {"lost"} \union (IF OverlongReplies THEN {"overlong"} ELSE {})

(* classify_smtp_code. *)
Classify(reply) ==
    CASE reply \in {"closing", "transient"} -> "TRANSIENT_FAILURE"
      [] reply = "permanent" -> "PERMANENT_FAILURE"
      [] OTHER -> "UNKNOWN"

(* Trying the operating system's errors before a lost connection.          *)
ClauseOrderSystemFirst ==
    [SMTPAuthenticationError |-> 1, SMTPSenderRefused |-> 2, SMTPRecipientsRefused |-> 3,
     SMTPDataError |-> 4, TimeoutError |-> 5, SSLError |-> 6, OSError |-> 7,
     SMTPServerDisconnected |-> 8, SMTPResponseException |-> 9, SMTPException |-> 10]

(* The except clauses of send, in the order they are tried.                *)
ClauseOrder ==
    [SMTPAuthenticationError |-> 1, SMTPSenderRefused |-> 2, SMTPRecipientsRefused |-> 3,
     SMTPDataError |-> 4, SMTPServerDisconnected |-> 5, TimeoutError |-> 6, SSLError |-> 7,
     OSError |-> 8, SMTPResponseException |-> 9, SMTPException |-> 10]

(* The classes an exception is an instance of: smtplib's are all OSErrors. *)
Classes(exception) ==
    {exception, "OSError"} \union
    (IF exception \in {"TimeoutError", "SSLError", "OSError"} THEN {} ELSE {"SMTPException"}) \union
    (IF exception \in {"SMTPAuthenticationError", "SMTPSenderRefused", "SMTPDataError",
                       "SMTPConnectError"}
     THEN {"SMTPResponseException"} ELSE {})

Clause(exception) ==
    CHOOSE c \in Classes(exception) \intersect DOMAIN ClauseOrder :
        \A b \in Classes(exception) \intersect DOMAIN ClauseOrder :
            ClauseOrder[c] <= ClauseOrder[b]

ReportOf(exception, reply) ==
    LET clause == Clause(exception)
    IN  CASE clause = "SMTPAuthenticationError" -> "PERMANENT_FAILURE"
          [] clause \in {"SMTPSenderRefused", "SMTPRecipientsRefused", "SMTPDataError",
                         "SMTPResponseException"} -> Classify(reply)
          [] clause \in {"SMTPServerDisconnected", "TimeoutError"} ->
                 IF sending THEN "UNKNOWN" ELSE "TRANSIENT_FAILURE"
          [] clause = "OSError" -> "TRANSIENT_FAILURE"
          [] OTHER -> "UNKNOWN"

(* What smtplib raises for a reply that is not the one hoped for.          *)
Raised(reply, refused) ==
    CASE reply = "lost" -> "SMTPServerDisconnected"
      [] reply = "overlong" -> "SMTPResponseException"
      [] OTHER -> refused

-----------------------------------------------------------------------------
(* Steps. *)

Init ==
    /\ config \in Config
    /\ stage = "connect"
    /\ sending = FALSE /\ secured = FALSE /\ taken = FALSE
    /\ pending = "UNKNOWN" /\ report = "NONE"

Advance(to) == stage' = to /\ UNCHANGED <<config, sending, secured, taken, pending, report>>

Conclude(to, conclusion) ==
    /\ stage' = to
    /\ report' = conclusion
    /\ UNCHANGED <<config, sending, secured, pending>>

(* An exception ends the conversation: the connection is quit and send     *)
(* raises the error of its clause.                                         *)
Abort(exception, reply) == Conclude("quit", ReportOf(exception, reply)) /\ UNCHANGED taken

(* An error of the client's own; its clause lets it through.               *)
Refuse(conclusion) == Conclude("quit", conclusion) /\ UNCHANGED taken

(* There is no connection to quit when it could not be made.               *)
Connect ==
    /\ stage = "connect"
    /\ \/ /\ stage' = "ehlo"
          /\ secured' = (config.mode = "TLS_IMPLICIT")
          /\ UNCHANGED <<config, sending, taken, pending, report>>
       \/ /\ \/ \E e \in {"OSError", "TimeoutError"} : Conclude("done", ReportOf(e, "odd"))
             \/ \E r \in Refusal \union Broken :
                    Conclude("done", ReportOf(Raised(r, "SMTPConnectError"), r))
             \/ /\ config.mode = "TLS_IMPLICIT"
                /\ \/ Conclude("done", ReportOf("SSLError", "odd"))
                   \/ Conclude("done", "PERMANENT_FAILURE")
          /\ UNCHANGED taken

AfterEhlo(at) ==
    IF at = "ehlo" /\ config.mode = "STARTTLS" THEN "starttls"
    ELSE IF config.login THEN "login" ELSE "mail"

(* Any code from 200 to 399 passes.                                        *)
Ehlo ==
    /\ stage \in {"ehlo", "ehlo_tls"}
    /\ \/ /\ stage' = AfterEhlo(stage)
          /\ sending' = (stage' = "mail")
          /\ UNCHANGED <<config, secured, taken, pending, report>>
       \/ \E r \in Refusal : Refuse(Classify(r))
       \/ \E r \in Broken : Abort(Raised(r, ""), r)

(* Going on in the clear when the server does not offer STARTTLS.          *)
StartTlsOptional ==
    /\ stage = "starttls"
    /\ \/ Advance("ehlo_tls")
       \/ Refuse("UNKNOWN")

(* No STARTTLS, or a context that would not verify the server, is final; a *)
(* negotiation that fails in any way is of unknown classification.         *)
StartTls ==
    /\ stage = "starttls"
    /\ \/ /\ stage' = "ehlo_tls"
          /\ secured' = TRUE
          /\ UNCHANGED <<config, sending, taken, pending, report>>
       \/ Refuse("PERMANENT_FAILURE")
       \/ Refuse("UNKNOWN")

Login ==
    /\ stage = "login"
    /\ \/ /\ stage' = "mail"
          /\ sending' = TRUE
          /\ UNCHANGED <<config, secured, taken, pending, report>>
       \/ \E e \in {"SMTPAuthenticationError", "SMTPNotSupportedError", "SMTPException"} :
              Abort(e, "odd")
       \/ \E r \in Broken : Abort(Raised(r, ""), r)

(* A command of send_message was refused: smtplib resets the session first *)
(* unless the server is closing it.                                        *)
Reset(exception, reply) ==
    /\ stage' = "rset"
    /\ pending' = ReportOf(exception, reply)
    /\ UNCHANGED <<config, sending, secured, report>>

Envelope(at, next, refused) ==
    /\ stage = at
    /\ \/ Advance(next)
       \/ Abort(refused, "closing")
       \/ \E r \in Refusal \ {"closing"} : Reset(refused, r) /\ UNCHANGED taken
       \/ \E r \in Broken : Abort(Raised(r, refused), r)

Mail == Envelope("mail", "rcpt", "SMTPSenderRefused")
Rcpt == Envelope("rcpt", "data", "SMTPRecipientsRefused")

Data ==
    /\ stage = "data"
    /\ \/ Advance("body")
       \/ \E r \in Refusal \union Broken : Abort(Raised(r, "SMTPDataError"), r)

(* The message goes out and the server takes it, or not.  An honest server *)
(* answers accordingly; the answer may arrive unreadable or not at all.    *)
Body ==
    /\ stage = "body"
    /\ \E takes \in BOOLEAN :
           /\ taken' = takes
           /\ \/ takes /\ Conclude("quit", "ACCEPTED")
              \/ ~takes /\ Conclude("quit", ReportOf("SMTPDataError", "closing"))
              \/ \E r \in {"transient", "permanent"} : ~takes /\ Reset("SMTPDataError", r)
              \/ Reset("SMTPDataError", "odd")
              \/ \E r \in Broken :
                     Conclude("quit", ReportOf(Raised(r, "SMTPDataError"), r))

(* A connection lost here is ignored, a reply too long is not.             *)
Rset ==
    /\ stage = "rset"
    /\ \E r \in {"ok", "lost"} \union Broken :
           Refuse(IF r = "overlong" THEN ReportOf("SMTPResponseException", r) ELSE pending)

(* Whatever goes wrong while quitting is suppressed.                       *)
Quit == stage = "quit" /\ Advance("done")

Next == Connect \/ Ehlo \/ StartTls \/ Login \/ Mail \/ Rcpt \/ Data \/ Body \/ Rset \/ Quit

(* Every read and write of the conversation has the configured timeout.    *)
Spec == Init /\ [][Next]_vars /\ WF_vars(Next)

-----------------------------------------------------------------------------
Stages == {"connect", "ehlo", "starttls", "ehlo_tls", "login", "mail", "rcpt", "data",
           "body", "rset", "quit", "done"}

TypeOK ==
    /\ config \in Config
    /\ stage \in Stages
    /\ sending \in BOOLEAN /\ secured \in BOOLEAN /\ taken \in BOOLEAN
    /\ pending \in Report
    /\ report \in Report \union {"NONE"}

Verdict == IF taken THEN "accepted" ELSE "refused"

(* A report agrees with the server: acceptance only of a message that was  *)
(* taken, a definite failure only for one that was not, whatever reply was *)
(* lost or unreadable and whichever except clause caught it.               *)
ReportPromised == stage \in {"quit", "done"} => report \in Conclusions(Verdict)

(* Nothing that identifies the account or the message goes over a          *)
(* connection that was to be encrypted and is not.                         *)
OnlyOverTls ==
    stage \in {"login", "mail", "rcpt", "data", "body"} =>
        secured \/ config.mode = "PLAINTEXT_LOCAL_TEST_ONLY"

(* A conversation comes to its end and reports something.                  *)
ConversationEnds == <>(stage = "done" /\ report \in Report)
=============================================================================
