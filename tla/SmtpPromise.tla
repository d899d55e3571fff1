---------------------------- MODULE SmtpPromise ----------------------------
(***************************************************************************)
(* What the delivery service may rely on when the SMTP client reports: how *)
(* a report relates to whether the server took the message.  EmailDelivery *)
(* is built on it, and SmtpClient is checked and proved to keep it.        *)
(***************************************************************************)

(* Reporting a time-out after the message was handed over as transient.    *)
ConclusionsTimeout(verdict) ==
    IF verdict = "accepted"
    THEN {"ACCEPTED", "TRANSIENT_FAILURE"}
    ELSE {"TRANSIENT_FAILURE", "PERMANENT_FAILURE", "UNKNOWN"}

(* A valid receipt and an unknown outcome are possible for a message that  *)
(* was taken; a definite failure is only reported for one that was not.    *)
Conclusions(verdict) ==
    IF verdict = "accepted"
    THEN {"ACCEPTED", "UNKNOWN"}
    ELSE {"TRANSIENT_FAILURE", "PERMANENT_FAILURE", "UNKNOWN"}
=============================================================================
