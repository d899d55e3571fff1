--------------------------- MODULE EmailDelivery ---------------------------
(***************************************************************************)
(* email-draft send.  The first transaction claims the draft's delivery    *)
(* mode and reserves its only attempt; after that commit the SMTP          *)
(* transport is called once, with no lock held; the second transaction     *)
(* records the outcome.  An attempt whose process dies in between stays    *)
(* RESERVED and is never sent again.                                       *)
(***************************************************************************)
EXTENDS OutreachStore, SmtpPromise

SendStart(p, d) == Begin(p, "send", "send_draft", [NoJob EXCEPT !.draft = d])

SendReadDraft(p) ==
    LET row == draft[job[p].draft]
        sendable == row.status # "ABSENT" /\ row.bound
    IN  /\ pc[p] = "send_draft"
        /\ IF sendable THEN Keep(p, row, "send_source") ELSE Fail(p, "not_found")

(* Trusting the export instead of the approval.                            *)
AuthoritativeUnreviewed(row) ==
    task[row.task].bound /\ IsActive(row.task) /\ task[row.task].contactEmail = row.email

(* The contact chain, the task, the approval, the address and the sender.  *)
Authoritative(row) ==
    /\ task[row.task].bound
    /\ IsActive(row.task)
    /\ row.status = "APPROVED"
    /\ task[row.task].contactEmail = row.email

SendReadSource(p) ==
    LET row == job[p].seen
        current == Authoritative(row) /\ row.sender = TrustedSender
    IN  /\ pc[p] = "send_source"
        /\ IF current THEN Step(p, "send_attempt") ELSE Fail(p, "stale")

SendCheckAttempt(p) ==
    /\ pc[p] = "send_attempt"
    /\ IF attempt[job[p].draft] = "NONE" THEN Step(p, "send_record") ELSE Fail(p, "already")

SendCheckRecord(p) ==
    /\ pc[p] = "send_record"
    /\ IF manual[job[p].draft] THEN Fail(p, "already") ELSE Step(p, "send_claim")

(* Claiming without the condition on delivery_mode.                        *)
SendClaimUnconditional(p) == pc[p] = "send_claim" /\ Lock(p, "send_reserve")

(* UPDATE email_drafts SET delivery_mode WHERE id AND delivery_mode IS     *)
(* NULL takes the lock; with no row changed the service rolls back.        *)
SendClaim(p) ==
    /\ pc[p] = "send_claim"
    /\ writer = NoProc
    /\ IF draft[job[p].draft].mode = "NONE"
       THEN Lock(p, "send_reserve")
       ELSE Fail(p, "already")

(* Calling the transport inside the reserving transaction.                 *)
SendReserveKeepingLock(p) ==
    LET d == job[p].draft
    IN  /\ pc[p] = "send_reserve"
        /\ attempt' = [attempt EXCEPT ![d] = "RESERVED"]
        /\ draft' = [draft EXCEPT ![d].mode = "AUTOMATIC"]
        /\ Goto(p, "smtp")
        /\ UNCHANGED <<task, manual, accepted, job, writer>>

(* Reserving without recording the channel.                                *)
SendReserveUnclaimed(p) ==
    /\ pc[p] = "send_reserve"
    /\ attempt' = [attempt EXCEPT ![job[p].draft] = "RESERVED"]
    /\ writer' = NoProc
    /\ Goto(p, "smtp")
    /\ UNCHANGED <<draft, task, manual, accepted, job>>

(* INSERT of the attempt and the first commit; the UNIQUE email_draft_id   *)
(* refuses a second attempt, and the service rolls its claim back.         *)
SendReserve(p) ==
    LET d == job[p].draft
    IN  /\ pc[p] = "send_reserve"
        /\ IF attempt[d] = "NONE"
           THEN /\ attempt' = [attempt EXCEPT ![d] = "RESERVED"]
                /\ draft' = [draft EXCEPT ![d].mode = "AUTOMATIC"]
                /\ writer' = NoProc
                /\ Goto(p, "smtp")
                /\ UNCHANGED <<task, manual, accepted, job>>
           ELSE Fail(p, "already")

-----------------------------------------------------------------------------
(* The SMTP server takes the message or it does not; whichever happened,   *)
(* the process only learns what the client reports, which SmtpPromise      *)
(* relates to what the server did.                                         *)

SmtpConversation(p) ==
    LET d == job[p].draft
    IN  /\ pc[p] = "smtp"
        /\ Goto(p, "smtp_wait")
        /\ \/ /\ accepted' = [accepted EXCEPT ![d] = @ + 1]
              /\ job' = [job EXCEPT ![p].target = "accepted"]
           \/ /\ job' = [job EXCEPT ![p].target = "refused"]
              /\ UNCHANGED accepted
        /\ UNCHANGED <<tables, writer>>

(* Trying again when it is not known whether the message was taken.        *)
SmtpReportRetry(p) ==
    /\ pc[p] = "smtp_wait"
    /\ \E outcome \in Conclusions(job[p].target) :
           /\ Goto(p, IF outcome = "UNKNOWN" THEN "smtp" ELSE "settle")
           /\ job' = [job EXCEPT ![p].target = outcome]
    /\ UNCHANGED <<tables, accepted, writer>>

SmtpReport(p) ==
    /\ pc[p] = "smtp_wait"
    /\ Goto(p, "settle")
    /\ \E outcome \in Conclusions(job[p].target) :
           job' = [job EXCEPT ![p].target = outcome]
    /\ UNCHANGED <<tables, accepted, writer>>

(* Answering before the outcome is stored.                                 *)
SettleUnsaved(p) == pc[p] = "settle" /\ Fail(p, job[p].target)

(* Leaving an attempt of unknown outcome RESERVED.                         *)
SettleKnown(p) ==
    /\ pc[p] = "settle"
    /\ writer = NoProc
    /\ IF job[p].target # "UNKNOWN"
       THEN /\ attempt' = [attempt EXCEPT ![job[p].draft] = job[p].target]
            /\ Answer(p, job[p].target)
            /\ UNCHANGED <<draft, task, manual, accepted>>
       ELSE Fail(p, job[p].target)

(* The second transaction: a conditional UPDATE moves the attempt from     *)
(* RESERVED to its terminal outcome, and commit.                           *)
Settle(p) ==
    LET d == job[p].draft
    IN  /\ pc[p] = "settle"
        /\ writer = NoProc
        /\ IF attempt[d] = "RESERVED"
           THEN /\ attempt' = [attempt EXCEPT ![d] = job[p].target]
                /\ Answer(p, job[p].target)
                /\ UNCHANGED <<draft, task, manual, accepted>>
           ELSE Fail(p, "persistence")

DeliveryStep(p) ==
    \/ \E d \in Drafts : SendStart(p, d)
    \/ SendReadDraft(p)
    \/ SendReadSource(p)
    \/ SendCheckAttempt(p)
    \/ SendCheckRecord(p)
    \/ SendClaim(p)
    \/ SendReserve(p)
    \/ SmtpConversation(p)
    \/ SmtpReport(p)
    \/ Settle(p)
=============================================================================
