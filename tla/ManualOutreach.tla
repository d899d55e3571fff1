-------------------------- MODULE ManualOutreach ---------------------------
(***************************************************************************)
(* The manual channel: mark-sent for an approved contact draft,            *)
(* record-external-manual-send for one draft, and the all-or-nothing batch *)
(* of the CRM export.  The services flush; the command line commits.       *)
(* "batch" is the set of drafts of the command, "left" those of it still   *)
(* to be looked at in the current phase.                                   *)
(***************************************************************************)
EXTENDS OutreachStore

Single(d) == [NoJob EXCEPT !.draft = d, !.left = {d}, !.batch = {d}]

-----------------------------------------------------------------------------
(* mark-sent: the same authoritative load as an automatic send, without    *)
(* the sender check.                                                       *)

MarkStart(p, d) == Begin(p, "mark_sent", "mark_draft", Single(d))

MarkReadDraft(p) ==
    LET row == draft[job[p].draft]
        sendable == row.status # "ABSENT" /\ row.bound
    IN  /\ pc[p] = "mark_draft"
        /\ IF sendable THEN Keep(p, row, "mark_source") ELSE Fail(p, "not_found")

MarkReadSource(p) ==
    LET row == job[p].seen
        current == /\ task[row.task].bound
                   /\ IsActive(row.task)
                   /\ row.status = "APPROVED"
                   /\ task[row.task].contactEmail = row.email
    IN  /\ pc[p] = "mark_source"
        /\ IF current THEN Step(p, "mark_attempt") ELSE Fail(p, "stale")

MarkCheckAttempt(p) ==
    /\ pc[p] = "mark_attempt"
    /\ IF attempt[job[p].draft] = "NONE" THEN Step(p, "mark_record") ELSE Fail(p, "already")

MarkCheckRecord(p) ==
    /\ pc[p] = "mark_record"
    /\ IF manual[job[p].draft] THEN Fail(p, "already") ELSE Step(p, "manual_claim")

-----------------------------------------------------------------------------
(* record-external-manual-send: a draft of either scope, reviewed or not,  *)
(* whose address is still the canonical one.                               *)

External(row) ==
    /\ row.bound = task[row.task].bound
    /\ SourceEmail(row.task, row.bound) = row.email
    /\ IsActive(row.task)
    /\ row.status \in {"DRAFT", "APPROVED"}

ExternalStart(p, d) == Begin(p, "record_external", "ext_draft", Single(d))

ExternalReadDraft(p) ==
    LET row == draft[job[p].draft]
    IN  /\ pc[p] = "ext_draft"
        /\ IF row.status # "ABSENT" THEN Keep(p, row, "ext_source") ELSE Fail(p, "not_found")

ExternalReadSource(p) ==
    /\ pc[p] = "ext_source"
    /\ IF External(job[p].seen) THEN Step(p, "ext_attempt") ELSE Fail(p, "stale")

ExternalCheckAttempt(p) ==
    /\ pc[p] = "ext_attempt"
    /\ IF attempt[job[p].draft] = "NONE" THEN Step(p, "ext_record") ELSE Fail(p, "already")

(* An existing record is returned as it is.                                *)
ExternalCheckRecord(p) ==
    /\ pc[p] = "ext_record"
    /\ IF manual[job[p].draft]
       THEN Answer(p, "ok") /\ UNCHANGED <<tables, accepted>>
       ELSE Step(p, "manual_claim")

-----------------------------------------------------------------------------
(* The batch looks at every draft before it writes any, and only takes     *)
(* unreviewed, unclaimed ones.                                             *)

BatchStart(p, drafts) ==
    /\ drafts # {}
    /\ Begin(p, "record_batch", "batch_draft",
             [NoJob EXCEPT !.left = drafts, !.batch = drafts])

BatchReadDraft(p, d) ==
    /\ pc[p] = "batch_draft"
    /\ d \in job[p].left
    /\ IF Exists(d)
       THEN /\ Goto(p, "batch_source")
            /\ job' = [job EXCEPT ![p].draft = d, ![p].seen = draft[d]]
            /\ UNCHANGED <<tables, accepted, writer>>
       ELSE Fail(p, "not_found")

BatchReadSource(p) ==
    LET row == job[p].seen
    IN  /\ pc[p] = "batch_source"
        /\ IF External(row) /\ row.status = "DRAFT"
           THEN Step(p, "batch_attempt")
           ELSE Fail(p, "stale")

BatchCheckAttempt(p) ==
    /\ pc[p] = "batch_attempt"
    /\ IF attempt[job[p].draft] = "NONE" /\ job[p].seen.mode # "AUTOMATIC"
       THEN Step(p, "batch_record")
       ELSE Fail(p, "already")

BatchCheckRecord(p) ==
    LET rest == job[p].left \ {job[p].draft}
    IN  /\ pc[p] = "batch_record"
        /\ IF manual[job[p].draft] \/ job[p].seen.mode = "MANUAL"
           THEN Fail(p, "already")
           ELSE /\ Goto(p, IF rest = {} THEN "manual_claim" ELSE "batch_draft")
                /\ job' = [job EXCEPT ![p].left = IF rest = {} THEN job[p].batch ELSE rest]
                /\ UNCHANGED <<tables, accepted, writer>>

-----------------------------------------------------------------------------
(* The write phase shared by the three commands: one conditional claim per *)
(* draft, the first of which takes the lock, each followed by the insert   *)
(* of its record, unique by draft; a claim that finds the mode taken, or a *)
(* record there already, undoes them all.                                  *)

(* Claiming without the condition on delivery_mode.                        *)
ManualClaimUnconditional(p, d) ==
    LET rest == job[p].left \ {d}
    IN  /\ pc[p] = "manual_claim"
        /\ d \in job[p].left
        /\ writer \in {NoProc, p}
        /\ writer' = p
        /\ job' = [job EXCEPT ![p].left = rest]
        /\ Goto(p, IF rest = {} THEN "manual_commit" ELSE "manual_claim")
        /\ UNCHANGED <<tables, accepted>>

ManualClaim(p, d) ==
    LET rest == job[p].left \ {d}
    IN  /\ pc[p] = "manual_claim"
        /\ d \in job[p].left
        /\ writer \in {NoProc, p}
        /\ IF draft[d].mode = "NONE" /\ ~manual[d]
           THEN /\ writer' = p
                /\ job' = [job EXCEPT ![p].left = rest]
                /\ Goto(p, IF rest = {} THEN "manual_commit" ELSE "manual_claim")
                /\ UNCHANGED <<tables, accepted>>
           ELSE Fail(p, "already")

(* Recording the drafts of a command one transaction each.                 *)
ManualCommitEach(p) ==
    /\ pc[p] = "manual_commit"
    /\ \E d \in job[p].batch :
           /\ draft' = [draft EXCEPT ![d].mode = "MANUAL"]
           /\ manual' = [manual EXCEPT ![d] = TRUE]
    /\ Answer(p, "conflict")
    /\ UNCHANGED <<task, attempt, accepted>>

ManualCommit(p) ==
    LET drafts == job[p].batch
    IN  /\ pc[p] = "manual_commit"
        /\ draft' = [d \in Drafts |-> IF d \in drafts
                                      THEN [draft[d] EXCEPT !.mode = "MANUAL"]
                                      ELSE draft[d]]
        /\ manual' = [d \in Drafts |-> manual[d] \/ d \in drafts]
        /\ Answer(p, "ok")
        /\ UNCHANGED <<task, attempt, accepted>>

ManualStep(p) ==
    \/ \E d \in Drafts : MarkStart(p, d) \/ ExternalStart(p, d)
    \/ \E drafts \in SUBSET Drafts : BatchStart(p, drafts)
    \/ MarkReadDraft(p) \/ MarkReadSource(p) \/ MarkCheckAttempt(p) \/ MarkCheckRecord(p)
    \/ ExternalReadDraft(p) \/ ExternalReadSource(p)
    \/ ExternalCheckAttempt(p) \/ ExternalCheckRecord(p)
    \/ \E d \in Drafts : BatchReadDraft(p, d)
    \/ BatchReadSource(p) \/ BatchCheckAttempt(p) \/ BatchCheckRecord(p)
    \/ \E d \in Drafts : ManualClaim(p, d)
    \/ ManualCommit(p)
=============================================================================
