---------------------------- MODULE DraftReview ----------------------------
(***************************************************************************)
(* email-draft approve and reject: read the draft, check that its context  *)
(* is still the one it was generated from, write the new status by primary *)
(* key and commit.  Nothing is locked before the write.                    *)
(***************************************************************************)
EXTENDS OutreachStore

ReviewStart(p, d, target) ==
    /\ target \in {"APPROVED", "REJECTED"}
    /\ Begin(p, IF target = "APPROVED" THEN "approve" ELSE "reject", "review_draft",
             [NoJob EXCEPT !.draft = d, !.target = target])

ReviewReadDraft(p) ==
    LET row == draft[job[p].draft]
    IN  /\ pc[p] = "review_draft"
        /\ \/ row.status = "DRAFT" /\ Keep(p, row, "review_source")
           \/ row.status = "ABSENT" /\ Fail(p, "not_found")
           \/ row.status \in {"APPROVED", "REJECTED"} /\ Fail(p, "reviewed")

ReviewReadSource(p) ==
    LET row == job[p].seen
        fresh == RecordsLoad(row.task, row.bound) /\ CurrentContext(row) = Fingerprint(row)
    IN  /\ pc[p] = "review_source"
        /\ IF fresh THEN Step(p, "review_flush") ELSE Fail(p, "stale")

(* UPDATE email_drafts SET status, reviewed_at, approved_at | rejected_at  *)
(* WHERE id: the immutability listener looks at the status the session     *)
(* loaded, which was DRAFT.                                                *)
ReviewFlush(p) == pc[p] = "review_flush" /\ Lock(p, "review_commit")

Reviewed(row, target) ==
    [row EXCEPT !.status = target, !.approvedAt = @ \/ target = "APPROVED",
                !.rejectedAt = @ \/ target = "REJECTED"]

ReviewCommit(p) ==
    /\ pc[p] = "review_commit"
    /\ draft' = [draft EXCEPT ![job[p].draft] = Reviewed(@, job[p].target)]
    /\ Answer(p, "ok")
    /\ UNCHANGED <<task, attempt, manual, accepted>>

ReviewStep(p) ==
    \/ \E d \in Drafts, target \in {"APPROVED", "REJECTED"} : ReviewStart(p, d, target)
    \/ ReviewReadDraft(p)
    \/ ReviewReadSource(p)
    \/ ReviewFlush(p)
    \/ ReviewCommit(p)
=============================================================================
