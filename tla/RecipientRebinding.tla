------------------------ MODULE RecipientRebinding -------------------------
(***************************************************************************)
(* email-draft rebind-recipient: turns an unsent, unreviewed company draft *)
(* into one addressed to a person at the same address.  Unlike the other   *)
(* commands it takes the write lock before it reads anything.              *)
(***************************************************************************)
EXTENDS OutreachStore

RebindStart(p, d) == Begin(p, "rebind", "rebind_lock", [NoJob EXCEPT !.draft = d])

(* Checking before locking, like the other commands.                       *)
RebindLockLate(p) == pc[p] = "rebind_lock" /\ Step(p, "rebind_check")

(* CompanyRepository.acquire_promotion_scope: a no-op UPDATE of the project. *)
RebindLock(p) == pc[p] = "rebind_lock" /\ Lock(p, "rebind_check")

(* The row the draft becomes, and the row of its task with the lead bound. *)
Rebound(row) == [row EXCEPT !.bound = TRUE, !.located = TRUE]

ReboundTask(t) == [task[t] EXCEPT !.bound = TRUE, !.contactEmail = task[t].companyEmail,
                                  !.located = TRUE]

(* Not looking at whether the company's address is still the draft's.      *)
EligibleStale(d) ==
    LET row == draft[d]
    IN  /\ ~manual[d] /\ attempt[d] = "NONE" /\ row.mode = "NONE"
        /\ row.status = "DRAFT" /\ IsActive(row.task)
        /\ row.bound = task[row.task].bound

Eligible(d) ==
    LET row == draft[d]
        t == row.task
    IN  /\ ~manual[d] /\ attempt[d] = "NONE" /\ row.mode = "NONE"
        /\ row.status = "DRAFT" /\ ~row.approvedAt /\ ~row.rejectedAt
        /\ IsActive(t)
        /\ task[t].companyEmail = row.email
        /\ row.bound = task[t].bound
        /\ row.bound => task[t].contactEmail = row.email

(* Comparing with the context the draft has, not the one it gets.          *)
NoCollisionNow(d) ==
    \A other \in Drafts \ {d} : Exists(other) => Fingerprint(draft[other]) # Fingerprint(draft[d])

NoCollision(d) ==
    \A other \in Drafts \ {d} :
        Exists(other) => Fingerprint(draft[other]) # Fingerprint(Rebound(draft[d]))

RebindCheck(p) ==
    LET d == job[p].draft
    IN  /\ pc[p] = "rebind_check"
        /\ IF Exists(d) /\ Eligible(d) /\ NoCollision(d)
           THEN Step(p, "rebind_commit")
           ELSE Fail(p, "conflict")

RebindCommit(p) ==
    LET d == job[p].draft
        t == draft[d].task
    IN  /\ pc[p] = "rebind_commit"
        /\ draft' = [draft EXCEPT ![d] = Rebound(@)]
        /\ task' = [task EXCEPT ![t] = ReboundTask(t)]
        /\ Answer(p, "ok")
        /\ UNCHANGED <<attempt, manual, accepted>>

RebindStep(p) ==
    \/ \E d \in Drafts : RebindStart(p, d)
    \/ RebindLock(p)
    \/ RebindCheck(p)
    \/ RebindCommit(p)
=============================================================================
