-------------------------- MODULE ContactPromotion --------------------------
(***************************************************************************)
(* What happens to a candidate: review and reject, which read before they  *)
(* lock, and promote and the application of the agent's plan, which take   *)
(* the company's lock before they read.  The application promotes and then *)
(* sees to it that the contact has its lead and the lead its task.         *)
(***************************************************************************)
EXTENDS ContactStore

(* set_candidate_status                                                    *)
Allowed(from) ==
    CASE from \in {"DISCOVERED", "REVIEWED"} -> {"REVIEWED", "REJECTED"}
      [] from = "REJECTED"                   -> {"REJECTED"}
      [] OTHER                               -> {}

ReviewStart(p, c, target) ==
    Begin(p, "review", "review_read", [NoJob EXCEPT !.candidate = c, !.outcome = target])

ReviewRead(p) ==
    LET row == candidate[job[p].candidate]
    IN  /\ pc[p] = "review_read"
        /\ CASE row.status = "ABSENT" -> Fail(p, "not_found")
             [] row.contact # NoContact \/ job[p].outcome \notin Allowed(row.status) ->
                    Fail(p, "transition")
             [] job[p].outcome = row.status -> Fail(p, "unchanged")
             [] OTHER -> Step(p, "review_write", job[p])

(* An UPDATE by primary key, of the status alone.                          *)
ReviewWrite(p) ==
    /\ pc[p] = "review_write"
    /\ candidate' = [candidate EXCEPT ![job[p].candidate].status = job[p].outcome]
    /\ Write(p, "ok")
    /\ UNCHANGED <<crm, state, handoff>>

-----------------------------------------------------------------------------
(* Promotion. *)

PromoteStart(p, c) == Begin(p, "promote", "promote_lock", [NoJob EXCEPT !.candidate = c])

(* acquire_promotion_scope taking no lock.                                 *)
PromoteUnlocked(p) == pc[p] = "promote_lock" /\ Step(p, "promote_decide", job[p])

(* acquire_promotion_scope: a no-op UPDATE of the company.                 *)
PromoteLock(p) == pc[p] = "promote_lock" /\ Lock(p, "promote_decide")

AlreadyPromoted(p, row) ==
    IF row.contact = NoContact
    THEN Fail(p, "inconsistent")
    ELSE Answer(p, "already", row.contact) /\ GiveLock(p) /\ UNCHANGED tables

(* find_promotion_duplicate_by_email: the first contact of the address.    *)
At(email) == {k \in Live : email # NoEmail /\ contact[k].email = email}

IsDuplicate(k, email) ==
    IF k = NoContact THEN At(email) = {} ELSE k \in At(email) /\ \A other \in At(email) : k <= other

(* A contact has a name; its address, if any, is the candidate's.          *)
Mappable(row) == "name" \in row.known

PromoteDecide(p) ==
    LET c == job[p].candidate
        row == candidate[c]
    IN  /\ pc[p] = "promote_decide"
        /\ CASE row.status = "ABSENT"    -> Fail(p, "not_found")
             [] row.status = "PROMOTED"  -> AlreadyPromoted(p, row)
             [] row.status # "REVIEWED"  -> Fail(p, "ineligible")
             [] row.contact # NoContact  -> Fail(p, "inconsistent")
             [] ~Mappable(row)           -> Fail(p, "invalid")
             [] OTHER -> \E k \in Contacts \union {NoContact} :
                             /\ IsDuplicate(k, EmailOf[c])
                             /\ Step(p, "promote_commit", [job[p] EXCEPT !.contact = k])

(* create_for_promotion                                                    *)
NewContact(c, k) ==
    /\ IsNextKey(k, Contacts, Live)
    /\ contact' = [contact EXCEPT ![k] = [live |-> TRUE, email |-> EmailOf[c]]]

(* link_promoted_contact, to the duplicate or to a contact made for it.    *)
LinkTo(p, c, k) ==
    /\ IF job[p].contact = NoContact
       THEN NewContact(c, k)
       ELSE k = job[p].contact /\ UNCHANGED contact
    /\ candidate' = [candidate EXCEPT ![c].status = "PROMOTED", ![c].contact = k]

PromoteCommit(p) ==
    /\ pc[p] = "promote_commit"
    /\ \E k \in Contacts : /\ LinkTo(p, job[p].candidate, k)
                           /\ Answer(p, IF k = job[p].contact THEN "reused" ELSE "ok", k)
    /\ GiveLock(p)
    /\ UNCHANGED <<state, mailbox, lead, task, handoff>>

-----------------------------------------------------------------------------
(* Applying a contact plan. *)

ApplyStart(p, n, c) ==
    Begin(p, "apply", "apply_lock", [NoJob EXCEPT !.check = n, !.candidate = c])

(* _acquire_scope taking no lock.                                          *)
ApplyUnlocked(p) == pc[p] = "apply_lock" /\ Step(p, "apply_decide", job[p])

ApplyLock(p) == pc[p] = "apply_lock" /\ Lock(p, "apply_decide")

(* A token of the candidate alone.                                         *)
TokenMatchesCandidate(n, c) == handoff[n].candidate = c

(* The handoff token is a hash of what the plan printed and of when the    *)
(* discovery it rests on was stored, built anew from the rows.             *)
TokenMatches(n, c) ==
    handoff[n] = [candidate |-> c, known |-> candidate[c].known] /\ state.at = n

(* _materialize_lead, _materialize_task: nothing there yet, or one row that *)
(* is as the plan would have made it.                                      *)
LeadFits(k, l) ==
    IF l = NoLead THEN LeadsOf(k) = {} ELSE LeadsOf(k) = {l} /\ lead[l].fresh

TaskFits(l, t) ==
    IF t = NoTask THEN TasksOf(l) = {}
    ELSE TasksOf(l) = {t} /\ task[t].status = "TODO" /\ task[t].kind = "plan"

(* What the rows have to agree on before anything is compared.             *)
Consistent(row) == (row.status = "PROMOTED") = (row.contact # NoContact) /\ Mappable(row)

(* The contact there is already: the one linked, a duplicate, or none.     *)
Preexisting(c, k) ==
    IF candidate[c].status = "PROMOTED" THEN k = candidate[c].contact ELSE IsDuplicate(k, EmailOf[c])

Materialize(p, k) ==
    IF \E l \in Leads \union {NoLead}, t \in Tasks \union {NoTask} : LeadFits(k, l) /\ TaskFits(l, t)
    THEN \E l \in Leads \union {NoLead}, t \in Tasks \union {NoTask} :
             /\ LeadFits(k, l) /\ TaskFits(l, t)
             /\ Step(p, "apply_commit", [job[p] EXCEPT !.contact = k, !.lead = l, !.task = t])
    ELSE Fail(p, "conflict")

ApplyDecide(p) ==
    LET c == job[p].candidate
        row == candidate[c]
    IN  /\ pc[p] = "apply_decide"
        /\ CASE row.status = "ABSENT" \/ state.at = 0 -> Fail(p, "not_found")
             [] ~Consistent(row) -> Fail(p, "inconsistent")
             [] ~TokenMatches(job[p].check, c) -> Fail(p, "stale")
             [] ~state.found -> Fail(p, "ineligible")
             [] row.status = "REJECTED" -> Fail(p, "ineligible")
             [] OTHER -> \E k \in Contacts \union {NoContact} :
                             Preexisting(c, k) /\ Materialize(p, k)

(* Review and promotion, unless that has been done before.                 *)
ApplyPromotion(p, c, k) ==
    IF candidate[c].status = "PROMOTED"
    THEN k = job[p].contact /\ UNCHANGED <<candidate, contact>>
    ELSE LinkTo(p, c, k)

(* One transaction: review, promotion, lead and task, as far as missing.   *)
ApplyCommit(p) ==
    LET c == job[p].candidate
    IN  /\ pc[p] = "apply_commit"
        /\ \E k \in Contacts, l \in Leads, t \in Tasks :
               /\ ApplyPromotion(p, c, k)
               /\ IF job[p].lead = NoLead
                  THEN /\ IsNextKey(l, Leads, LiveLeads)
                       /\ lead' = [lead EXCEPT ![l] =
                                       [live |-> TRUE, contact |-> k, fresh |-> TRUE]]
                  ELSE l = job[p].lead /\ UNCHANGED lead
               /\ IF job[p].task = NoTask
                  THEN /\ IsNextKey(t, Tasks, LiveTasks)
                       /\ task' = [task EXCEPT ![t] = NewTask(p, l, "plan")]
                  ELSE t = job[p].task /\ UNCHANGED task
               /\ Answer(p, "ok", k)
        /\ GiveLock(p)
        /\ UNCHANGED <<state, mailbox, handoff>>

PromotionStep(p) ==
    \/ \E c \in Candidates :
           \/ PromoteStart(p, c)
           \/ \E target \in {"REVIEWED", "REJECTED"} : ReviewStart(p, c, target)
           \/ \E n \in 1..LastCheck : ApplyStart(p, n, c)
    \/ ReviewRead(p) \/ ReviewWrite(p)
    \/ PromoteLock(p) \/ PromoteDecide(p) \/ PromoteCommit(p)
    \/ ApplyLock(p) \/ ApplyDecide(p) \/ ApplyCommit(p)
=============================================================================
