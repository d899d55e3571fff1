------------------------ MODULE CandidatePromotion -------------------------
(***************************************************************************)
(* The operator's commands on one candidate: review and reject, which read *)
(* before they lock, and promote, which locks before it reads.  The agent  *)
(* applies its plans through the same services (CompanyAgent).             *)
(***************************************************************************)
EXTENDS CandidateStore

(* _is_allowed_transition of the review service.                           *)
Allowed(from) ==
    CASE from \in {"DISCOVERED", "REVIEWED"} -> {"REVIEWED", "REJECTED"}
      [] from = "REJECTED"                   -> {"REJECTED"}
      [] OTHER                               -> {}

ReviewStart(p, c, target) ==
    Begin(p, "review", "review_read", [NoJob EXCEPT !.candidate = c, !.target = target])

ReviewRead(p) ==
    LET row == candidate[job[p].candidate]
    IN  /\ pc[p] = "review_read"
        /\ CASE row.status = "ABSENT"                     -> Fail(p, "not_found")
             [] job[p].target \notin Allowed(row.status)  -> Fail(p, "transition")
             [] job[p].target = row.status                -> Fail(p, "unchanged")
             [] OTHER                                     -> Step(p, "review_write")

(* set_candidate_status: an UPDATE by primary key, of the status alone.    *)
ReviewWrite(p) ==
    /\ pc[p] = "review_write"
    /\ candidate' = [candidate EXCEPT ![job[p].candidate].status = job[p].target]
    /\ Answer(p, "ok", NoCompany)
    /\ WriteAtOnce
    /\ UNCHANGED <<run, company, handoff>>

-----------------------------------------------------------------------------
(* Promotion. *)

PromoteStart(p, c) == Begin(p, "promote", "promote_lock", [NoJob EXCEPT !.candidate = c])

(* acquire_promotion_scope taking no lock.                                 *)
PromoteUnlocked(p) == pc[p] = "promote_lock" /\ Step(p, "promote_decide")

(* acquire_promotion_scope: a no-op UPDATE of the project.                 *)
PromoteLock(p) == pc[p] = "promote_lock" /\ Lock(p, "promote_decide")

(* Answering a promoted candidate as promoted, whatever it is linked to.   *)
AlreadyUnchecked(p, row) ==
    Answer(p, "already", row.company) /\ GiveLock(p) /\ UNCHANGED tables

(* A promoted candidate answers with the company it has.                   *)
AlreadyPromoted(p, row) ==
    IF row.company = NoCompany
    THEN Fail(p, "inconsistent")
    ELSE Answer(p, "already", row.company) /\ GiveLock(p) /\ UNCHANGED tables

(* find_duplicate_by_website: the first company of the host, if any.       *)
At(host) == {k \in Live : host # NoHost /\ company[k].host = host}

IsFirstAt(host, k) == k \in At(host) /\ \A other \in At(host) : k <= other

(* The promotion goes on, knowing which company to reuse.                  *)
LookUp(p, label, host) ==
    /\ Goto(p, label)
    /\ UNCHANGED <<tables, writer>>
    /\ \E k \in Companies \union {NoCompany} :
           /\ IF k = NoCompany THEN At(host) = {} ELSE IsFirstAt(host, k)
           /\ job' = [job EXCEPT ![p].company = k]

PromoteDecide(p) ==
    LET c == job[p].candidate
        row == candidate[c]
    IN  /\ pc[p] = "promote_decide"
        /\ CASE row.status = "ABSENT"       -> Fail(p, "not_found")
             [] row.status = "PROMOTED"     -> AlreadyPromoted(p, row)
             [] row.status # "REVIEWED"     -> Fail(p, "ineligible")
             [] row.company # NoCompany     -> Fail(p, "inconsistent")
             [] "name" \notin row.known     -> Fail(p, "invalid")
             [] OTHER                       -> LookUp(p, "promote_commit", HostOf[c])

Link(c, k) == candidate' = [candidate EXCEPT ![c].status = "PROMOTED", ![c].company = k]

PromoteNew(p, c) ==
    \E k \in Companies :
        /\ IsNextCompany(k)
        /\ company' = [company EXCEPT ![k] = [live |-> TRUE, host |-> HostOf[c],
                                              known |-> candidate[c].known]]
        /\ Link(c, k)
        /\ Answer(p, "ok", k)

PromoteExisting(p, c) ==
    /\ Link(c, job[p].company)
    /\ Answer(p, "reused", job[p].company)
    /\ UNCHANGED company

(* The company that was found, or a new one, and the link.                 *)
PromoteInto(p, c) ==
    IF job[p].company = NoCompany THEN PromoteNew(p, c) ELSE PromoteExisting(p, c)

PromoteCommit(p) ==
    /\ pc[p] = "promote_commit"
    /\ PromoteInto(p, job[p].candidate)
    /\ GiveLock(p)
    /\ UNCHANGED <<run, handoff>>

PromotionStep(p) ==
    \/ \E c \in Candidates : \/ PromoteStart(p, c)
                             \/ \E target \in {"REVIEWED", "REJECTED"} : ReviewStart(p, c, target)
    \/ ReviewRead(p) \/ ReviewWrite(p)
    \/ PromoteLock(p) \/ PromoteDecide(p) \/ PromoteCommit(p)
=============================================================================
