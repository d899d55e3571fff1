------------------------- MODULE CompanyCandidates -------------------------
(***************************************************************************)
(* Company candidates from discovery to company: any mix of the staging,   *)
(* review, promotion and agent commands, while companies are also created  *)
(* and deleted by hand.                                                    *)
(***************************************************************************)
EXTENDS CompanyAgent

(* company create: one INSERT, committed at once, no duplicate check.      *)
CreateStart(p, host) == Begin(p, "create", "create", [NoJob EXCEPT !.host = host])

Create(p) ==
    /\ pc[p] = "create"
    /\ \E k \in Companies, known \in SUBSET Fields :
           /\ "name" \in known /\ IsNextCompany(k)
           /\ company' = [company EXCEPT ![k] = [live |-> TRUE, host |-> job[p].host,
                                                 known |-> known]]
           /\ Answer(p, "ok", k)
    /\ WriteAtOnce
    /\ UNCHANGED <<candidate, run, handoff>>

(* company delete: reads the row, then deletes it by its key; the foreign  *)
(* key of the candidates is ON DELETE SET NULL.                            *)
DeleteStart(p, k) == Begin(p, "delete", "delete_read", [NoJob EXCEPT !.company = k])

DeleteRead(p) ==
    /\ pc[p] = "delete_read"
    /\ IF company[job[p].company].live THEN Step(p, "delete_write") ELSE Fail(p, "not_found")

(* The DELETE is by primary key: if the company is gone it matches nothing *)
(* or, its key being taken again, the newer company.                       *)
DeleteWrite(p) ==
    LET k == job[p].company
    IN  /\ pc[p] = "delete_write"
        /\ WriteAtOnce
        /\ company' = [company EXCEPT ![k] = NoCompanyRow]
        /\ candidate' = [c \in Candidates |->
               IF candidate[c].company = k THEN [candidate[c] EXCEPT !.company = NoCompany]
               ELSE candidate[c]]
        /\ Answer(p, "ok", NoCompany)
        /\ UNCHANGED <<run, handoff>>

CompanyStep(p) ==
    \/ \E host \in Hosts \union {NoHost} : CreateStart(p, host)
    \/ \E k \in Companies : DeleteStart(p, k)
    \/ Create(p) \/ DeleteRead(p) \/ DeleteWrite(p)

Next ==
    \E p \in Procs :
        StagingStep(p) \/ PromotionStep(p) \/ AgentStep(p) \/ CompanyStep(p) \/ ProcessStep(p)

Spec == Init /\ [][Next]_vars

-----------------------------------------------------------------------------
(* Safety. *)

(* What the agent applies is what it decided on: the candidate promoted    *)
(* under a handoff is as the decision model saw it, although other runs    *)
(* and operators change candidates between the plan and its application.   *)
AppliedAsPlanned ==
    \A p \in Procs : pc[p] = "apply_commit" =>
        LET offer == handoff[job[p].run]
        IN  offer.candidate = job[p].candidate =>
                candidate[job[p].candidate].known = offer.known

-----------------------------------------------------------------------------
(* Steps. *)

PromotingLabels == {"promote_decide", "promote_commit", "apply_decide", "apply_commit"}

(* A promotion or an application ends, with an answer.                     *)
Answering(p) == pc[p] \in PromotingLabels /\ pc'[p] = "done"

(* Whoever is told that a candidate has a company is told the truth: the   *)
(* company exists, is of the candidate's host, and is the one it is linked *)
(* to.                                                                     *)
PromotionHonest ==
    [][\A p \in Procs : Answering(p) /\ job'[p].answer \in {"ok", "reused", "already"} =>
           LET c == job[p].candidate
               k == job'[p].company
           IN  /\ candidate'[c].status = "PROMOTED" /\ candidate'[c].company = k
               /\ k \in Live' /\ company'[k].host = HostOf[c]]_vars

(* The links and the companies, as the ledger sees them.                   *)
Ledger == INSTANCE PromotionLedger WITH
              link  <- [c \in Candidates |-> candidate[c].company],
              place <- [k \in Live |-> company[k].host]

(* The commands implement the ledger: no candidate is linked twice, and no *)
(* promotion makes a second company for a host.                            *)
ImplementsLedger == Ledger!LedgerSpec

-----------------------------------------------------------------------------
(* The inductive invariant behind the safety properties.                   *)

StageLabels == {"search", "stage_lock", "stage_commit"}
PlanLabels == {"plan_list", "plan_promoted", "plan_decide", "plan_resolve"}
ApplyLabels == {"apply_lock", "apply_decide", "apply_commit"}
PromoteLabels == {"promote_lock", "promote_decide", "promote_commit"}
ReviewLabels == {"review_read", "review_write"}
DeleteLabels == {"delete_read", "delete_write"}

-----------------------------------------------------------------------------
(* Rows. *)

(* A missing candidate is blank; one nobody reviewed has no company; and a *)
(* company a candidate is linked to exists and is of its host.             *)
CandidatesInv ==
    \A c \in Candidates :
        LET row == candidate[c]
        IN  /\ row.status = "ABSENT" => row = NoCandidateRow
            /\ row.status = "DISCOVERED" => row.company = NoCompany
            /\ row.company # NoCompany => /\ company[row.company].live
                                          /\ company[row.company].host = HostOf[c]

(* As long as no other run has seen the candidate, it is as offered.       *)
StillAsOffered(offer, r) ==
    offer.candidate \in Candidates /\ candidate[offer.candidate].seenIn = r =>
        candidate[offer.candidate].known = offer.known

(* Only a run that exists was seen in, or printed, by anybody.             *)
RunsInv ==
    /\ \A c \in Candidates : candidate[c].seenIn # NoRun => run[candidate[c].seenIn] # "ABSENT"
    /\ \A r \in Runs : /\ run[r] = "ABSENT" => handoff[r] = NoOffer
                       /\ StillAsOffered(handoff[r], r)

-----------------------------------------------------------------------------
(* Processes. *)

(* Who is inside a transaction holds the lock, and only they do.           *)
LockHeld(p) == writer = p <=> pc[p] \in LockedLabels

(* A plan knows its run, and what it offers is as it was.                  *)
PlannerInformed(p) ==
    pc[p] \in PlanLabels =>
        /\ job[p].run \in Runs /\ run[job[p].run] # "ABSENT"
        /\ \A o \in job[p].offers \union {job[p].chosen} : StillAsOffered(o, job[p].run)
        /\ \A o \in job[p].offers : o.candidate \in Candidates
        /\ pc[p] = "plan_resolve" => job[p].chosen.candidate \in Candidates

(* Whoever is about to promote may, and into the right company.            *)
PromoterInformed(p) ==
    LET row == candidate[job[p].candidate]
    IN  /\ pc[p] \in PromoteLabels \union ApplyLabels \union ReviewLabels =>
               job[p].candidate \in Candidates
        /\ pc[p] \in ApplyLabels => job[p].run \in Runs
        /\ pc[p] \in {"promote_commit", "apply_commit"} =>
               /\ row.company = NoCompany
               /\ IF job[p].company = NoCompany
                  THEN At(HostOf[job[p].candidate]) = {}
                  ELSE job[p].company \in At(HostOf[job[p].candidate])
        /\ pc[p] \in {"promote_commit", "apply_commit", "review_write"} => row.status # "ABSENT"
        /\ pc[p] = "apply_commit" => row.seenIn = job[p].run
        /\ pc[p] \in ReviewLabels => job[p].target \in {"REVIEWED", "REJECTED"}

(* A search has offered nothing yet.                                       *)
SearchBlank(p) == pc[p] \in StageLabels => job[p].offers = {} /\ job[p].chosen = NoOffer

CompanyNamed(p) == pc[p] \in DeleteLabels => job[p].company \in Companies

ProcessInv(p) ==
    LockHeld(p) /\ PlannerInformed(p) /\ PromoterInformed(p) /\ SearchBlank(p) /\ CompanyNamed(p)

-----------------------------------------------------------------------------
(* The inductive invariant.                                                *)
IInv == TypeOK /\ CandidatesInv /\ RunsInv /\ \A p \in Procs : ProcessInv(p)
=============================================================================
