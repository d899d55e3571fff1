--------------------------- MODULE CompanyAgent ----------------------------
(***************************************************************************)
(* The agent's two company commands.  A plan stages one search, shows its  *)
(* candidates to the decision model and prints the run and the candidate   *)
(* that was chosen.  Applying that handoff, later and from a process of    *)
(* its own, reviews and promotes the candidate in one transaction, unless  *)
(* another run has seen the candidate since.                               *)
(***************************************************************************)
EXTENDS DiscoveryStaging, CandidatePromotion

OfferOf(c) == [candidate |-> c, known |-> candidate[c].known]

(* list_candidates_for_run                                                 *)
OffersOf(r, status) ==
    {OfferOf(c) : c \in {d \in Candidates : candidate[d].seenIn = r /\ candidate[d].status = status}}

(* Somebody to choose from, and every one fit to be shown.                 *)
Show(p, offers) ==
    CASE offers = {} -> Fail(p, "no_candidates")
      [] \E o \in offers : "name" \notin o.known -> Fail(p, "selection")
      [] OTHER -> /\ Goto(p, "plan_decide")
                  /\ job' = [job EXCEPT ![p].offers = offers]
                  /\ UNCHANGED <<tables, writer>>

(* A plan offers new candidates, a recovering one promoted ones as well.   *)
PlanList(p) ==
    LET offers == OffersOf(job[p].run, "DISCOVERED")
    IN  /\ pc[p] = "plan_list"
        /\ IF job[p].command = "plan"
           THEN Show(p, offers)
           ELSE /\ Goto(p, "plan_promoted")
                /\ job' = [job EXCEPT ![p].offers = offers]
                /\ UNCHANGED <<tables, writer>>

(* The second SELECT: a candidate promoted since the first is in both      *)
(* lists, which the selection refuses, as it does one without its company. *)
PlanPromoted(p) ==
    LET promoted == OffersOf(job[p].run, "PROMOTED")
    IN  /\ pc[p] = "plan_promoted"
        /\ IF \E q \in promoted : \/ candidate[q.candidate].company = NoCompany
                                  \/ \E o \in job[p].offers : o.candidate = q.candidate
           THEN Fail(p, "selection")
           ELSE Show(p, job[p].offers \union promoted)

(* What the plan prints: a candidate, and the company it already has.      *)
PrintHandoff(p, offer, k) ==
    /\ handoff' = [handoff EXCEPT ![job[p].run] = offer]
    /\ Answer(p, "selected", k)
    /\ UNCHANGED <<candidate, run, company, writer>>

(* The decision model chooses one of the offers, none, or fails.           *)
PlanDecide(p) ==
    /\ pc[p] = "plan_decide"
    /\ \/ Fail(p, "provider")
       \/ Fail(p, "no_selection")
       \/ \E o \in job[p].offers :
              IF job[p].command = "plan"
              THEN PrintHandoff(p, o, NoCompany)
              ELSE /\ Goto(p, "plan_resolve")
                   /\ job' = [job EXCEPT ![p].chosen = o]
                   /\ UNCHANGED <<tables, writer>>

(* resolve_selected_existing_company_id reads the candidate again.         *)
PlanResolve(p) ==
    LET c == job[p].chosen.candidate
        row == candidate[c]
    IN  /\ pc[p] = "plan_resolve"
        /\ IF /\ row.seenIn = job[p].run
              /\ \/ row.status = "DISCOVERED" /\ row.company = NoCompany
                 \/ row.status = "PROMOTED" /\ row.company # NoCompany
           THEN PrintHandoff(p, job[p].chosen, row.company)
           ELSE Fail(p, "binding")

-----------------------------------------------------------------------------
(* Applying a handoff. *)

ApplyStart(p, r, c) ==
    Begin(p, "apply", "apply_lock", [NoJob EXCEPT !.run = r, !.candidate = c])

ApplyLock(p) == pc[p] = "apply_lock" /\ Lock(p, "apply_decide")

Applicable(r) == run[r] \in {"SUCCEEDED", "PARTIAL"}

(* Not noticing that another run has seen the candidate since the plan.    *)
FreshAlways(row, r) == TRUE

Fresh(row, r) == row.seenIn = r

ApplyDecide(p) ==
    LET c == job[p].candidate
        row == candidate[c]
        r == job[p].run
    IN  /\ pc[p] = "apply_decide"
        /\ CASE run[r] = "ABSENT"        -> Fail(p, "not_found")
             [] ~Applicable(r)           -> Fail(p, "ineligible")
             [] row.status = "ABSENT"    -> Fail(p, "not_found")
             [] ~Fresh(row, r)           -> Fail(p, "stale")
             [] row.status = "PROMOTED"  -> AlreadyPromoted(p, row)
             [] row.company # NoCompany  -> Fail(p, "inconsistent")
             [] row.status = "REJECTED"  -> Fail(p, "ineligible")
             [] "name" \notin row.known  -> Fail(p, "inconsistent")
             [] OTHER                    -> LookUp(p, "apply_commit", HostOf[c])

(* A discovered candidate is reviewed and promoted in the same transaction. *)
ApplyCommit(p) ==
    /\ pc[p] = "apply_commit"
    /\ PromoteInto(p, job[p].candidate)
    /\ GiveLock(p)
    /\ UNCHANGED <<run, handoff>>

AgentStep(p) ==
    \/ PlanList(p) \/ PlanPromoted(p) \/ PlanDecide(p) \/ PlanResolve(p)
    \/ \E r \in Runs, c \in Candidates : ApplyStart(p, r, c)
    \/ ApplyLock(p) \/ ApplyDecide(p) \/ ApplyCommit(p)
=============================================================================
