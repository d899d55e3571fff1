------------------------- MODULE DiscoveryStaging --------------------------
(***************************************************************************)
(* Staging a search: the provider is asked first, with no transaction      *)
(* open; then one transaction records the run and every candidate found.   *)
(* A command ("stage") ends there, the agent's plan goes on.               *)
(***************************************************************************)
EXTENDS CandidateStore

StageStart(p) == \E command \in {"stage", "plan", "recover"} : Begin(p, command, "search", NoJob)

(* The search provider has answered, or failed: the run is created.        *)
Search(p) == pc[p] = "search" /\ Step(p, "stage_lock")

StageLock(p) == pc[p] = "stage_lock" /\ Lock(p, "stage_commit")

(* upsert_candidate: a new identity is DISCOVERED; of a known one only     *)
(* missing fields are filled in, and only until somebody has reviewed it.  *)
Upsert(row, r, learnt) ==
    IF row.status = "ABSENT"
    THEN [status |-> "DISCOVERED", known |-> learnt, seenIn |-> r, company |-> NoCompany]
    ELSE [row EXCEPT !.seenIn = r,
                     !.known = IF row.status = "DISCOVERED" THEN @ \union learnt ELSE @]

(* What a search may have found: the identity of a candidate without a     *)
(* website is its name and country.                                        *)
Findings(found) ==
    {learnt \in [found -> SUBSET Fields] :
        \A c \in found : HostOf[c] = NoHost => learnt[c] = Fields}

(* The status a run may get, by what was found: candidates make it a       *)
(* success, or partial if some query or some result failed; a failed run   *)
(* is recorded too, without candidates.                                    *)
Outcomes(found) ==
    IF found # {} THEN {"SUCCEEDED", "PARTIAL"} ELSE {"PARTIAL", "NOT_FOUND", "FAILED"}

(* The plan makes a single query, so that its run is partial only if some  *)
(* result was bad data: the plan goes on after a clean success alone.      *)
AfterStaging(p, status) ==
    CASE job[p].command = "stage"          -> "staged"
      [] status \in {"FAILED", "PARTIAL"} -> "provider"
      [] status = "NOT_FOUND"              -> "no_candidates"
      [] OTHER                             -> ""

StageCommit(p) ==
    /\ pc[p] = "stage_commit"
    /\ \E r \in Runs, found \in SUBSET Candidates :
        \E learnt \in Findings(found), status \in Outcomes(found) :
            /\ IsNextRun(r)
            /\ run' = [run EXCEPT ![r] = status]
            /\ candidate' = [c \in Candidates |->
                   IF c \in found THEN Upsert(candidate[c], r, learnt[c]) ELSE candidate[c]]
            /\ IF AfterStaging(p, status) = ""
               THEN Goto(p, "plan_list") /\ job' = [job EXCEPT ![p].run = r]
               ELSE Answer(p, AfterStaging(p, status), NoCompany)
    /\ GiveLock(p)
    /\ UNCHANGED <<company, handoff>>

StagingStep(p) == StageStart(p) \/ Search(p) \/ StageLock(p) \/ StageCommit(p)
=============================================================================
