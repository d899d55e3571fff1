------------------------- MODULE CandidatesTheorems -------------------------
(***************************************************************************)
(* What follows from the invariant of CompanyCandidates: handoffs, honest  *)
(* answers, and the ledger of promotions.                                  *)
(***************************************************************************)
EXTENDS CandidatesProof

(* The steps that commit a change to candidates or companies.              *)
Commit(p) ==
    StageCommit(p) \/ ReviewWrite(p) \/ PromoteCommit(p) \/ ApplyCommit(p) \/ Create(p) \/ DeleteWrite(p)

ProcessNext(p) ==
    StagingStep(p) \/ PromotionStep(p) \/ AgentStep(p) \/ CompanyStep(p) \/ ProcessStep(p)

(* A quiet step leaves candidates and companies alone.                     *)
LEMMA QuietOrCommit ==
  ASSUME NEW p \in Procs, ProcessNext(p)
  PROVE  UNCHANGED <<candidate, company>> \/ Commit(p)
  <1> USE DEF Commit, Begin, Step, Lock, Fail, tables
  <1>1. CASE StagingStep(p)
    BY <1>1 DEF StagingStep, StageStart, Search, StageLock
  <1>2. CASE PromotionStep(p)
    <2>1. CASE ReviewRead(p)
      BY <2>1 DEF ReviewRead
    <2>2. CASE PromoteDecide(p)
      BY <2>2 DEF PromoteDecide, AlreadyPromoted, LookUp
    <2> QED
      BY <1>2, <2>1, <2>2 DEF PromotionStep, PromoteStart, ReviewStart, PromoteLock
  <1>3. CASE AgentStep(p)
    <2>1. CASE PlanList(p) \/ PlanPromoted(p)
      BY <2>1 DEF PlanList, PlanPromoted, Show
    <2>2. CASE PlanDecide(p) \/ PlanResolve(p)
      BY <2>2 DEF PlanDecide, PlanResolve, PrintHandoff
    <2>3. CASE ApplyDecide(p)
      BY <2>3 DEF ApplyDecide, AlreadyPromoted, LookUp
    <2> QED
      BY <1>3, <2>1, <2>2, <2>3 DEF AgentStep, ApplyStart, ApplyLock
  <1>4. CASE CompanyStep(p)
    BY <1>4 DEF CompanyStep, CreateStart, DeleteStart, DeleteRead
  <1>5. CASE ProcessStep(p)
    BY <1>5 DEF ProcessStep, Exit, DatabaseError, Crash
  <1> QED
    BY <1>1, <1>2, <1>3, <1>4, <1>5 DEF ProcessNext

(* Every step of a process moves that process only.                        *)
LEMMA OwnPlace ==
  ASSUME IInv, NEW p \in Procs, ProcessNext(p), NEW q \in Procs, q # p
  PROVE  pc'[q] = pc[q]
  <1> SUFFICES \E label : Goto(p, label)
    BY DEF Goto, IInv, TypeOK
  <1> USE DEF Begin, Step, Lock, Fail, Answer
  <1>1. CASE StagingStep(p)
    BY <1>1 DEF StagingStep, StageStart, Search, StageLock, StageCommit
  <1>2. CASE PromotionStep(p)
    <2>1. CASE ReviewRead(p)
      BY <2>1 DEF ReviewRead
    <2>2. CASE PromoteDecide(p)
      BY <2>2 DEF PromoteDecide, AlreadyPromoted, LookUp
    <2>3. CASE ReviewWrite(p) \/ PromoteCommit(p)
      BY <2>3 DEF ReviewWrite, PromoteCommit, PromoteInto, PromoteNew, PromoteExisting
    <2> QED
      BY <1>2, <2>1, <2>2, <2>3 DEF PromotionStep, PromoteStart, ReviewStart, PromoteLock
  <1>3. CASE AgentStep(p)
    <2>1. CASE PlanList(p) \/ PlanPromoted(p)
      BY <2>1 DEF PlanList, PlanPromoted, Show
    <2>2. CASE PlanDecide(p) \/ PlanResolve(p)
      BY <2>2 DEF PlanDecide, PlanResolve, PrintHandoff
    <2>3. CASE ApplyDecide(p)
      BY <2>3 DEF ApplyDecide, AlreadyPromoted, LookUp
    <2>4. CASE ApplyCommit(p)
      BY <2>4 DEF ApplyCommit, PromoteInto, PromoteNew, PromoteExisting
    <2> QED
      BY <1>3, <2>1, <2>2, <2>3, <2>4 DEF AgentStep, ApplyStart, ApplyLock
  <1>4. CASE CompanyStep(p)
    BY <1>4 DEF CompanyStep, CreateStart, Create, DeleteStart, DeleteRead, DeleteWrite
  <1>5. CASE ProcessStep(p)
    BY <1>5 DEF ProcessStep, Exit, DatabaseError, Crash
  <1> QED
    BY <1>1, <1>2, <1>3, <1>4, <1>5 DEF ProcessNext

-----------------------------------------------------------------------------
(* What the agent applies is what it decided on: at the moment a handoff   *)
(* is applied, its candidate is as the decision model saw it.              *)
THEOREM HandoffsAreCurrent == Spec => []AppliedAsPlanned
  <1>1. IInv => AppliedAsPlanned
    BY DEF IInv, RunsInv, StillAsOffered, ProcessInv, PromoterInformed, ApplyLabels, AppliedAsPlanned
  <1> QED
    BY <1>1, Invariant, PTL

-----------------------------------------------------------------------------
(* Honest answers. *)

(* What is said of candidate c when its promotion is answered.             *)
Truth(p, c) ==
    LET k == job'[p].company
    IN  /\ candidate'[c].status = "PROMOTED" /\ candidate'[c].company = k
        /\ k \in Live' /\ company'[k].host = HostOf[c]

LEMMA AnswerSaid ==
  ASSUME IInv, NEW p \in Procs, NEW a \in Answers, NEW k \in Companies \union {NoCompany}, Answer(p, a, k)
  PROVE  job'[p].answer = a /\ job'[p].company = k
  BY DEF Answer, NoJob, IInv, TypeOK

LEMMA AlreadyTruth ==
  ASSUME IInv, NEW p \in Procs, NEW c \in Candidates, candidate[c].status = "PROMOTED",
         AlreadyPromoted(p, candidate[c]), job'[p].answer \in {"ok", "reused", "already"}
  PROVE  Truth(p, c)
  <1>1. "inconsistent" \in Answers /\ "already" \in Answers
    BY DEF Answers
  <1>2. candidate[c].company \in Companies \union {NoCompany}
    BY DEF IInv, TypeOK, CandidateRow
  <1>3. ~Fail(p, "inconsistent")
    BY <1>1, AnswerSaid DEF Fail
  <1>4. Answer(p, "already", candidate[c].company) /\ UNCHANGED tables /\ candidate[c].company # NoCompany
    BY <1>3 DEF AlreadyPromoted
  <1>5. job'[p].company = candidate[c].company
    BY <1>1, <1>2, <1>4, AnswerSaid
  <1> QED
    BY <1>2, <1>4, <1>5 DEF Truth, Live, tables, IInv, CandidatesInv

LEMMA PromoteTruth ==
  ASSUME IInv, NEW p \in Procs, NEW c \in Candidates, PromoteInto(p, c),
         job[p].company # NoCompany => job[p].company \in At(HostOf[c])
  PROVE  Truth(p, c)
  <1>1. PICK k \in Companies, a \in {"ok", "reused"} :
             /\ Answer(p, a, k)
             /\ Link(c, k)
             /\ company'[k].live /\ company'[k].host = HostOf[c]
    BY PromoteIntoFact
  <1>2. a \in Answers
    BY DEF Answers
  <1>3. job'[p].company = k
    BY <1>1, <1>2, AnswerSaid
  <1>4. candidate'[c].status = "PROMOTED" /\ candidate'[c].company = k
    BY <1>1 DEF Link, IInv, TypeOK, CandidateRow
  <1> QED
    BY <1>1, <1>3, <1>4 DEF Truth, Live

(* A process inside a promotion or an application can only decide, commit, *)
(* fail or die.                                                            *)
LEMMA PromotingSteps ==
  ASSUME IInv, NEW p \in Procs, pc[p] \in PromotingLabels, ProcessNext(p)
  PROVE  \/ PromoteDecide(p) \/ PromoteCommit(p) \/ ApplyDecide(p) \/ ApplyCommit(p)
         \/ DatabaseError(p) \/ Crash(p)
  <1> USE DEF PromotingLabels, Begin
  <1>1. ~StagingStep(p)
    BY DEF StagingStep, StageStart, Search, StageLock, StageCommit
  <1>2. ~CompanyStep(p)
    BY DEF CompanyStep, CreateStart, Create, DeleteStart, DeleteRead, DeleteWrite
  <1>3. PromotionStep(p) => PromoteDecide(p) \/ PromoteCommit(p)
    BY DEF PromotionStep, PromoteStart, ReviewStart, ReviewRead, ReviewWrite, PromoteLock
  <1>4. AgentStep(p) => ApplyDecide(p) \/ ApplyCommit(p)
    BY DEF AgentStep, PlanList, PlanPromoted, PlanDecide, PlanResolve, ApplyStart, ApplyLock
  <1>5. ProcessStep(p) => DatabaseError(p) \/ Crash(p)
    BY DEF ProcessStep, Exit
  <1> QED
    BY <1>1, <1>2, <1>3, <1>4, <1>5 DEF ProcessNext

LEMMA HonestStep ==
  ASSUME IInv, NEW p \in Procs, ProcessNext(p), Answering(p),
         job'[p].answer \in {"ok", "reused", "already"}
  PROVE  Truth(p, job[p].candidate)
  <1>1. /\ pc[p] \in PromotingLabels /\ pc'[p] = "done"
        /\ job[p].candidate \in Candidates
    BY DEF Answering, PromotingLabels, IInv, ProcessInv, PromoterInformed, PromoteLabels, ApplyLabels
  <1>2. {"not_found", "ineligible", "inconsistent", "invalid", "stale", "persistence"} \subseteq Answers
    BY DEF Answers
  <1>3. \A a \in {"not_found", "ineligible", "inconsistent", "invalid", "stale", "persistence"} : ~Fail(p, a)
    BY <1>2, AnswerSaid DEF Fail
  <1>4. \A host : ~LookUp(p, "promote_commit", host) /\ ~LookUp(p, "apply_commit", host)
    BY <1>1 DEF LookUp, Goto, IInv, TypeOK
  <1>5. CASE PromoteDecide(p)
    <2>1. AlreadyPromoted(p, candidate[job[p].candidate]) /\ candidate[job[p].candidate].status = "PROMOTED"
      BY <1>3, <1>4, <1>5 DEF PromoteDecide
    <2> QED
      BY <1>1, <2>1, AlreadyTruth
  <1>6. CASE ApplyDecide(p)
    <2>1. AlreadyPromoted(p, candidate[job[p].candidate]) /\ candidate[job[p].candidate].status = "PROMOTED"
      BY <1>3, <1>4, <1>6 DEF ApplyDecide
    <2> QED
      BY <1>1, <2>1, AlreadyTruth
  <1>7. CASE PromoteCommit(p) \/ ApplyCommit(p)
    <2>1. job[p].company # NoCompany => job[p].company \in At(HostOf[job[p].candidate])
      BY <1>7 DEF PromoteCommit, ApplyCommit, IInv, ProcessInv, PromoterInformed
    <2> QED
      BY <1>1, <1>7, <2>1, PromoteTruth DEF PromoteCommit, ApplyCommit
  <1>8. ~DatabaseError(p)
    BY <1>3 DEF DatabaseError
  <1>9. ~Crash(p)
    BY <1>1 DEF Crash, Goto, IInv, TypeOK
  <1> QED
    BY <1>1, <1>5, <1>6, <1>7, <1>8, <1>9, PromotingSteps

(* Whoever is told that a candidate has a company is told the truth: the   *)
(* company exists, is of the candidate's host, and is linked to it.        *)
THEOREM AnswersAreHonest == Spec => PromotionHonest
  <1>1. ASSUME IInv, [Next]_vars, NEW p \in Procs, Answering(p), job'[p].answer \in {"ok", "reused", "already"}
        PROVE  Truth(p, job[p].candidate)
    <2>1. ~UNCHANGED vars
      BY <1>1 DEF vars, Answering, PromotingLabels
    <2>2. PICK q \in Procs : ProcessNext(q)
      BY <1>1, <2>1 DEF Next, ProcessNext
    <2>3. q = p
      BY <1>1, <2>2, OwnPlace DEF Answering, PromotingLabels
    <2> QED
      BY <1>1, <2>2, <2>3, HonestStep
  <1>2. IInv /\ [Next]_vars =>
            [\A p \in Procs : Answering(p) /\ job'[p].answer \in {"ok", "reused", "already"} =>
                 LET c == job[p].candidate
                     k == job'[p].company
                 IN  /\ candidate'[c].status = "PROMOTED" /\ candidate'[c].company = k
                     /\ k \in Live' /\ company'[k].host = HostOf[c]]_vars
    BY <1>1 DEF Truth
  <1> QED
    BY <1>2, Invariant, PTL DEF Spec, PromotionHonest

-----------------------------------------------------------------------------
(* The ledger. *)

links == [c \in Candidates |-> candidate[c].company]
places == [k \in Live |-> company[k].host]

LEMMA SameLedger ==
  ASSUME \A c \in Candidates : candidate'[c].company = candidate[c].company,
         \A k \in Companies : company'[k] = company[k]
  PROVE  UNCHANGED <<links, places>>
  <1>1. Live' = Live
    BY DEF Live
  <1> QED
    BY <1>1 DEF links, places, Live

LEMMA LedgerInit == Init => Ledger!LedgerInit
  <1> SUFFICES ASSUME Init
               PROVE  Ledger!LedgerInit
    OBVIOUS
  <1>1. Live = {}
    BY DEF Init, Live, NoCompanyRow
  <1>2. links = [c \in Candidates |-> NoCompany]
    BY DEF Init, NoCandidateRow, links
  <1> QED
    BY <1>1, <1>2 DEF Ledger!LedgerInit, links

LEMMA StagedLinks ==
  ASSUME IInv, NEW p \in Procs, StageCommit(p) \/ ReviewWrite(p)
  PROVE  UNCHANGED <<links, places>>
  <1>1. company' = company
    BY DEF StageCommit, ReviewWrite
  <1>2. ASSUME NEW c \in Candidates
        PROVE  candidate'[c].company = candidate[c].company
    <2>1. candidate[c] \in CandidateRow /\ (candidate[c].status = "ABSENT" => candidate[c] = NoCandidateRow)
      BY DEF IInv, TypeOK, CandidatesInv
    <2>2. CASE StageCommit(p)
      <3>1. PICK r \in Runs, found \in SUBSET Candidates : \E learnt \in Findings(found) :
                candidate' = [d \in Candidates |->
                       IF d \in found THEN Upsert(candidate[d], r, learnt[d]) ELSE candidate[d]]
        BY Zenon, <2>2 DEF StageCommit
      <3>2. PICK learnt \in Findings(found) :
                candidate' = [d \in Candidates |->
                       IF d \in found THEN Upsert(candidate[d], r, learnt[d]) ELSE candidate[d]]
        BY Zenon, <3>1
      <3>3. c \in found => learnt[c] \in SUBSET Fields
        BY DEF Findings
      <3> QED
        BY <2>1, <3>2, <3>3, UpsertRow
    <2>3. CASE ReviewWrite(p)
      BY <2>1, <2>3 DEF ReviewWrite, IInv, TypeOK, CandidateRow
    <2> QED
      BY <2>2, <2>3
  <1> QED
    BY <1>1, <1>2, SameLedger

(* A promotion attaches the candidate to a company of its host, or to the  *)
(* first one there.                                                        *)
LEMMA PromotedLedger ==
  ASSUME IInv, NEW p \in Procs, NEW c \in Candidates, candidate[c].company = NoCompany,
         IF job[p].company = NoCompany THEN At(HostOf[c]) = {} ELSE job[p].company \in At(HostOf[c]),
         PromoteInto(p, c)
  PROVE  Ledger!LedgerNext
  <1>1. candidate \in [Candidates -> CandidateRow] /\ company \in [Companies -> CompanyRow]
    BY DEF IInv, TypeOK
  <1>2. ASSUME NEW k \in Companies, Link(c, k)
        PROVE  Ledger!Attach(c, k)
    <2>1. \A d \in Candidates : candidate'[d].company = IF d = c THEN k ELSE candidate[d].company
      BY <1>1, <1>2 DEF Link, CandidateRow
    <2>2. links' = [links EXCEPT ![c] = k] /\ links[c] = NoCompany
      BY <2>1 DEF links
    <2> QED
      BY <2>2 DEF Ledger!Attach, links
  <1>3. ASSUME NEW k \in At(HostOf[c]), Link(c, k), UNCHANGED company
        PROVE  Ledger!PromoteInto(c, k)
    <2>1. k \in Live /\ HostOf[c] # NoHost /\ company[k].host = HostOf[c]
      BY <1>3 DEF At
    <2>2. places' = places
      BY <1>3 DEF places, Live
    <2> QED
      BY <1>2, <1>3, <2>1, <2>2 DEF Live, Ledger!PromoteInto, Ledger!Existing, places
  <1>4. ASSUME At(HostOf[c]) = {}, PromoteNew(p, c)
        PROVE  \E k \in Companies : Ledger!PromoteNew(c, k)
    <2>1. PICK k \in Companies :
              /\ IsNextCompany(k)
              /\ company' = [company EXCEPT ![k] = [live |-> TRUE, host |-> HostOf[c],
                                                    known |-> candidate[c].known]]
              /\ Link(c, k)
      BY <1>4 DEF PromoteNew
    <2>2. k \notin Live /\ Live' = Live \union {k}
      BY <1>1, <2>1 DEF IsNextCompany, Live
    <2>3. places' = [j \in Live \union {k} |-> IF j = k THEN HostOf[c] ELSE places[j]]
      BY <1>1, <2>1, <2>2 DEF places, Live
    <2>4. HostOf[c] = NoHost \/ \A j \in Live : places[j] # HostOf[c]
      BY <1>4 DEF At, places
    <2>5. DOMAIN places = Live
      BY DEF places
    <2> QED
      BY <1>2, <2>1, <2>2, <2>3, <2>4, <2>5
         DEF Ledger!PromoteNew, Ledger!Add, Ledger!Existing, places
  <1> QED
    BY <1>3, <1>4 DEF PromoteInto, PromoteExisting, At, Live, Ledger!LedgerNext

LEMMA CreatedLedger ==
  ASSUME IInv, NEW p \in Procs, Create(p)
  PROVE  Ledger!LedgerNext
  <1>1. company \in [Companies -> CompanyRow] /\ job[p].host \in Hosts \union {NoHost}
    BY DEF IInv, TypeOK, Job
  <1>2. PICK k \in Companies, known \in SUBSET Fields :
            /\ IsNextCompany(k)
            /\ company' = [company EXCEPT ![k] = [live |-> TRUE, host |-> job[p].host, known |-> known]]
    BY DEF Create
  <1>3. k \notin Live /\ Live' = Live \union {k}
    BY <1>1, <1>2 DEF IsNextCompany, Live
  <1>4. places' = [j \in Live \union {k} |-> IF j = k THEN job[p].host ELSE places[j]]
    BY <1>1, <1>2, <1>3 DEF places, Live
  <1>5. DOMAIN places = Live
    BY DEF places
  <1>6. links' = links
    BY DEF Create, links
  <1> QED
    BY <1>1, <1>3, <1>4, <1>5, <1>6
       DEF Ledger!LedgerNext, Ledger!CreateByHand, Ledger!Add, Ledger!Existing, places, links

LEMMA DeletedLedger ==
  ASSUME IInv, NEW p \in Procs, DeleteWrite(p)
  PROVE  Ledger!LedgerNext \/ UNCHANGED <<links, places>>
  <1> DEFINE k == job[p].company
  <1>1. k \in Companies /\ company \in [Companies -> CompanyRow]
    BY DEF DeleteWrite, IInv, TypeOK, ProcessInv, CompanyNamed, DeleteLabels
  <1>2. company' = [company EXCEPT ![k] = NoCompanyRow]
    BY DEF DeleteWrite
  <1>3. links' = [c \in Candidates |-> IF links[c] = k THEN NoCompany ELSE links[c]]
    BY DeleteFact DEF links
  <1>4. Live' = Live \ {k} /\ places' = [j \in Live \ {k} |-> places[j]]
    <2>1. Live' = Live \ {k}
      BY <1>1, <1>2 DEF Live, NoCompanyRow
    <2> QED
      BY <1>1, <1>2, <2>1 DEF places, Live
  <1>5. CASE k \in Live
    <2>1. DOMAIN places = Live
      BY DEF places
    <2> QED
      BY <1>1, <1>3, <1>4, <1>5, <2>1
         DEF Ledger!LedgerNext, Ledger!Delete, Ledger!Existing, places, links
  <1>6. CASE k \notin Live
    <2>1. \A c \in Candidates : candidate[c].company = k => k = NoCompany
      BY <1>1, <1>6 DEF IInv, CandidatesInv, Live
    <2>2. links' = links
      BY <1>3, <2>1 DEF links
    <2>3. Live \ {k} = Live
      BY <1>6
    <2>4. places' = places
      BY <1>4, <2>3 DEF places
    <2> QED
      BY <2>2, <2>4
  <1> QED
    BY <1>5, <1>6

LEMMA LedgerStep ==
  ASSUME IInv, [Next]_vars
  PROVE  Ledger!LedgerNext \/ UNCHANGED <<links, places>>
  <1>1. CASE UNCHANGED <<candidate, company>>
    BY <1>1, SameLedger
  <1>2. ASSUME NEW p \in Procs, Commit(p)
        PROVE  Ledger!LedgerNext \/ UNCHANGED <<links, places>>
    <2>1. CASE PromoteCommit(p) \/ ApplyCommit(p)
      <3>1. /\ job[p].candidate \in Candidates
            /\ candidate[job[p].candidate].company = NoCompany
            /\ IF job[p].company = NoCompany THEN At(HostOf[job[p].candidate]) = {}
               ELSE job[p].company \in At(HostOf[job[p].candidate])
            /\ PromoteInto(p, job[p].candidate)
        BY <2>1 DEF PromoteCommit, ApplyCommit, IInv, ProcessInv, PromoterInformed, PromoteLabels, ApplyLabels
      <3> QED
        BY <3>1, PromotedLedger
    <2> QED
      BY <1>2, <2>1, StagedLinks, CreatedLedger, DeletedLedger DEF Commit
  <1>3. ~UNCHANGED <<candidate, company>> => \E p \in Procs : Commit(p)
    BY QuietOrCommit DEF Next, vars, ProcessNext
  <1> QED
    BY <1>1, <1>2, <1>3

(* The commands implement the ledger: no candidate with a company is       *)
(* linked again, and no promotion makes a second company for a host.       *)
THEOREM PromotionsAreLedger == Spec => ImplementsLedger
  <1>1. Init => Ledger!LedgerInit
    BY LedgerInit
  <1>2. IInv /\ [Next]_vars => [Ledger!LedgerNext]_<<links, places>>
    BY LedgerStep
  <1> QED
    BY <1>1, <1>2, Invariant, PTL DEF Spec, ImplementsLedger, Ledger!LedgerSpec, links, places
=============================================================================
