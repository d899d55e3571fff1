-------------------------- MODULE CandidatesProof --------------------------
(***************************************************************************)
(* The proof that IInv is an invariant of CompanyCandidates.  Quiet steps  *)
(* commit nothing and have only their own process to look at (QuietStep).  *)
(* The others commit while nobody else is inside a transaction; each has a *)
(* lemma of its own.                                                       *)
(***************************************************************************)
EXTENDS CompanyCandidates, TLAPS

-----------------------------------------------------------------------------
(* Types. *)

LEMMA NoJobType == NoJob \in Job
  BY DEF NoJob, Job, NoOffer, Offer, CandidateStatus, Answers

LEMMA NoRowsType == NoCandidateRow \in CandidateRow /\ NoCompanyRow \in CompanyRow /\ NoOffer \in Offer
  BY DEF NoCandidateRow, CandidateRow, CandidateStatus, NoCompanyRow, CompanyRow, NoOffer, Offer

LEMMA LabelTypes ==
  /\ DatabaseLabels \subseteq Labels /\ NetworkLabels \subseteq Labels
  /\ LockedLabels \subseteq DatabaseLabels
  /\ "idle" \in Labels /\ "done" \in Labels
  BY DEF Labels, DatabaseLabels

LEMMA InitType == Init => TypeOK
  <1> SUFFICES ASSUME Init
               PROVE  TypeOK
    OBVIOUS
  <1>1. candidate \in [Candidates -> CandidateRow] /\ company \in [Companies -> CompanyRow]
    BY NoRowsType DEF Init
  <1>2. handoff \in [Runs -> Offer] /\ job \in [Procs -> Job]
    BY NoRowsType, NoJobType DEF Init
  <1>3. pc \in [Procs -> Labels]
    BY LabelTypes DEF Init
  <1> QED
    BY <1>1, <1>2, <1>3 DEF Init, TypeOK, RunStatus

(* What a process remembers once it has answered.                          *)
LEMMA AnswerType ==
  ASSUME NEW a \in Answers, NEW k \in Companies \union {NoCompany}
  PROVE  [NoJob EXCEPT !.answer = a, !.company = k] \in Job
  BY NoJobType DEF Job

-----------------------------------------------------------------------------
(* Quiet steps. *)

(* A quiet step of p leaves every other process what it relies on; it may  *)
(* take the lock if it is free, or give it back.                           *)
LEMMA QuietOther ==
  ASSUME IInv, NEW p \in Procs, NEW q \in Procs, q # p,
         UNCHANGED <<candidate, run, company>>, pc'[q] = pc[q], job'[q] = job[q],
         \/ writer' = writer
         \/ writer \in {NoProc, p} /\ writer' \in {NoProc, p}
  PROVE  ProcessInv(q)'
  <1>1. ProcessInv(q)
    BY DEF IInv
  <1>2. LockHeld(q)'
    BY <1>1, NoProcAssumption DEF ProcessInv, LockHeld
  <1>3. PlannerInformed(q)'
    BY <1>1 DEF ProcessInv, PlannerInformed, StillAsOffered
  <1>4. PromoterInformed(q)' /\ SearchBlank(q)' /\ CompanyNamed(q)'
    BY <1>1 DEF ProcessInv, PromoterInformed, SearchBlank, CompanyNamed, At, Live
  <1> QED
    BY <1>2, <1>3, <1>4 DEF ProcessInv

(* Nor does a commit that blanks no row, forgets no run, and leaves what   *)
(* was offered as it was, unless it marks it as seen by another run.       *)
LEMMA CommitOther ==
  ASSUME IInv, NEW p \in Procs, NEW q \in Procs, q # p,
         writer \in {NoProc, p}, writer' = NoProc, pc'[q] = pc[q], job'[q] = job[q],
         \A r \in Runs : run[r] # "ABSENT" => run'[r] # "ABSENT",
         \A c \in Candidates : candidate[c].status # "ABSENT" => candidate'[c].status # "ABSENT",
         \A o \in Offer, r \in Runs : run[r] # "ABSENT" /\ StillAsOffered(o, r) => StillAsOffered(o, r)'
  PROVE  ProcessInv(q)'
  <1>1. ProcessInv(q) /\ job[q] \in Job
    BY DEF IInv, TypeOK
  <1>2. pc[q] \notin LockedLabels /\ writer' # q
    BY <1>1, NoProcAssumption DEF ProcessInv, LockHeld
  <1>3. LockHeld(q)'
    BY <1>2 DEF LockHeld
  <1>4. PlannerInformed(q)'
    <2> SUFFICES ASSUME pc[q] \in PlanLabels
                 PROVE  PlannerInformed(q)'
      BY DEF PlannerInformed
    <2>1. \A o \in job[q].offers \union {job[q].chosen} : o \in Offer
      BY <1>1 DEF Job
    <2>2. /\ job[q].run \in Runs /\ run[job[q].run] # "ABSENT"
          /\ \A o \in job[q].offers \union {job[q].chosen} : StillAsOffered(o, job[q].run)
          /\ \A o \in job[q].offers : o.candidate \in Candidates
          /\ pc[q] = "plan_resolve" => job[q].chosen.candidate \in Candidates
      BY <1>1 DEF ProcessInv, PlannerInformed
    <2>3. \A o \in job[q].offers \union {job[q].chosen} : StillAsOffered(o, job[q].run)'
      BY <2>1, <2>2
    <2> QED
      BY <2>2, <2>3 DEF PlannerInformed, StillAsOffered
  <1>5. PromoterInformed(q)'
    BY <1>1, <1>2 DEF ProcessInv, PromoterInformed, LockedLabels, ReviewLabels
  <1>6. SearchBlank(q)' /\ CompanyNamed(q)'
    BY <1>1 DEF ProcessInv, SearchBlank, CompanyNamed
  <1> QED
    BY <1>3, <1>4, <1>5, <1>6 DEF ProcessInv

LEMMA QuietStep ==
  ASSUME IInv, NEW p \in Procs, NEW label \in Labels, NEW j \in Job,
         UNCHANGED tables,
         pc' = [pc EXCEPT ![p] = label], job' = [job EXCEPT ![p] = j],
         \/ writer' = writer
         \/ writer \in {NoProc, p} /\ writer' \in {NoProc, p},
         ProcessInv(p)'
  PROVE  IInv'
  <1>1. TypeOK'
    BY DEF IInv, TypeOK, tables
  <1>2. CandidatesInv' /\ RunsInv'
    BY DEF IInv, CandidatesInv, RunsInv, StillAsOffered, tables
  <1>3. \A q \in Procs : ProcessInv(q)'
    <2> TAKE q \in Procs
    <2>1. CASE q = p
      BY <2>1
    <2>2. CASE q # p
      <3>1. pc'[q] = pc[q] /\ job'[q] = job[q]
        BY <2>2 DEF IInv, TypeOK
      <3> QED
        BY <2>2, <3>1, QuietOther DEF tables
    <2> QED
      BY <2>1, <2>2
  <1> QED
    BY <1>1, <1>2, <1>3 DEF IInv

(* A process that is idle or done relies on nothing.                       *)
LEMMA RestingInv ==
  ASSUME NEW p \in Procs, pc[p] \in {"idle", "done"}, writer # p
  PROVE  ProcessInv(p)
  BY DEF ProcessInv, LockHeld, PlannerInformed, PromoterInformed, SearchBlank, CompanyNamed, LockedLabels,
         StageLabels, PlanLabels, PromoteLabels, ApplyLabels, ReviewLabels, DeleteLabels

(* An answer that commits nothing, and giving up.                          *)
LEMMA AnswerInv ==
  ASSUME IInv, NEW p \in Procs, NEW a \in Answers, NEW k \in Companies \union {NoCompany},
         Answer(p, a, k), GiveLock(p), UNCHANGED tables
  PROVE  IInv'
  <1> DEFINE j == [NoJob EXCEPT !.answer = a, !.company = k]
  <1>1. j \in Job
    BY AnswerType
  <1>2. pc' = [pc EXCEPT ![p] = "done"] /\ job' = [job EXCEPT ![p] = j]
    BY DEF Answer, Goto
  <1>3. pc'[p] = "done" /\ writer' # p
    BY <1>2, NoProcAssumption DEF IInv, TypeOK, GiveLock
  <1>4. ProcessInv(p)'
    BY <1>3 DEF ProcessInv, LockHeld, PlannerInformed, PromoterInformed, SearchBlank, CompanyNamed,
       LockedLabels, StageLabels, PlanLabels, PromoteLabels, ApplyLabels, ReviewLabels, DeleteLabels
  <1>5. \/ writer' = writer
        \/ writer \in {NoProc, p} /\ writer' \in {NoProc, p}
    BY DEF GiveLock
  <1> QED
    <2> HIDE DEF j
    <2> QED
      BY Zenon, <1>1, <1>2, <1>4, <1>5, QuietStep, LabelTypes

LEMMA FailInv ==
  ASSUME IInv, NEW p \in Procs, NEW a \in Answers, Fail(p, a)
  PROVE  IInv'
  BY AnswerInv DEF Fail

(* A step that only moves the process, one that takes the lock, one that   *)
(* keeps what it read, one that begins a command.                          *)
LEMMA StepInv ==
  ASSUME IInv, NEW p \in Procs, NEW label \in Labels, Step(p, label),
         pc'[p] = label /\ job'[p] = job[p] => ProcessInv(p)'
  PROVE  IInv'
  <1>1. pc' = [pc EXCEPT ![p] = label] /\ job' = [job EXCEPT ![p] = job[p]]
    BY DEF Step, Goto, IInv, TypeOK
  <1>2. job[p] \in Job /\ pc'[p] = label /\ job'[p] = job[p]
    BY <1>1 DEF IInv, TypeOK
  <1> QED
    BY Zenon, <1>1, <1>2, QuietStep DEF Step

LEMMA LockInv ==
  ASSUME IInv, NEW p \in Procs, NEW label \in Labels, Lock(p, label),
         pc'[p] = label /\ job'[p] = job[p] => ProcessInv(p)'
  PROVE  IInv'
  <1>1. pc' = [pc EXCEPT ![p] = label] /\ job' = [job EXCEPT ![p] = job[p]]
    BY DEF Lock, Goto, IInv, TypeOK
  <1>2. job[p] \in Job /\ pc'[p] = label /\ job'[p] = job[p]
    BY <1>1 DEF IInv, TypeOK
  <1>3. writer \in {NoProc, p} /\ writer' \in {NoProc, p}
    BY DEF Lock, TakeLock
  <1> QED
    BY Zenon, <1>1, <1>2, <1>3, QuietStep DEF Lock

LEMMA KeepInv ==
  ASSUME IInv, NEW p \in Procs, NEW label \in Labels, NEW j \in Job,
         Goto(p, label), job' = [job EXCEPT ![p] = j], UNCHANGED <<tables, writer>>,
         pc'[p] = label /\ job'[p] = j => ProcessInv(p)'
  PROVE  IInv'
  <1>1. pc' = [pc EXCEPT ![p] = label]
    BY DEF Goto
  <1>2. pc'[p] = label /\ job'[p] = j
    BY <1>1 DEF IInv, TypeOK
  <1> QED
    BY Zenon, <1>1, <1>2, QuietStep

LEMMA BeginInv ==
  ASSUME IInv, NEW p \in Procs, NEW command, NEW label \in Labels \ LockedLabels, NEW args \in Job,
         Begin(p, command, label, args),
         pc'[p] = label /\ job'[p] = [args EXCEPT !.command = command] =>
             PlannerInformed(p)' /\ PromoterInformed(p)' /\ SearchBlank(p)' /\ CompanyNamed(p)'
  PROVE  IInv'
  <1> DEFINE j == [args EXCEPT !.command = command]
  <1>1. j \in Job
    BY DEF Begin, Job
  <1>2. Goto(p, label) /\ job' = [job EXCEPT ![p] = j] /\ UNCHANGED <<tables, writer>>
    BY DEF Begin
  <1>3. pc'[p] = label /\ job'[p] = j
    BY <1>2 DEF Goto, IInv, TypeOK
  <1>4. LockHeld(p)'
    BY <1>2, <1>3 DEF Begin, IInv, ProcessInv, LockHeld, LockedLabels
  <1>5. ProcessInv(p)'
    BY <1>3, <1>4 DEF ProcessInv
  <1> QED
    <2> HIDE DEF j
    <2> QED
      BY Zenon, <1>1, <1>2, <1>5, KeepInv

-----------------------------------------------------------------------------
(* Processes. *)

LEMMA ProcessStepInv ==
  ASSUME IInv, NEW p \in Procs, ProcessStep(p)
  PROVE  IInv'
  <1>1. CASE Exit(p)
    <2>1. writer # p
      BY <1>1 DEF Exit, IInv, ProcessInv, LockHeld, LockedLabels
    <2>2. pc'[p] = "idle" => ProcessInv(p)'
      BY <1>1, <2>1, RestingInv DEF Exit, ProcessInv, LockHeld, PlannerInformed, PromoterInformed,
         SearchBlank, CompanyNamed, LockedLabels, StageLabels, PlanLabels, PromoteLabels, ApplyLabels, ReviewLabels, DeleteLabels
    <2> QED
      BY Zenon, <1>1, <2>2, KeepInv, NoJobType, LabelTypes DEF Exit
  <1>2. CASE DatabaseError(p)
    <2>1. "persistence" \in Answers
      BY DEF Answers
    <2> QED
      BY <1>2, <2>1, FailInv DEF DatabaseError
  <1>3. CASE Crash(p)
    <2>1. pc' = [pc EXCEPT ![p] = "idle"] /\ pc'[p] = "idle" /\ writer' # p
      BY <1>3, NoProcAssumption DEF Crash, Goto, GiveLock, IInv, TypeOK
    <2>2. ProcessInv(p)'
      BY <2>1 DEF ProcessInv, LockHeld, PlannerInformed, PromoterInformed,
         SearchBlank, CompanyNamed, LockedLabels, StageLabels, PlanLabels, PromoteLabels, ApplyLabels, ReviewLabels, DeleteLabels
    <2>3. job' = [job EXCEPT ![p] = NoJob] /\ UNCHANGED tables
      BY <1>3 DEF Crash
    <2>4. \/ writer' = writer
          \/ writer \in {NoProc, p} /\ writer' \in {NoProc, p}
      BY <1>3 DEF Crash, GiveLock
    <2> QED
      BY Zenon, <2>1, <2>2, <2>3, <2>4, QuietStep, NoJobType, LabelTypes
  <1> QED
    BY <1>1, <1>2, <1>3 DEF ProcessStep

-----------------------------------------------------------------------------
(* Staging. *)

LEMMA StagingQuietInv ==
  ASSUME IInv, NEW p \in Procs, StageStart(p) \/ Search(p) \/ StageLock(p)
  PROVE  IInv'
  <1> USE DEF LockHeld, PlannerInformed, PromoterInformed, SearchBlank, CompanyNamed, LockedLabels, StageLabels, PlanLabels,
              PromoteLabels, ApplyLabels, ReviewLabels, DeleteLabels
  <1>1. CASE StageStart(p)
    <2>1. PICK command \in {"stage", "plan", "recover"} : Begin(p, command, "search", NoJob)
      BY <1>1 DEF StageStart
    <2>2. "search" \in Labels \ LockedLabels
      BY DEF Labels, NetworkLabels
    <2>3. [NoJob EXCEPT !.command = command].offers = {} /\ [NoJob EXCEPT !.command = command].chosen = NoOffer
      BY DEF NoJob
    <2> HIDE DEF LockedLabels
    <2> QED
      BY <2>1, <2>2, <2>3, BeginInv, NoJobType
  <1>2. CASE Search(p)
    <2>1. "stage_lock" \in Labels
      BY DEF Labels, DatabaseLabels
    <2>2. pc'[p] = "stage_lock" => ProcessInv(p)'
      BY <1>2 DEF Search, Step, IInv, ProcessInv
    <2> QED
      BY <1>2, <2>1, <2>2, StepInv DEF Search
  <1>3. CASE StageLock(p)
    <2>1. "stage_commit" \in Labels
      BY DEF Labels, DatabaseLabels
    <2>2. pc'[p] = "stage_commit" => ProcessInv(p)'
      BY <1>3 DEF StageLock, Lock, TakeLock, IInv, ProcessInv
    <2> QED
      BY <1>3, <2>1, <2>2, LockInv DEF StageLock
  <1> QED
    BY <1>1, <1>2, <1>3

(* What an upsert makes of a row.                                          *)
LEMMA UpsertRow ==
  ASSUME NEW row \in CandidateRow, NEW r \in Runs, NEW learnt \in SUBSET Fields,
         row.status = "ABSENT" => row = NoCandidateRow
  PROVE  /\ Upsert(row, r, learnt) \in CandidateRow
         /\ Upsert(row, r, learnt).status # "ABSENT"
         /\ Upsert(row, r, learnt).status = "DISCOVERED" => row.status \in {"ABSENT", "DISCOVERED"}
         /\ Upsert(row, r, learnt).company = row.company
         /\ Upsert(row, r, learnt).seenIn = r
  <1>1. CASE row.status = "ABSENT"
    BY <1>1 DEF Upsert, CandidateRow, CandidateStatus, NoCandidateRow
  <1>2. CASE row.status # "ABSENT"
    BY <1>2 DEF Upsert, CandidateRow, CandidateStatus
  <1> QED
    BY <1>1, <1>2

LEMMA StageCommitInv ==
  ASSUME IInv, NEW p \in Procs, StageCommit(p)
  PROVE  IInv'
  <1>1. PICK r \in Runs, found \in SUBSET Candidates : \E learnt \in Findings(found), status \in Outcomes(found) :
            /\ IsNextRun(r)
            /\ run' = [run EXCEPT ![r] = status]
            /\ candidate' = [c \in Candidates |->
                   IF c \in found THEN Upsert(candidate[c], r, learnt[c]) ELSE candidate[c]]
            /\ IF AfterStaging(p, status) = ""
               THEN Goto(p, "plan_list") /\ job' = [job EXCEPT ![p].run = r]
               ELSE Answer(p, AfterStaging(p, status), NoCompany)
    BY Zenon DEF StageCommit
  <1>2. PICK learnt \in Findings(found), status \in Outcomes(found) :
            /\ IsNextRun(r)
            /\ run' = [run EXCEPT ![r] = status]
            /\ candidate' = [c \in Candidates |->
                   IF c \in found THEN Upsert(candidate[c], r, learnt[c]) ELSE candidate[c]]
            /\ IF AfterStaging(p, status) = ""
               THEN Goto(p, "plan_list") /\ job' = [job EXCEPT ![p].run = r]
               ELSE Answer(p, AfterStaging(p, status), NoCompany)
    BY Zenon, <1>1
  <1>3. status \in RunStatus \ {"ABSENT"} /\ run[r] = "ABSENT" /\ r # NoRun
    BY <1>2, RunsAssumption DEF Outcomes, RunStatus, IsNextRun
  <1>4. pc[p] = "stage_commit" /\ writer = p /\ writer' = NoProc
    BY DEF StageCommit, GiveLock, IInv, ProcessInv, LockHeld, LockedLabels
  <1>5. company' = company /\ handoff' = handoff
    BY DEF StageCommit
  <1>6. ASSUME NEW c \in Candidates
        PROVE  /\ candidate'[c] \in CandidateRow
               /\ \/ candidate'[c] = candidate[c]
                  \/ /\ candidate'[c].status # "ABSENT"
                     /\ candidate'[c].status = "DISCOVERED" => candidate[c].status \in {"ABSENT", "DISCOVERED"}
                     /\ candidate'[c].company = candidate[c].company
                     /\ candidate'[c].seenIn = r
    <2>1. candidate[c] \in CandidateRow /\ (candidate[c].status = "ABSENT" => candidate[c] = NoCandidateRow)
      BY DEF IInv, TypeOK, CandidatesInv
    <2>2. CASE c \in found
      <3>1. learnt[c] \in SUBSET Fields
        BY <2>2 DEF Findings
      <3>2. candidate'[c] = Upsert(candidate[c], r, learnt[c])
        BY <1>2, <2>2
      <3> QED
        BY <2>1, <3>1, <3>2, UpsertRow
    <2>3. CASE c \notin found
      BY <1>2, <2>1, <2>3
    <2> QED
      BY <2>2, <2>3
  <1>7. CandidatesInv'
    <2> SUFFICES ASSUME NEW c \in Candidates
                 PROVE  /\ candidate'[c].status = "ABSENT" => candidate'[c] = NoCandidateRow
                        /\ candidate'[c].status = "DISCOVERED" => candidate'[c].company = NoCompany
                        /\ candidate'[c].company # NoCompany =>
                               /\ company'[candidate'[c].company].live
                               /\ company'[candidate'[c].company].host = HostOf[c]
      BY Zenon DEF CandidatesInv
    <2>1. /\ candidate[c].status = "ABSENT" => candidate[c] = NoCandidateRow
          /\ candidate[c].status = "DISCOVERED" => candidate[c].company = NoCompany
          /\ candidate[c].company # NoCompany => /\ company[candidate[c].company].live
                                                 /\ company[candidate[c].company].host = HostOf[c]
      BY DEF IInv, CandidatesInv
    <2>2. NoCandidateRow.company = NoCompany
      BY DEF NoCandidateRow
    <2> QED
      BY <1>5, <1>6, <2>1, <2>2
  <1>8. \A other \in Runs : run[other] # "ABSENT" => run'[other] # "ABSENT" /\ other # r
    BY <1>2, <1>3 DEF IInv, TypeOK
  <1>9. \A o \in Offer, other \in Runs : StillAsOffered(o, other) /\ other # r => StillAsOffered(o, other)'
    BY <1>6 DEF StillAsOffered
  <1>10. RunsInv'
    <2>1. run'[r] # "ABSENT"
      BY <1>2, <1>3 DEF IInv, TypeOK
    <2>2. ASSUME NEW c \in Candidates, candidate'[c].seenIn # NoRun
          PROVE  run'[candidate'[c].seenIn] # "ABSENT"
      BY <1>6, <1>8, <2>1, <2>2 DEF IInv, RunsInv, TypeOK, CandidateRow
    <2>3. ASSUME NEW other \in Runs
          PROVE  /\ run'[other] = "ABSENT" => handoff'[other] = NoOffer
                 /\ StillAsOffered(handoff[other], other)'
      <3>1. CASE other = r
        <4>1. handoff[r] = NoOffer
          BY <1>3 DEF IInv, RunsInv
        <4> QED
          BY <1>5, <2>1, <3>1, <4>1, NoCandidateAssumption DEF StillAsOffered, NoOffer
      <3>2. CASE other # r
        <4>1. run'[other] = run[other] /\ handoff[other] \in Offer
          BY <1>2, <3>2 DEF IInv, TypeOK
        <4>2. (run[other] = "ABSENT" => handoff[other] = NoOffer) /\ StillAsOffered(handoff[other], other)
          BY DEF IInv, RunsInv
        <4> QED
          BY <1>5, <1>9, <3>2, <4>1, <4>2
      <3> QED
        BY <3>1, <3>2
    <2> QED
      BY <1>5, <2>2, <2>3 DEF RunsInv, StillAsOffered
  <1>11. AfterStaging(p, status) \in Answers
    BY DEF AfterStaging, Answers
  <1>12. pc'[p] \in {"plan_list", "done"} /\ TypeOK'
    <2>1. pc' \in [Procs -> Labels] /\ pc'[p] \in {"plan_list", "done"}
      BY <1>2 DEF Goto, Answer, IInv, TypeOK, Labels, DatabaseLabels
    <2>2. job' \in [Procs -> Job]
      <3>1. [job[p] EXCEPT !.run = r] \in Job
        BY DEF IInv, TypeOK, Job
      <3>2. [NoJob EXCEPT !.answer = AfterStaging(p, status), !.company = NoCompany] \in Job
        BY <1>11, AnswerType
      <3> QED
        BY <1>2, <3>1, <3>2 DEF Answer, IInv, TypeOK
    <2>3. candidate' \in [Candidates -> CandidateRow] /\ run' \in [Runs -> RunStatus]
      BY <1>2, <1>3, <1>6 DEF IInv, TypeOK
    <2> QED
      BY <1>4, <1>5, <2>1, <2>2, <2>3 DEF IInv, TypeOK
  <1>13. \A q \in Procs : ProcessInv(q)'
    <2> TAKE q \in Procs
    <2>1. CASE q = p
      <3>1. CASE pc'[p] = "plan_list"
        <4>1. job'[p].run = r /\ job'[p].offers = {} /\ job'[p].chosen = NoOffer
          <5>1. AfterStaging(p, status) = ""
            BY <1>2, <3>1 DEF Goto, Answer, IInv, TypeOK
          <5>2. job'[p] = [job[p] EXCEPT !.run = r] /\ job[p] \in Job
            BY <1>2, <5>1 DEF IInv, TypeOK
          <5>3. job[p].offers = {} /\ job[p].chosen = NoOffer
            BY <1>4 DEF IInv, ProcessInv, SearchBlank, StageLabels
          <5> QED
            BY <5>2, <5>3 DEF Job
        <4>2. run'[r] # "ABSENT"
          BY <1>2, <1>3 DEF IInv, TypeOK
        <4>3. PlannerInformed(p)'
          BY <3>1, <4>1, <4>2, NoCandidateAssumption DEF PlannerInformed, StillAsOffered, NoOffer
        <4> QED
          BY <1>4, <2>1, <3>1, <4>3, NoProcAssumption DEF ProcessInv, LockHeld, PromoterInformed,
             SearchBlank, CompanyNamed, LockedLabels, StageLabels, PromoteLabels, ApplyLabels,
             ReviewLabels, DeleteLabels
      <3>2. CASE pc'[p] = "done"
        BY <1>4, <2>1, <3>2, NoProcAssumption DEF ProcessInv, LockHeld, PlannerInformed,
           PromoterInformed, SearchBlank, CompanyNamed, LockedLabels, StageLabels, PlanLabels,
           PromoteLabels, ApplyLabels, ReviewLabels, DeleteLabels
      <3> QED
        BY <1>12, <3>1, <3>2
    <2>2. CASE q # p
      <3>1. pc'[q] = pc[q] /\ job'[q] = job[q]
        BY <1>2, <2>2 DEF Goto, Answer, IInv, TypeOK
      <3>2. \A c \in Candidates : candidate[c].status # "ABSENT" => candidate'[c].status # "ABSENT"
        BY <1>6
      <3>3. \A o \in Offer, other \in Runs : run[other] # "ABSENT" /\ StillAsOffered(o, other) => StillAsOffered(o, other)'
        BY <1>8, <1>9
      <3> QED
        BY <1>4, <1>8, <2>2, <3>1, <3>2, <3>3, CommitOther
    <2> QED
      BY <2>1, <2>2
  <1> QED
    BY <1>7, <1>10, <1>12, <1>13 DEF IInv

-----------------------------------------------------------------------------
(* Review and promotion. *)

(* What follows a commit that answers.                                     *)
LEMMA AnsweredType ==
  ASSUME IInv, NEW p \in Procs, NEW a \in Answers, NEW k \in Companies \union {NoCompany},
         Answer(p, a, k), writer' = NoProc
  PROVE  /\ pc' \in [Procs -> Labels] /\ job' \in [Procs -> Job]
         /\ ProcessInv(p)'
         /\ \A q \in Procs : q # p => pc'[q] = pc[q] /\ job'[q] = job[q]
  <1> DEFINE j == [NoJob EXCEPT !.answer = a, !.company = k]
  <1>1. j \in Job
    BY AnswerType
  <1>2. pc' = [pc EXCEPT ![p] = "done"] /\ job' = [job EXCEPT ![p] = j]
    BY DEF Answer, Goto
  <1> HIDE DEF j
  <1>3. pc'[p] = "done" /\ pc' \in [Procs -> Labels] /\ job' \in [Procs -> Job]
    BY <1>1, <1>2, LabelTypes DEF IInv, TypeOK
  <1>4. ProcessInv(p)'
    BY <1>3, NoProcAssumption DEF ProcessInv, LockHeld, PlannerInformed, PromoterInformed,
       SearchBlank, CompanyNamed, LockedLabels, StageLabels, PlanLabels, PromoteLabels,
       ApplyLabels, ReviewLabels, DeleteLabels
  <1> QED
    BY <1>2, <1>3, <1>4 DEF IInv, TypeOK

LEMMA AlreadyInv ==
  ASSUME IInv, NEW p \in Procs, NEW c \in Candidates, AlreadyPromoted(p, candidate[c])
  PROVE  IInv'
  <1>1. candidate[c].company \in Companies \union {NoCompany}
    BY DEF IInv, TypeOK, CandidateRow
  <1>2. "inconsistent" \in Answers /\ "already" \in Answers
    BY DEF Answers
  <1>3. \/ Fail(p, "inconsistent")
        \/ Answer(p, "already", candidate[c].company) /\ GiveLock(p) /\ UNCHANGED tables
    BY DEF AlreadyPromoted
  <1> QED
    BY Zenon, <1>1, <1>2, <1>3, FailInv, AnswerInv

(* A commit that changes the status or the link of one candidate, to a     *)
(* company of its host.                                                    *)
LEMMA CandidateCommitInv ==
  ASSUME IInv, NEW p \in Procs, NEW c \in Candidates, writer \in {NoProc, p}, writer' = NoProc,
         NEW a \in Answers, NEW k \in Companies \union {NoCompany}, Answer(p, a, k),
         run' = run, handoff' = handoff,
         candidate' \in [Candidates -> CandidateRow], company' \in [Companies -> CompanyRow],
         \A d \in Candidates : d # c => candidate'[d] = candidate[d],
         candidate'[c].status \notin {"ABSENT", "DISCOVERED"},
         candidate'[c].known = candidate[c].known,
         candidate'[c].seenIn = candidate[c].seenIn,
         \/ candidate'[c].company = candidate[c].company
         \/ company'[candidate'[c].company].live /\ company'[candidate'[c].company].host = HostOf[c],
         \A j \in Companies : company[j].live => company'[j] = company[j]
  PROVE  IInv'
  <1>1. /\ pc' \in [Procs -> Labels] /\ job' \in [Procs -> Job]
        /\ ProcessInv(p)'
        /\ \A q \in Procs : q # p => pc'[q] = pc[q] /\ job'[q] = job[q]
    BY AnsweredType
  <1>2. TypeOK'
    BY <1>1 DEF IInv, TypeOK
  <1>3. CandidatesInv'
    <2> SUFFICES ASSUME NEW d \in Candidates
                 PROVE  /\ candidate'[d].status = "ABSENT" => candidate'[d] = NoCandidateRow
                        /\ candidate'[d].status = "DISCOVERED" => candidate'[d].company = NoCompany
                        /\ candidate'[d].company # NoCompany =>
                               /\ company'[candidate'[d].company].live
                               /\ company'[candidate'[d].company].host = HostOf[d]
      BY Zenon DEF CandidatesInv
    <2>1. /\ candidate[d].status = "ABSENT" => candidate[d] = NoCandidateRow
          /\ candidate[d].status = "DISCOVERED" => candidate[d].company = NoCompany
          /\ candidate[d].company # NoCompany => /\ company[candidate[d].company].live
                                                 /\ company[candidate[d].company].host = HostOf[d]
          /\ candidate[d].company \in Companies \union {NoCompany}
      BY DEF IInv, CandidatesInv, TypeOK, CandidateRow
    <2> QED
      BY <2>1
  <1>4. \A o \in Offer, r \in Runs : StillAsOffered(o, r) => StillAsOffered(o, r)'
    BY DEF StillAsOffered
  <1>5. RunsInv'
    <2>1. \A d \in Candidates : candidate'[d].seenIn = candidate[d].seenIn
      OBVIOUS
    <2>2. \A r \in Runs : handoff[r] \in Offer
      BY DEF IInv, TypeOK
    <2> QED
      BY <1>4, <2>1, <2>2 DEF IInv, RunsInv, StillAsOffered
  <1>6. \A q \in Procs : ProcessInv(q)'
    <2> TAKE q \in Procs
    <2>1. CASE q = p
      BY <1>1, <2>1
    <2>2. CASE q # p
      <3>1. pc'[q] = pc[q] /\ job'[q] = job[q]
        BY <1>1, <2>2
      <3>2. \A d \in Candidates : candidate[d].status # "ABSENT" => candidate'[d].status # "ABSENT"
        OBVIOUS
      <3> QED
        BY <1>4, <2>2, <3>1, <3>2, CommitOther
    <2> QED
      BY <2>1, <2>2
  <1> QED
    BY <1>2, <1>3, <1>5, <1>6 DEF IInv

(* What a promotion commits.                                               *)
LEMMA PromoteIntoFact ==
  ASSUME IInv, NEW p \in Procs, NEW c \in Candidates, PromoteInto(p, c),
         job[p].company # NoCompany => job[p].company \in At(HostOf[c])
  PROVE  \E k \in Companies, a \in {"ok", "reused"} :
             /\ Answer(p, a, k)
             /\ Link(c, k)
             /\ company'[k].live /\ company'[k].host = HostOf[c]
             /\ company' \in [Companies -> CompanyRow]
             /\ \A j \in Companies : company[j].live => company'[j] = company[j]
  <1>1. CASE PromoteExisting(p, c) /\ job[p].company # NoCompany
    BY <1>1 DEF PromoteExisting, At, Live, IInv, TypeOK
  <1>2. CASE PromoteNew(p, c)
    <2>1. PICK k \in Companies :
              /\ IsNextCompany(k)
              /\ company' = [company EXCEPT ![k] = [live |-> TRUE, host |-> HostOf[c],
                                                    known |-> candidate[c].known]]
              /\ Link(c, k)
              /\ Answer(p, "ok", k)
      BY <1>2 DEF PromoteNew
    <2>2. ~company[k].live
      BY <2>1 DEF IsNextCompany, Live
    <2>3. [live |-> TRUE, host |-> HostOf[c], known |-> candidate[c].known] \in CompanyRow
      BY HostAssumption DEF IInv, TypeOK, CandidateRow, CompanyRow
    <2> QED
      BY <2>1, <2>2, <2>3 DEF IInv, TypeOK
  <1> QED
    BY <1>1, <1>2 DEF PromoteInto

LEMMA PromoteIntoInv ==
  ASSUME IInv, NEW p \in Procs, NEW c \in Candidates, writer = p,
         job[p].company # NoCompany => job[p].company \in At(HostOf[c]),
         PromoteInto(p, c), GiveLock(p), UNCHANGED <<run, handoff>>
  PROVE  IInv'
  <1>1. PICK k \in Companies, a \in {"ok", "reused"} :
             /\ Answer(p, a, k)
             /\ Link(c, k)
             /\ company'[k].live /\ company'[k].host = HostOf[c]
             /\ company' \in [Companies -> CompanyRow]
             /\ \A j \in Companies : company[j].live => company'[j] = company[j]
    BY PromoteIntoFact
  <1>2. a \in Answers
    BY DEF Answers
  <1>3. writer' = NoProc
    BY DEF GiveLock
  <1>4. /\ candidate'[c] = [candidate[c] EXCEPT !.status = "PROMOTED", !.company = k]
        /\ \A d \in Candidates : d # c => candidate'[d] = candidate[d]
        /\ candidate' \in [Candidates -> CandidateRow]
        /\ candidate'[c].status = "PROMOTED" /\ candidate'[c].company = k
        /\ candidate'[c].known = candidate[c].known
        /\ candidate'[c].seenIn = candidate[c].seenIn
    <2>1. candidate \in [Candidates -> CandidateRow] /\ candidate[c] \in CandidateRow
      BY DEF IInv, TypeOK
    <2>2. candidate' = [candidate EXCEPT ![c] = [candidate[c] EXCEPT !.status = "PROMOTED", !.company = k]]
      BY <1>1, <2>1 DEF Link, CandidateRow
    <2>3. [candidate[c] EXCEPT !.status = "PROMOTED", !.company = k] \in CandidateRow
      BY <2>1 DEF CandidateRow, CandidateStatus
    <2> QED
      BY <2>1, <2>2, <2>3 DEF CandidateRow
  <1> QED
    BY <1>1, <1>2, <1>3, <1>4, CandidateCommitInv

LEMMA PromotionStartInv ==
  ASSUME IInv, NEW p \in Procs, NEW c \in Candidates,
         \/ PromoteStart(p, c)
         \/ \E target \in {"REVIEWED", "REJECTED"} : ReviewStart(p, c, target)
  PROVE  IInv'
  <1>1. "review_read" \in Labels \ LockedLabels /\ "promote_lock" \in Labels \ LockedLabels
    BY DEF Labels, DatabaseLabels, LockedLabels
  <1>2. CASE PromoteStart(p, c)
    <2> DEFINE args == [NoJob EXCEPT !.candidate = c]
    <2>1. args \in Job /\ [args EXCEPT !.command = "promote"].candidate = c
      BY NoJobType DEF Job
    <2>2. Begin(p, "promote", "promote_lock", args)
      BY <1>2 DEF PromoteStart
    <2> HIDE DEF args
    <2>3. pc'[p] = "promote_lock" /\ job'[p] = [args EXCEPT !.command = "promote"] =>
              PlannerInformed(p)' /\ PromoterInformed(p)' /\ SearchBlank(p)' /\ CompanyNamed(p)'
      BY <2>1 DEF PlannerInformed, PromoterInformed, SearchBlank, CompanyNamed, StageLabels,
         PlanLabels, PromoteLabels, ApplyLabels, ReviewLabels, DeleteLabels
    <2> QED
      BY Zenon, <1>1, <2>1, <2>2, <2>3, BeginInv
  <1>3. CASE \E target \in {"REVIEWED", "REJECTED"} : ReviewStart(p, c, target)
    <2>1. PICK target \in {"REVIEWED", "REJECTED"} : ReviewStart(p, c, target)
      BY <1>3
    <2> DEFINE args == [NoJob EXCEPT !.candidate = c, !.target = target]
    <2>2. /\ args \in Job
          /\ [args EXCEPT !.command = "review"].candidate = c
          /\ [args EXCEPT !.command = "review"].target = target
      BY NoJobType DEF Job, CandidateStatus
    <2>3. Begin(p, "review", "review_read", args)
      BY <2>1 DEF ReviewStart
    <2> HIDE DEF args
    <2>4. pc'[p] = "review_read" /\ job'[p] = [args EXCEPT !.command = "review"] =>
              PlannerInformed(p)' /\ PromoterInformed(p)' /\ SearchBlank(p)' /\ CompanyNamed(p)'
      BY <2>2 DEF PlannerInformed, PromoterInformed, SearchBlank, CompanyNamed, StageLabels,
         PlanLabels, PromoteLabels, ApplyLabels, ReviewLabels, DeleteLabels
    <2> QED
      BY Zenon, <1>1, <2>2, <2>3, <2>4, BeginInv
  <1> QED
    BY <1>2, <1>3

LEMMA ReviewReadInv ==
  ASSUME IInv, NEW p \in Procs, ReviewRead(p)
  PROVE  IInv'
  <1> DEFINE row == candidate[job[p].candidate]
  <1>1. {"not_found", "transition", "unchanged"} \subseteq Answers
    BY DEF Answers
  <1>2. \/ \E a \in {"not_found", "transition", "unchanged"} : Fail(p, a)
        \/ row.status # "ABSENT" /\ Step(p, "review_write")
    BY DEF ReviewRead
  <1>3. CASE row.status # "ABSENT" /\ Step(p, "review_write")
    <2>1. "review_write" \in Labels
      BY DEF Labels, DatabaseLabels
    <2>2. pc[p] = "review_read" /\ ProcessInv(p)
      BY DEF ReviewRead, IInv
    <2>3. pc'[p] = "review_write" /\ job'[p] = job[p] => ProcessInv(p)'
      BY <1>3, <2>2 DEF Step, tables, ProcessInv, LockHeld, LockedLabels, PlannerInformed,
         PromoterInformed, SearchBlank, CompanyNamed, StageLabels, PlanLabels, PromoteLabels,
         ApplyLabels, ReviewLabels, DeleteLabels
    <2> QED
      BY <1>3, <2>1, <2>3, StepInv
  <1> QED
    BY <1>1, <1>2, <1>3, FailInv

LEMMA ReviewWriteInv ==
  ASSUME IInv, NEW p \in Procs, ReviewWrite(p)
  PROVE  IInv'
  <1> DEFINE c == job[p].candidate
  <1>1. /\ c \in Candidates /\ job[p].target \in {"REVIEWED", "REJECTED"}
        /\ candidate \in [Candidates -> CandidateRow] /\ candidate[c] \in CandidateRow
    BY DEF ReviewWrite, IInv, TypeOK, ProcessInv, PromoterInformed, ReviewLabels
  <1> HIDE DEF c
  <1>2. candidate' = [candidate EXCEPT ![c] = [candidate[c] EXCEPT !.status = job[p].target]]
    BY <1>1 DEF ReviewWrite, c
  <1>3. [candidate[c] EXCEPT !.status = job[p].target] \in CandidateRow
    BY <1>1 DEF CandidateRow, CandidateStatus
  <1>4. /\ candidate' \in [Candidates -> CandidateRow]
        /\ \A d \in Candidates : d # c => candidate'[d] = candidate[d]
        /\ candidate'[c].status = job[p].target
        /\ candidate'[c].company = candidate[c].company
        /\ candidate'[c].known = candidate[c].known
        /\ candidate'[c].seenIn = candidate[c].seenIn
    BY <1>1, <1>2, <1>3 DEF CandidateRow
  <1>5. Answer(p, "ok", NoCompany) /\ "ok" \in Answers /\ writer = NoProc /\ writer' = NoProc
    BY DEF ReviewWrite, WriteAtOnce, Answers
  <1>6. UNCHANGED <<run, company, handoff>> /\ company \in [Companies -> CompanyRow]
    BY DEF ReviewWrite, IInv, TypeOK
  <1> QED
    BY <1>1, <1>4, <1>5, <1>6, CandidateCommitInv

(* The decision to promote, from a row that allows it, keeps what it found. *)
LEMMA LookUpInv ==
  ASSUME IInv, NEW p \in Procs, pc[p] \in {"promote_decide", "apply_decide"},
         NEW label \in {"promote_commit", "apply_commit"},
         label = "apply_commit" =>
             pc[p] = "apply_decide" /\ candidate[job[p].candidate].seenIn = job[p].run,
         candidate[job[p].candidate].status # "ABSENT", candidate[job[p].candidate].company = NoCompany,
         LookUp(p, label, HostOf[job[p].candidate])
  PROVE  IInv'
  <1>1. PICK k \in Companies \union {NoCompany} :
            /\ IF k = NoCompany THEN At(HostOf[job[p].candidate]) = {}
               ELSE k \in At(HostOf[job[p].candidate])
            /\ job' = [job EXCEPT ![p].company = k]
    BY DEF LookUp, IsFirstAt
  <1> DEFINE j == [job[p] EXCEPT !.company = k]
  <1>2. job[p] \in Job /\ ProcessInv(p) /\ job' = [job EXCEPT ![p] = j]
    BY <1>1 DEF IInv, TypeOK
  <1>3. /\ j \in Job /\ j.company = k /\ j.candidate = job[p].candidate /\ j.run = job[p].run
        /\ j.target = job[p].target
    BY <1>2 DEF Job
  <1>4. label \in Labels
    BY DEF Labels, DatabaseLabels, LockedLabels
  <1>5. Goto(p, label) /\ UNCHANGED <<tables, writer>>
    BY DEF LookUp
  <1> HIDE DEF j
  <1>6. pc'[p] = label /\ job'[p] = j => ProcessInv(p)'
    <2> SUFFICES ASSUME pc'[p] = label, job'[p] = j
                 PROVE  ProcessInv(p)'
      OBVIOUS
    <2>1. At(HostOf[job[p].candidate])' = At(HostOf[job[p].candidate])
      BY <1>3, <1>5 DEF At, Live, tables
    <2>2. PromoterInformed(p)'
      BY <1>1, <1>2, <1>3, <1>5, <2>1 DEF ProcessInv, PromoterInformed, PromoteLabels, ApplyLabels,
         ReviewLabels, tables
    <2>3. LockHeld(p)'
      BY <1>2, <1>5 DEF ProcessInv, LockHeld, LockedLabels
    <2> QED
      BY <2>2, <2>3 DEF ProcessInv, PlannerInformed, SearchBlank, CompanyNamed, StageLabels,
         PlanLabels, DeleteLabels
  <1> QED
    BY Zenon, <1>2, <1>3, <1>4, <1>5, <1>6, KeepInv

LEMMA PromoteInv ==
  ASSUME IInv, NEW p \in Procs, PromoteLock(p) \/ PromoteDecide(p) \/ PromoteCommit(p)
  PROVE  IInv'
  <1> USE DEF LockHeld, PlannerInformed, PromoterInformed, SearchBlank, CompanyNamed, LockedLabels,
              StageLabels, PlanLabels, PromoteLabels, ApplyLabels, ReviewLabels, DeleteLabels
  <1>1. CASE PromoteLock(p)
    <2>1. "promote_decide" \in Labels
      BY DEF Labels, DatabaseLabels
    <2>2. pc'[p] = "promote_decide" /\ job'[p] = job[p] => ProcessInv(p)'
      BY <1>1 DEF PromoteLock, Lock, TakeLock, IInv, ProcessInv
    <2> QED
      BY <1>1, <2>1, <2>2, LockInv DEF PromoteLock
  <1>2. CASE PromoteDecide(p)
    <2> DEFINE row == candidate[job[p].candidate]
    <2>1. {"not_found", "ineligible", "inconsistent", "invalid"} \subseteq Answers
      BY DEF Answers
    <2>2. \/ \E a \in {"not_found", "ineligible", "inconsistent", "invalid"} : Fail(p, a)
          \/ AlreadyPromoted(p, row)
          \/ /\ row.status # "ABSENT" /\ row.company = NoCompany
             /\ LookUp(p, "promote_commit", HostOf[job[p].candidate])
      BY <1>2 DEF PromoteDecide
    <2>3. pc[p] = "promote_decide" /\ job[p].candidate \in Candidates /\ ProcessInv(p)
      BY <1>2 DEF PromoteDecide, IInv, ProcessInv
    <2>4. CASE /\ row.status # "ABSENT" /\ row.company = NoCompany
               /\ LookUp(p, "promote_commit", HostOf[job[p].candidate])
      BY <2>3, <2>4, LookUpInv
    <2> QED
      BY <2>1, <2>2, <2>3, <2>4, FailInv, AlreadyInv
  <1>3. CASE PromoteCommit(p)
    <2>1. /\ job[p].candidate \in Candidates /\ writer = p
          /\ job[p].company # NoCompany => job[p].company \in At(HostOf[job[p].candidate])
      BY <1>3 DEF PromoteCommit, IInv, ProcessInv
    <2> QED
      BY <1>3, <2>1, PromoteIntoInv DEF PromoteCommit
  <1> QED
    BY <1>1, <1>2, <1>3

-----------------------------------------------------------------------------
(* The agent. *)

LEMMA OffersFact ==
  ASSUME IInv, NEW r \in Runs, NEW status
  PROVE  \A o \in OffersOf(r, status) :
             o \in Offer /\ o.candidate \in Candidates /\ StillAsOffered(o, r)
  BY DEF OffersOf, OfferOf, Offer, StillAsOffered, IInv, TypeOK, CandidateRow

(* A plan that keeps what it is to offer.                                  *)
LEMMA OfferingInv ==
  ASSUME IInv, NEW p \in Procs, pc[p] \in {"plan_list", "plan_promoted"}, NEW offers \in SUBSET Offer,
         \A o \in offers : o.candidate \in Candidates /\ StillAsOffered(o, job[p].run),
         NEW label \in {"plan_promoted", "plan_decide"}, Goto(p, label),
         job' = [job EXCEPT ![p].offers = offers], UNCHANGED <<tables, writer>>
  PROVE  IInv'
  <1> DEFINE j == [job[p] EXCEPT !.offers = offers]
  <1>1. job[p] \in Job /\ ProcessInv(p)
    BY DEF IInv, TypeOK
  <1>2. j \in Job /\ j.offers = offers /\ j.chosen = job[p].chosen /\ j.run = job[p].run
    BY <1>1 DEF Job
  <1>3. job' = [job EXCEPT ![p] = j]
    BY DEF IInv, TypeOK
  <1>4. label \in Labels
    BY DEF Labels, DatabaseLabels, NetworkLabels
  <1> HIDE DEF j
  <1>5. pc'[p] = label /\ job'[p] = j => ProcessInv(p)'
    <2> SUFFICES ASSUME pc'[p] = label, job'[p] = j
                 PROVE  ProcessInv(p)'
      OBVIOUS
    <2>1. LockHeld(p)'
      BY <1>1 DEF ProcessInv, LockHeld, LockedLabels
    <2>2. PlannerInformed(p)'
      BY <1>1, <1>2 DEF ProcessInv, PlannerInformed, PlanLabels, StillAsOffered, tables
    <2> QED
      BY <2>1, <2>2 DEF ProcessInv, PromoterInformed, SearchBlank, CompanyNamed, StageLabels,
         PromoteLabels, ApplyLabels, ReviewLabels, DeleteLabels
  <1> QED
    BY Zenon, <1>2, <1>3, <1>4, <1>5, KeepInv

LEMMA ShowInv ==
  ASSUME IInv, NEW p \in Procs, pc[p] \in {"plan_list", "plan_promoted"}, NEW offers \in SUBSET Offer,
         \A o \in offers : o.candidate \in Candidates /\ StillAsOffered(o, job[p].run),
         Show(p, offers)
  PROVE  IInv'
  <1>1. {"no_candidates", "selection"} \subseteq Answers
    BY DEF Answers
  <1>2. \/ Fail(p, "no_candidates")
        \/ Fail(p, "selection")
        \/ /\ Goto(p, "plan_decide")
           /\ job' = [job EXCEPT ![p].offers = offers]
           /\ UNCHANGED <<tables, writer>>
    BY DEF Show
  <1> QED
    BY <1>1, <1>2, FailInv, OfferingInv

LEMMA PlanListInv ==
  ASSUME IInv, NEW p \in Procs, PlanList(p) \/ PlanPromoted(p)
  PROVE  IInv'
  <1>1. /\ pc[p] \in {"plan_list", "plan_promoted"}
        /\ job[p].run \in Runs
        /\ \A o \in job[p].offers : o.candidate \in Candidates /\ StillAsOffered(o, job[p].run)
        /\ job[p].offers \in SUBSET Offer
    BY DEF PlanList, PlanPromoted, IInv, TypeOK, Job, ProcessInv, PlannerInformed, PlanLabels
  <1>2. CASE PlanList(p)
    <2> DEFINE offers == OffersOf(job[p].run, "DISCOVERED")
    <2>1. offers \in SUBSET Offer /\ \A o \in offers : o.candidate \in Candidates /\ StillAsOffered(o, job[p].run)
      BY <1>1, OffersFact
    <2>2. \/ Show(p, offers)
          \/ /\ Goto(p, "plan_promoted")
             /\ job' = [job EXCEPT ![p].offers = offers]
             /\ UNCHANGED <<tables, writer>>
      BY <1>2 DEF PlanList
    <2> HIDE DEF offers
    <2> QED
      BY <1>1, <2>1, <2>2, ShowInv, OfferingInv
  <1>3. CASE PlanPromoted(p)
    <2> DEFINE promoted == OffersOf(job[p].run, "PROMOTED")
    <2> DEFINE offers == job[p].offers \union promoted
    <2>1. promoted \in SUBSET Offer /\ \A o \in promoted : o.candidate \in Candidates /\ StillAsOffered(o, job[p].run)
      BY <1>1, OffersFact
    <2>2. Fail(p, "selection") \/ Show(p, offers)
      BY <1>3 DEF PlanPromoted
    <2>3. "selection" \in Answers
      BY DEF Answers
    <2>4. offers \in SUBSET Offer /\ \A o \in offers : o.candidate \in Candidates /\ StillAsOffered(o, job[p].run)
      BY <1>1, <2>1
    <2> HIDE DEF promoted, offers
    <2> QED
      BY <1>1, <2>2, <2>3, <2>4, FailInv, ShowInv
  <1> QED
    BY <1>2, <1>3

(* Printing a handoff touches no table the processes rely on.              *)
LEMMA PrintHandoffInv ==
  ASSUME IInv, NEW p \in Procs, pc[p] \in {"plan_decide", "plan_resolve"}, NEW o \in Offer,
         NEW k \in Companies \union {NoCompany}, StillAsOffered(o, job[p].run), PrintHandoff(p, o, k)
  PROVE  IInv'
  <1>1. job[p].run \in Runs /\ run[job[p].run] # "ABSENT" /\ writer # p
    BY DEF IInv, ProcessInv, LockHeld, LockedLabels, PlannerInformed, PlanLabels
  <1>2. handoff' = [handoff EXCEPT ![job[p].run] = o] /\ UNCHANGED <<candidate, run, company, writer>>
    BY DEF PrintHandoff
  <1>3. Answer(p, "selected", k) /\ "selected" \in Answers
    BY DEF PrintHandoff, Answers
  <1> DEFINE j == [NoJob EXCEPT !.answer = "selected", !.company = k]
  <1>4. j \in Job
    BY <1>3, AnswerType
  <1>5. pc' = [pc EXCEPT ![p] = "done"] /\ job' = [job EXCEPT ![p] = j]
    BY <1>3 DEF Answer, Goto
  <1> HIDE DEF j
  <1>6. TypeOK'
    BY <1>1, <1>2, <1>4, <1>5, LabelTypes DEF IInv, TypeOK
  <1>7. CandidatesInv'
    BY <1>2 DEF IInv, CandidatesInv
  <1>8. RunsInv'
    BY <1>1, <1>2 DEF IInv, TypeOK, RunsInv, StillAsOffered
  <1>9. \A q \in Procs : ProcessInv(q)'
    <2> TAKE q \in Procs
    <2>1. CASE q = p
      <3>1. pc'[p] = "done" /\ writer' # p
        BY <1>1, <1>2, <1>5 DEF IInv, TypeOK
      <3> QED
        BY <2>1, <3>1 DEF ProcessInv, LockHeld, PlannerInformed, PromoterInformed, SearchBlank,
           CompanyNamed, LockedLabels, StageLabels, PlanLabels, PromoteLabels, ApplyLabels,
           ReviewLabels, DeleteLabels
    <2>2. CASE q # p
      <3>1. pc'[q] = pc[q] /\ job'[q] = job[q]
        BY <1>5, <2>2 DEF IInv, TypeOK
      <3> QED
        BY <1>2, <2>2, <3>1, QuietOther
    <2> QED
      BY <2>1, <2>2
  <1> QED
    BY <1>6, <1>7, <1>8, <1>9 DEF IInv

LEMMA PlanDecideInv ==
  ASSUME IInv, NEW p \in Procs, PlanDecide(p)
  PROVE  IInv'
  <1>1. /\ pc[p] = "plan_decide" /\ ProcessInv(p) /\ job[p] \in Job
        /\ \A o \in job[p].offers : o \in Offer /\ o.candidate \in Candidates /\ StillAsOffered(o, job[p].run)
    BY DEF PlanDecide, IInv, TypeOK, Job, ProcessInv, PlannerInformed, PlanLabels
  <1>2. {"provider", "no_selection"} \subseteq Answers
    BY DEF Answers
  <1>3. \/ Fail(p, "provider")
        \/ Fail(p, "no_selection")
        \/ \E o \in job[p].offers :
               \/ PrintHandoff(p, o, NoCompany)
               \/ /\ Goto(p, "plan_resolve")
                  /\ job' = [job EXCEPT ![p].chosen = o]
                  /\ UNCHANGED <<tables, writer>>
    BY DEF PlanDecide
  <1>4. ASSUME NEW o \in job[p].offers, Goto(p, "plan_resolve"),
               job' = [job EXCEPT ![p].chosen = o], UNCHANGED <<tables, writer>>
        PROVE  IInv'
    <2> DEFINE j == [job[p] EXCEPT !.chosen = o]
    <2>1. j \in Job /\ j.offers = job[p].offers /\ j.chosen = o /\ j.run = job[p].run
      BY <1>1 DEF Job
    <2>2. job' = [job EXCEPT ![p] = j]
      BY <1>4 DEF IInv, TypeOK
    <2>3. "plan_resolve" \in Labels
      BY DEF Labels, DatabaseLabels
    <2> HIDE DEF j
    <2>4. pc'[p] = "plan_resolve" /\ job'[p] = j => ProcessInv(p)'
      <3> SUFFICES ASSUME pc'[p] = "plan_resolve", job'[p] = j
                   PROVE  ProcessInv(p)'
        OBVIOUS
      <3>1. LockHeld(p)'
        BY <1>1, <1>4 DEF ProcessInv, LockHeld, LockedLabels
      <3>2. PlannerInformed(p)'
        BY <1>1, <1>4, <2>1 DEF ProcessInv, PlannerInformed, PlanLabels, StillAsOffered, tables
      <3> QED
        BY <3>1, <3>2 DEF ProcessInv, PromoterInformed, SearchBlank, CompanyNamed, StageLabels,
           PromoteLabels, ApplyLabels, ReviewLabels, DeleteLabels
    <2> QED
      BY Zenon, <1>4, <2>1, <2>2, <2>3, <2>4, KeepInv
  <1> QED
    BY <1>1, <1>2, <1>3, <1>4, FailInv, PrintHandoffInv

LEMMA PlanResolveInv ==
  ASSUME IInv, NEW p \in Procs, PlanResolve(p)
  PROVE  IInv'
  <1> DEFINE k == candidate[job[p].chosen.candidate].company
  <1>1. /\ pc[p] = "plan_resolve" /\ job[p].chosen \in Offer
        /\ job[p].chosen.candidate \in Candidates
        /\ StillAsOffered(job[p].chosen, job[p].run)
    BY DEF PlanResolve, IInv, TypeOK, Job, ProcessInv, PlannerInformed, PlanLabels
  <1>2. k \in Companies \union {NoCompany}
    BY <1>1 DEF IInv, TypeOK, CandidateRow
  <1>3. "binding" \in Answers
    BY DEF Answers
  <1>4. PrintHandoff(p, job[p].chosen, k) \/ Fail(p, "binding")
    BY DEF PlanResolve
  <1> HIDE DEF k
  <1> QED
    BY <1>1, <1>2, <1>3, <1>4, FailInv, PrintHandoffInv

LEMMA ApplyStartInv ==
  ASSUME IInv, NEW p \in Procs, NEW r \in Runs, NEW c \in Candidates, ApplyStart(p, r, c)
  PROVE  IInv'
  <1> DEFINE args == [NoJob EXCEPT !.run = r, !.candidate = c]
  <1>1. /\ args \in Job
        /\ [args EXCEPT !.command = "apply"].candidate = c
        /\ [args EXCEPT !.command = "apply"].run = r
    BY NoJobType DEF Job
  <1>2. Begin(p, "apply", "apply_lock", args)
    BY DEF ApplyStart
  <1>3. "apply_lock" \in Labels \ LockedLabels
    BY DEF Labels, DatabaseLabels, LockedLabels
  <1> HIDE DEF args
  <1>4. pc'[p] = "apply_lock" /\ job'[p] = [args EXCEPT !.command = "apply"] =>
            PlannerInformed(p)' /\ PromoterInformed(p)' /\ SearchBlank(p)' /\ CompanyNamed(p)'
    BY <1>1 DEF PlannerInformed, PromoterInformed, SearchBlank, CompanyNamed, StageLabels,
       PlanLabels, PromoteLabels, ApplyLabels, ReviewLabels, DeleteLabels
  <1> QED
    BY Zenon, <1>1, <1>2, <1>3, <1>4, BeginInv

LEMMA ApplyInv ==
  ASSUME IInv, NEW p \in Procs, ApplyLock(p) \/ ApplyDecide(p) \/ ApplyCommit(p)
  PROVE  IInv'
  <1> USE DEF LockHeld, PlannerInformed, PromoterInformed, SearchBlank, CompanyNamed, LockedLabels,
              StageLabels, PlanLabels, PromoteLabels, ApplyLabels, ReviewLabels, DeleteLabels
  <1>1. CASE ApplyLock(p)
    <2>1. "apply_decide" \in Labels
      BY DEF Labels, DatabaseLabels
    <2>2. pc'[p] = "apply_decide" /\ job'[p] = job[p] => ProcessInv(p)'
      BY <1>1 DEF ApplyLock, Lock, TakeLock, IInv, ProcessInv
    <2> QED
      BY <1>1, <2>1, <2>2, LockInv DEF ApplyLock
  <1>2. CASE ApplyDecide(p)
    <2> DEFINE row == candidate[job[p].candidate]
    <2>1. {"not_found", "ineligible", "stale", "inconsistent", "invalid"} \subseteq Answers
      BY DEF Answers
    <2>2. \/ \E a \in {"not_found", "ineligible", "stale", "inconsistent", "invalid"} : Fail(p, a)
          \/ AlreadyPromoted(p, row)
          \/ /\ row.status # "ABSENT" /\ row.company = NoCompany /\ row.seenIn = job[p].run
             /\ LookUp(p, "apply_commit", HostOf[job[p].candidate])
      BY <1>2 DEF ApplyDecide, Fresh
    <2>3. pc[p] = "apply_decide" /\ job[p].candidate \in Candidates /\ ProcessInv(p)
      BY <1>2 DEF ApplyDecide, IInv, ProcessInv
    <2>4. CASE /\ row.status # "ABSENT" /\ row.company = NoCompany /\ row.seenIn = job[p].run
               /\ LookUp(p, "apply_commit", HostOf[job[p].candidate])
      BY <2>3, <2>4, LookUpInv
    <2> QED
      BY <2>1, <2>2, <2>3, <2>4, FailInv, AlreadyInv
  <1>3. CASE ApplyCommit(p)
    <2>1. /\ job[p].candidate \in Candidates /\ writer = p
          /\ job[p].company # NoCompany => job[p].company \in At(HostOf[job[p].candidate])
      BY <1>3 DEF ApplyCommit, IInv, ProcessInv
    <2> QED
      BY <1>3, <2>1, PromoteIntoInv DEF ApplyCommit
  <1> QED
    BY <1>1, <1>2, <1>3

-----------------------------------------------------------------------------
(* Companies created and deleted by hand. *)

LEMMA CompanyStartInv ==
  ASSUME IInv, NEW p \in Procs,
         \/ \E host \in Hosts \union {NoHost} : CreateStart(p, host)
         \/ \E k \in Companies : DeleteStart(p, k)
  PROVE  IInv'
  <1>1. "create" \in Labels \ LockedLabels /\ "delete_read" \in Labels \ LockedLabels
    BY DEF Labels, DatabaseLabels, LockedLabels
  <1>2. ASSUME NEW host \in Hosts \union {NoHost}, CreateStart(p, host)
        PROVE  IInv'
    <2> DEFINE args == [NoJob EXCEPT !.host = host]
    <2>1. args \in Job /\ Begin(p, "create", "create", args)
      BY <1>2, NoJobType DEF Job, CreateStart
    <2> HIDE DEF args
    <2>2. pc'[p] = "create" =>
              PlannerInformed(p)' /\ PromoterInformed(p)' /\ SearchBlank(p)' /\ CompanyNamed(p)'
      BY DEF PlannerInformed, PromoterInformed, SearchBlank, CompanyNamed, StageLabels,
         PlanLabels, PromoteLabels, ApplyLabels, ReviewLabels, DeleteLabels
    <2> QED
      BY Zenon, <1>1, <2>1, <2>2, BeginInv
  <1>3. ASSUME NEW k \in Companies, DeleteStart(p, k)
        PROVE  IInv'
    <2> DEFINE args == [NoJob EXCEPT !.company = k]
    <2>1. args \in Job /\ [args EXCEPT !.command = "delete"].company = k
      BY NoJobType DEF Job
    <2>2. Begin(p, "delete", "delete_read", args)
      BY <1>3 DEF DeleteStart
    <2> HIDE DEF args
    <2>3. pc'[p] = "delete_read" /\ job'[p] = [args EXCEPT !.command = "delete"] =>
              PlannerInformed(p)' /\ PromoterInformed(p)' /\ SearchBlank(p)' /\ CompanyNamed(p)'
      BY <2>1 DEF PlannerInformed, PromoterInformed, SearchBlank, CompanyNamed, StageLabels,
         PlanLabels, PromoteLabels, ApplyLabels, ReviewLabels, DeleteLabels
    <2> QED
      BY Zenon, <1>1, <2>1, <2>2, <2>3, BeginInv
  <1> QED
    BY <1>2, <1>3

LEMMA CreateInv ==
  ASSUME IInv, NEW p \in Procs, Create(p)
  PROVE  IInv'
  <1>1. PICK k \in Companies, known \in SUBSET Fields :
            /\ IsNextCompany(k)
            /\ company' = [company EXCEPT ![k] = [live |-> TRUE, host |-> job[p].host, known |-> known]]
            /\ Answer(p, "ok", k)
    BY DEF Create
  <1>2. writer = NoProc /\ writer' = NoProc /\ UNCHANGED <<candidate, run, handoff>>
    BY DEF Create, WriteAtOnce
  <1>3. [live |-> TRUE, host |-> job[p].host, known |-> known] \in CompanyRow
    BY DEF IInv, TypeOK, Job, CompanyRow
  <1>4. /\ company' \in [Companies -> CompanyRow]
        /\ \A j \in Companies : company[j].live => company'[j] = company[j]
    BY <1>1, <1>3 DEF IInv, TypeOK, IsNextCompany, Live
  <1>5. "ok" \in Answers
    BY DEF Answers
  <1>6. /\ pc' \in [Procs -> Labels] /\ job' \in [Procs -> Job]
        /\ ProcessInv(p)'
        /\ \A q \in Procs : q # p => pc'[q] = pc[q] /\ job'[q] = job[q]
    BY <1>1, <1>2, <1>5, AnsweredType
  <1>7. TypeOK'
    BY <1>2, <1>4, <1>6 DEF IInv, TypeOK
  <1>8. CandidatesInv'
    <2>1. \A c \in Candidates : candidate[c].company \in Companies \union {NoCompany}
      BY DEF IInv, TypeOK, CandidateRow
    <2> QED
      BY <1>2, <1>4, <2>1 DEF IInv, CandidatesInv
  <1>9. RunsInv'
    BY <1>2 DEF IInv, RunsInv, StillAsOffered
  <1>10. \A q \in Procs : ProcessInv(q)'
    <2> TAKE q \in Procs
    <2>1. \A o \in Offer, r \in Runs : StillAsOffered(o, r) => StillAsOffered(o, r)'
      BY <1>2 DEF StillAsOffered
    <2> QED
      BY <1>2, <1>6, <2>1, CommitOther
  <1> QED
    BY <1>7, <1>8, <1>9, <1>10 DEF IInv

LEMMA DeleteReadInv ==
  ASSUME IInv, NEW p \in Procs, DeleteRead(p)
  PROVE  IInv'
  <1>1. "not_found" \in Answers /\ "delete_write" \in Labels
    BY DEF Answers, Labels, DatabaseLabels
  <1>2. Step(p, "delete_write") \/ Fail(p, "not_found")
    BY DEF DeleteRead
  <1>3. CASE Step(p, "delete_write")
    <2>1. pc[p] = "delete_read" /\ ProcessInv(p)
      BY DEF DeleteRead, IInv
    <2>2. pc'[p] = "delete_write" /\ job'[p] = job[p] => ProcessInv(p)'
      BY <1>3, <2>1 DEF Step, ProcessInv, LockHeld, LockedLabels, PlannerInformed,
         PromoterInformed, SearchBlank, CompanyNamed, StageLabels, PlanLabels, PromoteLabels,
         ApplyLabels, ReviewLabels, DeleteLabels
    <2> QED
      BY <1>1, <1>3, <2>2, StepInv
  <1> QED
    BY <1>1, <1>2, <1>3, FailInv

(* Deleting a company clears the links to it and nothing else.             *)
LEMMA DeleteFact ==
  ASSUME IInv, NEW p \in Procs, DeleteWrite(p)
  PROVE  \A c \in Candidates :
             /\ candidate'[c] \in CandidateRow
             /\ candidate'[c].status = candidate[c].status
             /\ candidate'[c].known = candidate[c].known
             /\ candidate'[c].seenIn = candidate[c].seenIn
             /\ candidate'[c].company = IF candidate[c].company = job[p].company THEN NoCompany
                                        ELSE candidate[c].company
             /\ candidate[c].company # job[p].company => candidate'[c] = candidate[c]
  <1> SUFFICES ASSUME NEW c \in Candidates
               PROVE  /\ candidate'[c] \in CandidateRow
                      /\ candidate'[c].status = candidate[c].status
                      /\ candidate'[c].known = candidate[c].known
                      /\ candidate'[c].seenIn = candidate[c].seenIn
                      /\ candidate'[c].company = IF candidate[c].company = job[p].company THEN NoCompany
                                                 ELSE candidate[c].company
                      /\ candidate[c].company # job[p].company => candidate'[c] = candidate[c]
    OBVIOUS
  <1>1. candidate[c] \in CandidateRow
    BY DEF IInv, TypeOK
  <1>2. candidate'[c] = IF candidate[c].company = job[p].company
                        THEN [candidate[c] EXCEPT !.company = NoCompany] ELSE candidate[c]
    BY DEF DeleteWrite
  <1>3. CASE candidate[c].company = job[p].company
    BY <1>1, <1>2, <1>3 DEF CandidateRow
  <1>4. CASE candidate[c].company # job[p].company
    BY <1>1, <1>2, <1>4 DEF CandidateRow
  <1> QED
    BY <1>3, <1>4

LEMMA DeleteWriteInv ==
  ASSUME IInv, NEW p \in Procs, DeleteWrite(p)
  PROVE  IInv'
  <1> DEFINE k == job[p].company
  <1>1. k \in Companies
    BY DEF DeleteWrite, IInv, ProcessInv, CompanyNamed, DeleteLabels
  <1>2. writer = NoProc /\ writer' = NoProc /\ UNCHANGED <<run, handoff>>
    BY DEF DeleteWrite, WriteAtOnce
  <1>3. "ok" \in Answers /\ Answer(p, "ok", NoCompany)
    BY DEF DeleteWrite, Answers
  <1>4. /\ company' \in [Companies -> CompanyRow]
        /\ \A j \in Companies : j # k => company'[j] = company[j]
    BY <1>1, NoRowsType DEF DeleteWrite, IInv, TypeOK
  <1>5. candidate' \in [Candidates -> CandidateRow]
    BY DeleteFact DEF DeleteWrite
  <1>6. /\ pc' \in [Procs -> Labels] /\ job' \in [Procs -> Job]
        /\ ProcessInv(p)'
        /\ \A q \in Procs : q # p => pc'[q] = pc[q] /\ job'[q] = job[q]
    BY <1>2, <1>3, AnsweredType
  <1>7. TypeOK'
    BY <1>2, <1>4, <1>5, <1>6 DEF IInv, TypeOK
  <1>8. CandidatesInv'
    <2> SUFFICES ASSUME NEW c \in Candidates
                 PROVE  /\ candidate'[c].status = "ABSENT" => candidate'[c] = NoCandidateRow
                        /\ candidate'[c].status = "DISCOVERED" => candidate'[c].company = NoCompany
                        /\ candidate'[c].company # NoCompany =>
                               /\ company'[candidate'[c].company].live
                               /\ company'[candidate'[c].company].host = HostOf[c]
      BY Zenon DEF CandidatesInv
    <2>1. /\ candidate[c].status = "ABSENT" => candidate[c] = NoCandidateRow
          /\ candidate[c].status = "DISCOVERED" => candidate[c].company = NoCompany
          /\ candidate[c].company # NoCompany => /\ company[candidate[c].company].live
                                                 /\ company[candidate[c].company].host = HostOf[c]
          /\ candidate[c].company \in Companies \union {NoCompany}
      BY DEF IInv, CandidatesInv, TypeOK, CandidateRow
    <2>2. NoCandidateRow.company = NoCompany /\ k # NoCompany
      BY <1>1, CompaniesAssumption DEF NoCandidateRow
    <2> HIDE DEF k
    <2> QED
      BY <1>4, <2>1, <2>2, DeleteFact DEF k
  <1>9. \A o \in Offer, r \in Runs : StillAsOffered(o, r) => StillAsOffered(o, r)'
    BY DeleteFact DEF StillAsOffered
  <1>10. RunsInv'
    <2>1. \A r \in Runs : handoff[r] \in Offer
      BY DEF IInv, TypeOK
    <2> QED
      BY <1>2, <1>9, <2>1, DeleteFact DEF IInv, RunsInv, StillAsOffered
  <1>11. \A q \in Procs : ProcessInv(q)'
    <2> TAKE q \in Procs
    <2>1. CASE q = p
      BY <1>6, <2>1
    <2>2. CASE q # p
      <3>1. pc'[q] = pc[q] /\ job'[q] = job[q]
        BY <1>6, <2>2
      <3>2. \A c \in Candidates : candidate[c].status # "ABSENT" => candidate'[c].status # "ABSENT"
        BY DeleteFact
      <3> QED
        BY <1>2, <1>9, <2>2, <3>1, <3>2, CommitOther
    <2> QED
      BY <2>1, <2>2
  <1> QED
    BY <1>7, <1>8, <1>10, <1>11 DEF IInv

-----------------------------------------------------------------------------
LEMMA InitInv == Init => IInv
  <1> SUFFICES ASSUME Init
               PROVE  IInv
    OBVIOUS
  <1>1. CandidatesInv /\ RunsInv
    BY NoCandidateAssumption DEF Init, CandidatesInv, RunsInv, StillAsOffered, NoCandidateRow, NoOffer
  <1>2. \A p \in Procs : ProcessInv(p)
    BY NoProcAssumption DEF Init, ProcessInv, LockHeld, PlannerInformed, PromoterInformed, SearchBlank,
       CompanyNamed, LockedLabels, StageLabels, PlanLabels, PromoteLabels, ApplyLabels,
       ReviewLabels, DeleteLabels
  <1> QED
    BY <1>1, <1>2, InitType DEF IInv

LEMMA NextInv ==
  ASSUME IInv, [Next]_vars
  PROVE  IInv'
  <1>1. CASE UNCHANGED vars
    BY <1>1 DEF vars, IInv, TypeOK, CandidatesInv, RunsInv, StillAsOffered, ProcessInv, LockHeld,
       PlannerInformed, PromoterInformed, SearchBlank, CompanyNamed, At, Live
  <1>2. ASSUME NEW p \in Procs, StagingStep(p)
        PROVE  IInv'
    BY <1>2, StagingQuietInv, StageCommitInv DEF StagingStep
  <1>3. ASSUME NEW p \in Procs, PromotionStep(p)
        PROVE  IInv'
    BY <1>3, PromotionStartInv, ReviewReadInv, ReviewWriteInv, PromoteInv DEF PromotionStep
  <1>4. ASSUME NEW p \in Procs, AgentStep(p)
        PROVE  IInv'
    BY <1>4, PlanListInv, PlanDecideInv, PlanResolveInv, ApplyStartInv, ApplyInv DEF AgentStep
  <1>5. ASSUME NEW p \in Procs, CompanyStep(p)
        PROVE  IInv'
    BY <1>5, CompanyStartInv, CreateInv, DeleteReadInv, DeleteWriteInv DEF CompanyStep
  <1> QED
    BY <1>1, <1>2, <1>3, <1>4, <1>5, ProcessStepInv DEF Next

(* Type correctness, the lock, what links and offers mean, and what every  *)
(* process relies on: for any number of processes, candidates, companies.  *)
THEOREM Invariant == Spec => []IInv
  <1>1. Init => IInv
    BY InitInv
  <1>2. IInv /\ [Next]_vars => IInv'
    BY NextInv
  <1> QED
    BY <1>1, <1>2, PTL DEF Spec
=============================================================================
