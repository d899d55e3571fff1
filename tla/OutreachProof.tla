--------------------------- MODULE OutreachProof ---------------------------
(***************************************************************************)
(* The proof that IInv is an invariant of Outreach.  Most actions are      *)
(* quiet: they commit nothing, so that only what their own process relies  *)
(* on has to be looked at (QuietStep).  The others commit while nobody     *)
(* else is inside a transaction and only advance the rows, which leaves    *)
(* every other process what it relies on (CommitOther, CommitInv).  There  *)
(* is one lemma per action, or per group of actions of the same form.      *)
(***************************************************************************)
EXTENDS Outreach, TLAPS

-----------------------------------------------------------------------------
(* Types. *)

LEMMA NoRowType == NoRow \in DraftRow
  BY SenderAssumption DEF NoRow, DraftRow, DraftStatus, DeliveryMode

LEMMA NoJobType == NoJob \in Job /\ NoJob.batch = {}
  BY NoRowType DEF NoJob, Job, Targets, Answers

LEMMA LabelTypes ==
  /\ DatabaseLabels \subseteq Labels
  /\ LockedLabels \subseteq DatabaseLabels
  /\ GenerationLabels \subseteq Labels /\ OwnerLabels \subseteq Labels
  /\ SendLabels \subseteq Labels /\ SingleLabels \subseteq Labels
  /\ BatchLabels \subseteq Labels /\ ManualLabels \subseteq Labels
  /\ "idle" \in Labels /\ "done" \in Labels
  BY DEF Labels, DatabaseLabels, LockedLabels, GenerationLabels, OwnerLabels, SendLabels,
         SingleLabels, BatchLabels, ManualLabels

LEMMA InitType == Init => TypeOK
  <1> SUFFICES ASSUME Init
               PROVE  TypeOK
    OBVIOUS
  <1>1. draft \in [Drafts -> DraftRow] /\ job \in [Procs -> Job]
    BY NoRowType, NoJobType DEF Init
  <1>2. task \in [Tasks -> TaskRow]
    BY DEF Init, InitialTaskRow
  <1>3. pc \in [Procs -> Labels]
    BY LabelTypes DEF Init
  <1> QED
    BY <1>1, <1>2, <1>3 DEF Init, TypeOK, Outcome

-----------------------------------------------------------------------------
(* Quiet steps. *)

(* A quiet step of p leaves every other process what it relies on; it may  *)
(* take the lock if it is free, or give it back.                           *)
LEMMA QuietOther ==
  ASSUME IInv, NEW p \in Procs, NEW q \in Procs, q # p,
         UNCHANGED <<tables, accepted>>, pc'[q] = pc[q], job'[q] = job[q],
         \/ writer' = writer
         \/ writer \in {NoProc, p} /\ writer' \in {NoProc, p}
  PROVE  ProcessInv(q)'
  <1>1. ProcessInv(q)
    BY DEF IInv
  <1>2. LockHeld(q)'
    BY <1>1, NoProcAssumption DEF ProcessInv, LockHeld
  <1>3. FreshRowCarried(q)'
    BY <1>1 DEF ProcessInv, FreshRowCarried, tables
  <1>4. ReviewerInformed(q)' /\ SenderInformed(q)' /\ OwnerInformed(q)'
    BY <1>1 DEF ProcessInv, ReviewerInformed, SenderInformed, OwnerInformed, Exists, tables
  <1>5. ManualInformed(q)'
    BY <1>1 DEF ProcessInv, ManualInformed, Exists, tables
  <1>6. RebinderInformed(q)'
    BY Zenon, <1>1 DEF ProcessInv, RebinderInformed, NoCollision, Exists, Fingerprint, Rebound, tables
  <1>7. TaskNamed(q)' /\ AnswerTrue(q)'
    BY <1>1 DEF ProcessInv, TaskNamed, AnswerTrue, tables
  <1> QED
    BY <1>2, <1>3, <1>4, <1>5, <1>6, <1>7 DEF ProcessInv

(* The committed rows stay as they are.                                    *)
LEMMA QuietTables ==
  ASSUME TablesInv, UNCHANGED <<tables, accepted>>
  PROVE  TablesInv'
  BY DEF TablesInv, RowsConsistent, AtMostOneMessage, ChannelExclusive, OutcomeHonest,
         SentOnlyAfterApproval, RecipientCanonical, OneDraftPerRequest, Exists, Fingerprint,
         tables

(* Hence a quiet step has only its own process to look at.                 *)
LEMMA QuietStep ==
  ASSUME IInv, NEW p \in Procs, NEW label \in Labels, NEW j \in Job,
         UNCHANGED <<tables, accepted>>,
         pc' = [pc EXCEPT ![p] = label], job' = [job EXCEPT ![p] = j],
         \/ writer' = writer
         \/ writer \in {NoProc, p} /\ writer' \in {NoProc, p},
         label \in OwnerLabels => pc[p] \in OwnerLabels /\ j.draft = job[p].draft,
         ProcessInv(p)'
  PROVE  IInv'
  <1>1. TypeOK'
    BY DEF IInv, TypeOK, tables
  <1>2. TablesInv'
    BY QuietTables DEF IInv
  <1>3. \A q \in Procs : ProcessInv(q)'
    <2> TAKE q \in Procs
    <2>1. CASE q = p
      BY <2>1
    <2>2. CASE q # p
      <3>1. pc'[q] = pc[q] /\ job'[q] = job[q]
        BY <2>2 DEF IInv, TypeOK
      <3> QED
        BY <2>2, <3>1, QuietOther
    <2> QED
      BY <2>1, <2>2
  <1>4. OwnerExclusive'
    BY DEF IInv, TypeOK, OwnerExclusive
  <1> QED
    BY <1>1, <1>2, <1>3, <1>4 DEF IInv

(* Giving up, at whatever point, keeps the invariant.                      *)
LEMMA FailInv ==
  ASSUME IInv, NEW p \in Procs,
         NEW a \in Answers \ (TerminalOutcome \union {"ok"}), Fail(p, a)
  PROVE  IInv'
  <1> DEFINE j == [job[p] EXCEPT !.answer = a]
  <1>1. j \in Job
    BY DEF IInv, TypeOK, Job
  <1>2. pc' = [pc EXCEPT ![p] = "done"] /\ job' = [job EXCEPT ![p] = j]
    BY DEF Fail, Answer, Goto
  <1>3. pc'[p] = "done" /\ job'[p] = j /\ writer' # p
    BY <1>2, NoProcAssumption DEF IInv, TypeOK, Fail, Answer, Release
  <1>4. j.answer \notin TerminalOutcome /\ j.answer # "ok"
    BY <1>1 DEF Job
  <1>5. ProcessInv(p)'
    BY <1>3, <1>4 DEF ProcessInv, LockHeld, FreshRowCarried, ReviewerInformed, SenderInformed,
       OwnerInformed, ManualInformed, RebinderInformed, TaskNamed, AnswerTrue, LockedLabels,
       GenerationLabels, SendLabels, OwnerLabels, SingleLabels, BatchLabels, ManualLabels
  <1> QED
    <2> HIDE DEF j
    <2> QED
    BY Zenon, <1>1, <1>2, <1>5, QuietStep, LabelTypes DEF Fail, Answer, Release, OwnerLabels

(* A step that only moves the process, one that keeps a row, one that      *)
(* takes the lock, one that begins a command.                              *)
LEMMA StepInv ==
  ASSUME IInv, NEW p \in Procs, NEW label \in Labels, Step(p, label), label \notin OwnerLabels,
         pc'[p] = label /\ job'[p] = job[p] => ProcessInv(p)'
  PROVE  IInv'
  <1>1. pc' = [pc EXCEPT ![p] = label] /\ job' = [job EXCEPT ![p] = job[p]]
    BY DEF Step, Goto, IInv, TypeOK
  <1>2. job[p] \in Job /\ pc'[p] = label /\ job'[p] = job[p]
    BY <1>1 DEF IInv, TypeOK
  <1> QED
    BY Zenon, <1>1, <1>2, QuietStep DEF Step

LEMMA KeepInv ==
  ASSUME IInv, NEW p \in Procs, NEW label \in Labels, NEW row \in DraftRow,
         Keep(p, row, label), label \notin OwnerLabels,
         pc'[p] = label /\ job'[p] = [job[p] EXCEPT !.seen = row] => ProcessInv(p)'
  PROVE  IInv'
  <1> DEFINE j == [job[p] EXCEPT !.seen = row]
  <1>1. pc' = [pc EXCEPT ![p] = label] /\ job' = [job EXCEPT ![p] = j]
    BY DEF Keep, Goto
  <1>2. j \in Job
    BY DEF IInv, TypeOK, Job
  <1>3. pc'[p] = label /\ job'[p] = j
    BY <1>1 DEF IInv, TypeOK
  <1> QED
    <2> HIDE DEF j
    <2> QED
      BY Zenon, <1>1, <1>2, <1>3, QuietStep DEF Keep, j

LEMMA BeginInv ==
  ASSUME IInv, NEW p \in Procs, NEW command, NEW label \in Labels, NEW args \in Job,
         Begin(p, command, label, args), label \notin OwnerLabels,
         pc'[p] = label /\ job'[p] = args => ProcessInv(p)'
  PROVE  IInv'
  <1>1. pc' = [pc EXCEPT ![p] = label] /\ job' = [job EXCEPT ![p] = args]
    BY DEF Begin, Goto
  <1>2. pc'[p] = label /\ job'[p] = args
    BY <1>1 DEF IInv, TypeOK
  <1> QED
    BY Zenon, <1>1, <1>2, QuietStep DEF Begin

LEMMA LockInv ==
  ASSUME IInv, NEW p \in Procs, NEW label \in Labels, Lock(p, label), label \notin OwnerLabels,
         pc'[p] = label /\ job'[p] = job[p] => ProcessInv(p)'
  PROVE  IInv'
  <1>1. pc' = [pc EXCEPT ![p] = label] /\ job' = [job EXCEPT ![p] = job[p]]
    BY DEF Lock, Goto, IInv, TypeOK
  <1>2. job[p] \in Job /\ pc'[p] = label /\ job'[p] = job[p]
    BY <1>1 DEF IInv, TypeOK
  <1> QED
    BY Zenon, <1>1, <1>2, QuietStep DEF Lock

(* An answer that commits nothing.                                         *)
LEMMA AnswerInv ==
  ASSUME IInv, NEW p \in Procs, Answer(p, "ok"), UNCHANGED <<tables, accepted>>,
         \A d \in job[p].batch : manual[d]
  PROVE  IInv'
  <1> DEFINE j == [job[p] EXCEPT !.answer = "ok"]
  <1>1. j \in Job /\ j.batch = job[p].batch
    BY Zenon DEF IInv, TypeOK, Job, Answers
  <1>2. pc' = [pc EXCEPT ![p] = "done"] /\ job' = [job EXCEPT ![p] = j]
    BY DEF Answer, Goto
  <1>3. pc'[p] = "done" /\ job'[p] = j /\ writer' # p
    BY <1>2, NoProcAssumption DEF IInv, TypeOK, Answer, Release
  <1>4. j.answer = "ok" /\ manual' = manual
    BY <1>1 DEF Job, tables
  <1>5. ProcessInv(p)'
    BY <1>1, <1>3, <1>4 DEF ProcessInv, LockHeld, FreshRowCarried, ReviewerInformed,
       SenderInformed, OwnerInformed, ManualInformed, RebinderInformed, TaskNamed, AnswerTrue,
       LockedLabels, GenerationLabels, SendLabels, OwnerLabels, SingleLabels, BatchLabels,
       ManualLabels, TerminalOutcome
  <1> QED
    <2> HIDE DEF j
    <2> QED
      BY Zenon, <1>1, <1>2, <1>5, QuietStep, LabelTypes DEF Answer, Release, OwnerLabels

(* A commit by p, while nobody else is inside a transaction, leaves every  *)
(* other process what it relies on, provided that rows are only added,     *)
(* bound and approved, never taken back, and that a reservation is settled *)
(* by nobody but its owner.                                                *)
RowsAdvance ==
  /\ \A d \in Drafts : /\ draft[d].status # "ABSENT" => draft'[d].status # "ABSENT"
                       /\ draft[d].bound => draft'[d].bound
                       /\ draft[d].approvedAt => draft'[d].approvedAt
                       /\ manual[d] => manual'[d]
                       /\ attempt[d] \in TerminalOutcome => attempt'[d] = attempt[d]
  /\ \A t \in Tasks : task[t].bound => /\ task'[t].bound
                                       /\ task'[t].contactEmail = task[t].contactEmail

LEMMA CommitOther ==
  ASSUME IInv, NEW p \in Procs, NEW q \in Procs, q # p,
         pc'[q] = pc[q], job'[q] = job[q],
         writer \in {NoProc, p}, writer' \in {NoProc, p},
         RowsAdvance,
         pc[q] \in OwnerLabels => /\ attempt'[job[q].draft] = attempt[job[q].draft]
                                 /\ accepted'[job[q].draft] = accepted[job[q].draft]
  PROVE  ProcessInv(q)'
  <1>1. ProcessInv(q) /\ writer # q /\ writer' # q
    BY NoProcAssumption DEF IInv
  <1>2. pc[q] \notin LockedLabels
    BY <1>1 DEF ProcessInv, LockHeld
  <1>3. LockHeld(q)'
    BY <1>1, <1>2 DEF ProcessInv, LockHeld
  <1>4. FreshRowCarried(q)'
    BY <1>1 DEF ProcessInv, FreshRowCarried, RowsAdvance
  <1>5. ReviewerInformed(q)'
    BY <1>1 DEF ProcessInv, ReviewerInformed, RowsAdvance, Exists
  <1>6. SenderInformed(q)'
    BY <1>1, <1>2 DEF ProcessInv, SenderInformed, RowsAdvance, LockedLabels, SendLabels,
       OwnerLabels
  <1>7. OwnerInformed(q)'
    BY <1>1 DEF ProcessInv, OwnerInformed, OwnerLabels
  <1>8. ManualInformed(q)'
    <2>1. job[q] \in Job
      BY DEF IInv, TypeOK
    <2>2. job[q].batch \subseteq Drafts /\ job[q].left \subseteq Drafts
      BY <2>1 DEF Job
    <2> QED
      BY <1>1, <1>2, <2>2 DEF ProcessInv, LockHeld, ManualInformed, RowsAdvance, Exists,
         LockedLabels, SingleLabels, BatchLabels, ManualLabels
  <1>9. RebinderInformed(q)'
    BY <1>1, <1>2 DEF ProcessInv, RebinderInformed, LockedLabels
  <1>10. TaskNamed(q)'
    BY <1>1 DEF ProcessInv, TaskNamed
  <1>11. AnswerTrue(q)'
    <2>1. job[q] \in Job
      BY DEF IInv, TypeOK
    <2>2. job[q].batch \subseteq Drafts
      BY <2>1 DEF Job
    <2> QED
      BY <1>1, <2>2 DEF ProcessInv, AnswerTrue, RowsAdvance
  <1> QED
    BY <1>3, <1>4, <1>5, <1>6, <1>7, <1>8, <1>9, <1>10, <1>11 DEF ProcessInv

LEMMA CommitInv ==
  ASSUME IInv, NEW p \in Procs, NEW label \in Labels, NEW j \in Job,
         pc' = [pc EXCEPT ![p] = label], job' = [job EXCEPT ![p] = j],
         writer \in {NoProc, p}, writer' \in {NoProc, p},
         draft' \in [Drafts -> DraftRow], task' \in [Tasks -> TaskRow],
         attempt' \in [Drafts -> Outcome], manual' \in [Drafts -> BOOLEAN],
         accepted' = accepted,
         RowsAdvance,
         \A d \in Drafts : attempt'[d] # attempt[d] =>
             \A q \in Procs \ {p} : pc[q] \in OwnerLabels => job[q].draft # d,
         label \in OwnerLabels =>
             \A q \in Procs \ {p} : pc[q] \in OwnerLabels => job[q].draft # j.draft,
         TablesInv', ProcessInv(p)'
  PROVE  IInv'
  <1>1. TypeOK'
    BY DEF IInv, TypeOK
  <1>2. \A q \in Procs \ {p} : pc'[q] = pc[q] /\ job'[q] = job[q]
    BY DEF IInv, TypeOK
  <1>3. \A q \in Procs : ProcessInv(q)'
    <2> TAKE q \in Procs
    <2>1. CASE q = p
      BY <2>1
    <2>2. CASE q # p
      <3>1. pc[q] \in OwnerLabels => job[q].draft \in Drafts
        BY DEF IInv, ProcessInv, SenderInformed
      <3>2. pc[q] \in OwnerLabels => attempt'[job[q].draft] = attempt[job[q].draft]
        BY <2>2, <3>1
      <3> QED
        BY <1>2, <2>2, <3>2, CommitOther
    <2> QED
      BY <2>1, <2>2
  <1>4. pc'[p] = label /\ job'[p] = j
    BY DEF IInv, TypeOK
  <1>5. OwnerExclusive'
    BY <1>2, <1>4 DEF IInv, OwnerExclusive
  <1> QED
    BY <1>1, <1>3, <1>5 DEF IInv

(* A commit followed by the answer of the command.                         *)
LEMMA AnswerCommitInv ==
  ASSUME IInv, NEW p \in Procs, NEW a \in Answers, Answer(p, a),
         writer \in {NoProc, p},
         draft' \in [Drafts -> DraftRow], task' \in [Tasks -> TaskRow],
         attempt' \in [Drafts -> Outcome], manual' \in [Drafts -> BOOLEAN],
         accepted' = accepted,
         RowsAdvance,
         \A d \in Drafts : attempt'[d] # attempt[d] =>
             \A q \in Procs \ {p} : pc[q] \in OwnerLabels => job[q].draft # d,
         TablesInv',
         a \in TerminalOutcome => job[p].draft \in Drafts /\ attempt'[job[p].draft] = a,
         a = "ok" => \A d \in job[p].batch : manual'[d]
  PROVE  IInv'
  <1> DEFINE j == [job[p] EXCEPT !.answer = a]
  <1>1. j \in Job /\ j.batch = job[p].batch /\ j.draft = job[p].draft /\ j.answer = a
    BY Zenon DEF IInv, TypeOK, Job
  <1>2. pc' = [pc EXCEPT ![p] = "done"] /\ job' = [job EXCEPT ![p] = j]
    BY DEF Answer, Goto
  <1>3. pc'[p] = "done" /\ job'[p] = j /\ writer' = NoProc
    BY <1>2, NoProcAssumption DEF IInv, TypeOK, Answer, Release
  <1> HIDE DEF j
  <1>4. ProcessInv(p)'
    BY <1>1, <1>3, NoProcAssumption DEF ProcessInv, LockHeld, FreshRowCarried,
       ReviewerInformed, SenderInformed, OwnerInformed, ManualInformed, RebinderInformed,
       TaskNamed, AnswerTrue, LockedLabels, GenerationLabels, SendLabels, OwnerLabels,
       SingleLabels, BatchLabels, ManualLabels
  <1>5. "done" \in Labels /\ "done" \notin OwnerLabels
    BY DEF Labels, OwnerLabels
  <1> QED
    BY Zenon, <1>1, <1>2, <1>3, <1>4, <1>5, CommitInv

-----------------------------------------------------------------------------
(* From here on the parts of a process's invariant are expanded.           *)
USE DEF ProcessInv, LockHeld, FreshRowCarried, ReviewerInformed, SenderInformed,
        OwnerInformed, ManualInformed, RebinderInformed, TaskNamed, AnswerTrue,
        LockedLabels, GenerationLabels, SendLabels, OwnerLabels, SingleLabels, BatchLabels,
        ManualLabels

LEMMA ExitInv ==
  ASSUME IInv, NEW p \in Procs, Exit(p)
  PROVE  IInv'
  <1>1. pc' = [pc EXCEPT ![p] = "idle"] /\ job' = [job EXCEPT ![p] = NoJob]
    BY Zenon DEF Exit, Goto
  <1>2. pc'[p] = "idle" /\ job'[p] = NoJob
    BY <1>1 DEF IInv, TypeOK
  <1>3. writer' # p
    BY DEF IInv, Exit
  <1> QED
    BY Zenon, <1>1, <1>2, <1>3, QuietStep, LabelTypes, NoJobType DEF Exit

LEMMA CrashInv ==
  ASSUME IInv, NEW p \in Procs, Crash(p)
  PROVE  IInv'
  <1>1. pc' = [pc EXCEPT ![p] = "idle"] /\ job' = [job EXCEPT ![p] = NoJob]
    BY DEF Crash, Goto
  <1>2. pc'[p] = "idle" /\ job'[p] = NoJob
    BY <1>1 DEF IInv, TypeOK
  <1>3. writer' # p
    BY NoProcAssumption DEF Crash, Release
  <1> QED
    BY Zenon, <1>1, <1>2, <1>3, QuietStep, LabelTypes, NoJobType DEF Crash, Release

LEMMA ProcessStepInv ==
  ASSUME IInv, NEW p \in Procs, ProcessStep(p)
  PROVE  IInv'
  <1>1. CASE DatabaseError(p)
    BY Zenon, <1>1, FailInv DEF DatabaseError, Answers, TerminalOutcome
  <1> QED
    BY <1>1, ExitInv, CrashInv DEF ProcessStep

-----------------------------------------------------------------------------
(* Generation. *)

LEMMA GenerateStartInv ==
  ASSUME IInv, NEW p \in Procs, NEW t \in Tasks, NEW bound \in BOOLEAN, NEW s \in Senders,
         GenerateStart(p, t, bound, s)
  PROVE  IInv'
  <1> DEFINE row == [NoRow EXCEPT !.bound = bound, !.sender = s]
             args == [NoJob EXCEPT !.task = t, !.seen = row]
  <1>1. row \in DraftRow
    BY Zenon, NoRowType DEF DraftRow
  <1>2. args \in Job /\ args.task = t /\ args.batch = {}
    BY Zenon, <1>1, NoJobType DEF Job, NoJob
  <1>3. Begin(p, "generate", "gen_read", args)
    BY DEF GenerateStart
  <1>4. ProcessInv(p) /\ pc[p] = "idle" /\ writer' = writer
    BY <1>3 DEF IInv, Begin
  <1> HIDE DEF args
  <1>5. ASSUME pc'[p] = "gen_read", job'[p] = args
        PROVE  ProcessInv(p)'
    BY <1>2, <1>4, <1>5
  <1> QED
    BY Zenon, <1>2, <1>3, <1>5, BeginInv DEF Labels, DatabaseLabels

LEMMA GenerateReadInv ==
  ASSUME IInv, NEW p \in Procs, GenerateRead(p)
  PROVE  IInv'
  <1> DEFINE t == job[p].task
             row == NewRow(t, job[p].seen.bound, job[p].seen.sender)
  <1>1. /\ ProcessInv(p) /\ pc[p] = "gen_read" /\ t \in Tasks /\ job[p] \in Job
        /\ task[t] \in TaskRow
    BY DEF IInv, TypeOK, GenerateRead
  <1>2. /\ row \in DraftRow /\ row.status = "DRAFT" /\ row.mode = "NONE" /\ ~row.approvedAt
        /\ row.task = t /\ row.bound = job[p].seen.bound
        /\ row.email = SourceEmail(t, row.bound)
    <2>1. job[p].seen.bound \in BOOLEAN /\ job[p].seen.sender \in Senders
      BY <1>1 DEF Job, DraftRow
    <2>2. \A b \in BOOLEAN : SourceEmail(t, b) \in Emails \union {NoEmail}
      BY <1>1 DEF SourceEmail, TaskRow
    <2>3. task[t].located \in BOOLEAN
      BY <1>1 DEF TaskRow
    <2> QED
      BY ZenonT(30), <1>1, <2>1, <2>2, <2>3 DEF NewRow, DraftRow, NoRow, DraftStatus, DeliveryMode
  <1> HIDE DEF row
  <1>3. CASE \E a \in {"stale", "reused", "conflict"} : Fail(p, a)
    BY Zenon, <1>3, FailInv DEF Answers, TerminalOutcome
  <1>4. CASE RecordsLoad(t, row.bound) /\ Keep(p, row, "gen_provider")
    <2>1. ASSUME pc'[p] = "gen_provider", job'[p] = [job[p] EXCEPT !.seen = row]
          PROVE  ProcessInv(p)'
      BY <1>1, <1>2, <1>4, <2>1 DEF Keep, tables, Job, RecordsLoad, SourceEmail
    <2> QED
      BY <1>2, <1>4, <2>1, KeepInv DEF Labels
  <1> QED
    BY SMTT(30), <1>3, <1>4 DEF GenerateRead, row

LEMMA CallProviderInv ==
  ASSUME IInv, NEW p \in Procs, CallProvider(p)
  PROVE  IInv'
  <1>1. ProcessInv(p) /\ pc[p] = "gen_provider"
    BY DEF IInv, CallProvider
  <1>2. CASE Fail(p, "provider")
    BY Zenon, <1>2, FailInv DEF Answers, TerminalOutcome
  <1>3. CASE Step(p, "gen_recheck")
    <2>1. ASSUME pc'[p] = "gen_recheck", job'[p] = job[p]
          PROVE  ProcessInv(p)'
      BY <1>1, <1>3, <2>1 DEF Step, tables
    <2> QED
      BY Zenon, <1>3, <2>1, StepInv DEF Labels, DatabaseLabels
  <1> QED
    BY <1>2, <1>3 DEF CallProvider

LEMMA GenerateRecheckInv ==
  ASSUME IInv, NEW p \in Procs, GenerateRecheck(p)
  PROVE  IInv'
  <1>1. ProcessInv(p) /\ pc[p] = "gen_recheck"
    BY DEF IInv, GenerateRecheck
  <1>2. CASE Fail(p, "stale")
    BY Zenon, <1>2, FailInv DEF Answers, TerminalOutcome
  <1>3. CASE Step(p, "gen_insert")
    <2>1. ASSUME pc'[p] = "gen_insert", job'[p] = job[p]
          PROVE  ProcessInv(p)'
      BY <1>1, <1>3, <2>1 DEF Step, tables
    <2> QED
      BY Zenon, <1>3, <2>1, StepInv DEF Labels, DatabaseLabels
  <1> QED
    BY <1>2, <1>3 DEF GenerateRecheck

LEMMA GenerateInsertInv ==
  ASSUME IInv, NEW p \in Procs, GenerateInsert(p)
  PROVE  IInv'
  <1> DEFINE row == job[p].seen
  <1>1. /\ ProcessInv(p) /\ pc[p] = "gen_insert" /\ job[p] \in Job /\ writer = NoProc
        /\ row \in DraftRow
    BY DEF IInv, TypeOK, GenerateInsert, Job
  <1>2. CASE \E a \in {"conflict", "persistence"} : Fail(p, a)
    BY Zenon, <1>2, FailInv DEF Answers, TerminalOutcome
  <1>3. ASSUME WithFingerprint(row) = {}, NEW d \in Drafts, ~Exists(d),
               draft' = [draft EXCEPT ![d] = row],
               Answer(p, "ok"), UNCHANGED <<task, attempt, manual, accepted>>
        PROVE  IInv'
    <2>1. draft[d] = NoRow /\ draft'[d] = row
      BY <1>3 DEF IInv, TypeOK, TablesInv, RowsConsistent
    <2>2. \A e \in Drafts \ {d} : draft'[e] = draft[e]
      BY <1>3 DEF IInv, TypeOK
    <2>3. NoRow.status = "ABSENT" /\ ~NoRow.bound /\ ~NoRow.approvedAt /\ NoRow.mode = "NONE"
      BY DEF NoRow
    <2>4. draft' \in [Drafts -> DraftRow]
      BY <1>1, <1>3 DEF IInv, TypeOK
    <2>5. RowsAdvance
      BY <1>3, <2>1, <2>2, <2>3 DEF RowsAdvance
    <2>6. RowsConsistent'
      BY <1>1, <2>1, <2>2 DEF IInv, TablesInv, RowsConsistent, Exists
    <2>7. AtMostOneMessage' /\ ChannelExclusive' /\ OutcomeHonest'
      BY <1>1, <1>3, <2>1, <2>2, <2>3 DEF IInv, TablesInv, AtMostOneMessage, ChannelExclusive,
         OutcomeHonest
    <2>8. SentOnlyAfterApproval'
      BY <1>3, <2>1, <2>2, <2>3 DEF IInv, TablesInv, SentOnlyAfterApproval
    <2>9. RecipientCanonical'
      BY <1>1, <1>3, <2>1, <2>2 DEF IInv, TablesInv, RecipientCanonical, Exists
    <2>10. OneDraftPerRequest'
      <3>1. \A e \in Drafts : Exists(e) => Fingerprint(draft[e]) # Fingerprint(row)
        BY <1>3 DEF WithFingerprint
      <3> QED
        BY <2>1, <2>2, <3>1 DEF IInv, TablesInv, OneDraftPerRequest, Exists, Fingerprint
    <2>11. TablesInv'
      BY <2>6, <2>7, <2>8, <2>9, <2>10 DEF TablesInv
    <2>12. TypeOK /\ "ok" \in Answers /\ "ok" \notin TerminalOutcome /\ job[p].batch = {}
      BY <1>1 DEF IInv, Answers, TerminalOutcome
    <2>13. /\ task' \in [Tasks -> TaskRow] /\ attempt' \in [Drafts -> Outcome]
           /\ manual' \in [Drafts -> BOOLEAN]
      BY <1>3, <2>12 DEF TypeOK
    <2> QED
      BY <1>1, <1>3, <2>4, <2>5, <2>11, <2>12, <2>13, AnswerCommitInv
  <1> QED
    BY <1>1, <1>2, <1>3 DEF GenerateInsert

-----------------------------------------------------------------------------
(* Review. *)

LEMMA ReviewStartInv ==
  ASSUME IInv, NEW p \in Procs, NEW d \in Drafts, NEW target, ReviewStart(p, d, target)
  PROVE  IInv'
  <1> DEFINE args == [NoJob EXCEPT !.draft = d, !.target = target]
             command == IF target = "APPROVED" THEN "approve" ELSE "reject"
  <1>1. target \in {"APPROVED", "REJECTED"} /\ Begin(p, command, "review_draft", args)
    BY DEF ReviewStart
  <1>2. args \in Job /\ args.draft = d /\ args.target = target /\ args.batch = {}
    BY Zenon, <1>1, NoJobType DEF Job, NoJob, Targets, DraftStatus
  <1>3. ProcessInv(p) /\ pc[p] = "idle" /\ writer' = writer
    BY <1>1 DEF IInv, Begin
  <1> HIDE DEF args, command
  <1>4. ASSUME pc'[p] = "review_draft", job'[p] = args
        PROVE  ProcessInv(p)'
    BY <1>1, <1>2, <1>3, <1>4
  <1> QED
    BY Zenon, <1>1, <1>2, <1>4, BeginInv DEF Labels, DatabaseLabels

LEMMA ReviewReadDraftInv ==
  ASSUME IInv, NEW p \in Procs, ReviewReadDraft(p)
  PROVE  IInv'
  <1> DEFINE row == draft[job[p].draft]
  <1>1. /\ ProcessInv(p) /\ pc[p] = "review_draft" /\ job[p] \in Job
        /\ job[p].draft \in Drafts /\ row \in DraftRow
    BY DEF IInv, TypeOK, ReviewReadDraft
  <1>2. CASE \E a \in {"not_found", "reviewed"} : Fail(p, a)
    BY Zenon, <1>2, FailInv DEF Answers, TerminalOutcome
  <1>3. CASE row.status = "DRAFT" /\ Keep(p, row, "review_source")
    <2>1. ASSUME pc'[p] = "review_source", job'[p] = [job[p] EXCEPT !.seen = row]
          PROVE  ProcessInv(p)'
      BY <1>1, <1>3, <2>1 DEF Keep, tables, Job, Exists
    <2> QED
      BY Zenon, <1>1, <1>3, <2>1, KeepInv DEF Labels, DatabaseLabels
  <1> QED
    BY SMTT(30), <1>2, <1>3 DEF ReviewReadDraft

LEMMA ReviewReadSourceInv ==
  ASSUME IInv, NEW p \in Procs, ReviewReadSource(p)
  PROVE  IInv'
  <1>1. ProcessInv(p) /\ pc[p] = "review_source"
    BY DEF IInv, ReviewReadSource
  <1>2. CASE Fail(p, "stale")
    BY Zenon, <1>2, FailInv DEF Answers, TerminalOutcome
  <1>3. CASE Step(p, "review_flush")
    <2>1. ASSUME pc'[p] = "review_flush", job'[p] = job[p]
          PROVE  ProcessInv(p)'
      BY <1>1, <1>3, <2>1 DEF Step, tables, Exists
    <2> QED
      BY Zenon, <1>3, <2>1, StepInv DEF Labels, DatabaseLabels
  <1> QED
    BY <1>2, <1>3 DEF ReviewReadSource

LEMMA ReviewFlushInv ==
  ASSUME IInv, NEW p \in Procs, ReviewFlush(p)
  PROVE  IInv'
  <1>1. ProcessInv(p) /\ pc[p] = "review_flush" /\ Lock(p, "review_commit")
    BY DEF IInv, ReviewFlush
  <1>2. ASSUME pc'[p] = "review_commit", job'[p] = job[p]
        PROVE  ProcessInv(p)'
    BY <1>1, <1>2 DEF Lock, tables, Exists
  <1> QED
    BY Zenon, <1>1, <1>2, LockInv DEF Labels, DatabaseLabels

LEMMA ReviewCommitInv ==
  ASSUME IInv, NEW p \in Procs, ReviewCommit(p)
  PROVE  IInv'
  <1> DEFINE d == job[p].draft
             target == job[p].target
             row == Reviewed(draft[d], target)
  <1>1. /\ pc[p] = "review_commit" /\ writer = p /\ TypeOK /\ TablesInv
        /\ d \in Drafts /\ Exists(d) /\ target \in {"APPROVED", "REJECTED"}
        /\ job[p].batch = {}
    BY DEF IInv, ReviewCommit
  <1>2. /\ draft' = [draft EXCEPT ![d] = row]
        /\ Answer(p, "ok") /\ UNCHANGED <<task, attempt, manual, accepted>>
    BY DEF ReviewCommit
  <1>3. draft[d] \in DraftRow
    BY <1>1 DEF TypeOK
  <1>4. /\ row \in DraftRow /\ row.status = target /\ row.task = draft[d].task
        /\ row.mode = draft[d].mode /\ row.bound = draft[d].bound
        /\ row.email = draft[d].email /\ Fingerprint(row) = Fingerprint(draft[d])
        /\ draft[d].approvedAt => row.approvedAt
        /\ target = "APPROVED" => row.approvedAt
    BY Zenon, <1>1, <1>3 DEF Reviewed, DraftRow, DraftStatus, Fingerprint
  <1> HIDE DEF row
  <1>5. draft'[d] = row /\ \A e \in Drafts \ {d} : draft'[e] = draft[e]
    BY <1>1, <1>2 DEF TypeOK
  <1>6. /\ draft' \in [Drafts -> DraftRow] /\ task' \in [Tasks -> TaskRow]
        /\ attempt' \in [Drafts -> Outcome] /\ manual' \in [Drafts -> BOOLEAN]
    BY <1>1, <1>2, <1>4 DEF TypeOK
  <1>7. RowsAdvance
    BY <1>1, <1>2, <1>4, <1>5 DEF RowsAdvance
  <1>8. TablesInv'
    <2>1. RowsConsistent'
      BY <1>1, <1>4, <1>5 DEF TablesInv, RowsConsistent, Exists
    <2>2. AtMostOneMessage' /\ ChannelExclusive' /\ OutcomeHonest'
      BY <1>1, <1>2, <1>4, <1>5 DEF TablesInv, AtMostOneMessage, ChannelExclusive, OutcomeHonest
    <2>3. SentOnlyAfterApproval'
      BY <1>1, <1>2, <1>4, <1>5 DEF TablesInv, SentOnlyAfterApproval
    <2>4. RecipientCanonical'
      BY <1>1, <1>2, <1>4, <1>5 DEF TablesInv, RecipientCanonical, Exists
    <2>5. OneDraftPerRequest'
      BY <1>1, <1>4, <1>5 DEF TablesInv, OneDraftPerRequest, Exists, Fingerprint
    <2> QED
      BY <2>1, <2>2, <2>3, <2>4, <2>5 DEF TablesInv
  <1>9. "ok" \in Answers /\ "ok" \notin TerminalOutcome
    BY DEF Answers, TerminalOutcome
  <1> QED
    BY <1>1, <1>2, <1>6, <1>7, <1>8, <1>9, AnswerCommitInv

-----------------------------------------------------------------------------
(* Automatic delivery. *)

LEMMA SendStartInv ==
  ASSUME IInv, NEW p \in Procs, NEW d \in Drafts, SendStart(p, d)
  PROVE  IInv'
  <1> DEFINE args == [NoJob EXCEPT !.draft = d]
  <1>1. Begin(p, "send", "send_draft", args)
    BY DEF SendStart
  <1>2. args \in Job /\ args.draft = d /\ args.batch = {}
    BY Zenon, NoJobType DEF Job, NoJob
  <1>3. ProcessInv(p) /\ pc[p] = "idle" /\ writer' = writer
    BY <1>1 DEF IInv, Begin
  <1> HIDE DEF args
  <1>4. ASSUME pc'[p] = "send_draft", job'[p] = args
        PROVE  ProcessInv(p)'
    BY <1>1, <1>2, <1>3, <1>4
  <1> QED
    BY Zenon, <1>1, <1>2, <1>4, BeginInv DEF Labels, DatabaseLabels

LEMMA SendReadDraftInv ==
  ASSUME IInv, NEW p \in Procs, SendReadDraft(p)
  PROVE  IInv'
  <1> DEFINE row == draft[job[p].draft]
  <1>1. /\ ProcessInv(p) /\ pc[p] = "send_draft" /\ job[p] \in Job
        /\ job[p].draft \in Drafts /\ row \in DraftRow
        /\ row.status = "APPROVED" => row.approvedAt
    BY DEF IInv, TypeOK, SendReadDraft, TablesInv, RowsConsistent
  <1>2. CASE Fail(p, "not_found")
    BY Zenon, <1>2, FailInv DEF Answers, TerminalOutcome
  <1>3. CASE row.bound /\ Keep(p, row, "send_source")
    <2>1. ASSUME pc'[p] = "send_source", job'[p] = [job[p] EXCEPT !.seen = row]
          PROVE  ProcessInv(p)'
      BY <1>1, <1>3, <2>1 DEF Keep, tables, Job
    <2> QED
      BY ZenonT(30), <1>1, <1>3, <2>1, KeepInv DEF Labels, DatabaseLabels
  <1> QED
    BY <1>2, <1>3 DEF SendReadDraft

LEMMA SendReadSourceInv ==
  ASSUME IInv, NEW p \in Procs, SendReadSource(p)
  PROVE  IInv'
  <1>1. ProcessInv(p) /\ pc[p] = "send_source"
    BY DEF IInv, SendReadSource
  <1>2. CASE Fail(p, "stale")
    BY Zenon, <1>2, FailInv DEF Answers, TerminalOutcome
  <1>3. CASE Authoritative(job[p].seen) /\ Step(p, "send_attempt")
    <2>1. ASSUME pc'[p] = "send_attempt", job'[p] = job[p]
          PROVE  ProcessInv(p)'
      BY <1>1, <1>3, <2>1 DEF Step, tables, Authoritative
    <2> QED
      BY Zenon, <1>3, <2>1, StepInv DEF Labels, DatabaseLabels
  <1> QED
    BY <1>2, <1>3 DEF SendReadSource

LEMMA SendCheckInv ==
  ASSUME IInv, NEW p \in Procs, SendCheckAttempt(p) \/ SendCheckRecord(p)
  PROVE  IInv'
  <1>1. ProcessInv(p) /\ pc[p] \in {"send_attempt", "send_record"}
    BY DEF IInv, SendCheckAttempt, SendCheckRecord
  <1>2. CASE Fail(p, "already")
    BY Zenon, <1>2, FailInv DEF Answers, TerminalOutcome
  <1>3. ASSUME NEW label \in {"send_record", "send_claim"}, Step(p, label)
        PROVE  IInv'
    <2>1. ASSUME pc'[p] = label, job'[p] = job[p]
          PROVE  ProcessInv(p)'
      BY <1>1, <1>3, <2>1 DEF Step, tables
    <2> QED
      BY Zenon, <1>3, <2>1, StepInv DEF Labels, DatabaseLabels
  <1> QED
    BY <1>2, <1>3 DEF SendCheckAttempt, SendCheckRecord

LEMMA SendClaimInv ==
  ASSUME IInv, NEW p \in Procs, SendClaim(p)
  PROVE  IInv'
  <1>1. ProcessInv(p) /\ pc[p] = "send_claim"
    BY DEF IInv, SendClaim
  <1>2. CASE Fail(p, "already")
    BY Zenon, <1>2, FailInv DEF Answers, TerminalOutcome
  <1>3. CASE draft[job[p].draft].mode = "NONE" /\ Lock(p, "send_reserve")
    <2>1. ASSUME pc'[p] = "send_reserve", job'[p] = job[p]
          PROVE  ProcessInv(p)'
      BY <1>1, <1>3, <2>1 DEF Lock, tables
    <2> QED
      BY Zenon, <1>3, <2>1, LockInv DEF Labels, DatabaseLabels
  <1> QED
    BY <1>2, <1>3 DEF SendClaim

LEMMA SendReserveInv ==
  ASSUME IInv, NEW p \in Procs, SendReserve(p)
  PROVE  IInv'
  <1> DEFINE d == job[p].draft
             row == [draft[d] EXCEPT !.mode = "AUTOMATIC"]
  <1>1. /\ pc[p] = "send_reserve" /\ writer = p /\ TypeOK /\ TablesInv
        /\ d \in Drafts /\ draft[d].approvedAt /\ draft[d].bound /\ draft[d].mode = "NONE"
        /\ job[p].batch = {}
    BY DEF IInv, SendReserve
  <1>2. CASE Fail(p, "already")
    BY Zenon, <1>2, FailInv DEF Answers, TerminalOutcome
  <1>3. ASSUME attempt[d] = "NONE", attempt' = [attempt EXCEPT ![d] = "RESERVED"],
               draft' = [draft EXCEPT ![d].mode = "AUTOMATIC"], writer' = NoProc,
               Goto(p, "smtp"), UNCHANGED <<task, manual, accepted, job>>
        PROVE  IInv'
    <2>1. draft[d] \in DraftRow /\ accepted[d] \in Nat
      BY <1>1 DEF TypeOK
    <2>2. /\ row \in DraftRow /\ row.status = draft[d].status /\ row.task = draft[d].task
          /\ row.mode = "AUTOMATIC" /\ row.bound = draft[d].bound /\ row.email = draft[d].email
          /\ row.approvedAt = draft[d].approvedAt /\ Fingerprint(row) = Fingerprint(draft[d])
      BY <2>1 DEF DraftRow, DeliveryMode, Fingerprint
    <2>3. draft' = [draft EXCEPT ![d] = row]
      BY <1>3
    <2> HIDE DEF row
    <2>4. /\ draft'[d] = row /\ attempt'[d] = "RESERVED"
          /\ \A e \in Drafts \ {d} : draft'[e] = draft[e] /\ attempt'[e] = attempt[e]
      BY <1>1, <1>3, <2>3 DEF TypeOK
    <2>5. draft[d] # NoRow /\ Exists(d)
      <3>1. ~NoRow.bound
        BY DEF NoRow
      <3> QED
        BY <1>1, <3>1 DEF TablesInv, RowsConsistent
    <2>6. accepted[d] = 0
      BY <1>1, <1>3, <2>1 DEF TablesInv, OutcomeHonest, TerminalOutcome
    <2>7. ~manual[d]
      BY <1>1 DEF TablesInv, ChannelExclusive
    <2>8. TablesInv'
      <3>1. RowsConsistent'
        BY ZenonT(30), <1>1, <2>2, <2>4, <2>5 DEF TablesInv, RowsConsistent, Exists
      <3>2. AtMostOneMessage' /\ OutcomeHonest'
        BY <1>1, <1>3, <2>4 DEF TablesInv, AtMostOneMessage, OutcomeHonest
      <3>3. ChannelExclusive'
        BY <1>1, <1>3, <2>2, <2>4, <2>7 DEF TablesInv, ChannelExclusive
      <3>4. SentOnlyAfterApproval'
        BY <1>1, <1>3, <2>2, <2>4 DEF TablesInv, SentOnlyAfterApproval
      <3>5. RecipientCanonical'
        BY <1>1, <1>3, <2>2, <2>4 DEF TablesInv, RecipientCanonical, Exists
      <3>6. OneDraftPerRequest'
        <4>1. \A e \in Drafts : /\ draft'[e].status = draft[e].status
                               /\ Fingerprint(draft'[e]) = Fingerprint(draft[e])
          BY <2>2, <2>4
        <4> QED
          BY <1>1, <4>1 DEF TablesInv, OneDraftPerRequest, Exists, Fingerprint
      <3> QED
        BY <3>1, <3>2, <3>3, <3>4, <3>5, <3>6 DEF TablesInv
    <2>9. /\ draft' \in [Drafts -> DraftRow] /\ task' \in [Tasks -> TaskRow]
          /\ attempt' \in [Drafts -> Outcome] /\ manual' \in [Drafts -> BOOLEAN]
      BY <1>1, <1>3, <2>2, <2>3 DEF TypeOK, Outcome
    <2>10. RowsAdvance
      BY <1>1, <1>3, <2>2, <2>4 DEF RowsAdvance, TerminalOutcome
    <2>11. \A q \in Procs \ {p} : pc[q] \in OwnerLabels => job[q].draft # d
      <3> TAKE q \in Procs \ {p}
      <3>1. ProcessInv(q)
        BY DEF IInv
      <3> QED
        BY <1>3, <3>1
    <2>11a. \A e \in Drafts : attempt'[e] # attempt[e] =>
                \A q \in Procs \ {p} : pc[q] \in OwnerLabels => job[q].draft # e
      BY <2>4, <2>11
    <2>12. pc' = [pc EXCEPT ![p] = "smtp"] /\ job' = [job EXCEPT ![p] = job[p]]
      BY <1>1, <1>3 DEF Goto, TypeOK
    <2>13. pc'[p] = "smtp" /\ job'[p] = job[p] /\ job[p] \in Job /\ "smtp" \in Labels
      BY <1>1, <2>12 DEF TypeOK, Labels
    <2>14. ProcessInv(p)'
      BY <1>1, <1>3, <2>2, <2>4, <2>6, <2>13, NoProcAssumption
    <2> QED
      <3> HIDE DEF ProcessInv, OwnerLabels
      <3> QED
        BY Zenon, <1>1, <1>3, <2>8, <2>9, <2>10, <2>11, <2>11a, <2>12, <2>13, <2>14, CommitInv
  <1> QED
    BY <1>2, <1>3 DEF SendReserve

(* The server's answer reaches no other process: another owner has another *)
(* draft, and nobody else looks at what the server took.                   *)
LEMMA SmtpConversationInv ==
  ASSUME IInv, NEW p \in Procs, SmtpConversation(p)
  PROVE  IInv'
  <1> DEFINE d == job[p].draft
  <1>1. /\ pc[p] = "smtp" /\ d \in Drafts /\ attempt[d] = "RESERVED" /\ accepted[d] = 0
        /\ writer # p /\ job[p].batch = {} /\ TypeOK /\ TablesInv /\ OwnerExclusive
        /\ job[p] \in Job
    BY DEF IInv, TypeOK, SmtpConversation
  <1>2. ASSUME NEW verdict \in {"accepted", "refused"},
               Goto(p, "smtp_wait"), job' = [job EXCEPT ![p].target = verdict],
               UNCHANGED <<tables, writer>>,
               accepted' = IF verdict = "accepted"
                           THEN [accepted EXCEPT ![d] = @ + 1] ELSE accepted
        PROVE  IInv'
    <2> DEFINE j == [job[p] EXCEPT !.target = verdict]
    <2>1. j \in Job /\ j.draft = d /\ j.batch = {} /\ j.target = verdict
      BY Zenon, <1>1, <1>2 DEF Job, Targets
    <2>2. pc' = [pc EXCEPT ![p] = "smtp_wait"] /\ job' = [job EXCEPT ![p] = j]
      BY <1>2 DEF Goto
    <2> HIDE DEF j
    <2>3. /\ pc'[p] = "smtp_wait" /\ job'[p] = j
          /\ \A q \in Procs \ {p} : pc'[q] = pc[q] /\ job'[q] = job[q]
      BY <1>1, <2>2 DEF TypeOK
    <2>4. /\ accepted' \in [Drafts -> Nat]
          /\ accepted'[d] = IF verdict = "accepted" THEN 1 ELSE 0
          /\ \A e \in Drafts \ {d} : accepted'[e] = accepted[e]
      BY <1>1, <1>2 DEF TypeOK
    <2>5. TypeOK'
      BY <1>1, <1>2, <2>1, <2>2, <2>4 DEF TypeOK, tables, Labels
    <2>6. TablesInv'
      <3>1. RowsConsistent' /\ ChannelExclusive' /\ SentOnlyAfterApproval'
        BY <1>1, <1>2 DEF TablesInv, RowsConsistent, ChannelExclusive, SentOnlyAfterApproval,
           Exists, tables
      <3>2. RecipientCanonical' /\ OneDraftPerRequest'
        BY <1>1, <1>2 DEF TablesInv, RecipientCanonical, OneDraftPerRequest, Exists,
           Fingerprint, tables
      <3>3. AtMostOneMessage'
        BY <1>1, <2>4 DEF TablesInv, AtMostOneMessage
      <3>4. OutcomeHonest'
        BY <1>1, <1>2, <2>4 DEF TablesInv, OutcomeHonest, tables
      <3> QED
        BY <3>1, <3>2, <3>3, <3>4 DEF TablesInv
    <2>7. ProcessInv(p)'
      BY <1>1, <1>2, <2>1, <2>3, <2>4 DEF tables
    <2>8. ASSUME NEW q \in Procs, q # p
          PROVE  ProcessInv(q)'
      <3>1. ProcessInv(q) /\ pc'[q] = pc[q] /\ job'[q] = job[q]
        BY <2>3, <2>8 DEF IInv
      <3>2. pc[q] \in OwnerLabels => job[q].draft \in Drafts \ {d}
        BY <1>1, <2>8, <3>1 DEF OwnerExclusive
      <3>3. OwnerInformed(q)'
        <4>1. pc[q] \in OwnerLabels => accepted'[job[q].draft] = accepted[job[q].draft]
          BY <2>4, <3>2
        <4> QED
          BY Zenon, <1>2, <3>1, <4>1 DEF tables
      <3>4. LockHeld(q)' /\ FreshRowCarried(q)' /\ ReviewerInformed(q)' /\ SenderInformed(q)'
        BY Zenon, <1>2, <3>1 DEF tables, Exists
      <3>5. ManualInformed(q)' /\ TaskNamed(q)' /\ AnswerTrue(q)'
        BY ZenonT(30), <1>2, <3>1 DEF tables, Exists
      <3>6. RebinderInformed(q)'
        <4>1. RebinderInformed(q) /\ pc'[q] = pc[q] /\ job'[q] = job[q] /\ UNCHANGED <<draft, task>>
          BY <1>2, <3>1 DEF tables
        <4> HIDE DEF ProcessInv
        <4> QED
          BY Zenon, <4>1 DEF Exists, NoCollision, Fingerprint, Rebound
      <3> QED
        BY <3>3, <3>4, <3>5, <3>6 DEF ProcessInv
    <2>9. OwnerExclusive'
      BY <1>1, <2>1, <2>3 DEF OwnerExclusive
    <2> QED
      <3> HIDE DEF ProcessInv
      <3> QED
        BY <2>5, <2>6, <2>7, <2>8, <2>9 DEF IInv
  <1> QED
    BY <1>2 DEF SmtpConversation

LEMMA SmtpReportInv ==
  ASSUME IInv, NEW p \in Procs, SmtpReport(p)
  PROVE  IInv'
  <1>1. ProcessInv(p) /\ pc[p] = "smtp_wait" /\ job[p] \in Job
    BY DEF IInv, TypeOK, SmtpReport
  <1>2. PICK outcome \in Conclusions(job[p].target) :
            job' = [job EXCEPT ![p].target = outcome]
    BY Zenon DEF SmtpReport
  <1> DEFINE j == [job[p] EXCEPT !.target = outcome]
  <1>3. outcome \in TerminalOutcome
    BY <1>2 DEF Conclusions, TerminalOutcome
  <1>4. /\ j \in Job /\ j.draft = job[p].draft /\ j.batch = job[p].batch
        /\ j.target = outcome
    BY Zenon, <1>1, <1>3 DEF Job, Targets, Outcome
  <1>5. pc' = [pc EXCEPT ![p] = "settle"] /\ job' = [job EXCEPT ![p] = j]
    BY Zenon, <1>2 DEF SmtpReport, Goto
  <1> HIDE DEF j
  <1>6. pc'[p] = "settle" /\ job'[p] = j /\ UNCHANGED <<tables, accepted, writer>>
    BY <1>5 DEF IInv, TypeOK, SmtpReport
  <1>7. ProcessInv(p)'
    BY <1>1, <1>2, <1>4, <1>6 DEF tables, Conclusions
  <1>8. "settle" \in Labels
    BY DEF Labels, DatabaseLabels
  <1>9. pc[p] \in OwnerLabels
    BY <1>1
  <1> QED
    <2> HIDE DEF ProcessInv
    <2> QED
      BY Zenon, <1>4, <1>5, <1>6, <1>7, <1>8, <1>9, QuietStep

LEMMA SettleInv ==
  ASSUME IInv, NEW p \in Procs, Settle(p)
  PROVE  IInv'
  <1> DEFINE d == job[p].draft
             outcome == job[p].target
  <1>1. /\ pc[p] = "settle" /\ d \in Drafts /\ attempt[d] = "RESERVED" /\ writer = NoProc
        /\ job[p].batch = {} /\ TypeOK /\ TablesInv /\ OwnerExclusive
        /\ \/ outcome = "ACCEPTED" /\ accepted[d] = 1
           \/ outcome = "UNKNOWN"
           \/ outcome \in {"TRANSIENT_FAILURE", "PERMANENT_FAILURE"} /\ accepted[d] = 0
    BY DEF IInv, Settle
  <1>2. /\ attempt' = [attempt EXCEPT ![d] = outcome] /\ Answer(p, outcome)
        /\ UNCHANGED <<draft, task, manual, accepted>>
    BY <1>1 DEF Settle
  <1>3. outcome \in TerminalOutcome /\ outcome \in Answers /\ outcome \in Outcome
        /\ outcome # "ok" /\ outcome # "NONE"
    BY Zenon, <1>1 DEF TerminalOutcome, Answers, Outcome
  <1>4. attempt'[d] = outcome /\ \A e \in Drafts \ {d} : attempt'[e] = attempt[e]
    BY <1>1, <1>2 DEF TypeOK
  <1>5. /\ draft' \in [Drafts -> DraftRow] /\ task' \in [Tasks -> TaskRow]
        /\ attempt' \in [Drafts -> Outcome] /\ manual' \in [Drafts -> BOOLEAN]
    BY <1>1, <1>2, <1>3 DEF TypeOK
  <1>6. RowsAdvance
    BY <1>1, <1>2, <1>4 DEF RowsAdvance, TerminalOutcome
  <1>7. \A e \in Drafts : attempt'[e] # attempt[e] =>
            \A q \in Procs \ {p} : pc[q] \in OwnerLabels => job[q].draft # e
    BY <1>1, <1>4 DEF OwnerExclusive
  <1>8. TablesInv'
    <2>1. RowsConsistent' /\ AtMostOneMessage'
      BY <1>1, <1>2 DEF TablesInv, RowsConsistent, AtMostOneMessage, Exists
    <2>2. RecipientCanonical' /\ OneDraftPerRequest'
      BY <1>1, <1>2 DEF TablesInv, RecipientCanonical, OneDraftPerRequest, Exists, Fingerprint
    <2>3. ChannelExclusive' /\ SentOnlyAfterApproval'
      BY <1>1, <1>2, <1>3, <1>4 DEF TablesInv, ChannelExclusive, SentOnlyAfterApproval
    <2>4. OutcomeHonest'
      BY <1>1, <1>2, <1>4 DEF TablesInv, OutcomeHonest
    <2> QED
      BY <2>1, <2>2, <2>3, <2>4 DEF TablesInv
  <1> QED
    <2> HIDE DEF OwnerLabels
    <2> QED
      BY <1>1, <1>2, <1>3, <1>4, <1>5, <1>6, <1>7, <1>8, AnswerCommitInv

-----------------------------------------------------------------------------
(* The manual channel. *)

LEMMA SingleType ==
  ASSUME NEW d \in Drafts
  PROVE  /\ Single(d) \in Job /\ Single(d).draft = d
         /\ Single(d).batch = {d} /\ Single(d).left = {d}
  BY Zenon, NoJobType DEF Single, Job, NoJob

LEMMA SingleStartInv ==
  ASSUME IInv, NEW p \in Procs, NEW d \in Drafts, MarkStart(p, d) \/ ExternalStart(p, d)
  PROVE  IInv'
  <1>1. ASSUME NEW command, NEW label \in {"mark_draft", "ext_draft"},
               Begin(p, command, label, Single(d))
        PROVE  IInv'
    <2>1. ProcessInv(p) /\ pc[p] = "idle" /\ writer' = writer
      BY <1>1 DEF IInv, Begin
    <2>2. ASSUME pc'[p] = label, job'[p] = Single(d)
          PROVE  ProcessInv(p)'
      <3>1. job'[p].draft = d /\ job'[p].batch = {d} /\ job'[p].left = {d}
        BY <2>2, SingleType
      <3> QED
        BY <1>1, <2>1, <2>2, <3>1
    <2>3. label \in Labels \ OwnerLabels
      BY DEF Labels, DatabaseLabels
    <2> HIDE DEF ProcessInv, OwnerLabels
    <2> QED
      BY <1>1, <2>2, <2>3, SingleType, BeginInv
  <1> QED
    BY <1>1 DEF MarkStart, ExternalStart

LEMMA SingleReadDraftInv ==
  ASSUME IInv, NEW p \in Procs, MarkReadDraft(p) \/ ExternalReadDraft(p)
  PROVE  IInv'
  <1> DEFINE row == draft[job[p].draft]
  <1>1. /\ ProcessInv(p) /\ pc[p] \in {"mark_draft", "ext_draft"} /\ job[p] \in Job
        /\ job[p].draft \in Drafts /\ row \in DraftRow
    BY DEF IInv, TypeOK, MarkReadDraft, ExternalReadDraft
  <1>2. CASE Fail(p, "not_found")
    BY Zenon, <1>2, FailInv DEF Answers, TerminalOutcome
  <1>3. ASSUME NEW label \in {"mark_source", "ext_source"}, row.status # "ABSENT",
               Keep(p, row, label)
        PROVE  IInv'
    <2>1. ASSUME pc'[p] = label, job'[p] = [job[p] EXCEPT !.seen = row]
          PROVE  ProcessInv(p)'
      BY <1>1, <1>3, <2>1 DEF Keep, tables, Job, Exists
    <2> QED
      BY Zenon, <1>1, <1>3, <2>1, KeepInv DEF Labels, DatabaseLabels
  <1> QED
    BY SMTT(30), <1>2, <1>3 DEF MarkReadDraft, ExternalReadDraft

LEMMA SingleCheckInv ==
  ASSUME IInv, NEW p \in Procs,
         \/ MarkReadSource(p) \/ MarkCheckAttempt(p) \/ MarkCheckRecord(p)
         \/ ExternalReadSource(p) \/ ExternalCheckAttempt(p) \/ ExternalCheckRecord(p)
  PROVE  IInv'
  <1>1. ProcessInv(p) /\ pc[p] \in SingleLabels \ {"mark_draft", "ext_draft"}
    BY DEF IInv, MarkReadSource, MarkCheckAttempt, MarkCheckRecord, ExternalReadSource,
       ExternalCheckAttempt, ExternalCheckRecord
  <1>2. CASE \E a \in {"stale", "already"} : Fail(p, a)
    BY Zenon, <1>2, FailInv DEF Answers, TerminalOutcome
  <1>3. CASE manual[job[p].draft] /\ Answer(p, "ok") /\ UNCHANGED <<tables, accepted>>
    <2>1. \A d \in job[p].batch : manual[d]
      BY <1>1, <1>3
    <2> QED
      BY <1>3, <2>1, AnswerInv
  <1>4. ASSUME NEW label \in {"mark_attempt", "mark_record", "ext_attempt", "ext_record",
                              "manual_claim"},
               Step(p, label)
        PROVE  IInv'
    <2>1. ASSUME pc'[p] = label, job'[p] = job[p]
          PROVE  ProcessInv(p)'
      BY <1>1, <1>4, <2>1 DEF Step, tables, Exists
    <2> QED
      BY Zenon, <1>4, <2>1, StepInv DEF Labels, DatabaseLabels
  <1> QED
    BY SMTT(30), <1>2, <1>3, <1>4 DEF MarkReadSource, MarkCheckAttempt, MarkCheckRecord,
       ExternalReadSource, ExternalCheckAttempt, ExternalCheckRecord

LEMMA BatchStartInv ==
  ASSUME IInv, NEW p \in Procs, NEW drafts \in SUBSET Drafts, BatchStart(p, drafts)
  PROVE  IInv'
  <1> DEFINE args == [NoJob EXCEPT !.left = drafts, !.batch = drafts]
  <1>1. Begin(p, "record_batch", "batch_draft", args)
    BY DEF BatchStart
  <1>2. args \in Job /\ args.left = drafts /\ args.batch = drafts
    BY Zenon, NoJobType DEF Job, NoJob
  <1>3. ProcessInv(p) /\ pc[p] = "idle" /\ writer' = writer
    BY <1>1 DEF IInv, Begin
  <1> HIDE DEF args
  <1>4. ASSUME pc'[p] = "batch_draft", job'[p] = args
        PROVE  ProcessInv(p)'
    BY <1>2, <1>3, <1>4
  <1> QED
    BY Zenon, <1>1, <1>2, <1>4, BeginInv DEF Labels, DatabaseLabels

LEMMA BatchReadDraftInv ==
  ASSUME IInv, NEW p \in Procs, NEW d \in Drafts, BatchReadDraft(p, d)
  PROVE  IInv'
  <1>1. /\ ProcessInv(p) /\ pc[p] = "batch_draft" /\ job[p] \in Job /\ d \in job[p].left
        /\ draft[d] \in DraftRow
    BY DEF IInv, TypeOK, BatchReadDraft
  <1>2. CASE Fail(p, "not_found")
    BY Zenon, <1>2, FailInv DEF Answers, TerminalOutcome
  <1>3. ASSUME Exists(d), Goto(p, "batch_source"),
               job' = [job EXCEPT ![p].draft = d, ![p].seen = draft[d]],
               UNCHANGED <<tables, accepted, writer>>
        PROVE  IInv'
    <2> DEFINE j == [job[p] EXCEPT !.draft = d, !.seen = draft[d]]
    <2>1. j \in Job /\ j.draft = d /\ j.left = job[p].left /\ j.batch = job[p].batch
      BY Zenon, <1>1 DEF Job
    <2>2. pc' = [pc EXCEPT ![p] = "batch_source"] /\ job' = [job EXCEPT ![p] = j]
      <3>1. p \in DOMAIN job
        BY DEF IInv, TypeOK
      <3> HIDE DEF ProcessInv
      <3> QED
        BY Zenon, <1>3, <3>1 DEF Goto
    <2> HIDE DEF j
    <2>3. pc'[p] = "batch_source" /\ job'[p] = j
      BY <2>2 DEF IInv, TypeOK
    <2>4. ProcessInv(p)'
      BY <1>1, <1>3, <2>1, <2>3 DEF tables, Exists
    <2>5. "batch_source" \in Labels \ OwnerLabels
      BY DEF Labels, DatabaseLabels
    <2> QED
      <3> HIDE DEF ProcessInv
      <3> QED
        BY Zenon, <1>3, <2>1, <2>2, <2>4, <2>5, QuietStep
  <1> QED
    BY <1>2, <1>3 DEF BatchReadDraft

LEMMA BatchCheckInv ==
  ASSUME IInv, NEW p \in Procs, BatchReadSource(p) \/ BatchCheckAttempt(p)
  PROVE  IInv'
  <1>1. ProcessInv(p) /\ pc[p] \in {"batch_source", "batch_attempt"}
    BY DEF IInv, BatchReadSource, BatchCheckAttempt
  <1>2. CASE \E a \in {"stale", "already"} : Fail(p, a)
    BY Zenon, <1>2, FailInv DEF Answers, TerminalOutcome
  <1>3. ASSUME NEW label \in {"batch_attempt", "batch_record"}, Step(p, label)
        PROVE  IInv'
    <2>1. ASSUME pc'[p] = label, job'[p] = job[p]
          PROVE  ProcessInv(p)'
      BY <1>1, <1>3, <2>1 DEF Step, tables, Exists
    <2> QED
      BY Zenon, <1>3, <2>1, StepInv DEF Labels, DatabaseLabels
  <1> QED
    BY SMTT(30), <1>2, <1>3 DEF BatchReadSource, BatchCheckAttempt

LEMMA BatchCheckRecordInv ==
  ASSUME IInv, NEW p \in Procs, BatchCheckRecord(p)
  PROVE  IInv'
  <1> DEFINE rest == job[p].left \ {job[p].draft}
             left == IF rest = {} THEN job[p].batch ELSE rest
             label == IF rest = {} THEN "manual_claim" ELSE "batch_draft"
             j == [job[p] EXCEPT !.left = left]
  <1>1. ProcessInv(p) /\ pc[p] = "batch_record" /\ job[p] \in Job
    BY DEF IInv, TypeOK, BatchCheckRecord
  <1>2. CASE Fail(p, "already")
    BY Zenon, <1>2, FailInv DEF Answers, TerminalOutcome
  <1>3. CASE /\ Goto(p, label) /\ job' = [job EXCEPT ![p].left = left]
             /\ UNCHANGED <<tables, accepted, writer>>
    <2>1. j \in Job /\ j.batch = job[p].batch /\ j.left = left
      BY <1>1 DEF Job
    <2>2. pc' = [pc EXCEPT ![p] = label] /\ job' = [job EXCEPT ![p] = j]
      BY <1>3 DEF Goto
    <2> HIDE DEF j
    <2>3. pc'[p] = label /\ job'[p] = j
      BY <2>2 DEF IInv, TypeOK
    <2>4. \A d \in job[p].batch \ rest : Exists(d)
      <3>1. \A d \in job[p].batch \ job[p].left : Exists(d)
        BY <1>1
      <3>2. Exists(job[p].draft)
        BY <1>1
      <3> HIDE DEF ProcessInv
      <3> QED
        BY <3>1, <3>2
    <2>5. ProcessInv(p)'
      BY <1>1, <1>3, <2>1, <2>3, <2>4 DEF tables, Exists
    <2>6. label \in Labels \ OwnerLabels
      BY DEF Labels, DatabaseLabels
    <2> QED
      <3> HIDE DEF ProcessInv, label
      <3> QED
        BY Zenon, <1>3, <2>1, <2>2, <2>5, <2>6, QuietStep
  <1> QED
    BY <1>2, <1>3 DEF BatchCheckRecord

LEMMA ManualClaimInv ==
  ASSUME IInv, NEW p \in Procs, NEW d \in Drafts, ManualClaim(p, d)
  PROVE  IInv'
  <1> DEFINE rest == job[p].left \ {d}
             label == IF rest = {} THEN "manual_commit" ELSE "manual_claim"
             j == [job[p] EXCEPT !.left = rest]
  <1>1. ProcessInv(p) /\ pc[p] = "manual_claim" /\ job[p] \in Job /\ writer \in {NoProc, p}
    BY DEF IInv, TypeOK, ManualClaim
  <1>2. CASE Fail(p, "already")
    BY Zenon, <1>2, FailInv DEF Answers, TerminalOutcome
  <1>3. CASE /\ draft[d].mode = "NONE" /\ writer' = p /\ job' = [job EXCEPT ![p].left = rest]
             /\ Goto(p, label) /\ UNCHANGED <<tables, accepted>>
    <2>1. j \in Job /\ j.batch = job[p].batch /\ j.left = rest
      BY <1>1 DEF Job
    <2>2. pc' = [pc EXCEPT ![p] = label] /\ job' = [job EXCEPT ![p] = j]
      BY <1>3 DEF Goto
    <2> HIDE DEF j
    <2>3. pc'[p] = label /\ job'[p] = j
      BY <2>2 DEF IInv, TypeOK
    <2>4. ProcessInv(p)'
      BY <1>1, <1>3, <2>1, <2>3 DEF tables, Exists
    <2>5. label \in Labels \ OwnerLabels
      BY DEF Labels, DatabaseLabels
    <2> QED
      <3> HIDE DEF ProcessInv, label
      <3> QED
        BY Zenon, <1>1, <1>3, <2>1, <2>2, <2>4, <2>5, QuietStep
  <1> QED
    BY <1>2, <1>3 DEF ManualClaim

LEMMA ManualCommitInv ==
  ASSUME IInv, NEW p \in Procs, ManualCommit(p)
  PROVE  IInv'
  <1> DEFINE drafts == job[p].batch
  <1>1. /\ pc[p] = "manual_commit" /\ writer = p /\ TypeOK /\ TablesInv /\ job[p] \in Job
        /\ \A d \in drafts : Exists(d) /\ draft[d].mode = "NONE"
    BY DEF IInv, TypeOK, ManualCommit
  <1>2. /\ draft' = [d \in Drafts |-> IF d \in drafts THEN [draft[d] EXCEPT !.mode = "MANUAL"]
                                                      ELSE draft[d]]
        /\ manual' = [d \in Drafts |-> manual[d] \/ d \in drafts]
        /\ Answer(p, "ok") /\ UNCHANGED <<task, attempt, accepted>>
    BY DEF ManualCommit
  <1>3. drafts \subseteq Drafts
    BY <1>1 DEF Job
  <1>4. ASSUME NEW d \in Drafts
        PROVE  /\ draft'[d] \in DraftRow /\ draft'[d].status = draft[d].status
               /\ draft'[d].task = draft[d].task /\ draft'[d].bound = draft[d].bound
               /\ draft'[d].email = draft[d].email
               /\ draft'[d].approvedAt = draft[d].approvedAt
               /\ Fingerprint(draft'[d]) = Fingerprint(draft[d])
               /\ draft'[d].mode = IF d \in drafts THEN "MANUAL" ELSE draft[d].mode
               /\ d \notin drafts => draft'[d] = draft[d]
    <2>1. draft[d] \in DraftRow
      BY <1>1 DEF TypeOK
    <2>2. draft'[d] = IF d \in drafts THEN [draft[d] EXCEPT !.mode = "MANUAL"] ELSE draft[d]
      BY <1>2
    <2> QED
      BY <2>1, <2>2 DEF DraftRow, DeliveryMode, Fingerprint
  <1>5. \A d \in Drafts : manual'[d] <=> (manual[d] \/ d \in drafts)
    BY Zenon, <1>2
  <1>6. /\ draft' \in [Drafts -> DraftRow] /\ task' \in [Tasks -> TaskRow]
        /\ attempt' \in [Drafts -> Outcome] /\ manual' \in [Drafts -> BOOLEAN]
    BY <1>1, <1>2, <1>4 DEF TypeOK
  <1>7. RowsAdvance
    BY <1>2, <1>4, <1>5 DEF RowsAdvance
  <1>8. TablesInv'
    <2>1. RowsConsistent'
      BY <1>1, <1>4 DEF TablesInv, RowsConsistent, Exists
    <2>2. AtMostOneMessage' /\ OutcomeHonest'
      BY <1>1, <1>2 DEF TablesInv, AtMostOneMessage, OutcomeHonest
    <2>3. ChannelExclusive'
      BY <1>1, <1>2, <1>4, <1>5 DEF TablesInv, ChannelExclusive
    <2>4. SentOnlyAfterApproval'
      BY <1>1, <1>2, <1>4 DEF TablesInv, SentOnlyAfterApproval
    <2>5. RecipientCanonical'
      BY <1>1, <1>2, <1>4 DEF TablesInv, RecipientCanonical, Exists
    <2>6. OneDraftPerRequest'
      BY <1>1, <1>4 DEF TablesInv, OneDraftPerRequest, Exists, Fingerprint
    <2> QED
      BY <2>1, <2>2, <2>3, <2>4, <2>5, <2>6 DEF TablesInv
  <1>9. "ok" \in Answers /\ "ok" \notin TerminalOutcome
    BY DEF Answers, TerminalOutcome
  <1>10. \A d \in drafts : manual'[d]
    BY <1>3, <1>5
  <1> QED
    BY <1>1, <1>2, <1>6, <1>7, <1>8, <1>9, <1>10, AnswerCommitInv

-----------------------------------------------------------------------------
(* Rebinding. *)

LEMMA RebindStartInv ==
  ASSUME IInv, NEW p \in Procs, NEW d \in Drafts, RebindStart(p, d)
  PROVE  IInv'
  <1> DEFINE args == [NoJob EXCEPT !.draft = d]
  <1>1. Begin(p, "rebind", "rebind_lock", args)
    BY DEF RebindStart
  <1>2. args \in Job /\ args.draft = d /\ args.batch = {}
    BY Zenon, NoJobType DEF Job, NoJob
  <1>3. ProcessInv(p) /\ pc[p] = "idle" /\ writer' = writer
    BY <1>1 DEF IInv, Begin
  <1> HIDE DEF args
  <1>4. ASSUME pc'[p] = "rebind_lock", job'[p] = args
        PROVE  ProcessInv(p)'
    BY <1>2, <1>3, <1>4
  <1> QED
    BY Zenon, <1>1, <1>2, <1>4, BeginInv DEF Labels, DatabaseLabels

LEMMA RebindLockInv ==
  ASSUME IInv, NEW p \in Procs, RebindLock(p)
  PROVE  IInv'
  <1>1. ProcessInv(p) /\ pc[p] = "rebind_lock" /\ Lock(p, "rebind_check")
    BY DEF IInv, RebindLock
  <1>2. ASSUME pc'[p] = "rebind_check", job'[p] = job[p]
        PROVE  ProcessInv(p)'
    BY <1>1, <1>2 DEF Lock, tables
  <1> QED
    BY Zenon, <1>1, <1>2, LockInv DEF Labels, DatabaseLabels

LEMMA RebindCheckInv ==
  ASSUME IInv, NEW p \in Procs, RebindCheck(p)
  PROVE  IInv'
  <1> DEFINE d == job[p].draft
  <1>1. ProcessInv(p) /\ pc[p] = "rebind_check" /\ d \in Drafts
    BY DEF IInv, RebindCheck
  <1>2. CASE Fail(p, "conflict")
    BY Zenon, <1>2, FailInv DEF Answers, TerminalOutcome
  <1>3. CASE Exists(d) /\ Eligible(d) /\ NoCollision(d) /\ Step(p, "rebind_commit")
    <2>1. /\ draft[d].task \in Tasks /\ draft[d].mode = "NONE" /\ draft[d].status = "DRAFT"
          /\ task[draft[d].task].companyEmail = draft[d].email
          /\ task[draft[d].task].bound => task[draft[d].task].contactEmail = draft[d].email
      <3>1. RecipientCanonical /\ RowsConsistent
        BY DEF IInv, TablesInv
      <3>2. draft[d].task \in Tasks /\ task[draft[d].task] \in TaskRow /\ draft[d] \in DraftRow
        BY <1>1, <1>3, <3>1 DEF IInv, TypeOK, RowsConsistent
      <3> HIDE DEF ProcessInv
      <3> QED
        BY <1>1, <1>3, <3>1, <3>2 DEF Eligible, RecipientCanonical
    <2>2. UNCHANGED <<draft, task, writer, job>>
      BY <1>3 DEF Step, tables
    <2>3. NoCollision(d)'
      <3> HIDE DEF ProcessInv
      <3> QED
        BY Zenon, <1>3, <2>2 DEF NoCollision, Exists, Fingerprint, Rebound
    <2>4. ASSUME pc'[p] = "rebind_commit"
          PROVE  ProcessInv(p)'
      BY <1>1, <2>1, <2>2, <2>3, <2>4
    <2> QED
      BY Zenon, <1>3, <2>4, StepInv DEF Labels, DatabaseLabels
  <1> QED
    BY <1>2, <1>3 DEF RebindCheck

LEMMA RebindCommitInv ==
  ASSUME IInv, NEW p \in Procs, RebindCommit(p)
  PROVE  IInv'
  <1> DEFINE d == job[p].draft
             t == draft[d].task
             row == Rebound(draft[d])
             trow == ReboundTask(t)
  <1>1. /\ pc[p] = "rebind_commit" /\ writer = p /\ TypeOK /\ TablesInv
        /\ d \in Drafts /\ draft[d].mode = "NONE" /\ draft[d].status = "DRAFT"
        /\ task[t].companyEmail = draft[d].email
        /\ task[t].bound => task[t].contactEmail = draft[d].email
        /\ NoCollision(d) /\ job[p].batch = {}
    BY DEF IInv, RebindCommit
  <1>2. /\ draft' = [draft EXCEPT ![d] = row] /\ task' = [task EXCEPT ![t] = trow]
        /\ Answer(p, "ok") /\ UNCHANGED <<attempt, manual, accepted>>
    BY DEF RebindCommit
  <1>3. draft[d] \in DraftRow /\ Exists(d) /\ t \in Tasks /\ task[t] \in TaskRow
    BY <1>1 DEF TypeOK, TablesInv, RowsConsistent, Exists
  <1>4. /\ row \in DraftRow /\ row.status = "DRAFT" /\ row.task = t /\ row.mode = "NONE"
        /\ row.bound /\ row.email = draft[d].email /\ row.approvedAt = draft[d].approvedAt
    BY Zenon, <1>1, <1>3 DEF Rebound, DraftRow
  <1>5. /\ trow \in TaskRow /\ trow.bound /\ trow.contactEmail = draft[d].email
    BY Zenon, <1>1, <1>3 DEF ReboundTask, TaskRow
  <1>6. \A e \in Drafts \ {d} : Exists(e) => Fingerprint(draft[e]) # Fingerprint(row)
    BY <1>1 DEF NoCollision
  <1> HIDE DEF row, trow
  <1>7. /\ draft'[d] = row /\ \A e \in Drafts \ {d} : draft'[e] = draft[e]
        /\ task'[t] = trow /\ \A s \in Tasks \ {t} : task'[s] = task[s]
    BY <1>1, <1>2, <1>3 DEF TypeOK
  <1>8. /\ draft' \in [Drafts -> DraftRow] /\ task' \in [Tasks -> TaskRow]
        /\ attempt' \in [Drafts -> Outcome] /\ manual' \in [Drafts -> BOOLEAN]
    BY Zenon, <1>1, <1>2, <1>4, <1>5 DEF TypeOK
  <1>9. RowsAdvance
    BY <1>1, <1>2, <1>4, <1>5, <1>7 DEF RowsAdvance
  <1>10. TablesInv'
    <2>1. RowsConsistent'
      BY <1>1, <1>3, <1>4, <1>7 DEF TablesInv, RowsConsistent, Exists
    <2>2. AtMostOneMessage' /\ ChannelExclusive' /\ OutcomeHonest'
      BY <1>1, <1>2, <1>4, <1>7 DEF TablesInv, AtMostOneMessage, ChannelExclusive, OutcomeHonest
    <2>3. SentOnlyAfterApproval'
      BY <1>1, <1>2, <1>4, <1>7 DEF TablesInv, SentOnlyAfterApproval
    <2>4. RecipientCanonical'
      <3>1. \A s \in Tasks : task[s].bound => /\ task'[s].bound
                                              /\ task'[s].contactEmail = task[s].contactEmail
        BY <1>9 DEF RowsAdvance
      <3>2. \A e \in Drafts : Exists(e) => draft[e].task \in Tasks
        BY <1>1 DEF TablesInv, RowsConsistent
      <3>3. RecipientCanonical
        BY <1>1 DEF TablesInv
      <3> QED
        BY <1>4, <1>5, <1>7, <3>1, <3>2, <3>3 DEF RecipientCanonical, Exists
    <2>5. OneDraftPerRequest'
      BY <1>1, <1>6, <1>7 DEF TablesInv, OneDraftPerRequest, Exists, Fingerprint
    <2> QED
      BY <2>1, <2>2, <2>3, <2>4, <2>5 DEF TablesInv
  <1>11. "ok" \in Answers /\ "ok" \notin TerminalOutcome
    BY DEF Answers, TerminalOutcome
  <1> QED
    BY <1>1, <1>2, <1>8, <1>9, <1>10, <1>11, AnswerCommitInv

-----------------------------------------------------------------------------
(* Task lifecycle and enrichment: they write the task only.                *)

LEMMA TaskStartInv ==
  ASSUME IInv, NEW p \in Procs, NEW t \in Tasks, NEW target \in TaskStatus,
         TaskStart(p, t, target) \/ EnrichStart(p, t)
  PROVE  IInv'
  <1>1. ASSUME NEW command, NEW label \in {"task_read", "enrich_read"}, NEW args \in Job,
               args.task = t, args.batch = {}, Begin(p, command, label, args)
        PROVE  IInv'
    <2>1. ProcessInv(p) /\ pc[p] = "idle" /\ writer' = writer
      BY <1>1 DEF IInv, Begin
    <2>2. ASSUME pc'[p] = label, job'[p] = args
          PROVE  ProcessInv(p)'
      BY <1>1, <2>1, <2>2
    <2>3. label \in Labels \ OwnerLabels
      BY DEF Labels, DatabaseLabels
    <2> QED
      <3> HIDE DEF ProcessInv, OwnerLabels
      <3> QED
        BY <1>1, <2>2, <2>3, BeginInv
  <1>2. CASE TaskStart(p, t, target)
    <2> DEFINE args == [NoJob EXCEPT !.task = t, !.target = target]
    <2>1. args \in Job /\ args.task = t /\ args.batch = {}
      BY Zenon, NoJobType DEF Job, NoJob, Targets
    <2>2. Begin(p, "task", "task_read", args)
      BY <1>2 DEF TaskStart
    <2> HIDE DEF args
    <2> QED
      BY <1>1, <2>1, <2>2
  <1>3. CASE EnrichStart(p, t)
    <2> DEFINE args == [NoJob EXCEPT !.task = t]
    <2>1. args \in Job /\ args.task = t /\ args.batch = {}
      BY Zenon, NoJobType DEF Job, NoJob
    <2>2. Begin(p, "enrich", "enrich_read", args)
      BY <1>3 DEF EnrichStart
    <2> HIDE DEF args
    <2> QED
      BY <1>1, <2>1, <2>2
  <1> QED
    BY <1>2, <1>3

LEMMA TaskReadInv ==
  ASSUME IInv, NEW p \in Procs, TaskRead(p)
  PROVE  IInv'
  <1>1. ProcessInv(p) /\ pc[p] = "task_read" /\ job[p].batch = {} /\ job[p].task \in Tasks
        /\ task[job[p].task].status \in TaskStatus
    BY DEF IInv, TypeOK, TaskRead, TaskRow
  <1>2. CASE Fail(p, "transition")
    BY Zenon, <1>2, FailInv DEF Answers, TerminalOutcome
  <1>3. CASE Answer(p, "ok") /\ UNCHANGED <<tables, accepted>>
    BY <1>1, <1>3, AnswerInv
  <1>4. CASE job[p].target \in TaskStatus /\ Step(p, "task_write")
    <2>1. ASSUME pc'[p] = "task_write", job'[p] = job[p]
          PROVE  ProcessInv(p)'
      BY <1>1, <1>4, <2>1 DEF Step, tables
    <2> QED
      BY Zenon, <1>4, <2>1, StepInv DEF Labels, DatabaseLabels
  <1>5. \A status \in TaskStatus : AllowedTransitions[status] \subseteq TaskStatus
    BY DEF TaskStatus, AllowedTransitions
  <1> QED
    <2> HIDE DEF ProcessInv
    <2> QED
      BY SMTT(30), <1>1, <1>2, <1>3, <1>4, <1>5 DEF TaskRead

LEMMA EnrichReadInv ==
  ASSUME IInv, NEW p \in Procs, EnrichRead(p)
  PROVE  IInv'
  <1>1. /\ ProcessInv(p) /\ pc[p] = "enrich_read" /\ job[p].batch = {} /\ job[p] \in Job
    BY DEF IInv, TypeOK, EnrichRead
  <1>2. CASE Answer(p, "ok") /\ UNCHANGED <<tables, accepted>>
    BY <1>1, <1>2, AnswerInv
  <1>3. ASSUME NEW found \in Emails, Goto(p, "enrich_write"),
               job' = [job EXCEPT ![p].email = found], UNCHANGED <<tables, accepted, writer>>
        PROVE  IInv'
    <2> DEFINE j == [job[p] EXCEPT !.email = found]
    <2>1. j \in Job /\ j.task = job[p].task /\ j.batch = {}
      BY <1>1 DEF Job
    <2>2. pc' = [pc EXCEPT ![p] = "enrich_write"] /\ job' = [job EXCEPT ![p] = j]
      BY <1>3 DEF Goto
    <2> HIDE DEF j
    <2>3. pc'[p] = "enrich_write" /\ job'[p] = j
      BY <2>2 DEF IInv, TypeOK
    <2>4. ProcessInv(p)'
      BY <1>1, <1>3, <2>1, <2>3 DEF tables
    <2>5. "enrich_write" \in Labels \ OwnerLabels
      BY DEF Labels, DatabaseLabels
    <2> QED
      <3> HIDE DEF ProcessInv
      <3> QED
        BY Zenon, <1>3, <2>1, <2>2, <2>4, <2>5, QuietStep
  <1> QED
    <2> HIDE DEF ProcessInv
    <2> QED
      BY <1>2, <1>3 DEF EnrichRead

(* A commit that changes neither who a task is for nor where.              *)
LEMMA TaskCommitInv ==
  ASSUME IInv, NEW p \in Procs, NEW t \in Tasks, NEW row \in TaskRow,
         writer = NoProc, task' = [task EXCEPT ![t] = row],
         row.bound = task[t].bound, row.contactEmail = task[t].contactEmail,
         Answer(p, "ok"), UNCHANGED <<draft, attempt, manual, accepted>>, job[p].batch = {}
  PROVE  IInv'
  <1>1. TypeOK /\ TablesInv
    BY DEF IInv
  <1>2. \A s \in Tasks : task'[s].bound = task[s].bound /\ task'[s].contactEmail = task[s].contactEmail
    BY <1>1 DEF TypeOK
  <1>3. RowsAdvance
    BY <1>2 DEF RowsAdvance
  <1>4. /\ draft' \in [Drafts -> DraftRow] /\ task' \in [Tasks -> TaskRow]
        /\ attempt' \in [Drafts -> Outcome] /\ manual' \in [Drafts -> BOOLEAN]
    BY <1>1 DEF TypeOK
  <1>5. TablesInv'
    <2>1. RecipientCanonical'
      BY <1>1, <1>2 DEF TablesInv, RecipientCanonical, RowsConsistent, Exists
    <2>2. RowsConsistent' /\ AtMostOneMessage' /\ ChannelExclusive' /\ OutcomeHonest'
      BY <1>1 DEF TablesInv, RowsConsistent, AtMostOneMessage, ChannelExclusive, OutcomeHonest,
         Exists
    <2>3. SentOnlyAfterApproval' /\ OneDraftPerRequest'
      BY <1>1 DEF TablesInv, SentOnlyAfterApproval, OneDraftPerRequest, Exists, Fingerprint
    <2> QED
      BY <2>1, <2>2, <2>3 DEF TablesInv
  <1>6. "ok" \in Answers /\ "ok" \notin TerminalOutcome
    BY DEF Answers, TerminalOutcome
  <1> QED
    BY <1>3, <1>4, <1>5, <1>6, AnswerCommitInv

LEMMA TaskWriteInv ==
  ASSUME IInv, NEW p \in Procs, TaskWrite(p) \/ EnrichWrite(p)
  PROVE  IInv'
  <1> DEFINE t == job[p].task
  <1>1. /\ pc[p] \in {"task_write", "enrich_write"} /\ job[p].batch = {} /\ t \in Tasks
        /\ task[t] \in TaskRow /\ job[p] \in Job
        /\ pc[p] = "task_write" => job[p].target \in TaskStatus
    BY DEF IInv, TypeOK, TaskWrite, EnrichWrite
  <1>2. CASE TaskWrite(p)
    <2> DEFINE row == [task[t] EXCEPT !.status = job[p].target]
    <2>1. row \in TaskRow /\ row.bound = task[t].bound /\ row.contactEmail = task[t].contactEmail
      BY <1>1, <1>2 DEF TaskRow, TaskWrite
    <2>2. task' = [task EXCEPT ![t] = row]
      BY <1>2 DEF TaskWrite
    <2> HIDE DEF row
    <2> QED
      BY Zenon, <1>1, <1>2, <2>1, <2>2, TaskCommitInv DEF TaskWrite
  <1>3. CASE EnrichWrite(p)
    <2> DEFINE row == [task[t] EXCEPT !.companyEmail = job[p].email]
    <2>1. row \in TaskRow /\ row.bound = task[t].bound /\ row.contactEmail = task[t].contactEmail
      BY <1>1 DEF TaskRow, Job
    <2>2. task' = [task EXCEPT ![t] = row]
      BY <1>3 DEF EnrichWrite
    <2> HIDE DEF row
    <2> QED
      BY Zenon, <1>1, <1>3, <2>1, <2>2, TaskCommitInv DEF EnrichWrite
  <1> QED
    BY <1>2, <1>3

-----------------------------------------------------------------------------
(* The flow. *)

LEMMA InitInv == Init => IInv
  <1> SUFFICES ASSUME Init
               PROVE  IInv
    OBVIOUS
  <1>1. TypeOK
    BY InitType
  <1>2. \A d \in Drafts : draft[d] = NoRow /\ attempt[d] = "NONE" /\ ~manual[d] /\ accepted[d] = 0
    BY DEF Init
  <1>3. /\ NoRow.status = "ABSENT" /\ ~NoRow.bound /\ ~NoRow.approvedAt /\ NoRow.mode = "NONE"
    BY DEF NoRow
  <1>4. TablesInv
    BY <1>2, <1>3 DEF TablesInv, RowsConsistent, AtMostOneMessage, ChannelExclusive,
       OutcomeHonest, SentOnlyAfterApproval, RecipientCanonical, OneDraftPerRequest, Exists
  <1>5. \A p \in Procs : pc[p] = "idle" /\ job[p] = NoJob /\ writer # p
    BY NoProcAssumption DEF Init
  <1>6. ASSUME NEW p \in Procs
        PROVE  ProcessInv(p)
    BY <1>5, NoJobType
  <1>7. OwnerExclusive
    BY <1>5 DEF OwnerExclusive
  <1> QED
    <2> HIDE DEF ProcessInv
    <2> QED
      BY <1>1, <1>4, <1>6, <1>7 DEF IInv

LEMMA StutterInv == IInv /\ UNCHANGED vars => IInv'
  <1> SUFFICES ASSUME IInv, UNCHANGED vars
               PROVE  IInv'
    OBVIOUS
  <1>1. TypeOK' /\ OwnerExclusive'
    BY DEF IInv, TypeOK, OwnerExclusive, vars
  <1>2. TablesInv'
    BY QuietTables DEF IInv, vars, tables
  <1>3. ASSUME NEW p \in Procs
        PROVE  ProcessInv(p)'
    <2>1. ProcessInv(p)
      BY DEF IInv
    <2>2. RebinderInformed(p)'
      <3>1. RebinderInformed(p) /\ UNCHANGED vars
        BY <2>1
      <3> HIDE DEF ProcessInv
      <3> QED
        BY Zenon, <3>1 DEF vars, NoCollision, Exists, Fingerprint, Rebound
    <2>3. LockHeld(p)' /\ FreshRowCarried(p)' /\ ReviewerInformed(p)' /\ SenderInformed(p)'
      BY <2>1 DEF vars, Exists
    <2>4. OwnerInformed(p)' /\ ManualInformed(p)' /\ TaskNamed(p)' /\ AnswerTrue(p)'
      BY <2>1 DEF vars, Exists
    <2> QED
      BY <2>2, <2>3, <2>4 DEF ProcessInv
  <1> QED
    <2> HIDE DEF ProcessInv
    <2> QED
      BY <1>1, <1>2, <1>3 DEF IInv

LEMMA NextInv == IInv /\ [Next]_vars => IInv'
  <1> HIDE DEF ProcessInv
  <1> SUFFICES ASSUME IInv, [Next]_vars
               PROVE  IInv'
    OBVIOUS
  <1>1. CASE UNCHANGED vars
    BY <1>1, StutterInv
  <1>2. ASSUME NEW p \in Procs, CommandStep(p) \/ ProcessStep(p)
        PROVE  IInv'
    <2>1. CASE ProcessStep(p)
      BY <2>1, ProcessStepInv
    <2>2. CASE GenerationStep(p)
      BY <2>2, GenerateStartInv, GenerateReadInv, CallProviderInv, GenerateRecheckInv,
         GenerateInsertInv DEF GenerationStep
    <2>3. CASE ReviewStep(p)
      BY <2>3, ReviewStartInv, ReviewReadDraftInv, ReviewReadSourceInv, ReviewFlushInv,
         ReviewCommitInv DEF ReviewStep
    <2>4. CASE DeliveryStep(p)
      BY <2>4, SendStartInv, SendReadDraftInv, SendReadSourceInv, SendCheckInv, SendClaimInv,
         SendReserveInv, SmtpConversationInv, SmtpReportInv, SettleInv DEF DeliveryStep
    <2>5. CASE ManualStep(p)
      BY <2>5, SingleStartInv, SingleReadDraftInv, SingleCheckInv, BatchStartInv,
         BatchReadDraftInv, BatchCheckInv, BatchCheckRecordInv, ManualClaimInv,
         ManualCommitInv DEF ManualStep
    <2>6. CASE RebindStep(p)
      BY <2>6, RebindStartInv, RebindLockInv, RebindCheckInv, RebindCommitInv DEF RebindStep
    <2>7. CASE LifecycleStep(p)
      <3>1. {"IN_PROGRESS", "DONE", "CANCELLED"} \subseteq TaskStatus
        BY DEF TaskStatus
      <3> QED
        BY <2>7, <3>1, TaskStartInv, TaskReadInv, TaskWriteInv DEF LifecycleStep
    <2>8. CASE EnrichmentStep(p)
      <3>1. "DONE" \in TaskStatus
        BY DEF TaskStatus
      <3> QED
        BY <2>8, <3>1, TaskStartInv, EnrichReadInv, TaskWriteInv DEF EnrichmentStep
    <2> QED
      BY <1>2, <2>1, <2>2, <2>3, <2>4, <2>5, <2>6, <2>7, <2>8 DEF CommandStep
  <1> QED
    BY <1>1, <1>2 DEF Next

(* The invariant holds of every behaviour.                                 *)
THEOREM Invariance == Spec => []IInv
  BY InitInv, NextInv, PTL DEF Spec

=============================================================================
