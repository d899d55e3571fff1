--------------------------- MODULE ContactsProof ---------------------------
(***************************************************************************)
(* The proofs about ContactCandidates: the inductive invariant, what it    *)
(* says of plans and answers, the ledger of promotions, and the bound on   *)
(* outreach tasks.  What a process relies on depends on the tables only    *)
(* while it is inside a transaction, and then nobody else commits          *)
(* (OtherInv): a step that commits nothing has only its own process to     *)
(* look at (QuietStep), and a commit only the rows (CommitStep).           *)
(***************************************************************************)
EXTENDS ContactCandidates, FiniteSetTheorems, TLAPS

-----------------------------------------------------------------------------
(* Types. *)

LEMMA NoRowsType ==
  /\ NoCandidateRow \in CandidateRow /\ NoOffer \in Offer /\ NoContactRow \in ContactRow
  /\ NoLeadRow \in LeadRow /\ NoTaskRow \in TaskRow
  BY DEF NoCandidateRow, CandidateRow, CandidateStatus, NoOffer, Offer, NoContactRow, ContactRow,
         NoLeadRow, LeadRow, NoTaskRow, TaskRow

LEMMA NoJobType == NoJob \in Job
  BY BoundAssumption, NoRowsType DEF NoJob, Job, CandidateStatus, Answers

LEMMA LabelTypes ==
  /\ DatabaseLabels \subseteq Labels /\ NetworkLabels \subseteq Labels
  /\ LockedLabels \subseteq DatabaseLabels
  /\ "idle" \in Labels /\ "done" \in Labels
  BY DEF Labels, DatabaseLabels, LockedLabels

LEMMA InitType == Init => TypeOK
  <1> SUFFICES ASSUME Init
               PROVE  TypeOK
    OBVIOUS
  <1>1. candidate \in [Candidates -> CandidateRow] /\ contact \in [Contacts -> ContactRow]
    BY NoRowsType DEF Init
  <1>2. lead \in [Leads -> LeadRow] /\ task \in [Tasks -> TaskRow]
    BY NoRowsType DEF Init
  <1>3. handoff \in [1..LastCheck -> Offer] /\ job \in [Procs -> Job]
    BY NoRowsType, NoJobType DEF Init
  <1>4. state \in StateRow /\ mailbox \in Mailbox
    BY BoundAssumption DEF Init, StateRow, Mailbox
  <1>5. pc \in [Procs -> Labels]
    BY LabelTypes DEF Init
  <1> QED
    BY <1>1, <1>2, <1>3, <1>4, <1>5 DEF Init, TypeOK, TablesOK

(* What a process remembers once it has answered.                          *)
LEMMA AnswerType ==
  ASSUME NEW a \in Answers, NEW k \in Contacts \union {NoContact}
  PROVE  [NoJob EXCEPT !.answer = a, !.contact = k] \in Job
  BY NoJobType DEF Job

-----------------------------------------------------------------------------
(* Who moves, and who does not. *)

LEMMA OtherInv ==
  ASSUME RowsInv, NEW p \in Procs, NEW q \in Procs, q # p,
         pc'[q] = pc[q], job'[q] = job[q], mix' = mix,
         \/ UNCHANGED tables /\ writer' = writer
         \/ UNCHANGED tables /\ writer \in {NoProc, p} /\ writer' \in {NoProc, p}
         \/ writer \in {NoProc, p} /\ writer' = NoProc
  PROVE  ProcessInv(q)'
  <1>1. ProcessInv(q)
    BY DEF RowsInv
  <1>2. LockHeld(q)'
    BY <1>1, NoProcAssumption DEF ProcessInv, LockHeld
  <1>3. Named(q)'
    BY <1>1 DEF ProcessInv, Named
  <1>4. Informed(q)'
    <2>1. CASE writer \in {NoProc, p}
      <3>1. pc[q] \notin LockedLabels
        BY <1>1, <2>1, NoProcAssumption DEF ProcessInv, LockHeld
      <3> QED
        BY <3>1 DEF Informed, LockedLabels
    <2>2. CASE UNCHANGED tables
      BY <1>1, <2>2 DEF ProcessInv, Informed, tables, crm, found, IsDuplicate, At, Live, TokenMatches,
         Preexisting, LeadFits, TaskFits, LeadsOf, TasksOf, LiveLeads, LiveTasks
    <2> QED
      BY <2>1, <2>2
  <1> QED
    BY <1>2, <1>3, <1>4 DEF ProcessInv

LEMMA QuietStep ==
  ASSUME RowsInv, NEW p \in Procs, NEW label \in Labels, NEW j \in Job,
         UNCHANGED <<tables, mix>>,
         pc' = [pc EXCEPT ![p] = label], job' = [job EXCEPT ![p] = j],
         \/ writer' = writer
         \/ writer \in {NoProc, p} /\ writer' \in {NoProc, p},
         ProcessInv(p)'
  PROVE  RowsInv'
  <1>1. TypeOK'
    BY DEF RowsInv, TypeOK, TablesOK, tables, crm, found
  <1>2. LinksInv' /\ RecordsInv'
    BY DEF RowsInv, LinksInv, RecordsInv, LiveLeads, LiveTasks, Live, tables, crm, found
  <1>3. \A q \in Procs : ProcessInv(q)'
    <2> TAKE q \in Procs
    <2>1. CASE q = p
      BY <2>1
    <2>2. CASE q # p
      <3>1. pc'[q] = pc[q] /\ job'[q] = job[q]
        BY <2>2 DEF RowsInv, TypeOK
      <3> QED
        BY <2>2, <3>1, OtherInv
    <2> QED
      BY <2>1, <2>2
  <1> QED
    BY <1>1, <1>2, <1>3 DEF RowsInv

(* A process that has answered relies on nothing.                          *)
LEMMA AnsweredInv ==
  ASSUME RowsInv, NEW p \in Procs, NEW a \in Answers, NEW k \in Contacts \union {NoContact},
         Answer(p, a, k), writer' # p
  PROVE  /\ \E j \in Job : pc' = [pc EXCEPT ![p] = "done"] /\ job' = [job EXCEPT ![p] = j]
         /\ job'[p].answer = a /\ job'[p].contact = k
         /\ ProcessInv(p)'
  <1> DEFINE j == [NoJob EXCEPT !.answer = a, !.contact = k]
  <1>1. j \in Job /\ j.todo = {} /\ j.answer = a /\ j.contact = k
    BY AnswerType DEF NoJob
  <1>2. pc' = [pc EXCEPT ![p] = "done"] /\ job' = [job EXCEPT ![p] = j]
    BY DEF Answer, Goto
  <1> HIDE DEF j
  <1>3. pc'[p] = "done" /\ job'[p] = j
    BY <1>2 DEF RowsInv, TypeOK
  <1>4. ProcessInv(p)'
    BY <1>1, <1>3 DEF ProcessInv, LockHeld, Named, Informed, LockedLabels, CandidateLabels
  <1> QED
    BY <1>1, <1>2, <1>3, <1>4

(* An answer that commits nothing, and giving up.                          *)
LEMMA AnswerInv ==
  ASSUME RowsInv, NEW p \in Procs, NEW a \in Answers, NEW k \in Contacts \union {NoContact},
         Answer(p, a, k), GiveLock(p), UNCHANGED tables
  PROVE  RowsInv'
  <1>1. /\ writer' # p
        /\ \/ writer' = writer
           \/ writer \in {NoProc, p} /\ writer' \in {NoProc, p}
    BY NoProcAssumption DEF GiveLock
  <1>2. PICK j \in Job : pc' = [pc EXCEPT ![p] = "done"] /\ job' = [job EXCEPT ![p] = j]
    BY <1>1, AnsweredInv
  <1>3. ProcessInv(p)' /\ mix' = mix
    BY <1>1, AnsweredInv DEF Answer
  <1> QED
    BY <1>1, <1>2, <1>3, QuietStep, LabelTypes

LEMMA FailInv ==
  ASSUME RowsInv, NEW p \in Procs, NEW a \in Answers, Fail(p, a)
  PROVE  RowsInv'
  BY AnswerInv DEF Fail

(* A commit answers at once, and only the rows are left to look at.        *)
LEMMA CommitStep ==
  ASSUME RowsInv, NEW p \in Procs, NEW a \in Answers, NEW k \in Contacts \union {NoContact},
         Answer(p, a, k), writer \in {NoProc, p}, writer' = NoProc,
         TablesOK', LinksInv', RecordsInv'
  PROVE  RowsInv'
  <1>1. writer' # p
    BY NoProcAssumption
  <1>2. PICK j \in Job : pc' = [pc EXCEPT ![p] = "done"] /\ job' = [job EXCEPT ![p] = j]
    BY <1>1, AnsweredInv
  <1>3. ProcessInv(p)' /\ mix' = mix
    BY <1>1, AnsweredInv DEF Answer
  <1>4. TypeOK'
    BY <1>2, <1>3, LabelTypes DEF RowsInv, TypeOK
  <1>5. \A q \in Procs : ProcessInv(q)'
    <2> TAKE q \in Procs
    <2>1. CASE q # p
      <3>1. pc'[q] = pc[q] /\ job'[q] = job[q]
        BY <1>2, <2>1 DEF RowsInv, TypeOK
      <3> QED
        BY <1>3, <2>1, <3>1, OtherInv
    <2> QED
      BY <1>3, <2>1
  <1> QED
    BY <1>4, <1>5 DEF RowsInv

(* A step that only moves the process, one that takes the lock, one that   *)
(* keeps what it read, one that begins a command.                          *)
LEMMA StepInv ==
  ASSUME RowsInv, NEW p \in Procs, NEW label \in Labels, NEW j \in Job, Step(p, label, j),
         pc'[p] = label /\ job'[p] = j => ProcessInv(p)'
  PROVE  RowsInv'
  <1>1. pc' = [pc EXCEPT ![p] = label] /\ job' = [job EXCEPT ![p] = j]
    BY DEF Step, Goto
  <1>2. pc'[p] = label /\ job'[p] = j
    BY <1>1 DEF RowsInv, TypeOK
  <1> QED
    BY Zenon, <1>1, <1>2, QuietStep DEF Step

LEMMA LockInv ==
  ASSUME RowsInv, NEW p \in Procs, NEW label \in Labels, Lock(p, label),
         pc'[p] = label /\ job'[p] = job[p] => ProcessInv(p)'
  PROVE  RowsInv'
  <1>1. pc' = [pc EXCEPT ![p] = label] /\ job' = [job EXCEPT ![p] = job[p]]
    BY DEF Lock, Goto, RowsInv, TypeOK
  <1>2. job[p] \in Job /\ pc'[p] = label /\ job'[p] = job[p]
    BY <1>1 DEF RowsInv, TypeOK
  <1>3. writer \in {NoProc, p} /\ writer' \in {NoProc, p}
    BY DEF Lock, TakeLock
  <1> QED
    BY Zenon, <1>1, <1>2, <1>3, QuietStep DEF Lock

LEMMA BeginInv ==
  ASSUME RowsInv, NEW p \in Procs, NEW command, NEW label \in Labels \ LockedLabels, NEW args \in Job,
         Begin(p, command, label, args),
         pc'[p] = label /\ command \in mix' /\ job'[p] = [args EXCEPT !.command = command] =>
             Named(p)'
  PROVE  RowsInv'
  <1> DEFINE j == [args EXCEPT !.command = command]
  <1>1. mix \in Mixes /\ j \in Job
    BY ZenonT(40) DEF Begin, Job, Commands, RowsInv, TypeOK
  <1>2. pc' = [pc EXCEPT ![p] = label] /\ job' = [job EXCEPT ![p] = j] /\ UNCHANGED <<tables, mix, writer>>
    BY DEF Begin, Goto
  <1>3. pc'[p] = label /\ job'[p] = j /\ command \in mix'
    BY <1>2 DEF RowsInv, TypeOK, Begin
  <1>4. LockHeld(p)' /\ Informed(p)'
    BY <1>2, <1>3 DEF Begin, RowsInv, ProcessInv, LockHeld, LockedLabels, Informed
  <1>5. ProcessInv(p)'
    BY <1>3, <1>4 DEF ProcessInv
  <1> QED
    <2> HIDE DEF j
    <2> QED
      BY Zenon, <1>1, <1>2, <1>5, QuietStep

LEMMA ProcessStepInv ==
  ASSUME RowsInv, NEW p \in Procs, ProcessStep(p)
  PROVE  RowsInv'
  <1>1. ASSUME Exit(p) \/ Crash(p)
        PROVE  RowsInv'
    <2>1. /\ pc' = [pc EXCEPT ![p] = "idle"] /\ job' = [job EXCEPT ![p] = NoJob]
          /\ UNCHANGED <<tables, mix>>
      BY <1>1 DEF Exit, Crash, Goto
    <2>2. pc'[p] = "idle" /\ job'[p] = NoJob
      BY <2>1 DEF RowsInv, TypeOK
    <2>3. writer' # p
      <3>1. CASE Exit(p)
        BY <3>1 DEF Exit, RowsInv, ProcessInv, LockHeld, LockedLabels
      <3>2. CASE Crash(p)
        BY <3>2, NoProcAssumption DEF Crash, GiveLock
      <3> QED
        BY <1>1, <3>1, <3>2
    <2>4. \/ writer' = writer
          \/ writer \in {NoProc, p} /\ writer' \in {NoProc, p}
      BY <1>1 DEF Exit, Crash, GiveLock
    <2>5. ProcessInv(p)'
      <3>1. NoJob.todo = {}
        BY DEF NoJob
      <3> QED
        BY <2>2, <2>3, <3>1 DEF ProcessInv, LockHeld, Named, Informed, LockedLabels, CandidateLabels
    <2> QED
      BY Zenon, <2>1, <2>4, <2>5, NoJobType, LabelTypes, QuietStep
  <1>2. "persistence" \in Answers
    BY DEF Answers
  <1> QED
    BY <1>1, <1>2, FailInv DEF ProcessStep, DatabaseError

(* Being refused is giving up.                                             *)
LEMMA RefusedInv ==
  ASSUME RowsInv, NEW p \in Procs, Refused(p)
  PROVE  RowsInv'
  <1>1. "persistence" \in Answers
    BY DEF Answers
  <1> QED
    BY <1>1, FailInv DEF Refused

-----------------------------------------------------------------------------
(* Discovery. *)

LEMMA NoBeginInv ==
  ASSUME RowsInv, NEW p \in Procs, DiscoverStart(p) \/ PlanStart(p)
  PROVE  RowsInv'
  <1>1. ASSUME NEW command, Begin(p, command, "search", NoJob)
        PROVE  RowsInv'
    <2>1. "search" \in Labels \ LockedLabels
      BY DEF Labels, NetworkLabels, LockedLabels
    <2>2. [NoJob EXCEPT !.command = command].todo = {}
      BY DEF NoJob
    <2>3. pc'[p] = "search" /\ command \in mix' /\ job'[p] = [NoJob EXCEPT !.command = command] =>
              Named(p)'
      BY <2>2 DEF Named, CandidateLabels
    <2> QED
      BY Zenon, <1>1, <2>1, <2>3, NoJobType, BeginInv
  <1> QED
    BY <1>1 DEF DiscoverStart, PlanStart

LEMMA SearchInv ==
  ASSUME RowsInv, NEW p \in Procs, Search(p)
  PROVE  RowsInv'
  <1>1. job[p] \in Job /\ ProcessInv(p) /\ pc[p] = "search"
    BY DEF RowsInv, TypeOK, Search
  <1>2. "upsert" \in Labels /\ "state_read" \in Labels /\ "provider" \in Answers
    BY DEF Labels, DatabaseLabels, Answers
  <1>3. writer # p
    BY <1>1 DEF ProcessInv, LockHeld, LockedLabels
  <1>4. ASSUME NEW F \in Finds, Step(p, "upsert", [job[p] EXCEPT !.todo = F, !.found = TRUE])
        PROVE  RowsInv'
    <2> DEFINE j == [job[p] EXCEPT !.todo = F, !.found = TRUE]
    <2>1. F \in SUBSET Offer /\ \A f \in F : f.candidate \in Candidates
      BY DEF Finds, Offer
    <2>2. j \in Job /\ j.todo = F
      BY ZenonT(40), <1>1, <2>1 DEF Job
    <2> HIDE DEF j
    <2>3. pc'[p] = "upsert" /\ job'[p] = j => ProcessInv(p)'
      BY <1>3, <1>4, <2>1, <2>2 DEF Step, ProcessInv, LockHeld, Named, Informed, LockedLabels, CandidateLabels
    <2> QED
      BY Zenon, <1>2, <1>4, <2>2, <2>3, StepInv DEF j
  <1>5. CASE Step(p, "state_read", job[p])
    <2>1. pc'[p] = "state_read" /\ job'[p] = job[p] => ProcessInv(p)'
      BY <1>1, <1>3, <1>5 DEF Step, ProcessInv, LockHeld, Named, Informed, LockedLabels, CandidateLabels
    <2> QED
      BY <1>1, <1>2, <1>5, <2>1, StepInv
  <1> QED
    BY <1>2, <1>4, <1>5, FailInv DEF Search

(* A row as an upsert leaves it, and as a plan shows it.                   *)
LEMMA FilledType ==
  ASSUME NEW row \in CandidateRow, NEW f \in Offer
  PROVE  Filled(row, f) \in CandidateRow /\ Filled(row, f).contact = row.contact
  <1>1. row.known \union f.known \in SUBSET Fields
    BY DEF CandidateRow, Offer
  <1> QED
    BY <1>1 DEF Filled, CandidateRow, CandidateStatus

LEMMA ShownType ==
  ASSUME NEW p \in Procs, NEW row \in CandidateRow, NEW c \in Candidates \union {NoCandidate}
  PROVE  Shown(p, c, row) \in SUBSET Offer
  BY DEF Shown, CandidateRow, Offer

LEMMA UpsertInv ==
  ASSUME RowsInv, NEW p \in Procs, Upsert(p)
  PROVE  RowsInv'
  <1>1. job[p] \in Job /\ ProcessInv(p) /\ pc[p] = "upsert"
    BY DEF RowsInv, TypeOK, Upsert
  <1>2. "upsert" \in Labels /\ "state_read" \in Labels /\ "upsert_lock" \in Labels
    BY DEF Labels, DatabaseLabels
  <1>3. writer # p
    BY <1>1 DEF ProcessInv, LockHeld, LockedLabels
  <1>4. ASSUME NEW label \in {"upsert", "upsert_lock", "state_read"}, NEW j \in Job,
               j.todo \subseteq job[p].todo, Step(p, label, j)
        PROVE  RowsInv'
    <2>1. pc'[p] = label /\ job'[p] = j => ProcessInv(p)'
      BY <1>1, <1>3, <1>4 DEF Step, ProcessInv, LockHeld, Named, Informed, LockedLabels, CandidateLabels
    <2> QED
      BY <1>2, <1>4, <2>1, StepInv
  <1>5. CASE Step(p, "state_read", job[p])
    BY <1>1, <1>4, <1>5
  <1>6. ASSUME NEW f \in job[p].todo,
               LET row == candidate[f.candidate]
                   rest == [job[p] EXCEPT !.todo = @ \ {f}]
               IN  IF Fills(row, f)
                   THEN Step(p, "upsert_lock", [rest EXCEPT !.first = f, !.base = row])
                   ELSE Step(p, "upsert", [rest EXCEPT !.offers = @ \union Shown(p, f.candidate, row)])
        PROVE  RowsInv'
    <2> DEFINE row == candidate[f.candidate]
               rest == [job[p] EXCEPT !.todo = @ \ {f}]
               filling == [rest EXCEPT !.first = f, !.base = row]
               showing == [rest EXCEPT !.offers = @ \union Shown(p, f.candidate, row)]
    <2>1. f \in Offer /\ f.candidate \in Candidates /\ row \in CandidateRow
      BY <1>1 DEF ProcessInv, Named, Job, RowsInv, TypeOK, TablesOK
    <2>2. Shown(p, f.candidate, row) \in SUBSET Offer
      BY <2>1, ShownType
    <2>3. rest \in Job /\ rest.todo \subseteq job[p].todo
      BY ZenonT(40), <1>1 DEF Job
    <2> HIDE DEF rest, row
    <2>4. filling \in Job /\ filling.todo = rest.todo
      BY ZenonT(40), <2>1, <2>3 DEF Job
    <2>5. showing \in Job /\ showing.todo = rest.todo
      BY ZenonT(40), <2>2, <2>3 DEF Job
    <2>6. Step(p, "upsert_lock", filling) \/ Step(p, "upsert", showing)
      BY Zenon, <1>6 DEF row, rest
    <2> HIDE DEF filling, showing
    <2> QED
      BY <1>4, <2>3, <2>4, <2>5, <2>6
  <1> QED
    BY Zenon, <1>5, <1>6 DEF Upsert

LEMMA DiscoveryQuietInv ==
  ASSUME RowsInv, NEW p \in Procs, UpsertLock(p) \/ StateRead(p) \/ StateLock(p)
  PROVE  RowsInv'
  <1>1. job[p] \in Job /\ ProcessInv(p)
    BY DEF RowsInv, TypeOK
  <1>2. "discover_commit" \in Labels /\ "state_lock" \in Labels
    BY DEF Labels, DatabaseLabels
  <1>3. CASE Lock(p, "discover_commit")
    <2>1. pc'[p] = "discover_commit" /\ job'[p] = job[p] => ProcessInv(p)'
      BY <1>1, <1>3 DEF Lock, TakeLock, ProcessInv, LockHeld, Named, Informed, LockedLabels, CandidateLabels
    <2> QED
      BY <1>2, <1>3, <2>1, LockInv
  <1>4. CASE StateRead(p)
    <2> DEFINE seen == (state.at # 0)
               j == [job[p] EXCEPT !.seen = seen]
    <2>1. seen \in BOOLEAN
      OBVIOUS
    <2> HIDE DEF seen
    <2>2. j \in Job /\ j.todo = job[p].todo
      BY ZenonT(40), <1>1, <2>1 DEF Job
    <2>3. pc[p] = "state_read" /\ Step(p, "state_lock", j)
      BY <1>4 DEF StateRead, seen
    <2> HIDE DEF j
    <2>4. pc'[p] = "state_lock" /\ job'[p] = j => ProcessInv(p)'
      BY <1>1, <2>2, <2>3 DEF Step, ProcessInv, LockHeld, Named, Informed, LockedLabels, CandidateLabels
    <2> QED
      BY <1>2, <2>2, <2>3, <2>4, StepInv
  <1> QED
    BY <1>3, <1>4, RefusedInv DEF UpsertLock, StateLock

LEMMA StoredType ==
  ASSUME RowsInv, NEW p \in Procs, NEW c \in Candidates
  PROVE  Stored(p)[c] \in CandidateRow /\ Stored(p)[c].contact = candidate[c].contact
  <1> DEFINE first == job[p].first
             updated == [candidate[c] EXCEPT !.status = IF @ = "ABSENT" THEN "DISCOVERED" ELSE @,
                                             !.known = @ \union first.known]
             f == CHOOSE f \in job[p].todo : f.candidate = c
  <1>1. candidate[c] \in CandidateRow /\ first \in Offer /\ job[p].todo \in SUBSET Offer
    BY DEF RowsInv, TypeOK, TablesOK, Job
  <1>2. CASE c = first.candidate
    <2>1. Stored(p)[c] = updated
      BY <1>2 DEF Stored
    <2>2. candidate[c].known \union first.known \in SUBSET Fields
      BY <1>1 DEF CandidateRow, Offer
    <2>3. updated \in CandidateRow /\ updated.contact = candidate[c].contact
      BY <1>1, <2>2 DEF CandidateRow, CandidateStatus
    <2> QED
      BY <2>1, <2>3
  <1>3. CASE c # first.candidate /\ \E g \in job[p].todo : g.candidate = c
    <2>1. f \in Offer
      BY <1>1, <1>3
    <2>2. Stored(p)[c] = Filled(candidate[c], f)
      BY <1>3 DEF Stored
    <2> HIDE DEF f
    <2> QED
      BY <1>1, <2>1, <2>2, FilledType
  <1>4. CASE c # first.candidate /\ ~\E g \in job[p].todo : g.candidate = c
    BY <1>1, <1>4 DEF Stored
  <1> QED
    BY <1>2, <1>3, <1>4

LEMMA EligibleType ==
  ASSUME RowsInv, NEW p \in Procs
  PROVE  Eligible(p) \in SUBSET Offer
  <1>1. /\ job[p].offers \in SUBSET Offer /\ job[p].first \in Offer /\ job[p].base \in CandidateRow
        /\ job[p].todo \in SUBSET Offer
    BY DEF RowsInv, TypeOK, Job
  <1>2. Shown(p, job[p].first.candidate, Filled(job[p].base, job[p].first)) \in SUBSET Offer
    BY <1>1, FilledType, ShownType DEF Offer
  <1>3. ASSUME NEW f \in job[p].todo
        PROVE  Shown(p, f.candidate, Filled(candidate[f.candidate], f)) \in SUBSET Offer
    <2>1. f.candidate \in Candidates /\ candidate[f.candidate] \in CandidateRow
      BY DEF RowsInv, TypeOK, TablesOK, ProcessInv, Named
    <2> QED
      BY <1>1, <2>1, FilledType, ShownType
  <1> QED
    BY <1>1, <1>2, <1>3 DEF Eligible

LEMMA DiscoverCommitInv ==
  ASSUME RowsInv, NEW p \in Procs, DiscoverCommit(p)
  PROVE  RowsInv'
  <1>1. writer = p /\ writer' = NoProc
    BY DEF DiscoverCommit, GiveLock, RowsInv, ProcessInv, LockHeld, LockedLabels
  <1>2. candidate' \in [Candidates -> CandidateRow]
    BY StoredType DEF DiscoverCommit, Stored
  <1>3. \A c \in Candidates : candidate'[c].contact = candidate[c].contact
    BY StoredType DEF DiscoverCommit
  <1>4. state' \in StateRow
    <2>1. state.at \in 0..LastCheck /\ state.at + 1 <= LastCheck
      BY DEF DiscoverCommit, RowsInv, TypeOK, TablesOK, StateRow
    <2>2. state.at + 1 \in 0..LastCheck
      BY <2>1, BoundAssumption
    <2>3. job[p].found \in BOOLEAN
      BY Zenon DEF RowsInv, TypeOK, Job
    <2> QED
      BY <2>2, <2>3 DEF DiscoverCommit, StateRow
  <1>5. PICK a \in Answers : Answer(p, a, NoContact)
    BY DEF DiscoverCommit, PrintPlan, Answers
  <1>6. handoff' \in [1..LastCheck -> Offer]
    BY EligibleType DEF DiscoverCommit, PrintPlan, RowsInv, TypeOK, TablesOK
  <1>7. UNCHANGED <<contact, mailbox, lead, task>>
    BY DEF DiscoverCommit, crm
  <1>8. TablesOK'
    BY <1>2, <1>4, <1>6, <1>7 DEF RowsInv, TypeOK, TablesOK
  <1>9. LinksInv' /\ RecordsInv'
    BY <1>3, <1>7 DEF RowsInv, LinksInv, RecordsInv, LiveLeads, LiveTasks, Live
  <1> QED
    BY <1>1, <1>5, <1>8, <1>9, CommitStep

-----------------------------------------------------------------------------
(* Review and promotion. *)

LEMMA PromotionStartInv ==
  ASSUME RowsInv, NEW p \in Procs, NEW c \in Candidates,
         \/ PromoteStart(p, c)
         \/ \E target \in {"REVIEWED", "REJECTED"} : ReviewStart(p, c, target)
         \/ \E n \in 1..LastCheck : ApplyStart(p, n, c)
  PROVE  RowsInv'
  <1>1. {"review_read", "promote_lock", "apply_lock"} \subseteq Labels \ LockedLabels
    BY DEF Labels, DatabaseLabels, LockedLabels
  <1>2. CASE PromoteStart(p, c)
    <2> DEFINE args == [NoJob EXCEPT !.candidate = c]
    <2>1. args \in Job
      BY NoJobType DEF Job
    <2>2. [args EXCEPT !.command = "promote"].candidate = c /\ [args EXCEPT !.command = "promote"].todo = {}
      BY DEF NoJob
    <2>3. Begin(p, "promote", "promote_lock", args)
      BY <1>2 DEF PromoteStart
    <2> HIDE DEF args
    <2>4. pc'[p] = "promote_lock" /\ "promote" \in mix' /\ job'[p] = [args EXCEPT !.command = "promote"] =>
              Named(p)'
      BY <2>2 DEF Named, CandidateLabels
    <2> QED
      BY Zenon, <1>1, <2>1, <2>3, <2>4, BeginInv
  <1>3. ASSUME NEW target \in {"REVIEWED", "REJECTED"}, ReviewStart(p, c, target)
        PROVE  RowsInv'
    <2> DEFINE args == [NoJob EXCEPT !.candidate = c, !.outcome = target]
    <2>1. args \in Job
      BY NoJobType DEF Job, CandidateStatus
    <2>2. /\ [args EXCEPT !.command = "review"].candidate = c
          /\ [args EXCEPT !.command = "review"].outcome = target
          /\ [args EXCEPT !.command = "review"].todo = {}
      BY DEF NoJob
    <2>3. Begin(p, "review", "review_read", args)
      BY <1>3 DEF ReviewStart
    <2> HIDE DEF args
    <2>4. pc'[p] = "review_read" /\ "review" \in mix' /\ job'[p] = [args EXCEPT !.command = "review"] =>
              Named(p)'
      BY <2>2 DEF Named, CandidateLabels
    <2> QED
      BY Zenon, <1>1, <2>1, <2>3, <2>4, BeginInv
  <1>4. ASSUME NEW n \in 1..LastCheck, ApplyStart(p, n, c)
        PROVE  RowsInv'
    <2> DEFINE args == [NoJob EXCEPT !.check = n, !.candidate = c]
    <2>1. n \in 0..LastCheck
      BY BoundAssumption
    <2>2. args \in Job
      BY <2>1, NoJobType DEF Job
    <2>3. /\ [args EXCEPT !.command = "apply"].candidate = c
          /\ [args EXCEPT !.command = "apply"].check = n
          /\ [args EXCEPT !.command = "apply"].todo = {}
      BY DEF NoJob
    <2>4. Begin(p, "apply", "apply_lock", args)
      BY <1>4 DEF ApplyStart
    <2> HIDE DEF args
    <2>5. pc'[p] = "apply_lock" /\ "apply" \in mix' /\ job'[p] = [args EXCEPT !.command = "apply"] =>
              Named(p)'
      BY <2>3 DEF Named, CandidateLabels
    <2> QED
      BY Zenon, <1>1, <2>2, <2>4, <2>5, BeginInv
  <1> QED
    BY <1>2, <1>3, <1>4

LEMMA ReviewReadInv ==
  ASSUME RowsInv, NEW p \in Procs, ReviewRead(p)
  PROVE  RowsInv'
  <1>1. job[p] \in Job /\ ProcessInv(p) /\ pc[p] = "review_read"
    BY DEF RowsInv, TypeOK, ReviewRead
  <1>2. {"not_found", "transition", "unchanged"} \subseteq Answers /\ "review_write" \in Labels
    BY DEF Answers, Labels, DatabaseLabels
  <1>3. \/ \E a \in {"not_found", "transition", "unchanged"} : Fail(p, a)
        \/ Step(p, "review_write", job[p])
    BY DEF ReviewRead
  <1>4. CASE Step(p, "review_write", job[p])
    <2>1. pc'[p] = "review_write" /\ job'[p] = job[p] => ProcessInv(p)'
      BY <1>1, <1>4 DEF Step, ProcessInv, LockHeld, Named, Informed, LockedLabels, CandidateLabels
    <2> QED
      BY <1>1, <1>2, <1>4, <2>1, StepInv
  <1> QED
    BY <1>2, <1>3, <1>4, FailInv

LEMMA ReviewWriteInv ==
  ASSUME RowsInv, NEW p \in Procs, ReviewWrite(p)
  PROVE  RowsInv'
  <1>1. job[p].outcome \in CandidateStatus
    BY DEF ReviewWrite, RowsInv, ProcessInv, Named, CandidateStatus
  <1>2. /\ candidate' \in [Candidates -> CandidateRow]
        /\ \A c \in Candidates : candidate'[c].contact = candidate[c].contact
    BY <1>1 DEF ReviewWrite, RowsInv, TypeOK, TablesOK, CandidateRow
  <1>3. UNCHANGED <<contact, mailbox, lead, task, state, handoff>>
    BY DEF ReviewWrite, crm
  <1>4. TablesOK'
    BY <1>2, <1>3 DEF RowsInv, TypeOK, TablesOK
  <1>5. LinksInv' /\ RecordsInv'
    BY <1>2, <1>3 DEF RowsInv, LinksInv, RecordsInv, LiveLeads, LiveTasks, Live
  <1>6. "ok" \in Answers
    BY DEF Answers
  <1> QED
    BY <1>4, <1>5, <1>6, CommitStep DEF ReviewWrite, Write, WriteAtOnce

LEMMA AlreadyInv ==
  ASSUME RowsInv, NEW p \in Procs, NEW c \in Candidates, AlreadyPromoted(p, candidate[c])
  PROVE  RowsInv'
  <1>1. candidate[c].contact \in Contacts \union {NoContact}
    BY DEF RowsInv, TypeOK, TablesOK, CandidateRow
  <1>2. "inconsistent" \in Answers /\ "already" \in Answers
    BY DEF Answers
  <1> QED
    BY <1>1, <1>2, AnswerInv, FailInv DEF AlreadyPromoted

LEMMA PromoteQuietInv ==
  ASSUME RowsInv, NEW p \in Procs, PromoteLock(p) \/ PromoteDecide(p)
  PROVE  RowsInv'
  <1>1. job[p] \in Job /\ ProcessInv(p)
    BY DEF RowsInv, TypeOK
  <1>2. CASE PromoteLock(p)
    <2>1. "promote_decide" \in Labels
      BY DEF Labels, DatabaseLabels
    <2>2. pc'[p] = "promote_decide" /\ job'[p] = job[p] => ProcessInv(p)'
      BY <1>1, <1>2 DEF PromoteLock, Lock, TakeLock, ProcessInv, LockHeld, Named, Informed, LockedLabels,
         CandidateLabels
    <2> QED
      BY <1>2, <2>1, <2>2, LockInv DEF PromoteLock
  <1>3. CASE PromoteDecide(p)
    <2> DEFINE c == job[p].candidate
    <2>1. c \in Candidates /\ pc[p] = "promote_decide"
      BY <1>1, <1>3 DEF PromoteDecide, ProcessInv, Named, CandidateLabels
    <2>2. {"not_found", "ineligible", "inconsistent", "invalid"} \subseteq Answers /\ "promote_commit" \in Labels
      BY DEF Answers, Labels, DatabaseLabels
    <2>3. \/ \E a \in {"not_found", "ineligible", "inconsistent", "invalid"} : Fail(p, a)
          \/ AlreadyPromoted(p, candidate[c])
          \/ /\ candidate[c].contact = NoContact
             /\ \E k \in Contacts \union {NoContact} :
                    /\ IsDuplicate(k, EmailOf[c])
                    /\ Step(p, "promote_commit", [job[p] EXCEPT !.contact = k])
      BY <1>3 DEF PromoteDecide
    <2>4. ASSUME candidate[c].contact = NoContact, NEW k \in Contacts \union {NoContact},
                 IsDuplicate(k, EmailOf[c]),
                 Step(p, "promote_commit", [job[p] EXCEPT !.contact = k])
          PROVE  RowsInv'
      <3> DEFINE j == [job[p] EXCEPT !.contact = k]
      <3>1. j \in Job /\ j.candidate = c /\ j.contact = k /\ j.todo = job[p].todo
        BY ZenonT(40), <1>1 DEF Job
      <3> HIDE DEF j
      <3>2. pc'[p] = "promote_commit" /\ job'[p] = j => ProcessInv(p)'
        <4> SUFFICES ASSUME pc'[p] = "promote_commit", job'[p] = j
                     PROVE  ProcessInv(p)'
          OBVIOUS
        <4>1. LockHeld(p)' /\ Named(p)'
          BY <1>1, <2>1, <2>4, <3>1 DEF Step, ProcessInv, LockHeld, Named, LockedLabels, CandidateLabels
        <4>2. Informed(p)'
          BY <2>4, <3>1 DEF Step, Informed, IsDuplicate, At, Live, tables, crm, found
        <4> QED
          BY <4>1, <4>2 DEF ProcessInv
      <3> QED
        BY Zenon, <2>2, <2>4, <3>1, <3>2, StepInv DEF j
    <2> QED
      BY <2>1, <2>2, <2>3, <2>4, FailInv, AlreadyInv
  <1> QED
    BY <1>2, <1>3

(* A link is made to a contact of the candidate's address, and no contact  *)
(* there is changes.                                                       *)
LEMMA LinkFact ==
  ASSUME RowsInv, NEW p \in Procs, NEW c \in Candidates, NEW k \in Contacts, LinkTo(p, c, k),
         job[p].contact # NoContact => job[p].contact \in At(EmailOf[c])
  PROVE  /\ candidate' \in [Candidates -> CandidateRow] /\ contact' \in [Contacts -> ContactRow]
         /\ candidate'[c].status = "PROMOTED" /\ candidate'[c].contact = k
         /\ \A d \in Candidates : d # c => candidate'[d] = candidate[d]
         /\ k \in Live' /\ contact'[k].email = EmailOf[c]
         /\ \A j \in Live : contact'[j] = contact[j]
  <1>1. candidate \in [Candidates -> CandidateRow] /\ contact \in [Contacts -> ContactRow]
    BY DEF RowsInv, TypeOK, TablesOK
  <1>2. candidate' = [candidate EXCEPT ![c].status = "PROMOTED", ![c].contact = k]
    BY DEF LinkTo
  <1>3. /\ candidate' \in [Candidates -> CandidateRow]
        /\ candidate'[c].status = "PROMOTED" /\ candidate'[c].contact = k
        /\ \A d \in Candidates : d # c => candidate'[d] = candidate[d]
    BY <1>1, <1>2 DEF CandidateRow, CandidateStatus
  <1>4. CASE job[p].contact = NoContact
    <2>1. k \notin Live /\ contact' = [contact EXCEPT ![k] = [live |-> TRUE, email |-> EmailOf[c]]]
      BY <1>4 DEF LinkTo, NewContact, IsNextKey
    <2>2. [live |-> TRUE, email |-> EmailOf[c]] \in ContactRow
      BY MailAssumption DEF ContactRow
    <2> QED
      BY <1>1, <1>3, <2>1, <2>2 DEF Live
  <1>5. CASE job[p].contact # NoContact
    <2>1. k \in At(EmailOf[c]) /\ contact' = contact
      BY <1>5 DEF LinkTo
    <2> QED
      BY <1>1, <1>3, <2>1 DEF At, Live
  <1> QED
    BY <1>4, <1>5

(* Links and leads survive such a link.                                    *)
LEMMA LinkKeeps ==
  ASSUME RowsInv, NEW c \in Candidates, NEW k \in Contacts,
         candidate'[c].contact = k, \A d \in Candidates : d # c => candidate'[d] = candidate[d],
         k \in Live', contact'[k].email = EmailOf[c], \A j \in Live : contact'[j] = contact[j]
  PROVE  LinksInv' /\ Live \subseteq Live'
  <1>1. Live \subseteq Live'
    BY DEF Live
  <1>2. LinksInv'
    <2> SUFFICES ASSUME NEW d \in Candidates, candidate'[d].contact # NoContact
                 PROVE  /\ contact'[candidate'[d].contact].live
                        /\ contact'[candidate'[d].contact].email = EmailOf[d]
      BY Zenon DEF LinksInv
    <2>1. CASE d = c
      BY <2>1 DEF Live
    <2>2. CASE d # c
      <3>1. candidate[d].contact \in Contacts \union {NoContact}
        BY DEF RowsInv, TypeOK, TablesOK, CandidateRow
      <3> QED
        BY <2>2, <3>1 DEF RowsInv, LinksInv, Live
    <2> QED
      BY <2>1, <2>2
  <1> QED
    BY <1>1, <1>2

LEMMA PromoteCommitInv ==
  ASSUME RowsInv, NEW p \in Procs, PromoteCommit(p)
  PROVE  RowsInv'
  <1> DEFINE c == job[p].candidate
  <1>1. /\ c \in Candidates /\ writer = p /\ writer' = NoProc
        /\ job[p].contact # NoContact => job[p].contact \in At(EmailOf[c])
    BY DEF PromoteCommit, GiveLock, RowsInv, ProcessInv, LockHeld, LockedLabels, Named, CandidateLabels,
       Informed, IsDuplicate
  <1>2. PICK k \in Contacts :
            /\ LinkTo(p, c, k)
            /\ Answer(p, IF k = job[p].contact THEN "reused" ELSE "ok", k)
    BY DEF PromoteCommit
  <1>3. PICK a \in Answers : Answer(p, a, k)
    BY <1>2 DEF Answers
  <1>4. UNCHANGED <<state, mailbox, lead, task, handoff>>
    BY DEF PromoteCommit
  <1> HIDE DEF c
  <1>5. TablesOK'
    BY <1>1, <1>2, <1>4, LinkFact DEF RowsInv, TypeOK, TablesOK
  <1>6. LinksInv' /\ Live \subseteq Live'
    BY <1>1, <1>2, LinkFact, LinkKeeps
  <1>7. RecordsInv'
    BY <1>4, <1>6 DEF RowsInv, RecordsInv, LiveLeads, LiveTasks
  <1> QED
    BY <1>1, <1>3, <1>5, <1>6, <1>7, CommitStep

-----------------------------------------------------------------------------
(* Applying a plan. *)

LEMMA ApplyLockInv ==
  ASSUME RowsInv, NEW p \in Procs, ApplyLock(p)
  PROVE  RowsInv'
  <1>1. ProcessInv(p)
    BY DEF RowsInv
  <1>2. "apply_decide" \in Labels
    BY DEF Labels, DatabaseLabels
  <1>3. pc'[p] = "apply_decide" /\ job'[p] = job[p] => ProcessInv(p)'
    BY <1>1 DEF ApplyLock, Lock, TakeLock, ProcessInv, LockHeld, Named, Informed, LockedLabels,
       CandidateLabels
  <1> QED
    BY <1>2, <1>3, LockInv DEF ApplyLock

(* What the application decided on, it may rely on under the lock.         *)
LEMMA DecidedInv ==
  ASSUME RowsInv, NEW p \in Procs, pc[p] = "apply_decide",
         NEW c \in Candidates, NEW n \in 1..LastCheck, c = job[p].candidate, n = job[p].check,
         Consistent(candidate[c]), TokenMatches(n, c),
         NEW k \in Contacts \union {NoContact}, Preexisting(c, k),
         NEW l \in Leads \union {NoLead}, NEW t \in Tasks \union {NoTask},
         LeadFits(k, l), TaskFits(l, t),
         Step(p, "apply_commit", [job[p] EXCEPT !.contact = k, !.lead = l, !.task = t])
  PROVE  RowsInv'
  <1> DEFINE i == [job[p] EXCEPT !.contact = k]
             h == [i EXCEPT !.lead = l]
  <1>1. job[p] \in Job /\ ProcessInv(p)
    BY DEF RowsInv, TypeOK
  <1>2. /\ i \in Job /\ i.candidate = c /\ i.check = n /\ i.todo = job[p].todo /\ i.contact = k
    BY ZenonT(40), <1>1 DEF Job
  <1> HIDE DEF i
  <1>3. /\ h \in Job /\ h.candidate = c /\ h.check = n /\ h.todo = job[p].todo /\ h.contact = k
        /\ h.lead = l
    BY ZenonT(40), <1>2 DEF Job
  <1> HIDE DEF h
  <1>4. PICK j \in Job : /\ j = [h EXCEPT !.task = t]
                         /\ j.candidate = c /\ j.check = n /\ j.todo = job[p].todo
                         /\ j.contact = k /\ j.lead = l /\ j.task = t
    <2> DEFINE j == [h EXCEPT !.task = t]
    <2>1. j \in Job
      BY <1>3 DEF Job
    <2>2. /\ j.candidate = h.candidate /\ j.check = h.check /\ j.todo = h.todo
          /\ j.contact = h.contact /\ j.lead = h.lead
      BY <1>3 DEF Job
    <2>3. j.task = t
      BY <1>3 DEF Job
    <2>4. j = [h EXCEPT !.task = t]
      BY DEF j
    <2> HIDE DEF j
    <2> QED
      BY <1>3, <2>1, <2>2, <2>3, <2>4
  <1>5. Step(p, "apply_commit", j)
    BY Zenon, <1>4 DEF i, h
  <1>6. pc'[p] = "apply_commit" /\ job'[p] = j => ProcessInv(p)'
    <2> SUFFICES ASSUME pc'[p] = "apply_commit", job'[p] = j
                 PROVE  ProcessInv(p)'
      OBVIOUS
    <2>1. UNCHANGED <<candidate, state, contact, lead, task, handoff, mix, writer>>
      BY <1>5 DEF Step, tables, crm, found
    <2>2. LockHeld(p)' /\ Named(p)'
      BY <1>1, <1>4, <2>1 DEF ProcessInv, LockHeld, Named, LockedLabels, CandidateLabels
    <2>3. ((candidate[c].status = "PROMOTED") = (candidate[c].contact # NoContact))'
      BY <2>1 DEF Consistent
    <2>4. TokenMatches(n, c)' /\ Preexisting(c, k)'
      BY <2>1 DEF TokenMatches, Preexisting, IsDuplicate, At, Live
    <2>5. LeadFits(k, l)' /\ TaskFits(l, t)'
      BY <2>1 DEF LeadFits, TaskFits, LeadsOf, TasksOf, LiveLeads, LiveTasks
    <2>6. Informed(p)'
      BY <1>4, <2>3, <2>4, <2>5 DEF Informed
    <2> QED
      BY <2>2, <2>6 DEF ProcessInv
  <1>7. "apply_commit" \in Labels
    BY DEF Labels, DatabaseLabels
  <1> QED
    BY Zenon, <1>5, <1>6, <1>7, StepInv

LEMMA ApplyDecideInv ==
  ASSUME RowsInv, NEW p \in Procs, ApplyDecide(p)
  PROVE  RowsInv'
  <1>1. /\ ProcessInv(p) /\ pc[p] = "apply_decide"
        /\ job[p].candidate \in Candidates /\ job[p].check \in 1..LastCheck
    BY DEF ApplyDecide, RowsInv, ProcessInv, Named, CandidateLabels
  <1>2. {"not_found", "inconsistent", "stale", "ineligible", "conflict"} \subseteq Answers
    BY DEF Answers
  <1>3. \/ \E a \in {"not_found", "inconsistent", "stale", "ineligible"} : Fail(p, a)
        \/ /\ Consistent(candidate[job[p].candidate])
           /\ TokenMatches(job[p].check, job[p].candidate)
           /\ \E k \in Contacts \union {NoContact} :
                  Preexisting(job[p].candidate, k) /\ Materialize(p, k)
    BY DEF ApplyDecide
  <1>4. ASSUME NEW k \in Contacts \union {NoContact}, Materialize(p, k),
               Consistent(candidate[job[p].candidate]),
               TokenMatches(job[p].check, job[p].candidate), Preexisting(job[p].candidate, k)
        PROVE  RowsInv'
    <2>1. CASE Fail(p, "conflict")
      BY <1>2, <2>1, FailInv
    <2>2. CASE \E l \in Leads \union {NoLead}, t \in Tasks \union {NoTask} :
                   /\ LeadFits(k, l) /\ TaskFits(l, t)
                   /\ Step(p, "apply_commit", [job[p] EXCEPT !.contact = k, !.lead = l, !.task = t])
      BY Zenon, <1>1, <1>4, <2>2, DecidedInv
    <2> QED
      BY Zenon, <1>4, <2>1, <2>2 DEF Materialize
  <1> QED
    BY <1>2, <1>3, <1>4, FailInv

(* What an application commits: a contact k, its lead l and the task t.    *)
LEMMA ApplyFact ==
  ASSUME RowsInv, NEW p \in Procs, ApplyCommit(p)
  PROVE  \E k \in Contacts, l \in Leads, t \in Tasks :
             /\ ApplyPromotion(p, job[p].candidate, k)
             /\ IF job[p].lead = NoLead
                THEN /\ IsNextKey(l, Leads, LiveLeads)
                     /\ lead' = [lead EXCEPT ![l] = [live |-> TRUE, contact |-> k, fresh |-> TRUE]]
                ELSE l = job[p].lead /\ UNCHANGED lead
             /\ IF job[p].task = NoTask
                THEN /\ IsNextKey(t, Tasks, LiveTasks)
                     /\ task' = [task EXCEPT ![t] = NewTask(p, l, "plan")]
                ELSE t = job[p].task /\ UNCHANGED task
             /\ Answer(p, "ok", k)
  BY DEF ApplyCommit

(* The contact is linked, and no contact there was changes.                *)
LEMMA AppliedContact ==
  ASSUME RowsInv, NEW p \in Procs, pc[p] = "apply_commit", NEW k \in Contacts,
         ApplyPromotion(p, job[p].candidate, k)
  PROVE  /\ candidate' \in [Candidates -> CandidateRow] /\ contact' \in [Contacts -> ContactRow]
         /\ candidate'[job[p].candidate].status = "PROMOTED"
         /\ candidate'[job[p].candidate].contact = k
         /\ k \in Live' /\ contact'[k].email = EmailOf[job[p].candidate]
         /\ LinksInv' /\ Live \subseteq Live'
         /\ k = job[p].contact \/ (job[p].contact = NoContact /\ k \notin Live)
  <1> DEFINE c == job[p].candidate
  <1>1. /\ c \in Candidates
        /\ (candidate[c].status = "PROMOTED") = (candidate[c].contact # NoContact)
        /\ Preexisting(c, job[p].contact)
    BY DEF RowsInv, ProcessInv, Named, CandidateLabels, Informed
  <1>2. CASE candidate[c].status = "PROMOTED"
    <2>1. k = candidate[c].contact /\ k = job[p].contact /\ UNCHANGED <<candidate, contact>>
      BY <1>1, <1>2 DEF ApplyPromotion, Preexisting
    <2>2. k # NoContact
      BY <1>1, <1>2, <2>1
    <2> QED
      BY <1>1, <1>2, <2>1, <2>2 DEF RowsInv, LinksInv, Live, TypeOK, TablesOK
  <1>3. CASE candidate[c].status # "PROMOTED"
    <2>1. LinkTo(p, c, k)
      BY <1>3 DEF ApplyPromotion
    <2>2. job[p].contact # NoContact => job[p].contact \in At(EmailOf[c])
      BY <1>1, <1>3 DEF Preexisting, IsDuplicate
    <2>3. k = job[p].contact \/ (job[p].contact = NoContact /\ k \notin Live)
      BY <2>1 DEF LinkTo, NewContact, IsNextKey
    <2> HIDE DEF c
    <2>4. LinksInv' /\ Live \subseteq Live'
      BY <1>1, <2>1, <2>2, LinkFact, LinkKeeps
    <2> QED
      BY <1>1, <2>1, <2>2, <2>3, <2>4, LinkFact DEF c
  <1> QED
    BY <1>2, <1>3

(* A lead and a task are made, wherever that is done.                      *)
LEMMA LeadMade ==
  ASSUME RowsInv, NEW l \in Leads, NEW k \in Contacts \union {NoContact}, NEW fresh \in BOOLEAN,
         lead' = [lead EXCEPT ![l] = [live |-> TRUE, contact |-> k, fresh |-> fresh]]
  PROVE  /\ lead' \in [Leads -> LeadRow]
         /\ LiveLeads' = LiveLeads \union {l}
         /\ lead'[l].contact = k
         /\ \A m \in Leads : m # l => lead'[m] = lead[m]
  <1> DEFINE row == [live |-> TRUE, contact |-> k, fresh |-> fresh]
  <1>1. lead \in [Leads -> LeadRow]
    BY DEF RowsInv, TypeOK, TablesOK
  <1>2. row \in LeadRow /\ row.live /\ row.contact = k
    BY DEF LeadRow
  <1>3. lead' = [lead EXCEPT ![l] = row]
    OBVIOUS
  <1> HIDE DEF row
  <1>4. lead' \in [Leads -> LeadRow] /\ lead'[l] = row /\ \A m \in Leads : m # l => lead'[m] = lead[m]
    BY <1>1, <1>2, <1>3
  <1>5. LiveLeads' = LiveLeads \union {l}
    BY <1>2, <1>4 DEF LiveLeads
  <1> QED
    BY <1>2, <1>4, <1>5

LEMMA TaskMade ==
  ASSUME RowsInv, NEW p \in Procs, NEW t \in Tasks, NEW l \in Leads,
         NEW kind \in {"plan", "outreach", "other"}, task' = [task EXCEPT ![t] = NewTask(p, l, kind)]
  PROVE  /\ task' \in [Tasks -> TaskRow]
         /\ LiveTasks' = LiveTasks \union {t}
         /\ task'[t].lead = l /\ task'[t].kind = kind /\ task'[t].status = "TODO"
         /\ \A u \in Tasks : u # t => task'[u] = task[u]
  <1> DEFINE row == NewTask(p, l, kind)
  <1>1. task \in [Tasks -> TaskRow]
    BY DEF RowsInv, TypeOK, TablesOK
  <1>2. row \in TaskRow /\ row.lead = l /\ row.kind = kind /\ row.status = "TODO"
    BY DEF NewTask, TaskRow
  <1> HIDE DEF row
  <1>3. task' \in [Tasks -> TaskRow] /\ task'[t] = row /\ \A u \in Tasks : u # t => task'[u] = task[u]
    BY <1>1, <1>2 DEF row
  <1>4. LiveTasks' = LiveTasks \union {t}
    BY <1>2, <1>3 DEF LiveTasks
  <1> QED
    BY <1>2, <1>3, <1>4

LEMMA ApplyCommitInv ==
  ASSUME RowsInv, NEW p \in Procs, ApplyCommit(p)
  PROVE  RowsInv'
  <1>1. PICK k \in Contacts, l \in Leads, t \in Tasks :
             /\ ApplyPromotion(p, job[p].candidate, k)
             /\ IF job[p].lead = NoLead
                THEN /\ IsNextKey(l, Leads, LiveLeads)
                     /\ lead' = [lead EXCEPT ![l] = [live |-> TRUE, contact |-> k, fresh |-> TRUE]]
                ELSE l = job[p].lead /\ UNCHANGED lead
             /\ IF job[p].task = NoTask
                THEN /\ IsNextKey(t, Tasks, LiveTasks)
                     /\ task' = [task EXCEPT ![t] = NewTask(p, l, "plan")]
                ELSE t = job[p].task /\ UNCHANGED task
             /\ Answer(p, "ok", k)
    BY ApplyFact
  <1>2. /\ pc[p] = "apply_commit" /\ writer = p /\ writer' = NoProc
        /\ UNCHANGED <<state, mailbox, handoff>> /\ "ok" \in Answers
    BY DEF ApplyCommit, GiveLock, RowsInv, ProcessInv, LockHeld, LockedLabels, Answers
  <1>3. /\ lead \in [Leads -> LeadRow] /\ task \in [Tasks -> TaskRow]
        /\ LeadFits(job[p].contact, job[p].lead) /\ TaskFits(job[p].lead, job[p].task)
    BY <1>2 DEF RowsInv, TypeOK, TablesOK, ProcessInv, Informed
  <1>4. /\ lead' \in [Leads -> LeadRow] /\ l \in LiveLeads' /\ LiveLeads \subseteq LiveLeads'
        /\ \A m \in Leads : lead'[m] = lead[m] \/ (m = l /\ lead'[m].contact = k)
    <2>1. CASE job[p].lead = NoLead
      BY <1>1, <2>1, LeadMade
    <2>2. CASE job[p].lead # NoLead
      BY <1>1, <1>3, <2>2 DEF LeadFits, LeadsOf, LiveLeads
    <2> QED
      BY <2>1, <2>2
  <1>5. /\ task' \in [Tasks -> TaskRow]
        /\ \A u \in Tasks : task'[u] = task[u] \/ (u = t /\ task'[u].lead = l)
    <2>1. CASE job[p].task = NoTask
      BY <1>1, <2>1, TaskMade
    <2>2. CASE job[p].task # NoTask
      BY <1>1, <1>3, <2>2
    <2> QED
      BY <2>1, <2>2
  <1>6. TablesOK' /\ LinksInv' /\ Live \subseteq Live' /\ k \in Live'
    BY <1>1, <1>2, <1>4, <1>5, AppliedContact DEF RowsInv, TypeOK, TablesOK
  <1>7. \A m \in LiveLeads' : lead'[m].contact \in Live' \union {NoContact}
    <2> TAKE m \in LiveLeads'
    <2>1. CASE lead'[m] = lead[m]
      BY <1>6, <2>1 DEF LiveLeads, RowsInv, RecordsInv
    <2>2. CASE lead'[m] # lead[m]
      BY <1>4, <1>6, <2>2 DEF LiveLeads
    <2> QED
      BY <2>1, <2>2
  <1>8. \A u \in LiveTasks' : task'[u].lead \in LiveLeads'
    <2> TAKE u \in LiveTasks'
    <2>1. CASE task'[u] = task[u]
      BY <1>4, <2>1 DEF LiveTasks, RowsInv, RecordsInv
    <2>2. CASE task'[u] # task[u]
      BY <1>4, <1>5, <2>2 DEF LiveTasks
    <2> QED
      BY <2>1, <2>2
  <1> QED
    BY <1>1, <1>2, <1>6, <1>7, <1>8, CommitStep DEF RecordsInv

-----------------------------------------------------------------------------
(* Commands that promote nobody. *)

PlainLabels == Labels \ (LockedLabels \union CandidateLabels
                         \union {"status_read", "status_write", "contact_read", "contact_delete"})

LEMMA PlainBegin ==
  ASSUME RowsInv, NEW p \in Procs, NEW command, NEW label \in PlainLabels, NEW args \in Job, args.todo = {},
         Begin(p, command, label, args)
  PROVE  RowsInv'
  <1>1. [args EXCEPT !.command = command].todo = {}
    BY DEF Job
  <1>2. label \in Labels \ LockedLabels
    BY DEF PlainLabels
  <1>3. pc'[p] = label /\ command \in mix' /\ job'[p] = [args EXCEPT !.command = command] => Named(p)'
    BY <1>1 DEF Named, PlainLabels, CandidateLabels
  <1> QED
    BY Zenon, <1>2, <1>3, BeginInv

LEMMA PlainStep ==
  ASSUME RowsInv, NEW p \in Procs, pc[p] \notin LockedLabels, NEW label \in PlainLabels,
         NEW j \in Job, j.todo = job[p].todo, Step(p, label, j)
  PROVE  RowsInv'
  <1>1. ProcessInv(p)
    BY DEF RowsInv
  <1>2. pc'[p] = label /\ job'[p] = j => ProcessInv(p)'
    BY <1>1 DEF Step, ProcessInv, LockHeld, Named, Informed, PlainLabels, LockedLabels, CandidateLabels
  <1>3. label \in Labels
    BY DEF PlainLabels
  <1> QED
    BY <1>2, <1>3, StepInv

LEMMA PlainLabelTypes ==
  {"enrich_read", "enrich_fetch", "enrich_find", "enrich_write", "complete_leads", "complete_tasks",
   "contact_create", "lead_read", "lead_create", "lead_find", "lead_delete",
   "task_read", "task_create"} \subseteq PlainLabels
  BY DEF PlainLabels, Labels, NetworkLabels, DatabaseLabels, LockedLabels, CandidateLabels

LEMMA EnrichQuietInv ==
  ASSUME RowsInv, NEW p \in Procs, EnrichStart(p) \/ EnrichRead(p) \/ EnrichFetch(p) \/ EnrichFind(p)
  PROVE  RowsInv'
  <1>1. job[p] \in Job /\ mailbox.row \in BOOLEAN /\ mailbox.email \in Emails \union {NoEmail}
    BY DEF RowsInv, TypeOK, TablesOK, Mailbox
  <1>2. CASE EnrichStart(p)
    <2>1. NoJob.todo = {}
      BY DEF NoJob
    <2> QED
      BY Zenon, <1>2, <2>1, NoJobType, PlainLabelTypes, PlainBegin DEF EnrichStart
  <1>3. CASE EnrichRead(p)
    <2> DEFINE j == [job[p] EXCEPT !.seen = mailbox.row, !.email = mailbox.email]
    <2>1. j \in Job /\ j.todo = job[p].todo
      BY ZenonT(40), <1>1 DEF Job
    <2>2. pc[p] \notin LockedLabels /\ Step(p, "enrich_fetch", j)
      BY <1>3 DEF EnrichRead, LockedLabels
    <2> HIDE DEF j
    <2> QED
      BY <2>1, <2>2, PlainLabelTypes, PlainStep
  <1>4. CASE EnrichFetch(p)
    <2>1. PICK address \in Emails \union {NoEmail}, overwrite \in BOOLEAN :
              Step(p, "enrich_find",
                   [job[p] EXCEPT !.email = IF job[p].email # NoEmail /\ ~overwrite THEN NoEmail ELSE address])
      BY <1>4 DEF EnrichFetch
    <2> DEFINE email == IF job[p].email # NoEmail /\ ~overwrite THEN NoEmail ELSE address
               j == [job[p] EXCEPT !.email = email]
    <2>2. email \in Emails \union {NoEmail}
      OBVIOUS
    <2>3. Step(p, "enrich_find", j)
      BY <2>1
    <2> HIDE DEF email
    <2>4. j \in Job /\ j.todo = job[p].todo
      BY ZenonT(40), <1>1, <2>2 DEF Job
    <2>5. pc[p] \notin LockedLabels
      BY <1>4 DEF EnrichFetch, LockedLabels
    <2> HIDE DEF j
    <2> QED
      BY <2>3, <2>4, <2>5, PlainLabelTypes, PlainStep
  <1>5. CASE EnrichFind(p)
    <2> DEFINE email == IF ~job[p].seen /\ mailbox.email # NoEmail THEN NoEmail ELSE job[p].email
               j == [job[p] EXCEPT !.seen = mailbox.row, !.email = email]
    <2>1. email \in Emails \union {NoEmail}
      BY <1>1 DEF Job
    <2>2. pc[p] \notin LockedLabels /\ Step(p, "enrich_write", j)
      BY <1>5 DEF EnrichFind, LockedLabels
    <2> HIDE DEF email
    <2>3. j \in Job /\ j.todo = job[p].todo
      BY ZenonT(40), <1>1, <2>1 DEF Job
    <2> HIDE DEF j
    <2> QED
      BY <2>2, <2>3, PlainLabelTypes, PlainStep
  <1> QED
    BY <1>2, <1>3, <1>4, <1>5

LEMMA EnrichWriteInv ==
  ASSUME RowsInv, NEW p \in Procs, EnrichWrite(p)
  PROVE  RowsInv'
  <1>1. CASE Refused(p)
    BY <1>1, RefusedInv
  <1>2. CASE ~Refused(p)
    <2> DEFINE email == IF job[p].email = NoEmail THEN mailbox.email ELSE job[p].email
    <2>1. mailbox' = [row |-> TRUE, email |-> email] /\ Write(p, "ok") /\ UNCHANGED <<found, contact, lead, task>>
      BY <1>2 DEF EnrichWrite
    <2>2. email \in Emails \union {NoEmail}
      BY DEF RowsInv, TypeOK, TablesOK, Mailbox, Job
    <2> HIDE DEF email
    <2>3. TablesOK'
      BY <2>1, <2>2 DEF RowsInv, TypeOK, TablesOK, Mailbox, found
    <2>4. LinksInv' /\ RecordsInv'
      BY <2>1 DEF RowsInv, LinksInv, RecordsInv, LiveLeads, LiveTasks, Live, found
    <2>5. "ok" \in Answers
      BY DEF Answers
    <2> QED
      BY <2>1, <2>3, <2>4, <2>5, CommitStep DEF Write, WriteAtOnce
  <1> QED
    BY <1>1, <1>2

LEMMA CompleteQuietInv ==
  ASSUME RowsInv, NEW p \in Procs, CompleteStart(p) \/ CompleteLeads(p) \/ CompleteTasks(p) \/ CompleteReuse(p)
  PROVE  RowsInv'
  <1>1. job[p] \in Job /\ mailbox.email \in Emails \union {NoEmail}
    BY DEF RowsInv, TypeOK, TablesOK, Mailbox
  <1>2. CASE CompleteStart(p)
    <2>1. PICK email \in Emails \union {NoEmail} : email = mailbox.email
      BY <1>1
    <2> DEFINE args == [NoJob EXCEPT !.email = email]
    <2>2. args \in Job
      BY NoJobType DEF Job
    <2>3. args.todo = {}
      BY DEF NoJob
    <2>4. Begin(p, "complete", "complete_leads", args)
      BY <1>2, <2>1 DEF CompleteStart
    <2> HIDE DEF args
    <2> QED
      BY <2>2, <2>3, <2>4, PlainLabelTypes, PlainBegin
  <1>3. {"not_found", "conflict", "reused"} \subseteq Answers
    BY DEF Answers
  <1>4. CASE CompleteLeads(p)
    <2>1. ASSUME NEW l \in Leads \union {NoLead}, NEW ls \in SUBSET Leads,
                 Step(p, "complete_tasks", [job[p] EXCEPT !.lead = l, !.leads = ls])
          PROVE  RowsInv'
      <3> DEFINE j == [job[p] EXCEPT !.lead = l, !.leads = ls]
      <3>1. j \in Job /\ j.todo = job[p].todo
        BY ZenonT(90), <1>1 DEF Job
      <3>2. pc[p] \notin LockedLabels /\ Step(p, "complete_tasks", j)
        BY <1>4, <2>1 DEF CompleteLeads, LockedLabels
      <3> HIDE DEF j
      <3> QED
        BY <3>1, <3>2, PlainLabelTypes, PlainStep
    <2>2. CompanyLeads \in SUBSET Leads
      BY DEF CompanyLeads, LiveLeads
    <2>3. \/ \E a \in {"not_found", "conflict"} : Fail(p, a)
          \/ \E l \in Leads \union {NoLead} :
                 Step(p, "complete_tasks", [job[p] EXCEPT !.lead = l, !.leads = CompanyLeads])
      BY <1>4 DEF CompleteLeads
    <2> QED
      BY <1>3, <2>1, <2>2, <2>3, FailInv
  <1>5. CASE CompleteTasks(p)
    <2>1. PICK l \in Leads :
              Step(p, "complete_tasks",
                   [job[p] EXCEPT !.leads = @ \ {l}, !.active = @ \union ({l} \X ActiveOutreach(l))])
      BY <1>5 DEF CompleteTasks
    <2> DEFINE ls == job[p].leads \ {l}
               ts == job[p].active \union ({l} \X ActiveOutreach(l))
               j == [job[p] EXCEPT !.leads = ls, !.active = ts]
    <2>2. ls \in SUBSET Leads
      BY <1>1 DEF Job
    <2>3. ts \in SUBSET (Leads \X Tasks)
      BY <1>1 DEF Job, ActiveOutreach, TasksOf, LiveTasks
    <2>4. Step(p, "complete_tasks", j)
      BY <2>1
    <2> HIDE DEF ls, ts
    <2>5. j \in Job /\ j.todo = job[p].todo
      BY ZenonT(90), <1>1, <2>2, <2>3 DEF Job
    <2>6. pc[p] \notin LockedLabels
      BY <1>5 DEF CompleteTasks, LockedLabels
    <2> HIDE DEF j
    <2> QED
      BY <2>4, <2>5, <2>6, PlainLabelTypes, PlainStep
  <1>6. CASE CompleteReuse(p)
    <2>1. \E a \in {"conflict", "reused"} : Fail(p, a)
      BY <1>6 DEF CompleteReuse
    <2> QED
      BY <1>3, <2>1, FailInv
  <1> QED
    BY <1>2, <1>4, <1>5, <1>6

(* Leads and tasks may be added under what is there.                       *)
LEMMA RecordsAdded ==
  ASSUME RowsInv, UNCHANGED <<found, contact, mailbox>>,
         lead' \in [Leads -> LeadRow], task' \in [Tasks -> TaskRow],
         LiveLeads \subseteq LiveLeads',
         \A m \in Leads : lead'[m] = lead[m] \/ lead'[m].contact \in Live \union {NoContact},
         \A u \in Tasks : task'[u] = task[u] \/ task'[u].lead \in LiveLeads'
  PROVE  TablesOK' /\ LinksInv' /\ RecordsInv'
  <1>1. Live' = Live
    BY DEF Live
  <1>2. TablesOK'
    BY DEF RowsInv, TypeOK, TablesOK, found
  <1>3. LinksInv'
    BY DEF RowsInv, LinksInv, found
  <1>4. \A m \in LiveLeads' : lead'[m].contact \in Live' \union {NoContact}
    BY <1>1 DEF RowsInv, RecordsInv, LiveLeads
  <1>5. \A u \in LiveTasks' : task'[u].lead \in LiveLeads'
    BY DEF RowsInv, RecordsInv, LiveTasks
  <1> QED
    BY <1>2, <1>3, <1>4, <1>5 DEF RecordsInv

(* What a completion commits: the task t under the lead l.                 *)
LEMMA CompleteFact ==
  ASSUME RowsInv, NEW p \in Procs, CompleteWrite(p), ~Refused(p)
  PROVE  \E l \in Leads, t \in Tasks :
             /\ lead' \in [Leads -> LeadRow] /\ LiveLeads' = LiveLeads \union {l}
             /\ \A m \in Leads : \/ lead'[m] = lead[m]
                                 \/ m = l /\ l \notin LiveLeads /\ lead'[l].contact = NoContact
             /\ t \notin LiveTasks
             /\ task' \in [Tasks -> TaskRow] /\ LiveTasks' = LiveTasks \union {t}
             /\ task'[t].lead = l /\ task'[t].kind = "outreach" /\ task'[t].status = "TODO"
             /\ \A u \in Tasks : u # t => task'[u] = task[u]
  <1>1. PICK l \in Leads, t \in Tasks :
             /\ IF job[p].lead = NoLead
                THEN /\ IsNextKey(l, Leads, LiveLeads)
                     /\ lead' = [lead EXCEPT ![l] = [live |-> TRUE, contact |-> NoContact, fresh |-> FALSE]]
                ELSE l = job[p].lead /\ UNCHANGED lead
             /\ IsNextKey(t, Tasks, LiveTasks)
             /\ task' = [task EXCEPT ![t] = NewTask(p, l, "outreach")]
    BY DEF CompleteWrite
  <1>2. /\ t \notin LiveTasks
        /\ task' \in [Tasks -> TaskRow] /\ LiveTasks' = LiveTasks \union {t}
        /\ task'[t].lead = l /\ task'[t].kind = "outreach" /\ task'[t].status = "TODO"
        /\ \A u \in Tasks : u # t => task'[u] = task[u]
    BY <1>1, TaskMade DEF IsNextKey
  <1>3. CASE job[p].lead = NoLead
    <2>1. /\ l \notin LiveLeads
          /\ lead' = [lead EXCEPT ![l] = [live |-> TRUE, contact |-> NoContact, fresh |-> FALSE]]
      BY <1>1, <1>3 DEF IsNextKey
    <2>2. /\ lead' \in [Leads -> LeadRow] /\ LiveLeads' = LiveLeads \union {l}
          /\ lead'[l].contact = NoContact
          /\ \A m \in Leads : m # l => lead'[m] = lead[m]
      BY Zenon, <2>1, LeadMade
    <2> QED
      BY <1>2, <2>1, <2>2
  <1>4. CASE job[p].lead # NoLead
    <2>1. l \in LiveLeads /\ lead' = lead
      BY <1>1, <1>4 DEF CompleteWrite
    <2>2. LiveLeads' = LiveLeads
      BY <2>1 DEF LiveLeads
    <2>3. lead \in [Leads -> LeadRow]
      BY DEF RowsInv, TypeOK, TablesOK
    <2> QED
      BY <1>2, <2>1, <2>2, <2>3
  <1> QED
    BY <1>3, <1>4

LEMMA CompleteWriteInv ==
  ASSUME RowsInv, NEW p \in Procs, CompleteWrite(p)
  PROVE  RowsInv'
  <1>1. CASE Refused(p)
    BY <1>1, RefusedInv
  <1>2. CASE ~Refused(p)
    <2>1. /\ lead' \in [Leads -> LeadRow] /\ task' \in [Tasks -> TaskRow]
          /\ LiveLeads \subseteq LiveLeads'
          /\ \A m \in Leads : lead'[m] = lead[m] \/ lead'[m].contact \in Live \union {NoContact}
          /\ \A u \in Tasks : task'[u] = task[u] \/ task'[u].lead \in LiveLeads'
      BY <1>2, CompleteFact
    <2>2. UNCHANGED <<found, contact, mailbox>> /\ Write(p, "ok")
      BY <1>2 DEF CompleteWrite
    <2>3. TablesOK' /\ LinksInv' /\ RecordsInv'
      BY <2>1, <2>2, RecordsAdded
    <2>4. "ok" \in Answers
      BY DEF Answers
    <2> QED
      BY <2>2, <2>3, <2>4, CommitStep DEF Write, WriteAtOnce
  <1> QED
    BY <1>1, <1>2

-----------------------------------------------------------------------------
(* Records by hand. *)

LEMMA RecordStartInv ==
  ASSUME RowsInv, NEW p \in Procs,
         \/ \E email \in Emails : ContactCreateStart(p, email)
         \/ \E k \in Contacts : LeadFromContactStart(p, k)
         \/ \E k \in Contacts \union {NoContact} : LeadCreateStart(p, k)
         \/ \E l \in Leads : LeadDeleteStart(p, l) \/ TaskCreateStart(p, l)
  PROVE  RowsInv'
  <1>1. ASSUME NEW email \in Emails, ContactCreateStart(p, email)
        PROVE  RowsInv'
    <2> DEFINE args == [NoJob EXCEPT !.email = email]
    <2>1. args \in Job
      BY NoJobType DEF Job
    <2>2. args.todo = {}
      BY DEF NoJob
    <2>3. Begin(p, "contact_create", "contact_create", args)
      BY <1>1 DEF ContactCreateStart
    <2> HIDE DEF args
    <2> QED
      BY <2>1, <2>2, <2>3, PlainLabelTypes, PlainBegin
  <1>2. ASSUME NEW command, NEW k \in Contacts \union {NoContact}, NEW fresh \in BOOLEAN,
               Begin(p, command, "lead_read", [NoJob EXCEPT !.contact = k, !.seen = fresh])
        PROVE  RowsInv'
    <2> DEFINE args == [NoJob EXCEPT !.contact = k, !.seen = fresh]
    <2>1. args \in Job
      <3> DEFINE named == [NoJob EXCEPT !.contact = k]
      <3>1. named \in Job
        BY ZenonT(40), NoJobType DEF Job
      <3>2. args = [named EXCEPT !.seen = fresh]
        OBVIOUS
      <3> HIDE DEF named, args
      <3> QED
        BY ZenonT(40), <3>1, <3>2 DEF Job
    <2>2. args.todo = {}
      BY DEF NoJob
    <2>3. Begin(p, command, "lead_read", args)
      BY <1>2
    <2> HIDE DEF args
    <2> QED
      BY <2>1, <2>2, <2>3, PlainLabelTypes, PlainBegin
  <1>3. ASSUME NEW command, NEW label \in PlainLabels, NEW l \in Leads,
               Begin(p, command, label, [NoJob EXCEPT !.lead = l])
        PROVE  RowsInv'
    <2> DEFINE args == [NoJob EXCEPT !.lead = l]
    <2>1. args \in Job
      BY NoJobType DEF Job
    <2>2. args.todo = {}
      BY DEF NoJob
    <2>3. Begin(p, command, label, args)
      BY <1>3
    <2> HIDE DEF args
    <2> QED
      BY <2>1, <2>2, <2>3, PlainBegin
  <1>4. ASSUME NEW k \in Contacts \union {NoContact}, LeadCreateStart(p, k)
        PROVE  RowsInv'
    <2>1. PICK fresh \in {FALSE, k # NoContact} :
              Begin(p, "lead_create", "lead_read", [NoJob EXCEPT !.contact = k, !.seen = fresh])
      BY <1>4 DEF LeadCreateStart
    <2>2. fresh \in BOOLEAN
      OBVIOUS
    <2> QED
      BY Zenon, <1>2, <2>1, <2>2
  <1>5. ASSUME NEW k \in Contacts, LeadFromContactStart(p, k)
        PROVE  RowsInv'
    BY Zenon, <1>2, <1>5 DEF LeadFromContactStart
  <1>6. ASSUME NEW l \in Leads, LeadDeleteStart(p, l) \/ TaskCreateStart(p, l)
        PROVE  RowsInv'
    BY Zenon, <1>3, <1>6, PlainLabelTypes DEF LeadDeleteStart, TaskCreateStart
  <1> QED
    BY <1>1, <1>4, <1>5, <1>6

LEMMA DeleteStatusStartInv ==
  ASSUME RowsInv, NEW p \in Procs,
         \/ \E k \in Contacts : ContactDeleteStart(p, k)
         \/ \E t \in Tasks, target \in {"IN_PROGRESS", "DONE", "CANCELLED"} : StatusStart(p, t, target)
  PROVE  RowsInv'
  <1>1. {"contact_read", "status_read"} \subseteq Labels \ LockedLabels
    BY DEF Labels, DatabaseLabels, LockedLabels
  <1>2. ASSUME NEW k \in Contacts, ContactDeleteStart(p, k)
        PROVE  RowsInv'
    <2> DEFINE args == [NoJob EXCEPT !.contact = k]
    <2>1. args \in Job
      BY NoJobType DEF Job
    <2>2. [args EXCEPT !.command = "contact_delete"].todo = {}
      BY DEF NoJob
    <2>3. Begin(p, "contact_delete", "contact_read", args)
      BY <1>2 DEF ContactDeleteStart
    <2> HIDE DEF args
    <2>4. pc'[p] = "contact_read" /\ "contact_delete" \in mix'
              /\ job'[p] = [args EXCEPT !.command = "contact_delete"] =>
              Named(p)'
      BY <2>2 DEF Named, CandidateLabels
    <2> QED
      BY Zenon, <1>1, <2>1, <2>3, <2>4, BeginInv
  <1>3. ASSUME NEW t \in Tasks, NEW target \in {"IN_PROGRESS", "DONE", "CANCELLED"}, StatusStart(p, t, target)
        PROVE  RowsInv'
    <2> DEFINE args == [NoJob EXCEPT !.task = t, !.outcome = target]
    <2>1. args \in Job
      BY NoJobType DEF Job
    <2>2. /\ [args EXCEPT !.command = "task_status"].todo = {}
          /\ [args EXCEPT !.command = "task_status"].outcome = target
      BY DEF NoJob
    <2>3. Begin(p, "task_status", "status_read", args)
      BY <1>3 DEF StatusStart
    <2> HIDE DEF args
    <2>4. pc'[p] = "status_read" /\ "task_status" \in mix' /\ job'[p] = [args EXCEPT !.command = "task_status"] =>
              Named(p)'
      BY <2>2 DEF Named, CandidateLabels
    <2> QED
      BY Zenon, <1>1, <2>1, <2>3, <2>4, BeginInv
  <1> QED
    BY <1>2, <1>3

LEMMA RecordReadInv ==
  ASSUME RowsInv, NEW p \in Procs, ContactRead(p) \/ LeadRead(p) \/ LeadFind(p) \/ TaskRead(p) \/ StatusRead(p)
  PROVE  RowsInv'
  <1>1. job[p] \in Job /\ ProcessInv(p)
    BY DEF RowsInv, TypeOK
  <1>2. {"not_found", "unchanged", "transition"} \subseteq Answers
    BY DEF Answers
  <1>3. CASE ContactRead(p) \/ StatusRead(p)
    <2>1. \/ \E a \in {"not_found", "unchanged", "transition"} : Fail(p, a)
          \/ pc[p] = "contact_read" /\ Step(p, "contact_delete", job[p])
          \/ pc[p] = "status_read" /\ Step(p, "status_write", job[p])
      BY <1>3 DEF ContactRead, StatusRead
    <2>2. ASSUME NEW label, \/ pc[p] = "contact_read" /\ label = "contact_delete"
                            \/ pc[p] = "status_read" /\ label = "status_write",
                 Step(p, label, job[p])
          PROVE  RowsInv'
      <3>1. label \in Labels
        BY <2>2 DEF Labels, DatabaseLabels
      <3>2. pc'[p] = label /\ job'[p] = job[p] => ProcessInv(p)'
        BY <1>1, <2>2 DEF Step, ProcessInv, LockHeld, Named, Informed, LockedLabels, CandidateLabels
      <3> QED
        BY <1>1, <2>2, <3>1, <3>2, StepInv
    <2> QED
      BY <1>2, <2>1, <2>2, FailInv
  <1>4. CASE LeadRead(p) \/ LeadFind(p) \/ TaskRead(p)
    <2>1. \/ Fail(p, "not_found")
          \/ \E label \in {"lead_create", "lead_delete", "task_create"} : Step(p, label, job[p])
      BY <1>4 DEF LeadRead, LeadFind, TaskRead
    <2>2. pc[p] \notin LockedLabels
      BY <1>4 DEF LeadRead, LeadFind, TaskRead, LockedLabels
    <2> QED
      BY <1>1, <1>2, <2>1, <2>2, PlainLabelTypes, PlainStep, FailInv
  <1> QED
    BY <1>3, <1>4

LEMMA ContactCreateInv ==
  ASSUME RowsInv, NEW p \in Procs, ContactCreate(p)
  PROVE  RowsInv'
  <1>1. PICK k \in Contacts : /\ k \notin Live
                              /\ contact' = [contact EXCEPT ![k] = [live |-> TRUE, email |-> job[p].email]]
    BY DEF ContactCreate, IsNextKey
  <1>2. UNCHANGED <<found, mailbox, lead, task>> /\ Write(p, "ok")
    BY DEF ContactCreate
  <1>3. [live |-> TRUE, email |-> job[p].email] \in ContactRow
    BY DEF RowsInv, TypeOK, Job, ContactRow
  <1>4. /\ contact' \in [Contacts -> ContactRow]
        /\ \A j \in Live : j \in Live' /\ contact'[j] = contact[j]
    BY <1>1, <1>3 DEF RowsInv, TypeOK, TablesOK, Live
  <1>5. TablesOK'
    BY <1>2, <1>4 DEF RowsInv, TypeOK, TablesOK, found
  <1>6. LinksInv'
    <2>1. \A c \in Candidates : candidate[c].contact \in Contacts \union {NoContact}
      BY DEF RowsInv, TypeOK, TablesOK, CandidateRow
    <2> QED
      BY <1>2, <1>4, <2>1 DEF RowsInv, LinksInv, Live, found
  <1>7. RecordsInv'
    BY <1>2, <1>4 DEF RowsInv, RecordsInv, LiveLeads, LiveTasks
  <1>8. "ok" \in Answers
    BY DEF Answers
  <1> QED
    BY <1>2, <1>5, <1>6, <1>7, <1>8, CommitStep DEF Write, WriteAtOnce

(* Deleting a contact cuts the links to it and changes no other row.       *)
LEMMA ContactDeleteFact ==
  ASSUME RowsInv, NEW p \in Procs, ContactDelete(p)
  PROVE  /\ contact' \in [Contacts -> ContactRow]
         /\ Live' = Live \ {job[p].contact}
         /\ \A j \in Contacts : j # job[p].contact => contact'[j] = contact[j]
         /\ \A c \in Candidates :
                /\ candidate'[c] \in CandidateRow
                /\ candidate'[c].contact = IF candidate[c].contact = job[p].contact THEN NoContact
                                           ELSE candidate[c].contact
         /\ \A l \in Leads :
                /\ lead'[l] \in LeadRow /\ lead'[l].live = lead[l].live
                /\ lead'[l].contact = IF lead[l].contact = job[p].contact THEN NoContact ELSE lead[l].contact
  <1> DEFINE k == job[p].contact
  <1>1. contact' = [contact EXCEPT ![k] = NoContactRow] /\ contact \in [Contacts -> ContactRow]
    BY DEF ContactDelete, RowsInv, TypeOK, TablesOK
  <1>2. /\ contact' \in [Contacts -> ContactRow] /\ Live' = Live \ {k}
        /\ \A j \in Contacts : j # k => contact'[j] = contact[j]
    BY <1>1, NoRowsType DEF Live, NoContactRow
  <1>3. ASSUME NEW c \in Candidates
        PROVE  /\ candidate'[c] \in CandidateRow
               /\ candidate'[c].contact = IF candidate[c].contact = k THEN NoContact ELSE candidate[c].contact
    <2>1. candidate[c] \in CandidateRow
      BY DEF RowsInv, TypeOK, TablesOK
    <2>2. candidate'[c] = IF candidate[c].contact = k THEN [candidate[c] EXCEPT !.contact = NoContact]
                          ELSE candidate[c]
      BY DEF ContactDelete
    <2> QED
      BY <2>1, <2>2 DEF CandidateRow
  <1>4. ASSUME NEW l \in Leads
        PROVE  /\ lead'[l] \in LeadRow /\ lead'[l].live = lead[l].live
               /\ lead'[l].contact = IF lead[l].contact = k THEN NoContact ELSE lead[l].contact
    <2>1. lead[l] \in LeadRow
      BY DEF RowsInv, TypeOK, TablesOK
    <2>2. lead'[l] = IF lead[l].contact = k THEN [lead[l] EXCEPT !.contact = NoContact] ELSE lead[l]
      BY DEF ContactDelete
    <2> QED
      BY <2>1, <2>2 DEF LeadRow
  <1> QED
    BY <1>2, <1>3, <1>4

LEMMA ContactDeleteInv ==
  ASSUME RowsInv, NEW p \in Procs, ContactDelete(p)
  PROVE  RowsInv'
  <1>1. UNCHANGED <<state, handoff, mailbox, task>> /\ Write(p, "ok")
    BY DEF ContactDelete
  <1>2. candidate' \in [Candidates -> CandidateRow] /\ lead' \in [Leads -> LeadRow]
    BY ContactDeleteFact DEF ContactDelete
  <1>3. TablesOK'
    BY <1>1, <1>2, ContactDeleteFact DEF RowsInv, TypeOK, TablesOK
  <1>4. LinksInv'
    <2> SUFFICES ASSUME NEW c \in Candidates, candidate'[c].contact # NoContact
                 PROVE  contact'[candidate'[c].contact].live /\ contact'[candidate'[c].contact].email = EmailOf[c]
      BY Zenon DEF LinksInv
    <2>1. /\ candidate[c].contact # job[p].contact /\ candidate'[c].contact = candidate[c].contact
          /\ candidate[c].contact # NoContact
      BY ContactDeleteFact
    <2>2. candidate[c].contact \in Contacts \union {NoContact}
      BY DEF RowsInv, TypeOK, TablesOK, CandidateRow
    <2>3. contact'[candidate[c].contact] = contact[candidate[c].contact]
      BY <2>1, <2>2, ContactDeleteFact
    <2> QED
      BY <2>1, <2>3 DEF RowsInv, LinksInv
  <1>5. RecordsInv'
    <2>1. LiveLeads' = LiveLeads
      BY ContactDeleteFact DEF LiveLeads
    <2>2. \A l \in LiveLeads' : lead'[l].contact \in Live' \union {NoContact}
      BY <2>1, ContactDeleteFact DEF RowsInv, RecordsInv, LiveLeads
    <2> QED
      BY <1>1, <2>1, <2>2 DEF RowsInv, RecordsInv, LiveTasks
  <1>6. "ok" \in Answers
    BY DEF Answers
  <1> QED
    BY <1>1, <1>3, <1>4, <1>5, <1>6, CommitStep DEF Write, WriteAtOnce

LEMMA LeadCreateInv ==
  ASSUME RowsInv, NEW p \in Procs, LeadCreate(p)
  PROVE  RowsInv'
  <1>1. CASE Refused(p)
    BY <1>1, RefusedInv
  <1>2. CASE ~Refused(p)
    <2>1. PICK l \in Leads : lead' = [lead EXCEPT ![l] = [live |-> TRUE, contact |-> job[p].contact,
                                                         fresh |-> job[p].seen]]
      BY <1>2 DEF LeadCreate
    <2>2. /\ UNCHANGED <<found, contact, mailbox, task>> /\ Write(p, "ok")
          /\ job[p].contact \in Live \union {NoContact}
      BY <1>2 DEF LeadCreate
    <2>3. job[p].contact \in Contacts \union {NoContact} /\ job[p].seen \in BOOLEAN
      BY Zenon DEF RowsInv, TypeOK, Job
    <2>4. /\ lead' \in [Leads -> LeadRow] /\ LiveLeads' = LiveLeads \union {l}
          /\ lead'[l].contact = job[p].contact
          /\ \A m \in Leads : m # l => lead'[m] = lead[m]
      BY Zenon, <2>1, <2>3, LeadMade
    <2>5. task' \in [Tasks -> TaskRow]
      BY <2>2 DEF RowsInv, TypeOK, TablesOK
    <2>6. TablesOK' /\ LinksInv' /\ RecordsInv'
      BY <2>2, <2>4, <2>5, RecordsAdded
    <2>7. "ok" \in Answers
      BY DEF Answers
    <2> QED
      BY <2>2, <2>6, <2>7, CommitStep DEF Write, WriteAtOnce
  <1> QED
    BY <1>1, <1>2

(* Deleting a lead deletes its tasks and changes no other row.             *)
LEMMA LeadDeleteFact ==
  ASSUME RowsInv, NEW p \in Procs, LeadDelete(p)
  PROVE  /\ lead' \in [Leads -> LeadRow] /\ LiveLeads' = LiveLeads \ {job[p].lead}
         /\ \A m \in LiveLeads' : lead'[m] = lead[m]
         /\ task' \in [Tasks -> TaskRow] /\ LiveTasks' \subseteq LiveTasks
         /\ \A t \in LiveTasks' : task'[t] = task[t] /\ task[t].lead # job[p].lead
  <1>1. /\ lead' = [lead EXCEPT ![job[p].lead] = NoLeadRow] /\ lead \in [Leads -> LeadRow]
        /\ task \in [Tasks -> TaskRow]
    BY DEF LeadDelete, RowsInv, TypeOK, TablesOK
  <1>2. /\ lead' \in [Leads -> LeadRow] /\ LiveLeads' = LiveLeads \ {job[p].lead}
        /\ \A m \in LiveLeads' : lead'[m] = lead[m]
    BY <1>1, NoRowsType DEF LiveLeads, NoLeadRow
  <1>3. task' = [t \in Tasks |-> IF task[t].lead = job[p].lead THEN NoTaskRow ELSE task[t]]
    BY DEF LeadDelete
  <1>4. task' \in [Tasks -> TaskRow]
    BY <1>1, <1>3, NoRowsType
  <1>5. NoTaskRow.status = "ABSENT"
    BY DEF NoTaskRow
  <1>6. LiveTasks' \subseteq LiveTasks /\ \A t \in LiveTasks' : task'[t] = task[t] /\ task[t].lead # job[p].lead
    BY <1>3, <1>5 DEF LiveTasks
  <1> QED
    BY <1>2, <1>4, <1>6

LEMMA LeadDeleteInv ==
  ASSUME RowsInv, NEW p \in Procs, LeadDelete(p)
  PROVE  RowsInv'
  <1>1. UNCHANGED <<found, contact, mailbox>> /\ Write(p, "ok")
    BY DEF LeadDelete
  <1>2. TablesOK' /\ LinksInv'
    BY <1>1, LeadDeleteFact DEF RowsInv, TypeOK, TablesOK, LinksInv, found
  <1>3. Live' = Live
    BY <1>1 DEF Live
  <1>4. RecordsInv'
    BY <1>3, LeadDeleteFact DEF RowsInv, RecordsInv
  <1>5. "ok" \in Answers
    BY DEF Answers
  <1> QED
    BY <1>1, <1>2, <1>4, <1>5, CommitStep DEF Write, WriteAtOnce

LEMMA TaskCreateInv ==
  ASSUME RowsInv, NEW p \in Procs, TaskCreate(p)
  PROVE  RowsInv'
  <1>1. CASE Refused(p)
    BY <1>1, RefusedInv
  <1>2. CASE ~Refused(p)
    <2>1. /\ UNCHANGED <<found, contact, mailbox, lead>> /\ Write(p, "ok")
          /\ job[p].lead \in LiveLeads
          /\ \E t \in Tasks : task' = [task EXCEPT ![t] = NewTask(p, job[p].lead, "other")]
      BY <1>2 DEF TaskCreate
    <2>2. PICK l \in Leads, t \in Tasks :
              l = job[p].lead /\ task' = [task EXCEPT ![t] = NewTask(p, l, "other")]
      BY <2>1 DEF LiveLeads
    <2>3. /\ task' \in [Tasks -> TaskRow]
          /\ LiveTasks' = LiveTasks \union {t}
          /\ task'[t].lead = l /\ task'[t].kind = "other" /\ task'[t].status = "TODO"
          /\ \A u \in Tasks : u # t => task'[u] = task[u]
      <3>1. task' = [task EXCEPT ![t] = NewTask(p, l, "other")]
        BY <2>2
      <3> QED
        BY <3>1, TaskMade
    <2>4. lead' \in [Leads -> LeadRow] /\ LiveLeads' = LiveLeads
      BY <2>1 DEF RowsInv, TypeOK, TablesOK, LiveLeads
    <2>5. TablesOK' /\ LinksInv' /\ RecordsInv'
      BY <2>1, <2>2, <2>3, <2>4, RecordsAdded
    <2>6. "ok" \in Answers
      BY DEF Answers
    <2> QED
      BY <2>1, <2>5, <2>6, CommitStep DEF Write, WriteAtOnce
  <1> QED
    BY <1>1, <1>2

LEMMA StatusWriteInv ==
  ASSUME RowsInv, NEW p \in Procs, StatusWrite(p)
  PROVE  RowsInv'
  <1>1. CASE Refused(p)
    BY <1>1, RefusedInv
  <1>2. CASE ~Refused(p)
    <2>1. /\ task' = [task EXCEPT ![job[p].task].status = job[p].outcome]
          /\ UNCHANGED <<found, contact, mailbox, lead>> /\ Write(p, "ok")
          /\ job[p].task \in LiveTasks
      BY <1>2 DEF StatusWrite
    <2>2. job[p].outcome \in {"IN_PROGRESS", "DONE", "CANCELLED"}
      BY DEF StatusWrite, RowsInv, ProcessInv, Named
    <2>3. task \in [Tasks -> TaskRow]
      BY DEF RowsInv, TypeOK, TablesOK
    <2>4. /\ task' \in [Tasks -> TaskRow]
          /\ \A t \in Tasks : task'[t].lead = task[t].lead
      BY <2>1, <2>2, <2>3 DEF TaskRow
    <2>5. LiveTasks' = LiveTasks
      BY <2>1, <2>2, <2>3 DEF LiveTasks, TaskRow
    <2>6. LiveLeads' = LiveLeads /\ Live' = Live
      BY <2>1 DEF LiveLeads, Live
    <2>7. TablesOK' /\ LinksInv'
      BY <2>1, <2>4 DEF RowsInv, TypeOK, TablesOK, LinksInv, found
    <2>8. RecordsInv'
      BY <2>1, <2>4, <2>5, <2>6 DEF RowsInv, RecordsInv, LiveTasks
    <2>9. "ok" \in Answers
      BY DEF Answers
    <2> QED
      BY <2>1, <2>7, <2>8, <2>9, CommitStep DEF Write, WriteAtOnce
  <1> QED
    BY <1>1, <1>2

LEMMA RowsInit == Init => RowsInv
  <1> SUFFICES ASSUME Init
               PROVE  RowsInv
    OBVIOUS
  <1>1. TypeOK
    BY InitType
  <1>2. LinksInv
    BY DEF Init, LinksInv, NoCandidateRow
  <1>3. RecordsInv
    BY DEF Init, RecordsInv, LiveLeads, LiveTasks, NoLeadRow, NoTaskRow
  <1>4. ASSUME NEW p \in Procs
        PROVE  ProcessInv(p)
    <2>1. pc[p] = "idle" /\ job[p].todo = {} /\ writer # p
      BY NoProcAssumption DEF Init, NoJob
    <2> QED
      BY <2>1 DEF ProcessInv, LockHeld, Named, Informed, LockedLabels, CandidateLabels
  <1> QED
    BY <1>1, <1>2, <1>3, <1>4 DEF RowsInv

(* Every step preserves what the processes rely on.                        *)
LEMMA RowsStep ==
  ASSUME RowsInv, [Next]_vars
  PROVE  RowsInv'
  <1>1. CASE UNCHANGED vars
    <2>1. TypeOK'
      BY <1>1 DEF RowsInv, TypeOK, TablesOK, vars
    <2>2. LinksInv' /\ RecordsInv'
      BY <1>1 DEF vars, RowsInv, LinksInv, RecordsInv, LiveLeads, LiveTasks, Live
    <2>3. ASSUME NEW p \in Procs
          PROVE  ProcessInv(p)'
      <3>1. ProcessInv(p)
        BY DEF RowsInv
      <3>2. LockHeld(p)' /\ Named(p)'
        BY <1>1, <3>1 DEF vars, ProcessInv, LockHeld, Named
      <3>3. Informed(p)'
        BY <1>1, <3>1 DEF vars, ProcessInv, Informed, IsDuplicate, At, Live, TokenMatches,
           Preexisting, LeadFits, TaskFits, LeadsOf, TasksOf, LiveLeads, LiveTasks
      <3> QED
        BY <3>2, <3>3 DEF ProcessInv
    <2> QED
      BY <2>1, <2>2, <2>3 DEF RowsInv
  <1>2. ASSUME NEW p \in Procs, DiscoveryStep(p)
        PROVE  RowsInv'
    BY <1>2, NoBeginInv, SearchInv, UpsertInv, DiscoveryQuietInv, DiscoverCommitInv DEF DiscoveryStep
  <1>3. ASSUME NEW p \in Procs, PromotionStep(p)
        PROVE  RowsInv'
    BY <1>3, PromotionStartInv, ReviewReadInv, ReviewWriteInv, PromoteQuietInv, PromoteCommitInv,
       ApplyLockInv, ApplyDecideInv, ApplyCommitInv DEF PromotionStep
  <1>4. ASSUME NEW p \in Procs, CompletionStep(p)
        PROVE  RowsInv'
    BY <1>4, EnrichQuietInv, EnrichWriteInv, CompleteQuietInv, CompleteWriteInv DEF CompletionStep
  <1>5. ASSUME NEW p \in Procs, RecordStep(p)
        PROVE  RowsInv'
    BY <1>5, RecordStartInv, DeleteStatusStartInv, RecordReadInv, ContactCreateInv, ContactDeleteInv,
       LeadCreateInv, LeadDeleteInv, TaskCreateInv, StatusWriteInv DEF RecordStep
  <1> QED
    BY <1>1, <1>2, <1>3, <1>4, <1>5, ProcessStepInv DEF Next

-----------------------------------------------------------------------------
(* The bound on outreach tasks. *)

ProcessNext(p) ==
    DiscoveryStep(p) \/ PromotionStep(p) \/ CompletionStep(p) \/ RecordStep(p) \/ ProcessStep(p)

(* The steps that change leads or tasks, or reach a label that counts.     *)
Counting(p) ==
    \/ CompleteLeads(p) \/ CompleteTasks(p) \/ CompleteWrite(p) \/ ApplyCommit(p)
    \/ LeadCreate(p) \/ LeadDelete(p) \/ TaskCreate(p) \/ StatusWrite(p)
    \/ ContactDelete(p)

CountedLabels == {"complete_tasks"}

(* What a process does with itself: where it goes, and what it remembers.  *)
Moves(p) ==
    /\ \E label : pc' = [pc EXCEPT ![p] = label]
    /\ \E j : job' = [job EXCEPT ![p] = j]
    /\ mix' = mix

LEMMA BeginMoves ==
  ASSUME NEW p \in Procs, NEW command, NEW label, NEW args, Begin(p, command, label, args)
  PROVE  Moves(p)
  BY DEF Moves, Begin, Goto

LEMMA DiscoverAnswers ==
  ASSUME NEW p \in Procs, DiscoverCommit(p)
  PROVE  (\E a : Answer(p, a, NoContact)) /\ UNCHANGED crm
  BY DEF DiscoverCommit, PrintPlan

(* Every step of a process moves that process only.                        *)
LEMMA OwnMove ==
  ASSUME RowsInv, NEW p \in Procs, ProcessNext(p)
  PROVE  Moves(p)
  <1>6. job = [job EXCEPT ![p] = job[p]]
    BY DEF RowsInv, TypeOK
  <1> USE DEF Moves, Begin, Step, Lock, Fail, Answer, Goto, Write, Refused
  <1>1. CASE DiscoveryStep(p)
    <2>1. CASE Search(p) \/ Upsert(p)
      BY <2>1 DEF Search, Upsert
    <2>2. CASE UpsertLock(p) \/ StateLock(p)
      BY <1>6, <2>2 DEF UpsertLock, StateLock
    <2>4. CASE StateRead(p)
      BY Zenon, <2>4 DEF StateRead
    <2>3. CASE DiscoverCommit(p)
      BY <2>3, DiscoverAnswers
    <2> QED
      BY <1>1, <2>1, <2>2, <2>3, <2>4 DEF DiscoveryStep, DiscoverStart, PlanStart
  <1>2. CASE PromotionStep(p)
    <2>1. CASE ReviewRead(p) \/ ReviewWrite(p) \/ PromoteCommit(p)
      BY <2>1 DEF ReviewRead, ReviewWrite, PromoteCommit
    <2>2. CASE PromoteDecide(p)
      BY <2>2 DEF PromoteDecide, AlreadyPromoted
    <2>3. CASE ApplyDecide(p)
      BY <2>3 DEF ApplyDecide, Materialize
    <2>4. CASE ApplyCommit(p)
      BY <2>4 DEF ApplyCommit
    <2>5. CASE PromoteLock(p) \/ ApplyLock(p)
      BY <1>6, <2>5 DEF PromoteLock, ApplyLock
    <2>6. ASSUME NEW c \in Candidates,
                 \/ PromoteStart(p, c)
                 \/ \E target \in {"REVIEWED", "REJECTED"} : ReviewStart(p, c, target)
                 \/ \E n \in 1..LastCheck : ApplyStart(p, n, c)
          PROVE  Moves(p)
      <3> USE DEF PromoteStart, ReviewStart, ApplyStart
      <3> HIDE DEF Moves, Begin
      <3> QED
        BY <2>6, BeginMoves
    <2> HIDE DEF Moves
    <2> QED
      BY <1>2, <2>1, <2>2, <2>3, <2>4, <2>5, <2>6 DEF PromotionStep
  <1>3. CASE CompletionStep(p)
    <2>1. CASE EnrichRead(p) \/ EnrichFetch(p) \/ EnrichFind(p) \/ EnrichWrite(p)
      BY <2>1 DEF EnrichRead, EnrichFetch, EnrichFind, EnrichWrite
    <2>2. CASE CompleteLeads(p) \/ CompleteTasks(p) \/ CompleteReuse(p) \/ CompleteWrite(p)
      BY <2>2 DEF CompleteLeads, CompleteTasks, CompleteReuse, CompleteWrite
    <2> QED
      BY <1>3, <2>1, <2>2 DEF CompletionStep, EnrichStart, CompleteStart
  <1>4. CASE RecordStep(p)
    <2>1. CASE ContactCreate(p) \/ ContactRead(p) \/ ContactDelete(p)
      BY <2>1 DEF ContactCreate, ContactRead, ContactDelete
    <2>2. CASE LeadRead(p) \/ LeadCreate(p) \/ LeadFind(p) \/ LeadDelete(p)
      BY <2>2 DEF LeadRead, LeadCreate, LeadFind, LeadDelete
    <2>3. CASE TaskRead(p) \/ TaskCreate(p) \/ StatusRead(p) \/ StatusWrite(p)
      BY <2>3 DEF TaskRead, TaskCreate, StatusRead, StatusWrite
    <2> QED
      BY <1>4, <2>1, <2>2, <2>3 DEF RecordStep, ContactCreateStart, ContactDeleteStart, LeadFromContactStart,
         LeadCreateStart, LeadDeleteStart, TaskCreateStart, StatusStart
  <1>5. CASE ProcessStep(p)
    BY <1>5 DEF ProcessStep, Exit, DatabaseError, Crash
  <1> QED
    BY <1>1, <1>2, <1>3, <1>4, <1>5 DEF ProcessNext

(* The others change no lead and no task, and reach no label that counts.  *)
LEMMA UncountedStep ==
  ASSUME RowsInv, NEW p \in Procs, ProcessNext(p), ~Counting(p)
  PROVE  UNCHANGED <<lead, task>> /\ pc'[p] \notin CountedLabels
  <1> SUFFICES /\ UNCHANGED <<lead, task>>
               /\ \E label : pc' = [pc EXCEPT ![p] = label] /\ label \notin CountedLabels
    BY DEF RowsInv, TypeOK
  <1> USE DEF CountedLabels, Begin, Step, Lock, Fail, Answer, Goto, Write, Refused, tables, crm
  <1>1. CASE DiscoveryStep(p)
    <2>1. CASE Search(p) \/ Upsert(p)
      BY ZenonT(40), <2>1 DEF Search, Upsert
    <2>2. CASE UpsertLock(p) \/ StateRead(p) \/ StateLock(p)
      BY <2>2 DEF UpsertLock, StateRead, StateLock
    <2>3. CASE DiscoverCommit(p)
      BY <2>3, DiscoverAnswers
    <2> QED
      BY <1>1, <2>1, <2>2, <2>3 DEF DiscoveryStep, DiscoverStart, PlanStart
  <1>2. CASE PromotionStep(p)
    <2>1. CASE ReviewRead(p) \/ ReviewWrite(p) \/ PromoteCommit(p)
      BY ZenonT(40), <2>1 DEF ReviewRead, ReviewWrite, PromoteCommit
    <2>2. CASE PromoteDecide(p)
      BY <2>2 DEF PromoteDecide, AlreadyPromoted
    <2>3. CASE ApplyDecide(p)
      BY <2>3 DEF ApplyDecide, Materialize
    <2> QED
      BY ZenonT(40), <1>2, <2>1, <2>2, <2>3 DEF Counting, PromotionStep, PromoteStart, ReviewStart, ApplyStart, PromoteLock, ApplyLock
  <1>3. CASE CompletionStep(p)
    <2>1. CASE EnrichRead(p) \/ EnrichFetch(p) \/ EnrichFind(p) \/ EnrichWrite(p)
      BY <2>1 DEF EnrichRead, EnrichFetch, EnrichFind, EnrichWrite
    <2>2. CASE CompleteReuse(p)
      <3>1. UNCHANGED <<lead, task>> /\ pc' = [pc EXCEPT ![p] = "done"]
        BY <2>2 DEF CompleteReuse
      <3>2. "done" \notin CountedLabels
        OBVIOUS
      <3> HIDE DEF CountedLabels
      <3> QED
        BY Zenon, <3>1, <3>2
    <2> QED
      BY <1>3, <2>1, <2>2 DEF Counting, CompletionStep, EnrichStart, CompleteStart
  <1>4. CASE RecordStep(p)
    <2>1. CASE ContactCreate(p) \/ ContactRead(p)
      BY <2>1 DEF ContactCreate, ContactRead
    <2>2. CASE LeadRead(p) \/ LeadFind(p) \/ TaskRead(p) \/ StatusRead(p)
      BY <2>2 DEF LeadRead, LeadFind, TaskRead, StatusRead
    <2> QED
      BY ZenonT(40), <1>4, <2>1, <2>2 DEF Counting, RecordStep, ContactCreateStart, ContactDeleteStart, LeadFromContactStart,
         LeadCreateStart, LeadDeleteStart, TaskCreateStart, StatusStart
  <1>5. CASE ProcessStep(p)
    BY <1>5 DEF ProcessStep, Exit, DatabaseError, Crash
  <1> QED
    BY <1>1, <1>2, <1>3, <1>4, <1>5 DEF ProcessNext

(* A process that is not completing needs to see nothing.                  *)
LEMMA Seen ==
  ASSUME RowsInv, NEW p \in Procs, Moves(p), pc'[p] \notin CountedLabels, NEW q \in Procs,
         NEW t \in Tasks, task'[t].lead = task[t].lead, WillSee(q, t)
  PROVE  WillSee(q, t)'
  <1>1. q # p => pc'[q] = pc[q] /\ job'[q] = job[q]
    BY DEF Moves, RowsInv, TypeOK
  <1> QED
    BY <1>1 DEF WillSee, CountedLabels

(* Nothing new to do: everything is still done by who made it.             *)
LEMMA StillBounded ==
  ASSUME OutreachInv, mix' = mix,
         \A t \in Waiting' : t \in Waiting /\ \A q \in Procs : WillSee(q, t) => WillSee(q, t)'
  PROVE  OutreachInv'
  <1> SUFFICES ASSUME "contact_delete" \notin mix
               PROVE  \E maker \in [Waiting' -> Procs] :
                          /\ \A t, u \in Waiting' : maker[t] = maker[u] => t = u
                          /\ \A t \in Waiting' : WillSee(maker[t], t)'
    BY DEF OutreachInv
  <1>1. PICK maker \in [Waiting -> Procs] :
            /\ \A t, u \in Waiting : maker[t] = maker[u] => t = u
            /\ \A t \in Waiting : WillSee(maker[t], t)
    BY DEF OutreachInv
  <1>2. PICK kept \in [Waiting' -> Procs] : \A t \in Waiting' : kept[t] = maker[t]
    <2> DEFINE own == [t \in Waiting' |-> maker[t]]
    <2>1. own \in [Waiting' -> Procs] /\ \A t \in Waiting' : own[t] = maker[t]
      OBVIOUS
    <2> QED
      BY <2>1
  <1>3. \A t, u \in Waiting' : kept[t] = kept[u] => t = u
    BY <1>1, <1>2
  <1>4. \A t \in Waiting' : WillSee(kept[t], t)'
    BY <1>1, <1>2
  <1> QED
    BY <1>3, <1>4

(* The one task that is new is made by a process that had made none of     *)
(* those to do, for it would have seen it.                                 *)
LEMMA OneMade ==
  ASSUME OutreachInv, mix' = mix, NEW p \in Procs, NEW t,
         pc[p] = "complete_tasks", job[p].leads = {}, job[p].active = {}, pc'[p] \notin CountedLabels,
         \A u \in Waiting' \ {t} : u \in Waiting /\ \A q \in Procs : WillSee(q, u) => WillSee(q, u)'
  PROVE  OutreachInv'
  <1> SUFFICES ASSUME "contact_delete" \notin mix
               PROVE  \E maker \in [Waiting' -> Procs] :
                          /\ \A u, v \in Waiting' : maker[u] = maker[v] => u = v
                          /\ \A u \in Waiting' : WillSee(maker[u], u)'
    BY DEF OutreachInv
  <1>1. PICK maker \in [Waiting -> Procs] :
            /\ \A u, v \in Waiting : maker[u] = maker[v] => u = v
            /\ \A u \in Waiting : WillSee(maker[u], u)
    BY DEF OutreachInv
  <1>2. \A u \in Waiting : maker[u] # p
    BY <1>1 DEF WillSee
  <1>3. PICK made \in [Waiting' -> Procs] : \A u \in Waiting' : made[u] = IF u = t THEN p ELSE maker[u]
    <2> DEFINE own == [u \in Waiting' |-> IF u = t THEN p ELSE maker[u]]
    <2>1. own \in [Waiting' -> Procs] /\ \A u \in Waiting' : own[u] = IF u = t THEN p ELSE maker[u]
      OBVIOUS
    <2> QED
      BY <2>1
  <1>4. \A u, v \in Waiting' : made[u] = made[v] => u = v
    BY <1>1, <1>2, <1>3
  <1>5. WillSee(p, t)'
    BY DEF WillSee, CountedLabels
  <1>6. \A u \in Waiting' : WillSee(made[u], u)'
    <2> TAKE u \in Waiting'
    <2>1. CASE u = t
      BY <1>3, <1>5, <2>1
    <2>2. CASE u # t
      BY <1>1, <1>3, <2>2
    <2> QED
      BY <2>1, <2>2
  <1> QED
    BY <1>4, <1>6

(* When the tasks to do can only be old ones.                              *)
LEMMA OldOnly ==
  ASSUME RowsInv, OutreachInv, NEW p \in Procs, Moves(p), pc'[p] \notin CountedLabels,
         \A t \in Tasks : t \in Waiting' => t \in Waiting /\ task'[t].lead = task[t].lead
  PROVE  OutreachInv'
  <1>1. Waiting' \subseteq Tasks
    BY DEF Waiting, LiveTasks
  <1>2. \A t \in Waiting' : t \in Waiting /\ \A q \in Procs : WillSee(q, t) => WillSee(q, t)'
    BY <1>1, Seen
  <1>3. mix' = mix
    BY DEF Moves
  <1> QED
    BY <1>2, <1>3, StillBounded

(* One step at a time: those that change no lead and no task.              *)
LEMMA UncountedBound ==
  ASSUME RowsInv, OutreachInv, NEW p \in Procs, Moves(p), UNCHANGED <<lead, task>>, pc'[p] \notin CountedLabels
  PROVE  OutreachInv'
  <1>1. \A t \in Tasks : t \in Waiting' => t \in Waiting /\ task'[t].lead = task[t].lead
    BY DEF Waiting, LiveTasks, CompanyLeads, LiveLeads
  <1> QED
    BY <1>1, OldOnly

(* A task and its lead that stay as they are.                              *)
LEMMA SameTask ==
  ASSUME NEW t \in Tasks, t \in LiveTasks' => t \in LiveTasks, task'[t] = task[t],
         task[t].lead \in CompanyLeads' => task[t].lead \in CompanyLeads
  PROVE  t \in Waiting' => t \in Waiting /\ task'[t].lead = task[t].lead
  BY DEF Waiting

LEMMA AnsweredLabel ==
  ASSUME RowsInv, NEW p \in Procs, NEW a, NEW k, Answer(p, a, k)
  PROVE  pc'[p] \notin CountedLabels
  BY DEF Answer, Goto, RowsInv, TypeOK, CountedLabels

LEMMA RefusedBound ==
  ASSUME RowsInv, OutreachInv, NEW p \in Procs, Moves(p), Refused(p)
  PROVE  OutreachInv'
  <1>1. pc'[p] \notin CountedLabels
    BY AnsweredLabel DEF Refused, Fail
  <1>2. UNCHANGED <<lead, task>>
    BY DEF Refused, Fail, tables, crm
  <1> QED
    BY <1>1, <1>2, UncountedBound

LEMMA LeadCreateBound ==
  ASSUME RowsInv, OutreachInv, NEW p \in Procs, Moves(p), LeadCreate(p)
  PROVE  OutreachInv'
  <1>1. CASE Refused(p)
    BY <1>1, RefusedBound
  <1>2. CASE ~Refused(p)
    <2>1. /\ UNCHANGED task /\ Write(p, "ok")
          /\ job[p].contact \in Contacts \union {NoContact}
          /\ \E l \in Leads : /\ l \notin LiveLeads
                              /\ lead' = [lead EXCEPT ![l] = [live |-> TRUE, contact |-> job[p].contact,
                                                              fresh |-> job[p].seen]]
      BY <1>2 DEF LeadCreate, IsNextKey, Live
    <2>2. job[p].seen \in BOOLEAN
      BY Zenon DEF RowsInv, TypeOK, Job
    <2>3. PICK l \in Leads, k \in Contacts \union {NoContact}, fresh \in BOOLEAN :
              l \notin LiveLeads /\ lead' = [lead EXCEPT ![l] = [live |-> TRUE, contact |-> k, fresh |-> fresh]]
      BY <2>1, <2>2
    <2>4. \A m \in Leads : m # l => lead'[m] = lead[m]
      BY Zenon, <2>3, LeadMade
    <2>5. LiveLeads' = LiveLeads \union {l}
      BY Zenon, <2>3, LeadMade
    <2>6. ASSUME NEW t \in Tasks, t \in Waiting'
          PROVE  t \in Waiting /\ task'[t].lead = task[t].lead
      <3>1. t \in LiveTasks /\ task'[t] = task[t] /\ task[t].lead \in CompanyLeads'
        BY <2>1, <2>6 DEF Waiting, LiveTasks
      <3>2. task[t].lead \in LiveLeads
        BY <3>1 DEF RowsInv, RecordsInv
      <3>3. task[t].lead \in CompanyLeads
        BY <2>3, <2>4, <3>1, <3>2 DEF CompanyLeads, LiveLeads
      <3> QED
        BY <2>6, <3>1, <3>3, SameTask
    <2>7. pc'[p] \notin CountedLabels
      BY <2>1, AnsweredLabel DEF Write
    <2> QED
      BY <2>6, <2>7, OldOnly
  <1> QED
    BY <1>1, <1>2

LEMMA LeadDeleteBound ==
  ASSUME RowsInv, OutreachInv, NEW p \in Procs, Moves(p), LeadDelete(p)
  PROVE  OutreachInv'
  <1>1. ASSUME NEW t \in Tasks, t \in Waiting'
        PROVE  t \in Waiting /\ task'[t].lead = task[t].lead
    <2>1. t \in LiveTasks /\ task'[t] = task[t]
      BY <1>1, LeadDeleteFact DEF Waiting
    <2>2. task[t].lead \in CompanyLeads
      BY <1>1, <2>1, LeadDeleteFact DEF Waiting, CompanyLeads
    <2> QED
      BY <1>1, <2>1, <2>2, SameTask
  <1>2. pc'[p] \notin CountedLabels
    BY AnsweredLabel DEF LeadDelete, Write
  <1> QED
    BY <1>1, <1>2, OldOnly

LEMMA TaskCreateBound ==
  ASSUME RowsInv, OutreachInv, NEW p \in Procs, Moves(p), TaskCreate(p)
  PROVE  OutreachInv'
  <1>1. CASE Refused(p)
    BY <1>1, RefusedBound
  <1>2. CASE ~Refused(p)
    <2>1. /\ UNCHANGED lead /\ Write(p, "ok")
          /\ job[p].lead \in LiveLeads
          /\ \E t \in Tasks : task' = [task EXCEPT ![t] = NewTask(p, job[p].lead, "other")]
      BY <1>2 DEF TaskCreate
    <2>2. PICK l \in Leads, t \in Tasks :
              l = job[p].lead /\ task' = [task EXCEPT ![t] = NewTask(p, l, "other")]
      BY <2>1 DEF LiveLeads
    <2>3. /\ task'[t].kind = "other" /\ LiveTasks' = LiveTasks \union {t}
          /\ \A u \in Tasks : u # t => task'[u] = task[u]
      BY Zenon, <2>2, TaskMade
    <2>4. CompanyLeads' = CompanyLeads
      BY <2>1 DEF CompanyLeads, LiveLeads
    <2>5. ASSUME NEW u \in Tasks, u \in Waiting'
          PROVE  u \in Waiting /\ task'[u].lead = task[u].lead
      <3>1. u # t
        BY <2>3, <2>5 DEF Waiting
      <3> QED
        BY <2>3, <2>4, <2>5, <3>1, SameTask
    <2>6. pc'[p] \notin CountedLabels
      BY <2>1, AnsweredLabel DEF Write
    <2> QED
      BY <2>5, <2>6, OldOnly
  <1> QED
    BY <1>1, <1>2

LEMMA ApplyCommitBound ==
  ASSUME RowsInv, OutreachInv, NEW p \in Procs, Moves(p), ApplyCommit(p)
  PROVE  OutreachInv'
  <1>1. PICK k \in Contacts, l \in Leads, t \in Tasks :
            /\ IF job[p].lead = NoLead
               THEN /\ IsNextKey(l, Leads, LiveLeads)
                    /\ lead' = [lead EXCEPT ![l] = [live |-> TRUE, contact |-> k, fresh |-> TRUE]]
               ELSE l = job[p].lead /\ UNCHANGED lead
            /\ IF job[p].task = NoTask
               THEN /\ IsNextKey(t, Tasks, LiveTasks)
                    /\ task' = [task EXCEPT ![t] = NewTask(p, l, "plan")]
               ELSE t = job[p].task /\ UNCHANGED task
            /\ Answer(p, "ok", k)
    BY ApplyFact
  <1>2. CompanyLeads' \subseteq CompanyLeads
    <2>1. CASE job[p].lead = NoLead
      <3>1. lead' = [lead EXCEPT ![l] = [live |-> TRUE, contact |-> k, fresh |-> TRUE]]
        BY <1>1, <2>1
      <3>2. /\ LiveLeads' = LiveLeads \union {l} /\ lead'[l].contact = k
            /\ \A m \in Leads : m # l => lead'[m] = lead[m]
        BY Zenon, <3>1, LeadMade
      <3> QED
        BY <3>2, NoneAssumption DEF CompanyLeads, LiveLeads
    <2>2. CASE job[p].lead # NoLead
      BY <1>1, <2>2 DEF CompanyLeads, LiveLeads
    <2> QED
      BY <2>1, <2>2
  <1>3. ASSUME NEW u \in Tasks, u \in Waiting'
        PROVE  u \in Waiting /\ task'[u].lead = task[u].lead
    <2>1. CASE job[p].task = NoTask
      <3>1. task' = [task EXCEPT ![t] = NewTask(p, l, "plan")]
        BY <1>1, <2>1
      <3>2. /\ LiveTasks' = LiveTasks \union {t} /\ task'[t].kind = "plan"
            /\ \A v \in Tasks : v # t => task'[v] = task[v]
        BY Zenon, <3>1, TaskMade
      <3>3. u # t
        BY <1>3, <3>2 DEF Waiting
      <3> QED
        BY <1>2, <1>3, <3>2, <3>3, SameTask
    <2>2. CASE job[p].task # NoTask
      <3>1. task' = task /\ LiveTasks' = LiveTasks
        BY <1>1, <2>2 DEF LiveTasks
      <3> QED
        BY <1>2, <1>3, <3>1, SameTask
    <2> QED
      BY <2>1, <2>2
  <1>4. pc'[p] \notin CountedLabels
    BY <1>1, AnsweredLabel
  <1> QED
    BY <1>3, <1>4, OldOnly

(* No task that was started is to do again.                                *)
LEMMA StatusWriteBound ==
  ASSUME RowsInv, OutreachInv, NEW p \in Procs, Moves(p), StatusWrite(p)
  PROVE  OutreachInv'
  <1>1. CASE Refused(p)
    BY <1>1, RefusedBound
  <1>2. CASE ~Refused(p)
    <2>1. /\ task' = [task EXCEPT ![job[p].task].status = job[p].outcome]
          /\ UNCHANGED lead /\ Write(p, "ok")
          /\ job[p].task \in LiveTasks /\ pc[p] = "status_write"
      BY <1>2 DEF StatusWrite
    <2>2. job[p].outcome \in {"IN_PROGRESS", "DONE", "CANCELLED"}
      BY <2>1 DEF RowsInv, ProcessInv, Named
    <2>3. task \in [Tasks -> TaskRow]
      BY DEF RowsInv, TypeOK, TablesOK
    <2>4. \A t \in Tasks : task'[t].lead = task[t].lead /\ task'[t].kind = task[t].kind
      BY <2>1, <2>3 DEF TaskRow
    <2>5. LiveTasks' = LiveTasks
      BY <2>1, <2>2, <2>3 DEF LiveTasks, TaskRow
    <2>6. CompanyLeads' = CompanyLeads
      BY <2>1 DEF CompanyLeads, LiveLeads
    <2>7. ASSUME NEW t \in Tasks, t \in Waiting'
          PROVE  t \in Waiting /\ task'[t].lead = task[t].lead
      <3>1. t \in Tasks /\ t # job[p].task
        BY <2>1, <2>2, <2>3, <2>7 DEF Waiting, LiveTasks, TaskRow
      <3>2. task'[t] = task[t]
        BY <2>1, <2>3, <3>1
      <3> QED
        BY <2>4, <2>5, <2>6, <2>7, <3>2 DEF Waiting
    <2>8. pc'[p] \notin CountedLabels
      BY <2>1, AnsweredLabel DEF Write
    <2> QED
      BY <2>7, <2>8, OldOnly
  <1> QED
    BY <1>1, <1>2

(* What was listed is still to be looked under.                            *)
LEMMA CompleteLeadsBound ==
  ASSUME RowsInv, OutreachInv, NEW p \in Procs, Moves(p), CompleteLeads(p)
  PROVE  OutreachInv'
  <1>1. ASSUME NEW a, Fail(p, a)
        PROVE  OutreachInv'
    <2>1. pc'[p] \notin CountedLabels
      BY <1>1, AnsweredLabel DEF Fail
    <2> QED
      BY <1>1, <2>1, UncountedBound DEF Fail, tables, crm
  <1>2. ASSUME NEW l \in Leads \union {NoLead},
               Step(p, "complete_tasks", [job[p] EXCEPT !.lead = l, !.leads = CompanyLeads])
        PROVE  OutreachInv'
    <2>1. UNCHANGED <<lead, task>> /\ mix' = mix
      BY <1>2 DEF Step, tables, crm
    <2>2. job[p] \in Job
      BY DEF RowsInv, TypeOK
    <2>3. job'[p].leads = CompanyLeads
      BY <1>2, <2>2 DEF Step, Job, RowsInv, TypeOK
    <2>4. \A q \in Procs : q # p => pc'[q] = pc[q] /\ job'[q] = job[q]
      BY DEF Moves, RowsInv, TypeOK
    <2>5. ASSUME NEW t \in Waiting'
          PROVE  t \in Waiting /\ \A q \in Procs : WillSee(q, t) => WillSee(q, t)'
      <3>1. t \in Waiting
        BY <2>1 DEF Waiting, LiveTasks, CompanyLeads, LiveLeads
      <3>2. task'[t].lead \in job'[p].leads
        BY <2>1, <2>3, <3>1 DEF Waiting
      <3>3. ASSUME NEW q \in Procs, WillSee(q, t)
            PROVE  WillSee(q, t)'
        <4>1. CASE q = p
          BY <3>2, <4>1 DEF WillSee
        <4>2. CASE q # p
          BY <2>1, <2>4, <3>3, <4>2 DEF WillSee
        <4> QED
          BY <4>1, <4>2
      <3> QED
        BY <3>1, <3>3
    <2> QED
      BY <2>1, <2>5, StillBounded
  <1>3. \/ \E a : Fail(p, a)
        \/ \E l \in Leads \union {NoLead} :
               Step(p, "complete_tasks", [job[p] EXCEPT !.lead = l, !.leads = CompanyLeads])
    BY DEF CompleteLeads
  <1> QED
    BY <1>1, <1>2, <1>3

(* A task is found under its lead, or its lead is still to be read.        *)
LEMMA CompleteTasksBound ==
  ASSUME RowsInv, OutreachInv, NEW p \in Procs, Moves(p), CompleteTasks(p)
  PROVE  OutreachInv'
  <1>1. PICK l \in Leads :
            Step(p, "complete_tasks",
                 [job[p] EXCEPT !.leads = @ \ {l}, !.active = @ \union ({l} \X ActiveOutreach(l))])
    BY DEF CompleteTasks
  <1>2. UNCHANGED <<lead, task>> /\ mix' = mix
    BY <1>1 DEF Step, tables, crm
  <1>3. job[p] \in Job
    BY DEF RowsInv, TypeOK
  <1>4. /\ job'[p].leads = job[p].leads \ {l}
        /\ job'[p].active = job[p].active \union ({l} \X ActiveOutreach(l))
    BY <1>1, <1>3 DEF Step, Job, RowsInv, TypeOK
  <1>5. pc[p] = "complete_tasks"
    BY DEF CompleteTasks
  <1>6. \A q \in Procs : q # p => pc'[q] = pc[q] /\ job'[q] = job[q]
    BY DEF Moves, RowsInv, TypeOK
  <1>7. ASSUME NEW t \in Waiting'
        PROVE  t \in Waiting /\ \A q \in Procs : WillSee(q, t) => WillSee(q, t)'
    <2>1. t \in Waiting
      BY <1>2 DEF Waiting, LiveTasks, CompanyLeads, LiveLeads
    <2>2. task[t].lead = l => t \in ActiveOutreach(l)
      BY <2>1 DEF Waiting, ActiveOutreach, TasksOf, IsActive
    <2>3. ASSUME WillSee(p, t)
          PROVE  WillSee(p, t)'
      <3>1. task[t].lead \in job[p].leads \/ job[p].active # {}
        BY <1>5, <2>3 DEF WillSee
      <3>2. CASE job[p].active # {}
        BY <1>4, <3>2 DEF WillSee
      <3>3. CASE task[t].lead \in job[p].leads /\ task[t].lead # l
        BY <1>2, <1>4, <3>3 DEF WillSee
      <3>4. CASE task[t].lead = l
        <4>1. <<l, t>> \in job'[p].active
          BY <1>4, <2>2, <3>4
        <4> QED
          BY <4>1 DEF WillSee
      <3> QED
        BY <3>1, <3>2, <3>3, <3>4
    <2>4. ASSUME NEW q \in Procs, WillSee(q, t), q # p
          PROVE  WillSee(q, t)'
      BY <1>2, <1>6, <2>4 DEF WillSee
    <2> QED
      BY <2>1, <2>3, <2>4
  <1> QED
    BY <1>2, <1>7, StillBounded

LEMMA CompleteWriteBound ==
  ASSUME RowsInv, OutreachInv, NEW p \in Procs, Moves(p), CompleteWrite(p)
  PROVE  OutreachInv'
  <1>1. CASE Refused(p)
    BY <1>1, RefusedBound
  <1>2. CASE ~Refused(p)
    <2>1. PICK l \in Leads, t \in Tasks :
              /\ LiveLeads' = LiveLeads \union {l}
              /\ \A m \in Leads : \/ lead'[m] = lead[m]
                                  \/ m = l /\ l \notin LiveLeads /\ lead'[l].contact = NoContact
              /\ LiveTasks' = LiveTasks \union {t}
              /\ \A u \in Tasks : u # t => task'[u] = task[u]
      BY <1>2, CompleteFact
    <2>2. pc'[p] \notin CountedLabels
      BY <1>2, AnsweredLabel DEF CompleteWrite, Write
    <2>3. ASSUME NEW u \in Waiting' \ {t}
          PROVE  u \in Waiting /\ \A q \in Procs : WillSee(q, u) => WillSee(q, u)'
      <3>1. u \in Tasks /\ u \in LiveTasks /\ task'[u] = task[u]
        BY <2>1, <2>3 DEF Waiting, LiveTasks
      <3>2. task[u].lead \in LiveLeads
        BY <3>1 DEF RowsInv, RecordsInv
      <3>3. task[u].lead \in CompanyLeads' => task[u].lead \in CompanyLeads
        BY <2>1, <3>2 DEF CompanyLeads, LiveLeads
      <3>4. u \in Waiting
        BY <2>3, <3>1, <3>3, SameTask
      <3> QED
        BY <2>2, <3>1, <3>4, Seen
    <2>4. /\ pc[p] = "complete_tasks" /\ job[p].leads = {} /\ job[p].active = {}
          /\ mix' = mix
      BY DEF CompleteWrite, Moves
    <2> QED
      BY <2>2, <2>3, <2>4, OneMade
  <1> QED
    BY <1>1, <1>2

(* No contact is deleted where the bound is claimed.                       *)
LEMMA ContactDeleteBound ==
  ASSUME RowsInv, OutreachInv, NEW p \in Procs, Moves(p), ContactDelete(p)
  PROVE  OutreachInv'
  <1>1. pc[p] = "contact_delete"
    BY DEF ContactDelete
  <1>2. "contact_delete" \in mix
    BY <1>1 DEF RowsInv, ProcessInv, Named
  <1> QED
    BY <1>2 DEF OutreachInv, Moves

LEMMA OutreachStep ==
  ASSUME RowsInv, OutreachInv, [Next]_vars
  PROVE  OutreachInv'
  <1>1. CASE UNCHANGED vars
    <2>1. mix' = mix /\ Waiting' = Waiting /\ \A t \in Waiting', q \in Procs : WillSee(q, t) => WillSee(q, t)'
      BY <1>1 DEF vars, Waiting, WillSee, LiveTasks, CompanyLeads, LiveLeads
    <2> QED
      BY <2>1, StillBounded
  <1>2. ASSUME NEW p \in Procs, ProcessNext(p)
        PROVE  OutreachInv'
    <2>1. Moves(p)
      BY <1>2, OwnMove
    <2>2. CASE ~Counting(p)
      BY <1>2, <2>1, <2>2, UncountedStep, UncountedBound
    <2>3. CASE Counting(p)
      BY <2>1, <2>3, CompleteLeadsBound, CompleteTasksBound, CompleteWriteBound, ApplyCommitBound,
         LeadCreateBound, LeadDeleteBound, TaskCreateBound, StatusWriteBound, ContactDeleteBound DEF Counting
    <2> QED
      BY <2>2, <2>3
  <1> QED
    BY <1>1, <1>2 DEF Next, ProcessNext

LEMMA OutreachInit == Init => OutreachInv
  <1> SUFFICES ASSUME Init
               PROVE  \E maker \in [Waiting -> Procs] :
                          /\ \A t, u \in Waiting : maker[t] = maker[u] => t = u
                          /\ \A t \in Waiting : WillSee(maker[t], t)
    BY DEF OutreachInv
  <1>1. Waiting = {}
    BY DEF Init, Waiting, LiveTasks, NoTaskRow
  <1> DEFINE maker == [t \in Waiting |-> CHOOSE p \in Procs : TRUE]
  <1>2. maker \in [Waiting -> Procs]
    BY <1>1
  <1> QED
    BY <1>1, <1>2

-----------------------------------------------------------------------------
(* The invariant holds of every behaviour: the rows and the processes are  *)
(* as each command relies on them to be, and the outreach tasks to do were *)
(* made by a process each.                                                 *)
THEOREM Invariant == Spec => []IInv
  <1>1. Init => IInv
    BY RowsInit, OutreachInit DEF IInv
  <1>2. IInv /\ [Next]_vars => IInv'
    BY RowsStep, OutreachStep DEF IInv
  <1> QED
    BY <1>1, <1>2, PTL DEF Spec

(* What is applied is what the plan printed.                               *)
THEOREM PlansAreCurrent == Spec => []AppliedAsPlanned
  <1>1. IInv => AppliedAsPlanned
    <2> SUFFICES ASSUME IInv, NEW p \in Procs, pc[p] = "apply_commit"
                 PROVE  /\ handoff[job[p].check] = [candidate |-> job[p].candidate,
                                                    known |-> candidate[job[p].candidate].known]
                        /\ state.at = job[p].check
      BY DEF AppliedAsPlanned
    <2> QED
      BY DEF IInv, RowsInv, ProcessInv, Informed, TokenMatches
  <1> QED
    BY <1>1, Invariant, PTL

(* Where no contact is deleted, completions that race leave no more tasks  *)
(* to do than there are processes.                                         *)
THEOREM OutreachIsBounded == Spec => []OutreachBounded
  <1>1. IInv => OutreachBounded
    <2> SUFFICES ASSUME IInv, "contact_delete" \notin mix
                 PROVE  Cardinality(Waiting) <= Cardinality(Procs)
      BY DEF OutreachBounded
    <2>1. PICK maker \in [Waiting -> Procs] :
              \A t, u \in Waiting : maker[t] = maker[u] => t = u
      BY DEF IInv, OutreachInv
    <2>2. maker \in Injection(Waiting, Procs)
      BY Zenon, <2>1 DEF Injection, IsInjective
    <2> QED
      BY Zenon, <2>2, ProcsAssumption, FS_Injection
  <1> QED
    BY <1>1, Invariant, PTL

-----------------------------------------------------------------------------
(* Honest answers. *)

(* What is said of candidate c when its promotion is answered.             *)
Truth(p, c) ==
    LET k == job'[p].contact
    IN  /\ candidate'[c].status = "PROMOTED" /\ candidate'[c].contact = k
        /\ k \in Live' /\ contact'[k].email = EmailOf[c]

LEMMA AnswerSaid ==
  ASSUME RowsInv, NEW p \in Procs, NEW a \in Answers, NEW k \in Contacts \union {NoContact}, Answer(p, a, k)
  PROVE  job'[p].answer = a /\ job'[p].contact = k
  BY DEF Answer, NoJob, RowsInv, TypeOK

LEMMA AlreadyTruth ==
  ASSUME RowsInv, NEW p \in Procs, NEW c \in Candidates, candidate[c].status = "PROMOTED",
         AlreadyPromoted(p, candidate[c]), job'[p].answer \in {"ok", "reused", "already"}
  PROVE  Truth(p, c)
  <1>1. "inconsistent" \in Answers /\ "already" \in Answers
    BY DEF Answers
  <1>2. candidate[c].contact \in Contacts \union {NoContact}
    BY DEF RowsInv, TypeOK, TablesOK, CandidateRow
  <1>3. ~Fail(p, "inconsistent")
    BY <1>1, AnswerSaid DEF Fail
  <1>4. Answer(p, "already", candidate[c].contact) /\ UNCHANGED tables /\ candidate[c].contact # NoContact
    BY <1>3 DEF AlreadyPromoted
  <1>5. job'[p].contact = candidate[c].contact
    BY <1>1, <1>2, <1>4, AnswerSaid
  <1> QED
    BY <1>2, <1>4, <1>5 DEF Truth, Live, tables, crm, found, RowsInv, LinksInv

LEMMA PromoteTruth ==
  ASSUME RowsInv, NEW p \in Procs, NEW c \in Candidates, c = job[p].candidate, PromoteCommit(p)
  PROVE  Truth(p, c)
  <1>1. PICK k \in Contacts : /\ LinkTo(p, c, k)
                              /\ Answer(p, IF k = job[p].contact THEN "reused" ELSE "ok", k)
    BY DEF PromoteCommit
  <1>2. job[p].contact # NoContact => job[p].contact \in At(EmailOf[c])
    BY DEF PromoteCommit, RowsInv, ProcessInv, Informed, IsDuplicate
  <1>3. /\ candidate'[c].status = "PROMOTED" /\ candidate'[c].contact = k
        /\ k \in Live' /\ contact'[k].email = EmailOf[c]
    BY <1>1, <1>2, LinkFact
  <1>4. "reused" \in Answers /\ "ok" \in Answers
    BY DEF Answers
  <1>5. job'[p].contact = k
    BY <1>1, <1>4, AnswerSaid
  <1> QED
    BY <1>3, <1>5 DEF Truth

LEMMA ApplyTruth ==
  ASSUME RowsInv, NEW p \in Procs, NEW c \in Candidates, c = job[p].candidate, ApplyCommit(p)
  PROVE  Truth(p, c)
  <1>1. PICK k \in Contacts : ApplyPromotion(p, c, k) /\ Answer(p, "ok", k)
    BY ApplyFact
  <1>2. pc[p] = "apply_commit"
    BY DEF ApplyCommit
  <1>3. /\ candidate'[c].status = "PROMOTED" /\ candidate'[c].contact = k
        /\ k \in Live' /\ contact'[k].email = EmailOf[c]
    BY <1>1, <1>2, AppliedContact
  <1>4. "ok" \in Answers
    BY DEF Answers
  <1>5. job'[p].contact = k
    BY <1>1, <1>4, AnswerSaid
  <1> QED
    BY <1>3, <1>5 DEF Truth

(* What is missing is made, and nothing else hangs from the contact: a new *)
(* contact has no leads yet, and a new lead no tasks.                      *)
LEMMA PlanMade ==
  ASSUME RowsInv, NEW p \in Procs, ApplyCommit(p)
  PROVE  \E x \in Contacts, l \in Leads, t \in Tasks :
             /\ x = job'[p].contact /\ LeadsOf(x)' = {l} /\ TasksOf(l)' = {t}
             /\ task'[t].kind = "plan"
  <1>1. PICK k \in Contacts, l \in Leads, t \in Tasks :
            /\ ApplyPromotion(p, job[p].candidate, k)
            /\ IF job[p].lead = NoLead
               THEN /\ IsNextKey(l, Leads, LiveLeads)
                    /\ lead' = [lead EXCEPT ![l] = [live |-> TRUE, contact |-> k, fresh |-> TRUE]]
               ELSE l = job[p].lead /\ UNCHANGED lead
            /\ IF job[p].task = NoTask
               THEN /\ IsNextKey(t, Tasks, LiveTasks)
                    /\ task' = [task EXCEPT ![t] = NewTask(p, l, "plan")]
               ELSE t = job[p].task /\ UNCHANGED task
            /\ Answer(p, "ok", k)
    BY ApplyFact
  <1>2. pc[p] = "apply_commit"
    BY DEF ApplyCommit
  <1>3. LeadFits(job[p].contact, job[p].lead) /\ TaskFits(job[p].lead, job[p].task)
    BY <1>2 DEF RowsInv, ProcessInv, Informed
  <1>4. k = job[p].contact \/ (job[p].contact = NoContact /\ k \notin Live)
    BY <1>1, <1>2, AppliedContact
  <1>5. /\ \A m \in LiveLeads : lead[m].contact \in Live \union {NoContact}
        /\ \A u \in LiveTasks : task[u].lead \in LiveLeads
    BY DEF RowsInv, RecordsInv
  <1>6. k # NoContact /\ l # NoLead
    BY NoneAssumption
  <1>7. LeadsOf(k)' = {l}
    <2>1. CASE job[p].lead = NoLead
      <3>1. lead' = [lead EXCEPT ![l] = [live |-> TRUE, contact |-> k, fresh |-> TRUE]] /\ l \notin LiveLeads
        BY <1>1, <2>1 DEF IsNextKey
      <3>2. /\ LiveLeads' = LiveLeads \union {l} /\ lead'[l].contact = k
            /\ \A m \in Leads : m # l => lead'[m] = lead[m]
        BY Zenon, <3>1, LeadMade
      <3>3. LeadsOf(job[p].contact) = {}
        BY <1>3, <2>1 DEF LeadFits
      <3>4. \A m \in LiveLeads : lead[m].contact # k
        BY <1>4, <1>5, <1>6, <3>3 DEF LeadsOf
      <3> QED
        BY <1>6, <3>1, <3>2, <3>4 DEF LeadsOf, LiveLeads
    <2>2. CASE job[p].lead # NoLead
      <3>1. LeadsOf(job[p].contact) = {l} /\ lead' = lead
        BY <1>1, <1>3, <2>2 DEF LeadFits
      <3>2. job[p].contact # NoContact
        BY <3>1 DEF LeadsOf
      <3>3. k = job[p].contact
        BY <1>4, <3>2
      <3> QED
        BY <3>1, <3>3 DEF LeadsOf, LiveLeads
    <2> QED
      BY <2>1, <2>2
  <1>8. TasksOf(l)' = {t} /\ task'[t].kind = "plan"
    <2>1. CASE job[p].task = NoTask
      <3>1. task' = [task EXCEPT ![t] = NewTask(p, l, "plan")] /\ t \notin LiveTasks
        BY <1>1, <2>1 DEF IsNextKey
      <3>2. /\ LiveTasks' = LiveTasks \union {t} /\ task'[t].lead = l /\ task'[t].kind = "plan"
            /\ \A u \in Tasks : u # t => task'[u] = task[u]
        BY Zenon, <3>1, TaskMade
      <3>3. TasksOf(job[p].lead) = {}
        BY <1>3, <2>1 DEF TaskFits
      <3>4. l = job[p].lead \/ l \notin LiveLeads
        BY <1>1 DEF IsNextKey
      <3>5. \A u \in LiveTasks : task[u].lead # l
        BY <1>5, <3>3, <3>4 DEF TasksOf
      <3> QED
        BY <3>1, <3>2, <3>5 DEF TasksOf, LiveTasks
    <2>2. CASE job[p].task # NoTask
      <3>1. TasksOf(job[p].lead) = {t} /\ task[t].kind = "plan" /\ task' = task
        BY <1>1, <1>3, <2>2 DEF TaskFits
      <3>2. task[t].lead = job[p].lead /\ t \in LiveTasks
        BY <3>1 DEF TasksOf
      <3>3. job[p].lead # NoLead
        BY <1>5, <3>2, NoneAssumption DEF LiveLeads
      <3>4. l = job[p].lead
        BY <1>1, <3>3
      <3> QED
        BY <3>1, <3>4 DEF TasksOf, LiveTasks
    <2> QED
      BY <2>1, <2>2
  <1>9. job'[p].contact = k
    BY <1>1, AnswerSaid DEF Answers
  <1> QED
    BY <1>7, <1>8, <1>9

(* A process inside a promotion or an application can only decide, commit, *)
(* fail or die.                                                            *)
LEMMA PromotingSteps ==
  ASSUME NEW p \in Procs, pc[p] \in PromotingLabels, ProcessNext(p)
  PROVE  \/ PromoteDecide(p) \/ PromoteCommit(p) \/ ApplyDecide(p) \/ ApplyCommit(p)
         \/ DatabaseError(p) \/ Crash(p)
  <1> USE DEF PromotingLabels, Begin
  <1>1. ~DiscoveryStep(p)
    BY DEF DiscoveryStep, DiscoverStart, PlanStart, Search, Upsert, UpsertLock, StateRead, StateLock,
       DiscoverCommit
  <1>2. ~CompletionStep(p)
    BY DEF CompletionStep, EnrichStart, EnrichRead, EnrichFetch, EnrichFind, EnrichWrite, CompleteStart,
       CompleteLeads, CompleteTasks, CompleteReuse, CompleteWrite
  <1>3. PromotionStep(p) => PromoteDecide(p) \/ PromoteCommit(p) \/ ApplyDecide(p) \/ ApplyCommit(p)
    BY DEF PromotionStep, PromoteStart, ReviewStart, ApplyStart, ReviewRead, ReviewWrite, PromoteLock, ApplyLock
  <1>4. ~RecordStep(p)
    BY DEF RecordStep, ContactCreateStart, ContactDeleteStart, LeadFromContactStart, LeadCreateStart,
       LeadDeleteStart, TaskCreateStart, StatusStart, ContactCreate, ContactRead, ContactDelete, LeadRead,
       LeadCreate, LeadFind, LeadDelete, TaskRead, TaskCreate, StatusRead, StatusWrite
  <1>5. ProcessStep(p) => DatabaseError(p) \/ Crash(p)
    BY DEF ProcessStep, Exit
  <1> QED
    BY <1>1, <1>2, <1>3, <1>4, <1>5 DEF ProcessNext

LEMMA HonestStep ==
  ASSUME RowsInv, NEW p \in Procs, ProcessNext(p), Told(p, PromotingLabels, {"ok", "reused", "already"})
  PROVE  Truth(p, job[p].candidate)
  <1>1. /\ pc[p] \in PromotingLabels /\ pc'[p] = "done" /\ job'[p].answer \in {"ok", "reused", "already"}
        /\ job[p].candidate \in Candidates
    BY DEF Told, PromotingLabels, RowsInv, ProcessInv, Named, CandidateLabels
  <1>2. {"not_found", "ineligible", "inconsistent", "invalid", "stale", "conflict", "persistence"} \subseteq Answers
    BY DEF Answers
  <1>3. \A a \in {"not_found", "ineligible", "inconsistent", "invalid", "stale", "conflict", "persistence"} : ~Fail(p, a)
    BY <1>1, <1>2, AnswerSaid DEF Fail
  <1>4. \A read : ~Step(p, "promote_commit", read) /\ ~Step(p, "apply_commit", read)
    BY <1>1 DEF Step, Goto, RowsInv, TypeOK
  <1>5. CASE PromoteDecide(p)
    <2>1. AlreadyPromoted(p, candidate[job[p].candidate]) /\ candidate[job[p].candidate].status = "PROMOTED"
      BY <1>3, <1>4, <1>5 DEF PromoteDecide
    <2> QED
      BY <1>1, <2>1, AlreadyTruth
  <1>6. ~ApplyDecide(p)
    BY <1>3, <1>4 DEF ApplyDecide, Materialize
  <1>7. CASE PromoteCommit(p)
    BY <1>1, <1>7, PromoteTruth
  <1>8. CASE ApplyCommit(p)
    BY <1>1, <1>8, ApplyTruth
  <1>9. ~DatabaseError(p)
    BY <1>3 DEF DatabaseError
  <1>10. ~Crash(p)
    BY <1>1 DEF Crash, Goto, RowsInv, TypeOK
  <1> QED
    BY <1>1, <1>5, <1>6, <1>7, <1>8, <1>9, <1>10, PromotingSteps

LEMMA PlanStepHonest ==
  ASSUME RowsInv, NEW p \in Procs, ProcessNext(p), Told(p, {"apply_commit"}, {"ok"})
  PROVE  ApplyCommit(p)
  <1>1. /\ pc[p] = "apply_commit" /\ pc'[p] = "done" /\ job'[p].answer = "ok"
    BY DEF Told
  <1>2. "persistence" \in Answers
    BY DEF Answers
  <1>3. ~DatabaseError(p)
    BY <1>1, <1>2, AnswerSaid DEF DatabaseError, Fail
  <1>4. ~Crash(p)
    BY <1>1 DEF Crash, Goto, RowsInv, TypeOK
  <1>5. ~PromoteDecide(p) /\ ~PromoteCommit(p) /\ ~ApplyDecide(p)
    BY <1>1 DEF PromoteDecide, PromoteCommit, ApplyDecide
  <1> QED
    BY <1>1, <1>3, <1>4, <1>5, PromotingSteps DEF PromotingLabels

(* Whoever is told that a candidate has a contact is told the truth, and   *)
(* whoever is told that a plan was applied finds one lead with one task.   *)
THEOREM AnswersAreHonest == Spec => AnswersHonest
  <1>1. ASSUME RowsInv, [Next]_vars, NEW p \in Procs
        PROVE  /\ Told(p, PromotingLabels, {"ok", "reused", "already"}) => Truth(p, job[p].candidate)
               /\ Told(p, {"apply_commit"}, {"ok"}) =>
                      \E x \in Contacts, l \in Leads, t \in Tasks :
                          /\ x = job'[p].contact /\ LeadsOf(x)' = {l} /\ TasksOf(l)' = {t}
                          /\ task'[t].kind = "plan"
    <2>1. SUFFICES ASSUME pc'[p] # pc[p]
                   PROVE  /\ Told(p, PromotingLabels, {"ok", "reused", "already"}) => Truth(p, job[p].candidate)
                          /\ Told(p, {"apply_commit"}, {"ok"}) =>
                                 \E x \in Contacts, l \in Leads, t \in Tasks :
                                     /\ x = job'[p].contact /\ LeadsOf(x)' = {l} /\ TasksOf(l)' = {t}
                                     /\ task'[t].kind = "plan"
      BY DEF Told, PromotingLabels
    <2>2. ~UNCHANGED vars
      BY <2>1 DEF vars
    <2>3. PICK q \in Procs : ProcessNext(q)
      BY <1>1, <2>2 DEF Next, ProcessNext
    <2>4. Moves(q)
      BY <1>1, <2>3, OwnMove
    <2>5. q = p
      BY <1>1, <2>1, <2>4 DEF Moves, RowsInv, TypeOK
    <2> QED
      BY <1>1, <2>3, <2>5, HonestStep, PlanStepHonest, PlanMade
  <1>2. IInv /\ [Next]_vars =>
            [\A p \in Procs :
                 LET row == candidate'[job[p].candidate]
                     k == job'[p].contact
                 IN  /\ Told(p, PromotingLabels, {"ok", "reused", "already"}) =>
                            /\ row.status = "PROMOTED" /\ row.contact = k
                            /\ k \in Live' /\ contact'[k].email = EmailOf[job[p].candidate]
                     /\ Told(p, {"apply_commit"}, {"ok"}) =>
                            \E x \in Contacts, l \in Leads, t \in Tasks :
                                /\ x = k /\ LeadsOf(x)' = {l} /\ TasksOf(l)' = {t}
                                /\ task'[t].kind = "plan"]_vars
    BY <1>1 DEF Truth, IInv
  <1> QED
    BY <1>2, Invariant, PTL DEF Spec, AnswersHonest

-----------------------------------------------------------------------------
(* The ledger. *)

links == [c \in Candidates |-> candidate[c].contact]
places == [k \in Live |-> contact[k].email]

(* The steps that commit a change to candidates or contacts.               *)
Commit(p) ==
    DiscoverCommit(p) \/ ReviewWrite(p) \/ PromoteCommit(p) \/ ApplyCommit(p) \/ ContactCreate(p) \/ ContactDelete(p)

(* A quiet step leaves candidates and contacts alone.                      *)
LEMMA QuietOrCommit ==
  ASSUME NEW p \in Procs, ProcessNext(p)
  PROVE  UNCHANGED <<candidate, contact>> \/ Commit(p)
  <1> USE DEF Commit, Begin, Step, Lock, Fail, Refused, tables, crm, found
  <1>1. CASE DiscoveryStep(p)
    BY <1>1 DEF DiscoveryStep, DiscoverStart, PlanStart, Search, Upsert, UpsertLock, StateRead, StateLock
  <1>2. CASE PromotionStep(p)
    <2>1. CASE PromoteDecide(p) \/ ReviewRead(p)
      BY <2>1 DEF PromoteDecide, AlreadyPromoted, ReviewRead
    <2>2. CASE ApplyDecide(p)
      BY <2>2 DEF ApplyDecide, Materialize
    <2> QED
      BY <1>2, <2>1, <2>2 DEF PromotionStep, PromoteStart, ReviewStart, ApplyStart, PromoteLock, ApplyLock
  <1>3. CASE CompletionStep(p)
    BY <1>3 DEF CompletionStep, EnrichStart, EnrichRead, EnrichFetch, EnrichFind, EnrichWrite,
       CompleteStart, CompleteLeads, CompleteTasks, CompleteReuse, CompleteWrite
  <1>4. CASE RecordStep(p)
    <2>1. CASE ContactRead(p) \/ LeadRead(p) \/ LeadCreate(p) \/ LeadFind(p) \/ LeadDelete(p)
      BY <2>1 DEF ContactRead, LeadRead, LeadCreate, LeadFind, LeadDelete
    <2>2. CASE TaskRead(p) \/ TaskCreate(p) \/ StatusRead(p) \/ StatusWrite(p)
      BY <2>2 DEF TaskRead, TaskCreate, StatusRead, StatusWrite
    <2> QED
      BY <1>4, <2>1, <2>2 DEF RecordStep, ContactCreateStart, ContactDeleteStart, LeadFromContactStart,
         LeadCreateStart, LeadDeleteStart, TaskCreateStart, StatusStart
  <1>5. CASE ProcessStep(p)
    BY <1>5 DEF ProcessStep, Exit, DatabaseError, Crash
  <1> QED
    BY <1>1, <1>2, <1>3, <1>4, <1>5 DEF ProcessNext

LEMMA SameLedger ==
  ASSUME \A c \in Candidates : candidate'[c].contact = candidate[c].contact,
         \A k \in Contacts : contact'[k] = contact[k]
  PROVE  UNCHANGED <<links, places>>
  <1>1. Live' = Live
    BY DEF Live
  <1> QED
    BY <1>1 DEF links, places, Live

LEMMA LedgerInit == Init => Ledger!LedgerInit
  <1> SUFFICES ASSUME Init
               PROVE  Ledger!LedgerInit
    OBVIOUS
  <1>1. Live = {}
    BY DEF Init, Live, NoContactRow
  <1>2. links = [c \in Candidates |-> NoContact]
    BY DEF Init, NoCandidateRow, links
  <1> QED
    BY <1>1, <1>2 DEF Ledger!LedgerInit, links

(* Discovery and review change no link and no contact.                     *)
LEMMA KnownLinks ==
  ASSUME RowsInv, NEW p \in Procs, DiscoverCommit(p) \/ ReviewWrite(p)
  PROVE  UNCHANGED <<links, places>>
  <1>1. contact' = contact
    BY DEF DiscoverCommit, ReviewWrite, crm
  <1>2. ASSUME NEW c \in Candidates
        PROVE  candidate'[c].contact = candidate[c].contact
    <2>1. CASE DiscoverCommit(p)
      <3>1. candidate'[c] = Stored(p)[c]
        BY <2>1 DEF DiscoverCommit
      <3> QED
        BY <3>1, StoredType
    <2>2. CASE ReviewWrite(p)
      BY <2>2 DEF ReviewWrite, RowsInv, TypeOK, TablesOK, CandidateRow
    <2> QED
      BY <2>1, <2>2
  <1> QED
    BY <1>1, <1>2, SameLedger

(* A promotion attaches the candidate to the first contact of its address, *)
(* or to a new one if there is none.                                       *)
LEMMA LinkedLedger ==
  ASSUME RowsInv, NEW p \in Procs, NEW c \in Candidates, NEW k \in Contacts,
         candidate[c].contact = NoContact, IsDuplicate(job[p].contact, EmailOf[c]), LinkTo(p, c, k)
  PROVE  Ledger!LedgerNext
  <1>1. candidate \in [Candidates -> CandidateRow] /\ contact \in [Contacts -> ContactRow]
    BY DEF RowsInv, TypeOK, TablesOK
  <1>2. Ledger!Attach(c, k)
    <2>1. \A d \in Candidates : candidate'[d].contact = IF d = c THEN k ELSE candidate[d].contact
      BY <1>1 DEF LinkTo, CandidateRow
    <2>2. links' = [links EXCEPT ![c] = k] /\ links[c] = NoContact
      BY <2>1 DEF links
    <2> QED
      BY <2>2 DEF Ledger!Attach, links
  <1>3. CASE job[p].contact # NoContact
    <2>1. k \in At(EmailOf[c]) /\ contact' = contact
      BY <1>3 DEF LinkTo, IsDuplicate
    <2>2. k \in Live /\ EmailOf[c] # NoEmail /\ contact[k].email = EmailOf[c]
      BY <2>1 DEF At
    <2>3. places' = places
      BY <2>1 DEF places, Live
    <2>4. Ledger!PromoteInto(c, k)
      BY <1>2, <2>2, <2>3 DEF Ledger!PromoteInto, Ledger!Existing, places
    <2> QED
      BY <2>4 DEF Ledger!LedgerNext
  <1>4. CASE job[p].contact = NoContact
    <2>1. /\ IsNextKey(k, Contacts, Live) /\ At(EmailOf[c]) = {}
          /\ contact' = [contact EXCEPT ![k] = [live |-> TRUE, email |-> EmailOf[c]]]
      BY <1>4 DEF LinkTo, NewContact, IsDuplicate
    <2>2. k \notin Live /\ Live' = Live \union {k}
      BY <1>1, <2>1 DEF IsNextKey, Live
    <2>3. places' = [j \in Live \union {k} |-> IF j = k THEN EmailOf[c] ELSE places[j]]
      BY <1>1, <2>1, <2>2 DEF places, Live
    <2>4. EmailOf[c] = NoEmail \/ \A j \in Live : places[j] # EmailOf[c]
      BY <2>1 DEF At, places
    <2>5. DOMAIN places = Live
      BY DEF places
    <2>6. Ledger!PromoteNew(c, k)
      BY <1>2, <2>2, <2>3, <2>4, <2>5 DEF Ledger!PromoteNew, Ledger!Add, Ledger!Existing, places
    <2> QED
      BY <2>6 DEF Ledger!LedgerNext
  <1> QED
    BY <1>3, <1>4

LEMMA PromotedLedger ==
  ASSUME RowsInv, NEW p \in Procs, PromoteCommit(p)
  PROVE  Ledger!LedgerNext
  <1>1. /\ job[p].candidate \in Candidates /\ candidate[job[p].candidate].contact = NoContact
        /\ IsDuplicate(job[p].contact, EmailOf[job[p].candidate])
    BY DEF PromoteCommit, RowsInv, ProcessInv, Named, Informed, CandidateLabels
  <1>2. PICK k \in Contacts : LinkTo(p, job[p].candidate, k)
    BY DEF PromoteCommit
  <1> QED
    BY <1>1, <1>2, LinkedLedger

LEMMA AppliedLedger ==
  ASSUME RowsInv, NEW p \in Procs, ApplyCommit(p)
  PROVE  Ledger!LedgerNext \/ UNCHANGED <<links, places>>
  <1>1. pc[p] = "apply_commit"
    BY DEF ApplyCommit
  <1>2. PICK c \in Candidates :
            /\ c = job[p].candidate
            /\ (candidate[c].status = "PROMOTED") = (candidate[c].contact # NoContact)
            /\ Preexisting(c, job[p].contact)
    BY <1>1 DEF RowsInv, ProcessInv, Named, Informed, CandidateLabels
  <1>3. PICK k \in Contacts : ApplyPromotion(p, c, k)
    BY <1>2, ApplyFact
  <1>4. CASE candidate[c].status = "PROMOTED"
    BY <1>3, <1>4, SameLedger DEF ApplyPromotion
  <1>5. CASE candidate[c].status # "PROMOTED"
    <2>1. /\ candidate[c].contact = NoContact /\ IsDuplicate(job[p].contact, EmailOf[c])
          /\ LinkTo(p, c, k)
      BY <1>2, <1>3, <1>5 DEF ApplyPromotion, Preexisting
    <2> QED
      BY <2>1, LinkedLedger
  <1> QED
    BY <1>4, <1>5

LEMMA CreatedLedger ==
  ASSUME RowsInv, NEW p \in Procs, ContactCreate(p)
  PROVE  Ledger!LedgerNext
  <1>1. contact \in [Contacts -> ContactRow] /\ job[p].email \in Emails \union {NoEmail}
    BY DEF RowsInv, TypeOK, TablesOK, Job
  <1>2. PICK k \in Contacts :
            /\ IsNextKey(k, Contacts, Live)
            /\ contact' = [contact EXCEPT ![k] = [live |-> TRUE, email |-> job[p].email]]
    BY DEF ContactCreate
  <1>3. k \notin Live /\ Live' = Live \union {k}
    BY <1>1, <1>2 DEF IsNextKey, Live
  <1>4. places' = [j \in Live \union {k} |-> IF j = k THEN job[p].email ELSE places[j]]
    BY <1>1, <1>2, <1>3 DEF places, Live
  <1>5. DOMAIN places = Live
    BY DEF places
  <1>6. links' = links
    BY DEF ContactCreate, links, found
  <1> QED
    BY <1>1, <1>3, <1>4, <1>5, <1>6
       DEF Ledger!LedgerNext, Ledger!CreateByHand, Ledger!Add, Ledger!Existing, places, links

LEMMA DeletedLedger ==
  ASSUME RowsInv, NEW p \in Procs, ContactDelete(p)
  PROVE  Ledger!LedgerNext \/ UNCHANGED <<links, places>>
  <1> DEFINE k == job[p].contact
  <1>1. k \in Contacts \union {NoContact}
    BY Zenon DEF RowsInv, TypeOK, Job
  <1>2. links' = [c \in Candidates |-> IF links[c] = k THEN NoContact ELSE links[c]]
    BY ContactDeleteFact DEF links
  <1>3. Live' = Live \ {k} /\ places' = [j \in Live \ {k} |-> places[j]]
    <2>1. Live' = Live \ {k}
      BY ContactDeleteFact
    <2> QED
      BY <2>1, ContactDeleteFact DEF places, Live
  <1>4. CASE k \in Live
    <2>1. DOMAIN places = Live /\ k \in Contacts
      BY <1>4 DEF places, Live
    <2> QED
      BY <1>2, <1>3, <1>4, <2>1
         DEF Ledger!LedgerNext, Ledger!Delete, Ledger!Existing, places, links
  <1>5. CASE k \notin Live
    <2>1. \A c \in Candidates : candidate[c].contact = k => k = NoContact
      BY <1>1, <1>5 DEF RowsInv, LinksInv, Live
    <2>2. links' = links
      BY <1>2, <2>1 DEF links
    <2>3. Live \ {k} = Live
      BY <1>5
    <2>4. places' = places
      BY <1>3, <2>3 DEF places
    <2> QED
      BY <2>2, <2>4
  <1> QED
    BY <1>4, <1>5

LEMMA LedgerStep ==
  ASSUME RowsInv, [Next]_vars
  PROVE  Ledger!LedgerNext \/ UNCHANGED <<links, places>>
  <1>1. CASE UNCHANGED <<candidate, contact>>
    BY <1>1, SameLedger
  <1>2. ASSUME NEW p \in Procs, Commit(p)
        PROVE  Ledger!LedgerNext \/ UNCHANGED <<links, places>>
    BY <1>2, KnownLinks, PromotedLedger, AppliedLedger, CreatedLedger, DeletedLedger DEF Commit
  <1>3. ~UNCHANGED <<candidate, contact>> => \E p \in Procs : Commit(p)
    BY QuietOrCommit DEF Next, vars, ProcessNext
  <1> QED
    BY <1>1, <1>2, <1>3

(* The commands implement the ledger: no candidate with a contact is       *)
(* linked again, and no promotion makes a second contact for an address.   *)
THEOREM PromotionsAreLedger == Spec => ImplementsLedger
  <1>1. Init => Ledger!LedgerInit
    BY LedgerInit
  <1>2. IInv /\ [Next]_vars => [Ledger!LedgerNext]_<<links, places>>
    BY LedgerStep DEF IInv
  <1> QED
    BY <1>1, <1>2, Invariant, PTL DEF Spec, ImplementsLedger, Ledger!LedgerSpec, links, places
=============================================================================
