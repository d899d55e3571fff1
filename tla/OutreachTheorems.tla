-------------------------- MODULE OutreachTheorems -------------------------
(***************************************************************************)
(* What the inductive invariant is for: the safety properties of the flow, *)
(* its action properties, and the implementation of the delivery ledger,   *)
(* for any number of processes, drafts, tasks, addresses and senders.      *)
(***************************************************************************)
EXTENDS OutreachProof

-----------------------------------------------------------------------------
(* Safety. *)

(* Every variable keeps its type, and so every command only ever reads and *)
(* writes rows of the shapes the schema has.                               *)
THEOREM TypeCorrect == Spec => []TypeOK
  <1>1. IInv => TypeOK
    BY DEF IInv
  <1> QED
    BY <1>1, Invariance, PTL

(* The SMTP server never takes two messages for one draft.                 *)
THEOREM OneMessagePerDraft == Spec => []AtMostOneMessage
  <1>1. IInv => AtMostOneMessage
    BY DEF IInv, TablesInv
  <1> QED
    BY <1>1, Invariance, PTL

(* A draft leaves through one channel, and delivery_mode names it.         *)
THEOREM OneChannelPerDraft == Spec => []ChannelExclusive
  <1>1. IInv => ChannelExclusive
    BY DEF IInv, TablesInv
  <1> QED
    BY <1>1, Invariance, PTL

(* The stored outcome agrees with what the server did.                     *)
THEOREM OutcomesAgree == Spec => []OutcomeHonest
  <1>1. IInv => OutcomeHonest
    BY DEF IInv, TablesInv
  <1> QED
    BY <1>1, Invariance, PTL

(* Nothing is sent that nobody approved, or to no person.                  *)
THEOREM ApprovedBeforeSent == Spec => []SentOnlyAfterApproval
  <1>1. IInv => SentOnlyAfterApproval
    BY DEF IInv, TablesInv
  <1> QED
    BY <1>1, Invariance, PTL

(* A draft addressed to a person carries that person's address.            *)
THEOREM RecipientStaysCanonical == Spec => []RecipientCanonical
  <1>1. IInv => RecipientCanonical
    BY DEF IInv, TablesInv
  <1> QED
    BY <1>1, Invariance, PTL

(* Neither racing generations nor rebinding make two drafts for a request. *)
THEOREM RequestsAnsweredOnce == Spec => []OneDraftPerRequest
  <1>1. IInv => OneDraftPerRequest
    BY DEF IInv, TablesInv
  <1> QED
    BY <1>1, Invariance, PTL

(* The write lock is not held while the AI provider or the server is       *)
(* waited for.                                                             *)
THEOREM LockStaysLocal == Spec => []NoLockAcrossNetwork
  <1>1. IInv => NoLockAcrossNetwork
    <2> SUFFICES ASSUME IInv, writer # NoProc
                 PROVE  pc[writer] \notin {"gen_provider", "smtp", "smtp_wait"}
      BY DEF NoLockAcrossNetwork
    <2>1. writer \in Procs
      BY DEF IInv, TypeOK
    <2>2. LockHeld(writer)
      BY <2>1 DEF IInv, ProcessInv
    <2> QED
      BY <2>2 DEF LockHeld, LockedLabels
  <1> QED
    BY <1>1, Invariance, PTL

(* What a command prints about outcomes and records is in the database.    *)
THEOREM AnswersAgree == Spec => []AnswerHonest
  <1>1. IInv => AnswerHonest
    <2> SUFFICES ASSUME IInv, NEW p \in Procs, pc[p] = "done"
                 PROVE  /\ job[p].answer \in TerminalOutcome =>
                               attempt[job[p].draft] = job[p].answer
                        /\ job[p].answer = "ok" => \A d \in job[p].batch : manual[d]
      BY DEF AnswerHonest
    <2>1. AnswerTrue(p)
      BY DEF IInv, ProcessInv
    <2> QED
      BY <2>1 DEF AnswerTrue
  <1> QED
    BY <1>1, Invariance, PTL

-----------------------------------------------------------------------------
(* Steps. *)

(* The only actions that commit anything or reach the server.              *)
Commits(p) ==
  \/ GenerateInsert(p) \/ ReviewCommit(p) \/ SendReserve(p) \/ SmtpConversation(p)
  \/ Settle(p) \/ ManualCommit(p) \/ RebindCommit(p) \/ TaskWrite(p) \/ EnrichWrite(p)

LEMMA QuietOrCommits ==
  ASSUME [Next]_vars
  PROVE  UNCHANGED <<tables, accepted>> \/ \E p \in Procs : Commits(p)
  <1>1. CASE UNCHANGED vars
    BY <1>1 DEF vars, tables
  <1>2. ASSUME NEW p \in Procs, CommandStep(p) \/ ProcessStep(p)
        PROVE  UNCHANGED <<tables, accepted>> \/ Commits(p)
    <2>1. CASE ProcessStep(p)
      BY <2>1 DEF ProcessStep, Exit, DatabaseError, Crash, Fail
    <2>2. CASE GenerationStep(p)
      BY <2>2 DEF GenerationStep, GenerateStart, GenerateRead, CallProvider, GenerateRecheck,
         Commits, Begin, Keep, Step, Fail
    <2>3. CASE ReviewStep(p)
      BY <2>3 DEF ReviewStep, ReviewStart, ReviewReadDraft, ReviewReadSource, ReviewFlush,
         Commits, Begin, Keep, Step, Fail, Lock
    <2>4. CASE DeliveryStep(p)
      BY <2>4 DEF DeliveryStep, SendStart, SendReadDraft, SendReadSource, SendCheckAttempt,
         SendCheckRecord, SendClaim, SmtpReport, Commits, Begin, Keep, Step, Fail, Lock
    <2>5. CASE ManualStep(p)
      <3>1. CASE \E d \in Drafts : MarkStart(p, d) \/ ExternalStart(p, d)
        BY <3>1 DEF MarkStart, ExternalStart, Begin
      <3>2. CASE \E drafts \in SUBSET Drafts : BatchStart(p, drafts)
        BY <3>2 DEF BatchStart, Begin
      <3>3. CASE \/ MarkReadDraft(p) \/ MarkReadSource(p) \/ MarkCheckAttempt(p)
                 \/ MarkCheckRecord(p)
        BY <3>3 DEF MarkReadDraft, MarkReadSource, MarkCheckAttempt, MarkCheckRecord, Keep,
           Step, Fail
      <3>4. CASE \/ ExternalReadDraft(p) \/ ExternalReadSource(p) \/ ExternalCheckAttempt(p)
                 \/ ExternalCheckRecord(p)
        BY <3>4 DEF ExternalReadDraft, ExternalReadSource, ExternalCheckAttempt,
           ExternalCheckRecord, Keep, Step, Fail
      <3>5. CASE \/ BatchReadSource(p) \/ BatchCheckAttempt(p) \/ BatchCheckRecord(p)
                 \/ \E d \in Drafts : BatchReadDraft(p, d)
        BY <3>5 DEF BatchReadDraft, BatchReadSource, BatchCheckAttempt, BatchCheckRecord,
           Step, Fail
      <3>6. CASE \E d \in Drafts : ManualClaim(p, d)
        BY <3>6 DEF ManualClaim, Fail
      <3> QED
        BY <2>5, <3>1, <3>2, <3>3, <3>4, <3>5, <3>6 DEF ManualStep, Commits
    <2>6. CASE RebindStep(p)
      BY <2>6 DEF RebindStep, RebindStart, RebindLock, RebindCheck, Commits, Begin, Step, Fail,
         Lock
    <2>7. CASE LifecycleStep(p)
      BY <2>7 DEF LifecycleStep, TaskStart, TaskRead, Commits, Begin, Step, Fail
    <2>8. CASE EnrichmentStep(p)
      BY <2>8 DEF EnrichmentStep, EnrichStart, EnrichRead, Commits, Begin
    <2> QED
      BY <1>2, <2>1, <2>2, <2>3, <2>4, <2>5, <2>6, <2>7, <2>8 DEF CommandStep
  <1> QED
    BY <1>1, <1>2 DEF Next

(* What each committing action does to a draft row that a channel claimed. *)
LEMMA ClaimedStep ==
  ASSUME IInv, [Next]_vars, NEW d \in Drafts, draft[d].mode # "NONE"
  PROVE  draft'[d].mode = draft[d].mode /\ Fingerprint(draft'[d]) = Fingerprint(draft[d])
  <1>1. /\ draft \in [Drafts -> DraftRow] /\ draft[d] \in DraftRow /\ job \in [Procs -> Job]
        /\ Exists(d)
    <2>1. NoRow.mode = "NONE"
      BY DEF NoRow
    <2> QED
      BY <2>1 DEF IInv, TypeOK, TablesInv, RowsConsistent
  <1>2. CASE UNCHANGED <<tables, accepted>>
    BY <1>2 DEF tables
  <1>3. ASSUME NEW p \in Procs, Commits(p)
        PROVE  draft'[d].mode = draft[d].mode /\ Fingerprint(draft'[d]) = Fingerprint(draft[d])
    <2>1. CASE GenerateInsert(p)
      BY <1>1, <2>1 DEF GenerateInsert, Fail, tables
    <2>2. CASE ReviewCommit(p)
      BY <1>1, <2>2 DEF ReviewCommit, Reviewed, DraftRow, Fingerprint
    <2>3. CASE SendReserve(p)
      <3>1. pc[p] = "send_reserve" => draft[job[p].draft].mode = "NONE"
        BY DEF IInv, ProcessInv, SenderInformed
      <3> QED
        BY <1>1, <2>3, <3>1 DEF SendReserve, Fail, tables
    <2>4. CASE ManualCommit(p)
      <3>1. pc[p] = "manual_commit" => \A e \in job[p].batch : draft[e].mode = "NONE"
        BY DEF IInv, ProcessInv, ManualInformed, ManualLabels
      <3> QED
        BY <1>1, <2>4, <3>1 DEF ManualCommit
    <2>5. CASE RebindCommit(p)
      <3>1. pc[p] = "rebind_commit" => draft[job[p].draft].mode = "NONE"
        BY DEF IInv, ProcessInv, RebinderInformed
      <3> QED
        BY <1>1, <2>5, <3>1 DEF RebindCommit
    <2>6. CASE SmtpConversation(p) \/ Settle(p) \/ TaskWrite(p) \/ EnrichWrite(p)
      BY <2>6 DEF SmtpConversation, Settle, TaskWrite, EnrichWrite, Fail, tables
    <2> QED
      BY <1>3, <2>1, <2>2, <2>3, <2>4, <2>5, <2>6 DEF Commits
  <1> QED
    BY <1>2, <1>3, QuietOrCommits

(* Once a channel has claimed a draft, its recipient and its channel stay  *)
(* what they are.                                                          *)
THEOREM ClaimsFreezeRecipients == Spec => ClaimedRecipientFrozen
  <1>1. IInv /\ [Next]_vars =>
          [\A d \in Drafts : draft[d].mode # "NONE" =>
              /\ draft'[d].mode = draft[d].mode
              /\ Fingerprint(draft'[d]) = Fingerprint(draft[d])]_vars
    BY ClaimedStep
  <1> QED
    BY <1>1, Invariance, PTL DEF Spec, ClaimedRecipientFrozen

(* A record is only ever written together with all those of its command.   *)
THEOREM BatchesAreWhole == Spec => BatchAllOrNothing
  <1>1. ASSUME IInv, [Next]_vars, NEW p \in Procs, writer = p, manual' # manual
        PROVE  \A d \in job[p].batch : ~manual[d] /\ manual'[d]
    <2>1. PICK q \in Procs : Commits(q)
      BY <1>1, QuietOrCommits DEF tables
    <2>2. ManualCommit(q)
      BY <1>1, <2>1 DEF Commits, GenerateInsert, ReviewCommit, SendReserve, SmtpConversation,
         Settle, RebindCommit, TaskWrite, EnrichWrite, Fail, tables
    <2>3. q = p
      BY <1>1, <2>2 DEF IInv, ProcessInv, LockHeld, LockedLabels, ManualCommit
    <2>4. \A d \in job[p].batch : d \in Drafts /\ draft[d].mode = "NONE"
      <3>1. job[p] \in Job
        BY <1>1 DEF IInv, TypeOK
      <3> QED
        BY <1>1, <2>2, <2>3, <3>1 DEF IInv, ProcessInv, ManualInformed, ManualLabels, ManualCommit,
           Job
    <2>5. \A d \in job[p].batch : ~manual[d]
      BY <1>1, <2>4 DEF IInv, TablesInv, ChannelExclusive
    <2> QED
      BY <2>2, <2>3, <2>4, <2>5 DEF ManualCommit
  <1>2. IInv /\ [Next]_vars =>
          [\A p \in Procs : writer = p /\ manual' # manual =>
              \A d \in job[p].batch : ~manual[d] /\ manual'[d]]_vars
    BY <1>1
  <1> QED
    BY <1>2, Invariance, PTL DEF Spec, BatchAllOrNothing

-----------------------------------------------------------------------------
(* The flow implements the ledger. *)

(* The step of one draft's standing, and of what the server took of it.    *)
LEMMA StandingMoves ==
  ASSUME IInv, NEW d \in Drafts, NEW standing,
         LedgerOf'[d] = standing,
         \A e \in Drafts \ {d} : LedgerOf'[e] = LedgerOf[e]
  PROVE  LedgerOf' = [LedgerOf EXCEPT ![d] = standing]
  BY DEF LedgerOf

LEMMA ReserveStep ==
  ASSUME IInv, NEW p \in Procs, SendReserve(p), attempt' # attempt
  PROVE  Ledger!LedgerNext
  <1> DEFINE d == job[p].draft
  <1>1. /\ d \in Drafts /\ draft[d].mode = "NONE" /\ attempt[d] = "NONE"
        /\ attempt' = [attempt EXCEPT ![d] = "RESERVED"] /\ UNCHANGED <<manual, accepted>>
    BY DEF IInv, ProcessInv, SenderInformed, SendLabels, SendReserve, Fail, tables
  <1>2. ~manual[d] /\ attempt \in [Drafts -> Outcome]
    BY <1>1 DEF IInv, TypeOK, TablesInv, ChannelExclusive
  <1>3. LedgerOf[d] = "OPEN" /\ LedgerOf'[d] = "RESERVED"
    BY <1>1, <1>2 DEF LedgerOf
  <1>4. \A e \in Drafts \ {d} : LedgerOf'[e] = LedgerOf[e]
    BY <1>1, <1>2 DEF LedgerOf
  <1>5. LedgerOf' = [LedgerOf EXCEPT ![d] = "RESERVED"]
    BY <1>1, <1>3, <1>4, StandingMoves
  <1>6. Ledger!Reserve(d)
    BY <1>1, <1>3, <1>5 DEF Ledger!Reserve
  <1> QED
    BY <1>1, <1>6 DEF Ledger!LedgerNext

LEMMA TakeStep ==
  ASSUME IInv, NEW p \in Procs, SmtpConversation(p), accepted' # accepted
  PROVE  Ledger!LedgerNext
  <1> DEFINE d == job[p].draft
  <1>1. /\ d \in Drafts /\ attempt[d] = "RESERVED" /\ accepted[d] = 0
        /\ accepted' = [accepted EXCEPT ![d] = @ + 1] /\ UNCHANGED <<attempt, manual>>
    BY DEF IInv, ProcessInv, SenderInformed, OwnerInformed, OwnerLabels, SmtpConversation, tables
  <1>2. accepted' = [accepted EXCEPT ![d] = 1]
    BY <1>1 DEF IInv, TypeOK
  <1>3. ~manual[d]
    BY <1>1 DEF IInv, TablesInv, ChannelExclusive
  <1>4. LedgerOf[d] = "RESERVED" /\ LedgerOf' = LedgerOf
    BY <1>1, <1>3 DEF LedgerOf
  <1>5. Ledger!Take(d)
    BY <1>1, <1>2, <1>4 DEF Ledger!Take
  <1> QED
    BY <1>1, <1>5 DEF Ledger!LedgerNext

LEMMA LearnStep ==
  ASSUME IInv, NEW p \in Procs, Settle(p)
  PROVE  Ledger!LedgerNext
  <1> DEFINE d == job[p].draft
             outcome == job[p].target
  <1>1. /\ d \in Drafts /\ attempt[d] = "RESERVED"
        /\ \/ outcome = "ACCEPTED" /\ accepted[d] = 1
           \/ outcome = "UNKNOWN"
           \/ outcome \in {"TRANSIENT_FAILURE", "PERMANENT_FAILURE"} /\ accepted[d] = 0
    BY DEF IInv, ProcessInv, SenderInformed, OwnerInformed, OwnerLabels, Settle
  <1>2. /\ attempt' = [attempt EXCEPT ![d] = outcome] /\ UNCHANGED <<manual, accepted>>
        /\ outcome \in Ledger!Settled
    BY <1>1 DEF Settle, Ledger!Settled
  <1>3. ~manual[d] /\ attempt \in [Drafts -> Outcome]
    BY <1>1 DEF IInv, TypeOK, TablesInv, ChannelExclusive
  <1>4. LedgerOf[d] = "RESERVED" /\ LedgerOf'[d] = outcome
    BY <1>1, <1>2, <1>3 DEF LedgerOf
  <1>5. \A e \in Drafts \ {d} : LedgerOf'[e] = LedgerOf[e]
    BY <1>1, <1>2, <1>3 DEF LedgerOf
  <1>6. LedgerOf' = [LedgerOf EXCEPT ![d] = outcome]
    BY <1>1, <1>4, <1>5, StandingMoves
  <1>7. Ledger!Learn(d, outcome)
    BY <1>1, <1>2, <1>4, <1>6 DEF Ledger!Learn
  <1> QED
    BY <1>1, <1>2, <1>7 DEF Ledger!LedgerNext

LEMMA RecordStep ==
  ASSUME IInv, NEW p \in Procs, ManualCommit(p)
  PROVE  [Ledger!LedgerNext]_<<LedgerOf, accepted>>
  <1> DEFINE drafts == job[p].batch
  <1>1. job[p] \in Job /\ drafts \in SUBSET Drafts
    BY DEF IInv, TypeOK, Job
  <1>2. /\ \A d \in drafts : draft[d].mode = "NONE"
        /\ manual' = [d \in Drafts |-> manual[d] \/ d \in drafts]
        /\ UNCHANGED <<attempt, accepted>>
    BY DEF IInv, ProcessInv, ManualInformed, ManualLabels, ManualCommit
  <1>3. \A d \in drafts : LedgerOf[d] = "OPEN"
    BY <1>1, <1>2 DEF IInv, TablesInv, ChannelExclusive, LedgerOf
  <1>4. LedgerOf' = [d \in Drafts |-> IF d \in drafts THEN "MANUAL" ELSE LedgerOf[d]]
    <2>1. \A d \in Drafts : manual'[d] <=> (manual[d] \/ d \in drafts)
      BY <1>2
    <2> QED
      BY <1>2, <2>1 DEF LedgerOf
  <1>5. CASE drafts = {}
    BY <1>2, <1>4, <1>5 DEF LedgerOf
  <1>6. CASE drafts # {}
    <2>1. Ledger!RecordManually(drafts)
      BY <1>2, <1>3, <1>4, <1>6 DEF Ledger!RecordManually
    <2> QED
      BY <1>1, <2>1 DEF Ledger!LedgerNext
  <1> QED
    BY <1>5, <1>6

LEMMA LedgerStep ==
  ASSUME IInv, [Next]_vars
  PROVE  [Ledger!LedgerNext]_<<LedgerOf, accepted>>
  <1>1. CASE UNCHANGED <<attempt, manual, accepted>>
    BY <1>1 DEF LedgerOf
  <1>2. ASSUME NEW p \in Procs, Commits(p)
        PROVE  [Ledger!LedgerNext]_<<LedgerOf, accepted>>
    <2>1. CASE GenerateInsert(p) \/ ReviewCommit(p) \/ RebindCommit(p) \/ TaskWrite(p)
                 \/ EnrichWrite(p)
      BY <1>1, <2>1 DEF GenerateInsert, ReviewCommit, RebindCommit, TaskWrite, EnrichWrite, Fail,
         tables
    <2>2. CASE SendReserve(p)
      <3>1. UNCHANGED <<manual, accepted>>
        BY <2>2 DEF SendReserve, Fail, tables
      <3> QED
        BY <1>1, <2>2, <3>1, ReserveStep
    <2>3. CASE SmtpConversation(p)
      <3>1. UNCHANGED <<attempt, manual>>
        BY <2>3 DEF SmtpConversation, tables
      <3> QED
        BY <1>1, <2>3, <3>1, TakeStep
    <2>4. CASE Settle(p)
      BY <2>4, LearnStep
    <2>5. CASE ManualCommit(p)
      BY <2>5, RecordStep
    <2> QED
      BY <1>2, <2>1, <2>2, <2>3, <2>4, <2>5 DEF Commits
  <1>3. UNCHANGED <<tables, accepted>> => UNCHANGED <<attempt, manual, accepted>>
    BY DEF tables
  <1> QED
    BY <1>1, <1>2, <1>3, QuietOrCommits

(* The outreach flow, with all its processes and transactions, implements  *)
(* the delivery ledger.                                                    *)
THEOREM Refinement == Spec => ImplementsLedger
  <1>1. Init => Ledger!LedgerInit
    BY DEF Init, LedgerOf, Ledger!LedgerInit
  <1>2. IInv /\ [Next]_vars => [Ledger!LedgerNext]_<<LedgerOf, accepted>>
    BY LedgerStep
  <1> QED
    BY <1>1, <1>2, Invariance, PTL DEF Spec, ImplementsLedger, Ledger!LedgerSpec
=============================================================================
