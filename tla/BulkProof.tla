----------------------------- MODULE BulkProof -----------------------------
(***************************************************************************)
(* What the commands that work through a list promise, proved for every    *)
(* number of processes, companies, contacts, drafts and tasks.             *)
(***************************************************************************)
EXTENDS BulkCommands, SequenceTheorems, FiniteSetTheorems, WellFoundedInduction, TLAPS

-----------------------------------------------------------------------------
(* The acquisition. *)

(* The steps of an attempt that has a company.                             *)
Chosen == Acquisition!AttemptLabels \ {"apply"}

(* What an attempt relies on at each of its calls: that its company is one *)
(* of a promoted candidate, who its contact is and where it was found,     *)
(* whether the company's own address is known, and that what had a draft   *)
(* when it chose the company still has one.                                *)
AttemptInv ==
    LET k == acquiring.company
        x == acquiring.contact
    IN  /\ stage = "apply" => acquiring.candidate \in Candidates
        /\ stage \in Chosen => k \in Companies /\ \E c \in promoted : CompanyOf[c] = k
        /\ stage \in {"loop", "already", "apply", "contact_plan", "mail", "enrich", "complete"} =>
               x = NoContact
        /\ stage = "contact_apply" => x \in Contacts /\ EmployerOf[x] = k
        /\ stage = "enrich" => mailbox[k] = "unread"
        /\ stage = "complete" => mailbox[k] = "known"
        /\ stage \in {"draft_ids", "draft"} =>
               IF x = NoContact THEN mailbox[k] = "known"
               ELSE x \in contacted \intersect WithEmail /\ EmployerOf[x] = k
        /\ stage \in Acquisition!AttemptLabels => acquiring.before \subseteq Acquisition!Drafted
        /\ stage = "draft" /\ acquiring.fresh => <<k, x>> \notin acquiring.before

(* When a run may still go on.                                             *)
RunningInv ==
    /\ acquiring.stopped => stage \in {"report", "done"}
    /\ acquiring.answer = "error" => stage = "done"
    /\ stage \in Acquisition!AttemptLabels => Len(acquiring.completed) < Limit

AcquisitionInv ==
    /\ Acquisition!TypeOK
    /\ AttemptInv /\ RunningInv
    /\ Acquisition!AttemptsAccounted /\ Acquisition!CompletedStored

(* Whether an attempt is counted neither as new nor as skipped yet.        *)
Pending == stage \in Acquisition!AttemptLabels \/ acquiring.stopped \/ acquiring.answer = "error"

Accounted ==
    LET n == acquiring.attempts
        done == acquiring.skipped + Len(acquiring.completed)
    IN  /\ n <= Acquisition!Budget /\ Len(acquiring.completed) <= Limit
        /\ Pending => n = done + 1
        /\ ~Pending => n = done + 0

LEMMA AccountedFacts ==
  /\ Acquisition!AttemptsAccounted => Accounted
  /\ Accounted => Acquisition!AttemptsAccounted
  /\ Accounted' => Acquisition!AttemptsAccounted'
  BY Zenon DEF Acquisition!AttemptsAccounted, Accounted, Pending

LEMMA BudgetType == Acquisition!Budget \in Nat
  BY LimitAssumption DEF Acquisition!Budget

LEMMA NewRunType == Acquisition!NewRun \in Acquisition!RunState
  <1>1. <<>> \in Seq(Acquisition!Target)
    BY EmptySeq
  <1>2. 0 \in 0..Acquisition!Budget
    BY BudgetType
  <1> QED
    BY <1>1, <1>2 DEF Acquisition!NewRun, Acquisition!RunState

LEMMA NewRunFacts ==
  /\ Acquisition!NewRun.completed = <<>> /\ DOMAIN <<>> = {} /\ Len(<<>>) = 0
  /\ Acquisition!NewRun.attempts = 0 /\ Acquisition!NewRun.skipped = 0
  /\ Acquisition!NewRun.stopped = FALSE /\ Acquisition!NewRun.answer = ""
  /\ Acquisition!NewRun.contact = NoContact
  <1>1. Acquisition!NewRun.completed = <<>>
    BY DEF Acquisition!NewRun
  <1>2. DOMAIN <<>> = {}
    OBVIOUS
  <1>3. Len(<<>>) = 0
    OBVIOUS
  <1> QED
    BY <1>1, <1>2, <1>3 DEF Acquisition!NewRun

(* Between two runs there is nothing to rely on.                           *)
Fresh == acquiring = Acquisition!NewRun /\ stage \in {"idle", "loop"}

LEMMA NoRunInv ==
  Fresh => /\ AttemptInv /\ RunningInv
           /\ Acquisition!AttemptsAccounted /\ Acquisition!CompletedStored
  <1> SUFFICES ASSUME acquiring = Acquisition!NewRun, stage \in {"idle", "loop"}
               PROVE  /\ AttemptInv /\ RunningInv
                      /\ Acquisition!AttemptsAccounted /\ Acquisition!CompletedStored
    BY DEF Fresh
  <1>1. AttemptInv
    BY NewRunFacts DEF AttemptInv, Chosen, Acquisition!AttemptLabels
  <1>2. RunningInv
    BY NewRunFacts DEF RunningInv, Acquisition!AttemptLabels
  <1>3. ~Pending
    BY Zenon, NewRunFacts DEF Pending, Acquisition!AttemptLabels
  <1>4. Acquisition!AttemptsAccounted
    <2>1. acquiring.attempts = 0 /\ acquiring.skipped = 0 /\ Len(acquiring.completed) = 0
      BY Zenon, NewRunFacts
    <2>2. Accounted
      BY <1>3, <2>1, BudgetType, LimitAssumption DEF Accounted
    <2> QED
      BY <2>2, AccountedFacts
  <1>5. Acquisition!CompletedStored
    BY NewRunFacts DEF Acquisition!CompletedStored
  <1> QED
    BY <1>1, <1>2, <1>4, <1>5

LEMMA NewRunNext ==
  Fresh' => /\ AttemptInv' /\ RunningInv'
            /\ Acquisition!AttemptsAccounted' /\ Acquisition!CompletedStored'
  BY NoRunInv, PTL

LEMMA AcquisitionInit == Acquisition!Init => AcquisitionInv
  <1> SUFFICES ASSUME Acquisition!Init
               PROVE  AcquisitionInv
    OBVIOUS
  <1> USE DEF Acquisition!Init
  <1>1. promoted \subseteq Candidates /\ contacted \subseteq Contacts
    OBVIOUS
  <1>2. mailbox \in [Companies -> {"unread", "absent", "known"}]
    OBVIOUS
  <1>3. targeted \in [Acquisition!Target -> Acquisition!DraftStatus]
    BY DEF Acquisition!DraftStatus
  <1>4. stage \in Acquisition!Labels
    BY DEF Acquisition!Labels
  <1>5. Acquisition!TypeOK
    BY <1>1, <1>2, <1>3, <1>4, NewRunType DEF Acquisition!TypeOK
  <1> QED
    BY <1>5, NoRunInv DEF AcquisitionInv, Fresh

-----------------------------------------------------------------------------
(* What has been completed stays stored while nothing is taken back.       *)
LEMMA StoredKept ==
  ASSUME Acquisition!CompletedStored, Acquisition!TypeOK,
         acquiring'.completed = acquiring.completed,
         promoted \subseteq promoted', contacted \subseteq contacted',
         \A t \in Acquisition!Target : targeted[t] # "NONE" => targeted'[t] # "NONE",
         \A k \in Companies : mailbox[k] = "known" => mailbox'[k] = "known"
  PROVE  Acquisition!CompletedStored'
  <1> SUFFICES ASSUME NEW i \in DOMAIN acquiring.completed
               PROVE  LET t == acquiring.completed[i]
                      IN  /\ targeted'[t] # "NONE"
                          /\ \E c \in promoted' : CompanyOf[c] = t[1]
                          /\ IF t[2] = NoContact THEN mailbox'[t[1]] = "known"
                             ELSE /\ t[2] \in contacted' \intersect WithEmail
                                  /\ EmployerOf[t[2]] = t[1]
    BY DEF Acquisition!CompletedStored
  <1> DEFINE t == acquiring.completed[i]
  <1>1. acquiring.completed \in Seq(Acquisition!Target)
    BY DEF Acquisition!TypeOK, Acquisition!RunState
  <1>2. t \in Acquisition!Target
    BY <1>1
  <1>3. t[1] \in Companies
    BY <1>2 DEF Acquisition!Target
  <1> QED
    BY <1>2, <1>3 DEF Acquisition!CompletedStored

(* A run's record, when its attempt is over.                               *)
LEMMA OverFacts ==
  ASSUME NEW r \in Acquisition!RunState
  PROVE  /\ Acquisition!Over(r) \in Acquisition!RunState
         /\ Acquisition!Over(r).attempts = r.attempts
         /\ Acquisition!Over(r).skipped = r.skipped
         /\ Acquisition!Over(r).completed = r.completed
         /\ Acquisition!Over(r).stopped = r.stopped
         /\ Acquisition!Over(r).answer = r.answer
         /\ Acquisition!Over(r).contact = NoContact
  BY DEF Acquisition!Over, Acquisition!RunState

LEMMA RunFacts ==
  ASSUME NEW r \in Acquisition!RunState
  PROVE  /\ r.attempts \in 0..Acquisition!Budget /\ r.skipped \in Nat
         /\ r.completed \in Seq(Acquisition!Target) /\ Len(r.completed) \in Nat
         /\ r.stopped \in BOOLEAN /\ r.fresh \in BOOLEAN
         /\ r.company \in Companies \union {NoCompany}
         /\ r.contact \in Contacts \union {NoContact}
  <1>1. r.completed \in Seq(Acquisition!Target)
    BY DEF Acquisition!RunState
  <1>2. Len(r.completed) \in Nat
    BY <1>1, LenProperties
  <1>3. r.stopped \in BOOLEAN /\ r.fresh \in BOOLEAN
    BY Zenon DEF Acquisition!RunState
  <1> QED
    BY <1>1, <1>2, <1>3 DEF Acquisition!RunState

LEMMA SkippedFacts ==
  ASSUME NEW r \in Acquisition!RunState, NEW n \in Nat
  PROVE  LET s == [r EXCEPT !.skipped = n]
         IN  /\ s \in Acquisition!RunState
             /\ s.completed = r.completed /\ s.attempts = r.attempts
             /\ s.skipped = n /\ s.stopped = r.stopped /\ s.answer = r.answer
             /\ s.contact = r.contact
  BY DEF Acquisition!RunState

LEMMA CompanyFacts ==
  ASSUME NEW r \in Acquisition!RunState, NEW k \in Companies
  PROVE  LET s == [r EXCEPT !.company = k]
         IN  /\ s \in Acquisition!RunState /\ s.company = k
             /\ s.attempts = r.attempts /\ s.skipped = r.skipped /\ s.completed = r.completed
             /\ s.stopped = r.stopped /\ s.answer = r.answer /\ s.contact = r.contact
             /\ s.before = r.before
  BY DEF Acquisition!RunState

LEMMA ContactFacts ==
  ASSUME NEW r \in Acquisition!RunState, NEW x \in Contacts \union {NoContact}
  PROVE  LET s == [r EXCEPT !.contact = x]
         IN  /\ s \in Acquisition!RunState /\ s.contact = x
             /\ s.attempts = r.attempts /\ s.skipped = r.skipped /\ s.completed = r.completed
             /\ s.stopped = r.stopped /\ s.answer = r.answer /\ s.company = r.company
             /\ s.before = r.before
  BY DEF Acquisition!RunState

LEMMA FreshFacts ==
  ASSUME NEW r \in Acquisition!RunState, NEW b \in BOOLEAN
  PROVE  LET s == [r EXCEPT !.fresh = b]
         IN  /\ s \in Acquisition!RunState /\ s.fresh = b
             /\ s.attempts = r.attempts /\ s.skipped = r.skipped /\ s.completed = r.completed
             /\ s.stopped = r.stopped /\ s.answer = r.answer
             /\ s.company = r.company /\ s.contact = r.contact /\ s.before = r.before
  BY DEF Acquisition!RunState

(* What had a draft is noted.                                              *)
LEMMA BeforeFacts ==
  ASSUME NEW r \in Acquisition!RunState, NEW b \in SUBSET Acquisition!Target
  PROVE  LET s == [r EXCEPT !.before = b]
         IN  /\ s \in Acquisition!RunState /\ s.before = b
             /\ s.attempts = r.attempts /\ s.skipped = r.skipped /\ s.completed = r.completed
             /\ s.stopped = r.stopped /\ s.answer = r.answer
             /\ s.company = r.company /\ s.contact = r.contact
  BY DEF Acquisition!RunState

LEMMA CompletedFacts ==
  ASSUME NEW r \in Acquisition!RunState, NEW c \in Seq(Acquisition!Target)
  PROVE  LET s == [r EXCEPT !.completed = c]
         IN  /\ s \in Acquisition!RunState /\ s.completed = c
             /\ s.attempts = r.attempts /\ s.skipped = r.skipped
             /\ s.stopped = r.stopped /\ s.answer = r.answer
  BY DEF Acquisition!RunState

LEMMA UnchangedTargets ==
  ASSUME Acquisition!TypeOK, targeted' = targeted
  PROVE  /\ targeted' \in [Acquisition!Target -> Acquisition!DraftStatus]
         /\ \A t \in Acquisition!Target : targeted[t] # "NONE" => targeted'[t] # "NONE"
  BY DEF Acquisition!TypeOK

(* An attempt ends: it was skipped, and nothing else has happened.         *)
LEMMA SkipInv ==
  ASSUME AcquisitionInv, stage \in Acquisition!AttemptLabels, Acquisition!Skip,
         UNCHANGED <<promoted, contacted, mailbox>>,
         targeted' \in [Acquisition!Target -> Acquisition!DraftStatus],
         \A t \in Acquisition!Target : targeted[t] # "NONE" => targeted'[t] # "NONE"
  PROVE  AcquisitionInv'
  <1> DEFINE s == [acquiring EXCEPT !.skipped = @ + 1]
  <1>1. acquiring \in Acquisition!RunState
    BY DEF AcquisitionInv, Acquisition!TypeOK
  <1>2. /\ s \in Acquisition!RunState
        /\ s.completed = acquiring.completed /\ s.attempts = acquiring.attempts
        /\ s.skipped = acquiring.skipped + 1
        /\ s.stopped = acquiring.stopped /\ s.answer = acquiring.answer
    <2>1. PICK n \in Nat : n = acquiring.skipped + 1
      BY <1>1, RunFacts
    <2>2. s = [acquiring EXCEPT !.skipped = n]
      BY <2>1
    <2> QED
      BY <1>1, <2>1, <2>2, SkippedFacts
  <1>3. stage' = "loop" /\ acquiring' = Acquisition!Over(s)
    BY DEF Acquisition!Skip
  <1> HIDE DEF s
  <1>4. /\ acquiring' \in Acquisition!RunState /\ acquiring'.completed = acquiring.completed
        /\ acquiring'.attempts = acquiring.attempts
        /\ acquiring'.skipped = acquiring.skipped + 1
        /\ acquiring'.stopped = acquiring.stopped /\ acquiring'.answer = acquiring.answer
        /\ acquiring'.contact = NoContact
    BY <1>2, <1>3, OverFacts
  <1>5. Acquisition!TypeOK'
    BY <1>3, <1>4 DEF AcquisitionInv, Acquisition!TypeOK, Acquisition!Labels
  <1>6. AttemptInv'
    BY <1>3, <1>4 DEF AttemptInv, Chosen, Acquisition!AttemptLabels
  <1>7. ~acquiring.stopped /\ acquiring.answer # "error"
    BY DEF AcquisitionInv, RunningInv, Acquisition!AttemptLabels
  <1>8. RunningInv'
    BY <1>3, <1>4, <1>7 DEF RunningInv, Acquisition!AttemptLabels
  <1>9. Acquisition!AttemptsAccounted'
    <2>1. Pending /\ ~Pending'
      BY <1>3, <1>4, <1>7 DEF Pending, Acquisition!AttemptLabels
    <2> QED
      BY <1>1, <1>4, <2>1, RunFacts, BudgetType, AccountedFacts DEF AcquisitionInv, Accounted
  <1>10. Acquisition!CompletedStored'
    BY <1>4, StoredKept DEF AcquisitionInv
  <1> QED
    BY <1>5, <1>6, <1>8, <1>9, <1>10 DEF AcquisitionInv
(* An attempt goes on: nothing is counted, nothing is taken back.          *)
LEMMA CallInv ==
  ASSUME AcquisitionInv, stage \in Acquisition!AttemptLabels, stage' \in Acquisition!AttemptLabels,
         acquiring' \in Acquisition!RunState,
         acquiring'.attempts = acquiring.attempts, acquiring'.skipped = acquiring.skipped,
         acquiring'.completed = acquiring.completed, acquiring'.stopped = acquiring.stopped,
         acquiring'.answer = acquiring.answer,
         promoted \subseteq promoted', promoted' \subseteq Candidates,
         contacted \subseteq contacted', contacted' \subseteq Contacts,
         mailbox' \in [Companies -> {"unread", "absent", "known"}],
         \A k \in Companies : mailbox[k] = "known" => mailbox'[k] = "known",
         targeted' = targeted, AttemptInv'
  PROVE  AcquisitionInv'
  <1>1. Acquisition!TypeOK'
    BY DEF AcquisitionInv, Acquisition!TypeOK, Acquisition!Labels
  <1>2. ~acquiring.stopped /\ acquiring.answer # "error"
    BY DEF AcquisitionInv, RunningInv, Acquisition!AttemptLabels
  <1>3. RunningInv'
    BY <1>2 DEF AcquisitionInv, RunningInv
  <1>4. Acquisition!AttemptsAccounted'
    <2>1. Pending /\ Pending'
      BY DEF Pending
    <2>2. Accounted'
      BY <2>1, AccountedFacts, BudgetType DEF AcquisitionInv, Accounted
    <2> QED
      BY <2>2, AccountedFacts
  <1>5. Acquisition!CompletedStored'
    BY StoredKept DEF AcquisitionInv
  <1> QED
    BY <1>1, <1>3, <1>4, <1>5 DEF AcquisitionInv

LEMMA ToInv ==
  ASSUME AcquisitionInv, stage \in Acquisition!AttemptLabels, NEW label \in Acquisition!AttemptLabels,
         Acquisition!To(label), AttemptInv'
  PROVE  AcquisitionInv'
  <1>1. /\ stage' = label /\ acquiring' = acquiring /\ promoted' = promoted
        /\ contacted' = contacted /\ mailbox' = mailbox /\ targeted' = targeted
    BY DEF Acquisition!To, Acquisition!world
  <1>2. acquiring \in Acquisition!RunState /\ promoted \subseteq Candidates /\ contacted \subseteq Contacts
        /\ mailbox \in [Companies -> {"unread", "absent", "known"}]
    BY DEF AcquisitionInv, Acquisition!TypeOK
  <1> QED
    BY <1>1, <1>2, CallInv

(* A call's error ends the run.                                            *)
LEMMA AbortInv ==
  ASSUME AcquisitionInv, stage \in Acquisition!AttemptLabels, Acquisition!Abort
  PROVE  AcquisitionInv'
  <1> DEFINE s == [acquiring EXCEPT !.answer = "error"]
  <1>1. acquiring \in Acquisition!RunState
    BY DEF AcquisitionInv, Acquisition!TypeOK
  <1>2. /\ s \in Acquisition!RunState
        /\ s.completed = acquiring.completed /\ s.attempts = acquiring.attempts
        /\ s.skipped = acquiring.skipped /\ s.answer = "error"
    BY <1>1 DEF Acquisition!RunState
  <1>3. /\ stage' = "done" /\ acquiring' = Acquisition!Over(s)
        /\ UNCHANGED <<promoted, contacted, mailbox, targeted>>
    BY DEF Acquisition!Abort, Acquisition!world
  <1> HIDE DEF s
  <1>4. /\ acquiring' \in Acquisition!RunState /\ acquiring'.completed = acquiring.completed
        /\ acquiring'.attempts = acquiring.attempts /\ acquiring'.skipped = acquiring.skipped
        /\ acquiring'.answer = "error"
    BY <1>2, <1>3, OverFacts
  <1>5. Acquisition!TypeOK'
    BY <1>3, <1>4 DEF AcquisitionInv, Acquisition!TypeOK, Acquisition!Labels
  <1>6. AttemptInv' /\ RunningInv'
    BY <1>3 DEF AttemptInv, RunningInv, Chosen, Acquisition!AttemptLabels
  <1>7. Acquisition!AttemptsAccounted'
    <2>1. Pending /\ Pending'
      BY <1>4 DEF Pending
    <2>2. Accounted'
      BY <1>4, <2>1, AccountedFacts DEF AcquisitionInv, Accounted
    <2> QED
      BY <2>2, AccountedFacts
  <1>8. Acquisition!CompletedStored'
    BY <1>3, <1>4, StoredKept DEF AcquisitionInv
  <1> QED
    BY <1>5, <1>6, <1>7, <1>8 DEF AcquisitionInv

(* What had a draft still has one, whatever happens in between.            *)
LEMMA BeforeKept ==
  ASSUME AcquisitionInv, stage \in Acquisition!AttemptLabels,
         acquiring'.before = acquiring.before,
         \A t \in Acquisition!Target : targeted[t] # "NONE" => targeted'[t] # "NONE"
  PROVE  acquiring'.before \subseteq Acquisition!Drafted'
  <1>1. acquiring.before \subseteq Acquisition!Drafted
    BY DEF AcquisitionInv, AttemptInv
  <1> QED
    BY <1>1 DEF Acquisition!Drafted

LEMMA BeforeUnchanged ==
  ASSUME AcquisitionInv, stage \in Acquisition!AttemptLabels,
         acquiring'.before = acquiring.before, targeted' = targeted
  PROVE  acquiring'.before \subseteq Acquisition!Drafted'
  BY BeforeKept

-----------------------------------------------------------------------------
(* The calls of an attempt. *)

LEMMA StartInv == ASSUME AcquisitionInv, Acquisition!Start PROVE AcquisitionInv'
  <1>1. /\ stage' = "loop" /\ acquiring' = Acquisition!NewRun
        /\ UNCHANGED <<promoted, contacted, mailbox, targeted>>
    BY DEF Acquisition!Start, Acquisition!world
  <1>2. Acquisition!TypeOK'
    BY <1>1, NewRunType DEF AcquisitionInv, Acquisition!TypeOK, Acquisition!Labels
  <1> QED
    BY <1>1, <1>2, NewRunNext DEF AcquisitionInv, Fresh

LEMMA AlreadyInv == ASSUME AcquisitionInv, Acquisition!Already PROVE AcquisitionInv'
  <1>1. stage = "already" /\ stage \in Acquisition!AttemptLabels
    BY DEF Acquisition!Already, Acquisition!AttemptLabels
  <1>2. CASE Acquisition!Skip /\ UNCHANGED Acquisition!world
    BY <1>1, <1>2, UnchangedTargets, SkipInv DEF AcquisitionInv, Acquisition!world
  <1>3. CASE Acquisition!To("contact_plan")
    <2>1. AttemptInv'
      BY <1>1, <1>3, BeforeUnchanged
      DEF AcquisitionInv, AttemptInv, Acquisition!To, Acquisition!world, Chosen,
          Acquisition!AttemptLabels
    <2>2. "contact_plan" \in Acquisition!AttemptLabels
      BY DEF Acquisition!AttemptLabels
    <2> QED
      BY <1>1, <1>3, <2>1, <2>2, ToInv
  <1> QED
    BY <1>2, <1>3 DEF Acquisition!Already

LEMMA ApplyInv == ASSUME AcquisitionInv, Acquisition!Apply PROVE AcquisitionInv'
  <1>1. stage = "apply" /\ stage \in Acquisition!AttemptLabels
    BY DEF Acquisition!Apply, Acquisition!AttemptLabels
  <1>2. CASE Acquisition!Skip /\ UNCHANGED Acquisition!world
    BY <1>1, <1>2, UnchangedTargets, SkipInv DEF AcquisitionInv, Acquisition!world
  <1>3. CASE Acquisition!Abort
    BY <1>1, <1>3, AbortInv
  <1>4. CASE /\ promoted' = promoted \union {acquiring.candidate}
             /\ stage' = "contact_plan"
             /\ acquiring' = [acquiring EXCEPT !.company = CompanyOf[acquiring.candidate]]
             /\ UNCHANGED <<contacted, mailbox, targeted>>
    <2>1. /\ acquiring \in Acquisition!RunState /\ acquiring.candidate \in Candidates
          /\ acquiring.contact = NoContact
      BY <1>1 DEF AcquisitionInv, Acquisition!TypeOK, AttemptInv
    <2>2. PICK k \in Companies : k = CompanyOf[acquiring.candidate]
      BY <2>1, CompanyAssumption
    <2>3. acquiring' = [acquiring EXCEPT !.company = k]
      BY <1>4, <2>2
    <2>4. /\ acquiring' \in Acquisition!RunState /\ acquiring'.company = k
          /\ acquiring'.attempts = acquiring.attempts /\ acquiring'.skipped = acquiring.skipped
          /\ acquiring'.completed = acquiring.completed
          /\ acquiring'.stopped = acquiring.stopped
          /\ acquiring'.answer = acquiring.answer /\ acquiring'.contact = acquiring.contact
          /\ acquiring'.before = acquiring.before
      BY <2>1, <2>3, CompanyFacts
    <2>5. AttemptInv'
      BY <1>1, <1>4, <2>1, <2>2, <2>4, BeforeUnchanged DEF AttemptInv, Chosen, Acquisition!AttemptLabels
    <2>6. stage' \in Acquisition!AttemptLabels
      BY <1>4 DEF Acquisition!AttemptLabels
    <2> QED
      BY <1>1, <1>4, <2>1, <2>4, <2>5, <2>6, CallInv DEF AcquisitionInv, Acquisition!TypeOK
  <1> QED
    BY <1>2, <1>3, <1>4 DEF Acquisition!Apply

LEMMA ContactPlanInv == ASSUME AcquisitionInv, Acquisition!ContactPlan PROVE AcquisitionInv'
  <1>1. stage = "contact_plan" /\ stage \in Acquisition!AttemptLabels
    BY DEF Acquisition!ContactPlan, Acquisition!AttemptLabels
  <1>2. CASE Acquisition!To("mail")
    <2>1. AttemptInv'
      BY <1>1, <1>2, BeforeUnchanged
      DEF AcquisitionInv, AttemptInv, Acquisition!To, Acquisition!world, Chosen,
          Acquisition!AttemptLabels
    <2>2. "mail" \in Acquisition!AttemptLabels
      BY DEF Acquisition!AttemptLabels
    <2> QED
      BY <1>1, <1>2, <2>1, <2>2, ToInv
  <1>3. CASE Acquisition!Abort
    BY <1>1, <1>3, AbortInv
  <1>4. ASSUME NEW x \in Contacts \ contacted, EmployerOf[x] = acquiring.company,
               stage' = "contact_apply", acquiring' = [acquiring EXCEPT !.contact = x],
               UNCHANGED Acquisition!world
        PROVE  AcquisitionInv'
    <2>1. /\ acquiring \in Acquisition!RunState
          /\ acquiring.company \in Companies
          /\ \E c \in promoted : CompanyOf[c] = acquiring.company
      BY <1>1 DEF AcquisitionInv, Acquisition!TypeOK, AttemptInv, Chosen, Acquisition!AttemptLabels
    <2>2. /\ acquiring' \in Acquisition!RunState /\ acquiring'.contact = x
          /\ acquiring'.attempts = acquiring.attempts /\ acquiring'.skipped = acquiring.skipped
          /\ acquiring'.completed = acquiring.completed
          /\ acquiring'.stopped = acquiring.stopped
          /\ acquiring'.answer = acquiring.answer /\ acquiring'.company = acquiring.company
          /\ acquiring'.before = acquiring.before
      BY <1>4, <2>1, ContactFacts
    <2>3. UNCHANGED <<promoted, contacted, mailbox, targeted>>
      BY <1>4 DEF Acquisition!world
    <2>4. AttemptInv'
      BY <1>1, <1>4, <2>1, <2>2, <2>3, BeforeUnchanged DEF AttemptInv, Chosen, Acquisition!AttemptLabels
    <2>5. stage' \in Acquisition!AttemptLabels
      BY <1>4 DEF Acquisition!AttemptLabels
    <2> QED
      BY <1>1, <2>1, <2>2, <2>3, <2>4, <2>5, CallInv DEF AcquisitionInv, Acquisition!TypeOK
  <1> QED
    BY <1>2, <1>3, <1>4 DEF Acquisition!ContactPlan

LEMMA ContactApplyInv == ASSUME AcquisitionInv, Acquisition!ContactApply PROVE AcquisitionInv'
  <1>1. /\ stage = "contact_apply" /\ stage \in Acquisition!AttemptLabels
        /\ "mail" \in Acquisition!AttemptLabels /\ "draft_ids" \in Acquisition!AttemptLabels
    BY DEF Acquisition!ContactApply, Acquisition!AttemptLabels
  <1>2. /\ acquiring \in Acquisition!RunState /\ acquiring.company \in Companies
        /\ \E c \in promoted : CompanyOf[c] = acquiring.company
        /\ acquiring.contact \in Contacts /\ EmployerOf[acquiring.contact] = acquiring.company
        /\ promoted \subseteq Candidates /\ contacted \subseteq Contacts
        /\ mailbox \in [Companies -> {"unread", "absent", "known"}]
    BY <1>1 DEF AcquisitionInv, Acquisition!TypeOK, AttemptInv, Chosen, Acquisition!AttemptLabels
  <1>3. ASSUME stage' = "mail", acquiring' = [acquiring EXCEPT !.contact = NoContact],
               contacted \subseteq contacted', contacted' \subseteq Contacts,
               UNCHANGED <<promoted, mailbox, targeted>>
        PROVE  AcquisitionInv'
    <2>1. NoContact \in Contacts \union {NoContact}
      OBVIOUS
    <2>2. /\ acquiring' \in Acquisition!RunState /\ acquiring'.contact = NoContact
          /\ acquiring'.attempts = acquiring.attempts /\ acquiring'.skipped = acquiring.skipped
          /\ acquiring'.completed = acquiring.completed
          /\ acquiring'.stopped = acquiring.stopped
          /\ acquiring'.answer = acquiring.answer /\ acquiring'.company = acquiring.company
          /\ acquiring'.before = acquiring.before
      BY <1>2, <1>3, <2>1, ContactFacts
    <2>3. AttemptInv'
      BY <1>1, <1>2, <1>3, <2>2, BeforeUnchanged DEF AttemptInv, Chosen, Acquisition!AttemptLabels
    <2> QED
      BY <1>1, <1>2, <1>3, <2>2, <2>3, CallInv
  <1>4. CASE /\ stage' = "mail" /\ acquiring' = [acquiring EXCEPT !.contact = NoContact]
             /\ UNCHANGED Acquisition!world
    BY <1>2, <1>3, <1>4 DEF Acquisition!world
  <1>5. CASE Acquisition!Abort
    BY <1>1, <1>5, AbortInv
  <1>6. CASE /\ contacted' = contacted \union {acquiring.contact}
             /\ IF Acquisition!Usable(acquiring.contact)
                THEN stage' = "draft_ids" /\ UNCHANGED acquiring
                ELSE /\ stage' = "mail"
                     /\ acquiring' = [acquiring EXCEPT !.contact = NoContact]
             /\ UNCHANGED <<promoted, mailbox, targeted>>
    <2>1. contacted \subseteq contacted' /\ contacted' \subseteq Contacts
      BY <1>2, <1>6
    <2>2. CASE ~Acquisition!Usable(acquiring.contact)
      BY <1>3, <1>6, <2>1, <2>2
    <2>3. CASE Acquisition!Usable(acquiring.contact)
      <3>1. stage' = "draft_ids" /\ acquiring' = acquiring
        BY <1>6, <2>3
      <3>2. acquiring.contact \in contacted' \intersect WithEmail
        BY <1>6, <2>3 DEF Acquisition!Usable
      <3>3. AttemptInv'
        BY <1>1, <1>2, <1>6, <3>1, <3>2, BeforeUnchanged, ContactAssumption
        DEF AttemptInv, Chosen, Acquisition!AttemptLabels
      <3> QED
        BY <1>1, <1>2, <1>6, <2>1, <3>1, <3>3, CallInv
    <2> QED
      BY <2>2, <2>3
  <1> QED
    BY <1>4, <1>5, <1>6 DEF Acquisition!ContactApply

LEMMA MailInv == ASSUME AcquisitionInv, Acquisition!Mail PROVE AcquisitionInv'
  <1>1. /\ stage = "mail" /\ stage \in Acquisition!AttemptLabels
        /\ "enrich" \in Acquisition!AttemptLabels /\ "complete" \in Acquisition!AttemptLabels
    BY DEF Acquisition!Mail, Acquisition!AttemptLabels
  <1>2. CASE mailbox[acquiring.company] = "known" /\ Acquisition!To("complete")
    <2>1. AttemptInv'
      BY <1>1, <1>2, BeforeUnchanged
      DEF AcquisitionInv, AttemptInv, Acquisition!To, Acquisition!world, Chosen,
          Acquisition!AttemptLabels
    <2> QED
      BY <1>1, <1>2, <2>1, ToInv
  <1>3. CASE mailbox[acquiring.company] = "unread" /\ Acquisition!To("enrich")
    <2>1. AttemptInv'
      BY <1>1, <1>3, BeforeUnchanged
      DEF AcquisitionInv, AttemptInv, Acquisition!To, Acquisition!world, Chosen,
          Acquisition!AttemptLabels
    <2> QED
      BY <1>1, <1>3, <2>1, ToInv
  <1>4. CASE Acquisition!Skip /\ UNCHANGED Acquisition!world
    BY <1>1, <1>4, UnchangedTargets, SkipInv DEF AcquisitionInv, Acquisition!world
  <1> QED
    BY <1>2, <1>3, <1>4 DEF Acquisition!Mail

LEMMA EnrichInv == ASSUME AcquisitionInv, Acquisition!Enrich PROVE AcquisitionInv'
  <1>1. /\ stage = "enrich" /\ stage \in Acquisition!AttemptLabels
        /\ "mail" \in Acquisition!AttemptLabels
    BY DEF Acquisition!Enrich, Acquisition!AttemptLabels
  <1>2. CASE Acquisition!Abort
    BY <1>1, <1>2, AbortInv
  <1>3. ASSUME NEW answer \in {"known", "absent"},
               mailbox' = [mailbox EXCEPT ![acquiring.company] = answer],
               stage' = "mail", UNCHANGED <<promoted, contacted, targeted, acquiring>>
        PROVE  AcquisitionInv'
    <2>1. /\ acquiring \in Acquisition!RunState /\ acquiring.company \in Companies
          /\ \E c \in promoted : CompanyOf[c] = acquiring.company
          /\ acquiring.contact = NoContact /\ mailbox[acquiring.company] = "unread"
          /\ promoted \subseteq Candidates /\ contacted \subseteq Contacts
          /\ mailbox \in [Companies -> {"unread", "absent", "known"}]
      BY <1>1 DEF AcquisitionInv, Acquisition!TypeOK, AttemptInv, Chosen, Acquisition!AttemptLabels
    <2>2. /\ mailbox' \in [Companies -> {"unread", "absent", "known"}]
          /\ \A k \in Companies : mailbox[k] = "known" => mailbox'[k] = "known"
      BY <1>3, <2>1
    <2>3. AttemptInv'
      BY <1>1, <1>3, <2>1, BeforeUnchanged DEF AttemptInv, Chosen, Acquisition!AttemptLabels
    <2> QED
      BY <1>1, <1>3, <2>1, <2>2, <2>3, CallInv
  <1> QED
    BY <1>2, <1>3 DEF Acquisition!Enrich

LEMMA CompleteInv == ASSUME AcquisitionInv, Acquisition!Complete PROVE AcquisitionInv'
  <1>1. /\ stage = "complete" /\ stage \in Acquisition!AttemptLabels
        /\ "draft_ids" \in Acquisition!AttemptLabels
    BY DEF Acquisition!Complete, Acquisition!AttemptLabels
  <1>2. CASE Acquisition!Abort
    BY <1>1, <1>2, AbortInv
  <1>3. CASE Acquisition!To("draft_ids")
    <2>1. AttemptInv'
      BY <1>1, <1>3, BeforeUnchanged
      DEF AcquisitionInv, AttemptInv, Acquisition!To, Acquisition!world, Chosen,
          Acquisition!AttemptLabels
    <2> QED
      BY <1>1, <1>3, <2>1, ToInv
  <1> QED
    BY <1>2, <1>3 DEF Acquisition!Complete

LEMMA DraftIdsInv == ASSUME AcquisitionInv, Acquisition!DraftIds PROVE AcquisitionInv'
  <1>1. /\ stage = "draft_ids" /\ stage \in Acquisition!AttemptLabels
        /\ stage' = "draft" /\ stage' \in Acquisition!AttemptLabels
        /\ UNCHANGED <<promoted, contacted, mailbox, targeted>>
    BY DEF Acquisition!DraftIds, Acquisition!AttemptLabels, Acquisition!world
  <1>2. acquiring \in Acquisition!RunState
    BY DEF AcquisitionInv, Acquisition!TypeOK
  <1>3. /\ acquiring' \in Acquisition!RunState
        /\ acquiring'.attempts = acquiring.attempts /\ acquiring'.skipped = acquiring.skipped
        /\ acquiring'.completed = acquiring.completed
        /\ acquiring'.stopped = acquiring.stopped
        /\ acquiring'.answer = acquiring.answer /\ acquiring'.company = acquiring.company
        /\ acquiring'.contact = acquiring.contact /\ acquiring'.before = acquiring.before
        /\ acquiring'.fresh => targeted[Acquisition!Goal] = "NONE"
    <2>1. PICK b \in BOOLEAN : b = (targeted[Acquisition!Goal] = "NONE")
      OBVIOUS
    <2>2. acquiring' = [acquiring EXCEPT !.fresh = b]
      BY <2>1 DEF Acquisition!DraftIds
    <2> QED
      BY <1>2, <2>1, <2>2, FreshFacts
  <1>4. AttemptInv'
    <2>1. acquiring'.before \subseteq Acquisition!Drafted'
      BY <1>1, <1>3, BeforeUnchanged
    <2>2. acquiring'.fresh => Acquisition!Goal \notin acquiring.before
      BY <1>1, <1>3 DEF AcquisitionInv, AttemptInv, Acquisition!Drafted
    <2> QED
      BY <1>1, <1>3, <2>1, <2>2
      DEF AcquisitionInv, AttemptInv, Chosen, Acquisition!AttemptLabels, Acquisition!Goal
  <1> QED
    BY <1>1, <1>3, <1>4, CallInv DEF AcquisitionInv, Acquisition!TypeOK

LEMMA BelowLimit == \A n \in Nat : n < Limit => n + 1 <= Limit
  BY LimitAssumption

(* A new draft completes its target: it is counted, and stored.            *)
LEMMA CountInv ==
  ASSUME AcquisitionInv, stage = "draft", stage' = "loop",
         targeted' = [targeted EXCEPT ![Acquisition!Goal] = "DRAFT"],
         acquiring' = Acquisition!Over([acquiring EXCEPT !.completed = Append(@, Acquisition!Goal)]),
         UNCHANGED <<promoted, contacted, mailbox>>
  PROVE  AcquisitionInv'
  <1> DEFINE goal == Acquisition!Goal
             longer == Append(acquiring.completed, goal)
             s == [acquiring EXCEPT !.completed = longer]
  <1>1. /\ acquiring \in Acquisition!RunState /\ acquiring.company \in Companies
        /\ \E c \in promoted : CompanyOf[c] = acquiring.company
        /\ IF acquiring.contact = NoContact THEN mailbox[acquiring.company] = "known"
           ELSE /\ acquiring.contact \in contacted \intersect WithEmail
                /\ EmployerOf[acquiring.contact] = acquiring.company
        /\ targeted \in [Acquisition!Target -> Acquisition!DraftStatus]
    BY DEF AcquisitionInv, Acquisition!TypeOK, AttemptInv, Chosen, Acquisition!AttemptLabels
  <1>2. acquiring.contact \in Contacts \union {NoContact} /\ acquiring.completed \in Seq(Acquisition!Target)
    BY <1>1, RunFacts
  <1>3. /\ goal \in Acquisition!Target /\ goal[1] = acquiring.company
        /\ goal[2] = acquiring.contact
    BY <1>1, <1>2 DEF Acquisition!Goal, Acquisition!Target
  <1> HIDE DEF goal
  <1>4. /\ longer \in Seq(Acquisition!Target) /\ Len(longer) = Len(acquiring.completed) + 1
        /\ \A i \in DOMAIN longer :
               (i \in DOMAIN acquiring.completed /\ longer[i] = acquiring.completed[i]) \/ longer[i] = goal
    BY <1>2, <1>3, AppendProperties
  <1> HIDE DEF longer
  <1>5. /\ s \in Acquisition!RunState
        /\ s.completed = longer /\ s.attempts = acquiring.attempts
        /\ s.skipped = acquiring.skipped /\ s.stopped = acquiring.stopped
        /\ s.answer = acquiring.answer
    BY <1>1, <1>4, CompletedFacts
  <1>6. acquiring' = Acquisition!Over(s)
    BY DEF goal, longer
  <1> HIDE DEF s
  <1>7. /\ acquiring' \in Acquisition!RunState /\ acquiring'.completed = longer
        /\ acquiring'.attempts = acquiring.attempts /\ acquiring'.skipped = acquiring.skipped
        /\ acquiring'.stopped = acquiring.stopped /\ acquiring'.answer = acquiring.answer
        /\ acquiring'.contact = NoContact
    BY <1>5, <1>6, OverFacts
  <1>8. /\ targeted' \in [Acquisition!Target -> Acquisition!DraftStatus]
        /\ targeted'[goal] = "DRAFT"
        /\ \A t \in Acquisition!Target : targeted[t] # "NONE" => targeted'[t] # "NONE"
    BY <1>1, <1>3 DEF goal, Acquisition!DraftStatus
  <1>9. Acquisition!TypeOK'
    BY <1>7, <1>8 DEF AcquisitionInv, Acquisition!TypeOK, Acquisition!Labels
  <1>10. ~acquiring.stopped /\ acquiring.answer # "error" /\ Len(acquiring.completed) < Limit
    BY DEF AcquisitionInv, RunningInv, Acquisition!AttemptLabels
  <1>11. AttemptInv' /\ RunningInv'
    BY <1>7, <1>10 DEF AttemptInv, RunningInv, Chosen, Acquisition!AttemptLabels
  <1>12. Acquisition!AttemptsAccounted'
    <2>1. Pending /\ ~Pending'
      BY <1>7, <1>10 DEF Pending, Acquisition!AttemptLabels
    <2>2. Len(acquiring.completed) \in Nat /\ acquiring.attempts \in Nat /\ acquiring.skipped \in Nat
      BY <1>1, RunFacts, BudgetType
    <2>3. /\ acquiring.attempts <= Acquisition!Budget
          /\ acquiring.attempts = acquiring.skipped + Len(acquiring.completed) + 1
      BY <2>1, AccountedFacts DEF AcquisitionInv, Accounted
    <2>4. acquiring.attempts = acquiring.skipped + (Len(acquiring.completed) + 1) + 0
      BY <2>2, <2>3
    <2>5. Len(acquiring.completed) + 1 <= Limit
      <3>1. Len(acquiring.completed) < Limit
        BY <1>10
      <3> QED
        BY <2>2, <3>1, BelowLimit
    <2>6. /\ acquiring'.attempts = acquiring.attempts /\ acquiring'.skipped = acquiring.skipped
          /\ Len(acquiring'.completed) = Len(acquiring.completed) + 1
      BY <1>4, <1>7
    <2>7. Accounted'
      BY <2>1, <2>3, <2>4, <2>5, <2>6 DEF Accounted
    <2> QED
      BY <2>7, AccountedFacts
  <1>13. Acquisition!CompletedStored'
    <2> SUFFICES ASSUME NEW i \in DOMAIN longer
                 PROVE  LET t == longer[i]
                        IN  /\ targeted'[t] # "NONE"
                            /\ \E c \in promoted : CompanyOf[c] = t[1]
                            /\ IF t[2] = NoContact THEN mailbox[t[1]] = "known"
                               ELSE /\ t[2] \in contacted \intersect WithEmail
                                    /\ EmployerOf[t[2]] = t[1]
      BY <1>7 DEF Acquisition!CompletedStored
    <2>1. CASE longer[i] = goal
      BY <1>1, <1>3, <1>8, <2>1
    <2>2. CASE i \in DOMAIN acquiring.completed /\ longer[i] = acquiring.completed[i]
      <3>1. longer[i] \in Acquisition!Target
        BY <1>2, <2>2
      <3> QED
        BY <1>8, <2>2, <3>1 DEF AcquisitionInv, Acquisition!CompletedStored
    <2> QED
      BY <1>4, <2>1, <2>2
  <1> QED
    BY <1>9, <1>11, <1>12, <1>13 DEF AcquisitionInv

LEMMA DraftInv == ASSUME AcquisitionInv, Acquisition!Draft PROVE AcquisitionInv'
  <1>1. stage = "draft" /\ stage \in Acquisition!AttemptLabels
    BY DEF Acquisition!Draft, Acquisition!AttemptLabels
  <1>2. CASE Acquisition!Skip /\ UNCHANGED Acquisition!world
    BY <1>1, <1>2, UnchangedTargets, SkipInv DEF AcquisitionInv, Acquisition!TypeOK, Acquisition!world
  <1>3. CASE Acquisition!Abort
    BY <1>1, <1>3, AbortInv
  <1>4. CASE /\ targeted' = [targeted EXCEPT ![Acquisition!Goal] = "DRAFT"]
             /\ stage' = "loop"
             /\ \/ acquiring' = Acquisition!Count(acquiring)
                \/ acquiring' = Acquisition!Over([acquiring EXCEPT !.skipped = @ + 1])
             /\ UNCHANGED <<promoted, contacted, mailbox>>
    <2>1. CASE acquiring' = Acquisition!Over([acquiring EXCEPT !.skipped = @ + 1])
      <3>1. Acquisition!Skip
        BY <1>4, <2>1 DEF Acquisition!Skip
      <3>2. /\ targeted' \in [Acquisition!Target -> Acquisition!DraftStatus]
            /\ \A t \in Acquisition!Target : targeted[t] # "NONE" => targeted'[t] # "NONE"
        BY <1>4 DEF AcquisitionInv, Acquisition!TypeOK, Acquisition!DraftStatus
      <3> QED
        BY <1>1, <1>4, <3>1, <3>2, SkipInv
    <2>2. CASE acquiring' = Acquisition!Over([acquiring EXCEPT !.completed = Append(@, Acquisition!Goal)])
      BY <1>1, <1>4, <2>2, CountInv
    <2> QED
      BY <1>4, <2>1, <2>2 DEF Acquisition!Count
  <1> QED
    BY <1>2, <1>3, <1>4 DEF Acquisition!Draft

-----------------------------------------------------------------------------
(* The loop, and what happens meanwhile. *)

(* An attempt is begun.                                                    *)
LEMMA BegunFacts ==
  ASSUME NEW r \in Acquisition!RunState, NEW n \in 0..Acquisition!Budget
  PROVE  LET s == [r EXCEPT !.attempts = n]
         IN  /\ s \in Acquisition!RunState /\ s.attempts = n
             /\ s.completed = r.completed /\ s.skipped = r.skipped
             /\ s.stopped = r.stopped /\ s.answer = r.answer
             /\ s.company = r.company /\ s.contact = r.contact
  BY DEF Acquisition!RunState

(* And is over at once, counted as skipped or as what has ended the run.   *)
LEMMA EndedFacts ==
  ASSUME NEW r \in Acquisition!RunState, NEW s,
         \/ s = [r EXCEPT !.stopped = TRUE]
         \/ s = [r EXCEPT !.answer = "error"]
  PROVE  /\ s \in Acquisition!RunState
         /\ s.attempts = r.attempts /\ s.completed = r.completed /\ s.contact = r.contact
         /\ s.skipped = r.skipped
  BY DEF Acquisition!RunState

LEMMA UnofferedFacts ==
  ASSUME NEW r \in Acquisition!RunState, NEW n \in Nat
  PROVE  LET s == [r EXCEPT !.skipped = n, !.offered = TRUE]
         IN  /\ s \in Acquisition!RunState
             /\ s.attempts = r.attempts /\ s.completed = r.completed /\ s.contact = r.contact
             /\ s.skipped = n /\ s.stopped = r.stopped /\ s.answer = r.answer
  BY DEF Acquisition!RunState

LEMMA OfferedFacts ==
  ASSUME NEW r \in Acquisition!RunState
  PROVE  \A s \in {[r EXCEPT !.offered = TRUE, !.company = k] : k \in Companies}
                 \union {[r EXCEPT !.offered = TRUE, !.candidate = c] : c \in Candidates} :
             /\ s \in Acquisition!RunState
             /\ s.attempts = r.attempts /\ s.completed = r.completed /\ s.contact = r.contact
             /\ s.skipped = r.skipped /\ s.stopped = r.stopped /\ s.answer = r.answer
             /\ s.before = r.before
  <1>1. ASSUME NEW k \in Companies, NEW s, s = [r EXCEPT !.offered = TRUE, !.company = k]
        PROVE  /\ s \in Acquisition!RunState
               /\ s.attempts = r.attempts /\ s.completed = r.completed /\ s.contact = r.contact
               /\ s.skipped = r.skipped /\ s.stopped = r.stopped /\ s.answer = r.answer
               /\ s.before = r.before
    BY <1>1 DEF Acquisition!RunState
  <1>2. ASSUME NEW c \in Candidates, NEW s, s = [r EXCEPT !.offered = TRUE, !.candidate = c]
        PROVE  /\ s \in Acquisition!RunState
               /\ s.attempts = r.attempts /\ s.completed = r.completed /\ s.contact = r.contact
               /\ s.skipped = r.skipped /\ s.stopped = r.stopped /\ s.answer = r.answer
               /\ s.before = r.before
    BY <1>2 DEF Acquisition!RunState
  <1> QED
    BY Zenon, <1>1, <1>2

LEMMA EndedInv ==
  ASSUME AcquisitionInv, stage = "loop", stage' \in {"loop", "report", "done"},
         UNCHANGED <<promoted, contacted, mailbox, targeted>>,
         acquiring' \in Acquisition!RunState,
         acquiring.attempts < Acquisition!Budget, acquiring'.attempts = acquiring.attempts + 1,
         acquiring'.completed = acquiring.completed, acquiring'.contact = NoContact,
         \/ /\ stage' = "loop" /\ acquiring'.skipped = acquiring.skipped + 1
            /\ ~acquiring'.stopped /\ acquiring'.answer # "error"
         \/ /\ acquiring'.skipped = acquiring.skipped
            /\ \/ stage' = "report" /\ acquiring'.stopped /\ acquiring'.answer # "error"
               \/ stage' = "done" /\ acquiring'.answer = "error"
  PROVE  AcquisitionInv'
  <1>1. Acquisition!TypeOK'
    BY DEF AcquisitionInv, Acquisition!TypeOK, Acquisition!Labels
  <1>2. AttemptInv' /\ RunningInv'
    BY DEF AttemptInv, RunningInv, Chosen, Acquisition!AttemptLabels
  <1>3. ~Pending
    BY DEF AcquisitionInv, RunningInv, Pending, Acquisition!AttemptLabels
  <1>4. /\ acquiring.attempts <= Acquisition!Budget /\ Len(acquiring.completed) <= Limit
        /\ acquiring.attempts = acquiring.skipped + Len(acquiring.completed) + 0
    BY <1>3, AccountedFacts DEF AcquisitionInv, Accounted
  <1>5. /\ acquiring.attempts \in Nat /\ acquiring.skipped \in Nat
        /\ Len(acquiring.completed) \in Nat
    BY RunFacts, BudgetType DEF AcquisitionInv, Acquisition!TypeOK
  <1>6. Acquisition!AttemptsAccounted'
    <2>1. CASE stage' = "loop" /\ acquiring'.skipped = acquiring.skipped + 1 /\ ~Pending'
      BY <1>4, <1>5, <2>1, BudgetType, AccountedFacts DEF Accounted
    <2>2. CASE acquiring'.skipped = acquiring.skipped /\ Pending'
      BY <1>4, <1>5, <2>2, BudgetType, AccountedFacts DEF Accounted
    <2> QED
      BY <2>1, <2>2 DEF Pending, Acquisition!AttemptLabels
  <1>7. Acquisition!CompletedStored'
    BY StoredKept DEF AcquisitionInv
  <1> QED
    BY <1>1, <1>2, <1>6, <1>7 DEF AcquisitionInv

(* Or it has somebody to go on with.                                       *)
LEMMA GoesInv ==
  ASSUME AcquisitionInv, stage = "loop", Acquisition!Goes, stage' \in {"already", "apply"},
         UNCHANGED <<promoted, contacted, mailbox, targeted>>,
         acquiring' \in Acquisition!RunState, acquiring'.attempts = acquiring.attempts + 1,
         acquiring'.skipped = acquiring.skipped, acquiring'.completed = acquiring.completed,
         acquiring'.stopped = acquiring.stopped, acquiring'.answer = acquiring.answer,
         AttemptInv'
  PROVE  AcquisitionInv'
  <1>1. Acquisition!TypeOK'
    BY DEF AcquisitionInv, Acquisition!TypeOK, Acquisition!Labels, Acquisition!AttemptLabels
  <1>2. RunningInv'
    BY DEF AcquisitionInv, RunningInv, Acquisition!Goes
  <1>3. ~Pending /\ Pending'
    BY DEF AcquisitionInv, RunningInv, Pending, Acquisition!AttemptLabels
  <1>4. /\ acquiring.attempts <= Acquisition!Budget /\ Len(acquiring.completed) <= Limit
        /\ acquiring.attempts = acquiring.skipped + Len(acquiring.completed) + 0
    BY <1>3, AccountedFacts DEF AcquisitionInv, Accounted
  <1>5. /\ acquiring.attempts \in Nat /\ acquiring.skipped \in Nat
        /\ Len(acquiring.completed) \in Nat
    BY RunFacts, BudgetType DEF AcquisitionInv, Acquisition!TypeOK
  <1>6. Acquisition!AttemptsAccounted'
    BY <1>3, <1>4, <1>5, BudgetType, AccountedFacts DEF Accounted, Acquisition!Goes
  <1>7. Acquisition!CompletedStored'
    BY StoredKept DEF AcquisitionInv
  <1> QED
    BY <1>1, <1>2, <1>6, <1>7 DEF AcquisitionInv

LEMMA PlanInv == ASSUME AcquisitionInv, Acquisition!Plan PROVE AcquisitionInv'
  <1> DEFINE attempt == [acquiring EXCEPT !.attempts = @ + 1]
  <1>1. /\ stage = "loop" /\ Acquisition!Goes
        /\ UNCHANGED <<promoted, contacted, mailbox, targeted>>
    BY DEF Acquisition!Plan, Acquisition!world
  <1>2. acquiring \in Acquisition!RunState /\ promoted \subseteq Candidates
    BY DEF AcquisitionInv, Acquisition!TypeOK
  <1>3. PICK n \in 0..Acquisition!Budget : n = acquiring.attempts + 1
    BY <1>1, <1>2, RunFacts, BudgetType DEF Acquisition!Goes
  <1>4. /\ attempt \in Acquisition!RunState /\ attempt.attempts = acquiring.attempts + 1
        /\ attempt.completed = acquiring.completed /\ attempt.skipped = acquiring.skipped
        /\ attempt.stopped = acquiring.stopped /\ attempt.answer = acquiring.answer
        /\ attempt.company = acquiring.company /\ attempt.contact = acquiring.contact
    <2>1. attempt = [acquiring EXCEPT !.attempts = n]
      BY <1>3
    <2> HIDE DEF attempt
    <2> QED
      BY <1>2, <1>3, <2>1, BegunFacts
  <1>5. ~acquiring.stopped /\ acquiring.answer # "error"
    BY <1>1 DEF AcquisitionInv, RunningInv
  <1>6. acquiring.attempts < Acquisition!Budget
    BY <1>1 DEF Acquisition!Goes
  <1>7. acquiring.contact = NoContact
    BY <1>1 DEF AcquisitionInv, AttemptInv
  <1> HIDE DEF attempt
  <1> DEFINE noted == [attempt EXCEPT !.before = Acquisition!Drafted]
  <1>noted. /\ noted \in Acquisition!RunState /\ noted.before = Acquisition!Drafted
         /\ noted.attempts = attempt.attempts /\ noted.completed = attempt.completed
         /\ noted.skipped = attempt.skipped /\ noted.stopped = attempt.stopped
         /\ noted.answer = attempt.answer /\ noted.contact = attempt.contact
    <2>1. Acquisition!Drafted \in SUBSET Acquisition!Target
      BY DEF Acquisition!Drafted
    <2> QED
      BY <1>4, <2>1, BeforeFacts
  <1>kept. Acquisition!Drafted' = Acquisition!Drafted
    BY <1>1 DEF Acquisition!Drafted
  <1> HIDE DEF noted
  <1>8. CASE stage' = "report" /\ acquiring' = [attempt EXCEPT !.stopped = TRUE]
    <2>1. acquiring'.stopped /\ acquiring'.answer = attempt.answer
      BY <1>4, <1>8 DEF Acquisition!RunState
    <2>2. /\ acquiring' \in Acquisition!RunState /\ acquiring'.attempts = attempt.attempts
          /\ acquiring'.completed = attempt.completed /\ acquiring'.contact = attempt.contact
          /\ acquiring'.skipped = attempt.skipped
      BY <1>4, <1>8, EndedFacts
    <2> QED
      BY <1>1, <1>4, <1>5, <1>6, <1>7, <1>8, <2>1, <2>2, EndedInv
  <1>9. CASE stage' = "done" /\ acquiring' = [attempt EXCEPT !.answer = "error"]
    <2>1. acquiring'.answer = "error"
      BY <1>4, <1>9 DEF Acquisition!RunState
    <2>2. /\ acquiring' \in Acquisition!RunState /\ acquiring'.attempts = attempt.attempts
          /\ acquiring'.completed = attempt.completed /\ acquiring'.contact = attempt.contact
          /\ acquiring'.skipped = attempt.skipped
      BY <1>4, <1>9, EndedFacts
    <2> QED
      BY <1>1, <1>4, <1>6, <1>7, <1>9, <2>1, <2>2, EndedInv
  <1>10. CASE /\ stage' = "loop"
              /\ \/ acquiring' = [attempt EXCEPT !.skipped = @ + 1]
                 \/ acquiring' = [attempt EXCEPT !.skipped = @ + 1, !.offered = TRUE]
    <2>1. PICK m \in Nat : m = attempt.skipped + 1
      BY <1>4, RunFacts
    <2>2. \/ acquiring' = [attempt EXCEPT !.skipped = m]
          \/ acquiring' = [attempt EXCEPT !.skipped = m, !.offered = TRUE]
      BY Zenon, <1>10, <2>1
    <2>3. /\ acquiring' \in Acquisition!RunState /\ acquiring'.attempts = attempt.attempts
          /\ acquiring'.completed = attempt.completed /\ acquiring'.contact = attempt.contact
          /\ acquiring'.skipped = m /\ acquiring'.stopped = attempt.stopped
          /\ acquiring'.answer = attempt.answer
      <3>1. CASE acquiring' = [attempt EXCEPT !.skipped = m]
        BY <1>4, <3>1, SkippedFacts
      <3>2. CASE acquiring' = [attempt EXCEPT !.skipped = m, !.offered = TRUE]
        BY <1>4, <3>2, UnofferedFacts
      <3> QED
        BY <2>2, <3>1, <3>2
    <2>4. ~acquiring'.stopped /\ acquiring'.answer # "error"
      BY Zenon, <1>4, <1>5, <2>3
    <2>5. /\ acquiring'.attempts = acquiring.attempts + 1
          /\ acquiring'.skipped = acquiring.skipped + 1
          /\ acquiring'.completed = acquiring.completed /\ acquiring'.contact = NoContact
      BY Zenon, <1>4, <1>7, <2>1, <2>3
    <2> QED
      BY <1>1, <1>6, <1>10, <2>3, <2>4, <2>5, EndedInv
  <1>11. ASSUME NEW c \in promoted, stage' = "already",
                acquiring' = [noted EXCEPT !.offered = TRUE, !.company = CompanyOf[c]]
         PROVE  AcquisitionInv'
    <2>1. CompanyOf[c] \in Companies /\ c \in Candidates
      BY <1>2, CompanyAssumption
    <2>2. /\ acquiring' \in Acquisition!RunState /\ acquiring'.attempts = attempt.attempts
          /\ acquiring'.completed = attempt.completed /\ acquiring'.contact = attempt.contact
          /\ acquiring'.skipped = attempt.skipped /\ acquiring'.stopped = attempt.stopped
          /\ acquiring'.answer = attempt.answer /\ acquiring'.before = Acquisition!Drafted
      <3>1. acquiring' \in {[noted EXCEPT !.offered = TRUE, !.company = k] : k \in Companies}
                          \union {[noted EXCEPT !.offered = TRUE, !.candidate = d] : d \in Candidates}
        BY Zenon, <1>11, <2>1
      <3> QED
        BY Zenon, <1>noted, <3>1, OfferedFacts
    <2>3. acquiring'.company = CompanyOf[c]
      BY <1>noted, <1>11 DEF Acquisition!RunState
    <2>4. AttemptInv'
      BY <1>1, <1>4, <1>7, <1>11, <1>kept, <2>1, <2>2, <2>3
      DEF AttemptInv, Chosen, Acquisition!AttemptLabels
    <2>5. /\ acquiring'.attempts = acquiring.attempts + 1
          /\ acquiring'.skipped = acquiring.skipped
          /\ acquiring'.completed = acquiring.completed
          /\ acquiring'.stopped = acquiring.stopped
          /\ acquiring'.answer = acquiring.answer
      BY Zenon, <1>4, <2>2
    <2> QED
      BY <1>1, <1>11, <2>2, <2>4, <2>5, GoesInv
  <1>12. ASSUME NEW c \in Candidates \ promoted, stage' = "apply",
                acquiring' = [noted EXCEPT !.offered = TRUE, !.candidate = c]
         PROVE  AcquisitionInv'
    <2>1. CompanyOf[c] \in Companies
      BY CompanyAssumption
    <2>2. /\ acquiring' \in Acquisition!RunState /\ acquiring'.attempts = attempt.attempts
          /\ acquiring'.completed = attempt.completed /\ acquiring'.contact = attempt.contact
          /\ acquiring'.skipped = attempt.skipped /\ acquiring'.stopped = attempt.stopped
          /\ acquiring'.answer = attempt.answer /\ acquiring'.before = Acquisition!Drafted
      <3>1. acquiring' \in {[noted EXCEPT !.offered = TRUE, !.company = k] : k \in Companies}
                          \union {[noted EXCEPT !.offered = TRUE, !.candidate = d] : d \in Candidates}
        BY Zenon, <1>12, <2>1
      <3> QED
        BY Zenon, <1>noted, <3>1, OfferedFacts
    <2>3. acquiring'.candidate = c
      BY <1>noted, <1>12 DEF Acquisition!RunState
    <2>4. AttemptInv'
      BY <1>1, <1>4, <1>7, <1>12, <1>kept, <2>2, <2>3
      DEF AttemptInv, Chosen, Acquisition!AttemptLabels
    <2>5. /\ acquiring'.attempts = acquiring.attempts + 1
          /\ acquiring'.skipped = acquiring.skipped
          /\ acquiring'.completed = acquiring.completed
          /\ acquiring'.stopped = acquiring.stopped
          /\ acquiring'.answer = acquiring.answer
      BY Zenon, <1>4, <2>2
    <2> QED
      BY <1>1, <1>12, <2>2, <2>4, <2>5, GoesInv
  <1> QED
    BY Zenon, <1>8, <1>9, <1>10, <1>11, <1>12 DEF Acquisition!Plan, attempt, noted

LEMMA LeaveInv == ASSUME AcquisitionInv, Acquisition!Leave PROVE AcquisitionInv'
  <1>1. /\ stage = "loop" /\ stage' = "report"
        /\ UNCHANGED <<promoted, contacted, mailbox, targeted, acquiring>>
    BY DEF Acquisition!Leave, Acquisition!To, Acquisition!world
  <1>2. Acquisition!TypeOK'
    BY <1>1 DEF AcquisitionInv, Acquisition!TypeOK, Acquisition!Labels
  <1>3. AttemptInv' /\ RunningInv'
    BY <1>1 DEF AcquisitionInv, AttemptInv, RunningInv, Chosen, Acquisition!AttemptLabels
  <1>4. Accounted => Accounted'
    BY Zenon, <1>1 DEF Accounted, Pending, Acquisition!AttemptLabels
  <1>5. Acquisition!CompletedStored'
    BY <1>1, StoredKept DEF AcquisitionInv
  <1> QED
    BY <1>2, <1>3, <1>4, <1>5, AccountedFacts DEF AcquisitionInv

(* The report changes the answer, and to no error.                         *)
LEMMA ReportInv == ASSUME AcquisitionInv, Acquisition!Report PROVE AcquisitionInv'
  <1>1. /\ stage = "report" /\ stage' = "done"
        /\ UNCHANGED <<promoted, contacted, mailbox, targeted>>
    BY DEF Acquisition!Report, Acquisition!world
  <1>2. acquiring \in Acquisition!RunState
    BY DEF AcquisitionInv, Acquisition!TypeOK
  <1>3. PICK a \in Acquisition!Statuses \union {"serialization"} :
            acquiring' = [acquiring EXCEPT !.answer = a]
    BY DEF Acquisition!Report, Acquisition!StatusOf, Acquisition!Statuses
  <1>4. acquiring' \in Acquisition!RunState
    BY <1>2, <1>3 DEF Acquisition!RunState
  <1>5. /\ acquiring'.attempts = acquiring.attempts /\ acquiring'.skipped = acquiring.skipped
        /\ acquiring'.completed = acquiring.completed /\ acquiring'.stopped = acquiring.stopped
        /\ acquiring'.answer # "error"
    BY <1>2, <1>3 DEF Acquisition!RunState, Acquisition!Statuses
  <1>6. Acquisition!TypeOK'
    BY <1>1, <1>4 DEF AcquisitionInv, Acquisition!TypeOK, Acquisition!Labels
  <1>7. AttemptInv' /\ RunningInv'
    BY <1>1, <1>5 DEF AttemptInv, RunningInv, Chosen, Acquisition!AttemptLabels
  <1>8. Pending' <=> Pending
    BY <1>1, <1>5 DEF AcquisitionInv, RunningInv, Pending, Acquisition!AttemptLabels
  <1>9. Accounted => Accounted'
    BY Zenon, <1>5, <1>8 DEF Accounted
  <1>10. Acquisition!CompletedStored'
    BY <1>1, <1>5, StoredKept DEF AcquisitionInv
  <1> QED
    BY <1>6, <1>7, <1>9, <1>10, AccountedFacts DEF AcquisitionInv

LEMMA ExitInv == ASSUME AcquisitionInv, Acquisition!Exit \/ Acquisition!Crash PROVE AcquisitionInv'
  <1>1. /\ stage' = "idle" /\ acquiring' = Acquisition!NewRun
        /\ UNCHANGED <<promoted, contacted, mailbox, targeted>>
    BY DEF Acquisition!Exit, Acquisition!Crash, Acquisition!world
  <1>2. Acquisition!TypeOK'
    BY <1>1, NewRunType DEF AcquisitionInv, Acquisition!TypeOK, Acquisition!Labels
  <1> QED
    BY <1>1, <1>2, NewRunNext DEF AcquisitionInv, Fresh

(* Drafts that are reviewed, or stored by another command, stay stored.    *)
LEMMA DraftedInv ==
  ASSUME AcquisitionInv, NEW t \in Acquisition!Target,
         NEW status \in {"DRAFT", "APPROVED", "REJECTED"},
         targeted' = [targeted EXCEPT ![t] = status],
         UNCHANGED <<promoted, contacted, mailbox, stage, acquiring>>
  PROVE  AcquisitionInv'
  <1>1. targeted \in [Acquisition!Target -> Acquisition!DraftStatus]
    BY DEF AcquisitionInv, Acquisition!TypeOK
  <1>2. /\ targeted' \in [Acquisition!Target -> Acquisition!DraftStatus]
        /\ \A u \in Acquisition!Target : targeted[u] # "NONE" => targeted'[u] # "NONE"
    BY <1>1 DEF Acquisition!DraftStatus
  <1>3. Acquisition!TypeOK'
    BY <1>2 DEF AcquisitionInv, Acquisition!TypeOK
  <1>4. stage \in Acquisition!AttemptLabels => acquiring.before \subseteq Acquisition!Drafted'
    BY <1>2, BeforeKept
  <1>5. AttemptInv'
    BY <1>4 DEF AcquisitionInv, AttemptInv
  <1>6. RunningInv'
    BY DEF AcquisitionInv, RunningInv
  <1>7. Accounted => Accounted'
    BY Zenon DEF Accounted, Pending
  <1>8. Acquisition!CompletedStored'
    BY <1>2, StoredKept DEF AcquisitionInv
  <1> QED
    BY <1>3, <1>5, <1>6, <1>7, <1>8, AccountedFacts DEF AcquisitionInv

LEMMA ReviewInv == ASSUME AcquisitionInv, Acquisition!Review PROVE AcquisitionInv'
  <1>1. PICK t \in Acquisition!Target, verdict \in {"APPROVED", "REJECTED"} :
            targeted' = [targeted EXCEPT ![t] = verdict]
    BY DEF Acquisition!Review
  <1>2. UNCHANGED <<promoted, contacted, mailbox, stage, acquiring>>
    BY DEF Acquisition!Review
  <1> QED
    BY <1>1, <1>2, DraftedInv

LEMMA GenerateInv == ASSUME AcquisitionInv, Acquisition!Generate PROVE AcquisitionInv'
  <1>1. PICK t \in Acquisition!Target : targeted' = [targeted EXCEPT ![t] = "DRAFT"]
    BY DEF Acquisition!Generate
  <1>2. UNCHANGED <<promoted, contacted, mailbox, stage, acquiring>>
    BY DEF Acquisition!Generate
  <1> QED
    BY <1>1, <1>2, DraftedInv

(* Every step of the agent keeps the invariant.                            *)
LEMMA AcquisitionStep == ASSUME AcquisitionInv, Acquisition!Next PROVE AcquisitionInv'
  BY StartInv, PlanInv, AlreadyInv, ApplyInv, ContactPlanInv, ContactApplyInv, MailInv, EnrichInv,
     CompleteInv, DraftIdsInv, DraftInv, LeaveInv, ReportInv, ExitInv, ReviewInv,
     GenerateInv
  DEF Acquisition!Next, Acquisition!RunStep

LEMMA AcquisitionStutter == ASSUME AcquisitionInv, UNCHANGED acquisition PROVE AcquisitionInv'
  <1>1. UNCHANGED <<promoted, contacted, mailbox, targeted, stage, acquiring>>
    BY DEF acquisition
  <1> QED
    BY Zenon, <1>1
    DEF AcquisitionInv, Acquisition!TypeOK, AttemptInv, RunningInv, Acquisition!AttemptsAccounted,
        Acquisition!CompletedStored, Acquisition!Drafted

LEMMA AcquisitionBulkStep ==
  ASSUME AcquisitionInv, [Acquire \/ ImportCompanies \/ GenerateMissing \/ ExportCrm]_all
  PROVE  AcquisitionInv'
  <1>1. CASE Acquire
    BY <1>1, AcquisitionStep DEF Acquire
  <1>2. CASE ImportCompanies \/ GenerateMissing \/ ExportCrm \/ UNCHANGED all
    <2>1. UNCHANGED acquisition
      BY <1>2 DEF ImportCompanies, GenerateMissing, ExportCrm, all
    <2> QED
      BY <2>1, AcquisitionStutter
  <1> QED
    BY <1>1, <1>2

LEMMA AcquisitionInvariant == BulkSpec => []AcquisitionInv
  <1>1. BulkInit => AcquisitionInv
    BY AcquisitionInit DEF BulkInit
  <1> QED
    BY <1>1, AcquisitionBulkStep, PTL DEF BulkSpec

(* Every attempt ends in exactly one place, and there are never more of    *)
(* them, nor more new drafts, than the run was allowed, whatever the calls *)
(* answer and whenever the run dies (the counters of the agent's _State).  *)
THEOREM AttemptsAreAccounted == BulkSpec => []AttemptsAccounted
  <1>1. AcquisitionInv => AttemptsAccounted
    BY DEF AcquisitionInv, AttemptsAccounted
  <1> QED
    BY <1>1, AcquisitionInvariant, PTL

(* What a run lists as completed is in the tables: the draft, the company  *)
(* of a promoted candidate, and the contact of that company or the         *)
(* company's own address.                                                  *)
THEOREM CompletedIsStored == BulkSpec => []CompletedStored
  <1>1. AcquisitionInv => CompletedStored
    BY DEF AcquisitionInv, CompletedStored
  <1> QED
    BY <1>1, AcquisitionInvariant, PTL

(* Only the step that stores a draft, or finds one that was stored since   *)
(* the look at the drafts there were, lengthens the list of completed.     *)
LEMMA OnlyDraftCounts ==
  ASSUME AcquisitionInv, Acquisition!Next,
         Len(acquiring'.completed) > Len(acquiring.completed)
  PROVE  Acquisition!Goal \notin acquiring.before /\ targeted'[Acquisition!Goal] = "DRAFT"
  <1>1. acquiring \in Acquisition!RunState /\ Len(acquiring.completed) \in Nat
    BY RunFacts DEF AcquisitionInv, Acquisition!TypeOK
  <1>2. acquiring'.completed # acquiring.completed /\ acquiring'.completed # <<>>
    BY <1>1
  <1>3. ~Acquisition!Start /\ ~Acquisition!Exit /\ ~Acquisition!Crash
    BY Zenon, <1>2, NewRunFacts DEF Acquisition!Start, Acquisition!Exit, Acquisition!Crash
  <1>4. ~Acquisition!Skip
    BY <1>1, <1>2 DEF Acquisition!Skip, Acquisition!Over, Acquisition!RunState
  <1>5. ~Acquisition!Abort
    BY <1>1, <1>2 DEF Acquisition!Abort, Acquisition!Over, Acquisition!RunState
  <1>6. \A label : ~Acquisition!To(label)
    BY Zenon, <1>2 DEF Acquisition!To
  <1>7. /\ ~Acquisition!Already /\ ~Acquisition!Apply /\ ~Acquisition!ContactPlan
        /\ ~Acquisition!ContactApply /\ ~Acquisition!Mail /\ ~Acquisition!Enrich
        /\ ~Acquisition!Complete /\ ~Acquisition!DraftIds /\ ~Acquisition!Leave
        /\ ~Acquisition!Report /\ ~Acquisition!Review /\ ~Acquisition!Generate
    <2>1. ~Acquisition!Already
      BY Zenon, <1>4, <1>6 DEF Acquisition!Already
    <2>2. ~Acquisition!Apply
      <3>1. acquiring' # [acquiring EXCEPT !.company = CompanyOf[acquiring.candidate]]
        BY <1>1, <1>2 DEF Acquisition!RunState
      <3> QED
        BY Zenon, <1>4, <1>5, <3>1 DEF Acquisition!Apply
    <2>3. ~Acquisition!ContactPlan
      <3>1. \A x : acquiring' # [acquiring EXCEPT !.contact = x]
        BY <1>1, <1>2 DEF Acquisition!RunState
      <3> QED
        BY Zenon, <1>5, <1>6, <3>1 DEF Acquisition!ContactPlan
    <2>4. ~Acquisition!ContactApply
      <3>1. acquiring' # [acquiring EXCEPT !.contact = NoContact] /\ acquiring' # acquiring
        BY <1>1, <1>2 DEF Acquisition!RunState
      <3> QED
        BY Zenon, <1>5, <3>1 DEF Acquisition!ContactApply
    <2>5. ~Acquisition!Mail
      BY <1>4, <1>6 DEF Acquisition!Mail
    <2>6. ~Acquisition!Enrich
      BY Zenon, <1>2, <1>5 DEF Acquisition!Enrich
    <2>7. ~Acquisition!Complete /\ ~Acquisition!Leave
      BY Zenon, <1>5, <1>6 DEF Acquisition!Complete, Acquisition!Leave
    <2>8. ~Acquisition!DraftIds
      <3>1. acquiring' # [acquiring EXCEPT !.fresh = (targeted[Acquisition!Goal] = "NONE")]
        BY <1>1, <1>2 DEF Acquisition!RunState
      <3> QED
        BY Zenon, <3>1 DEF Acquisition!DraftIds
    <2>9. ~Acquisition!Report
      <3>1. acquiring' # [acquiring EXCEPT !.answer = IF Acquisition!Aligned THEN Acquisition!StatusOf ELSE "serialization"]
        BY <1>1, <1>2 DEF Acquisition!RunState
      <3> QED
        BY Zenon, <3>1 DEF Acquisition!Report
    <2>10. ~Acquisition!Review /\ ~Acquisition!Generate
      BY Zenon, <1>2 DEF Acquisition!Review, Acquisition!Generate
    <2> QED
      BY <2>1, <2>2, <2>3, <2>4, <2>5, <2>6, <2>7, <2>8, <2>9, <2>10
  <1>8. ~Acquisition!Plan
    <2> DEFINE attempt == [acquiring EXCEPT !.attempts = @ + 1]
    <2> SUFFICES ASSUME Acquisition!Plan PROVE FALSE
      OBVIOUS
    <2>1. PICK n \in 0..Acquisition!Budget : n = acquiring.attempts + 1
      <3>1. Acquisition!Goes
        BY DEF Acquisition!Plan
      <3>2. acquiring.attempts \in 0..Acquisition!Budget
        BY <1>1, RunFacts
      <3> QED
        BY <3>1, <3>2, BudgetType DEF Acquisition!Goes
    <2>2. attempt \in Acquisition!RunState /\ attempt.completed = acquiring.completed
      <3>1. attempt = [acquiring EXCEPT !.attempts = n]
        BY <2>1
      <3> HIDE DEF attempt
      <3> QED
        BY <1>1, <2>1, <3>1, BegunFacts
    <2> HIDE DEF attempt
    <2>3. /\ acquiring' # [attempt EXCEPT !.stopped = TRUE]
          /\ acquiring' # [attempt EXCEPT !.answer = "error"]
          /\ \A m : /\ acquiring' # [attempt EXCEPT !.skipped = m]
                   /\ acquiring' # [attempt EXCEPT !.skipped = m, !.offered = TRUE]
      BY <1>2, <2>2 DEF Acquisition!RunState
    <2>4. \A b, k : LET noted == [attempt EXCEPT !.before = b]
                    IN  /\ acquiring' # [noted EXCEPT !.offered = TRUE, !.company = k]
                        /\ acquiring' # [noted EXCEPT !.offered = TRUE, !.candidate = k]
      BY <1>2, <2>2 DEF Acquisition!RunState
    <2> QED
      BY Zenon, <2>3, <2>4 DEF Acquisition!Plan, attempt
  <1>9. Acquisition!Draft
    BY <1>3, <1>7, <1>8 DEF Acquisition!Next, Acquisition!RunStep
  <1>10. /\ acquiring.fresh /\ stage = "draft"
         /\ targeted' = [targeted EXCEPT ![Acquisition!Goal] = "DRAFT"]
    <2>1. acquiring' # Acquisition!Over([acquiring EXCEPT !.skipped = @ + 1])
      BY <1>1, <1>2 DEF Acquisition!Over, Acquisition!RunState
    <2> QED
      BY Zenon, <1>4, <1>5, <1>9, <2>1 DEF Acquisition!Draft, Acquisition!Count
  <1>11. Acquisition!Goal \notin acquiring.before
    BY <1>10 DEF AcquisitionInv, AttemptInv, Acquisition!Goal
  <1>12. /\ targeted \in [Acquisition!Target -> Acquisition!DraftStatus]
         /\ Acquisition!Goal \in Acquisition!Target
    BY <1>1, <1>10, RunFacts
    DEF AcquisitionInv, Acquisition!TypeOK, AttemptInv, Chosen, Acquisition!AttemptLabels,
        Acquisition!Goal, Acquisition!Target
  <1> QED
    BY <1>10, <1>11, <1>12

(* No draft is counted as new that was there when the attempt chose its    *)
(* company: of an earlier attempt or run, or of another command, whatever  *)
(* is stored and reviewed in between.                                      *)
THEOREM OnlyNewIsCounted == BulkSpec => OnlyNewCounted
  <1>1. ASSUME AcquisitionInv, [Acquire \/ ImportCompanies \/ GenerateMissing \/ ExportCrm]_all
        PROVE  [Len(acquiring'.completed) > Len(acquiring.completed) =>
                    /\ Acquisition!Goal \notin acquiring.before
                    /\ targeted'[Acquisition!Goal] = "DRAFT"]_(Acquisition!vars)
    <2>1. CASE Acquire
      BY <1>1, <2>1, OnlyDraftCounts DEF Acquire
    <2>2. CASE ImportCompanies \/ GenerateMissing \/ ExportCrm \/ UNCHANGED all
      BY <2>2 DEF ImportCompanies, GenerateMissing, ExportCrm, all, acquisition, Acquisition!vars
    <2> QED
      BY <1>1, <2>1, <2>2
  <1> QED
    BY <1>1, AcquisitionInvariant, PTL DEF BulkSpec, OnlyNewCounted, Acquisition!OnlyNewCounted

-----------------------------------------------------------------------------
(* The exports. *)

Unrecorded == {"idle", "load", "rows", "save", "preview", "trial_load", "trial_rows", "record", "claim"}

Recorded == {"final_load", "final_rows", "final_save", "verify"}

ExportLabels == Unrecorded \union Recorded \union {"done", "dead"}

BatchLabels == (Unrecorded \union Recorded) \ {"idle", "load", "rows", "save"}

OutreachStatuses == {"DRAFT", "APPROVED", "REJECTED", "MANUALLY_SENT", "AUTOMATIC"}

Snapshots == UNION {[ds -> OutreachStatuses] : ds \in SUBSET Drafts}

(* What an export holds.                                                   *)
IsExportJob(j) ==
    j \in [drafts : SUBSET Drafts, left : {j.left}, overwrite : BOOLEAN, snapshot : Snapshots,
          leading : {j.leading}, rows : Export!Workbook, answer : Export!Answers]

(* A process at a label, with what it holds: a draft its snapshot shows as *)
(* sent is recorded as sent, its rows give the time of those, and its own  *)
(* drafts are recorded by it once it has claimed them and not before.      *)
ExportJobInv(p, label, j) ==
    /\ IsExportJob(j)
    /\ \A d \in DOMAIN j.snapshot : j.snapshot[d] = "MANUALLY_SENT" => Export!Sent(d)
    /\ \A d \in DOMAIN j.rows : j.rows[d].status = "MANUALLY_SENT" => j.rows[d].timed
    /\ label \in Unrecorded => \A d \in Drafts : draft[d].sender # p
    /\ label \in Recorded => \A d \in j.drafts : draft[d].sender = p
    /\ label \in BatchLabels => ~j.overwrite

ExportTables ==
    /\ writer = NoProc
    /\ pc \in [Procs -> ExportLabels]
    /\ DOMAIN exporting = Procs /\ exporting = [q \in Procs |-> exporting[q]]
    /\ draft \in [Drafts -> Export!DraftRow] /\ task \in [Tasks -> Export!TaskStatus]
    /\ file # NoFile => file \in Export!Workbook

ExportInv ==
    /\ ExportTables
    /\ Export!SentIsTimed
    /\ \A p \in Procs : ExportJobInv(p, pc[p], exporting[p])

LEMMA EmptyFacts == <<>> \in Export!Workbook /\ <<>> \in Snapshots /\ DOMAIN <<>> = {}
  <1>1. DOMAIN <<>> = {}
    OBVIOUS
  <1>2. \A S : <<>> \in [{} -> S]
    OBVIOUS
  <1>3. {} \in SUBSET Drafts
    OBVIOUS
  <1> QED
    BY <1>1, <1>2, <1>3 DEF Export!Workbook, Snapshots

LEMMA NoExportJob ==
  LET j == Export!NoJob
  IN  /\ IsExportJob(j)
      /\ j.drafts = {} /\ j.snapshot = <<>> /\ j.rows = <<>> /\ j.overwrite = FALSE
  <1>1. "" \in Export!Answers
    BY DEF Export!Answers
  <1>2. FALSE \in BOOLEAN /\ {} \in SUBSET Drafts
    OBVIOUS
  <1> QED
    BY <1>1, <1>2, EmptyFacts DEF IsExportJob, Export!NoJob

LEMMA ExportInit == Export!Init => ExportInv
  <1> SUFFICES ASSUME Export!Init
               PROVE  ExportInv
    OBVIOUS
  <1> DEFINE none == Export!NoJob
  <1>1. IsExportJob(none) /\ DOMAIN none.snapshot = {} /\ DOMAIN none.rows = {} /\ ~none.overwrite
    BY Zenon, NoExportJob, EmptyFacts
  <1>2. exporting = [p \in Procs |-> none]
    BY DEF Export!Init
  <1> HIDE DEF none
  <1>3. draft \in [Drafts -> Export!DraftRow]
    BY DEF Export!Init, Export!DraftRow
  <1>4. \A d \in Drafts : draft[d].sender = NoProc
    BY DEF Export!Init
  <1>5. /\ writer = NoProc /\ pc = [p \in Procs |-> "idle"] /\ file = NoFile
        /\ task \in [Tasks -> Export!TaskStatus]
    BY DEF Export!Init, Export!TaskStatus
  <1>6. ExportTables
    BY <1>2, <1>3, <1>5 DEF ExportTables, ExportLabels, Unrecorded
  <1>7. ASSUME NEW p \in Procs PROVE ExportJobInv(p, pc[p], exporting[p])
    BY <1>1, <1>2, <1>4, <1>5, NoProcAssumption DEF ExportJobInv, Recorded, BatchLabels
  <1> QED
    BY <1>5, <1>6, <1>7 DEF ExportInv, Export!SentIsTimed

(* A file that a step may leave at the destination.                        *)
FileKept ==
    \/ file' = file
    \/ file' = NoFile
    \/ /\ file' \in Export!Workbook
       /\ \A d \in DOMAIN file' : file'[d].status = "MANUALLY_SENT" => file'[d].timed

(* A process goes on, and no draft changes.                                *)
LEMMA ExportMove ==
  ASSUME ExportInv, NEW p \in Procs, NEW label \in ExportLabels, NEW j,
         Export!Set(p, label, j), ExportJobInv(p, label, j),
         UNCHANGED <<writer, draft, task>>, FileKept
  PROVE  ExportInv'
  <1>1. pc' = [pc EXCEPT ![p] = label] /\ exporting' = [exporting EXCEPT ![p] = j]
    BY DEF Export!Set, Export!Goto
  <1>2. /\ pc \in [Procs -> ExportLabels] /\ DOMAIN exporting = Procs
        /\ exporting = [q \in Procs |-> exporting[q]]
    BY DEF ExportInv, ExportTables
  <1>3. /\ pc'[p] = label /\ exporting'[p] = j
        /\ \A q \in Procs \ {p} : pc'[q] = pc[q] /\ exporting'[q] = exporting[q]
        /\ pc' \in [Procs -> ExportLabels] /\ DOMAIN exporting' = Procs
        /\ exporting' = [q \in Procs |-> exporting'[q]]
    BY <1>1, <1>2
  <1>4. ExportTables'
    BY <1>3 DEF ExportInv, ExportTables, FileKept
  <1>5. Export!SentIsTimed'
    BY DEF ExportInv, Export!SentIsTimed, FileKept
  <1>6. ASSUME NEW q \in Procs
        PROVE  ExportJobInv(q, pc[q], exporting[q])'
    <2>1. CASE q = p
      BY <1>3, <2>1 DEF ExportJobInv, Export!Sent
    <2>2. CASE q # p
      <3>1. ExportJobInv(q, pc[q], exporting[q])
        BY DEF ExportInv
      <3> QED
        BY <1>3, <2>2, <3>1 DEF ExportJobInv, Export!Sent
    <2> QED
      BY <2>1, <2>2
  <1> QED
    BY <1>4, <1>5, <1>6 DEF ExportInv

LEMMA JobFields ==
  ASSUME NEW j, IsExportJob(j)
  PROVE  /\ j.drafts \in SUBSET Drafts /\ j.snapshot \in Snapshots
         /\ j.rows \in Export!Workbook /\ j.answer \in Export!Answers
  BY DEF IsExportJob

(* What a process holds, with some of it replaced.                         *)
LEMMA AnsweredJob ==
  ASSUME NEW j, IsExportJob(j), NEW ds \in SUBSET Drafts, NEW answer \in Export!Answers
  PROVE  LET k == [j EXCEPT !.drafts = ds, !.answer = answer]
         IN  /\ IsExportJob(k) /\ k.snapshot = j.snapshot /\ k.rows = j.rows
             /\ k.drafts = ds /\ k.overwrite = j.overwrite
  BY DEF IsExportJob

LEMMA BatchJob ==
  ASSUME NEW j, IsExportJob(j), NEW ds \in SUBSET Drafts, NEW left
  PROVE  LET k == [j EXCEPT !.drafts = ds, !.left = left]
         IN  /\ IsExportJob(k) /\ k.snapshot = j.snapshot /\ k.rows = j.rows
             /\ k.drafts = ds /\ k.overwrite = j.overwrite
  BY DEF IsExportJob

LEMMA OverwriteJob ==
  ASSUME NEW j, IsExportJob(j), NEW overwrite \in BOOLEAN
  PROVE  LET k == [j EXCEPT !.overwrite = overwrite]
         IN  /\ IsExportJob(k) /\ k.snapshot = j.snapshot /\ k.rows = j.rows
             /\ k.drafts = j.drafts
  BY DEF IsExportJob

LEMMA LeftJob ==
  ASSUME NEW j, IsExportJob(j), NEW left
  PROVE  LET k == [j EXCEPT !.left = left]
         IN  /\ IsExportJob(k) /\ k.snapshot = j.snapshot /\ k.rows = j.rows
             /\ k.drafts = j.drafts /\ k.overwrite = j.overwrite
  BY DEF IsExportJob

LEMMA LoadedJob ==
  ASSUME NEW j, IsExportJob(j), NEW shown \in Snapshots, NEW leading
  PROVE  LET k == [j EXCEPT !.snapshot = shown, !.leading = leading]
         IN  /\ IsExportJob(k) /\ k.snapshot = shown /\ k.rows = j.rows
             /\ k.drafts = j.drafts /\ k.overwrite = j.overwrite
  BY DEF IsExportJob

LEMMA RowsJob ==
  ASSUME NEW j, IsExportJob(j), NEW shown \in Snapshots, NEW leading, NEW rows \in Export!Workbook
  PROVE  LET k == [j EXCEPT !.rows = rows, !.snapshot = shown, !.leading = leading]
         IN  /\ IsExportJob(k) /\ k.snapshot = shown /\ k.rows = rows
             /\ k.drafts = j.drafts /\ k.overwrite = j.overwrite
  BY DEF IsExportJob

(* What a process holds that has answered.                                 *)
LEMMA FinalJob ==
  ASSUME NEW ds \in SUBSET Drafts, NEW answer \in Export!Answers
  PROVE  LET j == [Export!NoJob EXCEPT !.drafts = ds, !.answer = answer]
         IN  /\ IsExportJob(j) /\ DOMAIN j.snapshot = {} /\ DOMAIN j.rows = {}
             /\ j.drafts = ds /\ j.answer = answer
  <1> DEFINE none == Export!NoJob
             j == [none EXCEPT !.drafts = ds, !.answer = answer]
  <1>1. IsExportJob(none) /\ none.snapshot = <<>> /\ none.rows = <<>>
    BY NoExportJob
  <1> HIDE DEF none
  <1>2. IsExportJob(j) /\ j.snapshot = none.snapshot /\ j.rows = none.rows
    BY <1>1 DEF IsExportJob
  <1>3. j.drafts = ds /\ j.answer = answer
    BY <1>1 DEF IsExportJob
  <1> HIDE DEF j
  <1>4. DOMAIN j.snapshot = {} /\ DOMAIN j.rows = {}
    BY Zenon, <1>1, <1>2, EmptyFacts
  <1>5. IsExportJob(j) /\ DOMAIN j.snapshot = {} /\ DOMAIN j.rows = {}
        /\ j.drafts = ds /\ j.answer = answer
    BY <1>2, <1>3, <1>4
  <1> QED
    BY Zenon, <1>5 DEF j, none

(* A process answers.                                                      *)
LEMMA AnswerInv ==
  ASSUME ExportInv, NEW p \in Procs, NEW answer \in Export!Answers, Export!Answer(p, answer),
         UNCHANGED <<writer, draft, task>>, FileKept
  PROVE  ExportInv'
  <1> DEFINE ds == exporting[p].drafts
             j == [Export!NoJob EXCEPT !.drafts = ds, !.answer = answer]
  <1>1. Export!Set(p, "done", j)
    BY Zenon DEF Export!Answer
  <1>2. ds \in SUBSET Drafts
    BY JobFields DEF ExportInv, ExportJobInv
  <1>3. IsExportJob(j) /\ DOMAIN j.snapshot = {} /\ DOMAIN j.rows = {}
    BY Zenon, <1>2, FinalJob
  <1> HIDE DEF j
  <1>4. "done" \in ExportLabels /\ "done" \notin Unrecorded \union Recorded \union BatchLabels
    BY DEF ExportLabels, Unrecorded, Recorded, BatchLabels
  <1>5. ExportJobInv(p, "done", j)
    BY <1>3, <1>4 DEF ExportJobInv
  <1> QED
    BY <1>1, <1>4, <1>5, ExportMove

(* What the snapshot shows is what is there.                               *)
LEMMA SnapshotFacts ==
  ASSUME ExportInv, NEW j, IsExportJob(j)
  PROVE  /\ IsExportJob(Export!Snapshot(j))
         /\ \A d \in DOMAIN Export!Snapshot(j).snapshot :
                Export!Snapshot(j).snapshot[d] = "MANUALLY_SENT" => Export!Sent(d)
         /\ Export!Snapshot(j).rows = j.rows /\ Export!Snapshot(j).drafts = j.drafts
         /\ Export!Snapshot(j).overwrite = j.overwrite
  <1> DEFINE ds == Export!DraftsOf(Tasks)
             shown == Export!OutreachStatus
  <1>1. ds \in SUBSET Drafts
    BY DEF Export!DraftsOf
  <1>2. shown = [d \in ds |-> IF Export!Sent(d) THEN "MANUALLY_SENT"
                             ELSE IF draft[d].reserved THEN "AUTOMATIC" ELSE draft[d].status]
    BY DEF Export!OutreachStatus
  <1>3. \A d \in Drafts : draft[d].status \in {"DRAFT", "APPROVED", "REJECTED"}
    BY DEF ExportInv, ExportTables, Export!DraftRow
  <1> HIDE DEF ds, shown
  <1>4. shown \in [ds -> OutreachStatuses]
    <2>1. ASSUME NEW d \in ds
          PROVE  (IF Export!Sent(d) THEN "MANUALLY_SENT"
                  ELSE IF draft[d].reserved THEN "AUTOMATIC" ELSE draft[d].status) \in OutreachStatuses
      <3>1. draft[d].status \in {"DRAFT", "APPROVED", "REJECTED"}
        BY <1>1, <1>3
      <3> QED
        BY Zenon, <3>1 DEF OutreachStatuses
    <2> QED
      BY Zenon, <1>2, <2>1
  <1>5. shown \in Snapshots
    BY <1>1, <1>4 DEF Snapshots
  <1>6. \A d \in DOMAIN shown : shown[d] = "MANUALLY_SENT" => Export!Sent(d)
    <2>1. DOMAIN shown = ds
      BY <1>2
    <2>2. ASSUME NEW d \in ds, ~Export!Sent(d), shown[d] = "MANUALLY_SENT" PROVE FALSE
      <3>1. "AUTOMATIC" # "MANUALLY_SENT" /\ draft[d].status # "MANUALLY_SENT"
        BY <1>1, <1>3
      <3>2. shown[d] = IF draft[d].reserved THEN "AUTOMATIC" ELSE draft[d].status
        BY Zenon, <1>2, <2>2
      <3> QED
        BY Zenon, <2>2, <3>1, <3>2
    <2> QED
      BY Zenon, <2>1, <2>2
  <1>7. PICK leading : Export!Snapshot(j) = [j EXCEPT !.snapshot = shown, !.leading = leading]
    <2> DEFINE leading == UNION {Export!SelectDraft(LeadOf[t]) : t \in Tasks}
    <2>1. Export!Snapshot(j) = [j EXCEPT !.snapshot = shown, !.leading = leading]
      BY DEF Export!Snapshot, shown
    <2> HIDE DEF leading
    <2> QED
      BY Zenon, <2>1
  <1>8. LET k == [j EXCEPT !.snapshot = shown, !.leading = leading]
        IN  /\ IsExportJob(k) /\ k.snapshot = shown /\ k.rows = j.rows
            /\ k.drafts = j.drafts /\ k.overwrite = j.overwrite
    BY ZenonT(40), <1>5, LoadedJob
  <1> QED
    BY Zenon, <1>6, <1>7, <1>8

(* The rows of a workbook give the time of whatever they show as sent.     *)
LEMMA RowsFacts ==
  ASSUME ExportInv, NEW p \in Procs, NEW ds \in SUBSET Drafts, ds \subseteq DOMAIN exporting[p].snapshot
  PROVE  LET rows == Export!RowsOf(exporting[p], ds)
         IN  /\ rows \in Export!Workbook
             /\ \A d \in DOMAIN rows : rows[d].status = "MANUALLY_SENT" => rows[d].timed
  <1> DEFINE shown == exporting[p].snapshot
             rows == Export!RowsOf(exporting[p], ds)
  <1>1. /\ shown \in Snapshots
        /\ \A d \in DOMAIN shown : shown[d] = "MANUALLY_SENT" => Export!Sent(d)
    BY JobFields DEF ExportInv, ExportJobInv
  <1>2. rows = [d \in ds |-> [status |-> shown[d], timed |-> Export!Sent(d)]]
    BY DEF Export!RowsOf
  <1> HIDE DEF rows, shown
  <1>3. \A d \in ds : shown[d] \in OutreachStatuses
    BY <1>1 DEF Snapshots, shown
  <1>4. \A d \in ds : Export!Sent(d) \in BOOLEAN
    BY DEF Export!Sent
  <1>5. rows \in [ds -> Export!Shown]
    BY <1>2, <1>3, <1>4 DEF Export!Shown, OutreachStatuses
  <1>6. rows \in Export!Workbook
    BY <1>5 DEF Export!Workbook
  <1>7. \A d \in DOMAIN rows : rows[d].status = "MANUALLY_SENT" => rows[d].timed
    BY <1>1, <1>2 DEF shown
  <1> QED
    BY <1>6, <1>7 DEF rows

LEMMA HeldJob ==
  ASSUME ExportInv, NEW p \in Procs
  PROVE  /\ ExportJobInv(p, pc[p], exporting[p]) /\ IsExportJob(exporting[p])
         /\ exporting[p].drafts \in SUBSET Drafts
         /\ DOMAIN exporting = Procs /\ pc \in [Procs -> ExportLabels]
  <1>1. ExportJobInv(p, pc[p], exporting[p]) /\ IsExportJob(exporting[p])
    BY DEF ExportInv, ExportJobInv
  <1> QED
    BY <1>1, JobFields DEF ExportInv, ExportTables

(* A process goes on from one label to another with what it holds, which   *)
(* shows nothing that is not so.                                           *)
LEMMA ExportGoes ==
  ASSUME ExportInv, NEW p \in Procs, NEW label \in ExportLabels, NEW j,
         Export!Set(p, label, j), IsExportJob(j),
         \A d \in DOMAIN j.snapshot : j.snapshot[d] = "MANUALLY_SENT" => Export!Sent(d),
         \A d \in DOMAIN j.rows : j.rows[d].status = "MANUALLY_SENT" => j.rows[d].timed,
         label \in Unrecorded => pc[p] \in Unrecorded,
         label \in Recorded => pc[p] \in Recorded /\ j.drafts = exporting[p].drafts,
         label \in BatchLabels => ~j.overwrite,
         UNCHANGED <<writer, draft, task>>, FileKept
  PROVE  ExportInv'
  <1>1. ExportJobInv(p, label, j)
    BY HeldJob DEF ExportJobInv
  <1> QED
    BY <1>1, ExportMove

LEMMA StartExportInv ==
  ASSUME ExportInv, NEW p \in Procs, Export!ExportStart(p)
  PROVE  ExportInv'
  <1>1. PICK overwrite \in BOOLEAN : Export!Set(p, "load", [Export!NoJob EXCEPT !.overwrite = overwrite])
    BY DEF Export!ExportStart
  <1> DEFINE none == Export!NoJob
             j == [none EXCEPT !.overwrite = overwrite]
  <1>2. IsExportJob(none) /\ DOMAIN none.snapshot = {} /\ DOMAIN none.rows = {}
    BY Zenon, NoExportJob, EmptyFacts
  <1>3. Export!Set(p, "load", j)
    BY <1>1
  <1> HIDE DEF none
  <1>4. IsExportJob(j) /\ j.snapshot = none.snapshot /\ j.rows = none.rows
    BY <1>2 DEF IsExportJob
  <1> HIDE DEF j
  <1>5. "load" \in ExportLabels /\ "load" \in Unrecorded /\ "load" \notin Recorded \union BatchLabels
        /\ pc[p] \in Unrecorded
    BY DEF Export!ExportStart, ExportLabels, Unrecorded, Recorded, BatchLabels
  <1>6. UNCHANGED <<writer, draft, task>> /\ FileKept
    BY DEF Export!ExportStart, Export!crm, FileKept
  <1> QED
    BY <1>2, <1>3, <1>4, <1>5, <1>6, ExportGoes

LEMMA StartBatchInv ==
  ASSUME ExportInv, NEW p \in Procs, Export!BatchStart(p)
  PROVE  ExportInv'
  <1>1. PICK ds \in Batches : Export!Set(p, "preview", [Export!NoJob EXCEPT !.drafts = ds, !.left = ds])
    BY DEF Export!BatchStart
  <1> DEFINE none == Export!NoJob
             j == [none EXCEPT !.drafts = ds, !.left = ds]
  <1>2. IsExportJob(none) /\ DOMAIN none.snapshot = {} /\ DOMAIN none.rows = {} /\ none.overwrite = FALSE
    BY Zenon, NoExportJob, EmptyFacts
  <1>3. Export!Set(p, "preview", j) /\ ds \in SUBSET Drafts
    BY <1>1, DraftAssumption
  <1> HIDE DEF none
  <1>4. IsExportJob(j) /\ j.snapshot = none.snapshot /\ j.rows = none.rows /\ j.overwrite = none.overwrite
    BY <1>2, <1>3 DEF IsExportJob
  <1> HIDE DEF j
  <1>5. "preview" \in ExportLabels /\ "preview" \in Unrecorded /\ "preview" \notin Recorded
        /\ pc[p] \in Unrecorded
    BY DEF Export!BatchStart, ExportLabels, Unrecorded, Recorded, BatchLabels
  <1>6. UNCHANGED <<writer, draft, task>> /\ FileKept
    BY DEF Export!BatchStart, Export!crm, FileKept
  <1>7. ~j.overwrite
    BY <1>2, <1>4
  <1> QED
    BY <1>2, <1>3, <1>4, <1>5, <1>6, <1>7, ExportGoes

(* A load of the tables by a process that goes on to build its rows.       *)
LEMMA LoadInv ==
  ASSUME ExportInv, NEW p \in Procs, NEW label \in ExportLabels,
         Export!Set(p, label, Export!Snapshot(exporting[p])),
         label \in Unrecorded => pc[p] \in Unrecorded,
         label \in Recorded => pc[p] \in Recorded,
         label \in BatchLabels => pc[p] \in BatchLabels,
         UNCHANGED <<writer, draft, task>>, FileKept
  PROVE  ExportInv'
  <1> DEFINE k == exporting[p]
             j == Export!Snapshot(k)
  <1>1. ExportJobInv(p, pc[p], k) /\ IsExportJob(k)
    BY HeldJob
  <1> HIDE DEF k
  <1>2. /\ IsExportJob(j)
        /\ \A d \in DOMAIN j.snapshot : j.snapshot[d] = "MANUALLY_SENT" => Export!Sent(d)
        /\ j.rows = k.rows /\ j.drafts = k.drafts /\ j.overwrite = k.overwrite
    BY <1>1, SnapshotFacts
  <1> HIDE DEF j
  <1>3. Export!Set(p, label, j)
    BY Zenon DEF j, k
  <1>4. j.drafts = exporting[p].drafts
    BY <1>2 DEF k
  <1> QED
    BY <1>1, <1>2, <1>3, <1>4, ExportGoes DEF ExportJobInv

LEMMA ExportLoadInv ==
  ASSUME ExportInv, NEW p \in Procs, Export!ExportLoad(p)
  PROVE  ExportInv'
  <1>1. UNCHANGED <<writer, draft, task>> /\ FileKept
    BY DEF Export!ExportLoad, Export!crm, FileKept
  <1>2. CASE Export!Answer(p, "failed")
    BY <1>1, <1>2, AnswerInv DEF Export!Answers
  <1>3. CASE Export!Set(p, "rows", Export!Snapshot(exporting[p]))
    <2>1. "rows" \in ExportLabels /\ "rows" \notin Recorded \union BatchLabels /\ pc[p] \in Unrecorded
      BY DEF Export!ExportLoad, ExportLabels, Unrecorded, Recorded, BatchLabels
    <2> QED
      BY <1>1, <1>3, <2>1, LoadInv
  <1> QED
    BY Zenon, <1>2, <1>3 DEF Export!ExportLoad

(* The rows of some drafts the snapshot has are built, and it is dropped.  *)
LEMMA BuildInv ==
  ASSUME ExportInv, NEW p \in Procs, NEW label \in ExportLabels,
         NEW ds \in SUBSET Drafts, ds \subseteq DOMAIN exporting[p].snapshot,
         Export!Set(p, label, [exporting[p] EXCEPT !.rows = Export!RowsOf(exporting[p], ds),
                                                   !.snapshot = <<>>, !.leading = {}]),
         label \in Unrecorded => pc[p] \in Unrecorded,
         label \in Recorded => pc[p] \in Recorded,
         label \in BatchLabels => pc[p] \in BatchLabels,
         UNCHANGED <<writer, draft, task>>, FileKept
  PROVE  ExportInv'
  <1> DEFINE k == exporting[p]
             rows == Export!RowsOf(exporting[p], ds)
             j == [k EXCEPT !.rows = rows, !.snapshot = <<>>, !.leading = {}]
  <1>1. ExportJobInv(p, pc[p], k) /\ IsExportJob(k)
    BY HeldJob
  <1>2. /\ rows \in Export!Workbook
        /\ \A d \in DOMAIN rows : rows[d].status = "MANUALLY_SENT" => rows[d].timed
    BY RowsFacts
  <1>3. Export!Set(p, label, j)
    OBVIOUS
  <1> HIDE DEF k, rows
  <1>4. /\ IsExportJob(j) /\ j.snapshot = <<>> /\ j.rows = rows
        /\ j.drafts = k.drafts /\ j.overwrite = k.overwrite
    BY <1>1, <1>2, EmptyFacts DEF IsExportJob
  <1> HIDE DEF j
  <1>5. DOMAIN j.snapshot = {} /\ j.drafts = exporting[p].drafts
    BY Zenon, <1>4, EmptyFacts DEF k
  <1>6. \A d \in DOMAIN j.rows : j.rows[d].status = "MANUALLY_SENT" => j.rows[d].timed
    BY <1>2, <1>4
  <1> QED
    BY <1>1, <1>3, <1>4, <1>5, <1>6, ExportGoes DEF ExportJobInv

LEMMA ExportRowsInv ==
  ASSUME ExportInv, NEW p \in Procs, Export!ExportRows(p)
  PROVE  ExportInv'
  <1>1. UNCHANGED <<writer, draft, task>> /\ FileKept
    BY DEF Export!ExportRows, Export!crm, FileKept
  <1>2. CASE Export!Answer(p, "failed")
    BY <1>1, <1>2, AnswerInv DEF Export!Answers
  <1>3. CASE /\ Export!Loads(exporting[p])
             /\ Export!Set(p, "save", [exporting[p] EXCEPT
                    !.rows = Export!RowsOf(exporting[p], Export!DraftsOf(Tasks)),
                    !.snapshot = <<>>, !.leading = {}])
    <2>1. "save" \in ExportLabels /\ "save" \notin Recorded \union BatchLabels /\ pc[p] \in Unrecorded
      BY DEF Export!ExportRows, ExportLabels, Unrecorded, Recorded, BatchLabels
    <2>2. Export!DraftsOf(Tasks) \in SUBSET Drafts
          /\ Export!DraftsOf(Tasks) \subseteq DOMAIN exporting[p].snapshot
      BY <1>3 DEF Export!DraftsOf, Export!Loads
    <2> QED
      BY <1>1, <1>3, <2>1, <2>2, BuildInv
  <1> QED
    BY Zenon, <1>2, <1>3 DEF Export!ExportRows

(* What a process puts in place.                                           *)
LEMMA SavedFile ==
  ASSUME ExportInv, NEW p \in Procs, Export!Save(p)
  PROVE  FileKept
  <1>1. ExportJobInv(p, pc[p], exporting[p]) /\ exporting[p].rows \in Export!Workbook
    BY HeldJob, JobFields
  <1> QED
    BY <1>1 DEF Export!Save, FileKept, ExportJobInv

LEMMA ExportSaveInv ==
  ASSUME ExportInv, NEW p \in Procs, Export!ExportSave(p)
  PROVE  ExportInv'
  <1>1. UNCHANGED <<writer, draft, task>>
    BY DEF Export!ExportSave, Export!crm
  <1>2. PICK answer \in {"written", "failed"} : Export!Answer(p, answer)
    BY Zenon DEF Export!ExportSave
  <1>3. FileKept
    BY SavedFile DEF Export!ExportSave, FileKept
  <1>4. answer \in Export!Answers
    BY DEF Export!Answers
  <1> QED
    BY <1>1, <1>2, <1>3, <1>4, AnswerInv

(* The drafts gone through one after the other.                            *)
LEMMA CheckInv ==
  ASSUME ExportInv, NEW p \in Procs, NEW here \in Unrecorded \intersect BatchLabels,
         NEW next \in Unrecorded \intersect BatchLabels, Export!Check(p, here, next)
  PROVE  ExportInv'
  <1> DEFINE k == exporting[p]
             d == Export!Min(k.left)
  <1>1. UNCHANGED <<writer, draft, task>> /\ FileKept /\ pc[p] = here
    BY DEF Export!Check, Export!crm, FileKept
  <1>2. ExportJobInv(p, pc[p], k) /\ IsExportJob(k)
    BY HeldJob
  <1>3. /\ here \in ExportLabels /\ here \notin Recorded
        /\ next \in ExportLabels /\ next \notin Recorded
    BY DEF ExportLabels, Unrecorded, Recorded
  <1>4. ASSUME NEW label \in {here, next}, NEW left, Export!Set(p, label, [k EXCEPT !.left = left])
        PROVE  ExportInv'
    <2> DEFINE j == [k EXCEPT !.left = left]
    <2>1. Export!Set(p, label, j)
      BY <1>4
    <2> HIDE DEF k
    <2>2. /\ IsExportJob(j) /\ j.snapshot = k.snapshot /\ j.rows = k.rows
          /\ j.overwrite = k.overwrite
      BY <1>2 DEF IsExportJob
    <2> HIDE DEF j
    <2>3. label \in ExportLabels /\ label \in Unrecorded /\ label \notin Recorded /\ pc[p] \in Unrecorded
      BY <1>1, <1>3
    <2>4. ~j.overwrite
      BY <1>1, <1>2, <2>2 DEF ExportJobInv
    <2>5. /\ \A e \in DOMAIN j.snapshot : j.snapshot[e] = "MANUALLY_SENT" => Export!Sent(e)
          /\ \A e \in DOMAIN j.rows : j.rows[e].status = "MANUALLY_SENT" => j.rows[e].timed
      BY <1>2, <2>2 DEF ExportJobInv
    <2> QED
      BY <1>1, <2>1, <2>2, <2>3, <2>4, <2>5, ExportGoes
  <1>5. CASE Export!Set(p, next, [k EXCEPT !.left = k.drafts])
    BY <1>4, <1>5
  <1>6. CASE Export!Set(p, here, [k EXCEPT !.left = @ \ {d}])
    <2> DEFINE left == k.left \ {d}
    <2>1. Export!Set(p, here, [k EXCEPT !.left = left])
      BY <1>6
    <2> HIDE DEF left, k, d
    <2> QED
      BY <2>1, <1>4
  <1>7. CASE Export!Answer(p, Export!Reason(d))
    <2>1. Export!Reason(d) \in Export!Answers
      BY DEF Export!Reason, Export!TakenBy, Export!Answers
    <2> QED
      BY <1>1, <1>7, <2>1, AnswerInv
  <1> QED
    BY Zenon, <1>5, <1>6, <1>7 DEF Export!Check

LEMMA PreviewInv ==
  ASSUME ExportInv, NEW p \in Procs, Export!Preview(p) \/ Export!RecordCheck(p)
  PROVE  ExportInv'
  <1>1. {"preview", "trial_load", "record", "claim"} \subseteq Unrecorded \intersect BatchLabels
    BY DEF Unrecorded, Recorded, BatchLabels
  <1> QED
    BY <1>1, CheckInv DEF Export!Preview, Export!RecordCheck

LEMMA TrialLoadInv ==
  ASSUME ExportInv, NEW p \in Procs, Export!TrialLoad(p)
  PROVE  ExportInv'
  <1>1. UNCHANGED <<writer, draft, task>> /\ FileKept
    BY DEF Export!TrialLoad, Export!crm, FileKept
  <1>2. ASSUME NEW answer \in {"CONFIRMATION_REQUIRED", "EXPORT_FAILED_BEFORE_MUTATION"},
               Export!Answer(p, answer)
        PROVE  ExportInv'
    BY <1>1, <1>2, AnswerInv DEF Export!Answers
  <1>3. CASE Export!Set(p, "trial_rows", Export!Snapshot(exporting[p]))
    <2>1. /\ "trial_rows" \in ExportLabels /\ "trial_rows" \notin Recorded
          /\ pc[p] \in Unrecorded /\ pc[p] \in BatchLabels
      BY DEF Export!TrialLoad, ExportLabels, Unrecorded, Recorded, BatchLabels
    <2> QED
      BY <1>1, <1>3, <2>1, LoadInv
  <1> QED
    BY Zenon, <1>2, <1>3 DEF Export!TrialLoad

LEMMA TrialRowsInv ==
  ASSUME ExportInv, NEW p \in Procs, Export!TrialRows(p)
  PROVE  ExportInv'
  <1> DEFINE k == exporting[p]
             j == [k EXCEPT !.snapshot = <<>>, !.leading = {}]
  <1>1. UNCHANGED <<writer, draft, task>> /\ FileKept /\ pc[p] = "trial_rows"
    BY DEF Export!TrialRows, Export!crm, FileKept
  <1>2. CASE Export!Answer(p, "EXPORT_FAILED_BEFORE_MUTATION")
    BY <1>1, <1>2, AnswerInv DEF Export!Answers
  <1>3. CASE Export!Set(p, "record", j)
    <2>1. ExportJobInv(p, pc[p], k) /\ IsExportJob(k)
      BY HeldJob
    <2> HIDE DEF k
    <2>2. IsExportJob(j) /\ j.snapshot = <<>> /\ j.rows = k.rows /\ j.overwrite = k.overwrite
      BY <2>1, EmptyFacts DEF IsExportJob
    <2> HIDE DEF j
    <2>3. DOMAIN j.snapshot = {}
      BY Zenon, <2>2, EmptyFacts
    <2>4. /\ "record" \in ExportLabels /\ "record" \notin Recorded
          /\ pc[p] \in Unrecorded /\ pc[p] \in BatchLabels
      BY <1>1 DEF ExportLabels, Unrecorded, Recorded, BatchLabels
    <2> QED
      BY <1>1, <1>3, <2>1, <2>2, <2>3, <2>4, ExportGoes DEF ExportJobInv
  <1> QED
    BY Zenon, <1>2, <1>3 DEF Export!TrialRows

LEMMA FinalFailedInv ==
  ASSUME ExportInv, NEW p \in Procs, Export!FinalFailed(p),
         UNCHANGED <<writer, draft, task>>, FileKept
  PROVE  ExportInv'
  BY AnswerInv DEF Export!FinalFailed, Export!Answers

LEMMA FinalLoadInv ==
  ASSUME ExportInv, NEW p \in Procs, Export!FinalLoad(p)
  PROVE  ExportInv'
  <1>1. UNCHANGED <<writer, draft, task>> /\ FileKept
    BY DEF Export!FinalLoad, Export!crm, FileKept
  <1>2. CASE Export!FinalFailed(p)
    BY <1>1, <1>2, FinalFailedInv
  <1>3. CASE Export!Set(p, "final_rows", Export!Snapshot(exporting[p]))
    <2>1. /\ "final_rows" \in ExportLabels /\ "final_rows" \notin Unrecorded
          /\ pc[p] \in Recorded /\ pc[p] \in BatchLabels
      BY DEF Export!FinalLoad, ExportLabels, Unrecorded, Recorded, BatchLabels
    <2> QED
      BY <1>1, <1>3, <2>1, LoadInv
  <1> QED
    BY Zenon, <1>2, <1>3 DEF Export!FinalLoad

LEMMA FinalRowsInv ==
  ASSUME ExportInv, NEW p \in Procs, Export!FinalRows(p)
  PROVE  ExportInv'
  <1> DEFINE k == exporting[p]
  <1>1. UNCHANGED <<writer, draft, task>> /\ FileKept
    BY DEF Export!FinalRows, Export!crm, FileKept
  <1>2. CASE Export!FinalFailed(p)
    BY <1>1, <1>2, FinalFailedInv
  <1>3. CASE /\ Export!Loads(k) /\ Export!Selectable(k)
             /\ Export!Set(p, "final_save", [k EXCEPT !.rows = Export!RowsOf(k, k.drafts),
                                                      !.snapshot = <<>>, !.leading = {}])
    <2>1. /\ "final_save" \in ExportLabels /\ "final_save" \notin Unrecorded
          /\ pc[p] \in Recorded /\ pc[p] \in BatchLabels
      BY DEF Export!FinalRows, ExportLabels, Unrecorded, Recorded, BatchLabels
    <2>2. k.drafts \in SUBSET Drafts /\ k.drafts \subseteq DOMAIN k.snapshot
      BY <1>3, HeldJob DEF Export!Selectable, Export!Loads
    <2> QED
      BY <1>1, <1>3, <2>1, <2>2, BuildInv
  <1> QED
    BY Zenon, <1>2, <1>3 DEF Export!FinalRows

LEMMA FinalSaveInv ==
  ASSUME ExportInv, NEW p \in Procs, Export!FinalSave(p)
  PROVE  ExportInv'
  <1>1. UNCHANGED <<writer, draft, task>>
    BY DEF Export!FinalSave, Export!crm
  <1>2. FileKept
    BY SavedFile DEF Export!FinalSave, FileKept
  <1>3. CASE Export!FinalFailed(p)
    BY <1>1, <1>2, <1>3, FinalFailedInv
  <1>4. CASE Export!Set(p, "verify", exporting[p])
    <2>1. /\ "verify" \in ExportLabels /\ "verify" \notin Unrecorded
          /\ pc[p] \in Recorded /\ pc[p] \in BatchLabels
      BY DEF Export!FinalSave, ExportLabels, Unrecorded, Recorded, BatchLabels
    <2>2. ExportJobInv(p, pc[p], exporting[p]) /\ IsExportJob(exporting[p])
      BY HeldJob
    <2> QED
      BY <1>1, <1>2, <1>4, <2>1, <2>2, ExportGoes DEF ExportJobInv
  <1> QED
    BY Zenon, <1>3, <1>4 DEF Export!FinalSave

LEMMA VerifyInv ==
  ASSUME ExportInv, NEW p \in Procs, Export!Verify(p)
  PROVE  ExportInv'
  <1>1. UNCHANGED <<writer, draft, task>> /\ FileKept
    BY DEF Export!Verify, Export!crm, FileKept
  <1>2. CASE Export!FinalFailed(p)
    BY <1>1, <1>2, FinalFailedInv
  <1>3. CASE Export!Answer(p, "COMPLETE")
    BY <1>1, <1>3, AnswerInv DEF Export!Answers
  <1> QED
    BY Zenon, <1>2, <1>3 DEF Export!Verify

LEMMA ExportCrashInv ==
  ASSUME ExportInv, NEW p \in Procs, Export!Crash(p)
  PROVE  ExportInv'
  <1> DEFINE none == Export!NoJob
  <1>1. IsExportJob(none) /\ DOMAIN none.snapshot = {} /\ DOMAIN none.rows = {}
    BY Zenon, NoExportJob, EmptyFacts
  <1>2. Export!Set(p, "dead", none) /\ UNCHANGED <<writer, draft, task>> /\ FileKept
    BY DEF Export!Crash, Export!crm, FileKept
  <1> HIDE DEF none
  <1>3. "dead" \in ExportLabels /\ "dead" \notin Unrecorded \union Recorded \union BatchLabels
    BY DEF ExportLabels, Unrecorded, Recorded, BatchLabels
  <1> QED
    BY <1>1, <1>2, <1>3, ExportGoes

(* The batch's records and their commit: what was nobody's is the          *)
(* process's, and no one else's record changes.                            *)
LEMMA ClaimInv ==
  ASSUME ExportInv, NEW p \in Procs, Export!Claim(p)
  PROVE  ExportInv'
  <1> DEFINE k == exporting[p]
             ds == k.drafts
  <1>1. FileKept /\ UNCHANGED <<task, file>> /\ pc[p] = "claim"
    BY DEF Export!Claim, FileKept
  <1>2. ASSUME NEW answer \in {"ALREADY_MANUALLY_SENT", "DELIVERY_ATTEMPT_EXISTS", "PERSISTENCE_FAILURE"},
               Export!Answer(p, answer), UNCHANGED <<writer, draft>>
        PROVE  ExportInv'
    BY <1>1, <1>2, AnswerInv DEF Export!Answers
  <1>3. ASSUME /\ Export!WriteAtOnce /\ {d \in ds : Export!Taken(d)} = {}
               /\ draft' = [d \in Drafts |-> IF d \in ds THEN [draft[d] EXCEPT !.sender = p] ELSE draft[d]]
               /\ Export!Set(p, "final_load", k)
        PROVE  ExportInv'
    <2>1. /\ pc' = [pc EXCEPT ![p] = "final_load"] /\ exporting' = [exporting EXCEPT ![p] = k]
      BY <1>3 DEF Export!Set, Export!Goto
    <2>2. /\ pc \in [Procs -> ExportLabels] /\ DOMAIN exporting = Procs
          /\ exporting = [q \in Procs |-> exporting[q]]
          /\ draft \in [Drafts -> Export!DraftRow] /\ ds \in SUBSET Drafts
      BY HeldJob DEF ExportInv, ExportTables
    <2>3. /\ pc'[p] = "final_load" /\ "final_load" \in ExportLabels
          /\ "final_load" \notin Unrecorded /\ "final_load" \in Recorded
          /\ \A q \in Procs \ {p} : pc'[q] = pc[q]
          /\ pc' \in [Procs -> ExportLabels]
      BY <2>1, <2>2 DEF ExportLabels, Unrecorded, Recorded
    <2>4. exporting' = exporting
      BY <2>1, <2>2
    <2>5. \A d \in Drafts : draft[d] \in Export!DraftRow /\ [draft[d] EXCEPT !.sender = p] \in Export!DraftRow
                           /\ [draft[d] EXCEPT !.sender = p].sender = p
      BY <2>2 DEF Export!DraftRow
    <2>6. draft' \in [Drafts -> Export!DraftRow]
      BY <1>3, <2>2, <2>5
    <2>7. \A d \in Drafts : draft'[d].sender = IF d \in ds THEN p ELSE draft[d].sender
      BY <1>3, <2>5
    <2>8. \A d \in ds : draft[d].sender = NoProc
      BY <1>3, <2>2 DEF Export!Taken, Export!Sent
    <2>9. \A d \in Drafts : draft[d].sender # NoProc => draft'[d].sender = draft[d].sender
      BY <2>7, <2>8
    <2>10. ExportTables'
      BY <1>1, <1>3, <2>2, <2>3, <2>4, <2>6 DEF ExportInv, ExportTables, Export!WriteAtOnce
    <2>11. Export!SentIsTimed'
      BY <1>1 DEF ExportInv, Export!SentIsTimed
    <2>12. ASSUME NEW q \in Procs PROVE ExportJobInv(q, pc[q], exporting[q])'
      <3> DEFINE m == exporting[q]
      <3>1. ExportJobInv(q, pc[q], m) /\ IsExportJob(m) /\ m.drafts \in SUBSET Drafts
            /\ DOMAIN m.snapshot \subseteq Drafts
        BY HeldJob, JobFields DEF Snapshots
      <3>2. m' = m
        BY <2>4
      <3> HIDE DEF m
      <3>3. \A d \in DOMAIN m.snapshot : m.snapshot[d] = "MANUALLY_SENT" => Export!Sent(d)'
        BY <2>7, <3>1, NoProcAssumption DEF ExportJobInv, Export!Sent
      <3>4. \A d \in DOMAIN m.rows : m.rows[d].status = "MANUALLY_SENT" => m.rows[d].timed
        BY <3>1 DEF ExportJobInv
      <3>5. CASE q = p
        <4>1. \A d \in m.drafts : draft'[d].sender = q
          BY <2>2, <2>7, <3>5 DEF m
        <4>2. ~m.overwrite
          <5>1. pc[q] \in BatchLabels
            BY <1>1, <3>5 DEF BatchLabels, Unrecorded, Recorded
          <5> QED
            BY <3>1, <5>1 DEF ExportJobInv
        <4>3. pc'[q] = "final_load"
          BY <2>3, <3>5
        <4> QED
          BY <2>3, <3>1, <3>2, <3>3, <3>4, <4>1, <4>2, <4>3 DEF ExportJobInv, IsExportJob, m
      <3>6. CASE q # p
        <4>1. pc'[q] = pc[q]
          BY <2>3, <3>6
        <4>2. pc[q] \in Unrecorded => \A d \in Drafts : draft'[d].sender # q
          BY <2>7, <3>1, <3>6 DEF ExportJobInv
        <4>3. pc[q] \in Recorded => \A d \in m.drafts : draft'[d].sender = q
          BY <2>9, <3>1, NoProcAssumption DEF ExportJobInv
        <4>4. pc[q] \in BatchLabels => ~m.overwrite
          BY <3>1 DEF ExportJobInv
        <4> QED
          BY <3>1, <3>2, <3>3, <3>4, <4>1, <4>2, <4>3, <4>4 DEF ExportJobInv, IsExportJob, m
      <3> QED
        BY <3>5, <3>6
    <2> QED
      BY <2>10, <2>11, <2>12 DEF ExportInv
  <1>4. ASSUME NEW d
        PROVE  Export!TakenBy(d)
                 \in {"ALREADY_MANUALLY_SENT", "DELIVERY_ATTEMPT_EXISTS", "PERSISTENCE_FAILURE"}
    BY Zenon DEF Export!TakenBy
  <1>5. "PERSISTENCE_FAILURE"
          \in {"ALREADY_MANUALLY_SENT", "DELIVERY_ATTEMPT_EXISTS", "PERSISTENCE_FAILURE"}
    OBVIOUS
  <1> QED
    BY Zenon, <1>2, <1>3, <1>4, <1>5 DEF Export!Claim

(* What else happens keeps who recorded what.                              *)
LEMMA ExportOutside ==
  ASSUME ExportInv, UNCHANGED <<writer, pc, exporting>>, FileKept,
         draft' \in [Drafts -> Export!DraftRow], task' \in [Tasks -> Export!TaskStatus],
         \A d \in Drafts : draft'[d].sender = draft[d].sender
  PROVE  ExportInv'
  <1>1. ExportTables'
    BY DEF ExportInv, ExportTables, FileKept
  <1>2. Export!SentIsTimed'
    BY DEF ExportInv, Export!SentIsTimed, FileKept
  <1>3. ASSUME NEW q \in Procs PROVE ExportJobInv(q, pc[q], exporting[q])'
    <2> DEFINE m == exporting[q]
    <2>1. ExportJobInv(q, pc[q], m) /\ IsExportJob(m) /\ m.drafts \in SUBSET Drafts
          /\ DOMAIN m.snapshot \subseteq Drafts
      BY HeldJob, JobFields DEF Snapshots
    <2>2. m' = m
      OBVIOUS
    <2> HIDE DEF m
    <2> QED
      BY <2>1, <2>2 DEF ExportJobInv, IsExportJob, Export!Sent, m
  <1> QED
    BY <1>1, <1>2, <1>3 DEF ExportInv

LEMMA DraftToInv ==
  ASSUME ExportInv, NEW d \in Drafts, NEW row \in Export!DraftRow, row.sender = draft[d].sender,
         Export!DraftTo(row, d)
  PROVE  ExportInv'
  <1>1. /\ draft \in [Drafts -> Export!DraftRow] /\ task \in [Tasks -> Export!TaskStatus]
    BY DEF ExportInv, ExportTables
  <1>2. /\ draft' = [draft EXCEPT ![d] = row] /\ UNCHANGED <<writer, pc, exporting, task>> /\ FileKept
    BY DEF Export!DraftTo, Export!Change, FileKept
  <1>3. /\ draft' \in [Drafts -> Export!DraftRow]
        /\ \A e \in Drafts : draft'[e].sender = draft[e].sender
    BY <1>1, <1>2
  <1> QED
    BY <1>1, <1>2, <1>3, ExportOutside

LEMMA MeanwhileInv ==
  ASSUME ExportInv,
         \/ \E d \in Drafts : Export!Generate(d) \/ Export!Review(d) \/ Export!Deliver(d) \/ Export!Readdress(d)
         \/ \E t \in Tasks : Export!TaskStep(t)
         \/ Export!Elsewhere
  PROVE  ExportInv'
  <1>1. /\ draft \in [Drafts -> Export!DraftRow] /\ task \in [Tasks -> Export!TaskStatus]
    BY DEF ExportInv, ExportTables
  <1>2. ASSUME NEW d \in Drafts, Export!Generate(d) PROVE ExportInv'
    <2>1. [draft[d] EXCEPT !.exists = TRUE] \in Export!DraftRow
          /\ [draft[d] EXCEPT !.exists = TRUE].sender = draft[d].sender
      BY <1>1 DEF Export!DraftRow
    <2> QED
      BY <1>2, <2>1, DraftToInv DEF Export!Generate
  <1>3. ASSUME NEW d \in Drafts, Export!Review(d) PROVE ExportInv'
    <2>1. PICK verdict \in {"APPROVED", "REJECTED"} : Export!DraftTo([draft[d] EXCEPT !.status = verdict], d)
      BY <1>3 DEF Export!Review
    <2>2. [draft[d] EXCEPT !.status = verdict] \in Export!DraftRow
          /\ [draft[d] EXCEPT !.status = verdict].sender = draft[d].sender
      BY <1>1 DEF Export!DraftRow
    <2> QED
      BY <2>1, <2>2, DraftToInv
  <1>4. ASSUME NEW d \in Drafts, Export!Readdress(d) PROVE ExportInv'
    <2>1. [draft[d] EXCEPT !.current = FALSE] \in Export!DraftRow
          /\ [draft[d] EXCEPT !.current = FALSE].sender = draft[d].sender
      BY <1>1 DEF Export!DraftRow
    <2> QED
      BY <1>4, <2>1, DraftToInv DEF Export!Readdress
  <1>7. ASSUME NEW d \in Drafts, Export!Deliver(d) PROVE ExportInv'
    <2>1. [draft[d] EXCEPT !.reserved = TRUE] \in Export!DraftRow
          /\ [draft[d] EXCEPT !.reserved = TRUE].sender = draft[d].sender
      BY <1>1 DEF Export!DraftRow
    <2> QED
      BY <1>7, <2>1, DraftToInv DEF Export!Deliver
  <1>5. ASSUME NEW t \in Tasks, Export!TaskStep(t) PROVE ExportInv'
    <2>1. PICK status \in Export!TaskStatus : task' = [task EXCEPT ![t] = status]
      BY <1>5 DEF Export!TaskStep, Export!TaskStatus
    <2>2. UNCHANGED <<writer, pc, exporting, draft>> /\ FileKept
      BY <1>5 DEF Export!TaskStep, Export!Change, FileKept
    <2>3. task' \in [Tasks -> Export!TaskStatus] /\ draft' \in [Drafts -> Export!DraftRow]
      BY <1>1, <2>1, <2>2
    <2> QED
      BY <2>2, <2>3, ExportOutside
  <1>6. CASE Export!Elsewhere
    <2>1. UNCHANGED <<writer, pc, exporting, draft, task>>
      BY <1>6 DEF Export!Elsewhere, Export!Change
    <2>2. FileKept
      BY <1>6, EmptyFacts DEF Export!Elsewhere, FileKept
    <2> QED
      BY <1>1, <2>1, <2>2, ExportOutside
  <1> QED
    BY Zenon, <1>2, <1>3, <1>4, <1>5, <1>6, <1>7

LEMMA ExportStepInv == ASSUME ExportInv, Export!Next PROVE ExportInv'
  <1>1. ASSUME NEW p \in Procs, Export!ExportStep(p) PROVE ExportInv'
    <2>1. CASE Export!ExportStart(p) \/ Export!ExportLoad(p) \/ Export!ExportRows(p) \/ Export!ExportSave(p)
      BY Zenon, <2>1, StartExportInv, ExportLoadInv, ExportRowsInv, ExportSaveInv
    <2>2. CASE Export!BatchStart(p) \/ Export!Preview(p) \/ Export!TrialLoad(p) \/ Export!TrialRows(p)
      BY Zenon, <2>2, StartBatchInv, PreviewInv, TrialLoadInv, TrialRowsInv
    <2>3. CASE Export!RecordCheck(p) \/ Export!Claim(p) \/ Export!FinalLoad(p) \/ Export!FinalRows(p)
      BY Zenon, <2>3, PreviewInv, ClaimInv, FinalLoadInv, FinalRowsInv
    <2>4. CASE Export!FinalSave(p) \/ Export!Verify(p) \/ Export!Crash(p)
      BY Zenon, <2>4, FinalSaveInv, VerifyInv, ExportCrashInv
    <2> QED
      BY Zenon, <1>1, <2>1, <2>2, <2>3, <2>4 DEF Export!ExportStep
  <1> QED
    BY Zenon, <1>1, MeanwhileInv DEF Export!Next

(* While a behaviour is of another kind of command, nothing is exported.   *)
ExportKept ==
    IF command = "export" THEN ExportInv
    ELSE file = NoFile /\ exporting = [p \in Procs |-> Export!NoJob]

LEMMA ExportKeptStep ==
  ASSUME ExportKept, [Acquire \/ ImportCompanies \/ GenerateMissing \/ ExportCrm]_all
  PROVE  ExportKept'
  <1>1. CASE ExportCrm
    <2>1. command' = "export" /\ ExportInv /\ Export!Next
      BY <1>1 DEF ExportCrm, ExportKept
    <2> QED
      BY <2>1, ExportStepInv DEF ExportKept
  <1>2. CASE (Acquire \/ ImportCompanies \/ GenerateMissing) /\ command # "export"
    BY <1>2 DEF Acquire, ImportCompanies, GenerateMissing, export, ExportKept
  <1>3. CASE UNCHANGED all
    <2>1. /\ UNCHANGED <<command, writer, pc, exporting, draft, task, file>>
          /\ FileKept
      BY <1>3 DEF all, export, processes, FileKept
    <2>2. CASE command = "export"
      <3>1. ExportInv
        BY <2>2 DEF ExportKept
      <3>2. draft \in [Drafts -> Export!DraftRow] /\ task \in [Tasks -> Export!TaskStatus]
        BY <3>1 DEF ExportInv, ExportTables
      <3>3. ExportInv'
        BY <2>1, <3>1, <3>2, ExportOutside
      <3> QED
        BY <2>1, <2>2, <3>3 DEF ExportKept
    <2>3. CASE command # "export"
      BY <2>1, <2>3 DEF ExportKept
    <2> QED
      BY <2>2, <2>3
  <1> QED
    BY <1>1, <1>2, <1>3 DEF Acquire, ImportCompanies, GenerateMissing

LEMMA ExportInvariant == BulkSpec => []ExportKept
  <1>1. BulkInit => ExportKept
    BY ExportInit DEF BulkInit, ExportKept, Export!Init
  <1> QED
    BY <1>1, ExportKeptStep, PTL DEF BulkSpec

(* No workbook that an export leaves shows a draft as sent without the     *)
(* time of sending, whatever happens between the two loads it is built     *)
(* from: the time is read last, and nothing takes a record of sending back *)
(* (CRMOverviewService.build, then the rows of the workbook).              *)
THEOREM TimeOfSending == BulkSpec => []SentIsTimed
  <1>1. ExportKept => SentIsTimed
    BY DEF ExportKept, ExportInv, SentIsTimed, Export!SentIsTimed
  <1> QED
    BY <1>1, ExportInvariant, PTL

(* A step that puts a file where there is one is of an export that was     *)
(* told to overwrite (_save_atomic), and no batch is.                      *)
LEMMA FileStep ==
  ASSUME ExportInv, Export!Next, file # NoFile, file' # NoFile, file' # file
  PROVE  \E p \in Procs : pc[p] = "save" /\ exporting[p].overwrite
  <1>1. ASSUME NEW p \in Procs, Export!FinalSave(p) PROVE FALSE
    <2>1. ~exporting[p].overwrite
      <3>1. pc[p] = "final_save" /\ "final_save" \in BatchLabels
        BY <1>1 DEF Export!FinalSave, BatchLabels, Recorded, Unrecorded
      <3> QED
        BY <3>1, HeldJob DEF ExportJobInv
    <2> QED
      BY <1>1, <2>1 DEF Export!FinalSave, Export!Save
  <1>2. ASSUME NEW p \in Procs, Export!ExportStep(p), ~Export!ExportSave(p) PROVE FALSE
    <2>1. ~Export!ExportStart(p) /\ ~Export!ExportLoad(p) /\ ~Export!ExportRows(p) /\ ~Export!BatchStart(p)
      BY DEF Export!ExportStart, Export!ExportLoad, Export!ExportRows, Export!BatchStart
    <2>2. ~Export!Preview(p) /\ ~Export!RecordCheck(p)
      BY DEF Export!Preview, Export!RecordCheck, Export!Check
    <2>3. ~Export!TrialLoad(p) /\ ~Export!TrialRows(p) /\ ~Export!Claim(p)
      BY DEF Export!TrialLoad, Export!TrialRows, Export!Claim
    <2>4. ~Export!FinalLoad(p) /\ ~Export!FinalRows(p) /\ ~Export!Verify(p) /\ ~Export!Crash(p)
      BY DEF Export!FinalLoad, Export!FinalRows, Export!Verify, Export!Crash
    <2> QED
      BY Zenon, <1>1, <1>2, <2>1, <2>2, <2>3, <2>4 DEF Export!ExportStep
  <1>3. ASSUME NEW p \in Procs, Export!ExportSave(p) PROVE pc[p] = "save" /\ exporting[p].overwrite
    BY <1>3 DEF Export!ExportSave, Export!Save
  <1>4. /\ \A d \in Drafts : /\ ~Export!Generate(d) /\ ~Export!Review(d)
                              /\ ~Export!Deliver(d) /\ ~Export!Readdress(d)
        /\ \A t \in Tasks : ~Export!TaskStep(t)
        /\ ~Export!Elsewhere
    BY DEF Export!Generate, Export!Review, Export!Deliver, Export!Readdress, Export!DraftTo, Export!TaskStep,
       Export!Elsewhere
  <1> QED
    BY Zenon, <1>2, <1>3, <1>4 DEF Export!Next

(* A file is never replaced by an export that was not told to overwrite,   *)
(* even one that appears after the export has looked (_save_atomic's link).*)
THEOREM FilesAreSafe == BulkSpec => NeverReplaced
  <1>1. ASSUME ExportKept, [Acquire \/ ImportCompanies \/ GenerateMissing \/ ExportCrm]_all
        PROVE  [file # NoFile /\ file' # NoFile /\ file' # file =>
                    \E p \in Procs : pc[p] = "save" /\ exporting[p].overwrite]_(Export!vars)
    <2>1. CASE ExportCrm
      <3>1. ExportInv /\ Export!Next
        BY <1>1, <2>1 DEF ExportCrm, ExportKept
      <3> QED
        BY <3>1, FileStep
    <2>2. CASE Acquire \/ ImportCompanies \/ GenerateMissing \/ UNCHANGED all
      <3>1. file' = file
        BY <2>2 DEF Acquire, ImportCompanies, GenerateMissing, all, export
      <3> QED
        BY <3>1
    <2> QED
      BY Zenon, <1>1, <2>1, <2>2
  <1> QED
    BY <1>1, ExportInvariant, PTL DEF BulkSpec, NeverReplaced, Export!NeverReplaced

LEMMA SetFacts ==
  ASSUME ExportInv, NEW q \in Procs, NEW label, NEW j, Export!Set(q, label, j)
  PROVE  /\ pc'[q] = label /\ exporting'[q] = j
         /\ \A p \in Procs \ {q} : pc'[p] = pc[p]
  BY HeldJob DEF Export!Set, Export!Goto

(* The answers that say that nothing has been recorded.                    *)
Refusals == Export!Answers \ {"COMPLETE", "MANUAL_SEND_RECORDED_EXPORT_FAILED"}

(* How a process can answer: before it has recorded anything, or after.    *)
Told(p) ==
    /\ draft' = draft
    /\ \/ pc[p] \in Unrecorded /\ \E answer \in Refusals : Export!Answer(p, answer)
       \/ pc[p] \in Recorded /\ Export!FinalFailed(p)
       \/ /\ pc[p] \in Recorded /\ Export!Answer(p, "COMPLETE")
          /\ file # NoFile /\ Export!Verifies(file, exporting[p].drafts, "MANUALLY_SENT")

LEMMA ToldBy ==
  ASSUME ExportInv, NEW p \in Procs, Export!ExportStep(p), pc'[p] = "done"
  PROVE  Told(p)
  <1>1. ASSUME NEW label \in ExportLabels \ {"done"}, NEW j, Export!Set(p, label, j)
        PROVE  FALSE
    BY <1>1, SetFacts
  <1>2. {"load", "rows", "save", "preview", "trial_load", "trial_rows", "record", "claim",
         "final_load", "final_rows", "final_save", "verify", "dead"} \subseteq ExportLabels \ {"done"}
    BY DEF ExportLabels, Unrecorded, Recorded
  <1>3. {"failed", "written", "CONFIRMATION_REQUIRED", "INVALID_DRAFT", "ALREADY_MANUALLY_SENT",
         "DELIVERY_ATTEMPT_EXISTS", "EXPORT_FAILED_BEFORE_MUTATION", "PERSISTENCE_FAILURE"} \subseteq Refusals
    BY DEF Refusals, Export!Answers
  <1>4. {"load", "rows", "save", "preview", "trial_load", "trial_rows", "record", "claim"} \subseteq Unrecorded
    BY DEF Unrecorded
  <1>5. {"final_load", "final_rows", "final_save", "verify"} \subseteq Recorded
    BY DEF Recorded
  <1>6. ~Export!ExportStart(p) /\ ~Export!BatchStart(p) /\ ~Export!Crash(p)
    <2>1. "load" \in ExportLabels \ {"done"} /\ "preview" \in ExportLabels \ {"done"}
          /\ "dead" \in ExportLabels \ {"done"}
      BY <1>2
    <2> QED
      BY Zenon, <1>1, <2>1 DEF Export!ExportStart, Export!BatchStart, Export!Crash
  <1>7. Export!ExportLoad(p) => Told(p)
    <2>1. "rows" \in ExportLabels \ {"done"} /\ "failed" \in Refusals /\ "load" \in Unrecorded
      BY <1>2, <1>3, <1>4
    <2> QED
      BY Zenon, <1>1, <2>1 DEF Export!ExportLoad, Export!crm, Told
  <1>8. Export!ExportRows(p) => Told(p)
    <2>1. "save" \in ExportLabels \ {"done"} /\ "failed" \in Refusals /\ "rows" \in Unrecorded
      BY <1>2, <1>3, <1>4
    <2> QED
      BY Zenon, <1>1, <2>1 DEF Export!ExportRows, Export!crm, Told
  <1>9. Export!ExportSave(p) => Told(p)
    <2>1. "written" \in Refusals /\ "failed" \in Refusals /\ "save" \in Unrecorded
      BY <1>3, <1>4
    <2> QED
      BY Zenon, <1>1, <2>1 DEF Export!ExportSave, Export!crm, Told
  <1>10. ASSUME NEW here \in Unrecorded, NEW next \in ExportLabels \ {"done"},
                here \in ExportLabels \ {"done"}, Export!Check(p, here, next)
         PROVE  Told(p)
    <2>1. \A d : Export!Reason(d) \in Refusals
      BY <1>3 DEF Export!Reason, Export!TakenBy
    <2> QED
      BY Zenon, <1>1, <1>10, <2>1 DEF Export!Check, Export!crm, Told
  <1>11. Export!Preview(p) \/ Export!RecordCheck(p) => Told(p)
    BY <1>2, <1>4, <1>10 DEF Export!Preview, Export!RecordCheck
  <1>12. Export!TrialLoad(p) => Told(p)
    <2>1. "trial_rows" \in ExportLabels \ {"done"} /\ "trial_load" \in Unrecorded
          /\ "CONFIRMATION_REQUIRED" \in Refusals /\ "EXPORT_FAILED_BEFORE_MUTATION" \in Refusals
      BY <1>2, <1>3, <1>4
    <2> QED
      BY Zenon, <1>1, <2>1 DEF Export!TrialLoad, Export!crm, Told
  <1>13. Export!TrialRows(p) => Told(p)
    <2>1. "record" \in ExportLabels \ {"done"} /\ "trial_rows" \in Unrecorded
          /\ "EXPORT_FAILED_BEFORE_MUTATION" \in Refusals
      BY <1>2, <1>3, <1>4
    <2> QED
      BY Zenon, <1>1, <2>1 DEF Export!TrialRows, Export!crm, Told
  <1>14. Export!Claim(p) => Told(p)
    <2>1. "final_load" \in ExportLabels \ {"done"} /\ "claim" \in Unrecorded
          /\ (\A d : Export!TakenBy(d) \in Refusals) /\ "PERSISTENCE_FAILURE" \in Refusals
      BY <1>2, <1>3, <1>4 DEF Export!TakenBy
    <2> QED
      BY Zenon, <1>1, <2>1 DEF Export!Claim, Told
  <1>15. Export!FinalLoad(p) => Told(p)
    <2>1. "final_rows" \in ExportLabels \ {"done"} /\ "final_load" \in Recorded
      BY <1>2, <1>5
    <2> QED
      BY Zenon, <1>1, <2>1 DEF Export!FinalLoad, Export!crm, Told
  <1>16. Export!FinalRows(p) => Told(p)
    <2>1. "final_save" \in ExportLabels \ {"done"} /\ "final_rows" \in Recorded
      BY <1>2, <1>5
    <2> QED
      BY Zenon, <1>1, <2>1 DEF Export!FinalRows, Export!crm, Told
  <1>17. Export!FinalSave(p) => Told(p)
    <2>1. "verify" \in ExportLabels \ {"done"} /\ "final_save" \in Recorded
      BY <1>2, <1>5
    <2> QED
      BY Zenon, <1>1, <2>1 DEF Export!FinalSave, Export!crm, Told
  <1>18. Export!Verify(p) => Told(p)
    <2>1. "verify" \in Recorded
      BY <1>5
    <2> QED
      BY Zenon, <2>1 DEF Export!Verify, Export!crm, Told
  <1> QED
    BY Zenon, <1>6, <1>7, <1>8, <1>9, <1>11, <1>12, <1>13, <1>14, <1>15, <1>16, <1>17, <1>18
    DEF Export!ExportStep

LEMMA AnswerFacts ==
  ASSUME ExportInv, NEW p \in Procs, NEW answer \in Export!Answers, Export!Answer(p, answer)
  PROVE  exporting'[p].answer = answer
  <1> DEFINE ds == exporting[p].drafts
             j == [Export!NoJob EXCEPT !.drafts = ds, !.answer = answer]
  <1>1. Export!Set(p, "done", j)
    BY Zenon DEF Export!Answer
  <1>2. ds \in SUBSET Drafts
    BY HeldJob
  <1>3. j.answer = answer
    BY Zenon, <1>2, FinalJob
  <1> HIDE DEF j
  <1> QED
    BY <1>1, <1>3, SetFacts

(* What the answer says is so.                                             *)
LEMMA ToldIsTrue ==
  ASSUME ExportInv, NEW p \in Procs, Told(p)
  PROVE  LET answer == exporting'[p].answer
             recorded == {d \in exporting[p].drafts : draft'[d].sender = p}
         IN  /\ recorded = IF answer \in {"COMPLETE", "MANUAL_SEND_RECORDED_EXPORT_FAILED"}
                           THEN exporting[p].drafts ELSE {}
             /\ answer = "COMPLETE" =>
                    /\ file # NoFile /\ exporting[p].drafts \subseteq DOMAIN file
                    /\ \A d \in exporting[p].drafts :
                           file[d] = [status |-> "MANUALLY_SENT", timed |-> TRUE]
  <1> DEFINE ds == exporting[p].drafts
             recorded == {d \in ds : draft'[d].sender = p}
  <1>1. ExportJobInv(p, pc[p], exporting[p]) /\ ds \in SUBSET Drafts /\ draft' = draft
    BY HeldJob DEF Told
  <1>2. CASE pc[p] \in Unrecorded /\ \E answer \in Refusals : Export!Answer(p, answer)
    <2>1. PICK answer \in Refusals : Export!Answer(p, answer)
      BY <1>2
    <2>2. exporting'[p].answer = answer
      BY <2>1, AnswerFacts DEF Refusals
    <2>3. recorded = {}
      BY <1>1, <1>2 DEF ExportJobInv
    <2> QED
      BY <2>1, <2>2, <2>3 DEF Refusals
  <1>3. ASSUME pc[p] \in Recorded PROVE recorded = ds
    BY <1>1, <1>3 DEF ExportJobInv
  <1>4. CASE pc[p] \in Recorded /\ Export!FinalFailed(p)
    <2>1. exporting'[p].answer = "MANUAL_SEND_RECORDED_EXPORT_FAILED"
      BY <1>4, AnswerFacts DEF Export!FinalFailed, Export!Answers
    <2> QED
      BY <1>3, <1>4, <2>1
  <1>5. CASE /\ pc[p] \in Recorded /\ Export!Answer(p, "COMPLETE")
             /\ file # NoFile /\ Export!Verifies(file, ds, "MANUALLY_SENT")
    <2>1. exporting'[p].answer = "COMPLETE"
      BY <1>5, AnswerFacts DEF Export!Answers
    <2>2. \A d \in ds : d \in DOMAIN file /\ file[d].status = "MANUALLY_SENT" /\ file[d].timed
      BY Zenon, <1>5 DEF Export!Verifies
    <2>3. file \in Export!Workbook
      BY <1>5 DEF ExportInv, ExportTables
    <2>4. \A d \in DOMAIN file : file[d] \in Export!Shown
      BY <2>3 DEF Export!Workbook
    <2>5. \A shown \in Export!Shown :
              shown.status = "MANUALLY_SENT" /\ shown.timed =>
                  shown = [status |-> "MANUALLY_SENT", timed |-> TRUE]
      BY DEF Export!Shown
    <2>6. \A d \in ds : file[d] = [status |-> "MANUALLY_SENT", timed |-> TRUE]
      BY Zenon, <2>2, <2>4, <2>5
    <2>7. ds \subseteq DOMAIN file
      BY <2>2
    <2>8. "COMPLETE" \in {"COMPLETE", "MANUAL_SEND_RECORDED_EXPORT_FAILED"}
      OBVIOUS
    <2> QED
      BY Zenon, <1>3, <1>5, <2>1, <2>6, <2>7, <2>8
  <1> QED
    BY Zenon, <1>2, <1>4, <1>5 DEF Told

(* Only the process's own step makes it answer.                            *)
LEMMA OwnStep ==
  ASSUME ExportInv, NEW p \in Procs, Export!Next, pc[p] # "done", pc'[p] = "done"
  PROVE  Export!ExportStep(p)
  <1>1. ASSUME NEW q \in Procs, Export!ExportStep(q), q # p
        PROVE  pc'[p] = pc[p]
    <2>1. \E label, j : Export!Set(q, label, j)
      <3>1. Export!ExportStart(q) \/ Export!ExportLoad(q) \/ Export!ExportRows(q) \/ Export!ExportSave(q)
            \/ Export!BatchStart(q) \/ Export!TrialLoad(q) \/ Export!TrialRows(q) \/ Export!Crash(q)
            => \E label, j : Export!Set(q, label, j)
        BY Zenon DEF Export!ExportStart, Export!ExportLoad, Export!ExportRows, Export!ExportSave,
           Export!BatchStart, Export!TrialLoad, Export!TrialRows, Export!Crash, Export!Answer
      <3>2. Export!Preview(q) \/ Export!RecordCheck(q) => \E label, j : Export!Set(q, label, j)
        BY Zenon DEF Export!Preview, Export!RecordCheck, Export!Check, Export!Answer
      <3>3. Export!Claim(q) \/ Export!FinalLoad(q) \/ Export!FinalRows(q) \/ Export!FinalSave(q)
            \/ Export!Verify(q)
            => \E label, j : Export!Set(q, label, j)
        BY Zenon DEF Export!Claim, Export!FinalLoad, Export!FinalRows, Export!FinalSave,
           Export!Verify, Export!FinalFailed, Export!Answer
      <3> QED
        BY Zenon, <1>1, <3>1, <3>2, <3>3 DEF Export!ExportStep
    <2>2. p \in Procs \ {q}
      BY <1>1
    <2> QED
      BY Zenon, <2>1, <2>2, SetFacts
  <1>2. ASSUME NEW d \in Drafts, Export!Generate(d) \/ Export!Review(d) \/ Export!Deliver(d)
                               \/ Export!Readdress(d)
        PROVE  pc' = pc
    BY <1>2 DEF Export!Generate, Export!Review, Export!Deliver, Export!Readdress, Export!DraftTo,
           Export!Change
  <1>3. ASSUME NEW t \in Tasks, Export!TaskStep(t) PROVE pc' = pc
    BY <1>3 DEF Export!TaskStep, Export!Change
  <1>4. Export!Elsewhere => pc' = pc
    BY DEF Export!Elsewhere, Export!Change
  <1>5. pc'[p] # pc[p]
    OBVIOUS
  <1> QED
    BY Zenon, <1>1, <1>2, <1>3, <1>4, <1>5 DEF Export!Next

(* The answer to a batch tells whether its drafts have been recorded, all  *)
(* of them by this command or none; COMPLETE tells in addition that the    *)
(* destination shows each as sent, with its time (_verify_workbook): what  *)
(* the operator sends the mails by, whatever the other processes do and    *)
(* wherever this one fails.                                                *)
THEOREM BatchAnswersAreTrue == BulkSpec => BatchAnswerTrue
  <1> DEFINE True(p) ==
        LET answer == exporting'[p].answer
            recorded == {d \in exporting[p].drafts : draft'[d].sender = p}
        IN  /\ recorded = IF answer \in {"COMPLETE", "MANUAL_SEND_RECORDED_EXPORT_FAILED"}
                          THEN exporting[p].drafts ELSE {}
            /\ answer = "COMPLETE" =>
                   /\ file # NoFile /\ exporting[p].drafts \subseteq DOMAIN file
                   /\ \A d \in exporting[p].drafts :
                          file[d] = [status |-> "MANUALLY_SENT", timed |-> TRUE]
  <1>1. ASSUME ExportKept, [Acquire \/ ImportCompanies \/ GenerateMissing \/ ExportCrm]_all
        PROVE  [\A p \in Procs : pc[p] # "done" /\ pc'[p] = "done" => True(p)]_(Export!vars)
    <2>1. CASE ExportCrm
      <3>1. ExportInv /\ Export!Next
        BY <1>1, <2>1 DEF ExportCrm, ExportKept
      <3>2. ASSUME NEW p \in Procs, pc[p] # "done", pc'[p] = "done" PROVE True(p)
        <4>1. Export!ExportStep(p)
          BY <3>1, <3>2, OwnStep
        <4>2. Told(p)
          BY <3>1, <3>2, <4>1, ToldBy
        <4> QED
          BY Zenon, <3>1, <4>2, ToldIsTrue
      <3> HIDE DEF True
      <3> QED
        BY <3>2
    <2>2. CASE (Acquire \/ ImportCompanies \/ GenerateMissing) /\ command # "export"
      <3>1. exporting = [p \in Procs |-> Export!NoJob] /\ exporting' = exporting
        BY <1>1, <2>2 DEF ExportKept, Acquire, ImportCompanies, GenerateMissing, export
      <3>2. ASSUME NEW p \in Procs PROVE True(p)
        <4>1. exporting'[p].answer = "" /\ exporting[p].drafts = {}
          BY <3>1 DEF Export!NoJob
        <4> QED
          BY <4>1
      <3> HIDE DEF True
      <3> QED
        BY <3>2
    <2>3. CASE UNCHANGED all
      <3>1. pc' = pc
        BY <2>3 DEF all, processes
      <3> HIDE DEF True
      <3> QED
        BY <3>1
    <2> HIDE DEF True
    <2>4. Acquire \/ ImportCompanies \/ GenerateMissing => command # "export"
      BY DEF Acquire, ImportCompanies, GenerateMissing
    <2> QED
      BY Zenon, <1>1, <2>1, <2>2, <2>3, <2>4
  <1> QED
    BY <1>1, ExportInvariant, PTL DEF BulkSpec, BatchAnswerTrue, Export!BatchAnswerTrue

-----------------------------------------------------------------------------
(* Minima and maxima of sets of numbers. *)

LEMMA Smallest ==
  ASSUME NEW S, S \subseteq Nat, S # {}
  PROVE  \E n \in S : \A m \in S : n <= m
  <1> DEFINE R == OpToRel(<, Nat)
  <1>1. IsWellFoundedOn(R, Nat)
    BY Zenon, NatLessThanWellFounded
  <1>2. PICK n \in S : \A m \in S : ~ (<<m, n>> \in R)
    <2> HIDE DEF R
    <2> QED
      BY Zenon, <1>1, WFMin
  <1>3. \A m \in S : ~(m < n)
    BY <1>2 DEF OpToRel
  <1> QED
    BY <1>3

(* A smallest subset without a greatest element would have one without it. *)
LEMMA Greatest ==
  ASSUME NEW S, IsFiniteSet(S), S \subseteq Nat, S # {}
  PROVE  \E n \in S : \A m \in S : n >= m
  <1> DEFINE Topless(U) == U # {} /\ ~ \E n \in U : \A m \in U : n >= m
             T == {U \in SUBSET S : Topless(U)}
             R == StrictSubsetOrdering(S)
  <1>1. IsWellFoundedOn(R, SUBSET S)
    BY FS_StrictSubsetOrderingWellFounded, FS_FiniteSubsetsOfFinite
  <1>2. SUFFICES T = {}
    BY <1>2
  <1>3. SUFFICES ASSUME T # {} PROVE FALSE
    OBVIOUS
  <1>4. PICK U \in T : \A V \in T : <<V, U>> \notin R
    <2>1. T \subseteq SUBSET S
      OBVIOUS
    <2> HIDE DEF T, R
    <2> QED
      BY Zenon, <1>1, <1>3, <2>1, WFMin
  <1>5. PICK x \in U : TRUE
    OBVIOUS
  <1> DEFINE V == U \ {x}
  <1>6. V \notin T
    BY <1>4, <1>5 DEF StrictSubsetOrdering
  <1>7. CASE V = {}
    BY <1>4, <1>5, <1>7
  <1>8. CASE V # {}
    <2>1. PICK n \in V : \A m \in V : n >= m
      BY <1>6, <1>8
    <2>2. n \in Nat /\ x \in Nat /\ U \subseteq Nat
      OBVIOUS
    <2>3. \A m \in U : (IF n >= x THEN n ELSE x) >= m
      BY <2>1, <2>2
    <2> QED
      BY <1>4, <1>5, <2>1, <2>2, <2>3
  <1> QED
    BY <1>7, <1>8

-----------------------------------------------------------------------------
(* The missing drafts. *)

Busy == {"find", "provider", "recheck", "insert", "failed"}

MissingLabels == Busy \union {"idle", "select", "process", "done", "dead"}

Request == [task : Tasks, bound : BOOLEAN, email : Emails, options : Options, reviewed : BOOLEAN]

(* What a run holds; its items are those of some of the selected tasks.    *)
IsMissingRun(r) ==
    /\ r \in [options : {r.options}, limit : Nat, dry : {r.dry}, selected : SUBSET Tasks,
              items : {r.items}, seen : SUBSET Request, calls : Nat]
    /\ r.items = [t \in DOMAIN r.items |-> r.items[t]]
    /\ DOMAIN r.items \subseteq r.selected
    /\ \A t \in DOMAIN r.items : r.items[t] \in Missing!Result
    /\ Cardinality(r.selected) <= r.limit

(* The call for the item in hand, and the item itself.                     *)
CallDue(label) == IF label \in {"find", "provider"} THEN 1 ELSE 0

ItemDue(label) == IF label \in Busy THEN 1 ELSE 0

(* What a run at a label has reported is so, and the draft it is making is *)
(* for a selected task that it has no item of yet.                         *)
MissingRunInv(p, label, r) ==
    /\ IsMissingRun(r)
    /\ label \in Busy \union {"select", "process"} => r.options \in Options
    /\ label = "select" => DOMAIN r.items = {}
    /\ r.calls + CallDue(label) <= Cardinality(DOMAIN r.items) + ItemDue(label)
    /\ label \in {"idle", "select"} => \A d \in drafts : d.author # p
    /\ \A t \in DOMAIN r.items :
           r.items[t] = "CREATED" => \E d \in drafts : d.task = t /\ d.options = r.options
    /\ label \in Busy \union {"process"} =>
           \A d \in drafts : d.author = p => d.task \in DOMAIN r.items /\ r.items[d.task] = "CREATED"
    /\ label \in Busy =>
           /\ Missing!Left(r) # {}
           /\ \E d \in Request : /\ r.seen = {d} /\ d.task = Missing!NextOf(r)
                                 /\ d.options = r.options

MissingTables ==
    /\ writer = NoProc
    /\ pc \in [Procs -> MissingLabels]
    /\ DOMAIN generating = Procs /\ generating = [q \in Procs |-> generating[q]]
    /\ drafts \subseteq Missing!Draft
    /\ open \in [Tasks -> BOOLEAN] /\ address \in [Tasks -> Missing!Address]

MissingInv ==
    /\ MissingTables
    /\ \A p \in Procs : MissingRunInv(p, pc[p], generating[p])

LEMMA NoMissingRun ==
  LET r == Missing!NoRun
  IN  /\ IsMissingRun(r) /\ DOMAIN r.items = {} /\ r.calls = 0 /\ r.limit = 0 /\ r.selected = {}
  <1> DEFINE o == CHOOSE o \in Options : TRUE
             r == Missing!NoRun
  <1>1. r = [options |-> o, limit |-> 0, dry |-> FALSE, selected |-> {}, items |-> <<>>,
             seen |-> {}, calls |-> 0]
    BY DEF Missing!NoRun
  <1> HIDE DEF o, r
  <1>2. DOMAIN <<>> = {} /\ <<>> = [t \in {} |-> <<>>[t]]
    OBVIOUS
  <1>3. Cardinality({}) = 0
    BY FS_EmptySet
  <1>4. /\ r.items = <<>> /\ r.calls = 0 /\ r.limit = 0 /\ r.selected = {}
        /\ r \in [options : {r.options}, limit : Nat, dry : {r.dry}, selected : SUBSET Tasks,
                  items : {r.items}, seen : SUBSET Request, calls : Nat]
    BY <1>1
  <1>5. /\ DOMAIN r.items = {} /\ r.items = [t \in DOMAIN r.items |-> r.items[t]]
        /\ Cardinality(r.selected) <= r.limit
    BY <1>2, <1>3, <1>4
  <1>6. IsMissingRun(r) /\ DOMAIN r.items = {} /\ r.calls = 0 /\ r.limit = 0 /\ r.selected = {}
    BY <1>4, <1>5 DEF IsMissingRun
  <1> QED
    BY Zenon, <1>6 DEF r

LEMMA MissingInit == Missing!Init => MissingInv
  <1> SUFFICES ASSUME Missing!Init
               PROVE  MissingInv
    OBVIOUS
  <1> DEFINE none == Missing!NoRun
  <1>1. IsMissingRun(none) /\ DOMAIN none.items = {} /\ none.calls = 0
    BY Zenon, NoMissingRun
  <1>2. generating = [p \in Procs |-> none]
    BY DEF Missing!Init
  <1> HIDE DEF none
  <1>3. /\ writer = NoProc /\ pc = [p \in Procs |-> "idle"] /\ drafts = {}
        /\ open \in [Tasks -> BOOLEAN] /\ address \in [Tasks -> Missing!Address]
    BY TaskAssumption DEF Missing!Init, Missing!Address
  <1>4. MissingTables
    BY <1>2, <1>3 DEF MissingTables, MissingLabels
  <1>5. Cardinality({}) = 0
    BY FS_EmptySet
  <1>6. none.calls + CallDue("idle") <= Cardinality(DOMAIN none.items) + ItemDue("idle")
    BY <1>1, <1>5 DEF CallDue, ItemDue, Busy
  <1>7. ASSUME NEW p \in Procs PROVE MissingRunInv(p, pc[p], generating[p])
    <2>1. pc[p] = "idle" /\ generating[p] = none /\ "idle" \notin Busy \union {"select", "process"}
      BY <1>2, <1>3 DEF Busy
    <2> QED
      BY <1>1, <1>3, <1>6, <2>1 DEF MissingRunInv
  <1> QED
    BY <1>4, <1>7 DEF MissingInv

LEMMA RunTasks ==
  ASSUME NEW r, IsMissingRun(r)
  PROVE  /\ r.selected \in SUBSET Tasks /\ r.calls \in Nat /\ r.limit \in Nat
         /\ r.seen \in SUBSET Request /\ DOMAIN r.items \subseteq Tasks
         /\ IsFiniteSet(r.selected) /\ IsFiniteSet(DOMAIN r.items)
         /\ Cardinality(r.selected) \in Nat /\ Cardinality(DOMAIN r.items) \in Nat
         /\ Cardinality(DOMAIN r.items) <= Cardinality(r.selected)
  <1>1. /\ r.selected \in SUBSET Tasks /\ r.calls \in Nat /\ r.limit \in Nat
        /\ r.seen \in SUBSET Request /\ DOMAIN r.items \subseteq r.selected
    BY DEF IsMissingRun
  <1>2. IsFiniteSet(r.selected) /\ IsFiniteSet(DOMAIN r.items)
        /\ Cardinality(DOMAIN r.items) <= Cardinality(r.selected)
    BY <1>1, TaskAssumption, FS_Subset
  <1> QED
    BY <1>1, <1>2, FS_CardinalityType

(* The next item is for a task without one: there is a first company.      *)
LEMMA NextOfFacts ==
  ASSUME NEW r, IsMissingRun(r), Missing!Left(r) # {}
  PROVE  Missing!NextOf(r) \in r.selected \ DOMAIN r.items
  <1> DEFINE left == Missing!Left(r)
             ks == {TaskCompany[t] : t \in left}
  <1>1. left = r.selected \ DOMAIN r.items /\ left \subseteq Tasks
    BY RunTasks DEF Missing!Left
  <1>2. ks \subseteq Nat /\ ks # {}
    <2>1. TaskCompany \in [Tasks -> Nat]
      BY Zenon, TaskAssumption
    <2>2. \A t \in left : TaskCompany[t] \in Nat
      BY <1>1, <2>1
    <2> QED
      BY <2>2
  <1>3. PICK k \in ks : \A m \in ks : k <= m
    BY <1>2, Smallest
  <1>4. \E t \in left : \A u \in left : TaskCompany[t] <= TaskCompany[u]
    BY <1>3
  <1>5. Missing!NextOf(r) \in left
    BY Zenon, <1>4 DEF Missing!NextOf
  <1> QED
    BY <1>1, <1>5

(* A step that leaves the drafts a process knows of: what was made of them *)
(* is still there, and none is of its making that was not.                 *)
DraftsGrow(q) ==
    /\ \A d \in drafts : \E e \in drafts' : e.task = d.task /\ e.options = d.options
    /\ \A e \in drafts' : e.author = q => \E d \in drafts : d.author = q /\ d.task = e.task

LEMMA RunStays ==
  ASSUME NEW q \in Procs, MissingRunInv(q, pc[q], generating[q]), DraftsGrow(q),
         pc'[q] = pc[q], generating'[q] = generating[q]
  PROVE  MissingRunInv(q, pc[q], generating[q])'
  <1> DEFINE r == generating[q]
  <1>1. r' = r /\ MissingRunInv(q, pc[q], r)
    OBVIOUS
  <1> HIDE DEF r
  <1>2. ASSUME NEW t \in DOMAIN r.items, r.items[t] = "CREATED"
        PROVE  \E d \in drafts' : d.task = t /\ d.options = r.options
    <2>1. PICK d \in drafts : d.task = t /\ d.options = r.options
      BY Zenon, <1>1, <1>2 DEF MissingRunInv
    <2>2. PICK e \in drafts' : e.task = d.task /\ e.options = d.options
      BY Zenon DEF DraftsGrow
    <2> QED
      BY <2>1, <2>2
  <1>3. pc[q] \in {"idle", "select"} => \A d \in drafts' : d.author # q
    BY Zenon, <1>1 DEF MissingRunInv, DraftsGrow
  <1>4. pc[q] \in Busy \union {"process"} =>
            \A d \in drafts' : d.author = q => d.task \in DOMAIN r.items /\ r.items[d.task] = "CREATED"
    <2> SUFFICES ASSUME pc[q] \in Busy \union {"process"}, NEW e \in drafts', e.author = q
                 PROVE  e.task \in DOMAIN r.items /\ r.items[e.task] = "CREATED"
      OBVIOUS
    <2>1. PICK d \in drafts : d.author = q /\ d.task = e.task
      BY Zenon DEF DraftsGrow
    <2>2. d.task \in DOMAIN r.items /\ r.items[d.task] = "CREATED"
      BY Zenon, <1>1, <2>1 DEF MissingRunInv
    <2> QED
      BY <2>1, <2>2
  <1>5. IsMissingRun(r)'
    BY <1>1 DEF MissingRunInv, IsMissingRun
  <1>6. MissingRunInv(q, pc[q], r)'
    BY <1>1, <1>2, <1>3, <1>4, <1>5
    DEF MissingRunInv, CallDue, ItemDue, Missing!Left, Missing!NextOf
  <1> QED
    BY <1>6 DEF r

(* A process goes on with what it holds; the drafts grow for the others.   *)
LEMMA MissingMove ==
  ASSUME MissingInv, NEW p \in Procs, NEW label \in MissingLabels, NEW r,
         Missing!Set(p, label, r),
         writer' = NoProc, UNCHANGED <<open, address>>,
         drafts' \subseteq Missing!Draft, \A q \in Procs \ {p} : DraftsGrow(q),
         MissingRunInv(p, label, r)'
  PROVE  MissingInv'
  <1>1. pc' = [pc EXCEPT ![p] = label] /\ generating' = [generating EXCEPT ![p] = r]
    BY DEF Missing!Set, Missing!Goto
  <1>2. /\ pc \in [Procs -> MissingLabels] /\ DOMAIN generating = Procs
        /\ generating = [q \in Procs |-> generating[q]]
    BY DEF MissingInv, MissingTables
  <1>3. /\ pc'[p] = label /\ generating'[p] = r
        /\ \A q \in Procs \ {p} : pc'[q] = pc[q] /\ generating'[q] = generating[q]
        /\ pc' \in [Procs -> MissingLabels] /\ DOMAIN generating' = Procs
        /\ generating' = [q \in Procs |-> generating'[q]]
    BY <1>1, <1>2
  <1>4. MissingTables'
    BY <1>3 DEF MissingInv, MissingTables
  <1>5. ASSUME NEW q \in Procs PROVE MissingRunInv(q, pc[q], generating[q])'
    <2>1. CASE q = p
      BY <1>3, <2>1
    <2>2. CASE q # p
      <3>1. MissingRunInv(q, pc[q], generating[q]) /\ DraftsGrow(q)
        BY <2>2 DEF MissingInv
      <3> QED
        BY <1>3, <2>2, <3>1, RunStays
    <2> QED
      BY <2>1, <2>2
  <1> QED
    BY <1>4, <1>5 DEF MissingInv

LEMMA HeldRun ==
  ASSUME MissingInv, NEW p \in Procs
  PROVE  /\ MissingRunInv(p, pc[p], generating[p]) /\ IsMissingRun(generating[p])
         /\ drafts \subseteq Missing!Draft /\ writer = NoProc
         /\ DOMAIN generating = Procs /\ pc \in [Procs -> MissingLabels]
         /\ open \in [Tasks -> BOOLEAN] /\ address \in [Tasks -> Missing!Address]
  BY DEF MissingInv, MissingTables, MissingRunInv

LEMMA SameDrafts == ASSUME UNCHANGED drafts PROVE \A q : DraftsGrow(q)
  BY DEF DraftsGrow

(* A process goes on, and no draft changes.                                *)
LEMMA MissingGoes ==
  ASSUME MissingInv, NEW p \in Procs, NEW label \in MissingLabels, NEW r,
         Missing!Set(p, label, r), UNCHANGED <<writer, drafts, open, address>>,
         MissingRunInv(p, label, r)
  PROVE  MissingInv'
  <1>1. MissingRunInv(p, label, r)'
    BY DEF MissingRunInv
  <1>2. drafts' \subseteq Missing!Draft /\ writer' = NoProc
    BY HeldRun
  <1> QED
    BY <1>1, <1>2, SameDrafts, MissingMove

(* What a run holds after its next item.                                   *)
ItemsWith(r, result) ==
    [u \in DOMAIN r.items \union {Missing!NextOf(r)} |->
        IF u = Missing!NextOf(r) THEN result ELSE r.items[u]]

RunWith(r, result) == [r EXCEPT !.items = ItemsWith(r, result), !.seen = {}]

LEMMA ItemRun ==
  ASSUME NEW r, IsMissingRun(r), Missing!Left(r) # {}, NEW result \in Missing!Result
  PROVE  LET s == RunWith(r, result)
             t == Missing!NextOf(r)
         IN  /\ IsMissingRun(s) /\ s.options = r.options /\ s.calls = r.calls
             /\ DOMAIN s.items = DOMAIN r.items \union {t} /\ t \notin DOMAIN r.items
             /\ s.items[t] = result /\ \A u \in DOMAIN r.items : s.items[u] = r.items[u]
             /\ Cardinality(DOMAIN s.items) = Cardinality(DOMAIN r.items) + 1
  <1> DEFINE s == RunWith(r, result)
             t == Missing!NextOf(r)
             items == ItemsWith(r, result)
  <1>1. t \in r.selected \ DOMAIN r.items
    BY Zenon, NextOfFacts
  <1>2. /\ DOMAIN items = DOMAIN r.items \union {t}
        /\ items[t] = result /\ \A u \in DOMAIN r.items : items[u] = r.items[u]
        /\ items = [u \in DOMAIN items |-> items[u]]
    BY <1>1 DEF ItemsWith
  <1> HIDE DEF t, items
  <1>3. Cardinality(DOMAIN items) = Cardinality(DOMAIN r.items) + 1
    BY <1>1, <1>2, RunTasks, FS_AddElement
  <1>4. s = [r EXCEPT !.items = items, !.seen = {}]
    BY DEF items, RunWith
  <1> HIDE DEF s
  <1>5. /\ s \in [options : {s.options}, limit : Nat, dry : {s.dry}, selected : SUBSET Tasks,
                  items : {s.items}, seen : SUBSET Request, calls : Nat]
        /\ s.options = r.options /\ s.calls = r.calls /\ s.items = items
        /\ s.selected = r.selected /\ s.limit = r.limit
    BY <1>4 DEF IsMissingRun
  <1>6. DOMAIN s.items \subseteq s.selected /\ Cardinality(s.selected) <= s.limit
        /\ \A u \in DOMAIN s.items : s.items[u] \in Missing!Result
    BY <1>1, <1>2, <1>5 DEF IsMissingRun
  <1>7. s.items = [u \in DOMAIN s.items |-> s.items[u]]
    BY Zenon, <1>2, <1>5
  <1>8. IsMissingRun(s)
    BY Zenon, <1>5, <1>6, <1>7 DEF IsMissingRun
  <1> QED
    BY Zenon, <1>1, <1>2, <1>3, <1>5, <1>8 DEF s, t

(* A process has done with its item: what the item says of the drafts is   *)
(* so.                                                                     *)
LEMMA ItemInv ==
  ASSUME MissingInv, NEW p \in Procs, NEW result \in Missing!Result,
         pc[p] \in Busy \union {"process"}, Missing!Left(generating[p]) # {},
         Missing!Item(p, result),
         writer' = NoProc, UNCHANGED <<open, address>>,
         drafts' \subseteq Missing!Draft, \A q \in Procs \ {p} : DraftsGrow(q),
         \A d \in drafts : \E e \in drafts' : e.task = d.task /\ e.options = d.options,
         \A e \in drafts' : e.author = p =>
             \/ \E d \in drafts : d.author = p /\ d.task = e.task
             \/ e.task = Missing!NextOf(generating[p]) /\ result = "CREATED",
         result = "CREATED" =>
             \E e \in drafts' : /\ e.task = Missing!NextOf(generating[p])
                                /\ e.options = generating[p].options
  PROVE  MissingInv'
  <1>1. PICK r, t : r = generating[p] /\ t = Missing!NextOf(r)
    OBVIOUS
  <1>2. IsMissingRun(r) /\ MissingRunInv(p, pc[p], r) /\ Missing!Left(r) # {}
    BY <1>1, HeldRun
  <1>3. PICK s : s = RunWith(r, result)
    OBVIOUS
  <1>4. s = [r EXCEPT !.items = [u \in DOMAIN @ \union {t} |-> IF u = t THEN result ELSE @[u]],
                      !.seen = {}]
    BY <1>1, <1>3 DEF RunWith, ItemsWith
  <1>5. Missing!Set(p, "process", s)
    BY <1>1, <1>4 DEF Missing!Item
  <1>6. /\ IsMissingRun(s) /\ s.options = r.options /\ s.calls = r.calls
        /\ DOMAIN s.items = DOMAIN r.items \union {t} /\ t \notin DOMAIN r.items
        /\ s.items[t] = result /\ \A u \in DOMAIN r.items : s.items[u] = r.items[u]
        /\ Cardinality(DOMAIN s.items) = Cardinality(DOMAIN r.items) + 1
    <2>1. LET k == RunWith(r, result)
              n == Missing!NextOf(r)
          IN  /\ IsMissingRun(k) /\ k.options = r.options /\ k.calls = r.calls
              /\ DOMAIN k.items = DOMAIN r.items \union {n} /\ n \notin DOMAIN r.items
              /\ k.items[n] = result /\ \A u \in DOMAIN r.items : k.items[u] = r.items[u]
              /\ Cardinality(DOMAIN k.items) = Cardinality(DOMAIN r.items) + 1
      BY Zenon, <1>2, ItemRun
    <2> QED
      BY <1>1, <1>3, <2>1
  <1>7. "process" \in MissingLabels /\ "process" \notin Busy
    BY DEF MissingLabels, Busy
  <1>8. s.calls + CallDue("process") <= Cardinality(DOMAIN s.items) + ItemDue("process")
    <2>1. r.calls + CallDue(pc[p]) <= Cardinality(DOMAIN r.items) + ItemDue(pc[p])
      BY Zenon, <1>2 DEF MissingRunInv
    <2>2. r.calls \in Nat /\ Cardinality(DOMAIN r.items) \in Nat
      BY <1>2, RunTasks
    <2>3. s.calls = r.calls /\ Cardinality(DOMAIN s.items) = Cardinality(DOMAIN r.items) + 1
      BY Zenon, <1>6
    <2> QED
      BY <2>1, <2>2, <2>3 DEF CallDue, ItemDue, Busy
  <1>9. ASSUME NEW u \in DOMAIN s.items, s.items[u] = "CREATED"
        PROVE  \E e \in drafts' : e.task = u /\ e.options = s.options
    <2>1. CASE u = t
      BY Zenon, <1>6, <1>1, <1>9, <2>1
    <2>2. CASE u # t
      <3>1. u \in DOMAIN r.items /\ r.items[u] = "CREATED"
        BY <1>6, <1>9, <2>2
      <3>2. PICK d \in drafts : d.task = u /\ d.options = r.options
        BY Zenon, <1>2, <3>1 DEF MissingRunInv
      <3>3. PICK e \in drafts' : e.task = d.task /\ e.options = d.options
        OBVIOUS
      <3> QED
        BY <1>6, <3>2, <3>3
    <2> QED
      BY <2>1, <2>2
  <1>10. ASSUME NEW e \in drafts', e.author = p
        PROVE  e.task \in DOMAIN s.items /\ s.items[e.task] = "CREATED"
    <2>1. CASE \E d \in drafts : d.author = p /\ d.task = e.task
      <3>1. PICK d \in drafts : d.author = p /\ d.task = e.task
        BY <2>1
      <3>2. d.task \in DOMAIN r.items /\ r.items[d.task] = "CREATED"
        BY Zenon, <1>2, <3>1 DEF MissingRunInv
      <3> QED
        BY <1>6, <3>1, <3>2
    <2>2. CASE e.task = t /\ result = "CREATED"
      BY <1>6, <2>2
    <2> QED
      BY Zenon, <1>1, <1>10, <2>1, <2>2
  <1>11. s.options \in Options
    <2>1. pc[p] \in Busy \union {"select", "process"}
      OBVIOUS
    <2> QED
      BY Zenon, <1>2, <1>6, <2>1 DEF MissingRunInv
  <1>12. MissingRunInv(p, "process", s)'
    BY <1>7, <1>8, <1>9, <1>10, <1>11, <1>6 DEF MissingRunInv, IsMissingRun
  <1> QED
    BY <1>5, <1>7, <1>12, MissingMove

(* An item with a result other than CREATED, or for a draft that is there, *)
(* and no draft changes.                                                   *)
LEMMA PlainItem ==
  ASSUME MissingInv, NEW p \in Procs, NEW result \in Missing!Result,
         pc[p] \in Busy \union {"process"}, Missing!Left(generating[p]) # {},
         Missing!Item(p, result), UNCHANGED <<writer, drafts, open, address>>,
         result = "CREATED" =>
             \E e \in drafts : /\ e.task = Missing!NextOf(generating[p])
                               /\ e.options = generating[p].options
  PROVE  MissingInv'
  <1>1. drafts' \subseteq Missing!Draft /\ writer' = NoProc
    BY HeldRun
  <1>2. \A q \in Procs \ {p} : DraftsGrow(q)
    BY SameDrafts
  <1>3. /\ \A d \in drafts : \E e \in drafts' : e.task = d.task /\ e.options = d.options
        /\ \A e \in drafts' : e.author = p =>
             \/ \E d \in drafts : d.author = p /\ d.task = e.task
             \/ e.task = Missing!NextOf(generating[p]) /\ result = "CREATED"
    OBVIOUS
  <1>4. result = "CREATED" =>
             \E e \in drafts' : /\ e.task = Missing!NextOf(generating[p])
                                /\ e.options = generating[p].options
    OBVIOUS
  <1> QED
    BY <1>1, <1>2, <1>3, <1>4, ItemInv

LEMMA BusyRun ==
  ASSUME MissingInv, NEW p \in Procs, pc[p] \in Busy
  PROVE  /\ Missing!Left(generating[p]) # {}
         /\ Missing!Seen(p) \in Request
         /\ Missing!Seen(p).task = Missing!NextOf(generating[p])
         /\ Missing!Seen(p).options = generating[p].options
  <1>1. /\ Missing!Left(generating[p]) # {}
        /\ \E d \in Request : /\ generating[p].seen = {d} /\ d.task = Missing!NextOf(generating[p])
                              /\ d.options = generating[p].options
    BY HeldRun DEF MissingRunInv
  <1>2. PICK d \in Request : /\ generating[p].seen = {d} /\ d.task = Missing!NextOf(generating[p])
                             /\ d.options = generating[p].options
    BY <1>1
  <1>3. Missing!Seen(p) = d
    BY <1>2 DEF Missing!Seen
  <1> QED
    BY <1>1, <1>2, <1>3

LEMMA RunStartInv ==
  ASSUME MissingInv, NEW p \in Procs, Missing!RunStart(p)
  PROVE  MissingInv'
  <1>1. PICK o \in Options, n \in RunLimits, dry \in BOOLEAN :
            Missing!Set(p, "select", [Missing!NoRun EXCEPT !.options = o, !.limit = n, !.dry = dry])
    BY DEF Missing!RunStart
  <1>2. PICK none : none = Missing!NoRun
    OBVIOUS
  <1>3. PICK r : r = [none EXCEPT !.options = o, !.limit = n, !.dry = dry]
    OBVIOUS
  <1>4. Missing!Set(p, "select", r)
    BY <1>1, <1>2, <1>3
  <1>5. IsMissingRun(none) /\ DOMAIN none.items = {} /\ none.calls = 0 /\ none.selected = {}
    BY Zenon, <1>2, NoMissingRun
  <1>6. n \in Nat
    BY Zenon, TaskAssumption
  <1>7. /\ r \in [options : {r.options}, limit : Nat, dry : {r.dry}, selected : SUBSET Tasks,
                  items : {r.items}, seen : SUBSET Request, calls : Nat]
        /\ r.options = o /\ r.items = none.items /\ r.calls = none.calls
        /\ r.selected = none.selected /\ r.limit = n
    BY <1>3, <1>5, <1>6 DEF IsMissingRun
  <1>8. Cardinality(r.selected) = 0 /\ Cardinality(DOMAIN r.items) = 0
    <2>1. r.selected = {} /\ DOMAIN r.items = {}
      BY <1>5, <1>7
    <2>2. Cardinality({}) = 0
      BY FS_EmptySet
    <2> QED
      BY Zenon, <2>1, <2>2
  <1>9. IsMissingRun(r)
    <2>1. DOMAIN r.items \subseteq r.selected /\ Cardinality(r.selected) <= r.limit
      BY <1>5, <1>6, <1>7, <1>8
    <2>2. DOMAIN r.items = {} /\ r.items = [t \in DOMAIN r.items |-> r.items[t]]
      BY <1>5, <1>7 DEF IsMissingRun
    <2> QED
      BY <1>7, <2>1, <2>2 DEF IsMissingRun
  <1>10. r.calls + CallDue("select") <= Cardinality(DOMAIN r.items) + ItemDue("select")
    BY <1>5, <1>7, <1>8 DEF CallDue, ItemDue, Busy
  <1>11. pc[p] = "idle" /\ UNCHANGED <<writer, drafts, open, address>>
    BY DEF Missing!RunStart, Missing!others
  <1>12. \A d \in drafts : d.author # p
    BY <1>11, HeldRun DEF MissingRunInv
  <1>13. "select" \notin Busy \union {"process"} /\ "select" \in MissingLabels
    BY DEF Busy, MissingLabels
  <1>14. MissingRunInv(p, "select", r)
    BY <1>5, <1>7, <1>9, <1>10, <1>12, <1>13 DEF MissingRunInv
  <1> QED
    BY <1>4, <1>11, <1>13, <1>14, MissingGoes

(* There are no more first companies than the limit: below the last of     *)
(* them are the others.                                                    *)
LEMMA FirstOnes ==
  ASSUME NEW ks, ks \subseteq Nat, IsFiniteSet(ks), NEW limit \in Nat
  PROVE  LET first == {k \in ks : Cardinality({j \in ks : j < k}) < limit}
         IN  IsFiniteSet(first) /\ Cardinality(first) <= limit
  <1> DEFINE first == {k \in ks : Cardinality({j \in ks : j < k}) < limit}
  <1> SUFFICES IsFiniteSet(first) /\ Cardinality(first) <= limit
    OBVIOUS
  <1>1. IsFiniteSet(first) /\ Cardinality(first) \in Nat
    BY FS_Subset, FS_CardinalityType
  <1>2. CASE first = {}
    <2>1. Cardinality(first) = 0
      BY Zenon, <1>2, FS_EmptySet
    <2> QED
      BY <1>1, <2>1
  <1>3. CASE first # {}
    <2>1. PICK m \in first : \A n \in first : m >= n
      BY <1>1, <1>3, Greatest
    <2> DEFINE below == {j \in ks : j < m}
    <2>2. first \ {m} \subseteq below
      <3>1. first \subseteq ks /\ m \in ks
        OBVIOUS
      <3> HIDE DEF first
      <3> QED
        BY <2>1, <3>1
    <2>3. Cardinality(below) < limit
      OBVIOUS
    <2>4. IsFiniteSet(below)
      BY FS_Subset
    <2> HIDE DEF first, below
    <2>5. Cardinality(first \ {m}) <= Cardinality(below) /\ Cardinality(below) \in Nat
      BY <2>2, <2>4, FS_Subset, FS_CardinalityType
    <2>6. Cardinality(first \ {m}) = Cardinality(first) - 1
      BY <1>1, <2>1, FS_RemoveElement
    <2> QED
      BY <1>1, <2>3, <2>5, <2>6
  <1> QED
    BY <1>1, <1>2, <1>3

(* The instance's cardinality is the one the facts are about.              *)
LEMMA SameCardinality == \A S : Missing!Cardinality(S) = Cardinality(S)
  BY DEF Missing!Cardinality, Cardinality

(* A task of each of the first companies: no more than the limit.          *)
LEMMA CandidateTasksFacts ==
  ASSUME NEW limit \in Nat
  PROVE  /\ Missing!CandidateTasks(limit) \in SUBSET Tasks
         /\ Cardinality(Missing!CandidateTasks(limit)) <= limit
  <1> DEFINE companyOf == {TaskCompany[t] : t \in Tasks}
             ks == {k \in companyOf : Missing!WithoutDraft(k) # {}}
             first == {k \in ks : Cardinality({j \in ks : j < k}) < limit}
             newest(k) == Missing!Max(Missing!WithoutDraft(k))
  <1>1. TaskCompany \in [Tasks -> Nat] /\ IsFiniteSet(Tasks) /\ Tasks \subseteq Nat
    BY Zenon, TaskAssumption
  <1>2. IsFiniteSet(companyOf) /\ companyOf \subseteq Nat
    <2>1. companyOf \subseteq Nat
      BY <1>1
    <2>2. TaskCompany \in Surjection(Tasks, companyOf)
      BY <1>1 DEF Surjection
    <2> QED
      BY <1>1, <2>1, <2>2, FS_Surjection
  <1>3. IsFiniteSet(ks) /\ ks \subseteq Nat
    BY <1>2, FS_Subset
  <1>4. IsFiniteSet(first) /\ Cardinality(first) <= limit
    <2> HIDE DEF ks
    <2> QED
      BY <1>3, FirstOnes
  <1>5. \A k \in first : newest(k) \in Tasks
    <2> SUFFICES ASSUME NEW k \in first PROVE newest(k) \in Tasks
      OBVIOUS
    <2> DEFINE ts == Missing!WithoutDraft(k)
    <2>1. ts # {}
      OBVIOUS
    <2>2. ts \subseteq Tasks
      BY DEF Missing!WithoutDraft
    <2> HIDE DEF ts
    <2>3. IsFiniteSet(ts) /\ ts \subseteq Nat
      BY <1>1, <2>2, FS_Subset
    <2>4. \E n \in ts : \A m \in ts : n >= m
      BY <2>1, <2>3, Greatest
    <2>5. Missing!Max(ts) \in ts
      BY Zenon, <2>4 DEF Missing!Max
    <2> QED
      BY <2>2, <2>5 DEF ts
  <1>6. Missing!CandidateTasks(limit) = {newest(k) : k \in first}
    <2>1. first = {k \in ks : Missing!Cardinality({j \in ks : j < k}) < limit}
      BY Zenon, SameCardinality
    <2> HIDE DEF first
    <2> QED
      BY Zenon, <2>1 DEF Missing!CandidateTasks
  <1> DEFINE tasks == {newest(k) : k \in first}
             f == [k \in first |-> newest(k)]
  <1>7. f \in Surjection(first, tasks)
    BY DEF Surjection
  <1> HIDE DEF first, newest
  <1>8. tasks \in SUBSET Tasks
    BY <1>5
  <1>9. Cardinality(tasks) <= Cardinality(first) /\ IsFiniteSet(tasks)
    <2> HIDE DEF f, tasks
    <2> QED
      BY <1>4, <1>7, FS_Surjection
  <1>10. Cardinality(tasks) \in Nat /\ Cardinality(first) \in Nat
    BY <1>4, <1>9, FS_CardinalityType
  <1> HIDE DEF tasks
  <1>11. tasks \in SUBSET Tasks /\ Cardinality(tasks) <= limit
    BY <1>4, <1>8, <1>9, <1>10
  <1> QED
    BY Zenon, <1>6, <1>11 DEF tasks

LEMMA SelectInv ==
  ASSUME MissingInv, NEW p \in Procs, Missing!Select(p)
  PROVE  MissingInv'
  <1>1. PICK r : r = generating[p]
    OBVIOUS
  <1>2. PICK ts : ts = Missing!CandidateTasks(r.limit)
    OBVIOUS
  <1>3. PICK s : s = [r EXCEPT !.selected = ts]
    OBVIOUS
  <1>4. /\ Missing!Set(p, "process", s) /\ pc[p] = "select"
        /\ UNCHANGED <<writer, drafts, open, address>>
    BY <1>1, <1>2, <1>3 DEF Missing!Select, Missing!others
  <1>5. IsMissingRun(r) /\ MissingRunInv(p, "select", r) /\ r.limit \in Nat
    BY <1>1, <1>4, HeldRun, RunTasks
  <1>6. ts \in SUBSET Tasks /\ Cardinality(ts) <= r.limit
    BY Zenon, <1>2, <1>5, CandidateTasksFacts
  <1>7. /\ s \in [options : {s.options}, limit : Nat, dry : {s.dry}, selected : SUBSET Tasks,
                  items : {s.items}, seen : SUBSET Request, calls : Nat]
        /\ s.options = r.options /\ s.items = r.items /\ s.calls = r.calls
        /\ s.selected = ts /\ s.limit = r.limit
    BY <1>3, <1>5, <1>6 DEF IsMissingRun
  <1>8. DOMAIN r.items = {} /\ r.items = [t \in DOMAIN r.items |-> r.items[t]] /\ r.options \in Options
    BY <1>5 DEF MissingRunInv, IsMissingRun
  <1>9. IsMissingRun(s)
    BY <1>6, <1>7, <1>8 DEF IsMissingRun
  <1>10. s.calls + CallDue("process") <= Cardinality(DOMAIN s.items) + ItemDue("process")
    <2>1. r.calls + CallDue("select") <= Cardinality(DOMAIN r.items) + ItemDue("select")
      BY Zenon, <1>5 DEF MissingRunInv
    <2>2. s.calls = r.calls /\ DOMAIN s.items = DOMAIN r.items
      BY <1>7
    <2> QED
      BY <2>1, <2>2 DEF CallDue, ItemDue, Busy
  <1>11. \A d \in drafts : d.author # p
    BY <1>5 DEF MissingRunInv
  <1>12. "process" \notin Busy /\ "process" \in MissingLabels
    BY DEF Busy, MissingLabels
  <1>13. MissingRunInv(p, "process", s)
    BY <1>7, <1>8, <1>9, <1>10, <1>11, <1>12 DEF MissingRunInv
  <1> QED
    BY <1>4, <1>12, <1>13, MissingGoes

(* From one label of an item to another, the call counted where it is made.*)
LEMMA BusyMove ==
  ASSUME MissingInv, NEW p \in Procs, pc[p] \in Busy, NEW label \in Busy,
         NEW n \in Nat, Missing!Set(p, label, [generating[p] EXCEPT !.calls = n]),
         n + CallDue(label) <= generating[p].calls + CallDue(pc[p]),
         UNCHANGED <<writer, drafts, open, address>>
  PROVE  MissingInv'
  <1>1. PICK r : r = generating[p]
    OBVIOUS
  <1>2. PICK s : s = [r EXCEPT !.calls = n]
    OBVIOUS
  <1>3. Missing!Set(p, label, s)
    BY <1>1, <1>2
  <1>4. IsMissingRun(r) /\ MissingRunInv(p, pc[p], r)
    BY <1>1, HeldRun
  <1>5. /\ IsMissingRun(s) /\ s.options = r.options /\ s.items = r.items /\ s.calls = n
        /\ s.selected = r.selected /\ s.seen = r.seen
    BY <1>2, <1>4 DEF IsMissingRun
  <1>6. s.calls + CallDue(label) <= Cardinality(DOMAIN s.items) + ItemDue(label)
    <2>1. r.calls + CallDue(pc[p]) <= Cardinality(DOMAIN r.items) + ItemDue(pc[p])
      BY Zenon, <1>4 DEF MissingRunInv
    <2>2. r.calls \in Nat /\ Cardinality(DOMAIN r.items) \in Nat
      BY <1>4, RunTasks
    <2>3. s.calls = n /\ DOMAIN s.items = DOMAIN r.items
      BY <1>5
    <2>4. n + CallDue(label) <= r.calls + CallDue(pc[p])
      BY <1>1
    <2>5. ItemDue(label) = 1 /\ ItemDue(pc[p]) = 1
      BY DEF ItemDue
    <2>6. CallDue(label) \in Nat /\ CallDue(pc[p]) \in Nat
      BY DEF CallDue
    <2> QED
      BY <2>1, <2>2, <2>3, <2>4, <2>5, <2>6
  <1>7. label \in MissingLabels /\ label \notin {"idle", "select"} /\ pc[p] \in Busy \union {"process"}
        /\ pc[p] \in Busy \union {"select", "process"}
    BY DEF MissingLabels, Busy
  <1>8. Missing!Left(s) = Missing!Left(r) /\ Missing!NextOf(s) = Missing!NextOf(r)
    BY <1>5 DEF Missing!Left, Missing!NextOf
  <1>9. MissingRunInv(p, label, s)
    <2>1. s.options \in Options
      BY Zenon, <1>4, <1>5, <1>7 DEF MissingRunInv
    <2>2. \A t \in DOMAIN s.items :
              s.items[t] = "CREATED" => \E d \in drafts : d.task = t /\ d.options = s.options
      BY <1>4, <1>5 DEF MissingRunInv
    <2>3. \A d \in drafts : d.author = p => d.task \in DOMAIN s.items /\ s.items[d.task] = "CREATED"
      BY <1>4, <1>5, <1>7 DEF MissingRunInv
    <2>4. /\ Missing!Left(s) # {}
          /\ \E d \in Request : s.seen = {d} /\ d.task = Missing!NextOf(s) /\ d.options = s.options
      <3>1. /\ Missing!Left(r) # {}
            /\ \E d \in Request : r.seen = {d} /\ d.task = Missing!NextOf(r) /\ d.options = r.options
        BY Zenon, <1>4 DEF MissingRunInv
      <3> QED
        BY Zenon, <1>5, <1>8, <3>1
    <2> QED
      BY Zenon, <1>5, <1>6, <1>7, <2>1, <2>2, <2>3, <2>4 DEF MissingRunInv
  <1> QED
    BY <1>3, <1>7, <1>9, MissingGoes

(* From one label of an item to another with nothing changed.              *)
LEMMA BusyStay ==
  ASSUME MissingInv, NEW p \in Procs, pc[p] \in Busy, NEW label \in Busy,
         Missing!Set(p, label, generating[p]), CallDue(label) <= CallDue(pc[p]),
         UNCHANGED <<writer, drafts, open, address>>
  PROVE  MissingInv'
  <1>1. PICK r : r = generating[p]
    OBVIOUS
  <1>2. IsMissingRun(r) /\ r.calls \in Nat
    BY <1>1, HeldRun, RunTasks
  <1>3. r = [r EXCEPT !.calls = r.calls]
    BY <1>2 DEF IsMissingRun
  <1>4. Missing!Set(p, label, [generating[p] EXCEPT !.calls = r.calls])
    BY Zenon, <1>1, <1>3
  <1>5. r.calls + CallDue(label) <= generating[p].calls + CallDue(pc[p])
    BY <1>1, <1>2 DEF CallDue
  <1> QED
    BY <1>2, <1>4, <1>5, BusyMove

LEMMA Results ==
  {"CREATED", "WOULD_CREATE", "SKIPPED_EXISTING", "SKIPPED_NO_EMAIL", "FAILED"} \subseteq Missing!Result
  BY DEF Missing!Result

(* What the reads of an item lead to.                                      *)
LEMMA ProcessInv ==
  ASSUME MissingInv, NEW p \in Procs, Missing!Process(p)
  PROVE  MissingInv'
  <1>1. PICK r, t : r = generating[p] /\ t = Missing!NextOf(r)
    OBVIOUS
  <1>2. /\ pc[p] = "process" /\ Missing!Left(r) # {} /\ Missing!Left(generating[p]) # {}
        /\ UNCHANGED <<writer, drafts, open, address>>
    BY <1>1 DEF Missing!Process, Missing!others
  <1>3. ASSUME NEW result \in Missing!Result \ {"CREATED"}, Missing!Item(p, result)
        PROVE  MissingInv'
    BY <1>2, <1>3, PlainItem
  <1>4. ASSUME ~(address[t].contact = NoEmail /\ address[t].company = NoEmail),
               Missing!Set(p, "find", [r EXCEPT !.seen = {Missing!Wanted(r, t)}])
        PROVE  MissingInv'
    <2>1. IsMissingRun(r) /\ MissingRunInv(p, "process", r)
      BY <1>1, <1>2, HeldRun
    <2>2. t \in r.selected \ DOMAIN r.items
      BY Zenon, <1>1, <1>2, <2>1, NextOfFacts
    <2>3. t \in Tasks /\ r.options \in Options
      BY <2>1, <2>2, RunTasks DEF MissingRunInv
    <2>4. PICK d : d = Missing!Wanted(r, t)
      OBVIOUS
    <2>5. d \in Request /\ d.task = t /\ d.options = r.options
      <3>1. address[t] \in Missing!Address
        BY <2>3, HeldRun
      <3> QED
        BY <1>4, <2>3, <2>4, <3>1 DEF Missing!Wanted, Missing!Address, Request
    <2>6. PICK s : s = [r EXCEPT !.seen = {d}]
      OBVIOUS
    <2>7. Missing!Set(p, "find", s)
      BY <1>4, <2>4, <2>6
    <2>8. /\ IsMissingRun(s) /\ s.options = r.options /\ s.items = r.items /\ s.calls = r.calls
          /\ s.selected = r.selected /\ s.seen = {d}
      BY <2>1, <2>5, <2>6 DEF IsMissingRun
    <2>9. Missing!Left(s) = Missing!Left(r) /\ Missing!NextOf(s) = Missing!NextOf(r)
      BY <2>8 DEF Missing!Left, Missing!NextOf
    <2>10. s.calls + CallDue("find") <= Cardinality(DOMAIN s.items) + ItemDue("find")
      <3>1. r.calls + CallDue("process") <= Cardinality(DOMAIN r.items) + ItemDue("process")
        BY Zenon, <2>1 DEF MissingRunInv
      <3>2. r.calls \in Nat /\ Cardinality(DOMAIN r.items) \in Nat
        BY <2>1, RunTasks
      <3>3. s.calls = r.calls /\ DOMAIN s.items = DOMAIN r.items
        BY <2>8
      <3> QED
        BY <3>1, <3>2, <3>3 DEF CallDue, ItemDue, Busy
    <2>11. "find" \in Busy /\ "find" \in MissingLabels /\ "find" \notin {"idle", "select"}
      BY DEF Busy, MissingLabels
    <2>12. MissingRunInv(p, "find", s)
      <3>1. \A u \in DOMAIN s.items :
                s.items[u] = "CREATED" => \E e \in drafts : e.task = u /\ e.options = s.options
        BY <2>1, <2>8 DEF MissingRunInv
      <3>2. \A e \in drafts : e.author = p => e.task \in DOMAIN s.items /\ s.items[e.task] = "CREATED"
        BY <2>1, <2>8 DEF MissingRunInv
      <3>3. /\ Missing!Left(s) # {}
            /\ \E e \in Request : s.seen = {e} /\ e.task = Missing!NextOf(s) /\ e.options = s.options
        BY <1>1, <1>2, <2>5, <2>8, <2>9
      <3>4. s.options \in Options
        BY <2>3, <2>8
      <3> QED
        BY Zenon, <2>8, <2>10, <2>11, <3>1, <3>2, <3>3, <3>4 DEF MissingRunInv
    <2> QED
      BY <1>2, <2>7, <2>11, <2>12, MissingGoes
  <1>5. /\ "SKIPPED_EXISTING" \in Missing!Result \ {"CREATED"}
        /\ "SKIPPED_NO_EMAIL" \in Missing!Result \ {"CREATED"}
        /\ "WOULD_CREATE" \in Missing!Result \ {"CREATED"}
        /\ "FAILED" \in Missing!Result \ {"CREATED"}
    BY Results
  <1>6. \/ \E result \in Missing!Result \ {"CREATED"} : Missing!Item(p, result)
        \/ /\ ~(address[t].contact = NoEmail /\ address[t].company = NoEmail)
           /\ Missing!Set(p, "find", [r EXCEPT !.seen = {Missing!Wanted(r, t)}])
    BY Zenon, <1>1, <1>5 DEF Missing!Process
  <1> QED
    BY Zenon, <1>3, <1>4, <1>6

LEMMA FindInv ==
  ASSUME MissingInv, NEW p \in Procs, Missing!Find(p)
  PROVE  MissingInv'
  <1>1. pc[p] = "find" /\ "find" \in Busy /\ "provider" \in Busy
        /\ UNCHANGED <<writer, drafts, open, address>>
    BY DEF Missing!Find, Missing!others, Busy
  <1>2. /\ Missing!Left(generating[p]) # {}
        /\ Missing!Seen(p).task = Missing!NextOf(generating[p])
        /\ Missing!Seen(p).options = generating[p].options
    BY <1>1, BusyRun
  <1>3. CASE Missing!Set(p, "provider", generating[p])
    BY <1>1, <1>3, BusyStay DEF CallDue
  <1>4. CASE Missing!Item(p, "FAILED")
    BY <1>1, <1>2, <1>4, PlainItem, Results
  <1>5. CASE Missing!WithFingerprint(Missing!Seen(p)) # {} /\ Missing!Item(p, "CREATED")
    <2>1. PICK e \in drafts : Missing!Fingerprint(e) = Missing!Fingerprint(Missing!Seen(p))
      BY <1>5 DEF Missing!WithFingerprint
    <2>2. e.task = Missing!NextOf(generating[p]) /\ e.options = generating[p].options
      BY <1>2, <2>1 DEF Missing!Fingerprint
    <2>3. "CREATED" \in Missing!Result
      BY Results
    <2> QED
      BY <1>1, <1>2, <1>5, <2>2, <2>3, PlainItem
  <1> QED
    BY Zenon, <1>3, <1>4, <1>5 DEF Missing!Find

LEMMA ProviderInv ==
  ASSUME MissingInv, NEW p \in Procs, Missing!Provider(p)
  PROVE  MissingInv'
  <1>1. PICK r : r = generating[p]
    OBVIOUS
  <1>2. r.calls \in Nat
    BY <1>1, HeldRun, RunTasks
  <1>3. pc[p] = "provider" /\ {"provider", "recheck", "failed"} \subseteq Busy
        /\ UNCHANGED <<writer, drafts, open, address>>
    BY DEF Missing!Provider, Missing!others, Busy
  <1>4. ASSUME NEW label \in {"recheck", "failed"},
               Missing!Set(p, label, [r EXCEPT !.calls = r.calls + 1])
        PROVE  MissingInv'
    <2>1. PICK n \in Nat : n = r.calls + 1
      BY <1>2
    <2>2. Missing!Set(p, label, [generating[p] EXCEPT !.calls = n])
      BY Zenon, <1>1, <1>4, <2>1
    <2>3. n + CallDue(label) <= generating[p].calls + CallDue(pc[p])
      BY <1>1, <1>2, <1>3, <2>1 DEF CallDue
    <2>4. label \in Busy /\ pc[p] \in Busy
      BY <1>3
    <2> QED
      BY <1>3, <2>2, <2>3, <2>4, BusyMove
  <1>5. CASE Missing!Set(p, "failed", r)
    BY <1>1, <1>3, <1>5, BusyStay DEF CallDue
  <1>6. \/ \E label \in {"recheck", "failed"} : Missing!Set(p, label, [r EXCEPT !.calls = r.calls + 1])
        \/ Missing!Set(p, "failed", r)
    BY <1>1 DEF Missing!Provider
  <1> QED
    BY Zenon, <1>4, <1>5, <1>6

LEMMA FailedInv ==
  ASSUME MissingInv, NEW p \in Procs, Missing!Failed(p)
  PROVE  MissingInv'
  <1>1. pc[p] \in Busy /\ Missing!Item(p, "FAILED") /\ UNCHANGED <<writer, drafts, open, address>>
    BY DEF Missing!Failed, Missing!others, Busy
  <1> QED
    BY <1>1, BusyRun, PlainItem, Results

LEMMA RecheckInv ==
  ASSUME MissingInv, NEW p \in Procs, Missing!Recheck(p)
  PROVE  MissingInv'
  <1>1. pc[p] \in Busy /\ "insert" \in Busy /\ UNCHANGED <<writer, drafts, open, address>>
        /\ pc[p] = "recheck"
    BY DEF Missing!Recheck, Missing!others, Busy
  <1>2. CASE Missing!Item(p, "FAILED")
    BY <1>1, <1>2, BusyRun, PlainItem, Results
  <1>3. CASE Missing!Set(p, "insert", generating[p])
    BY <1>1, <1>3, BusyStay DEF CallDue
  <1> QED
    BY Zenon, <1>2, <1>3 DEF Missing!Recheck

LEMMA InsertInv ==
  ASSUME MissingInv, NEW p \in Procs, Missing!Insert(p)
  PROVE  MissingInv'
  <1>1. pc[p] \in Busy /\ UNCHANGED <<open, address>> /\ writer' = NoProc /\ UNCHANGED writer
    BY HeldRun DEF Missing!Insert, Missing!WriteAtOnce, Busy
  <1>2. /\ Missing!Left(generating[p]) # {} /\ Missing!Seen(p) \in Request
        /\ Missing!Seen(p).task = Missing!NextOf(generating[p])
        /\ Missing!Seen(p).options = generating[p].options
    BY <1>1, BusyRun
  <1>3. CASE Missing!Item(p, "FAILED") /\ UNCHANGED drafts
    BY <1>1, <1>2, <1>3, PlainItem, Results
  <1>4. CASE /\ drafts' = drafts \union {Missing!Authored(Missing!Seen(p), p)}
             /\ Missing!Item(p, "CREATED")
    <2>1. PICK new : new = Missing!Authored(Missing!Seen(p), p)
      OBVIOUS
    <2>2. /\ new \in Missing!Draft /\ new.author = p
          /\ new.task = Missing!NextOf(generating[p]) /\ new.options = generating[p].options
      BY <1>2, <2>1 DEF Missing!Authored, Missing!Draft, Request
    <2>3. drafts' = drafts \union {new}
      BY <1>4, <2>1
    <2>4. drafts' \subseteq Missing!Draft
      BY <2>2, <2>3, HeldRun
    <2>5. \A q \in Procs \ {p} : DraftsGrow(q)
      BY <2>2, <2>3 DEF DraftsGrow
    <2>6. /\ \A d \in drafts : \E e \in drafts' : e.task = d.task /\ e.options = d.options
          /\ \A e \in drafts' : e.author = p =>
                 \/ \E d \in drafts : d.author = p /\ d.task = e.task
                 \/ e.task = Missing!NextOf(generating[p]) /\ "CREATED" = "CREATED"
          /\ \E e \in drafts' : /\ e.task = Missing!NextOf(generating[p])
                                /\ e.options = generating[p].options
      BY <2>2, <2>3
    <2>7. "CREATED" \in Missing!Result
      BY Results
    <2> QED
      BY <1>1, <1>2, <1>4, <2>4, <2>5, <2>6, <2>7, ItemInv
  <1> QED
    BY Zenon, <1>3, <1>4 DEF Missing!Insert

(* A process that does not work any more.                                  *)
LEMMA MissingEnds ==
  ASSUME MissingInv, NEW p \in Procs, NEW label \in {"done", "dead"}, NEW r, IsMissingRun(r),
         Missing!Set(p, label, r),
         r.calls <= Cardinality(DOMAIN r.items),
         \A t \in DOMAIN r.items :
             r.items[t] = "CREATED" => \E d \in drafts : d.task = t /\ d.options = r.options,
         UNCHANGED <<writer, drafts, open, address>>
  PROVE  MissingInv'
  <1>1. label \in MissingLabels /\ label \notin Busy \union {"idle", "select", "process"}
    BY DEF MissingLabels, Busy
  <1>2. r.calls + CallDue(label) <= Cardinality(DOMAIN r.items) + ItemDue(label)
    BY <1>1, RunTasks DEF CallDue, ItemDue
  <1>3. MissingRunInv(p, label, r)
    BY <1>1, <1>2 DEF MissingRunInv
  <1> QED
    BY <1>1, <1>3, MissingGoes

LEMMA MissingReportInv ==
  ASSUME MissingInv, NEW p \in Procs, Missing!Report(p)
  PROVE  MissingInv'
  <1>1. PICK r : r = generating[p]
    OBVIOUS
  <1>2. pc[p] = "process" /\ Missing!Set(p, "done", r) /\ UNCHANGED <<writer, drafts, open, address>>
    BY <1>1 DEF Missing!Report, Missing!others
  <1>3. IsMissingRun(r) /\ MissingRunInv(p, "process", r)
    BY <1>1, <1>2, HeldRun
  <1>4. r.calls <= Cardinality(DOMAIN r.items)
    <2>1. r.calls + CallDue("process") <= Cardinality(DOMAIN r.items) + ItemDue("process")
      BY Zenon, <1>3 DEF MissingRunInv
    <2>2. r.calls \in Nat /\ Cardinality(DOMAIN r.items) \in Nat
      BY <1>3, RunTasks
    <2> QED
      BY <2>1, <2>2 DEF CallDue, ItemDue, Busy
  <1>5. \A t \in DOMAIN r.items :
            r.items[t] = "CREATED" => \E d \in drafts : d.task = t /\ d.options = r.options
    BY <1>3 DEF MissingRunInv
  <1> QED
    BY <1>2, <1>3, <1>4, <1>5, MissingEnds

LEMMA MissingCrashInv ==
  ASSUME MissingInv, NEW p \in Procs, Missing!Crash(p)
  PROVE  MissingInv'
  <1>1. PICK r : r = Missing!NoRun
    OBVIOUS
  <1>2. IsMissingRun(r) /\ DOMAIN r.items = {} /\ r.calls = 0
    BY Zenon, <1>1, NoMissingRun
  <1>3. Missing!Set(p, "dead", r) /\ UNCHANGED <<writer, drafts, open, address>>
    BY <1>1 DEF Missing!Crash, Missing!others
  <1>4. r.calls <= Cardinality(DOMAIN r.items)
    BY <1>2, RunTasks
  <1> QED
    BY <1>2, <1>3, <1>4, MissingEnds

(* What else happens takes no draft away, and makes none.                  *)
LEMMA MissingOutside ==
  ASSUME MissingInv, UNCHANGED <<writer, pc, generating>>,
         drafts' \subseteq Missing!Draft,
         open' \in [Tasks -> BOOLEAN], address' \in [Tasks -> Missing!Address],
         \A q \in Procs : DraftsGrow(q)
  PROVE  MissingInv'
  <1>1. MissingTables'
    BY DEF MissingInv, MissingTables
  <1>2. ASSUME NEW q \in Procs PROVE MissingRunInv(q, pc[q], generating[q])'
    BY HeldRun, RunStays
  <1> QED
    BY <1>1, <1>2 DEF MissingInv

LEMMA MissingMeanwhile ==
  ASSUME MissingInv, Missing!Review \/ \E t \in Tasks : Missing!Readdress(t) \/ Missing!Close(t)
  PROVE  MissingInv'
  <1>1. /\ drafts \subseteq Missing!Draft
        /\ open \in [Tasks -> BOOLEAN] /\ address \in [Tasks -> Missing!Address]
    BY DEF MissingInv, MissingTables
  <1>2. CASE Missing!Review
    <2>1. UNCHANGED <<writer, pc, generating, open, address>>
      BY <1>2 DEF Missing!Review, Missing!Change
    <2>2. PICK d \in drafts : drafts' = (drafts \ {d}) \union {[d EXCEPT !.reviewed = TRUE]}
      BY <1>2 DEF Missing!Review
    <2>3. PICK e : e = [d EXCEPT !.reviewed = TRUE]
      OBVIOUS
    <2>4. e \in Missing!Draft /\ e.task = d.task /\ e.options = d.options /\ e.author = d.author
      BY <1>1, <2>2, <2>3 DEF Missing!Draft
    <2>5. drafts' = (drafts \ {d}) \union {e}
      BY <2>2, <2>3
    <2>6. drafts' \subseteq Missing!Draft /\ \A q \in Procs : DraftsGrow(q)
      BY <1>1, <2>4, <2>5 DEF DraftsGrow
    <2> QED
      BY <1>1, <2>1, <2>6, MissingOutside
  <1>3. ASSUME NEW t \in Tasks, Missing!Readdress(t) PROVE MissingInv'
    <2>1. PICK a \in Missing!Address : address' = [address EXCEPT ![t] = a]
      BY <1>3 DEF Missing!Readdress
    <2>2. UNCHANGED <<writer, pc, generating, open, drafts>>
      BY <1>3 DEF Missing!Readdress, Missing!Change
    <2>3. address' \in [Tasks -> Missing!Address]
      BY <1>1, <2>1
    <2> QED
      BY <1>1, <2>2, <2>3, SameDrafts, MissingOutside
  <1>4. ASSUME NEW t \in Tasks, Missing!Close(t) PROVE MissingInv'
    <2>1. open' = [open EXCEPT ![t] = FALSE] /\ UNCHANGED <<writer, pc, generating, address, drafts>>
      BY <1>4 DEF Missing!Close, Missing!Change
    <2>2. open' \in [Tasks -> BOOLEAN]
      BY <1>1, <2>1
    <2> QED
      BY <1>1, <2>1, <2>2, SameDrafts, MissingOutside
  <1> QED
    BY Zenon, <1>2, <1>3, <1>4

LEMMA MissingStepInv == ASSUME MissingInv, Missing!Next PROVE MissingInv'
  <1>1. ASSUME NEW p \in Procs, Missing!DraftsStep(p) PROVE MissingInv'
    <2>1. CASE Missing!RunStart(p) \/ Missing!Select(p) \/ Missing!Process(p) \/ Missing!Find(p)
      BY Zenon, <2>1, RunStartInv, SelectInv, ProcessInv, FindInv
    <2>2. CASE Missing!Provider(p) \/ Missing!Failed(p) \/ Missing!Recheck(p)
      BY Zenon, <2>2, ProviderInv, FailedInv, RecheckInv
    <2>3. CASE Missing!Insert(p) \/ Missing!Report(p) \/ Missing!Crash(p)
      BY Zenon, <2>3, InsertInv, MissingReportInv, MissingCrashInv
    <2> QED
      BY Zenon, <1>1, <2>1, <2>2, <2>3 DEF Missing!DraftsStep
  <1> QED
    BY Zenon, <1>1, MissingMeanwhile DEF Missing!Next

MissingKept ==
    IF command = "missing" THEN MissingInv
    ELSE drafts = {} /\ generating = [p \in Procs |-> Missing!NoRun]

LEMMA MissingKeptStep ==
  ASSUME MissingKept, [Acquire \/ ImportCompanies \/ GenerateMissing \/ ExportCrm]_all
  PROVE  MissingKept'
  <1>1. CASE GenerateMissing
    <2>1. command' = "missing" /\ MissingInv /\ Missing!Next
      BY <1>1 DEF GenerateMissing, MissingKept
    <2> QED
      BY <2>1, MissingStepInv DEF MissingKept
  <1>2. CASE (Acquire \/ ImportCompanies \/ ExportCrm) /\ command # "missing"
    BY <1>2 DEF Acquire, ImportCompanies, ExportCrm, missing, MissingKept
  <1>3. CASE UNCHANGED all
    <2>1. UNCHANGED <<command, writer, pc, generating, drafts, open, address>>
      BY <1>3 DEF all, missing, processes
    <2>2. CASE command = "missing"
      <3>1. MissingInv
        BY <2>2 DEF MissingKept
      <3>2. MissingInv'
        BY <2>1, <3>1, SameDrafts, HeldRun, MissingOutside DEF MissingInv, MissingTables
      <3> QED
        BY <2>1, <2>2, <3>2 DEF MissingKept
    <2>3. CASE command # "missing"
      BY <2>1, <2>3 DEF MissingKept
    <2> QED
      BY <2>2, <2>3
  <1> QED
    BY <1>1, <1>2, <1>3 DEF Acquire, ImportCompanies, ExportCrm

LEMMA MissingInvariant == BulkSpec => []MissingKept
  <1>1. BulkInit => MissingKept
    BY MissingInit DEF BulkInit, MissingKept, Missing!Init
  <1> QED
    BY <1>1, MissingKeptStep, PTL DEF BulkSpec

(* Only a run that has an item for each of its tasks reports.              *)
LEMMA OnlyReports ==
  ASSUME MissingInv, NEW p \in Procs, Missing!Next, pc[p] # "done", pc'[p] = "done"
  PROVE  pc[p] = "process" /\ Missing!Left(generating[p]) = {}
  <1>1. pc \in [Procs -> MissingLabels] /\ DOMAIN generating = Procs
    BY HeldRun
  <1>2. ASSUME NEW q \in Procs, NEW label, NEW r, Missing!Set(q, label, r)
        PROVE  q = p /\ label = "done"
    BY <1>1, <1>2 DEF Missing!Set, Missing!Goto
  <1>3. ASSUME NEW q \in Procs, NEW label, label # "done", NEW r, Missing!Set(q, label, r)
        PROVE  FALSE
    BY <1>2, <1>3
  <1>4. ASSUME NEW q \in Procs, NEW result, Missing!Item(q, result) PROVE FALSE
    <2>1. \E r : Missing!Set(q, "process", r)
      BY Zenon, <1>4 DEF Missing!Item
    <2> QED
      BY <1>3, <2>1
  <1>5. ASSUME NEW q \in Procs, Missing!DraftsStep(q), ~Missing!Report(q) PROVE FALSE
    <2>0. \A label \in {"select", "process", "find", "provider", "recheck", "failed", "insert", "dead"} :
              label # "done"
      OBVIOUS
    <2>1. ~Missing!RunStart(q) /\ ~Missing!Select(q) /\ ~Missing!Crash(q)
      BY Zenon, <1>3, <2>0 DEF Missing!RunStart, Missing!Select, Missing!Crash
    <2>2. ~Missing!Process(q) /\ ~Missing!Find(q)
      BY Zenon, <1>3, <1>4, <2>0 DEF Missing!Process, Missing!Find
    <2>3. ~Missing!Provider(q) /\ ~Missing!Failed(q) /\ ~Missing!Recheck(q) /\ ~Missing!Insert(q)
      BY Zenon, <1>3, <1>4, <2>0
      DEF Missing!Provider, Missing!Failed, Missing!Recheck, Missing!Insert
    <2> QED
      BY Zenon, <1>5, <2>1, <2>2, <2>3 DEF Missing!DraftsStep
  <1>6. pc' # pc
    OBVIOUS
  <1>7. ~Missing!Review /\ \A t \in Tasks : ~Missing!Readdress(t) /\ ~Missing!Close(t)
    BY <1>6 DEF Missing!Review, Missing!Readdress, Missing!Close, Missing!Change
  <1>8. PICK q \in Procs : Missing!Report(q)
    BY Zenon, <1>5, <1>7 DEF Missing!Next
  <1>9. q = p
    BY <1>2, <1>8 DEF Missing!Report
  <1> QED
    BY <1>8, <1>9 DEF Missing!Report

(* What a run of generate-missing reports is what it has left in the       *)
(* tables: a task it lists as CREATED has a draft of the request it was    *)
(* asked for, and no draft of its making is listed as anything else,       *)
(* whatever changes between the list and an item and between the reads of  *)
(* an item (MissingDraftBatchService).                                     *)
THEOREM ReportedDraftsExist == BulkSpec => DraftsReported
  <1> DEFINE True(p) ==
        LET r == generating[p]
            created == {t \in r.selected : r.items[t] = "CREATED"}
        IN  /\ \A t \in created : \E d \in drafts : d.task = t /\ d.options = r.options
            /\ \A d \in drafts : d.author = p => d.task \in created
  <1>1. ASSUME MissingKept, [Acquire \/ ImportCompanies \/ GenerateMissing \/ ExportCrm]_all
        PROVE  [\A p \in Procs : pc[p] # "done" /\ pc'[p] = "done" => True(p)]_(Missing!vars)
    <2>1. CASE GenerateMissing
      <3>1. MissingInv /\ Missing!Next
        BY <1>1, <2>1 DEF GenerateMissing, MissingKept
      <3>2. ASSUME NEW p \in Procs, pc[p] # "done", pc'[p] = "done" PROVE True(p)
        <4>1. PICK r : r = generating[p]
          OBVIOUS
        <4>2. pc[p] = "process" /\ Missing!Left(r) = {}
          BY <3>1, <3>2, <4>1, OnlyReports
        <4>3. IsMissingRun(r) /\ MissingRunInv(p, "process", r)
          BY <3>1, <4>1, <4>2, HeldRun
        <4>4. DOMAIN r.items = r.selected
          BY <4>2, <4>3 DEF Missing!Left, IsMissingRun
        <4>5. \A t \in DOMAIN r.items :
                  r.items[t] = "CREATED" => \E d \in drafts : d.task = t /\ d.options = r.options
          BY Zenon, <4>3 DEF MissingRunInv
        <4>6. \A d \in drafts : d.author = p => d.task \in DOMAIN r.items /\ r.items[d.task] = "CREATED"
          BY <4>3 DEF MissingRunInv
        <4> QED
          BY <4>1, <4>4, <4>5, <4>6
      <3> HIDE DEF True
      <3> QED
        BY <3>2
    <2>2. CASE (Acquire \/ ImportCompanies \/ ExportCrm) /\ command # "missing"
      <3>1. drafts = {} /\ generating = [p \in Procs |-> Missing!NoRun]
        BY <1>1, <2>2 DEF MissingKept
      <3>2. ASSUME NEW p \in Procs PROVE True(p)
        <4>1. generating[p].selected = {}
          BY Zenon, <3>1, NoMissingRun
        <4> QED
          BY <3>1, <4>1
      <3> HIDE DEF True
      <3> QED
        BY <3>2
    <2>3. CASE UNCHANGED all
      <3>1. pc' = pc
        BY <2>3 DEF all, processes
      <3> HIDE DEF True
      <3> QED
        BY <3>1
    <2> HIDE DEF True
    <2>4. Acquire \/ ImportCompanies \/ ExportCrm => command # "missing"
      BY DEF Acquire, ImportCompanies, ExportCrm
    <2> QED
      BY Zenon, <1>1, <2>1, <2>2, <2>3, <2>4
  <1> QED
    BY <1>1, MissingInvariant, PTL DEF BulkSpec, DraftsReported, Missing!DraftsReported


-----------------------------------------------------------------------------
(* The imports. *)

LEMMA ImportCardinality == \A S : Import!Cardinality(S) = Cardinality(S)
  BY DEF Import!Cardinality, Cardinality

Line == Import!Row \union {Malformed}

(* A row without an error.                                                 *)
GoodRow == [host : Hosts \union {NoHost}, name : Names \union {NoName}]

(* Numbers of a set up to one of its members: no two members share one.    *)
LEMMA Ranks ==
  ASSUME NEW K, IsFiniteSet(K), K \subseteq Nat,
         NEW f, f = [i \in K |-> Cardinality({h \in K : h <= i})]
  PROVE  f \in Surjection(K, 1..Cardinality(K))
  <1> DEFINE Below(i) == {h \in K : h <= i}
  <1>1. \A i \in K : IsFiniteSet(Below(i)) /\ Cardinality(Below(i)) \in 1..Cardinality(K)
    <2> SUFFICES ASSUME NEW i \in K
                 PROVE  IsFiniteSet(Below(i)) /\ Cardinality(Below(i)) \in 1..Cardinality(K)
      OBVIOUS
    <2>1. Below(i) \in SUBSET K /\ Below(i) # {}
      OBVIOUS
    <2>2. IsFiniteSet(Below(i)) /\ Cardinality(Below(i)) <= Cardinality(K)
      BY <2>1, FS_Subset
    <2>3. Cardinality(Below(i)) \in Nat /\ Cardinality(Below(i)) # 0 /\ Cardinality(K) \in Nat
      BY <2>1, <2>2, FS_CardinalityType, FS_EmptySet
    <2> HIDE DEF Below
    <2> QED
      BY <2>2, <2>3
  <1>2. \A i, h \in K : i < h => Cardinality(Below(i)) # Cardinality(Below(h))
    <2> SUFFICES ASSUME NEW i \in K, NEW h \in K, i < h
                 PROVE  Cardinality(Below(i)) # Cardinality(Below(h))
      OBVIOUS
    <2>0. i \in Nat /\ h \in Nat /\ K \subseteq Nat
      OBVIOUS
    <2>1. Below(i) \in SUBSET Below(h) /\ h \in Below(h) /\ h \notin Below(i)
      <3>1. \A x \in K : x <= i => x <= h
        BY <2>0
      <3>2. Below(i) \subseteq Below(h)
        BY <3>1
      <3>3. h <= h /\ ~(h <= i)
        BY <2>0
      <3> QED
        BY <3>2, <3>3
    <2>2. IsFiniteSet(Below(h))
      BY <1>1
    <2> HIDE DEF Below
    <2>3. Cardinality(Below(h)) = Cardinality(Below(i)) => Below(h) = Below(i)
      BY <2>1, <2>2, FS_Subset
    <2> QED
      BY <2>1, <2>3
  <1>3. f \in Injection(K, 1..Cardinality(K))
    <2>1. f \in [K -> 1..Cardinality(K)]
      BY <1>1
    <2>2. \A i, h \in K : f[i] = f[h] => i = h
      <3> SUFFICES ASSUME NEW i \in K, NEW h \in K, f[i] = f[h]
                   PROVE  i = h
        OBVIOUS
      <3>1. Cardinality(Below(i)) = Cardinality(Below(h))
        OBVIOUS
      <3>2. i \in Nat /\ h \in Nat
        OBVIOUS
      <3> HIDE DEF Below
      <3> QED
        BY <1>2, <3>1, <3>2
    <2> QED
      BY <2>1, <2>2 DEF Injection, IsInjective
  <1>4. IsFiniteSet(1..Cardinality(K)) /\ Cardinality(1..Cardinality(K)) = Cardinality(K)
    <2>1. Cardinality(K) \in Nat
      BY FS_CardinalityType
    <2> QED
      BY <2>1, FS_Interval
  <1> QED
    BY <1>3, <1>4, FS_Injection

(* What is left of the lines are rows, and no more than there are lines.   *)
LEMMA UsableFacts ==
  ASSUME NEW lines \in Seq(Line)
  PROVE  Import!Usable(lines) \in Seq(Import!Row) /\ Len(Import!Usable(lines)) <= Len(lines)
  <1> DEFINE kept == {i \in DOMAIN lines : lines[i] # Malformed}
             upTo(i) == Import!Cardinality({h \in kept : h <= i})
             nth(k) == CHOOSE i \in kept : upTo(i) = k
  <1>1. DOMAIN lines = 1..Len(lines) /\ Len(lines) \in Nat
    OBVIOUS
  <1>2. IsFiniteSet(1..Len(lines)) /\ Cardinality(1..Len(lines)) = Len(lines)
    BY <1>1, FS_Interval
  <1>3. kept \in SUBSET (1..Len(lines)) /\ kept \subseteq Nat
    BY <1>1
  <1>4. /\ IsFiniteSet(kept) /\ Cardinality(kept) <= Len(lines)
        /\ Cardinality(kept) \in Nat
    <2> HIDE DEF kept
    <2>1. IsFiniteSet(kept) /\ Cardinality(kept) <= Len(lines)
      BY <1>2, <1>3, FS_Subset
    <2> QED
      BY <2>1, FS_CardinalityType
  <1>5. \A k \in 1..Cardinality(kept) : nth(k) \in kept
    <2>1. PICK f : f = [i \in kept |-> Cardinality({h \in kept : h <= i})]
      OBVIOUS
    <2>2. f \in Surjection(kept, 1..Cardinality(kept))
      <3> HIDE DEF kept
      <3> QED
        BY <1>3, <1>4, <2>1, Ranks
    <2>3. \A k \in 1..Cardinality(kept) : \E i \in kept : f[i] = k
      BY <2>2 DEF Surjection
    <2>4. \A k \in 1..Cardinality(kept) : \E i \in kept : upTo(i) = k
      BY <2>1, <2>3, ImportCardinality
    <2> HIDE DEF kept, upTo
    <2> QED
      BY <2>4
  <1>6. Import!Usable(lines) = [k \in 1..Cardinality(kept) |-> lines[nth(k)]]
    <2>1. Import!Usable(lines) = [k \in 1..Import!Cardinality(kept) |-> lines[nth(k)]]
      BY DEF Import!Usable
    <2> HIDE DEF kept, nth
    <2> QED
      BY <2>1, ImportCardinality
  <1>7. \A i \in kept : lines[i] \in Import!Row
    BY DEF Line
  <1>8. \A k \in 1..Cardinality(kept) : lines[nth(k)] \in Import!Row
    BY <1>5, <1>7
  <1> SUFFICES /\ [k \in 1..Cardinality(kept) |-> lines[nth(k)]] \in Seq(Import!Row)
               /\ Len([k \in 1..Cardinality(kept) |-> lines[nth(k)]]) <= Len(lines)
    BY <1>6
  <1> HIDE DEF kept, nth
  <1>9. PICK n \in Nat : n = Cardinality(kept)
    BY <1>4
  <1>10. PICK s : s = [k \in 1..n |-> lines[nth(k)]]
    OBVIOUS
  <1>11. s \in Seq(Import!Row) /\ Len(s) = n
    <2>1. s \in [1..n -> Import!Row]
      BY <1>8, <1>9, <1>10
    <2>2. s \in Seq(Import!Row)
      BY <2>1, <1>9, IsASeq
    <2> QED
      BY <2>1, <2>2
  <1> QED
    BY <1>4, <1>9, <1>10, <1>11

(* The results the i-th query of a search may bring.                       *)
Share(ceiling, i) ==
    LET left == ceiling - (i - 1) * PerQuery
    IN  IF PerQuery < left THEN PerQuery ELSE left

LEMMA SearchConstants == MaxQueries \in Nat \ {0} /\ PerQuery \in Nat \ {0} /\ Ceiling \in Nat \ {0}
  <1>1. {MaxQueries, PerQuery, Ceiling} \subseteq 1..1000
    BY SearchAssumption
  <1>2. MaxQueries \in 1..1000 /\ PerQuery \in 1..1000 /\ Ceiling \in 1..1000
    BY <1>1
  <1> QED
    BY <1>2

LEMMA Products ==
  ASSUME NEW a \in Nat, NEW b \in Nat, NEW c \in Nat, a <= b
  PROVE  a * c <= b * c
  <1>1. PICK d \in Nat : b = a + d
    OBVIOUS
  <1>2. b * c = a * c + d * c
    BY <1>1
  <1>3. a * c \in Nat /\ d * c \in Nat
    BY <1>1
  <1> QED
    BY <1>2, <1>3

(* The queries are the first ones, each with its share.                    *)
LEMMA LimitsFacts ==
  ASSUME NEW n \in Nat
  PROVE  \E m \in 0..n : /\ Import!Limits(n) = [i \in 1..m |-> Share(Ceiling, i)]
                         /\ \A i \in 1..m : Share(Ceiling, i) \in Nat
  <1> DEFINE left(i) == Ceiling - (i - 1) * PerQuery
             D == {i \in 1..n : left(i) > 0}
  <1>1. Import!Limits(n) = [i \in D |-> Share(Ceiling, i)]
    BY DEF Import!Limits, Share
  <1>2. \A i \in D : i \in Nat /\ Share(Ceiling, i) \in Nat
    <2> SUFFICES ASSUME NEW i \in D PROVE i \in Nat /\ Share(Ceiling, i) \in Nat
      OBVIOUS
    <2>1. i \in Nat /\ left(i) \in Int /\ left(i) > 0
      BY SearchConstants
    <2>2. Share(Ceiling, i) = IF PerQuery < left(i) THEN PerQuery ELSE left(i)
      BY DEF Share
    <2> HIDE DEF left
    <2> QED
      BY <2>1, <2>2, SearchConstants
  <1>3. \E m \in 0..n : D = 1..m
    <2>1. CASE D = {}
      BY <2>1
    <2>2. CASE D # {}
      <3>1. D \subseteq 1..n /\ D \subseteq Nat /\ IsFiniteSet(D)
        <4>1. IsFiniteSet(1..n)
          BY FS_Interval
        <4>2. D \in SUBSET (1..n)
          OBVIOUS
        <4> HIDE DEF D
        <4>3. IsFiniteSet(D)
          BY <4>1, <4>2, FS_Subset
        <4> QED
          BY <4>2, <4>3
      <3>2. PICK m \in D : \A i \in D : m >= i
        <4> HIDE DEF D
        <4> QED
          BY <2>2, <3>1, Greatest
      <3>3. \A i \in 1..m : i \in D
        <4> SUFFICES ASSUME NEW i \in 1..m PROVE i \in D
          OBVIOUS
        <4>1. i \in 1..n /\ m \in 1..n /\ i - 1 \in Nat /\ m - 1 \in Nat /\ i - 1 <= m - 1
          BY <3>1
        <4>2. (i - 1) * PerQuery <= (m - 1) * PerQuery
          BY <4>1, SearchConstants, Products
        <4>3. (i - 1) * PerQuery \in Int /\ (m - 1) * PerQuery \in Int
          BY <4>1, SearchConstants
        <4> QED
          BY <4>1, <4>2, <4>3, SearchConstants
      <3>4. m \in 1..n
        BY <3>1
      <3> HIDE DEF D
      <3>5. \A i \in D : i \in 1..m
        BY <3>1, <3>2, <3>4
      <3>6. D = 1..m
        <4>1. D \subseteq 1..m /\ 1..m \subseteq D
          BY <3>3, <3>5
        <4> QED
          BY Zenon, <4>1
      <3>7. m \in 0..n
        BY <3>4
      <3> QED
        BY Zenon, <3>6, <3>7
    <2> QED
      BY <2>1, <2>2
  <1> HIDE DEF D
  <1> QED
    BY <1>1, <1>2, <1>3

(* A preview has no more queries than allowed.                             *)
LEMMA PreviewFacts ==
  ASSUME NEW offset
  PROVE  \E m \in 0..MaxQueries : /\ Import!Preview(offset) = [i \in 1..m |-> Share(Ceiling, i)]
                                  /\ \A i \in 1..m : Share(Ceiling, i) \in Nat
  <1>1. \E count \in Nat :
            Import!Preview(offset) = Import!Limits(IF count < MaxQueries THEN count ELSE MaxQueries)
    <2> DEFINE n == Len(Texts)
               text(i) == Texts[((i - 1 + offset) % n) + 1]
               first(i) == text(i) # "" /\ \A k \in 1..(i - 1) : text(k) # text(i)
               queries == {i \in 1..n : first(i)}
               count == Import!Cardinality(queries)
    <2>1. n \in Nat
      BY FileAssumption
    <2>2. count \in Nat
      <3>1. queries \in SUBSET (1..n)
        OBVIOUS
      <3> HIDE DEF queries, n
      <3>2. IsFiniteSet(1..n)
        BY <2>1, FS_Interval
      <3>3. IsFiniteSet(queries)
        BY <3>1, <3>2, FS_Subset
      <3> QED
        BY <3>3, FS_CardinalityType, ImportCardinality
    <2>3. Import!Preview(offset) = Import!Limits(IF count < MaxQueries THEN count ELSE MaxQueries)
      BY Zenon DEF Import!Preview
    <2> HIDE DEF count
    <2> QED
      BY <2>2, <2>3
  <1>2. PICK count \in Nat :
            Import!Preview(offset) = Import!Limits(IF count < MaxQueries THEN count ELSE MaxQueries)
    BY <1>1
  <1>3. PICK n : n = IF count < MaxQueries THEN count ELSE MaxQueries
    OBVIOUS
  <1>4. n \in Nat /\ n <= MaxQueries
    BY <1>3, SearchConstants
  <1>5. PICK m \in 0..n : /\ Import!Limits(n) = [i \in 1..m |-> Share(Ceiling, i)]
                          /\ \A i \in 1..m : Share(Ceiling, i) \in Nat
    BY <1>4, LimitsFacts
  <1>6. m \in 0..MaxQueries
    BY <1>4, SearchConstants
  <1> QED
    BY <1>2, <1>3, <1>5, <1>6

ImportLabels == {"idle", "search", "nothing", "project", "index", "items", "done"}

ImportJob ==
    [limits : Seq(Nat), ceiling : Nat, asked : Nat, found : Nat, refused : Nat,
     queued : Seq(Line), rows : Nat, known : Nat, websites : SUBSET Hosts,
     fallbacks : SUBSET Names, made : Seq(GoodRow), skipped : Nat, failed : Nat,
     report : Import!Report]

(* A search has as many queries left as it may still send, each with its   *)
(* share of the results.                                                   *)
SearchInv(j) ==
    /\ j.asked + Len(j.limits) <= MaxQueries
    /\ \A i \in 1..Len(j.limits) : j.limits[i] = Share(j.ceiling, j.asked + i)
    /\ j.found <= j.asked * PerQuery

Indexed(row, j) ==
    /\ row.host \in Hosts => row.host \in j.websites
    /\ row.name \in Names => row.name \in j.fallbacks

(* The indexes hold what was stored when they were read and what has been  *)
(* made since, and nothing was made that they held.                        *)
IndexInv(j, table) ==
    /\ j.known <= Len(table)
    /\ \A i \in 1..j.known : Indexed(table[i], j)
    /\ \A k \in 1..Len(j.made) :
           /\ Indexed(j.made[k], j)
           /\ \A i \in 1..j.known : ~Import!Same(j.made[k], table[i])
           /\ \A i \in 1..(k - 1) : ~Import!Same(j.made[k], j.made[i])

(* At every label each row is made, skipped, failed or still to come.      *)
ImportJobInv(label, j, table) ==
    /\ j \in ImportJob
    /\ j.asked <= MaxQueries /\ j.found <= j.ceiling
    /\ label = "search" => SearchInv(j)
    /\ label = "nothing" => j.rows = 0
    /\ label \in {"project", "index", "items"} =>
           /\ j.queued \in Seq(Import!Row)
           /\ j.rows = Len(j.made) + j.skipped + j.failed + Len(j.queued)
    /\ label \in {"project", "index"} => j.made = <<>>
    /\ label = "items" => IndexInv(j, table)

ImportTables ==
    /\ writer \in Procs \union {NoProc}
    /\ pc \in [Procs -> ImportLabels]
    /\ DOMAIN importing = Procs /\ importing = [q \in Procs |-> importing[q]]
    /\ companies \in Seq(Import!StoredRow)
    /\ \A p \in Procs : writer = p => pc[p] = "items"

ImportInv ==
    /\ ImportTables
    /\ \A p \in Procs : ImportJobInv(pc[p], importing[p], companies)
    /\ Import!DuplicatesOverlap

LEMMA NoReportType ==
  /\ Import!NoReport \in Import!Report
  /\ Import!NoReport.total = 0 /\ Import!NoReport.imported = 0
  /\ Import!NoReport.skipped = 0 /\ Import!NoReport.failed = 0
  BY DEF Import!NoReport, Import!Report

LEMMA NoImportJob ==
  /\ Import!NoJob \in ImportJob
  /\ Import!NoJob.limits = <<>> /\ Import!NoJob.ceiling = 0 /\ Import!NoJob.asked = 0
  /\ Import!NoJob.found = 0 /\ Import!NoJob.refused = 0 /\ Import!NoJob.queued = <<>>
  /\ Import!NoJob.rows = 0 /\ Import!NoJob.made = <<>> /\ Import!NoJob.skipped = 0
  /\ Import!NoJob.failed = 0 /\ Import!NoJob.report = Import!NoReport
  <1>1. <<>> \in Seq(Nat) /\ <<>> \in Seq(Line) /\ <<>> \in Seq(GoodRow)
    BY EmptySeq
  <1> QED
    BY <1>1, NoReportType DEF Import!NoJob, ImportJob

(* A command that has nothing in hand relies on nothing.                   *)
LEMMA IdleJobInv ==
  ASSUME NEW label \in {"idle", "done"}, NEW table, NEW j \in ImportJob,
         j.asked = 0, j.found = 0
  PROVE  ImportJobInv(label, j, table)
  BY SearchConstants DEF ImportJobInv, ImportJob

LEMMA ImportInit == Import!Init => ImportInv
  <1> SUFFICES ASSUME Import!Init PROVE ImportInv
    OBVIOUS
  <1>1. ImportTables
    <2>1. <<>> \in Seq(Import!StoredRow)
      BY EmptySeq
    <2>2. pc \in [Procs -> ImportLabels]
      BY DEF Import!Init, ImportLabels
    <2> QED
      BY <2>1, <2>2, NoProcAssumption DEF Import!Init, ImportTables
  <1>2. \A p \in Procs : ImportJobInv(pc[p], importing[p], companies)
    <2> SUFFICES ASSUME NEW p \in Procs PROVE ImportJobInv(pc[p], importing[p], companies)
      OBVIOUS
    <2>1. pc[p] = "idle" /\ importing[p] = Import!NoJob
      BY DEF Import!Init
    <2> QED
      BY <2>1, NoImportJob, IdleJobInv
  <1>3. Import!DuplicatesOverlap
    BY DEF Import!Init, Import!DuplicatesOverlap
  <1> QED
    BY <1>1, <1>2, <1>3 DEF ImportInv

LEMMA ImportMove ==
  ASSUME ImportInv, NEW p \in Procs, NEW label \in ImportLabels, NEW j,
         ImportJobInv(label, j, companies),
         pc' = [pc EXCEPT ![p] = label], importing' = [importing EXCEPT ![p] = j],
         companies' = companies,
         writer' \in Procs \union {NoProc}, writer' = p => label = "items",
         \A q \in Procs : q # p /\ writer' = q => writer = q
  PROVE  ImportInv'
  <1>1. ImportTables /\ Import!DuplicatesOverlap
    BY DEF ImportInv
  <1>2. \A q \in Procs : /\ pc'[q] = IF q = p THEN label ELSE pc[q]
                         /\ importing'[q] = IF q = p THEN j ELSE importing[q]
    BY <1>1 DEF ImportTables
  <1>3. ImportTables'
    <2>1. pc' \in [Procs -> ImportLabels]
      BY <1>1 DEF ImportTables
    <2>2. DOMAIN importing' = Procs /\ importing' = [q \in Procs |-> importing'[q]]
      BY <1>1 DEF ImportTables
    <2>3. \A q \in Procs : writer' = q => pc'[q] = "items"
      BY <1>1, <1>2 DEF ImportTables
    <2>4. companies' \in Seq(Import!StoredRow)
      BY <1>1 DEF ImportTables
    <2> QED
      BY <2>1, <2>2, <2>3, <2>4 DEF ImportTables
  <1>4. ASSUME NEW q \in Procs PROVE ImportJobInv(pc'[q], importing'[q], companies')
    <2>1. CASE q = p
      BY <1>2, <2>1
    <2>2. CASE q # p
      <3>1. ImportJobInv(pc[q], importing[q], companies)
        BY DEF ImportInv
      <3> QED
        BY <1>2, <2>2, <3>1
    <2> QED
      BY <2>1, <2>2
  <1>5. Import!DuplicatesOverlap'
    BY <1>1 DEF Import!DuplicatesOverlap
  <1> QED
    BY <1>3, <1>4, <1>5 DEF ImportInv

(* A step to a label without the lock, by a process that has not got it.   *)
LEMMA ImportGoes ==
  ASSUME ImportInv, NEW p \in Procs, NEW label, NEW j,
         label \in ImportLabels, ImportJobInv(label, j, companies),
         Import!Set(p, label, j), UNCHANGED companies,
         (UNCHANGED writer /\ (pc[p] # "items" \/ label = "items")) \/ Import!GiveLock(p)
  PROVE  ImportInv'
  <1>1. /\ writer \in Procs \union {NoProc}
        /\ \A q \in Procs : writer = q => pc[q] = "items"
    BY DEF ImportInv, ImportTables
  <1>2. /\ writer' \in Procs \union {NoProc} /\ (writer' = p => label = "items")
        /\ \A q \in Procs : q # p /\ writer' = q => writer = q
    BY <1>1, NoProcAssumption DEF Import!GiveLock
  <1> QED
    BY <1>2, ImportMove DEF Import!Set, Import!Goto

(* What a process that is at a label holds.                                *)
LEMMA HeldImport ==
  ASSUME ImportInv, NEW p \in Procs
  PROVE  /\ importing[p] \in ImportJob /\ ImportJobInv(pc[p], importing[p], companies)
         /\ companies \in Seq(Import!StoredRow)
  BY DEF ImportInv, ImportTables, ImportJobInv

LEMMA SubmitInv ==
  ASSUME ImportInv, NEW p \in Procs, NEW lines, lines \in Seq(Line), pc[p] # "items",
         Import!Submit(p, lines), UNCHANGED <<writer, companies>>
  PROVE  ImportInv'
  <1>1. PICK items : items = Import!Usable(lines)
    OBVIOUS
  <1>2. PICK label : label = IF items = <<>> THEN "nothing" ELSE "project"
    OBVIOUS
  <1>3. PICK j : j = [Import!NoJob EXCEPT !.queued = items, !.rows = Len(items),
                                          !.refused = Len(lines) - Len(items)]
    OBVIOUS
  <1>4. items \in Seq(Import!Row) /\ Len(items) \in Nat /\ Len(lines) - Len(items) \in Nat
    <2>1. items \in Seq(Import!Row) /\ Len(items) <= Len(lines) /\ Len(lines) \in Nat
      BY <1>1, UsableFacts
    <2>2. Len(items) \in Nat
      BY <2>1
    <2> QED
      BY <2>1, <2>2
  <1>5. items \in Seq(Line)
    BY <1>4 DEF Line
  <1>6. /\ j \in ImportJob /\ j.asked = 0 /\ j.found = 0 /\ j.queued = items
        /\ j.rows = Len(items) /\ j.made = <<>> /\ j.skipped = 0 /\ j.failed = 0
    BY <1>3, <1>4, <1>5, NoImportJob DEF ImportJob
  <1>7. ImportJobInv(label, j, companies)
    <2>1. label = "nothing" => Len(items) = 0
      BY <1>2
    <2> QED
      BY <1>2, <1>4, <1>6, <2>1, SearchConstants DEF ImportJobInv, ImportJob
  <1>8. Import!Set(p, label, j) /\ label \in ImportLabels
    BY <1>1, <1>2, <1>3 DEF Import!Submit, ImportLabels
  <1> QED
    BY <1>7, <1>8, ImportGoes

(* A command that answers counts the lines it has refused, and holds       *)
(* nothing any more.                                                       *)
LEMMA ImportAnswer ==
  ASSUME ImportInv, NEW p \in Procs, NEW r, r \in Import!Report, Import!Answer(p, r)
  PROVE  \E j \in ImportJob, n \in Nat :
             /\ j.asked = 0 /\ j.found = 0 /\ Import!Set(p, "done", j)
             /\ j.report.total = r.total + n /\ j.report.imported = r.imported
             /\ j.report.skipped = r.skipped /\ j.report.failed = r.failed + n
  <1>1. PICK s : s = [r EXCEPT !.total = @ + importing[p].refused,
                               !.failed = @ + importing[p].refused]
    OBVIOUS
  <1>2. PICK n : n = importing[p].refused
    OBVIOUS
  <1>3. n \in Nat
    BY <1>2, HeldImport DEF ImportJob
  <1>4. s = [r EXCEPT !.total = @ + n, !.failed = @ + n]
    BY Zenon, <1>1, <1>2
  <1>5. /\ r.total \in Nat /\ r.imported \in Nat /\ r.skipped \in Nat /\ r.failed \in Nat
        /\ r = [total |-> r.total, imported |-> r.imported, skipped |-> r.skipped,
                failed |-> r.failed]
    BY DEF Import!Report
  <1>6. s = [total |-> r.total + n, imported |-> r.imported, skipped |-> r.skipped,
             failed |-> r.failed + n]
    BY <1>4, <1>5
  <1>7. r.total + n \in Nat /\ r.failed + n \in Nat
    BY <1>3, <1>5
  <1>8. s \in Import!Report
    BY <1>5, <1>6, <1>7 DEF Import!Report
  <1>9. PICK j : j = [Import!NoJob EXCEPT !.report = s]
    OBVIOUS
  <1>10. j \in ImportJob /\ j.asked = 0 /\ j.found = 0 /\ j.report = s
    BY <1>8, <1>9, NoImportJob DEF ImportJob
  <1>11. Import!Set(p, "done", j)
    BY <1>1, <1>9 DEF Import!Answer, Import!Set
  <1>12. /\ j.report.total = r.total + n /\ j.report.imported = r.imported
         /\ j.report.skipped = r.skipped /\ j.report.failed = r.failed + n
    BY <1>6, <1>10
  <1> QED
    BY <1>3, <1>10, <1>11, <1>12

LEMMA AnsweredInv ==
  ASSUME ImportInv, NEW p \in Procs, NEW r, r \in Import!Report, Import!Answer(p, r),
         UNCHANGED companies, (UNCHANGED writer /\ pc[p] # "items") \/ Import!GiveLock(p)
  PROVE  ImportInv'
  <1>1. PICK j \in ImportJob : j.asked = 0 /\ j.found = 0 /\ Import!Set(p, "done", j)
    BY ImportAnswer
  <1>2. ImportJobInv("done", j, companies)
    BY <1>1, IdleJobInv
  <1> QED
    BY <1>1, <1>2, ImportGoes DEF ImportLabels

LEMMA CsvStartInv ==
  ASSUME ImportInv, NEW p \in Procs, Import!CsvStart(p) PROVE ImportInv'
  <1>1. PICK lines \in Files : Import!Submit(p, lines)
    BY DEF Import!CsvStart
  <1>2. lines \in Seq(Line)
    BY FileAssumption DEF Line, Import!Row
  <1> QED
    BY <1>1, <1>2, SubmitInv DEF Import!CsvStart

LEMMA SearchStart ==
  ASSUME ImportInv, NEW p \in Procs, NEW m \in 0..MaxQueries, NEW ceiling \in Nat,
         NEW limits, limits = [i \in 1..m |-> Share(ceiling, i)], \A i \in 1..m : limits[i] \in Nat,
         Import!Set(p, "search", [Import!NoJob EXCEPT !.limits = limits, !.ceiling = ceiling]),
         pc[p] = "idle", UNCHANGED <<writer, companies>>
  PROVE  ImportInv'
  <1>1. PICK j : j = [Import!NoJob EXCEPT !.limits = limits, !.ceiling = ceiling]
    OBVIOUS
  <1>2. m \in Nat /\ m <= MaxQueries
    BY SearchConstants
  <1>3. limits \in Seq(Nat) /\ Len(limits) = m
    <2>1. limits \in [1..m -> Nat]
      OBVIOUS
    <2> QED
      BY <1>2, <2>1
  <1>4. /\ j \in ImportJob /\ j.limits = limits /\ j.ceiling = ceiling
        /\ j.asked = 0 /\ j.found = 0
    BY <1>1, <1>3, NoImportJob DEF ImportJob
  <1>5. SearchInv(j)
    <2>1. 0 * PerQuery = 0
      BY SearchConstants
    <2>2. \A i \in 1..m : 0 + i = i
      BY <1>2
    <2> QED
      BY <1>2, <1>3, <1>4, <2>1, <2>2 DEF SearchInv
  <1>6. ImportJobInv("search", j, companies)
    BY <1>4, <1>5, SearchConstants DEF ImportJobInv
  <1>7. Import!Set(p, "search", j)
    BY <1>1
  <1> QED
    BY <1>6, <1>7, ImportGoes DEF ImportLabels

LEMMA ProfileStartInv ==
  ASSUME ImportInv, NEW p \in Procs, Import!ProfileStart(p) PROVE ImportInv'
  <1>1. PICK offset \in 0..(Len(Texts) - 1) :
            Import!Set(p, "search", [Import!NoJob EXCEPT !.limits = Import!Preview(offset),
                                                         !.ceiling = Ceiling])
    BY DEF Import!ProfileStart
  <1>2. PICK limits : limits = Import!Preview(offset)
    OBVIOUS
  <1>3. PICK m \in 0..MaxQueries : /\ limits = [i \in 1..m |-> Share(Ceiling, i)]
                                   /\ \A i \in 1..m : Share(Ceiling, i) \in Nat
    BY <1>2, PreviewFacts
  <1>4. Import!Set(p, "search", [Import!NoJob EXCEPT !.limits = limits, !.ceiling = Ceiling])
    BY <1>1, <1>2
  <1>5. pc[p] = "idle" /\ UNCHANGED <<writer, companies>>
    BY DEF Import!ProfileStart
  <1>6. \A i \in 1..m : limits[i] \in Nat
    BY <1>3
  <1> QED
    BY <1>3, <1>4, <1>5, <1>6, SearchStart, SearchConstants

LEMMA SerpApiStartInv ==
  ASSUME ImportInv, NEW p \in Procs, Import!SerpApiStart(p) PROVE ImportInv'
  <1>1. Share(PerQuery, 1) = PerQuery
    <2>1. PerQuery - (1 - 1) * PerQuery = PerQuery
      BY SearchConstants
    <2> QED
      BY <2>1, SearchConstants DEF Share
  <1>2. <<PerQuery>> = [i \in 1..1 |-> Share(PerQuery, i)]
    BY <1>1
  <1>3. PICK limits : limits = <<PerQuery>>
    OBVIOUS
  <1>4. Import!Set(p, "search", [Import!NoJob EXCEPT !.limits = limits, !.ceiling = PerQuery])
    BY <1>3 DEF Import!SerpApiStart
  <1>5. pc[p] = "idle" /\ UNCHANGED <<writer, companies>>
    BY DEF Import!SerpApiStart
  <1>6. \A i \in 1..1 : limits[i] \in Nat
    BY <1>3, SearchConstants
  <1>7. 1 \in 0..MaxQueries /\ PerQuery \in Nat
    BY SearchConstants
  <1>8. limits = [i \in 1..1 |-> Share(PerQuery, i)]
    BY Zenon, <1>2, <1>3
  <1> QED
    BY <1>4, <1>5, <1>6, <1>7, <1>8, SearchStart

LEMMA StoppedJob ==
  ASSUME NEW j \in ImportJob, NEW k, k = [j EXCEPT !.limits = <<>>]
  PROVE  /\ k \in ImportJob /\ k.limits = <<>> /\ k.asked = j.asked /\ k.found = j.found
         /\ k.ceiling = j.ceiling
  BY EmptySeq DEF ImportJob

LEMMA JobNumbers ==
  ASSUME NEW j \in ImportJob
  PROVE  /\ j.asked \in Nat /\ j.found \in Nat /\ j.limits \in Seq(Nat)
         /\ j.queued \in Seq(Line) /\ j.made \in Seq(GoodRow)
         /\ j.skipped \in Nat /\ j.failed \in Nat /\ j.rows \in Nat /\ j.known \in Nat
         /\ j.websites \subseteq Hosts /\ j.fallbacks \subseteq Names
  BY DEF ImportJob

(* A query has been sent, and has found no more than its share.            *)
LEMMA AskedInv ==
  ASSUME ImportInv, NEW p \in Procs, pc[p] = "search",
         NEW j, j = importing[p], NEW k, k \in ImportJob, NEW n \in Nat,
         j.limits # <<>>, n <= Head(j.limits),
         k.asked = j.asked + 1, k.found = j.found + n, k.ceiling = j.ceiling,
         k.limits = Tail(j.limits) \/ k.limits = <<>>,
         Import!Set(p, "search", k), UNCHANGED <<writer, companies>>
  PROVE  ImportInv'
  <1>1. j \in ImportJob /\ SearchInv(j) /\ j.found <= j.ceiling
    BY HeldImport DEF ImportJobInv
  <1>2. PICK ls : ls = j.limits
    OBVIOUS
  <1>3. PICK a : a = j.asked
    OBVIOUS
  <1>4. PICK c : c = j.ceiling
    OBVIOUS
  <1>5. PICK f : f = j.found
    OBVIOUS
  <1>6. /\ ls \in Seq(Nat) /\ ls # <<>> /\ a \in Nat /\ c \in Nat /\ f \in Nat
        /\ n <= Head(ls) /\ k.asked = a + 1 /\ k.found = f + n /\ k.ceiling = c
        /\ k.limits = Tail(ls) \/ k.limits = <<>>
    BY <1>1, <1>2, <1>3, <1>4, <1>5 DEF ImportJob
  <1>7. /\ a + Len(ls) <= MaxQueries /\ f <= a * PerQuery /\ f <= c
        /\ \A i \in 1..Len(ls) : ls[i] = Share(c, a + i)
    BY <1>1, <1>2, <1>3, <1>4, <1>5 DEF SearchInv
  <1>8. Len(ls) \in Nat /\ Len(ls) > 0 /\ Head(ls) = ls[1]
    BY <1>6
  <1>9. a * PerQuery \in Nat /\ (a + 1) * PerQuery = a * PerQuery + PerQuery
    BY <1>6, SearchConstants
  <1>10. Head(ls) <= PerQuery /\ Head(ls) <= c - a * PerQuery
    <2>1. Head(ls) = Share(c, a + 1)
      BY <1>7, <1>8
    <2>2. (a + 1) - 1 = a
      BY <1>6
    <2>3. Head(ls) = IF PerQuery < c - a * PerQuery THEN PerQuery ELSE c - a * PerQuery
      BY <2>1, <2>2 DEF Share
    <2> QED
      BY <1>6, <1>9, <2>3, SearchConstants
  <1>11. Head(ls) \in Nat
    BY <1>6, <1>8
  <1>12. f + n <= (a + 1) * PerQuery /\ f + n <= c
    BY <1>6, <1>7, <1>9, <1>10, <1>11, SearchConstants
  <1>13. /\ a + 1 + Len(k.limits) <= MaxQueries
         /\ \A i \in 1..Len(k.limits) : k.limits[i] = Share(c, (a + 1) + i)
    <2>1. CASE k.limits = Tail(ls)
      <3>1. Len(Tail(ls)) = Len(ls) - 1
        BY <1>6
      <3>2. \A i \in 1..(Len(ls) - 1) : Tail(ls)[i] = ls[i + 1]
        BY <1>6
      <3>3. \A i \in 1..(Len(ls) - 1) : i + 1 \in 1..Len(ls) /\ a + (i + 1) = (a + 1) + i
        BY <1>6, <1>8
      <3>4. \A i \in 1..(Len(ls) - 1) : Tail(ls)[i] = Share(c, (a + 1) + i)
        BY <1>7, <3>2, <3>3
      <3> QED
        BY <1>6, <1>7, <1>8, <2>1, <3>1, <3>4, SearchConstants
    <2>2. CASE k.limits = <<>>
      BY <1>6, <1>7, <1>8, <2>2, SearchConstants
    <2> QED
      BY <1>6, <2>1, <2>2
  <1>14. SearchInv(k)
    BY <1>6, <1>12, <1>13 DEF SearchInv
  <1>15. ImportJobInv("search", k, companies)
    <2>1. k.asked <= MaxQueries
      <3>1. k.limits \in Seq(Nat)
        BY DEF ImportJob
      <3>2. PICK l : l = Len(k.limits)
        OBVIOUS
      <3>3. l \in Nat /\ a + 1 + l <= MaxQueries
        BY <1>13, <3>1, <3>2
      <3> QED
        BY <1>6, <3>3, SearchConstants
    <2>2. k.found <= k.ceiling
      BY <1>6, <1>12
    <2> QED
      BY <1>14, <2>1, <2>2 DEF ImportJobInv
  <1> QED
    BY <1>15, ImportGoes DEF ImportLabels

LEMMA SearchInvStep ==
  ASSUME ImportInv, NEW p \in Procs, Import!Search(p) PROVE ImportInv'
  <1>1. PICK j : j = importing[p]
    OBVIOUS
  <1>2. PICK asked : asked = [j EXCEPT !.limits = Tail(@), !.asked = @ + 1]
    OBVIOUS
  <1>3. /\ pc[p] = "search" /\ j.limits # <<>> /\ UNCHANGED <<writer, companies>>
        /\ \/ \E results \in Import!SeqOf(Found, Head(j.limits)) :
                  Import!Set(p, "search", [asked EXCEPT !.queued = @ \o results,
                                                        !.found = @ + Len(results)])
           \/ Import!Set(p, "search", asked)
           \/ Import!Set(p, "search", [asked EXCEPT !.limits = <<>>])
    BY <1>1, <1>2 DEF Import!Search
  <1>4. j \in ImportJob
    BY <1>1, HeldImport
  <1>5. Tail(j.limits) \in Seq(Nat) /\ Head(j.limits) \in Nat
    <2>1. j.limits \in Seq(Nat)
      BY <1>4 DEF ImportJob
    <2> QED
      BY <1>3, <2>1, HeadTailProperties
  <1>6. /\ asked \in ImportJob /\ asked.limits = Tail(j.limits) /\ asked.asked = j.asked + 1
        /\ asked.found = j.found /\ asked.ceiling = j.ceiling /\ j.found \in Nat
    <2>1. PICK ls \in Seq(Nat) : ls = Tail(j.limits)
      BY <1>5
    <2>2. PICK a : a = j.asked + 1
      OBVIOUS
    <2>3. a \in Nat /\ j.found \in Nat
      BY <1>4, <2>2, JobNumbers
    <2>4. asked = [j EXCEPT !.limits = ls, !.asked = a]
      BY Zenon, <1>2, <2>1, <2>2
    <2>5. /\ asked \in ImportJob /\ asked.limits = ls /\ asked.asked = a
          /\ asked.found = j.found /\ asked.ceiling = j.ceiling /\ asked.queued = j.queued
      BY <1>4, <2>3, <2>4 DEF ImportJob
    <2> QED
      BY <2>1, <2>2, <2>3, <2>5
  <1>7. CASE Import!Set(p, "search", asked)
    <2>1. asked.found = j.found + 0 /\ 0 <= Head(j.limits)
      BY <1>5, <1>6
    <2> QED
      BY <1>1, <1>3, <1>6, <1>7, <2>1, AskedInv
  <1>8. CASE Import!Set(p, "search", [asked EXCEPT !.limits = <<>>])
    <2>1. PICK k : k = [asked EXCEPT !.limits = <<>>]
      OBVIOUS
    <2>2. /\ k \in ImportJob /\ k.limits = <<>> /\ k.asked = j.asked + 1
          /\ k.found = j.found + 0 /\ k.ceiling = j.ceiling
      <3>1. j.found = j.found + 0
        BY <1>6
      <3> QED
        BY <1>6, <2>1, <3>1, StoppedJob
    <2>3. 0 <= Head(j.limits)
      BY <1>5
    <2>4. Import!Set(p, "search", k)
      BY <1>8, <2>1
    <2> QED
      BY <1>1, <1>3, <2>2, <2>3, <2>4, AskedInv
  <1>9. ASSUME NEW results \in Import!SeqOf(Found, Head(j.limits)),
               Import!Set(p, "search", [asked EXCEPT !.queued = @ \o results,
                                                     !.found = @ + Len(results)])
        PROVE  ImportInv'
    <2>1. PICK n \in 0..Head(j.limits) : results \in [1..n -> Found]
      BY DEF Import!SeqOf
    <2>2. n \in Nat /\ n <= Head(j.limits)
      BY <1>5
    <2>3. Found \subseteq Line
      BY FileAssumption DEF Line, Import!Row
    <2>4. results \in Seq(Line) /\ Len(results) = n
      BY <2>1, <2>2, <2>3
    <2>5. PICK k : k = [asked EXCEPT !.queued = @ \o results, !.found = @ + Len(results)]
      OBVIOUS
    <2>6. PICK queued : queued = asked.queued \o results
      OBVIOUS
    <2>7. PICK f : f = asked.found + Len(results)
      OBVIOUS
    <2>8. queued \in Seq(Line) /\ f \in Nat /\ f = j.found + n
      <3>1. asked.queued \in Seq(Line)
        BY <1>6, JobNumbers
      <3> QED
        BY <1>6, <2>2, <2>4, <2>6, <2>7, <3>1, ConcatProperties
    <2>9. k = [asked EXCEPT !.queued = queued, !.found = f]
      BY Zenon, <2>5, <2>6, <2>7
    <2>10. /\ k \in ImportJob /\ k.limits = Tail(j.limits) /\ k.asked = j.asked + 1
          /\ k.found = j.found + n /\ k.ceiling = j.ceiling
      <3>1. /\ k \in ImportJob /\ k.limits = asked.limits /\ k.asked = asked.asked
            /\ k.found = f /\ k.ceiling = asked.ceiling
        BY <1>6, <2>8, <2>9 DEF ImportJob
      <3> QED
        BY <1>6, <2>8, <3>1
    <2>11. Import!Set(p, "search", k)
      BY <1>9, <2>5
    <2> QED
      BY <1>1, <1>3, <2>2, <2>10, <2>11, AskedInv
  <1> QED
    BY <1>3, <1>7, <1>8, <1>9

LEMMA SearchedInv ==
  ASSUME ImportInv, NEW p \in Procs, Import!Searched(p) PROVE ImportInv'
  <1>1. PICK lines : lines = importing[p].queued
    OBVIOUS
  <1>2. lines \in Seq(Line)
    BY <1>1, HeldImport, JobNumbers
  <1>3. Import!Submit(p, lines) /\ pc[p] # "items" /\ UNCHANGED <<writer, companies>>
    BY <1>1 DEF Import!Searched
  <1> QED
    BY <1>2, <1>3, SubmitInv

LEMMA NothingInv ==
  ASSUME ImportInv, NEW p \in Procs, Import!Nothing(p) PROVE ImportInv'
  <1>1. PICK r : r = Import!NoReport
    OBVIOUS
  <1>2. r \in Import!Report /\ Import!Answer(p, r)
    BY <1>1, NoReportType DEF Import!Nothing
  <1>3. pc[p] # "items" /\ UNCHANGED <<writer, companies>>
    BY DEF Import!Nothing
  <1> QED
    BY <1>2, <1>3, AnsweredInv

(* What an import knows of its rows from the project on.                   *)
LEMMA HeldRows ==
  ASSUME ImportInv, NEW p \in Procs, pc[p] \in {"project", "index", "items"},
         NEW j, j = importing[p]
  PROVE  /\ j \in ImportJob /\ j.queued \in Seq(Import!Row) /\ j.made \in Seq(GoodRow)
         /\ Len(j.queued) \in Nat /\ Len(j.made) \in Nat
         /\ j.skipped \in Nat /\ j.failed \in Nat /\ j.rows \in Nat /\ j.known \in Nat
         /\ j.rows = Len(j.made) + j.skipped + j.failed + Len(j.queued)
         /\ j.asked <= MaxQueries /\ j.found <= j.ceiling
         /\ pc[p] \in {"project", "index"} => j.made = <<>>
         /\ pc[p] = "items" => IndexInv(j, companies)
  <1>1. j \in ImportJob /\ ImportJobInv(pc[p], j, companies)
    BY HeldImport
  <1>2. /\ j.queued \in Seq(Import!Row)
        /\ j.rows = Len(j.made) + j.skipped + j.failed + Len(j.queued)
        /\ pc[p] \in {"project", "index"} => j.made = <<>>
        /\ pc[p] = "items" => IndexInv(j, companies)
        /\ j.asked <= MaxQueries /\ j.found <= j.ceiling
    BY <1>1 DEF ImportJobInv
  <1>3. Len(j.queued) \in Nat /\ Len(j.made) \in Nat
    BY <1>1, <1>2, JobNumbers, LenProperties
  <1> QED
    BY <1>1, <1>2, <1>3, JobNumbers

LEMMA ReportTypes ==
  ASSUME NEW total \in Nat, NEW imported \in Nat, NEW skipped \in Nat, NEW failed \in Nat
  PROVE  [total |-> total, imported |-> imported, skipped |-> skipped, failed |-> failed]
             \in Import!Report
  BY DEF Import!Report

LEMMA PersistenceFailureInv ==
  ASSUME ImportInv, NEW p \in Procs, Import!PersistenceFailure(p) PROVE ImportInv'
  <1>1. PICK j : j = importing[p]
    OBVIOUS
  <1>2. pc[p] \in {"project", "index", "items"} /\ Import!Answer(p, Import!RolledBack(j))
    BY <1>1 DEF Import!PersistenceFailure
  <1>3. /\ j.skipped \in Nat /\ j.failed \in Nat /\ j.rows \in Nat
        /\ j.rows - j.skipped \in Nat
    <2>1. /\ j.skipped \in Nat /\ j.failed \in Nat /\ j.rows \in Nat
          /\ Len(j.made) \in Nat /\ Len(j.queued) \in Nat
          /\ j.rows = Len(j.made) + j.skipped + j.failed + Len(j.queued)
      BY <1>1, <1>2, HeldRows
    <2>2. \A made, queued, skipped, failed \in Nat :
              (made + skipped + failed + queued) - skipped \in Nat
      OBVIOUS
    <2> QED
      BY <2>1, <2>2
  <1>4. PICK r : r = Import!RolledBack(j)
    OBVIOUS
  <1>5. r \in Import!Report
    BY <1>3, <1>4, ReportTypes DEF Import!RolledBack
  <1>6. Import!Answer(p, r) /\ Import!GiveLock(p) /\ UNCHANGED companies
    BY <1>2, <1>4 DEF Import!PersistenceFailure
  <1> QED
    BY <1>5, <1>6, AnsweredInv

LEMMA ReadProjectInv ==
  ASSUME ImportInv, NEW p \in Procs, Import!ReadProject(p) PROVE ImportInv'
  <1>1. PICK j : j = importing[p]
    OBVIOUS
  <1>2. /\ pc[p] = "project" /\ UNCHANGED <<writer, companies>>
        /\ \/ Import!Set(p, "index", j)
           \/ Import!Answer(p, [Import!NoReport EXCEPT !.total = j.rows, !.failed = j.rows])
    BY <1>1 DEF Import!ReadProject
  <1>3. CASE Import!Set(p, "index", j)
    <2>1. ImportJobInv("index", j, companies)
      BY <1>1, <1>2, HeldRows DEF ImportJobInv
    <2> QED
      BY <1>2, <1>3, <2>1, ImportGoes DEF ImportLabels
  <1>4. CASE Import!Answer(p, [Import!NoReport EXCEPT !.total = j.rows, !.failed = j.rows])
    <2>1. PICK r : r = [Import!NoReport EXCEPT !.total = j.rows, !.failed = j.rows]
      OBVIOUS
    <2>2. j.rows \in Nat
      BY <1>1, <1>2, HeldRows
    <2>3. r = [total |-> j.rows, imported |-> 0, skipped |-> 0, failed |-> j.rows]
      BY <2>1 DEF Import!NoReport
    <2>4. r \in Import!Report
      BY <2>2, <2>3, ReportTypes
    <2>5. Import!Answer(p, r) /\ pc[p] # "items"
      BY <1>2, <1>4, <2>1
    <2> QED
      BY <1>2, <2>4, <2>5, AnsweredInv
  <1> QED
    BY <1>2, <1>3, <1>4

LEMMA ReadIndexInv ==
  ASSUME ImportInv, NEW p \in Procs, Import!ReadIndex(p) PROVE ImportInv'
  <1>1. PICK j : j = importing[p]
    OBVIOUS
  <1>2. PICK known : known = Len(companies)
    OBVIOUS
  <1>3. PICK websites : websites = {companies[i].host : i \in DOMAIN companies} \intersect Hosts
    OBVIOUS
  <1>4. PICK fallbacks : fallbacks = {companies[i].name : i \in DOMAIN companies} \intersect Names
    OBVIOUS
  <1>5. PICK k : k = [j EXCEPT !.known = known, !.websites = websites, !.fallbacks = fallbacks]
    OBVIOUS
  <1>6. pc[p] = "index" /\ UNCHANGED <<writer, companies>> /\ Import!Set(p, "items", k)
    BY <1>1, <1>2, <1>3, <1>4, <1>5 DEF Import!ReadIndex
  <1>7. known \in Nat /\ DOMAIN companies = 1..known
    BY <1>2, HeldImport
  <1>8. j \in ImportJob
    BY <1>1, HeldImport
  <1>9. /\ k \in ImportJob /\ k.known = known /\ k.websites = websites
        /\ k.fallbacks = fallbacks /\ k.made = j.made /\ k.queued = j.queued
        /\ k.skipped = j.skipped /\ k.failed = j.failed /\ k.rows = j.rows
        /\ k.asked = j.asked /\ k.found = j.found /\ k.ceiling = j.ceiling
    <2>1. websites \in SUBSET Hosts /\ fallbacks \in SUBSET Names
      BY <1>3, <1>4
    <2> QED
      BY <1>5, <1>7, <1>8, <2>1 DEF ImportJob
  <1>10. IndexInv(k, companies)
    <2>1. \A i \in 1..known : Indexed(companies[i], k)
      BY <1>3, <1>4, <1>7, <1>9 DEF Indexed
    <2>2. k.made = <<>> /\ Len(<<>>) = 0
      BY <1>1, <1>6, <1>9, HeldRows
    <2> QED
      BY <1>2, <1>7, <1>9, <2>1, <2>2 DEF IndexInv
  <1>11. ImportJobInv("items", k, companies)
    BY <1>1, <1>6, <1>9, <1>10, HeldRows DEF ImportJobInv
  <1> QED
    BY <1>6, <1>11, ImportGoes DEF ImportLabels

LEMMA ExitImportInv ==
  ASSUME ImportInv, NEW p \in Procs, Import!Exit(p) \/ Import!Crash(p) PROVE ImportInv'
  <1>1. PICK j : j = Import!NoJob
    OBVIOUS
  <1>2. ImportJobInv("idle", j, companies)
    BY <1>1, NoImportJob, IdleJobInv
  <1>3. Import!Set(p, "idle", j) /\ UNCHANGED companies
    BY <1>1 DEF Import!Exit, Import!Crash
  <1>4. (UNCHANGED writer /\ pc[p] # "items") \/ Import!GiveLock(p)
    BY DEF Import!Exit, Import!Crash
  <1> QED
    BY <1>2, <1>3, <1>4, ImportGoes DEF ImportLabels

(* A row that the indexes do not hold is the same as none they hold.       *)
LEMMA NotTheSame ==
  ASSUME NEW row \in GoodRow, NEW j, NEW earlier, ~Import!Duplicate(row, j), Indexed(earlier, j)
  PROVE  ~Import!Same(row, earlier)
  <1>1. row.host \in Hosts \union {NoHost} /\ row.name \in Names \union {NoName}
    BY DEF GoodRow
  <1> QED
    BY <1>1 DEF Import!Same, Import!Duplicate, Indexed

(* One item is stored: it is the same as none before it.                   *)
LEMMA MadeIndexed ==
  ASSUME NEW j, IndexInv(j, companies), j.made \in Seq(GoodRow), j.known \in Nat,
         NEW row \in GoodRow, ~Import!Duplicate(row, j),
         NEW k, k.made = Append(j.made, row), k.known = j.known,
         k.websites = j.websites \union ({row.host} \intersect Hosts),
         k.fallbacks = j.fallbacks \union ({row.name} \intersect Names)
  PROVE  IndexInv(k, companies)
  <1>1. PICK made : made = j.made
    OBVIOUS
  <1>2. PICK more : more = k.made
    OBVIOUS
  <1>3. PICK n \in Nat : n = Len(made)
    BY <1>1, LenProperties
  <1>4. /\ Len(more) = n + 1 /\ more[n + 1] = row
        /\ \A i \in 1..n : more[i] = made[i]
    BY <1>1, <1>2, <1>3, AppendProperties
  <1>5. \A r : Indexed(r, j) => Indexed(r, k)
    BY DEF Indexed
  <1>6. Indexed(row, k)
    BY DEF Indexed
  <1>7. /\ j.known <= Len(companies)
        /\ \A i \in 1..j.known : Indexed(companies[i], j)
        /\ \A i \in 1..n : /\ Indexed(made[i], j)
                           /\ \A h \in 1..j.known : ~Import!Same(made[i], companies[h])
                           /\ \A h \in 1..(i - 1) : ~Import!Same(made[i], made[h])
    BY <1>1, <1>3 DEF IndexInv
  <1>8. \A i \in 1..k.known : Indexed(companies[i], k)
    BY <1>5, <1>7
  <1>9. ASSUME NEW i \in 1..(n + 1)
        PROVE  /\ Indexed(more[i], k)
               /\ \A h \in 1..k.known : ~Import!Same(more[i], companies[h])
               /\ \A h \in 1..(i - 1) : ~Import!Same(more[i], more[h])
    <2>1. CASE i = n + 1
      <3>1. \A h \in 1..j.known : ~Import!Same(row, companies[h])
        BY <1>7, NotTheSame
      <3>2. \A h \in 1..n : ~Import!Same(row, more[h])
        BY <1>4, <1>7, NotTheSame
      <3>3. i - 1 = n
        BY <2>1
      <3> QED
        BY <1>4, <1>6, <2>1, <3>1, <3>2, <3>3
    <2>2. CASE i # n + 1
      <3>1. i \in 1..n /\ \A h \in 1..(i - 1) : h \in 1..n
        BY <2>2
      <3> QED
        BY <1>4, <1>5, <1>7, <3>1
    <2> QED
      BY <2>1, <2>2
  <1> QED
    BY <1>2, <1>4, <1>7, <1>8, <1>9 DEF IndexInv

LEMMA ItemImportInv ==
  ASSUME ImportInv, NEW p \in Procs, Import!Item(p) PROVE ImportInv'
  <1>1. PICK j : j = importing[p]
    OBVIOUS
  <1>2. PICK row : row = Head(j.queued)
    OBVIOUS
  <1>3. PICK queued : queued = Tail(j.queued)
    OBVIOUS
  <1>4. PICK rest : rest = [j EXCEPT !.queued = queued]
    OBVIOUS
  <1>5. pc[p] = "items" /\ j.queued # <<>> /\ UNCHANGED companies
    BY <1>1 DEF Import!Item
  <1>6. /\ row \in Import!Row /\ queued \in Seq(Import!Row)
        /\ Len(j.queued) = Len(queued) + 1 /\ Len(queued) \in Nat
    <2>1. j.queued \in Seq(Import!Row) /\ Len(j.queued) \in Nat
      BY <1>1, <1>5, HeldRows
    <2>2. queued \in Seq(Import!Row) /\ Len(queued) = Len(j.queued) - 1 /\ row \in Import!Row
      BY <1>2, <1>3, <1>5, <2>1, HeadTailProperties
    <2>3. Len(queued) \in Nat
      BY <2>2, LenProperties
    <2> QED
      BY <2>1, <2>2, <2>3
  <1>7. /\ j \in ImportJob /\ j.made \in Seq(GoodRow) /\ j.skipped \in Nat /\ j.failed \in Nat
        /\ j.rows \in Nat /\ j.known \in Nat /\ Len(j.made) \in Nat
        /\ j.rows = Len(j.made) + j.skipped + j.failed + (Len(queued) + 1)
        /\ j.asked <= MaxQueries /\ j.found <= j.ceiling /\ IndexInv(j, companies)
    BY <1>1, <1>5, <1>6, HeldRows
  <1>8. queued \in Seq(Line)
    BY <1>6 DEF Line
  <1>9. /\ rest \in ImportJob /\ rest.made = j.made /\ rest.queued = queued
        /\ rest.skipped = j.skipped /\ rest.failed = j.failed /\ rest.rows = j.rows
        /\ rest.known = j.known /\ rest.websites = j.websites /\ rest.fallbacks = j.fallbacks
        /\ rest.asked = j.asked /\ rest.found = j.found /\ rest.ceiling = j.ceiling
    BY <1>4, <1>7, <1>8 DEF ImportJob
  <1>10. rest = [j EXCEPT !.queued = Tail(@)]
    BY Zenon, <1>3, <1>4
  <1>11. /\ j.rows = Len(j.made) + j.skipped + (j.failed + 1) + Len(queued)
         /\ j.rows = Len(j.made) + (j.skipped + 1) + j.failed + Len(queued)
         /\ j.rows = (Len(j.made) + 1) + j.skipped + j.failed + Len(queued)
    <2>1. PICK a \in Nat : a = Len(j.made)
      BY <1>7
    <2>2. PICK b \in Nat : b = j.skipped
      BY <1>7
    <2>3. PICK c \in Nat : c = j.failed
      BY <1>7
    <2>4. PICK d \in Nat : d = Len(queued)
      BY <1>6
    <2>5. j.rows = a + b + c + (d + 1)
      BY Zenon, <1>7, <2>1, <2>2, <2>3, <2>4
    <2>6. j.rows = a + b + (c + 1) + d /\ j.rows = a + (b + 1) + c + d /\ j.rows = (a + 1) + b + c + d
      BY <2>5
    <2> QED
      BY Zenon, <2>1, <2>2, <2>3, <2>4, <2>6
  <1>12. CASE /\ row.host = BadHost
              /\ Import!Set(p, "items", [rest EXCEPT !.failed = @ + 1]) /\ UNCHANGED writer
    <2>1. PICK f : f = j.failed + 1
      OBVIOUS
    <2>2. PICK k : k = [rest EXCEPT !.failed = f]
      OBVIOUS
    <2>3. [rest EXCEPT !.failed = @ + 1] = k
      BY Zenon, <1>9, <2>1, <2>2
    <2>4. f \in Nat
      BY <1>7, <2>1
    <2>5. /\ k \in ImportJob /\ k.made = j.made /\ k.queued = queued
          /\ k.skipped = j.skipped /\ k.failed = f /\ k.rows = j.rows
          /\ k.known = j.known /\ k.websites = j.websites /\ k.fallbacks = j.fallbacks
          /\ k.asked = j.asked /\ k.found = j.found /\ k.ceiling = j.ceiling
      BY <1>9, <2>2, <2>4 DEF ImportJob
    <2>6. IndexInv(k, companies)
      BY <1>7, <2>5 DEF IndexInv, Indexed
    <2>7. k.rows = Len(k.made) + k.skipped + k.failed + Len(k.queued)
      <3>1. j.rows = Len(j.made) + j.skipped + (j.failed + 1) + Len(queued)
        BY <1>11
      <3> QED
        BY Zenon, <2>1, <2>5, <3>1
    <2>8. ImportJobInv("items", k, companies)
      BY <1>6, <1>7, <2>5, <2>6, <2>7 DEF ImportJobInv
    <2> QED
      BY <1>5, <1>12, <2>3, <2>8, ImportGoes DEF ImportLabels
  <1>13. CASE /\ row.host # BadHost /\ Import!Duplicate(row, j)
              /\ Import!Set(p, "items", [rest EXCEPT !.skipped = @ + 1]) /\ UNCHANGED writer
    <2>1. PICK f : f = j.skipped + 1
      OBVIOUS
    <2>2. PICK k : k = [rest EXCEPT !.skipped = f]
      OBVIOUS
    <2>3. [rest EXCEPT !.skipped = @ + 1] = k
      BY Zenon, <1>9, <2>1, <2>2
    <2>4. f \in Nat
      BY <1>7, <2>1
    <2>5. /\ k \in ImportJob /\ k.made = j.made /\ k.queued = queued
          /\ k.skipped = f /\ k.failed = j.failed /\ k.rows = j.rows
          /\ k.known = j.known /\ k.websites = j.websites /\ k.fallbacks = j.fallbacks
          /\ k.asked = j.asked /\ k.found = j.found /\ k.ceiling = j.ceiling
      BY <1>9, <2>2, <2>4 DEF ImportJob
    <2>6. IndexInv(k, companies)
      BY <1>7, <2>5 DEF IndexInv, Indexed
    <2>7. k.rows = Len(k.made) + k.skipped + k.failed + Len(k.queued)
      <3>1. j.rows = Len(j.made) + (j.skipped + 1) + j.failed + Len(queued)
        BY <1>11
      <3> QED
        BY Zenon, <2>1, <2>5, <3>1
    <2>8. ImportJobInv("items", k, companies)
      BY <1>6, <1>7, <2>5, <2>6, <2>7 DEF ImportJobInv
    <2> QED
      BY <1>5, <1>13, <2>3, <2>8, ImportGoes DEF ImportLabels
  <1>14. CASE /\ row.host # BadHost /\ ~Import!Duplicate(row, j)
              /\ IF Import!Holds(p) THEN UNCHANGED writer ELSE Import!TakeLock(p)
              /\ Import!Set(p, "items",
                    [rest EXCEPT !.made = Append(@, row),
                                 !.websites = @ \union ({row.host} \intersect Hosts),
                                 !.fallbacks = @ \union ({row.name} \intersect Names)])
    <2>1. PICK made : made = Append(j.made, row)
      OBVIOUS
    <2>2. PICK websites : websites = j.websites \union ({row.host} \intersect Hosts)
      OBVIOUS
    <2>3. PICK fallbacks : fallbacks = j.fallbacks \union ({row.name} \intersect Names)
      OBVIOUS
    <2>4. PICK k : k = [rest EXCEPT !.made = made, !.websites = websites, !.fallbacks = fallbacks]
      OBVIOUS
    <2>5. k = [rest EXCEPT !.made = Append(@, row),
                           !.websites = @ \union ({row.host} \intersect Hosts),
                           !.fallbacks = @ \union ({row.name} \intersect Names)]
      BY Zenon, <1>9, <2>1, <2>2, <2>3, <2>4
    <2>6. row \in GoodRow
      BY <1>6, <1>14 DEF Import!Row, GoodRow
    <2>7. made \in Seq(GoodRow) /\ Len(made) = Len(j.made) + 1
      BY <1>7, <2>1, <2>6, AppendProperties
    <2>8. websites \in SUBSET Hosts /\ fallbacks \in SUBSET Names
      BY <1>7, <2>2, <2>3, JobNumbers
    <2>9. /\ k \in ImportJob /\ k.made = made /\ k.queued = queued
          /\ k.skipped = j.skipped /\ k.failed = j.failed /\ k.rows = j.rows
          /\ k.known = j.known /\ k.websites = websites /\ k.fallbacks = fallbacks
          /\ k.asked = j.asked /\ k.found = j.found /\ k.ceiling = j.ceiling
      BY <1>9, <2>4, <2>7, <2>8 DEF ImportJob
    <2>10. IndexInv(k, companies)
      BY <1>7, <1>14, <2>1, <2>2, <2>3, <2>6, <2>9, MadeIndexed
    <2>11. k.rows = Len(k.made) + k.skipped + k.failed + Len(k.queued)
      <3>1. j.rows = (Len(j.made) + 1) + j.skipped + j.failed + Len(queued)
        BY <1>11
      <3> QED
        BY Zenon, <2>7, <2>9, <3>1
    <2>12. ImportJobInv("items", k, companies)
      BY <1>6, <1>7, <2>9, <2>10, <2>11 DEF ImportJobInv
    <2>13. /\ writer' \in Procs \union {NoProc}
           /\ \A q \in Procs : q # p /\ writer' = q => writer = q
      BY <1>14 DEF Import!Holds, Import!TakeLock, ImportInv, ImportTables
    <2>14. Import!Set(p, "items", k)
      BY <1>14, <2>5
    <2> QED
      BY <1>5, <2>12, <2>13, <2>14, ImportMove DEF ImportLabels, Import!Set, Import!Goto
  <1> QED
    BY <1>1, <1>2, <1>10, <1>12, <1>13, <1>14 DEF Import!Item

LEMMA StoredFacts ==
  ASSUME NEW j \in ImportJob, companies \in Seq(Import!StoredRow), NEW s, s = Import!Stored(j)
  PROVE  /\ s \in Seq(Import!StoredRow) /\ Len(s) = Len(j.made)
         /\ \A i \in 1..Len(j.made) :
                /\ s[i].host = j.made[i].host /\ s[i].name = j.made[i].name
                /\ s[i].known = j.known /\ s[i].batch = Len(companies) + 1
  <1>1. PICK n \in Nat : n = Len(j.made)
    BY JobNumbers, LenProperties
  <1>2. DOMAIN j.made = 1..n /\ \A i \in 1..n : j.made[i] \in GoodRow
    BY <1>1, JobNumbers, LenProperties, ElementOfSeq
  <1>3. s = [i \in 1..n |-> [host |-> j.made[i].host, name |-> j.made[i].name,
                             known |-> j.known, batch |-> Len(companies) + 1]]
    BY <1>2 DEF Import!Stored
  <1>4. Len(companies) + 1 \in Nat /\ j.known \in Nat
    BY JobNumbers, LenProperties
  <1>5. \A i \in 1..n : s[i] \in Import!StoredRow
    BY <1>2, <1>3, <1>4 DEF GoodRow, Import!StoredRow
  <1>6. s \in [1..n -> Import!StoredRow]
    BY <1>3, <1>5
  <1>7. s \in Seq(Import!StoredRow) /\ Len(s) = n
    BY <1>6
  <1> QED
    BY <1>1, <1>3, <1>7

(* What an import relies on in the table is not touched by what is added.  *)
LEMMA IndexGrows ==
  ASSUME NEW j \in ImportJob, NEW table \in Seq(Import!StoredRow), NEW s \in Seq(Import!StoredRow),
         IndexInv(j, table)
  PROVE  IndexInv(j, table \o s)
  <1>1. PICK more : more = table \o s
    OBVIOUS
  <1>2. j.known \in Nat /\ Len(table) \in Nat /\ Len(s) \in Nat
    BY JobNumbers, LenProperties
  <1>3. Len(more) = Len(table) + Len(s) /\ \A i \in 1..Len(table) : more[i] = table[i]
    BY <1>1, <1>2, ConcatProperties
  <1>4. j.known <= Len(table)
    BY DEF IndexInv
  <1>5. j.known <= Len(more) /\ \A i \in 1..j.known : more[i] = table[i]
    BY <1>2, <1>3, <1>4
  <1> HIDE DEF Indexed
  <1>6. IndexInv(j, more)
    BY <1>5 DEF IndexInv
  <1> QED
    BY <1>1, <1>6

LEMMA CommitTables ==
  ASSUME ImportInv, NEW p \in Procs, pc[p] = "items", NEW j, j = importing[p],
         NEW s, s = Import!Stored(j), companies' = companies \o s
  PROVE  Import!DuplicatesOverlap'
  <1>1. /\ j \in ImportJob /\ j.known \in Nat /\ Len(j.made) \in Nat /\ IndexInv(j, companies)
        /\ companies \in Seq(Import!StoredRow)
    BY HeldRows, HeldImport
  <1>2. PICK table : table = companies
    OBVIOUS
  <1>3. PICK more : more = companies \o s
    OBVIOUS
  <1>4. PICK made : made = j.made
    OBVIOUS
  <1>5. PICK n \in Nat : n = Len(table)
    BY <1>1, <1>2, LenProperties
  <1>6. PICK m \in Nat : m = Len(made)
    BY <1>1, <1>4
  <1>7. /\ s \in Seq(Import!StoredRow) /\ Len(s) = m
        /\ \A i \in 1..m : /\ s[i].host = made[i].host /\ s[i].name = made[i].name
                           /\ s[i].known = j.known /\ s[i].batch = n + 1
    BY <1>1, <1>2, <1>4, <1>5, <1>6, StoredFacts
  <1>8. /\ Len(more) = n + m /\ more \in Seq(Import!StoredRow)
        /\ \A i \in 1..n : more[i] = table[i]
        /\ \A i \in 1..m : more[n + i] = s[i]
    <2>1. /\ Len(more) = n + m /\ more \in Seq(Import!StoredRow)
          /\ \A i \in 1..(n + m) : more[i] = IF i <= n THEN table[i] ELSE s[i - n]
      <3>1. /\ table \in Seq(Import!StoredRow) /\ s \in Seq(Import!StoredRow)
            /\ more = table \o s /\ Len(table) = n /\ Len(s) = m
        BY <1>1, <1>2, <1>3, <1>5, <1>7
      <3>2. /\ table \o s \in Seq(Import!StoredRow)
            /\ Len(table \o s) = Len(table) + Len(s)
            /\ \A i \in 1..(Len(table) + Len(s)) :
                   (table \o s)[i] = IF i <= Len(table) THEN table[i] ELSE s[i - Len(table)]
        BY Zenon, <3>1, ConcatProperties
      <3> QED
        BY Zenon, <3>1, <3>2
    <2>2. \A i \in 1..n : i \in 1..(n + m) /\ i <= n
      OBVIOUS
    <2>3. \A i \in 1..m : n + i \in 1..(n + m) /\ ~(n + i <= n) /\ (n + i) - n = i
      OBVIOUS
    <2> QED
      BY <2>1, <2>2, <2>3
  <1>9. DOMAIN more = 1..(n + m)
    BY <1>8
  <1>10. /\ j.known <= n
         /\ \A k \in 1..m : /\ \A i \in 1..j.known : ~Import!Same(made[k], table[i])
                            /\ \A i \in 1..(k - 1) : ~Import!Same(made[k], made[i])
    BY <1>1, <1>2, <1>4, <1>5, <1>6 DEF IndexInv
  <1>11. \A k \in 1..m : \A r : Import!Same(s[k], r) <=> Import!Same(made[k], r)
    BY <1>7 DEF Import!Same
  <1>12. \A k, i \in 1..m : Import!Same(made[k], s[i]) <=> Import!Same(made[k], made[i])
    BY <1>7 DEF Import!Same
  <1>13. ASSUME NEW i \in 1..(n + m), NEW k \in 1..(n + m), i < k, Import!Same(more[k], more[i])
         PROVE  more[k].known < i /\ i < more[k].batch
    <2>1. CASE k <= n
      <3>1. i \in 1..n /\ k \in 1..n
        BY <1>13, <2>1
      <3>2. DOMAIN table = 1..n
        BY <1>1, <1>2, <1>5, LenProperties
      <3>3. \A x, y \in 1..n : x < y /\ Import!Same(table[y], table[x]) =>
                table[y].known < x /\ x < table[y].batch
        BY <1>2, <3>2 DEF ImportInv, Import!DuplicatesOverlap
      <3> QED
        BY <1>8, <1>13, <3>1, <3>3
    <2>2. CASE ~(k <= n) /\ i <= n
      <3>1. PICK h \in 1..m : k = n + h
        BY <2>2
      <3>2. more[k] = s[h] /\ more[i] = table[i]
        BY <1>8, <2>2, <3>1
      <3>3. ~(i <= j.known)
        <4>1. Import!Same(made[h], table[i])
          BY <1>11, <1>13, <3>2
        <4>2. i <= j.known => i \in 1..j.known
          BY <1>1, <2>2
        <4> QED
          BY <1>10, <4>1, <4>2
      <3>4. s[h].known = j.known /\ s[h].batch = n + 1
        BY <1>7
      <3> QED
        BY <1>1, <2>2, <3>2, <3>3, <3>4
    <2>3. CASE ~(k <= n) /\ ~(i <= n)
      <3>1. PICK h \in 1..m : k = n + h
        BY <2>3
      <3>2. PICK g \in 1..m : i = n + g
        BY <2>3
      <3>3. g \in 1..(h - 1)
        BY <1>13, <3>1, <3>2
      <3>4. more[k] = s[h] /\ more[i] = s[g]
        BY <1>8, <3>1, <3>2
      <3> QED
        BY <1>10, <1>11, <1>12, <1>13, <3>3, <3>4
    <2> QED
      BY <2>1, <2>2, <2>3
  <1>14. companies' = more
    BY <1>3
  <1> HIDE DEF Import!Same
  <1> QED
    BY <1>9, <1>13, <1>14 DEF Import!DuplicatesOverlap

(* The report of an import that commits.                                   *)
LEMMA CommitFacts ==
  ASSUME ImportInv, NEW p \in Procs, Import!Commit(p), NEW j, j = importing[p]
  PROVE  \E r \in Import!Report :
             /\ Import!Answer(p, r) /\ r.total = j.rows /\ r.imported = Len(j.made)
             /\ r.skipped = j.skipped /\ r.failed = j.failed
             /\ r.total = r.imported + r.skipped + r.failed
  <1>1. /\ pc[p] = "items" /\ j.queued = <<>>
        /\ Import!Answer(p, [total |-> j.rows, imported |-> Len(j.made),
                             skipped |-> j.skipped, failed |-> j.failed])
    BY DEF Import!Commit
  <1>2. PICK r : r = [total |-> j.rows, imported |-> Len(j.made),
                      skipped |-> j.skipped, failed |-> j.failed]
    OBVIOUS
  <1>3. PICK m \in Nat : m = Len(j.made)
    BY <1>1, HeldRows
  <1>4. /\ j.skipped \in Nat /\ j.failed \in Nat /\ j.rows \in Nat
        /\ j.rows = m + j.skipped + j.failed + Len(<<>>)
    BY <1>1, <1>3, HeldRows
  <1>5. r \in Import!Report
    BY <1>2, <1>3, <1>4, ReportTypes
  <1>6. /\ r.total = j.rows /\ r.imported = m /\ r.skipped = j.skipped /\ r.failed = j.failed
    BY <1>2, <1>3
  <1>7. j.rows = m + j.skipped + j.failed
    <2>1. Len(<<>>) = 0
      OBVIOUS
    <2>2. PICK a \in Nat : a = j.skipped
      BY <1>4
    <2>3. PICK b \in Nat : b = j.failed
      BY <1>4
    <2>4. m + a + b + 0 = m + a + b
      OBVIOUS
    <2> QED
      BY Zenon, <1>4, <2>1, <2>2, <2>3, <2>4
  <1>8. Import!Answer(p, r)
    BY <1>1, <1>2
  <1> QED
    BY Zenon, <1>3, <1>5, <1>6, <1>7, <1>8

LEMMA CommitInv ==
  ASSUME ImportInv, NEW p \in Procs, Import!Commit(p) PROVE ImportInv'
  <1>1. PICK j : j = importing[p]
    OBVIOUS
  <1>2. PICK s : s = Import!Stored(j)
    OBVIOUS
  <1>3. pc[p] = "items" /\ companies' = companies \o s /\ Import!GiveLock(p)
    BY <1>1, <1>2 DEF Import!Commit
  <1>4. PICK r \in Import!Report : Import!Answer(p, r)
    BY <1>1, CommitFacts
  <1>5. PICK k \in ImportJob : k.asked = 0 /\ k.found = 0 /\ Import!Set(p, "done", k)
    BY <1>4, ImportAnswer
  <1>6. pc' = [pc EXCEPT ![p] = "done"] /\ importing' = [importing EXCEPT ![p] = k]
    BY <1>5 DEF Import!Set, Import!Goto
  <1>7. ImportTables
    BY DEF ImportInv
  <1>8. \A q \in Procs : /\ pc'[q] = IF q = p THEN "done" ELSE pc[q]
                         /\ importing'[q] = IF q = p THEN k ELSE importing[q]
    BY <1>6, <1>7 DEF ImportTables
  <1>9. s \in Seq(Import!StoredRow) /\ companies \in Seq(Import!StoredRow)
    BY <1>1, <1>2, HeldImport, StoredFacts
  <1>10. ImportTables'
    <2>1. pc' \in [Procs -> ImportLabels]
      BY <1>6, <1>7 DEF ImportTables, ImportLabels
    <2>2. DOMAIN importing' = Procs /\ importing' = [q \in Procs |-> importing'[q]]
      BY <1>6, <1>7 DEF ImportTables
    <2>3. writer' \in Procs \union {NoProc} /\ \A q \in Procs : writer' = q => pc'[q] = "items"
      BY <1>3, <1>7, <1>8, NoProcAssumption DEF ImportTables, Import!GiveLock
    <2>4. companies' \in Seq(Import!StoredRow)
      BY <1>3, <1>9, ConcatProperties
    <2> QED
      BY <2>1, <2>2, <2>3, <2>4 DEF ImportTables
  <1>11. ASSUME NEW q \in Procs PROVE ImportJobInv(pc'[q], importing'[q], companies')
    <2>1. CASE q = p
      <3>1. ImportJobInv("done", k, companies')
        BY <1>5, IdleJobInv
      <3> QED
        BY <1>8, <2>1, <3>1
    <2>2. CASE q # p
      <3>1. PICK h : h = importing[q]
        OBVIOUS
      <3>2. PICK label : label = pc[q]
        OBVIOUS
      <3>3. ImportJobInv(label, h, companies) /\ h \in ImportJob
        BY <3>1, <3>2, HeldImport
      <3>4. label = "items" => IndexInv(h, companies')
        BY <1>3, <1>9, <3>3, IndexGrows DEF ImportJobInv
      <3>5. ImportJobInv(label, h, companies')
        BY <3>3, <3>4 DEF ImportJobInv
      <3> QED
        BY <1>8, <2>2, <3>1, <3>2, <3>5
    <2> QED
      BY <2>1, <2>2
  <1>12. Import!DuplicatesOverlap'
    BY <1>1, <1>2, <1>3, CommitTables
  <1> QED
    BY <1>10, <1>11, <1>12 DEF ImportInv

LEMMA ImportStepInv == ASSUME ImportInv, Import!Next PROVE ImportInv'
  <1>1. PICK p \in Procs : Import!ImportStep(p)
    BY DEF Import!Next
  <1>2. CASE Import!CsvStart(p) \/ Import!ProfileStart(p) \/ Import!SerpApiStart(p)
    BY Zenon, <1>2, CsvStartInv, ProfileStartInv, SerpApiStartInv
  <1>3. CASE Import!Search(p) \/ Import!Searched(p) \/ Import!Nothing(p)
    BY Zenon, <1>3, SearchInvStep, SearchedInv, NothingInv
  <1>4. CASE Import!ReadProject(p) \/ Import!ReadIndex(p) \/ Import!Item(p)
    BY Zenon, <1>4, ReadProjectInv, ReadIndexInv, ItemImportInv
  <1>5. CASE Import!Commit(p) \/ Import!PersistenceFailure(p)
    BY Zenon, <1>5, CommitInv, PersistenceFailureInv
  <1>6. CASE Import!Exit(p) \/ Import!Crash(p)
    BY Zenon, <1>6, ExitImportInv
  <1> QED
    BY Zenon, <1>1, <1>2, <1>3, <1>4, <1>5, <1>6 DEF Import!ImportStep

(* While a behaviour is of another kind of command, no company is stored.  *)
ImportKept ==
    IF command = "import" THEN ImportInv
    ELSE companies = <<>> /\ importing = [p \in Procs |-> Import!NoJob]

LEMMA ImportKeptStep ==
  ASSUME ImportKept, [Acquire \/ ImportCompanies \/ GenerateMissing \/ ExportCrm]_all
  PROVE  ImportKept'
  <1>1. CASE ImportCompanies
    <2>1. command' = "import" /\ ImportInv /\ Import!Next
      BY <1>1 DEF ImportCompanies, ImportKept
    <2> QED
      BY <2>1, ImportStepInv DEF ImportKept
  <1>2. CASE (Acquire \/ GenerateMissing \/ ExportCrm) /\ command # "import"
    BY <1>2 DEF Acquire, GenerateMissing, ExportCrm, import, ImportKept
  <1>3. CASE UNCHANGED all
    <2>1. UNCHANGED <<command, writer, pc, companies, importing>>
      BY <1>3 DEF all, import, processes
    <2>2. CASE command = "import"
      <3>1. ImportTables /\ Import!DuplicatesOverlap
            /\ \A p \in Procs : ImportJobInv(pc[p], importing[p], companies)
        BY <2>2 DEF ImportKept, ImportInv
      <3>2. ImportTables'
        BY <2>1, <3>1 DEF ImportTables
      <3>3. Import!DuplicatesOverlap'
        BY <2>1, <3>1 DEF Import!DuplicatesOverlap
      <3>4. \A p \in Procs : ImportJobInv(pc'[p], importing'[p], companies')
        BY <2>1, <3>1
      <3> QED
        BY <2>1, <2>2, <3>2, <3>3, <3>4 DEF ImportKept, ImportInv
    <2>3. CASE command # "import"
      BY <2>1, <2>3 DEF ImportKept
    <2> QED
      BY <2>2, <2>3
  <1>4. Acquire \/ GenerateMissing \/ ExportCrm => command # "import"
    BY DEF Acquire, GenerateMissing, ExportCrm
  <1> QED
    BY Zenon, <1>1, <1>2, <1>3, <1>4

LEMMA ImportInvariant == BulkSpec => []ImportKept
  <1>1. BulkInit => ImportKept
    BY ImportInit DEF BulkInit, ImportKept, Import!Init
  <1> QED
    BY <1>1, ImportKeptStep, PTL DEF BulkSpec

(* Two imports store one company twice only if they overlap: a row that    *)
(* repeats an earlier one was stored by an import that had read the        *)
(* companies before the earlier row was committed, and never by the import *)
(* that stored the earlier one (CompanyIngestionService.ingest and its     *)
(* duplicate indexes).                                                     *)
THEOREM DuplicatesAreOverlaps == BulkSpec => []DuplicatesOverlap
  <1>1. ImportKept => DuplicatesOverlap
    BY DEF ImportKept, ImportInv, DuplicatesOverlap, Import!DuplicatesOverlap
  <1> QED
    BY <1>1, ImportInvariant, PTL

(* What the report of a process that has just answered says.               *)
ReportTold(p) ==
    LET r == importing'[p].report
    IN  /\ r.imported = Len(companies') - Len(companies)
        /\ r.total = r.imported + r.skipped + r.failed
        /\ r.total >= importing[p].rows

LEMMA AnswerTold ==
  ASSUME ImportInv, NEW p \in Procs, NEW r, r \in Import!Report, Import!Answer(p, r),
         r.imported = Len(companies') - Len(companies),
         r.total = r.imported + r.skipped + r.failed, r.total >= importing[p].rows
  PROVE  ReportTold(p)
  <1>1. PICK j \in ImportJob, n \in Nat :
            /\ Import!Set(p, "done", j)
            /\ j.report.total = r.total + n /\ j.report.imported = r.imported
            /\ j.report.skipped = r.skipped /\ j.report.failed = r.failed + n
    BY ImportAnswer
  <1>2. importing'[p] = j
    BY <1>1 DEF Import!Set, ImportInv, ImportTables
  <1>3. PICK a \in Nat : a = r.imported
    BY DEF Import!Report
  <1>4. PICK b \in Nat : b = r.skipped
    BY DEF Import!Report
  <1>5. PICK c \in Nat : c = r.failed
    BY DEF Import!Report
  <1>6. PICK t \in Nat : t = r.total
    BY DEF Import!Report
  <1>7. PICK rows \in Nat : rows = importing[p].rows
    BY HeldImport, JobNumbers
  <1>8. t = a + b + c /\ t >= rows
    BY Zenon, <1>3, <1>4, <1>5, <1>6, <1>7
  <1>9. t + n = a + b + (c + n) /\ t + n >= rows
    BY <1>8
  <1>10. /\ importing'[p].report.total = t + n /\ importing'[p].report.imported = a
         /\ importing'[p].report.skipped = b /\ importing'[p].report.failed = c + n
    BY Zenon, <1>1, <1>2, <1>3, <1>4, <1>5, <1>6
  <1> QED
    BY Zenon, <1>3, <1>7, <1>9, <1>10 DEF ReportTold

(* The steps that answer.                                                  *)
LEMMA NotYetDone ==
  ASSUME ImportInv, NEW p \in Procs, pc[p] # "done", pc'[p] = "done",
         NEW q \in Procs, Import!ImportStep(q)
  PROVE  /\ q = p
         /\ Import!Nothing(p) \/ Import!ReadProject(p) \/ Import!PersistenceFailure(p)
            \/ Import!Commit(p)
  <1>1. \A label, j : Import!Set(q, label, j) /\ label # "done" => FALSE
    <2> SUFFICES ASSUME NEW label, NEW j, Import!Set(q, label, j), label # "done" PROVE FALSE
      OBVIOUS
    <2>1. pc' = [pc EXCEPT ![q] = label] /\ pc \in [Procs -> ImportLabels]
      BY DEF Import!Set, Import!Goto, ImportInv, ImportTables
    <2> QED
      BY <2>1
  <1>2. ~Import!CsvStart(q) /\ ~Import!Searched(q)
    <2>1. \A lines : ~Import!Submit(q, lines)
      BY <1>1 DEF Import!Submit
    <2> QED
      BY <2>1 DEF Import!CsvStart, Import!Searched
  <1>3. ~Import!ProfileStart(q) /\ ~Import!SerpApiStart(q)
    BY <1>1 DEF Import!ProfileStart, Import!SerpApiStart
  <1>4. ~Import!Search(q)
    BY <1>1 DEF Import!Search
  <1>5. ~Import!ReadIndex(q) /\ ~Import!Exit(q) /\ ~Import!Crash(q)
    BY <1>1 DEF Import!ReadIndex, Import!Exit, Import!Crash
  <1>6. ~Import!Item(q)
    BY <1>1 DEF Import!Item
  <1>7. \/ Import!Nothing(q) \/ Import!ReadProject(q) \/ Import!PersistenceFailure(q)
        \/ Import!Commit(q)
    BY <1>2, <1>3, <1>4, <1>5, <1>6 DEF Import!ImportStep
  <1>8. q = p
    <2>1. pc' = [pc EXCEPT ![q] = "done"] /\ pc \in [Procs -> ImportLabels]
      <3>1. pc' = [pc EXCEPT ![q] = "done"] \/ pc' = [pc EXCEPT ![q] = "index"]
        BY <1>7 DEF Import!Nothing, Import!ReadProject, Import!PersistenceFailure, Import!Commit,
                    Import!Answer, Import!Set, Import!Goto
      <3>2. pc \in [Procs -> ImportLabels]
        BY DEF ImportInv, ImportTables
      <3> QED
        BY <3>1, <3>2
    <2> QED
      BY <2>1
  <1> QED
    BY <1>7, <1>8

LEMMA ImportTold ==
  ASSUME ImportInv, Import!Next, NEW p \in Procs, pc[p] # "done", pc'[p] = "done"
  PROVE  ReportTold(p)
  <1>1. \/ Import!Nothing(p) \/ Import!ReadProject(p) \/ Import!PersistenceFailure(p)
        \/ Import!Commit(p)
    BY NotYetDone DEF Import!Next
  <1>2. PICK j : j = importing[p]
    OBVIOUS
  <1>3. PICK size \in Nat : size = Len(companies)
    BY HeldImport, LenProperties
  <1>4. size - size = 0
    OBVIOUS
  <1>5. companies' = companies => Len(companies') - Len(companies) = 0
    BY <1>3, <1>4
  <1>6. CASE Import!Nothing(p)
    <2>1. PICK r : r = Import!NoReport
      OBVIOUS
    <2>2. Import!Answer(p, r) /\ companies' = companies /\ pc[p] = "nothing"
      BY <1>6, <2>1 DEF Import!Nothing
    <2>3. j.rows = 0
      BY <1>2, <2>2, HeldImport DEF ImportJobInv
    <2>4. /\ r \in Import!Report /\ r.imported = 0 /\ r.total = 0 /\ r.skipped = 0 /\ r.failed = 0
      BY <2>1, NoReportType
    <2>5. r.total = r.imported + r.skipped + r.failed /\ r.total >= j.rows
      BY <2>3, <2>4
    <2> QED
      BY <1>2, <1>5, <2>2, <2>4, <2>5, AnswerTold
  <1>7. CASE Import!ReadProject(p)
    <2>1. pc[p] = "project" /\ companies' = companies
      BY <1>7 DEF Import!ReadProject
    <2>2. PICK rows \in Nat : rows = j.rows
      BY <1>2, <2>1, HeldRows
    <2>3. ~Import!Set(p, "index", j)
      BY DEF Import!Set, Import!Goto, ImportInv, ImportTables
    <2>4. PICK r : r = [Import!NoReport EXCEPT !.total = rows, !.failed = rows]
      OBVIOUS
    <2>5. Import!Answer(p, r)
      BY <1>2, <1>7, <2>2, <2>3, <2>4 DEF Import!ReadProject
    <2>6. r = [total |-> rows, imported |-> 0, skipped |-> 0, failed |-> rows]
      BY <2>4 DEF Import!NoReport
    <2>7. /\ r.imported = 0 /\ r.total = rows /\ r.skipped = 0 /\ r.failed = rows
          /\ r \in Import!Report
      BY <2>6, ReportTypes
    <2>8. r.total = r.imported + r.skipped + r.failed /\ r.total >= rows
      BY <2>2, <2>7
    <2> QED
      BY <1>2, <1>5, <2>1, <2>2, <2>5, <2>7, <2>8, AnswerTold
  <1>8. CASE Import!PersistenceFailure(p)
    <2>1. PICK r : r = Import!RolledBack(j)
      OBVIOUS
    <2>2. /\ pc[p] \in {"project", "index", "items"} /\ Import!Answer(p, r)
          /\ companies' = companies
      BY <1>2, <1>8, <2>1 DEF Import!PersistenceFailure
    <2>3. PICK rows \in Nat : rows = j.rows
      BY <1>2, <2>2, HeldRows
    <2>4. PICK skipped \in Nat : skipped = j.skipped
      BY <1>2, <2>2, HeldRows
    <2>5. PICK others \in Nat : rows = skipped + others
      <3>1. PICK a \in Nat : a = Len(j.made)
        BY <1>2, <2>2, HeldRows
      <3>2. PICK b \in Nat : b = j.failed
        BY <1>2, <2>2, HeldRows
      <3>3. PICK c \in Nat : c = Len(j.queued)
        BY <1>2, <2>2, HeldRows
      <3>4. j.rows = Len(j.made) + j.skipped + j.failed + Len(j.queued)
        BY <1>2, <2>2, HeldRows
      <3>5. rows = a + skipped + b + c
        BY Zenon, <2>3, <2>4, <3>1, <3>2, <3>3, <3>4
      <3>6. rows = skipped + (a + b + c) /\ a + b + c \in Nat
        BY <3>5
      <3> QED
        BY <3>6
    <2>6. r = [total |-> rows, imported |-> 0, skipped |-> skipped, failed |-> rows - skipped]
      BY Zenon, <2>1, <2>3, <2>4 DEF Import!RolledBack
    <2>7. rows - skipped \in Nat
      BY <2>5
    <2>8. /\ r.imported = 0 /\ r.total = rows /\ r.skipped = skipped /\ r.failed = rows - skipped
          /\ r \in Import!Report
      BY <2>6, <2>7, ReportTypes
    <2>9. r.total = r.imported + r.skipped + r.failed /\ r.total >= rows
      BY <2>5, <2>8
    <2> QED
      BY <1>2, <1>5, <2>2, <2>3, <2>8, <2>9, AnswerTold
  <1>9. CASE Import!Commit(p)
    <2>1. PICK r \in Import!Report :
              /\ Import!Answer(p, r) /\ r.total = j.rows /\ r.imported = Len(j.made)
              /\ r.total = r.imported + r.skipped + r.failed
      BY <1>2, <1>9, CommitFacts
    <2>2. PICK s : s = Import!Stored(j)
      OBVIOUS
    <2>3. companies' = companies \o s /\ pc[p] = "items"
      BY <1>2, <1>9, <2>2 DEF Import!Commit
    <2>4. /\ s \in Seq(Import!StoredRow) /\ companies \in Seq(Import!StoredRow)
          /\ Len(s) = Len(j.made)
      BY <1>2, <2>2, HeldImport, StoredFacts
    <2>5. Len(companies') = Len(companies) + Len(s)
      BY <2>3, <2>4, ConcatProperties
    <2>6. PICK m \in Nat : m = Len(j.made)
      BY <1>2, <2>3, HeldRows
    <2>7. (size + m) - size = m
      OBVIOUS
    <2>8. r.imported = Len(companies') - Len(companies)
      BY Zenon, <1>3, <2>1, <2>4, <2>5, <2>6, <2>7
    <2>9. r.total >= j.rows
      <3>1. PICK rows \in Nat : rows = j.rows
        BY <1>2, <2>3, HeldRows
      <3> QED
        BY <2>1, <3>1
    <2> QED
      BY <1>2, <2>1, <2>8, <2>9, AnswerTold
  <1> QED
    BY <1>1, <1>6, <1>7, <1>8, <1>9

(* The report of an import is true whatever becomes of it, rows that fail, *)
(* a project that is not found or a transaction rolled back after rows     *)
(* were counted: it counts each line once, and as imported exactly what    *)
(* the import adds to the table (CompanyIngestionService.ingest and        *)
(* _persistence_failure).                                                  *)
THEOREM ImportReportsAreTrue == BulkSpec => ReportTrue
  <1>1. ASSUME ImportKept, [Acquire \/ ImportCompanies \/ GenerateMissing \/ ExportCrm]_all
        PROVE  [\A p \in Procs : pc[p] # "done" /\ pc'[p] = "done" =>
                    LET r == importing'[p].report
                    IN  /\ r.imported = Len(companies') - Len(companies)
                        /\ r.total = r.imported + r.skipped + r.failed
                        /\ r.total >= importing[p].rows]_(Import!vars)
    <2>1. CASE ImportCompanies
      <3>1. ImportInv /\ Import!Next
        BY <1>1, <2>1 DEF ImportCompanies, ImportKept
      <3> QED
        BY <3>1, ImportTold DEF ReportTold
    <2>2. CASE (Acquire \/ GenerateMissing \/ ExportCrm) /\ command # "import"
      <3>1. ASSUME NEW p \in Procs PROVE ReportTold(p)
        <4>1. /\ companies = <<>> /\ companies' = <<>>
              /\ importing = [q \in Procs |-> Import!NoJob] /\ importing' = importing
          BY <1>1, <2>2 DEF ImportKept, Acquire, GenerateMissing, ExportCrm, import
        <4>2. /\ importing[p].rows = 0 /\ importing'[p].report = Import!NoReport
          BY <4>1, NoImportJob
        <4>3. Len(<<>>) = 0
          OBVIOUS
        <4> QED
          BY <4>1, <4>2, <4>3, NoReportType DEF ReportTold
      <3> QED
        BY <3>1 DEF ReportTold
    <2>3. CASE UNCHANGED all
      BY <2>3 DEF all, import, processes, Import!vars
    <2>4. Acquire \/ GenerateMissing \/ ExportCrm => command # "import"
      BY DEF Acquire, GenerateMissing, ExportCrm
    <2> QED
      BY Zenon, <1>1, <2>1, <2>2, <2>3, <2>4
  <1> QED
    BY <1>1, ImportInvariant, PTL DEF BulkSpec, ReportTrue, Import!ReportTrue

-----------------------------------------------------------------------------
(* The types. *)

LEMMA ImportTypes == ImportInv => Import!TypeOK /\ Import!SearchBounded
  <1> SUFFICES ASSUME ImportInv PROVE Import!TypeOK /\ Import!SearchBounded
    OBVIOUS
  <1>1. \A p \in Procs : importing[p].report \in Import!Report
    BY HeldImport DEF ImportJob
  <1>2. \A p \in Procs : importing[p].asked <= MaxQueries /\ importing[p].found <= importing[p].ceiling
    BY HeldImport DEF ImportJobInv
  <1> QED
    BY <1>1, <1>2 DEF ImportInv, ImportTables, Import!TypeOK, Import!SearchBounded, Import!Holds

LEMMA MissingTypes == MissingInv => Missing!TypeOK
  <1> SUFFICES ASSUME MissingInv PROVE Missing!TypeOK
    OBVIOUS
  <1>1. ASSUME NEW p \in Procs, NEW r, r = generating[p]
        PROVE  /\ r.selected \subseteq Tasks /\ Missing!Cardinality(r.selected) <= r.limit
               /\ r.calls <= Missing!Cardinality(r.selected)
               /\ DOMAIN r.items \subseteq r.selected
               /\ \A t \in DOMAIN r.items : r.items[t] \in Missing!Result
    <2>1. PICK label : label = pc[p]
      OBVIOUS
    <2>2. IsMissingRun(r) /\ MissingRunInv(p, label, r)
      BY <1>1, <2>1 DEF MissingInv, MissingRunInv
    <2>3. /\ r.selected \subseteq Tasks /\ Cardinality(r.selected) <= r.limit
          /\ DOMAIN r.items \subseteq r.selected
          /\ \A t \in DOMAIN r.items : r.items[t] \in Missing!Result
          /\ r.calls \in Nat
      BY <2>2 DEF IsMissingRun
    <2>4. IsFiniteSet(r.selected)
      <3>1. r.selected \in SUBSET Tasks /\ IsFiniteSet(Tasks)
        BY <2>3, TaskAssumption
      <3> QED
        BY <3>1, FS_Subset
    <2>5. PICK D : D = DOMAIN r.items
      OBVIOUS
    <2>6. PICK S : S = r.selected
      OBVIOUS
    <2>7. D \in SUBSET S /\ IsFiniteSet(S)
      BY <2>3, <2>4, <2>5, <2>6
    <2>8. /\ IsFiniteSet(D) /\ Cardinality(D) <= Cardinality(S)
          /\ (Cardinality(D) = Cardinality(S) => D = S)
      BY <2>7, FS_Subset
    <2>9. Cardinality(D) \in Nat /\ Cardinality(S) \in Nat
      BY <2>7, <2>8, FS_CardinalityType
    <2>10. r.calls + CallDue(label) <= Cardinality(D) + ItemDue(label)
      BY <2>2, <2>5 DEF MissingRunInv
    <2>11. label \in Busy => D # S
      BY <2>2, <2>5, <2>6 DEF MissingRunInv, Missing!Left
    <2>12. r.calls <= Cardinality(S)
      <3>1. PICK n \in Nat : n = r.calls
        BY <2>3
      <3>2. PICK due \in Nat : due = CallDue(label)
        BY DEF CallDue
      <3>3. CASE label \in Busy
        <4>1. n + due <= Cardinality(D) + 1 /\ Cardinality(D) # Cardinality(S)
          BY <2>8, <2>10, <2>11, <3>1, <3>2, <3>3 DEF ItemDue
        <4> QED
          BY <2>8, <2>9, <3>1, <4>1
      <3>4. CASE label \notin Busy
        <4>1. n + due <= Cardinality(D) + 0
          BY <2>10, <3>1, <3>2, <3>4 DEF ItemDue
        <4> QED
          BY <2>8, <2>9, <3>1, <4>1
      <3> QED
        BY <3>3, <3>4
    <2> QED
      BY <2>3, <2>6, <2>12, SameCardinality
  <1> QED
    BY <1>1 DEF MissingInv, MissingTables, Missing!TypeOK

LEMMA ExportTypes == ExportInv => Export!TypeOK
  <1>1. ASSUME ExportInv, NEW p \in Procs PROVE exporting[p].answer \in Export!Answers
    BY <1>1, JobFields DEF ExportInv, ExportJobInv
  <1> QED
    BY <1>1 DEF ExportInv, ExportTables, Export!TypeOK

(* Every variable keeps its type, the searches and the missing-draft batch *)
(* keep within their limits, and no import holds the write lock but while  *)
(* it stores its rows.                                                     *)
THEOREM BulkTypes == BulkSpec => []BulkTypeOK
  <1>1. AcquisitionInv /\ ImportKept /\ MissingKept /\ ExportKept => BulkTypeOK
    BY ImportTypes, MissingTypes, ExportTypes
       DEF AcquisitionInv, ImportKept, MissingKept, ExportKept, BulkTypeOK
  <1> QED
    BY <1>1, AcquisitionInvariant, ImportInvariant, MissingInvariant, ExportInvariant, PTL
=============================================================================
