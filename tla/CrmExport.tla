----------------------------- MODULE CrmExport -----------------------------
(***************************************************************************)
(* The CRM as an Excel file: export-excel writes what the tables show, and *)
(* export-outreach-batch records a batch of drafts as sent by hand between *)
(* a trial export and the one that is kept.  A workbook is built from two  *)
(* loads of the tables with no transaction around them; a file is put in   *)
(* place by a link, which fails if there is one, or by a replacement.      *)
(* ManualOutreach models the recording statement by statement; here its    *)
(* reads of one draft are one step, as are its writes, which hold the      *)
(* write lock from the first to the commit.                                *)
(***************************************************************************)
EXTENDS WriteLock, Naturals, FiniteSetsExt

CONSTANTS Drafts,     \* by their keys, numbers
          First,      \* the drafts there are at the beginning
          Tasks,      \* by their keys, numbers
          DueRank,    \* the order of the tasks by their due dates, those without one last
          TaskOf,     \* the task a draft is for
          LeadOf,     \* the lead of a task
          Batches,    \* the lists of drafts a batch is asked for
          NoFile,
          MaxChanges  \* what else happens while the commands run: a bound of the instance

VARIABLES draft,   \* the drafts by key
          task,    \* the tasks by key: their status
          file,    \* what is at the destination
          job,     \* what each command holds; a process runs one
          changes  \* how often something else has changed

vars == <<writer, pc, draft, task, file, job, changes>>

TaskStatus == {"TODO", "IN_PROGRESS", "DONE", "CANCELLED"}

Open(t) == task[t] \in {"TODO", "IN_PROGRESS"}

(* "sender" is the command that recorded the draft as sent by hand;        *)
(* "reserved" says that a delivery has claimed it, with an attempt.        *)
DraftRow == [exists : BOOLEAN, status : {"DRAFT", "APPROVED", "REJECTED"},
             current : BOOLEAN, sender : Procs \union {NoProc}, reserved : BOOLEAN]

Sent(d) == draft[d].sender # NoProc

(* A workbook shows of each of its drafts how the outreach stands and      *)
(* whether the time of a sending by hand is given.  AUTOMATIC stands for   *)
(* each outcome of an attempt.                                             *)
Shown == [status : {"DRAFT", "APPROVED", "REJECTED", "MANUALLY_SENT", "AUTOMATIC"},
          timed : BOOLEAN]

Workbook == UNION {[ds -> Shown] : ds \in SUBSET Drafts}

NoJob == [drafts |-> {}, left |-> {}, overwrite |-> FALSE, snapshot |-> <<>>, leading |-> {},
          rows |-> <<>>, answer |-> ""]

Set(p, label, j) == Goto(p, label) /\ job' = [job EXCEPT ![p] = j]

Answer(p, answer) == Set(p, "done", [NoJob EXCEPT !.drafts = job[p].drafts, !.answer = answer])

crm == <<writer, draft, task, changes>>

-----------------------------------------------------------------------------
(* The overview: one row for each lead, with one task and one draft. *)

TasksIn(l, status) == {t \in Tasks : LeadOf[t] = l /\ task[t] = status}

Soonest(ts) ==
    CHOOSE t \in ts : \A u \in ts : \/ DueRank[t] < DueRank[u]
                                    \/ DueRank[t] = DueRank[u] /\ t <= u

(* _select_task: one in progress before one to do, by due date; else the   *)
(* last one done; else the last one cancelled.                             *)
SelectTask(l) ==
    IF TasksIn(l, "IN_PROGRESS") # {} THEN Soonest(TasksIn(l, "IN_PROGRESS"))
    ELSE IF TasksIn(l, "TODO") # {} THEN Soonest(TasksIn(l, "TODO"))
    ELSE IF TasksIn(l, "DONE") # {} THEN Max(TasksIn(l, "DONE"))
    ELSE Max(TasksIn(l, "CANCELLED"))

DraftsOf(ts) == {d \in Drafts : draft[d].exists /\ TaskOf[d] \in ts}

(* _select_draft: the last of that task, or of the lead if it has none.    *)
SelectDraft(l) ==
    LET relevant == DraftsOf({SelectTask(l)})
        all == DraftsOf({t \in Tasks : LeadOf[t] = l})
    IN  IF relevant # {} THEN {Max(relevant)} ELSE IF all # {} THEN {Max(all)} ELSE {}

(* derive_outreach_status of every draft there is.                         *)
OutreachStatus ==
    [d \in DraftsOf(Tasks) |-> IF Sent(d) THEN "MANUALLY_SENT"
                               ELSE IF draft[d].reserved THEN "AUTOMATIC" ELSE draft[d].status]

(* CRMOverviewRepository.load and CRMOverviewService.build                 *)
Snapshot(j) ==
    [j EXCEPT !.snapshot = OutreachStatus,
              !.leading = UNION {SelectDraft(LeadOf[t]) : t \in Tasks}]

-----------------------------------------------------------------------------
(* The workbook. *)

(* A draft stored since the snapshot has no status in it: a KeyError.      *)
Loads(j) == DraftsOf(Tasks) \subseteq DOMAIN j.snapshot

(* The other way round: the time as it was at the snapshot.                *)
RowsOfSwapped(j, ds) ==
    [d \in ds |-> [status |-> OutreachStatus[d], timed |-> j.snapshot[d] = "MANUALLY_SENT"]]

(* The status by the snapshot, the time by the rows read now.              *)
RowsOf(j, ds) == [d \in ds |-> [status |-> j.snapshot[d], timed |-> Sent(d)]]

(* _select_drafts: each must be there, and be the one its lead shows.      *)
Selectable(j) == j.drafts \subseteq DraftsOf(Tasks) /\ j.drafts \subseteq j.leading

(* Only that the drafts are there.                                         *)
VerifiesPresent(rows, ds, status) == ds \subseteq DOMAIN rows

(* _verify_workbook                                                        *)
Verifies(rows, ds, status) ==
    \A d \in ds : /\ d \in DOMAIN rows
                  /\ rows[d].status = status
                  /\ status = "MANUALLY_SENT" => rows[d].timed

(* Putting the file in place whatever is there.                            *)
SaveOver(p) == file' = job[p].rows

(* _save_atomic: os.replace, or os.link, which fails if there is a file;   *)
(* the removal of the temporary file that was linked may still fail, and   *)
(* then the file is in place and the command fails.                        *)
Save(p) == (file = NoFile \/ job[p].overwrite) /\ file' = job[p].rows

-----------------------------------------------------------------------------
(* export-excel *)

ExportStart(p) ==
    /\ pc[p] = "idle"
    /\ \E overwrite \in BOOLEAN : Set(p, "load", [NoJob EXCEPT !.overwrite = overwrite])
    /\ UNCHANGED <<crm, file>>

ExportLoad(p) ==
    /\ pc[p] = "load"
    /\ IF file # NoFile /\ ~job[p].overwrite THEN Answer(p, "failed")
       ELSE Set(p, "rows", Snapshot(job[p]))
    /\ UNCHANGED <<crm, file>>

ExportRows(p) ==
    /\ pc[p] = "rows"
    /\ IF Loads(job[p])
       THEN Set(p, "save", [job[p] EXCEPT !.rows = RowsOf(job[p], DraftsOf(Tasks)),
                                          !.snapshot = <<>>, !.leading = {}])
       ELSE Answer(p, "failed")
    /\ UNCHANGED <<crm, file>>

ExportSave(p) ==
    /\ pc[p] = "save"
    /\ \/ Save(p) /\ \E answer \in {"written", "failed"} : Answer(p, answer)
       \/ Answer(p, "failed") /\ UNCHANGED file
    /\ UNCHANGED crm

-----------------------------------------------------------------------------
(* export-outreach-batch *)

(* _prevalidate_external_batch of one draft: what it is looked at for      *)
(* before its deliveries are.                                              *)
Acceptable(d) ==
    /\ draft[d].exists /\ draft[d].current /\ Open(TaskOf[d])
    /\ draft[d].status = "DRAFT"

Taken(d) == Sent(d) \/ draft[d].reserved

Valid(d) == Acceptable(d) /\ ~Taken(d)

TakenBy(d) == IF draft[d].reserved THEN "DELIVERY_ATTEMPT_EXISTS" ELSE "ALREADY_MANUALLY_SENT"

Reason(d) == IF Acceptable(d) THEN TakenBy(d) ELSE "INVALID_DRAFT"

BatchStart(p) ==
    /\ pc[p] = "idle"
    /\ \E ds \in Batches : Set(p, "preview", [NoJob EXCEPT !.drafts = ds, !.left = ds])
    /\ UNCHANGED <<crm, file>>

(* The drafts one after the other, in the preview and before recording.    *)
Check(p, here, next) ==
    /\ pc[p] = here
    /\ IF job[p].left = {} THEN Set(p, next, [job[p] EXCEPT !.left = job[p].drafts])
       ELSE LET d == Min(job[p].left)
            IN  IF Valid(d) THEN Set(p, here, [job[p] EXCEPT !.left = @ \ {d}])
                ELSE Answer(p, Reason(d))
    /\ UNCHANGED <<crm, file>>

Preview(p) == Check(p, "preview", "trial_load")

(* Unconfirmed, the preview is all.  Confirmed, the destination must be    *)
(* free before anything else happens.                                      *)
TrialLoad(p) ==
    /\ pc[p] = "trial_load"
    /\ \/ Answer(p, "CONFIRMATION_REQUIRED")
       \/ IF file # NoFile THEN Answer(p, "EXPORT_FAILED_BEFORE_MUTATION")
          ELSE Set(p, "trial_rows", Snapshot(job[p]))
    /\ UNCHANGED <<crm, file>>

(* The trial is built beside the destination, checked and removed.         *)
TrialRows(p) ==
    LET j == job[p]
    IN  /\ pc[p] = "trial_rows"
        /\ \/ /\ Loads(j) /\ Selectable(j)
              /\ Verifies(RowsOf(j, j.drafts), j.drafts, "DRAFT")
              /\ Set(p, "record", [j EXCEPT !.snapshot = <<>>, !.leading = {}])
           \/ Answer(p, "EXPORT_FAILED_BEFORE_MUTATION")
        /\ UNCHANGED <<crm, file>>

RecordCheck(p) == Check(p, "record", "claim")

(* The claims of all drafts, their records and the commit, or none.        *)
Claim(p) ==
    LET ds == job[p].drafts
        lost == {d \in ds : Taken(d)}
    IN  /\ pc[p] = "claim"
        /\ \/ /\ WriteAtOnce /\ lost = {}
              /\ draft' = [d \in Drafts |-> IF d \in ds THEN [draft[d] EXCEPT !.sender = p]
                                            ELSE draft[d]]
              /\ Set(p, "final_load", job[p])
           \/ /\ lost # {} /\ Answer(p, TakenBy(Min(lost))) /\ UNCHANGED <<writer, draft>>
           \/ /\ Answer(p, "PERSISTENCE_FAILURE") /\ UNCHANGED <<writer, draft>>
        /\ UNCHANGED <<task, file, changes>>

FinalFailed(p) == Answer(p, "MANUAL_SEND_RECORDED_EXPORT_FAILED")

FinalLoad(p) ==
    /\ pc[p] = "final_load"
    /\ IF file # NoFile THEN FinalFailed(p) ELSE Set(p, "final_rows", Snapshot(job[p]))
    /\ UNCHANGED <<crm, file>>

FinalRows(p) ==
    LET j == job[p]
    IN  /\ pc[p] = "final_rows"
        /\ IF Loads(j) /\ Selectable(j)
           THEN Set(p, "final_save", [j EXCEPT !.rows = RowsOf(j, j.drafts),
                                               !.snapshot = <<>>, !.leading = {}])
           ELSE FinalFailed(p)
        /\ UNCHANGED <<crm, file>>

FinalSave(p) ==
    /\ pc[p] = "final_save"
    /\ \/ Save(p) /\ (Set(p, "verify", job[p]) \/ FinalFailed(p))
       \/ FinalFailed(p) /\ UNCHANGED file
    /\ UNCHANGED crm

(* The verification reads what is at the destination now.                  *)
Verify(p) ==
    /\ pc[p] = "verify"
    /\ IF file # NoFile /\ Verifies(file, job[p].drafts, "MANUALLY_SENT")
       THEN Answer(p, "COMPLETE") ELSE FinalFailed(p)
    /\ UNCHANGED <<crm, file>>

Crash(p) ==
    /\ pc[p] \notin {"idle", "done"}
    /\ Set(p, "dead", NoJob)
    /\ UNCHANGED <<crm, file>>

-----------------------------------------------------------------------------
(* Meanwhile. *)

Change == changes < MaxChanges /\ changes' = changes + 1 /\ UNCHANGED <<writer, pc, job>>

DraftTo(row, d) ==
    /\ Change /\ writer = NoProc
    /\ draft' = [draft EXCEPT ![d] = row]
    /\ UNCHANGED <<task, file>>

(* A draft is stored, by whichever command.                                *)
Generate(d) ==
    /\ ~draft[d].exists /\ Open(TaskOf[d])
    /\ DraftTo([draft[d] EXCEPT !.exists = TRUE], d)

Review(d) ==
    /\ draft[d].exists /\ draft[d].status = "DRAFT"
    /\ \E verdict \in {"APPROVED", "REJECTED"} : DraftTo([draft[d] EXCEPT !.status = verdict], d)

(* A delivery reserves an approved draft (EmailDelivery).  That its task   *)
(* is open and its address current it has read before, and may be over.    *)
Deliver(d) ==
    /\ draft[d].exists /\ draft[d].status = "APPROVED" /\ ~Taken(d)
    /\ DraftTo([draft[d] EXCEPT !.reserved = TRUE], d)

(* The company's address changes: the draft's is not the current one.      *)
Readdress(d) ==
    /\ draft[d].current
    /\ DraftTo([draft[d] EXCEPT !.current = FALSE], d)

TaskStep(t) ==
    /\ Open(t) /\ Change /\ writer = NoProc
    /\ \E status \in (IF task[t] = "TODO" THEN {"IN_PROGRESS"} ELSE {"DONE", "CANCELLED"}) :
           task' = [task EXCEPT ![t] = status]
    /\ UNCHANGED <<draft, file>>

(* Somebody puts a file at the destination, or takes one away.             *)
Elsewhere ==
    /\ Change
    /\ file' = IF file = NoFile THEN <<>> ELSE NoFile
    /\ UNCHANGED <<draft, task>>

-----------------------------------------------------------------------------
Init ==
    /\ writer = NoProc
    /\ pc = [p \in Procs |-> "idle"]
    /\ draft = [d \in Drafts |-> [exists |-> d \in First, status |-> "DRAFT",
                                  current |-> TRUE, sender |-> NoProc, reserved |-> FALSE]]
    /\ task = [t \in Tasks |-> "TODO"]
    /\ file = NoFile
    /\ job = [p \in Procs |-> NoJob]
    /\ changes = 0

ExportStep(p) ==
    \/ ExportStart(p) \/ ExportLoad(p) \/ ExportRows(p) \/ ExportSave(p)
    \/ BatchStart(p) \/ Preview(p) \/ TrialLoad(p) \/ TrialRows(p) \/ RecordCheck(p) \/ Claim(p)
    \/ FinalLoad(p) \/ FinalRows(p) \/ FinalSave(p) \/ Verify(p)
    \/ Crash(p)

Next ==
    \/ \E p \in Procs : ExportStep(p)
    \/ \E d \in Drafts : Generate(d) \/ Review(d) \/ Deliver(d) \/ Readdress(d)
    \/ \E t \in Tasks : TaskStep(t)
    \/ Elsewhere

Spec == Init /\ [][Next]_vars

-----------------------------------------------------------------------------
Answers == {"", "written", "failed", "CONFIRMATION_REQUIRED", "INVALID_DRAFT",
            "ALREADY_MANUALLY_SENT", "DELIVERY_ATTEMPT_EXISTS", "EXPORT_FAILED_BEFORE_MUTATION",
            "PERSISTENCE_FAILURE", "MANUAL_SEND_RECORDED_EXPORT_FAILED", "COMPLETE"}

TypeOK ==
    /\ writer = NoProc
    /\ draft \in [Drafts -> DraftRow] /\ task \in [Tasks -> TaskStatus]
    /\ file # NoFile => file \in Workbook
    /\ \A p \in Procs : job[p].answer \in Answers

(* The answer to a batch tells whether its drafts have been recorded, all  *)
(* of them by this command or none: the operator sends the mails by it.    *)
(* COMPLETE tells in addition that the destination holds a workbook with   *)
(* each of them as sent, with its time.                                    *)
BatchAnswerTrue ==
    [][\A p \in Procs : pc[p] # "done" /\ pc'[p] = "done" =>
           LET answer == job'[p].answer
               recorded == {d \in job[p].drafts : draft'[d].sender = p}
           IN  /\ recorded = IF answer \in {"COMPLETE", "MANUAL_SEND_RECORDED_EXPORT_FAILED"}
                             THEN job[p].drafts ELSE {}
               /\ answer = "COMPLETE" =>
                      /\ file # NoFile /\ job[p].drafts \subseteq DOMAIN file
                      /\ \A d \in job[p].drafts :
                             file[d] = [status |-> "MANUALLY_SENT", timed |-> TRUE]]_vars

(* A file is never replaced by an export that was not told to overwrite:   *)
(* not even one that appears after the export has looked.                  *)
NeverReplaced ==
    [][file # NoFile /\ file' # NoFile /\ file' # file =>
           \E p \in Procs : pc[p] = "save" /\ job[p].overwrite]_vars

(* No workbook shows a draft as sent without the time of sending, however  *)
(* the tables change between the two loads it is built from.               *)
SentIsTimed ==
    file # NoFile => \A d \in DOMAIN file : file[d].status = "MANUALLY_SENT" => file[d].timed
=============================================================================
