--------------------------- MODULE OutreachStore ---------------------------
(***************************************************************************)
(* The outreach tables and the way a command line process reaches them.    *)
(*                                                                         *)
(* Every command of the platform is one operating system process that      *)
(* opens one SQLAlchemy session on the SQLite file.  The session does not  *)
(* autoflush, SQLite ignores FOR UPDATE, and the driver opens a            *)
(* transaction only at the first UPDATE or INSERT.  Hence:                 *)
(*   - a SELECT made before the first write sees the latest committed rows *)
(*     and holds no lock, so rows may change between two SELECTs;          *)
(*   - the first write takes the single write lock of the file (writer)    *)
(*     and keeps it until commit or rollback;                              *)
(*   - the writes of a transaction become visible at its commit, at once.  *)
(* The tables below are the committed ones.  What a transaction has        *)
(* written and not committed is implied by the label its process is at,    *)
(* and is installed by the commit action.                                  *)
(*                                                                         *)
(* The module holds the tables, the lock, the processes and the helpers;   *)
(* one module per component adds the actions of its commands.              *)
(***************************************************************************)
EXTENDS Naturals, FiniteSets

CONSTANTS Procs,         \* command line processes
          NoProc,        \* nobody holds the write lock
          Drafts,        \* primary keys of email_drafts
          NoDraft,
          Tasks,         \* primary keys of tasks; each has its own lead and company
          NoTask,
          Emails,        \* normalized email addresses
          NoEmail,       \* NULL, or a text that does not normalize
          Senders,       \* sender names a draft can be generated for
          TrustedSender, \* header_from_name of the configured SMTP sender
          Commands,      \* the commands the processes of an instance may run
          Faults         \* what may go wrong in it: "crash", "database"

ASSUME NoProcAssumption  == NoProc \notin Procs
ASSUME NoDraftAssumption == NoDraft \notin Drafts
ASSUME NoTaskAssumption  == NoTask \notin Tasks
ASSUME NoEmailAssumption == NoEmail \notin Emails
ASSUME SenderAssumption  == TrustedSender \in Senders

VARIABLES draft,     \* email_drafts
          task,      \* tasks, joined with the lead, contact and enrichment they hang from
          attempt,   \* email_delivery_attempts.outcome by email_draft_id
          manual,    \* whether manual_email_send_records has a row for the draft
          accepted,  \* how many messages for the draft the SMTP server took
          writer,    \* the process holding SQLite's write lock
          pc,        \* where each process is
          job        \* what each process was asked to do and has read so far

tables == <<draft, task, attempt, manual>>
vars   == <<draft, task, attempt, manual, accepted, writer, pc, job>>

-----------------------------------------------------------------------------
(* Rows. *)

DraftStatus == {"ABSENT", "DRAFT", "APPROVED", "REJECTED"}
DeliveryMode == {"NONE", "AUTOMATIC", "MANUAL"}
TaskStatus == {"TODO", "IN_PROGRESS", "DONE", "CANCELLED"}
TerminalOutcome == {"ACCEPTED", "TRANSIENT_FAILURE", "PERMANENT_FAILURE", "UNKNOWN"}
Outcome == {"NONE", "RESERVED"} \union TerminalOutcome

(* "bound" is contact_id IS NOT NULL: the draft is addressed to a person.  *)
(* "located" stands for company.country and company.city, the part of the  *)
(* reviewed context the platform itself rewrites.                          *)
DraftRow == [task: Tasks \union {NoTask}, status: DraftStatus, mode: DeliveryMode,
             bound: BOOLEAN, email: Emails \union {NoEmail}, located: BOOLEAN,
             sender: Senders, approvedAt: BOOLEAN, rejectedAt: BOOLEAN]

(* "bound" is lead.contact_id IS NOT NULL.                                 *)
TaskRow == [status: TaskStatus, bound: BOOLEAN, located: BOOLEAN,
            contactEmail: Emails \union {NoEmail},
            companyEmail: Emails \union {NoEmail}]

NoRow == [task |-> NoTask, status |-> "ABSENT", mode |-> "NONE", bound |-> FALSE,
          email |-> NoEmail, located |-> FALSE, sender |-> TrustedSender,
          approvedAt |-> FALSE, rejectedAt |-> FALSE]

Exists(d) == draft[d].status # "ABSENT"

-----------------------------------------------------------------------------
(* Context of a draft, as the review and the generation see it. *)

IsActive(t) == task[t].status \in {"TODO", "IN_PROGRESS"}

SourceEmail(t, bound) == IF bound THEN task[t].contactEmail ELSE task[t].companyEmail

(* The context fingerprint and, today, the request fingerprint of a row.   *)
Fingerprint(row) == <<row.task, row.bound, row.email, row.located, row.sender>>

(* The rows a generation or a review loads: the contact, when the draft    *)
(* names one, must still be the contact of the lead.                       *)
RecordsLoad(t, bound) == (bound => task[t].bound) /\ IsActive(t)

(* What the row's fingerprint would be if it were computed now.            *)
CurrentContext(row) ==
    Fingerprint([row EXCEPT !.email = SourceEmail(row.task, row.bound),
                            !.located = task[row.task].located])

-----------------------------------------------------------------------------
(* Processes. *)

Targets == DraftStatus \union TaskStatus \union Outcome \union {"", "accepted", "refused"}

Answers == {"", "ok", "reused", "not_found", "stale", "reviewed", "already", "conflict",
            "provider", "transition", "persistence"} \union TerminalOutcome

Job == [draft: Drafts \union {NoDraft}, task: Tasks \union {NoTask}, seen: DraftRow,
        left: SUBSET Drafts, batch: SUBSET Drafts, email: Emails \union {NoEmail},
        target: Targets, answer: Answers]

NoJob == [draft |-> NoDraft, task |-> NoTask, seen |-> NoRow, left |-> {}, batch |-> {},
          email |-> NoEmail, target |-> "", answer |-> ""]

(* Labels at which the process is inside a write transaction.              *)
LockedLabels == {"send_reserve", "manual_commit", "review_commit", "rebind_check",
                 "rebind_commit"}

(* Labels whose next step is a statement on the database.                  *)
DatabaseLabels ==
    LockedLabels \union
    {"gen_read", "gen_recheck", "gen_insert", "review_draft", "review_source",
     "review_flush", "send_draft", "send_source", "send_attempt", "send_record",
     "send_claim", "settle", "mark_draft", "mark_source", "mark_attempt", "mark_record",
     "ext_draft", "ext_source", "ext_attempt", "ext_record", "batch_draft",
     "batch_source", "batch_attempt", "batch_record", "manual_claim", "rebind_lock",
     "enrich_read", "enrich_write", "task_read", "task_write"}

Labels == DatabaseLabels \union {"idle", "done", "gen_provider", "smtp", "smtp_wait"}

(* Forgetting the rollback: the lock stays with a process that is done.    *)
ReleaseNothing(p) == UNCHANGED writer

Release(p) == writer' = IF writer = p THEN NoProc ELSE writer

Goto(p, label) == pc' = [pc EXCEPT ![p] = label]

(* A process of the given command starts with its arguments.               *)
Begin(p, command, label, args) ==
    /\ command \in Commands
    /\ pc[p] = "idle"
    /\ Goto(p, label)
    /\ job' = [job EXCEPT ![p] = args]
    /\ UNCHANGED <<tables, accepted, writer>>

(* A read that only moves the process on.                                  *)
Step(p, label) == Goto(p, label) /\ UNCHANGED <<tables, accepted, writer, job>>

(* The process keeps the draft row it read and moves on.                   *)
Keep(p, row, label) ==
    /\ Goto(p, label)
    /\ job' = [job EXCEPT ![p].seen = row]
    /\ UNCHANGED <<tables, accepted, writer>>

(* The first write statement of the process: it takes the write lock.      *)
Lock(p, label) ==
    /\ writer = NoProc
    /\ writer' = p
    /\ Goto(p, label)
    /\ UNCHANGED <<tables, accepted, job>>

(* The command answers, after a commit or having written nothing.          *)
Answer(p, answer) ==
    /\ Goto(p, "done")
    /\ job' = [job EXCEPT ![p].answer = answer]
    /\ Release(p)

(* session.rollback() and an error to the caller.                          *)
Fail(p, answer) == Answer(p, answer) /\ UNCHANGED <<tables, accepted>>

-----------------------------------------------------------------------------
(* The process exits after its answer and the slot can run another command. *)
Exit(p) ==
    /\ pc[p] = "done"
    /\ Goto(p, "idle")
    /\ job' = [job EXCEPT ![p] = NoJob]
    /\ UNCHANGED <<tables, accepted, writer>>

(* A statement or a commit raises: the wait for the write lock timed out,  *)
(* or the file could not be written.  Every service rolls back.            *)
DatabaseError(p) ==
    /\ "database" \in Faults
    /\ pc[p] \in DatabaseLabels
    /\ Fail(p, "persistence")

(* The process dies; SQLite drops its lock and its open transaction.       *)
Crash(p) ==
    /\ "crash" \in Faults
    /\ pc[p] \notin {"idle", "done"}
    /\ Goto(p, "idle")
    /\ job' = [job EXCEPT ![p] = NoJob]
    /\ Release(p)
    /\ UNCHANGED <<tables, accepted>>

ProcessStep(p) == Exit(p) \/ DatabaseError(p) \/ Crash(p)

-----------------------------------------------------------------------------
(* Companies are enriched and leads and tasks created before any draft: an *)
(* active task, with or without a contact, and the addresses known so far. *)
InitialTaskRow ==
    {row \in TaskRow : /\ row.status = "TODO"
                       /\ ~row.located
                       /\ row.contactEmail # NoEmail => row.bound}

Init ==
    /\ draft = [d \in Drafts |-> NoRow]
    /\ task \in [Tasks -> InitialTaskRow]
    /\ attempt = [d \in Drafts |-> "NONE"]
    /\ manual = [d \in Drafts |-> FALSE]
    /\ accepted = [d \in Drafts |-> 0]
    /\ writer = NoProc
    /\ pc = [p \in Procs |-> "idle"]
    /\ job = [p \in Procs |-> NoJob]

TypeOK ==
    /\ draft \in [Drafts -> DraftRow]
    /\ task \in [Tasks -> TaskRow]
    /\ attempt \in [Drafts -> Outcome]
    /\ manual \in [Drafts -> BOOLEAN]
    /\ accepted \in [Drafts -> Nat]
    /\ writer \in Procs \union {NoProc}
    /\ pc \in [Procs -> Labels]
    /\ job \in [Procs -> Job]
=============================================================================
