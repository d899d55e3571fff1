---------------------------- MODULE ContactStore ----------------------------
(***************************************************************************)
(* The tables of one company and the processes that use them: what contact *)
(* discovery knows, the contacts its candidates are promoted to, the       *)
(* address enrichment stores, and the leads and tasks of outreach.         *)
(* Companies share no row of these tables.  A candidate is named by its    *)
(* deduplication key, which is its address if it has one: the address of a *)
(* candidate never changes, and no two candidates have the same.           *)
(***************************************************************************)
EXTENDS WriteLock, Naturals, FiniteSets

CONSTANTS Candidates, NoCandidate,
          Contacts,   \* primary keys of contacts
          NoContact,  \* NULL
          Leads, NoLead,
          Tasks, NoTask,
          Emails,     \* canonical addresses
          NoEmail,
          EmailOf,    \* the address of each candidate
          Fields,     \* what discovery may learn later; "name" is one
          LastCheck,  \* bound: discoveries that may be stored
          Mixes,      \* sets of commands that are run on one database
          Faults      \* what may go wrong: "crash", "database"

ASSUME NoneAssumption ==
    /\ NoCandidate \notin Candidates /\ NoContact \notin Contacts
    /\ NoLead \notin Leads /\ NoTask \notin Tasks /\ NoEmail \notin Emails
ASSUME KeyAssumption  == Contacts \subseteq Nat /\ Leads \subseteq Nat /\ Tasks \subseteq Nat
ASSUME MailAssumption ==
    /\ EmailOf \in [Candidates -> Emails \union {NoEmail}]
    /\ \A c, d \in Candidates : EmailOf[c] = EmailOf[d] => c = d \/ EmailOf[c] = NoEmail
ASSUME BoundAssumption == LastCheck \in Nat
ASSUME ProcsAssumption == IsFiniteSet(Procs)

VARIABLES candidate,  \* contact_discovery_candidates
          state,      \* company_contact_discovery_states
          contact,    \* contacts
          mailbox,    \* company_enrichments
          lead,       \* leads
          task,       \* tasks
          handoff,    \* what the agent's plans printed, by the discovery they stored
          mix,        \* the commands that are run on this database
          job         \* what each process was asked to do and has read so far

crm    == <<contact, mailbox, lead, task>>
found  == <<candidate, state, handoff>>
tables == <<crm, found>>
vars   == <<candidate, state, contact, mailbox, lead, task, handoff, mix, writer, pc, job>>

-----------------------------------------------------------------------------
(* Rows. *)

CandidateStatus == {"ABSENT", "DISCOVERED", "REVIEWED", "REJECTED", "PROMOTED"}

CandidateRow == [status: CandidateStatus, known: SUBSET Fields,
                 contact: Contacts \union {NoContact}]

NoCandidateRow == [status |-> "ABSENT", known |-> {}, contact |-> NoContact]

(* "at" stands for checked_at: it is new for every discovery stored.       *)
(* "found" says that the status is SUCCEEDED or PARTIAL, the statuses of   *)
(* which a plan can be made, and not NOT_FOUND or FAILED.                  *)
StateRow == [at: 0..LastCheck, found: BOOLEAN]

(* A candidate and what is known of it: as a provider found it, as a row   *)
(* was read, or as a plan showed it.                                       *)
Offer == [candidate: Candidates \union {NoCandidate}, known: SUBSET Fields]

NoOffer == [candidate |-> NoCandidate, known |-> {}]

ContactRow == [live: BOOLEAN, email: Emails \union {NoEmail}]

NoContactRow == [live |-> FALSE, email |-> NoEmail]

Mailbox == [row: BOOLEAN, email: Emails \union {NoEmail}]

(* "fresh" says that the status is NEW and there is no source and no note. *)
LeadRow == [live: BOOLEAN, contact: Contacts \union {NoContact}, fresh: BOOLEAN]

NoLeadRow == [live |-> FALSE, contact |-> NoContact, fresh |-> FALSE]

(* "kind" stands for title and description: those of a contact plan, those *)
(* of the company-scoped outreach, or an operator's.                       *)
TaskRow == [status: {"ABSENT", "TODO", "IN_PROGRESS", "DONE", "CANCELLED"},
            lead: Leads \union {NoLead}, kind: {"plan", "outreach", "other"}]

NoTaskRow == [status |-> "ABSENT", lead |-> NoLead, kind |-> "other"]

(* Hung from the contact the command is about.                             *)
NewTaskOfContact(p, l, kind) == [status |-> "TODO", lead |-> job[p].contact, kind |-> kind]

(* The row of a new task.                                                  *)
NewTask(p, l, kind) == [status |-> "TODO", lead |-> l, kind |-> kind]

Live == {k \in Contacts : contact[k].live}

LiveLeads == {l \in Leads : lead[l].live}

LiveTasks == {t \in Tasks : task[t].status # "ABSENT"}

(* The key SQLite gives the next row of a table: one above the highest, so *)
(* that the key of a deleted row may come back.                            *)
IsNextKey(k, keys, used) ==
    /\ k \in keys \ used
    /\ \A other \in used : other < k
    /\ \A lower \in keys \ used : lower < k => \E other \in used : lower < other

(* get_by_contact, get_by_lead                                             *)
LeadsOf(k) == {l \in LiveLeads : k # NoContact /\ lead[l].contact = k}

TasksOf(l) == {t \in LiveTasks : task[t].lead = l}

IsActive(t) == task[t].status \in {"TODO", "IN_PROGRESS"}

-----------------------------------------------------------------------------
(* Processes. *)

Commands == UNION Mixes

Answers == {"", "ok", "reused", "already", "selected", "no_selection", "provider", "unchanged",
            "not_found", "transition", "ineligible", "inconsistent", "invalid", "stale",
            "conflict", "persistence"}

Job == [command: Commands \union {""}, candidate: Candidates \union {NoCandidate},
        check: 0..LastCheck, outcome: CandidateStatus \union {"IN_PROGRESS", "DONE", "CANCELLED"},
        found: BOOLEAN, todo: SUBSET Offer, first: Offer, base: CandidateRow, offers: SUBSET Offer,
        seen: BOOLEAN, contact: Contacts \union {NoContact}, lead: Leads \union {NoLead},
        task: Tasks \union {NoTask}, leads: SUBSET Leads, active: SUBSET (Leads \X Tasks),
        email: Emails \union {NoEmail}, answer: Answers]

NoJob == [command |-> "", candidate |-> NoCandidate, check |-> 0, outcome |-> "ABSENT",
          found |-> FALSE, todo |-> {}, first |-> NoOffer, base |-> NoCandidateRow, offers |-> {}, seen |-> FALSE,
          contact |-> NoContact, lead |-> NoLead, task |-> NoTask, leads |-> {},
          active |-> {}, email |-> NoEmail,
          answer |-> ""]

NetworkLabels == {"search", "enrich_fetch"}

DatabaseLabels ==
    {"upsert", "upsert_lock", "state_read", "state_lock", "discover_commit",
     "review_read", "review_write", "promote_lock", "promote_decide", "promote_commit",
     "apply_lock", "apply_decide", "apply_commit",
     "complete_leads", "complete_tasks",
     "enrich_read", "enrich_find", "enrich_write",
     "contact_create", "contact_read", "contact_delete", "lead_read", "lead_create",
     "lead_find", "lead_delete", "task_read", "task_create", "status_read", "status_write"}

Labels == NetworkLabels \union DatabaseLabels \union {"idle", "done"}

(* Between the first write and the commit.                                 *)
LockedLabels == {"discover_commit", "promote_decide", "promote_commit", "apply_decide", "apply_commit"}

Begin(p, command, label, args) ==
    /\ command \in mix
    /\ pc[p] = "idle"
    /\ Goto(p, label)
    /\ job' = [job EXCEPT ![p] = [args EXCEPT !.command = command]]
    /\ UNCHANGED <<tables, mix, writer>>

(* A read that moves the process on, with what it has read.                *)
Step(p, label, read) ==
    /\ Goto(p, label)
    /\ job' = [job EXCEPT ![p] = read]
    /\ UNCHANGED <<tables, mix, writer>>

(* The first write statement of the process: it takes the write lock.      *)
Lock(p, label) == TakeLock(p) /\ Goto(p, label) /\ UNCHANGED <<tables, mix, job>>

(* The command answers, after a commit or having written nothing.          *)
Answer(p, answer, k) ==
    /\ Goto(p, "done")
    /\ job' = [job EXCEPT ![p] = [NoJob EXCEPT !.answer = answer, !.contact = k]]
    /\ UNCHANGED mix

(* session.rollback() and an error to the caller.                          *)
Fail(p, answer) == Answer(p, answer, NoContact) /\ GiveLock(p) /\ UNCHANGED tables

(* Statements and a commit that nothing can come between.                  *)
Write(p, answer) == WriteAtOnce /\ Answer(p, answer, NoContact)

(* The same on a row that is not there any more, or is there already.      *)
Refused(p) == writer = NoProc /\ Fail(p, "persistence")

-----------------------------------------------------------------------------
Exit(p) ==
    /\ pc[p] = "done"
    /\ Goto(p, "idle")
    /\ job' = [job EXCEPT ![p] = NoJob]
    /\ UNCHANGED <<tables, mix, writer>>

(* A statement or a commit raises, and the command rolls back.             *)
DatabaseError(p) ==
    /\ "database" \in Faults
    /\ pc[p] \in DatabaseLabels
    /\ Fail(p, "persistence")

(* The process dies; SQLite drops its lock and its open transaction.       *)
Crash(p) ==
    /\ "crash" \in Faults
    /\ pc[p] \notin {"idle", "done"}
    /\ Goto(p, "idle")
    /\ job' = [job EXCEPT ![p] = NoJob]
    /\ GiveLock(p)
    /\ UNCHANGED <<tables, mix>>

ProcessStep(p) == Exit(p) \/ DatabaseError(p) \/ Crash(p)

Init ==
    /\ candidate = [c \in Candidates |-> NoCandidateRow]
    /\ state = [at |-> 0, found |-> FALSE]
    /\ contact = [k \in Contacts |-> NoContactRow]
    /\ mailbox = [row |-> FALSE, email |-> NoEmail]
    /\ lead = [l \in Leads |-> NoLeadRow]
    /\ task = [t \in Tasks |-> NoTaskRow]
    /\ handoff = [n \in 1..LastCheck |-> NoOffer]
    /\ mix \in Mixes
    /\ writer = NoProc
    /\ pc = [p \in Procs |-> "idle"]
    /\ job = [p \in Procs |-> NoJob]

TablesOK ==
    /\ candidate \in [Candidates -> CandidateRow]
    /\ state \in StateRow
    /\ contact \in [Contacts -> ContactRow]
    /\ mailbox \in Mailbox
    /\ lead \in [Leads -> LeadRow]
    /\ task \in [Tasks -> TaskRow]
    /\ handoff \in [1..LastCheck -> Offer]

TypeOK ==
    /\ TablesOK
    /\ mix \in Mixes
    /\ writer \in Procs \union {NoProc}
    /\ pc \in [Procs -> Labels]
    /\ job \in [Procs -> Job]
=============================================================================
