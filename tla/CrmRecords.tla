----------------------------- MODULE CrmRecords -----------------------------
(***************************************************************************)
(* Contacts, leads and tasks by hand: each command reads what its new row  *)
(* hangs from, or the row it changes, and then writes by primary key.      *)
(***************************************************************************)
EXTENDS ContactStore

(* contact create: one INSERT, no duplicate check.  A contact without an   *)
(* address is left out: no promotion would ever find it.                   *)
ContactCreateStart(p, email) ==
    Begin(p, "contact_create", "contact_create", [NoJob EXCEPT !.email = email])

ContactCreate(p) ==
    /\ pc[p] = "contact_create"
    /\ \E k \in Contacts :
           /\ IsNextKey(k, Contacts, Live)
           /\ contact' = [contact EXCEPT ![k] = [live |-> TRUE, email |-> job[p].email]]
    /\ Write(p, "ok")
    /\ UNCHANGED <<found, mailbox, lead, task>>

(* contact delete: candidates and leads lose the contact and stay.         *)
ContactDeleteStart(p, k) ==
    Begin(p, "contact_delete", "contact_read", [NoJob EXCEPT !.contact = k])

ContactRead(p) ==
    /\ pc[p] = "contact_read"
    /\ IF contact[job[p].contact].live THEN Step(p, "contact_delete", job[p])
       ELSE Fail(p, "not_found")

ContactDelete(p) ==
    LET k == job[p].contact
        cut(row) == IF row.contact = k THEN [row EXCEPT !.contact = NoContact] ELSE row
    IN  /\ pc[p] = "contact_delete"
        /\ contact' = [contact EXCEPT ![k] = NoContactRow]
        /\ candidate' = [c \in Candidates |-> cut(candidate[c])]
        /\ lead' = [l \in Leads |-> cut(lead[l])]
        /\ Write(p, "ok")
        /\ UNCHANGED <<state, handoff, mailbox, task>>

-----------------------------------------------------------------------------
(* lead create, of the company or of one of its contacts.  Whether a lead  *)
(* of the company is fresh does not matter here: of these commands none    *)
(* gives it a contact (a rebinding does, see RecipientRebinding, and is    *)
(* not part of this composition).                                          *)
LeadCreateStart(p, k) ==
    \E fresh \in {FALSE, k # NoContact} :
        Begin(p, "lead_create", "lead_read", [NoJob EXCEPT !.contact = k, !.seen = fresh])

(* lead create-from-contact, whose lead is always fresh.                   *)
LeadFromContactStart(p, k) ==
    Begin(p, "lead_from_contact", "lead_read", [NoJob EXCEPT !.contact = k, !.seen = TRUE])

LeadRead(p) ==
    /\ pc[p] = "lead_read"
    /\ IF job[p].contact \in Live \union {NoContact}
       THEN Step(p, "lead_create", job[p])
       ELSE Fail(p, "not_found")

(* A foreign key that points nowhere by now is refused.                    *)
LeadCreate(p) ==
    /\ pc[p] = "lead_create"
    /\ IF job[p].contact \notin Live \union {NoContact}
       THEN Refused(p)
       ELSE /\ \E l \in Leads :
                   /\ IsNextKey(l, Leads, LiveLeads)
                   /\ lead' = [lead EXCEPT ![l] = [live |-> TRUE, contact |-> job[p].contact,
                                                   fresh |-> job[p].seen]]
            /\ Write(p, "ok")
            /\ UNCHANGED <<found, contact, mailbox, task>>

(* lead delete, with its tasks.                                            *)
LeadDeleteStart(p, l) == Begin(p, "lead_delete", "lead_find", [NoJob EXCEPT !.lead = l])

LeadFind(p) ==
    /\ pc[p] = "lead_find"
    /\ IF job[p].lead \in LiveLeads THEN Step(p, "lead_delete", job[p]) ELSE Fail(p, "not_found")

LeadDelete(p) ==
    LET l == job[p].lead
    IN  /\ pc[p] = "lead_delete"
        /\ lead' = [lead EXCEPT ![l] = NoLeadRow]
        /\ task' = [t \in Tasks |-> IF task[t].lead = l THEN NoTaskRow ELSE task[t]]
        /\ Write(p, "ok")
        /\ UNCHANGED <<found, contact, mailbox>>

-----------------------------------------------------------------------------
(* task create-for-lead                                                    *)
TaskCreateStart(p, l) == Begin(p, "task_create", "task_read", [NoJob EXCEPT !.lead = l])

TaskRead(p) ==
    /\ pc[p] = "task_read"
    /\ IF job[p].lead \in LiveLeads THEN Step(p, "task_create", job[p]) ELSE Fail(p, "not_found")

TaskCreate(p) ==
    /\ pc[p] = "task_create"
    /\ IF job[p].lead \notin LiveLeads
       THEN Refused(p)
       ELSE /\ \E t \in Tasks :
                   /\ IsNextKey(t, Tasks, LiveTasks)
                   /\ task' = [task EXCEPT ![t] = NewTask(p, job[p].lead, "other")]
            /\ Write(p, "ok")
            /\ UNCHANGED <<found, contact, mailbox, lead>>

(* task start, complete and cancel: set_status_for_company.                *)
AllowedStatus(from) ==
    CASE from = "TODO"        -> {"IN_PROGRESS", "CANCELLED"}
      [] from = "IN_PROGRESS" -> {"DONE", "CANCELLED"}
      [] OTHER                -> {}

StatusStart(p, t, target) ==
    Begin(p, "task_status", "status_read", [NoJob EXCEPT !.task = t, !.outcome = target])

StatusRead(p) ==
    LET status == task[job[p].task].status
    IN  /\ pc[p] = "status_read"
        /\ CASE status = "ABSENT"                          -> Fail(p, "not_found")
             [] status = job[p].outcome                    -> Fail(p, "unchanged")
             [] job[p].outcome \notin AllowedStatus(status) -> Fail(p, "transition")
             [] OTHER                                      -> Step(p, "status_write", job[p])

(* The UPDATE of a task that is gone matches no row and is refused.        *)
StatusWrite(p) ==
    /\ pc[p] = "status_write"
    /\ IF job[p].task \notin LiveTasks
       THEN Refused(p)
       ELSE /\ task' = [task EXCEPT ![job[p].task].status = job[p].outcome]
            /\ Write(p, "ok")
            /\ UNCHANGED <<found, contact, mailbox, lead>>

RecordStep(p) ==
    \/ \E email \in Emails : ContactCreateStart(p, email)
    \/ \E k \in Contacts : ContactDeleteStart(p, k) \/ LeadFromContactStart(p, k)
    \/ \E k \in Contacts \union {NoContact} : LeadCreateStart(p, k)
    \/ \E l \in Leads : LeadDeleteStart(p, l) \/ TaskCreateStart(p, l)
    \/ \E t \in Tasks, target \in {"IN_PROGRESS", "DONE", "CANCELLED"} : StatusStart(p, t, target)
    \/ ContactCreate(p) \/ ContactRead(p) \/ ContactDelete(p)
    \/ LeadRead(p) \/ LeadCreate(p) \/ LeadFind(p) \/ LeadDelete(p)
    \/ TaskRead(p) \/ TaskCreate(p) \/ StatusRead(p) \/ StatusWrite(p)
=============================================================================
