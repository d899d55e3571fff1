------------------------- MODULE OutreachCompletion -------------------------
(***************************************************************************)
(* Outreach to the company itself: enrichment stores the address the       *)
(* company's website names, and completion finds or creates the lead and   *)
(* the task that address is written to under.  Both decide on what they    *)
(* read without a lock.                                                    *)
(***************************************************************************)
EXTENDS ContactStore

(* enrich_company                                                          *)
EnrichStart(p) == Begin(p, "enrich", "enrich_read", NoJob)

(* The row as it is before the provider is asked.                          *)
EnrichRead(p) ==
    /\ pc[p] = "enrich_read"
    /\ Step(p, "enrich_fetch", [job[p] EXCEPT !.seen = mailbox.row, !.email = mailbox.email])

(* The provider finds an address, or none, or fails; the run may overwrite. *)
(* What will be written is judged by the address read, which the session   *)
(* keeps, or by the row found next if there was none.                      *)
EnrichFetch(p) ==
    /\ pc[p] = "enrich_fetch"
    /\ \E address \in Emails \union {NoEmail}, overwrite \in BOOLEAN :
           LET kept == job[p].email # NoEmail /\ ~overwrite
           IN  Step(p, "enrich_find", [job[p] EXCEPT !.email = IF kept THEN NoEmail ELSE address])

(* get_or_create_for_company                                               *)
EnrichFind(p) ==
    /\ pc[p] = "enrich_find"
    /\ Step(p, "enrich_write",
            [job[p] EXCEPT !.seen = mailbox.row,
                           !.email = IF ~job[p].seen /\ mailbox.email # NoEmail THEN NoEmail ELSE @])

EnrichWrite(p) ==
    /\ pc[p] = "enrich_write"
    /\ IF ~job[p].seen /\ mailbox.row
       THEN Refused(p)
       ELSE /\ mailbox' = [row |-> TRUE,
                           email |-> IF job[p].email = NoEmail THEN mailbox.email
                                     ELSE job[p].email]
            /\ Write(p, "ok")
            /\ UNCHANGED <<found, contact, lead, task>>

-----------------------------------------------------------------------------
(* The company-scoped completion. *)

(* The caller read the company's address earlier, in a session of its own. *)
CompleteStart(p) ==
    /\ mailbox.email # NoEmail
    /\ Begin(p, "complete", "complete_leads", [NoJob EXCEPT !.email = mailbox.email])

(* The company's own leads, and the tasks get_by_lead finds under a lead   *)
(* that are unfinished outreach tasks.                                     *)
CompanyLeads == {l \in LiveLeads : lead[l].contact = NoContact}

IsFirst(l, leads) == IF l = NoLead THEN leads = {}
                     ELSE l \in leads /\ \A other \in leads : l <= other

ActiveOutreach(l) == {t \in TasksOf(l) : task[t].kind = "outreach" /\ IsActive(t)}

(* The address must still be the stored one; then the company's leads,     *)
(* which are listed once.                                                  *)
CompleteLeads(p) ==
    /\ pc[p] = "complete_leads"
    /\ CASE mailbox.email = NoEmail       -> Fail(p, "not_found")
         [] mailbox.email # job[p].email  -> Fail(p, "conflict")
         [] OTHER -> \E l \in Leads \union {NoLead} :
                         /\ IsFirst(l, CompanyLeads)
                         /\ Step(p, "complete_tasks",
                                 [job[p] EXCEPT !.lead = l, !.leads = CompanyLeads])

(* Not looking for a task that is there.                                   *)
CompleteTasksBlind(p) ==
    /\ pc[p] = "complete_tasks"
    /\ \E l \in job[p].leads : Step(p, "complete_tasks", [job[p] EXCEPT !.leads = @ \ {l}])

(* The tasks of the next lead that was listed: a lead made meanwhile is    *)
(* not read, and the key of one deleted meanwhile may be another lead's.   *)
CompleteTasks(p) ==
    /\ pc[p] = "complete_tasks"
    /\ \E l \in Leads :
           /\ IsFirst(l, job[p].leads)
           /\ Step(p, "complete_tasks",
                   [job[p] EXCEPT !.leads = @ \ {l}, !.active = @ \union ({l} \X ActiveOutreach(l))])

(* One active task is reused, more are a conflict.                         *)
CompleteReuse(p) ==
    /\ pc[p] = "complete_tasks"
    /\ job[p].leads = {} /\ job[p].active # {}
    /\ Fail(p, IF Cardinality(job[p].active) = 1 THEN "reused" ELSE "conflict")

(* The first lead that was listed, or a new one, and a new task under it.  *)
CompleteWrite(p) ==
    /\ pc[p] = "complete_tasks"
    /\ job[p].leads = {} /\ job[p].active = {}
    /\ IF job[p].lead # NoLead /\ job[p].lead \notin LiveLeads
       THEN Refused(p)
       ELSE /\ \E l \in Leads, t \in Tasks :
                   /\ IF job[p].lead = NoLead
                      THEN /\ IsNextKey(l, Leads, LiveLeads)
                           /\ lead' = [lead EXCEPT ![l] =
                                  [live |-> TRUE, contact |-> NoContact, fresh |-> FALSE]]
                      ELSE l = job[p].lead /\ UNCHANGED lead
                   /\ IsNextKey(t, Tasks, LiveTasks)
                   /\ task' = [task EXCEPT ![t] = NewTask(p, l, "outreach")]
            /\ Write(p, "ok")
            /\ UNCHANGED <<found, contact, mailbox>>

CompletionStep(p) ==
    \/ EnrichStart(p) \/ EnrichRead(p) \/ EnrichFetch(p) \/ EnrichFind(p) \/ EnrichWrite(p)
    \/ CompleteStart(p) \/ CompleteLeads(p) \/ CompleteTasks(p)
    \/ CompleteReuse(p) \/ CompleteWrite(p)
=============================================================================
