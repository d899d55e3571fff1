-------------------------- MODULE LeadAcquisition --------------------------
(***************************************************************************)
(* The lead acquisition agent: one process that, within a budget of        *)
(* attempts, plans a company, applies the plan, looks for a contact, falls *)
(* back to the company's own address, and has a draft generated, until it  *)
(* has as many new drafts as it was asked for.  Every call commits its own *)
(* work, so what it did stays when the run stops, aborts or dies, and the  *)
(* next run finds it.  The calls are the commands other modules model step *)
(* by step; here each is one step with the answers its adapter tells apart. *)
(***************************************************************************)
EXTENDS Naturals, Sequences

CONSTANTS Limit,         \* drafts asked for
          Candidates,    \* company candidates that searches find
          Companies, NoCompany,
          CompanyOf,     \* the company a candidate is or will be promoted to
          Contacts, NoContact,
          EmployerOf,    \* the company a contact is found at
          WithEmail,     \* contacts found with a usable address
          Disturbances   \* "crash", "review", "generate": what else happens in an instance

VARIABLES promoted,   \* candidates promoted to their company
          contacted,  \* contacts stored, with their lead and task
          mailbox,    \* what enrichment has stored of each company's own address
          draft,      \* the draft of each target, by status
          pc,         \* the call the run is at
          run         \* the counters and lists of the run: _State, and the attempt's locals

vars  == <<promoted, contacted, mailbox, draft, pc, run>>
world == <<promoted, contacted, mailbox, draft>>

-----------------------------------------------------------------------------
(* Who a draft is for: a contact, or the company at its own address.       *)
Target == {<<k, x>> : k \in Companies, x \in Contacts \union {NoContact}}

DraftStatus == {"NONE", "DRAFT", "APPROVED", "REJECTED"}

(* min(max(limit * 5, 10), 100)                                            *)
Budget == IF 5 * Limit < 10 THEN 10 ELSE IF 5 * Limit > 100 THEN 100 ELSE 5 * Limit

Statuses == {"COMPLETE", "PARTIAL_BUDGET_EXHAUSTED", "PARTIAL_PROVIDER_STOP"}

AttemptLabels == {"already", "apply", "contact_plan", "contact_apply", "mail", "enrich",
                  "complete", "draft_ids", "draft"}

Labels == AttemptLabels \union {"idle", "loop", "report", "done"}

(* "skipped" is the sum of the four counters an attempt without a new      *)
(* draft ends in: duplicates_skipped, no_selection_count, no_email_count   *)
(* and draft_failure_count.  "before", which the code does not keep, is    *)
(* what had a draft when the attempt chose its company.                    *)
RunState == [attempts: 0..Budget, skipped: Nat, completed: Seq(Target), stopped: BOOLEAN,
             offered: BOOLEAN, candidate: Candidates \union {"none"},
             company: Companies \union {NoCompany}, contact: Contacts \union {NoContact},
             fresh: BOOLEAN, before: SUBSET Target, answer: Statuses \union {"", "error", "serialization"}]

NewRun == [attempts |-> 0, skipped |-> 0, completed |-> <<>>, stopped |-> FALSE,
           offered |-> FALSE, candidate |-> "none", company |-> NoCompany,
           contact |-> NoContact, fresh |-> FALSE, before |-> {}, answer |-> ""]

Goal == <<run.company, run.contact>>

(* The attempt's locals go out of scope.                                   *)
Over(r) == [r EXCEPT !.candidate = "none", !.company = NoCompany, !.contact = NoContact,
                     !.fresh = FALSE, !.before = {}]

(* Not counting it.                                                        *)
SkipUncounted == pc' = "loop" /\ run' = Over(run)

(* The attempt ends without a new draft.                                   *)
Skip ==
    /\ pc' = "loop"
    /\ run' = Over([run EXCEPT !.skipped = @ + 1])

(* A ValueError of a call aborts the run; what is committed stays.         *)
Abort ==
    /\ pc' = "done"
    /\ run' = Over([run EXCEPT !.answer = "error"])
    /\ UNCHANGED world

To(label) == pc' = label /\ UNCHANGED <<world, run>>

-----------------------------------------------------------------------------
Start ==
    /\ pc = "idle"
    /\ pc' = "loop"
    /\ run' = NewRun
    /\ UNCHANGED world

(* while completed_count < limit and attempt_count < attempt_budget        *)
Goes == Len(run.completed) < Limit /\ run.attempts < Budget

Drafted == {t \in Target : draft[t] # "NONE"}

(* company_plan_attempt: the search or the decision provider stops the     *)
(* run, a plan fails, the decision is suppressed as one asked before, the  *)
(* model selects nobody, or somebody who is promoted or not.               *)
Plan ==
    LET attempt == [run EXCEPT !.attempts = @ + 1]
        noted == [attempt EXCEPT !.before = Drafted]
    IN  /\ pc = "loop" /\ Goes
        /\ \/ /\ pc' = "report"
              /\ run' = [attempt EXCEPT !.stopped = TRUE]
           \/ /\ pc' = "done"
              /\ run' = [attempt EXCEPT !.answer = "error"]
           \/ /\ run.offered
              /\ pc' = "loop"
              /\ run' = [attempt EXCEPT !.skipped = @ + 1]
           \/ /\ pc' = "loop"
              /\ run' = [attempt EXCEPT !.skipped = @ + 1, !.offered = TRUE]
           \/ \E c \in promoted :
                  /\ pc' = "already"
                  /\ run' = [noted EXCEPT !.offered = TRUE, !.company = CompanyOf[c]]
           \/ \E c \in Candidates \ promoted :
                  /\ pc' = "apply"
                  /\ run' = [noted EXCEPT !.offered = TRUE, !.candidate = c]
        /\ UNCHANGED world

(* company_already_complete: a draft of the company waits or is approved.  *)
Waiting(k) == \E t \in Target : t[1] = k /\ draft[t] \in {"DRAFT", "APPROVED"}

Already ==
    /\ pc = "already"
    /\ IF Waiting(run.company)
       THEN Skip /\ UNCHANGED world
       ELSE To("contact_plan")

(* company_apply: not eligible, not found or stale; an error; or applied.  *)
Apply ==
    /\ pc = "apply"
    /\ \/ Skip /\ UNCHANGED world
       \/ Abort
       \/ /\ promoted' = promoted \union {run.candidate}
          /\ pc' = "contact_plan"
          /\ run' = [run EXCEPT !.company = CompanyOf[run.candidate]]
          /\ UNCHANGED <<contacted, mailbox, draft>>

(* contact_plan: provider failure, no website or nobody selected; an       *)
(* error; or a contact of the company that is not promoted yet.            *)
ContactPlan ==
    /\ pc = "contact_plan"
    /\ \/ To("mail")
       \/ Abort
       \/ \E x \in Contacts \ contacted :
              /\ EmployerOf[x] = run.company
              /\ pc' = "contact_apply"
              /\ run' = [run EXCEPT !.contact = x]
              /\ UNCHANGED world

(* Taking any contact for one that can be written to.                      *)
UsableAlways(x) == x \in Contacts

(* _usable_email of the contact                                            *)
Usable(x) == x \in WithEmail

(* contact_apply: unavailable; an error; or the contact with its lead and  *)
(* its task.  Without a usable address the company is written to instead.  *)
ContactApply ==
    /\ pc = "contact_apply"
    /\ \/ /\ pc' = "mail"
          /\ run' = [run EXCEPT !.contact = NoContact]
          /\ UNCHANGED world
       \/ Abort
       \/ /\ contacted' = contacted \union {run.contact}
          /\ IF Usable(run.contact)
             THEN pc' = "draft_ids" /\ UNCHANGED run
             ELSE pc' = "mail" /\ run' = [run EXCEPT !.contact = NoContact]
          /\ UNCHANGED <<promoted, mailbox, draft>>

(* company_email, and company_enrich once if there is no row yet.          *)
Mail ==
    /\ pc = "mail"
    /\ CASE mailbox[run.company] = "known"  -> To("complete")
         [] mailbox[run.company] = "unread" -> To("enrich")
         [] OTHER                           -> Skip /\ UNCHANGED world

Enrich ==
    /\ pc = "enrich"
    /\ \/ Abort
       \/ \E found \in {"known", "absent"} :
              /\ mailbox' = [mailbox EXCEPT ![run.company] = found]
              /\ pc' = "mail"
              /\ UNCHANGED <<promoted, contacted, draft, run>>

(* company_complete: any conflict there aborts the run.                    *)
Complete ==
    /\ pc = "complete"
    /\ Abort \/ To("draft_ids")

(* draft_generate first notes which drafts the target has.                 *)
DraftIds ==
    /\ pc = "draft_ids"
    /\ pc' = "draft"
    /\ run' = [run EXCEPT !.fresh = (draft[Goal] = "NONE")]
    /\ UNCHANGED world

(* Counting a reused draft, too.                                           *)
CountAlways(r) == Over([r EXCEPT !.completed = Append(@, Goal)])

(* A draft that was reused is a duplicate, a new one completes its target. *)
Count(r) ==
    IF r.fresh
    THEN Over([r EXCEPT !.completed = Append(@, Goal)])
    ELSE Over([r EXCEPT !.skipped = @ + 1])

(* Generation fails, aborts, or returns a waiting draft: the one there is  *)
(* or a new one.  A reviewed draft of the same request is a conflict.  A   *)
(* draft whose address is not the expected one counts as a failure.        *)
Draft ==
    /\ pc = "draft"
    /\ \/ Skip /\ UNCHANGED world
       \/ Abort
       \/ /\ draft[Goal] \in {"NONE", "DRAFT"}
          /\ draft' = [draft EXCEPT ![Goal] = "DRAFT"]
          /\ pc' = "loop"
          /\ \/ run' = Count(run)
             \/ run' = Over([run EXCEPT !.skipped = @ + 1])
          /\ UNCHANGED <<promoted, contacted, mailbox>>

Leave ==
    /\ pc = "loop" /\ ~Goes
    /\ To("report")

-----------------------------------------------------------------------------
(* The result. *)

BudgetExhausted == Len(run.completed) < Limit /\ run.attempts = Budget

StatusOf ==
    IF Len(run.completed) = Limit THEN "COMPLETE"
    ELSE IF run.stopped THEN "PARTIAL_PROVIDER_STOP" ELSE "PARTIAL_BUDGET_EXHAUSTED"

(* validate_alignment                                                      *)
Distinct(column) == \A i, j \in DOMAIN column : column[i] = column[j] => i = j

Aligned ==
    LET companies == [i \in DOMAIN run.completed |-> run.completed[i][1]]
    IN  /\ Len(run.completed) <= Limit /\ run.attempts <= Budget
        /\ BudgetExhausted => run.attempts = Budget
        /\ Distinct(companies) /\ Distinct(run.completed)
        /\ CASE StatusOf = "COMPLETE" -> Len(run.completed) = Limit /\ ~BudgetExhausted
             [] StatusOf = "PARTIAL_BUDGET_EXHAUSTED" ->
                    BudgetExhausted /\ Len(run.completed) < Limit
             [] OTHER -> Len(run.completed) < Limit /\ ~BudgetExhausted

Report ==
    /\ pc = "report"
    /\ pc' = "done"
    /\ run' = [run EXCEPT !.answer = IF Aligned THEN StatusOf ELSE "serialization"]
    /\ UNCHANGED world

Exit ==
    /\ pc = "done"
    /\ pc' = "idle"
    /\ run' = NewRun
    /\ UNCHANGED world

-----------------------------------------------------------------------------
(* Meanwhile. *)

Crash ==
    /\ "crash" \in Disturbances
    /\ pc \notin {"idle", "done"}
    /\ pc' = "idle"
    /\ run' = NewRun
    /\ UNCHANGED world

(* An operator approves or rejects a draft that waits.                     *)
Review ==
    /\ "review" \in Disturbances
    /\ \E t \in Target, verdict \in {"APPROVED", "REJECTED"} :
           /\ draft[t] = "DRAFT"
           /\ draft' = [draft EXCEPT ![t] = verdict]
    /\ UNCHANGED <<promoted, contacted, mailbox, pc, run>>

(* Another command has the same draft generated, of a contact or a company *)
(* that can be written to.                                                 *)
Generate ==
    /\ "generate" \in Disturbances
    /\ \E t \in Target \ Drafted :
           /\ IF t[2] = NoContact THEN mailbox[t[1]] = "known"
              ELSE t[2] \in contacted \intersect WithEmail /\ EmployerOf[t[2]] = t[1]
           /\ draft' = [draft EXCEPT ![t] = "DRAFT"]
    /\ UNCHANGED <<promoted, contacted, mailbox, pc, run>>

Init ==
    /\ promoted = {} /\ contacted = {}
    /\ mailbox = [k \in Companies |-> "unread"]
    /\ draft = [t \in Target |-> "NONE"]
    /\ pc = "idle"
    /\ run = NewRun

RunStep ==
    \/ Plan \/ Already \/ Apply \/ ContactPlan \/ ContactApply \/ Mail \/ Enrich \/ Complete
    \/ DraftIds \/ Draft \/ Leave \/ Report \/ Exit

Next == Start \/ RunStep \/ Crash \/ Review \/ Generate

Spec == Init /\ [][Next]_vars

-----------------------------------------------------------------------------
TypeOK ==
    /\ promoted \subseteq Candidates /\ contacted \subseteq Contacts
    /\ mailbox \in [Companies -> {"unread", "absent", "known"}]
    /\ draft \in [Target -> DraftStatus]
    /\ pc \in Labels
    /\ run \in RunState

(* Every attempt ends in exactly one place: a new draft, one of the four   *)
(* counters of attempts without one, the provider stop or the error that   *)
(* ended the run; and there are never more of either than were allowed.    *)
AttemptsAccounted ==
    /\ run.attempts <= Budget /\ Len(run.completed) <= Limit
    /\ run.attempts = run.skipped + Len(run.completed)
                      + (IF pc \in AttemptLabels \/ run.stopped \/ run.answer = "error"
                         THEN 1 ELSE 0)

(* What a run lists as completed is there: the draft, and the contact it   *)
(* is for, stored at the company it is for.                                *)
CompletedStored ==
    \A i \in DOMAIN run.completed :
        LET t == run.completed[i]
        IN  /\ draft[t] # "NONE"
            /\ \E c \in promoted : CompanyOf[c] = t[1]
            /\ IF t[2] = NoContact THEN mailbox[t[1]] = "known"
               ELSE t[2] \in contacted \intersect WithEmail /\ EmployerOf[t[2]] = t[1]

(* A draft that is counted as new waits for review, and is none that was   *)
(* there when the attempt chose its company: none of an earlier attempt or *)
(* run, ended or crashed, of another command, or reviewed before.          *)
OnlyNewCounted ==
    [][Len(run'.completed) > Len(run.completed) =>
           Goal \notin run.before /\ draft'[Goal] = "DRAFT"]_vars

(* A run that leaves its loop without an error reports what it has done:   *)
(* "provider stop preserves partial success".                              *)
ReportsWork == run.answer # "serialization"
=============================================================================
