----------------------------- MODULE Outreach ------------------------------
(***************************************************************************)
(* The outreach flow as a whole: any mix of the commands, each running in  *)
(* its own process over the one SQLite file, and the properties the flow   *)
(* is meant to have.                                                       *)
(***************************************************************************)
EXTENDS DraftGeneration, DraftReview, EmailDelivery, ManualOutreach,
        RecipientRebinding, TaskLifecycle, CompanyEnrichment

CommandStep(p) ==
    \/ GenerationStep(p) \/ ReviewStep(p) \/ DeliveryStep(p) \/ ManualStep(p)
    \/ RebindStep(p) \/ LifecycleStep(p) \/ EnrichmentStep(p)

Next == \E p \in Procs : CommandStep(p) \/ ProcessStep(p)

Spec == Init /\ [][Next]_vars

(* A process that is running goes on to its answer: the interpreter runs   *)
(* it, the provider and the server calls have timeouts, and a wait for the *)
(* write lock ends with the lock or with an error.  Nobody has to start a  *)
(* command, and nothing has to crash.                                      *)
RunStep(p) == pc[p] # "idle" /\ (CommandStep(p) \/ DatabaseError(p) \/ Exit(p))

FairSpec == Spec /\ \A p \in Procs : WF_vars(RunStep(p))

-----------------------------------------------------------------------------
(* Safety. *)

(* One message per draft: whatever processes race, crash and restart, the  *)
(* SMTP server never takes a second message for the same draft.            *)
AtMostOneMessage == \A d \in Drafts : accepted[d] <= 1

(* The automatic and the manual channel exclude each other, and the        *)
(* delivery_mode column always names the channel whose row exists: a claim *)
(* is never committed without its attempt or record, nor the reverse.      *)
ChannelExclusive ==
    \A d \in Drafts : /\ (attempt[d] # "NONE") <=> (draft[d].mode = "AUTOMATIC")
                      /\ manual[d] <=> (draft[d].mode = "MANUAL")

(* The stored outcome never contradicts the server: nothing is sent before *)
(* the reservation is durable, ACCEPTED means the message was taken, and a *)
(* definite failure means it was not.                                      *)
OutcomeHonest ==
    \A d \in Drafts :
        /\ accepted[d] > 0 => attempt[d] \in {"RESERVED", "ACCEPTED", "UNKNOWN"}
        /\ attempt[d] = "ACCEPTED" => accepted[d] = 1

(* A message is only ever sent for a draft that somebody approved, and     *)
(* that is addressed to a person.                                          *)
SentOnlyAfterApproval ==
    \A d \in Drafts : attempt[d] # "NONE" => draft[d].approvedAt /\ draft[d].bound

(* A draft addressed to a person carries that person's canonical address,  *)
(* whatever is rebound or enriched around it: so the address an approved   *)
(* draft is sent to cannot have gone stale between the send's check and    *)
(* its reservation.                                                        *)
RecipientCanonical ==
    \A d \in Drafts : Exists(d) /\ draft[d].bound =>
        /\ task[draft[d].task].bound
        /\ task[draft[d].task].contactEmail = draft[d].email

(* The write lock is never held across the AI provider or the SMTP server, *)
(* so a slow server cannot block the other commands.                       *)
NoLockAcrossNetwork ==
    writer # NoProc => pc[writer] \notin {"gen_provider", "smtp", "smtp_wait"}

(* An answer tells the truth about the database: an outcome that was       *)
(* printed is stored, and "recorded" means every draft of the command has  *)
(* its record.                                                             *)
AnswerHonest ==
    \A p \in Procs : pc[p] = "done" =>
        /\ job[p].answer \in TerminalOutcome => attempt[job[p].draft] = job[p].answer
        /\ job[p].answer = "ok" => \A d \in job[p].batch : manual[d]

(* No two drafts answer the same request: not by two generations racing,   *)
(* nor by a rebinding that moves one draft onto the other's context.       *)
OneDraftPerRequest ==
    \A d, e \in Drafts :
        d # e /\ Exists(d) /\ Exists(e) => Fingerprint(draft[d]) # Fingerprint(draft[e])

-----------------------------------------------------------------------------
(* Steps. *)

(* The address and the person of a draft are frozen once a channel has     *)
(* claimed it, so that what was sent is what the row says.                 *)
ClaimedRecipientFrozen ==
    [][\A d \in Drafts : draft[d].mode # "NONE" =>
           /\ draft'[d].mode = draft[d].mode
           /\ Fingerprint(draft'[d]) = Fingerprint(draft[d])]_vars

(* A batch is recorded whole: the step that makes one record of a          *)
(* process's command makes all of them.                                    *)
BatchAllOrNothing ==
    [][\A p \in Procs : writer = p /\ manual' # manual =>
           \A d \in job[p].batch : ~manual[d] /\ manual'[d]]_vars

(* "Reviewed email draft content is immutable": an approved or a rejected  *)
(* draft keeps its status.                                                 *)
ReviewIsFinal ==
    [][\A d \in Drafts : draft[d].status \in {"APPROVED", "REJECTED"} =>
           draft'[d].status = draft[d].status]_vars

(* A draft is approved only in the context it was generated from: approval *)
(* detects a concurrent change of the context.                             *)
ApprovalCurrent ==
    [][\A d \in Drafts : draft[d].status = "DRAFT" /\ draft'[d].status = "APPROVED" =>
           CurrentContext(draft[d]) = Fingerprint(draft[d])]_vars

(* Where each draft stands in the ledger.                                  *)
LedgerOf == [d \in Drafts |-> IF manual[d] THEN "MANUAL"
                              ELSE IF attempt[d] = "NONE" THEN "OPEN" ELSE attempt[d]]

Ledger == INSTANCE DeliveryLedger WITH ledger <- LedgerOf, taken <- accepted

(* The flow implements the ledger: every draft goes through one channel at *)
(* most once, with an outcome that agrees with the server.                 *)
ImplementsLedger == Ledger!LedgerSpec

-----------------------------------------------------------------------------
(* Liveness. *)

(* The write lock is always given back.                                    *)
LockReleased == \A p \in Procs : writer = p ~> writer # p

(* Once the reservation is committed and the process goes on, the attempt  *)
(* is settled, whatever the server does, or the command says that it could *)
(* not be written: no path leaves it RESERVED behind a delivery answer.    *)
ReservationSettled ==
    \A p \in Procs, d \in Drafts :
        pc[p] = "smtp" /\ job[p].draft = d ~>
            attempt[d] \in TerminalOutcome \/ job[p].answer = "persistence"

-----------------------------------------------------------------------------
(* The inductive invariant behind the safety properties: what holds of the *)
(* committed rows, and what every process may rely on at the label it is   *)
(* at, whatever the others have committed since it read.                   *)

SendLabels == {"send_draft", "send_source", "send_attempt", "send_record", "send_claim",
               "send_reserve"}
OwnerLabels == {"smtp", "smtp_wait", "settle"}
SingleLabels == {"mark_draft", "mark_source", "mark_attempt", "mark_record",
                 "ext_draft", "ext_source", "ext_attempt", "ext_record"}
BatchLabels == {"batch_draft", "batch_source", "batch_attempt", "batch_record"}
ManualLabels == {"manual_claim", "manual_commit"}
GenerationLabels == {"gen_provider", "gen_recheck", "gen_insert"}

-----------------------------------------------------------------------------
(* Rows. *)

(* A row's timestamps agree with its status; a missing row is blank.       *)
RowsConsistent ==
    \A d \in Drafts :
        /\ Exists(d) => draft[d].task \in Tasks
        /\ draft[d].status = "APPROVED" => draft[d].approvedAt
        /\ draft[d].status = "DRAFT" => ~draft[d].approvedAt
        /\ ~Exists(d) => draft[d] = NoRow

(* What holds of the committed rows and of the server.                     *)
TablesInv ==
    /\ RowsConsistent
    /\ AtMostOneMessage /\ ChannelExclusive /\ OutcomeHonest
    /\ SentOnlyAfterApproval /\ RecipientCanonical /\ OneDraftPerRequest

-----------------------------------------------------------------------------
(* Processes. *)

(* Who is inside a transaction holds the lock, and only they do; a manual  *)
(* command that has not taken the lock has not claimed anything yet.       *)
LockHeld(p) ==
    /\ pc[p] \in LockedLabels => writer = p
    /\ writer = p => pc[p] \in LockedLabels \union {"manual_claim"}
    /\ pc[p] = "manual_claim" /\ writer # p => job[p].left = job[p].batch

(* The row a generation carries is a fresh draft, and the person it is     *)
(* addressed to keeps the address it names.                                *)
FreshRowCarried(p) ==
    LET row == job[p].seen
    IN  /\ pc[p] = "gen_read" => job[p].task \in Tasks
        /\ pc[p] \in GenerationLabels =>
               /\ row.task \in Tasks
               /\ row.status = "DRAFT" /\ row.mode = "NONE" /\ ~row.approvedAt
               /\ row.bound => /\ task[row.task].bound
                               /\ task[row.task].contactEmail = row.email

(* A reviewer is looking at a draft that exists and has a status to give.  *)
ReviewerInformed(p) ==
    /\ pc[p] \in {"review_draft", "review_source", "review_flush", "review_commit"} =>
           job[p].draft \in Drafts /\ job[p].target \in {"APPROVED", "REJECTED"}
    /\ pc[p] \in {"review_source", "review_flush", "review_commit"} => Exists(job[p].draft)

(* What a sender has read about its draft stays true: approved and bound.  *)
SenderInformed(p) ==
    LET d == job[p].draft
    IN  /\ pc[p] \in SendLabels \union OwnerLabels => d \in Drafts
        /\ pc[p] = "send_source" => draft[d].bound
        /\ pc[p] = "send_source" /\ job[p].seen.status = "APPROVED" => draft[d].approvedAt
        /\ pc[p] \in SendLabels \ {"send_draft", "send_source"} =>
               draft[d].approvedAt /\ draft[d].bound
        /\ pc[p] = "send_reserve" => draft[d].mode = "NONE"

(* From the first commit to the second the sender owns the reservation and *)
(* knows what the server did.                                              *)
OwnerInformed(p) ==
    LET d == job[p].draft
    IN  /\ pc[p] \in OwnerLabels => attempt[d] = "RESERVED"
        /\ pc[p] = "smtp" => accepted[d] = 0
        /\ pc[p] = "smtp_wait" =>
               \/ job[p].target = "accepted" /\ accepted[d] = 1
               \/ job[p].target = "refused" /\ accepted[d] = 0
        /\ pc[p] = "settle" =>
               \/ job[p].target = "ACCEPTED" /\ accepted[d] = 1
               \/ job[p].target = "UNKNOWN"
               \/ /\ job[p].target \in {"TRANSIENT_FAILURE", "PERMANENT_FAILURE"}
                  /\ accepted[d] = 0

(* Every draft a manual command has looked at exists, and every one it has *)
(* claimed is unclaimed in the committed table.                            *)
ManualInformed(p) ==
    /\ pc[p] \in SingleLabels => /\ job[p].draft \in Drafts
                                 /\ job[p].batch = {job[p].draft}
                                 /\ job[p].left = job[p].batch
    /\ pc[p] \in SingleLabels \ {"mark_draft", "ext_draft"} => Exists(job[p].draft)
    /\ pc[p] \in BatchLabels =>
           \A d \in job[p].batch \ job[p].left : Exists(d)
    /\ pc[p] \in BatchLabels \ {"batch_draft"} =>
           job[p].draft \in job[p].left /\ Exists(job[p].draft)
    /\ pc[p] \in ManualLabels =>
           /\ \A d \in job[p].batch : Exists(d)
           /\ \A d \in job[p].batch \ job[p].left : draft[d].mode = "NONE"
    /\ pc[p] = "manual_commit" => job[p].left = {}

(* Rebinding writes only an unclaimed, unreviewed draft whose address is   *)
(* the company's; it takes no address from a person who has another, and   *)
(* moves the draft onto no other draft's context.                          *)
RebinderInformed(p) ==
    LET d == job[p].draft
        t == draft[d].task
    IN  /\ pc[p] \in {"rebind_lock", "rebind_check", "rebind_commit"} => d \in Drafts
        /\ pc[p] = "rebind_commit" =>
               /\ draft[d].mode = "NONE" /\ draft[d].status = "DRAFT"
               /\ task[t].companyEmail = draft[d].email
               /\ task[t].bound => task[t].contactEmail = draft[d].email
               /\ NoCollision(d)

(* A task or an enrichment command names a task.                           *)
TaskNamed(p) ==
    /\ pc[p] \in {"task_read", "task_write", "enrich_read", "enrich_write"} =>
           job[p].task \in Tasks
    /\ pc[p] = "task_write" => job[p].target \in TaskStatus

(* Only manual commands have a batch, and what was answered is true.       *)
AnswerTrue(p) ==
    /\ pc[p] \notin SingleLabels \union BatchLabels \union ManualLabels \union {"done"} =>
           job[p].batch = {}
    /\ pc[p] = "done" =>
           /\ job[p].answer \in TerminalOutcome =>
                  job[p].draft \in Drafts /\ attempt[job[p].draft] = job[p].answer
           /\ job[p].answer = "ok" => \A d \in job[p].batch : manual[d]

ProcessInv(p) ==
    /\ LockHeld(p) /\ FreshRowCarried(p) /\ ReviewerInformed(p) /\ SenderInformed(p)
    /\ OwnerInformed(p) /\ ManualInformed(p) /\ RebinderInformed(p) /\ TaskNamed(p)
    /\ AnswerTrue(p)

(* A reservation has one owner.                                            *)
OwnerExclusive ==
    \A p, q \in Procs : pc[p] \in OwnerLabels /\ pc[q] \in OwnerLabels /\ p # q =>
        job[p].draft # job[q].draft

-----------------------------------------------------------------------------
(* The inductive invariant: every reachable state satisfies it, and it     *)
(* implies the safety properties of the flow.                              *)
IInv == TypeOK /\ TablesInv /\ OwnerExclusive /\ \A p \in Procs : ProcessInv(p)
=============================================================================
