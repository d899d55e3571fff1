------------------------- MODULE ContactCandidates --------------------------
(***************************************************************************)
(* The contacts of a company from discovery to outreach: discovery, review *)
(* and promotion of candidates, the agent's contact plans and their        *)
(* application, the outreach to the company itself, and the operators who  *)
(* edit contacts, leads and tasks meanwhile.                               *)
(***************************************************************************)
EXTENDS ContactDiscovery, ContactPromotion, OutreachCompletion, CrmRecords

Next ==
    \E p \in Procs :
        \/ DiscoveryStep(p) \/ PromotionStep(p) \/ CompletionStep(p) \/ RecordStep(p)
        \/ ProcessStep(p)

Spec == Init /\ [][Next]_vars

-----------------------------------------------------------------------------
(* What is applied is what the plan printed: when the application of a     *)
(* plan is about to write, its candidate is known as it was then, and no   *)
(* other discovery of the company has been stored since.                   *)
AppliedAsPlanned ==
    \A p \in Procs : pc[p] = "apply_commit" =>
        /\ handoff[job[p].check] = [candidate |-> job[p].candidate,
                                    known |-> candidate[job[p].candidate].known]
        /\ state.at = job[p].check

(* The outreach tasks of the company that nobody has started.              *)
Waiting ==
    {t \in LiveTasks : /\ task[t].kind = "outreach" /\ task[t].status = "TODO"
                       /\ task[t].lead \in CompanyLeads}

(* Completions that race with each other each add a task, and then all     *)
(* later ones find a task or are refused: there are never more outreach    *)
(* tasks of the company to do than processes that ran at once, however     *)
(* long ago each of them listed the leads it looks under.  A task that was *)
(* started is not counted: one that was cancelled and is set going again   *)
(* by a process that read it before comes on top of those made meanwhile.  *)
(* And a contact that is deleted leaves its leads to the company, where a  *)
(* completion that holds the key of a lead deleted meanwhile may have put  *)
(* a task under a contact's lead.                                          *)
OutreachBounded ==
    "contact_delete" \notin mix => Cardinality(Waiting) <= Cardinality(Procs)

-----------------------------------------------------------------------------
PromotingLabels == {"promote_decide", "promote_commit", "apply_decide", "apply_commit"}

Told(p, labels, answers) == pc[p] \in labels /\ pc'[p] = "done" /\ job'[p].answer \in answers

(* Whoever is told that a candidate has a contact is told the truth: the   *)
(* contact exists, has the candidate's address, and is the one it is       *)
(* linked to.  And applying plans, again or several at once, leaves the    *)
(* contact one lead with one task, although operators make leads and tasks *)
(* for it at any time.                                                     *)
AnswersHonest ==
    [][\A p \in Procs :
           LET row == candidate'[job[p].candidate]
               k == job'[p].contact
           IN  /\ Told(p, PromotingLabels, {"ok", "reused", "already"}) =>
                      /\ row.status = "PROMOTED" /\ row.contact = k
                      /\ k \in Live' /\ contact'[k].email = EmailOf[job[p].candidate]
               /\ Told(p, {"apply_commit"}, {"ok"}) =>
                      \E x \in Contacts, l \in Leads, t \in Tasks :
                          /\ x = k /\ LeadsOf(x)' = {l} /\ TasksOf(l)' = {t}
                          /\ task'[t].kind = "plan"]_vars

(* The links and the contacts, as the promotion ledger sees them.          *)
Ledger == INSTANCE PromotionLedger WITH
              Companies <- Contacts, NoCompany <- NoContact,
              Hosts <- Emails, NoHost <- NoEmail, HostOf <- EmailOf,
              link  <- [c \in Candidates |-> candidate[c].contact],
              place <- [k \in Live |-> contact[k].email]

(* The commands implement the ledger: no candidate is linked twice, and no *)
(* promotion makes a second contact for an address.                        *)
ImplementsLedger == Ledger!LedgerSpec

-----------------------------------------------------------------------------
(* The inductive invariant behind the safety properties. *)

(* A linked contact exists and has the candidate's address.                *)
LinksInv ==
    \A c \in Candidates :
        LET k == candidate[c].contact
        IN  k # NoContact => contact[k].live /\ contact[k].email = EmailOf[c]

(* What a lead or a task hangs from exists.                                *)
RecordsInv ==
    /\ \A l \in LiveLeads : lead[l].contact \in Live \union {NoContact}
    /\ \A t \in LiveTasks : task[t].lead \in LiveLeads

(* A completion of process q will not add a task if t stays to do: it has  *)
(* the lead of t still to look under, or has found a task already.         *)
WillSee(q, t) ==
    pc[q] = "complete_tasks" => task[t].lead \in job[q].leads \/ job[q].active # {}

(* The tasks to do were made by a process each, and none of these makes    *)
(* another one.                                                            *)
OutreachInv ==
    "contact_delete" \notin mix =>
        \E maker \in [Waiting -> Procs] :
            /\ \A t, u \in Waiting : maker[t] = maker[u] => t = u
            /\ \A t \in Waiting : WillSee(maker[t], t)

(* Who is inside a transaction holds the lock, and only they do.           *)
LockHeld(p) == writer = p <=> pc[p] \in LockedLabels

CandidateLabels == {"review_read", "review_write", "promote_lock", "promote_decide", "promote_commit",
                    "apply_lock", "apply_decide", "apply_commit"}

(* What a process was asked to do.                                         *)
Named(p) ==
    /\ \A f \in job[p].todo : f.candidate \in Candidates
    /\ pc[p] \in CandidateLabels => job[p].candidate \in Candidates
    /\ pc[p] \in {"review_read", "review_write"} => job[p].outcome \in {"REVIEWED", "REJECTED"}
    /\ pc[p] \in {"apply_lock", "apply_decide", "apply_commit"} => job[p].check \in 1..LastCheck
    /\ pc[p] \in {"status_read", "status_write"} => job[p].outcome \in {"IN_PROGRESS", "DONE", "CANCELLED"}
    /\ pc[p] \in {"contact_read", "contact_delete"} => "contact_delete" \in mix

(* Whoever is about to promote may, to the right contact, and an           *)
(* application is about to make what is missing.                           *)
Informed(p) ==
    LET c == job[p].candidate
        k == job[p].contact
        l == job[p].lead
    IN  /\ pc[p] = "promote_commit" => candidate[c].contact = NoContact /\ IsDuplicate(k, EmailOf[c])
        /\ pc[p] = "apply_commit" =>
               /\ TokenMatches(job[p].check, c)
               /\ (candidate[c].status = "PROMOTED") = (candidate[c].contact # NoContact)
               /\ Preexisting(c, k)
               /\ LeadFits(k, l) /\ TaskFits(l, job[p].task)

ProcessInv(p) == LockHeld(p) /\ Named(p) /\ Informed(p)

(* What does not count anything.                                           *)
RowsInv == TypeOK /\ LinksInv /\ RecordsInv /\ \A p \in Procs : ProcessInv(p)

(* The inductive invariant.                                                *)
IInv == RowsInv /\ OutreachInv
=============================================================================
