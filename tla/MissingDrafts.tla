--------------------------- MODULE MissingDrafts ---------------------------
(***************************************************************************)
(* email-draft generate-missing: one list of tasks without a draft, taken  *)
(* at the beginning, then a session for each of them that reads the rows   *)
(* again, calls the AI provider with no lock held, and commits a draft or  *)
(* nothing.  DraftGeneration models a generation beside the rest of the    *)
(* outreach; here is what the list adds: what changes between its reading  *)
(* and an item, between the reads of an item, and what the items report.   *)
(***************************************************************************)
EXTENDS WriteLock, Naturals, FiniteSetsExt

CONSTANTS Tasks,      \* by their keys, numbers
          TaskCompany,  \* the company of a task's lead, by its key, a number
          Emails,     \* normalized addresses
          FirstAddress, \* the addresses at the beginning
          NoEmail,    \* none, or a text that does not normalize
          Options,    \* what sender, purpose, tone and language a run asks for
          RunLimits,     \* how many companies a run may be limited to
          MaxChanges  \* what else happens while the runs go on: a bound of the instance

VARIABLES drafts,   \* email_drafts
          open,     \* whether a task is TODO or IN_PROGRESS
          address,  \* of the lead's contact, if it has one, and of the company
          run,      \* what each process was asked to do and has so far
          changes   \* how often something else has changed

vars == <<writer, pc, drafts, open, address, run, changes>>

Address == [contact : Emails \union {NoEmail}, company : Emails \union {NoEmail}]

(* "author" is the process whose insert it was.                            *)
Draft == [task : Tasks, bound : BOOLEAN, email : Emails, options : Options,
          reviewed : BOOLEAN, author : Procs]

(* The context and the options: the UNIQUE request fingerprint.            *)
Fingerprint(d) == <<d.task, d.bound, d.email, d.options>>

WithFingerprint(d) == {e \in drafts : Fingerprint(e) = Fingerprint(d)}

Result == {"CREATED", "WOULD_CREATE", "SKIPPED_EXISTING", "SKIPPED_NO_EMAIL", "FAILED"}

(* "items" are the results by task, "seen" the draft being made.           *)
NoRun == [options |-> CHOOSE o \in Options : TRUE, limit |-> 0, dry |-> FALSE,
          selected |-> {}, items |-> <<>>, seen |-> {}, calls |-> 0]

others == <<drafts, open, address, changes>>

Set(p, label, r) == Goto(p, label) /\ run' = [run EXCEPT ![p] = r]

-----------------------------------------------------------------------------
RunStart(p) ==
    /\ pc[p] = "idle"
    /\ \E o \in Options, n \in RunLimits, dry \in BOOLEAN :
           Set(p, "select", [NoRun EXCEPT !.options = o, !.limit = n, !.dry = dry])
    /\ UNCHANGED <<writer, others>>

WithoutDraft(k) ==
    {t \in Tasks : TaskCompany[t] = k /\ open[t] /\ \A d \in drafts : d.task # t}

(* _candidate_task_ids: the newest such task of each of the first "limit"  *)
(* companies that have one.                                                *)
CandidateTasks(limit) ==
    LET ks == {k \in {TaskCompany[t] : t \in Tasks} : WithoutDraft(k) # {}}
    IN  {Max(WithoutDraft(k)) : k \in {k \in ks : Cardinality({j \in ks : j < k}) < limit}}

Select(p) ==
    /\ pc[p] = "select"
    /\ Set(p, "process", [run[p] EXCEPT !.selected = CandidateTasks(run[p].limit)])
    /\ UNCHANGED <<writer, others>>

Left(r) == r.selected \ DOMAIN r.items

(* In the order of the companies.                                          *)
NextOf(r) == CHOOSE t \in Left(r) : \A u \in Left(r) : TaskCompany[t] <= TaskCompany[u]

Item(p, result) ==
    LET t == NextOf(run[p])
    IN  Set(p, "process", [run[p] EXCEPT !.items = [u \in DOMAIN @ \union {t} |->
                                                       IF u = t THEN result ELSE @[u]],
                                         !.seen = {}])

(* The contact's address if it has a usable one, else the company's.       *)
Wanted(r, t) ==
    LET a == address[t]
    IN  [task |-> t, bound |-> a.contact # NoEmail,
         email |-> IF a.contact # NoEmail THEN a.contact ELSE a.company,
         options |-> r.options, reviewed |-> FALSE]

(* The reads of an item; the service's first load returns the same rows,   *)
(* which the session holds already.  Nobody looks at the task's status     *)
(* before the service does.  A read that fails fails the item.             *)
Process(p) ==
    LET r == run[p]
        t == NextOf(r)
    IN  /\ pc[p] = "process" /\ Left(r) # {}
        /\ \/ IF \E d \in drafts : d.task = t THEN Item(p, "SKIPPED_EXISTING")
              ELSE IF address[t].contact = NoEmail /\ address[t].company = NoEmail
              THEN Item(p, "SKIPPED_NO_EMAIL")
              ELSE IF r.dry THEN Item(p, "WOULD_CREATE")
              ELSE IF ~open[t] THEN Item(p, "FAILED")
              ELSE Set(p, "find", [r EXCEPT !.seen = {Wanted(r, t)}])
           \/ Item(p, "FAILED")
        /\ UNCHANGED <<writer, others>>

Seen(p) == CHOOSE d \in run[p].seen : TRUE

(* A draft of the same request: taken for the result while unreviewed.     *)
Find(p) ==
    LET same == WithFingerprint(Seen(p))
    IN  /\ pc[p] = "find"
        /\ IF same = {} THEN Set(p, "provider", run[p])
           ELSE IF \E d \in same : d.reviewed THEN Item(p, "FAILED") ELSE Item(p, "CREATED")
        /\ UNCHANGED <<writer, others>>

(* The answer is a usable text, or the item fails, the client's creation   *)
(* included; the call counts once it is made.                              *)
Provider(p) ==
    /\ pc[p] = "provider"
    /\ \/ Set(p, "recheck", [run[p] EXCEPT !.calls = @ + 1])
       \/ Set(p, "failed", [run[p] EXCEPT !.calls = @ + 1])
       \/ Set(p, "failed", run[p])
    /\ UNCHANGED <<writer, others>>

Failed(p) ==
    /\ pc[p] = "failed" /\ Item(p, "FAILED")
    /\ UNCHANGED <<writer, others>>

(* The second load: the address by the draft's own binding.                *)
Unchanged(d) ==
    /\ open[d.task]
    /\ d.email = IF d.bound THEN address[d.task].contact ELSE address[d.task].company

Recheck(p) ==
    /\ pc[p] = "recheck"
    /\ IF Unchanged(Seen(p)) THEN Set(p, "insert", run[p]) ELSE Item(p, "FAILED")
    /\ UNCHANGED <<writer, others>>

Authored(d, p) ==
    [task |-> d.task, bound |-> d.bound, email |-> d.email, options |-> d.options,
     reviewed |-> d.reviewed, author |-> p]

(* Keeping the item as it was made when the commit fails.                  *)
InsertBlind(p) ==
    /\ pc[p] = "insert" /\ WriteAtOnce
    /\ \/ /\ WithFingerprint(Seen(p)) = {}
          /\ drafts' = drafts \union {Authored(Seen(p), p)}
       \/ UNCHANGED drafts
    /\ Item(p, "CREATED")
    /\ UNCHANGED <<open, address, changes>>

(* INSERT and commit.  The UNIQUE constraint or a failure of either rolls  *)
(* the session back.                                                       *)
Insert(p) ==
    /\ pc[p] = "insert" /\ WriteAtOnce
    /\ \/ /\ WithFingerprint(Seen(p)) = {}
          /\ drafts' = drafts \union {Authored(Seen(p), p)}
          /\ Item(p, "CREATED")
       \/ Item(p, "FAILED") /\ UNCHANGED drafts
    /\ UNCHANGED <<open, address, changes>>

Report(p) ==
    /\ pc[p] = "process" /\ Left(run[p]) = {}
    /\ Set(p, "done", run[p])
    /\ UNCHANGED <<writer, others>>

(* Or an error that nothing catches: what was reported so far is lost.     *)
Crash(p) ==
    /\ pc[p] \notin {"idle", "done", "dead"}
    /\ Set(p, "dead", NoRun)
    /\ UNCHANGED <<writer, others>>

-----------------------------------------------------------------------------
(* Meanwhile. *)

Change == changes < MaxChanges /\ changes' = changes + 1 /\ UNCHANGED <<writer, pc, run>>

Review ==
    /\ Change
    /\ \E d \in drafts :
           ~d.reviewed /\ drafts' = (drafts \ {d}) \union {[d EXCEPT !.reviewed = TRUE]}
    /\ UNCHANGED <<open, address>>

(* Enrichment and contact management rewrite the addresses.                *)
Readdress(t) ==
    /\ Change
    /\ \E a \in Address : a # address[t] /\ address' = [address EXCEPT ![t] = a]
    /\ UNCHANGED <<drafts, open>>

Close(t) ==
    /\ open[t] /\ Change /\ open' = [open EXCEPT ![t] = FALSE]
    /\ UNCHANGED <<drafts, address>>

-----------------------------------------------------------------------------
Init ==
    /\ writer = NoProc
    /\ pc = [p \in Procs |-> "idle"]
    /\ drafts = {}
    /\ open = [t \in Tasks |-> TRUE]
    /\ address = FirstAddress
    /\ run = [p \in Procs |-> NoRun]
    /\ changes = 0

DraftsStep(p) ==
    \/ RunStart(p) \/ Select(p) \/ Process(p) \/ Find(p) \/ Provider(p) \/ Failed(p)
    \/ Recheck(p) \/ Insert(p) \/ Report(p) \/ Crash(p)

Next ==
    \/ \E p \in Procs : DraftsStep(p)
    \/ Review
    \/ \E t \in Tasks : Readdress(t) \/ Close(t)

Spec == Init /\ [][Next]_vars

-----------------------------------------------------------------------------
TypeOK ==
    /\ writer = NoProc /\ drafts \subseteq Draft
    /\ open \in [Tasks -> BOOLEAN] /\ address \in [Tasks -> Address]
    /\ \A p \in Procs : LET r == run[p]
                        IN  /\ r.selected \subseteq Tasks /\ Cardinality(r.selected) <= r.limit
                            /\ r.calls <= Cardinality(r.selected)
                            /\ DOMAIN r.items \subseteq r.selected
                            /\ \A t \in DOMAIN r.items : r.items[t] \in Result

(* What a run reports is what it has left in the tables: a task it lists   *)
(* as CREATED has a draft of the request it was asked for, by it or by a   *)
(* run beside it, and no draft of its making is listed as anything else.   *)
DraftsReported ==
    [][\A p \in Procs : pc[p] # "done" /\ pc'[p] = "done" =>
           LET r == run[p]
               created == {t \in r.selected : r.items[t] = "CREATED"}
           IN  /\ \A t \in created : \E d \in drafts : d.task = t /\ d.options = r.options
               /\ \A d \in drafts : d.author = p => d.task \in created]_vars
=============================================================================
