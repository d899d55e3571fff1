# Verification of the leads platform

TLA+ modules, TLC instances and TLAPS proofs for the Bali Leads Platform, a
Python command line program that finds companies and contacts, drafts emails
for them, has the drafts reviewed and sends them. Paths below are relative to
the repository (`app/...`); `PROJECT.json` maps every definition to its lines.

## 1. The system

Every command is one operating system process with one SQLAlchemy session on
one SQLite file (`app/core/database`). There is no server, no background
worker and no message between processes: they interact only through committed
rows and through SQLite's single write lock. Three facts about that session
decide most of what can go wrong:

* the session neither autoflushes nor expires on commit;
* SQLite ignores `SELECT ... FOR UPDATE`;
* the driver opens a transaction at the first `INSERT`/`UPDATE`. A `SELECT`
  before it sees the latest committed rows and holds nothing; the first write
  takes the write lock of the whole file, kept until commit or rollback.

So "read, check, write by primary key" is not atomic, although the code, with
its `with_for_update()`, reads as if it were. What is safe is safe because of a
conditional `UPDATE`, a `UNIQUE` constraint or a lock taken before the reads.

### Components

| Component | State | Operations | Hard behaviour | What makes it correct |
|---|---|---|---|---|
| Email drafts: generation (`email_draft/service.py`, `execution.py`) | `email_drafts` | generate: read, call the AI provider, read again, insert | context changes during the provider call; two generations of one request | one draft per request fingerprint |
| Email drafts: review | `email_drafts.status`, review timestamps | approve, reject | two reviews at once; context changing under an approval | a review is final; an approval is of the current context |
| Automatic delivery (`email_delivery/service.py`) | `email_delivery_attempts`, `email_drafts.delivery_mode` | send: reserve, commit, SMTP, settle | crash between the two transactions; lost replies; racing sends | one message at most; stored outcomes agree with the server |
| Manual outreach (`manual_service.py`, `outreach_mode.py`) | `manual_email_send_records`, `delivery_mode` | mark-sent, record-external-manual-send, batch | racing the automatic channel; a batch refused half way | channels exclude each other; batches are whole |
| Recipient rebinding (`recipient_rebinding.py`) | draft, lead, contact | rebind-recipient | rewrites the context of a draft others are sending | claimed drafts are frozen; fingerprints stay unique |
| Tasks (`task/service.py`, `repository.py`) | `tasks.status` | start, complete, cancel | two transitions of one task at once | DONE and CANCELLED are terminal |
| Company enrichment (`company_enrichment/service.py`) | canonical company email | enrich-companies | writes what it decided from an old read | as environment of review, delivery and completion |
| SMTP client (`providers/smtp/client.py`) | one connection, the `sending` flag | send | failures before and after the message was handed over; `except` order | the report agrees with what the server did; TLS first |
| Lead acquisition agent (`agent/lead_acquisition.py`, `lead_acquisition_execution.py`) | counters and lists of one run | acquire | attempt budget, provider stop, repeated companies, partial success | completed companies counted once; a run that committed work is reported |
| Agent company plan and apply (`agent/company_*.py`, `execution.py`) | none of its own; prints handoffs (run, candidate) | plan, recover, apply | the handoff is applied later, by another process, after other runs and operators | applies only what was decided on |
| Agent contact plan and apply (`agent/contact_*.py`) | contacts | search, rank, decide, apply | handoff tokens, stale candidates | applies only what was planned; one lead with one task |
| Company discovery, candidate review and promotion (`company_discovery`) | staging runs, candidates, companies | discover, review, reject, promote | two operators on one candidate; duplicate companies | PROMOTED is terminal; one company per website; links to companies that exist |
| Contact discovery and promotion (`contact_discovery`) | contact candidates, contacts | discover, review, promote | the same, and one canonical contact per company | as above |
| Outreach completion (`company/outreach_completion.py`), leads and tasks | leads, tasks | find-or-create; create, delete, status | two completions at once | duplicates stay bounded by what raced |
| Missing-draft batch (`email_draft/batch.py`) | none of its own | generate for many tasks | rows change between the list and its items; a commit fails | reports what it has left |
| CRM overview, export and outreach batch (`crm`) | a workbook; manual send records | export, preview, record | two loads of changing tables; records committed and export failing | answers what was recorded and shown; never replaces a file unasked |
| Company import (`company_import`, `company_discovery/profile_*.py`) | companies | import CSV, run a search profile, discover | duplicate index read before any lock; rollback after rows were counted | only overlapping imports store a company twice; the report is what was added |
| SerpApi and public web fetcher (`providers`), website crawl (`website_provider.py`) | the call under way | search, fetch, crawl | retry under a shared budget; redirects; many addresses; partial failure | one answer is paid once; one site; within the limits; an acceptable result |
| OpenAI (`providers`) | none | one call each | failure | seen by its callers as success or failure |
| Projects, search profiles, task queue, settings | their rows | CRUD and queries | none of note | - |

Interactions: the agent drives discovery, promotion and generation; promotion
and completion create the leads and tasks that generation reads; generation
calls the AI provider; review, rebinding, enrichment and task commands rewrite
rows that delivery has checked; delivery calls the SMTP client; the CRM batch
records through the manual channel.

## 2. Modules

    SmtpPromise ------------------------------.
        |                                      \
    OutreachStore     DeliveryLedger         SmtpClient
        |   tables, lock, processes  \             \
        +-- DraftGeneration           \          (composed in ExternalClients)
        +-- DraftReview                \
        +-- EmailDelivery               \
        +-- ManualOutreach               }-- Outreach -- OutreachProof
        +-- RecipientRebinding          /        |              |
        +-- TaskLifecycle              /     MCOutreach  OutreachTheorems
        +-- CompanyEnrichment         '

    WriteLock
        |
    CandidateStore       tables, processes
        +-- DiscoveryStaging --.                 PromotionLedger
        +-- CandidatePromotion -+-- CompanyAgent -- CompanyCandidates
                                                        |           |
                                                  MCCandidates  CandidatesProof
                                                                    |
                                                            CandidatesTheorems

The outreach flow:

* **OutreachStore**: the committed tables (`draft`, `task`, `attempt`,
  `manual`), the number of messages the SMTP server took (`accepted`), the
  holder of the write lock (`writer`), and per process a label (`pc`) and what
  it was asked and has read (`job`). A `task` row joins the task with the lead,
  contact, company and enrichment it hangs from, as the code's queries do. What
  an open transaction has written is implied by its process's label and is
  installed by the commit action, so readers see committed rows only. Every
  label that is a database statement can fail (`DatabaseError`: lock wait timed
  out, disk error; the service rolls back), every label can be the last
  (`Crash`: SQLite drops the lock and the open transaction).
* **DraftGeneration, DraftReview, EmailDelivery, ManualOutreach,
  RecipientRebinding, TaskLifecycle, CompanyEnrichment**: one action per
  database statement or external call, in the order of the code, each with the
  code's early returns as `Fail(p, answer)`.
* **Outreach** composes them: any mix of commands in any number of processes.
  It holds the properties, the fairness and the inductive invariant.
* **DeliveryLedger** is the abstract promise about a draft: *open*, then either
  recorded manually (a batch at once) or reserved, then perhaps settled with an
  outcome that does not contradict the server. `Outreach` implements it under
  the mapping `LedgerOf`.
* **SmtpPromise** is what delivery assumes of the client's report; **SmtpClient**
  models one `send` as a conversation (connect, greeting, EHLO, STARTTLS, EHLO,
  AUTH, MAIL, RCPT, DATA, body, RSET, QUIT) in which every reply can be a
  refusal, a lost connection or an over-long line, and keeps the promise.
* **OutreachProof**, **OutreachTheorems**: section 5.

Company candidates:

* **WriteLock** is SQLite's lock and the processes' labels, without tables.
* **CandidateStore**: discovery runs, staged candidates, companies, and what the
  agent's plans have printed (`handoff`). Its rules of reading, committing,
  failing and crashing are those of `OutreachStore`. The key of a new company is
  SQLite's: one above the highest, so that a deleted company's key comes back.
  When the keys of an instance are used up the inserting transaction can only
  fail, as on a full disk, or be cut off; the instances have one of the faults.
* **DiscoveryStaging**: `stage-profile`, and the search of a plan. The provider is
  asked with no transaction open; one transaction then records the run and
  upserts every candidate found. What was found is any set of candidates with
  any fields; bad provider data before that commit rolls back and answers like
  a database error.
* **CandidatePromotion**: the operator's `review`, `reject` (read, then lock) and
  `promote` (lock, then read). `PromoteDecide` is everything promotion reads
  under its lock, the duplicate company by website included, and
  `PromoteCommit` what it writes: a new company or the link to the one found.
* **CompanyAgent**: the plan (stage, list the run's candidates, let the decision
  model choose, print), the recovering plan (which also offers promoted
  candidates, from a second `SELECT`, and reads the chosen one again) and the
  application of a printed handoff: lock, check that no other run has seen the
  candidate since, review and promote in one transaction.
* **CompanyCandidates** composes them with `company create` and `company delete`,
  and holds the properties and the inductive invariant.
* **PromotionLedger** is the abstract promise: a candidate is linked at most once
  while its company exists, to a company of its own host, and a company is made
  for it only if its host has none. `CompanyCandidates` implements it.
* **CandidatesProof**, **CandidatesTheorems**: section 5.

Contacts and outreach records:

    WriteLock -- ContactStore            tables, processes
                   +-- ContactDiscovery ----.
                   +-- ContactPromotion -----+-- ContactCandidates -- MCContacts
                   +-- OutreachCompletion ---+           |
                   +-- CrmRecords ----------'      ContactsProof    PromotionLedger

* **ContactStore**: candidates, contacts, leads, tasks and the discovery state of
  one company, in the manner of `CandidateStore`. A process is asked for a command
  of the *mix* the instance has chosen: which commands meet on one database.
* **ContactDiscovery**: the operator's discovery and the agent's plan, which is a
  discovery whose commit also prints a handoff token for the candidate chosen.
  The state row counts its checks (`state.at`), of which the token holds one.
* **ContactPromotion**: review and rejection (read, then write by primary key),
  promotion under the company's scope, and the application of a printed plan:
  scope, token, status, review, promotion, and `Materialize`, its lead and task.
* **OutreachCompletion**: enrichment of the company's own address, then
  find-or-create of the company-scoped lead and its task, one action per query: the
  company's leads are listed once, and the tasks of each listed lead are read by a
  `SELECT` of their own, so that a lead made since is not looked under.
* **CrmRecords**: contacts, leads and tasks created, deleted and moved on by hand,
  with the keys SQLite gives and the cascades the foreign keys have.
* **ContactCandidates** composes them and holds the properties and the inductive
  invariant. It implements **PromotionLedger**, with contacts for companies and
  addresses for hosts.
* **ContactsProof**: section 5.

Commands that work through a list:

    LeadAcquisition    CompanyIngestion    MissingDrafts    CrmExport
              \               |                 |             /
               '---------------- BulkCommands ---------------'
                                  |        |
                               MCBulk   BulkProof

* **LeadAcquisition**: `acquire`, one action per call of its dependencies with the
  answers the adapters of `lead_acquisition_execution.py` tell apart; what a call
  commits stays when the run stops, aborts or dies, and the next run finds it.
  `Aligned` is `validate_alignment`. The four counters an attempt without a draft
  can end in are one, `skipped`: no decision reads them. Meanwhile drafts are
  reviewed and other commands store the same drafts, between any two calls.
* **CompanyIngestion**: the imports of a CSV file, of a search profile's run and of
  a provider's discovery; the queries a profile's limits allow, the project and
  the duplicate index (both read before any lock), the rows, the commit.
* **MissingDrafts**: the list of tasks and a session per item; reviews, changes of
  address and closed tasks in between.
* **CrmExport**: `SelectTask` and `SelectDraft` of the overview, the two loads of a
  workbook, its atomic save (which may put the file in place and still fail, as it
  removes the temporary name), and the outreach batch with its answer. Drafts
  are generated, reviewed, readdressed and reserved by automatic deliveries
  meanwhile, and tasks and the destination change. The recording of a batch, which
  `ManualOutreach` models statement by statement, is one step here.
* **BulkCommands** holds the four side by side. A behaviour is of one kind of
  command: the tables they share are those of the compositions above, where they
  meet; here the question is what a command does with its list.
* **BulkProof**: section 5.

Clients of outside services:

    PublicWebFetcher    SerpApiClient
              \           /
             WebsiteDiscovery      SmtpClient
                         \          /
                       ExternalClients -- MCClients, ClientsProof

* **PublicWebFetcher**: one fetch with its hops, verified addresses, redirects and
  refusals. **SerpApiClient**: one search, its retry and the budget both share.
  A response whose body cannot be decoded is a transport error to httpx
  (`DecodingError`) and is retried like a lost connection, although the provider may
  have charged for it; `OneAnswer` is about answers that were read.
* **WebsiteDiscovery**: the crawl on top of them, for contact discovery (homepage,
  the root instead, linked pages, pages a search finds) and for enrichment.
* **ExternalClients**: a process uses the crawl or the SMTP client.
* **ClientsProof**: section 5.

What is abstracted: subjects, bodies, names and times are left out; a
fingerprint is the tuple of the fields that are hashed and that this platform
rewrites (`task`, `bound`, `email`, `located`, `sender`), so two rows have equal
fingerprints exactly when those agree; `NoEmail` stands for NULL and for text
that does not normalise. `located` stands for the company's country and city,
which rebinding fills in.

A candidate is its identity key. The key holds host and port, the duplicate
check compares hosts: `HostOf` is therefore a constant, two candidates may share a
host, and one without a website has none. Of a candidate's other columns
`known` says which have been learnt, which is what later runs change and what
the decision model is shown. The ranking and its limit of five, the fingerprints
a caller excludes and the size limit of a decision request are abstracted to the
decision model choosing nothing ("no_selection"), which may always happen. A
session's identity map plays no part there: every command reads its rows in a
transaction begun afterwards, or drops its instances before reading again. Where
it does, a later read is modelled as the copy the session holds (the first load
of a missing draft's item, the second read of an enrichment).

A contact is its address and whether it is there; titles, roles and the text of
proposals are left out. A page is a host, hostname and port, and whether it is
the root; what it says is whether parsing fails, and whether it names anybody.
A company of an import is what its duplicates are known by: the host of its
website and the identity of name, country and city. A workbook is, for each of
its drafts, the outreach status and whether a time of sending is given.

## 3. Runs

| Run | Question | Bounds | States |
|---|---|---|---|
| Batch | Sends, manual records and batches race with generations, approvals and rebindings, with crashes and database errors at every label: one message at most, one channel, honest outcomes and answers, whole batches, one draft per request, no lock across the network, the delivery ledger implemented | 2 processes, 2 drafts | 1.1 M |
| Context | Rebinding, enrichment and task commands rewrite the context while others review and send. Also checks the inductive invariant `IInv`, types included | 2 processes, 1 draft, 2 addresses | 3.1 M |
| Settling | The write lock is always given back, and a send that has reserved its draft settles it or says that it could not, with database errors at every statement | 2 processes, 1 draft, fair | 149 k |
| Clients | The SMTP report keeps `SmtpPromise` and TLS is never skipped; a search is answered once within its budget; connections within the limits; pages of one site only; the crawl's result is one its service accepts; everything ends | 3 hosts of 2 sites, 2 redirects, 2 addresses, fair | 1.0 M |
| Promotion | Two candidates of one website are reviewed, promoted and applied by racing processes, while companies are created and deleted by hand: one company for the host, one link per candidate, true answers | 2 processes, 2 candidates, 2 companies, 1 run | 1.2 M |
| Handoff | Plans, recoveries and applications, of a candidate with and one without a website, race with the searches of other plans, reviews and crashes: what is applied is what was decided on. Also checks the inductive invariant `IInv` | 2 processes, 2 candidates, 2 fields, 1 company, 2 runs | 3.3 M |
| Contacts | Five mixes of commands over candidates, contacts, leads and tasks: plans applied as printed, honest answers, one lead with one task for an applied contact, outreach tasks bounded, the promotion ledger implemented. Also checks the inductive invariant `IInv` | 2 processes, 2 candidates (one with an address), 2 contacts, 2 leads, 3 tasks, 2 checks | 1.5 M |
| Bulk | The acquisition accounts for every attempt and completes what is stored; imports report what they added and only overlapping ones store a company twice; the missing-draft batch reports what it left; exports and batches answer what is recorded and shown, and replace no file unasked | see below | 2.7 M |
| ReviewRace, ApprovalRace, SmtpOverlong, AcquisitionStop | the divergences of section 6 | | violated |

Why the bounds are enough. Processes interact only pairwise through one row or
the lock: a race needs two, and a third would find what the first two have
committed, which is what a process finds that runs its next command. One draft
shows every race for a draft; a batch needs two to be refused half way; a
fingerprint collision needs one draft to be moved onto another. Two addresses
make an address change visible. A process that has answered returns to `idle`, so
an instance of these runs arbitrarily many commands one after the other. The set
`Drafts` is the only bound on the table; an insert past it fails as a database
error would. Nothing else is capped. The runs name the commands that take part
and the faults in their constants.

For candidates: two that share a host race for one company, and a second company
key is the one a wrong promotion would take; with one company the second of two
candidates that are planned finds no key left, which `Promotion` makes up for.
A candidate without a website (`Handoff`) shares nothing. A handoff goes stale by
a second run over one candidate, and two fields make a difference between "as
offered" and "learnt since". The sets `Runs` and `Companies` are the only bounds
on those tables. A company keeps its host: `company_enrichment/service.py:116` would
store a website that an enrichment provider returns, but the one there is, the
website provider, never returns any. For contacts the sets `Contacts`, `Leads` and `Tasks` are, and
`LastCheck` bounds the discoveries of the company. The five mixes are the groups of
commands that touch the same rows; three tasks are what two racing completions
and one by hand can make. Rebinding, which also gives a company's lead a contact
(`recipient_rebinding.py:223`), is composed with the outreach flow and not with these
commands. In the view an answer is dropped once it was given:
nothing reads it, and the properties about answers look at the step that gives
them.

`Bulk`: the acquisition is asked for 2 drafts, hence 10 attempts, over three
candidates, two of them of one company, and two contacts, one without an address:
enough to skip to the end of the budget, complete twice and find what an earlier
run left. The six files hold a company twice, with and without its website, rows
that fail and rows that cannot be read; a profile asks 2 queries of 4 templates,
one empty and one repeated, at most 2 results each and 3 in all. `MaxCompanies`
bounds the table. In the missing-draft batch and the exports `MaxChanges` bounds
what else happens to two changes, and each of the two processes runs one command;
the first company has two tasks, the first lead two tasks of which one has the
earlier due date, and one draft is stored only after the beginning.

`Clients`: two hosts of one site (the company's domain with and without `www.`)
and one of another are the cases a redirect can lead to; two redirects show a loop
and a chain. The page budgets are those of the code.

What the bounds leave open, the proofs close. They hold for any `Procs`, `Drafts`,
`Tasks`, `Emails`, `Senders`, `Candidates`, `Companies`, `Runs`, `Hosts` and `Fields`
of the outreach flow and of company candidates; for any candidates, contacts,
leads, tasks, checks, mixes and finitely many processes of contact candidates; for
any limit and tables of the bulk commands, any files and search limits, and any
number of processes and disturbances; and for any hosts, redirects and addresses
of the clients. All safety and action properties of the passing runs are theorems.

The symmetry of processes and drafts is used in safety runs only. `Clients`,
`SmtpOverlong`, `Bulk` and `AcquisitionStop` do not look for deadlock: a conversation
or crawl stops when it is over, and so do the processes that run one command. All
others do.

## 4. Fairness

`FairSpec` is weak fairness of `RunStep(p)`, the next step of a process that is
already running: the interpreter goes on, provider and server calls have
timeouts, and a wait for the write lock ends with the lock or an error (SQLite's
busy timeout, `DatabaseError`). No command has to be started and nothing has to
crash. Under it:

* `LockReleased` holds with database errors (a crash gives the lock back by
  SQLite's own doing);
* `ReservationSettled` is about a send that goes on: its attempt is settled or it
  answers that it could not be written. A crash after the reservation leaves the
  attempt RESERVED for an operator, which is the documented design, so the
  instance has none. Weak fairness does not make a waiter ever get the lock if
  others endlessly take and return it, and neither does SQLite, whose waiters
  poll: the wait then ends with a database error, which the instance has.
* `ClientsEnd` is weak fairness of the client's next step: every connection, page
  and provider call has a timeout. That a conversation and a crawl end says that
  no server can keep them going by answering: redirects, links, retries and
  search results all count against a limit.

## 5. Proofs

Proved with TLAPS for every value of the constants, from the assumptions the modules
name and TLC evaluates in the runs:

* OutreachStore: the four "no such" values are outside their sets; the configured
  sender is a sender. WriteLock: `NoProc` is no process. CandidateStore: the same of
  its values; keys of companies and runs are positive integers; a candidate's host is
  a host or none.
* ContactStore: the same of its values; keys are natural numbers; two candidates of
  one company with one address are one, as the address is then their identity key;
  finitely many processes (for counting tasks).
* BulkCommands: 1 to 50 drafts are asked for and every search limit is 1 to 1000, which
  the code checks; each contact has an employer, each candidate a company, each draft
  a task; files are sequences of lines; keys are natural numbers, and the tasks of a
  database are finitely many.
* The clients: a host has a site; redirects are a natural number, addresses a
  positive one; `OverlongReplies` is a Boolean.

What is proved:

* `OutreachProof!Invariance`: `Spec => []IInv`.
* `OutreachTheorems`: types, `AtMostOneMessage`, `ChannelExclusive`,
  `OutcomeHonest`, `SentOnlyAfterApproval`, `RecipientCanonical`,
  `OneDraftPerRequest`, `NoLockAcrossNetwork`, `AnswerHonest`, the action
  properties `ClaimedRecipientFrozen` and `BatchAllOrNothing`, and the refinement
  `ImplementsLedger`.
* `CandidatesProof!Invariant`: `Spec => []IInv` of CompanyCandidates.
* `CandidatesTheorems`: `AppliedAsPlanned`, the action property
  `PromotionHonest` and the refinement `ImplementsLedger`.
* `ContactsProof`: `Spec => []IInv` of ContactCandidates, types included;
  `AppliedAsPlanned`, `OutreachBounded`, the action property `AnswersHonest` and the
  refinement `ImplementsLedger`.
* `BulkProof`, of the specification that holds the four kinds of command:
  `BulkTypeOK`, `AttemptsAccounted`, `CompletedStored`, `OnlyNewCounted`,
  `DuplicatesOverlap`, `ReportTrue`, `DraftsReported`, `SentIsTimed`, `BatchAnswerTrue`
  and `NeverReplaced`; half of them are action properties.
* `ClientsProof`, of the specification that composes the clients: `ClientTypeOK`,
  `ReportPromised` (when reply lines fit smtplib's limit), `OnlyOverTls`,
  `OneAnswer`, `OneSite` and `ResultAccepted`.

`AtMostOneMessage` is not inductive: that the second sender is stopped follows
from what the first has committed and from what each process may still rely on.
`IInv` says both. `TablesInv` is about committed rows (channel and row agree,
outcome and server agree, timestamps and status agree, a person-addressed draft
carries the person's canonical address, fingerprints are unique).
`ProcessInv(p)` says, label by label, which of the facts a process has read
still hold whatever the others have committed since: a sender past its source
check may rely on *was approved* and *is addressed to a person* (monotone), not
on *is still APPROVED*; a manual batch that holds the lock may rely on the
drafts it has claimed being unclaimed in the committed table; the process between
`smtp` and `settle` owns the only RESERVED attempt of its draft and what the
server did is in its hands. `LockHeld` ties those labels to the write lock and
`OwnerExclusive` makes the owner unique. Each action has a lemma that preserves
`IInv`, split along these conjuncts; actions of other processes preserve
`ProcessInv(q)` by monotonicity of the rows.

For company candidates, `ImplementsLedger` needs to know, where a promotion commits,
that the company found under the lock still exists and is of the candidate's host, or
that the host still has none (`PromoterInformed`); both hold because companies
change only under the lock, which `LockHeld` gives to the promoting process
alone. `AppliedAsPlanned` relates a handoff to the candidate some time later:
`StillAsOffered` says that an offer is as it was for as long as the candidate's
last run is the offer's run, since only staging changes what is known and every
staging is a run of its own. It holds of the planner's offers before they are
printed, hence `PlannerInformed`, and of printed handoffs; the check of
`last_seen_run` under the lock then makes it a fact about the row being promoted.
`CandidatesInv` says that links point to existing companies of the right host,
which deletion (`ON DELETE SET NULL`) and reused keys could break. In the theorems
a step either leaves candidates and companies alone or is one of six commits.

For contacts, `Informed(p)` says what a process relies on, and it is about the tables
only at labels inside a transaction, where nobody else commits. So a step that
commits nothing has to look at its own process only (`QuietStep`), and a commit at
the rows only (`CommitStep`). `LinksInv` and `RecordsInv` are what the rows mean: a
candidate's contact exists and has its address; leads and tasks hang from what
exists. They survive deletion because foreign keys cascade, and reuse of keys
because a key is taken again only when nothing hangs from it. `OutreachBounded`
is a count, proved by an injection: `OutreachInv` gives each outreach task that is to
do a *maker*, a process of its own that will not add another one as long as the task
is there (`WillSee`): when it looks again it lists a lead under which the task is, or
has found a task already. A process that writes a task has found none, so it is
nobody's maker and becomes the new task's; a process that lists the leads anew
lists those of all tasks there are. The property is about tasks to do and not about
all that are unfinished: a task that was started, cancelled and is set going again
by a process that read it before (the start writes by primary key) comes on top of
those made while it was cancelled, and with three processes there can then be four
unfinished ones. That an application leaves one lead with one task (`AnswersHonest`) rests
on its transaction: what it found under the company's scope is what it commits on.

For the bulk commands:

* `AttemptInv` says, for each call of an attempt, what the calls before it have
  established: the company is of a promoted candidate, the contact is its, its own
  address is known. `AttemptsAccounted` is then one equation whose last term, the
  attempt under way or the one that ended the run, is moved by every way to leave
  an attempt. `OnlyNewCounted` needs that what had a draft when the attempt chose its
  company (`before`, a history field) still has one when the attempt looks (`fresh`):
  drafts are never taken back. A draft that another command stores between that
  look and the generation is returned as reusable and counted as new all the same
  (`lead_acquisition_execution.py:447-489`); nothing in the repository excludes that,
  and the property does not.
* `ExportJobInv` relates what an export has loaded to what is stored now: whatever
  it saw as sent is still recorded so, which makes `SentIsTimed` hold over two loads;
  and a batch's drafts carry its mark exactly after the claim, which is what its
  answer tells (`ToldIsTrue`).
* `MissingRunInv` says that an item reported as CREATED has its draft, and that a run's
  own drafts are items of it; the item in hand is the exception and is named.
* `ImportJobInv`: every row is made, skipped, failed or still queued. `IndexInv`: the
  indexes hold what was stored when they were read and what was made since, and
  nothing was made that they held; so two equal companies can only have come from
  imports of which one read before the other committed. `SearchInv` gives the queries
  still to come their share of the ceiling, in order.

For the clients, `ReportInv` ties what the server has taken to the phase of the
conversation; `SearchInv` says that a search which may still ask has no answer,
`SiteInv` that nothing is taken from a website before its homepage is known, as a
redirect may still move it to another site. `FetchInv` bounds the connections of
the hops so far and counts the addresses left of this one; `BudgetInv` bounds the
pages attempted by what is still to be followed and by the search results seen;
`CountsInv` says that a page under way is attempted and not yet successful and that
once the homepage is over there is a success or an error to show for it, from which
`ResultAccepted` follows.

Checked by TLC only: the liveness properties `LockReleased`, `ReservationSettled` and
`ClientsEnd` (liveness under fairness is beyond the prover) and the violations.
`ReportPromised` is about replies that fit smtplib's limit; that TLS is not skipped is
proved for any reply. No module with a theorem has a recursive operator: the
duplicates of a preview's queries and the choice of a smallest key are written with
ranks and with `CHOOSE`, whose facts are proved from the well-foundedness of the natural
numbers and of finite sets.

## 6. Where the code and its documents disagree

1. **ReviewRace** - "Reviewed email draft content is immutable"
   (`app/modules/email_draft/models.py:136`): an approve and a reject that both
   read DRAFT both succeed and the later commit wins.
2. **ApprovalRace** - "test_approval_detects_concurrent_context_change"
   (`tests/test_email_draft_service.py:422`): a change that commits after the
   check and before the approval's commit is not detected.
3. **SmtpOverlong** - "test_loopback_ambiguity_is_unknown_and_never_retried"
   (`tests/test_email_delivery_loopback_adversarial.py:81`): an over-long reply to
   a message already handed over is reported as a transient failure, because the
   `except OSError` clause comes before those for smtplib's own exceptions, which
   are OSErrors.
4. **AcquisitionStop** - "test_provider_stop_preserves_partial_success"
   (`tests/test_agent_lead_acquisition.py:451`): `budget_exhausted` is computed from
   the attempts alone, so a provider that stops the run on the last attempt of its
   budget gives a result that is both stopped and exhausted. `validate_alignment`
   (`lead_acquisition.py:324`) refuses it and the command answers a serialization
   failure, although everything the run did is committed. Two completed drafts of
   one company, to it and to a contact of it, are refused likewise (312-317).

More of the kind were met and have no run, as they would repeat what these show:

* The lost update of 1 in three more places. A candidate read as REVIEWED is
  rejected over a promotion that committed since, against
  "test_forbidden_transition_is_rejected"
  (`tests/test_company_discovery_candidate_review.py:164`): REJECTED with its company
  still linked, and every later promotion refused. The same of a contact candidate
  (`contact_discovery/repository.py:205`) and of a task that is completed and
  cancelled at once (`task/repository.py:152`, "test_done_is_terminal").
* `company delete` of a promoted candidate's company leaves PROMOTED without a
  company, which `candidate_promotion.py:196` answers as inconsistent for ever after.
* Two completions of one company that race each create a task, after which every
  completion of it is a conflict; `OutreachBounded` says that never more are to do
  than processes ran. It says so of mixes without `contact delete`: a completion that found its lead
  just before the lead was deleted writes a task to a key that a contact's lead may
  have taken since, and deleting that contact makes the lead, and the task, the
  company's. With that command there can be more such tasks than processes.
* Two imports of one company that overlap store it twice; `DuplicatesOverlap` says
  that only those do.
* An export that loads the tables while a draft is stored fails with a KeyError.

What delivery and the manual channel promise holds in spite of 1 and 2: their
claim is a conditional `UPDATE`, and they rely on nothing a later review can
take back. What the promotion ledger promises holds in spite of the lost
rejections, as it speaks of links and of companies or contacts, not of the status.

## 7. What is left, and what is not modelled

Worth proving next: the invariants of single components as statements about those
components alone, so that a composition need not be unfolded; the agent's selection
under its limit of shown candidates, once it is modelled.

Worth modelling next: the rankings of the company and contact selections as
operators against a reference definition.

Not modelled: rendering, exit codes and prompts of the commands, the layout and
the other columns of workbooks, the text rules of HTML parsing and normalization,
MIME construction, Alembic migrations, settings and country targets, CRUD of
projects and search profiles, the task work queue (a sorted SELECT), the OpenAI
clients (one HTTPS call each, success or failure to their callers). They keep no
state that several actors share, or are text. PostgreSQL is not modelled: no driver
for it is among the dependencies.
