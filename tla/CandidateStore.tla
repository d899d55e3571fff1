-------------------------- MODULE CandidateStore ---------------------------
(***************************************************************************)
(* The tables of company discovery and the processes that use them: the    *)
(* discovery runs, the staged candidates, and the companies candidates are *)
(* promoted to.  A candidate is named by its identity key, which holds the *)
(* host and port of its website, or its name and country if it has none:   *)
(* the website of a candidate never changes, and two candidates may share  *)
(* a host name.                                                            *)
(***************************************************************************)
EXTENDS WriteLock, Naturals

CONSTANTS Candidates, NoCandidate,
          Companies,   \* primary keys of companies
          NoCompany,   \* NULL
          Runs,        \* primary keys of company_discovery_runs
          NoRun,
          Hosts,       \* host names
          NoHost,      \* no website
          HostOf,      \* the host name of each candidate
          Fields,      \* what discovery may learn later: "name", "country"
          Commands,    \* the commands the processes of an instance may run
          Faults       \* what may go wrong in it: "crash", "database"

ASSUME NoCandidateAssumption == NoCandidate \notin Candidates
ASSUME CompaniesAssumption   == Companies \subseteq Nat \ {0} /\ NoCompany \notin Companies
ASSUME RunsAssumption        == Runs \subseteq Nat \ {0} /\ NoRun \notin Runs
ASSUME HostAssumption        == NoHost \notin Hosts /\ HostOf \in [Candidates -> Hosts \union {NoHost}]

VARIABLES candidate,  \* company_discovery_candidates
          run,        \* company_discovery_runs.run_status
          company,    \* companies
          handoff,    \* what the agent's plans printed, by run: for an operator to apply
          job         \* what each process was asked to do and has read so far

tables == <<candidate, run, company, handoff>>
vars   == <<candidate, run, company, handoff, writer, pc, job>>

-----------------------------------------------------------------------------
(* Rows. *)

CandidateStatus == {"ABSENT", "DISCOVERED", "REVIEWED", "REJECTED", "PROMOTED"}

CandidateRow == [status: CandidateStatus, known: SUBSET Fields, seenIn: Runs \union {NoRun},
                 company: Companies \union {NoCompany}]

NoCandidateRow == [status |-> "ABSENT", known |-> {}, seenIn |-> NoRun, company |-> NoCompany]

(* A candidate the agent looked at, and what was known of it then.         *)
Offer == [candidate: Candidates \union {NoCandidate}, known: SUBSET Fields]

NoOffer == [candidate |-> NoCandidate, known |-> {}]

RunStatus == {"ABSENT", "SUCCEEDED", "PARTIAL", "NOT_FOUND", "FAILED"}

CompanyRow == [live: BOOLEAN, host: Hosts \union {NoHost}, known: SUBSET Fields]

NoCompanyRow == [live |-> FALSE, host |-> NoHost, known |-> {}]

Live == {k \in Companies : company[k].live}

(* The key SQLite gives the next row of companies: one above the highest,  *)
(* so the key of a deleted company may come back.                          *)
IsNextCompany(k) ==
    /\ k \in Companies \ Live
    /\ \A other \in Live : other < k
    /\ \A lower \in Companies \ Live : lower < k => \E other \in Live : lower < other

IsNextRun(r) ==
    /\ run[r] = "ABSENT"
    /\ \A lower \in Runs : lower < r => run[lower] # "ABSENT"

-----------------------------------------------------------------------------
(* Processes. *)

Answers == {"", "ok", "reused", "already", "unchanged", "not_found", "transition", "ineligible",
            "inconsistent", "stale", "invalid", "staged", "no_candidates", "no_selection",
            "selected", "provider", "binding", "selection", "persistence"}

Job == [command: Commands \union {""}, candidate: Candidates \union {NoCandidate},
        run: Runs \union {NoRun}, offers: SUBSET Offer, chosen: Offer,
        company: Companies \union {NoCompany}, host: Hosts \union {NoHost},
        target: CandidateStatus, answer: Answers]

NoJob == [command |-> "", candidate |-> NoCandidate, run |-> NoRun, offers |-> {},
          chosen |-> NoOffer, company |-> NoCompany, host |-> NoHost, target |-> "ABSENT",
          answer |-> ""]

LockedLabels == {"promote_decide", "promote_commit", "stage_commit", "apply_decide",
                 "apply_commit"}

NetworkLabels == {"search", "plan_decide"}

DatabaseLabels ==
    LockedLabels \union
    {"review_read", "review_write", "promote_lock", "stage_lock", "plan_list", "plan_promoted",
     "plan_resolve", "apply_lock", "create", "delete_read", "delete_write"}

Labels == DatabaseLabels \union NetworkLabels \union {"idle", "done"}

Begin(p, command, label, args) ==
    /\ command \in Commands
    /\ pc[p] = "idle"
    /\ Goto(p, label)
    /\ job' = [job EXCEPT ![p] = [args EXCEPT !.command = command]]
    /\ UNCHANGED <<tables, writer>>

(* A read that only moves the process on.                                  *)
Step(p, label) == Goto(p, label) /\ UNCHANGED <<tables, writer, job>>

(* The first write statement of the process: it takes the write lock.      *)
Lock(p, label) == TakeLock(p) /\ Goto(p, label) /\ UNCHANGED <<tables, job>>

(* The command answers, after a commit or having written nothing.          *)
Answer(p, answer, k) ==
    /\ Goto(p, "done")
    /\ job' = [job EXCEPT ![p] = [NoJob EXCEPT !.answer = answer, !.company = k]]

(* session.rollback() and an error to the caller.                          *)
Fail(p, answer) == Answer(p, answer, NoCompany) /\ GiveLock(p) /\ UNCHANGED tables

-----------------------------------------------------------------------------
(* The process exits after its answer and the slot can run another command. *)
Exit(p) ==
    /\ pc[p] = "done"
    /\ Goto(p, "idle")
    /\ job' = [job EXCEPT ![p] = NoJob]
    /\ UNCHANGED <<tables, writer>>

(* A statement or a commit raises, and the command rolls back.             *)
DatabaseError(p) ==
    /\ "database" \in Faults
    /\ pc[p] \in DatabaseLabels
    /\ Fail(p, "persistence")

(* The process dies; SQLite drops its lock and its open transaction.       *)
Crash(p) ==
    /\ "crash" \in Faults
    /\ pc[p] \notin {"idle", "done"}
    /\ Goto(p, "idle")
    /\ job' = [job EXCEPT ![p] = NoJob]
    /\ GiveLock(p)
    /\ UNCHANGED tables

ProcessStep(p) == Exit(p) \/ DatabaseError(p) \/ Crash(p)

Init ==
    /\ candidate = [c \in Candidates |-> NoCandidateRow]
    /\ run = [r \in Runs |-> "ABSENT"]
    /\ company = [k \in Companies |-> NoCompanyRow]
    /\ handoff = [r \in Runs |-> NoOffer]
    /\ writer = NoProc
    /\ pc = [p \in Procs |-> "idle"]
    /\ job = [p \in Procs |-> NoJob]

TypeOK ==
    /\ candidate \in [Candidates -> CandidateRow]
    /\ run \in [Runs -> RunStatus]
    /\ company \in [Companies -> CompanyRow]
    /\ handoff \in [Runs -> Offer]
    /\ writer \in Procs \union {NoProc}
    /\ pc \in [Procs -> Labels]
    /\ job \in [Procs -> Job]
=============================================================================
