--------------------------- MODULE BulkCommands ----------------------------
(***************************************************************************)
(* The commands that work through a list: the lead acquisition agent, the  *)
(* imports of companies, the missing-draft batch, and the exports of the   *)
(* CRM.  A behaviour is of one kind of command, run by several processes   *)
(* (the agent is one); they meet nowhere but in the tables, and how the    *)
(* kinds meet there is what the other compositions are about.              *)
(***************************************************************************)
EXTENDS WriteLock, Naturals, Sequences, FiniteSets

CONSTANTS Limit, Candidates, Companies, NoCompany, CompanyOf, Contacts, NoContact, EmployerOf,
          WithEmail, Disturbances

CONSTANTS Hosts, NoHost, BadHost, Names, NoName, Malformed, Files, Texts, Found,
          MaxQueries, PerQuery, Ceiling, MaxCompanies

CONSTANTS Tasks, TaskCompany, Emails, NoEmail, FirstAddress, Options, RunLimits

CONSTANTS Drafts, First, DueRank, TaskOf, LeadOf, Batches, NoFile

CONSTANT MaxChanges

ASSUME LimitAssumption   == Limit \in 1..50
ASSUME CompanyAssumption == NoCompany \notin Companies /\ CompanyOf \in [Candidates -> Companies]
ASSUME ContactAssumption ==
    NoContact \notin Contacts /\ EmployerOf \in [Contacts -> Companies] /\ WithEmail \subseteq Contacts
ASSUME SearchAssumption  == {MaxQueries, PerQuery, Ceiling} \subseteq 1..1000 /\ NoHost # BadHost
ASSUME FileAssumption    ==
    LET line == [host : Hosts \union {NoHost, BadHost}, name : Names \union {NoName}]
                    \union {Malformed}
    IN  Files \subseteq Seq(line) /\ Found \subseteq line /\ Texts \in Seq(STRING)
ASSUME TaskAssumption    ==
    /\ Tasks \subseteq Nat /\ IsFiniteSet(Tasks) /\ TaskCompany \in [Tasks -> Nat]
    /\ RunLimits \subseteq Nat /\ NoEmail \notin Emails
    /\ FirstAddress \in [Tasks -> [contact : Emails \union {NoEmail}, company : Emails \union {NoEmail}]]
ASSUME DraftAssumption   ==
    /\ Drafts \subseteq Nat /\ First \subseteq Drafts /\ TaskOf \in [Drafts -> Tasks]
    /\ DueRank \in [Tasks -> Nat] /\ DOMAIN LeadOf = Tasks /\ Batches \subseteq SUBSET Drafts

VARIABLES command,  \* the kind
          promoted, contacted, mailbox, targeted, stage, acquiring,
          companies, importing,
          drafts, open, address, generating,
          draft, task, file, exporting,
          changes

Acquisition == INSTANCE LeadAcquisition WITH draft <- targeted, pc <- stage, run <- acquiring

Import == INSTANCE CompanyIngestion WITH job <- importing

Missing == INSTANCE MissingDrafts WITH run <- generating

Export == INSTANCE CrmExport WITH job <- exporting

acquisition == <<promoted, contacted, mailbox, targeted, stage, acquiring>>
import      == <<companies, importing>>
missing     == <<drafts, open, address, generating>>
export      == <<draft, task, file, exporting>>
processes   == <<writer, pc>>

all == <<command, acquisition, import, missing, export, processes, changes>>

BulkInit ==
    /\ command \in {"acquisition", "import", "missing", "export"}
    /\ Acquisition!Init /\ Import!Init /\ Missing!Init /\ Export!Init

Acquire ==
    /\ command = "acquisition" /\ Acquisition!Next
    /\ UNCHANGED <<command, import, missing, export, processes, changes>>

ImportCompanies ==
    /\ command = "import" /\ Import!Next
    /\ UNCHANGED <<command, acquisition, missing, export, changes>>

GenerateMissing ==
    /\ command = "missing" /\ Missing!Next
    /\ UNCHANGED <<command, acquisition, import, export>>

ExportCrm ==
    /\ command = "export" /\ Export!Next
    /\ UNCHANGED <<command, acquisition, import, missing>>

BulkSpec == BulkInit /\ [][Acquire \/ ImportCompanies \/ GenerateMissing \/ ExportCrm]_all

-----------------------------------------------------------------------------
(* And a search profile asks and finds no more than its limits allow,      *)
(* whatever the offset its templates are taken from.                       *)
BulkTypeOK ==
    /\ Acquisition!TypeOK
    /\ command = "import" => Import!TypeOK /\ Import!SearchBounded
    /\ command = "missing" => Missing!TypeOK
    /\ command = "export" => Export!TypeOK

(* Of the acquisition: every attempt is accounted for once.                *)
AttemptsAccounted == Acquisition!AttemptsAccounted

(* What it lists as completed is in the tables.                            *)
CompletedStored == Acquisition!CompletedStored

(* A draft is counted as new by no attempt that could have known of it.    *)
OnlyNewCounted == Acquisition!OnlyNewCounted

(* What it has done is reported: "provider stop preserves partial success". *)
ReportsWork == Acquisition!ReportsWork

(* Of the imports: only those that overlap store a company twice.          *)
DuplicatesOverlap == Import!DuplicatesOverlap

(* An import reports what it has added, whatever became of it.             *)
ReportTrue == Import!ReportTrue

(* Of the missing-draft batch: it reports what it has left in the tables.  *)
DraftsReported == Missing!DraftsReported

(* Of the exports: what is shown as sent has its time.                     *)
SentIsTimed == Export!SentIsTimed

(* A batch's answer tells what has been recorded, and shown.               *)
BatchAnswerTrue == Export!BatchAnswerTrue

(* No file is replaced unasked.                                            *)
NeverReplaced == Export!NeverReplaced
=============================================================================
