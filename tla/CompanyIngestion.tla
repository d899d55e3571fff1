-------------------------- MODULE CompanyIngestion -------------------------
(***************************************************************************)
(* Companies stored in bulk: the rows of a CSV file, or the results of a   *)
(* search profile's queries.  An import knows duplicates by an index of    *)
(* the project's companies that it reads once, before its first INSERT,    *)
(* and commits all it made at once.                                        *)
(***************************************************************************)
EXTENDS WriteLock, Naturals, SequencesExt

CONSTANTS Hosts, NoHost, BadHost,  \* of a website: none, or one that is no host name
          Names, NoName,           \* the identity of name, country and city
          Malformed,               \* a line the parser or the adapter refuses
          Files,                   \* the CSV files, as sequences of rows
          Texts,                   \* what a profile's templates render to, in order
          Found,                   \* the rows a search may find
          MaxQueries, PerQuery, Ceiling,  \* the profile's limits
          MaxCompanies             \* an INSERT past them fails: a bound of the instance

Row == [host : Hosts \union {NoHost, BadHost}, name : Names \union {NoName}]

VARIABLES companies,  \* the table, in the order of its keys
          job         \* what each command holds

vars == <<writer, pc, companies, job>>

(* An import's report.                                                     *)
Report == [total : Nat, imported : Nat, skipped : Nat, failed : Nat]

NoReport == [total |-> 0, imported |-> 0, skipped |-> 0, failed |-> 0]

(* "limits" are the queries still to send, each by its result limit, and   *)
(* "ceiling" what they may find in all; "queued" the items still to store, *)
(* "made" those inserted so far; the indexes hold what counts as a         *)
(* duplicate.                                                              *)
NoJob == [limits |-> <<>>, ceiling |-> 0, asked |-> 0, found |-> 0, refused |-> 0,
          queued |-> <<>>, rows |-> 0, known |-> 0, websites |-> {}, fallbacks |-> {},
          made |-> <<>>, skipped |-> 0, failed |-> 0, report |-> NoReport]

Set(p, label, j) == Goto(p, label) /\ job' = [job EXCEPT ![p] = j]

Holds(p) == writer = p

(* The command ends with a report that counts the refused lines, too.      *)
Answer(p, r) ==
    /\ Goto(p, "done")
    /\ LET all == [r EXCEPT !.total = @ + job[p].refused, !.failed = @ + job[p].refused]
       IN  job' = [job EXCEPT ![p] = [NoJob EXCEPT !.report = all]]

-----------------------------------------------------------------------------
(* The items. *)

(* The lines that are not refused, in their order.                         *)
Usable(lines) ==
    LET kept == {i \in DOMAIN lines : lines[i] # Malformed}
        upTo(i) == Cardinality({h \in kept : h <= i})
    IN  [k \in 1..Cardinality(kept) |-> lines[CHOOSE i \in kept : upTo(i) = k]]

(* With nothing to store the ingestion is not called.                      *)
Submit(p, lines) ==
    LET items == Usable(lines)
    IN  Set(p, IF items = <<>> THEN "nothing" ELSE "project",
            [NoJob EXCEPT !.queued = items, !.rows = Len(items),
                          !.refused = Len(lines) - Len(items)])

CsvStart(p) ==
    /\ pc[p] = "idle"
    /\ \E file \in Files : Submit(p, file)
    /\ UNCHANGED <<writer, companies>>

(* Without taking each query's share from what is left.                    *)
LimitsUnshared(n) == [i \in 1..n |-> PerQuery]

(* The first n queries are each given their share of the results that are  *)
(* left, while any are.                                                    *)
Limits(n) ==
    LET left(i) == Ceiling - (i - 1) * PerQuery
        share(i) == IF PerQuery < left(i) THEN PerQuery ELSE left(i)
    IN  [i \in {i \in 1..n : left(i) > 0} |-> share(i)]

(* generate_preview: the templates from the offset on, each text that is   *)
(* not empty once, at most MaxQueries of them.                             *)
Preview(offset) ==
    LET n == Len(Texts)
        text(i) == Texts[((i - 1 + offset) % n) + 1]
        first(i) == text(i) # "" /\ \A k \in 1..(i - 1) : text(k) # text(i)
        count == Cardinality({i \in 1..n : first(i)})
    IN  Limits(IF count < MaxQueries THEN count ELSE MaxQueries)

ProfileStart(p) ==
    /\ pc[p] = "idle"
    /\ \E offset \in 0..(Len(Texts) - 1) :
           Set(p, "search", [NoJob EXCEPT !.limits = Preview(offset), !.ceiling = Ceiling])
    /\ UNCHANGED <<writer, companies>>

(* discover serpapi: one query, given on the command line.                 *)
SerpApiStart(p) ==
    /\ pc[p] = "idle"
    /\ Set(p, "search", [NoJob EXCEPT !.limits = <<PerQuery>>, !.ceiling = PerQuery])
    /\ UNCHANGED <<writer, companies>>

(* run_dry asks one query after the other: an answer adds its results, an  *)
(* error of the request or the response leaves the others, any other stops *)
(* the search with what it has found.                                      *)
Search(p) ==
    LET j == job[p]
        asked == [j EXCEPT !.limits = Tail(@), !.asked = @ + 1]
    IN  /\ pc[p] = "search" /\ j.limits # <<>>
        /\ \/ \E results \in SeqOf(Found, Head(j.limits)) :
                  Set(p, "search", [asked EXCEPT !.queued = @ \o results,
                                                 !.found = @ + Len(results)])
           \/ Set(p, "search", asked)
           \/ Set(p, "search", [asked EXCEPT !.limits = <<>>])
        /\ UNCHANGED <<writer, companies>>

Searched(p) ==
    /\ pc[p] = "search" /\ job[p].limits = <<>>
    /\ Submit(p, job[p].queued)
    /\ UNCHANGED <<writer, companies>>

Nothing(p) ==
    /\ pc[p] = "nothing"
    /\ Answer(p, NoReport)
    /\ UNCHANGED <<writer, companies>>

-----------------------------------------------------------------------------
(* CompanyIngestionService.ingest *)

(* Reporting every row as failed, those skipped, too.                      *)
RolledBackAll(j) == [total |-> j.rows, imported |-> 0, skipped |-> j.skipped, failed |-> j.rows]

(* _persistence_failure                                                    *)
RolledBack(j) ==
    [total |-> j.rows, imported |-> 0, skipped |-> j.skipped, failed |-> j.rows - j.skipped]

PersistenceFailure(p) ==
    /\ pc[p] \in {"project", "index", "items"}
    /\ Answer(p, RolledBack(job[p]))
    /\ GiveLock(p)
    /\ UNCHANGED companies

ReadProject(p) ==
    /\ pc[p] = "project"
    /\ \/ Set(p, "index", job[p])
       \/ Answer(p, [NoReport EXCEPT !.total = job[p].rows, !.failed = job[p].rows])
    /\ UNCHANGED <<writer, companies>>

(* The companies of the project, as the last commit left them.             *)
ReadIndex(p) ==
    /\ pc[p] = "index"
    /\ Set(p, "items",
           [job[p] EXCEPT
               !.known = Len(companies),
               !.websites = {companies[i].host : i \in DOMAIN companies} \intersect Hosts,
               !.fallbacks = {companies[i].name : i \in DOMAIN companies} \intersect Names])
    /\ UNCHANGED <<writer, companies>>

(* Asking for the website only.                                            *)
DuplicateByWebsite(row, j) == row.host \in j.websites

(* The name counts only for a row without a website.                       *)
Duplicate(row, j) ==
    \/ row.host \in j.websites
    \/ row.host = NoHost /\ row.name \in j.fallbacks

(* One item: an error, a duplicate, or an INSERT, the first of which takes *)
(* the write lock.                                                         *)
Item(p) ==
    LET j == job[p]
        row == Head(j.queued)
        rest == [j EXCEPT !.queued = Tail(@)]
    IN  /\ pc[p] = "items" /\ j.queued # <<>>
        /\ IF row.host = BadHost
           THEN Set(p, "items", [rest EXCEPT !.failed = @ + 1]) /\ UNCHANGED writer
           ELSE IF Duplicate(row, j)
           THEN Set(p, "items", [rest EXCEPT !.skipped = @ + 1]) /\ UNCHANGED writer
           ELSE /\ Len(companies) + Len(j.made) < MaxCompanies
                /\ IF Holds(p) THEN UNCHANGED writer ELSE TakeLock(p)
                /\ Set(p, "items",
                       [rest EXCEPT !.made = Append(@, row),
                                    !.websites = @ \union ({row.host} \intersect Hosts),
                                    !.fallbacks = @ \union ({row.name} \intersect Names)])
        /\ UNCHANGED companies

(* A row remembers which rows its import knew, and where its batch begins. *)
Stored(j) ==
    [i \in DOMAIN j.made |-> [host |-> j.made[i].host, name |-> j.made[i].name,
                              known |-> j.known, batch |-> Len(companies) + 1]]

Commit(p) ==
    LET j == job[p]
    IN  /\ pc[p] = "items" /\ j.queued = <<>>
        /\ companies' = companies \o Stored(j)
        /\ Answer(p, [total |-> j.rows, imported |-> Len(j.made),
                      skipped |-> j.skipped, failed |-> j.failed])
        /\ GiveLock(p)

Exit(p) ==
    /\ pc[p] = "done"
    /\ Set(p, "idle", NoJob)
    /\ UNCHANGED <<writer, companies>>

Crash(p) ==
    /\ pc[p] \notin {"idle", "done"}
    /\ Set(p, "idle", NoJob)
    /\ GiveLock(p)
    /\ UNCHANGED companies

-----------------------------------------------------------------------------
Init ==
    /\ writer = NoProc
    /\ pc = [p \in Procs |-> "idle"]
    /\ companies = <<>>
    /\ job = [p \in Procs |-> NoJob]

ImportStep(p) ==
    \/ CsvStart(p) \/ ProfileStart(p) \/ SerpApiStart(p) \/ Search(p) \/ Searched(p) \/ Nothing(p)
    \/ ReadProject(p) \/ ReadIndex(p) \/ Item(p) \/ Commit(p) \/ PersistenceFailure(p)
    \/ Exit(p) \/ Crash(p)

Next == \E p \in Procs : ImportStep(p)

Spec == Init /\ [][Next]_vars

-----------------------------------------------------------------------------
StoredRow == [host : Hosts \union {NoHost}, name : Names \union {NoName}, known : Nat, batch : Nat]

TypeOK ==
    /\ writer \in Procs \union {NoProc}
    /\ companies \in Seq(StoredRow)
    /\ \A p \in Procs : job[p].report \in Report
    /\ \A p \in Procs : Holds(p) => pc[p] = "items"

(* Two rows that deduplication takes for one company.                      *)
Same(row, earlier) ==
    IF row.host = NoHost THEN row.name # NoName /\ row.name = earlier.name
    ELSE row.host = earlier.host

(* A company is stored twice only by imports that overlap: never by one    *)
(* import that meets it twice, and never by one that begins to read the    *)
(* companies after the other has committed.                                *)
DuplicatesOverlap ==
    \A i, k \in DOMAIN companies :
        i < k /\ Same(companies[k], companies[i]) =>
            companies[k].known < i /\ i < companies[k].batch

(* The report of an import is true whatever became of it: it counts every  *)
(* line once, and as imported exactly what the import has added.           *)
ReportTrue ==
    [][\A p \in Procs : pc[p] # "done" /\ pc'[p] = "done" =>
           LET r == job'[p].report
           IN  /\ r.imported = Len(companies') - Len(companies)
               /\ r.total = r.imported + r.skipped + r.failed
               /\ r.total >= job[p].rows]_vars

(* A search neither asks nor finds more than its limits allow, with        *)
(* whatever offset a profile's templates are taken.                        *)
SearchBounded == \A p \in Procs : job[p].asked <= MaxQueries /\ job[p].found <= job[p].ceiling
=============================================================================
