-------------------------- MODULE ClientsProof --------------------------
(***************************************************************************)
(* Proofs about the clients.  Of SmtpClient: a server whose reply lines    *)
(* fit smtplib's limit cannot make the client misreport, and nothing skips *)
(* the encryption.  Of the crawls of websites: a search is answered once,  *)
(* a result is of one site, within the budgets, and accepted.              *)
(***************************************************************************)
EXTENDS ExternalClients, FiniteSetTheorems, TLAPS

Before == {"connect", "ehlo", "starttls", "ehlo_tls", "login", "mail", "rcpt", "data", "body"}
Handing == {"mail", "rcpt", "data", "body", "rset"}

(* Nothing is taken before the body is sent; the flag is up while the      *)
(* message is handed over; what waits for the reset, and what was          *)
(* reported, agrees with the server.                                       *)
ReportInv ==
    /\ stage \in Before => ~taken
    /\ stage \in Handing => sending
    /\ stage = "rset" => pending \in Smtp!Conclusions(Smtp!Verdict)
    /\ Smtp!ReportPromised

(* The encryption is in place from the first exchange that relies on it.   *)
TlsInv ==
    /\ Smtp!OnlyOverTls
    /\ stage = "ehlo" => (secured <=> config.mode = "TLS_IMPLICIT")
    /\ stage = "ehlo_tls" => secured
    /\ stage \in {"ehlo", "connect"} => config.mode \in Smtp!SecurityMode

Failures == {"TRANSIENT_FAILURE", "PERMANENT_FAILURE", "UNKNOWN"}

-----------------------------------------------------------------------------
(* An exception reports a failure or an unknown outcome, never acceptance. *)
LEMMA ExceptionsReportFailures ==
    ASSUME NEW e, NEW r
    PROVE  Smtp!ReportOf(e, r) \in Failures /\ Smtp!Classify(r) \in Failures
  <1>1. Smtp!Classify(r) \in Failures
    BY DEF Smtp!Classify, Failures
  <1> QED
    BY <1>1 DEF Smtp!ReportOf, Failures

(* A lost connection is caught by its own clause, and a refused message by *)
(* its own, although both are also operating system errors.                *)
LEMMA OwnClauses ==
    /\ Smtp!Clause("SMTPServerDisconnected") = "SMTPServerDisconnected"
    /\ Smtp!Clause("SMTPDataError") = "SMTPDataError"
  <1>1. Smtp!Clause("SMTPServerDisconnected") = "SMTPServerDisconnected"
    <2> DEFINE S == Smtp!Classes("SMTPServerDisconnected") \intersect DOMAIN Smtp!ClauseOrder
    <2>1. S = {"SMTPServerDisconnected", "OSError", "SMTPException"}
      BY DEF Smtp!Classes, Smtp!ClauseOrder
    <2>2. /\ Smtp!ClauseOrder["SMTPServerDisconnected"] = 5
          /\ Smtp!ClauseOrder["OSError"] = 8
          /\ Smtp!ClauseOrder["SMTPException"] = 10
      BY DEF Smtp!ClauseOrder
    <2>3. \A c \in S : (\A b \in S : Smtp!ClauseOrder[c] <= Smtp!ClauseOrder[b]) <=> c = "SMTPServerDisconnected"
      BY <2>1, <2>2
    <2> QED
      BY <2>1, <2>3 DEF Smtp!Clause
  <1>2. Smtp!Clause("SMTPDataError") = "SMTPDataError"
    <2> DEFINE S == Smtp!Classes("SMTPDataError") \intersect DOMAIN Smtp!ClauseOrder
    <2>1. S = {"SMTPDataError", "OSError", "SMTPException", "SMTPResponseException"}
      BY DEF Smtp!Classes, Smtp!ClauseOrder
    <2>2. /\ Smtp!ClauseOrder["SMTPDataError"] = 4
          /\ Smtp!ClauseOrder["OSError"] = 8
          /\ Smtp!ClauseOrder["SMTPResponseException"] = 9
          /\ Smtp!ClauseOrder["SMTPException"] = 10
      BY DEF Smtp!ClauseOrder
    <2>3. \A c \in S : (\A b \in S : Smtp!ClauseOrder[c] <= Smtp!ClauseOrder[b]) <=> c = "SMTPDataError"
      BY <2>1, <2>2
    <2> QED
      BY <2>1, <2>3 DEF Smtp!Clause
  <1> QED
    BY <1>1, <1>2

(* After the message went out, a lost connection or an unreadable reply    *)
(* leaves the outcome unknown.                                             *)
LEMMA AmbiguityIsUnknown ==
    ASSUME sending
    PROVE  /\ Smtp!ReportOf("SMTPServerDisconnected", "lost") = "UNKNOWN"
           /\ Smtp!ReportOf("SMTPDataError", "odd") = "UNKNOWN"
  BY OwnClauses DEF Smtp!ReportOf, Smtp!Classify

(* A failure is an honest report of a message that was not taken.          *)
LEMMA FailuresPromised ==
    /\ Failures \subseteq Smtp!Conclusions("refused")
    /\ "UNKNOWN" \in Smtp!Conclusions("accepted")
    /\ "ACCEPTED" \in Smtp!Conclusions("accepted")
  BY DEF Failures, Smtp!Conclusions

-----------------------------------------------------------------------------
(* Types. *)

(* Every step keeps the types. *)
LEMMA TypeStep == Smtp!TypeOK /\ [Smtp!Next]_smtp => Smtp!TypeOK'
  <1> SUFFICES ASSUME Smtp!TypeOK, [Smtp!Next]_smtp PROVE Smtp!TypeOK'
    OBVIOUS
  <1> USE DEF Smtp!TypeOK, Smtp!Stages
  <1>1. \A e, r : Smtp!ReportOf(e, r) \in Smtp!Report /\ Smtp!Classify(r) \in Smtp!Report
    BY ExceptionsReportFailures DEF Failures, Smtp!Report
  <1>2. CASE Smtp!Connect
    BY <1>1, <1>2 DEF Smtp!Connect, Smtp!Conclude, Smtp!Report
  <1>3. CASE Smtp!Ehlo
    BY <1>1, <1>3 DEF Smtp!Ehlo, Smtp!AfterEhlo, Smtp!Refuse, Smtp!Abort, Smtp!Conclude
  <1>4. CASE Smtp!StartTls
    BY <1>4 DEF Smtp!StartTls, Smtp!Refuse, Smtp!Conclude, Smtp!Report
  <1>5. CASE Smtp!Login
    BY <1>1, <1>5 DEF Smtp!Login, Smtp!Abort, Smtp!Conclude
  <1>6. CASE Smtp!Mail
    BY <1>1, <1>6 DEF Smtp!Mail, Smtp!Envelope, Smtp!Advance, Smtp!Abort, Smtp!Conclude, Smtp!Reset
  <1>7. CASE Smtp!Rcpt
    BY <1>1, <1>7 DEF Smtp!Rcpt, Smtp!Envelope, Smtp!Advance, Smtp!Abort, Smtp!Conclude, Smtp!Reset
  <1>8. CASE Smtp!Data
    BY <1>1, <1>8 DEF Smtp!Data, Smtp!Advance, Smtp!Abort, Smtp!Conclude
  <1>9. CASE Smtp!Body
    BY <1>1, <1>9 DEF Smtp!Body, Smtp!Conclude, Smtp!Reset, Smtp!Report
  <1>10. CASE Smtp!Rset
    BY <1>1, <1>10 DEF Smtp!Rset, Smtp!Refuse, Smtp!Conclude
  <1>11. CASE Smtp!Quit
    BY <1>11 DEF Smtp!Quit, Smtp!Advance
  <1>12. CASE UNCHANGED smtp
    BY <1>12 DEF smtp
  <1> QED
    BY <1>2, <1>3, <1>4, <1>5, <1>6, <1>7, <1>8, <1>9, <1>10, <1>11, <1>12 DEF Smtp!Next

(* While the crawls go on nothing of a conversation changes.               *)
LEMMA SmtpSteps ==
    /\ ClientInit => Smtp!Init
    /\ [Deliver \/ Discover]_<<client, vars, smtp>> => [Smtp!Next]_smtp
  BY DEF ClientInit, Deliver, Discover, smtp

(* Every variable of a conversation keeps its type. *)
THEOREM SmtpTypeCorrect == ClientSpec => []Smtp!TypeOK
  <1>1. Smtp!Init => Smtp!TypeOK
    BY DEF Smtp!Init, Smtp!TypeOK, Smtp!Stages, Smtp!Report
  <1> QED
    BY <1>1, SmtpSteps, TypeStep, PTL DEF ClientSpec

-----------------------------------------------------------------------------
(* Reports. *)

(* With replies that fit the limit, every step keeps the reports honest.   *)
LEMMA ReportStep ==
    ASSUME ~OverlongReplies
    PROVE  Smtp!TypeOK /\ ReportInv /\ [Smtp!Next]_smtp => ReportInv'
  <1>0. /\ ~OverlongReplies
        /\ Smtp!Broken = {"lost"}
        /\ \A x : Smtp!Raised("lost", x) = "SMTPServerDisconnected"
    BY DEF Smtp!Broken, Smtp!Raised
  <1> SUFFICES ASSUME Smtp!TypeOK, ReportInv, [Smtp!Next]_smtp PROVE ReportInv'
    OBVIOUS
  <1>v. /\ ~taken => Smtp!Verdict = "refused"
        /\ ~taken' => Smtp!Verdict' = "refused"
        /\ taken' => Smtp!Verdict' = "accepted"
        /\ taken' = taken => Smtp!Verdict' = Smtp!Verdict
    BY DEF Smtp!Verdict
  <1> USE <1>v DEF ReportInv, Smtp!ReportPromised, Before, Handing
  <1>1. \A e, r : Smtp!ReportOf(e, r) \in Smtp!Conclusions("refused") /\ Smtp!Classify(r) \in Smtp!Conclusions("refused")
    BY ExceptionsReportFailures, FailuresPromised
  <1>2. CASE Smtp!Connect
    BY <1>1, <1>2 DEF Smtp!Connect, Smtp!Conclude, Smtp!Conclusions
  <1>3. CASE Smtp!Ehlo
    BY <1>1, <1>3 DEF Smtp!Ehlo, Smtp!AfterEhlo, Smtp!Refuse, Smtp!Abort, Smtp!Conclude
  <1>4. CASE Smtp!StartTls
    BY <1>4 DEF Smtp!StartTls, Smtp!Refuse, Smtp!Conclude, Smtp!Conclusions
  <1>5. CASE Smtp!Login
    BY <1>1, <1>5 DEF Smtp!Login, Smtp!Abort, Smtp!Conclude
  <1>6. CASE Smtp!Mail
    BY <1>1, <1>6 DEF Smtp!Mail, Smtp!Envelope, Smtp!Advance, Smtp!Abort, Smtp!Conclude, Smtp!Reset
  <1>7. CASE Smtp!Rcpt
    BY <1>1, <1>7 DEF Smtp!Rcpt, Smtp!Envelope, Smtp!Advance, Smtp!Abort, Smtp!Conclude, Smtp!Reset
  <1>8. CASE Smtp!Data
    BY <1>1, <1>8 DEF Smtp!Data, Smtp!Advance, Smtp!Abort, Smtp!Conclude
  <1>9. CASE Smtp!Body
    <2>1. sending /\ ~taken /\ stage = "body"
      BY <1>9 DEF Smtp!Body
    <2>2. /\ Smtp!ReportOf("SMTPServerDisconnected", "lost") = "UNKNOWN"
          /\ Smtp!ReportOf("SMTPDataError", "odd") = "UNKNOWN"
      BY <2>1, AmbiguityIsUnknown
    <2>3. PICK takes \in BOOLEAN :
              /\ taken' = takes
              /\ \/ takes /\ Smtp!Conclude("quit", "ACCEPTED")
                 \/ ~takes /\ Smtp!Conclude("quit", Smtp!ReportOf("SMTPDataError", "closing"))
                 \/ \E r \in {"transient", "permanent"} : ~takes /\ Smtp!Reset("SMTPDataError", r)
                 \/ Smtp!Reset("SMTPDataError", "odd")
                 \/ \E r \in Smtp!Broken :
                        Smtp!Conclude("quit", Smtp!ReportOf(Smtp!Raised(r, "SMTPDataError"), r))
      BY <1>9 DEF Smtp!Body
    <2>4. CASE takes /\ Smtp!Conclude("quit", "ACCEPTED")
      BY <2>3, <2>4, FailuresPromised DEF Smtp!Conclude
    <2>5. CASE ~takes /\ Smtp!Conclude("quit", Smtp!ReportOf("SMTPDataError", "closing"))
      BY <1>1, <2>3, <2>5 DEF Smtp!Conclude
    <2>6. CASE \E r \in {"transient", "permanent"} : ~takes /\ Smtp!Reset("SMTPDataError", r)
      BY <1>1, <2>1, <2>3, <2>6 DEF Smtp!Reset
    <2>u. "UNKNOWN" \in Smtp!Conclusions(Smtp!Verdict')
      BY <2>3, FailuresPromised DEF Smtp!Verdict, Failures
    <2>7. CASE Smtp!Reset("SMTPDataError", "odd")
      BY <2>1, <2>2, <2>7, <2>u DEF Smtp!Reset
    <2>8. CASE \E r \in Smtp!Broken : Smtp!Conclude("quit", Smtp!ReportOf(Smtp!Raised(r, "SMTPDataError"), r))
      BY <1>0, <2>1, <2>2, <2>8, <2>u DEF Smtp!Conclude
    <2> QED
      BY <2>3, <2>4, <2>5, <2>6, <2>7, <2>8
  <1>10. CASE Smtp!Rset
    BY <1>0, <1>10 DEF Smtp!Rset, Smtp!Refuse, Smtp!Conclude
  <1>11. CASE Smtp!Quit
    BY <1>11 DEF Smtp!Quit, Smtp!Advance
  <1>12. CASE UNCHANGED smtp
    BY <1>12 DEF smtp
  <1> QED
    BY <1>2, <1>3, <1>4, <1>5, <1>6, <1>7, <1>8, <1>9, <1>10, <1>11, <1>12 DEF Smtp!Next

(* If reply lines fit smtplib's limit, what the client reports agrees with *)
(* what the server did, as EmailDelivery relies on.                        *)
THEOREM ReportsKeepPromise ==
    ASSUME ~OverlongReplies
    PROVE  ClientSpec => []ReportPromised
  <1>1. Smtp!Init => ReportInv
    BY DEF Smtp!Init, ReportInv, Smtp!ReportPromised, Before, Handing
  <1>2. Smtp!TypeOK /\ ReportInv /\ [Smtp!Next]_smtp => ReportInv'
    BY ReportStep
  <1>3. ReportInv => ReportPromised
    BY DEF ReportInv, ReportPromised
  <1> QED
    BY <1>1, <1>2, <1>3, SmtpSteps, SmtpTypeCorrect, PTL DEF ClientSpec

-----------------------------------------------------------------------------
(* Encryption. *)

(* Every step keeps the encryption in place.                               *)
LEMMA TlsStep == Smtp!TypeOK /\ TlsInv /\ [Smtp!Next]_smtp => TlsInv'
  <1> SUFFICES ASSUME Smtp!TypeOK, TlsInv, [Smtp!Next]_smtp PROVE TlsInv'
    OBVIOUS
  <1> USE DEF TlsInv, Smtp!OnlyOverTls, Smtp!TypeOK, Smtp!Config, Smtp!SecurityMode
  <1>1. CASE Smtp!Connect
    BY <1>1 DEF Smtp!Connect, Smtp!Conclude
  <1>2. CASE Smtp!Ehlo
    <2>1. config.login => config.mode # "PLAINTEXT_LOCAL_TEST_ONLY"
      OBVIOUS
    <2>2. CASE /\ stage' = Smtp!AfterEhlo(stage)
               /\ UNCHANGED <<config, secured>>
      <3>1. CASE stage = "ehlo" /\ config.mode = "STARTTLS"
        BY <2>2, <3>1 DEF Smtp!AfterEhlo
      <3>2. CASE stage = "ehlo" /\ config.mode # "STARTTLS"
        <4>1. secured \/ config.mode = "PLAINTEXT_LOCAL_TEST_ONLY"
          BY <3>2
        <4>2. stage' \in {"login", "mail"}
          BY <2>2, <3>2 DEF Smtp!AfterEhlo
        <4> QED
          BY <2>2, <4>1, <4>2
      <3>3. CASE stage = "ehlo_tls"
        <4>1. stage' \in {"login", "mail"}
          BY <2>2, <3>3 DEF Smtp!AfterEhlo
        <4> QED
          BY <2>2, <3>3, <4>1
      <3> QED
        BY <1>2, <3>1, <3>2, <3>3 DEF Smtp!Ehlo
    <2>3. CASE stage' = "quit" /\ UNCHANGED <<config, secured>>
      BY <2>3
    <2> QED
      BY <1>2, <2>2, <2>3 DEF Smtp!Ehlo, Smtp!Refuse, Smtp!Abort, Smtp!Conclude
  <1>3. CASE Smtp!StartTls
    BY <1>3 DEF Smtp!StartTls, Smtp!Refuse, Smtp!Conclude
  <1>4. CASE Smtp!Login
    BY <1>4 DEF Smtp!Login, Smtp!Abort, Smtp!Conclude
  <1>5. CASE Smtp!Mail \/ Smtp!Rcpt \/ Smtp!Data \/ Smtp!Body
    BY <1>5 DEF Smtp!Mail, Smtp!Rcpt, Smtp!Envelope, Smtp!Data, Smtp!Body, Smtp!Advance, Smtp!Abort, Smtp!Conclude, Smtp!Reset
  <1>6. CASE Smtp!Rset \/ Smtp!Quit \/ UNCHANGED smtp
    BY <1>6 DEF Smtp!Rset, Smtp!Quit, smtp, Smtp!Refuse, Smtp!Advance, Smtp!Abort, Smtp!Conclude
  <1> QED
    BY <1>1, <1>2, <1>3, <1>4, <1>5, <1>6 DEF Smtp!Next

(* Neither credentials nor a message go over a connection that was to be   *)
(* encrypted and is not, however long the replies.                         *)
THEOREM EncryptedOrLocal == ClientSpec => []OnlyOverTls
  <1>1. Smtp!Init => TlsInv
    BY DEF Smtp!Init, TlsInv, Smtp!OnlyOverTls, Smtp!Config
  <1>2. TlsInv => OnlyOverTls
    BY DEF TlsInv, OnlyOverTls
  <1> QED
    BY <1>1, <1>2, SmtpSteps, TlsStep, SmtpTypeCorrect, PTL DEF ClientSpec

-----------------------------------------------------------------------------
(* The crawls of websites. *)

CrawlFields == {"kind", "searches", "stage", "home", "todo", "left", "seen", "queries",
                "attempted", "successful", "found", "errors", "sources"}

(* A search that may still ask has not been answered.                      *)
SearchInv ==
    /\ DOMAIN search = {"stage", "remaining", "retriable", "answers"}
    /\ search.stage \in {"idle", "call", "sleep"} => search.answers = 0
    /\ OneAnswer

(* Nothing is taken from a website before its homepage, or the root of its *)
(* host, is known.                                                         *)
SiteInv ==
    /\ DOMAIN crawl = CrawlFields
    /\ crawl.stage \in {"home", "root"} => crawl.sources = {}
    /\ OneSite

LEMMA SearchKeeps == SearchInv /\ [Next]_vars => SearchInv'
  <1> SUFFICES ASSUME SearchInv, [Next]_vars PROVE SearchInv'
    OBVIOUS
  <1> USE DEF SearchInv, OneAnswer
  <1>1. CASE UNCHANGED search
    BY <1>1
  <1>2. CASE Call
    <2>1. CASE Answered
      <3>1. search.answers = 0
        BY <1>2 DEF Call
      <3>2. PICK at \in {"results", "failed"} :
                search' = [[search EXCEPT !.remaining = @ - 1] EXCEPT !.stage = at, !.answers = @ + 1]
        BY <2>1 DEF Answered, Spent
      <3>3. /\ DOMAIN search' = DOMAIN search
            /\ search'.stage = at /\ search'.answers = search.answers + 1
        BY <3>2
      <3> QED
        BY <3>1, <3>3
    <2>2. CASE TransportFailed
      <3>1. PICK at \in {"sleep", "failed"} :
                search' = [[search EXCEPT !.remaining = @ - 1] EXCEPT !.stage = at]
        BY <2>2 DEF TransportFailed, Spent
      <3>2. DOMAIN search' = DOMAIN search /\ search'.stage = at /\ search'.answers = search.answers
        BY <3>1
      <3> QED
        BY <1>2, <3>2 DEF Call
    <2>3. CASE search' = [search EXCEPT !.stage = "failed"]
      BY <2>3
    <2> QED
      BY <1>2, <2>1, <2>2, <2>3 DEF Call
  <1>3. CASE Sleep
    BY <1>3 DEF Sleep
  <1>4. CASE search' = NewSearch \/ search' = NoSearch
    <2>1. /\ search'.answers = 0 /\ search'.stage \in {"idle", "call"}
          /\ DOMAIN search' = {"stage", "remaining", "retriable", "answers"}
      <3>1. /\ DOMAIN NoSearch = {"stage", "remaining", "retriable", "answers"}
            /\ NoSearch.stage = "idle" /\ NoSearch.answers = 0
        BY DEF NoSearch
      <3>2. /\ DOMAIN NewSearch = DOMAIN NoSearch
            /\ NewSearch.stage = "call" /\ NewSearch.answers = NoSearch.answers
        BY <3>1 DEF NewSearch
      <3> QED
        BY <1>4, <3>1, <3>2
    <2> QED
      BY <2>1
  <1>5. CrawlStep => UNCHANGED search \/ search' = NewSearch \/ search' = NoSearch
    BY DEF CrawlStep, Home, Links, Pages, Page, Fallback, Query, Asked, Results, Result, Continue, Open
  <1> QED
    BY <1>1, <1>2, <1>3, <1>4, <1>5 DEF Next, SearchStep, vars

(* A page that is parsed leaves a record like before, elsewhere, with      *)
(* nothing more than the host of the page among its sources.               *)
LEMMA ParsedCrawls ==
    ASSUME DOMAIN crawl = CrawlFields, NEW at, NEW next \in Parsed(at)
    PROVE  /\ DOMAIN next = CrawlFields
           /\ next.stage = at
           /\ next.home = crawl.home
           /\ next.sources \in {crawl.sources, crawl.sources \union {fetch.url.host}}
  BY DEF CrawlFields, Parsed, Error

(* A step that leaves the home and the sources, or takes them from a page  *)
(* of the site, keeps the invariant.                                       *)
LEMMA SourcesKept ==
    ASSUME SiteInv, DOMAIN crawl' = CrawlFields,
           crawl'.stage \notin {"home", "root"} \/ crawl'.sources = {},
           crawl'.home = crawl.home,
           \/ crawl'.sources = crawl.sources
           \/ /\ crawl'.sources \in {crawl.sources, crawl.sources \union {fetch.url.host}}
              /\ SiteOf[fetch.url.host] = SiteOf[crawl.home.host]
    PROVE  SiteInv'
  BY DEF SiteInv, OneSite

LEMMA CrawlKeeps == SiteInv /\ CrawlStep => SiteInv'
  <1> SUFFICES ASSUME SiteInv, CrawlStep PROVE SiteInv'
    OBVIOUS
  <1>d. DOMAIN crawl = CrawlFields
    BY DEF SiteInv
  <1>1. CASE Home
    <2>1. CASE \E next \in Parsed("links") : Continue([next EXCEPT !.home = fetch.url])
      <3>1. PICK next \in Parsed("links") : Continue([next EXCEPT !.home = fetch.url])
        BY <2>1
      <3>2. /\ DOMAIN next = CrawlFields /\ next.stage = "links"
            /\ next.sources \in {crawl.sources, crawl.sources \union {fetch.url.host}}
        BY <1>d, ParsedCrawls
      <3>3. crawl.sources = {}
        BY <1>1 DEF Home, SiteInv
      <3>4. /\ DOMAIN crawl' = CrawlFields /\ crawl'.stage = "links"
            /\ crawl'.home = fetch.url /\ crawl'.sources \subseteq {fetch.url.host}
        BY <3>1, <3>2, <3>3 DEF Continue, CrawlFields
      <3> QED
        BY <3>4 DEF SiteInv, OneSite
    <2>2. CASE Open([crawl EXCEPT !.stage = "root"], [crawl.home EXCEPT !.path = "root"], NoHost)
      <3>1. /\ DOMAIN crawl' = CrawlFields /\ crawl'.home = crawl.home
            /\ crawl'.sources = crawl.sources
        BY <1>d, <2>2 DEF Open, CrawlFields
      <3>2. crawl.sources = {}
        BY <1>1 DEF Home, SiteInv
      <3> QED
        BY <3>1, <3>2, SourcesKept
    <2>3. CASE Continue(Error(IF crawl.kind = "contacts" THEN "fallback" ELSE "done"))
      <3>1. /\ DOMAIN crawl' = CrawlFields /\ crawl'.home = crawl.home
            /\ crawl'.sources = crawl.sources /\ crawl'.stage \in {"fallback", "done"}
        BY <1>d, <2>3 DEF Continue, Error, CrawlFields
      <3> QED
        BY <3>1, SourcesKept
    <2> QED
      BY <1>1, <2>1, <2>2, <2>3 DEF Home
  <1>2. CASE Links \/ Pages \/ Fallback \/ Query \/ Asked \/ Results
    <2>1. DOMAIN crawl' = CrawlFields /\ crawl'.home = crawl.home /\ crawl'.sources = crawl.sources
      BY <1>d, <1>2 DEF Links, Pages, Fallback, Query, Asked, Results, Continue, Open, Error, CrawlFields
    <2>2. crawl'.stage \notin {"home", "root"}
      BY <1>d, <1>2 DEF Links, Pages, Fallback, Query, Asked, Results, Continue, Open, Error, CrawlFields
    <2> QED
      BY <2>1, <2>2, SourcesKept
  <1>3. CASE Page \/ Result
    <2>1. CASE \E at \in {"pages", "results"} : \E next \in Parsed(at) :
                  Continue(next) /\ SiteOf[fetch.url.host] = SiteOf[crawl.home.host]
      BY <1>d, <2>1, ParsedCrawls, SourcesKept DEF Continue
    <2>2. CASE Continue(Error("pages")) \/ Continue([crawl EXCEPT !.stage = "results"])
      <3>1. /\ DOMAIN crawl' = CrawlFields /\ crawl'.home = crawl.home
            /\ crawl'.sources = crawl.sources /\ crawl'.stage \in {"pages", "results"}
        BY <1>d, <2>2 DEF Continue, Error, CrawlFields
      <3> QED
        BY <3>1, SourcesKept
    <2> QED
      BY <1>3, <2>1, <2>2 DEF Page, Result, SameSite
  <1> QED
    BY <1>1, <1>2, <1>3 DEF CrawlStep

LEMMA SiteKeeps == SiteInv /\ [Next]_vars => SiteInv'
  <1>1. SiteInv /\ UNCHANGED crawl => SiteInv'
    BY DEF SiteInv, OneSite
  <1> QED
    BY <1>1, CrawlKeeps DEF Next, vars

(* While a message is delivered nothing of a crawl changes.                *)
LEMMA WebSteps ==
    /\ ClientInit => SearchInv /\ SiteInv
    /\ [Deliver \/ Discover]_<<client, vars, smtp>> => [Next]_vars
  <1>1. ClientInit => SearchInv
    BY DEF ClientInit, Init, SearchInv, OneAnswer, NoSearch
  <1>2. ClientInit => SiteInv
    BY DEF ClientInit, Init, SiteInv, OneSite, CrawlFields
  <1> QED
    BY <1>1, <1>2 DEF Deliver, Discover

(* Once an answer of the provider has been read, whatever it says, the     *)
(* same search is not sent, and paid for, again.                           *)
THEOREM SearchAnsweredOnce == ClientSpec => []OneAnswer
  <1>1. SearchInv => OneAnswer
    BY DEF SearchInv
  <1> QED
    BY <1>1, WebSteps, SearchKeeps, PTL DEF ClientSpec

(* Whatever links, search results and redirects point to, on any number of *)
(* hosts, a result holds nothing from outside the homepage's own site.     *)
THEOREM ResultOfOneSite == ClientSpec => []OneSite
  <1>1. SiteInv => OneSite
    BY DEF SiteInv
  <1> QED
    BY <1>1, WebSteps, SiteKeeps, PTL DEF ClientSpec

-----------------------------------------------------------------------------
(* How many connections a fetch makes, and how many pages a crawl. *)

(* Before a hop is resolved the addresses of the hops before it may all    *)
(* have been tried; from then on those that are left count as well.        *)
FetchInv ==
    /\ fetch \in Fetch
    /\ fetch.stage = "resolve" => fetch.asked <= fetch.redirects * MaxAddresses
    /\ fetch.stage = "connect" =>
           fetch.left >= 1 /\ fetch.asked + fetch.left <= (fetch.redirects + 1) * MaxAddresses
    /\ ConnectionsBounded

(* Fewer hops have fewer addresses.                                        *)
LEMMA Hops ==
  ASSUME NEW a \in Nat, NEW b \in Nat, a <= b
  PROVE  /\ a * MaxAddresses \in Nat /\ b * MaxAddresses \in Nat
         /\ a * MaxAddresses <= b * MaxAddresses
         /\ (a + 1) * MaxAddresses = a * MaxAddresses + MaxAddresses
  <1>1. MaxAddresses \in Nat
    BY BoundAssumption
  <1>2. PICK d \in Nat : b = a + d
    OBVIOUS
  <1>3. b * MaxAddresses = a * MaxAddresses + d * MaxAddresses
    BY <1>1, <1>2
  <1>4. a * MaxAddresses \in Nat /\ d * MaxAddresses \in Nat
    BY <1>1
  <1>5. (a + 1) * MaxAddresses = a * MaxAddresses + MaxAddresses
    BY <1>1
  <1> QED
    BY <1>1, <1>3, <1>4, <1>5

(* A fetch that starts or is over with nothing asked.                      *)
LEMMA FetchStarts ==
  ASSUME NEW url \in Urls, NEW allowed \in Hosts \union {NoHost},
         fetch' \in {FetchOf(url, allowed), Idle(url)}
  PROVE  FetchInv'
  <1>1. /\ fetch' \in Fetch /\ fetch'.stage \in {"resolve", "idle"}
        /\ fetch'.asked = 0 /\ fetch'.redirects = 0
    BY BoundAssumption DEF FetchOf, Idle, Fetch
  <1>2. 0 * MaxAddresses = 0 /\ 0 <= (MaxRedirects + 1) * MaxAddresses
    BY BoundAssumption, Hops
  <1> QED
    BY <1>1, <1>2 DEF FetchInv, ConnectionsBounded

LEMMA FetchKeeps == FetchInv /\ FetchStep => FetchInv'
  <1> SUFFICES ASSUME FetchInv, FetchStep PROVE FetchInv'
    OBVIOUS
  <1>t. /\ fetch \in Fetch /\ fetch.url \in Urls /\ fetch.visited \in SUBSET Urls
        /\ MaxAddresses \in Nat \ {0} /\ MaxRedirects \in Nat
    BY BoundAssumption DEF FetchInv, Fetch
  <1>1. PICK a \in Nat, r \in 0..MaxRedirects, l \in 0..MaxAddresses :
            a = fetch.asked /\ r = fetch.redirects /\ l = fetch.left
    BY <1>t DEF Fetch
  <1>2. /\ r * MaxAddresses \in Nat /\ (MaxRedirects + 1) * MaxAddresses \in Nat
        /\ (r + 1) * MaxAddresses = r * MaxAddresses + MaxAddresses
        /\ (r + 1) * MaxAddresses <= (MaxRedirects + 1) * MaxAddresses
    <2>1. r \in Nat /\ r + 1 \in Nat /\ MaxRedirects + 1 \in Nat /\ r <= r + 1
          /\ r + 1 <= MaxRedirects + 1
      BY <1>t, <1>1
    <2> QED
      BY <2>1, Hops
  <1>3. PICK rm \in Nat, rn \in Nat, mm \in Nat :
            /\ rm = r * MaxAddresses /\ rn = (r + 1) * MaxAddresses
            /\ mm = (MaxRedirects + 1) * MaxAddresses
            /\ rn = rm + MaxAddresses /\ rn <= mm
    BY <1>t, <1>1, <1>2
  <1>4. /\ fetch.stage = "resolve" => a <= rm
        /\ fetch.stage = "connect" => l >= 1 /\ a + l <= rn
        /\ a <= mm
    BY Zenon, <1>1, <1>3 DEF FetchInv, ConnectionsBounded
  <1>5. ASSUME NEW at \in {"page", "error"}, NEW n \in Nat, End(at, n), n <= mm
        PROVE  FetchInv'
    <2>1. fetch' = [stage |-> at, url |-> fetch.url, allowed |-> NoHost, visited |-> {},
                    redirects |-> 0, left |-> 0, asked |-> n]
      BY <1>5 DEF End, Idle, FetchOf
    <2>2. 0 \in 0..MaxRedirects /\ 0 \in 0..MaxAddresses
      BY <1>t
    <2>3. fetch' \in Fetch /\ fetch'.stage = at /\ fetch'.asked = n
      BY <1>t, <2>1, <2>2 DEF Fetch
    <2> QED
      BY <1>3, <1>5, <2>3 DEF FetchInv, ConnectionsBounded
  <1>6. CASE Resolve
    <2>1. CASE End("error", fetch.asked)
      <3>1. End("error", a)
        BY Zenon, <1>1, <2>1
      <3> QED
        BY Zenon, <1>4, <1>5, <3>1
    <2>2. CASE \E n \in 1..MaxAddresses :
                   fetch' = [fetch EXCEPT !.stage = "connect", !.left = n,
                                          !.visited = @ \union {fetch.url}]
      <3>1. PICK n \in 1..MaxAddresses :
                fetch' = [fetch EXCEPT !.stage = "connect", !.left = n,
                                       !.visited = @ \union {fetch.url}]
        BY <2>2
      <3>r. fetch.stage = "resolve"
        BY <1>6 DEF Resolve
      <3>n. n \in 0..MaxAddresses /\ n \in Nat /\ n >= 1 /\ n <= MaxAddresses
        BY <1>t
      <3>2. /\ fetch' \in Fetch /\ fetch'.stage = "connect" /\ fetch'.left = n
            /\ fetch'.asked = a /\ fetch'.redirects = r
        BY <1>t, <1>1, <3>1, <3>n DEF Fetch
      <3>4. a <= rm
        BY Zenon, <1>4, <3>r
      <3>3. n >= 1 /\ a + n <= rn /\ a <= mm
        BY <1>t, <1>3, <3>4, <3>n
      <3> QED
        BY Zenon, <1>3, <3>2, <3>3 DEF FetchInv, ConnectionsBounded
    <2> QED
      BY <1>6, <2>1, <2>2 DEF Resolve
  <1>7. CASE Connect
    <2>0. l >= 1 /\ a + l <= rn /\ a + 1 <= mm /\ a + 1 \in Nat
      BY <1>3, <1>4, <1>7 DEF Connect
    <2>1. CASE NextAddress
      <3>1. CASE l > 1
        <4>1. fetch' = [fetch EXCEPT !.left = l - 1, !.asked = a + 1]
          BY <1>1, <2>1, <3>1 DEF NextAddress
        <4>2. l - 1 \in 0..MaxAddresses
          BY <1>t, <3>1
        <4>3. PICK k \in 0..MaxAddresses, b \in Nat : k = l - 1 /\ b = a + 1
          BY <2>0, <4>2
        <4>4. fetch' = [fetch EXCEPT !.left = k, !.asked = b]
          BY Zenon, <4>1, <4>3
        <4>5. /\ fetch' \in Fetch /\ fetch'.stage = fetch.stage /\ fetch'.left = k
              /\ fetch'.asked = b /\ fetch'.redirects = r
          BY <1>t, <1>1, <4>4 DEF Fetch
        <4>6. k >= 1 /\ b + k <= rn /\ b <= mm
          BY <1>1, <2>0, <3>1, <4>3
        <4>7. fetch.stage = "connect"
          BY <1>7 DEF Connect
        <4> QED
          BY Zenon, <1>3, <4>5, <4>6, <4>7 DEF FetchInv, ConnectionsBounded
      <3>2. CASE ~(l > 1)
        <4>1. End("error", a + 1)
          BY <1>1, <2>1, <3>2 DEF NextAddress
        <4> QED
          BY Zenon, <1>5, <2>0, <4>1
      <3> QED
        BY <3>1, <3>2
    <2>2. CASE \E at \in {"error", "page"} : End(at, fetch.asked + 1)
      <3>1. PICK at \in {"error", "page"} : End(at, a + 1)
        BY Zenon, <1>1, <2>2
      <3>2. at \in {"page", "error"}
        BY <3>1
      <3> QED
        BY Zenon, <1>5, <2>0, <3>1, <3>2
    <2>3. CASE \E url \in Urls : fetch.redirects < MaxRedirects /\ Follow(url)
      <3>1. PICK url \in Urls : fetch.redirects < MaxRedirects /\ Follow(url)
        BY <2>3
      <3>0. r < MaxRedirects
        BY Zenon, <1>1, <3>1
      <3>2. r + 1 \in 0..MaxRedirects /\ a + 1 <= rn
        BY <1>t, <2>0, <3>0
      <3>3. PICK q \in 0..MaxRedirects, b \in Nat : q = r + 1 /\ b = a + 1
        BY <2>0, <3>2
      <3>4. fetch' = [fetch EXCEPT !.stage = "resolve", !.url = url, !.left = 0,
                                   !.asked = b, !.redirects = q]
        BY <1>1, <3>1, <3>3 DEF Follow
      <3>l. 0 \in 0..MaxAddresses
        BY <1>t
      <3>5. /\ fetch' \in Fetch /\ fetch'.stage = "resolve"
            /\ fetch'.asked = b /\ fetch'.redirects = q
        BY <1>t, <3>4, <3>l DEF Fetch
      <3>6. q * MaxAddresses = rn /\ b <= rn /\ b <= mm
        BY <1>3, <2>0, <3>2, <3>3
      <3> QED
        BY Zenon, <1>3, <3>5, <3>6 DEF FetchInv, ConnectionsBounded
    <2> QED
      BY <1>7, <2>1, <2>2, <2>3 DEF Connect
  <1> QED
    BY <1>6, <1>7 DEF FetchStep

(* A search with its budget.                                               *)
LEMMA SearchTyped == SearchInv /\ search \in Search /\ [Next]_vars => search' \in Search
  <1> SUFFICES ASSUME SearchInv, search \in Search, [Next]_vars PROVE search' \in Search
    OBVIOUS
  <1>1. CASE UNCHANGED search
    BY <1>1
  <1>2. CASE Call
    <2>0. search.answers = 0 /\ search.stage = "call"
      BY <1>2 DEF Call, SearchInv
    <2>1. PICK r \in 0..MaxHttpAttempts : r = search.remaining
      BY DEF Search
    <2>2. CASE search' = [search EXCEPT !.stage = "failed"]
      BY <2>2 DEF Search
    <2>3. CASE r # 0 /\ Answered
      <3>1. PICK at \in {"results", "failed"} :
                search' = [[search EXCEPT !.remaining = @ - 1] EXCEPT !.stage = at, !.answers = @ + 1]
        BY <2>3 DEF Answered, Spent
      <3>2. PICK k \in 0..MaxHttpAttempts, n \in 0..MaxHttpAttempts : k = r - 1 /\ n = 0 + 1
        BY <2>1, <2>3 DEF MaxHttpAttempts
      <3>3. search' = [search EXCEPT !.remaining = k, !.stage = at, !.answers = n]
        BY <2>0, <2>1, <3>1, <3>2 DEF Search
      <3> QED
        BY <3>1, <3>3 DEF Search
    <2>4. CASE r # 0 /\ TransportFailed
      <3>1. PICK at \in {"sleep", "failed"} :
                search' = [[search EXCEPT !.remaining = @ - 1] EXCEPT !.stage = at]
        BY <2>4 DEF TransportFailed, Spent
      <3>2. PICK k \in 0..MaxHttpAttempts : k = r - 1
        BY <2>1, <2>4 DEF MaxHttpAttempts
      <3>3. search' = [search EXCEPT !.remaining = k, !.stage = at]
        BY <2>1, <3>1, <3>2 DEF Search
      <3> QED
        BY <3>1, <3>3 DEF Search
    <2> QED
      BY <1>2, <2>1, <2>2, <2>3, <2>4 DEF Call
  <1>3. CASE Sleep
    <2>1. PICK at \in {"failed", "call"} :
              search' = [search EXCEPT !.stage = at, !.retriable = FALSE]
      BY <1>3 DEF Sleep
    <2> QED
      BY <2>1 DEF Search
  <1>4. CASE search' = NewSearch \/ search' = NoSearch
    <2>1. NoSearch \in Search
      BY DEF NoSearch, Search, MaxHttpAttempts
    <2>2. MaxHttpAttempts \in 0..MaxHttpAttempts
      BY DEF MaxHttpAttempts
    <2>3. NewSearch \in Search
      BY <2>1, <2>2 DEF NewSearch, Search
    <2> QED
      BY <1>4, <2>1, <2>3
  <1>5. CrawlStep => UNCHANGED search \/ search' = NewSearch \/ search' = NoSearch
    BY DEF CrawlStep, Home, Links, Pages, Page, Fallback, Query, Asked, Results, Result, Continue, Open
  <1> QED
    BY <1>1, <1>2, <1>3, <1>4, <1>5 DEF Next, SearchStep, vars

Searching == {"fallback", "query", "asked", "results", "result"}

(* What was attempted so far, with the links that are still to be followed *)
(* and the search results that were, stays within the budgets.             *)
BudgetInv ==
    /\ IsFiniteSet(crawl.seen) /\ Cardinality(crawl.seen) <= MaxSearchPages
    /\ IsFiniteSet(crawl.todo)
    /\ crawl.stage = "home" => crawl.attempted = 1
    /\ crawl.stage \in {"root", "links"} => crawl.attempted <= 2
    /\ crawl.stage \in {"pages", "page"} =>
           crawl.attempted + Cardinality(crawl.todo) <= 2 + MaxSecondaryPages
    /\ crawl.stage \in Searching =>
           crawl.attempted <= 2 + MaxSecondaryPages + Cardinality(crawl.seen)

(* A page under way is attempted and not yet successful; once the homepage *)
(* is over there is a success or an error to show for it.                  *)
CountsInv ==
    /\ crawl.stage \in {"home", "root", "page", "result"} => crawl.successful + 1 <= crawl.attempted
    /\ crawl.successful <= crawl.attempted
    /\ crawl.found => crawl.successful > 0
    /\ crawl.stage \notin {"home", "root"} => crawl.successful > 0 \/ crawl.errors

CrawlInv == crawl \in Crawl /\ BudgetInv /\ CountsInv

(* What a crawl's counts may be is all there is to its invariant.          *)
LEMMA CrawlBy ==
  ASSUME crawl' \in Crawl, NEW at, NEW a \in Nat, NEW s \in Nat, NEW n \in Nat, NEW t \in Nat,
         crawl'.stage = at, crawl'.attempted = a, crawl'.successful = s,
         IsFiniteSet(crawl'.seen), Cardinality(crawl'.seen) = n, n <= MaxSearchPages,
         IsFiniteSet(crawl'.todo), Cardinality(crawl'.todo) = t,
         at # "home",
         at \in {"root", "links"} => a <= 2,
         at \in {"pages", "page"} => a + t <= 2 + MaxSecondaryPages,
         at \in Searching => a <= 2 + MaxSecondaryPages + n,
         at \in {"root", "page", "result"} => s + 1 <= a,
         s <= a,
         crawl'.found => s > 0,
         at # "root" => s > 0 \/ crawl'.errors
  PROVE  CrawlInv'
  <1>1. BudgetInv'
    BY Zenon DEF BudgetInv
  <1>2. at \in {"home", "root", "page", "result"} => s + 1 <= a
    OBVIOUS
  <1>3. at \notin {"home", "root"} => s > 0 \/ crawl'.errors
    BY Zenon
  <1>4. CountsInv'
    BY Zenon, <1>2, <1>3 DEF CountsInv
  <1> QED
    BY Zenon, <1>1, <1>4 DEF CrawlInv

(* The counts of a crawl.                                                  *)
LEMMA CrawlCounts ==
  ASSUME CrawlInv
  PROVE  \E a, s \in 0..MaxAttempts, n, t \in Nat :
             /\ crawl.attempted = a /\ crawl.successful = s
             /\ Cardinality(crawl.seen) = n /\ Cardinality(crawl.todo) = t
             /\ s <= a /\ n <= MaxSearchPages
             /\ crawl.found => s > 0
             /\ crawl.stage \notin {"home", "root"} => s > 0 \/ crawl.errors
             /\ crawl.stage \in {"home", "root", "page", "result"} => s + 1 <= a
             /\ crawl.stage = "home" => a = 1
             /\ crawl.stage \in {"root", "links"} => a <= 2
             /\ crawl.stage \in {"pages", "page"} => a + t <= 2 + MaxSecondaryPages
             /\ crawl.stage \in Searching => a <= 2 + MaxSecondaryPages + n
  <1>1. PICK a \in 0..MaxAttempts, s \in 0..MaxAttempts : crawl.attempted = a /\ crawl.successful = s
    BY DEF CrawlInv, Crawl
  <1>2. PICK n \in Nat, t \in Nat : Cardinality(crawl.seen) = n /\ Cardinality(crawl.todo) = t
    BY FS_CardinalityType DEF CrawlInv, BudgetInv
  <1>3. /\ s <= a /\ n <= MaxSearchPages
        /\ crawl.found => s > 0
        /\ crawl.stage \notin {"home", "root"} => s > 0 \/ crawl.errors
        /\ crawl.stage \in {"home", "root", "page", "result"} => s + 1 <= a
        /\ crawl.stage = "home" => a = 1
        /\ crawl.stage \in {"root", "links"} => a <= 2
        /\ crawl.stage \in {"pages", "page"} => a + t <= 2 + MaxSecondaryPages
        /\ crawl.stage \in Searching => a <= 2 + MaxSecondaryPages + n
    BY Zenon, <1>1, <1>2 DEF CrawlInv, BudgetInv, CountsInv
  <1> QED
    BY Zenon, <1>1, <1>2, <1>3

CrawlStages == {"home", "root", "links", "pages", "page", "fallback", "query", "asked",
           "results", "result", "done"}

(* A page that is parsed is a success or an error.                         *)
LEMMA ParsedTyped ==
  ASSUME CrawlInv, FetchInv, crawl.stage \in {"home", "root", "page", "result"},
         NEW at \in CrawlStages, NEW next \in Parsed(at)
  PROVE  /\ next \in Crawl /\ next.stage = at
         /\ next.seen = crawl.seen /\ next.todo = crawl.todo
         /\ next.attempted = crawl.attempted
         /\ \E k \in Nat : /\ next.successful = k /\ k <= crawl.attempted
                           /\ next.found => k > 0
                           /\ k > 0 \/ next.errors
  <1>1. PICK a \in 0..MaxAttempts, s \in 0..MaxAttempts :
            /\ crawl.attempted = a /\ crawl.successful = s
            /\ s <= a /\ s + 1 <= a
            /\ crawl.found => s > 0
    BY Zenon, CrawlCounts
  <1>2. crawl \in Crawl /\ fetch.url.host \in Hosts /\ crawl.sources \in SUBSET Hosts
    BY DEF CrawlInv, Crawl, FetchInv, Fetch, Urls
  <1>3. s + 1 \in 0..MaxAttempts /\ s \in Nat /\ s + 1 > 0
    BY <1>1 DEF MaxAttempts, MaxSecondaryPages, MaxSearchPages
  <1>4. PICK k \in 0..MaxAttempts : k = s + 1
    BY <1>3
  <1>5. CASE next = Error(at)
    <2>1. next = [crawl EXCEPT !.stage = at, !.errors = TRUE]
      BY <1>5 DEF Error
    <2>2. /\ next \in Crawl /\ next.stage = at /\ next.seen = crawl.seen /\ next.todo = crawl.todo
          /\ next.attempted = crawl.attempted /\ next.successful = s /\ next.errors
          /\ next.found = crawl.found
      BY <1>1, <1>2, <2>1 DEF Crawl, CrawlStages
    <2> QED
      BY Zenon, <1>1, <1>3, <2>2
  <1>6. ASSUME NEW found \in BOOLEAN, NEW sources \in SUBSET Hosts,
               next = [crawl EXCEPT !.stage = at, !.successful = k, !.found = found,
                                    !.sources = sources]
        PROVE  /\ next \in Crawl /\ next.stage = at /\ next.seen = crawl.seen
               /\ next.todo = crawl.todo
               /\ next.attempted = crawl.attempted /\ next.successful = k
    BY <1>2, <1>6 DEF Crawl, CrawlStages
  <1>7. CASE next = [crawl EXCEPT !.stage = at, !.successful = @ + 1]
    <2>1. next = [crawl EXCEPT !.stage = at, !.successful = k, !.found = crawl.found,
                               !.sources = crawl.sources]
      BY <1>1, <1>2, <1>4, <1>7 DEF Crawl
    <2>2. crawl.found \in BOOLEAN
      BY <1>2 DEF Crawl
    <2>3. /\ next \in Crawl /\ next.stage = at /\ next.seen = crawl.seen
          /\ next.todo = crawl.todo
          /\ next.attempted = crawl.attempted /\ next.successful = k
      BY Zenon, <1>2, <1>6, <2>1, <2>2
    <2>4. k \in Nat /\ k <= a /\ k > 0
      BY <1>1, <1>4
    <2> QED
      BY Zenon, <1>1, <2>3, <2>4
  <1>8. CASE next = [crawl EXCEPT !.stage = at, !.successful = @ + 1, !.found = TRUE,
                                  !.sources = @ \union {fetch.url.host}]
    <2>1. next = [crawl EXCEPT !.stage = at, !.successful = k, !.found = TRUE,
                               !.sources = crawl.sources \union {fetch.url.host}]
      BY <1>1, <1>2, <1>4, <1>8 DEF Crawl
    <2>2. crawl.sources \union {fetch.url.host} \in SUBSET Hosts
      BY <1>2
    <2>3. /\ next \in Crawl /\ next.stage = at /\ next.seen = crawl.seen
          /\ next.todo = crawl.todo
          /\ next.attempted = crawl.attempted /\ next.successful = k
      BY Zenon, <1>6, <2>1, <2>2
    <2>4. k \in Nat /\ k <= a /\ k > 0
      BY <1>1, <1>4
    <2> QED
      BY Zenon, <1>1, <2>3, <2>4
  <1> QED
    BY <1>5, <1>7, <1>8 DEF Parsed

(* The stages in which no page is under way.                               *)
Between == {"links", "pages", "fallback", "query", "asked", "results", "done"}

(* After so many attempts a stage may be entered with so many links left   *)
(* and so many search results seen.                                        *)
Room(at, attempts, links, seen) ==
    /\ at = "links" => attempts <= 2
    /\ at = "pages" => attempts + links <= 2 + MaxSecondaryPages
    /\ at \in Searching => attempts <= 2 + MaxSecondaryPages + seen

(* Every step of a crawl stays within its budgets.                         *)
LEMMA CrawlStays ==
  ASSUME CrawlInv, FetchInv, CrawlStep
  PROVE  CrawlInv'
  <1>c. /\ crawl \in Crawl /\ crawl.home \in Urls /\ crawl.home.host \in Hosts
        /\ crawl.todo \in SUBSET Urls /\ crawl.seen \in SUBSET Urls
        /\ fetch.url \in Urls /\ IsFiniteSet(crawl.seen) /\ IsFiniteSet(crawl.todo)
    BY DEF CrawlInv, BudgetInv, Crawl, FetchInv, Fetch, Urls
  <1>1. PICK a \in 0..MaxAttempts, s \in 0..MaxAttempts, n \in Nat, t \in Nat :
             /\ crawl.attempted = a /\ crawl.successful = s
             /\ Cardinality(crawl.seen) = n /\ Cardinality(crawl.todo) = t
             /\ s <= a /\ n <= MaxSearchPages
             /\ crawl.found => s > 0
             /\ crawl.stage \notin {"home", "root"} => s > 0 \/ crawl.errors
             /\ crawl.stage \in {"home", "root", "page", "result"} => s + 1 <= a
             /\ crawl.stage = "home" => a = 1
             /\ crawl.stage \in {"root", "links"} => a <= 2
             /\ crawl.stage \in {"pages", "page"} => a + t <= 2 + MaxSecondaryPages
             /\ crawl.stage \in Searching => a <= 2 + MaxSecondaryPages + n
    BY Zenon, CrawlCounts
  <1> USE DEF MaxAttempts, MaxSecondaryPages, MaxSearchPages, MaxSearchResults, MaxSearchQueries
  <1>2. a \in Nat /\ s \in Nat /\ a <= MaxAttempts
    BY <1>1
  (* Nothing but the stage, the links and the place in the search changes. *)
  <1>3. ASSUME NEW at \in Between, NEW errors \in BOOLEAN,
               NEW todo \in SUBSET Urls, NEW left \in 0..MaxSearchResults,
               NEW queries \in 0..MaxSearchQueries, NEW u \in Nat,
               crawl' = [crawl EXCEPT !.stage = at, !.errors = errors, !.todo = todo,
                                      !.left = left, !.queries = queries],
               IsFiniteSet(todo), Cardinality(todo) = u,
               s > 0 \/ errors, Room(at, a, u, n)
        PROVE  CrawlInv'
    <2>1. /\ crawl' \in Crawl /\ crawl'.stage = at /\ crawl'.attempted = a /\ crawl'.successful = s
          /\ crawl'.seen = crawl.seen /\ crawl'.todo = todo /\ crawl'.errors = errors
          /\ crawl'.found = crawl.found
      BY <1>c, <1>1, <1>3 DEF Crawl, Between
    <2>2. /\ at # "home" /\ at \notin {"root", "page", "result"} /\ at # "root"
          /\ at \in {"root", "links"} => a <= 2
          /\ at \in {"pages", "page"} => a + u <= 2 + MaxSecondaryPages
          /\ at \in Searching => a <= 2 + MaxSecondaryPages + n
      BY <1>3 DEF Room, Between
    <2> QED
      BY Zenon, <1>c, <1>1, <1>2, <1>3, <2>1, <2>2, CrawlBy
  (* A page is opened, of the links or of the search results.              *)
  <1>4. ASSUME NEW at \in {"root", "page", "result"},
               NEW todo \in SUBSET Urls, NEW left \in 0..MaxSearchResults,
               NEW seen \in SUBSET Urls, NEW u \in Nat, NEW m \in Nat, NEW b \in 0..MaxAttempts,
               crawl' = [crawl EXCEPT !.stage = at, !.todo = todo, !.left = left,
                                      !.seen = seen, !.attempted = b],
               IsFiniteSet(todo), Cardinality(todo) = u,
               IsFiniteSet(seen), Cardinality(seen) = m, m <= MaxSearchPages,
               b = a + 1,
               at # "root" => s > 0 \/ crawl.errors,
               at = "root" => b <= 2,
               at = "page" => b + u <= 2 + MaxSecondaryPages,
               at = "result" => b <= 2 + MaxSecondaryPages + m
        PROVE  CrawlInv'
    <2>1. /\ crawl' \in Crawl /\ crawl'.stage = at /\ crawl'.attempted = b /\ crawl'.successful = s
          /\ crawl'.seen = seen /\ crawl'.todo = todo /\ crawl'.errors = crawl.errors
          /\ crawl'.found = crawl.found
      BY <1>c, <1>1, <1>4 DEF Crawl, CrawlStages
    <2>2. /\ at # "home" /\ (at \in {"root", "links"} => at = "root")
          /\ (at \in {"pages", "page"} => at = "page")
          /\ (at \in Searching => at = "result")
      BY DEF Searching
    <2>3. b \in Nat /\ s + 1 <= b /\ s <= b
      BY <1>1, <1>4
    <2> QED
      BY ZenonT(40), <1>c, <1>1, <1>2, <1>4, <2>1, <2>2, <2>3, CrawlBy
  (* A page is parsed.                                                     *)
  <1>5. ASSUME NEW at \in {"links", "pages", "results"}, NEW next \in Parsed(at),
               NEW home \in Urls,
               crawl' = [next EXCEPT !.home = home],
               crawl.stage \in {"home", "root", "page", "result"},
               at = "links" => a <= 2,
               at = "pages" => a + t <= 2 + MaxSecondaryPages,
               at = "results" => a <= 2 + MaxSecondaryPages + n
        PROVE  CrawlInv'
    <2>1. at \in CrawlStages /\ at # "home" /\ at # "root"
      BY DEF CrawlStages
    <2>2. PICK k \in Nat :
            /\ next \in Crawl /\ next.stage = at
            /\ next.seen = crawl.seen /\ next.todo = crawl.todo
            /\ next.attempted = a
            /\ next.successful = k /\ k <= a
            /\ next.found => k > 0
            /\ k > 0 \/ next.errors
      BY ZenonT(40), <1>1, <1>5, <2>1, ParsedTyped
    <2>3. /\ crawl' \in Crawl /\ crawl'.stage = at /\ crawl'.attempted = a /\ crawl'.successful = k
          /\ crawl'.seen = crawl.seen /\ crawl'.todo = crawl.todo /\ crawl'.errors = next.errors
          /\ crawl'.found = next.found
      BY <1>5, <2>2 DEF Crawl
    <2>4. /\ at \notin {"root", "page", "result"}
          /\ (at \in {"root", "links"} => at = "links")
          /\ (at \in {"pages", "page"} => at = "pages")
          /\ (at \in Searching => at = "results")
      BY DEF Searching
    <2> QED
      BY Zenon, <1>c, <1>1, <1>2, <1>5, <2>1, <2>2, <2>3, <2>4, CrawlBy
  <1>e. /\ crawl.errors \in BOOLEAN /\ crawl.left \in 0..MaxSearchResults
        /\ crawl.queries \in 0..MaxSearchQueries
    BY <1>c DEF Crawl
  <1>6. ASSUME NEW at \in Between,
               crawl' = [crawl EXCEPT !.stage = at, !.errors = TRUE],
               Room(at, a, t, n)
        PROVE  CrawlInv'
    <2>1. crawl' = [crawl EXCEPT !.stage = at, !.errors = TRUE, !.todo = crawl.todo,
                                 !.left = crawl.left, !.queries = crawl.queries]
      BY <1>c, <1>6 DEF Crawl
    <2>2. PICK e \in BOOLEAN, l \in 0..MaxSearchResults, q \in 0..MaxSearchQueries, o \in SUBSET Urls :
              e = TRUE /\ l = crawl.left /\ q = crawl.queries /\ o = crawl.todo
      BY <1>c, <1>e
    <2>3. crawl' = [crawl EXCEPT !.stage = at, !.errors = e, !.todo = o,
                                 !.left = l, !.queries = q]
      BY Zenon, <2>1, <2>2
    <2>4. IsFiniteSet(o) /\ Cardinality(o) = t /\ (s > 0 \/ e)
      BY Zenon, <1>c, <1>1, <2>2
    <2> QED
      BY Zenon, <1>3, <1>6, <2>3, <2>4
  <1>7. ASSUME NEW at \in Between,
               crawl' = [crawl EXCEPT !.stage = at],
               s > 0 \/ crawl.errors,
               Room(at, a, t, n)
        PROVE  CrawlInv'
    <2>1. crawl' = [crawl EXCEPT !.stage = at, !.errors = crawl.errors, !.todo = crawl.todo,
                                 !.left = crawl.left, !.queries = crawl.queries]
      BY <1>c, <1>7 DEF Crawl
    <2>2. PICK e \in BOOLEAN, l \in 0..MaxSearchResults, q \in 0..MaxSearchQueries, o \in SUBSET Urls :
              e = crawl.errors /\ l = crawl.left /\ q = crawl.queries /\ o = crawl.todo
      BY <1>c, <1>e
    <2>3. crawl' = [crawl EXCEPT !.stage = at, !.errors = e, !.todo = o,
                                 !.left = l, !.queries = q]
      BY Zenon, <2>1, <2>2
    <2>4. IsFiniteSet(o) /\ Cardinality(o) = t /\ (s > 0 \/ e)
      BY Zenon, <1>c, <1>1, <1>7, <2>2
    <2> QED
      BY Zenon, <1>3, <1>7, <2>3, <2>4
  <1>open. ASSUME NEW next, NEW url, NEW allowed, Open(next, url, allowed), next.attempted = a,
                  a < MaxAttempts
           PROVE  crawl' = [next EXCEPT !.attempted = a + 1]
    BY <1>2, <1>open DEF Open
  <1>home. CASE Home
    <2>0. /\ crawl.stage \in {"home", "root"} /\ a <= 2
      BY <1>home, <1>1 DEF Home
    <2>1. CASE \E next \in Parsed("links") : Continue([next EXCEPT !.home = fetch.url])
      <3>1. PICK next \in Parsed("links") : crawl' = [next EXCEPT !.home = fetch.url]
        BY <2>1 DEF Continue
      <3>2. crawl.stage \in {"home", "root", "page", "result"}
        BY <2>0
      <3> QED
        BY Zenon, <1>c, <1>5, <2>0, <3>1, <3>2
    <2>2. CASE /\ RetriesRoot
               /\ Open([crawl EXCEPT !.stage = "root"], [crawl.home EXCEPT !.path = "root"], NoHost)
      <3>1. a = 1 /\ a < MaxAttempts
        BY <1>1, <2>2 DEF RetriesRoot
      <3>2. [crawl EXCEPT !.stage = "root"].attempted = a
        BY <1>c, <1>1 DEF Crawl
      <3>3. crawl' = [[crawl EXCEPT !.stage = "root"] EXCEPT !.attempted = a + 1]
        BY Zenon, <1>open, <2>2, <3>1, <3>2
      <3>4. PICK b \in 0..MaxAttempts : b = a + 1 /\ b <= 2
        BY <3>1
      <3>5. crawl' = [crawl EXCEPT !.stage = "root", !.todo = crawl.todo, !.left = crawl.left,
                                   !.seen = crawl.seen, !.attempted = b]
        BY <1>c, <3>3, <3>4 DEF Crawl
      <3> QED
        BY Zenon, <1>c, <1>e, <1>1, <1>4, <3>4, <3>5
    <2>3. CASE Continue(Error(IF crawl.kind = "contacts" THEN "fallback" ELSE "done"))
      <3>1. PICK at \in {"fallback", "done"} : crawl' = [crawl EXCEPT !.stage = at, !.errors = TRUE]
        BY <2>3 DEF Continue, Error
      <3>2. at \in Between /\ at # "links" /\ at # "pages"
        BY DEF Between
      <3>3. Room(at, a, t, n)
        BY <1>2, <1>1, <2>0, <3>2 DEF Room
      <3> QED
        BY Zenon, <1>6, <3>1, <3>2, <3>3
    <2> QED
      BY <1>home, <2>1, <2>2, <2>3 DEF Home
  <1>links. CASE Links
    <2>1. PICK todo \in SUBSET {url \in Urls : url.host = crawl.home.host /\ url # crawl.home} :
              /\ IsFiniteSet(todo) /\ Cardinality(todo) <= MaxSecondaryPages
              /\ crawl' = [crawl EXCEPT !.stage = "pages", !.todo = todo]
      BY <1>links DEF Links, Continue
    <2>2. todo \in SUBSET Urls /\ Cardinality(todo) \in Nat
      BY <2>1, FS_CardinalityType
    <2>3. PICK u \in Nat : u = Cardinality(todo) /\ u <= MaxSecondaryPages
      BY Zenon, <2>1, <2>2
    <2>4. a + u <= 2 + MaxSecondaryPages /\ (s > 0 \/ crawl.errors)
      BY <1>links, <1>1, <1>2, <2>3 DEF Links
    <2>5. crawl' = [crawl EXCEPT !.stage = "pages", !.errors = crawl.errors, !.todo = todo,
                                 !.left = crawl.left, !.queries = crawl.queries]
      BY <1>c, <2>1 DEF Crawl
    <2>6. "pages" \in Between /\ Room("pages", a, u, n)
      BY <2>4 DEF Between, Searching, Room
    <2>7. PICK e \in BOOLEAN, l \in 0..MaxSearchResults, q \in 0..MaxSearchQueries :
              e = crawl.errors /\ l = crawl.left /\ q = crawl.queries
      BY <1>e
    <2>8. crawl' = [crawl EXCEPT !.stage = "pages", !.errors = e, !.todo = todo,
                                 !.left = l, !.queries = q]
      BY Zenon, <2>5, <2>7
    <2>9. IsFiniteSet(todo) /\ Cardinality(todo) = u /\ (s > 0 \/ e)
      BY Zenon, <2>1, <2>3, <2>4, <2>7
    <2> QED
      BY Zenon, <1>3, <2>2, <2>6, <2>8, <2>9
  <1>pages. CASE Pages
    <2>0. /\ crawl.stage = "pages" /\ a + t <= 2 + MaxSecondaryPages
          /\ s > 0 \/ crawl.errors
      BY <1>pages, <1>1 DEF Pages
    <2>1. CASE \E url \in crawl.todo :
                   Open([crawl EXCEPT !.stage = "page", !.todo = @ \ {url}], url, crawl.home.host)
      <3>1. PICK url \in crawl.todo :
                Open([crawl EXCEPT !.stage = "page", !.todo = @ \ {url}], url, crawl.home.host)
        BY <2>1
      <3>2. /\ IsFiniteSet(crawl.todo \ {url})
            /\ Cardinality(crawl.todo \ {url}) = t - 1
        BY Zenon, <1>c, <1>1, FS_RemoveElement
      <3>3. crawl.todo # {} /\ t # 0
        BY Zenon, <1>c, <1>1, <3>1, FS_EmptySet
      <3>4. PICK u \in Nat, b \in 0..MaxAttempts :
                u = t - 1 /\ b = a + 1 /\ a < MaxAttempts /\ b + u <= 2 + MaxSecondaryPages
        BY <1>2, <2>0, <3>3
      <3>5. [crawl EXCEPT !.stage = "page", !.todo = @ \ {url}].attempted = a
        BY <1>c, <1>1 DEF Crawl
      <3>6. crawl' = [[crawl EXCEPT !.stage = "page", !.todo = @ \ {url}] EXCEPT !.attempted = a + 1]
        BY Zenon, <1>open, <3>1, <3>4, <3>5
      <3>7. crawl' = [crawl EXCEPT !.stage = "page", !.todo = crawl.todo \ {url}, !.left = crawl.left,
                                   !.seen = crawl.seen, !.attempted = b]
        BY <1>c, <3>4, <3>6 DEF Crawl
      <3>8. crawl.todo \ {url} \in SUBSET Urls
        BY <1>c
      <3> QED
        <4>1. PICK todo \in SUBSET Urls, l \in 0..MaxSearchResults, o \in SUBSET Urls :
                  todo = crawl.todo \ {url} /\ l = crawl.left /\ o = crawl.seen
          BY Zenon, <1>c, <1>e, <3>8
        <4>2. crawl' = [crawl EXCEPT !.stage = "page", !.todo = todo, !.left = l,
                                     !.seen = o, !.attempted = b]
          BY Zenon, <3>7, <4>1
        <4>3. /\ IsFiniteSet(todo) /\ Cardinality(todo) = u
              /\ IsFiniteSet(o) /\ Cardinality(o) = n /\ n <= MaxSearchPages
          BY Zenon, <1>c, <1>1, <3>2, <3>4, <4>1
        <4> QED
          BY Zenon, <1>4, <2>0, <3>4, <4>2, <4>3
    <2>2. CASE Continue([crawl EXCEPT !.stage =
                            IF @ = "pages" /\ crawl.kind = "contacts" /\ ~crawl.found
                            THEN "fallback" ELSE "done"])
      <3>1. PICK at \in {"fallback", "done"} : crawl' = [crawl EXCEPT !.stage = at]
        BY <2>2 DEF Continue
      <3>2. at \in Between /\ at # "links" /\ at # "pages"
        BY DEF Between
      <3>3. Room(at, a, t, n)
        BY <1>2, <1>1, <2>0, <3>2 DEF Room
      <3> QED
        BY Zenon, <1>7, <2>0, <3>1, <3>2, <3>3
    <2> QED
      BY <1>pages, <2>1, <2>2 DEF Pages
  <1>page. CASE Page
    <2>0. /\ crawl.stage = "page" /\ a + t <= 2 + MaxSecondaryPages
          /\ s > 0 \/ crawl.errors
      BY <1>page, <1>1 DEF Page
    <2>1. CASE \E next \in Parsed("pages") : Continue(next)
      <3>1. PICK next \in Parsed("pages") : crawl' = next
        BY <2>1 DEF Continue
      <3>2. next \in Crawl
        BY <2>0, ParsedTyped DEF CrawlStages
      <3>3. crawl' = [next EXCEPT !.home = next.home] /\ next.home \in Urls
        BY <3>1, <3>2 DEF Crawl
      <3>4. crawl.stage \in {"home", "root", "page", "result"}
        BY <2>0
      <3> QED
        BY Zenon, <1>5, <2>0, <3>3, <3>4
    <2>2. CASE Continue(Error("pages"))
      <3>1. crawl' = [crawl EXCEPT !.stage = "pages", !.errors = TRUE]
        BY <2>2 DEF Continue, Error
      <3>2. /\ "pages" \in Between
            /\ Room("pages", a, t, n)
        BY <2>0 DEF Between, Searching, Room
      <3> QED
        BY Zenon, <1>6, <2>0, <3>1, <3>2
    <2> QED
      BY <1>page, <2>1, <2>2 DEF Page
  <1>search. CASE Fallback \/ Query \/ Asked \/ Results \/ Result
    <2>0. /\ crawl.stage \in Searching /\ a <= 2 + MaxSecondaryPages + n
          /\ s > 0 \/ crawl.errors
      <3>1. crawl.stage \in {"fallback", "query", "asked", "results", "result"}
        BY Zenon, <1>search DEF Fallback, Query, Asked, Results, Result
      <3>2. crawl.stage \in Searching /\ crawl.stage \notin {"home", "root"}
        BY <3>1 DEF Searching
      <3> QED
        BY Zenon, <1>1, <3>2
    <2>s. \A at \in {"done", "query", "asked", "results"} :
              at \in Between /\ Room(at, a, t, n)
      BY <2>0 DEF Between, Room
    <2>1. ASSUME NEW at \in {"done", "query", "asked", "results"},
                 NEW left \in 0..MaxSearchResults, NEW queries \in 0..MaxSearchQueries,
                 crawl' = [crawl EXCEPT !.stage = at, !.errors = crawl.errors, !.todo = crawl.todo,
                                        !.left = left, !.queries = queries]
          PROVE  CrawlInv'
      BY ZenonT(40), <1>c, <1>e, <1>1, <1>3, <2>0, <2>s, <2>1
    <2>2. CASE Fallback
      <3>1. PICK at \in {"done", "query"} : crawl' = [crawl EXCEPT !.stage = at]
        BY <2>2 DEF Fallback, Continue
      <3> QED
        BY Zenon, <1>7, <2>0, <2>s, <3>1
    <2>3. CASE Query
      <3>1. CASE crawl' = [crawl EXCEPT !.stage = "done"]
        BY Zenon, <1>7, <2>0, <2>s, <3>1
      <3>2. CASE crawl.queries # MaxSearchQueries /\ crawl' = [crawl EXCEPT !.stage = "asked", !.queries = @ + 1]
        <4>1. PICK q \in 0..MaxSearchQueries : q = crawl.queries + 1
          BY <1>e, <3>2
        <4>2. crawl' = [crawl EXCEPT !.stage = "asked", !.errors = crawl.errors, !.todo = crawl.todo,
                                     !.left = crawl.left, !.queries = q]
          BY <1>c, <3>2, <4>1 DEF Crawl
        <4> QED
          BY Zenon, <1>e, <2>1, <4>2
      <3> QED
        BY <2>3, <3>1, <3>2 DEF Query, Continue
    <2>4. CASE Asked
      <3>1. CASE crawl' = Error("done")
        BY Zenon, <1>6, <2>0, <2>s, <3>1 DEF Error
      <3>2. CASE \E m \in 0..MaxSearchResults : crawl' = [crawl EXCEPT !.stage = "results", !.left = m]
        <4>1. PICK m \in 0..MaxSearchResults : crawl' = [crawl EXCEPT !.stage = "results", !.left = m]
          BY <3>2
        <4>2. crawl' = [crawl EXCEPT !.stage = "results", !.errors = crawl.errors, !.todo = crawl.todo,
                                     !.left = m, !.queries = crawl.queries]
          BY <1>c, <4>1 DEF Crawl
        <4> QED
          BY Zenon, <1>e, <2>1, <4>2
      <3> QED
        BY <2>4, <3>1, <3>2 DEF Asked
    <2>5. CASE Results
      <3>0. crawl.stage = "results"
        BY <2>5 DEF Results
      <3>1. CASE crawl' = [crawl EXCEPT !.stage = "query", !.left = 0]
        <4>1. crawl' = [crawl EXCEPT !.stage = "query", !.errors = crawl.errors, !.todo = crawl.todo,
                                     !.left = 0, !.queries = crawl.queries]
          BY <1>c, <3>1 DEF Crawl
        <4>2. 0 \in 0..MaxSearchResults
          OBVIOUS
        <4> QED
          BY Zenon, <1>e, <2>1, <4>1, <4>2
      <3>2. CASE crawl.left # 0 /\ crawl' = [crawl EXCEPT !.left = @ - 1]
        <4>1. PICK m \in 0..MaxSearchResults : m = crawl.left - 1
          BY <1>e, <3>2
        <4>2. crawl' = [crawl EXCEPT !.stage = "results", !.errors = crawl.errors, !.todo = crawl.todo,
                                     !.left = m, !.queries = crawl.queries]
          BY <1>c, <3>0, <3>2, <4>1 DEF Crawl
        <4> QED
          BY Zenon, <1>e, <2>1, <4>2
      <3>3. CASE /\ crawl.left # 0 /\ ~Exhausted
                 /\ \E url \in Urls \ crawl.seen :
                        Open([[crawl EXCEPT !.left = @ - 1]
                                 EXCEPT !.stage = "result", !.seen = @ \union {url}],
                             url, crawl.home.host)
        <4>1. PICK url \in Urls \ crawl.seen :
                  Open([[crawl EXCEPT !.left = @ - 1]
                           EXCEPT !.stage = "result", !.seen = @ \union {url}],
                       url, crawl.home.host)
          BY <3>3
        <4>2. /\ IsFiniteSet(crawl.seen \union {url})
              /\ Cardinality(crawl.seen \union {url}) = n + 1
          BY Zenon, <1>c, <1>1, <4>1, FS_AddElement
        <4>3. n # MaxSearchPages
          BY Zenon, <1>1, <3>3 DEF Exhausted
        <4>4. PICK m \in Nat, b \in 0..MaxAttempts, k \in 0..MaxSearchResults :
                  /\ m = n + 1 /\ m <= MaxSearchPages /\ k = crawl.left - 1
                  /\ b = a + 1 /\ a < MaxAttempts /\ b <= 2 + MaxSecondaryPages + m
          <5>1. n + 1 \in Nat /\ n + 1 <= MaxSearchPages
            BY <1>1, <4>3
          <5>2. crawl.left - 1 \in 0..MaxSearchResults
            BY <1>e, <3>3
          <5>3. /\ a + 1 \in 0..MaxAttempts /\ a < MaxAttempts
                /\ a + 1 <= 2 + MaxSecondaryPages + (n + 1)
            BY <1>2, <2>0, <5>1
          <5> QED
            BY Zenon, <5>1, <5>2, <5>3
        <4>5. [[crawl EXCEPT !.left = @ - 1]
                 EXCEPT !.stage = "result", !.seen = @ \union {url}].attempted = a
          BY <1>c, <1>1 DEF Crawl
        <4>6. crawl' = [[[crawl EXCEPT !.left = @ - 1]
                           EXCEPT !.stage = "result", !.seen = @ \union {url}]
                           EXCEPT !.attempted = a + 1]
          BY Zenon, <1>open, <4>1, <4>4, <4>5
        <4>7. crawl' = [crawl EXCEPT !.stage = "result", !.todo = crawl.todo, !.left = k,
                                     !.seen = crawl.seen \union {url}, !.attempted = b]
          BY <1>c, <4>4, <4>6 DEF Crawl
        <4>8. crawl.seen \union {url} \in SUBSET Urls
          BY <1>c
        <4>9. Cardinality(crawl.seen \union {url}) = m
          BY Zenon, <4>2, <4>4
        <4> QED
          <5>1. PICK seen \in SUBSET Urls, o \in SUBSET Urls :
                    seen = crawl.seen \union {url} /\ o = crawl.todo
            BY Zenon, <1>c, <4>8
          <5>2. crawl' = [crawl EXCEPT !.stage = "result", !.todo = o, !.left = k,
                                       !.seen = seen, !.attempted = b]
            BY Zenon, <4>7, <5>1
          <5>3. /\ IsFiniteSet(seen) /\ Cardinality(seen) = m
                /\ IsFiniteSet(o) /\ Cardinality(o) = t
            BY Zenon, <1>c, <1>1, <4>2, <4>9, <5>1
          <5> QED
            BY Zenon, <1>4, <2>0, <4>4, <5>2, <5>3
      <3> QED
        BY <2>5, <3>1, <3>2, <3>3 DEF Results, Continue
    <2>6. CASE Result
      <3>0. crawl.stage = "result"
        BY <2>6 DEF Result
      <3>1. CASE \E next \in Parsed("results") : Continue(next)
        <4>1. PICK next \in Parsed("results") : crawl' = next
          BY <3>1 DEF Continue
        <4>2. next \in Crawl
          BY <3>0, ParsedTyped DEF CrawlStages
        <4>3. crawl' = [next EXCEPT !.home = next.home] /\ next.home \in Urls
          BY <4>1, <4>2 DEF Crawl
        <4>4. crawl.stage \in {"home", "root", "page", "result"}
          BY <3>0
        <4> QED
          BY Zenon, <1>5, <2>0, <4>3, <4>4
      <3>2. CASE Continue([crawl EXCEPT !.stage = "results"])
        <4>1. crawl' = [crawl EXCEPT !.stage = "results"]
          BY <3>2 DEF Continue
        <4> QED
          BY Zenon, <1>7, <2>0, <2>s, <4>1
      <3> QED
        BY <2>6, <3>1, <3>2 DEF Result
    <2> QED
      BY <1>search, <2>2, <2>3, <2>4, <2>5, <2>6
  <1> QED
    BY <1>home, <1>links, <1>pages, <1>page, <1>search DEF CrawlStep

(* A crawl starts fetches of URLs only.                                    *)
LEMMA FetchesStart == CrawlInv /\ FetchInv /\ CrawlStep => FetchInv'
  <1> SUFFICES ASSUME CrawlInv, FetchInv, CrawlStep PROVE FetchInv'
    OBVIOUS
  <1>1. /\ crawl.home \in Urls /\ crawl.home.host \in Hosts /\ crawl.todo \subseteq Urls
        /\ fetch.url \in Urls /\ crawl \in Crawl
        /\ [crawl.home EXCEPT !.path = "root"] \in Urls
    BY DEF CrawlInv, Crawl, FetchInv, Fetch, Urls
  <1>2. CASE UNCHANGED fetch
    BY <1>2 DEF FetchInv, ConnectionsBounded
  <1>3. ASSUME NEW url \in Urls, fetch' = Idle(url) PROVE FetchInv'
    BY <1>3, FetchStarts
  <1>4. ASSUME NEW url \in Urls, NEW allowed \in Hosts \union {NoHost}, fetch' = FetchOf(url, allowed)
        PROVE  FetchInv'
    BY <1>4, FetchStarts
  <1>5. ASSUME NEW next \in Crawl, Continue(next) PROVE FetchInv'
    <2>1. PICK url \in Urls : url = next.home
      BY DEF Crawl
    <2> QED
      BY Zenon, <1>3, <1>5, <2>1 DEF Continue
  <1>6. CASE Home
    <2>1. \A at : Error(at).home = crawl.home
      BY <1>1 DEF Error, Crawl
    <2>2. ASSUME NEW next \in Parsed("links"), Continue([next EXCEPT !.home = fetch.url])
          PROVE  FetchInv'
      <3>1. next \in Crawl
        BY <1>6, ParsedTyped DEF Home, CrawlStages
      <3>2. PICK url \in Urls : url = [next EXCEPT !.home = fetch.url].home
        BY <1>1, <3>1 DEF Crawl
      <3> QED
        BY Zenon, <1>3, <2>2, <3>2 DEF Continue
    <2>3. ASSUME NEW at, Continue(Error(at)) PROVE FetchInv'
      <3>1. PICK url \in Urls : url = Error(at).home
        BY <1>1, <2>1
      <3> QED
        BY Zenon, <1>3, <2>3, <3>1 DEF Continue
    <2>4. ASSUME NEW next, Open(next, [crawl.home EXCEPT !.path = "root"], NoHost) PROVE FetchInv'
      <3>1. PICK url \in Urls, allowed \in Hosts \union {NoHost} :
                url = [crawl.home EXCEPT !.path = "root"] /\ allowed = NoHost
        BY <1>1
      <3> QED
        BY Zenon, <1>4, <2>4, <3>1 DEF Open
    <2> QED
      BY Zenon, <1>6, <2>2, <2>3, <2>4 DEF Home
  <1>7. CASE Links
    <2>1. PICK todo \in SUBSET Urls : Continue([crawl EXCEPT !.stage = "pages", !.todo = todo])
      BY <1>7 DEF Links
    <2>2. [crawl EXCEPT !.stage = "pages", !.todo = todo] \in Crawl
      BY <1>1 DEF Crawl
    <2> QED
      BY Zenon, <1>5, <2>1, <2>2
  <1>8. ASSUME NEW next, NEW url \in Urls, Open(next, url, crawl.home.host) PROVE FetchInv'
    <2>1. PICK allowed \in Hosts \union {NoHost} : allowed = crawl.home.host
      BY <1>1
    <2> QED
      BY Zenon, <1>4, <1>8, <2>1 DEF Open
  <1>9. ASSUME NEW at \in CrawlStages, Continue([crawl EXCEPT !.stage = at]) PROVE FetchInv'
    <2>1. [crawl EXCEPT !.stage = at] \in Crawl
      BY <1>1 DEF Crawl, CrawlStages
    <2> QED
      BY Zenon, <1>5, <1>9, <2>1
  <1>10. ASSUME NEW at \in CrawlStages, Continue(Error(at)) PROVE FetchInv'
    <2>1. Error(at) \in Crawl
      BY <1>1 DEF Error, Crawl, CrawlStages
    <2> QED
      BY Zenon, <1>5, <1>10, <2>1
  <1>11. ASSUME NEW at \in CrawlStages, NEW next \in Parsed(at), Continue(next),
                crawl.stage \in {"page", "result"}
         PROVE  FetchInv'
    <2>1. next \in Crawl
      BY <1>11, ParsedTyped
    <2> QED
      BY Zenon, <1>5, <1>11, <2>1
  <1>s. {"pages", "fallback", "done", "query", "results"} \subseteq CrawlStages
    BY DEF CrawlStages
  <1>12. CASE Pages
    <2>1. CASE \E url \in crawl.todo :
                   Open([crawl EXCEPT !.stage = "page", !.todo = @ \ {url}], url, crawl.home.host)
      BY <1>1, <1>8, <2>1
    <2>2. CASE \E at \in {"fallback", "done"} : Continue([crawl EXCEPT !.stage = at])
      BY <1>9, <1>s, <2>2
    <2> QED
      BY <1>12, <2>1, <2>2 DEF Pages
  <1>13. CASE Page
    BY <1>10, <1>11, <1>13, <1>s DEF Page
  <1>14. CASE Fallback
    <2>1. PICK at \in {"query", "done"} : Continue([crawl EXCEPT !.stage = at])
      BY <1>14 DEF Fallback
    <2> QED
      BY <1>9, <1>s, <2>1
  <1>15. CASE Query
    <2>1. Continue([crawl EXCEPT !.stage = "done"]) \/ UNCHANGED fetch
      BY <1>15 DEF Query
    <2> QED
      BY <1>2, <1>9, <1>s, <2>1
  <1>16. CASE Asked
    BY <1>2, <1>16 DEF Asked
  <1>17. CASE Results
    <2>1. CASE \E url \in Urls : \E next : Open(next, url, crawl.home.host)
      BY <1>8, <2>1
    <2>2. CASE Continue([crawl EXCEPT !.stage = "query", !.left = 0])
      <3>0. 0 \in 0..MaxSearchResults
        BY DEF MaxSearchResults
      <3>1. [crawl EXCEPT !.stage = "query", !.left = 0] \in Crawl
        BY <1>1, <3>0 DEF Crawl
      <3> QED
        BY Zenon, <1>5, <2>2, <3>1
    <2>3. CASE crawl.left # 0 /\ Continue([crawl EXCEPT !.left = @ - 1])
      <3>1. PICK k \in 0..MaxSearchResults : k = crawl.left - 1
        BY <1>1, <2>3 DEF Crawl, MaxSearchResults
      <3>2. [crawl EXCEPT !.left = k] \in Crawl
        BY <1>1 DEF Crawl
      <3>3. [crawl EXCEPT !.left = @ - 1] = [crawl EXCEPT !.left = k]
        BY <3>1
      <3> QED
        BY Zenon, <1>5, <2>3, <3>2, <3>3
    <2> QED
      BY <1>17, <2>1, <2>2, <2>3 DEF Results
  <1>18. CASE Result
    BY <1>9, <1>11, <1>18, <1>s DEF Result
  <1> QED
    BY <1>6, <1>7, <1>12, <1>13, <1>14, <1>15, <1>16, <1>17, <1>18 DEF CrawlStep

(* Where a crawl starts, and that it stays there.                          *)
WebInv == SearchInv /\ search \in Search /\ FetchInv /\ CrawlInv

LEMMA WebStarts == ClientInit => WebInv
  <1> SUFFICES ASSUME ClientInit PROVE WebInv
    OBVIOUS
  <1>1. SearchInv
    BY WebSteps
  <1>2. search \in Search
    BY DEF ClientInit, Init, NoSearch, Search, MaxHttpAttempts
  <1>3. PICK url \in Urls, kind \in {"contacts", "enrichment"}, searches \in BOOLEAN :
            /\ fetch = FetchOf(url, NoHost)
            /\ crawl = [kind |-> kind, searches |-> searches, stage |-> "home", home |-> url,
                        todo |-> {}, left |-> 0, seen |-> {}, queries |-> 0, attempted |-> 1,
                        successful |-> 0, found |-> FALSE, errors |-> FALSE, sources |-> {}]
    BY DEF ClientInit, Init
  <1>4. FetchInv
    <2>1. /\ fetch \in Fetch /\ fetch.stage = "resolve" /\ fetch.asked = 0 /\ fetch.redirects = 0
      BY <1>3, BoundAssumption DEF FetchOf, Fetch
    <2>2. 0 * MaxAddresses = 0 /\ 0 <= (MaxRedirects + 1) * MaxAddresses
      BY BoundAssumption, Hops
    <2> QED
      BY <2>1, <2>2 DEF FetchInv, ConnectionsBounded
  <1>5. CrawlInv
    <2>1. crawl \in Crawl
      BY <1>3 DEF Crawl, MaxSearchResults, MaxSearchQueries, MaxAttempts, MaxSecondaryPages, MaxSearchPages
    <2>2. IsFiniteSet({}) /\ Cardinality({}) = 0
      BY FS_EmptySet
    <2>3. /\ crawl.stage = "home" /\ crawl.attempted = 1 /\ crawl.successful = 0 /\ ~crawl.found
          /\ crawl.seen = {} /\ crawl.todo = {}
      BY <1>3
    <2>4. BudgetInv
      BY <2>2, <2>3 DEF BudgetInv, Searching, MaxSearchPages
    <2>5. CountsInv
      BY <2>3 DEF CountsInv
    <2> QED
      BY <2>1, <2>4, <2>5 DEF CrawlInv
  <1> QED
    BY <1>1, <1>2, <1>4, <1>5 DEF WebInv

LEMMA WebStays == WebInv /\ [Next]_vars => WebInv'
  <1> SUFFICES ASSUME WebInv, [Next]_vars PROVE WebInv'
    OBVIOUS
  <1>1. SearchInv' /\ search' \in Search
    BY SearchKeeps, SearchTyped DEF WebInv
  <1>2. UNCHANGED crawl => CrawlInv'
    BY DEF WebInv, CrawlInv, BudgetInv, CountsInv
  <1>3. UNCHANGED fetch => FetchInv'
    BY DEF WebInv, FetchInv, ConnectionsBounded
  <1>4. CrawlStep => CrawlInv' /\ FetchInv'
    BY CrawlStays, FetchesStart DEF WebInv
  <1>5. FetchStep => FetchInv'
    BY FetchKeeps DEF WebInv
  <1> QED
    BY <1>1, <1>2, <1>3, <1>4, <1>5 DEF Next, vars, WebInv

(* Every variable of the clients keeps its type; a fetch connects no more  *)
(* often than its redirects and addresses allow, and a crawl attempts no   *)
(* more pages than its budgets, whatever servers and searches answer.      *)
THEOREM ClientsTyped == ClientSpec => []ClientTypeOK
  <1> DEFINE Known == client \in {"smtp", "web"}
  <1>1. ClientInit => Known
    BY DEF ClientInit
  <1>2. Known /\ [Deliver \/ Discover]_<<client, vars, smtp>> => Known'
    BY DEF Deliver, Discover
  <1>3. WebInv /\ Smtp!TypeOK /\ Known => ClientTypeOK
    BY DEF WebInv, FetchInv, CrawlInv, ClientTypeOK, TypeOK
  <1> HIDE DEF Known
  <1> QED
    BY <1>1, <1>2, <1>3, WebStarts, WebStays, WebSteps, SmtpTypeCorrect, PTL DEF ClientSpec

(* The result of every crawl passes the checks of the service that asked   *)
(* for it: it counts no more successes than attempts, finds nobody without *)
(* a page that was parsed, and has an error where no page was.             *)
THEOREM ResultsAreAccepted == ClientSpec => []ResultAccepted
  <1>1. WebInv => ResultAccepted
    <2> SUFFICES ASSUME WebInv PROVE ResultAccepted
      OBVIOUS
    <2>1. PICK s \in 0..MaxAttempts, a \in 0..MaxAttempts : s = crawl.successful /\ a = crawl.attempted
      BY DEF WebInv, CrawlInv, Crawl
    <2>2. s <= a /\ (crawl.found => s > 0) /\ (crawl.stage = "done" => s > 0 \/ crawl.errors)
      BY <2>1 DEF WebInv, CrawlInv, CountsInv
    <2>3. s = 0 => ~(s > 0)
      BY <2>1
    <2> QED
      BY Zenon, <2>1, <2>2, <2>3 DEF ResultAccepted
  <1> QED
    BY <1>1, WebStarts, WebStays, WebSteps, PTL DEF ClientSpec
=============================================================================
