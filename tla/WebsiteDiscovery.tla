-------------------------- MODULE WebsiteDiscovery --------------------------
(***************************************************************************)
(* What is read of a company's website: by contact discovery, which takes  *)
(* the homepage or the site's root, pages it links to, and pages a search  *)
(* of the site finds if those name nobody; and by enrichment, which takes  *)
(* the homepage and its contact and about pages.                           *)
(***************************************************************************)
EXTENDS PublicWebFetcher, SerpApiClient

MaxSecondaryPages == 2
MaxSearchQueries  == 2
MaxSearchResults  == 3
MaxSearchPages    == 3

(* What the limits add up to, with the homepage and the root of its host.  *)
MaxAttempts == 2 + MaxSecondaryPages + MaxSearchPages

VARIABLE crawl  \* the crawl, as far as its fetches and its result tell it apart

vars == <<fetch, search, crawl>>

(* "home" is the homepage, from which on the site is known; "todo" the     *)
(* links to follow, "left" the search results to look at, "seen" those     *)
(* fetched; "sources" the hosts of pages that contributed to the result.   *)
Crawl == [kind: {"contacts", "enrichment"}, searches: BOOLEAN,
          stage: {"home", "root", "links", "pages", "page", "fallback", "query", "asked",
                  "results", "result", "done"},
          home: Urls, todo: SUBSET Urls, left: 0..MaxSearchResults, seen: SUBSET Urls,
          queries: 0..MaxSearchQueries, attempted: 0..MaxAttempts, successful: 0..MaxAttempts,
          found: BOOLEAN, errors: BOOLEAN, sources: SUBSET Hosts]

Init ==
    /\ search = NoSearch
    /\ \E url \in Urls, kind \in {"contacts", "enrichment"}, searches \in BOOLEAN :
           /\ fetch = FetchOf(url, NoHost)
           /\ crawl = [kind |-> kind, searches |-> searches, stage |-> "home", home |-> url,
                       todo |-> {}, left |-> 0, seen |-> {}, queries |-> 0, attempted |-> 1,
                       successful |-> 0, found |-> FALSE, errors |-> FALSE, sources |-> {}]

(* The crawl goes on with no fetch under way, or with a new one.           *)
Continue(next) == crawl' = next /\ fetch' = Idle(next.home) /\ UNCHANGED search

(* One attempt more; the count saturates above its bound.                  *)
Open(next, url, allowed) ==
    /\ crawl' = [next EXCEPT !.attempted = IF @ > MaxAttempts THEN @ ELSE @ + 1]
    /\ fetch' = FetchOf(url, allowed)
    /\ UNCHANGED search

Error(at) == [crawl EXCEPT !.stage = at, !.errors = TRUE]

(* Dropping the error of a page that was not parsed.                       *)
ParsedSilently(at) ==
    {[crawl EXCEPT !.stage = at], [crawl EXCEPT !.stage = at, !.successful = @ + 1],
     [crawl EXCEPT !.stage = at, !.successful = @ + 1, !.found = TRUE,
                   !.sources = @ \union {fetch.url.host}]}

(* _parse_page: failed, over its work budget for one; or completed, with   *)
(* or without a person.  Enrichment takes what there is.                   *)
Parsed(at) ==
    {Error(at), [crawl EXCEPT !.stage = at, !.successful = @ + 1],
     [crawl EXCEPT !.stage = at, !.successful = @ + 1, !.found = TRUE,
                   !.sources = @ \union {fetch.url.host}]}

-----------------------------------------------------------------------------
(* Trying the root of the host whenever a fetch failed.                    *)
RetriesRootAlways == crawl.kind = "contacts" /\ crawl.home.path # "root"

(* _canonical_root_retry_url                                               *)
RetriesRoot == crawl.kind = "contacts" /\ crawl.home.path # "root" /\ crawl.stage = "home"

(* The homepage, or the root of its host instead.                          *)
Home ==
    /\ crawl.stage \in {"home", "root"}
    /\ Fetched
    /\ IF fetch.stage = "page"
       THEN \E next \in Parsed("links") : Continue([next EXCEPT !.home = fetch.url])
       ELSE IF RetriesRoot
       THEN Open([crawl EXCEPT !.stage = "root"], [crawl.home EXCEPT !.path = "root"], NoHost)
       ELSE Continue(Error(IF crawl.kind = "contacts" THEN "fallback" ELSE "done"))

(* _discover_page_links, or the contact and about pages, on the same host. *)
Links ==
    /\ crawl.stage = "links"
    /\ \E todo \in SUBSET {url \in Urls : url.host = crawl.home.host /\ url # crawl.home} :
           /\ IsFiniteSet(todo) /\ Cardinality(todo) <= MaxSecondaryPages
           /\ Continue([crawl EXCEPT !.stage = "pages", !.todo = todo])

Pages ==
    /\ crawl.stage = "pages"
    /\ \/ \E url \in crawl.todo :
              Open([crawl EXCEPT !.stage = "page", !.todo = @ \ {url}], url, crawl.home.host)
       \/ /\ crawl.todo = {}
          /\ Continue([crawl EXCEPT !.stage =
                          IF @ = "pages" /\ crawl.kind = "contacts" /\ ~crawl.found
                          THEN "fallback" ELSE "done"])

(* A page that ends up on another host or port is not taken.               *)
Page ==
    /\ crawl.stage = "page"
    /\ Fetched
    /\ IF fetch.stage = "page" /\ fetch.url.host = crawl.home.host
       THEN \E next \in Parsed("pages") : Continue(next)
       ELSE Continue(Error("pages"))

-----------------------------------------------------------------------------
(* _search_fallback_result *)

Fallback ==
    /\ crawl.stage = "fallback"
    /\ Continue([crawl EXCEPT !.stage = IF crawl.searches THEN "query" ELSE "done"])

Exhausted == crawl.found \/ Cardinality(crawl.seen) = MaxSearchPages

Query ==
    /\ crawl.stage = "query"
    /\ IF crawl.queries = MaxSearchQueries \/ Exhausted
       THEN Continue([crawl EXCEPT !.stage = "done"])
       ELSE /\ crawl' = [crawl EXCEPT !.stage = "asked", !.queries = @ + 1]
            /\ search' = NewSearch
            /\ UNCHANGED fetch

(* A search that fails ends the crawl.                                     *)
Asked ==
    /\ crawl.stage = "asked"
    /\ Searched
    /\ \/ search.stage = "failed" /\ crawl' = Error("done")
       \/ /\ search.stage = "results"
          /\ \E n \in 0..MaxSearchResults :
                 crawl' = [crawl EXCEPT !.stage = "results", !.left = n]
    /\ search' = NoSearch
    /\ UNCHANGED fetch

(* The next result: of another site or seen before, or to be fetched.      *)
Results ==
    LET rest == [crawl EXCEPT !.left = @ - 1]
    IN  /\ crawl.stage = "results"
        /\ IF crawl.left = 0 \/ Exhausted
           THEN Continue([crawl EXCEPT !.stage = "query", !.left = 0])
           ELSE \/ Continue(rest)
                \/ \E url \in Urls \ crawl.seen :
                       /\ SameSite(url.host, crawl.home.host)
                       /\ Open([rest EXCEPT !.stage = "result", !.seen = @ \union {url}],
                               url, crawl.home.host)

(* Only a page that is not parsed counts as an error here.                 *)
Result ==
    /\ crawl.stage = "result"
    /\ Fetched
    /\ IF fetch.stage = "page" /\ SameSite(fetch.url.host, crawl.home.host)
       THEN \E next \in Parsed("results") : Continue(next)
       ELSE Continue([crawl EXCEPT !.stage = "results"])

CrawlStep == Home \/ Links \/ Pages \/ Page \/ Fallback \/ Query \/ Asked \/ Results \/ Result

Next ==
    \/ FetchStep /\ UNCHANGED <<search, crawl>>
    \/ SearchStep /\ UNCHANGED <<fetch, crawl>>
    \/ CrawlStep

(* Every connection has a timeout, and every call of the provider.         *)
Spec == Init /\ [][Next]_vars /\ WF_vars(Next)

-----------------------------------------------------------------------------
TypeOK == fetch \in Fetch /\ search \in Search /\ crawl \in Crawl

(* All that a result holds comes from the site of the homepage it started  *)
(* from, wherever links, search results and servers point to.              *)
OneSite == \A host \in crawl.sources : SiteOf[host] = SiteOf[crawl.home.host]

(* The result of every crawl passes the checks ContactDiscoveryService     *)
(* makes of it: what was found is never thrown away as an invalid result.  *)
ResultAccepted ==
    crawl.stage = "done" /\ crawl.kind = "contacts" =>
        /\ crawl.successful <= crawl.attempted
        /\ crawl.found => crawl.successful > 0
        /\ crawl.successful = 0 => crawl.errors

(* A crawl ends, whatever redirects to whatever and whoever fails to answer. *)
CrawlEnds == <>(crawl.stage = "done")
=============================================================================
