-------------------------- MODULE PublicWebFetcher --------------------------
(***************************************************************************)
(* BoundedPublicWebFetcher.fetch: one page of the public web, by its URL,  *)
(* over redirects.  Every hop is resolved and connected to the addresses   *)
(* that were verified; name servers and web servers answer as they like.   *)
(* A host stands for a hostname and a port, a site for the hostnames that  *)
(* differ in nothing but a "www.".                                         *)
(***************************************************************************)
EXTENDS Naturals, FiniteSets

CONSTANTS Hosts, NoHost,
          SiteOf,         \* the site of each host
          MaxRedirects,   \* a fetcher's max_redirects
          MaxAddresses    \* _MAX_ADDRESS_ATTEMPTS

ASSUME HostAssumption  == NoHost \notin Hosts /\ DOMAIN SiteOf = Hosts
ASSUME BoundAssumption == MaxRedirects \in Nat /\ MaxAddresses \in Nat \ {0}

VARIABLE fetch  \* the fetch under way, or the last one

Urls == [host: Hosts, path: {"root", "page"}]

(* "left" is how many verified addresses of the hop are not tried yet,     *)
(* "asked" how many connections were tried; "allowed" the host redirects   *)
(* must stay on, if any.                                                   *)
Fetch == [stage: {"idle", "resolve", "connect", "page", "error"}, url: Urls,
          allowed: Hosts \union {NoHost}, visited: SUBSET Urls, redirects: 0..MaxRedirects,
          left: 0..MaxAddresses, asked: Nat]

FetchOf(url, allowed) ==
    [stage |-> "resolve", url |-> url, allowed |-> allowed, visited |-> {}, redirects |-> 0,
     left |-> 0, asked |-> 0]

Idle(url) == [FetchOf(url, NoHost) EXCEPT !.stage = "idle"]

(* Any host is as good as another.                                         *)
SameSiteLoose(first, second) == first \in Hosts

(* _equivalent_allowed_hostname, _same_site                                *)
SameSite(first, second) == SiteOf[first] = SiteOf[second]

-----------------------------------------------------------------------------
(* The result: what the loop has kept goes out of scope.                   *)
End(stage, asked) == fetch' = [Idle(fetch.url) EXCEPT !.stage = stage, !.asked = asked]

(* A URL that was visited before ends the fetch; so does a name that is    *)
(* not resolved, or to an address that is not public.                      *)
Resolve ==
    /\ fetch.stage = "resolve"
    /\ \/ End("error", fetch.asked)
       \/ /\ fetch.url \notin fetch.visited
          /\ \E n \in 1..MaxAddresses :
                 fetch' = [fetch EXCEPT !.stage = "connect", !.left = n,
                                        !.visited = @ \union {fetch.url}]

(* A connection that fails or times out: the next address, if there is one. *)
NextAddress ==
    IF fetch.left > 1
    THEN fetch' = [fetch EXCEPT !.left = @ - 1, !.asked = @ + 1]
    ELSE End("error", fetch.asked + 1)

(* Not counting the redirects.                                             *)
FollowUncounted(url) ==
    fetch' = [fetch EXCEPT !.stage = "resolve", !.url = url, !.left = 0, !.asked = @ + 1]

Follow(url) ==
    fetch' = [fetch EXCEPT !.stage = "resolve", !.url = url, !.left = 0, !.asked = @ + 1,
                           !.redirects = @ + 1]

(* What a connection yields: nothing usable (too large, an unexpected      *)
(* exception, a status, a type or a charset that is no page), an HTML      *)
(* page, or a redirect, which is followed within the limit and the site.   *)
Connect ==
    /\ fetch.stage = "connect"
    /\ \/ NextAddress
       \/ \E stage \in {"error", "page"} : End(stage, fetch.asked + 1)
       \/ /\ fetch.redirects < MaxRedirects
          /\ \E url \in Urls :
                 /\ fetch.allowed # NoHost => SameSite(url.host, fetch.allowed)
                 /\ Follow(url)

FetchStep == Resolve \/ Connect

Fetched == fetch.stage \in {"page", "error"}

-----------------------------------------------------------------------------
(* However servers redirect, and however many of their addresses do not    *)
(* answer, one fetch tries no more connections than its limits allow.      *)
ConnectionsBounded == fetch.asked <= (MaxRedirects + 1) * MaxAddresses
=============================================================================
