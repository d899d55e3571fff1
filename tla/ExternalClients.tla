-------------------------- MODULE ExternalClients ---------------------------
(***************************************************************************)
(* The clients of services outside: the SMTP client, and the web fetcher   *)
(* with the search client under the website crawls.  A process uses one of *)
(* them at a time, and they share nothing.                                 *)
(***************************************************************************)
EXTENDS WebsiteDiscovery

CONSTANT OverlongReplies

ASSUME OverlongAssumption == OverlongReplies \in BOOLEAN

VARIABLES client,  \* the one in use
          config, stage, sending, secured, taken, pending, report

Smtp == INSTANCE SmtpClient

smtp == <<config, stage, sending, secured, taken, pending, report>>

(* The other one waits; where it would start does not matter.              *)
ClientInit ==
    /\ client \in {"smtp", "web"} /\ Smtp!Init /\ Init
    /\ client = "web" => config = CHOOSE c \in Smtp!Config : TRUE
    /\ client = "smtp" => /\ crawl.home = CHOOSE url \in Urls : TRUE
                          /\ crawl.kind = "contacts" /\ crawl.searches

Deliver == client = "smtp" /\ Smtp!Next /\ UNCHANGED <<client, vars>>

Discover == client = "web" /\ Next /\ UNCHANGED <<client, smtp>>

ClientSpec ==
    /\ ClientInit
    /\ [][Deliver \/ Discover]_<<client, vars, smtp>>
    /\ WF_smtp(Deliver) /\ WF_vars(Discover)

-----------------------------------------------------------------------------
(* And one fetch of a page makes no more connections than its limits allow. *)
ClientTypeOK == client \in {"smtp", "web"} /\ Smtp!TypeOK /\ TypeOK /\ ConnectionsBounded

(* SmtpClient's promises to the delivery service hold.                     *)
ReportPromised == Smtp!ReportPromised

(* Nothing of the account or the message goes out in the clear.            *)
OnlyOverTls == Smtp!OnlyOverTls

(* A conversation ends with a report, and a crawl of a website with a      *)
(* result, whatever the other end does or fails to do.                     *)
ClientsEnd ==
    /\ client = "smtp" => Smtp!ConversationEnds
    /\ client = "web" => CrawlEnds
=============================================================================
