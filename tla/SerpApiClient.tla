--------------------------- MODULE SerpApiClient ----------------------------
(***************************************************************************)
(* SerpApiClient.search_companies: one search of the paid search provider, *)
(* with one retry after a transport failure, both under one budget.        *)
(***************************************************************************)
EXTENDS Naturals

MaxHttpAttempts == 2

VARIABLE search  \* the search under way, or the last one

(* "answers" counts the responses that arrived whole and were read: one    *)
(* whose body cannot be decoded is a transport failure like any other.     *)
Search == [stage: {"idle", "call", "sleep", "results", "failed"},
           remaining: 0..MaxHttpAttempts, retriable: BOOLEAN, answers: 0..MaxHttpAttempts]

NoSearch == [stage |-> "idle", remaining |-> 0, retriable |-> FALSE, answers |-> 0]

NewSearch == [NoSearch EXCEPT !.stage = "call", !.remaining = MaxHttpAttempts, !.retriable = TRUE]

(* _RetryBudget.consume                                                    *)
Spent == [search EXCEPT !.remaining = @ - 1]

(* Retrying whatever went wrong.                                           *)
AnsweredRetrying ==
    \E stage \in {"results", IF search.retriable THEN "sleep" ELSE "failed"} :
        search' = [Spent EXCEPT !.stage = stage, !.answers = @ + 1]

(* A response was read: results, maybe none; or a refusal (authentication, *)
(* quota, rate limit, any other 4xx, 5xx), a response too large, not JSON, *)
(* or without results and not saying so.                                   *)
Answered ==
    \E stage \in {"results", "failed"} :
        search' = [Spent EXCEPT !.stage = stage, !.answers = @ + 1]

(* httpx.RequestError: no connection, a time-out, a response that breaks   *)
(* off, or one whose body cannot be decoded (httpx.DecodingError).         *)
TransportFailed ==
    search' = [Spent EXCEPT !.stage = IF search.retriable THEN "sleep" ELSE "failed"]

(* Without a key, a valid limit, a country or a query nothing is called.   *)
Call ==
    /\ search.stage = "call"
    /\ IF search.remaining = 0
       THEN search' = [search EXCEPT !.stage = "failed"]
       ELSE \/ Answered \/ TransportFailed
            \/ search.retriable /\ search' = [search EXCEPT !.stage = "failed"]

(* The sleeper may raise.                                                  *)
Sleep ==
    /\ search.stage = "sleep"
    /\ \E stage \in {"failed"} \union (IF search.remaining > 0 THEN {"call"} ELSE {}) :
           search' = [search EXCEPT !.stage = stage, !.retriable = FALSE]

SearchStep == Call \/ Sleep

Searched == search.stage \in {"results", "failed"}

(* A search the provider has answered readably is not asked, and paid for, *)
(* again; and results are what it answered.                                *)
OneAnswer == search.answers <= 1 /\ (search.stage = "results" => search.answers = 1)
=============================================================================
