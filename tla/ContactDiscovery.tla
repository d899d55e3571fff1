-------------------------- MODULE ContactDiscovery --------------------------
(***************************************************************************)
(* Contact discovery of the company: a provider's search, the upsert of    *)
(* what it found, and the discovery state.  The agent's contact plan runs  *)
(* the same discovery and then selects one candidate for an operator to    *)
(* apply.  Nothing is locked until the first row is written, so that what  *)
(* is read before it may be outdated, and what follows may not.            *)
(***************************************************************************)
EXTENDS ContactStore

DiscoverStart(p) == Begin(p, "discover", "search", NoJob)

PlanStart(p) == Begin(p, "plan", "search", NoJob)

(* At most one find of a candidate: the same key twice is one row.         *)
Finds == {F \in SUBSET [candidate: Candidates, known: SUBSET Fields] :
              \A f, g \in F : f.candidate = g.candidate => f = g}

(* The provider's result: SUCCEEDED or PARTIAL with what it found, of      *)
(* which PARTIAL may have nothing; NOT_FOUND; or FAILED, on which a plan   *)
(* gives up and which a plain discovery stores.                            *)
Search(p) ==
    /\ pc[p] = "search"
    /\ \/ \E F \in Finds : Step(p, "upsert", [job[p] EXCEPT !.todo = F, !.found = TRUE])
       \/ Step(p, "state_read", job[p])
       \/ job[p].command = "plan" /\ Fail(p, "provider")

-----------------------------------------------------------------------------
(* upsert_candidate *)

(* A new row, or a discovered one that lacks something the find has.       *)
Fills(row, f) ==
    \/ row.status = "ABSENT"
    \/ row.status = "DISCOVERED" /\ ~(f.known \subseteq row.known)

Filled(row, f) ==
    IF Fills(row, f)
    THEN [row EXCEPT !.status = IF @ = "ABSENT" THEN "DISCOVERED" ELSE @, !.known = @ \union f.known]
    ELSE row

(* _eligible: named and DISCOVERED, as the row was read and filled.  Only  *)
(* a plan looks for them.                                                  *)
Shown(p, c, row) ==
    IF job[p].command = "plan" /\ row.status = "DISCOVERED" /\ "name" \in row.known
    THEN {[candidate |-> c, known |-> row.known]}
    ELSE {}

(* The next find; a row that has all of it is not written.                 *)
Upsert(p) ==
    /\ pc[p] = "upsert"
    /\ \/ job[p].todo = {} /\ Step(p, "state_read", job[p])
       \/ \E f \in job[p].todo :
              LET row == candidate[f.candidate]
                  rest == [job[p] EXCEPT !.todo = @ \ {f}]
              IN  IF Fills(row, f)
                  THEN Step(p, "upsert_lock", [rest EXCEPT !.first = f, !.base = row])
                  ELSE Step(p, "upsert", [rest EXCEPT !.offers = @ \union Shown(p, f.candidate, row)])

(* The first write.  An INSERT of a key that is there by now is refused.   *)
UpsertLock(p) ==
    /\ pc[p] = "upsert_lock"
    /\ IF job[p].base.status = "ABSENT" /\ candidate[job[p].first.candidate].status # "ABSENT"
       THEN Refused(p)
       ELSE Lock(p, "discover_commit")

-----------------------------------------------------------------------------
(* update_state, and the commit. *)

StateRead(p) ==
    /\ pc[p] = "state_read"
    /\ Step(p, "state_lock", [job[p] EXCEPT !.seen = (state.at # 0)])

StateLock(p) ==
    /\ pc[p] = "state_lock"
    /\ IF ~job[p].seen /\ state.at # 0 THEN Refused(p) ELSE Lock(p, "discover_commit")

(* The rows after the finds are stored: the first one's UPDATE names the   *)
(* fields that were missing when it was read; the others are read now.     *)
Stored(p) ==
    [c \in Candidates |->
        IF c = job[p].first.candidate
        THEN [candidate[c] EXCEPT !.status = IF @ = "ABSENT" THEN "DISCOVERED" ELSE @,
                                  !.known = @ \union job[p].first.known]
        ELSE IF \E f \in job[p].todo : f.candidate = c
             THEN Filled(candidate[c], CHOOSE f \in job[p].todo : f.candidate = c)
             ELSE candidate[c]]

(* The persisted snapshots of eligible candidates, as the session has them. *)
Eligible(p) ==
    LET first == job[p].first
    IN  job[p].offers
        \union (IF first = NoOffer THEN {}
                ELSE Shown(p, first.candidate, Filled(job[p].base, first)))
        \union UNION {Shown(p, f.candidate, Filled(candidate[f.candidate], f)) : f \in job[p].todo}

(* A plan prints the eligible candidate of the highest rank, if there is   *)
(* one; the rank, of role, address, confidence and key, is left open.      *)
PrintPlan(p, n) ==
    IF Eligible(p) # {}
    THEN \E o \in Eligible(p) :
             handoff' = [handoff EXCEPT ![n] = o] /\ Answer(p, "selected", NoContact)
    ELSE /\ Answer(p, IF job[p].command = "plan" THEN "no_selection" ELSE "ok", NoContact)
         /\ UNCHANGED handoff

DiscoverCommit(p) ==
    LET n == state.at + 1
    IN  /\ pc[p] = "discover_commit"
        /\ n <= LastCheck
        /\ candidate' = Stored(p)
        /\ state' = [at |-> n, found |-> job[p].found]
        /\ PrintPlan(p, n)
        /\ GiveLock(p)
        /\ UNCHANGED crm

DiscoveryStep(p) ==
    \/ DiscoverStart(p) \/ PlanStart(p)
    \/ Search(p) \/ Upsert(p) \/ UpsertLock(p) \/ StateRead(p) \/ StateLock(p) \/ DiscoverCommit(p)
=============================================================================
