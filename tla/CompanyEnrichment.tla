------------------------- MODULE CompanyEnrichment -------------------------
(***************************************************************************)
(* enrich-companies, as far as the outreach flow can see it: it may set or *)
(* overwrite the canonical company address.  The existing row is read      *)
(* before the provider is called, and the session keeps what it read.      *)
(***************************************************************************)
EXTENDS OutreachStore

EnrichStart(p, t) == Begin(p, "enrich", "enrich_read", [NoJob EXCEPT !.task = t])

(* The provider found an address, which the run will write if the one it   *)
(* read is missing or if it was told to overwrite; else nothing visible    *)
(* changes.                                                                *)
EnrichRead(p) ==
    LET known == task[job[p].task].companyEmail
    IN  /\ pc[p] = "enrich_read"
        /\ \E overwrite \in BOOLEAN, found \in Emails \union {NoEmail} :
               IF found # NoEmail /\ (known = NoEmail \/ overwrite)
               THEN /\ Goto(p, "enrich_write")
                    /\ job' = [job EXCEPT ![p].email = found]
                    /\ UNCHANGED <<tables, accepted, writer>>
               ELSE Answer(p, "ok") /\ UNCHANGED <<tables, accepted>>

EnrichWrite(p) ==
    /\ pc[p] = "enrich_write"
    /\ writer = NoProc
    /\ task' = [task EXCEPT ![job[p].task].companyEmail = job[p].email]
    /\ Answer(p, "ok")
    /\ UNCHANGED <<draft, attempt, manual, accepted>>

EnrichmentStep(p) ==
    \/ \E t \in Tasks : EnrichStart(p, t)
    \/ EnrichRead(p)
    \/ EnrichWrite(p)
=============================================================================
