-------------------------- MODULE DraftGeneration --------------------------
(***************************************************************************)
(* email-draft generate, and one item of the missing-draft batch: read the *)
(* source rows, call the AI provider with no lock held, read the rows      *)
(* again, and insert the draft under the UNIQUE request fingerprint.       *)
(***************************************************************************)
EXTENDS OutreachStore

(* The row the service would insert for its input.                         *)
NewRow(t, bound, sender) ==
    [NoRow EXCEPT !.task = t, !.status = "DRAFT", !.bound = bound, !.sender = sender,
                  !.email = SourceEmail(t, bound), !.located = task[t].located]

WithFingerprint(row) == {d \in Drafts : Exists(d) /\ Fingerprint(draft[d]) = Fingerprint(row)}

GenerateStart(p, t, bound, sender) ==
    Begin(p, "generate", "gen_read",
          [NoJob EXCEPT !.task = t, !.seen = [NoRow EXCEPT !.bound = bound,
                                                           !.sender = sender]])

(* The first load, then the draft that already answers the request: reused *)
(* while it is unreviewed, a conflict once it is reviewed.                 *)
GenerateRead(p) ==
    LET t == job[p].task
        row == NewRow(t, job[p].seen.bound, job[p].seen.sender)
        same == WithFingerprint(row)
    IN  /\ pc[p] = "gen_read"
        /\ \/ /\ ~RecordsLoad(t, row.bound) \/ row.email = NoEmail
              /\ Fail(p, "stale")
           \/ /\ RecordsLoad(t, row.bound) /\ row.email # NoEmail
              /\ \/ /\ same = {}
                    /\ Keep(p, row, "gen_provider")
                 \/ \E d \in same :
                        Fail(p, IF draft[d].status = "DRAFT" THEN "reused" ELSE "conflict")

(* The AI provider returns a usable text, or fails or returns a bad one.   *)
CallProvider(p) ==
    /\ pc[p] = "gen_provider"
    /\ Step(p, "gen_recheck") \/ Fail(p, "provider")

(* The second load: the context must fingerprint as it did before the call. *)
GenerateRecheck(p) ==
    LET row == job[p].seen
        unchanged == RecordsLoad(row.task, row.bound) /\ CurrentContext(row) = Fingerprint(row)
    IN  /\ pc[p] = "gen_recheck"
        /\ IF unchanged THEN Step(p, "gen_insert") ELSE Fail(p, "stale")

(* INSERT and commit; the UNIQUE constraint turns a second insert of the   *)
(* same request into a conflict.  The ids of Drafts bound the table: an    *)
(* insert past them fails.                                                 *)
GenerateInsert(p) ==
    LET row == job[p].seen
    IN  /\ pc[p] = "gen_insert"
        /\ writer = NoProc
        /\ \/ /\ WithFingerprint(row) = {}
              /\ \E d \in Drafts :
                     /\ ~Exists(d)
                     /\ draft' = [draft EXCEPT ![d] = row]
              /\ Answer(p, "ok")
              /\ UNCHANGED <<task, attempt, manual, accepted>>
           \/ /\ WithFingerprint(row) # {}
              /\ Fail(p, "conflict")
           \/ /\ \A d \in Drafts : Exists(d)
              /\ Fail(p, "persistence")

GenerationStep(p) ==
    \/ \E t \in Tasks, bound \in BOOLEAN, s \in Senders : GenerateStart(p, t, bound, s)
    \/ GenerateRead(p)
    \/ CallProvider(p)
    \/ GenerateRecheck(p)
    \/ GenerateInsert(p)
=============================================================================
