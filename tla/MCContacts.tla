---------------------------- MODULE MCContacts ------------------------------
(* Instances of ContactCandidates for TLC.                                 *)
EXTENDS ContactCandidates, TLC

CONSTANTS p1, p2, c1, c2, e1

(* One candidate with an address and one without.                          *)
OneAddress == [c \in Candidates |-> IF c = c1 THEN e1 ELSE NoEmail]

ProcSymmetry == Permutations(Procs)

(* The answer of a finished command changes nothing that comes after it.   *)
Unanswered ==
    <<tables, mix, writer, pc, [p \in Procs |-> IF pc[p] = "done" THEN NoJob ELSE job[p]]>>

(* Which commands meet on one database.                                    *)
AllMixes == {{"discover", "review", "promote", "contact_create"},
             {"plan", "apply", "promote", "contact_delete"},
             {"plan", "apply", "lead_from_contact"},
             {"enrich", "complete", "lead_create", "lead_delete", "task_create"},
             {"enrich", "complete", "lead_delete", "task_status"}}
=============================================================================
