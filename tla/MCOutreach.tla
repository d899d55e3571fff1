---------------------------- MODULE MCOutreach -----------------------------
(* Instances of Outreach for TLC: symmetry of the process and draft ids.   *)
EXTENDS Outreach, TLC

ProcSymmetry == Permutations(Procs)
DraftSymmetry == Permutations(Drafts)
ProcDraftSymmetry == ProcSymmetry \union DraftSymmetry
=============================================================================
