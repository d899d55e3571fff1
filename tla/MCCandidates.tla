--------------------------- MODULE MCCandidates ----------------------------
(* Instances of CompanyCandidates for TLC.                                 *)
EXTENDS CompanyCandidates, TLC

CONSTANTS p1, p2, c1, c2, h1

ProcSymmetry == Permutations(Procs)

(* One website, on which two candidates differ by the port.                *)
OneHost == [c \in Candidates |-> h1]

(* One candidate with a website, and one without.                          *)
OneWithoutHost == [c \in Candidates |-> IF c = c1 THEN h1 ELSE NoHost]
=============================================================================
