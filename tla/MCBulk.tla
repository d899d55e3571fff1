------------------------------ MODULE MCBulk -------------------------------
(* An instance of BulkCommands for TLC.                                    *)
EXTENDS BulkCommands, TLC

CONSTANTS p, q,                       \* the processes
          a1, a2, b, k1, k2, x1, x2,  \* of the acquisition
          h, nm,                      \* of the imports
          e,                          \* of the missing-draft batch
          l1, l2                      \* of the exports

(* Two candidates of one company, and one of another.                      *)
Shared == [c \in Candidates |-> IF c = b THEN k2 ELSE k1]

(* The first company has two contacts.                                     *)
AllAtFirst == [x \in Contacts |-> k1]

-----------------------------------------------------------------------------
Full   == [host |-> h, name |-> nm]
Bare   == [host |-> NoHost, name |-> nm]
Bad    == [host |-> BadHost, name |-> nm]
Noname == [host |-> NoHost, name |-> NoName]

(* A company twice, with its website and without; rows that fail; nothing. *)
AllFiles == {<<Full, Full>>, <<Bare, Full>>, <<Full, Bare>>, <<Bad, Bare>>,
             <<Malformed, Noname>>, <<>>}

(* An empty query, and one that repeats another.                           *)
Templates == <<"", "a", "b", "a">>

Hits == {Full, Malformed}

-----------------------------------------------------------------------------
(* Two companies, the first with two tasks.                                *)
OfTasks == <<1, 1, 2>>

At(contact, company) == [contact |-> contact, company |-> company]

Addresses == <<At(e, NoEmail), At(e, e), At(NoEmail, e)>>

-----------------------------------------------------------------------------
(* Two leads, the first with two tasks.                                    *)
Due == <<2, 1, 1>>

OneTaskEach == <<1, 2, 3>>

Leads == <<l1, l2, l1>>

Asked == {{1, 2}, {2}}

-----------------------------------------------------------------------------
ProcSymmetry == Permutations(Procs)
=============================================================================
