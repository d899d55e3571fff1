----------------------------- MODULE WriteLock -----------------------------
(***************************************************************************)
(* Command processes over the one SQLite file, whatever tables they use:   *)
(* where each process is, and who holds SQLite's single write lock.  See   *)
(* OutreachStore for the rules the driver and the session follow: reads    *)
(* before the first write hold no lock and see the latest commit, the      *)
(* first write takes the lock, commit and rollback give it back, and       *)
(* SELECT ... FOR UPDATE locks nothing.                                    *)
(***************************************************************************)
CONSTANTS Procs, NoProc

ASSUME NoProcAssumption == NoProc \notin Procs

VARIABLES writer,  \* the process holding the write lock
          pc       \* where each process is

Goto(p, label) == pc' = [pc EXCEPT ![p] = label]

(* The first UPDATE or INSERT of the session.                              *)
TakeLock(p) == writer = NoProc /\ writer' = p

(* Forgetting the rollback: the lock stays with a process that is done.    *)
GiveNothing(p) == UNCHANGED writer

(* Commit, rollback, or the death of the process.                          *)
GiveLock(p) == writer' = IF writer = p THEN NoProc ELSE writer

(* A transaction that writes and commits with nothing in between that      *)
(* another process could notice: the lock only has to be free.             *)
WriteAtOnce == writer = NoProc /\ UNCHANGED writer
=============================================================================
