--------------------------- MODULE TaskLifecycle ---------------------------
(***************************************************************************)
(* task start, complete and cancel: read the status, check the transition, *)
(* write the new status by primary key and commit.  The SELECT asks FOR    *)
(* UPDATE, which SQLite does not honour.                                   *)
(***************************************************************************)
EXTENDS OutreachStore

AllowedTransitions ==
    [TODO        |-> {"TODO", "IN_PROGRESS", "CANCELLED"},
     IN_PROGRESS |-> {"IN_PROGRESS", "DONE", "CANCELLED"},
     DONE        |-> {"DONE"},
     CANCELLED   |-> {"CANCELLED"}]

TaskStart(p, t, target) ==
    Begin(p, "task", "task_read", [NoJob EXCEPT !.task = t, !.target = target])

(* A transition to the present status commits nothing.                     *)
TaskRead(p) ==
    LET status == task[job[p].task].status
        target == job[p].target
    IN  /\ pc[p] = "task_read"
        /\ \/ target \notin AllowedTransitions[status] /\ Fail(p, "transition")
           \/ target = status /\ Answer(p, "ok") /\ UNCHANGED <<tables, accepted>>
           \/ /\ target \in AllowedTransitions[status] \ {status}
              /\ Step(p, "task_write")

TaskWrite(p) ==
    /\ pc[p] = "task_write"
    /\ writer = NoProc
    /\ task' = [task EXCEPT ![job[p].task].status = job[p].target]
    /\ Answer(p, "ok")
    /\ UNCHANGED <<draft, attempt, manual, accepted>>

LifecycleStep(p) ==
    \/ \E t \in Tasks, target \in {"IN_PROGRESS", "DONE", "CANCELLED"} :
           TaskStart(p, t, target)
    \/ TaskRead(p)
    \/ TaskWrite(p)
=============================================================================
