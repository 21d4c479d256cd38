------------------------------ MODULE Executor ------------------------------
(***************************************************************************)
(* What an Executor (utils/Executor.h) promises of the tasks given to its  *)
(* execute: a task that was accepted runs, once; one that comes after the  *)
(* destructor has begun does not; and the destructor returns when nothing  *)
(* is left to run.  An executor whose last reference is dropped on one of  *)
(* its own threads may end the program instead.                            *)
(***************************************************************************)
CONSTANT Tasks

VARIABLES
    task,    \* "idle", "accepted", "running", "done" or "refused", for each
    state    \* "open", "closing", "closed" or "aborted"

vars == <<task, state>>

Init ==
    /\ task = [t \in Tasks |-> "idle"]
    /\ state = "open"

Move(t, from, to) ==
    /\ task[t] = from
    /\ task' = [task EXCEPT ![t] = to]
    /\ UNCHANGED state

Accept(t) == state = "open" /\ Move(t, "idle", "accepted")

Refuse(t) == state = "closing" /\ Move(t, "idle", "refused")

Run(t) == state \in {"open", "closing"} /\ Move(t, "accepted", "running")

Finish(t) == state \in {"open", "closing"} /\ Move(t, "running", "done")

Close == state = "open" /\ state' = "closing" /\ UNCHANGED task

Closed ==
    /\ state = "closing"
    /\ \A t \in Tasks : task[t] \notin {"accepted", "running"}
    /\ state' = "closed"
    /\ UNCHANGED task

Abort == state = "closing" /\ state' = "aborted" /\ UNCHANGED task

Next ==
    \/ \E t \in Tasks : Accept(t) \/ Refuse(t) \/ Run(t) \/ Finish(t)
    \/ Close \/ Closed \/ Abort

Fairness ==
    /\ \A t \in Tasks : WF_vars(Run(t)) /\ WF_vars(Finish(t))
    /\ WF_vars(Closed \/ Abort)

Spec == Init /\ [][Next]_vars /\ Fairness
=============================================================================
