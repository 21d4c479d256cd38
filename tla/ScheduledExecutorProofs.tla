---------------------- MODULE ScheduledExecutorProofs ----------------------
(***************************************************************************)
(* How long the scheduled executor can hold up a task, for any tasks and   *)
(* delays, with a stop at any moment.                                      *)
(***************************************************************************)
EXTENDS ScheduledExecutor, TLAPS

Typed ==
    /\ now \in Nat /\ waitUntil \in Nat
    /\ task \in [Tasks -> {"new", "queued", "running", "done", "dropped"}]
    /\ deadline \in [Tasks -> Nat]
    /\ thread \in {"loop", "empty", "waiting", "drain", "task", "exited"}
    /\ newcomers \subseteq Tasks /\ overslept \subseteq Tasks

\* A sleep for the earliest deadline of its beginning is late only for the
\* newcomers.
Sleeping ==
    thread = "waiting" => \A t \in Queue : deadline[t] < waitUntil => t \in newcomers

\* What was overslept is due, and has run before the thread is back at the top
\* of its loop.
Overslept ==
    /\ \A t \in overslept : task[t] # "new" /\ deadline[t] <= now
    /\ thread \in {"loop", "empty", "waiting"} => overslept \intersect Queue = {}

Inv == Typed /\ Sleeping /\ Overslept

LEMMA InvInit == Init => Inv
BY DEF Init, Inv, Typed, Sleeping, Overslept, Queue

LEMMA InvStep == Inv /\ [Next]_vars => Inv'
<1> SUFFICES ASSUME Inv, [Next]_vars PROVE Inv'
  OBVIOUS
<1>1. ASSUME NEW t \in Tasks, Schedule(t) PROVE Inv'
  <2>1. /\ task[t] = "new"
        /\ UNCHANGED <<now, thread, waitUntil, overslept>>
        /\ \/ /\ task' = [task EXCEPT ![t] = "dropped"]
              /\ UNCHANGED <<deadline, newcomers>>
           \/ /\ task' = [task EXCEPT ![t] = "queued"]
              /\ \E d \in Delays : deadline' = [deadline EXCEPT ![t] = now + d]
              /\ newcomers' = newcomers \union {t}
    BY <1>1 DEF Schedule, Become
  <2>2. Typed'
    BY <2>1, ExecutorAssumption DEF Inv, Typed
  <2>3. Sleeping'
    BY <2>1 DEF Inv, Typed, Sleeping, Queue
  <2>4. Overslept'
    BY <2>1 DEF Inv, Typed, Overslept, Queue
  <2> QED
    BY <2>2, <2>3, <2>4 DEF Inv
<1>2. CASE Loop
  <2>1. /\ thread \in {"loop", "empty"}
        /\ UNCHANGED <<now, task, deadline, overslept>>
        /\ \/ thread' \in {"exited", "empty"} /\ UNCHANGED <<waitUntil, newcomers>>
           \/ /\ thread' = "waiting" /\ newcomers' = {}
              /\ \E t \in Tasks : Top(t) /\ waitUntil' = deadline[t]
    BY <1>2 DEF Loop, AtTop
  <2>2. Typed' /\ Overslept'
    BY <2>1 DEF Inv, Typed, Overslept, Queue
  <2>3. Sleeping'
    BY <2>1 DEF Inv, Typed, Sleeping, Queue, Top
  <2> QED
    BY <2>2, <2>3 DEF Inv
<1>3. CASE EndWait
  <2>1. /\ thread = "waiting" /\ thread' \in {"exited", "drain"}
        /\ overslept' = overslept \union {t \in Due : deadline[t] < waitUntil}
        /\ UNCHANGED <<now, task, deadline, waitUntil, newcomers>>
    BY <1>3 DEF EndWait
  <2> QED
    BY <2>1 DEF Inv, Typed, Sleeping, Overslept, Due, Queue
<1>4. CASE Drained
  <2>1. /\ thread = "drain" /\ thread' = "loop" /\ Due = {}
        /\ UNCHANGED <<now, task, deadline, waitUntil, newcomers, overslept>>
    BY <1>4 DEF Drained
  <2>2. overslept \intersect Queue = {}
    BY <2>1 DEF Inv, Typed, Overslept, Due
  <2> QED
    BY <2>1, <2>2 DEF Inv, Typed, Sleeping, Overslept, Queue
<1>5. ASSUME NEW t \in Tasks, Run(t) \/ Finish(t) PROVE Inv'
  <2>1. /\ task[t] # "new" /\ thread' \in {"task", "drain"}
        /\ \E s \in {"running", "done"} : task' = [task EXCEPT ![t] = s]
        /\ UNCHANGED <<now, deadline, waitUntil, newcomers, overslept>>
    BY <1>5 DEF Run, Finish, Become, Top, Queue
  <2> QED
    BY <2>1 DEF Inv, Typed, Sleeping, Overslept, Queue
<1>6. CASE Join
  <2>1. /\ thread = "exited"
        /\ task' = [t \in Tasks |-> IF t \in Queue THEN "dropped" ELSE task[t]]
        /\ UNCHANGED <<now, deadline, thread, waitUntil, newcomers, overslept>>
    BY <1>6 DEF Join
  <2> QED
    BY <2>1 DEF Inv, Typed, Sleeping, Overslept, Queue
<1>7. CASE Stop \/ Tick \/ UNCHANGED vars
  <2>1. /\ now' \in {now, now + 1}
        /\ UNCHANGED <<task, deadline, thread, waitUntil, newcomers, overslept>>
    BY <1>7 DEF Stop, Tick, vars
  <2> QED
    BY <2>1 DEF Inv, Typed, Sleeping, Overslept, Queue
<1> QED
  BY <1>1, <1>2, <1>3, <1>4, <1>5, <1>6, <1>7 DEF Next, Thread

\* A sleep holds up only tasks that were scheduled during it, and each task
\* once: what a sleep for a later deadline held up runs before the next sleep.
THEOREM SleepsHoldUpOnce == Spec => []OversleepsOnce
<1>1. Inv => OversleepsOnce
  BY DEF Inv, Sleeping, Overslept, OversleepsOnce
<1> QED
  BY <1>1, InvInit, InvStep, PTL DEF Spec
=============================================================================
