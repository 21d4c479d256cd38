------------------------- MODULE ScheduledExecutor -------------------------
(***************************************************************************)
(* DefaultScheduledExecutor: one thread runs tasks at their deadlines, from *)
(* a priority queue under one mutex.  The thread sleeps until the earliest  *)
(* deadline it has seen; a task scheduled meanwhile does not shorten the    *)
(* sleep, whose predicate looks at stop alone.                              *)
(***************************************************************************)
EXTENDS Integers

CONSTANTS
    Tasks,             (* each is scheduled once at most                   *)
    Delays,            (* the delays asked for                             *)
    MaxTime            (* bound: the clock's last reading and deadline     *)

ASSUME ExecutorAssumption ==
    /\ Delays \subseteq Nat
    /\ MaxTime \in Nat

VARIABLES
    now,               (* steady_clock::now()                              *)
    task,              (* task[t]: what has become of t                    *)
    deadline,          (* deadline[t]: its Entry::deadline                 *)
    thread,            (* where run() is                                   *)
    waitUntil,         (* the deadline it sleeps to                        *)
    stop,              (* Impl::stop                                       *)
    joined,            (* has the destructor joined, or left, the thread?  *)
    newcomers,         (* the tasks scheduled since the sleep began        *)
    overslept          (* those that were due when a sleep for a later     *)
                       (* deadline ended             (both are history)    *)

vars == <<now, task, deadline, thread, waitUntil, stop, joined, newcomers, overslept>>

Queue == {t \in Tasks : task[t] = "queued"}
Due   == {t \in Queue : deadline[t] <= now}

\* The top of the priority queue: which of several equal deadlines is open.
Top(t) == t \in Queue /\ \A u \in Queue : deadline[t] <= deadline[u]

Become(t, state) == task' = [task EXCEPT ![t] = state]

Init ==
    /\ now = 0
    /\ task = [t \in Tasks |-> "new"]
    /\ deadline = [t \in Tasks |-> 0]
    /\ thread = "loop"
    /\ waitUntil = 0
    /\ stop = FALSE
    /\ joined = FALSE
    /\ newcomers = {}
    /\ overslept = {}

-----------------------------------------------------------------------------
\* schedule(delay, task); a stopped executor drops the task.
Schedule(t) ==
    /\ task[t] = "new"
    /\ ~ joined
    /\ \/ /\ stop
          /\ Become(t, "dropped")
          /\ UNCHANGED <<deadline, newcomers>>
       \/ /\ ~ stop
          /\ Become(t, "queued")
          /\ \E d \in Delays : /\ now + d <= MaxTime
                              /\ deadline' = [deadline EXCEPT ![t] = now + d]
          /\ newcomers' = newcomers \union {t}
    /\ UNCHANGED <<now, thread, waitUntil, stop, joined, overslept>>

(* run: the mutex is held but during the two waits and the tasks.          *)

\* Mutants of AtTop: a queued task, and the stop, do not wake the thread.
AtTopWhenStopped == thread = "loop" \/ (thread = "empty" /\ stop)

AtTopWithTask == thread = "loop" \/ (thread = "empty" /\ Queue # {})

\* The top of the loop, and a wait for an empty queue that ends.
AtTop == thread = "loop" \/ (thread = "empty" /\ (stop \/ Queue # {}))

Loop ==
    /\ AtTop
    /\ \/ /\ stop
          /\ thread' = "exited"
          /\ UNCHANGED <<waitUntil, newcomers>>
       \/ /\ ~ stop /\ Queue = {}
          /\ thread' = "empty"
          /\ UNCHANGED <<waitUntil, newcomers>>
       \/ /\ ~ stop
          /\ thread' = "waiting"
          /\ \E t \in Tasks : Top(t) /\ waitUntil' = deadline[t]
          /\ newcomers' = {}
    /\ UNCHANGED <<now, task, deadline, stop, joined, overslept>>

\* wait_until returns whether the executor is stopped.
EndWait ==
    /\ thread = "waiting"
    /\ stop \/ waitUntil <= now
    /\ thread' = IF stop THEN "exited" ELSE "drain"
    /\ overslept' = overslept \union {t \in Due : deadline[t] < waitUntil}
    /\ UNCHANGED <<now, task, deadline, waitUntil, stop, joined, newcomers>>

\* Every task that is due runs, stopped or not, earliest first; then the loop
\* starts over.
Run(t) ==
    /\ thread = "drain"
    /\ Top(t) /\ deadline[t] <= now
    /\ Become(t, "running")
    /\ thread' = "task"
    /\ UNCHANGED <<now, deadline, waitUntil, stop, joined, newcomers, overslept>>

Drained ==
    /\ thread = "drain"
    /\ Due = {}
    /\ thread' = "loop"
    /\ UNCHANGED <<now, task, deadline, waitUntil, stop, joined, newcomers, overslept>>

\* Mutant of Finish: back to the top of the loop after each task.
FinishToTop(t) ==
    /\ task[t] = "running"
    /\ Become(t, "done")
    /\ thread' = "loop"
    /\ UNCHANGED <<now, deadline, waitUntil, stop, joined, newcomers, overslept>>

Finish(t) ==
    /\ task[t] = "running"
    /\ Become(t, "done")
    /\ thread' = "drain"
    /\ UNCHANGED <<now, deadline, waitUntil, stop, joined, newcomers, overslept>>

\* The destructor stops the thread.  On another thread it joins it next; run by
\* a task - the last reference to the executor may go there - it detaches it.
Stop ==
    /\ ~ stop
    /\ stop' = TRUE
    /\ \/ UNCHANGED joined
       \/ thread = "task" /\ joined' = TRUE
    /\ UNCHANGED <<now, task, deadline, thread, waitUntil, newcomers, overslept>>

\* The join; or the end of the detached thread, which held Impl, and the queue,
\* alive.
Join ==
    /\ thread = "exited"
    /\ ~ joined \/ Queue # {}
    /\ joined' = TRUE
    /\ task' = [t \in Tasks |-> IF t \in Queue THEN "dropped" ELSE task[t]]
    /\ UNCHANGED <<now, deadline, thread, waitUntil, stop, newcomers, overslept>>

Tick ==
    /\ now < MaxTime
    /\ now' = now + 1
    /\ UNCHANGED <<task, deadline, thread, waitUntil, stop, joined, newcomers, overslept>>

Thread == Loop \/ EndWait \/ Drained \/ \E t \in Tasks : Run(t) \/ Finish(t)

Next == Thread \/ Stop \/ Join \/ Tick \/ \E t \in Tasks : Schedule(t)

\* Time passes, the thread runs on, a task that runs ends, and so does a
\* destructor that has begun.
Fairness == WF_vars(Tick) /\ WF_vars(Thread) /\ WF_vars(Join)

Spec == Init /\ [][Next]_vars
FairSpec == Spec /\ Fairness

-----------------------------------------------------------------------------
(* Properties.                                                             *)

\* The sleep holds up only tasks that were scheduled during it, and each of
\* them once: what it overslept runs before the thread sleeps again.
OversleepsOnce ==
    thread = "waiting" => \A t \in Queue :
        /\ deadline[t] < waitUntil => t \in newcomers
        /\ t \notin overslept

\* No task is forgotten: one that was accepted runs to its end, unless the
\* executor is stopped.
EveryTaskRuns == \A t \in Tasks : task[t] = "queued" ~> (task[t] = "done" \/ stop)

\* The destructor returns, whatever the thread was doing, with no task running.
DestructorReturns == stop ~> (joined /\ \A t \in Tasks : task[t] \notin {"queued", "running"})
=============================================================================
