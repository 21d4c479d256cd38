-------------------------- MODULE ThreadExecutors --------------------------
(***************************************************************************)
(* The two executors OSSClient::asyncCall and asyncCallback can be given:  *)
(* DefaultExecutor, a thread for each task, and PooledThreadExecutor, a    *)
(* fixed number of workers around a queue.  The client holds a reference   *)
(* to its executor; so does the closure of a task that captured the client *)
(* to keep it alive.  Whoever drops the last one runs the destructor, the  *)
(* thread of a task included.  A section under the mutex is one step; a    *)
(* call of notify_one is one of its own, since the mutex is free by then.  *)
(***************************************************************************)
EXTENDS Naturals, Sequences, FiniteSets

CONSTANTS
    Tasks,       \* the tasks that may be submitted
    PoolSize,    \* PooledThreadExecutor's poolSize
    Keepers      \* the tasks whose closure holds a reference to the client

(* Tasks have names of their own, apart from the threads' and the states'. *)
ASSUME ExecutorAssumption ==
    /\ PoolSize \in Nat \ {0}
    /\ Keepers \subseteq Tasks
    /\ Tasks \intersect (0 .. PoolSize) = {}
    /\ Tasks \intersect {"app", "look", "asleep", "exited"} = {}

Workers == 1 .. PoolSize

AppThread == 0

VARIABLES
    kind,        \* the executor in use: "default" or "pool"
    task,        \* where each task is, as in Executor
    calling,     \* who is inside execute, between unlock and notify_one
    refs,        \* who holds a reference: "app" and tasks
    stopped,     \* stopped_
    destructor,  \* "no", "joins", "returned" or "terminated"
    by,          \* the thread that runs it: AppThread, a worker, or a task's
    queue,       \* tasks_ of the pool
    worker,      \* what each worker is at: "look", "asleep", "exited" or a task
    threads,     \* threads_ of the default executor: the tasks whose thread it has
    thread,      \* the thread of each task: "none", "runs", "detached" or "gone"
    toJoin       \* the workers or threads the destructor has yet to join

appVars == <<kind, task, calling, refs>>
endVars == <<stopped, destructor, by, toJoin>>
poolVars == <<queue, worker>>
defaultVars == <<threads, thread>>
vars == <<appVars, endVars, poolVars, defaultVars>>

Init ==
    /\ kind \in {"default", "pool"}
    /\ task = [t \in Tasks |-> "idle"]
    /\ calling = {}
    /\ refs = {"app"}
    /\ stopped = FALSE
    /\ destructor = "no"
    /\ by = AppThread
    /\ queue = <<>>
    /\ worker = [w \in Workers |-> "look"]
    /\ threads = {}
    /\ thread = [t \in Tasks |-> "none"]
    /\ toJoin = {}

Alive == destructor # "terminated"

(* The thread a task that has begun is on. *)
ThreadOf(t) == IF kind = "pool" THEN CHOOSE w \in Workers : worker[w] = t ELSE t

(* A thread in the destructor does nothing else. *)
Busy(r) == destructor = "joins" /\ by = r

(* Callers: the application, as long as it holds the client, and the tasks *)
(* that run.                                                               *)
CanCall(c) ==
    /\ c \notin calling
    /\ \/ c = "app" /\ "app" \in refs
       \/ c \in Tasks /\ task[c] = "running" /\ ~Busy(ThreadOf(c))

Accepted(t) ==
    /\ task' = [task EXCEPT ![t] = "accepted"]
    /\ refs' = refs \cup ({t} \cap Keepers)

(* execute of a stopped executor: the task is destroyed, unrun. *)
ExecuteStopped(c, t) ==
    /\ Alive /\ CanCall(c) /\ task[t] = "idle" /\ stopped
    /\ task' = [task EXCEPT ![t] = "refused"]
    /\ UNCHANGED <<kind, calling, refs, endVars, poolVars, defaultVars>>

(* DefaultExecutor::execute: a thread, and its entry in threads_, under the mutex. *)
ExecuteDefault(c, t) ==
    /\ Alive /\ CanCall(c) /\ task[t] = "idle" /\ ~stopped
    /\ kind = "default"
    /\ Accepted(t)
    /\ threads' = threads \cup {t}
    /\ thread' = [thread EXCEPT ![t] = "runs"]
    /\ UNCHANGED <<kind, calling, endVars, poolVars>>

(* PooledThreadExecutor::execute, up to the unlock. *)
ExecutePooled(c, t) ==
    /\ Alive /\ CanCall(c) /\ task[t] = "idle" /\ ~stopped
    /\ kind = "pool"
    /\ Accepted(t)
    /\ queue' = Append(queue, t)
    /\ calling' = calling \cup {c}
    /\ UNCHANGED <<kind, endVars, worker, defaultVars>>

Woken(asleep) == worker' = [w \in Workers |-> IF w \in asleep THEN "look" ELSE worker[w]]

Asleep == {w \in Workers : worker[w] = "asleep"}

(* cv_.notify_one: wakes a sleeping worker if there is one. *)
NotifyOne(c) ==
    /\ Alive /\ c \in calling
    /\ calling' = calling \ {c}
    /\ \/ Asleep = {} /\ UNCHANGED worker
       \/ \E w \in Asleep : Woken({w})
    /\ UNCHANGED <<kind, task, refs, endVars, queue, defaultVars>>

(* Mutant of Dropped: the destructor of the default executor leaves its threads alone. *)
DroppedUnjoined(holder, r) ==
    /\ refs' = refs \ {holder}
    /\ IF refs' = {} /\ holder \in refs
       THEN /\ destructor' = "joins"
            /\ by' = r
            /\ stopped' = TRUE
            /\ toJoin' = IF kind = "pool" THEN Workers ELSE {}
            /\ UNCHANGED threads
       ELSE UNCHANGED <<endVars, threads>>

(* A reference is dropped by the thread r; the last one calls the destructor. *)
Dropped(holder, r) ==
    /\ refs' = refs \ {holder}
    /\ IF refs' = {} /\ holder \in refs
       THEN /\ destructor' = "joins"
            /\ by' = r
            /\ stopped' = TRUE
            /\ IF kind = "pool" THEN toJoin' = Workers /\ UNCHANGED threads
                                ELSE toJoin' = threads /\ threads' = {}
       ELSE UNCHANGED <<endVars, threads>>

AppDrops ==
    /\ Alive /\ "app" \in refs /\ "app" \notin calling
    /\ Dropped("app", AppThread)
    /\ UNCHANGED <<kind, task, calling, poolVars, thread>>

(* The task lets go of the client before it ends. *)
DropsInBody(t) ==
    /\ Alive /\ task[t] = "running" /\ t \in refs /\ t \notin calling
    /\ Dropped(t, ThreadOf(t))
    /\ UNCHANGED <<kind, task, calling, poolVars, thread>>

Start(t) == task' = [task EXCEPT ![t] = "running"]

Finish(t) == task[t] = "running" /\ t \notin calling /\ task' = [task EXCEPT ![t] = "done"]
-----------------------------------------------------------------------------
(* Mutant of Look: a worker exits as soon as the pool has stopped. *)
LookAtStopped(w) ==
    /\ Alive /\ kind = "pool" /\ worker[w] = "look"
    /\ \/ /\ queue # <<>> /\ ~stopped
          /\ worker' = [worker EXCEPT ![w] = Head(queue)]
          /\ Start(Head(queue))
          /\ queue' = Tail(queue)
       \/ /\ queue = <<>> \/ stopped
          /\ worker' = [worker EXCEPT ![w] = IF stopped THEN "exited" ELSE "asleep"]
          /\ UNCHANGED <<task, queue>>
    /\ UNCHANGED <<kind, calling, refs, endVars, defaultVars>>

(* PooledThreadExecutor::workerLoop: the wait's predicate and what follows it. *)
Look(w) ==
    /\ Alive /\ kind = "pool" /\ worker[w] = "look"
    /\ \/ /\ queue # <<>>
          /\ worker' = [worker EXCEPT ![w] = Head(queue)]
          /\ Start(Head(queue))
          /\ queue' = Tail(queue)
       \/ /\ queue = <<>> /\ stopped
          /\ worker' = [worker EXCEPT ![w] = "exited"]
          /\ UNCHANGED <<task, queue>>
       \/ /\ queue = <<>> /\ ~stopped
          /\ worker' = [worker EXCEPT ![w] = "asleep"]
          /\ UNCHANGED <<task, queue>>
    /\ UNCHANGED <<kind, calling, refs, endVars, defaultVars>>

WorkerFinishes(w) ==
    /\ Alive /\ worker[w] \in Tasks /\ ~Busy(w)
    /\ Finish(worker[w])
    /\ UNCHANGED <<kind, calling, refs, endVars, poolVars, defaultVars>>

(* The end of an iteration destroys the closure, on the worker. *)
ClosureDies(w) ==
    /\ Alive /\ worker[w] \in Tasks /\ task[worker[w]] = "done" /\ worker[w] \in refs
    /\ Dropped(worker[w], w)
    /\ UNCHANGED <<kind, task, calling, poolVars, thread>>

NextIteration(w) ==
    /\ Alive /\ worker[w] \in Tasks /\ task[worker[w]] = "done" /\ worker[w] \notin refs /\ ~Busy(w)
    /\ worker' = [worker EXCEPT ![w] = "look"]
    /\ UNCHANGED <<appVars, endVars, queue, defaultVars>>

(* The destructor, after its unlock.  Nobody falls asleep any more, so it  *)
(* makes no difference that notify_all comes before the first join.        *)
NotifyAll ==
    /\ destructor = "joins" /\ kind = "pool" /\ Asleep # {}
    /\ Woken(Asleep)
    /\ UNCHANGED <<appVars, endVars, queue, defaultVars>>

(* workers_ is joined in its order. *)
IsNext(w) == w \in toJoin /\ (kind = "pool" => \A v \in toJoin : w <= v)

JoinWorker ==
    /\ destructor = "joins" /\ kind = "pool"
    /\ \E w \in Workers : IsNext(w) /\ worker[w] = "exited" /\ toJoin' = toJoin \ {w}
    /\ UNCHANGED <<appVars, stopped, destructor, by, poolVars, defaultVars>>

(* A thread that joins itself: std::system_error out of a destructor. *)
JoinsItself ==
    /\ destructor = "joins" /\ IsNext(by)
    /\ destructor' = "terminated"
    /\ UNCHANGED <<appVars, stopped, by, toJoin, poolVars, defaultVars>>
-----------------------------------------------------------------------------
(* DefaultExecutor: the lambda of execute. *)
ThreadStarts(t) ==
    /\ Alive /\ kind = "default" /\ task[t] = "accepted"
    /\ Start(t)
    /\ UNCHANGED <<kind, calling, refs, endVars, poolVars, defaultVars>>

ThreadFinishes(t) ==
    /\ Alive /\ kind = "default" /\ ~Busy(t)
    /\ Finish(t)
    /\ UNCHANGED <<kind, calling, refs, endVars, poolVars, defaultVars>>

(* detach, called by the thread itself. *)
Detach(t) ==
    /\ Alive /\ kind = "default" /\ thread[t] = "runs" /\ task[t] = "done"
    /\ threads' = threads \ {t}
    /\ thread' = [thread EXCEPT ![t] = "detached"]
    /\ UNCHANGED <<appVars, endVars, poolVars>>

(* Mutant of LambdaDies: the task is destroyed before the thread detaches itself. *)
LambdaDiesAttached(t) ==
    /\ Alive /\ thread[t] = "runs" /\ task[t] = "done" /\ t \in refs
    /\ Dropped(t, t)
    /\ UNCHANGED <<kind, task, calling, poolVars, thread>>

(* The lambda, and the task captured in it, die with the thread. *)
LambdaDies(t) ==
    /\ Alive /\ thread[t] = "detached" /\ t \in refs
    /\ Dropped(t, t)
    /\ UNCHANGED <<kind, task, calling, poolVars, thread>>

ThreadEnds(t) ==
    /\ Alive /\ thread[t] = "detached" /\ t \notin refs /\ ~Busy(t)
    /\ thread' = [thread EXCEPT ![t] = "gone"]
    /\ UNCHANGED <<appVars, endVars, poolVars, threads>>

JoinThread ==
    /\ destructor = "joins" /\ kind = "default"
    /\ \E t \in toJoin : thread[t] = "gone" /\ toJoin' = toJoin \ {t}
    /\ UNCHANGED <<appVars, stopped, destructor, by, poolVars, defaultVars>>

Return ==
    /\ destructor = "joins" /\ toJoin = {}
    /\ destructor' = "returned"
    /\ UNCHANGED <<appVars, stopped, by, toJoin, poolVars, defaultVars>>
-----------------------------------------------------------------------------
Callers == {"app"} \cup Tasks

Execute == \E c \in Callers, t \in Tasks : ExecuteStopped(c, t) \/ ExecuteDefault(c, t) \/ ExecutePooled(c, t)

WorkerStep(w) == Look(w) \/ WorkerFinishes(w) \/ ClosureDies(w) \/ NextIteration(w)

ThreadStep(t) ==
    ThreadStarts(t) \/ ThreadFinishes(t) \/ Detach(t) \/ LambdaDies(t) \/ ThreadEnds(t)

DestructorStep == JoinWorker \/ NotifyAll \/ JoinsItself \/ JoinThread \/ Return

Next ==
    \/ Execute
    \/ \E c \in Callers : NotifyOne(c)
    \/ AppDrops
    \/ \E t \in Tasks : DropsInBody(t)
    \/ \E w \in Workers : WorkerStep(w)
    \/ \E t \in Tasks : ThreadStep(t)
    \/ DestructorStep

Spec == Init /\ [][Next]_vars

(* Threads are scheduled, and the tasks end.  Nobody has to submit a task  *)
(* or to drop the client.                                                  *)
FairSpec ==
    /\ Spec
    /\ \A c \in Callers : WF_vars(NotifyOne(c))
    /\ \A w \in Workers : WF_vars(WorkerStep(w))
    /\ \A t \in Tasks : WF_vars(ThreadStep(t))
    /\ WF_vars(DestructorStep)
-----------------------------------------------------------------------------
(* Both executors keep the promise of Executor.h: what they accept runs    *)
(* once, whether the destructor has begun or not, and the destructor waits *)
(* for it and returns.                                                     *)
Promise == INSTANCE Executor WITH
    task <- task,
    state <- CASE destructor = "no" -> "open"
               [] destructor = "joins" -> "closing"
               [] destructor = "returned" -> "closed"
               [] destructor = "terminated" -> "aborted"

KeepsPromise == Promise!Spec

(* When the destructor has returned, no thread will take the mutex, wait   *)
(* on the condition variable or look at the queue any more.                *)
QuietWhenGone ==
    destructor = "returned" =>
        /\ calling = {}
        /\ kind = "pool" => \A w \in Workers : worker[w] = "exited"
        /\ \A t \in Tasks : thread[t] # "runs"

(* The default executor survives a client that its last task kept alive:   *)
(* a thread detaches itself before it destroys the task, so only a task    *)
(* that drops the client in its body makes a thread join itself.  (A       *)
(* worker of the pool destroys the task it has run, and joins itself.)     *)
SurvivesItsTasks ==
    destructor = "terminated" /\ kind = "default" => task[by] = "running"
=============================================================================
