----------------------- MODULE ThreadExecutorsProofs -----------------------
(***************************************************************************)
(* Both thread executors, for any tasks and any size of the pool, with     *)
(* the last reference dropped anywhere.                                    *)
(***************************************************************************)
EXTENDS ThreadExecutors, SequenceTheorems, TLAPS

TaskStates == {"idle", "accepted", "running", "done", "refused"}

Typed ==
    /\ kind \in {"default", "pool"}
    /\ task \in [Tasks -> TaskStates]
    /\ destructor \in {"no", "joins", "returned", "terminated"}
    /\ queue \in Seq(Tasks)
    /\ worker \in [Workers -> {"look", "asleep", "exited"} \union Tasks]
    /\ thread \in [Tasks -> {"none", "runs", "detached", "gone"}]
    /\ stopped \in BOOLEAN
    /\ threads \subseteq Tasks
    /\ toJoin \subseteq (IF kind = "pool" THEN Workers ELSE Tasks)

\* The destructor runs once nobody refers to the client, and after it nothing
\* is accepted.
Ended ==
    /\ refs = {} <=> destructor # "no"
    /\ stopped <=> destructor # "no"
    /\ destructor = "returned" => toJoin = {}
    /\ destructor = "terminated" => by \in toJoin

\* A caller that has yet to notify keeps the pool's destructor away: it holds
\* the client, or a worker is running it.
Notifying ==
    \A c \in calling :
        /\ kind = "pool"
        /\ \/ c = "app" /\ "app" \in refs
           \/ c \in Tasks /\ task[c] = "running"

\* The default executor: every task that is still to end has its thread, which
\* is joined by the destructor unless it has detached itself.
DefaultInv ==
    kind = "default" =>
        /\ queue = <<>>
        /\ \A w \in Workers : worker[w] = "look"
        /\ \A t \in Tasks : task[t] \in {"accepted", "running"} => thread[t] = "runs"
        /\ \A t \in Tasks : thread[t] = "runs" => t \in IF destructor = "no" THEN threads ELSE toJoin
        /\ \A t \in threads : thread[t] = "runs"
        /\ destructor # "no" /\ by \in toJoin => task[by] = "running"

Queued(t) == \E i \in 1 .. Len(queue) : queue[i] = t

\* The pool: what is accepted is in the queue, once, and what runs is on a
\* worker, on one; a worker exits from an empty queue that stays empty.
PoolInv ==
    kind = "pool" =>
        /\ \A t \in Tasks : task[t] = "accepted" <=> Queued(t)
        /\ \A i, j \in 1 .. Len(queue) : queue[i] = queue[j] => i = j
        /\ \A w \in Workers : worker[w] \in Tasks => task[worker[w]] \in {"running", "done"}
        /\ \A t \in Tasks : task[t] = "running" => \E w \in Workers : worker[w] = t
        /\ \A w \in Workers : worker[w] = "exited" => stopped /\ queue = <<>>
        /\ destructor # "no" => \A w \in Workers \ toJoin : worker[w] = "exited"
        /\ \A t \in Tasks : thread[t] = "none"

Inv == Typed /\ Ended /\ Notifying /\ DefaultInv /\ PoolInv

LEMMA NamesDiffer ==
    /\ "app" \notin Tasks /\ "look" \notin Tasks /\ "asleep" \notin Tasks /\ "exited" \notin Tasks
    /\ AppThread \notin Tasks
    /\ \A w \in Workers : w \notin Tasks
BY ExecutorAssumption DEF AppThread, Workers

LEMMA InvInit == Init => Inv
<1> SUFFICES ASSUME Init PROVE Inv
  OBVIOUS
<1>1. Typed
  BY EmptySeq DEF Init, Typed, TaskStates
<1>2. Len(queue) = 0
  BY EmptySeq DEF Init
<1>3. Ended /\ Notifying /\ DefaultInv
  BY DEF Init, Ended, Notifying, DefaultInv
<1>4. PoolInv
  BY <1>2, NamesDiffer DEF Init, PoolInv, Queued
<1> QED
  BY <1>1, <1>3, <1>4 DEF Inv

-----------------------------------------------------------------------------
(* Dropping a reference.                                                   *)

LEMMA DroppedStep ==
    ASSUME Inv, NEW holder, NEW r, Dropped(holder, r),
           UNCHANGED <<kind, task, calling, queue, worker, thread>>,
           holder = "app" => "app" \notin calling,
           kind = "default" /\ r \in threads => task[r] = "running"
    PROVE  Inv'
<1>1. refs' = refs \ {holder}
  BY DEF Dropped
<1>2. Notifying'
  BY <1>1, NamesDiffer DEF Inv, Notifying
<1>3. CASE refs' = {} /\ holder \in refs
  <2>1. /\ destructor' = "joins" /\ stopped' = TRUE /\ by' = r
        /\ toJoin' = IF kind = "pool" THEN Workers ELSE threads
        /\ threads' = IF kind = "pool" THEN threads ELSE {}
    BY <1>3 DEF Dropped
  <2>2. destructor = "no" /\ ~ stopped
    BY <1>3 DEF Inv, Ended
  <2>3. Typed' /\ Ended'
    BY <1>3, <2>1 DEF Inv, Typed, Ended
  <2>4. DefaultInv'
    BY <2>1, <2>2 DEF Inv, Typed, DefaultInv
  <2>5. PoolInv'
    BY <2>1, <2>2 DEF Inv, Typed, PoolInv, Queued
  <2> QED
    BY <1>2, <2>3, <2>4, <2>5 DEF Inv
<1>4. CASE ~ (refs' = {} /\ holder \in refs)
  <2>1. UNCHANGED <<stopped, destructor, by, toJoin, threads>>
    BY <1>4 DEF Dropped, endVars
  <2>2. refs' = {} <=> refs = {}
    BY <1>1, <1>4
  <2>3. Typed' /\ Ended' /\ DefaultInv'
    BY <2>1, <2>2 DEF Inv, Typed, Ended, DefaultInv
  <2>4. PoolInv'
    BY <2>1 DEF Inv, PoolInv, Queued
  <2> QED
    BY <1>2, <2>3, <2>4 DEF Inv
<1> QED
  BY <1>3, <1>4

LEMMA DropStep ==
    ASSUME Inv, \/ AppDrops
                \/ \E t \in Tasks : DropsInBody(t) \/ LambdaDies(t)
                \/ \E w \in Workers : ClosureDies(w)
    PROVE  Inv'
<1>1. CASE AppDrops
  BY <1>1, DroppedStep, NamesDiffer DEF AppDrops, poolVars, Inv, Typed
<1>2. ASSUME NEW t \in Tasks, DropsInBody(t) PROVE Inv'
  <2>1. kind = "default" => ThreadOf(t) = t
    BY DEF ThreadOf
  <2> QED
    BY <1>2, <2>1, DroppedStep, NamesDiffer DEF DropsInBody, poolVars
<1>3. ASSUME NEW t \in Tasks, LambdaDies(t) PROVE Inv'
  <2>1. t \notin threads \/ kind # "default"
    BY <1>3 DEF LambdaDies, Inv, DefaultInv
  <2> QED
    BY <1>3, <2>1, DroppedStep, NamesDiffer DEF LambdaDies, poolVars
<1>4. ASSUME NEW w \in Workers, ClosureDies(w) PROVE Inv'
  <2>1. worker[w] \in Tasks /\ w \notin Tasks
    BY <1>4, NamesDiffer DEF ClosureDies
  <2>2. threads \subseteq Tasks
    BY DEF Inv, Typed
  <2> QED
    BY <1>4, <2>1, <2>2, DroppedStep, NamesDiffer DEF ClosureDies, poolVars
<1> QED
  BY <1>1, <1>2, <1>3, <1>4
-----------------------------------------------------------------------------
(* The steps of the pool.                                                  *)

LEMMA PooledStep ==
    ASSUME Inv, NEW c \in Callers, NEW t \in Tasks, ExecutePooled(c, t)
    PROVE  Inv'
<1>1. /\ kind = "pool" /\ kind' = kind /\ ~ stopped /\ task[t] = "idle"
      /\ queue \in Seq(Tasks) /\ task \in [Tasks -> TaskStates]
      /\ task' = [task EXCEPT ![t] = "accepted"]
      /\ queue' = Append(queue, t)
      /\ UNCHANGED <<stopped, destructor, by, toJoin, worker, threads, thread>>
  BY DEF ExecutePooled, Inv, Typed, Accepted, endVars, defaultVars
<1>2. /\ queue' \in Seq(Tasks) /\ Len(queue) \in Nat /\ Len(queue') = Len(queue) + 1
      /\ \A i \in 1 .. Len(queue) : queue'[i] = queue[i]
      /\ queue'[Len(queue) + 1] = t
  BY <1>1, AppendProperties, LenProperties
<1>3. destructor = "no" /\ refs # {}
  BY <1>1 DEF Inv, Ended
<1>4. refs' # {} /\ ("app" \in refs => "app" \in refs')
  BY <1>3 DEF ExecutePooled, Accepted
<1>5. Typed'
  BY ONLY Inv, <1>1, <1>2 DEF Inv, Typed, TaskStates
<1>6. Ended'
  BY ONLY <1>1, <1>3, <1>4 DEF Ended
<1>7. Notifying'
  <2>1. calling' = calling \union {c} /\ CanCall(c)
    BY DEF ExecutePooled
  <2>2. \/ c = "app" /\ "app" \in refs
        \/ c \in Tasks /\ task[c] = "running"
    BY <2>1 DEF CanCall
  <2> QED
    BY <1>1, <1>4, <2>1, <2>2 DEF Inv, Notifying
<1>8. DefaultInv'
  BY <1>1 DEF DefaultInv
<1>9. PoolInv'
  <2>1. \A i \in 1 .. Len(queue) : queue[i] # t
    BY <1>1 DEF Inv, PoolInv, Queued
  <2>2. \A u \in Tasks : Queued(u)' <=> Queued(u) \/ u = t
    BY <1>2 DEF Queued
  <2>3. \A u \in Tasks : task'[u] = "accepted" <=> Queued(u)'
    BY <1>1, <2>2 DEF Inv, PoolInv
  <2>4. \A i, j \in 1 .. Len(queue') : queue'[i] = queue'[j] => i = j
    <3>1. \A i, j \in 1 .. Len(queue) : queue[i] = queue[j] => i = j
      BY <1>1 DEF Inv, PoolInv
    <3> QED
      BY ONLY <3>1, <2>1, <1>2
  <2>5. \A w \in Workers : worker[w] \in Tasks => task'[worker[w]] \in {"running", "done"}
    BY <1>1 DEF Inv, PoolInv
  <2>6. \A u \in Tasks : task'[u] = "running" => \E w \in Workers : worker[w] = u
    BY <1>1 DEF Inv, PoolInv
  <2> QED
    BY <1>1, <1>3, <2>3, <2>4, <2>5, <2>6 DEF Inv, PoolInv
<1> QED
  BY <1>5, <1>6, <1>7, <1>8, <1>9 DEF Inv

LEMMA NotifyStep ==
    ASSUME Inv, NEW who, who \subseteq Asleep, kind = "pool",
           \/ Woken(who)
           \/ UNCHANGED worker,
           calling' \subseteq calling,
           UNCHANGED <<kind, task, refs, endVars, queue, defaultVars>>
    PROVE  Inv'
<1>1. /\ UNCHANGED <<kind, task, refs, stopped, destructor, by, toJoin, queue, threads, thread>>
      /\ worker \in [Workers -> {"look", "asleep", "exited"} \union Tasks]
  BY DEF endVars, defaultVars, Inv, Typed
<1>2. /\ worker' \in [Workers -> {"look", "asleep", "exited"} \union Tasks]
      /\ \A w \in Workers : worker'[w] = worker[w] \/ (worker[w] = "asleep" /\ worker'[w] = "look")
  BY <1>1 DEF Woken, Asleep
<1>3. Typed' /\ Ended' /\ Notifying' /\ DefaultInv'
  BY <1>1, <1>2 DEF Inv, Typed, Ended, Notifying, DefaultInv
<1>4. PoolInv'
  <2>1. \A u \in Tasks : Queued(u)' <=> Queued(u)
    BY <1>1 DEF Queued
  <2>2. \A w \in Workers : worker'[w] \in Tasks => worker'[w] = worker[w]
    BY <1>2, NamesDiffer
  <2>3. \A w \in Workers : worker[w] \in Tasks => worker'[w] = worker[w]
    BY <1>2, NamesDiffer
  <2>4. \A w \in Workers : worker'[w] = "exited" <=> worker[w] = "exited"
    BY <1>2
  <2> QED
    BY <1>1, <2>1, <2>2, <2>3, <2>4 DEF Inv, PoolInv
<1> QED
  BY <1>3, <1>4 DEF Inv

LEMMA LookStep ==
    ASSUME Inv, NEW w \in Workers, Look(w)
    PROVE  Inv'
<1>1. /\ kind = "pool" /\ worker[w] = "look"
      /\ queue \in Seq(Tasks) /\ task \in [Tasks -> TaskStates]
      /\ worker \in [Workers -> {"look", "asleep", "exited"} \union Tasks]
      /\ UNCHANGED <<kind, calling, refs, stopped, destructor, by, toJoin, threads, thread>>
  BY DEF Look, Inv, Typed, endVars, defaultVars
<1>2. Ended' /\ DefaultInv'
  BY <1>1 DEF Inv, Ended, DefaultInv
<1>3. CASE queue # <<>> /\ worker' = [worker EXCEPT ![w] = Head(queue)]
           /\ Start(Head(queue)) /\ queue' = Tail(queue)
  <2> DEFINE h == Head(queue)
  <2>1. /\ h \in Tasks /\ queue' \in Seq(Tasks) /\ Len(queue) \in Nat \ {0}
        /\ Len(queue') = Len(queue) - 1
        /\ \A i \in 1 .. Len(queue') : queue'[i] = queue[i + 1]
        /\ queue[1] = h
    BY <1>1, <1>3, HeadTailProperties, EmptySeq, LenProperties
  <2>2. task' = [task EXCEPT ![h] = "running"]
    BY <1>3 DEF Start
  <2>3. worker' = [worker EXCEPT ![w] = h]
    BY <1>3
  <2> HIDE DEF h
  <2>4. Typed'
    BY <1>1, <2>1, <2>2, <2>3 DEF Inv, Typed, TaskStates
  <2>5. Notifying'
    BY <1>1, <2>1, <2>2 DEF Inv, Notifying
  <2>6. \A i, j \in 1 .. Len(queue) : queue[i] = queue[j] => i = j
    BY <1>1 DEF Inv, PoolInv
  <2>7. \A i, j \in 1 .. Len(queue') : queue'[i] = queue'[j] => i = j
    <3> SUFFICES ASSUME NEW i \in 1 .. Len(queue'), NEW j \in 1 .. Len(queue'),
                        queue'[i] = queue'[j]
                 PROVE  i = j
      OBVIOUS
    <3>1. i + 1 \in 1 .. Len(queue) /\ j + 1 \in 1 .. Len(queue) /\ queue[i + 1] = queue[j + 1]
      BY <2>1
    <3> QED
      BY <3>1, <2>6
  <2>8. \A t \in Tasks : Queued(t)' <=> Queued(t) /\ t # h
    <3>1. \A t \in Tasks : Queued(t)' => Queued(t) /\ t # h
      <4> SUFFICES ASSUME NEW t \in Tasks, NEW i \in 1 .. Len(queue'), queue'[i] = t
                   PROVE  Queued(t) /\ t # h
        BY DEF Queued
      <4>1. i + 1 \in 1 .. Len(queue) /\ 1 \in 1 .. Len(queue) /\ queue[i + 1] = t /\ i + 1 # 1
        BY <2>1
      <4> QED
        BY <4>1, <2>1, <2>6 DEF Queued
    <3>2. \A t \in Tasks : Queued(t) /\ t # h => Queued(t)'
      <4> SUFFICES ASSUME NEW t \in Tasks, NEW i \in 1 .. Len(queue), queue[i] = t, t # h
                   PROVE  Queued(t)'
        BY DEF Queued
      <4>1. i - 1 \in 1 .. Len(queue') /\ queue'[i - 1] = t
        <5>1. i - 1 \in 1 .. Len(queue')
          BY <2>1
        <5>2. queue'[i - 1] = queue[(i - 1) + 1]
          BY <5>1, <2>1
        <5> QED
          BY <5>1, <5>2
      <4> QED
        BY <4>1 DEF Queued
    <3> QED
      BY <3>1, <3>2
  <2>9. Queued(h)
    BY <2>1 DEF Queued
  <2>10. \A t \in Tasks : task'[t] = "accepted" <=> Queued(t)'
    BY <1>1, <2>1, <2>2, <2>8, <2>9 DEF Inv, PoolInv
  <2>11. /\ \A v \in Workers : worker'[v] \in Tasks => task'[worker'[v]] \in {"running", "done"}
         /\ \A t \in Tasks : task'[t] = "running" => \E v \in Workers : worker'[v] = t
    <3>1. \A t \in Tasks : task'[t] = IF t = h THEN "running" ELSE task[t]
      BY <1>1, <2>2
    <3>2. \A v \in Workers : worker'[v] = IF v = w THEN h ELSE worker[v]
      BY <1>1, <2>3
    <3>3. /\ \A v \in Workers : worker[v] \in Tasks => task[worker[v]] \in {"running", "done"}
          /\ \A t \in Tasks : task[t] = "running" => \E v \in Workers : worker[v] = t
      BY <1>1 DEF Inv, PoolInv
    <3>4. \A t \in Tasks : worker[w] # t
      BY <1>1, NamesDiffer
    <3> QED
      BY ONLY <3>1, <3>2, <3>3, <3>4, <2>1
  <2>12. \A v \in Workers : worker[v] # "exited"
    BY <1>1, <1>3 DEF Inv, PoolInv
  <2>13. \A v \in Workers : worker'[v] # "exited"
    BY <1>1, <2>1, <2>3, <2>12, NamesDiffer
  <2>14. destructor # "no" => Workers \ toJoin = {}
    BY <1>1, <2>12 DEF Inv, PoolInv
  <2>15. PoolInv'
    BY <1>1, <2>7, <2>10, <2>11, <2>13, <2>14 DEF Inv, PoolInv
  <2> QED
    BY <1>2, <2>4, <2>5, <2>15 DEF Inv
<1>4. CASE queue = <<>> /\ UNCHANGED <<task, queue>>
           /\ \/ stopped /\ worker' = [worker EXCEPT ![w] = "exited"]
              \/ ~ stopped /\ worker' = [worker EXCEPT ![w] = "asleep"]
  <2>1. Typed' /\ Notifying'
    BY <1>1, <1>4 DEF Inv, Typed, Notifying
  <2>2. /\ \A v \in Workers : v # w => worker'[v] = worker[v]
        /\ worker'[w] \in {"exited", "asleep"} /\ (worker'[w] = "exited" => stopped)
    BY <1>1, <1>4
  <2>3. \A v \in Workers : \A t \in Tasks : worker'[v] = t <=> worker[v] = t
    BY <1>1, <2>2, NamesDiffer
  <2>4. \A t \in Tasks : Queued(t)' <=> Queued(t)
    BY <1>4 DEF Queued
  <2>5. /\ \A v \in Workers : worker'[v] = "exited" => stopped /\ queue = <<>>
        /\ destructor # "no" => \A v \in Workers \ toJoin : worker'[v] = "exited"
    BY <1>1, <1>4, <2>2 DEF Inv, PoolInv
  <2>6. PoolInv'
    BY <1>1, <1>4, <2>3, <2>4, <2>5 DEF Inv, PoolInv
  <2> QED
    BY <1>2, <2>1, <2>6 DEF Inv
<1> QED
  BY <1>1, <1>3, <1>4 DEF Look

LEMMA FinishStep ==
    ASSUME Inv, NEW w \in Workers, WorkerFinishes(w)
    PROVE  Inv'
<1> DEFINE t == worker[w]
<1>1. /\ t \in Tasks /\ task[t] = "running" /\ t \notin calling
      /\ task \in [Tasks -> TaskStates]
      /\ task' = [task EXCEPT ![t] = "done"]
      /\ UNCHANGED <<kind, calling, refs, stopped, destructor, by, toJoin, queue, worker, threads, thread>>
  BY DEF WorkerFinishes, Finish, Inv, Typed, endVars, poolVars, defaultVars
<1>2. kind = "pool"
  BY <1>1, NamesDiffer DEF Inv, Typed, DefaultInv
<1> HIDE DEF t
<1>3. Typed' /\ Ended' /\ Notifying' /\ DefaultInv'
  BY <1>1, <1>2, NamesDiffer DEF Inv, Typed, Ended, Notifying, DefaultInv, TaskStates
<1>4. \A u \in Tasks : Queued(u)' <=> Queued(u)
  BY <1>1 DEF Queued
<1>5. PoolInv'
  BY <1>1, <1>2, <1>4 DEF Inv, PoolInv
<1> QED
  BY <1>3, <1>5 DEF Inv

LEMMA NextIterationStep ==
    ASSUME Inv, NEW w \in Workers, NextIteration(w)
    PROVE  Inv'
<1>1. /\ worker[w] \in Tasks /\ task[worker[w]] = "done"
      /\ worker \in [Workers -> {"look", "asleep", "exited"} \union Tasks]
      /\ worker' = [worker EXCEPT ![w] = "look"]
      /\ UNCHANGED <<kind, task, calling, refs, stopped, destructor, by, toJoin, queue, threads, thread>>
  BY DEF NextIteration, Inv, Typed, appVars, endVars, defaultVars
<1>2. kind = "pool"
  BY <1>1, NamesDiffer DEF Inv, Typed, DefaultInv
<1>3. Typed' /\ Ended' /\ Notifying' /\ DefaultInv'
  BY <1>1, <1>2, NamesDiffer DEF Inv, Typed, Ended, Notifying, DefaultInv, TaskStates
<1>4. \A u \in Tasks : Queued(u)' <=> Queued(u)
  BY <1>1 DEF Queued
<1>5. /\ \A v \in Workers : v # w => worker'[v] = worker[v]
      /\ worker'[w] = "look" /\ worker[w] # "exited" /\ "look" \notin Tasks
  BY <1>1, NamesDiffer
<1>6. PoolInv'
  BY <1>1, <1>2, <1>4, <1>5 DEF Inv, PoolInv
<1> QED
  BY <1>3, <1>6 DEF Inv
-----------------------------------------------------------------------------
(* The steps of the default executor.                                      *)

LEMMA RefusedStep ==
    ASSUME Inv, NEW c \in Callers, NEW t \in Tasks, ExecuteStopped(c, t)
    PROVE  Inv'
<1>1. /\ task[t] = "idle" /\ task \in [Tasks -> TaskStates]
      /\ task' = [task EXCEPT ![t] = "refused"]
      /\ UNCHANGED <<kind, calling, refs, stopped, destructor, by, toJoin, queue, worker, threads, thread>>
  BY DEF ExecuteStopped, Inv, Typed, endVars, poolVars, defaultVars
<1>2. Typed' /\ Ended' /\ Notifying'
  BY <1>1 DEF Inv, Typed, Ended, Notifying, TaskStates
<1>3. DefaultInv'
  BY <1>1 DEF Inv, DefaultInv, Typed
<1>4. \A u \in Tasks : Queued(u)' <=> Queued(u)
  BY <1>1 DEF Queued
<1>5. PoolInv'
  BY <1>1, <1>4 DEF Inv, PoolInv
<1> QED
  BY <1>2, <1>3, <1>5 DEF Inv

LEMMA AcceptedStep ==
    ASSUME Inv, NEW c \in Callers, NEW t \in Tasks, ExecuteDefault(c, t)
    PROVE  Inv'
<1>1. /\ kind = "default" /\ ~ stopped /\ task[t] = "idle"
      /\ task \in [Tasks -> TaskStates]
      /\ thread \in [Tasks -> {"none", "runs", "detached", "gone"}]
      /\ task' = [task EXCEPT ![t] = "accepted"]
      /\ refs' = refs \union ({t} \cap Keepers)
      /\ threads' = threads \union {t}
      /\ thread' = [thread EXCEPT ![t] = "runs"]
      /\ UNCHANGED <<kind, calling, stopped, destructor, by, toJoin, queue, worker>>
  BY DEF ExecuteDefault, Accepted, Inv, Typed, endVars, poolVars
<1>2. destructor = "no" /\ refs # {} /\ refs' # {}
  BY <1>1 DEF Inv, Ended
<1>3. Typed' /\ Ended' /\ Notifying'
  BY <1>1, <1>2 DEF Inv, Typed, Ended, Notifying, TaskStates
<1>4. DefaultInv'
  BY <1>1, <1>2 DEF Inv, DefaultInv
<1>5. PoolInv'
  BY <1>1 DEF PoolInv
<1> QED
  BY <1>3, <1>4, <1>5 DEF Inv

LEMMA ThreadStepKeepsInv ==
    ASSUME Inv, NEW t \in Tasks,
           ThreadStarts(t) \/ ThreadFinishes(t) \/ Detach(t) \/ ThreadEnds(t)
    PROVE  Inv'
<1>1. /\ task \in [Tasks -> TaskStates]
      /\ thread \in [Tasks -> {"none", "runs", "detached", "gone"}]
  BY DEF Inv, Typed
<1>2. kind = "default" /\ UNCHANGED kind
  BY DEF ThreadStarts, ThreadFinishes, Detach, ThreadEnds, appVars, Inv, Typed, PoolInv
<1>3. PoolInv'
  BY <1>2 DEF PoolInv
<1>4. Typed' /\ Ended' /\ DefaultInv'
  <2>1. CASE ThreadStarts(t)
    <3>1. /\ task[t] = "accepted" /\ task' = [task EXCEPT ![t] = "running"]
          /\ UNCHANGED <<refs, stopped, destructor, by, toJoin, queue, worker, threads, thread>>
      BY <2>1 DEF ThreadStarts, Start, endVars, poolVars, defaultVars
    <3> QED
      BY <1>1, <1>2, <3>1 DEF Inv, Typed, Ended, DefaultInv, TaskStates
  <2>2. CASE ThreadFinishes(t)
    <3>1. /\ task[t] = "running" /\ task' = [task EXCEPT ![t] = "done"]
          /\ ~ (destructor = "joins" /\ by = t) /\ destructor # "terminated"
          /\ UNCHANGED <<refs, stopped, destructor, by, toJoin, queue, worker, threads, thread>>
      BY <2>2 DEF ThreadFinishes, Finish, Busy, Alive, endVars, poolVars, defaultVars
    <3>2. Typed' /\ Ended'
      BY <1>1, <1>2, <3>1 DEF Inv, Typed, Ended, TaskStates
    <3>3. by \in toJoin /\ destructor # "no" => by # t
      BY <3>1 DEF Inv, Typed, Ended
    <3>4. DefaultInv'
      BY <1>1, <1>2, <3>1, <3>3 DEF Inv, DefaultInv
    <3> QED
      BY <3>2, <3>4
  <2>3. CASE Detach(t)
    <3>1. /\ thread[t] = "runs" /\ task[t] = "done" /\ destructor # "terminated"
          /\ threads' = threads \ {t}
          /\ thread' = [thread EXCEPT ![t] = "detached"]
          /\ UNCHANGED <<task, refs, stopped, destructor, by, toJoin, queue, worker>>
      BY <2>3 DEF Detach, Alive, appVars, endVars, poolVars
    <3>2. Typed' /\ Ended'
      BY <1>1, <1>2, <3>1 DEF Inv, Typed, Ended
    <3>3. DefaultInv'
      BY <1>1, <1>2, <3>1 DEF Inv, DefaultInv
    <3> QED
      BY <3>2, <3>3
  <2>4. CASE ThreadEnds(t)
    <3>1. /\ thread[t] = "detached" /\ thread' = [thread EXCEPT ![t] = "gone"]
          /\ UNCHANGED <<task, refs, stopped, destructor, by, toJoin, queue, worker, threads>>
      BY <2>4 DEF ThreadEnds, appVars, endVars, poolVars
    <3>2. Typed' /\ Ended'
      BY <1>1, <1>2, <3>1 DEF Inv, Typed, Ended
    <3>3. DefaultInv'
      BY <1>1, <1>2, <3>1 DEF Inv, DefaultInv
    <3> QED
      BY <3>2, <3>3
  <2> QED
    BY <2>1, <2>2, <2>3, <2>4
<1>5. calling = {} /\ calling' = calling
  BY <1>2 DEF Inv, Notifying, ThreadStarts, ThreadFinishes, Detach, ThreadEnds, appVars
<1>6. Notifying'
  BY <1>5 DEF Notifying
<1> QED
  BY <1>3, <1>4, <1>6 DEF Inv
-----------------------------------------------------------------------------
(* The destructor.                                                         *)

LEMMA DestructorKeepsInv ==
    ASSUME Inv, JoinWorker \/ JoinsItself \/ JoinThread \/ Return
    PROVE  Inv'
<1>1. /\ UNCHANGED <<kind, task, calling, refs, stopped, by, queue, worker, threads, thread>>
      /\ destructor = "joins"
  BY DEF JoinWorker, JoinsItself, JoinThread, Return, appVars, poolVars, defaultVars
<1>2. /\ toJoin' \subseteq toJoin
      /\ destructor' \in {"joins", "returned", "terminated"}
      /\ destructor' = "returned" => toJoin' = {}
      /\ destructor' = "terminated" => by' \in toJoin'
  BY <1>1 DEF JoinWorker, JoinsItself, JoinThread, Return, IsNext
<1>3. Typed' /\ Ended' /\ Notifying'
  BY <1>1, <1>2 DEF Inv, Typed, Ended, Notifying
<1>4. \A u \in toJoin \ toJoin' : IF kind = "pool" THEN worker[u] = "exited" ELSE thread[u] = "gone"
  <2>1. CASE JoinWorker
    BY <2>1 DEF JoinWorker
  <2>2. CASE JoinThread
    BY <2>2 DEF JoinThread
  <2>3. CASE JoinsItself \/ Return
    BY <2>3 DEF JoinsItself, Return
  <2> QED
    BY <2>1, <2>2, <2>3
<1>5. DefaultInv'
  <2> SUFFICES ASSUME kind = "default" PROVE DefaultInv'
    BY <1>1 DEF DefaultInv
  <2>1. \A t \in Tasks : thread[t] = "runs" => t \in toJoin'
    BY <1>1, <1>4 DEF Inv, DefaultInv
  <2> QED
    BY <1>1, <1>2, <2>1 DEF Inv, DefaultInv
<1>6. PoolInv'
  <2> SUFFICES ASSUME kind = "pool" PROVE PoolInv'
    BY <1>1 DEF PoolInv, Inv, Typed
  <2>1. \A u \in Tasks : Queued(u)' <=> Queued(u)
    BY <1>1 DEF Queued
  <2>2. \A w \in Workers \ toJoin' : worker[w] = "exited"
    BY <1>1, <1>4 DEF Inv, PoolInv
  <2> QED
    BY <1>1, <2>1, <2>2 DEF Inv, PoolInv
<1> QED
  BY <1>3, <1>5, <1>6 DEF Inv
-----------------------------------------------------------------------------
LEMMA InvStep == Inv /\ [Next]_vars => Inv'
<1> SUFFICES ASSUME Inv, [Next]_vars PROVE Inv'
  OBVIOUS
<1>1. CASE Execute
  <2>1. PICK c \in Callers, t \in Tasks :
            ExecuteStopped(c, t) \/ ExecuteDefault(c, t) \/ ExecutePooled(c, t)
    BY <1>1 DEF Execute
  <2> QED
    BY <2>1, RefusedStep, AcceptedStep, PooledStep
<1>2. ASSUME NEW c \in Callers, NotifyOne(c) PROVE Inv'
  <2>1. kind = "pool"
    BY <1>2 DEF NotifyOne, Inv, Notifying
  <2>2. calling' \subseteq calling /\ UNCHANGED <<kind, task, refs, endVars, queue, defaultVars>>
    BY <1>2 DEF NotifyOne
  <2>3. CASE UNCHANGED worker
    BY <2>1, <2>2, <2>3, NotifyStep, {} \subseteq Asleep
  <2>4. ASSUME NEW w \in Asleep, Woken({w}) PROVE Inv'
    BY <2>1, <2>2, <2>4, NotifyStep, {w} \subseteq Asleep
  <2> QED
    BY <1>2, <2>3, <2>4 DEF NotifyOne
<1>3. CASE NotifyAll
  BY <1>3, NotifyStep, Asleep \subseteq Asleep DEF NotifyAll, appVars
<1>4. CASE \E w \in Workers : WorkerStep(w)
  BY <1>4, LookStep, FinishStep, NextIterationStep, DropStep DEF WorkerStep
<1>5. CASE \E t \in Tasks : ThreadStep(t)
  BY <1>5, ThreadStepKeepsInv, DropStep DEF ThreadStep
<1>6. CASE AppDrops \/ \E t \in Tasks : DropsInBody(t)
  BY <1>6, DropStep
<1>7. CASE JoinWorker \/ JoinsItself \/ JoinThread \/ Return
  BY <1>7, DestructorKeepsInv
<1>8. CASE UNCHANGED vars
  <2>1. UNCHANGED <<kind, task, calling, refs, stopped, destructor, by, toJoin,
                    queue, worker, threads, thread>>
    BY <1>8 DEF vars, appVars, endVars, poolVars, defaultVars
  <2>2. \A u \in Tasks : Queued(u)' <=> Queued(u)
    BY <2>1 DEF Queued
  <2>3. Typed' /\ Ended' /\ Notifying' /\ DefaultInv'
    BY <2>1 DEF Inv, Typed, Ended, Notifying, DefaultInv
  <2>4. PoolInv'
    BY <2>1, <2>2 DEF Inv, PoolInv
  <2> QED
    BY <2>3, <2>4 DEF Inv
<1> QED
  BY <1>1, <1>2, <1>3, <1>4, <1>5, <1>6, <1>7, <1>8 DEF Next, DestructorStep

LEMMA Invariance == Spec => []Inv
BY InvInit, InvStep, PTL DEF Spec

\* Whoever has been accepted or runs has a thread that is yet to be joined, or
\* is in a queue that a worker will still look at.
LEMMA NothingLeft ==
    ASSUME Inv, destructor # "no", toJoin = {}
    PROVE  /\ calling = {}
           /\ \A t \in Tasks : task[t] \notin {"accepted", "running"}
           /\ \A t \in Tasks : thread[t] # "runs"
           /\ kind = "pool" => \A w \in Workers : worker[w] = "exited"
<1>1. CASE kind = "default"
  BY <1>1 DEF Inv, DefaultInv, Notifying
<1>2. CASE kind = "pool"
  <2>1. \A w \in Workers : worker[w] = "exited"
    BY <1>2 DEF Inv, PoolInv
  <2>2. 1 \in Workers
    BY ExecutorAssumption DEF Workers
  <2>3. Len(queue) = 0
    BY <1>2, <2>1, <2>2, EmptySeq DEF Inv, PoolInv
  <2>4. \A t \in Tasks : task[t] # "accepted"
    BY <1>2, <2>3 DEF Inv, PoolInv, Queued
  <2>5. \A t \in Tasks : task[t] # "running"
    BY <1>2, <2>1, NamesDiffer DEF Inv, PoolInv
  <2>6. calling = {}
    BY <2>5 DEF Inv, Notifying, Ended
  <2> QED
    BY <1>2, <2>1, <2>4, <2>5, <2>6 DEF Inv, PoolInv
<1> QED
  BY <1>1, <1>2 DEF Inv, Typed

\* When the destructor of either executor has returned, no thread of it is
\* left to take the mutex, wait or look at the queue, and no caller is inside
\* execute.
THEOREM GoneIsQuiet == Spec => []QuietWhenGone
<1>1. Inv => QuietWhenGone
  BY NothingLeft DEF Inv, Ended, QuietWhenGone
<1> QED
  BY <1>1, Invariance, PTL

\* A thread of the default executor joins itself only if a task drops the
\* client in its body: the closure of a task that has run never does it.
THEOREM ClosuresAreHarmless == Spec => []SurvivesItsTasks
<1>1. Inv => SurvivesItsTasks
  BY DEF Inv, Ended, DefaultInv, SurvivesItsTasks
<1> QED
  BY <1>1, Invariance, PTL
-----------------------------------------------------------------------------
(* The refinement.                                                         *)

\* A thread that is still at work keeps the destructor from returning.
LEMMA AtWork ==
    ASSUME Inv, Alive,
           \/ \E t \in Tasks : task[t] \in {"accepted", "running"}
           \/ kind = "pool" /\ \E w \in Workers : worker[w] # "exited"
    PROVE  destructor \in {"no", "joins"}
BY NothingLeft DEF Alive, Inv, Typed, Ended

LEMMA MoveMaps ==
    ASSUME NEW t \in Tasks, destructor \in {"no", "joins"}, UNCHANGED destructor,
           \/ /\ task[t] = "accepted" /\ task' = [task EXCEPT ![t] = "running"]
           \/ /\ task[t] = "running" /\ task' = [task EXCEPT ![t] = "done"]
           \/ /\ destructor = "no"
              /\ task[t] = "idle" /\ task' = [task EXCEPT ![t] = "accepted"]
           \/ /\ destructor = "joins"
              /\ task[t] = "idle" /\ task' = [task EXCEPT ![t] = "refused"]
    PROVE  Promise!Next
<1>1. Promise!Accept(t) \/ Promise!Refuse(t) \/ Promise!Run(t) \/ Promise!Finish(t)
  BY DEF Promise!Accept, Promise!Refuse, Promise!Run, Promise!Finish, Promise!Move
<1> QED
  BY <1>1 DEF Promise!Next

LEMMA DropMaps ==
    ASSUME Inv, NEW holder, NEW r, Dropped(holder, r), UNCHANGED task
    PROVE  Promise!Next \/ UNCHANGED Promise!vars
<1>1. CASE refs' = {} /\ holder \in refs
  <2>1. destructor = "no" /\ destructor' = "joins"
    BY <1>1 DEF Dropped, Inv, Ended
  <2>2. Promise!Close
    BY <2>1 DEF Promise!Close
  <2> QED
    BY <2>2 DEF Promise!Next
<1>2. CASE ~ (refs' = {} /\ holder \in refs)
  <2>1. UNCHANGED destructor
    BY <1>2 DEF Dropped, endVars
  <2> QED
    BY <2>1 DEF Promise!vars
<1> QED
  BY <1>1, <1>2

LEMMA StepMaps == Inv /\ [Next]_vars => [Promise!Next]_(Promise!vars)
<1> SUFFICES ASSUME Inv, [Next]_vars PROVE Promise!Next \/ UNCHANGED Promise!vars
  OBVIOUS
<1> DEFINE Stutters == UNCHANGED <<task, destructor>>
<1>0. ASSUME Stutters PROVE UNCHANGED Promise!vars
  BY <1>0 DEF Promise!vars
<1>1. ASSUME NEW c \in Callers, NEW t \in Tasks, ExecuteStopped(c, t) PROVE Promise!Next
  <2>1. /\ CanCall(c) /\ Alive /\ stopped /\ task[t] = "idle"
        /\ task' = [task EXCEPT ![t] = "refused"] /\ UNCHANGED destructor
    BY <1>1 DEF ExecuteStopped, endVars
  <2>2. destructor # "no" /\ refs = {}
    BY <2>1 DEF Inv, Ended
  <2>3. c \in Tasks /\ task[c] = "running"
    BY <2>1, <2>2 DEF CanCall
  <2>4. destructor = "joins"
    BY <2>1, <2>2, <2>3, AtWork
  <2> QED
    BY <2>1, <2>4, MoveMaps
<1>2. ASSUME NEW c \in Callers, NEW t \in Tasks,
             ExecuteDefault(c, t) \/ ExecutePooled(c, t)
      PROVE  Promise!Next
  <2>1. /\ ~ stopped /\ task[t] = "idle"
        /\ task' = [task EXCEPT ![t] = "accepted"] /\ UNCHANGED destructor
    BY <1>2 DEF ExecuteDefault, ExecutePooled, Accepted, endVars
  <2>2. destructor = "no"
    BY <2>1 DEF Inv, Ended
  <2> QED
    BY <2>1, <2>2, MoveMaps
<1>3. CASE \E c \in Callers : NotifyOne(c)
  BY <1>0, <1>3 DEF NotifyOne, endVars
<1>4. CASE AppDrops \/ \E t \in Tasks : DropsInBody(t) \/ LambdaDies(t)
  BY <1>4, DropMaps DEF AppDrops, DropsInBody, LambdaDies
<1>5. ASSUME NEW w \in Workers, WorkerStep(w) PROVE Promise!Next \/ UNCHANGED Promise!vars
  <2>1. CASE Look(w)
    <3>1. Alive /\ kind = "pool" /\ worker[w] = "look" /\ UNCHANGED destructor
      BY <2>1 DEF Look, endVars
    <3>2. CASE Start(Head(queue)) /\ queue # <<>>
      <4>1. destructor \in {"no", "joins"}
        BY <3>1, AtWork
      <4>2. Head(queue) \in Tasks /\ Queued(Head(queue))
        <5>1. queue \in Seq(Tasks) /\ Len(queue) \in Nat \ {0}
          BY <3>2, EmptySeq, LenProperties DEF Inv, Typed
        <5>2. Head(queue) \in Tasks /\ Head(queue) = queue[1] /\ 1 \in 1 .. Len(queue)
          BY <3>2, <5>1, HeadTailProperties
        <5> QED
          BY <5>2 DEF Queued
      <4>3. task[Head(queue)] = "accepted"
        BY <3>1, <4>2 DEF Inv, PoolInv
      <4> QED
        BY <3>1, <3>2, <4>1, <4>2, <4>3, MoveMaps DEF Start
    <3>3. CASE UNCHANGED task
      BY <1>0, <3>1, <3>3
    <3> QED
      BY <2>1, <3>2, <3>3 DEF Look
  <2>2. CASE WorkerFinishes(w)
    <3>1. /\ Alive /\ worker[w] \in Tasks /\ task[worker[w]] = "running"
          /\ task' = [task EXCEPT ![worker[w]] = "done"] /\ UNCHANGED destructor
      BY <2>2 DEF WorkerFinishes, Finish, endVars
    <3> QED
      BY <3>1, AtWork, MoveMaps
  <2>3. CASE ClosureDies(w)
    BY <2>3, DropMaps DEF ClosureDies
  <2>4. CASE NextIteration(w)
    BY <1>0, <2>4 DEF NextIteration, appVars, endVars
  <2> QED
    BY <1>5, <2>1, <2>2, <2>3, <2>4 DEF WorkerStep
<1>6. ASSUME NEW t \in Tasks, ThreadStarts(t) \/ ThreadFinishes(t) PROVE Promise!Next
  <2>1. /\ Alive /\ UNCHANGED destructor
        /\ \/ task[t] = "accepted" /\ task' = [task EXCEPT ![t] = "running"]
           \/ task[t] = "running" /\ task' = [task EXCEPT ![t] = "done"]
    BY <1>6 DEF ThreadStarts, ThreadFinishes, Start, Finish, endVars
  <2>2. destructor \in {"no", "joins"}
    BY <2>1, AtWork
  <2> QED
    BY <2>1, <2>2, MoveMaps
<1>7. CASE \E t \in Tasks : Detach(t) \/ ThreadEnds(t)
  BY <1>0, <1>7 DEF Detach, ThreadEnds, appVars, endVars
<1>8. CASE JoinWorker \/ JoinThread \/ NotifyAll
  BY <1>0, <1>8 DEF JoinWorker, JoinThread, NotifyAll, appVars, endVars
<1>9. CASE JoinsItself
  <2>1. Promise!Abort
    BY <1>9 DEF JoinsItself, appVars, Promise!Abort
  <2> QED
    BY <2>1 DEF Promise!Next
<1>10. CASE Return
  <2>1. \A t \in Tasks : task[t] \notin {"accepted", "running"}
    BY <1>10, NothingLeft DEF Return
  <2>2. Promise!Closed
    BY <1>10, <2>1 DEF Return, appVars, Promise!Closed
  <2> QED
    BY <2>2 DEF Promise!Next
<1>11. CASE UNCHANGED vars
  BY <1>0, <1>11 DEF vars, appVars, endVars
<1> QED
  BY <1>1, <1>2, <1>3, <1>4, <1>5, <1>6, <1>7, <1>8, <1>9, <1>10, <1>11
  DEF Next, Execute, ThreadStep, DestructorStep

\* Every step of either executor is a step of the promise of Executor.h, or
\* none: what is accepted runs once, what comes too late never runs, and the
\* destructor does not return before it has run everything.
THEOREM ExecutorsKeepPromise == Spec => Promise!Init /\ [][Promise!Next]_(Promise!vars)
<1>1. Init => Promise!Init
  BY DEF Init, Promise!Init
<1> QED
  BY <1>1, Invariance, StepMaps, PTL DEF Spec
=============================================================================
