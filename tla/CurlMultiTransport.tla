------------------------- MODULE CurlMultiTransport -------------------------
(***************************************************************************)
(* The curl transport of the asynchronous client.  Senders call sendAsync, *)
(* which takes an easy handle and queues the request for the I/O thread;   *)
(* that thread moves the queue into curl's multi handle, answers what curl *)
(* has finished, and when the transport is destroyed answers the rest.     *)
(* Each sender sends one request, and a request bears its sender's name.   *)
(*                                                                         *)
(* The destructor may run while a sender is inside sendAsync - that is     *)
(* what the second test of stopped_ is for - but the members are not freed *)
(* before it is out: the code leaves that to its caller.                   *)
(***************************************************************************)
EXTENDS CurlContainer

VARIABLES
    stopped,           (* stopped_                                         *)
    dtor,              (* where the destructor is                          *)
    io,                (* where the I/O thread is                          *)
    sender,            (* sender[u]: where sendAsync is                    *)
    pending,           (* pendingRequests_                                 *)
    inflight,          (* inflightHandles_                                 *)
    completed,         (* the transfers curl has finished, not yet read    *)
    batch,             (* cleanupInflight's local copy of the queue        *)
    answers,           (* answers[u]: how often u's callback ran           *)
    late               (* requests queued after cleanupInflight (history)  *)

transportVars == <<stopped, dtor, io, sender, pending, inflight, completed, batch,
                   answers, late>>
vars == <<poolVars, transportVars>>

IOStates == {"drain", "process", "poll", "last", "lastProcess", "swap", "cleanup", "exited"}

Inside(u) == sender[u] \in {"entered", "acquire", "check", "push"}

Init ==
    /\ PoolInit
    /\ stopped = FALSE
    /\ dtor = "no"
    /\ io = "drain"
    /\ sender = [u \in Users |-> "idle"]
    /\ pending = {}
    /\ inflight = {}
    /\ completed = {}
    /\ batch = {}
    /\ answers = [u \in Users |-> 0]
    /\ late = {}

Step(u, from, to) ==
    /\ sender[u] = from
    /\ sender' = [sender EXCEPT ![u] = to]

Answer(u) == answers' = [answers EXCEPT ![u] = @ + 1]

-----------------------------------------------------------------------------
(* sendAsync                                                               *)

\* Nobody calls a transport that is being destroyed.
Enter(u) ==
    /\ dtor = "no"
    /\ Step(u, "idle", "entered")
    /\ UNCHANGED <<poolVars, stopped, dtor, io, pending, inflight, completed, batch, answers, late>>

FirstTest(u) ==
    /\ IF stopped THEN Step(u, "entered", "sent") /\ Answer(u)
                  ELSE Step(u, "entered", "acquire") /\ UNCHANGED answers
    /\ UNCHANGED <<poolVars, stopped, dtor, io, pending, inflight, completed, batch, late>>

\* curlContainer_->Acquire()
Acquire(u) ==
    /\ sender[u] = "acquire"
    /\ \/ (Look(u) \/ Growth(u)) /\ UNCHANGED sender
       \/ Take(u) /\ Step(u, "acquire", "check")
    /\ UNCHANGED <<stopped, dtor, io, pending, inflight, completed, batch, answers, late>>

\* Mutant of SecondTest: the handle is not released.
SecondTestKeepsHandle(u) ==
    /\ IF stopped THEN Step(u, "check", "sent") /\ Answer(u)
                  ELSE Step(u, "check", "push") /\ UNCHANGED answers
    /\ UNCHANGED <<poolVars, stopped, dtor, io, pending, inflight, completed, batch, late>>

SecondTest(u) ==
    /\ IF stopped THEN Step(u, "check", "sent") /\ Answer(u) /\ ReleaseHandle
                  ELSE Step(u, "check", "push") /\ UNCHANGED <<answers, poolVars>>
    /\ UNCHANGED <<stopped, dtor, io, pending, inflight, completed, batch, late>>

Push(u) ==
    /\ Step(u, "push", "sent")
    /\ pending' = pending \union {u}
    /\ late' = IF io \in {"cleanup", "exited"} THEN late \union {u} ELSE late
    /\ UNCHANGED <<poolVars, stopped, dtor, io, inflight, completed, batch, answers>>

-----------------------------------------------------------------------------
(* ioLoop                                                                  *)

\* drainPending
Drain ==
    /\ io = "drain"
    /\ io' = "process"
    /\ inflight' = inflight \union pending
    /\ pending' = {}
    /\ UNCHANGED <<poolVars, stopped, dtor, sender, completed, batch, answers, late>>

\* curl_multi_perform finishes transfers, successfully or not.
Perform ==
    /\ io \in {"process", "lastProcess"}
    /\ \E u \in inflight \ completed : completed' = completed \union {u}
    /\ UNCHANGED <<poolVars, stopped, dtor, io, sender, pending, inflight, batch, answers, late>>

\* Mutants of Process: the request stays in inflightHandles_; its handle is not
\* released.
ProcessKeepsRequest(u) ==
    /\ io \in {"process", "lastProcess"}
    /\ u \in completed
    /\ completed' = completed \ {u}
    /\ ReleaseHandle
    /\ Answer(u)
    /\ UNCHANGED <<stopped, dtor, io, sender, pending, inflight, batch, late>>

ProcessKeepsHandle(u) ==
    /\ io \in {"process", "lastProcess"}
    /\ u \in completed
    /\ completed' = completed \ {u}
    /\ inflight' = inflight \ {u}
    /\ Answer(u)
    /\ UNCHANGED <<poolVars, stopped, dtor, io, sender, pending, batch, late>>

\* processCompleted: the handle goes back to the pool before the callback.
Process(u) ==
    /\ io \in {"process", "lastProcess"}
    /\ u \in completed
    /\ completed' = completed \ {u}
    /\ inflight' = inflight \ {u}
    /\ ReleaseHandle
    /\ Answer(u)
    /\ UNCHANGED <<stopped, dtor, io, sender, pending, batch, late>>

\* The loop ends at the next of its two tests once the transport is stopped.
Processed ==
    /\ completed = {}
    /\ \/ io = "process"     /\ io' = IF stopped THEN "last" ELSE "poll"
       \/ io = "lastProcess" /\ io' = "swap"
    /\ UNCHANGED <<poolVars, stopped, dtor, sender, pending, inflight, completed, batch, answers, late>>

\* curl_multi_poll returns after 200 ms at the latest.
Poll ==
    /\ io = "poll"
    /\ io' = IF stopped THEN "last" ELSE "drain"
    /\ UNCHANGED <<poolVars, stopped, dtor, sender, pending, inflight, completed, batch, answers, late>>

LastPerform ==
    /\ io = "last"
    /\ io' = "lastProcess"
    /\ UNCHANGED <<poolVars, stopped, dtor, sender, pending, inflight, completed, batch, answers, late>>

\* Mutant of Swap: only the requests in flight are cleaned up.
SwapNothing ==
    /\ io = "swap"
    /\ io' = "cleanup"
    /\ UNCHANGED <<poolVars, stopped, dtor, sender, pending, inflight, completed, batch, answers, late>>

\* cleanupInflight
Swap ==
    /\ io = "swap"
    /\ io' = "cleanup"
    /\ batch' = pending
    /\ pending' = {}
    /\ UNCHANGED <<poolVars, stopped, dtor, sender, inflight, completed, answers, late>>

\* Mutant of CleanUp: the handles are not released.
CleanUpKeepsHandle(u) ==
    /\ io = "cleanup"
    /\ \/ u \in batch /\ batch' = batch \ {u} /\ UNCHANGED inflight
       \/ batch = {} /\ u \in inflight /\ inflight' = inflight \ {u} /\ UNCHANGED batch
    /\ Answer(u)
    /\ UNCHANGED <<poolVars, stopped, dtor, io, sender, pending, completed, late>>

CleanUp(u) ==
    /\ io = "cleanup"
    /\ \/ u \in batch /\ batch' = batch \ {u} /\ UNCHANGED inflight
       \/ batch = {} /\ u \in inflight /\ inflight' = inflight \ {u} /\ UNCHANGED batch
    /\ ReleaseHandle
    /\ Answer(u)
    /\ UNCHANGED <<stopped, dtor, io, sender, pending, completed, late>>

Exit ==
    /\ io = "cleanup"
    /\ batch = {} /\ inflight = {}
    /\ io' = "exited"
    /\ UNCHANGED <<poolVars, stopped, dtor, sender, pending, inflight, completed, batch, answers, late>>

-----------------------------------------------------------------------------
(* ~CurlMultiTransport                                                     *)

Stop ==
    /\ dtor = "no"
    /\ stopped' = TRUE
    /\ dtor' = "join"
    /\ UNCHANGED <<poolVars, io, sender, pending, inflight, completed, batch, answers, late>>

\* The thread is joined; the members go, the queue with the callbacks in it.
Join ==
    /\ dtor = "join"
    /\ io = "exited"
    /\ \A u \in Users : ~ Inside(u)
    /\ dtor' = "shutdown"
    /\ pending' = {}
    /\ UNCHANGED <<poolVars, stopped, io, sender, inflight, completed, batch, answers, late>>

\* ~CurlContainer waits until every handle is back.
Destroyed ==
    /\ dtor = "shutdown"
    /\ AllReturned
    /\ dtor' = "gone"
    /\ UNCHANGED <<poolVars, stopped, io, sender, pending, inflight, completed, batch, answers, late>>

-----------------------------------------------------------------------------
Send(u) == Enter(u) \/ FirstTest(u) \/ Acquire(u) \/ SecondTest(u) \/ Push(u)

IOThread ==
    \/ Drain \/ Perform \/ Processed \/ Poll \/ LastPerform \/ Swap \/ Exit
    \/ \E u \in Users : Process(u) \/ CleanUp(u)

Destructor == Stop \/ Join \/ Destroyed

Next == (\E u \in Users : Send(u)) \/ IOThread \/ Destructor

\* A sender that has begun runs on, and so do the I/O thread and, once begun,
\* the destructor.  curl's own timeouts finish every transfer.
Fairness ==
    /\ \A u \in Users : WF_vars(sender[u] # "idle" /\ Send(u))
    /\ WF_vars(Drain \/ Processed \/ Poll \/ LastPerform \/ Swap \/ Exit)
    /\ \A u \in Users : WF_vars(Process(u)) /\ WF_vars(CleanUp(u))
    /\ \A u \in Users : SF_vars(Perform /\ completed' = completed \union {u})
    /\ WF_vars(Join) /\ WF_vars(Destroyed)

Spec == Init /\ [][Next]_vars
FairSpec == Spec /\ Fairness

-----------------------------------------------------------------------------
(* Properties.                                                             *)

\* Every variable has the type the code declares; the transfers that are
\* complete are among those in flight, and no callback has run twice.
TypeOK ==
    /\ PoolTypeOK
    /\ stopped \in BOOLEAN
    /\ dtor \in {"no", "join", "shutdown", "gone"}
    /\ io \in IOStates
    /\ sender \in [Users -> {"idle", "entered", "acquire", "check", "push", "sent"}]
    /\ pending \subseteq Users
    /\ inflight \subseteq Users
    /\ completed \subseteq inflight
    /\ batch \subseteq Users
    /\ answers \in [Users -> 0..1]
    /\ late \subseteq Users

\* The requests that hold an easy handle; a late one keeps it for good.
Holders == {u \in Users : sender[u] \in {"check", "push"}}
           \union pending \union inflight \union batch \union late

\* No handle is lost or used twice: the free ones and those that requests hold
\* are the pool, while it grows as at any other time.
HandlesConserved == free + Cardinality(Holders) = poolSize + added

\* A callback that has run is not run again: its request is nowhere in the
\* transport any more, and each request is in one place at most.
AnsweredIsGone ==
    /\ \A u \in Users : answers[u] = 1 => sender[u] = "sent" /\ u \notin Holders
    /\ pending \intersect inflight = {}
    /\ batch \intersect (pending \union inflight) = {}

\* The destructor drops no callback but that of a request which slipped past
\* the second test of stopped_ and was queued after cleanupInflight.
OnlyLateOnesAreDropped ==
    dtor \in {"shutdown", "gone"} =>
        \A u \in Users : sender[u] = "sent" => answers[u] = 1 \/ u \in late

\* Every request is answered, unless one was queued too late - its handle may be
\* the one another sender waits for - or curl never gave the pool a handle.
EveryRequestAnswered ==
    \/ <>[](poolSize = 0)
    \/ \A u \in Users : sender[u] = "entered" ~> (answers[u] = 1 \/ late # {})

\* The destructor returns, again unless a late request keeps its handle: then
\* ~CurlContainer waits for it forever.
DestructorReturns ==
    \/ <>[](poolSize = 0)
    \/ dtor = "join" ~> (dtor = "gone" \/ late # {})
=============================================================================
