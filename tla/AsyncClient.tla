---------------------------- MODULE AsyncClient ----------------------------
(***************************************************************************)
(* The asynchronous client: AsyncClientImpl::ExecuteAsync starts an        *)
(* operation on its caller's thread, the transport's I/O thread brings the *)
(* result of each attempt back up the stack Transport - ResponseChecker -  *)
(* Signer - Retryer, and the one thread of the scheduled executor starts   *)
(* the repetitions and delivers the callbacks.  An operation's state is    *)
(* handed from thread to thread; the clock offset is shared by all.        *)
(*                                                                         *)
(* The transport answers every sendAsync once, from its I/O thread, until  *)
(* it is destroyed: that is what the client relies on.                     *)
(*                                                                         *)
(* The client may be destroyed with operations under way, from a callback  *)
(* too; but not, which is the application's business, while a thread of    *)
(* its own is inside ExecuteAsync.  Transport and executor are the         *)
(* built-in ones, which go with the client.                                *)
(***************************************************************************)
EXTENDS Pipeline

CONSTANTS
    Skews,             (* server clock less local clock, in seconds        *)
    MaxDrifts          (* bound: how often the local clock steps           *)

ASSUME AsyncAssumption ==
    /\ Skews \subseteq Int
    /\ MaxDrifts \in Nat

VARIABLES
    clockOffset,       (* ClientInnerOptions::clockOffset                  *)
    skew,              (* the server's clock less the local one            *)
    canceled,          (* the operations whose token's deadline has passed *)
    worker,            (* the task the scheduler's thread is running: {o}  *)
                       (* while it repeats operation o, {} otherwise       *)
    pc,                (* pc[o]: where AsyncExecuteState o is              *)
    retries,           (* retries[o]: state->retries                       *)
    err,               (* err[o]: state->context.errorContext.error        *)
    response,          (* response[o]: state->response, and its attempt    *)
    signOffset,        (* signOffset[o]: context.signingContext.clockOffset*)
    client,            (* how far the destructor of AsyncClientImpl is     *)
    destroyer,         (* who runs it: "none", "app" or "callback"         *)
    drifts,            (* how often the local clock has stepped            *)
    callbacks,         (* callbacks[o]: calls of the user's callback       *)
    lateSends,         (* lateSends[o]: transfers of o begun after its     *)
                       (* token was canceled                    (history)  *)
    rejects            (* rejects[o]: skew rejections received  (history)  *)

stateVars   == <<retries, err, response, signOffset>>
lifeVars    == <<client, destroyer>>
envVars     == <<skew, canceled, drifts, lifeVars>>
historyVars == <<callbacks, lateSends, rejects>>
vars        == <<clockOffset, envVars, worker, pc, stateVars, historyVars>>

\* Besides the way of an operation through the client, three ends that come
\* with the client's: its queued task is dropped, the transport takes its
\* request too late to answer it, or it meets a stack that is gone.
PCs == {"idle", "prepare", "sign", "send", "call", "push", "pending", "inflight",
        "answered", "respond", "retryQueued", "finishQueued", "done", "dropped",
        "late", "lost"}

Over == {"done", "dropped", "late", "lost"}

\* The destructor: the transport is being destroyed, the stack is gone, the
\* executor has been told to stop, its thread has ended.
Stages == {"alive", "stopping", "unstacked", "unscheduled", "drained"}

NoResponse == [try |-> 0, status |-> 0, fault |-> "none"]

Running(o) == pc[o] \notin {"idle"} \union Over

StackAlive == client \in {"alive", "stopping"}

\* A callback that destroys the client keeps the scheduler's thread.
SchedulerRuns ==
    \/ client \in {"alive", "unscheduled"}
    \/ client \in {"stopping", "unstacked"} /\ destroyer = "app"

Goto(o, from, to) ==
    /\ pc[o] = from
    /\ pc' = [pc EXCEPT ![o] = to]

Fail(o, e) == err' = [err EXCEPT ![o] = e]

Init ==
    /\ clockOffset = 0
    /\ skew \in Skews
    /\ canceled = {}
    /\ worker = {}
    /\ pc = [o \in Ops |-> "idle"]
    /\ retries = [o \in Ops |-> 0]
    /\ err = [o \in Ops |-> NoError]
    /\ response = [o \in Ops |-> NoResponse]
    /\ signOffset = [o \in Ops |-> 0]
    /\ client = "alive"
    /\ destroyer = "none"
    /\ drifts = 0
    /\ callbacks = [o \in Ops |-> 0]
    /\ lateSends = [o \in Ops |-> 0]
    /\ rejects = [o \in Ops |-> 0]

-----------------------------------------------------------------------------
(* ExecuteAsync, on the caller's thread.                                   *)

CallAsync(o) ==
    /\ client = "alive"
    /\ Goto(o, "idle", "prepare")
    /\ UNCHANGED <<clockOffset, envVars, worker, stateVars, historyVars>>

\* Mutant of Refuse: the return after the callback is missing.
RefuseAndGoOn(o) ==
    /\ Goto(o, "prepare", "sign")
    /\ \E e \in VerifyErrors : Fail(o, e)
    /\ callbacks' = [callbacks EXCEPT ![o] = @ + 1]
    /\ UNCHANGED <<clockOffset, envVars, worker, retries, response, signOffset, lateSends, rejects>>

\* A refused input calls back before ExecuteAsync returns.
Refuse(o) ==
    /\ Goto(o, "prepare", "done")
    /\ \E e \in VerifyErrors : Fail(o, e)
    /\ callbacks' = [callbacks EXCEPT ![o] = @ + 1]
    /\ UNCHANGED <<clockOffset, envVars, worker, retries, response, signOffset, lateSends, rejects>>

Prepare(o) ==
    /\ Goto(o, "prepare", "sign")
    /\ signOffset' = [signOffset EXCEPT ![o] = clockOffset]
    /\ UNCHANGED <<clockOffset, envVars, worker, retries, err, response, historyVars>>

-----------------------------------------------------------------------------
(* handleRequest, down the stack: on the caller's thread the first time,   *)
(* on the scheduler's afterwards.                                          *)

\* Mutant of FailAttempt: an attempt with a response is taken for a success.
FailAttemptWithoutResponse(o, from, e) ==
    /\ Goto(o, from, "respond")
    /\ Fail(o, IF response[o] = NoResponse THEN e ELSE NoError)
    /\ UNCHANGED <<clockOffset, envVars, worker, retries, response, signOffset, historyVars>>

\* An error goes back up the stack.  What the state holds of an earlier
\* response stays: nothing resets it.
FailAttempt(o, from, e) ==
    /\ Goto(o, from, "respond")
    /\ Fail(o, e)
    /\ UNCHANGED <<clockOffset, envVars, worker, retries, response, signOffset, historyVars>>

SignFails(o) == \E e \in SignErrors : FailAttempt(o, "sign", e)

Sign(o) ==
    /\ Goto(o, "sign", "send")
    /\ UNCHANGED <<clockOffset, envVars, worker, stateVars, historyVars>>

\* TransportAsyncMiddleware looks at the token, and calls sendAsync if it finds
\* it good.
SendCanceled(o) ==
    /\ o \in canceled
    /\ FailAttempt(o, "send", TransportError("Canceled"))

\* Mutant of CheckToken: the token is not looked at.
CheckNothing(o) ==
    /\ Goto(o, "send", "call")
    /\ UNCHANGED <<clockOffset, envVars, worker, stateVars, historyVars>>

CheckToken(o) ==
    /\ o \notin canceled
    /\ Goto(o, "send", "call")
    /\ UNCHANGED <<clockOffset, envVars, worker, stateVars, historyVars>>

\* sendAsync finds the transport open, and waits for a handle.
Send(o) ==
    /\ client = "alive"
    /\ Goto(o, "call", "push")
    /\ UNCHANGED <<clockOffset, envVars, worker, stateVars, historyVars>>

Stopped == <<"generic", "operation_canceled">>

\* A transport that is being destroyed calls back from sendAsync, at its first
\* test of stopped_ or, with a handle in its hands, at the second.
SendStopped(o) ==
    /\ client = "stopping"
    /\ \E from \in {"call", "push"} : FailAttempt(o, from, Stopped)

\* The request is queued, and sendAsync returns; after the stop it may be too
\* late for the I/O thread.
Push(o) ==
    /\ \/ Goto(o, "push", "pending")
       \/ client = "stopping" /\ Goto(o, "push", "late")
    /\ worker' = worker \ {o}
    /\ UNCHANGED <<clockOffset, envVars, stateVars, historyVars>>

-----------------------------------------------------------------------------
(* The transport and its I/O thread.                                       *)

\* drainPending hands the request to curl.  The token is not looked at again
\* until curl asks, while the transfer runs.
Start(o) ==
    /\ Goto(o, "pending", "inflight")
    /\ lateSends' = [lateSends EXCEPT ![o] = IF o \in canceled THEN @ + 1 ELSE @]
    /\ UNCHANGED <<clockOffset, envVars, worker, stateVars, callbacks, rejects>>

\* curl gives up; the transfer is aborted for its token; the transport, when it
\* is stopped, answers what it has, queued or under way.
TransportFails(o) ==
    \/ \E e \in TransportErrors : FailAttempt(o, "inflight", e)
    \/ o \in canceled /\ FailAttempt(o, "inflight", TransportError("Canceled"))
    \/ /\ client = "stopping"
       /\ \E from \in {"pending", "inflight"} : FailAttempt(o, from, Stopped)

Receive(o) ==
    /\ Goto(o, "inflight", "answered")
    /\ \E r \in ServerReplies(signOffset[o], skew) :
          response' = [response EXCEPT ![o] =
                          [try |-> retries[o] + 1, status |-> r.status, fault |-> r.fault]]
    /\ UNCHANGED <<clockOffset, envVars, worker, retries, err, signOffset, historyVars>>

\* Mutant of Check: the correction reaches the shared offset alone, not the
\* signing context of the operation that was rejected.
CheckForOthers(o) ==
    /\ Goto(o, "answered", "respond")
    /\ Fail(o, CheckedError(response[o], skew))
    /\ clockOffset' = IF SkewDetected(response[o], skew) THEN skew ELSE clockOffset
    /\ rejects' = [rejects EXCEPT ![o] = IF response[o].fault = "skew" THEN @ + 1 ELSE @]
    /\ UNCHANGED <<envVars, worker, retries, response, signOffset, callbacks, lateSends>>

\* The response checkers.  There is one I/O thread, so no other checker runs
\* between the read of the shared offset and its update.
Check(o) ==
    LET corrects == SkewDetected(response[o], skew) IN
    /\ Goto(o, "answered", "respond")
    /\ Fail(o, CheckedError(response[o], skew))
    /\ signOffset' = [signOffset EXCEPT ![o] = IF corrects THEN skew ELSE @]
    /\ clockOffset' = IF corrects /\ MovesSharedOffset(skew, clockOffset)
                      THEN skew ELSE clockOffset
    /\ rejects' = [rejects EXCEPT ![o] = IF response[o].fault = "skew" THEN @ + 1 ELSE @]
    /\ UNCHANGED <<envVars, worker, retries, response, callbacks, lateSends>>

-----------------------------------------------------------------------------
(* The retryer's handleResponse, then onOperationFinished, which queues a  *)
(* task for the scheduler.  If the scheduler's own thread got here, it is  *)
(* free again.                                                             *)

WillRetry(o) == err[o] # NoError /\ MayRetry(o, retries[o], err[o])

QueueRetry(o) ==
    /\ WillRetry(o)
    /\ Goto(o, "respond", "retryQueued")
    /\ retries' = [retries EXCEPT ![o] = @ + 1]
    /\ Fail(o, NoError)
    /\ worker' = worker \ {o}
    /\ UNCHANGED <<clockOffset, envVars, response, signOffset, historyVars>>

\* Mutant of QueueFinish: the scheduler's thread waits for the task it queued.
QueueFinishAndWait(o) ==
    /\ ~ WillRetry(o)
    /\ Goto(o, "respond", "finishQueued")
    /\ UNCHANGED <<clockOffset, envVars, worker, stateVars, historyVars>>

QueueFinish(o) ==
    /\ ~ WillRetry(o)
    /\ Goto(o, "respond", "finishQueued")
    /\ worker' = worker \ {o}
    /\ UNCHANGED <<clockOffset, envVars, stateVars, historyVars>>

\* The scheduler's thread takes a task whose delay has passed.
RunRetry(o) ==
    /\ SchedulerRuns
    /\ worker = {}
    /\ Goto(o, "retryQueued", "sign")
    /\ worker' = {o}
    /\ UNCHANGED <<clockOffset, envVars, stateVars, historyVars>>

RunFinish(o) ==
    /\ SchedulerRuns
    /\ worker = {}
    /\ Goto(o, "finishQueued", "done")
    /\ callbacks' = [callbacks EXCEPT ![o] = @ + 1]
    /\ UNCHANGED <<clockOffset, envVars, worker, stateVars, lateSends, rejects>>

-----------------------------------------------------------------------------
(* ~AsyncClientImpl: the members go in the reverse of their order, stack_  *)
(* (its transport_ first) and then scheduler_.                             *)

\* By a thread of the application's, or by a callback that has let go of the
\* client.
Destroy(by) ==
    /\ client = "alive"
    /\ \A o \in Ops : pc[o] \in {"prepare", "sign", "send", "call", "push", "respond"} => o \in worker
    /\ by = "callback" => worker = {} /\ \E o \in Ops : pc[o] = "done"
    /\ client' = "stopping"
    /\ destroyer' = by
    /\ UNCHANGED <<clockOffset, skew, canceled, drifts, worker, pc, stateVars, historyVars>>

NextStage(from, to) ==
    /\ client = from
    /\ client' = to
    /\ UNCHANGED <<clockOffset, skew, canceled, drifts, destroyer, worker, pc, stateVars, historyVars>>

\* Mutant of TransportGone: the middlewares go before the transport.
StackGoneFirst == NextStage("stopping", "unstacked")

\* The transport's destructor has joined the I/O thread, which has answered all
\* it had, and has every handle back; the middlewares follow.
TransportGone ==
    /\ \A o \in Ops : /\ pc[o] \notin {"pending", "inflight", "answered", "push", "late"}
                      /\ pc[o] = "respond" => o \in worker
    /\ NextStage("stopping", "unstacked")

\* The executor is told to stop, and its thread ends: after the task it is in
\* and those that are due.
StopScheduler == NextStage("unstacked", "unscheduled")
SchedulerEnds == worker = {} /\ NextStage("unscheduled", "drained")

\* The queue is destroyed with the tasks in it.
DropTask(o) ==
    /\ client = "drained"
    /\ \E from \in {"retryQueued", "finishQueued"} : Goto(o, from, "dropped")
    /\ UNCHANGED <<clockOffset, envVars, worker, stateVars, historyVars>>

\* A thread in a stack that is gone.  What it does is undefined; here the
\* operation ends with it.
UseAfterFree(o) ==
    /\ client \in {"unstacked", "unscheduled"}
    /\ \E from \in {"sign", "send", "call", "push", "pending", "inflight", "answered",
                    "respond"} : Goto(o, from, "lost")
    /\ worker' = worker \ {o}
    /\ UNCHANGED <<clockOffset, envVars, stateVars, historyVars>>

-----------------------------------------------------------------------------
Cancel(o) ==
    /\ o \in TokenOps \ canceled
    /\ canceled' = canceled \union {o}
    /\ UNCHANGED <<clockOffset, skew, drifts, lifeVars, worker, pc, stateVars, historyVars>>

StepClock ==
    /\ drifts < MaxDrifts
    /\ skew' \in Skews \ {skew}
    /\ drifts' = drifts + 1
    /\ UNCHANGED <<clockOffset, canceled, lifeVars, worker, pc, stateVars, historyVars>>

Request(o) ==
    \/ CallAsync(o) \/ Refuse(o) \/ Prepare(o)
    \/ SignFails(o) \/ Sign(o)
    \/ SendCanceled(o) \/ CheckToken(o) \/ Send(o) \/ SendStopped(o) \/ Push(o)

IOThread(o) == Start(o) \/ TransportFails(o) \/ Receive(o) \/ Check(o)

Respond(o) == QueueRetry(o) \/ QueueFinish(o)

Scheduler(o) == RunRetry(o) \/ RunFinish(o)

Execute(o) ==
    \/ StackAlive /\ (Request(o) \/ IOThread(o) \/ Respond(o))
    \/ Scheduler(o)
    \/ UseAfterFree(o)

Destructor == TransportGone \/ StopScheduler \/ SchedulerEnds \/ \E o \in Ops : DropTask(o)

Next ==
    \/ \E o \in Ops : Execute(o) \/ Cancel(o)
    \/ \E by \in {"app", "callback"} : Destroy(by)
    \/ Destructor
    \/ StepClock

\* A thread inside the client runs on, the transport answers, the scheduler,
\* which takes its tasks in the order of their deadlines, comes to each of
\* them, and a destructor that has begun goes on; nothing obliges the
\* application to call.
Fairness ==
    /\ \A o \in Ops :
          /\ WF_vars(Running(o) /\ StackAlive /\ (Request(o) \/ IOThread(o) \/ Respond(o)))
          /\ WF_vars(UseAfterFree(o))
          /\ SF_vars(Scheduler(o))
    /\ WF_vars(Destructor)

Spec == Init /\ [][Next]_vars
FairSpec == Spec /\ Fairness

-----------------------------------------------------------------------------
(* Properties.                                                             *)

ResponseType == [try : 0..AttemptBound, status : {0} \union (100..599),
                 fault : {"none", "skew", "crc"}]

Errors == {NoError, ClientError("CrcMismatch"), TransportError("Canceled"), Stopped}
          \union VerifyErrors \union SignErrors \union TransportErrors
          \union {ServerError(s) : s \in 100..599}
          \union {RetryableServerError(s) : s \in 100..599}

\* Every field has the type the code declares; retries stays below the
\* attempts the operation may make, and the scheduler runs one task at a time,
\* a repetition that has not returned from sendAsync.
TypeOK ==
    /\ clockOffset \in Skews \union {0}
    /\ skew \in Skews
    /\ canceled \subseteq TokenOps
    /\ worker \in {{}} \union {{o} : o \in
          {p \in Ops : pc[p] \in {"sign", "send", "call", "push", "respond"}}}
    /\ client \in Stages
    /\ destroyer \in {"none", "app", "callback"}
    /\ pc \in [Ops -> PCs]
    /\ retries \in [Ops -> 0..AttemptBound-1]
    /\ err \in [Ops -> Errors]
    /\ response \in [Ops -> ResponseType]
    /\ signOffset \in [Ops -> Skews \union {0}]
    /\ drifts \in 0..MaxDrifts
    /\ callbacks \in [Ops -> 0..1]
    /\ lateSends \in [Ops -> 0..AttemptBound]
    /\ rejects \in [Ops -> 0..AttemptBound]

\* The callback runs exactly once, when the operation is over and never while
\* a repetition is still to come, whichever thread finished it.
CallbackOnce == \A o \in Ops : callbacks[o] = IF pc[o] = "done" THEN 1 ELSE 0

\* A success is the last attempt's: although the state keeps a response from
\* one attempt to the next, what the callback gets as an output is a 2xx whose
\* checksum matched, received by the attempt that ended the operation.
SuccessIsOfLastAttempt ==
    \A o \in Ops : pc[o] = "done" /\ err[o] = NoError =>
        /\ response[o].try = retries[o] + 1
        /\ response[o].status \div 100 = 2
        /\ response[o].fault # "crc"

\* Clock-skew correction converges: one rejection, and one more for each step
\* of the local clock, although the correction and the next signature happen
\* on different threads.
SkewHeals == \A o \in Ops : rejects[o] <= 1 + drifts

\* Canceling a token ends the operation, although the call is under way through
\* three threads' hands between the test of the token and the transfer: one
\* transfer at most begins after the cancellation, the one whose test was past,
\* and no repetition, not even one that was already queued.
OneCallAfterCancel == \A o \in Ops : lateSends[o] <= 1

\* The order in which the client's members are destroyed protects a first
\* attempt: whatever is going on when the destructor begins, only an operation
\* that is being repeated can meet a stack that is gone or keep the transport's
\* destructor waiting for its handle.
FirstAttemptsSurvive == \A o \in Ops : pc[o] \in {"lost", "late"} => retries[o] > 0

\* The operation this client implements: an answer may outlive its attempt,
\* and every operation that is called comes to its end, with its callback or
\* with the client.
Phase(o) == IF pc[o] = "idle" THEN "idle" ELSE IF pc[o] \in Over THEN "done" ELSE "running"

Abstract == INSTANCE Operation WITH
    Bound        <- AttemptBound,
    StaleAnswers <- TRUE,
    phase        <- [o \in Ops |-> Phase(o)],
    repeats      <- retries,
    answer       <- [o \in Ops |-> response[o].try]

ImplementsOperation == Abstract!FairSpec

\* "Returns the HTTP status code (e.g., 403, 404), or 0 if no response": an
\* operation whose last attempt the transport failed reports no status.
TransportErrorHasNoStatus ==
    \A o \in Ops : pc[o] = "done" /\ err[o][1] = "transport" => response[o].status = 0
=============================================================================
