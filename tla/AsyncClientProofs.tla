-------------------------- MODULE AsyncClientProofs --------------------------
(***************************************************************************)
(* The asynchronous client's invariants, for any operations, tokens, error *)
(* sets and bounds, and with its destruction at any moment.                *)
(***************************************************************************)
EXTENDS AsyncClient, TLAPS

-----------------------------------------------------------------------------
(* Pipeline's decisions and replies.                                       *)

\* The loop runs at least once.
LEMMA BoundIsPositive == AttemptBound \in Nat \ {0}
BY PipelineAssumption DEF AttemptBound, Larger

\* Another attempt stays below the bound.
LEMMA RetryStaysBounded ==
    ASSUME NEW o, NEW n \in Nat, NEW e, MayRetry(o, n, e)
    PROVE  n + 1 \in 0..AttemptBound-1
BY PipelineAssumption DEF AttemptBound, Larger, MayRetry

\* What the server sends is a reply.
LEMMA ServerRepliesType ==
    ASSUME NEW a, NEW b
    PROVE  ServerReplies(a, b) \subseteq ReplyType
<1>1. SkewRejection \in ReplyType
  BY DEF SkewRejection, ReplyType
<1> QED
  BY <1>1, PipelineAssumption DEF ServerReplies

\* The server blames the signing time only of a request signed off its clock.
LEMMA RejectionIsDeserved ==
    ASSUME NEW a \in Int, NEW b \in Int, NEW r \in ServerReplies(a, b), r.fault = "skew"
    PROVE  r.status = 403 /\ a # b
BY PipelineAssumption DEF ServerReplies, SkewRejection, Unavailable, Abs, MaxAllowedSkew

\* The response checker leaves no error, a server error or a checksum mismatch.
LEMMA CheckedErrorType ==
    ASSUME NEW r \in ResponseType, r.status # 0, NEW n
    PROVE  CheckedError(r, n) \in Errors
<1>1. r.status \in 100..599
  BY DEF ResponseType
<1>2. /\ NoError \in Errors /\ ClientError("CrcMismatch") \in Errors
      /\ ServerError(r.status) \in Errors /\ RetryableServerError(r.status) \in Errors
  BY <1>1 DEF Errors
<1> QED
  BY <1>2 DEF CheckedError, PreServiceError

-----------------------------------------------------------------------------
(* Types, counters and threads.  TypeOK bounds the counters, which only    *)
(* their relation to state->retries explains; the scheduler's thread is in *)
(* a repetition only; and once the destructor has begun no other thread is *)
(* inside the client but the I/O thread, until that one is joined.         *)

AfterCheck == {"respond", "finishQueued", "done", "dropped", "late", "lost"}

Counted ==
    \A o \in Ops : rejects[o] <= retries[o] + (IF pc[o] \in AfterCheck THEN 1 ELSE 0)

\* A late transfer is of a canceled operation, and the operation does not get
\* past the test of its token again.
LateCounted ==
    \A o \in Ops :
        /\ lateSends[o] <= 1
        /\ lateSends[o] > 0 => o \in canceled /\ pc[o] \notin {"call", "push", "pending"}

HasResponse == \A o \in Ops : pc[o] = "answered" => response[o].status # 0

Repeated ==
    \A o \in Ops :
        /\ o \in worker \/ pc[o] \in {"retryQueued", "late", "lost"} => retries[o] > 0
        /\ client # "alive" =>
              /\ pc[o] # "prepare"
              /\ pc[o] \in {"sign", "send", "call", "push"} => o \in worker
        /\ client \notin {"alive", "stopping"} =>
              /\ pc[o] \notin {"pending", "inflight", "answered"}
              /\ pc[o] = "respond" => o \in worker

TypeInv == TypeOK /\ Counted /\ HasResponse /\ Repeated /\ LateCounted /\ CallbackOnce

LEMMA TypeInit == Init => TypeInv
<1> SUFFICES ASSUME Init PROVE TypeInv
  OBVIOUS
<1>1. NoError \in Errors /\ NoResponse \in ResponseType
  BY BoundIsPositive DEF Errors, NoResponse, ResponseType
<1>2. err \in [Ops -> Errors] /\ response \in [Ops -> ResponseType]
  BY <1>1 DEF Init
<1>3. /\ clockOffset \in Skews \union {0}
      /\ skew \in Skews
      /\ canceled \subseteq TokenOps
      /\ worker = {}
      /\ client \in Stages
      /\ destroyer \in {"none", "app", "callback"}
      /\ signOffset \in [Ops -> Skews \union {0}]
      /\ drifts \in 0..MaxDrifts
  BY AsyncAssumption DEF Init, Stages
<1>4. pc \in [Ops -> PCs]
  BY DEF Init, PCs
<1>5. /\ retries \in [Ops -> 0..AttemptBound-1]
      /\ callbacks \in [Ops -> 0..1]
      /\ lateSends \in [Ops -> 0..AttemptBound]
      /\ rejects \in [Ops -> 0..AttemptBound]
  BY BoundIsPositive DEF Init
<1>6. TypeOK
  BY <1>2, <1>3, <1>4, <1>5 DEF TypeOK
<1>7. Counted /\ HasResponse /\ Repeated /\ LateCounted /\ CallbackOnce
  BY DEF Init, Counted, HasResponse, Repeated, LateCounted, CallbackOnce, AfterCheck
<1> QED
  BY <1>6, <1>7 DEF TypeInv

\* An attempt that fails goes back up the stack, on the thread it is on.
LEMMA FailureStep ==
    ASSUME TypeInv, NEW o \in Ops,
           NEW from \in {"sign", "send", "call", "push", "pending", "inflight"},
           NEW e \in Errors, StackAlive, FailAttempt(o, from, e)
    PROVE  TypeInv'
<1>1. /\ pc[o] = from /\ pc' = [pc EXCEPT ![o] = "respond"]
      /\ err' = [err EXCEPT ![o] = e]
      /\ UNCHANGED <<clockOffset, skew, canceled, drifts, client, destroyer, worker, retries,
                     response, signOffset, callbacks, lateSends, rejects>>
  BY DEF FailAttempt, Goto, Fail, envVars, lifeVars, historyVars
<1>2. TypeOK'
  BY <1>1 DEF TypeInv, TypeOK, PCs
<1>3. Counted' /\ HasResponse' /\ LateCounted' /\ CallbackOnce'
  BY <1>1, BoundIsPositive
  DEF TypeInv, TypeOK, PCs, Counted, HasResponse, LateCounted, CallbackOnce, AfterCheck
<1>4. Repeated'
  BY <1>1 DEF TypeInv, TypeOK, PCs, Repeated, StackAlive
<1> QED
  BY <1>2, <1>3, <1>4 DEF TypeInv

LEMMA FailedAttemptsKeepTypes ==
    ASSUME TypeInv, NEW o \in Ops, StackAlive,
           SignFails(o) \/ SendCanceled(o) \/ SendStopped(o) \/ TransportFails(o)
    PROVE  TypeInv'
<1>1. SignErrors \subseteq Errors /\ TransportErrors \subseteq Errors
  BY DEF Errors
<1>2. TransportError("Canceled") \in Errors /\ Stopped \in Errors
  BY DEF Errors
<1>3. \E e \in Errors, from \in {"sign", "send", "call", "push", "pending", "inflight"} :
          FailAttempt(o, from, e)
  BY <1>1, <1>2 DEF SignFails, SendCanceled, SendStopped, TransportFails
<1> QED
  BY <1>3, FailureStep

LEMMA TypeStep == TypeInv /\ [Next]_vars => TypeInv'
<1> SUFFICES ASSUME TypeInv, [Next]_vars PROVE TypeInv'
  OBVIOUS
<1>0. ASSUME NEW o \in Ops, StackAlive,
             SignFails(o) \/ SendCanceled(o) \/ SendStopped(o) \/ TransportFails(o)
      PROVE  TypeInv'
  BY <1>0, FailedAttemptsKeepTypes
<1> USE BoundIsPositive
    DEF TypeInv, TypeOK, Counted, HasResponse, Repeated, LateCounted, CallbackOnce, PCs,
        AfterCheck, Goto, Fail, lifeVars, envVars, stateVars, historyVars
<1>1. ASSUME NEW o \in Ops, StackAlive, Request(o) PROVE TypeInv'
  <2>1. CASE CallAsync(o)
    BY <2>1 DEF CallAsync
  <2>2. CASE Refuse(o)
    <3>1. PICK e \in VerifyErrors : err' = [err EXCEPT ![o] = e]
      BY <2>2 DEF Refuse
    <3>2. e \in Errors
      BY DEF Errors
    <3>3. err' \in [Ops -> Errors]
      BY <3>1, <3>2
    <3> QED
      BY <2>2, <3>3 DEF Refuse
  <2>3. CASE Prepare(o)
    BY <1>1, <2>3 DEF Prepare, StackAlive
  <2>4. CASE SignFails(o) \/ SendCanceled(o) \/ SendStopped(o)
    BY <1>0, <1>1, <2>4
  <2>5. CASE Sign(o)
    BY <1>1, <2>5 DEF Sign, StackAlive
  <2>6. CASE Send(o)
    BY <2>6 DEF Send
  <2>7. CASE Push(o)
    BY <1>1, <2>7 DEF Push, StackAlive
  <2>8. CASE CheckToken(o)
    BY <1>1, <2>8 DEF CheckToken, StackAlive
  <2> QED
    BY <1>1, <2>1, <2>2, <2>3, <2>4, <2>5, <2>6, <2>7, <2>8 DEF Request
<1>2. ASSUME NEW o \in Ops, StackAlive, IOThread(o) PROVE TypeInv'
  <2>1. CASE TransportFails(o)
    BY <1>0, <1>2, <2>1
  <2>2. CASE Receive(o)
    <3>1. PICK r \in ServerReplies(signOffset[o], skew) :
              response' = [response EXCEPT ![o] =
                  [try |-> retries[o] + 1, status |-> r.status, fault |-> r.fault]]
      BY <2>2 DEF Receive
    <3>2. r \in ReplyType
      BY <3>1, ServerRepliesType
    <3>3. response' \in [Ops -> ResponseType] /\ response'[o].status # 0
      BY <3>1, <3>2 DEF ResponseType, ReplyType
    <3> QED
      BY <1>2, <2>2, <3>1, <3>3 DEF Receive, StackAlive
  <2>3. CASE Check(o)
    BY <1>2, <2>3, CheckedErrorType DEF Check, StackAlive
  <2>4. CASE Start(o)
    <3>1. lateSends'[o] <= 1 /\ (lateSends'[o] > 0 => o \in canceled)
      BY <2>4 DEF Start
    <3>2. lateSends' \in [Ops -> 0..AttemptBound]
      BY <2>4, <3>1 DEF Start
    <3> QED
      BY <1>2, <2>4, <3>1, <3>2 DEF Start, StackAlive
  <2> QED
    BY <1>2, <2>1, <2>2, <2>3, <2>4 DEF IOThread
<1>3. ASSUME NEW o \in Ops, Respond(o) PROVE TypeInv'
  <2>1. CASE QueueRetry(o)
    BY <2>1, RetryStaysBounded DEF QueueRetry, WillRetry, Errors
  <2>2. CASE QueueFinish(o)
    BY <2>2 DEF QueueFinish
  <2> QED
    BY <1>3, <2>1, <2>2 DEF Respond
<1>4. ASSUME NEW o \in Ops, Scheduler(o) PROVE TypeInv'
  <2>1. CASE RunRetry(o)
    BY <2>1 DEF RunRetry
  <2>2. CASE RunFinish(o)
    BY <2>2 DEF RunFinish
  <2> QED
    BY <1>4, <2>1, <2>2 DEF Scheduler
<1>5. ASSUME NEW o \in Ops, UseAfterFree(o) \/ DropTask(o) PROVE TypeInv'
  <2>1. CASE UseAfterFree(o)
    BY <2>1 DEF UseAfterFree
  <2>2. CASE DropTask(o)
    BY <2>2 DEF DropTask
  <2> QED
    BY <1>5, <2>1, <2>2
<1>6. ASSUME NEW by \in {"app", "callback"}, Destroy(by) PROVE TypeInv'
  BY <1>6 DEF Destroy, Stages
<1>7. CASE TransportGone \/ StopScheduler \/ SchedulerEnds
  BY <1>7 DEF TransportGone, StopScheduler, SchedulerEnds, NextStage, Stages
<1>8. ASSUME NEW o \in Ops, Cancel(o) PROVE TypeInv'
  BY <1>8 DEF Cancel
<1>9. CASE StepClock
  BY <1>9, AsyncAssumption DEF StepClock
<1>10. CASE UNCHANGED vars
  BY <1>10 DEF vars
<1> QED
  BY <1>1, <1>2, <1>3, <1>4, <1>5, <1>6, <1>7, <1>8, <1>9, <1>10 DEF Next, Execute, Destructor

\* Types of every variable: state->retries stays below its bound
\* (RetryerExecuteMiddleware), and the one thread of the scheduler runs one
\* repetition at a time.
THEOREM TypeCorrect == Spec => []TypeOK
<1>1. TypeInv => TypeOK
  BY DEF TypeInv
<1> QED
  BY <1>1, TypeInit, TypeStep, PTL DEF Spec

\* The user's callback runs once, when the operation is done, and not at all
\* when the operation ends with the client (OnComplete's three callers).
THEOREM CallbackRunsOnce == Spec => []CallbackOnce
<1>1. TypeInv => CallbackOnce
  BY DEF TypeInv
<1> QED
  BY <1>1, TypeInit, TypeStep, PTL DEF Spec

\* Whatever is under way when ~AsyncClientImpl begins, only repetitions meet
\* the destroyed stack or strand their handle.
THEOREM FirstAttemptsAreSafe == Spec => []FirstAttemptsSurvive
<1>1. TypeInv => FirstAttemptsSurvive
  BY DEF TypeInv, Repeated, FirstAttemptsSurvive
<1> QED
  BY <1>1, TypeInit, TypeStep, PTL DEF Spec

\* Once an operation's token is canceled at most one more transfer of it begins,
\* whether the cancellation falls in the wait for a handle, in the queue of the
\* I/O thread or in that of the scheduler.
THEOREM OneLateCallAtMost == Spec => []OneCallAfterCancel
<1>1. TypeInv => OneCallAfterCancel
  BY DEF TypeInv, LateCounted, OneCallAfterCancel
<1> QED
  BY <1>1, TypeInit, TypeStep, PTL DEF Spec

-----------------------------------------------------------------------------
(* The response the state holds: nothing resets it, so it may be an        *)
(* earlier attempt's; but an operation without an error has its own.       *)

Fresh(o) ==
    /\ pc[o] \in {"idle", "prepare"} => response[o] = NoResponse
    /\ pc[o] \in {"idle", "prepare", "sign", "send", "call", "push", "pending", "inflight",
                  "retryQueued"} =>
          response[o].try <= retries[o]
    /\ pc[o] = "answered" => response[o].try = retries[o] + 1
    /\ pc[o] = "respond" => response[o].try <= retries[o] + 1
    /\ pc[o] \in {"respond", "finishQueued", "done"} /\ err[o] = NoError =>
          /\ response[o].try = retries[o] + 1
          /\ response[o].status \div 100 = 2
          /\ response[o].fault # "crc"

OutcomeInv == \A o \in Ops : Fresh(o)

\* What the checkers let pass is a 2xx with a good checksum.
LEMMA CheckedSuccess ==
    ASSUME NEW r, NEW n, CheckedError(r, n) = NoError
    PROVE  r.status \div 100 = 2 /\ r.fault # "crc"
BY DEF CheckedError, PreServiceError, NoError, ServerError, RetryableServerError, ClientError

LEMMA OutcomeStep == TypeInv /\ OutcomeInv /\ [Next]_vars => OutcomeInv'
<1> SUFFICES ASSUME TypeInv, OutcomeInv, [Next]_vars PROVE OutcomeInv'
  OBVIOUS
<1> USE DEF TypeInv, TypeOK, OutcomeInv, Fresh, Goto, Fail, lifeVars, envVars, stateVars,
            historyVars
<1>0. /\ \A o \in Ops : response[o].try \in Nat /\ retries[o] \in Nat
      /\ NoResponse.try = 0
  BY BoundIsPositive DEF ResponseType, NoResponse
<1>1. ASSUME NEW o \in Ops,
             NEW from \in {"sign", "send", "call", "push", "pending", "inflight"},
             NEW e, e # NoError, FailAttempt(o, from, e)
      PROVE  OutcomeInv'
  BY <1>0, <1>1 DEF FailAttempt
<1>2. ASSUME NEW o \in Ops, Request(o) PROVE OutcomeInv'
  <2>1. CASE CallAsync(o) \/ Prepare(o) \/ Sign(o) \/ CheckToken(o) \/ Send(o)
    BY <2>1 DEF CallAsync, Prepare, Sign, CheckToken, Send
  <2>2. CASE Refuse(o)
    BY <2>2, PipelineAssumption DEF Refuse
  <2>3. CASE SignFails(o)
    BY <1>1, <2>3, PipelineAssumption DEF SignFails
  <2>4. CASE SendCanceled(o)
    BY <1>1, <2>4 DEF SendCanceled, TransportError, NoError
  <2>5. CASE SendStopped(o)
    BY <1>1, <2>5 DEF SendStopped, Stopped, NoError
  <2>6. CASE Push(o)
    BY <2>6 DEF Push
  <2> QED
    BY <1>2, <2>1, <2>2, <2>3, <2>4, <2>5, <2>6 DEF Request
<1>3. ASSUME NEW o \in Ops, IOThread(o) PROVE OutcomeInv'
  <2>1. CASE TransportFails(o)
    BY <1>1, <2>1, PipelineAssumption DEF TransportFails, TransportError, Stopped, NoError
  <2>2. CASE Receive(o)
    BY <1>0, <2>2 DEF Receive
  <2>3. CASE Check(o)
    BY <1>0, <2>3, CheckedSuccess DEF Check
  <2>4. CASE Start(o)
    BY <2>4 DEF Start
  <2> QED
    BY <1>3, <2>1, <2>2, <2>3, <2>4 DEF IOThread
<1>4. ASSUME NEW o \in Ops, Respond(o) PROVE OutcomeInv'
  BY <1>0, <1>4 DEF Respond, QueueRetry, QueueFinish
<1>5. ASSUME NEW o \in Ops, Scheduler(o) PROVE OutcomeInv'
  BY <1>0, <1>5 DEF Scheduler, RunRetry, RunFinish
<1>6. ASSUME NEW o \in Ops, UseAfterFree(o) \/ DropTask(o) PROVE OutcomeInv'
  BY <1>6 DEF UseAfterFree, DropTask
<1>7. CASE UNCHANGED <<pc, stateVars>>
  BY <1>7
<1>8. ASSUME NEW o \in Ops, Cancel(o) PROVE UNCHANGED <<pc, stateVars>>
  BY <1>8 DEF Cancel
<1>9. ASSUME NEW by, Destroy(by) PROVE UNCHANGED <<pc, stateVars>>
  BY <1>9 DEF Destroy
<1>10. CASE TransportGone \/ StopScheduler \/ SchedulerEnds \/ StepClock \/ UNCHANGED vars
  BY <1>7, <1>10 DEF TransportGone, StopScheduler, SchedulerEnds, NextStage, StepClock, vars
<1> QED
  BY <1>2, <1>3, <1>4, <1>5, <1>6, <1>7, <1>8, <1>9, <1>10 DEF Next, Execute, Destructor

\* What a callback gets as an output was received by the attempt that ended
\* its operation.
THEOREM SuccessIsFresh == Spec => []SuccessIsOfLastAttempt
<1>1. Init => OutcomeInv
  BY DEF Init, OutcomeInv, Fresh, NoResponse
<1>2. OutcomeInv => SuccessIsOfLastAttempt
  BY DEF OutcomeInv, Fresh, SuccessIsOfLastAttempt
<1> QED
  BY <1>1, <1>2, TypeInit, TypeStep, OutcomeStep, PTL DEF Spec

-----------------------------------------------------------------------------
(* Clock-skew correction: as with the synchronous client, a rejection is   *)
(* spent on an operation signed off the server's clock, and leaves it      *)
(* signed on that clock, on whatever thread it is repeated.                *)

Corrected(o) == IF signOffset[o] = skew THEN 1 ELSE 0

SkewInv ==
    \A o \in Ops :
        /\ rejects[o] <= drifts + Corrected(o)
        /\ pc[o] = "answered" /\ response[o].fault = "skew" =>
              /\ response[o].status = 403
              /\ rejects[o] <= drifts
        /\ pc[o] \in {"idle", "prepare"} => rejects[o] = 0

LEMMA OffsetsAreNumbers ==
    ASSUME TypeInv, NEW o \in Ops
    PROVE  signOffset[o] \in Int /\ skew \in Int
<1>1. Skews \union {0} \subseteq Int
  BY AsyncAssumption
<1>2. signOffset[o] \in Skews \union {0} /\ skew \in Skews
  BY DEF TypeInv, TypeOK
<1> QED
  BY <1>1, <1>2

LEMMA SkewStep ==
    ASSUME CorrectClockSkew, TypeInv, SkewInv, [Next]_vars
    PROVE  SkewInv'
<1> USE AsyncAssumption
    DEF TypeInv, TypeOK, SkewInv, Corrected, Goto, Fail, lifeVars, envVars, stateVars, historyVars
<1>0. \A o \in Ops : rejects[o] \in Nat /\ drifts \in Nat
  OBVIOUS
<1>1. ASSUME NEW o \in Ops, Request(o) PROVE SkewInv'
  BY <1>0, <1>1 DEF Request, CallAsync, Refuse, Prepare, SignFails, Sign, SendCanceled,
                    CheckToken, Send, SendStopped, Push, FailAttempt
<1>2. ASSUME NEW o \in Ops, IOThread(o) PROVE SkewInv'
  <2>1. CASE TransportFails(o)
    BY <1>0, <2>1 DEF TransportFails, FailAttempt
  <2>2. CASE Receive(o)
    <3>1. PICK r \in ServerReplies(signOffset[o], skew) :
              response' = [response EXCEPT ![o] =
                  [try |-> retries[o] + 1, status |-> r.status, fault |-> r.fault]]
      BY <2>2 DEF Receive
    <3>2. signOffset[o] \in Int /\ skew \in Int
      BY OffsetsAreNumbers
    <3>3. r.fault = "skew" => r.status = 403 /\ signOffset[o] # skew
      BY <3>2, RejectionIsDeserved
    <3> QED
      BY <2>2, <3>1, <3>3, <1>0 DEF Receive
  <2>3. CASE Check(o)
    <3>1. response[o].fault = "skew" => SkewDetected(response[o], skew)
      BY <2>3 DEF Check, SkewDetected
    <3>2. SkewDetected(response[o], skew) => response[o].fault = "skew"
      BY DEF SkewDetected
    <3> QED
      BY <2>3, <3>1, <3>2, <1>0 DEF Check
  <2>4. CASE Start(o)
    BY <1>0, <2>4 DEF Start
  <2> QED
    BY <1>2, <2>1, <2>2, <2>3, <2>4 DEF IOThread
<1>3. ASSUME NEW o \in Ops, Respond(o) \/ Scheduler(o) \/ UseAfterFree(o) \/ DropTask(o)
      PROVE  SkewInv'
  BY <1>0, <1>3 DEF Respond, QueueRetry, QueueFinish, Scheduler, RunRetry, RunFinish,
                    UseAfterFree, DropTask
<1>4. CASE StepClock
  BY <1>0, <1>4 DEF StepClock
<1>5. CASE UNCHANGED <<skew, drifts, pc, stateVars, historyVars>>
  BY <1>5
<1>6. ASSUME NEW o \in Ops, Cancel(o) PROVE UNCHANGED <<skew, drifts, pc, stateVars, historyVars>>
  BY <1>6 DEF Cancel
<1>7. ASSUME NEW by, Destroy(by) PROVE UNCHANGED <<skew, drifts, pc, stateVars, historyVars>>
  BY <1>7 DEF Destroy
<1>8. CASE TransportGone \/ StopScheduler \/ SchedulerEnds \/ UNCHANGED vars
  BY <1>5, <1>8 DEF TransportGone, StopScheduler, SchedulerEnds, NextStage, vars
<1> QED
  BY <1>1, <1>2, <1>3, <1>4, <1>5, <1>6, <1>7, <1>8 DEF Next, Execute, Destructor

\* With the CorrectClockSkew flag on, an operation is rejected for its signing
\* time at most once, and once more for each step of the local clock.
THEOREM SkewCorrectionConverges == CorrectClockSkew => (Spec => []SkewHeals)
<1> SUFFICES ASSUME CorrectClockSkew PROVE Spec => []SkewHeals
  OBVIOUS
<1>1. Init => SkewInv
  BY AsyncAssumption DEF Init, SkewInv, Corrected
<1>2. TypeInv /\ SkewInv /\ [Next]_vars => SkewInv'
  BY SkewStep
<1>3. TypeInv /\ SkewInv => SkewHeals
  BY DEF TypeInv, TypeOK, SkewInv, Corrected, SkewHeals
<1> QED
  BY <1>1, <1>2, <1>3, TypeInit, TypeStep, PTL DEF Spec

-----------------------------------------------------------------------------
(* The client implements the abstract operation, its destruction included: *)
(* a step of o moves o's phase, counter and answer, and nobody else's.     *)

Held(o) == response[o].try

Alone(o) == \A p \in Ops \ {o} : UNCHANGED <<pc[p], retries[p], response[p]>>

\* What the step does to the operation it belongs to, read abstractly.
Stutters(o) == UNCHANGED <<Phase(o), retries[o], Held(o)>>

Begins(o) ==
    /\ Phase(o) = "idle"
    /\ Phase(o)' = "running"
    /\ UNCHANGED <<retries[o], Held(o)>>

Answers(o) ==
    /\ Phase(o) = "running"
    /\ Held(o)' = retries[o] + 1
    /\ UNCHANGED <<Phase(o), retries[o]>>

Repeats(o) ==
    /\ Phase(o) = "running"
    /\ retries[o] + 1 < AttemptBound
    /\ retries'[o] = retries[o] + 1
    /\ UNCHANGED <<Phase(o), Held(o)>>

Finishes(o) ==
    /\ Phase(o) # "done"
    /\ Phase(o)' = "done"
    /\ UNCHANGED <<retries[o], Held(o)>>

Refines(o) == Stutters(o) \/ Begins(o) \/ Answers(o) \/ Repeats(o) \/ Finishes(o)

LEMMA AbstractStep ==
    ASSUME TypeInv, TypeInv', NEW o \in Ops, Alone(o), Refines(o)
    PROVE  [Abstract!Next]_Abstract!vars
<1> DEFINE phase  == [p \in Ops |-> Phase(p)]
           answer == [p \in Ops |-> response[p].try]
<1>1. \A p \in Ops \ {o} : UNCHANGED <<Phase(p), retries[p], response[p].try>>
  BY DEF Alone, Phase
<1>2. /\ retries \in [Ops -> 0..AttemptBound-1]
      /\ retries' \in [Ops -> 0..AttemptBound-1]
  BY DEF TypeInv, TypeOK
<1>3. /\ phase' = [phase EXCEPT ![o] = Phase(o)']
      /\ answer' = [answer EXCEPT ![o] = Held(o)']
      /\ retries' = [retries EXCEPT ![o] = retries'[o]]
  BY <1>1, <1>2 DEF Held
<1>4. phase[o] = Phase(o) /\ answer[o] = Held(o)
  BY DEF Held
<1> HIDE DEF phase, answer
<1>5. CASE Stutters(o)
  <2>1. UNCHANGED <<phase, retries, answer>>
    BY <1>1, <1>2, <1>5 DEF Stutters, Held, phase, answer
  <2> QED
    BY <2>1 DEF Abstract!vars, phase, answer
<1>6. CASE Begins(o)
  <2>1. Abstract!Begin(o)
    BY <1>1, <1>2, <1>3, <1>4, <1>6 DEF Begins, Held, Abstract!Begin, phase, answer
  <2> QED
    BY <2>1 DEF Abstract!Next
<1>7. CASE Answers(o)
  <2>1. Abstract!Answer(o)
    BY <1>1, <1>2, <1>3, <1>4, <1>7 DEF Answers, Held, Abstract!Answer, phase, answer
  <2> QED
    BY <2>1 DEF Abstract!Next
<1>8. CASE Repeats(o)
  <2>1. Abstract!Repeat(o)
    BY <1>1, <1>2, <1>3, <1>4, <1>8 DEF Repeats, Held, Abstract!Repeat, phase, answer
  <2> QED
    BY <2>1 DEF Abstract!Next
<1>9. CASE Finishes(o)
  <2>1. Abstract!Finish(o)
    BY <1>1, <1>2, <1>3, <1>4, <1>9 DEF Finishes, Held, Abstract!Finish, phase, answer
  <2> QED
    BY <2>1 DEF Abstract!Next
<1> QED
  BY <1>5, <1>6, <1>7, <1>8, <1>9 DEF Refines

LEMMA RefinementStep ==
    ASSUME TypeInv, TypeInv', [Next]_vars
    PROVE  [Abstract!Next]_Abstract!vars
<1> USE DEF TypeInv, TypeOK, Goto, Fail, Phase, Over, Held, lifeVars, envVars, stateVars,
            historyVars
<1>1. ASSUME NEW o \in Ops, Request(o) PROVE [Abstract!Next]_Abstract!vars
  <2>1. Alone(o)
    BY <1>1 DEF Alone, Request, CallAsync, Refuse, Prepare, SignFails, Sign, SendCanceled,
                CheckToken, Send, SendStopped, Push, FailAttempt
  <2>2. Stutters(o) \/ Begins(o) \/ Finishes(o)
    BY <1>1 DEF Request, CallAsync, Refuse, Prepare, SignFails, Sign, SendCanceled, CheckToken,
                Send, SendStopped, Push, FailAttempt, Stutters, Begins, Finishes
  <2> QED
    BY <2>1, <2>2, AbstractStep DEF Refines
<1>2. ASSUME NEW o \in Ops, IOThread(o) PROVE [Abstract!Next]_Abstract!vars
  <2>1. Alone(o)
    BY <1>2 DEF Alone, IOThread, Start, TransportFails, Receive, Check, FailAttempt
  <2>2. CASE Receive(o)
    <3>1. PICK r \in ServerReplies(signOffset[o], skew) :
              response' = [response EXCEPT ![o] =
                  [try |-> retries[o] + 1, status |-> r.status, fault |-> r.fault]]
      BY <2>2 DEF Receive
    <3>2. Answers(o)
      BY <2>2, <3>1 DEF Receive, Answers
    <3> QED
      BY <2>1, <3>2, AbstractStep DEF Refines
  <2>3. CASE Start(o) \/ TransportFails(o) \/ Check(o)
    <3>1. Stutters(o)
      BY <2>3 DEF Start, TransportFails, Check, FailAttempt, Stutters
    <3> QED
      BY <2>1, <3>1, AbstractStep DEF Refines
  <2> QED
    BY <1>2, <2>2, <2>3 DEF IOThread
<1>3. ASSUME NEW o \in Ops, Respond(o) PROVE [Abstract!Next]_Abstract!vars
  <2>1. Alone(o)
    BY <1>3 DEF Alone, Respond, QueueRetry, QueueFinish
  <2>2. CASE QueueRetry(o)
    <3>1. retries[o] + 1 < AttemptBound
      BY <2>2, BoundIsPositive, RetryStaysBounded DEF QueueRetry, WillRetry
    <3>2. Repeats(o)
      BY <2>2, <3>1 DEF QueueRetry, Repeats
    <3> QED
      BY <2>1, <3>2, AbstractStep DEF Refines
  <2>3. CASE QueueFinish(o)
    <3>1. Stutters(o)
      BY <2>3 DEF QueueFinish, Stutters
    <3> QED
      BY <2>1, <3>1, AbstractStep DEF Refines
  <2> QED
    BY <1>3, <2>2, <2>3 DEF Respond
<1>4. ASSUME NEW o \in Ops, Scheduler(o) \/ UseAfterFree(o) \/ DropTask(o)
      PROVE  [Abstract!Next]_Abstract!vars
  <2>1. Alone(o)
    BY <1>4 DEF Alone, Scheduler, RunRetry, RunFinish, UseAfterFree, DropTask
  <2>2. Stutters(o) \/ Finishes(o)
    BY <1>4 DEF Scheduler, RunRetry, RunFinish, UseAfterFree, DropTask, Stutters, Finishes
  <2> QED
    BY <2>1, <2>2, AbstractStep DEF Refines
<1>5. CASE UNCHANGED <<pc, retries, response>>
  BY <1>5 DEF Abstract!vars
<1>6. ASSUME NEW o \in Ops, Cancel(o) PROVE UNCHANGED <<pc, retries, response>>
  BY <1>6 DEF Cancel
<1>7. ASSUME NEW by, Destroy(by) PROVE UNCHANGED <<pc, retries, response>>
  BY <1>7 DEF Destroy
<1>8. CASE TransportGone \/ StopScheduler \/ SchedulerEnds \/ StepClock \/ UNCHANGED vars
  BY <1>5, <1>8 DEF TransportGone, StopScheduler, SchedulerEnds, NextStage, StepClock, vars
<1> QED
  BY <1>1, <1>2, <1>3, <1>4, <1>5, <1>6, <1>7, <1>8 DEF Next, Execute, Destructor

\* Every behaviour of the client is one of the operations it promises: each
\* makes at most AttemptBound attempts one after the other, and what is over
\* stays over, when the client goes too.
THEOREM ClientImplementsOperation == Spec => Abstract!Spec
<1>1. Init => Abstract!Init
  BY DEF Init, Abstract!Init, Phase, NoResponse
<1> QED
  BY <1>1, TypeInit, TypeStep, RefinementStep, PTL DEF Spec, Abstract!Spec
=============================================================================
