-------------------------- MODULE SyncClientProofs --------------------------
(***************************************************************************)
(* The synchronous client's invariants, for any operations, tokens, error  *)
(* sets and bounds.                                                        *)
(***************************************************************************)
EXTENDS SyncClient, TLAPS

-----------------------------------------------------------------------------
(* Pipeline's decisions and replies.                                       *)

\* The loop runs at least once.
LEMMA BoundIsPositive == AttemptBound \in Nat \ {0}
BY PipelineAssumption DEF AttemptBound, Larger

\* Another attempt stays below the bound.
LEMMA RetryStaysBounded ==
    ASSUME NEW o, NEW n \in Nat, NEW e, MayRetry(o, n, e)
    PROVE  n + 1 \in 0..AttemptBound-1
BY PipelineAssumption DEF AttemptBound, Larger, MayRetry

\* What the server sends is a reply.
LEMMA ServerRepliesType ==
    ASSUME NEW a, NEW b
    PROVE  ServerReplies(a, b) \subseteq ReplyType
<1>1. SkewRejection \in ReplyType
  BY DEF SkewRejection, ReplyType
<1> QED
  BY <1>1, PipelineAssumption DEF ServerReplies

\* The server blames the signing time only of a request signed off its clock.
LEMMA RejectionIsDeserved ==
    ASSUME NEW a \in Int, NEW b \in Int, NEW r \in ServerReplies(a, b), r.fault = "skew"
    PROVE  r.status = 403 /\ a # b
BY PipelineAssumption DEF ServerReplies, SkewRejection, Unavailable, Abs, MaxAllowedSkew

\* The checkers never report a cancellation.
LEMMA CheckedErrorIsNoCancel ==
    ASSUME NEW r, NEW n
    PROVE  ~ IsCanceled(CheckedError(r, n))
BY DEF CheckedError, PreServiceError, IsCanceled, NoError, ServerError, RetryableServerError,
       ClientError

-----------------------------------------------------------------------------
(* The client's types of what Pipeline's operators return.                 *)

\* The response checker leaves no error, a server error or a checksum mismatch.
LEMMA CheckedErrorType ==
    ASSUME NEW r \in ResponseType, r.status # 0, NEW n
    PROVE  CheckedError(r, n) \in Errors
<1>1. r.status \in 100..599
  BY DEF ResponseType
<1>2. /\ NoError \in Errors /\ ClientError("CrcMismatch") \in Errors
      /\ ServerError(r.status) \in Errors /\ RetryableServerError(r.status) \in Errors
  BY <1>1 DEF Errors
<1> QED
  BY <1>2 DEF CheckedError, PreServiceError

-----------------------------------------------------------------------------
(* Types and counters.  TypeOK bounds sends and rejects, which only their   *)
(* relation to the loop counter explains; and the loop counter grows after *)
(* a wait because the retryer's test held before it.                       *)

AfterSend  == {"inflight", "aborted", "check", "storeSkew", "decide", "clientWait",
               "clientWoken", "tokenLock", "tokenWait", "done"}
AfterCheck == AfterSend \ {"inflight", "aborted", "check"}
Waits      == {"clientWait", "clientWoken", "tokenLock", "tokenWait"}

Counted ==
    \A o \in Ops :
        /\ sends[o]   <= retries[o] + (IF pc[o] \in AfterSend  THEN 1 ELSE 0)
        /\ rejects[o] <= retries[o] + (IF pc[o] \in AfterCheck THEN 1 ELSE 0)

WaitsToRetry == \A o \in Ops : pc[o] \in Waits => WillRetry(o)

HasResponse == \A o \in Ops : pc[o] = "check" => response[o].status # 0

\* A late call is of a canceled operation, and the operation does not get past
\* the test of its token again.
LateCounted ==
    \A o \in Ops :
        /\ lateSends[o] <= 1
        /\ lateSends[o] > 0 => o \in canceled /\ pc[o] # "call"

TypeInv == TypeOK /\ Counted /\ WaitsToRetry /\ HasResponse /\ LateCounted

LEMMA TypeInit == Init => TypeInv
<1>1. NoError \in Errors
  BY DEF Errors
<1>2. NoResponse \in ResponseType
  BY BoundIsPositive DEF NoResponse, ResponseType
<1>3. Init => TypeOK
  <2> SUFFICES ASSUME Init PROVE TypeOK
    OBVIOUS
  <2>1. err \in [Ops -> Errors] /\ response \in [Ops -> ResponseType]
    BY <1>1, <1>2 DEF Init
  <2>2. disabled \in BOOLEAN /\ canceled \subseteq TokenOps /\ dropped \subseteq TokenOps
    BY DEF Init
  <2>3. /\ clockOffset \in Skews \union {0}
        /\ skew \in Skews
        /\ signOffset \in [Ops -> Skews \union {0}]
        /\ toggles \in 0..MaxToggles
        /\ drifts \in 0..MaxDrifts
    BY SyncAssumption DEF Init
  <2>4. pc \in [Ops -> PCs] /\ sawDisable \in [Ops -> BOOLEAN] /\ heldBack \subseteq Ops
    BY DEF Init, PCs
  <2>5. /\ retries \in [Ops -> 0..AttemptBound-1]
        /\ sends \in [Ops -> 0..AttemptBound]
        /\ lateSends \in [Ops -> 0..AttemptBound]
        /\ rejects \in [Ops -> 0..AttemptBound]
    BY BoundIsPositive DEF Init
  <2> QED
    BY <2>1, <2>2, <2>3, <2>4, <2>5 DEF TypeOK
<1>4. Init => Counted /\ WaitsToRetry /\ HasResponse /\ LateCounted
  BY DEF Init, Counted, WaitsToRetry, HasResponse, LateCounted, AfterSend, AfterCheck, Waits
<1> QED
  BY <1>3, <1>4 DEF TypeInv

\* An attempt that fails goes to the retryer without a response.
LEMMA FailureStep ==
    ASSUME TypeInv, NEW o \in Ops, NEW from \in {"sign", "send", "inflight", "aborted"},
           NEW e \in Errors, FailAttempt(o, from, e), UNCHANGED callVars
    PROVE  TypeInv'
<1>1. /\ pc[o] = from /\ pc' = [pc EXCEPT ![o] = "decide"]
      /\ err' = [err EXCEPT ![o] = e]
      /\ response' = [response EXCEPT ![o] = NoResponse]
      /\ UNCHANGED <<disabled, clockOffset, skew, canceled, dropped, toggles, drifts, retries,
                     signOffset, sends, lateSends, rejects, sawDisable, heldBack>>
  BY DEF FailAttempt, Goto, Fail, clientVars, envVars, callVars
<1>2. NoResponse \in ResponseType
  BY BoundIsPositive DEF NoResponse, ResponseType
<1>3. TypeOK'
  BY <1>1, <1>2 DEF TypeInv, TypeOK, PCs
<1>4. Counted'
  BY <1>1, BoundIsPositive DEF TypeInv, TypeOK, PCs, Counted, AfterSend, AfterCheck
<1>5. WaitsToRetry' /\ HasResponse'
  BY <1>1 DEF TypeInv, TypeOK, PCs, WaitsToRetry, HasResponse, WillRetry, Waits
<1>6. LateCounted'
  BY <1>1 DEF TypeInv, TypeOK, PCs, LateCounted
<1> QED
  BY <1>3, <1>4, <1>5, <1>6 DEF TypeInv

LEMMA FailedAttemptsKeepTypes ==
    ASSUME TypeInv, NEW o \in Ops,
           SignFails(o) \/ SendCanceled(o) \/ TransportFails(o) \/ AbortFails(o)
    PROVE  TypeInv'
<1>1. SignErrors \subseteq Errors /\ TransportErrors \subseteq Errors
  BY DEF Errors
<1>2. TransportError("Canceled") \in Errors /\ TransportError("Unknown") \in Errors
  BY DEF Errors
<1>3. UNCHANGED callVars
  BY DEF SignFails, SendCanceled, TransportFails, AbortFails
<1>4. \E e \in Errors, from \in {"sign", "send", "inflight", "aborted"} : FailAttempt(o, from, e)
  BY <1>1, <1>2 DEF SignFails, SendCanceled, TransportFails, AbortFails
<1> QED
  BY <1>3, <1>4, FailureStep

LEMMA TypeStep == TypeInv /\ [Next]_vars => TypeInv'
<1> SUFFICES ASSUME TypeInv, [Next]_vars PROVE TypeInv'
  OBVIOUS
<1>0. ASSUME NEW o \in Ops, SignFails(o) \/ SendCanceled(o) \/ TransportFails(o) \/ AbortFails(o)
      PROVE  TypeInv'
  BY <1>0, FailedAttemptsKeepTypes
<1> USE BoundIsPositive
    DEF TypeInv, TypeOK, Counted, WaitsToRetry, HasResponse, LateCounted, PCs, AfterSend,
        AfterCheck, Waits, WillRetry, Goto, Fail, clientVars, envVars, contextVars, historyVars,
        callVars
<1>1. ASSUME NEW o \in Ops, Prologue(o) PROVE TypeInv'
  <2>1. CASE CallDisabled(o)
    <3>1. ClientError("OperationCanceled") \in Errors
      BY DEF Errors
    <3> QED
      BY <2>1, <3>1 DEF CallDisabled
  <2>2. CASE Call(o)
    BY <2>2 DEF Call
  <2>3. CASE Refuse(o)
    BY <2>3 DEF Refuse, Errors
  <2>4. CASE Prepare(o)
    BY <2>4 DEF Prepare
  <2> QED
    BY <1>1, <2>1, <2>2, <2>3, <2>4 DEF Prologue
<1>2. ASSUME NEW o \in Ops, Exchange(o) PROVE TypeInv'
  <2>1. CASE SignFails(o) \/ SendCanceled(o) \/ TransportFails(o) \/ AbortFails(o)
    BY <1>0, <2>1
  <2>2. CASE Sign(o)
    BY <2>2 DEF Sign
  <2>3. CASE Send(o)
    <3>1. lateSends'[o] <= 1 /\ (lateSends'[o] > 0 => o \in canceled)
      BY <2>3 DEF Send
    <3>2. lateSends' \in [Ops -> 0..AttemptBound]
      BY <2>3, <3>1 DEF Send
    <3> QED
      BY <2>3, <3>1, <3>2 DEF Send
  <2>4. CASE Receive(o)
    <3>1. PICK r \in ServerReplies(signOffset[o], skew) :
              response' = [response EXCEPT ![o] =
                  [try |-> retries[o] + 1, status |-> r.status, fault |-> r.fault]]
      BY <2>4 DEF Receive
    <3>2. r \in ReplyType
      BY <3>1, ServerRepliesType
    <3>3. response' \in [Ops -> ResponseType] /\ response'[o].status # 0
      BY <3>1, <3>2 DEF ResponseType, ReplyType
    <3> QED
      BY <2>4, <3>1, <3>3 DEF Receive
  <2>5. CASE Check(o)
    BY <2>5, CheckedErrorType DEF Check
  <2>6. CASE StoreSkew(o)
    BY <2>6 DEF StoreSkew
  <2>7. CASE Abort(o)
    BY <2>7 DEF Abort
  <2>8. CASE CheckToken(o)
    BY <2>8 DEF CheckToken
  <2> QED
    BY <1>2, <2>1, <2>2, <2>3, <2>4, <2>5, <2>6, <2>7, <2>8 DEF Exchange
<1>3. ASSUME NEW o \in Ops, Retryer(o) PROVE TypeInv'
  <2>1. ASSUME NEW from \in Waits \union {"decide"}, WillRetry(o), Retry(o, from) PROVE TypeInv'
    BY <2>1, RetryStaysBounded DEF Retry, Errors
  <2>2. ASSUME NEW from \in Waits, GiveUp(o, from) PROVE TypeInv'
    BY <2>2 DEF GiveUp, Errors
  <2>3. CASE Return(o)
    BY <2>3 DEF Return
  <2>4. CASE RetryAtOnce(o)
    BY <2>4, <2>1 DEF RetryAtOnce
  <2>5. CASE StartClientWait(o)
    BY <2>5 DEF StartClientWait
  <2>6. CASE StartTokenWait(o)
    BY <2>6 DEF StartTokenWait
  <2>7. CASE ClientWait(o)
    <3>1. CASE GiveUp(o, "clientWait")
      BY <2>2, <3>1
    <3>2. CASE Goto(o, "clientWait", "clientWoken")
      BY <2>7, <3>2 DEF ClientWait, GiveUp
    <3> QED
      BY <2>7, <3>1, <3>2 DEF ClientWait
  <2>8. CASE LockToken(o)
    BY <2>8, <2>2 DEF LockToken
  <2>9. CASE TokenWait(o)
    <3>1. pc[o] = "tokenWait"
      BY <2>9 DEF TokenWait, GiveUp, Retry
    <3> QED
      BY <2>9, <2>1, <2>2, <3>1 DEF TokenWait
  <2>10. CASE LookAtToken(o)
    <3>1. pc[o] = "clientWoken"
      BY <2>10 DEF LookAtToken, GiveUp, Retry
    <3> QED
      BY <2>10, <2>1, <2>2, <3>1 DEF LookAtToken
  <2> QED
    BY <1>3, <2>3, <2>4, <2>5, <2>6, <2>7, <2>8, <2>9, <2>10 DEF Retryer
<1>4. ASSUME Environment PROVE TypeInv'
  <2>1. CASE DisableRequest
    BY <2>1, SyncAssumption DEF DisableRequest, Running
  <2>2. CASE EnableRequest
    BY <2>2 DEF EnableRequest
  <2>3. CASE StepClock
    BY <2>3, SyncAssumption DEF StepClock
  <2>4. ASSUME NEW o \in Ops, Cancel(o) PROVE TypeInv'
    BY <2>4 DEF Cancel
  <2>5. ASSUME NEW o \in Ops, DropSource(o) PROVE TypeInv'
    BY <2>5 DEF DropSource
  <2> QED
    BY <1>4, <2>1, <2>2, <2>3, <2>4, <2>5 DEF Environment
<1>5. CASE UNCHANGED vars
  BY <1>5 DEF vars
<1> QED
  BY <1>1, <1>2, <1>3, <1>4, <1>5 DEF Next, Execute

\* Types of every variable of the client, and the retry loop's counter below
\* its bound (RetryerExecuteMiddleware::Execute).
THEOREM TypeCorrect == Spec => []TypeOK
<1>1. TypeInv => TypeOK
  BY DEF TypeInv
<1> QED
  BY <1>1, TypeInit, TypeStep, PTL DEF Spec

-----------------------------------------------------------------------------
(* An operation that cannot be replayed never gets past its first attempt: *)
(* every way back to the top of the loop goes through MayRetry.            *)

OneShotsStay == \A o \in OneShotOps : retries[o] = 0

LEMMA OneShotStep == TypeInv /\ OneShotsStay /\ [Next]_vars => OneShotsStay'
<1> SUFFICES ASSUME TypeInv, OneShotsStay, [Next]_vars PROVE OneShotsStay'
  OBVIOUS
<1> USE DEF TypeInv, TypeOK, OneShotsStay
<1>1. ASSUME NEW o \in Ops, retries' # retries, Execute(o)
      PROVE  /\ WillRetry(o)
             /\ retries' = [retries EXCEPT ![o] = @ + 1]
  <2>1. ~ Prologue(o)
    BY <1>1 DEF Prologue, CallDisabled, Call, Refuse, Prepare, contextVars
  <2>2. ~ Exchange(o)
    BY <1>1 DEF Exchange, SignFails, Sign, SendCanceled, CheckToken, Send, TransportFails,
                Abort, AbortFails, Receive, Check, StoreSkew, FailAttempt, contextVars
  <2>3. CASE RetryAtOnce(o)
    BY <2>3 DEF RetryAtOnce, Retry
  <2>4. CASE LookAtToken(o)
    BY <1>1, <2>4 DEF LookAtToken, GiveUp, Retry, Goto, WaitsToRetry, Waits
  <2>5. CASE TokenWait(o)
    BY <1>1, <2>5 DEF TokenWait, GiveUp, Retry, Goto, WaitsToRetry, Waits
  <2>6. ~ (Return(o) \/ StartClientWait(o) \/ ClientWait(o) \/ StartTokenWait(o) \/ LockToken(o))
    BY <1>1 DEF Return, StartClientWait, ClientWait, StartTokenWait, LockToken, GiveUp,
                contextVars
  <2> QED
    BY <1>1, <2>1, <2>2, <2>3, <2>4, <2>5, <2>6 DEF Execute, Retryer
<1>2. ASSUME Environment PROVE retries' = retries
  BY <1>2 DEF Environment, DisableRequest, EnableRequest, StepClock, Cancel, DropSource,
              contextVars
<1>3. CASE retries' = retries
  BY <1>3
<1>4. ASSUME NEW o \in Ops, retries' # retries, Execute(o) PROVE OneShotsStay'
  <2>1. o \notin OneShotOps
    BY <1>1, <1>4 DEF WillRetry, MayRetry
  <2> QED
    BY <1>1, <1>4, <2>1, PipelineAssumption
<1> QED
  BY <1>2, <1>3, <1>4 DEF Next, vars, contextVars

\* No operation makes more HTTP calls than retryMaxAttempts allows, and a
\* one-shot body or sink is used by one call only.
THEOREM AttemptsAreBounded == Spec => []AttemptsBounded
<1>1. Init => OneShotsStay
  BY PipelineAssumption DEF Init, OneShotsStay
<1>2. TypeInv /\ OneShotsStay => AttemptsBounded
  BY BoundIsPositive, PipelineAssumption
  DEF TypeInv, TypeOK, Counted, OneShotsStay, AttemptsBounded
<1> QED
  BY <1>1, <1>2, TypeInit, TypeStep, OneShotStep, PTL DEF Spec

-----------------------------------------------------------------------------
(* Nobody is told "canceled" without a cause: while the client is disabled *)
(* every running operation has seen it so, and no other error of the stack *)
(* satisfies the condition.                                                *)

HasCause(o) == o \in canceled \/ o \in dropped \/ sawDisable[o]

CauseInv ==
    /\ disabled => \A o \in Ops : Running(o) => sawDisable[o]
    /\ \A o \in Ops : IsCanceled(err[o]) => HasCause(o)

LEMMA CauseStep == TypeInv /\ CauseInv /\ [Next]_vars => CauseInv'
<1> SUFFICES ASSUME TypeInv, CauseInv, [Next]_vars PROVE CauseInv'
  OBVIOUS
<1> USE DEF TypeInv, TypeOK, CauseInv, HasCause, Running, Goto, Fail, clientVars, envVars,
            contextVars, historyVars, callVars
<1>0. ~ IsCanceled(NoError)
  BY DEF IsCanceled, NoError
<1>1. ASSUME NEW o \in Ops, Prologue(o) PROVE CauseInv'
  <2>1. CASE CallDisabled(o)
    BY <2>1 DEF CallDisabled
  <2>2. CASE Call(o)
    BY <2>2 DEF Call
  <2>3. CASE Refuse(o)
    BY <2>3, PipelineAssumption DEF Refuse
  <2>4. CASE Prepare(o)
    BY <2>4 DEF Prepare
  <2> QED
    BY <1>1, <2>1, <2>2, <2>3, <2>4 DEF Prologue
<1>2. ASSUME NEW o \in Ops, Exchange(o) PROVE CauseInv'
  <2>0. ASSUME NEW from \in {"sign", "send", "inflight", "aborted"}, NEW e,
               IsCanceled(e) => HasCause(o),
               FailAttempt(o, from, e), UNCHANGED callVars
        PROVE  CauseInv'
    BY <2>0 DEF FailAttempt
  <2>1. CASE SignFails(o)
    BY <2>0, <2>1, PipelineAssumption DEF SignFails
  <2>2. CASE Sign(o)
    BY <2>2 DEF Sign
  <2>3. CASE SendCanceled(o)
    BY <2>0, <2>3 DEF SendCanceled
  <2>4. CASE CheckToken(o) \/ Send(o)
    BY <2>4 DEF CheckToken, Send
  <2>5. CASE TransportFails(o)
    BY <2>0, <2>5, PipelineAssumption DEF TransportFails
  <2>6. CASE Receive(o)
    BY <2>6 DEF Receive
  <2>7. CASE Check(o)
    BY <2>7, CheckedErrorIsNoCancel DEF Check
  <2>8. CASE StoreSkew(o)
    BY <2>8 DEF StoreSkew
  <2>9. CASE Abort(o)
    BY <2>9 DEF Abort
  <2>10. CASE AbortFails(o)
    <3>1. pc[o] = "aborted"
      BY <2>10 DEF AbortFails, FailAttempt
    <3>2. CASE StopsTransfer(o)
      BY <2>0, <2>10, <3>1, <3>2 DEF AbortFails, StopsTransfer
    <3>3. CASE ~ StopsTransfer(o)
      <4>1. ~ IsCanceled(TransportError("Unknown"))
        BY DEF IsCanceled, TransportError
      <4> QED
        BY <2>0, <2>10, <3>3, <4>1 DEF AbortFails
    <3> QED
      BY <3>2, <3>3
  <2> QED
    BY <1>2, <2>1, <2>2, <2>3, <2>4, <2>5, <2>6, <2>7, <2>8, <2>9, <2>10 DEF Exchange
<1>3. ASSUME NEW o \in Ops, Retryer(o) PROVE CauseInv'
  <2>1. ASSUME NEW from \in Waits \union {"decide"}, Retry(o, from) PROVE CauseInv'
    BY <2>1, <1>0 DEF Retry, Waits
  <2>2. ASSUME NEW from \in Waits, GiveUp(o, from), HasCause(o) PROVE CauseInv'
    BY <2>2 DEF GiveUp, Waits
  <2>3. CASE Return(o)
    BY <2>3 DEF Return
  <2>4. CASE RetryAtOnce(o)
    BY <2>4, <2>1 DEF RetryAtOnce
  <2>5. CASE StartClientWait(o)
    BY <2>5 DEF StartClientWait
  <2>6. CASE StartTokenWait(o)
    BY <2>6 DEF StartTokenWait
  <2>7. CASE ClientWait(o)
    <3>1. pc[o] = "clientWait"
      BY <2>7 DEF ClientWait, GiveUp
    <3>2. CASE disabled
      BY <2>2, <2>7, <3>1, <3>2 DEF ClientWait, Waits
    <3>3. CASE ~ disabled
      BY <2>7, <3>3 DEF ClientWait
    <3> QED
      BY <3>2, <3>3
  <2>8. CASE LookAtToken(o)
    BY <2>8, <2>1, <2>2 DEF LookAtToken, Waits
  <2>9. CASE LockToken(o)
    <3>1. CASE o \in dropped \/ o \in canceled
      BY <2>2, <2>9, <3>1 DEF LockToken, Waits
    <3>2. CASE ~ (o \in dropped \/ o \in canceled)
      BY <2>9, <3>2 DEF LockToken
    <3> QED
      BY <3>1, <3>2
  <2>10. CASE TokenWait(o)
    BY <2>10, <2>1, <2>2 DEF TokenWait, Waits
  <2> QED
    BY <1>3, <2>3, <2>4, <2>5, <2>6, <2>7, <2>8, <2>9, <2>10 DEF Retryer
<1>4. ASSUME Environment PROVE CauseInv'
  <2>1. CASE DisableRequest
    BY <2>1 DEF DisableRequest
  <2>2. CASE EnableRequest \/ StepClock
    BY <2>2 DEF EnableRequest, StepClock
  <2>3. ASSUME NEW o \in Ops, Cancel(o) \/ DropSource(o) PROVE CauseInv'
    BY <2>3 DEF Cancel, DropSource
  <2> QED
    BY <1>4, <2>1, <2>2, <2>3 DEF Environment
<1>5. CASE UNCHANGED vars
  BY <1>5 DEF vars
<1> QED
  BY <1>1, <1>2, <1>3, <1>4, <1>5 DEF Next, Execute

\* An operation ends as canceled only when its token was canceled, its source
\* dropped, or the client disabled while it ran.
THEOREM CancellationIsCaused == Spec => []CanceledHasACause
<1>1. Init => CauseInv
  BY DEF Init, CauseInv, IsCanceled, NoError
<1>2. CauseInv => CanceledHasACause
  BY DEF CauseInv, HasCause, CanceledHasACause
<1> QED
  BY <1>1, <1>2, TypeInit, TypeStep, CauseStep, PTL DEF Spec

-----------------------------------------------------------------------------
(* The response the loop holds.  Until the attempt in progress has an      *)
(* outcome it is an earlier attempt's, from then on this attempt's or none.*)

BeforeOutcome == {"idle", "prepare", "sign", "send", "call", "inflight", "aborted"}
AfterOutcome  == {"storeSkew", "decide", "clientWait", "clientWoken", "tokenLock", "tokenWait",
                  "done"}

LocalError(e) == e[1] \in {"transport", "signer", "credentials"}

Fresh(o) ==
    /\ pc[o] \in {"idle", "prepare"} => response[o] = NoResponse
    /\ pc[o] \in BeforeOutcome => response[o].try <= retries[o]
    /\ pc[o] = "check" => response[o].try = retries[o] + 1
    /\ pc[o] \in AfterOutcome =>
          /\ response[o] # NoResponse => response[o].try = retries[o] + 1
          /\ err[o] = NoError => /\ response[o].status \div 100 = 2
                                 /\ response[o].fault # "crc"
          /\ LocalError(err[o]) => response[o] = NoResponse

OutcomeInv == \A o \in Ops : Fresh(o)

\* What the checkers let pass is a 2xx with a good checksum, and what they
\* refuse is no fault of the client's own.
LEMMA CheckedErrorMeaning ==
    ASSUME NEW r, NEW n
    PROVE  /\ CheckedError(r, n) = NoError => r.status \div 100 = 2 /\ r.fault # "crc"
           /\ ~ LocalError(CheckedError(r, n))
BY DEF CheckedError, PreServiceError, LocalError, NoError, ServerError, RetryableServerError,
       ClientError

LEMMA OutcomeStep == TypeInv /\ OutcomeInv /\ [Next]_vars => OutcomeInv'
<1> SUFFICES ASSUME TypeInv, OutcomeInv, [Next]_vars PROVE OutcomeInv'
  OBVIOUS
<1> USE BoundIsPositive
    DEF TypeInv, TypeOK, OutcomeInv, Fresh, Goto, Fail, clientVars, envVars,
            contextVars, historyVars, callVars, BeforeOutcome, AfterOutcome
<1>0. /\ ~ LocalError(NoError)
      /\ ~ LocalError(ClientError("OperationCanceled"))
      /\ NoError # ClientError("OperationCanceled")
      /\ NoResponse.try = 0
      /\ \A o \in Ops : response[o].try \in Nat /\ retries[o] \in Nat
  BY DEF LocalError, NoError, ClientError, NoResponse, ResponseType
<1>1. ASSUME NEW o \in Ops, Prologue(o) PROVE OutcomeInv'
  <2>1. CASE CallDisabled(o)
    BY <2>1, <1>0 DEF CallDisabled
  <2>2. CASE Call(o)
    BY <2>2 DEF Call
  <2>3. CASE Refuse(o)
    BY <2>3, PipelineAssumption DEF Refuse
  <2>4. CASE Prepare(o)
    BY <2>4 DEF Prepare
  <2> QED
    BY <1>1, <2>1, <2>2, <2>3, <2>4 DEF Prologue
<1>2. ASSUME NEW o \in Ops, Exchange(o) PROVE OutcomeInv'
  <2>0. ASSUME NEW from \in {"sign", "send", "inflight", "aborted"}, NEW e, e # NoError,
               FailAttempt(o, from, e), UNCHANGED callVars
        PROVE  OutcomeInv'
    BY <2>0, <1>0 DEF FailAttempt
  <2>1. CASE SignFails(o)
    BY <2>0, <2>1, PipelineAssumption DEF SignFails
  <2>2. CASE Sign(o)
    BY <2>2 DEF Sign
  <2>3. CASE SendCanceled(o)
    BY <2>0, <2>3 DEF SendCanceled, TransportError, NoError
  <2>4. CASE CheckToken(o) \/ Send(o)
    BY <2>4 DEF CheckToken, Send
  <2>5. CASE TransportFails(o)
    BY <2>0, <2>5, PipelineAssumption DEF TransportFails
  <2>6. CASE Receive(o)
    BY <2>6, <1>0 DEF Receive
  <2>7. CASE Check(o)
    BY <2>7, CheckedErrorMeaning DEF Check
  <2>8. CASE StoreSkew(o)
    BY <2>8 DEF StoreSkew
  <2>9. CASE Abort(o)
    BY <2>9 DEF Abort
  <2>10. CASE AbortFails(o)
    BY <2>0, <2>10 DEF AbortFails, TransportError, NoError
  <2> QED
    BY <1>2, <2>1, <2>2, <2>3, <2>4, <2>5, <2>6, <2>7, <2>8, <2>9, <2>10 DEF Exchange
<1>3. ASSUME NEW o \in Ops, Retryer(o) PROVE OutcomeInv'
  <2>1. ASSUME NEW from \in Waits \union {"decide"}, Retry(o, from) PROVE OutcomeInv'
    BY <2>1, <1>0 DEF Retry, Waits
  <2>2. ASSUME NEW from \in Waits, GiveUp(o, from) PROVE OutcomeInv'
    BY <2>2, <1>0 DEF GiveUp, Waits
  <2>3. CASE Return(o)
    BY <2>3 DEF Return
  <2>4. CASE RetryAtOnce(o)
    BY <2>4, <2>1 DEF RetryAtOnce
  <2>5. CASE StartClientWait(o)
    BY <2>5 DEF StartClientWait
  <2>6. CASE StartTokenWait(o)
    BY <2>6 DEF StartTokenWait
  <2>7. CASE ClientWait(o) /\ ~ GiveUp(o, "clientWait")
    BY <2>7 DEF ClientWait
  <2>8. CASE LookAtToken(o)
    BY <2>8, <2>1, <2>2 DEF LookAtToken, Waits
  <2>9. CASE LockToken(o) /\ ~ GiveUp(o, "tokenLock")
    BY <2>9 DEF LockToken
  <2>10. CASE TokenWait(o)
    BY <2>10, <2>1, <2>2 DEF TokenWait, Waits
  <2> QED
    BY <1>3, <2>2, <2>3, <2>4, <2>5, <2>6, <2>7, <2>8, <2>9, <2>10 DEF Retryer, Waits
<1>4. ASSUME Environment PROVE OutcomeInv'
  BY <1>4 DEF Environment, DisableRequest, EnableRequest, StepClock, Cancel, DropSource
<1>5. CASE UNCHANGED vars
  BY <1>5 DEF vars
<1> QED
  BY <1>1, <1>2, <1>3, <1>4, <1>5 DEF Next, Execute

\* What Execute returns is about its last attempt alone.
THEOREM OutcomeIsFresh == Spec => []OutcomeIsOfLastAttempt
<1>1. Init => OutcomeInv
  BY DEF Init, OutcomeInv, Fresh, BeforeOutcome, AfterOutcome, NoResponse
<1>2. OutcomeInv => OutcomeIsOfLastAttempt
  BY DEF OutcomeInv, Fresh, AfterOutcome, LocalError, OutcomeIsOfLastAttempt
<1> QED
  BY <1>1, <1>2, TypeInit, TypeStep, OutcomeStep, PTL DEF Spec

-----------------------------------------------------------------------------
(* Clock-skew correction.  A rejection is spent on an operation that was   *)
(* signed off the server's clock, and leaves it signed on that clock until *)
(* the local one steps.                                                    *)

Corrected(o) == IF signOffset[o] = skew THEN 1 ELSE 0

SkewInv ==
    \A o \in Ops :
        /\ rejects[o] <= drifts + Corrected(o)
        /\ pc[o] = "check" /\ response[o].fault = "skew" =>
              /\ response[o].status = 403
              /\ rejects[o] <= drifts
        /\ pc[o] \in {"idle", "prepare"} => rejects[o] = 0

LEMMA OffsetsAreNumbers ==
    ASSUME TypeInv, NEW o \in Ops
    PROVE  signOffset[o] \in Int /\ skew \in Int
<1>1. Skews \union {0} \subseteq Int
  BY SyncAssumption
<1>2. signOffset[o] \in Skews \union {0} /\ skew \in Skews
  BY DEF TypeInv, TypeOK
<1> QED
  BY <1>1, <1>2

LEMMA SkewStep ==
    ASSUME CorrectClockSkew, TypeInv, SkewInv, [Next]_vars
    PROVE  SkewInv'
<1> USE SyncAssumption
    DEF TypeInv, TypeOK, SkewInv, Corrected, Goto, Fail, clientVars, envVars, contextVars,
        historyVars, callVars
<1>0. \A o \in Ops : rejects[o] \in Nat /\ drifts \in Nat
  OBVIOUS
<1>1. ASSUME NEW o \in Ops, Prologue(o) PROVE SkewInv'
  BY <1>1, <1>0 DEF Prologue, CallDisabled, Call, Refuse, Prepare
<1>2. ASSUME NEW o \in Ops, Exchange(o) PROVE SkewInv'
  <2>0. ASSUME NEW from \in {"sign", "send", "inflight", "aborted"}, NEW e,
               FailAttempt(o, from, e), UNCHANGED callVars
        PROVE  SkewInv'
    BY <2>0 DEF FailAttempt
  <2>1. CASE SignFails(o)
    BY <2>0, <2>1 DEF SignFails
  <2>2. CASE Sign(o) \/ Abort(o) \/ StoreSkew(o)
    BY <2>2 DEF Sign, Abort, StoreSkew
  <2>3. CASE SendCanceled(o)
    BY <2>0, <2>3 DEF SendCanceled
  <2>4. CASE CheckToken(o) \/ Send(o)
    BY <2>4 DEF CheckToken, Send
  <2>5. CASE TransportFails(o)
    BY <2>0, <2>5 DEF TransportFails
  <2>6. CASE Receive(o)
    <3>1. PICK r \in ServerReplies(signOffset[o], skew) :
              response' = [response EXCEPT ![o] =
                  [try |-> retries[o] + 1, status |-> r.status, fault |-> r.fault]]
      BY <2>6 DEF Receive
    <3>2. signOffset[o] \in Int /\ skew \in Int
      BY OffsetsAreNumbers
    <3>3. r.fault = "skew" => r.status = 403 /\ signOffset[o] # skew
      BY <3>2, RejectionIsDeserved
    <3> QED
      BY <2>6, <3>1, <3>3, <1>0 DEF Receive
  <2>7. CASE Check(o)
    <3>1. response[o].fault = "skew" => SkewDetected(response[o], skew)
      BY <2>7 DEF Check, SkewDetected
    <3>2. SkewDetected(response[o], skew) => response[o].fault = "skew"
      BY DEF SkewDetected
    <3> QED
      BY <2>7, <3>1, <3>2, <1>0 DEF Check
  <2>8. CASE AbortFails(o)
    BY <2>0, <2>8 DEF AbortFails
  <2> QED
    BY <1>2, <2>1, <2>2, <2>3, <2>4, <2>5, <2>6, <2>7, <2>8 DEF Exchange
<1>3. ASSUME NEW o \in Ops, Retryer(o) PROVE SkewInv'
  BY <1>3 DEF Retryer, Return, RetryAtOnce, StartClientWait, ClientWait, LookAtToken,
              StartTokenWait, LockToken, TokenWait, Retry, GiveUp
<1>4. ASSUME Environment PROVE SkewInv'
  <2>1. CASE StepClock
    BY <2>1, <1>0 DEF StepClock
  <2>2. CASE ~ StepClock
    BY <1>4, <2>2 DEF Environment, DisableRequest, EnableRequest, Cancel, DropSource
  <2> QED
    BY <2>1, <2>2
<1>5. CASE UNCHANGED vars
  BY <1>5 DEF vars
<1> QED
  BY <1>1, <1>2, <1>3, <1>4, <1>5 DEF Next, Execute

\* With the CorrectClockSkew flag on, an operation is rejected for its signing
\* time at most once, and once more for each step of the local clock.
THEOREM SkewCorrectionConverges == CorrectClockSkew => (Spec => []SkewHeals)
<1> SUFFICES ASSUME CorrectClockSkew PROVE Spec => []SkewHeals
  OBVIOUS
<1>1. Init => SkewInv
  BY SyncAssumption DEF Init, SkewInv, Corrected
<1>2. TypeInv /\ SkewInv /\ [Next]_vars => SkewInv'
  BY SkewStep
<1>3. TypeInv /\ SkewInv => SkewHeals
  BY DEF TypeInv, TypeOK, SkewInv, Corrected, SkewHeals
<1> QED
  BY <1>1, <1>2, <1>3, TypeInit, TypeStep, PTL DEF Spec

-----------------------------------------------------------------------------
(* What stops an operation keeps it stopped.                               *)

HeldInv ==
    /\ heldBack # {} => disabled
    /\ \A o \in heldBack : pc[o] \in {"clientWait", "done"}

LEMMA HeldStep == TypeInv /\ HeldInv /\ [Next]_vars => HeldInv'
<1> SUFFICES ASSUME TypeInv, HeldInv, [Next]_vars PROVE HeldInv'
  OBVIOUS
<1> USE DEF TypeInv, TypeOK, HeldInv, Goto, clientVars, envVars, contextVars, historyVars,
            callVars
<1>1. ASSUME NEW o \in Ops, Prologue(o) PROVE HeldInv'
  BY <1>1 DEF Prologue, CallDisabled, Call, Refuse, Prepare
<1>2. ASSUME NEW o \in Ops, Exchange(o) PROVE HeldInv'
  BY <1>2 DEF Exchange, SignFails, Sign, SendCanceled, CheckToken, Send, TransportFails, Abort,
              AbortFails, Receive, Check, StoreSkew, FailAttempt
<1>3. ASSUME NEW o \in Ops, Retryer(o) PROVE HeldInv'
  BY <1>3 DEF Retryer, Return, RetryAtOnce, StartClientWait, ClientWait, LookAtToken,
              StartTokenWait, LockToken, TokenWait, Retry, GiveUp
<1>4. ASSUME Environment PROVE HeldInv'
  BY <1>4 DEF Environment, DisableRequest, EnableRequest, StepClock, Cancel, DropSource
<1>5. CASE UNCHANGED vars
  BY <1>5 DEF vars
<1> QED
  BY <1>1, <1>2, <1>3, <1>4, <1>5 DEF Next, Execute

\* The one step that makes an HTTP call.
LEMMA OnlySendCounts ==
    ASSUME TypeInv, Next, NEW o \in Ops, sends'[o] # sends[o]
    PROVE  pc[o] = "call"
<1> USE DEF TypeInv, TypeOK
<1>1. CASE Environment
  BY <1>1 DEF Environment, DisableRequest, EnableRequest, StepClock, Cancel, DropSource,
              historyVars, callVars
<1>2. ASSUME NEW p \in Ops, Prologue(p) PROVE FALSE
  BY <1>2 DEF Prologue, CallDisabled, Call, Refuse, Prepare, historyVars, callVars
<1>3. ASSUME NEW p \in Ops, Retryer(p) PROVE FALSE
  BY <1>3 DEF Retryer, Return, RetryAtOnce, StartClientWait, ClientWait, LookAtToken,
              StartTokenWait, LockToken, TokenWait, Retry, GiveUp, historyVars, callVars
<1>4. ASSUME NEW p \in Ops, Exchange(p) PROVE Send(o)
  <2>1. Send(p)
    BY <1>4 DEF Exchange, SignFails, Sign, SendCanceled, CheckToken, TransportFails, Abort,
                AbortFails, Receive, Check, StoreSkew, historyVars, callVars
  <2> QED
    BY <2>1 DEF Send
<1> QED
  BY <1>1, <1>2, <1>3, <1>4 DEF Next, Execute, Send, Goto

\* Once an operation's token is canceled at most one more HTTP call of it
\* begins: the call is past the test of the token, or it is not made.
THEOREM OneLateCallAtMost == Spec => []OneCallAfterCancel
<1>1. TypeInv => OneCallAfterCancel
  BY DEF TypeInv, LateCounted, OneCallAfterCancel
<1> QED
  BY <1>1, TypeInit, TypeStep, PTL DEF Spec

\* An operation caught in a client back-off by disableRequest makes no HTTP
\* call until enableRequest.
THEOREM DisabledBackoffsEnd == Spec => DisableEndsBackoffs
<1>1. TypeInv /\ HeldInv /\ [Next]_vars => [\A o \in heldBack : sends'[o] = sends[o]]_vars
  BY OnlySendCounts DEF TypeInv, TypeOK, HeldInv
<1>2. Init => HeldInv
  BY DEF Init, HeldInv
<1> QED
  BY <1>1, <1>2, TypeInit, TypeStep, HeldStep, PTL DEF Spec, DisableEndsBackoffs

-----------------------------------------------------------------------------
(* The client implements the abstract operation: a concrete step of o is   *)
(* an abstract step of o or a stutter, told apart by what it does to o's   *)
(* phase, loop counter and held answer.                                    *)

\* A step moves the phase, the loop counter and the answer of one operation.
Alone(o) == \A p \in Ops \ {o} : UNCHANGED <<pc[p], retries[p], response[p]>>

\* What the step does to the operation it belongs to, read abstractly.
Stutters(o) == UNCHANGED <<Phase(o), retries[o], HeldAnswer(o)>>

Begins(o) ==
    /\ Phase(o) = "idle"
    /\ Phase(o)' = "running"
    /\ UNCHANGED <<retries[o], HeldAnswer(o)>>

Answers(o) ==
    /\ Phase(o) = "running"
    /\ HeldAnswer(o)' = retries[o] + 1
    /\ UNCHANGED <<Phase(o), retries[o]>>

Repeats(o) ==
    /\ Phase(o) = "running"
    /\ retries[o] + 1 < AttemptBound
    /\ retries'[o] = retries[o] + 1
    /\ HeldAnswer(o)' = 0
    /\ UNCHANGED Phase(o)

Finishes(o) ==
    /\ Phase(o) # "done"
    /\ Phase(o)' = "done"
    /\ UNCHANGED <<retries[o], HeldAnswer(o)>>

Refines(o) == Stutters(o) \/ Begins(o) \/ Answers(o) \/ Repeats(o) \/ Finishes(o)

LEMMA AbstractStep ==
    ASSUME TypeInv, TypeInv', NEW o \in Ops, Alone(o), Refines(o)
    PROVE  [Abstract!Next]_Abstract!vars
<1> DEFINE phase  == [p \in Ops |-> Phase(p)]
           answer == [p \in Ops |-> HeldAnswer(p)]
<1>1. \A p \in Ops \ {o} : UNCHANGED <<Phase(p), retries[p], HeldAnswer(p)>>
  BY DEF Alone, Phase, HeldAnswer
<1>2. /\ retries \in [Ops -> 0..AttemptBound-1]
      /\ retries' \in [Ops -> 0..AttemptBound-1]
  BY DEF TypeInv, TypeOK
<1>3. /\ phase' = [phase EXCEPT ![o] = Phase(o)']
      /\ answer' = [answer EXCEPT ![o] = HeldAnswer(o)']
      /\ retries' = [retries EXCEPT ![o] = retries'[o]]
  BY <1>1, <1>2
<1>4. phase[o] = Phase(o) /\ answer[o] = HeldAnswer(o)
  OBVIOUS
<1> HIDE DEF phase, answer
<1>5. CASE Stutters(o)
  <2>1. UNCHANGED <<phase, retries, answer>>
    BY <1>1, <1>2, <1>5 DEF Stutters, phase, answer
  <2> QED
    BY <2>1 DEF Abstract!vars, phase, answer
<1>6. CASE Begins(o)
  <2>1. Abstract!Begin(o)
    BY <1>1, <1>2, <1>3, <1>4, <1>6 DEF Begins, Abstract!Begin, phase, answer
  <2> QED
    BY <2>1 DEF Abstract!Next
<1>7. CASE Answers(o)
  <2>1. Abstract!Answer(o)
    BY <1>1, <1>2, <1>3, <1>4, <1>7 DEF Answers, Abstract!Answer, phase, answer
  <2> QED
    BY <2>1 DEF Abstract!Next
<1>8. CASE Repeats(o)
  <2>1. Abstract!Repeat(o)
    BY <1>1, <1>2, <1>3, <1>4, <1>8 DEF Repeats, Abstract!Repeat, phase, answer
  <2> QED
    BY <2>1 DEF Abstract!Next
<1>9. CASE Finishes(o)
  <2>1. Abstract!Finish(o)
    BY <1>1, <1>2, <1>3, <1>4, <1>9 DEF Finishes, Abstract!Finish, phase, answer
  <2> QED
    BY <2>1 DEF Abstract!Next
<1> QED
  BY <1>5, <1>6, <1>7, <1>8, <1>9 DEF Refines

LEMMA RefinementStep ==
    ASSUME TypeInv, TypeInv', OutcomeInv, [Next]_vars
    PROVE  [Abstract!Next]_Abstract!vars
<1>0. /\ NoResponse.try = 0
      /\ \A o \in Ops : response[o].try \in Nat /\ retries[o] \in Nat
  BY BoundIsPositive DEF TypeInv, TypeOK, NoResponse, ResponseType
<1> USE DEF TypeInv, TypeOK, Goto, Fail, Phase, HeldAnswer, clientVars, envVars, contextVars,
            historyVars, callVars
<1>1. ASSUME NEW o \in Ops, Prologue(o) PROVE [Abstract!Next]_Abstract!vars
  <2>1. Alone(o)
    BY <1>1 DEF Alone, Prologue, CallDisabled, Call, Refuse, Prepare
  <2> SUFFICES Refines(o)
    BY <2>1, AbstractStep
  <2>2. response[o].try = 0
    BY <1>0, <1>1 DEF OutcomeInv, Fresh, Prologue, CallDisabled, Call, Refuse, Prepare
  <2>3. CASE CallDisabled(o)
    BY <1>0, <2>2, <2>3 DEF CallDisabled, Finishes, Refines
  <2>4. CASE Call(o)
    BY <2>4 DEF Call, Begins, Refines
  <2>5. CASE Refuse(o)
    BY <1>0, <2>2, <2>5 DEF Refuse, Finishes, Refines
  <2>6. CASE Prepare(o)
    BY <2>6 DEF Prepare, Stutters, Refines
  <2> QED
    BY <1>1, <2>3, <2>4, <2>5, <2>6 DEF Prologue
<1>2. ASSUME NEW o \in Ops, Exchange(o) PROVE [Abstract!Next]_Abstract!vars
  <2>1. Alone(o)
    BY <1>2 DEF Alone, Exchange, SignFails, Sign, SendCanceled, CheckToken, Send,
                TransportFails, Abort, AbortFails, Receive, Check, StoreSkew, FailAttempt
  <2> SUFFICES Refines(o)
    BY <2>1, AbstractStep
  <2>2. ASSUME NEW from \in {"sign", "send", "inflight", "aborted"}, NEW e,
               FailAttempt(o, from, e)
        PROVE  Refines(o)
    <3>1. response[o].try <= retries[o]
      BY <2>2 DEF OutcomeInv, Fresh, BeforeOutcome, FailAttempt
    <3> QED
      BY <1>0, <2>2, <3>1 DEF FailAttempt, Stutters, Refines
  <2>3. CASE Receive(o)
    <3>1. PICK r \in ServerReplies(signOffset[o], skew) :
              response' = [response EXCEPT ![o] =
                  [try |-> retries[o] + 1, status |-> r.status, fault |-> r.fault]]
      BY <2>3 DEF Receive
    <3>2. response'[o].try = retries[o] + 1
      BY <3>1
    <3> QED
      BY <1>0, <2>3, <3>2 DEF Receive, Answers, Refines
  <2>4. CASE Sign(o) \/ CheckToken(o) \/ Send(o) \/ Abort(o) \/ Check(o) \/ StoreSkew(o)
    BY <2>4 DEF Sign, CheckToken, Send, Abort, Check, StoreSkew, Stutters, Refines
  <2>5. CASE SignFails(o) \/ SendCanceled(o) \/ TransportFails(o) \/ AbortFails(o)
    BY <2>2, <2>5 DEF SignFails, SendCanceled, TransportFails, AbortFails
  <2> QED
    BY <1>2, <2>3, <2>4, <2>5 DEF Exchange
<1>3. ASSUME NEW o \in Ops, Retryer(o) PROVE [Abstract!Next]_Abstract!vars
  <2>1. Alone(o)
    BY <1>3 DEF Alone, Retryer, Return, RetryAtOnce, StartClientWait, ClientWait, LookAtToken,
                StartTokenWait, LockToken, TokenWait, Retry, GiveUp
  <2> SUFFICES Refines(o)
    BY <2>1, AbstractStep
  <2>2. pc[o] \in {"decide", "clientWait", "clientWoken", "tokenLock", "tokenWait"}
    BY <1>3 DEF Retryer, Return, RetryAtOnce, StartClientWait, ClientWait, LookAtToken,
                StartTokenWait, LockToken, TokenWait, Retry, GiveUp
  <2>3. response[o].try \in {0, retries[o] + 1}
    BY <1>0, <2>2 DEF OutcomeInv, Fresh, AfterOutcome
  <2>4. ASSUME NEW from, WillRetry(o), Retry(o, from) PROVE Refines(o)
    <3>1. retries[o] + 1 < AttemptBound
      BY <2>4, BoundIsPositive, PipelineAssumption DEF WillRetry, MayRetry, AttemptBound, Larger
    <3> QED
      BY <1>0, <2>2, <2>3, <2>4, <3>1 DEF Retry, Repeats, Refines
  <2>5. ASSUME NEW from, GiveUp(o, from) PROVE Refines(o)
    BY <1>0, <2>2, <2>3, <2>5 DEF GiveUp, Finishes, Refines
  <2>6. ASSUME NEW to \in {"clientWait", "clientWoken", "tokenLock", "tokenWait"},
               Goto(o, pc[o], to), UNCHANGED <<retries, response>>
        PROVE  Refines(o)
    BY <2>2, <2>6 DEF Stutters, Refines
  <2>7. CASE Return(o)
    BY <1>0, <2>3, <2>7 DEF Return, Finishes, Refines
  <2>8. CASE RetryAtOnce(o)
    BY <2>4, <2>8 DEF RetryAtOnce
  <2>9. CASE StartClientWait(o) \/ StartTokenWait(o)
    BY <2>6, <2>9 DEF StartClientWait, StartTokenWait
  <2>10. CASE ClientWait(o)
    BY <2>5, <2>6, <2>10 DEF ClientWait
  <2>11. CASE LookAtToken(o)
    <3>1. pc[o] = "clientWoken"
      BY <2>11 DEF LookAtToken, GiveUp, Retry
    <3>2. WillRetry(o)
      BY <3>1 DEF WaitsToRetry, Waits
    <3> QED
      BY <2>4, <2>5, <2>11, <3>2 DEF LookAtToken
  <2>12. CASE LockToken(o)
    BY <2>5, <2>6, <2>12 DEF LockToken
  <2>13. CASE TokenWait(o)
    <3>1. pc[o] = "tokenWait"
      BY <2>13 DEF TokenWait, GiveUp, Retry
    <3>2. WillRetry(o)
      BY <3>1 DEF WaitsToRetry, Waits
    <3> QED
      BY <2>4, <2>5, <2>13, <3>2 DEF TokenWait
  <2> QED
    BY <1>3, <2>7, <2>8, <2>9, <2>10, <2>11, <2>12, <2>13 DEF Retryer
<1>4. ASSUME UNCHANGED <<pc, retries, response>> PROVE [Abstract!Next]_Abstract!vars
  BY <1>4 DEF Abstract!vars
<1>5. CASE Environment
  BY <1>4, <1>5 DEF Environment, DisableRequest, EnableRequest, StepClock, Cancel, DropSource
<1>6. CASE UNCHANGED vars
  BY <1>4, <1>6 DEF vars
<1> QED
  BY <1>1, <1>2, <1>3, <1>5, <1>6 DEF Next, Execute

\* Every behaviour of the client is one of the operations it promises: each
\* makes at most AttemptBound attempts one after the other, an answer does not
\* outlive its attempt, and what is done stays done.
THEOREM ClientImplementsOperation == Spec => Abstract!Spec
<1>1. Init => OutcomeInv
  BY DEF Init, OutcomeInv, Fresh, BeforeOutcome, AfterOutcome, NoResponse
<1>2. Init => Abstract!Init
  BY DEF Init, Abstract!Init, Phase, HeldAnswer, NoResponse
<1> QED
  BY <1>1, <1>2, TypeInit, TypeStep, OutcomeStep, RefinementStep, PTL DEF Spec, Abstract!Spec
=============================================================================
