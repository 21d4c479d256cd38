----------------------------- MODULE SyncClient -----------------------------
(***************************************************************************)
(* The synchronous client: each operation runs on its caller's thread      *)
(* through ClientImpl::Execute and the stack Retryer - Signer -            *)
(* ResponseChecker - Transport.  The threads share the client's disable    *)
(* flag and its clock offset; the application may disable and enable the   *)
(* client, cancel a token or drop its source, and the local clock may      *)
(* step, between any two of their steps.                                   *)
(***************************************************************************)
EXTENDS Pipeline

CONSTANTS
    Skews,             (* server clock less local clock, in seconds        *)
    MaxToggles,        (* bound: how often disableRequest is called        *)
    MaxDrifts          (* bound: how often the local clock steps           *)

ASSUME SyncAssumption ==
    /\ Skews \subseteq Int
    /\ MaxToggles \in Nat
    /\ MaxDrifts \in Nat

VARIABLES
    disabled,          (* DisableState::flag                               *)
    clockOffset,       (* ClientInnerOptions::clockOffset                  *)
    skew,              (* the server's clock less the local one            *)
    canceled,          (* the operations whose token's deadline has passed *)
    dropped,           (* those whose CancellationTokenSource is gone      *)
    pc,                (* pc[o]: where operation o's thread is             *)
    retries,           (* retries[o]: the loop counter of the retryer      *)
    err,               (* err[o]: context.errorContext.error               *)
    response,          (* response[o]: the response held, and its attempt  *)
    signOffset,        (* signOffset[o]: context.signingContext.clockOffset*)
    toggles, drifts,   (* how often the bounded environment has acted      *)
    sends,             (* sends[o]: HTTP calls made             (history)  *)
    lateSends,         (* lateSends[o]: those of them begun after o's      *)
                       (* token was canceled                    (history)  *)
    rejects,           (* rejects[o]: skew rejections received  (history)  *)
    sawDisable,        (* sawDisable[o]: was the client disabled while o   *)
                       (* was running?                          (history)  *)
    heldBack           (* the operations in a client back-off at some time *)
                       (* since it was disabled                 (history)  *)

clientVars  == <<disabled, clockOffset>>
envVars     == <<skew, canceled, dropped, toggles, drifts>>
contextVars == <<retries, err, response, signOffset>>
callVars    == <<sends, lateSends>>
historyVars == <<callVars, rejects, sawDisable, heldBack>>
vars        == <<clientVars, envVars, pc, contextVars, historyVars>>

PCs == {"idle", "prepare", "sign", "send", "call", "inflight", "aborted", "check",
        "storeSkew", "decide", "clientWait", "clientWoken", "tokenLock",
        "tokenWait", "done"}

NoResponse == [try |-> 0, status |-> 0, fault |-> "none"]

Running(o) == pc[o] \notin {"idle", "done"}

Goto(o, from, to) ==
    /\ pc[o] = from
    /\ pc' = [pc EXCEPT ![o] = to]

Fail(o, e) == err' = [err EXCEPT ![o] = e]

Init ==
    /\ disabled = FALSE
    /\ clockOffset = 0
    /\ skew \in Skews
    /\ canceled = {}
    /\ dropped = {}
    /\ pc = [o \in Ops |-> "idle"]
    /\ retries = [o \in Ops |-> 0]
    /\ err = [o \in Ops |-> NoError]
    /\ response = [o \in Ops |-> NoResponse]
    /\ signOffset = [o \in Ops |-> 0]
    /\ toggles = 0
    /\ drifts = 0
    /\ sends = [o \in Ops |-> 0]
    /\ lateSends = [o \in Ops |-> 0]
    /\ rejects = [o \in Ops |-> 0]
    /\ sawDisable = [o \in Ops |-> FALSE]
    /\ heldBack = {}

-----------------------------------------------------------------------------
(* ClientImpl::Execute before the stack.                                   *)

\* The disable flag is read once, before anything else.
CallDisabled(o) ==
    /\ disabled
    /\ Goto(o, "idle", "done")
    /\ Fail(o, ClientError("OperationCanceled"))
    /\ sawDisable' = [sawDisable EXCEPT ![o] = TRUE]
    /\ UNCHANGED <<clientVars, envVars, retries, response, signOffset, callVars, rejects, heldBack>>

Call(o) ==
    /\ ~ disabled
    /\ Goto(o, "idle", "prepare")
    /\ UNCHANGED <<clientVars, envVars, contextVars, historyVars>>

\* initError, verifyOperation and the endpoint provider can refuse the input.
Refuse(o) ==
    /\ Goto(o, "prepare", "done")
    /\ \E e \in VerifyErrors : Fail(o, e)
    /\ UNCHANGED <<clientVars, envVars, retries, response, signOffset, historyVars>>

\* applyOperationOptions and applyOperationInput: the signing context starts
\* from the offset the client has learnt.
Prepare(o) ==
    /\ Goto(o, "prepare", "sign")
    /\ signOffset' = [signOffset EXCEPT ![o] = clockOffset]
    /\ UNCHANGED <<clientVars, envVars, retries, err, response, historyVars>>

-----------------------------------------------------------------------------
(* One attempt.  Signer and transport return no response with an error.    *)

\* Mutant of FailAttempt: the loop's variable is not overwritten.
FailAttemptKeepingResponse(o, from, e) ==
    /\ Goto(o, from, "decide")
    /\ Fail(o, e)
    /\ UNCHANGED <<clientVars, envVars, retries, response, signOffset, rejects, sawDisable, heldBack>>

FailAttempt(o, from, e) ==
    /\ Goto(o, from, "decide")
    /\ Fail(o, e)
    /\ response' = [response EXCEPT ![o] = NoResponse]
    /\ UNCHANGED <<clientVars, envVars, retries, signOffset, rejects, sawDisable, heldBack>>

SignFails(o) ==
    /\ \E e \in SignErrors : FailAttempt(o, "sign", e)
    /\ UNCHANGED callVars

Sign(o) ==
    /\ Goto(o, "sign", "send")
    /\ UNCHANGED <<clientVars, envVars, contextVars, historyVars>>

\* TransportExecuteMiddleware looks at the token ...
SendCanceled(o) ==
    /\ o \in canceled
    /\ FailAttempt(o, "send", TransportError("Canceled"))
    /\ UNCHANGED callVars

\* Mutant of CheckToken: the token is not looked at.
CheckNothing(o) ==
    /\ Goto(o, "send", "call")
    /\ UNCHANGED <<clientVars, envVars, contextVars, historyVars>>

CheckToken(o) ==
    /\ o \notin canceled
    /\ Goto(o, "send", "call")
    /\ UNCHANGED <<clientVars, envVars, contextVars, historyVars>>

\* ... and calls send, whatever has become of the token since.
Send(o) ==
    /\ Goto(o, "call", "inflight")
    /\ sends' = [sends EXCEPT ![o] = @ + 1]
    /\ lateSends' = [lateSends EXCEPT ![o] = IF o \in canceled THEN @ + 1 ELSE @]
    /\ UNCHANGED <<clientVars, envVars, contextVars, rejects, sawDisable, heldBack>>

TransportFails(o) ==
    /\ \E e \in TransportErrors : FailAttempt(o, "inflight", e)
    /\ UNCHANGED callVars

\* shouldAbortTransfer, while the transfer runs ...
StopsTransfer(o) == o \in canceled \/ disabled

Abort(o) ==
    /\ StopsTransfer(o)
    /\ Goto(o, "inflight", "aborted")
    /\ UNCHANGED <<clientVars, envVars, contextVars, historyVars>>

\* ... and once more, when buildTransportError looks for the reason.
AbortFails(o) ==
    /\ FailAttempt(o, "aborted", TransportError(IF StopsTransfer(o) THEN "Canceled"
                                                                  ELSE "Unknown"))
    /\ UNCHANGED callVars

Receive(o) ==
    /\ Goto(o, "inflight", "check")
    /\ \E r \in ServerReplies(signOffset[o], skew) :
          response' = [response EXCEPT ![o] =
                          [try |-> retries[o] + 1, status |-> r.status, fault |-> r.fault]]
    /\ UNCHANGED <<clientVars, envVars, retries, err, signOffset, historyVars>>

\* Mutant of Check: the correction reaches the shared offset alone, not the
\* signing context of the operation that was rejected.
CheckForOthers(o) ==
    LET corrects == SkewDetected(response[o], skew) IN
    /\ Goto(o, "check", "decide")
    /\ Fail(o, CheckedError(response[o], skew))
    /\ clockOffset' = IF corrects THEN skew ELSE clockOffset
    /\ rejects' = [rejects EXCEPT ![o] = IF response[o].fault = "skew" THEN @ + 1 ELSE @]
    /\ UNCHANGED <<disabled, envVars, retries, response, signOffset, callVars, sawDisable, heldBack>>

\* The response checkers.  The shared offset is read here and stored by the
\* next step: no lock covers the two.
Check(o) ==
    LET corrects == SkewDetected(response[o], skew) IN
    /\ Goto(o, "check", IF corrects /\ MovesSharedOffset(skew, clockOffset)
                        THEN "storeSkew" ELSE "decide")
    /\ Fail(o, CheckedError(response[o], skew))
    /\ signOffset' = [signOffset EXCEPT ![o] = IF corrects THEN skew ELSE @]
    /\ rejects' = [rejects EXCEPT ![o] = IF response[o].fault = "skew" THEN @ + 1 ELSE @]
    /\ UNCHANGED <<clientVars, envVars, retries, response, callVars, sawDisable, heldBack>>

StoreSkew(o) ==
    /\ Goto(o, "storeSkew", "decide")
    /\ clockOffset' = signOffset[o]
    /\ UNCHANGED <<disabled, envVars, contextVars, historyVars>>

-----------------------------------------------------------------------------
(* The retryer.                                                            *)

\* The attempt succeeded, or there will not be another one.
Return(o) ==
    /\ err[o] = NoError \/ ~ MayRetry(o, retries[o], err[o])
    /\ Goto(o, "decide", "done")
    /\ UNCHANGED <<clientVars, envVars, contextVars, historyVars>>

\* Back to the top of the loop with the error context cleared.
Retry(o, from) ==
    /\ Goto(o, from, "sign")
    /\ retries' = [retries EXCEPT ![o] = @ + 1]
    /\ Fail(o, NoError)
    /\ UNCHANGED <<clientVars, envVars, response, signOffset, historyVars>>

GiveUp(o, from) ==
    /\ Goto(o, from, "done")
    /\ Fail(o, ClientError("OperationCanceled"))
    /\ UNCHANGED <<clientVars, envVars, retries, response, signOffset, historyVars>>

WillRetry(o) == err[o] # NoError /\ MayRetry(o, retries[o], err[o])

\* A jittered delay of zero does not wait at all.
RetryAtOnce(o) == WillRetry(o) /\ Retry(o, "decide")

\* waitForRetry: a short delay, and any delay of an operation that has no
\* token, waits for the client ...
StartClientWait(o) ==
    /\ WillRetry(o)
    /\ Goto(o, "decide", "clientWait")
    /\ heldBack' = IF disabled THEN heldBack \union {o} ELSE heldBack
    /\ UNCHANGED <<clientVars, envVars, contextVars, callVars, rejects, sawDisable>>

\* ... a long one, with a token, for the token.
StartTokenWait(o) ==
    /\ o \in TokenOps
    /\ WillRetry(o)
    /\ Goto(o, "decide", "tokenLock")
    /\ UNCHANGED <<clientVars, envVars, contextVars, historyVars>>

\* Mutants of ClientWait: the flag is not looked at after the wait; the wait has
\* no timeout.
ClientWaitForToken(o) ==
    /\ Goto(o, "clientWait", "clientWoken")
    /\ UNCHANGED <<clientVars, envVars, contextVars, historyVars>>

ClientWaitForEver(o) == disabled /\ GiveUp(o, "clientWait")

\* clientWaitFor returns, at its timeout or woken by disableRequest, the flag
\* as it is then.
ClientWait(o) ==
    IF disabled
    THEN GiveUp(o, "clientWait")
    ELSE /\ Goto(o, "clientWait", "clientWoken")
         /\ UNCHANGED <<clientVars, envVars, contextVars, historyVars>>

\* The token, if there is one, is looked at next.
LookAtToken(o) ==
    IF o \in canceled THEN GiveUp(o, "clientWoken") ELSE Retry(o, "clientWoken")

\* CancellationToken::waitFor: a dropped source counts as canceled.
LockToken(o) ==
    IF o \in dropped \/ o \in canceled
    THEN GiveUp(o, "tokenLock")
    ELSE /\ Goto(o, "tokenLock", "tokenWait")
         /\ UNCHANGED <<clientVars, envVars, contextVars, historyVars>>

\* Mutant of TokenWait: a timeout is taken for a cancellation.
TokenWaitTimesOut(o) == GiveUp(o, "tokenWait")

TokenWait(o) ==
    IF o \in canceled
    THEN GiveUp(o, "tokenWait")
    ELSE Retry(o, "tokenWait")

-----------------------------------------------------------------------------
(* The application and the clock.                                          *)

DisableRequest ==
    /\ toggles < MaxToggles
    /\ disabled' = TRUE
    /\ toggles' = toggles + 1
    /\ sawDisable' = [o \in Ops |-> sawDisable[o] \/ Running(o)]
    /\ heldBack' = heldBack \union {o \in Ops : pc[o] = "clientWait"}
    /\ UNCHANGED <<clockOffset, skew, canceled, dropped, drifts, pc, contextVars, callVars, rejects>>

EnableRequest ==
    /\ disabled
    /\ disabled' = FALSE
    /\ heldBack' = {}
    /\ UNCHANGED <<clockOffset, envVars, pc, contextVars, callVars, rejects, sawDisable>>

\* cancel(), or the deadline cancelAfter set passes.
Cancel(o) ==
    /\ o \in TokenOps \ canceled
    /\ canceled' = canceled \union {o}
    /\ UNCHANGED <<clientVars, skew, dropped, toggles, drifts, pc, contextVars, historyVars>>

DropSource(o) ==
    /\ o \in TokenOps \ dropped
    /\ dropped' = dropped \union {o}
    /\ UNCHANGED <<clientVars, skew, canceled, toggles, drifts, pc, contextVars, historyVars>>

StepClock ==
    /\ drifts < MaxDrifts
    /\ skew' \in Skews \ {skew}
    /\ drifts' = drifts + 1
    /\ UNCHANGED <<clientVars, canceled, dropped, toggles, pc, contextVars, historyVars>>

-----------------------------------------------------------------------------
Prologue(o) == CallDisabled(o) \/ Call(o) \/ Refuse(o) \/ Prepare(o)

Exchange(o) ==
    \/ SignFails(o)      \/ Sign(o)
    \/ SendCanceled(o)   \/ CheckToken(o) \/ Send(o)
    \/ TransportFails(o) \/ Abort(o)     \/ AbortFails(o)
    \/ Receive(o)        \/ Check(o)     \/ StoreSkew(o)

Retryer(o) ==
    \/ Return(o)         \/ RetryAtOnce(o)
    \/ StartClientWait(o) \/ ClientWait(o) \/ LookAtToken(o)
    \/ StartTokenWait(o) \/ LockToken(o) \/ TokenWait(o)

Execute(o) == Prologue(o) \/ Exchange(o) \/ Retryer(o)

Environment ==
    \/ DisableRequest \/ EnableRequest \/ StepClock
    \/ \E o \in Ops : Cancel(o) \/ DropSource(o)

Next == (\E o \in Ops : Execute(o)) \/ Environment

\* A thread inside Execute runs on; nothing obliges the application to call.
Fairness == \A o \in Ops : WF_vars(Running(o) /\ Execute(o))

Spec == Init /\ [][Next]_vars
FairSpec == Spec /\ Fairness

-----------------------------------------------------------------------------
(* Properties.                                                             *)

ResponseType == [try : 0..AttemptBound, status : {0} \union (100..599),
                 fault : {"none", "skew", "crc"}]

Errors == {NoError, ClientError("OperationCanceled"), ClientError("CrcMismatch"),
           TransportError("Canceled"), TransportError("Unknown")}
          \union VerifyErrors \union SignErrors \union TransportErrors
          \union {ServerError(s) : s \in 100..599}
          \union {RetryableServerError(s) : s \in 100..599}

\* Every field has the type the code declares, and the loop counter stays
\* below the attempts the operation may make.
TypeOK ==
    /\ disabled \in BOOLEAN
    /\ clockOffset \in Skews \union {0}
    /\ skew \in Skews
    /\ canceled \subseteq TokenOps
    /\ dropped \subseteq TokenOps
    /\ pc \in [Ops -> PCs]
    /\ retries \in [Ops -> 0..AttemptBound-1]
    /\ err \in [Ops -> Errors]
    /\ response \in [Ops -> ResponseType]
    /\ signOffset \in [Ops -> Skews \union {0}]
    /\ toggles \in 0..MaxToggles
    /\ drifts \in 0..MaxDrifts
    /\ sends \in [Ops -> 0..AttemptBound]
    /\ lateSends \in [Ops -> 0..AttemptBound]
    /\ rejects \in [Ops -> 0..AttemptBound]
    /\ sawDisable \in [Ops -> BOOLEAN]
    /\ heldBack \subseteq Ops

\* An operation makes at most retryMaxAttempts HTTP calls (one when that is
\* not positive), and a body or sink that cannot be replayed is sent once,
\* whichever way the attempts before failed.
AttemptsBounded ==
    \A o \in Ops : sends[o] <= (IF o \in OneShotOps THEN 1 ELSE AttemptBound)

\* What Execute returns is about the last attempt alone: a response it carries
\* was received by that attempt, a success is a 2xx whose checksum matched,
\* and a failure of the transport or the signer carries no response.
OutcomeIsOfLastAttempt ==
    \A o \in Ops : pc[o] = "done" =>
        /\ response[o] # NoResponse => response[o].try = retries[o] + 1
        /\ err[o] = NoError => /\ response[o].status \div 100 = 2
                               /\ response[o].fault # "crc"
        /\ err[o][1] \in {"transport", "signer", "credentials"} => response[o] = NoResponse

\* No operation ends as canceled unless somebody stopped it: its token was
\* canceled, its source dropped, or the client disabled while it ran.
CanceledHasACause ==
    \A o \in Ops : pc[o] = "done" /\ IsCanceled(err[o]) =>
        o \in canceled \/ o \in dropped \/ sawDisable[o]

\* Clock-skew correction converges: while the local clock stays put an
\* operation is rejected for its signing time at most once, and once more for
\* each step of that clock, however the operations race on the shared offset.
SkewHeals == \A o \in Ops : rejects[o] <= 1 + drifts

\* Canceling a token ends the operation, though nothing covers the test of the
\* token and the call that follows it: one HTTP call at most begins after the
\* cancellation, the one whose test was past.  However it ends (aborted, failed
\* or answered with an error that is retried at once), no other follows it.
OneCallAfterCancel == \A o \in Ops : lateSends[o] <= 1

\* disableRequest ends the back-offs that wait for the client, whenever it falls
\* in them: such an operation makes no HTTP call until enableRequest is called.
DisableEndsBackoffs == [][\A o \in heldBack : sends'[o] = sends[o]]_vars

\* "All in-flight requests will be canceled [...] until enableRequest() is
\* called" (OSSClient::disableRequest): no back-off that ends while the client
\* is disabled, one with a token included, is followed by another attempt.
DisableCancelsBackoffs ==
    [][\A o \in Ops :
          \/ pc[o] = "clientWait" /\ pc'[o] = "clientWoken"
          \/ pc[o] = "tokenWait" /\ pc'[o] = "sign"
       => ~ disabled]_vars

\* The operation this client implements: an answer is gone once the next
\* attempt has begun, and every operation that is called comes to its end.
Phase(o) == IF pc[o] \in {"idle", "done"} THEN pc[o] ELSE "running"

\* Between two attempts the loop's variable still holds the old response, which
\* nothing reads before the next attempt overwrites it.
HeldAnswer(o) ==
    IF pc[o] = "done" \/ response[o].try = retries[o] + 1 THEN response[o].try ELSE 0

Abstract == INSTANCE Operation WITH
    Bound        <- AttemptBound,
    StaleAnswers <- FALSE,
    phase        <- [o \in Ops |-> Phase(o)],
    repeats      <- retries,
    answer       <- [o \in Ops |-> HeldAnswer(o)]

ImplementsOperation == Abstract!FairSpec
=============================================================================
