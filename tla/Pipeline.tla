------------------------------ MODULE Pipeline ------------------------------
(***************************************************************************)
(* The decisions the middleware of both clients takes: what the signer,    *)
(* the transport and the response checker can leave in the error context   *)
(* of an attempt, and whether the retryer makes another one.  SyncClient   *)
(* and AsyncClient run these decisions in their own threads.               *)
(*                                                                         *)
(* A reply is what the decisions read of an HTTP response: its status and  *)
(* its fault, "skew" for an error body that blames the signing time,       *)
(* "crc" for an upload checksum that is not the local one.                 *)
(***************************************************************************)
EXTENDS ErrorModel

CONSTANTS
    Ops,               (* the operations                                   *)
    TokenOps,          (* those given a cancellation token                 *)
    OneShotOps,        (* those whose body or sink cannot be used twice    *)
    MaxAttempts,       (* retryMaxAttempts; an override may be 0 or less   *)
    CorrectClockSkew,  (* FeatureFlagsType::CorrectClockSkew               *)
    VerifyErrors,      (* what verifyOperation may find                    *)
    SignErrors,        (* what the provider and the signer may return      *)
    TransportErrors,   (* what the transport may return by itself          *)
    Replies            (* what a server whose clock agrees may answer      *)

Abs(n) == IF n < 0 THEN -n ELSE n
Larger(m, n) == IF m > n THEN m ELSE n

ReplyType == [status : 100..599, fault : {"none", "skew", "crc"}]

ASSUME PipelineAssumption ==
    /\ TokenOps \subseteq Ops
    /\ OneShotOps \subseteq Ops
    /\ MaxAttempts \in Int
    /\ CorrectClockSkew \in BOOLEAN
    /\ Replies \subseteq ReplyType
    /\ \A r \in Replies : r.fault # "skew"
    /\ \A e \in VerifyErrors \union SignErrors \union TransportErrors :
          e # NoError /\ ~ IsCanceled(e)

\* The attempts an operation may make: the loop always runs once.
AttemptBound == Larger(1, MaxAttempts)

-----------------------------------------------------------------------------
(* The server: it rejects a request signed more than 15 minutes off its    *)
(* clock, unless it fails before it looks.                                 *)

MaxAllowedSkew == 900
SkewRejection  == [status |-> 403, fault |-> "skew"]
Unavailable    == [status |-> 503, fault |-> "none"]

ServerReplies(offset, skew) ==
    IF Abs(offset - skew) > MaxAllowedSkew
    THEN {SkewRejection} \union (Replies \intersect {Unavailable})
    ELSE Replies

-----------------------------------------------------------------------------
(* The response checker.                                                   *)

SharedOffsetTolerance == 60

\* onPreServiceError
PreServiceError(reply) ==
    IF reply.status \div 100 = 2 THEN NoError ELSE ServerError(reply.status)

\* onClockSkewError, up to the point where it corrects anything: newOffset is
\* the server's Date less the local time.
SkewDetected(reply, newOffset) ==
    /\ CorrectClockSkew
    /\ reply.fault = "skew"
    /\ \/ reply.status = 403
       \/ reply.status = 400 /\ Abs(newOffset) >= MaxAllowedSkew

\* Does the correction move the offset all operations share?
MovesSharedOffset(newOffset, shared) == Abs(newOffset - shared) > SharedOffsetTolerance

\* The error the chain of checkers leaves: onPostServiceError stops it before
\* the checksum is compared.
CheckedError(reply, newOffset) ==
    IF SkewDetected(reply, newOffset) THEN RetryableServerError(reply.status)
    ELSE IF PreServiceError(reply) # NoError THEN PreServiceError(reply)
    ELSE IF reply.fault = "crc" THEN ClientError("CrcMismatch")
    ELSE NoError

-----------------------------------------------------------------------------
(* The retryer's test after a failed attempt, the retries-th repetition.   *)

\* Mutants of MayRetry: an attempt too many; no test of the body and the sink.
MayRetryOnceMore(o, retries, e) ==
    /\ retries < MaxAttempts
    /\ ~ IsCanceled(e)
    /\ o \notin OneShotOps
    /\ IsRetryable(e)

MayRetryAnyBody(o, retries, e) ==
    /\ retries + 1 < MaxAttempts
    /\ ~ IsCanceled(e)
    /\ IsRetryable(e)

MayRetry(o, retries, e) ==
    /\ retries + 1 < MaxAttempts
    /\ ~ IsCanceled(e)
    /\ o \notin OneShotOps
    /\ IsRetryable(e)
=============================================================================
