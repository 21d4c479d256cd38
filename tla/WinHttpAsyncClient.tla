-------------------------- MODULE WinHttpAsyncClient --------------------------
(***************************************************************************)
(* WinHttpAsyncClient: asynchronous requests over WinHTTP.  A request's    *)
(* context lives on the heap; the completions of WinHTTP, on its threads,  *)
(* drive it from one operation to the next, and the notification that the  *)
(* request handle is closing is the last: there the context deletes itself *)
(* and calls back.                                                         *)
(*                                                                         *)
(* WinHTTP is external.  It completes an operation with a success or a     *)
(* REQUEST_ERROR (in the end always: it has time-outs), reports an         *)
(* operation still pending on a closed handle as such an error, and sends  *)
(* HANDLE_CLOSING after everything else.  A query or a read that yields    *)
(* nothing means that the response has ended: a body cut off is an error.  *)
(* A handle has no context before WinHttpSendRequest has succeeded.        *)
(*                                                                         *)
(* Bodies are counted: a piece is what one write sends, or one read gets.  *)
(***************************************************************************)
EXTENDS Integers, FiniteSets

CONSTANTS
    Requests,
    MaxPieces          (* bound: the pieces of a body                      *)

ASSUME WinHttpAsyncClientAssumption == IsFiniteSet(Requests) /\ MaxPieces \in Nat

VARIABLES
    body,              (* body[r]: the pieces of the request body          *)
    contentLength,     (* contentLength[r]: what resolveContentLength has  *)
                       (* found, -1 for a body of unknown length           *)
    reply,             (* reply[r]: the pieces of the response body        *)
    canceled,          (* canceled[r]: has the token been canceled?        *)
    context,           (* context[r]: the AsyncRequestContext and its      *)
                       (* request handle                                   *)
    thread,            (* thread[r]: where the thread that calls back is   *)
    answer,            (* answer[r]: what the callback was given           *)
    inflightCount,
    destructor         (* of the client: "none", "testing", "waiting" for  *)
                       (* the notification, "gone"                         *)

worldVars  == <<body, contentLength, reply, canceled>>
clientVars == <<inflightCount, destructor>>
vars == <<worldVars, context, thread, answer, clientVars>>

Operations == {"SendRequest", "WriteBody", "ReceiveResponse", "QueryData", "ReadData"}

\* A context: the operation WinHTTP still has to complete, the pieces sent
\* and stored, the error noted.
NoContext == [memory |-> "none", state |-> "SendRequest", pending |-> "none",
              handle |-> "none", sent |-> 0, stored |-> 0, error |-> "none"]

Init ==
    /\ body \in [Requests -> 0..MaxPieces]
    /\ contentLength \in [Requests -> -1..MaxPieces]
    /\ \A r \in Requests : contentLength[r] \in {body[r], -1}
    /\ reply \in [Requests -> 0..MaxPieces]
    /\ canceled = [r \in Requests |-> FALSE]
    /\ context = [r \in Requests |-> NoContext]
    /\ thread = [r \in Requests |-> "none"]
    /\ answer = [r \in Requests |-> "none"]
    /\ inflightCount = 0
    /\ destructor = "none"

-----------------------------------------------------------------------------
(* The handlers, as sets of the contexts they may leave behind.            *)

\* closeHandle: the notification of the closing finishes the request.
CloseHandle(c) == [c EXCEPT !.state = "CloseHandle", !.handle = "closing"]

Fail(c, error) == CloseHandle([c EXCEPT !.error = error])

\* The state is set before the call, for the completion may come at once; the
\* call itself may fail.
Initiate(c, operation) ==
    {[c EXCEPT !.state = operation, !.pending = operation],
     Fail([c EXCEPT !.state = operation], "failed")}

\* writeNextChunk: at the end of the source the response is asked for; the
\* source may fail instead.
\* Mutant: a source that fails is taken for one at its end.
WriteNextChunkToAnyEnd(r, c) ==
    (IF c.sent < body[r] THEN Initiate(c, "WriteBody") ELSE {})
        \cup Initiate(c, "ReceiveResponse")

WriteNextChunk(r, c) ==
    Initiate(c, IF c.sent < body[r] THEN "WriteBody" ELSE "ReceiveResponse")
        \cup {Fail(c, "failed")}

\* A body of unknown length has no source: it is not sent.
OnSendComplete(r, c) ==
    IF contentLength[r] > 0 THEN WriteNextChunk(r, c) ELSE Initiate(c, "ReceiveResponse")

\* Nothing available is the end.
OnDataAvailable(c, bytesAvailable) ==
    IF bytesAvailable = 0 THEN {CloseHandle(c)} ELSE Initiate(c, "ReadData")

\* So is nothing read; a sink gone bad ends the request.
OnReadComplete(c, bytesRead) ==
    IF bytesRead = 0 THEN {CloseHandle(c)}
    ELSE Initiate([c EXCEPT !.stored = @ + bytesRead], "QueryData") \cup {Fail(c, "failed")}

\* What WinHTTP reports with the completion of a query or a read: nothing only
\* at the end, where a query may announce what the read then does not find.
Reported(r, c) ==
    IF c.stored < reply[r] THEN {1} ELSE IF c.state = "QueryData" THEN {0, 1} ELSE {0}

OnComplete(r, c) ==
    CASE c.state = "SendRequest"     -> OnSendComplete(r, c)
      [] c.state = "WriteBody"       -> WriteNextChunk(r, [c EXCEPT !.sent = @ + 1])
      [] c.state = "ReceiveResponse" -> Initiate(c, "QueryData")
      [] c.state = "QueryData"       -> UNION {OnDataAvailable(c, n) : n \in Reported(r, c)}
      [] c.state = "ReadData"        -> UNION {OnReadComplete(c, n) : n \in Reported(r, c)}

\* Mutant of Completed: the handler goes on after checkCancelled has closed the
\* handle.
CompletedRegardless(r, c) ==
    IF canceled[r]
    THEN {[d EXCEPT !.handle = "closing", !.error = "canceled"] : d \in OnComplete(r, c)}
    ELSE OnComplete(r, c)

Completed(r, c) ==
    IF canceled[r] THEN {Fail(c, "canceled")} ELSE OnComplete(r, c)

-----------------------------------------------------------------------------
(* sendAsync, by the engine or from a callback, maybe of a client that is  *)
(* being destroyed.                                                        *)

Untouched(r) == thread[r] = "none" /\ context[r].memory = "none"

CanCall == destructor = "none" \/ \E q \in Requests : thread[q] = "calling"

\* No session, or a token canceled already: answered without a context, before
\* sendAsync returns.
Refuse(r) ==
    /\ Untouched(r)
    /\ CanCall
    /\ destructor # "none" \/ canceled[r]
    /\ answer' = [answer EXCEPT ![r] = "failed"]
    /\ thread' = [thread EXCEPT ![r] = "done"]
    /\ UNCHANGED <<worldVars, context, clientVars>>

Start(r) ==
    /\ Untouched(r)
    /\ destructor = "none"
    /\ ~ canceled[r]
    /\ context' = [context EXCEPT ![r].memory = "live", ![r].handle = "open",
                                  ![r].pending = "SendRequest"]
    /\ inflightCount' = inflightCount + 1
    /\ UNCHANGED <<worldVars, thread, answer, destructor>>

\* The request cannot be opened or sent: the context goes, the caller's thread
\* calls back.
StartFails(r) ==
    /\ Untouched(r)
    /\ destructor = "none"
    /\ ~ canceled[r]
    /\ context' = [context EXCEPT ![r].memory = "deleted"]
    /\ inflightCount' = inflightCount + 1
    /\ thread' = [thread EXCEPT ![r] = "calling"]
    /\ answer' = [answer EXCEPT ![r] = "failed"]
    /\ UNCHANGED <<worldVars, destructor>>

-----------------------------------------------------------------------------
(* statusCallback.                                                         *)

\* A completion that is not the one of the state is ignored.
Complete(r) ==
    LET c == [context[r] EXCEPT !.pending = "none"]
    IN /\ context[r].pending # "none"
       /\ context[r].handle = "open"
       /\ \E d \in IF c.state = context[r].pending THEN Completed(r, c) ELSE {c} :
              context' = [context EXCEPT ![r] = d]
       /\ UNCHANGED <<worldVars, thread, answer, clientVars>>

\* REQUEST_ERROR, of the operation itself or because its handle was closed.
OnError(r) ==
    /\ context[r].pending # "none"
    /\ context' = [context EXCEPT ![r] = Fail([@ EXCEPT !.pending = "none"], "failed")]
    /\ UNCHANGED <<worldVars, thread, answer, clientVars>>

\* onHandleClosing, finish: the context deletes itself, then calls back.
Finish(r) ==
    /\ context[r].handle = "closing"
    /\ context[r].pending = "none"
    /\ context' = [context EXCEPT ![r].memory = "deleted", ![r].handle = "closed"]
    /\ answer' = [answer EXCEPT ![r] = IF context[r].error = "none" THEN "ok" ELSE "failed"]
    /\ thread' = [thread EXCEPT ![r] = "calling"]
    /\ UNCHANGED <<worldVars, clientVars>>

-----------------------------------------------------------------------------
(* The count of requests under way, and the client's end.                  *)

CallbackReturns(r) ==
    /\ thread[r] = "calling"
    /\ thread' = [thread EXCEPT ![r] = "counting"]
    /\ UNCHANGED <<worldVars, context, answer, clientVars>>

\* Mutant of CountOff: nobody is told.
CountOffSilently(r) ==
    /\ thread[r] = "counting"
    /\ inflightCount' = inflightCount - 1
    /\ thread' = [thread EXCEPT ![r] = "done"]
    /\ UNCHANGED <<worldVars, context, answer, destructor>>

\* onRequestFinished: the last one takes the mutex and notifies.
CountOff(r) ==
    /\ thread[r] = "counting"
    /\ inflightCount' = inflightCount - 1
    /\ thread' = [thread EXCEPT ![r] = IF inflightCount = 1 THEN "notifying" ELSE "done"]
    /\ UNCHANGED <<worldVars, context, answer, destructor>>

Notify(r) ==
    /\ thread[r] = "notifying"
    /\ thread' = [thread EXCEPT ![r] = "done"]
    /\ destructor' = IF destructor = "waiting" THEN "testing" ELSE destructor
    /\ UNCHANGED <<worldVars, context, answer, inflightCount>>

\* The session handle goes first; requests under way keep theirs.
Destroy ==
    /\ destructor = "none"
    /\ destructor' = "testing"
    /\ UNCHANGED <<worldVars, context, thread, answer, inflightCount>>

\* The count is tested under the mutex; in between the destructor sleeps.
TestCount ==
    /\ destructor = "testing"
    /\ destructor' = IF inflightCount = 0 THEN "gone" ELSE "waiting"
    /\ UNCHANGED <<worldVars, context, thread, answer, inflightCount>>

Cancel(r) ==
    /\ ~ canceled[r]
    /\ canceled' = [canceled EXCEPT ![r] = TRUE]
    /\ UNCHANGED <<body, contentLength, reply, context, thread, answer, clientVars>>

-----------------------------------------------------------------------------
Send(r)     == Refuse(r) \/ Start(r) \/ StartFails(r)
Callback(r) == Complete(r) \/ OnError(r) \/ Finish(r)
Leave(r)    == CallbackReturns(r) \/ CountOff(r) \/ Notify(r)

Next ==
    \/ \E r \in Requests : Send(r) \/ Callback(r) \/ Leave(r) \/ Cancel(r)
    \/ Destroy
    \/ TestCount

Spec == Init /\ [][Next]_vars

\* WinHTTP completes what is pending, user callbacks return, threads run on.
FairSpec ==
    /\ Spec
    /\ \A r \in Requests : WF_vars(Callback(r)) /\ WF_vars(Leave(r))
    /\ WF_vars(TestCount)

-----------------------------------------------------------------------------
(* Properties.                                                             *)

Stage(r) ==
    IF thread[r] = "calling" THEN "calling"
    ELSE IF thread[r] # "none" THEN "returned"
    ELSE IF context[r].memory = "live" THEN "open" ELSE "idle"

\* A request body counts as far as its length is known.
Whole(r) ==
    /\ contentLength[r] # -1 => context[r].sent = body[r]
    /\ context[r].stored = reply[r]

\* The transport keeps what HttpExchange promises: every request is answered
\* once, a success means that both bodies went over whole, the request's if its
\* length is known, and the destructor does not return while a callback runs.
Exchange == INSTANCE HttpExchange WITH
    stage     <- [r \in Requests |-> Stage(r)],
    whole     <- [r \in Requests |-> Whole(r)],
    transport <- IF destructor = "none" THEN "alive"
                 ELSE IF destructor = "gone" THEN "gone" ELSE "closing"

Exchanges == Exchange!Spec

\* The buffer an operation of WinHTTP reads or fills is in the context: while
\* one is pending the context is there and its handle open, and only then.
OneOperationPerHandle ==
    \A r \in Requests : context[r].pending # "none" =>
        /\ context[r].memory = "live"
        /\ context[r].handle = "open"
        /\ context[r].pending = context[r].state

\* However the requests end, the destructor returns.
DestructorReturns == destructor # "none" ~> destructor = "gone"
=============================================================================
