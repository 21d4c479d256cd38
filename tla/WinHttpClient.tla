---------------------------- MODULE WinHttpClient ----------------------------
(***************************************************************************)
(* WinHttpClient::send: one synchronous request over WinHTTP.  The thread  *)
(* initiates an operation and waits for the event that the completion, on  *)
(* a thread of WinHTTP, sets in the WinHttpAction; while it waits it polls *)
(* the token and the client's switch.  On the way out the request handle   *)
(* is closed and the thread waits once more.                               *)
(*                                                                         *)
(* WinHTTP is external: see WinHttpAsyncClient.                            *)
(***************************************************************************)
EXTENDS Naturals

CONSTANT MaxPieces     (* bound: the pieces of a body                      *)

VARIABLES
    body,              (* the pieces of the request body                   *)
    reply,             (* the pieces of the response body                  *)
    aborted,           (* is the token canceled, or the client disabled?   *)
    pc,                (* the operation send is at                         *)
    waits,             (* does it wait for the event?                      *)
    pending,           (* the operation WinHTTP still has to complete      *)
    event,             (* event_: is it set?                               *)
    error,             (* error_                                           *)
    sent,              (* the pieces sent                                  *)
    stored,            (* the pieces stored                                *)
    answer             (* what send returns                                *)

worldVars  == <<body, reply, aborted>>
actionVars == <<pending, event, error>>
vars == <<worldVars, actionVars, pc, waits, sent, stored, answer>>

Init ==
    /\ body \in 0..MaxPieces
    /\ reply \in 0..MaxPieces
    /\ aborted = FALSE
    /\ pc = "SendRequest"
    /\ waits = FALSE
    /\ pending = "none"
    /\ event = FALSE
    /\ error = FALSE
    /\ sent = 0
    /\ stored = 0
    /\ answer = "none"

-----------------------------------------------------------------------------
(* WinHttpAction.                                                          *)

\* waitForAction resets the event and the error before the call.
Initiate ==
    /\ pc \notin {"CloseHandle", "done"}
    /\ ~ waits
    /\ waits' = TRUE
    /\ pending' = pc
    /\ event' = FALSE
    /\ error' = FALSE
    /\ UNCHANGED <<worldVars, pc, sent, stored, answer>>

Completes ==
    /\ pending # "none"
    /\ pc # "CloseHandle"
    /\ pending' = "none"
    /\ event' = TRUE
    /\ UNCHANGED <<worldVars, error, pc, waits, sent, stored, answer>>

\* REQUEST_ERROR sets the event whatever is waited for.
RequestError ==
    /\ pending # "none"
    /\ pending' = "none"
    /\ event' = TRUE
    /\ error' = TRUE
    /\ UNCHANGED <<worldVars, pc, waits, sent, stored, answer>>

-----------------------------------------------------------------------------
(* send, after an operation.                                               *)

GoOn(operation) ==
    /\ pc' = operation
    /\ waits' = FALSE

\* The guard closes the handle and waits.
Leave(result) ==
    /\ pc' = "CloseHandle"
    /\ waits' = TRUE
    /\ answer' = result

\* The source or the sink fails.
StreamFails ==
    /\ waits /\ event /\ ~ error
    /\ pc \in {"SendRequest", "WriteBody", "ReadData"}
    /\ Leave("failed")
    /\ event' = FALSE
    /\ UNCHANGED <<worldVars, pending, error, sent, stored>>

AfterSending(n) ==
    /\ sent' = n
    /\ GoOn(IF n < body THEN "WriteBody" ELSE "ReceiveResponse")
    /\ UNCHANGED <<stored, answer>>

Done ==
    /\ waits /\ event /\ ~ error
    /\ CASE pc = "SendRequest"     -> AfterSending(sent)
         [] pc = "WriteBody"       -> AfterSending(sent + 1)
         [] pc = "ReceiveResponse" -> GoOn("QueryData") /\ UNCHANGED <<sent, stored, answer>>
         [] pc = "QueryData" ->
                /\ IF stored = reply
                   THEN Leave("ok")
                   ELSE GoOn("ReadData") /\ UNCHANGED answer
                /\ UNCHANGED <<sent, stored>>
         [] pc = "ReadData" ->
                /\ stored' = stored + 1
                /\ \/ GoOn("QueryData")
                   \/ stored + 1 < reply /\ GoOn("ReadData")
                /\ UNCHANGED <<sent, answer>>
    /\ event' = FALSE
    /\ UNCHANGED <<worldVars, pending, error>>

\* An operation that fails ends the request; but, unless the token is canceled
\* by then, a failed query only ends the body, and a failed read leads to the
\* next query.
AfterFailure ==
    IF ~ aborted /\ pc = "ReadData"
    THEN GoOn("QueryData") /\ UNCHANGED answer
    ELSE Leave(IF aborted THEN "canceled" ELSE IF pc = "QueryData" THEN "ok" ELSE "failed")

Failed ==
    /\ pc # "CloseHandle"
    /\ waits /\ event /\ error
    /\ AfterFailure
    /\ event' = FALSE
    /\ UNCHANGED <<worldVars, pending, error, sent, stored>>

\* The call itself fails.
InitiateFails ==
    /\ pc \notin {"CloseHandle", "done"}
    /\ ~ waits
    /\ AfterFailure
    /\ UNCHANGED <<worldVars, actionVars, sent, stored>>

\* The poll of waitForAction finds the token canceled.
PollAborted ==
    /\ pc \notin {"CloseHandle", "done"}
    /\ waits
    /\ ~ event
    /\ aborted
    /\ Leave("canceled")
    /\ UNCHANGED <<worldVars, actionVars, sent, stored>>

\* HANDLE_CLOSING, or the error of the operation that was pending.
Return ==
    /\ pc = "CloseHandle"
    /\ pending = "none" \/ event
    /\ pc' = "done"
    /\ waits' = FALSE
    /\ UNCHANGED <<worldVars, actionVars, sent, stored, answer>>

Abort ==
    /\ ~ aborted
    /\ aborted' = TRUE
    /\ UNCHANGED <<body, reply, actionVars, pc, waits, sent, stored, answer>>

-----------------------------------------------------------------------------
Next ==
    \/ Initiate \/ Completes \/ RequestError
    \/ StreamFails \/ Done \/ Failed \/ InitiateFails \/ PollAborted
    \/ Return
    \/ Abort

Spec == Init /\ [][Next]_vars

-----------------------------------------------------------------------------
(* Properties.                                                             *)

\* "getObjectToFile() supports automatic resume on network failure" (the
\* migration guide): it can resume only what the transport reports, so a body
\* broken off must not be returned as a response that has arrived.
BrokenBodyIsReported == answer = "ok" => stored = reply
=============================================================================
