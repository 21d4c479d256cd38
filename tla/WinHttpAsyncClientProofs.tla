---------------------- MODULE WinHttpAsyncClientProofs ----------------------
(***************************************************************************)
(* The asynchronous WinHTTP client, for any requests and bodies: memory    *)
(* and handle of a request agree with what WinHTTP has pending, and the    *)
(* client is an HttpExchange.                                              *)
(***************************************************************************)
EXTENDS WinHttpAsyncClient, FiniteSetTheorems, TLAPS

ContextType ==
    [memory : {"none", "live", "deleted"}, state : Operations \union {"CloseHandle"},
     pending : Operations \union {"none"}, handle : {"none", "open", "closing", "closed"},
     sent : Nat, stored : Nat, error : {"none", "failed", "canceled"}]

ThreadStates == {"none", "calling", "counting", "notifying", "done"}

Typed ==
    /\ body \in [Requests -> Nat]
    /\ contentLength \in [Requests -> Int]
    /\ \A r \in Requests : contentLength[r] \in {body[r], -1}
    /\ reply \in [Requests -> Nat]
    /\ canceled \in [Requests -> BOOLEAN]
    /\ context \in [Requests -> ContextType]
    /\ thread \in [Requests -> ThreadStates]
    /\ answer \in [Requests -> {"none", "ok", "failed"}]
    /\ inflightCount \in Nat
    /\ destructor \in {"none", "testing", "waiting", "gone"}

\* The request body has gone over, as far as its length is known.
AllSent(r, c) == contentLength[r] # -1 => c.sent = body[r]

\* A context c of the request r: its state tells how far the bodies are, and
\* it is closed without an error only at the end of both.
Consistent(r, c) ==
    /\ c.sent <= body[r] /\ c.stored <= reply[r]
    /\ c.pending # "none" => c.handle = "open" /\ c.pending = c.state
    /\ c.memory = "live" <=> c.handle \in {"open", "closing"}
    /\ c.state = "WriteBody" => c.sent < body[r]
    /\ c.state \in {"ReceiveResponse", "QueryData", "ReadData"} => AllSent(r, c)
    /\ c.handle = "closing" /\ c.error = "none" => AllSent(r, c) /\ c.stored = reply[r]

ContextsConsistent ==
    \A r \in Requests : /\ Consistent(r, context[r])
                        /\ context[r].memory = "live" => thread[r] = "none"
                        /\ context[r].memory = "none" => context[r] = NoContext

\* What inflightCount counts.
Underway == {r \in Requests : context[r].memory = "live" \/ thread[r] \in {"calling", "counting"}}

Inv == Typed /\ ContextsConsistent /\ inflightCount = Cardinality(Underway)

-----------------------------------------------------------------------------
(* The handlers.  A completion leaves a live context, pending again or     *)
(* closing, and undoes nothing of what the bodies have reached.            *)

\* What may follow a context c of which a handler has been run.
Advanced(r, c, d) ==
    /\ d \in ContextType
    /\ d.memory = "live"
    /\ Consistent(r, d)
    /\ c.sent = body[r] => d.sent = c.sent
    /\ c.stored = reply[r] => d.stored = c.stored

LEMMA InitiateType ==
    ASSUME NEW c \in ContextType, NEW op \in Operations, NEW d \in Initiate(c, op)
    PROVE  /\ d \in ContextType
           /\ d.memory = c.memory /\ d.sent = c.sent /\ d.stored = c.stored
           /\ \/ d.state = op /\ d.pending = op /\ d.handle = c.handle
              \/ /\ d.state = "CloseHandle" /\ d.pending = c.pending
                 /\ d.handle = "closing" /\ d.error = "failed"
<1> DEFINE begun == [c EXCEPT !.state = op, !.pending = op]
           failed == [c EXCEPT !.state = "CloseHandle", !.error = "failed", !.handle = "closing"]
<1>1. d = begun \/ d = failed
  BY DEF Initiate, Fail, CloseHandle, ContextType
<1>2. CASE d = begun
  BY <1>2 DEF ContextType, Operations
<1>3. CASE d = failed
  BY <1>3 DEF ContextType
<1> QED
  BY <1>1, <1>2, <1>3

LEMMA FailType ==
    ASSUME NEW c \in ContextType, NEW e \in {"failed", "canceled"}
    PROVE  /\ Fail(c, e) \in ContextType
           /\ Fail(c, e).memory = c.memory
           /\ Fail(c, e).sent = c.sent
           /\ Fail(c, e).stored = c.stored
           /\ Fail(c, e).pending = c.pending
           /\ Fail(c, e).state = "CloseHandle"
           /\ Fail(c, e).handle = "closing"
           /\ Fail(c, e).error = e
BY DEF Fail, CloseHandle, ContextType

LEMMA WriteNextChunkAdvances ==
    ASSUME NEW r, NEW c \in ContextType, body[r] \in Nat, c.sent <= body[r], c.stored <= reply[r],
           c.memory = "live", c.handle = "open", c.pending = "none",
           NEW d \in WriteNextChunk(r, c)
    PROVE  Advanced(r, c, d)
<1>1. CASE d = Fail(c, "failed")
  BY <1>1, FailType DEF Advanced, Consistent, ContextType
<1>2. CASE c.sent < body[r] /\ d \in Initiate(c, "WriteBody")
  BY <1>2, InitiateType DEF Advanced, Consistent, ContextType, Operations
<1>3. CASE c.sent = body[r] /\ d \in Initiate(c, "ReceiveResponse")
  BY <1>3, InitiateType DEF Advanced, Consistent, ContextType, Operations, AllSent
<1>4. c.sent \in Nat /\ (c.sent < body[r] \/ c.sent = body[r])
  BY DEF ContextType
<1> QED
  BY <1>1, <1>2, <1>3, <1>4 DEF WriteNextChunk

\* A query or a read that yields nothing does so at the end.
LEMMA NothingAtTheEnd ==
    ASSUME NEW r, NEW c \in ContextType, reply[r] \in Nat, c.stored <= reply[r],
           NEW n \in Reported(r, c)
    PROVE  /\ n \in {0, 1}
           /\ n = 0 => c.stored = reply[r]
           /\ n = 1 /\ c.state = "ReadData" => c.stored < reply[r]
<1>1. c.stored \in Nat
  BY DEF ContextType
<1> QED
  BY <1>1 DEF Reported

\* The end of the response closes the handle without an error.
LEMMA EndAdvances ==
    ASSUME NEW r, NEW c \in ContextType, body[r] \in Nat, c.memory = "live", c.pending = "none",
           c.sent <= body[r], c.stored = reply[r], reply[r] \in Nat, AllSent(r, c)
    PROVE  Advanced(r, c, CloseHandle(c))
<1>1. CloseHandle(c) \in ContextType
  BY DEF CloseHandle, ContextType
<1>2. /\ CloseHandle(c).sent = c.sent /\ CloseHandle(c).stored = c.stored
      /\ CloseHandle(c).memory = "live" /\ CloseHandle(c).pending = "none"
      /\ CloseHandle(c).handle = "closing" /\ CloseHandle(c).state = "CloseHandle"
  BY DEF CloseHandle, ContextType
<1>3. AllSent(r, CloseHandle(c))
  BY <1>2 DEF AllSent
<1> QED
  BY <1>1, <1>2, <1>3 DEF Advanced, Consistent

LEMMA CompletionAdvances ==
    ASSUME NEW r, NEW c \in ContextType, body[r] \in Nat, reply[r] \in Nat,
           c.memory = "live", c.handle = "open", c.pending = "none", c.state \in Operations,
           c.sent <= body[r], c.stored <= reply[r],
           c.state = "WriteBody" => c.sent < body[r],
           c.state \in {"ReceiveResponse", "QueryData", "ReadData"} => AllSent(r, c),
           contentLength[r] \in {body[r], -1},
           NEW d \in Completed(r, c)
    PROVE  Advanced(r, c, d)
<1>1. CASE canceled[r]
  BY <1>1, FailType DEF Completed, Advanced, Consistent
<1>2. CASE ~ canceled[r] /\ c.state = "SendRequest"
  <2>1. d \in OnSendComplete(r, c)
    BY <1>2 DEF Completed, OnComplete
  <2>2. CASE contentLength[r] > 0
    BY <2>1, <2>2, WriteNextChunkAdvances DEF OnSendComplete
  <2>3. CASE ~ (contentLength[r] > 0)
    <3>1. d \in Initiate(c, "ReceiveResponse")
      BY <2>1, <2>3 DEF OnSendComplete
    <3>2. contentLength[r] # -1 => body[r] = 0
      BY <2>3
    <3>3. c.sent \in Nat /\ AllSent(r, c)
      BY <3>2 DEF ContextType, AllSent
    <3> QED
      BY <1>2, <3>1, <3>3, InitiateType DEF Advanced, Consistent, Operations, AllSent
  <2> QED
    BY <2>2, <2>3
<1>3. CASE ~ canceled[r] /\ c.state = "WriteBody"
  <2> DEFINE e == [c EXCEPT !.sent = @ + 1]
  <2>1. /\ e \in ContextType /\ e.sent = c.sent + 1 /\ e.stored = c.stored
        /\ e.memory = "live" /\ e.handle = "open" /\ e.pending = "none"
    BY DEF ContextType
  <2>2. d \in WriteNextChunk(r, e)
    BY <1>3 DEF Completed, OnComplete
  <2>3. c.sent < body[r] /\ c.sent \in Nat
    BY <1>3 DEF ContextType
  <2> HIDE DEF e
  <2>4. Advanced(r, e, d)
    BY <2>1, <2>2, <2>3, WriteNextChunkAdvances
  <2> QED
    BY <2>1, <2>3, <2>4 DEF Advanced
<1>4. CASE ~ canceled[r] /\ c.state = "ReceiveResponse"
  <2>1. d \in Initiate(c, "QueryData")
    BY <1>4 DEF Completed, OnComplete
  <2> QED
    BY <1>4, <2>1, InitiateType DEF Advanced, Consistent, Operations, AllSent
<1>5. CASE ~ canceled[r] /\ c.state = "QueryData"
  <2>1. PICK n \in Reported(r, c) : d \in OnDataAvailable(c, n)
    BY <1>5 DEF Completed, OnComplete
  <2>2. CASE n = 0
    BY <1>5, <2>1, <2>2, NothingAtTheEnd, EndAdvances DEF OnDataAvailable
  <2>3. CASE n # 0
    <3>1. d \in Initiate(c, "ReadData")
      BY <2>1, <2>3 DEF OnDataAvailable
    <3> QED
      BY <1>5, <3>1, InitiateType DEF Advanced, Consistent, ContextType, Operations, AllSent
  <2> QED
    BY <2>2, <2>3
<1>6. CASE ~ canceled[r] /\ c.state = "ReadData"
  <2>0. PICK n \in Reported(r, c) : d \in OnReadComplete(c, n)
    BY <1>6 DEF Completed, OnComplete
  <2>1. CASE n = 0
    BY <1>6, <2>0, <2>1, NothingAtTheEnd, EndAdvances DEF OnReadComplete
  <2>2. CASE n # 0
    <3> DEFINE e == [c EXCEPT !.stored = @ + 1]
    <3>0. n = 1 /\ c.stored < reply[r] /\ c.stored \in Nat
      BY <1>6, <2>0, <2>2, NothingAtTheEnd DEF ContextType
    <3>1. /\ e \in ContextType /\ e.stored = c.stored + 1 /\ e.sent = c.sent
          /\ e.memory = "live" /\ e.handle = "open" /\ e.pending = "none"
      BY <3>0 DEF ContextType
    <3>2. d \in Initiate(e, "QueryData") \/ d = Fail(c, "failed")
      BY <2>0, <3>0 DEF OnReadComplete
    <3> HIDE DEF e
    <3>3. CASE d \in Initiate(e, "QueryData")
      BY <1>6, <3>0, <3>1, <3>3, InitiateType DEF Advanced, Consistent, Operations, AllSent
    <3>4. CASE d = Fail(c, "failed")
      BY <3>4, FailType DEF Advanced, Consistent
    <3> QED
      BY <3>2, <3>3, <3>4
  <2> QED
    BY <2>1, <2>2
<1> QED
  BY <1>1, <1>2, <1>3, <1>4, <1>5, <1>6 DEF Operations

-----------------------------------------------------------------------------
(* A step moves one request, and the count with it.                        *)

LEMMA InvInit == Init => Inv
<1> SUFFICES ASSUME Init PROVE Inv
  OBVIOUS
<1>1. Typed
  BY WinHttpAsyncClientAssumption DEF Init, Typed, NoContext, ContextType, ThreadStates, Operations
<1>2. ContextsConsistent
  BY WinHttpAsyncClientAssumption DEF Init, ContextsConsistent, Consistent, NoContext
<1>3. Underway = {}
  BY DEF Init, Underway, NoContext
<1> QED
  BY <1>1, <1>2, <1>3, FS_EmptySet DEF Inv, Init

LEMMA UnderwayFinite == IsFiniteSet(Underway)
BY WinHttpAsyncClientAssumption, FS_Subset DEF Underway

\* The other requests keep their context and thread.
Alone(r) == \A q \in Requests \ {r} : context'[q] = context[q] /\ thread'[q] = thread[q]

Counts(r) == context[r].memory = "live" \/ thread[r] \in {"calling", "counting"}

\* The count follows what the step does to its own request.
LEMMA CountFollows ==
    ASSUME Inv, NEW r \in Requests, Alone(r),
           \/ Counts(r)' = Counts(r) /\ UNCHANGED inflightCount
           \/ ~ Counts(r) /\ Counts(r)' /\ inflightCount' = inflightCount + 1
           \/ Counts(r) /\ ~ Counts(r)' /\ inflightCount' = inflightCount - 1
    PROVE  inflightCount' = Cardinality(Underway')
<1>1. CASE Counts(r)' = Counts(r) /\ UNCHANGED inflightCount
  <2>1. Underway' = Underway
    BY <1>1 DEF Underway, Alone, Counts
  <2> QED
    BY <1>1, <2>1 DEF Inv
<1>2. CASE ~ Counts(r) /\ Counts(r)' /\ inflightCount' = inflightCount + 1
  <2>1. Underway' = Underway \union {r} /\ r \notin Underway
    BY <1>2 DEF Underway, Alone, Counts
  <2> QED
    BY <1>2, <2>1, UnderwayFinite, FS_AddElement DEF Inv
<1>3. CASE Counts(r) /\ ~ Counts(r)' /\ inflightCount' = inflightCount - 1
  <2>1. Underway' = Underway \ {r} /\ r \in Underway
    BY <1>3 DEF Underway, Alone, Counts
  <2> QED
    BY <1>3, <2>1, UnderwayFinite, FS_RemoveElement DEF Inv
<1> QED
  BY <1>1, <1>2, <1>3

\* A context or thread that counts makes the count positive.
LEMMA CountIsPositive ==
    ASSUME Inv, NEW r \in Requests, Counts(r)
    PROVE  inflightCount > 0
<1>1. r \in Underway
  BY DEF Underway, Counts
<1>2. Underway # {} /\ Cardinality(Underway) \in Nat
  BY <1>1, UnderwayFinite, FS_CardinalityType
<1> QED
  BY <1>2, UnderwayFinite, FS_EmptySet DEF Inv

LEMMA InvStep == Inv /\ [Next]_vars => Inv'
<1> SUFFICES ASSUME Inv, [Next]_vars PROVE Inv'
  OBVIOUS
<1> USE DEF Inv, Typed, ContextsConsistent, ThreadStates, worldVars, clientVars, AllSent
<1>1. ASSUME NEW r \in Requests, Send(r) PROVE Inv'
  <2>0. context[r] \in ContextType
    OBVIOUS
  <2>1. CASE Refuse(r)
    <3>1. Typed' /\ ContextsConsistent' /\ Alone(r)
      BY <2>1 DEF Refuse, Untouched, Consistent, Alone
    <3> QED
      BY <2>1, <3>1, CountFollows DEF Refuse, Untouched, Counts
  <2>2. CASE Start(r)
    <3>1. context[r] = NoContext
      BY <2>2 DEF Start, Untouched
    <3>2. context'[r] = [memory |-> "live", state |-> "SendRequest", pending |-> "SendRequest",
                         handle |-> "open", sent |-> 0, stored |-> 0, error |-> "none"]
      BY <2>2, <3>1 DEF Start, NoContext
    <3>3. context'[r] \in ContextType /\ context'[r].memory = "live"
      BY <3>2 DEF ContextType, Operations
    <3>4. Consistent(r, context[r])'
      <4>1. body'[r] \in Nat /\ reply'[r] \in Nat
        BY <2>2 DEF Start
      <4> QED
        BY ONLY <3>2, <4>1 DEF Consistent
    <3>5. Typed' /\ ContextsConsistent' /\ Alone(r)
      <4>1. /\ \A q \in Requests \ {r} : context'[q] = context[q]
            /\ context' \in [Requests -> ContextType]
            /\ UNCHANGED <<body, contentLength, reply, canceled, thread, answer, destructor>>
            /\ inflightCount' = inflightCount + 1 /\ thread[r] = "none"
        BY <2>2, <3>3 DEF Start, Untouched, worldVars
      <4>2. Typed'
        BY ONLY Typed, <4>1 DEF Typed
      <4>3. Alone(r)
        BY ONLY <4>1 DEF Alone
      <4>4. ASSUME NEW q \in Requests \ {r} PROVE Consistent(q, context[q])'
        BY ONLY ContextsConsistent, <4>1 DEF ContextsConsistent, Consistent, AllSent
      <4>5. ContextsConsistent'
        <5>1. \A q \in Requests \ {r} : /\ context'[q].memory = "live" => thread'[q] = "none"
                                        /\ context'[q].memory = "none" => context'[q] = NoContext
          BY ONLY ContextsConsistent, <4>1 DEF ContextsConsistent
        <5> QED
          BY ONLY <3>3, <3>4, <4>1, <4>4, <5>1 DEF ContextsConsistent
      <4> QED
        BY <4>2, <4>3, <4>5
    <3> QED
      BY <2>2, <3>1, <3>3, <3>5, CountFollows DEF Start, Untouched, Counts, NoContext
  <2>3. CASE StartFails(r)
    <3>1. context[r] = NoContext
      BY <2>3 DEF StartFails, Untouched
    <3>2. context'[r] = [NoContext EXCEPT !.memory = "deleted"]
      BY <2>3, <3>1 DEF StartFails
    <3>3. /\ context'[r] \in ContextType /\ context'[r].memory = "deleted"
          /\ Consistent(r, context[r])'
      BY <2>3, <3>2 DEF StartFails, NoContext, ContextType, Operations, Consistent
    <3>4. Typed' /\ ContextsConsistent' /\ Alone(r)
      BY <2>3, <3>3 DEF StartFails, Untouched, Consistent, Alone
    <3> QED
      BY <2>3, <3>1, <3>3, <3>4, CountFollows DEF StartFails, Untouched, Counts, NoContext
  <2> QED
    BY <1>1, <2>1, <2>2, <2>3 DEF Send
<1>2. ASSUME NEW r \in Requests, Callback(r) PROVE Inv'
  <2>0. ASSUME NEW d \in ContextType, context[r].memory = "live", d.memory = "live",
               Consistent(r, d), context' = [context EXCEPT ![r] = d],
               UNCHANGED <<worldVars, thread, answer, clientVars>>
        PROVE  Inv'
    <3>1. context'[r] = d
      BY <2>0
    <3>2. Typed' /\ ContextsConsistent' /\ Alone(r)
      BY <2>0, <3>1 DEF Consistent, Alone
    <3> QED
      BY <2>0, <3>1, <3>2, CountFollows DEF Counts
  <2>1. CASE Complete(r)
    <3>0. [context[r] EXCEPT !.pending = "none"].state = context[r].pending
      BY <2>1 DEF Complete, Consistent, ContextType
    <3>1. PICK d \in Completed(r, [context[r] EXCEPT !.pending = "none"]) :
              context' = [context EXCEPT ![r] = d]
      BY <2>1, <3>0 DEF Complete
    <3>2. Advanced(r, [context[r] EXCEPT !.pending = "none"], d)
      BY <2>1, <3>1, CompletionAdvances DEF Complete, Consistent, ContextType
    <3> QED
      BY <2>0, <2>1, <3>1, <3>2 DEF Complete, Advanced, Consistent
  <2>2. CASE OnError(r)
    <3> DEFINE c == [context[r] EXCEPT !.pending = "none"]
    <3>1. c \in ContextType /\ c.memory = "live" /\ c.sent <= body[r] /\ c.stored <= reply[r]
          /\ c.pending = "none"
      BY <2>2 DEF OnError, Consistent, ContextType
    <3> HIDE DEF c
    <3>2. Consistent(r, Fail(c, "failed"))
      BY <3>1, FailType DEF Consistent
    <3>3. context' = [context EXCEPT ![r] = Fail(c, "failed")]
      BY <2>2 DEF OnError, c
    <3>4. context[r].memory = "live"
      BY <2>2 DEF OnError, Consistent
    <3>5. Fail(c, "failed") \in ContextType /\ Fail(c, "failed").memory = "live"
      BY <3>1, FailType
    <3>6. UNCHANGED <<worldVars, thread, answer, clientVars>>
      BY <2>2 DEF OnError
    <3> QED
      BY ONLY <2>0, <3>2, <3>3, <3>4, <3>5, <3>6
  <2>3. CASE Finish(r)
    <3>1. context'[r] = [context[r] EXCEPT !.memory = "deleted", !.handle = "closed"]
      BY <2>3 DEF Finish
    <3>2. /\ context[r].memory = "live"
          /\ context'[r] \in ContextType /\ context'[r].memory = "deleted"
          /\ Consistent(r, context[r])'
      BY <2>3, <3>1 DEF Finish, Consistent, ContextType
    <3>3. Typed' /\ ContextsConsistent' /\ Alone(r)
      BY <2>3, <3>2 DEF Finish, Consistent, Alone
    <3> QED
      BY <2>3, <3>2, <3>3, CountFollows DEF Finish, Counts
  <2> QED
    BY <1>2, <2>1, <2>2, <2>3 DEF Callback
<1>3. ASSUME NEW r \in Requests, Leave(r) PROVE Inv'
  <2>0. context[r].memory # "live" /\ Alone(r)
    BY <1>3 DEF Leave, CallbackReturns, CountOff, Notify, Alone
  <2>1. CASE CallbackReturns(r)
    <3>1. Typed' /\ ContextsConsistent'
      BY <2>0, <2>1 DEF CallbackReturns, Consistent
    <3> QED
      BY <2>0, <2>1, <3>1, CountFollows DEF CallbackReturns, Counts
  <2>2. CASE CountOff(r)
    <3>1. inflightCount > 0
      BY <2>2, CountIsPositive DEF CountOff, Counts
    <3>2. Typed' /\ ContextsConsistent'
      BY <2>0, <2>2, <3>1 DEF CountOff, Consistent
    <3> QED
      BY <2>0, <2>2, <3>2, CountFollows DEF CountOff, Counts
  <2>3. CASE Notify(r)
    <3>1. Typed' /\ ContextsConsistent'
      BY <2>0, <2>3 DEF Notify, Consistent
    <3> QED
      BY <2>0, <2>3, <3>1, CountFollows DEF Notify, Counts
  <2> QED
    BY <1>3, <2>1, <2>2, <2>3 DEF Leave
<1>4. ASSUME NEW r \in Requests, Cancel(r) PROVE Inv'
  BY <1>4 DEF Cancel, Consistent, Underway
<1>5. CASE Destroy \/ TestCount
  <2>1. UNCHANGED <<body, contentLength, reply, canceled, context, thread, answer, inflightCount>>
    BY <1>5 DEF Destroy, TestCount
  <2>2. destructor' \in {"none", "testing", "waiting", "gone"}
    BY <1>5 DEF Destroy, TestCount
  <2>3. Typed'
    BY ONLY Typed, <2>1, <2>2 DEF Typed
  <2>4. ContextsConsistent'
    BY ONLY ContextsConsistent, <2>1 DEF ContextsConsistent, Consistent, AllSent
  <2>5. Underway' = Underway
    BY <2>1 DEF Underway
  <2> QED
    BY <2>1, <2>3, <2>4, <2>5
<1>6. CASE UNCHANGED vars
  BY <1>6 DEF vars, Consistent, Underway
<1> QED
  BY <1>1, <1>2, <1>3, <1>4, <1>5, <1>6 DEF Next

\* While WinHTTP has an operation pending its context has not been deleted and
\* its handle is open, whatever failed or was canceled before.
THEOREM BuffersOutliveOperations == Spec => []OneOperationPerHandle
<1>1. Inv => OneOperationPerHandle
  BY DEF Inv, ContextsConsistent, Consistent, OneOperationPerHandle
<1> QED
  BY <1>1, InvInit, InvStep, PTL DEF Spec

-----------------------------------------------------------------------------
(* The refinement.                                                         *)

Transport == IF destructor = "none" THEN "alive"
             ELSE IF destructor = "gone" THEN "gone" ELSE "closing"

\* What a step does to its request, read as a step of HttpExchange.
Stutters(r) == UNCHANGED Whole(r) /\ UNCHANGED <<Stage(r), answer>>

Transfers(r) == Stage(r) = "open" /\ Whole(r)' /\ UNCHANGED <<Stage(r), answer>>

Opens(r) ==
    /\ Stage(r) = "idle" /\ destructor = "none" /\ Stage(r)' = "open"
    /\ UNCHANGED Whole(r)
    /\ UNCHANGED answer

Answers(r) ==
    /\ Stage(r) = "open" /\ Stage(r)' = "calling"
    /\ \/ answer' = [answer EXCEPT ![r] = "failed"]
       \/ Whole(r) /\ answer' = [answer EXCEPT ![r] = "ok"]
    /\ UNCHANGED Whole(r)

Refuses(r) ==
    /\ Stage(r) = "idle" /\ CanCall /\ Stage(r)' \in {"calling", "returned"}
    /\ answer' = [answer EXCEPT ![r] = "failed"]
    /\ UNCHANGED Whole(r)

Returns(r) ==
    /\ Stage(r) = "calling" /\ Stage(r)' = "returned"
    /\ UNCHANGED Whole(r)
    /\ UNCHANGED answer

Refines(r) ==
    Stutters(r) \/ Transfers(r) \/ Opens(r) \/ Answers(r) \/ Refuses(r) \/ Returns(r)

LEMMA ExchangeStep ==
    ASSUME NEW r \in Requests, Alone(r), UNCHANGED <<body, contentLength, reply, Transport>>, Refines(r)
    PROVE  [Exchange!Next]_Exchange!vars
<1> DEFINE stage == [q \in Requests |-> Stage(q)]
           whole == [q \in Requests |-> Whole(q)]
           transport == Transport
<1>1. \A q \in Requests \ {r} : UNCHANGED <<Stage(q), Whole(q)>>
  BY DEF Alone, Stage, Whole
<1>2. stage' = [stage EXCEPT ![r] = Stage(r)'] /\ whole' = [whole EXCEPT ![r] = Whole(r)']
  BY <1>1
<1>3. stage[r] = Stage(r) /\ whole[r] = Whole(r) /\ UNCHANGED transport
  OBVIOUS
<1>4. CanCall => transport = "alive" \/ \E q \in Requests : stage[q] = "calling"
  BY DEF CanCall, Transport, Stage
<1>5. stage = [q \in Requests |-> Stage(q)] /\ whole = [q \in Requests |-> Whole(q)]
  OBVIOUS
<1>6. Whole(r) \in BOOLEAN /\ Whole(r)' \in BOOLEAN
  BY DEF Whole
<1>7. UNCHANGED Whole(r) => UNCHANGED whole
  BY <1>1
<1>8. UNCHANGED Stage(r) => UNCHANGED stage
  BY <1>1
<1>9. destructor = "none" => transport = "alive"
  BY DEF Transport
<1> HIDE DEF stage, whole, transport
<1>10. CASE Stutters(r)
  <2>1. UNCHANGED <<stage, answer, whole, transport>>
    BY <1>3, <1>7, <1>8, <1>10 DEF Stutters
  <2> QED
    BY <2>1 DEF Exchange!vars, stage, whole, transport, Transport
<1>11. CASE Transfers(r)
  <2>1. Exchange!Transferred(r)
    BY <1>2, <1>3, <1>6, <1>8, <1>11
    DEF Transfers, Exchange!Transferred, stage, whole, transport, Transport
  <2> QED
    BY <2>1 DEF Exchange!Next
<1>12. CASE Opens(r)
  <2>1. Exchange!Open(r)
    BY <1>2, <1>3, <1>7, <1>9, <1>12
    DEF Opens, Exchange!Open, Exchange!CanCall, stage, whole, transport, Transport
  <2> QED
    BY <2>1 DEF Exchange!Next
<1>13. CASE Answers(r)
  <2>1. Exchange!Answer(r)
    BY <1>2, <1>3, <1>7, <1>13 DEF Answers, Exchange!Answer, stage, whole, transport, Transport
  <2> QED
    BY <2>1 DEF Exchange!Next
<1>14. CASE Refuses(r)
  <2>1. Exchange!Refuse(r)
    BY <1>2, <1>3, <1>4, <1>7, <1>14
    DEF Refuses, Exchange!Refuse, Exchange!CanCall, stage, whole, transport, Transport
  <2> QED
    BY <2>1 DEF Exchange!Next
<1>15. CASE Returns(r)
  <2>1. Exchange!Return(r)
    BY <1>2, <1>3, <1>7, <1>15 DEF Returns, Exchange!Return, stage, whole, transport, Transport
  <2> QED
    BY <2>1 DEF Exchange!Next
<1> QED
  BY <1>10, <1>11, <1>12, <1>13, <1>14, <1>15 DEF Refines

LEMMA WholeStays ==
    ASSUME NEW r, UNCHANGED <<body, contentLength, reply, context[r].sent, context[r].stored>>
    PROVE  UNCHANGED Whole(r)
BY DEF Whole

\* The steps that move a request.
LEMMA RequestRefines ==
    ASSUME Inv, NEW r \in Requests, Send(r) \/ Callback(r) \/ Leave(r)
    PROVE  Alone(r) /\ UNCHANGED <<body, contentLength, reply, Transport>> /\ Refines(r)
<1> USE DEF Inv, Typed, ContextsConsistent, ThreadStates, worldVars, clientVars, AllSent
<1>1. Alone(r)
  BY DEF Alone, Send, Refuse, Start, StartFails, Callback, Complete, OnError, Finish, Leave,
         CallbackReturns, CountOff, Notify
<1>2. UNCHANGED <<body, contentLength, reply, Transport>>
  BY DEF Transport, Send, Refuse, Start, StartFails, Callback, Complete, OnError, Finish, Leave,
         CallbackReturns, CountOff, Notify
<1> SUFFICES Refines(r)
  BY <1>1, <1>2
<1>3. CASE Send(r)
  <2>1. Stage(r) = "idle"
    BY <1>3 DEF Send, Refuse, Start, StartFails, Untouched, Stage
  <2>2. CASE Refuse(r)
    <3>1. Stage(r)' = "returned"
      BY <2>2 DEF Refuse, Stage
    <3>2. UNCHANGED Whole(r)
      BY <2>2, WholeStays DEF Refuse
    <3> QED
      BY <2>1, <2>2, <3>1, <3>2 DEF Refuse, Refuses, Refines
  <2>3. CASE Start(r)
    <3>1. /\ context'[r].memory = "live"
          /\ context'[r].sent = context[r].sent /\ context'[r].stored = context[r].stored
      BY <2>3 DEF Start, ContextType
    <3>2. Stage(r)' = "open"
      BY <2>3, <3>1 DEF Start, Untouched, Stage
    <3>3. UNCHANGED Whole(r)
      BY <1>2, <3>1, WholeStays
    <3> QED
      BY <2>1, <2>3, <3>2, <3>3 DEF Start, Opens, Refines
  <2>4. CASE StartFails(r)
    <3>1. context'[r].sent = context[r].sent /\ context'[r].stored = context[r].stored
      BY <2>4 DEF StartFails, ContextType
    <3>2. Stage(r)' = "calling"
      BY <2>4 DEF StartFails, Stage
    <3>3. UNCHANGED Whole(r)
      BY <1>2, <3>1, WholeStays
    <3> QED
      BY <2>1, <2>4, <3>2, <3>3 DEF StartFails, Refuses, CanCall, Refines
  <2> QED
    BY <1>3, <2>2, <2>3, <2>4 DEF Send
<1>4. CASE Callback(r)
  <2>1. context[r].memory = "live" /\ Stage(r) = "open"
    BY <1>4 DEF Callback, Complete, OnError, Finish, Stage, Consistent
  <2>2. CASE Complete(r)
    <3> DEFINE c == [context[r] EXCEPT !.pending = "none"]
    <3>0. c.state = context[r].pending
      BY <2>2 DEF Complete, Consistent, ContextType
    <3>1. PICK d \in Completed(r, c) : context' = [context EXCEPT ![r] = d]
      BY <2>2, <3>0 DEF Complete
    <3>2. Advanced(r, c, d)
      BY <2>2, <3>1, CompletionAdvances DEF Complete, Consistent, ContextType
    <3>3. c.sent = context[r].sent /\ c.stored = context[r].stored
      BY DEF ContextType
    <3>4. context'[r] = d /\ thread' = thread /\ answer' = answer
      BY <2>2, <3>1 DEF Complete
    <3>5. Stage(r)' = "open"
      BY <2>1, <3>2, <3>4 DEF Stage, Advanced
    <3>6. Whole(r) => Whole(r)'
      BY <1>2, <3>2, <3>3, <3>4 DEF Whole, Advanced
    <3>7. Whole(r) \in BOOLEAN /\ Whole(r)' \in BOOLEAN
      BY DEF Whole
    <3>8. CASE Whole(r)'
      BY <2>1, <3>4, <3>5, <3>8 DEF Transfers, Refines
    <3>9. CASE ~ Whole(r)'
      BY <2>1, <3>4, <3>5, <3>6, <3>7, <3>9 DEF Stutters, Refines
    <3> QED
      BY <3>8, <3>9
  <2>3. CASE OnError(r)
    <3> DEFINE c == [context[r] EXCEPT !.pending = "none"]
    <3>1. /\ c \in ContextType /\ c.memory = "live"
          /\ c.sent = context[r].sent /\ c.stored = context[r].stored
      BY <2>1 DEF ContextType
    <3>2. context'[r] = Fail(c, "failed")
      BY <2>3 DEF OnError
    <3> HIDE DEF c
    <3>3. /\ context'[r].memory = "live"
          /\ context'[r].sent = context[r].sent /\ context'[r].stored = context[r].stored
      BY <3>1, <3>2, FailType
    <3>4. UNCHANGED Stage(r)
      BY <2>1, <2>3, <3>3 DEF OnError, Stage
    <3>5. UNCHANGED Whole(r)
      BY <1>2, <3>3, WholeStays
    <3> QED
      BY <2>3, <3>4, <3>5 DEF OnError, Stutters, Refines
  <2>4. CASE Finish(r)
    <3>1. context'[r].sent = context[r].sent /\ context'[r].stored = context[r].stored
      BY <2>4 DEF Finish, ContextType
    <3>2. Stage(r)' = "calling"
      BY <2>4 DEF Finish, Stage
    <3>3. UNCHANGED Whole(r)
      BY <1>2, <3>1, WholeStays
    <3>4. context[r].error = "none" => Whole(r)
      BY <2>4 DEF Finish, Consistent, Whole
    <3> QED
      BY <2>1, <2>4, <3>2, <3>3, <3>4 DEF Finish, Answers, Refines
  <2> QED
    BY <1>4, <2>2, <2>3, <2>4 DEF Callback
<1>5. CASE Leave(r)
  <2>1. CASE CallbackReturns(r)
    <3>1. Stage(r) = "calling" /\ Stage(r)' = "returned"
      BY <2>1 DEF CallbackReturns, Stage
    <3>2. UNCHANGED Whole(r)
      BY <2>1, WholeStays DEF CallbackReturns
    <3> QED
      BY <2>1, <3>1, <3>2 DEF CallbackReturns, Returns, Refines
  <2>2. CASE CountOff(r) \/ Notify(r)
    <3>1. UNCHANGED <<Stage(r), answer>>
      BY <2>2 DEF CountOff, Notify, Stage
    <3>2. UNCHANGED Whole(r)
      BY <2>2, WholeStays DEF CountOff, Notify
    <3> QED
      BY <3>1, <3>2 DEF Stutters, Refines
  <2> QED
    BY <1>5, <2>1, <2>2 DEF Leave
<1> QED
  BY <1>3, <1>4, <1>5

LEMMA RefinementStep ==
    ASSUME Inv, [Next]_vars
    PROVE  [Exchange!Next]_Exchange!vars
<1>1. ASSUME NEW r \in Requests, Send(r) \/ Callback(r) \/ Leave(r)
      PROVE  [Exchange!Next]_Exchange!vars
  BY <1>1, RequestRefines, ExchangeStep
<1>2. CASE UNCHANGED <<body, contentLength, reply, context, thread, answer, destructor>>
  BY <1>2 DEF Exchange!vars, Stage, Whole
<1>3. ASSUME NEW r \in Requests, Cancel(r)
      PROVE  UNCHANGED <<body, contentLength, reply, context, thread, answer, destructor>>
  BY <1>3 DEF Cancel, clientVars
<1>4. CASE Destroy
  <2>1. Exchange!Close
    BY <1>4 DEF Destroy, Exchange!Close, worldVars, Stage, Whole
  <2> QED
    BY <2>1 DEF Exchange!Next
<1>5. CASE TestCount
  <2>1. CASE inflightCount = 0
    <3>1. \A r \in Requests : ~ Counts(r)
      BY <2>1, CountIsPositive
    <3>2. \A r \in Requests : Stage(r) \in {"idle", "returned"}
      BY <3>1 DEF Counts, Stage
    <3>3. Exchange!Gone
      BY <1>5, <2>1, <3>2 DEF TestCount, Exchange!Gone, worldVars, Stage, Whole
    <3> QED
      BY <3>3 DEF Exchange!Next
  <2>2. CASE inflightCount # 0
    BY <1>5, <2>2 DEF TestCount, Exchange!vars, worldVars, Stage, Whole
  <2> QED
    BY <2>1, <2>2
<1>6. CASE UNCHANGED vars
  BY <1>2, <1>6 DEF vars, worldVars, clientVars
<1> QED
  BY <1>1, <1>2, <1>3, <1>4, <1>5, <1>6 DEF Next

\* The client is an HttpExchange: each request is answered once, as a success
\* only when both bodies have gone over whole, the request's if its length is
\* known, and the destructor returns when no callback runs, a callback that sends
\* another request included.
THEOREM ClientIsAnExchange == Spec => Exchanges
<1>1. Init => Exchange!Init
  BY DEF Init, Exchange!Init, Stage, Whole, NoContext
<1> QED
  BY <1>1, InvInit, InvStep, RefinementStep, PTL DEF Spec, Exchanges, Exchange!Spec
=============================================================================
