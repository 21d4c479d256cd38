---------------------- MODULE CurlMultiTransportProofs ----------------------
(***************************************************************************)
(* The curl transport and its pool: every handle is accounted for and      *)
(* every request is in one place, for any number of senders and handles,   *)
(* with growths that fail and a destructor at any moment.                  *)
(***************************************************************************)
EXTENDS CurlMultiTransport, FiniteSetTheorems, TLAPS

\* TypeOK, but for what only the conservation of the handles explains: that
\* no more are free than the pool may have.
Typed ==
    /\ free \in Nat
    /\ poolSize \in Nat /\ toAdd \in Nat /\ added \in Nat
    /\ growing \in {{}} \union {{u} : u \in Users}
    /\ acquiring \in [Users -> {"no", "lock", "grow", "take"}]
    /\ initFailures \in 0..MaxInitFailures
    /\ stopped \in BOOLEAN
    /\ dtor \in {"no", "join", "shutdown", "gone"}
    /\ io \in IOStates
    /\ sender \in [Users -> {"idle", "entered", "acquire", "check", "push", "sent"}]
    /\ pending \subseteq Users /\ inflight \subseteq Users /\ completed \subseteq inflight
    /\ batch \subseteq Users /\ late \subseteq Users
    /\ answers \in [Users -> 0..1]

\* One user at a time grows the pool, and never beyond its limit.
Growing ==
    /\ \A u \in Users : acquiring[u] = "grow" <=> u \in growing
    /\ growing = {} => toAdd = 0 /\ added = 0
    /\ poolSize + added + toAdd <= MaxPoolSize

\* A request that has been queued and not answered is in one place; a late one
\* stays with the queue until the members go.
Placed ==
    /\ \A u \in pending \union inflight \union batch \union late :
          sender[u] = "sent" /\ answers[u] = 0
    /\ \A u \in Users : answers[u] = 1 => sender[u] = "sent"
    /\ \A u \in Users : sender[u] = "sent" /\ answers[u] = 0 =>
          u \in pending \union inflight \union batch \union late
    /\ pending \intersect inflight = {}
    /\ batch \intersect (pending \union inflight) = {}
    /\ late \intersect (inflight \union batch) = {}

\* What the I/O thread still has at each of its stages.
Staged ==
    /\ completed # {} => io \in {"process", "lastProcess"}
    /\ batch # {} => io = "cleanup"
    /\ io = "exited" => inflight = {}
    /\ IF io \in {"cleanup", "exited"} THEN pending \subseteq late ELSE late = {}
    /\ dtor \in {"shutdown", "gone"} => io = "exited" /\ \A u \in Users : ~ Inside(u)

Inv == Typed /\ Growing /\ Placed /\ Staged /\ HandlesConserved

LEMMA InvInit == Init => Inv
<1> SUFFICES ASSUME Init PROVE Inv
  OBVIOUS
<1>1. Typed
  <2>1. growing \in {{}} \union {{u} : u \in Users}
    BY DEF Init, PoolInit
  <2>2. /\ free \in Nat /\ poolSize \in Nat /\ toAdd \in Nat /\ added \in Nat
        /\ initFailures \in 0..MaxInitFailures
    BY ContainerAssumption DEF Init, PoolInit
  <2>3. /\ acquiring \in [Users -> {"no", "lock", "grow", "take"}]
        /\ answers \in [Users -> 0..1]
        /\ sender \in [Users -> {"idle", "entered", "acquire", "check", "push", "sent"}]
    BY DEF Init, PoolInit
  <2> QED
    BY <2>1, <2>2, <2>3 DEF Init, Typed, IOStates
<1>2. Growing /\ Placed /\ Staged
  BY ContainerAssumption DEF Init, PoolInit, Growing, Placed, Staged
<1>3. Holders = {}
  BY DEF Init, Holders
<1>4. HandlesConserved
  BY <1>3, FS_EmptySet DEF Init, PoolInit, HandlesConserved
<1> QED
  BY <1>1, <1>2, <1>4 DEF Inv

-----------------------------------------------------------------------------
(* The handles.  A step moves at most one between the pool and a request.  *)

LEMMA HoldersFinite == Typed => IsFiniteSet(Holders)
BY ContainerAssumption, FS_Subset DEF Typed, Holders

LEMMA HandleTaken ==
    ASSUME Inv, NEW u, u \notin Holders, Holders' = Holders \union {u},
           free' = free - 1, UNCHANGED <<poolSize, added>>
    PROVE  HandlesConserved'
<1>1. IsFiniteSet(Holders) /\ Cardinality(Holders) \in Nat
  BY HoldersFinite, FS_CardinalityType DEF Inv
<1>2. Cardinality(Holders') = Cardinality(Holders) + 1
  BY <1>1, FS_AddElement
<1> QED
  BY <1>1, <1>2 DEF Inv, HandlesConserved, Typed

LEMMA HandleReturned ==
    ASSUME Inv, NEW u, u \in Holders, Holders' = Holders \ {u}, ReleaseHandle
    PROVE  HandlesConserved'
<1>1. IsFiniteSet(Holders) /\ Cardinality(Holders) \in Nat
  BY HoldersFinite, FS_CardinalityType DEF Inv
<1>2. Cardinality(Holders') = Cardinality(Holders) - 1
  BY <1>1, FS_RemoveElement
<1> QED
  BY <1>1, <1>2 DEF Inv, HandlesConserved, Typed, ReleaseHandle

LEMMA HandlesStay ==
    ASSUME Inv, Holders' = Holders, UNCHANGED <<free, poolSize, added>>
    PROVE  HandlesConserved'
BY DEF Inv, HandlesConserved

-----------------------------------------------------------------------------
(* sendAsync                                                               *)

\* Acquire: the pool grows or gives a handle.
LEMMA AcquireStep == ASSUME Inv, NEW u \in Users, Acquire(u) PROVE Inv'
<1>1. /\ sender[u] = "acquire"
      /\ UNCHANGED <<stopped, dtor, io, pending, inflight, completed, batch, answers, late>>
      /\ u \notin Holders
  BY DEF Acquire, Inv, Placed, Holders
<1>2. CASE (Look(u) \/ Growth(u)) /\ UNCHANGED sender
  <2>1. Holders' = Holders
    BY <1>1, <1>2 DEF Holders
  <2>2. Placed' /\ Staged'
    BY <1>1, <1>2 DEF Inv, Placed, Staged, Inside
  <2>3. CASE Look(u)
    <3>1. Typed' /\ Growing'
      BY <1>1, <1>2, <2>3 DEF Inv, Typed, Growing, Look, At
    <3> QED
      BY <2>1, <2>2, <2>3, <3>1, HandlesStay DEF Look, Inv
  <2>4. CASE GrowBegin(u)
    <3>1. CASE poolSize < MaxPoolSize
      <4>1. /\ growing = {} /\ growing' = {u} /\ added' = 0
            /\ acquiring[u] = "lock" /\ acquiring' = [acquiring EXCEPT ![u] = "grow"]
            /\ UNCHANGED <<free, poolSize, initFailures>>
        BY <2>4, <3>1 DEF GrowBegin, At
      <4>2. toAdd' \in Nat /\ poolSize + toAdd' <= MaxPoolSize
        BY <2>4, <3>1, ContainerAssumption DEF GrowBegin, Smaller, Inv, Typed
      <4>3. added = 0
        BY <4>1 DEF Inv, Growing
      <4>4. Typed' /\ Growing'
        BY <1>1, <1>2, <4>1, <4>2 DEF Inv, Typed, Growing
      <4> QED
        BY <2>1, <2>2, <4>1, <4>3, <4>4, HandlesStay DEF Inv
    <3>2. CASE ~ (poolSize < MaxPoolSize)
      <4>1. Typed' /\ Growing'
        BY <1>1, <1>2, <2>4, <3>2 DEF Inv, Typed, Growing, GrowBegin, At
      <4> QED
        BY <2>1, <2>2, <2>4, <3>2, <4>1, HandlesStay DEF GrowBegin, Inv
    <3> QED
      BY <3>1, <3>2
  <2>5. CASE GrowOne(u)
    <3>1. Typed' /\ Growing'
      BY <1>1, <1>2, <2>5 DEF Inv, Typed, Growing, GrowOne
    <3>2. HandlesConserved'
      BY <2>1, <2>5, HoldersFinite, FS_CardinalityType DEF GrowOne, Inv, Typed, HandlesConserved
    <3> QED
      BY <2>2, <3>1, <3>2 DEF Inv
  <2>6. CASE GrowFails(u)
    <3>1. Typed' /\ Growing'
      BY <1>1, <1>2, <2>6, ContainerAssumption DEF Inv, Typed, Growing, GrowFails
    <3> QED
      BY <2>1, <2>2, <2>6, <3>1, HandlesStay DEF GrowFails, Inv
  <2>7. CASE GrowEnd(u)
    <3>1. Typed' /\ Growing'
      BY <1>1, <1>2, <2>7 DEF Inv, Typed, Growing, GrowEnd, At
    <3>2. HandlesConserved'
      BY <2>1, <2>7, HoldersFinite, FS_CardinalityType DEF GrowEnd, Inv, Typed, HandlesConserved
    <3> QED
      BY <2>2, <3>1, <3>2 DEF Inv
  <2> QED
    BY <1>2, <2>3, <2>4, <2>5, <2>6, <2>7 DEF Growth
<1>3. CASE Take(u) /\ Step(u, "acquire", "check")
  <2>1. /\ sender' = [sender EXCEPT ![u] = "check"]
        /\ free > 0 /\ free' = free - 1
        /\ acquiring[u] = "take" /\ acquiring' = [acquiring EXCEPT ![u] = "no"]
        /\ UNCHANGED <<poolSize, growing, toAdd, added, initFailures>>
    BY <1>3 DEF Take, At, Step
  <2>2. Typed' /\ Growing'
    BY <1>1, <2>1 DEF Inv, Typed, Growing
  <2>3. Placed' /\ Staged'
    BY <1>1, <2>1 DEF Inv, Typed, Placed, Staged, Inside
  <2>4. Holders' = Holders \union {u}
    BY <1>1, <2>1 DEF Inv, Typed, Holders
  <2> QED
    BY <1>1, <2>1, <2>2, <2>3, <2>4, HandleTaken DEF Inv
<1> QED
  BY <1>2, <1>3 DEF Acquire

LEMMA SendStep == ASSUME Inv, NEW u \in Users, Send(u) PROVE Inv'
<1>1. CASE Enter(u) \/ FirstTest(u)
  <2>1. /\ UNCHANGED <<poolVars, stopped, dtor, io, pending, inflight, completed, batch, late>>
        /\ sender[u] \in {"idle", "entered"}
        /\ \E s \in {"entered", "acquire", "sent"} :
              /\ sender' = [sender EXCEPT ![u] = s]
              /\ s = "sent" => answers' = [answers EXCEPT ![u] = @ + 1]
              /\ s # "sent" => UNCHANGED answers
    BY <1>1 DEF Enter, FirstTest, Step, Answer
  <2>2. dtor \notin {"shutdown", "gone"}
    BY <1>1 DEF Enter, FirstTest, Step, Inv, Staged, Inside
  <2>3. Typed'
    BY <2>1 DEF poolVars, Inv, Typed, Placed
  <2>4. Growing' /\ Staged'
    BY <2>1, <2>2 DEF poolVars, Inv, Typed, Growing, Staged
  <2>5. Placed'
    BY <2>1 DEF poolVars, Inv, Typed, Placed
  <2>6. Holders' = Holders
    BY <2>1 DEF Inv, Typed, Holders
  <2> QED
    BY <2>1, <2>3, <2>4, <2>5, <2>6, HandlesStay DEF poolVars, Inv
<1>2. CASE Acquire(u)
  BY <1>2, AcquireStep
<1>3. CASE SecondTest(u)
  <2>1. /\ UNCHANGED <<stopped, dtor, io, pending, inflight, completed, batch, late>>
        /\ sender[u] = "check"
    BY <1>3 DEF SecondTest, Step
  <2>2. CASE stopped
    <3>1. /\ sender' = [sender EXCEPT ![u] = "sent"]
          /\ answers' = [answers EXCEPT ![u] = @ + 1]
          /\ ReleaseHandle
      BY <1>3, <2>2 DEF SecondTest, Step, Answer
    <3>2. answers[u] = 0 /\ u \notin pending \union inflight \union batch \union late
      BY <2>1 DEF Inv, Typed, Placed
    <3>3. Typed' /\ Growing' /\ Staged'
      BY <2>1, <3>1, <3>2 DEF ReleaseHandle, Inv, Typed, Growing, Staged, Inside
    <3>4. Placed'
      BY <2>1, <3>1, <3>2 DEF Inv, Typed, Placed
    <3>5. u \in Holders /\ Holders' = Holders \ {u}
      BY <2>1, <3>1, <3>2 DEF Inv, Typed, Holders
    <3> QED
      BY <3>1, <3>3, <3>4, <3>5, HandleReturned DEF Inv
  <2>3. CASE ~ stopped
    <3>1. sender' = [sender EXCEPT ![u] = "push"] /\ UNCHANGED <<answers, poolVars>>
      BY <1>3, <2>3 DEF SecondTest, Step
    <3>2. Typed' /\ Growing' /\ Staged'
      BY <2>1, <3>1 DEF poolVars, Inv, Typed, Growing, Staged, Inside
    <3>3. Placed'
      BY <2>1, <3>1 DEF Inv, Typed, Placed
    <3>4. Holders' = Holders
      BY <2>1, <3>1 DEF Inv, Typed, Holders
    <3> QED
      BY <3>1, <3>2, <3>3, <3>4, HandlesStay DEF poolVars, Inv
  <2> QED
    BY <2>2, <2>3
<1>4. CASE Push(u)
  <2>1. /\ sender[u] = "push" /\ sender' = [sender EXCEPT ![u] = "sent"]
        /\ pending' = pending \union {u}
        /\ late' = IF io \in {"cleanup", "exited"} THEN late \union {u} ELSE late
        /\ UNCHANGED <<poolVars, stopped, dtor, io, inflight, completed, batch, answers>>
    BY <1>4 DEF Push, Step
  <2>2. /\ answers[u] = 0 /\ u \notin pending \union inflight \union batch \union late
        /\ dtor \notin {"shutdown", "gone"}
    BY <2>1 DEF Inv, Typed, Placed, Staged, Inside
  <2>3. Typed' /\ Growing'
    BY <2>1 DEF poolVars, Inv, Typed, Growing
  <2>4. Staged'
    BY <2>1, <2>2 DEF Inv, Typed, Staged
  <2>5. Placed'
    BY <2>1, <2>2 DEF Inv, Typed, Placed
  <2>6. Holders' = Holders
    BY <2>1, <2>2 DEF Inv, Typed, Holders
  <2> QED
    BY <2>1, <2>3, <2>4, <2>5, <2>6, HandlesStay DEF poolVars, Inv
<1> QED
  BY <1>1, <1>2, <1>3, <1>4 DEF Send

-----------------------------------------------------------------------------
(* The I/O thread and the destructor.                                      *)

\* A request is answered, with its handle back in the pool.
LEMMA AnswerStep ==
    ASSUME Inv, NEW u \in Users, Process(u) \/ CleanUp(u)
    PROVE  Inv'
<1>1. /\ io \in {"process", "lastProcess", "cleanup"}
      /\ u \in inflight \union batch
      /\ inflight' = inflight \ {u}
      /\ batch' = batch \ {u}
      /\ completed' = completed \ {u}
      /\ answers' = [answers EXCEPT ![u] = @ + 1]
      /\ ReleaseHandle
      /\ UNCHANGED <<stopped, dtor, io, sender, pending, late>>
  BY DEF Process, CleanUp, Answer, Inv, Typed, Placed, Staged
<1>2. sender[u] = "sent" /\ answers[u] = 0 /\ u \notin pending \union late
  BY <1>1 DEF Inv, Placed
<1>3. Typed' /\ Growing' /\ Staged'
  BY <1>1, <1>2 DEF ReleaseHandle, Inv, Typed, Growing, Staged, Inside
<1>4. Placed'
  BY <1>1, <1>2 DEF Inv, Typed, Placed
<1>5. u \in Holders /\ Holders' = Holders \ {u}
  BY <1>1, <1>2 DEF Inv, Typed, Holders
<1> QED
  BY <1>1, <1>3, <1>4, <1>5, HandleReturned DEF Inv

\* The other steps move requests about, and no handle.
LEMMA OtherStep ==
    ASSUME Inv, \/ Drain \/ Perform \/ Processed \/ Poll \/ LastPerform \/ Swap \/ Exit
                \/ Destructor
    PROVE  Inv'
<1>1. UNCHANGED <<free, poolSize, growing, toAdd, added, acquiring, initFailures, sender, answers, late>>
  BY DEF Drain, Perform, Processed, Poll, LastPerform, Swap, Exit, Destructor, Stop, Join,
         Destroyed, poolVars
<1>2. Growing'
  BY <1>1 DEF Inv, Growing
<1>3. SUFFICES Typed' /\ Placed' /\ Staged' /\ Holders' = Holders
  BY <1>1, <1>2, HandlesStay DEF Inv
<1>4. CASE Drain
  BY <1>1, <1>4 DEF Drain, Inv, Typed, IOStates, Placed, Staged, Inside, Holders
<1>5. CASE Perform
  BY <1>1, <1>5 DEF Perform, Inv, Typed, IOStates, Placed, Staged, Inside, Holders
<1>6. CASE Processed
  BY <1>1, <1>6 DEF Processed, Inv, Typed, IOStates, Placed, Staged, Inside, Holders
<1>7. CASE Poll \/ LastPerform
  BY <1>1, <1>7 DEF Poll, LastPerform, Inv, Typed, IOStates, Placed, Staged, Inside, Holders
<1>8. CASE Swap
  BY <1>1, <1>8 DEF Swap, Inv, Typed, IOStates, Placed, Staged, Inside, Holders
<1>9. CASE Exit
  BY <1>1, <1>9 DEF Exit, Inv, Typed, IOStates, Placed, Staged, Inside, Holders
<1>10. CASE Stop \/ Destroyed
  BY <1>1, <1>10 DEF Stop, Destroyed, Inv, Typed, IOStates, Placed, Staged, Inside, Holders
<1>11. CASE Join
  <2>1. pending \subseteq late /\ pending' = {} /\ io = "exited" /\ dtor' = "shutdown"
    BY <1>11 DEF Join, Inv, Staged
  <2> QED
    BY <1>1, <1>11, <2>1 DEF Join, Inv, Typed, IOStates, Placed, Staged, Inside, Holders
<1> QED
  BY <1>4, <1>5, <1>6, <1>7, <1>8, <1>9, <1>10, <1>11 DEF Destructor

LEMMA InvStep == Inv /\ [Next]_vars => Inv'
<1> SUFFICES ASSUME Inv, [Next]_vars PROVE Inv'
  OBVIOUS
<1>1. CASE \E u \in Users : Send(u)
  BY <1>1, SendStep
<1>2. CASE IOThread
  BY <1>2, AnswerStep, OtherStep DEF IOThread
<1>3. CASE Destructor
  BY <1>3, OtherStep
<1>4. CASE UNCHANGED vars
  <2>1. Holders' = Holders
    BY <1>4 DEF vars, transportVars, Holders
  <2>2. Typed' /\ Growing'
    BY <1>4 DEF vars, poolVars, transportVars, Inv, Typed, Growing
  <2>3. Placed' /\ Staged'
    BY <1>4 DEF vars, transportVars, Inv, Placed, Staged, Inside
  <2> QED
    BY <1>4, <2>1, <2>2, <2>3, HandlesStay DEF vars, poolVars, Inv
<1> QED
  BY <1>1, <1>2, <1>3, <1>4 DEF Next

LEMMA InvAlways == Spec => []Inv
BY InvInit, InvStep, PTL DEF Spec

-----------------------------------------------------------------------------
(* What follows.                                                           *)

\* Every variable keeps its type; in particular no more handles are ever free,
\* or made, than the pool may have.
THEOREM TypeCorrect == Spec => []TypeOK
<1>1. Inv => TypeOK
  <2> SUFFICES ASSUME Inv PROVE TypeOK
    OBVIOUS
  <2>1. Cardinality(Holders) \in Nat
    BY HoldersFinite, FS_CardinalityType DEF Inv
  <2>2. free <= MaxPoolSize
    BY <2>1, ContainerAssumption DEF Inv, HandlesConserved, Growing, Typed
  <2> QED
    BY <2>2, ContainerAssumption DEF Inv, Typed, Growing, TypeOK, PoolTypeOK
<1> QED
  BY <1>1, InvAlways, PTL

\* The free handles and those that requests hold are the pool, at every moment
\* of a growth, of an answer and of the shutdown.
THEOREM HandlesAreConserved == Spec => []HandlesConserved
<1>1. Inv => HandlesConserved
  BY DEF Inv
<1> QED
  BY <1>1, InvAlways, PTL

\* A request whose callback has run is nowhere in the transport any more, and
\* no request is in two places: no callback can run twice.
THEOREM AnswersAreFinal == Spec => []AnsweredIsGone
<1>1. Inv => AnsweredIsGone
  BY DEF Inv, Placed, Typed, Holders, AnsweredIsGone
<1> QED
  BY <1>1, InvAlways, PTL

\* When the destructor has joined the I/O thread, every request that had
\* been sent has been answered, but for those queued too late.
THEOREM ShutdownAnswers == Spec => []OnlyLateOnesAreDropped
<1>1. Inv => OnlyLateOnesAreDropped
  BY DEF Inv, Placed, Staged, Typed, OnlyLateOnesAreDropped
<1> QED
  BY <1>1, InvAlways, PTL
=============================================================================
