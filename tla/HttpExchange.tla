---------------------------- MODULE HttpExchange ----------------------------
(***************************************************************************)
(* What the engine relies on in an asynchronous transport: a request that  *)
(* is handed over is answered once, with a success only after both bodies  *)
(* have gone over whole, and the transport is gone only when nobody is     *)
(* inside a callback of it any more.                                       *)
(***************************************************************************)
CONSTANT Requests

VARIABLES
    stage,       (* stage[r]: "idle", "open", "calling" or "returned"      *)
    answer,      (* answer[r]: what the callback of r was given            *)
    whole,       (* whole[r]: have both bodies of r gone over?             *)
    transport    (* "alive", "closing" or "gone"                           *)

vars == <<stage, answer, whole, transport>>

Init ==
    /\ stage = [r \in Requests |-> "idle"]
    /\ answer = [r \in Requests |-> "none"]
    /\ whole \in [Requests -> BOOLEAN]
    /\ transport = "alive"

\* A callback may hand over a further request while the transport is closing.
CanCall == transport = "alive" \/ \E q \in Requests : stage[q] = "calling"

Open(r) ==
    /\ stage[r] = "idle"
    /\ CanCall
    /\ stage' = [stage EXCEPT ![r] = "open"]
    /\ UNCHANGED <<answer, whole, transport>>

Transferred(r) ==
    /\ stage[r] = "open"
    /\ whole' = [whole EXCEPT ![r] = TRUE]
    /\ UNCHANGED <<stage, answer, transport>>

\* A success only after both bodies.
Answer(r) ==
    /\ stage[r] = "open"
    /\ stage' = [stage EXCEPT ![r] = "calling"]
    /\ \/ answer' = [answer EXCEPT ![r] = "failed"]
       \/ whole[r] /\ answer' = [answer EXCEPT ![r] = "ok"]
    /\ UNCHANGED <<whole, transport>>

\* A request that never gets on its way is answered by the thread that hands
\* it over.
Refuse(r) ==
    /\ stage[r] = "idle"
    /\ CanCall
    /\ \E s \in {"calling", "returned"} : stage' = [stage EXCEPT ![r] = s]
    /\ answer' = [answer EXCEPT ![r] = "failed"]
    /\ UNCHANGED <<whole, transport>>

Return(r) ==
    /\ stage[r] = "calling"
    /\ stage' = [stage EXCEPT ![r] = "returned"]
    /\ UNCHANGED <<answer, whole, transport>>

Close ==
    /\ transport = "alive"
    /\ transport' = "closing"
    /\ UNCHANGED <<stage, answer, whole>>

Gone ==
    /\ transport = "closing"
    /\ \A r \in Requests : stage[r] \in {"idle", "returned"}
    /\ transport' = "gone"
    /\ UNCHANGED <<stage, answer, whole>>

Next ==
    \/ \E r \in Requests : Open(r) \/ Refuse(r) \/ Transferred(r) \/ Answer(r) \/ Return(r)
    \/ Close
    \/ Gone

Spec == Init /\ [][Next]_vars
=============================================================================
