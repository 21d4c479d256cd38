------------------------------ MODULE Operation ------------------------------
(***************************************************************************)
(* What an OSS operation promises its caller, whatever client runs it: it  *)
(* makes a bounded number of attempts, one after the other, and ends once, *)
(* with at most one server answer to report.                               *)
(*                                                                         *)
(* StaleAnswers tells whether an answer may outlive its attempt: FALSE is  *)
(* what the synchronous retry loop implements, TRUE the asynchronous one.  *)
(***************************************************************************)
EXTENDS Integers

CONSTANTS Ops,            (* the operations                                *)
          Bound,          (* the largest number of attempts of each        *)
          StaleAnswers    (* may an answer be kept into the next attempt?  *)

VARIABLES phase,          (* phase[o]: "idle", "running" or "done"         *)
          repeats,        (* repeats[o]: attempts begun after the first    *)
          answer          (* answer[o]: the number of the attempt whose    *)
                          (* answer is held, 0 when there is none          *)

vars == <<phase, repeats, answer>>

Init ==
    /\ phase   = [o \in Ops |-> "idle"]
    /\ repeats = [o \in Ops |-> 0]
    /\ answer  = [o \in Ops |-> 0]

Begin(o) ==
    /\ phase[o] = "idle"
    /\ phase' = [phase EXCEPT ![o] = "running"]
    /\ UNCHANGED <<repeats, answer>>

\* The server answers the attempt in progress.
Answer(o) ==
    /\ phase[o] = "running"
    /\ answer' = [answer EXCEPT ![o] = repeats[o] + 1]
    /\ UNCHANGED <<phase, repeats>>

\* The next attempt; the answer of the one before is discarded, unless stale
\* answers are allowed.
Repeat(o) ==
    /\ phase[o] = "running"
    /\ repeats[o] + 1 < Bound
    /\ repeats' = [repeats EXCEPT ![o] = @ + 1]
    /\ \/ answer' = [answer EXCEPT ![o] = 0]
       \/ StaleAnswers /\ UNCHANGED answer
    /\ UNCHANGED phase

\* The operation ends: refused outright, or with what its last attempt left.
Finish(o) ==
    /\ phase[o] # "done"
    /\ phase' = [phase EXCEPT ![o] = "done"]
    /\ UNCHANGED <<repeats, answer>>

Next == \E o \in Ops : Begin(o) \/ Answer(o) \/ Repeat(o) \/ Finish(o)

Spec == Init /\ [][Next]_vars

\* Once begun, an operation keeps going until it is done.
Progress(o) == phase[o] = "running" /\ (Answer(o) \/ Repeat(o) \/ Finish(o))

FairSpec == Spec /\ \A o \in Ops : WF_vars(Progress(o))
=============================================================================
