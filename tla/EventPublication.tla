---------------------------- MODULE EventPublication ----------------------------
(***************************************************************************)
(* What the port EventPublisher promises of the calls of publish(), made   *)
(* one after the other: every call is answered, once; its answer is a      *)
(* receipt only if the broker has stored the message of this very call.    *)
(* A message may be stored whatever the answer is, also after it.          *)
(***************************************************************************)
EXTENDS Naturals

CONSTANT MaxCalls  \* bound: calls of publish()

VARIABLES
    asked,   \* the number of calls so far
    stored,  \* the calls whose message the broker has
    answer   \* answer[k]: none, receipt, retryable or final

vars == <<asked, stored, answer>>

Init ==
    /\ asked = 0
    /\ stored = {}
    /\ answer = [k \in 1..MaxCalls |-> "none"]

Idle == asked = 0 \/ answer[asked] # "none"

Ask ==
    /\ Idle /\ asked < MaxCalls
    /\ asked' = asked + 1
    /\ UNCHANGED <<stored, answer>>

(* A call may fail without producing anything. *)
Refuse ==
    /\ Idle /\ asked < MaxCalls
    /\ asked' = asked + 1
    /\ \E v \in {"retryable", "final"} : answer' = [answer EXCEPT ![asked'] = v]
    /\ UNCHANGED stored

Store(k) ==
    /\ k <= asked
    /\ stored' = stored \cup {k}
    /\ UNCHANGED <<asked, answer>>

Answer(v) ==
    /\ ~Idle
    /\ v = "receipt" => asked \in stored
    /\ answer' = [answer EXCEPT ![asked] = v]
    /\ UNCHANGED <<asked, stored>>

Next ==
    \/ Ask \/ Refuse
    \/ \E k \in 1..MaxCalls : Store(k)
    \/ \E v \in {"receipt", "retryable", "final"} : Answer(v)

Spec == Init /\ [][Next]_vars
================================================================================
