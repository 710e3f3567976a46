--------------------------- MODULE OutboxDelivery ---------------------------
(***************************************************************************)
(* What the transactional outbox promises to the rest of the platform,     *)
(* without leases, workers, clocks or retries.                             *)
(*                                                                         *)
(* An event that was registered is transmitted at least once before it is  *)
(* reported published, never more than MaxCopies times in all, and its     *)
(* status, once terminal, never changes.  A copy may still reach the       *)
(* broker after the status became terminal: a transmission the publisher   *)
(* gave up on can be stored late.  Every registered event is settled.      *)
(*                                                                         *)
(* OutboxPublisher implements this module: its row status and its broker   *)
(* log are the two variables here.                                         *)
(***************************************************************************)
EXTENDS Naturals

CONSTANTS
    Events,     \* the events ingestion may register
    MaxCopies   \* the transmissions one event is allowed

VARIABLES
    status,     \* status[e]: absent, pending, published or dead
    copies      \* copies[e]: the transmissions of e that the broker stored

vars == <<status, copies>>

Init ==
    /\ status = [e \in Events |-> "absent"]
    /\ copies = [e \in Events |-> {}]

(* The batch and its event are committed together. *)
Register(e) ==
    /\ status[e] = "absent"
    /\ status' = [status EXCEPT ![e] = "pending"]
    /\ UNCHANGED copies

(* The broker stores one more transmission of e, whatever its status. *)
Deliver(e) ==
    /\ status[e] # "absent"
    /\ \E n \in (1 .. MaxCopies) \ copies[e] :
          copies' = [copies EXCEPT ![e] = @ \cup {n}]
    /\ UNCHANGED status

Publish(e) ==
    /\ status[e] = "pending"
    /\ copies[e] # {}
    /\ status' = [status EXCEPT ![e] = "published"]
    /\ UNCHANGED copies

DeadLetter(e) ==
    /\ status[e] = "pending"
    /\ status' = [status EXCEPT ![e] = "dead"]
    /\ UNCHANGED copies

Settle(e) == Publish(e) \/ DeadLetter(e)

Next == \E e \in Events : Register(e) \/ Deliver(e) \/ Settle(e)

Safe == Init /\ [][Next]_vars

(* Every registered event is settled. *)
Spec == Safe /\ \A e \in Events : WF_vars(Settle(e))
=============================================================================
