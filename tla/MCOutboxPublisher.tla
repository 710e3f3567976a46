------------------------- MODULE MCOutboxPublisher -------------------------
(* Values for the constants of OutboxPublisher. *)
EXTENDS OutboxPublisher, TLC

CONSTANTS w1, w2

(* All clocks agree, or the second worker's runs one tick ahead. *)
SameClocks == [w \in Workers |-> 0]
FastClock  == [w \in Workers |-> IF w = w2 THEN 1 ELSE 0]

(* Workers with the same clock can be exchanged. *)
WorkerSymmetry == Permutations(Workers)
=============================================================================
