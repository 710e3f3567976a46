---------------------------- MODULE MCIngestBatch ----------------------------
(* Values for the constants of IngestBatch. *)
EXTENDS IngestBatch

CONSTANTS p1, p2, f1, c1, c2

(* All ingestors are run for one file. *)
SameFile == [p \in Ingestors |-> f1]

OneSuffix == [f \in Files |-> "csv"]

(* Somebody put the bytes c1 where c2 belongs. *)
Misplaced == {[key |-> c2, suffix |-> "csv", content |-> c1, landed |-> 0, synced |-> TRUE]}

(* The clock of the landing zone is right, or one tick behind. *)
SlowClock == {-1, 0}
=============================================================================
