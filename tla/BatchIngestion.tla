--------------------------- MODULE BatchIngestion ---------------------------
(***************************************************************************)
(* What ingestion promises to the rest of the platform: an artifact is     *)
(* accepted at most once, together with its event, and only when it is in  *)
(* the landing zone, where it stays.                                       *)
(*                                                                         *)
(* IngestBatch implements this module.                                     *)
(***************************************************************************)
CONSTANT Artifacts

VARIABLES
    stored,     \* the artifacts in the landing zone
    registered, \* the artifacts with a manifest
    announced   \* the artifacts with an outbox event

vars == <<stored, registered, announced>>

Init ==
    /\ stored \in SUBSET Artifacts
    /\ registered = {}
    /\ announced = {}

(* An artifact may be stored without ever being accepted: its ingestion    *)
(* failed before the registration.                                         *)
Store(a) ==
    /\ stored' = stored \cup {a}
    /\ UNCHANGED <<registered, announced>>

Accept(a) ==
    /\ a \in stored \ registered
    /\ registered' = registered \cup {a}
    /\ announced' = announced \cup {a}
    /\ UNCHANGED stored

Next == \E a \in Artifacts : Store(a) \/ Accept(a)

Spec == Init /\ [][Next]_vars
=============================================================================
