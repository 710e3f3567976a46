---------------------------- MODULE BatchRegistry ----------------------------
(***************************************************************************)
(* The tables batch_manifests and outbox_events as PostgresBatchRegistry   *)
(* writes them: register_if_absent is one transaction that inserts a       *)
(* manifest and its event, or finds that the manifest exists.              *)
(***************************************************************************)
EXTENDS Integers

CONSTANTS
    Keys,       \* idempotency keys
    Places,     \* landing URIs
    Batches,    \* batch ids
    Clients     \* the processes that register

VARIABLES
    manifests,  \* the committed manifests
    events,     \* the batch ids of the committed events
    inserting   \* the manifest of each client's open transaction, as a set

registryVars == <<manifests, events, inserting>>

Manifests == [key : Keys, place : Places, batch : Batches,
              extracted : Nat, landed : Int]

InitRegistry ==
    /\ manifests = {}
    /\ events = {}
    /\ inserting = [c \in Clients |-> {}]

Registered(key) == \E m \in manifests : m.key = key

(* The unique constraints of the table and its primary key. *)
Conflict(m, n) == m.key = n.key \/ m.place = n.place \/ m.batch = n.batch

(* Mutant: the constraint on the idempotency key is missing. *)
InsertDuplicate(c, m) ==
    /\ inserting' = [inserting EXCEPT ![c] = {m}]
    /\ UNCHANGED <<manifests, events>>

(* INSERT ... ON CONFLICT DO NOTHING: waits for the open transactions it   *)
(* conflicts with and returns the row if no committed one conflicts.       *)
Insert(c, m) ==
    /\ \A d \in Clients \ {c} : \A n \in inserting[d] : ~Conflict(m, n)
    /\ \A n \in manifests : ~Conflict(m, n)
    /\ inserting' = [inserting EXCEPT ![c] = {m}]
    /\ UNCHANGED <<manifests, events>>

(* Mutant: manifest and event are not inserted in one transaction. *)
CommitManifestOnly(c) ==
    /\ manifests' = manifests \cup inserting[c]
    /\ inserting' = [inserting EXCEPT ![c] = {}]
    /\ UNCHANGED events

(* The transaction commits the manifest together with its event. *)
Commit(c) ==
    /\ manifests' = manifests \cup inserting[c]
    /\ events' = events \cup {m.batch : m \in inserting[c]}
    /\ inserting' = [inserting EXCEPT ![c] = {}]

(* Mutant: a failed call leaves the transaction open. *)
LeaveOpen(c) == UNCHANGED registryVars

(* The transaction of a failed call ends without effect. *)
Rollback(c) ==
    /\ inserting' = [inserting EXCEPT ![c] = {}]
    /\ UNCHANGED <<manifests, events>>
=============================================================================
