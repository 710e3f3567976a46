--------------------------- MODULE OutboxPublisher ---------------------------
(***************************************************************************)
(* Publisher workers draining the PostgreSQL outbox into Kafka.            *)
(*                                                                         *)
(* Each worker repeats the cycle of OutboxPublisherService.run_once: claim *)
(* a bounded batch of rows under one lease, then take the rows one by one, *)
(* publish each and commit its outcome under the lease.  The rows are the  *)
(* table ingestion.outbox_events; claims lock their candidates with FOR    *)
(* UPDATE SKIP LOCKED, outcomes are fenced by the lease id.  An exception  *)
(* ends the process, which a supervisor starts again.                      *)
(*                                                                         *)
(* Time is a global clock; worker w reads it Skew[w] ticks ahead.          *)
(***************************************************************************)
EXTENDS Integers, Sequences, RetryBackoff

CONSTANTS
    Events,         \* event ids, as naturals: their order breaks ties
    Workers,        \* publisher processes
    BatchSize,      \* policy.batch_size
    LeaseDuration,  \* policy.lease_duration
    MaxAttempts,    \* policy.max_attempts
    RetryBase,      \* policy.retry_base_delay
    RetryMax,       \* policy.retry_max_delay
    Skew,           \* how far each worker's clock is ahead
    MaxTime,        \* bound: the last tick of the clock
    MaxFaults       \* bound: aborts, and leases outlived by a live worker

ASSUME EventsAssumption == Events \subseteq Nat
ASSUME PolicyAssumption ==
    /\ BatchSize \in Nat \ {0}
    /\ LeaseDuration \in Nat \ {0}
    /\ MaxAttempts \in Nat \ {0}
    /\ RetryBase \in Nat \ {0}
    /\ RetryMax \in Nat
    /\ RetryBase <= RetryMax
ASSUME EnvironmentAssumption ==
    /\ Skew \in [Workers -> Nat]
    /\ MaxTime \in Nat
    /\ MaxFaults \in Nat

VARIABLES
    now,        \* the global clock
    \* the outbox rows
    status,     \* absent, pending, published or dead
    owner,      \* lease_owner, NoLease for NULL
    expires,    \* lease_expires_at, 0 when there is no lease
    available,  \* available_at
    created,    \* created_at
    attempts,   \* attempt_count
    lastError,  \* last_error, "none" for NULL
    nextLease,  \* the lease identifier the next claim generates
    \* the worker processes
    pc,         \* where the worker stands
    lease,      \* the lease of its current cycle
    claimedAt,  \* its clock when it claimed
    batch,      \* the claimed events it has not settled yet
    \* Kafka
    sendLog,    \* sendLog[e]: the attempts that handed e to the producer
    stored,     \* stored[e]: the attempts whose message the broker stored
    faults      \* aborts and outlived leases so far

rowVars    == <<status, owner, expires, available, created, attempts, lastError>>
workerVars == <<pc, lease, claimedAt, batch>>
kafkaVars  == <<sendLog, stored>>
vars == <<now, rowVars, nextLease, workerVars, kafkaVars, faults>>

NoLease == 0

Statuses == {"absent", "pending", "published", "dead"}

Terminal == {"published", "dead"}

ErrorCodes == {"publisher_retryable", "publisher_non_retryable",
               "attempt_limit_reached", "attempt_limit_exceeded"}

(* The points of a cycle where another process can get in between:         *)
(*   claiming    the claim's transaction has locked its rows               *)
(*   ready       about to process the next event of the batch              *)
(*   publishing  waiting in publish() for the delivery report              *)
(*   acked       holding a receipt that is not committed yet               *)
(*   retryable   publish() failed, retryable                               *)
(*   final       publish() failed, not retryable                           *)
PCs == {"idle", "claiming", "ready", "publishing", "acked", "retryable",
        "final", "stopped"}

(* A LeasedOutboxEvent: the attempt count is the copy the claim returned. *)
Items == [event : Events, attempt : Nat \ {0}]

-----------------------------------------------------------------------------
(* Helpers *)

Clock(w) == now + Skew[w]

(* The event _process_event is working on. *)
Current(w) == Head(batch[w])

(* The events a worker claimed and has not settled. *)
Held(w) == {batch[w][i].event : i \in DOMAIN batch[w]}

(* Mutant: claims select their rows without FOR UPDATE. *)
NeverClaimLocked(w) == {}

(* The rows locked by the other workers' claim transactions. *)
ClaimLocked(w) == UNION {Held(v) : v \in {u \in Workers \ {w} : pc[u] = "claiming"}}

(* Mutant: the limit is checked one attempt too late. *)
WithinLimitAndOne(w) == Current(w).attempt <= MaxAttempts + 1

WithinLimit(w) == Current(w).attempt <= MaxAttempts

(* About to commit the outcome of the current event. *)
Settling(w) ==
    \/ pc[w] \in {"acked", "retryable", "final"}
    \/ pc[w] = "ready" /\ ~WithinLimit(w)

(* The rows whose outcome another worker may be writing at this moment,    *)
(* in a transaction that has not committed.                                *)
BeingSettled(w) == {Current(v).event : v \in {u \in Workers \ {w} : Settling(u)}}

(* Mutant: the claim does not look at the lease. *)
ClaimableUnderLease(e, t) == status[e] = "pending" /\ available[e] <= t

(* Mutant: the claim does not look at the expiry of a lease. *)
ClaimableWhenReleased(e, t) ==
    status[e] = "pending" /\ available[e] <= t /\ owner[e] = NoLease

(* Mutant: the claim does not look at the terminal timestamps. *)
ClaimableWhenTerminal(e, t) ==
    /\ status[e] # "absent"
    /\ available[e] <= t
    /\ owner[e] = NoLease \/ expires[e] <= t

(* Mutant: the claim leaves out the rows that used up their attempts. *)
ClaimableBelowLimit(e, t) ==
    /\ status[e] = "pending" /\ attempts[e] < MaxAttempts
    /\ available[e] <= t
    /\ owner[e] = NoLease \/ expires[e] <= t

(* The WHERE clause of _CLAIM_PENDING for a claim made at time t. *)
Claimable(e, t) ==
    /\ status[e] = "pending"
    /\ available[e] <= t
    /\ owner[e] = NoLease \/ expires[e] <= t

(* ORDER BY available_at, created_at, event_id. *)
Precedes(e, f) ==
    \/ available[e] < available[f]
    \/ available[e] = available[f] /\ created[e] < created[f]
    \/ available[e] = available[f] /\ created[e] = created[f] /\ e < f

(* The first BatchSize of the candidates, in order. *)
FirstRows(candidates) ==
    {s \in UNION {[1 .. n -> candidates] : n \in 1 .. BatchSize} :
        /\ \A i, j \in DOMAIN s : i < j => Precedes(s[i], s[j])
        /\ \A e \in candidates :
              \/ \E i \in DOMAIN s : s[i] = e
              \/ /\ DOMAIN s = 1 .. BatchSize
                 /\ \A i \in DOMAIN s : Precedes(s[i], e)}

(* The rows worker w can claim now, with those in `busy` locked. *)
Candidates(w, busy) ==
    {e \in Events : Claimable(e, Clock(w))} \ (ClaimLocked(w) \cup busy)

(* Mutant: an outcome statement without its lease_owner condition. *)
OwnsAnyLease(w, e) == status[e] = "pending"

(* WHERE event_id = ... AND lease_owner = ... AND not terminal, the fence  *)
(* of the three outcome statements.  The expiry is not looked at.          *)
Owns(w, e) == owner[e] = lease[w] /\ status[e] = "pending"

-----------------------------------------------------------------------------

Init ==
    /\ now = 0
    /\ status    = [e \in Events |-> "absent"]
    /\ owner     = [e \in Events |-> NoLease]
    /\ expires   = [e \in Events |-> 0]
    /\ available = [e \in Events |-> 0]
    /\ created   = [e \in Events |-> 0]
    /\ attempts  = [e \in Events |-> 0]
    /\ lastError = [e \in Events |-> "none"]
    /\ nextLease = 1
    /\ pc        = [w \in Workers |-> "idle"]
    /\ lease     = [w \in Workers |-> NoLease]
    /\ claimedAt = [w \in Workers |-> 0]
    /\ batch     = [w \in Workers |-> <<>>]
    /\ sendLog   = [e \in Events |-> <<>>]
    /\ stored    = [e \in Events |-> {}]
    /\ faults = 0

(* Batch registration inserts the row; both timestamps default to the time *)
(* of the transaction.                                                     *)
Register(e) ==
    /\ status[e] = "absent"
    /\ status'    = [status EXCEPT ![e] = "pending"]
    /\ available' = [available EXCEPT ![e] = now]
    /\ created'   = [created EXCEPT ![e] = now]
    /\ UNCHANGED <<now, owner, expires, attempts, lastError, nextLease,
                   workerVars, kafkaVars, faults>>

-----------------------------------------------------------------------------
(* Claiming a batch *)

(* Mutant: the claim returns the attempt counts from before its update. *)
LeasedEventsBeforeUpdate(rows) ==
    [i \in DOMAIN rows |-> [event |-> rows[i], attempt |-> attempts[rows[i]]]]

(* What the claim returns for its rows. *)
LeasedEvents(rows) ==
    [i \in DOMAIN rows |-> [event |-> rows[i], attempt |-> attempts[rows[i]] + 1]]

(* The claim's statement runs: the rows it selects stay locked until its   *)
(* transaction ends.  Rows other transactions have locked are skipped.     *)
LockCandidates(w) ==
    /\ pc[w] = "idle"
    /\ \E busy \in SUBSET BeingSettled(w) :
          \E rows \in FirstRows(Candidates(w, busy)) :
              batch' = [batch EXCEPT ![w] = LeasedEvents(rows)]
    /\ pc'        = [pc EXCEPT ![w] = "claiming"]
    /\ lease'     = [lease EXCEPT ![w] = nextLease]
    /\ claimedAt' = [claimedAt EXCEPT ![w] = Clock(w)]
    /\ nextLease' = nextLease + 1
    /\ UNCHANGED <<now, rowVars, kafkaVars, faults>>

(* The UPDATE of the claim: every row of the batch is given the lease and  *)
(* one more attempt.                                                       *)
GrantLease(w) ==
    /\ owner'    = [e \in Events |-> IF e \in Held(w) THEN lease[w] ELSE owner[e]]
    /\ expires'  = [e \in Events |-> IF e \in Held(w)
                                     THEN claimedAt[w] + LeaseDuration
                                     ELSE expires[e]]
    /\ attempts' = [e \in Events |-> IF e \in Held(w)
                                     THEN attempts[e] + 1
                                     ELSE attempts[e]]

CommitClaim(w) ==
    /\ pc[w] = "claiming"
    /\ GrantLease(w)
    /\ pc' = [pc EXCEPT ![w] = "ready"]
    /\ UNCHANGED <<now, status, available, created, lastError, nextLease,
                   lease, claimedAt, batch, kafkaVars, faults>>

(* A cycle that finds nothing to claim reports zero and changes nothing. *)
EmptyCycle(w) ==
    /\ pc[w] = "idle"
    /\ \E busy \in SUBSET BeingSettled(w) : Candidates(w, busy) = {}
    /\ UNCHANGED vars

-----------------------------------------------------------------------------
(* Publishing *)

(* producer.produce() accepts the message. *)
Produce(w) ==
    /\ pc[w] = "ready"
    /\ WithinLimit(w)
    /\ sendLog' = [sendLog EXCEPT ![Current(w).event] =
                      Append(@, Current(w).attempt)]
    /\ pc' = [pc EXCEPT ![w] = "publishing"]
    /\ UNCHANGED <<now, rowVars, nextLease, lease, claimedAt, batch, stored, faults>>

(* The message is refused before the producer queues it: an event the      *)
(* publisher's own checks reject, a full queue, an error of produce().     *)
RefuseMessage(w) ==
    /\ pc[w] = "ready"
    /\ WithinLimit(w)
    /\ \E failure \in {"retryable", "final"} : pc' = [pc EXCEPT ![w] = failure]
    /\ UNCHANGED <<now, rowVars, nextLease, lease, claimedAt, batch, kafkaVars, faults>>

(* The broker stores a message the producer was given, possibly after the  *)
(* worker that sent it stopped waiting or exited.                          *)
BrokerStores(e) ==
    /\ \E i \in DOMAIN sendLog[e] :
          /\ sendLog[e][i] \notin stored[e]
          /\ stored' = [stored EXCEPT ![e] = @ \cup {sendLog[e][i]}]
    /\ UNCHANGED <<now, rowVars, nextLease, workerVars, sendLog, faults>>

(* Mutant: a queued message counts as delivered. *)
AcknowledgeQueued(w) ==
    /\ pc[w] = "publishing"
    /\ pc' = [pc EXCEPT ![w] = "acked"]
    /\ UNCHANGED <<now, rowVars, nextLease, lease, claimedAt, batch, kafkaVars, faults>>

(* The delivery report confirms the current message: its receipt is valid. *)
Acknowledge(w) ==
    /\ pc[w] = "publishing"
    /\ Current(w).attempt \in stored[Current(w).event]
    /\ pc' = [pc EXCEPT ![w] = "acked"]
    /\ UNCHANGED <<now, rowVars, nextLease, lease, claimedAt, batch, kafkaVars, faults>>

(* publish() raises: a delivery error, no report before the local deadline *)
(* (the message stays queued), or coordinates it rejects.  The broker may  *)
(* have stored the message, and may still.                                 *)
DeliveryFails(w) ==
    /\ pc[w] = "publishing"
    /\ \E failure \in {"retryable", "final"} : pc' = [pc EXCEPT ![w] = failure]
    /\ UNCHANGED <<now, rowVars, nextLease, lease, claimedAt, batch, kafkaVars, faults>>

-----------------------------------------------------------------------------
(* Committing the outcome *)

(* An outcome can be committed once no claim holds the row's lock and only *)
(* under the lease the row carries.                                        *)
CanCommit(w, e) == e \notin ClaimLocked(w) /\ Owns(w, e)

(* On to the next event of the batch; after the last one the cycle ends.   *)
Advance(w) ==
    LET done == Len(batch[w]) = 1
    IN  /\ batch'     = [batch EXCEPT ![w] = Tail(@)]
        /\ pc'        = [pc EXCEPT ![w] = IF done THEN "idle" ELSE "ready"]
        /\ lease'     = [lease EXCEPT ![w] = IF done THEN NoLease ELSE @]
        /\ claimedAt' = [claimedAt EXCEPT ![w] = IF done THEN 0 ELSE @]

(* Mutant: an outcome statement that does not clear lease_owner. *)
KeepOwner(e) ==
    /\ expires' = [expires EXCEPT ![e] = 0]
    /\ UNCHANGED owner

ReleaseRow(e) ==
    /\ owner'   = [owner EXCEPT ![e] = NoLease]
    /\ expires' = [expires EXCEPT ![e] = 0]

MarkPublished(w) ==
    LET e == Current(w).event
    IN  /\ pc[w] = "acked"
        /\ CanCommit(w, e)
        /\ status'    = [status EXCEPT ![e] = "published"]
        /\ lastError' = [lastError EXCEPT ![e] = "none"]
        /\ ReleaseRow(e)
        /\ Advance(w)
        /\ UNCHANGED <<now, available, created, attempts, nextLease, kafkaVars, faults>>

Reschedule(w) ==
    LET e == Current(w).event
    IN  /\ pc[w] = "retryable"
        /\ Current(w).attempt < MaxAttempts
        /\ CanCommit(w, e)
        /\ \E delay \in RetryWindow(RetryBase, RetryMax, Current(w).attempt) :
              available' = [available EXCEPT ![e] = Clock(w) + delay]
        /\ lastError' = [lastError EXCEPT ![e] = "publisher_retryable"]
        /\ ReleaseRow(e)
        /\ Advance(w)
        /\ UNCHANGED <<now, status, created, attempts, nextLease, kafkaVars, faults>>

(* Why the current event is to be dead-lettered, if it is. *)
Condemned(w, code) ==
    \/ /\ code = "attempt_limit_exceeded"
       /\ pc[w] = "ready" /\ ~WithinLimit(w)
    \/ /\ code = "publisher_non_retryable"
       /\ pc[w] = "final"
    \/ /\ code = "attempt_limit_reached"
       /\ pc[w] = "retryable" /\ Current(w).attempt >= MaxAttempts

MarkDeadLettered(w) ==
    LET e == Current(w).event
    IN  /\ \E code \in ErrorCodes :
              /\ Condemned(w, code)
              /\ lastError' = [lastError EXCEPT ![e] = code]
        /\ CanCommit(w, e)
        /\ status' = [status EXCEPT ![e] = "dead"]
        /\ ReleaseRow(e)
        /\ Advance(w)
        /\ UNCHANGED <<now, available, created, attempts, nextLease, kafkaVars, faults>>

-----------------------------------------------------------------------------
(* Leaving the cycle *)

(* The process ends; what it had claimed stays leased in the table. *)
Exit(w) ==
    /\ pc'        = [pc EXCEPT ![w] = "stopped"]
    /\ batch'     = [batch EXCEPT ![w] = <<>>]
    /\ lease'     = [lease EXCEPT ![w] = NoLease]
    /\ claimedAt' = [claimedAt EXCEPT ![w] = 0]

(* The outcome statement matches no row: OutboxLeaseLostError, with which  *)
(* the rest of the batch is abandoned.                                     *)
LoseLease(w) ==
    /\ Settling(w)
    /\ Current(w).event \notin ClaimLocked(w)
    /\ ~Owns(w, Current(w).event)
    /\ Exit(w)
    /\ UNCHANGED <<now, rowVars, nextLease, kafkaVars, faults>>

(* A crash, a termination signal, or a failed database call: a transaction *)
(* that did not commit is rolled back, one whose commit was not confirmed  *)
(* is the commit followed by this step.                                    *)
Abort(w) ==
    /\ pc[w] # "stopped"
    /\ faults < MaxFaults
    /\ faults' = faults + 1
    /\ Exit(w)
    /\ UNCHANGED <<now, rowVars, nextLease, kafkaVars>>

Restart(w) ==
    /\ pc[w] = "stopped"
    /\ pc' = [pc EXCEPT ![w] = "idle"]
    /\ UNCHANGED <<now, rowVars, nextLease, lease, claimedAt, batch, kafkaVars, faults>>

-----------------------------------------------------------------------------
(* Time *)

(* Some row cannot be claimed before a later time. *)
RowWaits ==
    \E e \in Events : /\ status[e] = "pending"
                      /\ available[e] > now \/ expires[e] > now

(* The next tick ends the lease of a cycle that is still running. *)
LeaseRunsOut ==
    \E w \in Workers : lease[w] # NoLease /\ claimedAt[w] + LeaseDuration = now + 1

(* Time matters only to rows that wait for it.  A worker that outlives its *)
(* own lease counts as a fault.                                            *)
Tick ==
    /\ now < MaxTime
    /\ RowWaits
    /\ IF LeaseRunsOut
       THEN faults < MaxFaults /\ faults' = faults + 1
       ELSE UNCHANGED faults
    /\ now' = now + 1
    /\ UNCHANGED <<rowVars, nextLease, workerVars, kafkaVars>>

-----------------------------------------------------------------------------

(* What a running worker does without any fault. *)
Work(w) ==
    \/ LockCandidates(w) \/ CommitClaim(w)
    \/ Produce(w) \/ RefuseMessage(w) \/ Acknowledge(w) \/ DeliveryFails(w)
    \/ MarkPublished(w) \/ Reschedule(w) \/ MarkDeadLettered(w)
    \/ LoseLease(w)

Next ==
    \/ \E e \in Events : Register(e) \/ BrokerStores(e)
    \/ \E w \in Workers : Work(w) \/ EmptyCycle(w) \/ Abort(w) \/ Restart(w)
    \/ Tick

Spec == Init /\ [][Next]_vars

(* A running worker takes its steps, a stopped one is started again, time  *)
(* passes.  Nothing is assumed of the broker.                              *)
Fairness ==
    /\ \A w \in Workers : WF_vars(Work(w)) /\ WF_vars(Restart(w))
    /\ WF_vars(Tick)

FairSpec == Spec /\ Fairness

-----------------------------------------------------------------------------
(* Properties *)

TypeOK ==
    /\ now \in Nat
    /\ status    \in [Events -> Statuses]
    /\ owner     \in [Events -> Nat]
    /\ expires   \in [Events -> Nat]
    /\ available \in [Events -> Nat]
    /\ created   \in [Events -> Nat]
    /\ attempts  \in [Events -> Nat]
    /\ lastError \in [Events -> ErrorCodes \cup {"none"}]
    /\ nextLease \in Nat
    /\ pc        \in [Workers -> PCs]
    /\ lease     \in [Workers -> Nat]
    /\ claimedAt \in [Workers -> Nat]
    /\ batch     \in [Workers -> Seq(Items)]
    /\ sendLog   \in [Events -> Seq(Nat)]
    /\ stored    \in [Events -> SUBSET Nat]
    /\ faults \in Nat

(* mark_published is reached with a receipt only, and the fence lets only  *)
(* the latest claim commit: the message of a published row's last attempt  *)
(* is in the broker's log, however many stale workers hold older attempts. *)
PublishedAttemptIsStored ==
    \A e \in Events : status[e] = "published" => attempts[e] \in stored[e]

(* attempt_count bounds the load on Kafka whatever crashes and lost leases *)
(* there are: the messages produced for an event carry different attempt   *)
(* numbers, all within max_attempts, so there are at most max_attempts.    *)
AttemptsSentOnce ==
    \A e \in Events :
        /\ \A i \in DOMAIN sendLog[e] : sendLog[e][i] \in 1 .. MaxAttempts
        /\ \A i, j \in DOMAIN sendLog[e] :
              i # j => sendLog[e][i] # sendLog[e][j]

(* A dead row's error code agrees with the attempt the row stands at: a    *)
(* worker with an older attempt cannot write its verdict over a newer one. *)
DeadLetterReason ==
    \A e \in Events : status[e] = "dead" =>
        \/ lastError[e] = "publisher_non_retryable" /\ attempts[e] <= MaxAttempts
        \/ lastError[e] = "attempt_limit_reached"   /\ attempts[e] = MaxAttempts
        \/ lastError[e] = "attempt_limit_exceeded"  /\ attempts[e] > MaxAttempts

(* The lease of w's cycle is over on the clock of some worker. *)
LeaseOver(w) == \E u \in Workers : claimedAt[w] + LeaseDuration <= Clock(u)

(* "Concurrent workers can operate without publishing the same active      *)
(* lease simultaneously": when two workers wait for the broker with the    *)
(* same event, at least one of their two leases is over.                   *)
SharedOnlyAfterExpiry ==
    \A w, v \in Workers :
        /\ w # v
        /\ pc[w] = "publishing"
        /\ pc[v] = "publishing"
        /\ Current(w).event = Current(v).event
        => LeaseOver(w) \/ LeaseOver(v)

(* A terminal row is never claimed, retried or relabelled, not even by a   *)
(* worker that still holds the event from an older claim.                  *)
TerminalRowsAreFinal ==
    [][\A e \in Events : status[e] \in Terminal =>
          UNCHANGED <<status[e], owner[e], available[e], attempts[e],
                      lastError[e]>>]_vars

Delivery == INSTANCE OutboxDelivery WITH
                copies <- stored, MaxCopies <- MaxAttempts

(* The workers and the table together keep the outbox's promise. *)
ImplementsDelivery == Delivery!Safe

(* With the fairness above they also settle every registered event.        *)
DeliversEventually == Delivery!Spec

-----------------------------------------------------------------------------
(* The inductive invariant *)

(* Lease identifiers are never reused, and a worker has one exactly while  *)
(* it is in a cycle with work left.                                        *)
LeasesAreUnique ==
    /\ nextLease > NoLease
    /\ \A w \in Workers : lease[w] < nextLease
    /\ \A e \in Events  : owner[e] < nextLease
    /\ \A w, v \in Workers :
          w # v /\ lease[w] = lease[v] => lease[w] = NoLease
    /\ \A w \in Workers :
          IF pc[w] \in {"idle", "stopped"}
          THEN batch[w] = <<>> /\ lease[w] = NoLease
          ELSE batch[w] # <<>> /\ lease[w] # NoLease

(* A row without work in progress: absent, terminal or released. *)
RowsAreConsistent ==
    \A e \in Events :
        /\ status[e] # "pending" => owner[e] = NoLease
        /\ status[e] = "absent" => attempts[e] = 0 /\ sendLog[e] = <<>>
        /\ owner[e] # NoLease => attempts[e] > 0

(* Everything the broker stored was sent, and everything sent was claimed. *)
LogIsConsistent ==
    \A e \in Events :
        /\ \A i \in DOMAIN sendLog[e] : sendLog[e][i] <= attempts[e]
        /\ stored[e] \subseteq {sendLog[e][i] : i \in DOMAIN sendLog[e]}

(* While a claim's transaction is open its rows are locked: they stay      *)
(* claimable, and the attempt number it read stays the row's next one.     *)
ClaimInProgress(w) ==
    \A i \in DOMAIN batch[w] :
        LET e == batch[w][i].event
        IN  /\ status[e] = "pending"
            /\ batch[w][i].attempt = attempts[e] + 1
            /\ owner[e] = NoLease \/ expires[e] <= Clock(w)
            /\ e \notin ClaimLocked(w)

(* A claimed event is either still the worker's, with the row as the claim *)
(* left it, or was claimed by another after the lease was over.            *)
ClaimHeldOrLost(w) ==
    \A i \in DOMAIN batch[w] :
        LET e == batch[w][i].event
        IN  \/ /\ Owns(w, e)
               /\ batch[w][i].attempt = attempts[e]
               /\ expires[e] = claimedAt[w] + LeaseDuration
            \/ /\ owner[e] # lease[w]
               /\ batch[w][i].attempt < attempts[e]
               /\ LeaseOver(w)

ClaimsAreConsistent ==
    \A w \in Workers :
        /\ \A i, j \in DOMAIN batch[w] :
              i # j => batch[w][i].event # batch[w][j].event
        /\ IF pc[w] = "claiming" THEN ClaimInProgress(w) ELSE ClaimHeldOrLost(w)

(* No attempt number of an event is in two workers' hands. *)
AttemptsAreExclusive ==
    \A w, v \in Workers : w # v =>
        \A i \in DOMAIN batch[w], j \in DOMAIN batch[v] :
            batch[w][i].event = batch[v][j].event
            => batch[w][i].attempt # batch[v][j].attempt

(* Only the event being published has been sent under its attempt number,  *)
(* and a receipt is for a message the broker stored.                       *)
SendsMatchProgress ==
    \A w \in Workers :
        /\ \A i \in DOMAIN batch[w] :
              i > 1 \/ pc[w] \in {"claiming", "ready"} =>
                  \A j \in DOMAIN sendLog[batch[w][i].event] :
                      sendLog[batch[w][i].event][j] # batch[w][i].attempt
        /\ pc[w] \in {"publishing", "acked", "retryable", "final"} =>
              WithinLimit(w)
        /\ pc[w] = "acked" => Current(w).attempt \in stored[Current(w).event]

(* The invariant that carries the safety properties through every step. *)
OutboxInv ==
    /\ TypeOK
    /\ LeasesAreUnique
    /\ RowsAreConsistent
    /\ LogIsConsistent
    /\ ClaimsAreConsistent
    /\ AttemptsAreExclusive
    /\ SendsMatchProgress
    /\ AttemptsSentOnce
    /\ PublishedAttemptIsStored
    /\ DeadLetterReason

-----------------------------------------------------------------------------
(* What the documentation says and the code does not do *)

(* ports/outbox.py:11 calls a leased event "claimed exclusively for one    *)
(* publication attempt": no two workers would publish it at once.          *)
ExclusivePublication ==
    \A w, v \in Workers :
        /\ w # v
        /\ pc[w] = "publishing"
        /\ pc[v] = "publishing"
        => Current(w).event # Current(v).event

(* docs/kafka-outbox-publisher.md:87,106: max_attempts is the "maximum     *)
(* publication attempts", and an event is dead-lettered "after a           *)
(* nonretryable failure or after reaching the configured attempt limit".   *)
(* An event refused for its attempts was then published at least once.     *)
ExhaustedWasPublished ==
    \A e \in Events :
        lastError[e] = "attempt_limit_exceeded" => sendLog[e] # <<>>
=============================================================================
