----------------------- MODULE OutboxPublisher_proofs -----------------------
(***************************************************************************)
(* Proofs about OutboxPublisher, for every set of events and workers, every*)
(* policy, every clock skew and every value of the bounds.                 *)
(***************************************************************************)
EXTENDS OutboxPublisher, TLAPS

(* A worker in the middle of a cycle has a current event. *)
LEMMA CurrentIsItem ==
    ASSUME TypeOK, NEW w \in Workers, batch[w] # <<>>
    PROVE  /\ Current(w) \in Items
           /\ Current(w) = batch[w][1]
           /\ 1 \in DOMAIN batch[w]
           /\ Tail(batch[w]) \in Seq(Items)
BY DEF TypeOK, Current

(* A retry delay is a natural number. *)
LEMMA WindowIsNat ==
    ASSUME NEW n, NEW d \in RetryWindow(RetryBase, RetryMax, n)
    PROVE  d \in Nat
BY DEF RetryWindow

(* The rows a claim selects are a sequence of at most BatchSize candidates. *)
LEMMA RowsAreEvents ==
    ASSUME NEW S \in SUBSET Events, NEW rows \in FirstRows(S)
    PROVE  \E n \in 1 .. BatchSize : rows \in [1 .. n -> S] /\ DOMAIN rows = 1 .. n
BY DEF FirstRows

(* What a claim hands to its worker: the items of distinct candidates,     *)
(* each with the row's next attempt number.                                *)
LEMMA ClaimedItems ==
    ASSUME TypeOK, NEW S \in SUBSET Events, NEW rows \in FirstRows(S),
           NEW items, items = LeasedEvents(rows)
    PROVE  /\ items \in Seq(Items)
           /\ items # <<>>
           /\ DOMAIN items = DOMAIN rows
           /\ \A i \in DOMAIN items :
                 /\ items[i].event \in S
                 /\ items[i].attempt = attempts[items[i].event] + 1
           /\ \A i, j \in DOMAIN items : i # j => items[i].event # items[j].event
<1>1. PICK n \in 1 .. BatchSize : rows \in [1 .. n -> S] /\ DOMAIN rows = 1 .. n
  BY RowsAreEvents
<1>2. n \in Nat /\ n >= 1
  BY PolicyAssumption
<1>3. \A i \in 1 .. n : items[i] = [event |-> rows[i], attempt |-> attempts[rows[i]] + 1]
  BY <1>1 DEF LeasedEvents
<1>4. \A i \in 1 .. n : rows[i] \in S /\ rows[i] \in Events /\ attempts[rows[i]] \in Nat
  BY <1>1 DEF TypeOK
<1>5. items \in [1 .. n -> Items]
  BY <1>1, <1>4 DEF Items, LeasedEvents
<1>6. items \in Seq(Items) /\ Len(items) = n
  BY <1>2, <1>5
<1>7. items # <<>>
  BY <1>2, <1>6
<1>8. \A i, j \in 1 .. n : i < j => rows[i] # rows[j]
  <2>1. \A i, j \in 1 .. n : i < j => Precedes(rows[i], rows[j])
    BY <1>1 DEF FirstRows
  <2>2. \A e \in Events : ~Precedes(e, e)
    BY EventsAssumption DEF Precedes, TypeOK
  <2> QED
    BY <2>1, <2>2, <1>4
<1>9. \A i, j \in 1 .. n : i # j => rows[i] # rows[j]
  <2> SUFFICES ASSUME NEW i \in 1 .. n, NEW j \in 1 .. n, i # j
               PROVE  rows[i] # rows[j]
    OBVIOUS
  <2>1. i < j \/ j < i
    BY <1>2
  <2> QED
    BY <2>1, <1>8
<1> QED
  BY <1>1, <1>3, <1>4, <1>6, <1>7, <1>9

(* The batch a claim locks: claimable rows that no other claim has locked. *)
LEMMA LockedBatch ==
    ASSUME TypeOK, NEW w \in Workers, LockCandidates(w)
    PROVE  /\ batch' = [batch EXCEPT ![w] = batch'[w]]
           /\ batch'[w] \in Seq(Items)
           /\ batch'[w] # <<>>
           /\ \A i \in DOMAIN batch'[w] :
                 LET item == batch'[w][i]
                 IN  /\ item.event \in Events
                     /\ Claimable(item.event, Clock(w))
                     /\ item.event \notin ClaimLocked(w)
                     /\ item.attempt = attempts[item.event] + 1
           /\ \A i, j \in DOMAIN batch'[w] :
                 i # j => batch'[w][i].event # batch'[w][j].event
<1>1. PICK busy \in SUBSET BeingSettled(w) :
        \E rows \in FirstRows(Candidates(w, busy)) :
            batch' = [batch EXCEPT ![w] = LeasedEvents(rows)]
  BY DEF LockCandidates
<1>2. PICK rows \in FirstRows(Candidates(w, busy)) :
        batch' = [batch EXCEPT ![w] = LeasedEvents(rows)]
  BY <1>1
<1>3. batch'[w] = LeasedEvents(rows)
  BY <1>2 DEF TypeOK
<1>4. /\ Candidates(w, busy) \in SUBSET Events
      /\ \A e \in Candidates(w, busy) :
            Claimable(e, Clock(w)) /\ e \notin ClaimLocked(w)
  BY DEF Candidates
<1>5. batch' = [batch EXCEPT ![w] = batch'[w]]
  BY <1>2, <1>3
<1> HIDE DEF Candidates
<1> QED
  BY <1>3, <1>4, <1>5, ClaimedItems

-----------------------------------------------------------------------------
(* Type correctness *)

LEMMA TypeInit == Init => TypeOK
BY EnvironmentAssumption DEF Init, TypeOK, Statuses, PCs, NoLease, Items

(* The three ways a worker's cycle moves on. *)
LEMMA AdvanceType ==
    ASSUME TypeOK, NEW w \in Workers, batch[w] # <<>>, Advance(w)
    PROVE  /\ batch' \in [Workers -> Seq(Items)]
           /\ pc' \in [Workers -> PCs]
           /\ lease' \in [Workers -> Nat]
           /\ claimedAt' \in [Workers -> Nat]
<1>1. Tail(batch[w]) \in Seq(Items)
  BY CurrentIsItem
<1> QED
  BY <1>1 DEF TypeOK, Advance, PCs, NoLease

(* Leaving the cycle keeps the types of the worker's variables.            *)
LEMMA ExitType ==
    ASSUME TypeOK, NEW w \in Workers, Exit(w)
    PROVE  /\ batch' \in [Workers -> Seq(Items)]
           /\ pc' \in [Workers -> PCs]
           /\ lease' \in [Workers -> Nat]
           /\ claimedAt' \in [Workers -> Nat]
<1>1. <<>> \in Seq(Items)
  OBVIOUS
<1> QED
  BY <1>1 DEF TypeOK, Exit, PCs, NoLease

(* Every step keeps the types.                                             *)
LEMMA TypeStep == TypeOK /\ LeasesAreUnique /\ [Next]_vars => TypeOK'
<1> SUFFICES ASSUME TypeOK, LeasesAreUnique, [Next]_vars
             PROVE  TypeOK'
  OBVIOUS
<1> USE EnvironmentAssumption, PolicyAssumption
<1>1. ASSUME NEW e \in Events, Register(e)
      PROVE  TypeOK'
  BY <1>1 DEF TypeOK, Register, Statuses, workerVars, kafkaVars
<1>2. ASSUME NEW e \in Events, BrokerStores(e)
      PROVE  TypeOK'
  <2>1. PICK i \in DOMAIN sendLog[e] : stored' = [stored EXCEPT ![e] = @ \cup {sendLog[e][i]}]
    BY <1>2 DEF BrokerStores
  <2>2. sendLog[e][i] \in Nat
    BY <2>1 DEF TypeOK
  <2>3. stored' \in [Events -> SUBSET Nat]
    BY <2>1, <2>2 DEF TypeOK
  <2> QED
    BY <1>2, <2>3 DEF TypeOK, BrokerStores, rowVars, workerVars
<1>3. ASSUME NEW w \in Workers, LockCandidates(w)
      PROVE  TypeOK'
  <2>1. batch'[w] \in Seq(Items) /\ batch' = [batch EXCEPT ![w] = batch'[w]]
    BY <1>3, LockedBatch
  <2>2. batch' \in [Workers -> Seq(Items)]
    BY <2>1 DEF TypeOK
  <2> QED
    BY <1>3, <2>2 DEF TypeOK, LockCandidates, PCs, Clock, rowVars, kafkaVars
<1>4. ASSUME NEW w \in Workers, CommitClaim(w)
      PROVE  TypeOK'
  <2>1. claimedAt[w] + LeaseDuration \in Nat /\ lease[w] \in Nat
    BY DEF TypeOK
  <2>2. /\ owner' \in [Events -> Nat]
        /\ expires' \in [Events -> Nat]
        /\ attempts' \in [Events -> Nat]
    BY <1>4, <2>1 DEF TypeOK, CommitClaim, GrantLease
  <2>3. pc' \in [Workers -> PCs]
    BY <1>4 DEF TypeOK, CommitClaim, PCs
  <2> QED
    BY <1>4, <2>2, <2>3 DEF TypeOK, CommitClaim, kafkaVars
<1>5. ASSUME NEW w \in Workers, Produce(w)
      PROVE  TypeOK'
  <2>1. batch[w] # <<>>
    BY <1>5 DEF LeasesAreUnique, Produce
  <2>2. Current(w).event \in Events /\ Current(w).attempt \in Nat
    BY <2>1, CurrentIsItem DEF Items
  <2>3. Append(sendLog[Current(w).event], Current(w).attempt) \in Seq(Nat)
    BY <2>2 DEF TypeOK
  <2>4. sendLog' \in [Events -> Seq(Nat)]
    BY <1>5, <2>3 DEF Produce, TypeOK
  <2> QED
    BY <1>5, <2>4 DEF TypeOK, Produce, PCs, rowVars
<1>6. ASSUME NEW w \in Workers, RefuseMessage(w) \/ Acknowledge(w) \/ DeliveryFails(w)
      PROVE  TypeOK'
  BY <1>6 DEF TypeOK, RefuseMessage, Acknowledge, DeliveryFails, PCs, rowVars, kafkaVars
<1>7. ASSUME NEW w \in Workers, MarkPublished(w)
      PROVE  TypeOK'
  <2>1. batch[w] # <<>> /\ Advance(w)
    BY <1>7 DEF LeasesAreUnique, MarkPublished
  <2> QED
    BY <1>7, <2>1, AdvanceType
    DEF TypeOK, MarkPublished, ReleaseRow, Statuses, ErrorCodes, NoLease, kafkaVars
<1>8. ASSUME NEW w \in Workers, Reschedule(w)
      PROVE  TypeOK'
  <2>1. batch[w] # <<>> /\ Advance(w)
    BY <1>8 DEF LeasesAreUnique, Reschedule
  <2>2. available' \in [Events -> Nat]
    <3>1. PICK delay \in RetryWindow(RetryBase, RetryMax, Current(w).attempt) :
              available' = [available EXCEPT ![Current(w).event] = Clock(w) + delay]
      BY <1>8 DEF Reschedule
    <3>2. delay \in Nat
      BY <3>1, WindowIsNat
    <3>3. Clock(w) + delay \in Nat
      BY <3>2 DEF TypeOK, Clock
    <3> QED
      BY <3>1, <3>3 DEF TypeOK
  <2> QED
    BY <1>8, <2>1, <2>2, AdvanceType
    DEF TypeOK, Reschedule, ReleaseRow, ErrorCodes, NoLease, kafkaVars
<1>9. ASSUME NEW w \in Workers, MarkDeadLettered(w)
      PROVE  TypeOK'
  <2>1. batch[w] # <<>> /\ Advance(w)
    BY <1>9 DEF LeasesAreUnique, MarkDeadLettered, Condemned
  <2>2. lastError' \in [Events -> ErrorCodes \cup {"none"}]
    BY <1>9 DEF MarkDeadLettered, TypeOK
  <2>3. status' \in [Events -> Statuses]
    BY <1>9 DEF MarkDeadLettered, TypeOK, Statuses
  <2>4. /\ owner' \in [Events -> Nat] /\ expires' \in [Events -> Nat]
        /\ UNCHANGED <<now, available, created, attempts, nextLease, kafkaVars, faults>>
    BY <1>9 DEF MarkDeadLettered, ReleaseRow, TypeOK, NoLease
  <2> QED
    BY <2>1, <2>2, <2>3, <2>4, AdvanceType DEF TypeOK, kafkaVars
<1>10. ASSUME NEW w \in Workers, LoseLease(w) \/ Abort(w)
       PROVE  TypeOK'
  <2>1. Exit(w) /\ UNCHANGED <<now, rowVars, nextLease, kafkaVars>> /\ faults' \in Nat
    BY <1>10 DEF LoseLease, Abort, TypeOK
  <2> QED
    BY <2>1, ExitType DEF TypeOK, rowVars, kafkaVars
<1>11. ASSUME NEW w \in Workers, Restart(w)
       PROVE  TypeOK'
  BY <1>11 DEF TypeOK, Restart, PCs, rowVars, kafkaVars
<1>12. ASSUME Tick
       PROVE  TypeOK'
  BY <1>12 DEF TypeOK, Tick, rowVars, workerVars, kafkaVars
<1>13. ASSUME UNCHANGED vars
       PROVE  TypeOK'
  BY <1>13 DEF TypeOK, vars, rowVars, workerVars, kafkaVars
<1> QED
  BY <1>1, <1>2, <1>3, <1>4, <1>5, <1>6, <1>7, <1>8, <1>9, <1>10, <1>11, <1>12, <1>13
  DEF Next, Work, EmptyCycle

-----------------------------------------------------------------------------
(* The inductive invariant *)

LEMMA InvInit == Init => OutboxInv
<1> SUFFICES ASSUME Init
             PROVE  OutboxInv
  OBVIOUS
<1>1. TypeOK
  BY TypeInit
<1>2. \A w \in Workers : batch[w] = <<>> /\ DOMAIN batch[w] = {} /\ pc[w] = "idle"
  BY DEF Init
<1>3. \A e \in Events : /\ status[e] = "absent" /\ owner[e] = NoLease
                        /\ sendLog[e] = <<>> /\ DOMAIN sendLog[e] = {}
                        /\ stored[e] = {} /\ attempts[e] = 0
  BY DEF Init
<1>4. LeasesAreUnique
  BY <1>2, <1>3 DEF Init, LeasesAreUnique, NoLease
<1>5. RowsAreConsistent /\ LogIsConsistent /\ AttemptsSentOnce
  BY <1>3 DEF RowsAreConsistent, LogIsConsistent, AttemptsSentOnce
<1>6. ClaimsAreConsistent /\ AttemptsAreExclusive /\ SendsMatchProgress
  BY <1>2 DEF ClaimsAreConsistent, ClaimHeldOrLost, AttemptsAreExclusive,
              SendsMatchProgress
<1>7. PublishedAttemptIsStored /\ DeadLetterReason
  BY <1>3 DEF PublishedAttemptIsStored, DeadLetterReason
<1> QED
  BY <1>1, <1>4, <1>5, <1>6, <1>7 DEF OutboxInv

(* The parts of an item of a batch have the types of its fields.           *)
LEMMA ItemTypes ==
    ASSUME TypeOK, NEW w \in Workers, NEW i \in DOMAIN batch[w]
    PROVE  /\ batch[w][i].event \in Events
           /\ batch[w][i].attempt \in Nat \ {0}
           /\ i \in Nat /\ i >= 1
<1>1. batch[w] \in Seq(Items)
  BY DEF TypeOK
<1>2. batch[w][i] \in Items /\ i \in Nat /\ i >= 1
  BY <1>1
<1> QED
  BY <1>2 DEF Items

(* The batch after one event was settled. *)
LEMMA AdvanceFacts ==
    ASSUME TypeOK, NEW w \in Workers, batch[w] # <<>>, Advance(w)
    PROVE  /\ \A i \in DOMAIN batch'[w] :
                 /\ i \in Nat
                 /\ i + 1 \in DOMAIN batch[w]
                 /\ batch'[w][i] = batch[w][i + 1]
                 /\ i + 1 > 1
           /\ IF batch'[w] = <<>>
              THEN pc'[w] = "idle" /\ lease'[w] = NoLease
              ELSE pc'[w] = "ready" /\ lease'[w] = lease[w] /\ claimedAt'[w] = claimedAt[w]
           /\ \A v \in Workers \ {w} :
                 UNCHANGED <<batch[v], pc[v], lease[v], claimedAt[v]>>
<1>1. batch[w] \in Seq(Items) /\ Len(batch[w]) \in Nat \ {0}
  BY DEF TypeOK
<1>2. batch'[w] = Tail(batch[w])
  BY DEF Advance, TypeOK
<1>3. batch'[w] \in Seq(Items) /\ Len(batch'[w]) = Len(batch[w]) - 1
  BY <1>1, <1>2
<1>4. (batch'[w] = <<>>) <=> (Len(batch[w]) = 1)
  <2>1. \A s \in Seq(Items) : s = <<>> <=> Len(s) = 0
    OBVIOUS
  <2>2. batch'[w] = <<>> <=> Len(batch'[w]) = 0
    BY <1>3, <2>1
  <2> QED
    BY <1>1, <1>3, <2>2
<1>5. ASSUME NEW i \in DOMAIN batch'[w]
      PROVE  /\ i \in Nat /\ i + 1 > 1
             /\ i + 1 \in DOMAIN batch[w]
             /\ batch'[w][i] = batch[w][i + 1]
  <2>1. i \in Nat /\ i >= 1 /\ i <= Len(batch[w]) - 1
    BY <1>1, <1>2, <1>3
  <2> QED
    BY <1>1, <1>2, <2>1
<1>6. IF batch'[w] = <<>>
      THEN pc'[w] = "idle" /\ lease'[w] = NoLease
      ELSE pc'[w] = "ready" /\ lease'[w] = lease[w] /\ claimedAt'[w] = claimedAt[w]
  BY <1>4 DEF Advance, TypeOK
<1>7. \A v \in Workers \ {w} : UNCHANGED <<batch[v], pc[v], lease[v], claimedAt[v]>>
  BY DEF Advance, TypeOK
<1> QED
  BY <1>5, <1>6, <1>7

(* Committing any outcome of the current event e: everything of the        *)
(* invariant that does not depend on which outcome it is.                  *)
LEMMA SettleKeepsClaims ==
    ASSUME OutboxInv, TypeOK', NEW w \in Workers, NEW e, e = Current(w).event,
           batch[w] # <<>>, pc[w] # "claiming", CanCommit(w, e),
           ReleaseRow(e), Advance(w),
           \A f \in Events \ {e} : status'[f] = status[f],
           status'[e] # "absent",
           UNCHANGED <<now, attempts, nextLease, kafkaVars>>
    PROVE  /\ LeasesAreUnique'
           /\ RowsAreConsistent'
           /\ LogIsConsistent'
           /\ ClaimsAreConsistent'
           /\ AttemptsAreExclusive'
           /\ SendsMatchProgress'
           /\ AttemptsSentOnce'
<1> USE DEF NoLease
<1>1. /\ TypeOK /\ LeasesAreUnique /\ RowsAreConsistent /\ LogIsConsistent
      /\ ClaimsAreConsistent /\ AttemptsAreExclusive /\ SendsMatchProgress
      /\ AttemptsSentOnce
  BY DEF OutboxInv
<1>2. /\ e \in Events
      /\ 1 \in DOMAIN batch[w]
      /\ e = batch[w][1].event
  BY <1>1, CurrentIsItem DEF Items
<1>3. /\ owner[e] = lease[w] /\ lease[w] # NoLease /\ status[e] = "pending"
      /\ \A v \in Workers \ {w} : lease[v] # lease[w]
  BY <1>1, <1>2 DEF CanCommit, Owns, LeasesAreUnique
<1>4. /\ owner'[e] = NoLease
      /\ \A f \in Events \ {e} :
            owner'[f] = owner[f] /\ expires'[f] = expires[f] /\ status'[f] = status[f]
      /\ attempts' = attempts /\ sendLog' = sendLog /\ stored' = stored
      /\ now' = now /\ nextLease' = nextLease
  BY <1>1, <1>2 DEF ReleaseRow, TypeOK, kafkaVars
<1>5. /\ \A i \in DOMAIN batch'[w] :
            /\ i \in Nat
            /\ i + 1 \in DOMAIN batch[w]
            /\ batch'[w][i] = batch[w][i + 1]
            /\ i + 1 > 1
      /\ IF batch'[w] = <<>>
         THEN pc'[w] = "idle" /\ lease'[w] = NoLease
         ELSE pc'[w] = "ready" /\ lease'[w] = lease[w] /\ claimedAt'[w] = claimedAt[w]
      /\ \A v \in Workers \ {w} :
            UNCHANGED <<batch[v], pc[v], lease[v], claimedAt[v]>>
  BY <1>1, AdvanceFacts
<1>6. LeasesAreUnique'
  BY <1>1, <1>3, <1>4, <1>5 DEF LeasesAreUnique
<1>7. RowsAreConsistent' /\ LogIsConsistent' /\ AttemptsSentOnce'
  BY <1>1, <1>2, <1>3, <1>4 DEF RowsAreConsistent, LogIsConsistent, AttemptsSentOnce
<1>8. ClaimsAreConsistent'
  <2>1. ASSUME NEW v \in Workers
        PROVE  \A i, j \in DOMAIN batch'[v] :
                  i # j => batch'[v][i].event # batch'[v][j].event
    <3>1. CASE v = w
      BY <1>1, <1>5, <3>1 DEF ClaimsAreConsistent
    <3>2. CASE v # w
      BY <1>1, <1>5, <3>2 DEF ClaimsAreConsistent
    <3> QED
      BY <3>1, <3>2
  <2>2. ASSUME NEW v \in Workers, pc'[v] = "claiming"
        PROVE  ClaimInProgress(v)'
    <3>1. v # w /\ pc[v] = "claiming" /\ batch'[v] = batch[v]
      BY <1>5, <2>2
    <3>2. ClaimInProgress(v)
      BY <1>1, <3>1 DEF ClaimsAreConsistent
    <3>3. \A i \in DOMAIN batch[v] : batch[v][i].event # e
      BY <3>1 DEF CanCommit, ClaimLocked, Held
    <3>4. ClaimLocked(v)' = ClaimLocked(v)
      BY <1>5 DEF ClaimLocked, Held
    <3>5. \A i \in DOMAIN batch[v] : batch[v][i].event \in Events
      BY <1>1, ItemTypes
    <3>6. Clock(v)' = Clock(v)
      BY <1>4 DEF Clock
    <3> QED
      BY <1>4, <3>1, <3>2, <3>3, <3>4, <3>5, <3>6 DEF ClaimInProgress
  <2>3. ASSUME NEW v \in Workers, v # w, pc'[v] # "claiming"
        PROVE  ClaimHeldOrLost(v)'
    <3>1. pc[v] # "claiming" /\ batch'[v] = batch[v] /\ lease'[v] = lease[v] /\ claimedAt'[v] = claimedAt[v]
      BY <1>5, <2>3
    <3>2. ClaimHeldOrLost(v)
      BY <1>1, <3>1 DEF ClaimsAreConsistent
    <3>3. LeaseOver(v)' <=> LeaseOver(v)
      BY <1>4, <3>1 DEF LeaseOver, Clock
    <3>4. \A i \in DOMAIN batch[v] : batch[v][i].event \in Events
      BY <1>1, ItemTypes
    <3>5. \A i \in DOMAIN batch[v] : lease[v] # NoLease
      BY <1>1 DEF LeasesAreUnique
    <3>6. ASSUME NEW i \in DOMAIN batch[v], batch[v][i].event = e
          PROVE  /\ batch[v][i].attempt < attempts[e]
                 /\ LeaseOver(v)
      BY <1>3, <2>3, <3>2, <3>6 DEF ClaimHeldOrLost, Owns
    <3>7. ASSUME NEW i \in DOMAIN batch[v], batch[v][i].event = e
          PROVE  /\ owner'[e] # lease'[v]
                 /\ batch'[v][i].attempt < attempts'[e]
                 /\ LeaseOver(v)'
      BY <1>4, <3>1, <3>3, <3>5, <3>6, <3>7
    <3>8. ASSUME NEW i \in DOMAIN batch[v], NEW f \in Events \ {e}, batch[v][i].event = f
          PROVE  \/ /\ owner'[f] = lease'[v] /\ status'[f] = "pending"
                    /\ batch'[v][i].attempt = attempts'[f]
                    /\ expires'[f] = claimedAt'[v] + LeaseDuration
                 \/ /\ owner'[f] # lease'[v]
                    /\ batch'[v][i].attempt < attempts'[f]
                    /\ LeaseOver(v)'
      BY <1>4, <3>1, <3>2, <3>3, <3>8 DEF ClaimHeldOrLost, Owns
    <3> QED
      BY <3>1, <3>4, <3>7, <3>8 DEF ClaimHeldOrLost, Owns
  <2>4. pc'[w] # "claiming" /\ ClaimHeldOrLost(w)'
    <3>1. pc'[w] # "claiming"
      BY <1>5
    <3>2. ClaimHeldOrLost(w)
      BY <1>1 DEF ClaimsAreConsistent
    <3>3. \A i \in DOMAIN batch'[w] :
            /\ batch'[w][i].event \in Events \ {e}
            /\ batch'[w] # <<>>
      <4> SUFFICES ASSUME NEW i \in DOMAIN batch'[w]
                   PROVE  batch'[w][i].event \in Events \ {e} /\ batch'[w] # <<>>
        OBVIOUS
      <4>1. i + 1 \in DOMAIN batch[w] /\ batch'[w][i] = batch[w][i + 1] /\ i + 1 # 1
        BY <1>5
      <4>2. batch[w][i + 1].event # batch[w][1].event
        BY <1>1, <1>2, <4>1 DEF ClaimsAreConsistent
      <4>3. batch[w][i + 1].event \in Events
        BY <1>1, <4>1, ItemTypes
      <4> QED
        BY <1>2, <4>1, <4>2, <4>3
    <3>4. LeaseOver(w) /\ batch'[w] # <<>> => LeaseOver(w)'
      BY <1>4, <1>5 DEF LeaseOver, Clock
    <3> QED
      BY <1>4, <1>5, <3>1, <3>2, <3>3, <3>4 DEF ClaimHeldOrLost, Owns
  <2> QED
    BY <2>1, <2>2, <2>3, <2>4 DEF ClaimsAreConsistent
<1>9. AttemptsAreExclusive'
  BY <1>1, <1>5 DEF AttemptsAreExclusive
<1>10. SendsMatchProgress'
  <2> SUFFICES ASSUME NEW v \in Workers
               PROVE  (/\ \A i \in DOMAIN batch[v] :
                             i > 1 \/ pc[v] \in {"claiming", "ready"} =>
                                 \A j \in DOMAIN sendLog[batch[v][i].event] :
                                     sendLog[batch[v][i].event][j] # batch[v][i].attempt
                       /\ pc[v] \in {"publishing", "acked", "retryable", "final"} =>
                             WithinLimit(v)
                       /\ pc[v] = "acked" =>
                             Current(v).attempt \in stored[Current(v).event])'
    BY DEF SendsMatchProgress
  <2>1. CASE v = w
    <3>1. \A i \in DOMAIN batch[w] : i > 1 =>
              \A j \in DOMAIN sendLog[batch[w][i].event] :
                  sendLog[batch[w][i].event][j] # batch[w][i].attempt
      BY <1>1 DEF SendsMatchProgress
    <3>2. ASSUME NEW i \in DOMAIN batch'[w]
          PROVE  \A j \in DOMAIN sendLog'[batch'[w][i].event] :
                    sendLog'[batch'[w][i].event][j] # batch'[w][i].attempt
      <4>1. i + 1 \in DOMAIN batch[w] /\ batch'[w][i] = batch[w][i + 1] /\ i + 1 > 1
        BY <1>5
      <4>2. \A j \in DOMAIN sendLog[batch[w][i + 1].event] :
                sendLog[batch[w][i + 1].event][j] # batch[w][i + 1].attempt
        BY <3>1, <4>1
      <4>3. sendLog' = sendLog
        BY <1>4
      <4> QED
        BY <4>1, <4>2, <4>3
    <3>3. pc'[w] \in {"idle", "ready"}
      BY <1>5
    <3> QED
      BY <2>1, <3>2, <3>3
  <2>2. CASE v # w
    <3>1. batch'[v] = batch[v] /\ pc'[v] = pc[v]
      BY <1>5, <2>2
    <3> QED
      BY <1>1, <1>4, <3>1 DEF SendsMatchProgress, WithinLimit, Current
  <2> QED
    BY <2>1, <2>2
<1> QED
  BY <1>6, <1>7, <1>8, <1>9, <1>10

(* Moving on within the processing of the current event. *)
LEMMA ProgressInv ==
    ASSUME OutboxInv, TypeOK', NEW w \in Workers,
           RefuseMessage(w) \/ Acknowledge(w) \/ DeliveryFails(w)
    PROVE  OutboxInv'
<1>1. /\ TypeOK /\ LeasesAreUnique /\ RowsAreConsistent /\ LogIsConsistent
      /\ ClaimsAreConsistent /\ AttemptsAreExclusive /\ SendsMatchProgress
      /\ AttemptsSentOnce /\ PublishedAttemptIsStored /\ DeadLetterReason
  BY DEF OutboxInv
<1>2. /\ pc[w] \in {"ready", "publishing"}
      /\ pc'[w] \in {"acked", "retryable", "final"}
      /\ \A v \in Workers \ {w} : pc'[v] = pc[v]
      /\ pc'[w] = "acked" => Current(w).attempt \in stored[Current(w).event]
      /\ UNCHANGED <<now, rowVars, nextLease, lease, claimedAt, batch, kafkaVars>>
  BY <1>1 DEF RefuseMessage, Acknowledge, DeliveryFails, TypeOK
<1>3. WithinLimit(w)
  BY <1>1 DEF SendsMatchProgress, RefuseMessage, Acknowledge, DeliveryFails
<1> USE <1>2 DEF rowVars, kafkaVars
<1>4. LeasesAreUnique'
  BY <1>1 DEF LeasesAreUnique
<1>5. /\ RowsAreConsistent' /\ LogIsConsistent' /\ AttemptsAreExclusive'
      /\ AttemptsSentOnce' /\ PublishedAttemptIsStored' /\ DeadLetterReason'
  BY <1>1 DEF RowsAreConsistent, LogIsConsistent, AttemptsAreExclusive,
              AttemptsSentOnce, PublishedAttemptIsStored, DeadLetterReason
<1>6. ClaimsAreConsistent'
  <2>1. \A v \in Workers : ClaimLocked(v)' = ClaimLocked(v)
    BY DEF ClaimLocked, Held
  <2>2. \A v \in Workers : ClaimInProgress(v) => ClaimInProgress(v)'
    BY <2>1 DEF ClaimInProgress, Clock
  <2>3. \A v \in Workers : ClaimHeldOrLost(v) => ClaimHeldOrLost(v)'
    BY DEF ClaimHeldOrLost, LeaseOver, Clock, Owns
  <2> QED
    BY <1>1, <2>2, <2>3 DEF ClaimsAreConsistent
<1>7. SendsMatchProgress'
  BY <1>1, <1>3 DEF SendsMatchProgress, WithinLimit, Current
<1> QED
  BY <1>1, <1>4, <1>5, <1>6, <1>7 DEF OutboxInv

(* Leaving the cycle drops what the worker held. *)
LEMMA ExitInv ==
    ASSUME OutboxInv, TypeOK', NEW w \in Workers, Exit(w),
           UNCHANGED <<now, rowVars, nextLease, kafkaVars>>
    PROVE  OutboxInv'
<1>1. /\ TypeOK /\ LeasesAreUnique /\ RowsAreConsistent /\ LogIsConsistent
      /\ ClaimsAreConsistent /\ AttemptsAreExclusive /\ SendsMatchProgress
      /\ AttemptsSentOnce /\ PublishedAttemptIsStored /\ DeadLetterReason
  BY DEF OutboxInv
<1>2. /\ pc'[w] = "stopped" /\ batch'[w] = <<>> /\ lease'[w] = NoLease
      /\ DOMAIN batch'[w] = {}
      /\ \A v \in Workers \ {w} :
            UNCHANGED <<batch[v], pc[v], lease[v], claimedAt[v]>>
  BY <1>1 DEF Exit, TypeOK
<1> USE DEF rowVars, kafkaVars
<1>3. LeasesAreUnique'
  BY <1>1, <1>2 DEF LeasesAreUnique, NoLease
<1>4. /\ RowsAreConsistent' /\ LogIsConsistent' /\ AttemptsSentOnce'
      /\ PublishedAttemptIsStored' /\ DeadLetterReason'
  BY <1>1 DEF RowsAreConsistent, LogIsConsistent, AttemptsSentOnce,
              PublishedAttemptIsStored, DeadLetterReason
<1>5. AttemptsAreExclusive'
  BY <1>1, <1>2 DEF AttemptsAreExclusive
<1>6. ClaimsAreConsistent'
  <2>1. \A v \in Workers : ClaimLocked(v)' \subseteq ClaimLocked(v)
    BY <1>2 DEF ClaimLocked, Held
  <2>2. \A v \in Workers \ {w} : ClaimInProgress(v) => ClaimInProgress(v)'
    BY <1>2, <2>1 DEF ClaimInProgress, Clock
  <2>3. \A v \in Workers \ {w} : ClaimHeldOrLost(v) => ClaimHeldOrLost(v)'
    BY <1>2 DEF ClaimHeldOrLost, LeaseOver, Clock, Owns
  <2>4. ClaimHeldOrLost(w)'
    BY <1>2 DEF ClaimHeldOrLost
  <2> QED
    BY <1>1, <1>2, <2>2, <2>3, <2>4 DEF ClaimsAreConsistent
<1>7. SendsMatchProgress'
  BY <1>1, <1>2 DEF SendsMatchProgress, WithinLimit, Current
<1> QED
  BY <1>1, <1>3, <1>4, <1>5, <1>6, <1>7 DEF OutboxInv

(* A restarted worker is idle and holds nothing: the invariant carries over. *)
LEMMA RestartInv ==
    ASSUME OutboxInv, TypeOK', NEW w \in Workers, Restart(w)
    PROVE  OutboxInv'
<1>1. /\ TypeOK /\ LeasesAreUnique /\ RowsAreConsistent /\ LogIsConsistent
      /\ ClaimsAreConsistent /\ AttemptsAreExclusive /\ SendsMatchProgress
      /\ AttemptsSentOnce /\ PublishedAttemptIsStored /\ DeadLetterReason
  BY DEF OutboxInv
<1>2. /\ pc[w] = "stopped" /\ pc'[w] = "idle" /\ batch[w] = <<>> /\ DOMAIN batch[w] = {}
      /\ \A v \in Workers \ {w} : pc'[v] = pc[v]
      /\ UNCHANGED <<now, rowVars, nextLease, lease, claimedAt, batch, kafkaVars>>
  BY <1>1 DEF Restart, TypeOK, LeasesAreUnique
<1> USE <1>2 DEF rowVars, kafkaVars
<1>3. LeasesAreUnique'
  BY <1>1 DEF LeasesAreUnique
<1>4. /\ RowsAreConsistent' /\ LogIsConsistent' /\ AttemptsAreExclusive'
      /\ AttemptsSentOnce' /\ PublishedAttemptIsStored' /\ DeadLetterReason'
  BY <1>1 DEF RowsAreConsistent, LogIsConsistent, AttemptsAreExclusive,
              AttemptsSentOnce, PublishedAttemptIsStored, DeadLetterReason
<1>5. ClaimsAreConsistent'
  <2>1. \A v \in Workers : ClaimLocked(v)' = ClaimLocked(v)
    BY DEF ClaimLocked, Held
  <2>2. \A v \in Workers : ClaimInProgress(v) => ClaimInProgress(v)'
    BY <2>1 DEF ClaimInProgress, Clock
  <2>3. \A v \in Workers : ClaimHeldOrLost(v) => ClaimHeldOrLost(v)'
    BY DEF ClaimHeldOrLost, LeaseOver, Clock, Owns
  <2> QED
    BY <1>1, <2>2, <2>3 DEF ClaimsAreConsistent
<1>6. SendsMatchProgress'
  BY <1>1 DEF SendsMatchProgress, WithinLimit, Current
<1> QED
  BY <1>1, <1>3, <1>4, <1>5, <1>6 DEF OutboxInv

(* Time only lets leases run out. *)
LEMMA TickInv ==
    ASSUME OutboxInv, TypeOK', Tick
    PROVE  OutboxInv'
<1>1. /\ TypeOK /\ LeasesAreUnique /\ RowsAreConsistent /\ LogIsConsistent
      /\ ClaimsAreConsistent /\ AttemptsAreExclusive /\ SendsMatchProgress
      /\ AttemptsSentOnce /\ PublishedAttemptIsStored /\ DeadLetterReason
  BY DEF OutboxInv
<1>2. now' = now + 1 /\ UNCHANGED <<rowVars, nextLease, workerVars, kafkaVars>>
  BY DEF Tick
<1> USE <1>2 DEF rowVars, workerVars, kafkaVars
<1>3. /\ LeasesAreUnique' /\ RowsAreConsistent' /\ LogIsConsistent'
      /\ AttemptsAreExclusive' /\ AttemptsSentOnce' /\ PublishedAttemptIsStored'
      /\ DeadLetterReason'
  BY <1>1 DEF LeasesAreUnique, RowsAreConsistent, LogIsConsistent,
              AttemptsAreExclusive, AttemptsSentOnce, PublishedAttemptIsStored,
              DeadLetterReason
<1>4. SendsMatchProgress'
  BY <1>1 DEF SendsMatchProgress, WithinLimit, Current
<1>5. ClaimsAreConsistent'
  <2>1. \A v \in Workers : Clock(v) \in Int /\ Clock(v)' = Clock(v) + 1
    BY <1>1, EnvironmentAssumption DEF Clock, TypeOK
  <2>2. \A v \in Workers : ClaimLocked(v)' = ClaimLocked(v)
    BY DEF ClaimLocked, Held
  <2>3. \A v \in Workers : claimedAt[v] + LeaseDuration \in Int
    BY <1>1, PolicyAssumption DEF TypeOK
  <2>4. \A v \in Workers : LeaseOver(v) => LeaseOver(v)'
    BY <2>1, <2>3 DEF LeaseOver
  <2>5. \A v \in Workers : ClaimHeldOrLost(v) => ClaimHeldOrLost(v)'
    BY <2>4 DEF ClaimHeldOrLost, Owns
  <2>6. ASSUME NEW v \in Workers, ClaimInProgress(v)
        PROVE  ClaimInProgress(v)'
    <3>1. \A i \in DOMAIN batch[v] : batch[v][i].event \in Events
      BY <1>1, ItemTypes
    <3>2. \A e \in Events : expires[e] \in Int
      BY <1>1 DEF TypeOK
    <3>3. \A i \in DOMAIN batch[v] : expires[batch[v][i].event] \in Int
      BY <3>1, <3>2
    <3> QED
      BY <2>1, <2>2, <2>6, <3>3 DEF ClaimInProgress
  <2> QED
    BY <1>1, <2>5, <2>6 DEF ClaimsAreConsistent
<1> QED
  BY <1>1, <1>3, <1>4, <1>5 DEF OutboxInv

(* A new row is nobody's. *)
LEMMA RegisterInv ==
    ASSUME OutboxInv, TypeOK', NEW e \in Events, Register(e)
    PROVE  OutboxInv'
<1>1. /\ TypeOK /\ LeasesAreUnique /\ RowsAreConsistent /\ LogIsConsistent
      /\ ClaimsAreConsistent /\ AttemptsAreExclusive /\ SendsMatchProgress
      /\ AttemptsSentOnce /\ PublishedAttemptIsStored /\ DeadLetterReason
  BY DEF OutboxInv
<1>2. /\ status[e] = "absent" /\ status'[e] = "pending"
      /\ \A f \in Events \ {e} : status'[f] = status[f]
      /\ UNCHANGED <<now, owner, expires, attempts, lastError, nextLease,
                     workerVars, kafkaVars>>
  BY <1>1 DEF Register, TypeOK
<1> USE <1>2 DEF workerVars, kafkaVars
<1>3. /\ LeasesAreUnique' /\ RowsAreConsistent' /\ LogIsConsistent'
      /\ AttemptsAreExclusive' /\ AttemptsSentOnce' /\ PublishedAttemptIsStored'
      /\ DeadLetterReason'
  BY <1>1 DEF LeasesAreUnique, RowsAreConsistent, LogIsConsistent,
              AttemptsAreExclusive, AttemptsSentOnce, PublishedAttemptIsStored,
              DeadLetterReason
<1>4. SendsMatchProgress'
  BY <1>1 DEF SendsMatchProgress, WithinLimit, Current
<1>5. ClaimsAreConsistent'
  <2>1. \A v \in Workers : ClaimLocked(v)' = ClaimLocked(v)
    BY DEF ClaimLocked, Held
  <2>2. \A f \in Events : status[f] = "pending" => f # e /\ status'[f] = "pending"
    OBVIOUS
  <2>3. \A f \in Events : status'[f] = "pending" => status[f] = "pending" \/ f = e
    OBVIOUS
  <2>4. ASSUME NEW v \in Workers, ClaimInProgress(v)
        PROVE  ClaimInProgress(v)'
    <3>1. \A i \in DOMAIN batch[v] : batch[v][i].event \in Events
      BY <1>1, ItemTypes
    <3> QED
      BY <2>1, <2>2, <2>4, <3>1 DEF ClaimInProgress, Clock
  <2>5. ASSUME NEW v \in Workers, ClaimHeldOrLost(v)
        PROVE  ClaimHeldOrLost(v)'
    <3>1. \A i \in DOMAIN batch[v] : batch[v][i].event \in Events
      BY <1>1, ItemTypes
    <3> QED
      BY <2>2, <2>5, <3>1 DEF ClaimHeldOrLost, LeaseOver, Clock, Owns
  <2> QED
    BY <1>1, <2>4, <2>5 DEF ClaimsAreConsistent
<1> QED
  BY <1>1, <1>3, <1>4, <1>5 DEF OutboxInv

(* The broker stores messages that were sent: the invariant carries over.  *)
LEMMA BrokerInv ==
    ASSUME OutboxInv, TypeOK', NEW e \in Events, BrokerStores(e)
    PROVE  OutboxInv'
<1>1. /\ TypeOK /\ LeasesAreUnique /\ RowsAreConsistent /\ LogIsConsistent
      /\ ClaimsAreConsistent /\ AttemptsAreExclusive /\ SendsMatchProgress
      /\ AttemptsSentOnce /\ PublishedAttemptIsStored /\ DeadLetterReason
  BY DEF OutboxInv
<1>2. PICK i \in DOMAIN sendLog[e] :
          stored' = [stored EXCEPT ![e] = @ \cup {sendLog[e][i]}]
  BY DEF BrokerStores
<1>3. /\ stored'[e] = stored[e] \cup {sendLog[e][i]}
      /\ \A f \in Events \ {e} : stored'[f] = stored[f]
      /\ \A f \in Events : stored[f] \subseteq stored'[f]
  BY <1>1, <1>2 DEF TypeOK
<1>4. UNCHANGED <<now, rowVars, nextLease, workerVars, sendLog>>
  BY DEF BrokerStores
<1> USE <1>4 DEF rowVars, workerVars
<1>5. /\ LeasesAreUnique' /\ RowsAreConsistent' /\ AttemptsAreExclusive'
      /\ AttemptsSentOnce' /\ DeadLetterReason'
  BY <1>1 DEF LeasesAreUnique, RowsAreConsistent, AttemptsAreExclusive,
              AttemptsSentOnce, DeadLetterReason
<1>6. LogIsConsistent' /\ PublishedAttemptIsStored'
  BY <1>1, <1>3 DEF LogIsConsistent, PublishedAttemptIsStored
<1>7. ClaimsAreConsistent'
  BY <1>1 DEF ClaimsAreConsistent, ClaimInProgress, ClaimHeldOrLost, ClaimLocked,
              Held, LeaseOver, Clock, Owns
<1>8. SendsMatchProgress'
  <2>1. \A w \in Workers : pc[w] = "acked" => Current(w).event \in Events
    BY <1>1, CurrentIsItem DEF LeasesAreUnique, Items
  <2> QED
    BY <1>1, <1>3, <2>1 DEF SendsMatchProgress, WithinLimit, Current
<1> QED
  BY <1>1, <1>5, <1>6, <1>7, <1>8 DEF OutboxInv

(* What appending to a log changes: one more element, at the end.          *)
LEMMA AppendFacts ==
    ASSUME NEW s \in Seq(Nat), NEW n \in Nat
    PROVE  LET last == Len(s) + 1
           IN  /\ last \in Nat
               /\ DOMAIN Append(s, n) = DOMAIN s \cup {last}
               /\ last \notin DOMAIN s
               /\ Append(s, n)[last] = n
               /\ \A i \in DOMAIN s : Append(s, n)[i] = s[i]
<1>1. /\ Len(s) \in Nat /\ DOMAIN s = 1 .. Len(s)
      /\ DOMAIN Append(s, n) = 1 .. Len(s) + 1
  OBVIOUS
<1>2. Append(s, n)[Len(s) + 1] = n /\ \A i \in 1 .. Len(s) : Append(s, n)[i] = s[i]
  OBVIOUS
<1> QED
  BY <1>1, <1>2

(* The attempt number a message goes out under was not used before. *)
LEMMA ProduceInv ==
    ASSUME OutboxInv, TypeOK', NEW w \in Workers, Produce(w)
    PROVE  OutboxInv'
<1>1. /\ TypeOK /\ LeasesAreUnique /\ RowsAreConsistent /\ LogIsConsistent
      /\ ClaimsAreConsistent /\ AttemptsAreExclusive /\ SendsMatchProgress
      /\ AttemptsSentOnce /\ PublishedAttemptIsStored /\ DeadLetterReason
  BY DEF OutboxInv
<1> DEFINE e == Current(w).event
           n == Current(w).attempt
<1>2. /\ batch[w] # <<>> /\ 1 \in DOMAIN batch[w]
      /\ e \in Events /\ n \in Nat /\ n >= 1
      /\ e = batch[w][1].event /\ n = batch[w][1].attempt
  BY <1>1, CurrentIsItem DEF Produce, LeasesAreUnique, Items
<1>3. /\ pc[w] = "ready" /\ pc'[w] = "publishing"
      /\ \A v \in Workers \ {w} : pc'[v] = pc[v]
      /\ WithinLimit(w) /\ n <= MaxAttempts
      /\ UNCHANGED <<now, rowVars, nextLease, lease, claimedAt, batch, stored>>
  BY <1>1 DEF Produce, TypeOK, WithinLimit
<1>4. /\ sendLog'[e] = Append(sendLog[e], n)
      /\ \A f \in Events \ {e} : sendLog'[f] = sendLog[f]
  BY <1>1, <1>2 DEF Produce, TypeOK
<1> DEFINE last == Len(sendLog[e]) + 1
<1>5. /\ sendLog[e] \in Seq(Nat) /\ last \in Nat
      /\ DOMAIN sendLog'[e] = DOMAIN sendLog[e] \cup {last}
      /\ last \notin DOMAIN sendLog[e]
      /\ sendLog'[e][last] = n
      /\ \A i \in DOMAIN sendLog[e] : sendLog'[e][i] = sendLog[e][i]
  <2>1. sendLog[e] \in Seq(Nat)
    BY <1>1, <1>2 DEF TypeOK
  <2> DEFINE log == sendLog[e]
             longer == Append(log, n)
  <2> HIDE DEF e, n, log
  <2>2. /\ last \in Nat
        /\ DOMAIN longer = DOMAIN log \cup {last}
        /\ last \notin DOMAIN log
        /\ longer[last] = n
        /\ \A i \in DOMAIN log : longer[i] = log[i]
    BY <1>2, <2>1, AppendFacts DEF log
  <2>3. sendLog'[e] = longer
    BY <1>4 DEF log
  <2> HIDE DEF longer, last
  <2> QED
    BY <2>1, <2>2, <2>3 DEF log
<1>6. n >= 1 /\ n <= attempts[e] /\ status[e] # "absent"
  <2>1. ClaimHeldOrLost(w)
    BY <1>1, <1>3 DEF ClaimsAreConsistent
  <2>2. /\ n = attempts[e] /\ owner[e] = lease[w] /\ status[e] = "pending"
        \/ n < attempts[e]
    BY <1>2, <2>1 DEF ClaimHeldOrLost, Owns
  <2>3. attempts[e] \in Nat /\ owner[e] \in Nat
    BY <1>1, <1>2 DEF TypeOK
  <2>4. n <= attempts[e] /\ attempts[e] > 0
    BY <1>2, <2>2, <2>3
  <2>5. status[e] # "absent"
    BY <1>1, <1>2, <2>4 DEF RowsAreConsistent
  <2> QED
    BY <1>2, <2>4, <2>5
<1>7. \A i \in DOMAIN sendLog[e] : sendLog[e][i] # n
  <2>1. \A i \in DOMAIN batch[w] : \A j \in DOMAIN sendLog[batch[w][i].event] :
           sendLog[batch[w][i].event][j] # batch[w][i].attempt
    BY <1>1, <1>3 DEF SendsMatchProgress
  <2>2. \A j \in DOMAIN sendLog[batch[w][1].event] :
           sendLog[batch[w][1].event][j] # batch[w][1].attempt
    BY <1>2, <2>1
  <2> HIDE DEF e, n
  <2> QED
    BY <1>2, <2>2
<1> HIDE DEF e, n, last
<1> USE DEF rowVars
<1>8. AttemptsSentOnce'
  <2>1. \A f \in Events \ {e} : /\ \A i \in DOMAIN sendLog'[f] : sendLog'[f][i] \in 1 .. MaxAttempts
                                /\ \A i, j \in DOMAIN sendLog'[f] :
                                      i # j => sendLog'[f][i] # sendLog'[f][j]
    BY <1>1, <1>4 DEF AttemptsSentOnce
  <2>2. \A i \in DOMAIN sendLog'[e] : sendLog'[e][i] \in 1 .. MaxAttempts
    <3>1. n \in 1 .. MaxAttempts
      BY <1>2, <1>3, PolicyAssumption
    <3>2. \A i \in DOMAIN sendLog[e] : sendLog[e][i] \in 1 .. MaxAttempts
      BY <1>1, <1>2 DEF AttemptsSentOnce
    <3> QED
      BY <1>5, <3>1, <3>2
  <2>3. \A i, j \in DOMAIN sendLog'[e] : i # j => sendLog'[e][i] # sendLog'[e][j]
    BY <1>1, <1>2, <1>5, <1>7 DEF AttemptsSentOnce
  <2> QED
    BY <2>1, <2>2, <2>3 DEF AttemptsSentOnce
<1>9. RowsAreConsistent'
  BY <1>1, <1>3, <1>4, <1>6 DEF RowsAreConsistent
<1>10. LogIsConsistent'
  <2>1. \A i \in DOMAIN sendLog'[e] : sendLog'[e][i] <= attempts[e]
    BY <1>1, <1>2, <1>5, <1>6 DEF LogIsConsistent
  <2>2. stored[e] \subseteq {sendLog'[e][i] : i \in DOMAIN sendLog'[e]}
    <3>1. stored[e] \subseteq {sendLog[e][i] : i \in DOMAIN sendLog[e]}
      BY <1>1, <1>2 DEF LogIsConsistent
    <3> QED
      BY <1>5, <3>1
  <2> QED
    BY <1>1, <1>3, <1>4, <2>1, <2>2 DEF LogIsConsistent
<1>11. LeasesAreUnique' /\ AttemptsAreExclusive' /\ PublishedAttemptIsStored' /\ DeadLetterReason'
  BY <1>1, <1>3 DEF LeasesAreUnique, AttemptsAreExclusive,
                    PublishedAttemptIsStored, DeadLetterReason
<1>12. ClaimsAreConsistent'
  <2>1. \A v \in Workers : ClaimLocked(v)' = ClaimLocked(v)
    BY <1>3 DEF ClaimLocked, Held
  <2>2. \A v \in Workers : ClaimInProgress(v) => ClaimInProgress(v)'
    BY <1>3, <2>1 DEF ClaimInProgress, Clock
  <2>3. \A v \in Workers : ClaimHeldOrLost(v) => ClaimHeldOrLost(v)'
    BY <1>3 DEF ClaimHeldOrLost, LeaseOver, Clock, Owns
  <2> QED
    BY <1>1, <1>3, <2>2, <2>3 DEF ClaimsAreConsistent
<1>13. SendsMatchProgress'
  <2>1. ASSUME NEW v \in Workers, NEW i \in DOMAIN batch[v],
               i > 1 \/ pc'[v] \in {"claiming", "ready"}
        PROVE  \A j \in DOMAIN sendLog'[batch[v][i].event] :
                  sendLog'[batch[v][i].event][j] # batch[v][i].attempt
    <3> DEFINE f == batch[v][i].event
    <3>1. f \in Events /\ i \in Nat
      BY <1>1, ItemTypes
    <3>2. \A j \in DOMAIN sendLog[f] : sendLog[f][j] # batch[v][i].attempt
      BY <1>1, <1>3, <2>1 DEF SendsMatchProgress
    <3>3. CASE f # e
      BY <1>4, <3>1, <3>2, <3>3
    <3>4. CASE f = e
      <4>1. v # w
        <5>1. v = w => i # 1
          BY <1>3, <2>1
        <5> QED
          BY <1>1, <1>2, <3>4, <5>1 DEF ClaimsAreConsistent
      <4>2. batch[v][i].attempt # n
        BY <1>1, <1>2, <3>4, <4>1 DEF AttemptsAreExclusive
      <4> QED
        BY <1>5, <3>2, <3>4, <4>2
    <3> QED
      BY <3>3, <3>4
  <2> QED
    BY <1>1, <1>3, <2>1 DEF SendsMatchProgress, WithinLimit, Current
<1> QED
  BY <1>8, <1>9, <1>10, <1>11, <1>12, <1>13 DEF OutboxInv

(* A claim locks rows that no other claim has locked, and reads an attempt *)
(* number nobody has.                                                      *)
LEMMA LockInv ==
    ASSUME OutboxInv, TypeOK', NEW w \in Workers, LockCandidates(w)
    PROVE  OutboxInv'
<1>1. /\ TypeOK /\ LeasesAreUnique /\ RowsAreConsistent /\ LogIsConsistent
      /\ ClaimsAreConsistent /\ AttemptsAreExclusive /\ SendsMatchProgress
      /\ AttemptsSentOnce /\ PublishedAttemptIsStored /\ DeadLetterReason
  BY DEF OutboxInv
<1>2. /\ pc[w] = "idle" /\ pc'[w] = "claiming"
      /\ lease'[w] = nextLease /\ nextLease' = nextLease + 1
      /\ \A v \in Workers \ {w} :
            UNCHANGED <<batch[v], pc[v], lease[v], claimedAt[v]>>
      /\ UNCHANGED <<now, rowVars, kafkaVars>>
  BY <1>1 DEF LockCandidates, TypeOK
<1>3. batch'[w] # <<>>
  BY <1>1, LockedBatch
<1>4. \A i \in DOMAIN batch'[w] :
          /\ batch'[w][i].event \in Events
          /\ Claimable(batch'[w][i].event, Clock(w))
          /\ batch'[w][i].event \notin ClaimLocked(w)
          /\ batch'[w][i].attempt = attempts[batch'[w][i].event] + 1
  BY <1>1, LockedBatch
<1>5. \A i, j \in DOMAIN batch'[w] : i # j => batch'[w][i].event # batch'[w][j].event
  BY <1>1, LockedBatch
<1> USE DEF rowVars, kafkaVars
<1>6. LeasesAreUnique'
  <2>1. \A v \in Workers : lease[v] < nextLease
    BY <1>1 DEF LeasesAreUnique
  <2>2. nextLease \in Nat /\ \A v \in Workers : lease[v] \in Nat
    BY <1>1 DEF TypeOK
  <2>3. \A f \in Events : owner[f] \in Nat
    BY <1>1 DEF TypeOK
  <2> QED
    BY <1>1, <1>2, <1>3, <2>1, <2>2, <2>3 DEF LeasesAreUnique, NoLease
<1>7. /\ RowsAreConsistent' /\ LogIsConsistent' /\ AttemptsSentOnce'
      /\ PublishedAttemptIsStored' /\ DeadLetterReason'
  BY <1>1, <1>2 DEF RowsAreConsistent, LogIsConsistent, AttemptsSentOnce,
                    PublishedAttemptIsStored, DeadLetterReason
<1>8. \A v \in Workers \ {w} : pc[v] = "claiming" =>
          \A i \in DOMAIN batch'[w], j \in DOMAIN batch[v] :
              batch'[w][i].event # batch[v][j].event
  BY <1>4 DEF ClaimLocked, Held
<1>9. \A v \in Workers \ {w} : pc[v] # "claiming" => \A i \in DOMAIN batch[v] :
          batch[v][i].attempt <= attempts[batch[v][i].event]
  <2> SUFFICES ASSUME NEW v \in Workers \ {w}, pc[v] # "claiming",
                      NEW i \in DOMAIN batch[v]
               PROVE  batch[v][i].attempt <= attempts[batch[v][i].event]
    OBVIOUS
  <2>1. ClaimHeldOrLost(v)
    BY <1>1 DEF ClaimsAreConsistent
  <2>2. batch[v][i].attempt \in Nat /\ attempts[batch[v][i].event] \in Nat
    BY <1>1, ItemTypes DEF TypeOK
  <2> QED
    BY <2>1, <2>2 DEF ClaimHeldOrLost
<1>10. ClaimsAreConsistent'
  <2>1. ClaimLocked(w)' = ClaimLocked(w)
    BY <1>2 DEF ClaimLocked, Held
  <2>2. ClaimInProgress(w)'
    BY <1>2, <1>4, <2>1 DEF ClaimInProgress, Claimable, Clock
  <2>3. ASSUME NEW v \in Workers \ {w}, pc[v] = "claiming"
        PROVE  ClaimInProgress(v)'
    <3>1. ClaimInProgress(v)
      BY <1>1, <2>3 DEF ClaimsAreConsistent
    <3>2. ClaimLocked(v)' \subseteq ClaimLocked(v) \cup {batch'[w][i].event : i \in DOMAIN batch'[w]}
      BY <1>2 DEF ClaimLocked, Held
    <3>3. \A j \in DOMAIN batch[v] : batch[v][j].event \notin ClaimLocked(v)'
      BY <1>8, <2>3, <3>1, <3>2 DEF ClaimInProgress
    <3> QED
      BY <1>2, <3>1, <3>3 DEF ClaimInProgress, Clock
  <2>4. ASSUME NEW v \in Workers \ {w}, pc[v] # "claiming"
        PROVE  ClaimHeldOrLost(v)'
    <3>1. ClaimHeldOrLost(v)
      BY <1>1, <2>4 DEF ClaimsAreConsistent
    <3> QED
      BY <1>2, <3>1 DEF ClaimHeldOrLost, LeaseOver, Clock, Owns
  <2> QED
    BY <1>1, <1>2, <1>5, <2>2, <2>3, <2>4 DEF ClaimsAreConsistent
<1>11. AttemptsAreExclusive'
  <2>1. ASSUME NEW v \in Workers \ {w}, NEW i \in DOMAIN batch'[w], NEW j \in DOMAIN batch[v],
               batch'[w][i].event = batch[v][j].event
        PROVE  batch'[w][i].attempt # batch[v][j].attempt
    <3>1. pc[v] # "claiming"
      BY <1>8, <2>1
    <3>2. batch[v][j].attempt <= attempts[batch[v][j].event]
      BY <1>9, <3>1
    <3>3. batch'[w][i].attempt = attempts[batch[v][j].event] + 1
      BY <1>4, <2>1
    <3>4. batch[v][j].attempt \in Nat /\ attempts[batch[v][j].event] \in Nat
      BY <1>1, ItemTypes DEF TypeOK
    <3> QED
      BY <3>2, <3>3, <3>4
  <2> QED
    BY <1>1, <1>2, <2>1 DEF AttemptsAreExclusive
<1>12. SendsMatchProgress'
  <2>1. ASSUME NEW i \in DOMAIN batch'[w], NEW j \in DOMAIN sendLog[batch'[w][i].event]
        PROVE  sendLog[batch'[w][i].event][j] # batch'[w][i].attempt
    <3> DEFINE f == batch'[w][i].event
    <3>1. f \in Events /\ batch'[w][i].attempt = attempts[f] + 1
      BY <1>4
    <3>2. sendLog[f][j] <= attempts[f]
      BY <1>1, <3>1 DEF LogIsConsistent
    <3>3. attempts[f] \in Nat /\ sendLog[f] \in Seq(Nat)
      BY <1>1, <3>1 DEF TypeOK
    <3>4. sendLog[f][j] \in Nat
      BY <3>3
    <3> QED
      BY <3>1, <3>2, <3>3, <3>4
  <2> QED
    BY <1>1, <1>2, <2>1 DEF SendsMatchProgress, WithinLimit, Current
<1> QED
  BY <1>6, <1>7, <1>10, <1>11, <1>12 DEF OutboxInv

(* Committing the claim takes the rows over from workers whose leases are  *)
(* over, and from nobody else.                                             *)
LEMMA CommitInv ==
    ASSUME OutboxInv, TypeOK', NEW w \in Workers, CommitClaim(w)
    PROVE  OutboxInv'
<1>1. /\ TypeOK /\ LeasesAreUnique /\ RowsAreConsistent /\ LogIsConsistent
      /\ ClaimsAreConsistent /\ AttemptsAreExclusive /\ SendsMatchProgress
      /\ AttemptsSentOnce /\ PublishedAttemptIsStored /\ DeadLetterReason
  BY DEF OutboxInv
<1>2. /\ pc[w] = "claiming" /\ pc'[w] = "ready"
      /\ \A v \in Workers \ {w} : pc'[v] = pc[v]
      /\ UNCHANGED <<now, status, available, created, lastError, nextLease,
                     lease, claimedAt, batch, kafkaVars>>
  BY <1>1 DEF CommitClaim, TypeOK
<1>3. \A f \in Events : f \in Held(w) =>
          /\ owner'[f] = lease[w]
          /\ expires'[f] = claimedAt[w] + LeaseDuration
          /\ attempts'[f] = attempts[f] + 1
  BY DEF CommitClaim, GrantLease
<1>4. \A f \in Events : f \notin Held(w) =>
          /\ owner'[f] = owner[f]
          /\ expires'[f] = expires[f]
          /\ attempts'[f] = attempts[f]
  BY DEF CommitClaim, GrantLease
<1>5. ClaimInProgress(w)
  BY <1>1, <1>2 DEF ClaimsAreConsistent
<1>6. \A f \in Held(w) : status[f] = "pending" /\ f \in Events
  BY <1>1, <1>5, ItemTypes DEF ClaimInProgress, Held
<1>7. lease[w] # NoLease /\ \A v \in Workers \ {w} : lease[v] # lease[w]
  BY <1>1, <1>2 DEF LeasesAreUnique
<1>8. \A f \in Events : attempts[f] \in Nat /\ attempts'[f] \in Nat /\ owner[f] \in Nat
  BY <1>1 DEF TypeOK
<1> USE DEF kafkaVars
<1>9. LeasesAreUnique'
  <2>1. \A f \in Events : owner'[f] = lease[w] \/ owner'[f] = owner[f]
    BY <1>3, <1>4
  <2> QED
    BY <1>1, <1>2, <2>1 DEF LeasesAreUnique
<1>10. RowsAreConsistent' /\ PublishedAttemptIsStored' /\ DeadLetterReason'
  <2>1. \A f \in Events : status[f] # "pending" => f \notin Held(w)
    BY <1>6
  <2>2. \A f \in Held(w) : attempts'[f] > 0
    BY <1>3, <1>6, <1>8
  <2>3. RowsAreConsistent'
    BY <1>1, <1>2, <1>3, <1>4, <2>1, <2>2 DEF RowsAreConsistent
  <2>4. PublishedAttemptIsStored' /\ DeadLetterReason'
    BY <1>1, <1>2, <1>4, <2>1 DEF PublishedAttemptIsStored, DeadLetterReason
  <2> QED
    BY <2>3, <2>4
<1>11. LogIsConsistent' /\ AttemptsSentOnce'
  <2>1. \A f \in Events : attempts[f] <= attempts'[f]
    BY <1>3, <1>4, <1>8
  <2>2. ASSUME NEW f \in Events, NEW i \in DOMAIN sendLog[f]
        PROVE  sendLog[f][i] <= attempts'[f]
    <3>1. sendLog[f] \in Seq(Nat)
      BY <1>1 DEF TypeOK
    <3>2. sendLog[f][i] \in Nat /\ sendLog[f][i] <= attempts[f]
      BY <1>1, <3>1 DEF LogIsConsistent
    <3> QED
      BY <1>8, <2>1, <3>2
  <2>3. LogIsConsistent'
    BY <1>1, <1>2, <2>2 DEF LogIsConsistent
  <2>4. AttemptsSentOnce'
    BY <1>1, <1>2 DEF AttemptsSentOnce
  <2> QED
    BY <2>3, <2>4
<1>12. AttemptsAreExclusive'
  BY <1>1, <1>2 DEF AttemptsAreExclusive
<1>13. SendsMatchProgress'
  BY <1>1, <1>2 DEF SendsMatchProgress, WithinLimit, Current
<1>14. ClaimsAreConsistent'
  <2>1. ClaimHeldOrLost(w)'
    <3>1. ASSUME NEW i \in DOMAIN batch[w]
          PROVE  LET f == batch[w][i].event
                 IN  /\ owner'[f] = lease[w] /\ status[f] = "pending"
                     /\ batch[w][i].attempt = attempts'[f]
                     /\ expires'[f] = claimedAt[w] + LeaseDuration
      <4>1. batch[w][i].event \in Held(w) /\ batch[w][i].event \in Events
        BY <1>1, ItemTypes DEF Held
      <4> QED
        BY <1>3, <1>5, <1>6, <4>1 DEF ClaimInProgress
    <3> QED
      BY <1>2, <3>1 DEF ClaimHeldOrLost, Owns
  <2>2. ASSUME NEW v \in Workers \ {w}, pc[v] = "claiming"
        PROVE  ClaimInProgress(v)'
    <3>1. ClaimInProgress(v)
      BY <1>1, <2>2 DEF ClaimsAreConsistent
    <3>2. Held(w) \subseteq ClaimLocked(v)
      BY <1>2 DEF ClaimLocked
    <3>3. ClaimLocked(v)' \subseteq ClaimLocked(v)
      BY <1>2 DEF ClaimLocked, Held
    <3>4. \A i \in DOMAIN batch[v] : /\ batch[v][i].event \in Events
                                     /\ batch[v][i].event \notin Held(w)
      BY <1>1, <3>1, <3>2, ItemTypes DEF ClaimInProgress
    <3> QED
      BY <1>2, <1>4, <3>1, <3>3, <3>4 DEF ClaimInProgress, Clock
  <2>3. ASSUME NEW v \in Workers \ {w}, pc[v] # "claiming"
        PROVE  ClaimHeldOrLost(v)'
    <3>1. ClaimHeldOrLost(v)
      BY <1>1, <2>3 DEF ClaimsAreConsistent
    <3>2. LeaseOver(v)' <=> LeaseOver(v)
      BY <1>2 DEF LeaseOver, Clock
    <3>3. ASSUME NEW i \in DOMAIN batch[v], batch[v][i].event \in Held(w)
          PROVE  LET f == batch[v][i].event
                 IN  /\ owner'[f] # lease[v]
                     /\ batch[v][i].attempt < attempts'[f]
                     /\ LeaseOver(v)
      <4> DEFINE f == batch[v][i].event
      <4>1. f \in Events /\ batch[v][i].attempt \in Nat
        BY <1>1, ItemTypes
      <4>2. owner'[f] # lease[v]
        BY <1>3, <1>7, <3>3, <4>1
      <4>3. batch[v][i].attempt < attempts'[f]
        BY <1>3, <1>8, <3>1, <3>3, <4>1 DEF ClaimHeldOrLost
      <4>4. LeaseOver(v)
        <5>1. CASE Owns(v, f) /\ expires[f] = claimedAt[v] + LeaseDuration
          <6>1. owner[f] # NoLease
            BY <1>1, <5>1 DEF Owns, LeasesAreUnique
          <6>2. expires[f] <= Clock(w)
            BY <1>5, <3>3, <6>1 DEF ClaimInProgress, Held
          <6> QED
            BY <5>1, <6>2 DEF LeaseOver
        <5>2. CASE LeaseOver(v)
          BY <5>2
        <5> QED
          BY <3>1, <5>1, <5>2 DEF ClaimHeldOrLost
      <4> QED
        BY <4>2, <4>3, <4>4
    <3>4. \A i \in DOMAIN batch[v] : batch[v][i].event \in Events
      BY <1>1, ItemTypes
    <3>5. ASSUME NEW i \in DOMAIN batch[v], batch[v][i].event \notin Held(w)
          PROVE  LET f == batch[v][i].event
                 IN  UNCHANGED <<owner[f], expires[f], attempts[f], status[f]>>
      BY <1>2, <1>4, <3>4, <3>5
    <3> QED
      BY <1>2, <3>1, <3>2, <3>3, <3>5 DEF ClaimHeldOrLost, Owns
  <2> QED
    BY <1>1, <1>2, <2>1, <2>2, <2>3 DEF ClaimsAreConsistent
<1> QED
  BY <1>9, <1>10, <1>11, <1>12, <1>13, <1>14 DEF OutboxInv

(* An outcome is committed on the row's current attempt. *)
LEMMA CommitterIsCurrent ==
    ASSUME OutboxInv, NEW w \in Workers, batch[w] # <<>>, pc[w] # "claiming",
           CanCommit(w, Current(w).event)
    PROVE  /\ Current(w).event \in Events
           /\ Current(w).attempt = attempts[Current(w).event]
           /\ status[Current(w).event] = "pending"
<1>1. /\ Current(w) = batch[w][1] /\ 1 \in DOMAIN batch[w]
      /\ Current(w).event \in Events
  BY CurrentIsItem DEF OutboxInv, Items
<1>2. ClaimHeldOrLost(w)
  BY DEF OutboxInv, ClaimsAreConsistent
<1> QED
  BY <1>1, <1>2 DEF ClaimHeldOrLost, CanCommit, Owns

(* The row published is the worker's own, under the attempt the receipt is *)
(* for: the invariant carries over.                                        *)
LEMMA MarkPublishedInv ==
    ASSUME OutboxInv, TypeOK', NEW w \in Workers, MarkPublished(w)
    PROVE  OutboxInv'
<1> DEFINE e == Current(w).event
<1>1. /\ pc[w] = "acked" /\ CanCommit(w, e) /\ ReleaseRow(e) /\ Advance(w)
      /\ status' = [status EXCEPT ![e] = "published"]
      /\ lastError' = [lastError EXCEPT ![e] = "none"]
      /\ UNCHANGED <<now, attempts, nextLease, kafkaVars>>
  BY DEF MarkPublished
<1>2. batch[w] # <<>> /\ e \in Events /\ Current(w).attempt = attempts[e]
  BY <1>1, CommitterIsCurrent DEF OutboxInv, LeasesAreUnique
<1>3. Current(w).attempt \in stored[e]
  BY <1>1 DEF OutboxInv, SendsMatchProgress
<1>4. status'[e] = "published" /\ \A f \in Events \ {e} :
          status'[f] = status[f] /\ lastError'[f] = lastError[f]
  BY <1>1, <1>2 DEF OutboxInv, TypeOK
<1> HIDE DEF e
<1>5. /\ LeasesAreUnique' /\ RowsAreConsistent' /\ LogIsConsistent'
      /\ ClaimsAreConsistent' /\ AttemptsAreExclusive' /\ SendsMatchProgress'
      /\ AttemptsSentOnce'
  BY <1>1, <1>2, <1>4, SettleKeepsClaims DEF e
<1>6. PublishedAttemptIsStored'
  BY <1>1, <1>2, <1>3, <1>4 DEF OutboxInv, PublishedAttemptIsStored, kafkaVars
<1>7. DeadLetterReason'
  BY <1>1, <1>2, <1>4 DEF OutboxInv, DeadLetterReason
<1> QED
  BY <1>5, <1>6, <1>7 DEF OutboxInv

(* A rescheduled row is released and stays pending: the invariant carries over. *)
LEMMA RescheduleInv ==
    ASSUME OutboxInv, TypeOK', NEW w \in Workers, Reschedule(w)
    PROVE  OutboxInv'
<1> DEFINE e == Current(w).event
<1>1. /\ pc[w] = "retryable" /\ CanCommit(w, e) /\ ReleaseRow(e) /\ Advance(w)
      /\ lastError' = [lastError EXCEPT ![e] = "publisher_retryable"]
      /\ UNCHANGED <<now, status, attempts, nextLease, kafkaVars>>
  BY DEF Reschedule
<1>2. batch[w] # <<>> /\ e \in Events /\ status[e] = "pending"
  BY <1>1, CommitterIsCurrent DEF OutboxInv, LeasesAreUnique
<1>3. status' = status /\ \A f \in Events \ {e} : lastError'[f] = lastError[f]
  BY <1>1, <1>2 DEF OutboxInv, TypeOK
<1> HIDE DEF e
<1>4. /\ LeasesAreUnique' /\ RowsAreConsistent' /\ LogIsConsistent'
      /\ ClaimsAreConsistent' /\ AttemptsAreExclusive' /\ SendsMatchProgress'
      /\ AttemptsSentOnce'
  BY <1>1, <1>2, <1>3, SettleKeepsClaims DEF e
<1>5. PublishedAttemptIsStored'
  BY <1>1, <1>3 DEF OutboxInv, PublishedAttemptIsStored, kafkaVars
<1>6. DeadLetterReason'
  BY <1>1, <1>2, <1>3 DEF OutboxInv, DeadLetterReason
<1> QED
  BY <1>4, <1>5, <1>6 DEF OutboxInv

(* The verdict written is about the row's last attempt: the invariant carries over. *)
LEMMA MarkDeadLetteredInv ==
    ASSUME OutboxInv, TypeOK', NEW w \in Workers, MarkDeadLettered(w)
    PROVE  OutboxInv'
<1> DEFINE e == Current(w).event
<1>1. /\ pc[w] \in {"ready", "retryable", "final"}
      /\ CanCommit(w, e) /\ ReleaseRow(e) /\ Advance(w)
      /\ status' = [status EXCEPT ![e] = "dead"]
      /\ UNCHANGED <<now, attempts, nextLease, kafkaVars>>
  BY DEF MarkDeadLettered, Condemned
<1>2. PICK code \in ErrorCodes :
          Condemned(w, code) /\ lastError' = [lastError EXCEPT ![e] = code]
  BY DEF MarkDeadLettered
<1>3. /\ batch[w] # <<>> /\ e \in Events
      /\ Current(w).attempt = attempts[e] /\ status[e] = "pending"
  BY <1>1, CommitterIsCurrent DEF OutboxInv, LeasesAreUnique
<1>4. status'[e] = "dead" /\ lastError'[e] = code /\ \A f \in Events \ {e} :
          status'[f] = status[f] /\ lastError'[f] = lastError[f]
  BY <1>1, <1>2, <1>3 DEF OutboxInv, TypeOK
<1>5. pc[w] \in {"retryable", "final"} => Current(w).attempt <= MaxAttempts
  BY DEF OutboxInv, SendsMatchProgress, WithinLimit
<1>6. attempts[e] \in Nat
  BY <1>3 DEF OutboxInv, TypeOK
<1> HIDE DEF e
<1>7. /\ LeasesAreUnique' /\ RowsAreConsistent' /\ LogIsConsistent'
      /\ ClaimsAreConsistent' /\ AttemptsAreExclusive' /\ SendsMatchProgress'
      /\ AttemptsSentOnce'
  BY <1>1, <1>3, <1>4, SettleKeepsClaims DEF e
<1>8. PublishedAttemptIsStored'
  BY <1>1, <1>3, <1>4 DEF OutboxInv, PublishedAttemptIsStored, kafkaVars
<1>9. DeadLetterReason'
  <2>1. \/ code = "publisher_non_retryable" /\ attempts[e] <= MaxAttempts
        \/ code = "attempt_limit_reached"   /\ attempts[e] = MaxAttempts
        \/ code = "attempt_limit_exceeded"  /\ attempts[e] > MaxAttempts
    BY <1>2, <1>3, <1>5, <1>6, PolicyAssumption DEF Condemned, WithinLimit
  <2> QED
    BY <1>1, <1>3, <1>4, <2>1 DEF OutboxInv, DeadLetterReason
<1> QED
  BY <1>7, <1>8, <1>9 DEF OutboxInv

(* Every step of the publisher keeps the inductive invariant.              *)
LEMMA InvStep == OutboxInv /\ [Next]_vars => OutboxInv'
<1> SUFFICES ASSUME OutboxInv, [Next]_vars
             PROVE  OutboxInv'
  OBVIOUS
<1>1. TypeOK'
  BY TypeStep DEF OutboxInv
<1>2. ASSUME NEW e \in Events, Register(e) \/ BrokerStores(e)
      PROVE  OutboxInv'
  BY <1>1, <1>2, RegisterInv, BrokerInv
<1>3. ASSUME NEW w \in Workers, LockCandidates(w) \/ CommitClaim(w)
      PROVE  OutboxInv'
  BY <1>1, <1>3, LockInv, CommitInv
<1>4. ASSUME NEW w \in Workers,
             Produce(w) \/ RefuseMessage(w) \/ Acknowledge(w) \/ DeliveryFails(w)
      PROVE  OutboxInv'
  BY <1>1, <1>4, ProduceInv, ProgressInv
<1>5. ASSUME NEW w \in Workers, MarkPublished(w) \/ Reschedule(w) \/ MarkDeadLettered(w)
      PROVE  OutboxInv'
  BY <1>1, <1>5, MarkPublishedInv, RescheduleInv, MarkDeadLetteredInv
<1>6. ASSUME NEW w \in Workers, LoseLease(w) \/ Abort(w)
      PROVE  OutboxInv'
  <2>1. Exit(w) /\ UNCHANGED <<now, rowVars, nextLease, kafkaVars>>
    BY <1>6 DEF LoseLease, Abort
  <2> QED
    BY <1>1, <2>1, ExitInv
<1>7. ASSUME NEW w \in Workers, Restart(w)
      PROVE  OutboxInv'
  BY <1>1, <1>7, RestartInv
<1>8. CASE Tick
  BY <1>1, <1>8, TickInv
<1>9. CASE UNCHANGED vars
  BY <1>9 DEF vars, rowVars, workerVars, kafkaVars, OutboxInv, TypeOK, LeasesAreUnique,
              RowsAreConsistent, LogIsConsistent, ClaimsAreConsistent,
              ClaimInProgress, ClaimHeldOrLost, ClaimLocked, Held, Owns, LeaseOver,
              Clock, AttemptsAreExclusive, SendsMatchProgress, WithinLimit,
              Current, AttemptsSentOnce, PublishedAttemptIsStored, DeadLetterReason
<1> QED
  BY <1>2, <1>3, <1>4, <1>5, <1>6, <1>7, <1>8, <1>9 DEF Next, Work, EmptyCycle

(* The inductive invariant holds in every reachable state. *)
THEOREM Invariance == Spec => []OutboxInv
<1>1. Init => OutboxInv
  BY InvInit
<1>2. OutboxInv /\ [Next]_vars => OutboxInv'
  BY InvStep
<1> QED
  BY <1>1, <1>2, PTL DEF Spec

(* Every variable keeps its type: rows, workers and logs stay well formed. *)
THEOREM TypeCorrect == Spec => []TypeOK
<1>1. OutboxInv => TypeOK
  BY DEF OutboxInv
<1> QED
  BY <1>1, Invariance, PTL

(* A row is marked published only when the message of its latest attempt   *)
(* was stored by the broker, for any number of workers and crashes.        *)
THEOREM PublishedIsStored == Spec => []PublishedAttemptIsStored
<1>1. OutboxInv => PublishedAttemptIsStored
  BY DEF OutboxInv
<1> QED
  BY <1>1, Invariance, PTL

(* Two messages of one event carry different attempt numbers, none above   *)
(* max_attempts: attempt_count really bounds what is sent.                 *)
THEOREM SendsAreBounded == Spec => []AttemptsSentOnce
<1>1. OutboxInv => AttemptsSentOnce
  BY DEF OutboxInv
<1> QED
  BY <1>1, Invariance, PTL

(* The code on a dead-lettered row is the truth about its last attempt. *)
THEOREM DeadLettersAreExplained == Spec => []DeadLetterReason
<1>1. OutboxInv => DeadLetterReason
  BY DEF OutboxInv
<1> QED
  BY <1>1, Invariance, PTL

(* Two workers publish one event at a time only if a lease is over. *)
THEOREM LeasesExclude == Spec => []SharedOnlyAfterExpiry
<1>1. OutboxInv => SharedOnlyAfterExpiry
  <2> SUFFICES ASSUME OutboxInv, NEW w \in Workers, NEW v \in Workers, w # v,
                      pc[w] = "publishing", pc[v] = "publishing",
                      Current(w).event = Current(v).event
               PROVE  LeaseOver(w) \/ LeaseOver(v)
    BY DEF SharedOnlyAfterExpiry
  <2>1. /\ batch[w] # <<>> /\ batch[v] # <<>>
        /\ lease[w] # lease[v]
    BY DEF OutboxInv, LeasesAreUnique
  <2>2. /\ 1 \in DOMAIN batch[w] /\ Current(w) = batch[w][1]
        /\ 1 \in DOMAIN batch[v] /\ Current(v) = batch[v][1]
    BY <2>1, CurrentIsItem DEF OutboxInv
  <2>3. ClaimHeldOrLost(w) /\ ClaimHeldOrLost(v)
    BY DEF OutboxInv, ClaimsAreConsistent
  <2> QED
    BY <2>1, <2>2, <2>3 DEF ClaimHeldOrLost, Owns
<1> QED
  BY <1>1, Invariance, PTL

-----------------------------------------------------------------------------
(* Action properties and the refinement *)

(* What a step does to the rows, read off the action that took it. *)
LEMMA RowSteps ==
    ASSUME OutboxInv, Next
    PROVE  \/ \E e \in Events :
                 /\ status[e] = "absent"
                 /\ status' = [status EXCEPT ![e] = "pending"]
                 /\ UNCHANGED <<owner, attempts, lastError, stored>>
                 /\ \A f \in Events \ {e} : available'[f] = available[f]
           \/ \E e \in Events, n \in 1 .. MaxAttempts :
                 /\ status[e] # "absent"
                 /\ n \notin stored[e]
                 /\ stored' = [stored EXCEPT ![e] = @ \cup {n}]
                 /\ UNCHANGED rowVars
           \/ /\ UNCHANGED <<status, available, lastError, stored>>
              /\ \A f \in Events : status[f] \in Terminal =>
                    owner'[f] = owner[f] /\ attempts'[f] = attempts[f]
           \/ \E e \in Events :
                 /\ status[e] = "pending"
                 /\ \/ status' = [status EXCEPT ![e] = "published"] /\ stored[e] # {}
                    \/ status' = [status EXCEPT ![e] = "dead"]
                    \/ status' = status
                 /\ UNCHANGED <<attempts, stored>>
                 /\ \A f \in Events \ {e} :
                       /\ owner'[f] = owner[f]
                       /\ available'[f] = available[f]
                       /\ lastError'[f] = lastError[f]
<1> USE DEF OutboxInv
<1>1. ASSUME NEW e \in Events, Register(e)
      PROVE  /\ status[e] = "absent"
             /\ status' = [status EXCEPT ![e] = "pending"]
             /\ UNCHANGED <<owner, attempts, lastError, stored>>
             /\ \A f \in Events \ {e} : available'[f] = available[f]
  BY <1>1 DEF Register, TypeOK, kafkaVars
<1>2. ASSUME NEW e \in Events, BrokerStores(e)
      PROVE  \E n \in 1 .. MaxAttempts :
                 /\ status[e] # "absent"
                 /\ n \notin stored[e]
                 /\ stored' = [stored EXCEPT ![e] = @ \cup {n}]
                 /\ UNCHANGED rowVars
  <2>1. PICK i \in DOMAIN sendLog[e] :
            /\ sendLog[e][i] \notin stored[e]
            /\ stored' = [stored EXCEPT ![e] = @ \cup {sendLog[e][i]}]
    BY <1>2 DEF BrokerStores
  <2>2. sendLog[e][i] \in 1 .. MaxAttempts
    BY <2>1 DEF AttemptsSentOnce
  <2>3. status[e] # "absent"
    BY <2>1 DEF RowsAreConsistent
  <2> QED
    BY <1>2, <2>1, <2>2, <2>3 DEF BrokerStores
<1>3. ASSUME NEW w \in Workers, CommitClaim(w)
      PROVE  /\ UNCHANGED <<status, available, lastError, stored>>
             /\ \A f \in Events : status[f] \in Terminal =>
                   owner'[f] = owner[f] /\ attempts'[f] = attempts[f]
  <2>1. ClaimInProgress(w)
    BY <1>3 DEF ClaimsAreConsistent, CommitClaim
  <2>2. \A f \in Held(w) : status[f] = "pending"
    BY <2>1 DEF ClaimInProgress, Held
  <2> QED
    BY <1>3, <2>2 DEF CommitClaim, GrantLease, Terminal, kafkaVars
<1>4. ASSUME NEW w \in Workers,
             \/ LockCandidates(w) \/ EmptyCycle(w)
             \/ Produce(w) \/ RefuseMessage(w) \/ Acknowledge(w) \/ DeliveryFails(w)
             \/ LoseLease(w) \/ Abort(w) \/ Restart(w) \/ Tick
      PROVE  UNCHANGED <<status, available, lastError, stored, owner, attempts>>
  BY <1>4 DEF LockCandidates, EmptyCycle, Produce, RefuseMessage, Acknowledge,
              DeliveryFails, LoseLease, Abort, Restart, Tick, vars, rowVars, kafkaVars
<1>5. ASSUME NEW w \in Workers, MarkPublished(w) \/ Reschedule(w) \/ MarkDeadLettered(w)
      PROVE  \E e \in Events :
                 /\ status[e] = "pending"
                 /\ \/ status' = [status EXCEPT ![e] = "published"] /\ stored[e] # {}
                    \/ status' = [status EXCEPT ![e] = "dead"]
                    \/ status' = status
                 /\ UNCHANGED <<attempts, stored>>
                 /\ \A f \in Events \ {e} :
                       /\ owner'[f] = owner[f]
                       /\ available'[f] = available[f]
                       /\ lastError'[f] = lastError[f]
  <2> DEFINE e == Current(w).event
  <2>1. /\ CanCommit(w, e) /\ ReleaseRow(e)
        /\ pc[w] \notin {"claiming", "idle", "stopped"}
        /\ UNCHANGED <<attempts, stored>>
    BY <1>5 DEF MarkPublished, Reschedule, MarkDeadLettered, Condemned, kafkaVars
  <2>2. e \in Events /\ status[e] = "pending"
    BY <2>1, CommitterIsCurrent DEF LeasesAreUnique
  <2>3. \/ status' = [status EXCEPT ![e] = "published"] /\ stored[e] # {}
        \/ status' = [status EXCEPT ![e] = "dead"]
        \/ status' = status
    BY <1>5 DEF MarkPublished, Reschedule, MarkDeadLettered, SendsMatchProgress
  <2>4. \A f \in Events \ {e} : available'[f] = available[f] /\ lastError'[f] = lastError[f]
    BY <1>5 DEF MarkPublished, Reschedule, MarkDeadLettered, TypeOK
  <2>5. \A f \in Events \ {e} : owner'[f] = owner[f]
    BY <2>1 DEF ReleaseRow, TypeOK
  <2> QED
    BY <2>1, <2>2, <2>3, <2>4, <2>5
<1>6. ASSUME NEW w \in Workers, Work(w) \/ EmptyCycle(w) \/ Abort(w) \/ Restart(w)
      PROVE  \/ CommitClaim(w)
             \/ MarkPublished(w) \/ Reschedule(w) \/ MarkDeadLettered(w)
             \/ UNCHANGED <<status, available, lastError, stored, owner, attempts>>
  BY <1>4, <1>6 DEF Work
<1>7. Tick => UNCHANGED <<status, available, lastError, stored, owner, attempts>>
  BY DEF Tick, rowVars, kafkaVars
<1> QED
  BY <1>1, <1>2, <1>3, <1>5, <1>6, <1>7 DEF Next

(* Published and dead rows are never touched again. *)
THEOREM TerminalIsFinal == Spec => TerminalRowsAreFinal
<1> DEFINE Final ==
        \A e \in Events : status[e] \in Terminal =>
            UNCHANGED <<status[e], owner[e], available[e], attempts[e], lastError[e]>>
<1>1. OutboxInv /\ Next => Final
  <2> SUFFICES ASSUME OutboxInv, Next, NEW f \in Events, status[f] \in Terminal
               PROVE  UNCHANGED <<status[f], owner[f], available[f], attempts[f],
                                  lastError[f]>>
    OBVIOUS
  <2>1. status \in [Events -> Statuses]
    BY DEF OutboxInv, TypeOK
  <2> QED
    BY <2>1, RowSteps DEF Terminal, rowVars
<1>2. UNCHANGED vars => Final
  BY DEF vars, rowVars
<1> QED
  BY <1>1, <1>2, Invariance, PTL DEF Spec, TerminalRowsAreFinal

(* Every step of the workers is a step of the outbox's promise, or none. *)
THEOREM PublisherImplementsDelivery == Spec => ImplementsDelivery
<1>1. Init => Delivery!Init
  BY DEF Init, Delivery!Init
<1>2. OutboxInv /\ Next => Delivery!Next \/ UNCHANGED Delivery!vars
  <2> SUFFICES ASSUME OutboxInv, Next
               PROVE  Delivery!Next \/ UNCHANGED Delivery!vars
    OBVIOUS
  <2>1. ASSUME NEW e \in Events, status[e] = "absent",
               status' = [status EXCEPT ![e] = "pending"], UNCHANGED stored
        PROVE  Delivery!Next
    BY <2>1 DEF Delivery!Next, Delivery!Register
  <2>2. ASSUME NEW e \in Events, NEW n \in 1 .. MaxAttempts, status[e] # "absent",
               n \notin stored[e], stored' = [stored EXCEPT ![e] = @ \cup {n}],
               UNCHANGED rowVars
        PROVE  Delivery!Next
    BY <2>2 DEF Delivery!Next, Delivery!Deliver, rowVars
  <2>3. ASSUME NEW e \in Events, status[e] = "pending", UNCHANGED stored,
               \/ status' = [status EXCEPT ![e] = "published"] /\ stored[e] # {}
               \/ status' = [status EXCEPT ![e] = "dead"]
        PROVE  Delivery!Next
    BY <2>3 DEF Delivery!Next, Delivery!Settle, Delivery!Publish, Delivery!DeadLetter
  <2> QED
    BY <2>1, <2>2, <2>3, RowSteps DEF Delivery!vars
<1>3. UNCHANGED vars => UNCHANGED Delivery!vars
  BY DEF vars, rowVars, kafkaVars, Delivery!vars
<1> QED
  BY <1>1, <1>2, <1>3, Invariance, PTL DEF Spec, ImplementsDelivery, Delivery!Safe
=============================================================================
