----------------------------- MODULE KafkaPublisher -----------------------------
(***************************************************************************)
(* ConfluentKafkaEventPublisher: the calls of publish() on one producer.   *)
(*                                                                         *)
(* A call hands its message to librdkafka and polls until the delivery     *)
(* callback of this message has run or the deadline has passed.  Callbacks *)
(* run inside poll(), in the calling thread.  A message whose call gave up *)
(* stays in librdkafka: its report arrives in a poll() of a later call.    *)
(* Each call has callback variables of its own.                            *)
(***************************************************************************)
EXTENDS Naturals

CONSTANT MaxCalls  \* bound: calls of publish() on one producer
ASSUME CallsAssumption == MaxCalls \in Nat

VARIABLES
    call,     \* the calls of publish() so far
    loop,     \* where the current call stands
    overdue,  \* its deadline has passed
    message,  \* message[k]: where the message of call k is
    report,   \* report[k]: librdkafka's report on it, to be served by poll()
    outcome,  \* outcome[k]: what the callback of call k has stored
    answer    \* answer[k]: what call k returned or raised

kafkaVars == <<call, loop, overdue, message, report, outcome, answer>>

Calls == 1..MaxCalls

(*   checking  at "while not completed.is_set()"                            *)
(*   timing    computing the time that remains                              *)
(*   polling   in poll()                                                    *)
Loops == {"idle", "checking", "timing", "polling"}

(* confirmed with the expected coordinates or misplaced ones; an error that *)
(* is retriable and not fatal, or another one.                              *)
Reports == {"confirmed", "misplaced", "retriable", "fatal"}

Answers == {"receipt", "retryable", "final"}

(* What publish() makes of a report. *)
Verdict(r) ==
    CASE r = "confirmed" -> "receipt"
      [] r = "retriable" -> "retryable"
      [] OTHER -> "final"

InitKafka ==
    /\ call = 0
    /\ loop = "idle"
    /\ overdue = FALSE
    /\ message = [k \in Calls |-> "none"]
    /\ report = [k \in Calls |-> "none"]
    /\ outcome = [k \in Calls |-> "none"]
    /\ answer = [k \in Calls |-> "none"]

-----------------------------------------------------------------------------
(* publish() *)

(* The event is not valid, the local queue is full or produce() raises.    *)
Refuse(v) ==
    /\ loop = "idle" /\ call < MaxCalls
    /\ v \in {"retryable", "final"}
    /\ call' = call + 1
    /\ answer' = [answer EXCEPT ![call + 1] = v]
    /\ UNCHANGED <<loop, overdue, message, report, outcome>>

(* The message is in the producer's queue and the deadline is set. *)
Produce ==
    /\ loop = "idle" /\ call < MaxCalls
    /\ call' = call + 1
    /\ message' = [message EXCEPT ![call + 1] = "queued"]
    /\ overdue' = FALSE
    /\ loop' = "checking"
    /\ UNCHANGED <<report, outcome, answer>>

Return(v) ==
    /\ answer' = [answer EXCEPT ![call] = v]
    /\ loop' = "idle"

(* The callback has run: its error or its message decides. *)
Completed ==
    /\ loop = "checking"
    /\ outcome[call] # "none"
    /\ Return(Verdict(outcome[call]))
    /\ UNCHANGED <<call, overdue, message, report, outcome>>

NotCompleted ==
    /\ loop = "checking"
    /\ outcome[call] = "none"
    /\ loop' = "timing"
    /\ UNCHANGED <<call, overdue, message, report, outcome, answer>>

TimeOut ==
    /\ loop = "timing"
    /\ overdue
    /\ Return("retryable")
    /\ UNCHANGED <<call, overdue, message, report, outcome>>

TimeRemains ==
    /\ loop = "timing"
    /\ ~overdue
    /\ loop' = "polling"
    /\ UNCHANGED <<call, overdue, message, report, outcome, answer>>

(* The messages that wait for poll() to serve their report. *)
Reported == {k \in Calls : report[k] # "none" /\ outcome[k] = "none"}

(* Mutant: the callback variables belong to the publisher, not to the call. *)
PollShared ==
    /\ loop = "polling"
    /\ \E served \in SUBSET Reported :
          \/ served = {} /\ UNCHANGED outcome
          \/ \E k \in served : outcome' = [outcome EXCEPT ![call] = report[k]]
    /\ loop' = "checking"
    /\ UNCHANGED <<call, overdue, message, report, answer>>

(* Mutant: poll() is trusted to last until the deadline: it is not looked   *)
(* at whether the callback has run when the time is over.                   *)
PollUntilDeadline ==
    /\ loop = "polling"
    /\ \E served \in SUBSET Reported :
          outcome' = [k \in Calls |-> IF k \in served THEN report[k] ELSE outcome[k]]
    /\ loop' = IF overdue THEN "timing" ELSE "checking"
    /\ UNCHANGED <<call, overdue, message, report, answer>>

(* Mutant: the deadline is set anew with every poll(). *)
PollRestartsDeadline ==
    /\ loop = "polling"
    /\ \E served \in SUBSET Reported :
          outcome' = [k \in Calls |-> IF k \in served THEN report[k] ELSE outcome[k]]
    /\ overdue' = FALSE
    /\ loop' = "checking"
    /\ UNCHANGED <<call, message, report, answer>>

(* poll() returns, having run the callbacks of some messages. *)
Poll ==
    /\ loop = "polling"
    /\ \E served \in SUBSET Reported :
          outcome' = [k \in Calls |-> IF k \in served THEN report[k] ELSE outcome[k]]
    /\ loop' = "checking"
    /\ UNCHANGED <<call, overdue, message, report, answer>>

-----------------------------------------------------------------------------
(* Time, librdkafka and the broker *)

TimePasses ==
    /\ loop # "idle"
    /\ ~overdue
    /\ overdue' = TRUE
    /\ UNCHANGED <<call, loop, message, report, outcome, answer>>

(* The broker stores a message, perhaps one that was reported as failed.   *)
BrokerStores(k) ==
    /\ message[k] = "queued"
    /\ message' = [message EXCEPT ![k] = "stored"]
    /\ UNCHANGED <<call, loop, overdue, report, outcome, answer>>

(* librdkafka decides about a message.  With acks=all a confirmed message  *)
(* is stored; one with an error may be stored or not.                      *)
ReportDelivery(k, r) ==
    /\ message[k] # "none"
    /\ report[k] = "none"
    /\ r \in {"confirmed", "misplaced"} => message[k] = "stored"
    /\ report' = [report EXCEPT ![k] = r]
    /\ UNCHANGED <<call, loop, overdue, message, outcome, answer>>

-----------------------------------------------------------------------------

Awaiting == Completed \/ NotCompleted \/ TimeOut \/ TimeRemains \/ Poll

Delivering ==
    \/ TimePasses
    \/ \E k \in Calls : BrokerStores(k) \/ \E r \in Reports : ReportDelivery(k, r)

KafkaNext ==
    \/ \E v \in {"retryable", "final"} : Refuse(v)
    \/ Produce \/ Awaiting \/ Delivering

KafkaSpec == InitKafka /\ [][KafkaNext]_kafkaVars

-----------------------------------------------------------------------------
(* Properties *)

KafkaTypeOK ==
    /\ call \in 0..MaxCalls
    /\ loop \in Loops
    /\ overdue \in BOOLEAN
    /\ message \in [Calls -> {"none", "queued", "stored"}]
    /\ report \in [Calls -> Reports \cup {"none"}]
    /\ outcome \in [Calls -> Reports \cup {"none"}]
    /\ answer \in [Calls -> Answers \cup {"none"}]

(* A callback stores what librdkafka reported on its own message, and a     *)
(* confirmation is true.                                                   *)
ReportsAreTrue ==
    \A k \in Calls :
        /\ outcome[k] # "none" => outcome[k] = report[k]
        /\ report[k] \in {"confirmed", "misplaced"} => message[k] = "stored"

(* The calls are made one after the other, and the last one is open while   *)
(* the loop runs.                                                          *)
OneCallOpen ==
    /\ \A k \in Calls : k > call => message[k] = "none" /\ answer[k] = "none"
    /\ \A k \in Calls : k < call => answer[k] # "none"
    /\ loop = "idle" => (call > 0 => answer[call] # "none")
    /\ loop # "idle" => call > 0 /\ answer[call] = "none"
    /\ loop \in {"timing", "polling"} => outcome[call] = "none"
    /\ \A k \in Calls : message[k] = "none" => report[k] = "none"

KafkaInv == KafkaTypeOK /\ ReportsAreTrue /\ OneCallOpen

(* A call is decided by the report on its own message and by nothing else: *)
(* never by the late report on an abandoned one, and by the deadline only  *)
(* when its own report has not been served, even in the last poll().       *)
OwnReportDecides ==
    [][\A k \in Calls :
         answer[k] = "none" /\ answer'[k] # "none" /\ message[k] # "none" =>
             answer'[k] = IF outcome[k] = "none" \/ outcome[k] # report[k]
                          THEN "retryable" ELSE Verdict(report[k])]_kafkaVars

Publication == INSTANCE EventPublication WITH
                   asked <- call,
                   stored <- {k \in Calls : message[k] = "stored"}

(* The calls keep the promise of the port. *)
ImplementsPublication == Publication!Spec
================================================================================
