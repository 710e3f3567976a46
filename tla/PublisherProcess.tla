---------------------------- MODULE PublisherProcess ----------------------------
(***************************************************************************)
(* The command factoryflow-p01-publish-outbox: one process from its start  *)
(* to its exit code, with the signals it gets.                             *)
(*                                                                         *)
(* All of it runs in the main thread: the cycles of run_once, the calls of *)
(* publish() with the callbacks inside poll(), and the signal handlers,    *)
(* which Python runs on top of the main frame between two of its           *)
(* instructions.  The handler calls stop_requested.set(); the loop calls   *)
(* is_set() and wait() of the same threading.Event, whose set() and wait() *)
(* take its Condition's lock, which is not reentrant.                      *)
(***************************************************************************)
EXTENDS KafkaPublisher, Sequences

CONSTANTS
    BatchSize,   \* policy.batch_size
    MaxSignals   \* bound: signals sent to the process
ASSUME ProcessAssumption == BatchSize \in Nat \ {0} /\ MaxSignals \in Nat

VARIABLES
    runOnce,    \* --run-once
    phase,      \* where the main frame stands
    batch,      \* the claimed events that are not settled
    changed,    \* report.changed of the last cycle
    recorded,   \* the calls whose outcome is committed
    unreported, \* a cycle has begun whose report is not written
    exit,       \* the exit code, or how the process ended without one
    installed,  \* the signals whose handler is request_stop
    handlers,   \* the handler frames on top of the main frame
    stop,       \* stop_requested is set
    lock,       \* the frame that holds the lock of stop_requested, 0 if free
    signals     \* signals sent so far

cycleVars  == <<runOnce, batch, changed, recorded, unreported>>
signalVars == <<installed, handlers, stop, lock, signals>>
vars == <<kafkaVars, cycleVars, phase, exit, signalVars>>

(*   starting    reading its configuration, opening the pool                *)
(*   installing  the handler of SIGTERM is installed, that of SIGINT not    *)
(*   checking    at "while not stop_requested.is_set()"                     *)
(*   claiming    in claim_pending                                           *)
(*   processing  before the next event of the batch                         *)
(*   publishing  in publish()                                               *)
(*   settling    about to commit the outcome of the event                   *)
(*   reporting   the cycle is over                                          *)
(*   entering    in wait(), holding the lock                                *)
(*   waiting     in wait(), the lock released                               *)
(*   leaving     in wait(), holding the lock again                          *)
(*   restoring   in the finally clause of _run_continuously                 *)
(*   closing     in the finally clause of main                              *)
Phases == {"starting", "installing", "checking", "claiming", "processing",
           "publishing", "settling", "reporting", "entering", "waiting",
           "leaving", "restoring", "closing", "exited"}

Exits == {"none", "success", "configuration", "database", "consistency",
          "interrupted", "killed", "uncaught"}

Signals == {"SIGTERM", "SIGINT"}

Free == 0
MainFrame == 1

(* The frame on top of the stack. *)
Top == Len(handlers) + 1

(* The main frame runs, no handler is on top of it. *)
Running == handlers = <<>>

Init ==
    /\ InitKafka
    /\ runOnce \in BOOLEAN
    /\ phase = "starting"
    /\ batch = 0
    /\ changed = FALSE
    /\ recorded = {}
    /\ unreported = FALSE
    /\ exit = "none"
    /\ installed = {}
    /\ handlers = <<>>
    /\ stop = FALSE
    /\ lock = Free
    /\ signals = 0

-----------------------------------------------------------------------------
(* Start and end *)

Go(from, to) == Running /\ phase = from /\ phase' = to

(* An exception leaves the try clause, or the result is decided.  The line  *)
(* on stderr is taken to be written.                                       *)
Leave(code) ==
    /\ phase' = IF installed = {} THEN "closing" ELSE "restoring"
    /\ exit' = code

(* The configuration is refused, or the pool does not open in time. *)
FailToStart(code) ==
    /\ Running /\ phase = "starting"
    /\ code \in {"configuration", "database"}
    /\ Leave(code)
    /\ UNCHANGED <<kafkaVars, cycleVars, signalVars>>

(* --run-once goes straight into its cycle, without handlers. *)
StartOnce ==
    /\ runOnce
    /\ Go("starting", "claiming")
    /\ UNCHANGED <<kafkaVars, cycleVars, exit, signalVars>>

InstallTerm ==
    /\ ~runOnce
    /\ Go("starting", "installing")
    /\ installed' = {"SIGTERM"}
    /\ UNCHANGED <<kafkaVars, cycleVars, exit, handlers, stop, lock, signals>>

InstallInt ==
    /\ Go("installing", "checking")
    /\ installed' = Signals
    /\ UNCHANGED <<kafkaVars, cycleVars, exit, handlers, stop, lock, signals>>

RestoreTerm ==
    /\ "SIGTERM" \in installed
    /\ Go("restoring", "restoring")
    /\ installed' = installed \ {"SIGTERM"}
    /\ UNCHANGED <<kafkaVars, cycleVars, exit, handlers, stop, lock, signals>>

RestoreInt ==
    /\ "SIGTERM" \notin installed
    /\ Go("restoring", "closing")
    /\ installed' = {}
    /\ UNCHANGED <<kafkaVars, cycleVars, exit, handlers, stop, lock, signals>>

(* The pool is closed and the process ends with its code. *)
Close ==
    /\ Go("closing", "exited")
    /\ UNCHANGED <<kafkaVars, cycleVars, exit, signalVars>>

-----------------------------------------------------------------------------
(* The loop and its idle wait *)

(* How a line that cannot be written ends the process: a closed stdout     *)
(* raises ValueError, which passes for an error of the configuration, and  *)
(* no except clause is for a broken pipe.                                  *)
OutputErrors == {"configuration", "uncaught"}

(* The loop is over; its last line of output may not be writable. *)
StopSeen(code) ==
    /\ Running /\ phase = "checking"
    /\ stop
    /\ code \in {"success"} \cup OutputErrors
    /\ Leave(code)
    /\ UNCHANGED <<kafkaVars, cycleVars, signalVars>>

NextCycle ==
    /\ ~stop
    /\ Go("checking", "claiming")
    /\ UNCHANGED <<kafkaVars, cycleVars, exit, signalVars>>

FinishOnce ==
    /\ Running /\ phase = "reporting"
    /\ runOnce
    /\ Leave("success")
    /\ unreported' = FALSE
    /\ UNCHANGED <<kafkaVars, runOnce, batch, changed, recorded, signalVars>>

(* The report cannot be written. *)
ReportFails(code) ==
    /\ Running /\ phase = "reporting"
    /\ code \in OutputErrors
    /\ Leave(code)
    /\ UNCHANGED <<kafkaVars, cycleVars, signalVars>>

(* Mutant: the stop request is looked at after an idle wait only. *)
CycleAgainAtOnce ==
    /\ ~runOnce /\ changed
    /\ Go("reporting", "claiming")
    /\ unreported' = FALSE
    /\ UNCHANGED <<kafkaVars, runOnce, batch, changed, recorded, exit, signalVars>>

CycleAgain ==
    /\ ~runOnce /\ changed
    /\ Go("reporting", "checking")
    /\ unreported' = FALSE
    /\ UNCHANGED <<kafkaVars, runOnce, batch, changed, recorded, exit, signalVars>>

(* Event.wait() has taken the lock. *)
EnterWait ==
    /\ ~runOnce /\ ~changed
    /\ Go("reporting", "entering")
    /\ unreported' = FALSE
    /\ lock = Free
    /\ lock' = MainFrame
    /\ UNCHANGED <<kafkaVars, runOnce, batch, changed, recorded, exit,
                   installed, handlers, stop, signals>>

(* The flag is not set: the lock is released until the wait is over. *)
Wait ==
    /\ ~stop
    /\ Go("entering", "waiting")
    /\ lock' = Free
    /\ UNCHANGED <<kafkaVars, cycleVars, exit, installed, handlers, stop, signals>>

NoWait ==
    /\ stop
    /\ Go("entering", "leaving")
    /\ UNCHANGED <<kafkaVars, cycleVars, exit, signalVars>>

(* set() notified, or the time is over: the lock is taken again. *)
Wake ==
    /\ Go("waiting", "leaving")
    /\ lock = Free
    /\ lock' = MainFrame
    /\ UNCHANGED <<kafkaVars, cycleVars, exit, installed, handlers, stop, signals>>

LeaveWait ==
    /\ Go("leaving", "checking")
    /\ lock' = Free
    /\ UNCHANGED <<kafkaVars, cycleVars, exit, installed, handlers, stop, signals>>

-----------------------------------------------------------------------------
(* A cycle *)

Claim(n) ==
    /\ Go("claiming", "processing")
    /\ batch' = n
    /\ changed' = (n > 0)
    /\ unreported' = TRUE
    /\ UNCHANGED <<kafkaVars, runOnce, recorded, exit, signalVars>>

(* The store fails, or a claimed row is not what was asked for. *)
ClaimFails(code) ==
    /\ Running /\ phase = "claiming"
    /\ code \in {"database", "consistency"}
    /\ Leave(code)
    /\ UNCHANGED <<kafkaVars, cycleVars, signalVars>>

(* The attempts of the event are used up: it is dead-lettered unpublished. *)
DeadLetterUnpublished ==
    /\ batch > 0
    /\ Go("processing", "processing")
    /\ batch' = batch - 1
    /\ UNCHANGED <<kafkaVars, runOnce, changed, recorded, unreported, exit, signalVars>>

DeadLetteringFails ==
    /\ Running /\ phase = "processing"
    /\ batch > 0
    /\ Leave("database")
    /\ UNCHANGED <<kafkaVars, cycleVars, signalVars>>

BeginPublishing ==
    /\ batch > 0
    /\ Go("processing", "publishing")
    /\ Produce \/ \E v \in {"retryable", "final"} : Refuse(v)
    /\ UNCHANGED <<cycleVars, exit, signalVars>>

ContinuePublishing ==
    /\ Running /\ phase = "publishing"
    /\ Awaiting
    /\ UNCHANGED <<cycleVars, phase, exit, signalVars>>

(* publish() has returned or raised. *)
EndPublishing ==
    /\ loop = "idle"
    /\ Go("publishing", "settling")
    /\ UNCHANGED <<kafkaVars, cycleVars, exit, signalVars>>

(* The outcome of the event is committed. *)
Settle ==
    /\ Go("settling", "processing")
    /\ batch' = batch - 1
    /\ recorded' = recorded \cup {call}
    /\ UNCHANGED <<kafkaVars, runOnce, changed, unreported, exit, signalVars>>

(* Mutant: mark_published is wrapped like the other outcomes. *)
SettleFailsAlike ==
    /\ Running /\ phase = "settling"
    /\ Leave("database")
    /\ recorded' \in {recorded, recorded \cup {call}}
    /\ UNCHANGED <<kafkaVars, runOnce, batch, changed, unreported, signalVars>>

(* The store fails, before its commit or only to tell of it. *)
SettleFails ==
    /\ Running /\ phase = "settling"
    /\ Leave(IF answer[call] = "receipt" THEN "consistency" ELSE "database")
    /\ recorded' \in {recorded, recorded \cup {call}}
    /\ UNCHANGED <<kafkaVars, runOnce, batch, changed, unreported, signalVars>>

(* Mutant: a stop request ends the cycle before its next event. *)
EndCycleOnStop ==
    /\ batch = 0 \/ stop
    /\ Go("processing", "reporting")
    /\ UNCHANGED <<kafkaVars, cycleVars, exit, signalVars>>

EndCycle ==
    /\ batch = 0
    /\ Go("processing", "reporting")
    /\ UNCHANGED <<kafkaVars, cycleVars, exit, signalVars>>

-----------------------------------------------------------------------------
(* Signals *)

(* Python runs request_stop on top of whatever runs. *)
Interrupt(sig) ==
    /\ sig \in installed
    /\ phase # "exited" /\ signals < MaxSignals
    /\ handlers' = Append(handlers, "acquiring")
    /\ signals' = signals + 1
    /\ UNCHANGED <<kafkaVars, cycleVars, phase, exit, installed, stop, lock>>

(* set() takes the lock and sets the flag. *)
Set ==
    /\ ~Running /\ handlers[Len(handlers)] = "acquiring"
    /\ lock = Free
    /\ lock' = Top
    /\ stop' = TRUE
    /\ handlers' = [handlers EXCEPT ![Len(handlers)] = "setting"]
    /\ UNCHANGED <<kafkaVars, cycleVars, phase, exit, installed, signals>>

HandlerReturns ==
    /\ ~Running /\ handlers[Len(handlers)] = "setting"
    /\ lock' = Free
    /\ handlers' = SubSeq(handlers, 1, Len(handlers) - 1)
    /\ UNCHANGED <<kafkaVars, cycleVars, phase, exit, installed, stop, signals>>

(* Python's own handler of SIGINT raises out of the frames it is on top of.*)
KeyboardInterrupt ==
    /\ "SIGINT" \notin installed
    /\ phase # "exited" /\ signals < MaxSignals
    /\ phase' = IF phase = "closing" THEN "exited" ELSE "closing"
    /\ exit' = "interrupted"
    /\ handlers' = <<>>
    /\ lock' = Free
    /\ signals' = signals + 1
    /\ UNCHANGED <<kafkaVars, cycleVars, installed, stop>>

(* The default action of SIGTERM. *)
Killed ==
    /\ "SIGTERM" \notin installed
    /\ phase # "exited" /\ signals < MaxSignals
    /\ phase' = "exited"
    /\ exit' = "killed"
    /\ signals' = signals + 1
    /\ UNCHANGED <<kafkaVars, cycleVars, installed, handlers, stop, lock>>

-----------------------------------------------------------------------------

StartAndEnd ==
    \/ \E code \in {"configuration", "database"} : FailToStart(code)
    \/ StartOnce \/ InstallTerm \/ InstallInt
    \/ RestoreTerm \/ RestoreInt \/ Close

Loop ==
    \/ \E code \in {"success"} \cup OutputErrors : StopSeen(code)
    \/ \E code \in OutputErrors : ReportFails(code)
    \/ NextCycle \/ FinishOnce \/ CycleAgain

IdleWait == EnterWait \/ Wait \/ NoWait \/ Wake \/ LeaveWait

Cycle ==
    \/ \E n \in 0..BatchSize : n <= MaxCalls - call /\ Claim(n)
    \/ \E code \in {"database", "consistency"} : ClaimFails(code)
    \/ DeadLetterUnpublished \/ DeadLetteringFails
    \/ BeginPublishing \/ ContinuePublishing \/ EndPublishing
    \/ Settle \/ SettleFails \/ EndCycle

MainThread == StartAndEnd \/ Loop \/ IdleWait \/ Cycle \/ Set \/ HandlerReturns

Outside ==
    /\ phase # "exited"
    /\ Delivering
    /\ UNCHANGED <<cycleVars, phase, exit, signalVars>>

(* The step of Outside that makes a call overdue. *)
ClockAdvances ==
    /\ phase # "exited"
    /\ TimePasses
    /\ UNCHANGED <<cycleVars, phase, exit, signalVars>>

Signalled == KeyboardInterrupt \/ Killed \/ \E sig \in Signals : Interrupt(sig)

Next == MainThread \/ Outside \/ Signalled

Spec == Init /\ [][Next]_vars

(* The scheduler runs the main thread, poll() and the idle wait return,     *)
(* and the clock reaches the deadline of a call.                           *)
FairSpec ==
    /\ Spec
    /\ WF_vars(MainThread)
    /\ WF_vars(ClockAdvances)

-----------------------------------------------------------------------------
(* Properties *)

TypeOK ==
    /\ KafkaTypeOK
    /\ runOnce \in BOOLEAN
    /\ phase \in Phases
    /\ batch \in 0..BatchSize
    /\ changed \in BOOLEAN
    /\ recorded \subseteq Calls
    /\ unreported \in BOOLEAN
    /\ exit \in Exits
    /\ installed \subseteq Signals
    /\ handlers \in Seq({"acquiring", "setting"})
    /\ stop \in BOOLEAN
    /\ lock \in Nat
    /\ signals \in 0..MaxSignals

Ended == phase = "exited"

LeavingPhases == {"restoring", "closing", "exited"}

(* The exit code 0 says that nothing was left half done: every claimed      *)
(* event is settled, the outcome of every call is committed, and the        *)
(* report of every cycle is written.                                       *)
ZeroMeansSettled ==
    exit = "success" => batch = 0 /\ recorded = 1..call /\ ~unreported

(* A process that leaves without the record of an acknowledged message says *)
(* so with the consistency code, unless a signal took its exit code away.  *)
LostReceiptIsReported ==
    phase \in LeavingPhases /\ (\E k \in Calls : answer[k] = "receipt" /\ k \notin recorded) =>
        exit \in {"consistency", "interrupted", "killed"}

Settling == {"publishing", "settling"}

(* Outside publish() no call is open.  The outcome of every call is         *)
(* committed except that of the event in hand, outside a cycle nothing is   *)
(* claimed, and outside of it and its report nothing is unreported.        *)
SettledSoFar ==
    /\ phase \in LeavingPhases <=> exit # "none"
    /\ phase \notin LeavingPhases \cup {"publishing"} => loop = "idle"
    /\ phase \notin LeavingPhases \cup Settling => recorded = 1..call
    /\ phase \in Settling => recorded = 1..(call - 1) /\ call > 0 /\ batch > 0
    /\ phase \notin LeavingPhases \cup Settling \cup {"processing"} => batch = 0
    /\ phase \notin LeavingPhases \cup Settling \cup {"processing", "reporting"} =>
         ~unreported

ProcessInv ==
    TypeOK /\ KafkaInv /\ SettledSoFar /\ ZeroMeansSettled /\ LostReceiptIsReported

(* The handler waits for a lock that a frame below it holds. *)
SelfDeadlock == ~Running /\ handlers[Len(handlers)] = "acquiring" /\ lock # Free

(* A signal that reaches the handler stops the process, unless it finds the *)
(* lock taken by the frame it interrupted.                                 *)
StopEnds == ~Running ~> Ended \/ SelfDeadlock

(* A call of publish() comes to an end, also when no poll() ever serves the *)
(* report of its message.                                                  *)
PublishEnds == phase = "publishing" ~> phase # "publishing" \/ SelfDeadlock

(* docs/kafka-outbox-publisher.md:155: the continuous mode "reacts to       *)
(* SIGINT and SIGTERM".                                                    *)
StopIsHonoured == ~Running ~> Ended
================================================================================
