------------------------- MODULE PublisherProcess_proofs -------------------------
(***************************************************************************)
(* Theorems about the publisher process and its calls of publish(), for    *)
(* every number of calls, batch size and number of signals.                *)
(*                                                                         *)
(* A step of the process is a step of the Kafka publisher or leaves it     *)
(* alone (ProcessIsKafka): what holds of the publisher holds in the        *)
(* process.  SettledSoFar adds how far the outcomes are committed where    *)
(* the main frame stands.                                                  *)
(***************************************************************************)
EXTENDS PublisherProcess, SequenceTheorems, TLAPS

-----------------------------------------------------------------------------
(* The Kafka publisher *)

LEMMA KafkaInit == InitKafka => KafkaInv
<1> SUFFICES ASSUME InitKafka PROVE KafkaInv
  OBVIOUS
<1>1. KafkaTypeOK
  <2>1. overdue \in BOOLEAN
    BY Zenon DEF InitKafka
  <2> QED BY <2>1, CallsAssumption DEF InitKafka, KafkaTypeOK, Loops, Reports, Answers
<1>2. ReportsAreTrue
  BY DEF InitKafka, ReportsAreTrue
<1>3. OneCallOpen
  BY DEF InitKafka, OneCallOpen, Calls
<1> QED BY <1>1, <1>2, <1>3 DEF KafkaInv

LEMMA VerdictType == ASSUME NEW r \in Reports PROVE Verdict(r) \in Answers
  BY DEF Verdict, Reports, Answers

LEMMA KafkaStep == KafkaInv /\ [KafkaNext]_kafkaVars => KafkaInv'
<1> SUFFICES ASSUME KafkaInv, [KafkaNext]_kafkaVars PROVE KafkaInv'
  OBVIOUS
<1> USE CallsAssumption DEF KafkaInv, KafkaTypeOK, ReportsAreTrue, OneCallOpen,
        Loops, Reports, Answers, Calls
<1>1. ASSUME NEW v \in {"retryable", "final"}, Refuse(v) PROVE KafkaInv'
  BY <1>1 DEF Refuse
<1>2. CASE Produce
  <2>1. KafkaTypeOK'
    <3>1. overdue' \in BOOLEAN
      BY <1>2, Zenon DEF Produce
    <3> QED BY <1>2, <3>1 DEF Produce
  <2>2. ReportsAreTrue'
    BY <1>2 DEF Produce
  <2>3. OneCallOpen'
    BY <1>2 DEF Produce
  <2> QED BY <2>1, <2>2, <2>3
<1>3. CASE Completed
  <2>1. Verdict(outcome[call]) \in Answers
    BY <1>3, VerdictType DEF Completed
  <2> QED BY <1>3, <2>1 DEF Completed, Return
<1>4. CASE NotCompleted
  BY <1>4 DEF NotCompleted
<1>5. CASE TimeOut
  BY <1>5 DEF TimeOut, Return
<1>6. CASE TimeRemains
  BY <1>6 DEF TimeRemains
<1>7. CASE Poll
  BY <1>7 DEF Poll, Reported
<1>8. CASE TimePasses
  BY <1>8 DEF TimePasses
<1>9. ASSUME NEW k \in Calls, BrokerStores(k) PROVE KafkaInv'
  BY <1>9 DEF BrokerStores
<1>10. ASSUME NEW k \in Calls, NEW r \in Reports, ReportDelivery(k, r) PROVE KafkaInv'
  BY <1>10 DEF ReportDelivery
<1>11. CASE UNCHANGED kafkaVars
  BY <1>11 DEF kafkaVars
<1> QED
  BY <1>1, <1>2, <1>3, <1>4, <1>5, <1>6, <1>7, <1>8, <1>9, <1>10, <1>11
     DEF KafkaNext, Awaiting, Delivering

(* How a step answers an open call whose message was produced. *)
AnswersByOwnReport ==
    \A k \in Calls :
        answer[k] = "none" /\ answer'[k] # "none" /\ message[k] # "none" =>
            answer'[k] = IF outcome[k] = "none" \/ outcome[k] # report[k]
                         THEN "retryable" ELSE Verdict(report[k])

LEMMA AnswerStep == KafkaInv /\ [KafkaNext]_kafkaVars => AnswersByOwnReport
<1> SUFFICES ASSUME KafkaInv, [KafkaNext]_kafkaVars PROVE AnswersByOwnReport
  OBVIOUS
<1> USE DEF AnswersByOwnReport, KafkaInv, KafkaTypeOK, ReportsAreTrue, OneCallOpen, Calls
<1>1. ASSUME NEW v \in {"retryable", "final"}, Refuse(v) PROVE AnswersByOwnReport
  <2>1. message[call + 1] = "none"
    BY <1>1, CallsAssumption DEF Refuse
  <2> QED BY <1>1, <2>1 DEF Refuse
<1>2. CASE Completed
  <2>1. /\ call \in Calls /\ outcome[call] = report[call]
        /\ answer' = [answer EXCEPT ![call] = Verdict(outcome[call])]
    BY <1>2, CallsAssumption DEF Completed, Return
  <2> QED BY <1>2, <2>1 DEF Completed
<1>3. CASE TimeOut
  <2>1. /\ call \in Calls /\ outcome[call] = "none"
        /\ answer' = [answer EXCEPT ![call] = "retryable"]
    BY <1>3, CallsAssumption DEF TimeOut, Return
  <2> QED BY <1>3, <2>1 DEF TimeOut
<1>4. CASE UNCHANGED answer
  BY <1>4
<1>5. \/ \E v \in {"retryable", "final"} : Refuse(v)
      \/ Completed \/ TimeOut \/ UNCHANGED answer
  BY DEF KafkaNext, Awaiting, Delivering, Produce, NotCompleted, TimeRemains, Poll,
         TimePasses, BrokerStores, ReportDelivery, kafkaVars
<1> QED BY <1>1, <1>2, <1>3, <1>4, <1>5

LEMMA PublicationInit == InitKafka => Publication!Init
  BY CallsAssumption DEF InitKafka, Publication!Init, Calls

LEMMA PublicationStep ==
  KafkaInv /\ [KafkaNext]_kafkaVars => [Publication!Next]_(Publication!vars)
<1> SUFFICES ASSUME KafkaInv, [KafkaNext]_kafkaVars
             PROVE Publication!Next \/ UNCHANGED Publication!vars
  OBVIOUS
<1> DEFINE st == {k \in Calls : message[k] = "stored"}
<1> USE CallsAssumption DEF KafkaInv, KafkaTypeOK, ReportsAreTrue, OneCallOpen, Calls
<1>1. ASSUME NEW v \in {"retryable", "final"}, Refuse(v) PROVE Publication!Next
  <2>1. st' = st
    BY <1>1 DEF Refuse
  <2>2. answer' = [answer EXCEPT ![call'] = v]
    BY <1>1 DEF Refuse
  <2>3. Publication!Idle /\ call < MaxCalls /\ call' = call + 1
    BY <1>1 DEF Refuse, Publication!Idle
  <2>4. Publication!Refuse
    BY <2>1, <2>2, <2>3, Zenon DEF Publication!Refuse
  <2> QED BY <2>4 DEF Publication!Next
<1>2. CASE Produce
  <2>1. st' = st
    BY <1>2 DEF Produce
  <2> QED BY <1>2, <2>1 DEF Produce, Publication!Next, Publication!Ask, Publication!Idle
<1>3. CASE Completed
  <2>1. call \in Calls /\ outcome[call] = report[call] /\ outcome[call] # "none"
    BY <1>3 DEF Completed
  <2>2. Verdict(outcome[call]) \in {"receipt", "retryable", "final"}
    BY <2>1, VerdictType DEF Answers, Reports
  <2>3. Verdict(outcome[call]) = "receipt" => call \in st
    BY <2>1 DEF Verdict
  <2>4. Publication!Answer(Verdict(outcome[call]))
    BY <1>3, <2>1, <2>3 DEF Completed, Return, Publication!Answer, Publication!Idle
  <2> QED BY <2>2, <2>4 DEF Publication!Next
<1>4. CASE TimeOut
  <2>1. Publication!Answer("retryable")
    BY <1>4 DEF TimeOut, Return, Publication!Answer, Publication!Idle
  <2> QED BY <2>1 DEF Publication!Next
<1>5. ASSUME NEW k \in Calls, BrokerStores(k) PROVE Publication!Next
  <2>1. k <= call
    BY <1>5 DEF BrokerStores
  <2>2. st' = st \cup {k}
    BY <1>5 DEF BrokerStores
  <2>3. Publication!Store(k)
    BY <1>5, <2>1, <2>2 DEF BrokerStores, Publication!Store
  <2> QED BY <2>3 DEF Publication!Next
<1>6. CASE UNCHANGED <<call, message, answer>>
  BY <1>6 DEF Publication!vars
<1>7. \/ \E v \in {"retryable", "final"} : Refuse(v)
      \/ Produce \/ Completed \/ TimeOut
      \/ \E k \in Calls : BrokerStores(k)
      \/ UNCHANGED <<call, message, answer>>
  BY DEF KafkaNext, Awaiting, Delivering, NotCompleted, TimeRemains, Poll,
         TimePasses, ReportDelivery, kafkaVars
<1> QED BY <1>1, <1>2, <1>3, <1>4, <1>5, <1>6, <1>7

-----------------------------------------------------------------------------
(* The process and its calls *)

LEMMA ProcessIsKafka == [Next]_vars => [KafkaNext]_kafkaVars
<1> SUFFICES ASSUME [Next]_vars PROVE KafkaNext \/ UNCHANGED kafkaVars
  OBVIOUS
<1>1. CASE StartAndEnd
  BY <1>1 DEF StartAndEnd, FailToStart, StartOnce, InstallTerm, InstallInt, RestoreTerm,
              RestoreInt, Close
<1>2. CASE Loop
  BY <1>2 DEF Loop, StopSeen, NextCycle, FinishOnce, ReportFails, CycleAgain
<1>3. CASE IdleWait
  BY <1>3 DEF IdleWait, EnterWait, Wait, NoWait, Wake, LeaveWait
<1>4. CASE BeginPublishing
  BY <1>4 DEF BeginPublishing, KafkaNext
<1>5. CASE ContinuePublishing
  BY <1>5 DEF ContinuePublishing, KafkaNext
<1>6. CASE Cycle
  BY <1>4, <1>5, <1>6 DEF Cycle, Claim, ClaimFails, DeadLetterUnpublished,
     DeadLetteringFails, EndPublishing, Settle, SettleFails, EndCycle
<1>7. CASE Set \/ HandlerReturns
  BY <1>7 DEF Set, HandlerReturns
<1>8. CASE Outside
  BY <1>8 DEF Outside, KafkaNext
<1>9. CASE Signalled
  BY <1>9 DEF Signalled, KeyboardInterrupt, Killed, Interrupt
<1>10. CASE UNCHANGED vars
  BY <1>10 DEF vars
<1> QED BY <1>1, <1>2, <1>3, <1>6, <1>7, <1>8, <1>9, <1>10 DEF Next, MainThread

LEMMA ProcessKafkaInv == Spec => []KafkaInv
<1>1. Init => KafkaInv
  BY KafkaInit DEF Init
<1>2. KafkaInv /\ [Next]_vars => KafkaInv'
  BY KafkaStep, ProcessIsKafka
<1> QED BY <1>1, <1>2, PTL DEF Spec

(* The reports of librdkafka stay with their calls and the calls are made   *)
(* one after the other, in the whole process.                              *)
THEOREM PublisherInvariance == Spec => []KafkaInv
  BY ProcessKafkaInv

(* publish() (kafka_event_publisher.py): a call is decided by the report on *)
(* its own message, also when the report comes with the last poll().       *)
THEOREM CallsAreDecidedByTheirOwnReport == Spec => OwnReportDecides
<1>1. KafkaInv /\ [Next]_vars => [AnswersByOwnReport]_kafkaVars
  BY AnswerStep, ProcessIsKafka
<1>2. Spec => [][AnswersByOwnReport]_kafkaVars
  BY <1>1, ProcessKafkaInv, PTL DEF Spec
<1> QED BY <1>2 DEF OwnReportDecides, AnswersByOwnReport

(* The calls of publish() keep the promise of the port EventPublisher: a    *)
(* receipt says that the broker has the message of this very call.         *)
THEOREM PublisherKeepsItsPromise == Spec => ImplementsPublication
<1>1. Init => Publication!Init
  BY PublicationInit DEF Init
<1>2. KafkaInv /\ [Next]_vars => [Publication!Next]_(Publication!vars)
  BY PublicationStep, ProcessIsKafka
<1> QED BY <1>1, <1>2, ProcessKafkaInv, PTL DEF Spec, ImplementsPublication, Publication!Spec

-----------------------------------------------------------------------------
(* Where the main frame stands and what is settled *)

LEMMA ProcessInit == Init => ProcessInv
<1> SUFFICES ASSUME Init PROVE ProcessInv
  OBVIOUS
<1>1. KafkaInv
  BY KafkaInit DEF Init
<1>2. TypeOK
  <2>1. runOnce \in BOOLEAN /\ changed \in BOOLEAN /\ unreported \in BOOLEAN /\ stop \in BOOLEAN
    BY Zenon DEF Init
  <2>2. handlers \in Seq({"acquiring", "setting"})
    BY EmptySeq, Zenon DEF Init
  <2> QED BY <1>1, <2>1, <2>2, ProcessAssumption
             DEF Init, TypeOK, KafkaInv, Phases, Exits, Free
<1>3. SettledSoFar
  BY DEF Init, InitKafka, SettledSoFar, Settling, LeavingPhases
<1> QED BY <1>1, <1>2, <1>3
        DEF Init, ProcessInv, ZeroMeansSettled, LostReceiptIsReported, LeavingPhases

LEMMA ProcessTypeStep == ProcessInv /\ [Next]_vars => TypeOK'
<1> SUFFICES ASSUME ProcessInv, [Next]_vars PROVE TypeOK'
  OBVIOUS
<1> USE ProcessAssumption, CallsAssumption
    DEF ProcessInv, TypeOK, Phases, Exits, Signals, Free, MainFrame, kafkaVars, cycleVars,
        signalVars, Go
<1>0. KafkaTypeOK'
  BY KafkaStep, ProcessIsKafka DEF KafkaInv
<1>1. CASE StartAndEnd
  BY <1>0, <1>1 DEF StartAndEnd, FailToStart, StartOnce, InstallTerm, InstallInt, RestoreTerm,
              RestoreInt, Close, Leave
<1>2. CASE Loop
  BY <1>0, <1>2 DEF Loop, StopSeen, NextCycle, FinishOnce, ReportFails, CycleAgain, Leave,
                    OutputErrors
<1>3. CASE IdleWait
  <2>1. CASE EnterWait
    BY <1>0, <2>1 DEF EnterWait
  <2>2. CASE Wait
    BY <1>0, <2>2 DEF Wait
  <2>3. CASE NoWait
    BY <1>0, <2>3 DEF NoWait
  <2>4. CASE Wake
    BY <1>0, <2>4 DEF Wake
  <2>5. CASE LeaveWait
    BY <1>0, <2>5 DEF LeaveWait
  <2> QED BY <1>3, <2>1, <2>2, <2>3, <2>4, <2>5 DEF IdleWait
<1>4. ASSUME NEW n \in 0..BatchSize, Claim(n) PROVE TypeOK'
  <2>1. changed' = TRUE \/ changed' = FALSE
    <3>1. CASE n > 0
      BY <1>4, <3>1, Zenon DEF Claim
    <3>2. CASE ~(n > 0)
      BY <1>4, <3>2 DEF Claim
    <3> QED BY <3>1, <3>2
  <2> QED BY <1>0, <1>4, <2>1 DEF Claim
<1>5. CASE BeginPublishing \/ ContinuePublishing
  BY <1>0, <1>5 DEF BeginPublishing, ContinuePublishing
<1>6. CASE Settle \/ SettleFails
  <2>1. call \in Calls
    BY <1>6 DEF Settle, SettleFails, SettledSoFar, Settling, LeavingPhases, KafkaTypeOK, Calls
  <2>2. batch > 0
    BY <1>6 DEF Settle, SettleFails, SettledSoFar, Settling
  <2>3. recorded' \subseteq Calls
    BY <1>6, <2>1 DEF Settle, SettleFails
  <2>4. CASE Settle
    BY <1>0, <2>2, <2>3, <2>4 DEF Settle
  <2>5. CASE SettleFails
    BY <1>0, <2>3, <2>5 DEF SettleFails, Leave
  <2> QED BY <1>6, <2>4, <2>5
<1>7. ASSUME NEW code \in {"database", "consistency"}, ClaimFails(code) PROVE TypeOK'
  BY <1>0, <1>7 DEF ClaimFails, Leave
<1>14. CASE DeadLetterUnpublished \/ DeadLetteringFails \/ EndPublishing \/ EndCycle
  <2>1. CASE DeadLetteringFails
    BY <1>0, <2>1 DEF DeadLetteringFails, Leave
  <2>2. CASE DeadLetterUnpublished
    BY <1>0, <2>2 DEF DeadLetterUnpublished
  <2>3. CASE EndPublishing \/ EndCycle
    BY <1>0, <2>3 DEF EndPublishing, EndCycle
  <2> QED BY <1>14, <2>1, <2>2, <2>3
<1>8. CASE Cycle
  BY <1>4, <1>5, <1>6, <1>7, <1>14, <1>8 DEF Cycle
<1>9. CASE Set
  <2>1. Len(handlers) \in Nat \ {0} /\ handlers \in [1..Len(handlers) -> {"acquiring", "setting"}]
    BY <1>9, EmptySeq, LenProperties DEF Set, Running
  <2>2. handlers' \in Seq({"acquiring", "setting"})
    BY <1>9, <2>1, ExceptSeq DEF Set
  <2>3. stop' \in BOOLEAN
    BY <1>9, Zenon DEF Set
  <2> QED BY <1>0, <1>9, <2>1, <2>2, <2>3 DEF Set, Top
<1>10. CASE HandlerReturns
  <2>1. Len(handlers) \in Nat /\ handlers \in [1..Len(handlers) -> {"acquiring", "setting"}]
    BY LenProperties
  <2>2. handlers' \in Seq({"acquiring", "setting"})
    BY <1>10, <2>1, SubSeqProperties DEF HandlerReturns
  <2> QED BY <1>0, <1>10, <2>2 DEF HandlerReturns
<1>11. CASE Outside
  BY <1>0, <1>11 DEF Outside
<1>12. CASE Signalled
  <2>1. CASE KeyboardInterrupt
    <3>1. handlers' \in Seq({"acquiring", "setting"})
      BY EmptySeq, <2>1, Zenon DEF KeyboardInterrupt
    <3> QED BY <1>0, <2>1, <3>1 DEF KeyboardInterrupt
  <2>2. CASE Killed
    BY <1>0, <2>2 DEF Killed
  <2>3. ASSUME NEW sig \in Signals, Interrupt(sig) PROVE TypeOK'
    <3>1. handlers' \in Seq({"acquiring", "setting"})
      BY <2>3 DEF Interrupt
    <3> QED BY <1>0, <2>3, <3>1 DEF Interrupt
  <2> QED BY <1>12, <2>1, <2>2, <2>3 DEF Signalled
<1>13. CASE UNCHANGED vars
  BY <1>0, <1>13 DEF vars
<1> QED BY <1>1, <1>2, <1>3, <1>8, <1>9, <1>10, <1>11, <1>12, <1>13 DEF Next, MainThread

(* The outcomes of all calls are committed: no receipt is lost. *)
LEMMA NoneLost ==
  ASSUME KafkaInv, recorded = 1..call
  PROVE  \A k \in Calls : answer[k] = "receipt" => k \in recorded
  BY CallsAssumption DEF KafkaInv, KafkaTypeOK, OneCallOpen, Calls

SettledInv == SettledSoFar /\ ZeroMeansSettled /\ LostReceiptIsReported

LEMMA SettledStep == ProcessInv /\ [Next]_vars => SettledInv'
<1> SUFFICES ASSUME ProcessInv, [Next]_vars PROVE SettledInv'
  OBVIOUS
<1>t. /\ TypeOK /\ KafkaInv /\ SettledSoFar /\ ZeroMeansSettled /\ LostReceiptIsReported
      /\ call \in 0..MaxCalls
  BY DEF ProcessInv, TypeOK, KafkaTypeOK
<1>c. recorded = 1..call => \A k \in Calls : answer[k] = "receipt" => k \in recorded
  BY <1>t, NoneLost
<1> USE CallsAssumption
    DEF SettledInv, SettledSoFar, ZeroMeansSettled, LostReceiptIsReported, LeavingPhases,
        Settling, kafkaVars, cycleVars, signalVars, Go
<1>1. CASE StartAndEnd
  <2>1. ASSUME NEW code \in {"configuration", "database"}, FailToStart(code) PROVE SettledInv'
    BY <1>t, <1>c, <2>1 DEF FailToStart, Leave
  <2>2. CASE StartOnce \/ InstallTerm \/ InstallInt
    BY <1>t, <2>2 DEF StartOnce, InstallTerm, InstallInt
  <2>3. CASE RestoreTerm \/ RestoreInt \/ Close
    BY <1>t, <2>3 DEF RestoreTerm, RestoreInt, Close
  <2> QED BY <1>1, <2>1, <2>2, <2>3 DEF StartAndEnd
<1>2. CASE Loop
  <2>1. ASSUME NEW code \in {"success"} \cup OutputErrors, StopSeen(code) PROVE SettledInv'
    BY <1>t, <1>c, <2>1 DEF StopSeen, Leave, OutputErrors
  <2>2. CASE FinishOnce
    BY <1>t, <1>c, <2>2 DEF FinishOnce, Leave
  <2>3. ASSUME NEW code \in OutputErrors, ReportFails(code) PROVE SettledInv'
    BY <1>t, <1>c, <2>3 DEF ReportFails, Leave, OutputErrors
  <2>4. CASE NextCycle \/ CycleAgain
    BY <1>t, <2>4 DEF NextCycle, CycleAgain
  <2> QED BY <1>2, <2>1, <2>2, <2>3, <2>4 DEF Loop
<1>3. CASE IdleWait
  BY <1>t, <1>3 DEF IdleWait, EnterWait, Wait, NoWait, Wake, LeaveWait
<1>4. CASE Cycle
  <2>1. ASSUME NEW n \in 0..BatchSize, Claim(n) PROVE SettledInv'
    BY <1>t, <2>1 DEF Claim
  <2>2. CASE DeadLetteringFails
    BY <1>t, <1>c, <2>2 DEF DeadLetteringFails, Leave
  <2>9. ASSUME NEW code \in {"database", "consistency"}, ClaimFails(code) PROVE SettledInv'
    BY <1>t, <1>c, <2>9 DEF ClaimFails, Leave
  <2>3. CASE DeadLetterUnpublished \/ EndCycle
    BY <1>t, <2>3 DEF DeadLetterUnpublished, EndCycle
  <2>4. CASE BeginPublishing
    <3>1. call' = call + 1
      BY <2>4 DEF BeginPublishing, Produce, Refuse
    <3>2. (call + 1) - 1 = call /\ call + 1 > 0
      BY <1>t
    <3>3. phase' = "publishing" /\ recorded' = 1..call /\ batch' > 0 /\ exit' = "none"
      BY <1>t, <2>4 DEF BeginPublishing
    <3> QED BY <3>1, <3>2, <3>3
  <2>5. CASE ContinuePublishing
    <3>1. call' = call
      BY <2>5 DEF ContinuePublishing, Awaiting, Completed, NotCompleted, TimeOut, TimeRemains,
             Poll
    <3> QED BY <1>t, <2>5, <3>1 DEF ContinuePublishing
  <2>6. CASE EndPublishing
    BY <1>t, <2>6 DEF EndPublishing
  <2>7. CASE Settle
    <3>1. recorded \cup {call} = 1..call
      BY <1>t, <2>7 DEF Settle
    <3> QED BY <1>t, <2>7, <3>1 DEF Settle
  <2>8. CASE SettleFails
    <3>1. \A k \in Calls : answer[k] = "receipt" /\ k \notin recorded => k = call
      BY <1>t, <2>8 DEF SettleFails, KafkaInv, KafkaTypeOK, OneCallOpen, Calls
    <3>2. answer' = answer /\ recorded \subseteq recorded'
      BY <2>8 DEF SettleFails
    <3>3. LostReceiptIsReported'
      BY <2>8, <3>1, <3>2 DEF SettleFails, Leave
    <3> QED BY <1>t, <2>8, <3>3 DEF SettleFails, Leave
  <2> QED BY <1>4, <2>1, <2>2, <2>3, <2>4, <2>5, <2>6, <2>7, <2>8, <2>9 DEF Cycle
<1>5. CASE Set \/ HandlerReturns
  BY <1>t, <1>5 DEF Set, HandlerReturns
<1>6. CASE Outside
  <2>1. call' = call /\ loop' = loop /\ answer' = answer
    BY <1>6 DEF Outside, Delivering, TimePasses, BrokerStores, ReportDelivery
  <2> QED BY <1>t, <1>6, <2>1 DEF Outside
<1>7. CASE Signalled
  BY <1>t, <1>7 DEF Signalled, KeyboardInterrupt, Killed, Interrupt
<1>8. CASE UNCHANGED vars
  BY <1>t, <1>8 DEF vars
<1> QED BY <1>1, <1>2, <1>3, <1>4, <1>5, <1>6, <1>7, <1>8 DEF Next, MainThread

(* Wherever the main frame stands, the outcomes of all calls but the one in *)
(* hand are committed: entrypoints/publish_outbox.py, run_once.            *)
THEOREM ProcessInvariance == Spec => []ProcessInv
<1>1. Init => ProcessInv
  BY ProcessInit
<1>2. ProcessInv /\ [Next]_vars => ProcessInv'
  <2>1. ProcessInv /\ [Next]_vars => KafkaInv'
    BY KafkaStep, ProcessIsKafka DEF ProcessInv
  <2> QED BY <2>1, ProcessTypeStep, SettledStep DEF ProcessInv, SettledInv
<1> QED BY <1>1, <1>2, PTL DEF Spec

(* Exit code 0 of the command: nothing was left half done.                 *)
THEOREM ZeroIsEarned == Spec => []ZeroMeansSettled
<1>1. ProcessInv => ZeroMeansSettled
  BY DEF ProcessInv
<1> QED BY <1>1, ProcessInvariance, PTL

(* An acknowledged message whose record fails ends the command with its     *)
(* consistency code.                                                       *)
THEOREM LostReceiptsAreReported == Spec => []LostReceiptIsReported
<1>1. ProcessInv => LostReceiptIsReported
  BY DEF ProcessInv
<1> QED BY <1>1, ProcessInvariance, PTL
================================================================================
