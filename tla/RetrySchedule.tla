---------------------------- MODULE RetrySchedule ----------------------------
(***************************************************************************)
(* The delays one event is given from its first retryable failure until    *)
(* its attempts are used up, as calculate_retry_delay computes them.       *)
(*                                                                         *)
(* OutboxPublisher lets a rescheduled row wait for any delay of            *)
(* RetryWindow; this module shows that the formula stays in it, and how    *)
(* the delays of one event relate to each other.                           *)
(***************************************************************************)
EXTENDS RetryBackoff

CONSTANTS
    Bases,          \* retry_base_delay, in ticks of timedelta's resolution
    Maxima,         \* retry_max_delay
    MaxAttempts,    \* max_attempts
    Steps           \* bound: the hash is one of 0/Steps, 1/Steps, ... 1

ASSUME ScheduleAssumption ==
    /\ Bases \subseteq Nat \ {0}
    /\ Maxima \subseteq Nat
    /\ MaxAttempts \in Nat \ {0}
    /\ Steps \in Nat \ {0}

VARIABLES
    base, max,      \* the policy
    attempt,        \* the attempt that failed last, 0 before the first
    delay,          \* the wait it was given
    waited          \* all its waits together

vars == <<base, max, attempt, delay, waited>>

(* The policy refuses a maximum below the base delay. *)
Init ==
    /\ base \in Bases
    /\ max \in {m \in Maxima : base <= m}
    /\ attempt = 0
    /\ delay = 0
    /\ waited = 0

(* The next attempt fails, and is not the last one: the delay depends on   *)
(* a hash of the event and its attempt, which can be any fraction.         *)
Retry ==
    /\ attempt + 1 < MaxAttempts
    /\ attempt' = attempt + 1
    /\ \E r \in 0 .. Steps :
          delay' = RetryDelay(base, max, attempt + 1, r, Steps)
    /\ waited' = waited + delay'
    /\ UNCHANGED <<base, max>>

Next == Retry

Spec == Init /\ [][Next]_vars

-----------------------------------------------------------------------------

(* Whatever the hash and the rounding, the delay is one of those           *)
(* OutboxPublisher lets a rescheduled row wait.                            *)
DelayInWindow == attempt > 0 => delay \in RetryWindow(base, max, attempt)

(* Below the maximum the jitter of an attempt ends where that of the next  *)
(* begins: a retry is never scheduled closer than the one before it,       *)
(* although the two delays are drawn independently.                        *)
DelaysGrowBelowMaximum ==
    [][base * TwoTo[attempt' - 1] <= max => delay' >= delay]_vars

(* A broker outage is bridged: retries whose exponential delays would have *)
(* summed up to S wait for S / 2 at least, one tick per retry being lost   *)
(* to rounding, as long as the maximum is not reached.                     *)
OutageIsBridged ==
    attempt > 0 /\ base * TwoTo[attempt - 1] <= max =>
        2 * (waited + attempt) >= base * (TwoTo[attempt] - 1)

TypeOK ==
    /\ base \in Bases
    /\ max \in Maxima
    /\ attempt \in 0 .. MaxAttempts - 1
    /\ delay \in Nat
    /\ waited \in Nat

(* The inductive invariant. *)
ScheduleInv ==
    /\ TypeOK
    /\ base <= max
    /\ attempt = 0 => delay = 0 /\ waited = 0
    /\ DelayInWindow
    /\ OutageIsBridged
=============================================================================
