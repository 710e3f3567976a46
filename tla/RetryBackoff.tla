---------------------------- MODULE RetryBackoff ----------------------------
(***************************************************************************)
(* The capped exponential backoff with equal jitter of                     *)
(* application/outbox_backoff.py, on integer durations.                    *)
(***************************************************************************)
EXTENDS Integers

(* 2 ** n, as a recursive function. *)
TwoTo[n \in Nat] == IF n = 0 THEN 1 ELSE 2 * TwoTo[n - 1]

(* Mutant: the policy's maximum is not applied. *)
UncappedDelay(base, max, attempt) == base * TwoTo[attempt - 1]

(* The exponential delay of an attempt before jitter, cut at the policy's  *)
(* maximum: lines 37-41.                                                   *)
CappedDelay(base, max, attempt) ==
    LET exponential == base * TwoTo[attempt - 1]
    IN  IF exponential < max THEN exponential ELSE max

(* The quotient a / b rounded to the nearest integer, ties to the even     *)
(* one, as timedelta rounds its argument to whole microseconds.            *)
Rounded(a, b) ==
    LET floor == a \div b
        twice == 2 * (a % b)
    IN  IF twice > b \/ (twice = b /\ floor % 2 = 1) THEN floor + 1 ELSE floor

(* Mutant: full jitter, the fraction scales the whole delay. *)
FullJitterDelay(base, max, attempt, r, steps) ==
    Rounded(CappedDelay(base, max, attempt) * r, steps)

(* The delay when the hash of the event and its attempt, as a fraction of  *)
(* the 64-bit range, is r / steps: half the capped delay is certain, the   *)
(* other half is scaled by the fraction.                                   *)
RetryDelay(base, max, attempt, r, steps) ==
    Rounded(CappedDelay(base, max, attempt) * (steps + r), 2 * steps)

(* Every delay an attempt can be given, whatever the hash. *)
RetryWindow(base, max, attempt) ==
    LET capped == CappedDelay(base, max, attempt)
    IN  {d \in 0 .. max : capped \div 2 <= d /\ d <= capped}
=============================================================================
