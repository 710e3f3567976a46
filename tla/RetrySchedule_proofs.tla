-------------------------- MODULE RetrySchedule_proofs --------------------------
(***************************************************************************)
(* Proofs about RetrySchedule, for every policy, every number of attempts  *)
(* and every resolution of the hash.                                       *)
(***************************************************************************)
EXTENDS RetrySchedule, SequenceTheorems, TLAPS

-----------------------------------------------------------------------------
(* The powers of two *)

Twice(p, i) == 2 * p

Doubling == INSTANCE Scan WITH Step <- Twice

Count(n) == [i \in 1..n |-> i]

(* The recursion of TwoTo has a solution: the result of n doublings. *)
LEMMA TwoToIsDefined ==
    TwoTo = [n \in Nat |-> IF n = 0 THEN 1 ELSE 2 * TwoTo[n - 1]]
<1> DEFINE Solves(f) == f = [n \in Nat |-> IF n = 0 THEN 1 ELSE 2 * f[n - 1]]
           g == [n \in Nat |-> Doubling!From(1, Count(n))]
           h == [n \in Nat |-> IF n = 0 THEN 1 ELSE 2 * g[n - 1]]
<1>1. g[0] = 1
  <2>1. Count(0) = <<>>
    BY DEF Count
  <2> QED
    BY <2>1, Doubling!FromEmpty
<1>2. ASSUME NEW n \in Nat, n # 0
      PROVE  g[n] = 2 * g[n - 1]
  <2>1. n - 1 \in Nat /\ n \in Nat
    BY <1>2
  <2>2. Count(n - 1) \in Seq(Nat) /\ Count(n) = Append(Count(n - 1), n)
    BY <2>1 DEF Count
  <2>3. Doubling!From(1, Count(n)) = 2 * Doubling!From(1, Count(n - 1))
    BY <2>2, Doubling!FromAppend DEF Twice
  <2> QED
    BY <2>1, <2>3
<1>3. Solves(g)
  <2>1. \A n \in Nat : g[n] = h[n]
    BY <1>1, <1>2
  <2>2. g = h
    BY <2>1
  <2> QED
    BY <2>2
<1>4. TwoTo = CHOOSE f : Solves(f)
  BY DEF TwoTo
<1> HIDE DEF Solves, g
<1>5. Solves(TwoTo)
  BY <1>3, <1>4
<1> QED
  BY <1>5 DEF Solves

LEMMA TwoToStep ==
    /\ TwoTo[0] = 1
    /\ \A n \in Nat : TwoTo[n] \in Nat \ {0} /\ TwoTo[n + 1] = 2 * TwoTo[n]
<1>1. TwoTo[0] = 1 /\ \A n \in Nat : TwoTo[n + 1] = 2 * TwoTo[n]
  <2>1. ASSUME NEW n \in Nat PROVE n + 1 \in Nat /\ n + 1 # 0 /\ (n + 1) - 1 = n
    OBVIOUS
  <2> QED
    BY <2>1, TwoToIsDefined
<1> DEFINE S == {n \in Nat : TwoTo[n] \in Nat \ {0}}
<1>2. 0 \in S
  BY <1>1
<1>3. ASSUME NEW n \in Nat, n \in S
      PROVE  n + 1 \in S
  <2>1. TwoTo[n] \in Nat \ {0} /\ TwoTo[n + 1] = 2 * TwoTo[n]
    BY <1>1, <1>3
  <2> QED
    BY <2>1
<1> HIDE DEF S
<1>4. Nat \subseteq S
  BY <1>2, <1>3, Doubling!NatSetInduction
<1> QED
  BY <1>1, <1>4 DEF S

(* The exponential delay of an attempt, and that of the next one. *)
LEMMA ExponentialDoubles ==
    ASSUME NEW b \in Nat, NEW n \in Nat
    PROVE  /\ b * TwoTo[n] \in Nat
           /\ b * TwoTo[n + 1] = 2 * (b * TwoTo[n])
<1>1. TwoTo[n] \in Nat /\ TwoTo[n + 1] = 2 * TwoTo[n]
  BY TwoToStep
<1>2. \A p \in Nat : b * p \in Nat /\ b * (2 * p) = 2 * (b * p)
  OBVIOUS
<1> QED
  BY <1>1, <1>2

-----------------------------------------------------------------------------
(* Rounding *)

LEMMA Quotient ==
    ASSUME NEW a \in Nat, NEW b \in Nat \ {0}
    PROVE  \E q \in Nat, m \in 0..(b - 1) : a \div b = q /\ a % b = m /\ a = b * q + m
<1> DEFINE q == a \div b
           m == a % b
<1>1. q \in Nat /\ m \in 0..(b - 1) /\ b * q \in Nat /\ m = a - b * q
  OBVIOUS
<1> HIDE DEF q, m
<1>2. a = b * q + m
  BY <1>1
<1>3. a \div b = q /\ a % b = m
  BY DEF q, m
<1> QED
  BY <1>1, <1>2, <1>3

LEMMA ProductsGrow ==
    ASSUME NEW b \in Nat \ {0}, NEW x \in Nat, NEW y \in Nat, x < y
    PROVE  b * x + b <= b * y
<1>1. PICK z \in Nat : y = x + 1 + z
  <2>1. y - x - 1 \in Nat /\ y = x + 1 + (y - x - 1)
    OBVIOUS
  <2> QED
    BY <2>1
<1>2. b * y = b * x + b + b * z
  BY <1>1
<1>3. b * z \in Nat /\ b * x \in Nat /\ b * y \in Nat
  OBVIOUS
<1> QED
  BY <1>2, <1>3

(* A quotient between two integers is rounded to one between them. *)
LEMMA RoundedBetween ==
    ASSUME NEW a \in Nat, NEW b \in Nat \ {0}, NEW low \in Nat, NEW high \in Nat,
           b * low <= a, a <= b * high
    PROVE  Rounded(a, b) \in Nat /\ low <= Rounded(a, b) /\ Rounded(a, b) <= high
<1>1. PICK q \in Nat, m \in 0..(b - 1) : a \div b = q /\ a % b = m /\ a = b * q + m
  BY Quotient
<1>2. b * q \in Nat /\ b * low \in Nat /\ b * high \in Nat
  BY <1>1
<1>3. low <= q
  <2> SUFFICES ASSUME q < low PROVE FALSE
    BY <1>1
  <2>1. b * q + b <= b * low
    BY <1>1, ProductsGrow
  <2> QED
    BY <1>1, <1>2, <2>1
<1>4. q < high \/ (q = high /\ m = 0)
  <2>1. CASE q < high
    BY <2>1
  <2>2. CASE q = high
    BY <1>1, <1>2, <2>2
  <2>3. CASE high < q
    <3>1. b * high + b <= b * q
      BY <1>1, <2>3, ProductsGrow
    <3> QED
      BY <1>1, <1>2, <3>1
  <2> QED
    BY <1>1, <2>1, <2>2, <2>3
<1>5. Rounded(a, b) = IF 2 * m > b \/ (2 * m = b /\ q % 2 = 1) THEN q + 1 ELSE q
  BY <1>1 DEF Rounded
<1>6. Rounded(a, b) = q \/ (Rounded(a, b) = q + 1 /\ m # 0)
  BY <1>1, <1>5
<1> QED
  BY <1>1, <1>3, <1>4, <1>6

-----------------------------------------------------------------------------
(* One delay *)

LEMMA CappedDelayType ==
    ASSUME NEW b \in Nat, NEW m \in Nat, NEW n \in Nat \ {0}
    PROVE  /\ CappedDelay(b, m, n) \in 0..m
           /\ b * TwoTo[n - 1] <= m => CappedDelay(b, m, n) = b * TwoTo[n - 1]
<1>1. b * TwoTo[n - 1] \in Nat
  BY ExponentialDoubles
<1> DEFINE e == b * TwoTo[n - 1]
<1>2. CappedDelay(b, m, n) = IF e < m THEN e ELSE m
  BY DEF CappedDelay
<1> HIDE DEF e
<1>3. e \in Nat
  BY <1>1 DEF e
<1> QED
  BY <1>2, <1>3 DEF e

(* The jitter of any hash, rounded, stays between half the capped delay    *)
(* and the capped delay.                                                   *)
LEMMA RetryDelayInWindow ==
    ASSUME NEW b \in Nat, NEW m \in Nat, NEW n \in Nat \ {0},
           NEW r \in 0..Steps
    PROVE  RetryDelay(b, m, n, r, Steps) \in RetryWindow(b, m, n)
<1> DEFINE c == CappedDelay(b, m, n)
           a == c * (Steps + r)
           d == Rounded(a, 2 * Steps)
<1>1. Steps \in Nat \ {0} /\ r \in Nat /\ r <= Steps
  BY ScheduleAssumption
<1>2. c \in Nat /\ c <= m
  BY CappedDelayType
<1> HIDE DEF c
<1>3. PICK h \in Nat, p \in 0..1 : c \div 2 = h /\ c = 2 * h + p
  BY <1>2, Quotient
<1>4. a = c * Steps + c * r
  BY <1>1, <1>2
<1>5. c * Steps \in Nat /\ c * r \in Nat /\ c * r <= c * Steps
  <2>1. PICK z \in Nat : Steps = r + z
    <3>1. Steps - r \in Nat /\ Steps = r + (Steps - r)
      BY <1>1
    <3> QED
      BY <3>1
  <2>2. c * Steps = c * r + c * z /\ c * z \in Nat
    BY <1>1, <1>2, <2>1
  <2> QED
    BY <1>1, <1>2, <2>2
<1>6. (2 * Steps) * c = 2 * (c * Steps)
  BY <1>1, <1>2
<1>7. (2 * Steps) * h <= c * Steps
  <2>1. c * Steps = (2 * Steps) * h + p * Steps /\ p * Steps \in Nat /\ (2 * Steps) * h \in Nat
    BY <1>1, <1>3
  <2> QED
    BY <2>1
<1>8. a \in Nat /\ (2 * Steps) * h <= a /\ a <= (2 * Steps) * c
  <2>1. (2 * Steps) * h \in Nat
    BY <1>1
  <2> QED
    BY <1>4, <1>5, <1>6, <1>7, <2>1
<1>9. 2 * Steps \in Nat \ {0}
  BY <1>1
<1> HIDE DEF a
<1>10. d \in Nat /\ h <= d /\ d <= c
  BY <1>2, <1>8, <1>9, RoundedBetween
<1>11. RetryDelay(b, m, n, r, Steps) = d
  BY DEF RetryDelay, a, c
<1> HIDE DEF d
<1> QED
  BY <1>2, <1>3, <1>10, <1>11 DEF RetryWindow, c

-----------------------------------------------------------------------------
(* The inductive invariant *)

LEMMA InitInv == Init => ScheduleInv
<1> SUFFICES ASSUME Init PROVE ScheduleInv
  OBVIOUS
<1>1. base \in Nat /\ MaxAttempts \in Nat \ {0}
  BY ScheduleAssumption DEF Init
<1>2. TypeOK
  BY <1>1 DEF Init, TypeOK
<1> QED
  BY <1>1, <1>2 DEF Init, ScheduleInv, DelayInWindow, OutageIsBridged

(* What a retry does to the delay: it is in the next window and, while the *)
(* maximum is not reached, at least half the exponential one.              *)
LEMMA RetryDelays ==
    ASSUME ScheduleInv, Retry
    PROVE  /\ delay' \in RetryWindow(base, max, attempt + 1) /\ delay' \in Nat
           /\ attempt' = attempt + 1 /\ waited' = waited + delay'
           /\ base * TwoTo[attempt] <= max =>
                  2 * delay' >= base * TwoTo[attempt] - 1
<1>1. base \in Nat /\ max \in Nat /\ attempt \in Nat /\ waited \in Nat
  BY ScheduleAssumption DEF ScheduleInv, TypeOK
<1>2. attempt + 1 \in Nat \ {0} /\ (attempt + 1) - 1 = attempt
  BY <1>1
<1>3. delay' \in RetryWindow(base, max, attempt + 1)
  BY <1>1, <1>2, RetryDelayInWindow DEF Retry
<1> DEFINE c == CappedDelay(base, max, attempt + 1)
<1>4. delay' \in 0..max /\ c \div 2 <= delay' /\ delay' <= c
  BY <1>3 DEF RetryWindow
<1>5. c \in Nat /\ (base * TwoTo[attempt] <= max => c = base * TwoTo[attempt])
  BY <1>1, <1>2, CappedDelayType
<1> HIDE DEF c
<1>6. 2 * delay' >= c - 1
  <2>1. PICK h \in Nat, p \in 0..1 : c \div 2 = h /\ c = 2 * h + p
    BY <1>5, Quotient
  <2>2. h <= delay'
    BY <1>4, <2>1
  <2>3. delay' \in Nat
    BY <1>1, <1>4
  <2>4. \A x \in Nat : h <= x => 2 * x >= (2 * h + p) - 1
    OBVIOUS
  <2> QED
    BY <2>1, <2>2, <2>3, <2>4
<1> QED
  BY <1>1, <1>3, <1>4, <1>5, <1>6 DEF Retry

LEMMA RetryKeeps == ScheduleInv /\ Retry => ScheduleInv'
<1> SUFFICES ASSUME ScheduleInv, Retry PROVE ScheduleInv'
  OBVIOUS
<1>1. base \in Nat /\ max \in Nat /\ attempt \in Nat /\ waited \in Nat /\ delay \in Nat
  BY ScheduleAssumption DEF ScheduleInv, TypeOK
<1>2. /\ delay' \in RetryWindow(base, max, attempt') /\ delay' \in Nat
      /\ attempt' = attempt + 1 /\ waited' = waited + delay'
      /\ base * TwoTo[attempt] <= max => 2 * delay' >= base * TwoTo[attempt] - 1
      /\ base' = base /\ max' = max
  BY RetryDelays DEF Retry
<1>3. TypeOK'
  BY <1>1, <1>2, ScheduleAssumption DEF ScheduleInv, TypeOK, Retry
<1>4. attempt' # 0
  BY <1>1, <1>2
<1>5. DelayInWindow'
  BY <1>2 DEF DelayInWindow
<1>6. OutageIsBridged'
  <2> DEFINE e == base * TwoTo[attempt]
  <2>1. e \in Nat /\ base * TwoTo[attempt + 1] = 2 * e
    BY <1>1, ExponentialDoubles
  <2>2. /\ TwoTo[attempt] \in Nat /\ TwoTo[attempt + 1] \in Nat
    BY <1>1, TwoToStep
  <2>3. base * (TwoTo[attempt + 1] - 1) = 2 * e - base /\ base * (TwoTo[attempt] - 1) = e - base
    BY <1>1, <2>1, <2>2
  <2>4. e <= max => 2 * (waited + attempt) >= e - base
    <3>1. CASE attempt = 0
      <4>1. e = base
        BY <1>1, <3>1, TwoToStep
      <4> QED
        BY <1>1, <4>1
    <3>2. CASE attempt # 0
      <4>1. attempt - 1 \in Nat /\ (attempt - 1) + 1 = attempt
        BY <1>1, <3>2
      <4>2. base * TwoTo[attempt - 1] \in Nat /\ e = 2 * (base * TwoTo[attempt - 1])
        BY <1>1, <4>1, ExponentialDoubles
      <4>3. e <= max => base * TwoTo[attempt - 1] <= max
        BY <1>1, <4>2
      <4> QED
        BY <1>1, <2>3, <3>2, <4>3 DEF ScheduleInv, OutageIsBridged
    <3> QED
      BY <3>1, <3>2
  <2> HIDE DEF e
  <2>5. e <= max => 2 * delay' >= e - 1
    BY <1>2 DEF e
  <2>6. e <= max => 2 * (waited' + attempt') >= 2 * e - base
    <3>1. waited' + attempt' = (waited + attempt) + delay' + 1
      BY <1>1, <1>2
    <3>2. waited + attempt \in Nat
      BY <1>1
    <3>3. \A x, y \in Int : 2 * x >= e - base /\ 2 * y >= e - 1 => 2 * (x + y + 1) >= 2 * e - base
      BY <1>1, <2>1
    <3> QED
      BY <1>2, <2>4, <2>5, <3>1, <3>2, <3>3
  <2>7. (attempt + 1) - 1 = attempt
    BY <1>1
  <2> QED
    BY <1>2, <2>3, <2>6, <2>7 DEF OutageIsBridged, e
<1> QED
  BY <1>2, <1>3, <1>4, <1>5, <1>6 DEF ScheduleInv

LEMMA StutterKeeps == ScheduleInv /\ UNCHANGED vars => ScheduleInv'
BY DEF ScheduleInv, TypeOK, DelayInWindow, OutageIsBridged, vars

(* A delay is not shorter than the one before it, below the maximum. *)
LEMMA RetryGrows ==
    ScheduleInv /\ Retry => (base * TwoTo[attempt' - 1] <= max => delay' >= delay)
<1> SUFFICES ASSUME ScheduleInv, Retry, base * TwoTo[attempt' - 1] <= max
             PROVE  delay' >= delay
  OBVIOUS
<1>1. base \in Nat /\ max \in Nat /\ attempt \in Nat /\ delay \in Nat
  BY ScheduleAssumption DEF ScheduleInv, TypeOK
<1> DEFINE e == base * TwoTo[attempt]
<1>2. attempt' = attempt + 1 /\ (attempt + 1) - 1 = attempt /\ delay' \in Nat
  BY <1>1, RetryDelays
<1>3. e \in Nat /\ e <= max
  BY <1>1, <1>2, ExponentialDoubles
<1>4. 2 * delay' >= e - 1
  BY <1>3, RetryDelays
<1>5. CASE attempt = 0
  BY <1>1, <1>2, <1>5 DEF ScheduleInv
<1>6. CASE attempt # 0
  <2> DEFINE f == base * TwoTo[attempt - 1]
  <2>1. attempt - 1 \in Nat /\ (attempt - 1) + 1 = attempt /\ attempt \in Nat \ {0}
    BY <1>1, <1>6
  <2>2. f \in Nat /\ e = 2 * f
    BY <1>1, <2>1, ExponentialDoubles
  <2>3. f <= max => CappedDelay(base, max, attempt) = f
    BY <1>1, <2>1, CappedDelayType
  <2>4. delay <= CappedDelay(base, max, attempt)
    BY <1>1, <2>1 DEF ScheduleInv, DelayInWindow, RetryWindow
  <2> HIDE DEF e, f
  <2>5. delay <= f
    BY <1>1, <1>3, <2>2, <2>3, <2>4
  <2>6. \A x \in Int : 2 * x >= 2 * f - 1 => x >= f
    BY <2>2
  <2> QED
    <3>1. 2 * delay' >= 2 * f - 1
      BY <1>4, <2>2
    <3>2. delay' >= f
      BY <1>2, <2>6, <3>1
    <3> QED
      BY <1>1, <1>2, <2>2, <2>5, <3>2
<1> QED
  BY <1>5, <1>6

-----------------------------------------------------------------------------
(* Theorems *)

(* The types, the window and the sum of an event's delays. *)
THEOREM Invariance == Spec => []ScheduleInv
<1>1. ScheduleInv /\ [Next]_vars => ScheduleInv'
  BY RetryKeeps, StutterKeeps DEF Next
<1> QED
  BY <1>1, InitInv, PTL DEF Spec

(* For every policy, attempt and hash the rounded delay is at least half   *)
(* the capped exponential delay and at most all of it: the window from     *)
(* which OutboxPublisher takes the wait of a rescheduled row.              *)
THEOREM DelaysInWindow == Spec => []DelayInWindow
<1>1. ScheduleInv => DelayInWindow
  BY DEF ScheduleInv
<1> QED
  BY <1>1, Invariance, PTL

(* The waits of an event add up to half its exponential delays, less one   *)
(* tick a retry, until the maximum is reached.                             *)
THEOREM OutagesBridged == Spec => []OutageIsBridged
<1>1. ScheduleInv => OutageIsBridged
  BY DEF ScheduleInv
<1> QED
  BY <1>1, Invariance, PTL

(* Until the maximum is reached no retry comes sooner than the one before  *)
(* it, whatever the hashes of the two attempts.                            *)
THEOREM DelaysGrow == Spec => DelaysGrowBelowMaximum
<1>1. ScheduleInv /\ [Next]_vars
        => [base * TwoTo[attempt' - 1] <= max => delay' >= delay]_vars
  BY RetryGrows DEF Next
<1> QED
  BY <1>1, Invariance, PTL DEF Spec, DelaysGrowBelowMaximum
================================================================================
