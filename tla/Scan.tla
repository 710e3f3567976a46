---------------------------------- MODULE Scan ----------------------------------
(***************************************************************************)
(* A machine that reads a sequence symbol by symbol, for any step of the   *)
(* machine, and what holds of every such machine: the state after a        *)
(* sequence is the state after its last part, begun where its first part   *)
(* ends.                                                                   *)
(***************************************************************************)
EXTENDS SequenceTheorems, WellFoundedInduction, TLAPS

CONSTANT Step(_, _)  \* the state after a symbol

(* The state after q, begun in state s. *)
From(s, q) ==
    LET after[i \in 0..Len(q)] == IF i = 0 THEN s ELSE Step(after[i - 1], q[i])
    IN  after[Len(q)]

-----------------------------------------------------------------------------
(* Induction over naturals and sequences *)

(* A set with 0 and the successor of each of its members has all naturals. *)
LEMMA NatSetInduction ==
    ASSUME NEW S, 0 \in S, \A n \in Nat : n \in S => n + 1 \in S
    PROVE  Nat \subseteq S
<1> DEFINE Missing == Nat \ S
<1> SUFFICES ASSUME Missing # {} PROVE FALSE
  OBVIOUS
<1>1. PICK x \in Missing : \A y \in Missing : ~(<<y, x>> \in OpToRel(<, Nat))
  BY WFMin, NatLessThanWellFounded
<1>2. \A y \in Missing : ~(y < x)
  BY <1>1 DEF OpToRel
<1>3. x \in Nat /\ x # 0 /\ x \notin S
  OBVIOUS
<1>4. x - 1 \in Nat /\ x - 1 < x /\ (x - 1) + 1 = x
  BY <1>3
<1>5. x - 1 \in S
  BY <1>2, <1>4
<1> QED
  BY <1>3, <1>4, <1>5

(* The same for sequences and Append. *)
LEMMA SeqSetInduction ==
    ASSUME NEW C, NEW T, <<>> \in T,
           \A t \in Seq(C), c \in C : t \in T => Append(t, c) \in T
    PROVE  Seq(C) \subseteq T
<1> DEFINE Done == {n \in Nat : \A t \in Seq(C) : Len(t) = n => t \in T}
<1>1. 0 \in Done
  <2> SUFFICES ASSUME NEW t \in Seq(C), Len(t) = 0 PROVE t \in T
    OBVIOUS
  <2>1. t = <<>>
    BY EmptySeq
  <2> QED
    BY <2>1
<1>2. ASSUME NEW n \in Nat, n \in Done
      PROVE  n + 1 \in Done
  <2> SUFFICES ASSUME NEW t \in Seq(C), Len(t) = n + 1 PROVE t \in T
    OBVIOUS
  <2>1. t # <<>>
    BY <1>2
  <2>2. PICK u \in Seq(C), c \in C : t = Append(u, c)
    BY <2>1, SequenceEmptyOrAppend
  <2>3. Len(u) \in Nat /\ Len(t) = Len(u) + 1
    BY <2>2
  <2>4. u \in T
    BY <1>2, <2>3
  <2> QED
    BY <2>2, <2>4
<1> HIDE DEF Done
<1>3. Nat \subseteq Done
  BY <1>1, <1>2, NatSetInduction
<1>4. \A t \in Seq(C) : Len(t) \in Done
  BY <1>3
<1> QED
  BY <1>4 DEF Done

-----------------------------------------------------------------------------
(* The states of a run *)

(* f[i] is the state after the first i symbols of q. *)
IsRun(f, s, q) ==
    f = [i \in 0..Len(q) |-> IF i = 0 THEN s ELSE Step(f[i - 1], q[i])]

(* There is a run over every sequence. *)
LEMMA RunExists ==
    ASSUME NEW C, NEW q \in Seq(C), NEW s
    PROVE  \E f : IsRun(f, s, q)
<1> DEFINE Runs(f, n) == f = [i \in 0..n |-> IF i = 0 THEN s ELSE Step(f[i - 1], q[i])]
           Done == {n \in Nat : \E f : Runs(f, n)}
<1>1. 0 \in Done
  <2> DEFINE g == [i \in 0..0 |-> s]
  <2>1. Runs(g, 0)
    OBVIOUS
  <2> QED
    BY <2>1
<1>2. ASSUME NEW n \in Nat, n \in Done
      PROVE  n + 1 \in Done
  <2>1. PICK f : Runs(f, n)
    BY <1>2
  <2> DEFINE g == [i \in 0..(n + 1) |-> IF i <= n THEN f[i] ELSE Step(f[n], q[n + 1])]
             h == [i \in 0..(n + 1) |-> IF i = 0 THEN s ELSE Step(g[i - 1], q[i])]
  <2>2. ASSUME NEW i \in 0..(n + 1)
        PROVE  g[i] = h[i]
    <3>1. CASE i = 0
      BY <2>1, <3>1
    <3>2. CASE i \in 1..n
      <4>1. i - 1 \in 0..n /\ i \in 0..n /\ i # 0 /\ i <= n /\ i - 1 <= n /\ i - 1 \in 0..(n + 1)
        BY <3>2
      <4>2. f[i] = Step(f[i - 1], q[i])
        BY <2>1, <4>1
      <4>3. g[i] = f[i] /\ g[i - 1] = f[i - 1]
        BY <4>1
      <4> QED
        BY <4>1, <4>2, <4>3
    <3>3. CASE i = n + 1
      <4>1. i # 0 /\ ~(i <= n) /\ i - 1 = n /\ n <= n /\ n \in 0..(n + 1)
        BY <3>3
      <4> QED
        BY <3>3, <4>1
    <3> QED
      BY <3>1, <3>2, <3>3
  <2>3. g = h
    BY <2>2
  <2>4. Runs(g, n + 1)
    BY <2>3
  <2> HIDE DEF g, h, Runs
  <2> QED
    BY <2>4
<1> HIDE DEF Done
<1>3. Len(q) \in Done
  BY <1>1, <1>2, NatSetInduction
<1> QED
  BY <1>3 DEF Done, IsRun

(* From is the last state of a run. *)
LEMMA FromIsRun ==
    ASSUME NEW C, NEW q \in Seq(C), NEW s
    PROVE  \E f : IsRun(f, s, q) /\ From(s, q) = f[Len(q)]
<1> DEFINE after == CHOOSE f : IsRun(f, s, q)
<1>1. IsRun(after, s, q)
  BY RunExists
<1>2. From(s, q) = after[Len(q)]
  BY DEF From, IsRun
<1> QED
  BY <1>1, <1>2

(* Runs over sequences with a common beginning agree on it. *)
LEMMA RunsAgree ==
    ASSUME NEW C, NEW q \in Seq(C), NEW t \in Seq(C), NEW s, NEW f, NEW g,
           IsRun(f, s, q), IsRun(g, s, t), Len(q) <= Len(t),
           \A i \in 1..Len(q) : q[i] = t[i]
    PROVE  f[Len(q)] = g[Len(q)]
<1> DEFINE Done == {n \in Nat : n <= Len(q) => f[n] = g[n]}
<1>1. 0 \in Done
  BY DEF IsRun
<1>2. ASSUME NEW n \in Nat, n \in Done
      PROVE  n + 1 \in Done
  <2> SUFFICES ASSUME n + 1 <= Len(q) PROVE f[n + 1] = g[n + 1]
    OBVIOUS
  <2>1. /\ n + 1 \in 0..Len(q) /\ n + 1 \in 0..Len(t) /\ n + 1 # 0 /\ (n + 1) - 1 = n
        /\ n <= Len(q) /\ n + 1 \in 1..Len(q)
    OBVIOUS
  <2>2. f[n + 1] = Step(f[n], q[n + 1]) /\ g[n + 1] = Step(g[n], t[n + 1])
    BY <2>1 DEF IsRun
  <2>3. f[n] = g[n]
    BY <1>2, <2>1
  <2> QED
    BY <2>1, <2>2, <2>3
<1> HIDE DEF Done
<1>3. Len(q) \in Done
  BY <1>1, <1>2, NatSetInduction
<1> QED
  BY <1>3 DEF Done

-----------------------------------------------------------------------------
(* Reading nothing, one more symbol, one more sequence *)

(* Nothing read, nothing changed. *)
LEMMA FromEmpty ==
    ASSUME NEW s
    PROVE  From(s, <<>>) = s
<1>1. PICK f : IsRun(f, s, <<>>) /\ From(s, <<>>) = f[Len(<<>>)]
  BY FromIsRun, EmptySeq
<1> QED
  BY <1>1 DEF IsRun

(* One more symbol is one more step. *)
LEMMA FromAppend ==
    ASSUME NEW C, NEW q \in Seq(C), NEW c \in C, NEW s
    PROVE  From(s, Append(q, c)) = Step(From(s, q), c)
<1> DEFINE t == Append(q, c)
<1>1. t \in Seq(C) /\ Len(t) = Len(q) + 1 /\ t[Len(t)] = c /\ Len(q) \in Nat
      /\ \A i \in 1..Len(q) : q[i] = t[i]
  BY AppendProperties
<1> HIDE DEF t
<1>2. PICK f : IsRun(f, s, q) /\ From(s, q) = f[Len(q)]
  BY FromIsRun
<1>3. PICK g : IsRun(g, s, t) /\ From(s, t) = g[Len(t)]
  BY <1>1, FromIsRun
<1>4. f[Len(q)] = g[Len(q)]
  BY <1>1, <1>2, <1>3, RunsAgree
<1>5. g[Len(t)] = Step(g[Len(t) - 1], t[Len(t)])
  BY <1>1, <1>3 DEF IsRun
<1>6. Len(t) - 1 = Len(q)
  BY <1>1
<1> QED
  BY <1>1, <1>2, <1>3, <1>4, <1>5, <1>6 DEF t

(* A sequence may be read in two parts. *)
LEMMA FromConcat ==
    ASSUME NEW C, NEW q \in Seq(C), NEW t \in Seq(C), NEW s
    PROVE  From(s, q \o t) = From(From(s, q), t)
<1> DEFINE T == {u \in Seq(C) : From(s, q \o u) = From(From(s, q), u)}
<1>1. <<>> \in T
  BY FromEmpty, ConcatEmptySeq, EmptySeq
<1>2. ASSUME NEW u \in Seq(C), NEW c \in C, u \in T
      PROVE  Append(u, c) \in T
  <2>1. Append(u, c) \in Seq(C) /\ q \o u \in Seq(C)
    BY AppendProperties, ConcatProperties
  <2>2. q \o Append(u, c) = Append(q \o u, c)
    BY <2>1
  <2>3. From(s, Append(q \o u, c)) = Step(From(s, q \o u), c)
    BY <2>1, FromAppend
  <2>4. From(From(s, q), Append(u, c)) = Step(From(From(s, q), u), c)
    BY FromAppend
  <2> QED
    BY <1>2, <2>1, <2>2, <2>3, <2>4
<1> HIDE DEF T
<1>3. t \in T
  BY <1>1, <1>2, SeqSetInduction
<1> QED
  BY <1>3 DEF T

(* What every step keeps, every sequence keeps. *)
LEMMA FromKeeps ==
    ASSUME NEW C, NEW S, NEW s \in S, \A a \in S, c \in C : Step(a, c) \in S,
           NEW q \in Seq(C)
    PROVE  From(s, q) \in S
<1> DEFINE T == {u \in Seq(C) : From(s, u) \in S}
<1>1. <<>> \in T
  BY FromEmpty, EmptySeq
<1>2. ASSUME NEW u \in Seq(C), NEW c \in C, u \in T
      PROVE  Append(u, c) \in T
  BY <1>2, FromAppend, AppendProperties
<1> HIDE DEF T
<1>3. q \in T
  BY <1>1, <1>2, SeqSetInduction
<1> QED
  BY <1>3 DEF T

(* A relation between two states that every step keeps, every sequence     *)
(* keeps.                                                                  *)
LEMMA FromSimulates ==
    ASSUME NEW C, NEW R, NEW s, NEW t, <<s, t>> \in R,
           \A a, b : \A c \in C : <<a, b>> \in R => <<Step(a, c), Step(b, c)>> \in R,
           NEW q \in Seq(C)
    PROVE  <<From(s, q), From(t, q)>> \in R
<1> DEFINE T == {u \in Seq(C) : <<From(s, u), From(t, u)>> \in R}
<1>1. <<>> \in T
  BY FromEmpty, EmptySeq
<1>2. ASSUME NEW u \in Seq(C), NEW c \in C, u \in T
      PROVE  Append(u, c) \in T
  <2>1. From(s, Append(u, c)) = Step(From(s, u), c) /\ From(t, Append(u, c)) = Step(From(t, u), c)
    BY FromAppend
  <2> QED
    BY <1>2, <2>1, AppendProperties
<1> HIDE DEF T
<1>3. q \in T
  BY <1>1, <1>2, SeqSetInduction
<1> QED
  BY <1>3 DEF T
================================================================================
