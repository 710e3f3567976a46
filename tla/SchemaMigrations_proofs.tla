------------------------ MODULE SchemaMigrations_proofs ------------------------
(***************************************************************************)
(* Proofs about SchemaMigrations, for every set of runners, components and *)
(* directories, and every value of the bound on faults.                    *)
(***************************************************************************)
EXTENDS SchemaMigrations, WellFoundedInduction, TLAPS

-----------------------------------------------------------------------------
(* Migrations and their order *)

(* A nonempty set of naturals has a least element. *)
LEMMA LeastNatural ==
    ASSUME NEW S, S \subseteq Nat, S # {}
    PROVE  \E x \in S : \A y \in S : x <= y
<1>1. PICK x \in S : \A y \in S : ~(<<y, x>> \in OpToRel(<, Nat))
  BY WFMin, NatLessThanWellFounded
<1>2. \A y \in S : ~(y < x)
  BY <1>1 DEF OpToRel
<1> QED
  BY <1>2

(* A migration has a version, and the artifact it comes from has the same. *)
LEMMA MigrationType ==
    ASSUME NEW m \in Migrations
    PROVE  m.version \in Nat
BY DirectoriesAssumption DEF Migrations, Migration

(* In a directory that discovery accepts, a version names one migration. *)
LEMMA VersionsAreUnique ==
    ASSUME NEW ms \in Repositories, NEW m \in ms, NEW n \in ms,
           m.version = n.version
    PROVE  m = n
<1>1. PICK d \in Directories : Discoverable(d) /\ ms = Discovered(d)
  BY DEF Repositories
<1>2. PICK a \in d : m = Migration(a)
  BY <1>1 DEF Discovered
<1>3. PICK b \in d : n = Migration(b)
  BY <1>1 DEF Discovered
<1>4. a.version = b.version
  BY <1>2, <1>3 DEF Migration
<1> QED
  BY <1>1, <1>2, <1>3, <1>4 DEF Discoverable

LEMMA RepositoryType ==
    ASSUME NEW ms \in Repositories
    PROVE  ms \subseteq Migrations
BY DEF Repositories, Discovered, Migrations

(* What was executed before and what is executed now are the elements of    *)
(* the history after it, and versions that were distinct stay distinct.    *)
LEMMA Concatenation ==
    ASSUME NEW h \in Seq(Migrations), NEW e \in Seq(Migrations)
    PROVE  /\ {(h \o e)[k] : k \in DOMAIN (h \o e)}
               = {h[k] : k \in DOMAIN h} \cup {e[k] : k \in DOMAIN e}
           /\ \A k \in DOMAIN (h \o e) :
                \/ k \in DOMAIN h /\ (h \o e)[k] = h[k]
                \/ k - Len(h) \in DOMAIN e /\ (h \o e)[k] = e[k - Len(h)] /\ k \notin DOMAIN h
<1>1. /\ DOMAIN (h \o e) = 1..(Len(h) + Len(e))
      /\ DOMAIN h = 1..Len(h) /\ DOMAIN e = 1..Len(e)
      /\ Len(h) \in Nat /\ Len(e) \in Nat
      /\ \A k \in 1..(Len(h) + Len(e)) :
           (h \o e)[k] = IF k <= Len(h) THEN h[k] ELSE e[k - Len(h)]
  OBVIOUS
<1>2. \A k \in DOMAIN (h \o e) :
         \/ k \in DOMAIN h /\ (h \o e)[k] = h[k]
         \/ k - Len(h) \in DOMAIN e /\ (h \o e)[k] = e[k - Len(h)] /\ k \notin DOMAIN h
  <2> SUFFICES ASSUME NEW k \in 1..(Len(h) + Len(e))
               PROVE  \/ k \in DOMAIN h /\ (h \o e)[k] = h[k]
                      \/ /\ k - Len(h) \in DOMAIN e /\ (h \o e)[k] = e[k - Len(h)]
                         /\ k \notin DOMAIN h
    BY <1>1
  <2>1. CASE k <= Len(h)
    BY <1>1, <2>1
  <2>2. CASE ~(k <= Len(h))
    BY <1>1, <2>2
  <2> QED
    BY <2>1, <2>2
<1>3. ASSUME NEW k \in DOMAIN h
      PROVE  k \in DOMAIN (h \o e) /\ (h \o e)[k] = h[k]
  BY <1>1, <1>3
<1>4. ASSUME NEW k \in DOMAIN e
      PROVE  k + Len(h) \in DOMAIN (h \o e) /\ (h \o e)[k + Len(h)] = e[k]
  <2>1. k \in Nat /\ k + Len(h) \in 1..(Len(h) + Len(e)) /\ ~(k + Len(h) <= Len(h))
    BY <1>1
  <2>2. (k + Len(h)) - Len(h) = k
    BY <1>1, <2>1
  <2> QED
    BY <1>1, <2>1, <2>2
<1>5. ASSUME NEW k \in DOMAIN (h \o e)
      PROVE  (h \o e)[k] \in {h[i] : i \in DOMAIN h} \cup {e[i] : i \in DOMAIN e}
  BY <1>2, <1>5
<1>6. {(h \o e)[k] : k \in DOMAIN (h \o e)}
      \subseteq {h[k] : k \in DOMAIN h} \cup {e[k] : k \in DOMAIN e}
  BY <1>5
<1>7. ASSUME NEW k \in DOMAIN h
      PROVE  h[k] \in {(h \o e)[i] : i \in DOMAIN (h \o e)}
  BY <1>3, <1>7
<1>8. ASSUME NEW k \in DOMAIN e
      PROVE  e[k] \in {(h \o e)[i] : i \in DOMAIN (h \o e)}
  BY <1>4, <1>8
<1>9. {h[k] : k \in DOMAIN h} \cup {e[k] : k \in DOMAIN e}
      \subseteq {(h \o e)[k] : k \in DOMAIN (h \o e)}
  BY <1>7, <1>8
<1> QED
  BY <1>2, <1>6, <1>9, Zenon

(* What follows the history in the new one is what was executed now. *)
LEMMA Appended ==
    ASSUME NEW h \in Seq(Migrations), NEW e \in Seq(Migrations),
           NEW k \in (DOMAIN (h \o e)) \ DOMAIN h
    PROVE  k - Len(h) \in DOMAIN e /\ (h \o e)[k] = e[k - Len(h)]
<1>1. \/ k \in DOMAIN h /\ (h \o e)[k] = h[k]
      \/ k - Len(h) \in DOMAIN e /\ (h \o e)[k] = e[k - Len(h)] /\ k \notin DOMAIN h
  BY Concatenation
<1>2. k \notin DOMAIN h
  OBVIOUS
<1> QED
  BY <1>1, <1>2

(* The migration the loop takes is pending and the lowest of all pending. *)
LEMMA NextIsLowest ==
    ASSUME TypeOK, NEW r \in Runners, Pending(r) # {}
    PROVE  /\ NextMigration(r) \in Pending(r)
           /\ \A n \in Pending(r) : NextMigration(r).version <= n.version
<1>1. Pending(r) \subseteq Migrations
  BY DEF Pending, TypeOK
<1>2. Versions(Pending(r)) \subseteq Nat /\ Versions(Pending(r)) # {}
  BY <1>1, MigrationType DEF Versions
<1>3. PICK v \in Versions(Pending(r)) : \A w \in Versions(Pending(r)) : v <= w
  BY <1>2, LeastNatural
<1>4. \E m \in Pending(r) : \A n \in Pending(r) : m.version <= n.version
  BY <1>3 DEF Versions
<1> QED
  BY <1>4 DEF NextMigration

-----------------------------------------------------------------------------
(* Type correctness *)

LEMMA TypeInit == Init => TypeOK
BY FaultsAssumption DEF Init, TypeOK, PCs, Exits

(* The end of a run keeps the types of what a run knows. *)
LEMMA EndType ==
    ASSUME TypeOK, NEW r \in Runners, NEW code \in Exits, End(r, code)
    PROVE  /\ pc' \in [Runners -> PCs]
           /\ component' \in [Runners -> Components]
           /\ files' \in [Runners -> SUBSET Migrations]
           /\ skipped' \in [Runners -> SUBSET Nat]
           /\ executed' \in [Runners -> Seq(Migrations)]
           /\ inserted' \in [Runners -> SUBSET Migrations]
           /\ exit' \in [Runners -> Exits]
<1>1. (IF code = "success" THEN files[r] ELSE {}) \in SUBSET Migrations
  BY DEF TypeOK
<1> QED
  BY <1>1 DEF TypeOK, End, PCs

LEMMA CommitType ==
    ASSUME TypeOK, NEW r \in Runners, CommitBatch(r)
    PROVE  /\ ledger' \in [Components -> SUBSET Migrations]
           /\ history' \in [Components -> Seq(Migrations)]
BY DEF TypeOK, CommitBatch

(* Every step keeps the types. *)
LEMMA TypeStep == MigrationInv /\ [Next]_vars => TypeOK'
<1> SUFFICES ASSUME MigrationInv, [Next]_vars
             PROVE  TypeOK'
  OBVIOUS
<1>0. TypeOK
  BY DEF MigrationInv
<1> USE <1>0, FaultsAssumption, LockAssumption
<1>1. ASSUME NEW r \in Runners, NEW c \in Components, Start(r, c)
      PROVE  TypeOK'
  BY <1>1 DEF TypeOK, Start, PCs, Exits, databaseVars
<1>2. ASSUME NEW r \in Runners, RefuseConfiguration(r)
      PROVE  TypeOK'
  BY <1>2, EndType DEF TypeOK, RefuseConfiguration, Exits, databaseVars
<1>3. ASSUME NEW r \in Runners, NEW d \in Directories, RefuseDirectory(r, d)
      PROVE  TypeOK'
  BY <1>3, EndType DEF TypeOK, RefuseDirectory, Exits, databaseVars
<1>4. ASSUME NEW r \in Runners, NEW d \in Directories, Discover(r, d)
      PROVE  TypeOK'
  <2>1. Discovered(d) \in SUBSET Migrations
    BY <1>4, RepositoryType DEF Repositories, Discover
  <2> QED
    BY <1>4, <2>1 DEF TypeOK, Discover, PCs, databaseVars
<1>5. ASSUME NEW r \in Runners, Acquire(r)
      PROVE  TypeOK'
  BY <1>5 DEF TypeOK, Acquire, PCs, databaseVars
<1>6. ASSUME NEW r \in Runners, LockTimeout(r)
      PROVE  TypeOK'
  BY <1>6, EndType DEF TypeOK, LockTimeout, Exits, databaseVars
<1>7. ASSUME NEW r \in Runners, Verify(r)
      PROVE  TypeOK'
  <2>1. Versions(ledger[component[r]]) \in SUBSET Nat
    BY MigrationType DEF TypeOK, Versions
  <2> QED
    BY <1>7, <2>1 DEF TypeOK, Verify, PCs, databaseVars
<1>8. ASSUME NEW r \in Runners, Drift(r)
      PROVE  TypeOK'
  BY <1>8, EndType DEF TypeOK, Drift, Release, Exits, databaseVars
<1>9. ASSUME NEW r \in Runners, Execute(r)
      PROVE  TypeOK'
  <2>1. NextMigration(r) \in Migrations
    BY <1>9, NextIsLowest DEF Execute, Pending, TypeOK
  <2> QED
    BY <1>9, <2>1 DEF TypeOK, Execute, PCs, databaseVars
<1>10. ASSUME NEW r \in Runners, Reject(r)
       PROVE  TypeOK'
  BY <1>10, EndType DEF TypeOK, Reject, Release, Exits, databaseVars
<1>11. ASSUME NEW r \in Runners, Record(r)
       PROVE  TypeOK'
  <2>1. CASE KeyTaken(r, LastExecuted(r))
    BY <1>11, <2>1, EndType DEF TypeOK, Record, Release, Exits, databaseVars
  <2>2. CASE ~KeyTaken(r, LastExecuted(r))
    <3>1. executed[r] # <<>> /\ executed[r] \in Seq(Migrations)
      BY <1>11 DEF MigrationInv, TypeOK, RunInv, Applying, Record
    <3>2. LastExecuted(r) \in Migrations
      BY <3>1 DEF LastExecuted
    <3>3. /\ pc' = [pc EXCEPT ![r] = "applying"]
          /\ inserted' = [inserted EXCEPT ![r] = @ \cup {LastExecuted(r)}]
          /\ UNCHANGED <<component, files, skipped, executed, exit, lock, ledger,
                         history, faults>>
      BY <1>11, <2>2 DEF Record, databaseVars
    <3> QED
      BY <3>2, <3>3 DEF TypeOK, PCs
  <2> QED
    BY <2>1, <2>2
<1>12. ASSUME NEW r \in Runners, Commit(r)
       PROVE  TypeOK'
  BY <1>12, EndType, CommitType DEF TypeOK, Commit, Release, Exits
<1>13. ASSUME NEW r \in Runners, NEW code \in {"none", "database"}, CommitUnreported(r, code)
       PROVE  TypeOK'
  BY <1>13, EndType, CommitType DEF TypeOK, CommitUnreported, Release, Exits
<1>14. ASSUME NEW r \in Runners, NEW code \in {"none", "database"}, Interrupted(r, code)
       PROVE  TypeOK'
  BY <1>14, EndType DEF TypeOK, Interrupted, Abandon, Exits, databaseVars
<1>15. CASE SessionEnds
  BY <1>15 DEF TypeOK, SessionEnds, runVars, databaseVars
<1>16. CASE UNCHANGED vars
  BY <1>16 DEF TypeOK, vars, runVars, databaseVars
<1> QED
  BY <1>1, <1>2, <1>3, <1>4, <1>5, <1>6, <1>7, <1>8, <1>9, <1>10, <1>11, <1>12,
     <1>13, <1>14, <1>15, <1>16 DEF Next, Step

-----------------------------------------------------------------------------
(* One run at a time *)

(* What a run knows about itself stays what it is in the others' steps. *)
Local(r) == <<pc[r], component[r], files[r], skipped[r], executed[r], inserted[r], exit[r]>>

(* The end of a run gives up its transaction; exit code 0 keeps its files. *)
LEMMA EndOfRun ==
    ASSUME TypeOK, NEW r \in Runners, NEW code \in Exits, End(r, code)
    PROVE  /\ pc'[r] = "stopped" /\ exit'[r] = code
           /\ component'[r] = component[r]
           /\ skipped'[r] = {} /\ executed'[r] = <<>> /\ inserted'[r] = {}
           /\ code = "success" => files'[r] = files[r]
           /\ \A q \in Runners \ {r} : Local(q)' = Local(q)
BY DEF TypeOK, End, Local

(* A step that is not a commit leaves the database alone. *)
LEMMA DatabaseStep ==
    ASSUME [Next]_vars
    PROVE  \/ UNCHANGED databaseVars
           \/ \E r \in Runners :
                /\ pc[r] = "applying" /\ Pending(r) = {} /\ CommitBatch(r)
                /\ \E code \in {"success", "none", "database"} : End(r, code)
                /\ Release(r)
BY DEF Next, Step, vars, Start, RefuseConfiguration, RefuseDirectory, Discover, Acquire,
       LockTimeout, Verify, Drift, Execute, Reject, Record, Commit, CommitUnreported,
       Interrupted, SessionEnds

(* A commit makes the ledger of its component the run's files, and adds     *)
(* what it executed, in ascending versions that were not there.            *)
LEMMA CommitCompletes ==
    ASSUME MigrationInv, NEW r \in Runners, pc[r] = "applying", Pending(r) = {}, CommitBatch(r)
    PROVE  /\ component[r] \in Components
           /\ files[r] \in Repositories
           /\ ledger[component[r]] \subseteq files[r]
           /\ ledger' = [ledger EXCEPT ![component[r]] = files[r]]
           /\ history' = [history EXCEPT ![component[r]] = @ \o executed[r]]
           /\ Executed(r) = inserted[r]
           /\ Versions(Executed(r)) \cap Versions(ledger[component[r]]) = {}
           /\ \A i, j \in DOMAIN executed[r] :
                i < j => executed[r][i].version < executed[r][j].version
<1>1. TypeOK /\ Applying(r) /\ files[r] \in Repositories
  BY DEF MigrationInv, RunInv, InTransaction
<1>2. ASSUME NEW m \in files[r], m \notin Executed(r)
      PROVE  m \in ledger[component[r]]
  <2>1. m.version \in Versions(ledger[component[r]])
    BY <1>1, <1>2 DEF Pending, Applying
  <2>2. PICK n \in ledger[component[r]] : n.version = m.version
    BY <2>1 DEF Versions
  <2>3. n = m
    BY <1>1, <2>2, VersionsAreUnique DEF Applying
  <2> QED
    BY <2>2, <2>3
<1>3. inserted[r] = Executed(r)
  BY <1>1 DEF Applying
<1>4. ledger[component[r]] \cup inserted[r] = files[r]
  BY <1>1, <1>2, <1>3 DEF Applying
<1> QED
  BY <1>1, <1>3, <1>4 DEF CommitBatch, Applying, TypeOK

-----------------------------------------------------------------------------
(* The inductive invariant *)

LEMMA InvInit == Init => MigrationInv
<1> SUFFICES ASSUME Init
             PROVE  MigrationInv
  OBVIOUS
<1>1. LedgerIsHistory
  BY DEF Init, LedgerIsHistory
<1>2. VerifiedStays
  BY DEF Init, VerifiedStays
<1>3. \A r \in Runners : RunInv(r)
  BY DEF Init, RunInv, InTransaction
<1> QED
  BY <1>1, <1>2, <1>3, TypeInit DEF MigrationInv

(* The ledger and the history grow together, and by new versions only. *)
LEMMA HistoryStep == MigrationInv /\ [Next]_vars => LedgerIsHistory'
<1> SUFFICES ASSUME MigrationInv, [Next]_vars
             PROVE  LedgerIsHistory'
  OBVIOUS
<1>1. TypeOK /\ LedgerIsHistory
  BY DEF MigrationInv
<1>2. CASE UNCHANGED databaseVars
  BY <1>1, <1>2 DEF LedgerIsHistory, databaseVars
<1>3. ASSUME NEW r \in Runners, pc[r] = "applying", Pending(r) = {}, CommitBatch(r)
      PROVE  LedgerIsHistory'
  <2> DEFINE c == component[r]
             h == history[c]
             e == executed[r]
  <2>1. /\ c \in Components
        /\ ledger' = [ledger EXCEPT ![c] = ledger[c] \cup Executed(r)]
        /\ history' = [history EXCEPT ![c] = h \o e]
        /\ Versions(Executed(r)) \cap Versions(ledger[c]) = {}
        /\ \A i, j \in DOMAIN e : i < j => e[i].version < e[j].version
    BY <1>3, CommitCompletes DEF CommitBatch
  <2>2. /\ h \in Seq(Migrations) /\ e \in Seq(Migrations)
        /\ \A i \in DOMAIN e : e[i].version \in Nat
    BY <1>1, <2>1, MigrationType DEF TypeOK
  <2>3. /\ ledger[c] = {h[i] : i \in DOMAIN h}
        /\ \A i, j \in DOMAIN h : h[i].version = h[j].version => i = j
    BY <1>1, <2>1 DEF LedgerIsHistory
  <2>4. \A k \in DOMAIN (h \o e) :
           \/ k \in DOMAIN h /\ (h \o e)[k] = h[k]
           \/ k - Len(h) \in DOMAIN e /\ (h \o e)[k] = e[k - Len(h)] /\ k \notin DOMAIN h
    BY <2>2, Concatenation
  <2>5. ledger[c] \cup Executed(r) = {(h \o e)[i] : i \in DOMAIN (h \o e)}
    <3>1. {(h \o e)[i] : i \in DOMAIN (h \o e)}
          = {h[i] : i \in DOMAIN h} \cup {e[i] : i \in DOMAIN e}
      BY <2>2, Concatenation, Zenon
    <3>2. Executed(r) = {e[i] : i \in DOMAIN e}
      BY DEF Executed
    <3> QED
      BY <2>3, <3>1, <3>2, Zenon
  <2>6. ASSUME NEW i \in DOMAIN (h \o e), NEW j \in DOMAIN (h \o e),
               (h \o e)[i].version = (h \o e)[j].version
        PROVE  i = j
    <3>1. ASSUME NEW k \in DOMAIN h, NEW l \in DOMAIN e
          PROVE  h[k].version # e[l].version
      <4>1. h[k].version \in Versions(ledger[c])
        BY <2>3 DEF Versions
      <4>2. e[l].version \in Versions(Executed(r))
        BY DEF Versions, Executed
      <4> QED
        BY <2>1, <4>1, <4>2
    <3>2. ASSUME NEW k \in DOMAIN e, NEW l \in DOMAIN e, e[k].version = e[l].version
          PROVE  k = l
      <4>1. k \in Int /\ l \in Int
        BY <2>2
      <4>2. ~(k < l) /\ ~(l < k)
        BY <2>1, <2>2, <3>2
      <4> QED
        BY <4>1, <4>2
    <3>3. CASE i \in DOMAIN h /\ (h \o e)[i] = h[i]
      <4>1. j \in DOMAIN h /\ (h \o e)[j] = h[j]
        BY <2>4, <2>6, <3>1, <3>3
      <4> QED
        BY <2>3, <2>6, <3>3, <4>1
    <3>4. CASE i - Len(h) \in DOMAIN e /\ (h \o e)[i] = e[i - Len(h)]
      <4>1. j - Len(h) \in DOMAIN e /\ (h \o e)[j] = e[j - Len(h)]
        BY <2>4, <2>6, <3>1, <3>4
      <4>2. i - Len(h) = j - Len(h)
        BY <2>6, <3>2, <3>4, <4>1
      <4>3. i \in Int /\ j \in Int /\ Len(h) \in Int
        BY <2>2
      <4> QED
        BY <4>2, <4>3
    <3> QED
      BY <2>4, <3>3, <3>4
  <2>7. SUFFICES ASSUME NEW b \in Components
                 PROVE  /\ ledger'[b] = {history'[b][i] : i \in DOMAIN history'[b]}
                        /\ \A i, j \in DOMAIN history'[b] :
                             history'[b][i].version = history'[b][j].version => i = j
    BY DEF LedgerIsHistory
  <2>8. CASE b = c
    <3>1. ledger'[b] = ledger[c] \cup Executed(r) /\ history'[b] = h \o e
      BY <1>1, <2>1, <2>8 DEF TypeOK
    <3> QED
      BY <2>5, <2>6, <3>1
  <2>9. CASE b # c
    <3>1. ledger'[b] = ledger[b] /\ history'[b] = history[b]
      BY <1>1, <2>1, <2>9 DEF TypeOK
    <3> QED
      BY <1>1, <3>1 DEF LedgerIsHistory
  <2> QED
    BY <2>8, <2>9
<1> QED
  BY <1>2, <1>3, DatabaseStep

(* What is installed stays installed. *)
LEMMA LedgerGrows ==
    ASSUME MigrationInv, [Next]_vars, NEW c \in Components
    PROVE  ledger[c] \subseteq ledger'[c]
<1>1. CASE UNCHANGED databaseVars
  BY <1>1 DEF databaseVars
<1>2. ASSUME NEW r \in Runners, CommitBatch(r)
      PROVE  ledger[c] \subseteq ledger'[c]
  BY <1>2 DEF CommitBatch, MigrationInv, TypeOK
<1> QED
  BY <1>1, <1>2, DatabaseStep

(* What the others do is nothing to a run. *)
LEMMA OtherRuns ==
    ASSUME TypeOK, NEW r \in Runners, NEW q \in Runners, q # r,
           \/ Step(q) \/ LockTimeout(q) \/ \E c \in Components : Start(q, c)
           \/ \E code \in {"none", "database"} :
                CommitUnreported(q, code) \/ Interrupted(q, code)
    PROVE  Local(r)' = Local(r)
BY DEF Local, TypeOK, Step, Start, RefuseConfiguration, RefuseDirectory, Discover, Acquire,
       LockTimeout, Verify, Drift, Execute, Reject, Record, Commit, CommitUnreported,
       Interrupted, End

(* Exit code 0 is new only in a commit, and is forgotten by the next start. *)
LEMMA SuccessStep ==
    ASSUME MigrationInv, [Next]_vars, NEW r \in Runners, exit'[r] = "success"
    PROVE  Commit(r) \/ Local(r)' = Local(r)
<1>1. TypeOK /\ (pc[r] # "stopped" => exit[r] = "none")
  BY DEF MigrationInv, RunInv
<1>2. ASSUME NEW code \in Exits, End(r, code), code # "success"
      PROVE  FALSE
  BY <1>1, <1>2, EndOfRun
<1>3. ASSUME pc[r] # "stopped", exit' = exit
      PROVE  FALSE
  BY <1>1, <1>3
<1>4. ~(\E c \in Components : Start(r, c))
  BY <1>1 DEF Start, TypeOK
<1>5. ~RefuseConfiguration(r) /\ ~Drift(r) /\ ~Reject(r) /\ ~LockTimeout(r)
  BY <1>2 DEF RefuseConfiguration, Drift, Reject, LockTimeout, Exits
<1>6. \A d \in Directories : ~RefuseDirectory(r, d) /\ ~Discover(r, d)
  BY <1>2, <1>3 DEF RefuseDirectory, Discover, Exits
<1>7. ~Acquire(r) /\ ~Verify(r) /\ ~Execute(r)
  BY <1>3 DEF Acquire, Verify, Execute
<1>8. ~Record(r)
  BY <1>2, <1>3 DEF Record, Exits
<1>9. \A code \in {"none", "database"} : ~CommitUnreported(r, code) /\ ~Interrupted(r, code)
  BY <1>2 DEF CommitUnreported, Interrupted, Exits
<1>10. CASE SessionEnds \/ UNCHANGED vars
  BY <1>10 DEF SessionEnds, vars, runVars, Local
<1>11. CASE \E q \in Runners : q # r /\
              (\/ Step(q) \/ LockTimeout(q) \/ \E c \in Components : Start(q, c)
               \/ \E code \in {"none", "database"} :
                    CommitUnreported(q, code) \/ Interrupted(q, code))
  BY <1>1, <1>11, OtherRuns
<1> QED
  BY <1>4, <1>5, <1>6, <1>7, <1>8, <1>9, <1>10, <1>11 DEF Next, Step

(* A success is true when it is reported, and stays true. *)
LEMMA VerifiedStep == MigrationInv /\ [Next]_vars => VerifiedStays'
<1> SUFFICES ASSUME MigrationInv, [Next]_vars, NEW r \in Runners, exit'[r] = "success"
             PROVE  files'[r] \subseteq ledger'[component'[r]]
  BY DEF VerifiedStays
<1>1. TypeOK /\ VerifiedStays
  BY DEF MigrationInv
<1>2. CASE Local(r)' = Local(r)
  <2>1. /\ exit[r] = "success" /\ files'[r] = files[r] /\ component'[r] = component[r]
        /\ component[r] \in Components
    BY <1>1, <1>2 DEF Local, TypeOK
  <2> QED
    BY <1>1, <2>1, LedgerGrows DEF VerifiedStays
<1>3. CASE Commit(r)
  <2>1. /\ component[r] \in Components
        /\ ledger' = [ledger EXCEPT ![component[r]] = files[r]]
    BY <1>3, CommitCompletes DEF Commit
  <2>2. files'[r] = files[r] /\ component'[r] = component[r]
    BY <1>1, <1>3, EndOfRun DEF Commit, Exits
  <2> QED
    BY <1>1, <2>1, <2>2 DEF TypeOK
<1> QED
  BY <1>2, <1>3, SuccessStep

(* A run keeps its invariant while it does nothing, if nobody takes its     *)
(* lock or writes the ledger while it is in its transaction.               *)
LEMMA Undisturbed ==
    ASSUME NEW r \in Runners, RunInv(r), Local(r)' = Local(r),
           pc[r] \in InTransaction => lock' = lock /\ ledger' = ledger
    PROVE  RunInv(r)'
<1>1. /\ pc'[r] = pc[r] /\ component'[r] = component[r] /\ files'[r] = files[r]
      /\ skipped'[r] = skipped[r] /\ executed'[r] = executed[r]
      /\ inserted'[r] = inserted[r] /\ exit'[r] = exit[r]
  BY DEF Local
<1>2. Pending(r)' = Pending(r) /\ Executed(r)' = Executed(r)
  BY <1>1 DEF Pending, Executed
<1>3. pc[r] \in {"applying", "recording"} => Applying(r)'
  BY <1>1, <1>2 DEF RunInv, InTransaction, Applying
<1> QED
  BY <1>1, <1>3 DEF RunInv, InTransaction

(* Nobody else moves the lock or the ledger of a run in its transaction. *)
LEMMA LockProtects ==
    ASSUME MigrationInv, NEW r \in Runners, pc[r] \in InTransaction, NEW q \in Runners, q # r,
           \/ Step(q) \/ LockTimeout(q) \/ \E c \in Components : Start(q, c)
           \/ \E code \in {"none", "database"} :
                CommitUnreported(q, code) \/ Interrupted(q, code)
    PROVE  lock' = lock /\ ledger' = ledger
<1>1. lock = r /\ lock # q /\ lock # Free /\ pc[q] \notin InTransaction
  BY LockAssumption DEF MigrationInv, RunInv
<1> QED
  BY <1>1 DEF Step, Start, RefuseConfiguration, RefuseDirectory, Discover, Acquire,
     LockTimeout, Verify, Drift, Execute, Reject, Record, Commit, CommitUnreported,
     Interrupted, Release, Abandon, LockIsFree, databaseVars, InTransaction

(* A run that is over holds nothing of a transaction. *)
LEMMA EndInv ==
    ASSUME TypeOK, NEW r \in Runners, NEW code \in Exits, End(r, code)
    PROVE  RunInv(r)'
BY EndOfRun DEF RunInv, InTransaction

(* The ledger a run verified is what it goes on from. *)
LEMMA VerifyInv ==
    ASSUME MigrationInv, NEW r \in Runners, Verify(r)
    PROVE  RunInv(r)'
<1>1. /\ TypeOK /\ lock = r /\ exit[r] = "none" /\ files[r] \in Repositories
      /\ skipped[r] = {} /\ executed[r] = <<>> /\ inserted[r] = {}
  BY DEF MigrationInv, RunInv, Verify, InTransaction
<1>2. /\ pc'[r] = "applying" /\ component' = component /\ files' = files
      /\ skipped'[r] = Versions(ledger[component[r]])
      /\ UNCHANGED <<executed, inserted, exit, lock, ledger>>
  BY <1>1 DEF Verify, TypeOK, databaseVars
<1>3. ledger[component[r]] \subseteq files[r]
  <2> SUFFICES ASSUME NEW row \in ledger[component[r]]
               PROVE  row \in files[r]
    OBVIOUS
  <2>1. PICK m \in files[r] : /\ m.version = row.version /\ m.name = row.name
                              /\ m.checksum = row.checksum
    BY DEF Verify, Consistent
  <2>2. row \in Migrations /\ m \in Migrations
    BY <1>1 DEF TypeOK
  <2>3. row = m
    BY <2>1, <2>2 DEF Migrations, Migration
  <2> QED
    BY <2>3
<1>4. Executed(r)' = {}
  BY <1>1, <1>2 DEF Executed
<1>5. Applying(r)'
  BY <1>1, <1>2, <1>3, <1>4 DEF Applying, Versions
<1> QED
  BY <1>1, <1>2, <1>5 DEF RunInv, InTransaction

(* The next statement is above all that were executed, and below the rest. *)
LEMMA ExecuteInv ==
    ASSUME MigrationInv, NEW r \in Runners, Execute(r)
    PROVE  RunInv(r)'
<1> DEFINE e == executed[r]
           m == NextMigration(r)
<1>1. /\ TypeOK /\ lock = r /\ exit[r] = "none" /\ files[r] \in Repositories
      /\ Applying(r) /\ inserted[r] = Executed(r)
  BY DEF MigrationInv, RunInv, Execute, InTransaction, Applying
<1>2. /\ pc'[r] = "recording" /\ executed'[r] = Append(e, m)
      /\ UNCHANGED <<component, files, skipped, inserted, exit, lock, ledger>>
  BY <1>1 DEF Execute, TypeOK, databaseVars
<1>3. /\ m \in Pending(r) /\ m \in files[r] /\ m \in Migrations
      /\ m.version \notin skipped[r] /\ m \notin Executed(r)
      /\ \A n \in Pending(r) : m.version <= n.version
  BY <1>1, NextIsLowest DEF Execute, Pending, TypeOK
<1>4. /\ e \in Seq(Migrations) /\ Len(e) \in Nat /\ DOMAIN e = 1..Len(e)
      /\ DOMAIN Append(e, m) = 1..(Len(e) + 1) /\ Len(Append(e, m)) = Len(e) + 1
      /\ \A i \in 1..Len(e) : Append(e, m)[i] = e[i]
      /\ Append(e, m)[Len(e) + 1] = m
  BY <1>1, <1>3 DEF TypeOK
<1>5. Executed(r)' = Executed(r) \cup {m}
  <2>1. Executed(r)' = {Append(e, m)[i] : i \in 1..(Len(e) + 1)}
    BY <1>2, <1>4 DEF Executed
  <2>2. Executed(r) = {Append(e, m)[i] : i \in 1..Len(e)}
    BY <1>4 DEF Executed
  <2>3. 1..(Len(e) + 1) = (1..Len(e)) \cup {Len(e) + 1}
    BY <1>4
  <2> QED
    BY <1>4, <2>1, <2>2, <2>3
<1>6. Pending(r)' = Pending(r) \ {m}
  BY <1>2, <1>5 DEF Pending
<1>7. \A n \in Pending(r)' : m.version < n.version
  <2> SUFFICES ASSUME NEW n \in Pending(r) \ {m}
               PROVE  m.version < n.version
    BY <1>6
  <2>1. n \in files[r] /\ n \in Migrations
    BY <1>1 DEF Pending, TypeOK
  <2>2. m.version # n.version
    BY <1>1, <1>3, <2>1, VersionsAreUnique
  <2> QED
    BY <1>3, <2>1, <2>2, MigrationType
<1>8. \A n \in Pending(r)', x \in Executed(r)' : x.version < n.version
  BY <1>1, <1>5, <1>6, <1>7 DEF Applying
<1>9. \A i, j \in DOMAIN executed'[r] :
         i < j => executed'[r][i].version < executed'[r][j].version
  <2> SUFFICES ASSUME NEW i \in 1..(Len(e) + 1), NEW j \in 1..(Len(e) + 1), i < j
               PROVE  Append(e, m)[i].version < Append(e, m)[j].version
    BY <1>2, <1>4
  <2>1. i \in 1..Len(e) /\ Append(e, m)[i] = e[i] /\ e[i] \in Executed(r)
    BY <1>4 DEF Executed
  <2>2. CASE j \in 1..Len(e)
    BY <1>1, <1>4, <2>1, <2>2 DEF Applying
  <2>3. CASE j = Len(e) + 1
    BY <1>1, <1>3, <1>4, <2>1, <2>3 DEF Applying
  <2> QED
    BY <1>4, <2>2, <2>3
<1>10. inserted'[r] = {executed'[r][i] : i \in 1..(Len(executed'[r]) - 1)}
  <2>1. Len(executed'[r]) - 1 = Len(e)
    BY <1>2, <1>4
  <2>2. Executed(r) = {executed'[r][i] : i \in 1..Len(e)}
    BY <1>2, <1>4 DEF Executed
  <2> QED
    BY <1>1, <1>2, <2>1, <2>2
<1>11. executed'[r] # <<>>
  BY <1>2, <1>4
<1>12. Versions(Executed(r)') \cap skipped[r] = {}
  BY <1>1, <1>3, <1>5 DEF Applying, Versions
<1>13. Applying(r)'
  BY <1>1, <1>2, <1>3, <1>5, <1>8, <1>9, <1>10, <1>11, <1>12 DEF Applying, Versions
<1> QED
  BY <1>1, <1>2, <1>13 DEF RunInv, InTransaction

(* No other run has the key of the row, so that the insert succeeds. *)
LEMMA KeyIsFree ==
    ASSUME MigrationInv, NEW r \in Runners, pc[r] = "recording"
    PROVE  /\ ~KeyTaken(r, LastExecuted(r))
           /\ Executed(r) = inserted[r] \cup {LastExecuted(r)}
<1> DEFINE e == executed[r]
           l == Len(e)
<1>1. /\ TypeOK /\ Applying(r) /\ e # <<>> /\ e \in Seq(Migrations)
      /\ inserted[r] = {e[i] : i \in 1..(l - 1)}
  BY DEF MigrationInv, RunInv, InTransaction, Applying, TypeOK
<1>2. l \in Nat \ {0} /\ DOMAIN e = 1..l /\ l \in DOMAIN e /\ LastExecuted(r) = e[l]
  BY <1>1 DEF LastExecuted
<1>3. 1..l = (1..(l - 1)) \cup {l}
  BY <1>2
<1>4. Executed(r) = inserted[r] \cup {LastExecuted(r)}
  BY <1>1, <1>2, <1>3 DEF Executed
<1>5. e[l].version \notin Versions(ledger[component[r]])
  BY <1>1, <1>2, <1>4 DEF Applying, Versions
<1>6. ASSUME NEW i \in 1..(l - 1)
      PROVE  e[i].version # e[l].version
  <2>1. i \in DOMAIN e /\ i < l
    BY <1>2, <1>3
  <2>2. e[i] \in Migrations /\ e[l] \in Migrations
    BY <1>1, <1>2, <2>1
  <2> QED
    BY <1>1, <1>2, <2>1, <2>2, MigrationType DEF Applying
<1>7. e[l].version \notin Versions(inserted[r])
  BY <1>1, <1>6 DEF Versions
<1> QED
  BY <1>2, <1>4, <1>5, <1>7 DEF KeyTaken, Versions

LEMMA RecordInv ==
    ASSUME MigrationInv, NEW r \in Runners, Record(r)
    PROVE  RunInv(r)'
<1>1. /\ TypeOK /\ lock = r /\ exit[r] = "none" /\ files[r] \in Repositories
      /\ Applying(r) /\ pc[r] = "recording"
  BY DEF MigrationInv, RunInv, Record, InTransaction
<1>2. /\ pc'[r] = "applying" /\ inserted'[r] = Executed(r)
      /\ UNCHANGED <<component, files, skipped, executed, exit, lock, ledger>>
  BY <1>1, KeyIsFree DEF Record, TypeOK, databaseVars
<1>3. Executed(r)' = Executed(r) /\ Pending(r)' = Pending(r)
  BY <1>2 DEF Executed, Pending
<1>4. Applying(r)'
  BY <1>1, <1>2, <1>3 DEF Applying
<1> QED
  BY <1>1, <1>2, <1>4 DEF RunInv, InTransaction

(* Every run keeps its invariant in every step. *)
LEMMA RunStep == MigrationInv /\ [Next]_vars => \A r \in Runners : RunInv(r)'
<1> SUFFICES ASSUME MigrationInv, [Next]_vars, NEW r \in Runners
             PROVE  RunInv(r)'
  OBVIOUS
<1>1. TypeOK /\ RunInv(r)
  BY DEF MigrationInv
<1>2. ASSUME NEW code \in Exits, End(r, code)
      PROVE  RunInv(r)'
  BY <1>1, <1>2, EndInv
<1>3. ASSUME NEW c \in Components, Start(r, c)
      PROVE  RunInv(r)'
  BY <1>1, <1>3 DEF Start, TypeOK, RunInv, InTransaction
<1>4. ASSUME NEW d \in Directories, Discover(r, d)
      PROVE  RunInv(r)'
  BY <1>1, <1>4 DEF Discover, TypeOK, RunInv, InTransaction, Repositories
<1>5. CASE Acquire(r)
  BY <1>1, <1>5 DEF Acquire, TypeOK, RunInv, InTransaction
<1>6. CASE \/ RefuseConfiguration(r) \/ LockTimeout(r) \/ Drift(r) \/ Reject(r)
           \/ Commit(r) \/ \E d \in Directories : RefuseDirectory(r, d)
  BY <1>2, <1>6 DEF RefuseConfiguration, LockTimeout, Drift, Reject, Commit,
     RefuseDirectory, Exits
<1>7. CASE \E code \in {"none", "database"} : CommitUnreported(r, code) \/ Interrupted(r, code)
  BY <1>2, <1>7 DEF CommitUnreported, Interrupted, Exits
<1>8. CASE SessionEnds \/ UNCHANGED vars
  <2>1. Local(r)' = Local(r) /\ ledger' = ledger
    BY <1>8 DEF SessionEnds, vars, runVars, databaseVars, Local
  <2>2. pc[r] \in InTransaction => lock' = lock
    BY <1>1, <1>8, LockAssumption DEF SessionEnds, vars, RunInv
  <2> QED
    BY <1>1, <2>1, <2>2, Undisturbed
<1>9. CASE \E q \in Runners : q # r /\
              (\/ Step(q) \/ LockTimeout(q) \/ \E c \in Components : Start(q, c)
               \/ \E code \in {"none", "database"} :
                    CommitUnreported(q, code) \/ Interrupted(q, code))
  BY <1>1, <1>9, OtherRuns, LockProtects, Undisturbed
<1> QED
  BY <1>3, <1>4, <1>5, <1>6, <1>7, <1>8, <1>9, VerifyInv, ExecuteInv, RecordInv
     DEF Next, Step

LEMMA InvStep == MigrationInv /\ [Next]_vars => MigrationInv'
BY TypeStep, HistoryStep, VerifiedStep, RunStep DEF MigrationInv

-----------------------------------------------------------------------------
(* Theorems *)

(* The inductive invariant holds: among the rest, a run in its transaction  *)
(* holds the lock and goes on from the ledger as it is.                    *)
THEOREM MigrationInvariance == Spec => []MigrationInv
BY InvInit, InvStep, PTL DEF Spec

(* The ledger of a component is exactly what was executed for it, once.     *)
THEOREM LedgerIsTrue == Spec => []LedgerIsHistory
<1>1. MigrationInv => LedgerIsHistory
  BY DEF MigrationInv
<1> QED
  BY <1>1, MigrationInvariance, PTL

(* A success that was reported stays true.                                  *)
THEOREM SuccessIsTrue == Spec => []VerifiedStays
<1>1. MigrationInv => VerifiedStays
  BY DEF MigrationInv
<1> QED
  BY <1>1, MigrationInvariance, PTL

(* The database changes by whole upgrades only.                             *)
THEOREM UpgradesAreWhole == Spec => WholeUpgrades
<1>1. Init => Schema!Init
  BY DEF Init, Schema!Init
<1>2. MigrationInv /\ [Next]_vars => [Schema!Next]_ledger
  <2> SUFFICES ASSUME MigrationInv, [Next]_vars
               PROVE  Schema!Next \/ UNCHANGED ledger
    OBVIOUS
  <2>1. CASE UNCHANGED databaseVars
    BY <2>1 DEF databaseVars
  <2>2. ASSUME NEW r \in Runners, pc[r] = "applying", Pending(r) = {}, CommitBatch(r)
        PROVE  Schema!Next
    BY <2>2, CommitCompletes DEF Schema!Next, Schema!Upgrade
  <2> QED
    BY <2>1, <2>2, DatabaseStep
<1> QED
  BY <1>1, <1>2, MigrationInvariance, PTL DEF Spec, WholeUpgrades, Schema!Spec

(* What a transaction adds to the schema is in numeric order.               *)
THEOREM UpgradesAscend == Spec => AscendingUpgrades
<1> DEFINE Ascends ==
             \A c \in Components :
                 \A i, j \in (DOMAIN history'[c]) \ DOMAIN history[c] :
                     i < j => history'[c][i].version < history'[c][j].version
<1>1. MigrationInv /\ [Next]_vars => [Ascends]_vars
  <2> SUFFICES ASSUME MigrationInv, [Next]_vars, NEW c \in Components,
                      NEW i \in (DOMAIN history'[c]) \ DOMAIN history[c],
                      NEW j \in (DOMAIN history'[c]) \ DOMAIN history[c], i < j
               PROVE  history'[c][i].version < history'[c][j].version
    OBVIOUS
  <2>1. TypeOK
    BY DEF MigrationInv
  <2>2. ~UNCHANGED databaseVars
    BY DEF databaseVars
  <2>3. PICK r \in Runners : pc[r] = "applying" /\ Pending(r) = {} /\ CommitBatch(r)
    BY <2>2, DatabaseStep
  <2> DEFINE h == history[c]
             e == executed[r]
  <2>4. /\ history' = [history EXCEPT ![component[r]] = @ \o e]
        /\ \A k, l \in DOMAIN e : k < l => e[k].version < e[l].version
    BY <2>3, CommitCompletes
  <2>5. c = component[r] /\ history'[c] = h \o e
    BY <2>1, <2>4 DEF TypeOK
  <2>6. h \in Seq(Migrations) /\ e \in Seq(Migrations)
    BY <2>1 DEF TypeOK
  <2>7. \A k \in (DOMAIN (h \o e)) \ DOMAIN h :
           k - Len(h) \in DOMAIN e /\ (h \o e)[k] = e[k - Len(h)]
    BY <2>6, Appended
  <2>8. /\ i - Len(h) \in DOMAIN e /\ history'[c][i] = e[i - Len(h)]
        /\ j - Len(h) \in DOMAIN e /\ history'[c][j] = e[j - Len(h)]
    BY <2>5, <2>7
  <2>9. i - Len(h) < j - Len(h)
    <3>1. i \in Int /\ j \in Int /\ Len(h) \in Int
      BY <2>5, <2>6
    <3> QED
      BY <3>1
  <2> QED
    BY <2>4, <2>8, <2>9
<1> QED
  BY <1>1, MigrationInvariance, PTL DEF Spec, AscendingUpgrades

(* Overlapping runs can make each other fail only while they wait for the  *)
(* lock: exit code 4 needs a fault, a rejected statement or a lock that    *)
(* another session keeps.                                                  *)
THEOREM OverlapIsHarmlessUnderLock == Spec => OverlapFailsOnlyWaiters
<1> DEFINE Cause(r) == \/ faults' > faults
                       \/ \E m \in files[r] : m.checksum \in Rejected
                       \/ pc[r] = "discovered" /\ lock # Free
           Caused == \A r \in Runners :
                       exit'[r] = "database" /\ exit[r] # "database" => Cause(r)
<1>1. MigrationInv /\ [Next]_vars => [Caused]_vars
  <2> SUFFICES ASSUME MigrationInv, [Next]_vars, NEW r \in Runners,
                      exit'[r] = "database", exit[r] # "database"
               PROVE  Cause(r)
    OBVIOUS
  <2>1. TypeOK
    BY DEF MigrationInv
  <2>2. ASSUME Local(r)' = Local(r)
        PROVE  FALSE
    BY <2>2 DEF Local
  <2>3. ASSUME exit' = exit
        PROVE  FALSE
    BY <2>3
  <2>4. ASSUME NEW code \in Exits, End(r, code), code # "database"
        PROVE  FALSE
    BY <2>1, <2>4, EndOfRun
  <2>5. ~(\E c \in Components : Start(r, c))
    BY <2>1 DEF Start, TypeOK
  <2>6. ~RefuseConfiguration(r) /\ ~Drift(r) /\ ~Commit(r)
    BY <2>4 DEF RefuseConfiguration, Drift, Commit, Exits
  <2>7. \A d \in Directories : ~RefuseDirectory(r, d) /\ ~Discover(r, d)
    BY <2>3, <2>4 DEF RefuseDirectory, Discover, Exits
  <2>8. ~Acquire(r) /\ ~Verify(r) /\ ~Execute(r)
    BY <2>3 DEF Acquire, Verify, Execute
  <2>9. ~Record(r)
    BY <2>3, KeyIsFree DEF Record
  <2>10. CASE Reject(r)
    <3>1. NextMigration(r) \in files[r]
      BY <2>1, <2>10, NextIsLowest DEF Reject, Pending
    <3> QED
      BY <2>10, <3>1 DEF Reject
  <2>11. CASE LockTimeout(r)
    BY <2>11 DEF LockTimeout
  <2>12. CASE \E code \in {"none", "database"} :
                CommitUnreported(r, code) \/ Interrupted(r, code)
    BY <2>1, <2>12, FaultsAssumption DEF TypeOK, CommitUnreported, Interrupted
  <2>13. CASE SessionEnds \/ UNCHANGED vars
    BY <2>3, <2>13 DEF SessionEnds, vars, runVars
  <2>14. CASE \E q \in Runners : q # r /\
                (\/ Step(q) \/ LockTimeout(q) \/ \E c \in Components : Start(q, c)
                 \/ \E code \in {"none", "database"} :
                      CommitUnreported(q, code) \/ Interrupted(q, code))
    BY <2>1, <2>2, <2>14, OtherRuns
  <2> QED
    BY <2>5, <2>6, <2>7, <2>8, <2>9, <2>10, <2>11, <2>12, <2>13, <2>14 DEF Next, Step
<1> QED
  BY <1>1, MigrationInvariance, PTL DEF Spec, OverlapFailsOnlyWaiters
================================================================================
