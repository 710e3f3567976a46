---------------------------- MODULE SchemaMigrations ----------------------------
(***************************************************************************)
(* Runs of the command factoryflow-p01-migrate against one database.       *)
(*                                                                         *)
(* A run reads its migration directory, opens one transaction, takes the   *)
(* advisory lock, compares the ledger audit.schema_migrations of its       *)
(* component with the files it read, executes what is missing in numeric   *)
(* order with one ledger row for each, and commits.  Every runner reads a  *)
(* directory of its own (an image, a checkout), which a deployment may     *)
(* have replaced since its last run; all runners share the lock.           *)
(***************************************************************************)
EXTENDS Integers, Sequences

CONSTANTS
    Runners,     \* hosts the command may be started on
    Components,  \* migration-ledger namespaces
    Directories, \* sets of artifacts a migration directory may hold
    Rejected,    \* checksums of the statements PostgreSQL always rejects
    Free,        \* the advisory lock is not held
    Orphan,      \* it is held by a session whose client is gone
    MaxFaults    \* bound: lost connections, failed statements and crashes

(* An artifact is one *.sql file: its version and name as the file name     *)
(* gives them, the checksum of its content, and whether it is a readable,   *)
(* regular, nonempty UTF-8 file with a valid name.                          *)
ASSUME DirectoriesAssumption ==
    \A d \in Directories : \A a \in d :
        /\ a.version \in Nat
        /\ a.valid \in BOOLEAN
ASSUME LockAssumption ==
    /\ Free \notin Runners
    /\ Orphan \notin Runners
    /\ Free # Orphan
ASSUME FaultsAssumption == MaxFaults \in Nat

VARIABLES
    \* the runs
    pc,         \* where the run of a runner stands
    component,  \* its --component
    files,      \* the migrations it read from its directory
    skipped,    \* installed_versions: the versions its SELECT found
    executed,   \* the migrations it executed in its transaction
    inserted,   \* the ledger rows it inserted in its transaction
    exit,       \* how its last run ended
    \* the database
    lock,       \* the holder of the advisory lock
    ledger,     \* ledger[c]: the committed rows of component c
    history,    \* history[c]: the committed statements of c, in their order
    faults      \* lost connections, failed statements and crashes so far

runVars == <<pc, component, files, skipped, executed, inserted, exit>>
databaseVars == <<ledger, history>>
vars == <<runVars, lock, databaseVars, faults>>

(*   launched    the arguments are parsed, the pool is opening              *)
(*   discovered  the files are read, waiting for the advisory lock          *)
(*   locked      holds the lock, about to read the ledger                   *)
(*   applying    between two migrations                                     *)
(*   recording   a statement is executed, its row is not inserted yet       *)
PCs == {"stopped", "launched", "discovered", "locked", "applying", "recording"}

InTransaction == {"locked", "applying", "recording"}

(* The exit codes 0, 2, 3 and 4; "none" when the process runs or was killed. *)
Exits == {"none", "success", "configuration", "drift", "database"}

Migration(a) == [version |-> a.version, name |-> a.name, checksum |-> a.checksum]

(* What discover_sql_migrations returns, a set: a version tells the place. *)
Discovered(d) == {Migration(a) : a \in d}

Versions(ms) == {m.version : m \in ms}

-----------------------------------------------------------------------------
(* Discovery *)

(* Mutant: two files of one version are let through. *)
DiscoverableWithDuplicates(d) == \A a \in d : a.valid /\ a.version # 0

(* The directories discovery does not refuse. *)
Discoverable(d) ==
    /\ \A a \in d : a.valid /\ a.version # 0
    /\ \A a, b \in d : a.version = b.version => a = b

Repositories == {Discovered(d) : d \in {e \in Directories : Discoverable(e)}}

-----------------------------------------------------------------------------
(* Helpers *)

Executed(r) == {executed[r][i] : i \in DOMAIN executed[r]}

(* What the loop of run() still has to execute. *)
Pending(r) == {m \in files[r] : m.version \notin skipped[r] /\ m \notin Executed(r)}

(* Mutant: the files are sorted the other way round. *)
LastPending(r) == CHOOSE m \in Pending(r) : \A n \in Pending(r) : n.version <= m.version

(* The migration the loop takes next. *)
NextMigration(r) == CHOOSE m \in Pending(r) : \A n \in Pending(r) : m.version <= n.version

(* Mutant: only the versions that have a file are compared. *)
ConsistentIfPresent(r) ==
    \A row \in ledger[component[r]] : \A m \in files[r] :
        m.version = row.version => m = row

(* Mutant: the checksum is not compared. *)
ConsistentByName(r) ==
    \A row \in ledger[component[r]] : \E m \in files[r] :
        m.version = row.version /\ m.name = row.name

(* Every installed row has a file of the same version, name and checksum. *)
Consistent(r) ==
    \A row \in ledger[component[r]] : \E m \in files[r] :
        m.version = row.version /\ m.name = row.name /\ m.checksum = row.checksum

(* The primary key of the ledger refuses a second row of a version, and an *)
(* insert waits until the row of another open transaction is decided.      *)
KeyTaken(r, m) == m.version \in Versions(ledger[component[r]] \cup inserted[r])
KeyUndecided(r, m) ==
    \E q \in Runners \ {r} :
        component[q] = component[r] /\ m.version \in Versions(inserted[q])

(* The end of a run: its transaction is over, it holds nothing any more. *)
End(r, code) ==
    /\ pc' = [pc EXCEPT ![r] = "stopped"]
    /\ exit' = [exit EXCEPT ![r] = code]
    /\ files' = [files EXCEPT ![r] = IF code = "success" THEN @ ELSE {}]
    /\ skipped' = [skipped EXCEPT ![r] = {}]
    /\ executed' = [executed EXCEPT ![r] = <<>>]
    /\ inserted' = [inserted EXCEPT ![r] = {}]
    /\ UNCHANGED component

(* The advisory lock goes with the transaction. *)
Release(r) == lock' = IF lock = r THEN Free ELSE lock

(* The server still has to find out that the client is gone. *)
Abandon(r) == lock' = IF lock = r THEN Orphan ELSE lock

(* The transaction's rows and statements become the database's. *)
CommitBatch(r) ==
    /\ ledger' = [ledger EXCEPT ![component[r]] = @ \cup inserted[r]]
    /\ history' = [history EXCEPT ![component[r]] = @ \o executed[r]]

Init ==
    /\ pc = [r \in Runners |-> "stopped"]
    /\ component \in [Runners -> Components]
    /\ files = [r \in Runners |-> {}]
    /\ skipped = [r \in Runners |-> {}]
    /\ executed = [r \in Runners |-> <<>>]
    /\ inserted = [r \in Runners |-> {}]
    /\ exit = [r \in Runners |-> "none"]
    /\ lock = Free
    /\ ledger = [c \in Components |-> {}]
    /\ history = [c \in Components |-> <<>>]
    /\ faults = 0

-----------------------------------------------------------------------------
(* The command up to the transaction *)

(* The process starts and parses its arguments. *)
Start(r, c) ==
    /\ pc[r] = "stopped"
    /\ pc' = [pc EXCEPT ![r] = "launched"]
    /\ component' = [component EXCEPT ![r] = c]
    /\ exit' = [exit EXCEPT ![r] = "none"]
    /\ files' = [files EXCEPT ![r] = {}]
    /\ UNCHANGED <<skipped, executed, inserted, lock, databaseVars, faults>>

(* The URL or a limit is refused, before the pool opens. *)
RefuseConfiguration(r) ==
    /\ pc[r] = "launched"
    /\ End(r, "configuration")
    /\ UNCHANGED <<lock, databaseVars, faults>>

(* discover_sql_migrations refuses the directory. *)
RefuseDirectory(r, d) ==
    /\ pc[r] = "launched"
    /\ ~Discoverable(d)
    /\ End(r, "configuration")
    /\ UNCHANGED <<lock, databaseVars, faults>>

(* The pool is open and the files are read, whichever the directory holds  *)
(* at this moment; then the transaction begins.                            *)
Discover(r, d) ==
    /\ pc[r] = "launched"
    /\ Discoverable(d)
    /\ pc' = [pc EXCEPT ![r] = "discovered"]
    /\ files' = [files EXCEPT ![r] = Discovered(d)]
    /\ UNCHANGED <<component, skipped, executed, inserted, exit, lock,
                   databaseVars, faults>>

-----------------------------------------------------------------------------
(* The transaction *)

(* Mutant: the advisory lock is not waited for. *)
LockIgnored == TRUE

LockIsFree == lock = Free

(* pg_advisory_xact_lock returns. *)
Acquire(r) ==
    /\ pc[r] = "discovered"
    /\ LockIsFree
    /\ lock' = r
    /\ pc' = [pc EXCEPT ![r] = "locked"]
    /\ UNCHANGED <<component, files, skipped, executed, inserted, exit,
                   databaseVars, faults>>

(* lock_timeout expires while another session holds the lock: that of a    *)
(* dead client, or of another run, which may take longer than that.        *)
LockTimeout(r) ==
    /\ pc[r] = "discovered"
    /\ lock # Free
    /\ End(r, "database")
    /\ UNCHANGED <<lock, databaseVars, faults>>

(* The installed rows are read and all have their file. *)
Verify(r) ==
    /\ pc[r] = "locked"
    /\ Consistent(r)
    /\ pc' = [pc EXCEPT ![r] = "applying"]
    /\ skipped' = [skipped EXCEPT ![r] = Versions(ledger[component[r]])]
    /\ UNCHANGED <<component, files, executed, inserted, exit, lock,
                   databaseVars, faults>>

(* A row has no file, or another one: PostgresMigrationDriftError. *)
Drift(r) ==
    /\ pc[r] = "locked"
    /\ ~Consistent(r)
    /\ End(r, "drift")
    /\ Release(r)
    /\ UNCHANGED <<databaseVars, faults>>

(* PostgreSQL executes the statement of the next migration. *)
Execute(r) ==
    /\ pc[r] = "applying"
    /\ Pending(r) # {}
    /\ NextMigration(r).checksum \notin Rejected
    /\ executed' = [executed EXCEPT ![r] = Append(@, NextMigration(r))]
    /\ pc' = [pc EXCEPT ![r] = "recording"]
    /\ UNCHANGED <<component, files, skipped, inserted, exit, lock,
                   databaseVars, faults>>

(* Mutant: the batch is tried again after a rejected statement. *)
RejectAndRetry(r) ==
    /\ pc[r] = "applying"
    /\ Pending(r) # {}
    /\ NextMigration(r).checksum \in Rejected
    /\ pc' = [pc EXCEPT ![r] = "locked"]
    /\ skipped' = [skipped EXCEPT ![r] = {}]
    /\ executed' = [executed EXCEPT ![r] = <<>>]
    /\ inserted' = [inserted EXCEPT ![r] = {}]
    /\ UNCHANGED <<component, files, exit, lock, databaseVars, faults>>

(* It rejects the statement: PostgresMigrationExecutionError. *)
Reject(r) ==
    /\ pc[r] = "applying"
    /\ Pending(r) # {}
    /\ NextMigration(r).checksum \in Rejected
    /\ End(r, "database")
    /\ Release(r)
    /\ UNCHANGED <<databaseVars, faults>>

(* The row of the migration just executed. *)
LastExecuted(r) == executed[r][Len(executed[r])]

(* Mutant: the rows are inserted in a transaction of their own. *)
RecordInAutocommit(r) ==
    /\ pc[r] = "recording"
    /\ ~KeyTaken(r, LastExecuted(r))
    /\ ledger' = [ledger EXCEPT ![component[r]] = @ \cup {LastExecuted(r)}]
    /\ pc' = [pc EXCEPT ![r] = "applying"]
    /\ UNCHANGED <<component, files, skipped, executed, inserted, exit, lock,
                   history, faults>>

(* Its ledger row is inserted, or refused by the primary key. *)
Record(r) ==
    /\ pc[r] = "recording"
    /\ ~KeyUndecided(r, LastExecuted(r))
    /\ IF KeyTaken(r, LastExecuted(r))
         THEN End(r, "database") /\ Release(r)
         ELSE /\ inserted' = [inserted EXCEPT ![r] = @ \cup {LastExecuted(r)}]
              /\ pc' = [pc EXCEPT ![r] = "applying"]
              /\ UNCHANGED <<component, files, skipped, executed, exit, lock>>
    /\ UNCHANGED <<databaseVars, faults>>

(* The loop is over: the transaction commits and the command reports. *)
Commit(r) ==
    /\ pc[r] = "applying"
    /\ Pending(r) = {}
    /\ CommitBatch(r)
    /\ End(r, "success")
    /\ Release(r)
    /\ UNCHANGED faults

-----------------------------------------------------------------------------
(* Failures *)

(* PostgreSQL commits, but the client loses the connection or its life     *)
(* before it knows.                                                        *)
CommitUnreported(r, code) ==
    /\ pc[r] = "applying"
    /\ Pending(r) = {}
    /\ faults < MaxFaults
    /\ faults' = faults + 1
    /\ CommitBatch(r)
    /\ End(r, code)
    /\ Release(r)

(* A connection attempt, a statement, an insert or the commit fails for a  *)
(* reason of its own (psycopg.Error, PoolTimeout), or the process dies.    *)
(* PostgreSQL rolls the transaction back when it ends the session.         *)
Interrupted(r, code) ==
    /\ pc[r] # "stopped"
    /\ faults < MaxFaults
    /\ faults' = faults + 1
    /\ End(r, code)
    /\ Abandon(r)
    /\ UNCHANGED databaseVars

SessionEnds ==
    /\ lock = Orphan
    /\ lock' = Free
    /\ UNCHANGED <<runVars, databaseVars, faults>>

-----------------------------------------------------------------------------

(* A step of the running command. *)
Step(r) ==
    \/ RefuseConfiguration(r)
    \/ \E d \in Directories : RefuseDirectory(r, d) \/ Discover(r, d)
    \/ Acquire(r)
    \/ Verify(r) \/ Drift(r)
    \/ Execute(r) \/ Reject(r) \/ Record(r)
    \/ Commit(r)

Next ==
    \/ \E r \in Runners :
         \/ \E c \in Components : Start(r, c)
         \/ Step(r)
         \/ LockTimeout(r)
         \/ \E code \in {"none", "database"} :
              CommitUnreported(r, code) \/ Interrupted(r, code)
    \/ SessionEnds

Spec == Init /\ [][Next]_vars

(* A running command goes on, PostgreSQL ends a dead client's session and  *)
(* hands the lock to its waiters in the order they came.  Nothing makes    *)
(* anybody start the command again.                                        *)
FairSpec ==
    /\ Spec
    /\ \A r \in Runners : WF_vars(Step(r)) /\ SF_vars(Acquire(r))
    /\ WF_vars(SessionEnds)

-----------------------------------------------------------------------------
(* Properties *)

Migrations == {Migration(a) : a \in UNION Directories}

TypeOK ==
    /\ pc \in [Runners -> PCs]
    /\ component \in [Runners -> Components]
    /\ files \in [Runners -> SUBSET Migrations]
    /\ skipped \in [Runners -> SUBSET Nat]
    /\ executed \in [Runners -> Seq(Migrations)]
    /\ inserted \in [Runners -> SUBSET Migrations]
    /\ exit \in [Runners -> Exits]
    /\ lock \in Runners \cup {Free, Orphan}
    /\ ledger \in [Components -> SUBSET Migrations]
    /\ history \in [Components -> Seq(Migrations)]
    /\ faults \in 0..MaxFaults

(* The ledger is the truth about the schema, in every committed state: the *)
(* rows of a component are exactly the statements that were committed for  *)
(* it, and no version was ever executed twice, whatever runs overlapped,   *)
(* failed or lost the answer to their commit.                              *)
LedgerIsHistory ==
    \A c \in Components :
        /\ ledger[c] = {history[c][i] : i \in DOMAIN history[c]}
        /\ \A i, j \in DOMAIN history[c] :
              history[c][i].version = history[c][j].version => i = j

(* Exit code 0 stays true: whatever other runs did since, every file the   *)
(* run read is installed, with the name and checksum it read.              *)
VerifiedStays ==
    \A r \in Runners :
        exit[r] = "success" => files[r] \subseteq ledger[component[r]]

(* A run inside the transaction holds the lock, and what it found, what it *)
(* executed and what it inserted fit the ledger as it is now.              *)
Applying(r) ==
    /\ ledger[component[r]] \subseteq files[r]
    /\ skipped[r] = Versions(ledger[component[r]])
    /\ Executed(r) \subseteq files[r]
    /\ Versions(Executed(r)) \cap skipped[r] = {}
    /\ \A i, j \in DOMAIN executed[r] :
         i < j => executed[r][i].version < executed[r][j].version
    /\ \A m \in Pending(r), n \in Executed(r) : n.version < m.version
    /\ IF pc[r] = "recording"
         THEN /\ executed[r] # <<>>
              /\ inserted[r] = {executed[r][i] : i \in 1..(Len(executed[r]) - 1)}
         ELSE inserted[r] = Executed(r)

RunInv(r) ==
    /\ pc[r] # "stopped" => exit[r] = "none"
    /\ pc[r] \in InTransaction => lock = r
    /\ pc[r] \in {"applying", "recording"} => Applying(r)
    /\ pc[r] \notin {"applying", "recording"} =>
         skipped[r] = {} /\ executed[r] = <<>> /\ inserted[r] = {}
    /\ pc[r] \in InTransaction \cup {"discovered"} => files[r] \in Repositories

(* The inductive invariant.                                                *)
MigrationInv ==
    /\ TypeOK
    /\ LedgerIsHistory
    /\ VerifiedStays
    /\ \A r \in Runners : RunInv(r)

(* The database only moves from one complete directory to a larger one,    *)
(* with everything it holds unchanged: no part of a pending batch is ever  *)
(* visible, and a run that fails leaves no trace.                          *)
Schema == INSTANCE SchemaUpgrade WITH installed <- ledger
WholeUpgrades == Schema!Spec

(* A transaction adds its statements to the schema in ascending versions.  *)
(* Across transactions the versions need not ascend: a version below an    *)
(* installed one is executed when its file first appears.                  *)
AscendingUpgrades ==
    [][\A c \in Components :
         \A i, j \in (DOMAIN history'[c]) \ DOMAIN history[c] :
             i < j => history'[c][i].version < history'[c][j].version]_vars

(* A run can fail because of another only while it waits for the lock,     *)
(* when it has not looked at the database yet: the command ends with exit  *)
(* code 4 only after a fault, if PostgreSQL rejects a file's statement, or *)
(* if the lock is not handed over within lock_timeout.  A run that was     *)
(* given the lock finds nothing that another one is still doing.           *)
OverlapFailsOnlyWaiters ==
    [][\A r \in Runners :
         exit'[r] = "database" /\ exit[r] # "database" =>
             \/ faults' > faults
             \/ \E m \in files[r] : m.checksum \in Rejected
             \/ pc[r] = "discovered" /\ lock # Free]_vars

(* Every run ends, also one that waits for the lock of a crashed runner.   *)
RunEnds == \A r \in Runners : pc[r] # "stopped" ~> pc[r] = "stopped"
================================================================================
