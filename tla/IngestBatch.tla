----------------------------- MODULE IngestBatch -----------------------------
(***************************************************************************)
(* Ingestion of extracted files: IngestBatchService.execute over the local *)
(* CSV inspector, the landing store and the PostgreSQL registry.           *)
(*                                                                         *)
(* Each ingestor is a process that executes the command for its file again *)
(* and again, as a scheduler with retries does.  An execution inspects the *)
(* file, looks its key up, lands the bytes and registers a manifest; other *)
(* executions and crashes may come between any two of these steps.  The    *)
(* file may be extracted again at any time, with the same or other bytes.  *)
(***************************************************************************)
EXTENDS LandingStore

CONSTANTS
    Ingestors,
    Files,      \* the source files
    FileOf,     \* the file each ingestor is run for
    SuffixOf,   \* the suffix of each file's name
    Batches,    \* batch ids
    FoundDirectories,   \* what the partition may be when the model begins
    Foreign,    \* objects that others may have put into the landing zone
    ClockErrors,    \* how far the landing zone's clock may be ahead of the
                    \* source system's
    MaxTime,    \* bound: extractions after the first of each file
    MaxFaults   \* bound: crashes and failed calls

VARIABLES
    now,            \* counts extractions: the time of the last one
    source,         \* source[f]: the bytes of f and the time of their extraction
    manifests, events, inserting,
    pc,             \* where the execution of an ingestor stands
    extracted,      \* command.extracted_at
    artifact,       \* the bytes that were inspected, and so the key
    copy,           \* the temporary file: its bytes and when it was written
    landed,         \* landed_at of the receipt
    result,         \* how the last execution ended
    created,        \* created[k]: the executions that reported a new batch
    faults

Registry == INSTANCE BatchRegistry WITH
                Keys <- Contents, Places <- Contents \X Suffixes, Clients <- Ingestors

ASSUME FilesAssumption ==
    /\ FileOf \in [Ingestors -> Files]
    /\ SuffixOf \in [Files -> Suffixes]
    /\ Contents # {}
ASSUME LandingZoneAssumption ==
    /\ FoundDirectories \subseteq Directories
    /\ Foreign \subseteq Objects
    /\ \A o, n \in Foreign : Path(o) = Path(n) => o = n
    /\ ClockErrors \subseteq Int
ASSUME BoundsAssumption == MaxTime \in Nat /\ MaxFaults \in Nat

registryVars == <<manifests, events, inserting>>
landingVars == <<directory, objects>>
executionVars == <<pc, extracted, artifact, copy, landed, result, created>>
vars == <<now, source, landingVars, registryVars, executionVars, faults>>

(* The points of an execution where another process can get in between:    *)
(*   started     the command is validated                                  *)
(*   inspected   the key is known                                          *)
(*   absent      the registry does not know the key                        *)
(*   copying     no object at the path                                     *)
(*   copied      the temporary file is complete, verified and synced       *)
(*   linked      the object is visible, its entry not synced               *)
(*   verifying   there is an object at the path                            *)
(*   received    holding a landing receipt                                 *)
(*   inserted    the registration's transaction is open                    *)
(*   committed   ... is committed, not yet reported                        *)
PCs == {"idle", "started", "inspected", "absent", "copying", "copied",
        "linked", "verifying", "received", "inserted", "committed"}

Copies == [content : Contents, written : Int]

Results == {"none", "created", "deduplicated", "refused", "failed"}

PathOf(p) == <<artifact[p], SuffixOf[FileOf[p]]>>

Init ==
    /\ now = 0
    /\ source \in [Files -> [content : Contents, extracted : {0}]]
    /\ directory \in FoundDirectories
    /\ objects \in SUBSET Foreign
    /\ objects # {} => directory # "absent"
    /\ Registry!InitRegistry
    /\ pc        = [p \in Ingestors |-> "idle"]
    /\ extracted = [p \in Ingestors |-> 0]
    /\ artifact  = [p \in Ingestors |-> CHOOSE c \in Contents : TRUE]
    /\ copy      = [p \in Ingestors |-> {}]
    /\ landed    = [p \in Ingestors |-> 0]
    /\ result    = [p \in Ingestors |-> "none"]
    /\ created   = [k \in Contents |-> 0]
    /\ faults = 0

(* The source system writes the file again. *)
Extract(f) ==
    /\ now < MaxTime
    /\ now' = now + 1
    /\ \E c \in Contents :
          source' = [source EXCEPT ![f] = [content |-> c, extracted |-> now']]
    /\ UNCHANGED <<landingVars, registryVars, executionVars, faults>>

-----------------------------------------------------------------------------
(* One execution *)

Go(p, from, to) ==
    /\ pc[p] = from
    /\ pc' = [pc EXCEPT ![p] = to]

(* The execution ends, and with it its temporary file and what it knew of  *)
(* times.                                                                  *)
End(p, how) ==
    /\ pc'        = [pc EXCEPT ![p] = "idle"]
    /\ result'    = [result EXCEPT ![p] = how]
    /\ extracted' = [extracted EXCEPT ![p] = 0]
    /\ copy'      = [copy EXCEPT ![p] = {}]
    /\ landed'    = [landed EXCEPT ![p] = 0]
    /\ UNCHANGED artifact

(* The command names the file and the time of its extraction. *)
Start(p) ==
    /\ Go(p, "idle", "started")
    /\ extracted' = [extracted EXCEPT ![p] = source[FileOf[p]].extracted]
    /\ result' = [result EXCEPT ![p] = "none"]
    /\ UNCHANGED <<now, source, landingVars, registryVars, artifact, copy,
                   landed, created, faults>>

Inspect(p) ==
    /\ Go(p, "started", "inspected")
    /\ artifact' = [artifact EXCEPT ![p] = source[FileOf[p]].content]
    /\ UNCHANGED <<now, source, landingVars, registryVars, extracted, copy,
                   landed, result, created, faults>>

(* find_by_idempotency_key() finds no manifest. *)
FindNoManifest(p) ==
    /\ Go(p, "inspected", "absent")
    /\ ~Registry!Registered(artifact[p])
    /\ UNCHANGED <<now, source, landingVars, registryVars, extracted, artifact,
                   copy, landed, result, created, faults>>

(* ... or finds one, which is the result. *)
FindManifest(p) ==
    /\ pc[p] = "inspected"
    /\ Registry!Registered(artifact[p])
    /\ End(p, "deduplicated")
    /\ UNCHANGED <<now, source, landingVars, registryVars, created, faults>>

(* land() makes the partition and looks whether the path is taken. *)
LookAtPath(p) ==
    /\ Go(p, "absent", IF At(PathOf(p)) = {} THEN "copying" ELSE "verifying")
    /\ MakeDirectory
    /\ UNCHANGED <<now, source, objects, registryVars, extracted, artifact,
                   copy, landed, result, created, faults>>

(* The temporary file holds what the source holds by now, and its time is  *)
(* told by the clock of the landing zone's file system.                    *)
WriteCopy(p) ==
    /\ Go(p, "copying", "copied")
    /\ \E d \in ClockErrors :
          copy' = [copy EXCEPT ![p] =
                      {[content |-> source[FileOf[p]].content, written |-> now + d]}]
    /\ UNCHANGED <<now, source, landingVars, registryVars, extracted, artifact,
                   landed, result, created, faults>>

(* Mutant: the digest of the copy is not compared. *)
CopyUnchecked(p) == WriteCopy(p)

(* The copy has the digest of the inspected file. *)
CopySource(p) ==
    /\ source[FileOf[p]].content = artifact[p]
    /\ WriteCopy(p)

(* The file has other bytes by now. *)
CopyDiffers(p) ==
    /\ pc[p] = "copying"
    /\ source[FileOf[p]].content # artifact[p]
    /\ End(p, "failed")
    /\ UNCHANGED <<now, source, landingVars, registryVars, created, faults>>

LinkObject(p) ==
    /\ Go(p, "copied", "linked")
    /\ \E c \in copy[p] : Link(PathOf(p), c.content, c.written)
    /\ UNCHANGED <<now, source, directory, registryVars, extracted, artifact,
                   copy, landed, result, created, faults>>

(* Another execution won the race for the path. *)
LinkExists(p) ==
    /\ Go(p, "copied", "verifying")
    /\ At(PathOf(p)) # {}
    /\ copy' = [copy EXCEPT ![p] = {}]
    /\ UNCHANGED <<now, source, landingVars, registryVars, extracted, artifact,
                   landed, result, created, faults>>

(* The receipt for an object carries the object's own time. *)
Receive(p, o) ==
    /\ pc' = [pc EXCEPT ![p] = "received"]
    /\ landed' = [landed EXCEPT ![p] = o.landed]
    /\ UNCHANGED <<extracted, artifact, result>>

(* The entries of the partition are synchronized and the temporary file is *)
(* removed.  The service compares the digest of the copy, which is in the  *)
(* receipt, with that of the inspection once more.                         *)
SyncObject(p) ==
    /\ pc[p] = "linked"
    /\ SyncDirectory
    /\ IF \A c \in copy[p] : c.content = artifact[p]
       THEN /\ \E o \in At(PathOf(p)) : Receive(p, o)
            /\ copy' = [copy EXCEPT ![p] = {}]
       ELSE End(p, "failed")
    /\ UNCHANGED <<now, source, directory, registryVars, created, faults>>

(* Mutant: the receipt carries the time of the verification. *)
VerifyNow(p) ==
    /\ Go(p, "verifying", "received")
    /\ \E o \in At(PathOf(p)) : o.content = artifact[p]
    /\ landed' = [landed EXCEPT ![p] = now]
    /\ UNCHANGED <<now, source, landingVars, registryVars, extracted, artifact,
                   copy, result, created, faults>>

(* _receipt_for_existing(): the object that is there has the same bytes.   *)
(* Nothing is synchronized.                                                *)
VerifyExisting(p) ==
    /\ pc[p] = "verifying"
    /\ \E o \in At(PathOf(p)) : o.content = artifact[p] /\ Receive(p, o)
    /\ UNCHANGED <<now, source, landingVars, registryVars, copy, created, faults>>

(* ... or has other bytes, and is left alone. *)
RejectExisting(p) ==
    /\ pc[p] = "verifying"
    /\ \A o \in At(PathOf(p)) : o.content # artifact[p]
    /\ End(p, "failed")
    /\ UNCHANGED <<now, source, landingVars, registryVars, created, faults>>

(* The manifest the execution wants to register, under a new batch id. *)
Candidate(p, b) ==
    [key |-> artifact[p], place |-> PathOf(p), batch |-> b,
     extracted |-> extracted[p], landed |-> landed[p]]

(* Mutant: the two times may not be equal either. *)
StrictTimes(p) == extracted[p] < landed[p]

(* A manifest cannot be landed before it was extracted. *)
ValidTimes(p) == extracted[p] <= landed[p]

RefuseManifest(p) ==
    /\ pc[p] = "received"
    /\ ~ValidTimes(p)
    /\ End(p, "refused")
    /\ UNCHANGED <<now, source, landingVars, registryVars, created, faults>>

InsertManifest(p) ==
    /\ Go(p, "received", "inserted")
    /\ ValidTimes(p)
    /\ \E b \in Batches : Registry!Insert(p, Candidate(p, b))
    /\ UNCHANGED <<now, source, landingVars, extracted, artifact, copy, landed,
                   result, created, faults>>

(* Mutant: the registration is reported as created whoever made it. *)
ClaimWinner(p) ==
    /\ pc[p] = "received"
    /\ ValidTimes(p)
    /\ Registry!Registered(artifact[p])
    /\ End(p, "created")
    /\ created' = [created EXCEPT ![artifact[p]] = @ + 1]
    /\ UNCHANGED <<now, source, landingVars, registryVars, faults>>

(* The insert finds the key taken; the manifest that is there is the result. *)
FindWinner(p) ==
    /\ pc[p] = "received"
    /\ ValidTimes(p)
    /\ Registry!Registered(artifact[p])
    /\ End(p, "deduplicated")
    /\ UNCHANGED <<now, source, landingVars, registryVars, created, faults>>

CommitRegistration(p) ==
    /\ Go(p, "inserted", "committed")
    /\ Registry!Commit(p)
    /\ UNCHANGED <<now, source, landingVars, extracted, artifact, copy, landed,
                   result, created, faults>>

Report(p) ==
    /\ pc[p] = "committed"
    /\ End(p, "created")
    /\ created' = [created EXCEPT ![artifact[p]] = @ + 1]
    /\ UNCHANGED <<now, source, landingVars, registryVars, faults>>

-----------------------------------------------------------------------------
(* Failures *)

(* A crash, or an error of the file system or the database: an open        *)
(* transaction is rolled back, a temporary file is never looked at again.  *)
Fail(p) ==
    /\ pc[p] # "idle"
    /\ faults < MaxFaults
    /\ faults' = faults + 1
    /\ Registry!Rollback(p)
    /\ End(p, "failed")
    /\ UNCHANGED <<now, source, landingVars, created>>

(* The host of the ingestors loses power; the database survives. *)
PowerLoss ==
    /\ faults < MaxFaults
    /\ faults' = faults + 1
    /\ LoseUnsynced
    /\ inserting' = [p \in Ingestors |-> {}]
    /\ pc'        = [p \in Ingestors |-> "idle"]
    /\ result'    = [p \in Ingestors |-> "failed"]
    /\ extracted' = [p \in Ingestors |-> 0]
    /\ copy'      = [p \in Ingestors |-> {}]
    /\ landed'    = [p \in Ingestors |-> 0]
    /\ UNCHANGED <<now, source, manifests, events, artifact, created>>

-----------------------------------------------------------------------------

(* What an execution does without any fault. *)
Work(p) ==
    \/ Inspect(p) \/ FindNoManifest(p) \/ FindManifest(p)
    \/ LookAtPath(p) \/ CopySource(p) \/ CopyDiffers(p)
    \/ LinkObject(p) \/ LinkExists(p) \/ SyncObject(p)
    \/ VerifyExisting(p) \/ RejectExisting(p)
    \/ RefuseManifest(p) \/ InsertManifest(p) \/ FindWinner(p)
    \/ CommitRegistration(p) \/ Report(p)

Next ==
    \/ \E f \in Files : Extract(f)
    \/ \E p \in Ingestors : Start(p) \/ Work(p) \/ Fail(p)

Spec == Init /\ [][Next]_vars

(* The same with a host that may lose power. *)
PowerLossSpec == Init /\ [][Next \/ PowerLoss]_vars

(* Executions proceed, and the scheduler starts the next one. *)
FairSpec == Spec /\ \A p \in Ingestors : WF_vars(Work(p)) /\ WF_vars(Start(p))

-----------------------------------------------------------------------------
(* Properties *)

TypeOK ==
    /\ now \in Nat
    /\ source \in [Files -> [content : Contents, extracted : Nat]]
    /\ directory \in Directories
    /\ objects \subseteq Objects
    /\ manifests \subseteq Registry!Manifests
    /\ events \subseteq Batches
    /\ inserting \in [Ingestors -> SUBSET Registry!Manifests]
    /\ pc        \in [Ingestors -> PCs]
    /\ extracted \in [Ingestors -> Nat]
    /\ artifact  \in [Ingestors -> Contents]
    /\ copy      \in [Ingestors -> SUBSET Copies]
    /\ landed    \in [Ingestors -> Int]
    /\ result    \in [Ingestors -> Results]
    /\ created   \in [Contents -> Nat]
    /\ faults \in Nat

(* Every execution that passed the lookup wants to register the same key:  *)
(* one of them does, with one event, and all others learn of it.           *)
OneBatchPerArtifact ==
    /\ \A m, n \in manifests : m.key = n.key => m = n
    /\ events = {m.batch : m \in manifests}
    /\ \A m, n \in manifests : m.batch = n.batch => m = n

(* However often an artifact is ingested, and whatever fails in between,   *)
(* it is reported as new at most once, and a successful result of any      *)
(* execution stands for a manifest of the very bytes it inspected.         *)
ResultsAreTrue ==
    /\ \A k \in Contents : created[k] <= 1
    /\ \A p \in Ingestors :
          result[p] \in {"created", "deduplicated"} => Registry!Registered(artifact[p])

(* A manifest describes what is in the landing zone: the object at its     *)
(* place has the bytes of its key and its landing time, although source    *)
(* file, other executions and retries may have changed in between.         *)
ManifestsMatchObjects ==
    \A m \in manifests :
        \E o \in objects : /\ Path(o) = m.place
                           /\ o.content = m.key
                           /\ o.landed = m.landed

(* An object that appears has the bytes of its key, although the source    *)
(* file may be written again between its inspection and its copy.          *)
LandedUnderOwnKey ==
    [][\A o \in objects' :
          (\A n \in objects : Path(n) # Path(o)) => o.content = o.key]_vars

(* A landed object is never replaced, changed or removed. *)
ObjectsAreImmutable ==
    [][\A o \in objects : \E n \in objects' :
          o = n \/ [o EXCEPT !.synced = TRUE] = n]_vars

Ingestion == INSTANCE BatchIngestion WITH
                Artifacts <- Contents,
                stored <- {c \in Contents : \E o \in objects : o.key = c /\ o.content = c},
                registered <- {m.key : m \in manifests},
                announced <- {m.key : m \in {n \in manifests : n.batch \in events}}

(* Artifacts are accepted as the rest of the platform is told. *)
ImplementsIngestion == Ingestion!Spec

(* The bytes c of file f cannot be registered: their path is taken by      *)
(* other bytes, or they were landed before they were extracted: by an      *)
(* earlier execution that registered nothing, or by a clock that is behind *)
(* the source system's.                                                    *)
Blocked(f, c) ==
    \E o \in At(<<c, SuffixOf[f]>>) : o.content # c \/ o.landed < source[f].extracted

(* A file that is not extracted again is registered, or else it is         *)
(* blocked by what it finds in the landing zone.                           *)
EventuallyRegistered ==
    \A f \in {FileOf[p] : p \in Ingestors}, c \in Contents :
        <>[](source[f].content = c) => <>(Registry!Registered(c) \/ Blocked(f, c))

-----------------------------------------------------------------------------
(* Why they hold: parts of the inductive invariant *)

OnePerPath == \A o, n \in objects : Path(o) = Path(n) => o = n

(* What lies in the partition, and an execution that has been there, find  *)
(* it again, unless there was a power loss.                                *)
HasPartition == {"copying", "copied", "linked", "verifying", "received", "inserted",
                 "committed"}

PartitionExists ==
    directory = "absent" =>
        /\ objects = {}
        /\ \A p \in Ingestors : pc[p] \notin HasPartition

(* A temporary file has the bytes that were inspected, and is there from   *)
(* the copy to the receipt only.                                           *)
CopiesAreVerified ==
    \A p \in Ingestors :
        /\ \A c \in copy[p] : c.content = artifact[p]
        /\ pc[p] \notin {"copied", "linked"} => copy[p] = {}

(* From its link to the end of the execution an object is there, ...       *)
HasObject == {"linked", "received", "inserted", "committed"}

(* ... and from the receipt on its landing time is known.                  *)
HasReceipt == HasObject \ {"linked"}

ReceiptsAreTrue ==
    \A p \in Ingestors : pc[p] \in HasObject =>
        \E o \in At(PathOf(p)) :
            /\ o.content = artifact[p]
            /\ pc[p] \in HasReceipt => o.landed = landed[p]

(* An execution has a transaction open exactly while it stands between     *)
(* insert and commit, and then for what it inspected and landed.           *)
OpenTransactions ==
    \A p \in Ingestors :
        /\ pc[p] # "inserted" => inserting[p] = {}
        /\ pc[p] = "inserted" => \E b \in Batches : inserting[p] = {Candidate(p, b)}

(* Open transactions conflict with nothing. *)
TransactionsAreDisjoint ==
    \A p \in Ingestors : \A m \in inserting[p] :
        /\ \A n \in manifests : ~Registry!Conflict(m, n)
        /\ \A q \in Ingestors \ {p} : \A n \in inserting[q] : ~Registry!Conflict(m, n)

(* Only a registered key was reported as created, and not yet by the       *)
(* execution that is about to report it.                                   *)
CreationsAreOwn ==
    /\ \A k \in Contents : created[k] > 0 => Registry!Registered(k)
    /\ \A p \in Ingestors : pc[p] = "committed" =>
          /\ Registry!Registered(artifact[p])
          /\ created[artifact[p]] = 0
          /\ \A q \in Ingestors \ {p} :
                pc[q] = "committed" => artifact[q] # artifact[p]
    /\ \A p \in Ingestors : pc[p] # "idle" => result[p] = "none"

(* What every step keeps, a power loss of the ingestors' host included.     *)
CoreInv ==
    /\ TypeOK
    /\ PartitionExists
    /\ CopiesAreVerified
    /\ OnePerPath
    /\ ReceiptsAreTrue
    /\ OpenTransactions
    /\ TransactionsAreDisjoint
    /\ CreationsAreOwn
    /\ OneBatchPerArtifact
    /\ ResultsAreTrue

(* The invariant that carries the safety properties through every step of  *)
(* Spec.                                                                   *)
IngestInv == CoreInv /\ ManifestsMatchObjects

-----------------------------------------------------------------------------
(* What the documentation says and the code does not do *)

(* docs/local-csv-ingestion.md:90: "Identical content is treated as a      *)
(* successful retry."  An execution that finds its own bytes landed does   *)
(* not end in refusal.                                                     *)
IdenticalContentIsAccepted == \A p \in Ingestors : result[p] # "refused"

(* docs/batch-manifest-v1.md: the manifest serves "replay without          *)
(* depending on the original source system remaining available", and the   *)
(* landing store is to "synchronize the destination directory after        *)
(* publication" (docs/local-csv-ingestion.md).  The bytes of a registered  *)
(* batch are then still there after a power loss.                          *)
RegisteredBytesAreKept ==
    \A m \in manifests : \E o \in objects : o.content = m.key
=============================================================================
