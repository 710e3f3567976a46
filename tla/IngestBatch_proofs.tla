------------------------- MODULE IngestBatch_proofs -------------------------
(***************************************************************************)
(* Proofs about IngestBatch, for every set of ingestors, files and         *)
(* contents, and every value of the bounds.                                *)
(***************************************************************************)
EXTENDS IngestBatch, TLAPS

-----------------------------------------------------------------------------
(* Parts of a step *)

(* Synchronizing an entry changes nothing else about it. *)
LEMMA SyncedEntry ==
    ASSUME NEW o \in Objects
    PROVE  LET n == [o EXCEPT !.synced = TRUE]
           IN  /\ n \in Objects
               /\ Path(n) = Path(o)
               /\ n.key = o.key /\ n.content = o.content /\ n.landed = o.landed
BY DEF Objects, Path

(* What an ingestor inspected belongs to one path of the landing zone. *)
LEMMA PathType ==
    ASSUME TypeOK, NEW p \in Ingestors
    PROVE  PathOf(p) \in Contents \X Suffixes
BY FilesAssumption DEF TypeOK, PathOf

(* The manifest an execution builds is one the registry can hold. *)
LEMMA CandidateType ==
    ASSUME TypeOK, NEW p \in Ingestors, NEW b \in Batches
    PROVE  /\ Candidate(p, b) \in Registry!Manifests
           /\ Candidate(p, b).key = artifact[p]
           /\ Candidate(p, b).place = PathOf(p)
           /\ Candidate(p, b).batch = b
           /\ Candidate(p, b).landed = landed[p]
<1>1. /\ PathOf(p) \in Contents \X Suffixes
      /\ artifact[p] \in Contents /\ extracted[p] \in Nat /\ landed[p] \in Int
  BY PathType DEF TypeOK
<1> QED
  BY <1>1 DEF Candidate, Registry!Manifests

(* A new object is at its path, with the bytes and time it was written with. *)
LEMMA EntryType ==
    ASSUME NEW path \in Contents \X Suffixes, NEW c \in Contents, NEW t \in Int
    PROVE  /\ Entry(path, c, t) \in Objects
           /\ Path(Entry(path, c, t)) = path
           /\ Entry(path, c, t).key = path[1]
           /\ Entry(path, c, t).content = c
           /\ Entry(path, c, t).landed = t
BY DEF Entry, Objects, Path

(* The step of one ingestor leaves what the others know alone. *)
LEMMA OthersUntouched ==
    ASSUME TypeOK, NEW p \in Ingestors, Start(p) \/ Work(p) \/ Fail(p),
           NEW q \in Ingestors \ {p}
    PROVE  /\ pc'[q] = pc[q] /\ artifact'[q] = artifact[q] /\ result'[q] = result[q]
           /\ landed'[q] = landed[q] /\ extracted'[q] = extracted[q]
           /\ copy'[q] = copy[q] /\ inserting'[q] = inserting[q]
BY DEF TypeOK, Start, Work, Fail, Inspect, FindNoManifest, FindManifest, LookAtPath,
       CopySource, WriteCopy, CopyDiffers, LinkObject, LinkExists, SyncObject, VerifyExisting,
       RejectExisting, RefuseManifest, InsertManifest, FindWinner,
       CommitRegistration, Report, Go, Receive, End, registryVars,
       Registry!Insert, Registry!Commit, Registry!Rollback

(* An object stays where it is: a step can at most synchronize it. *)
LEMMA ObjectsStay ==
    ASSUME TypeOK, Next, NEW o \in objects
    PROVE  o \in objects' \/ [o EXCEPT !.synced = TRUE] \in objects'
<1> USE DEF landingVars
<1>1. ASSUME NEW p \in Ingestors, SyncObject(p)
      PROVE  [o EXCEPT !.synced = TRUE] \in objects'
  BY <1>1 DEF SyncObject, SyncDirectory
<1>2. ASSUME NEW p \in Ingestors, Work(p), ~SyncObject(p)
      PROVE  o \in objects'
  BY <1>2 DEF Work, Inspect, FindNoManifest, FindManifest, LookAtPath,
              CopySource, WriteCopy, CopyDiffers, LinkObject, LinkExists, VerifyExisting,
              RejectExisting, RefuseManifest, InsertManifest, FindWinner,
              CommitRegistration, Report, Link
<1>3. ASSUME NEW p \in Ingestors, Start(p) \/ Fail(p)
      PROVE  o \in objects'
  BY <1>3 DEF Start, Fail
<1>4. ASSUME NEW f \in Files, Extract(f)
      PROVE  o \in objects'
  BY <1>4 DEF Extract
<1> QED
  BY <1>1, <1>2, <1>3, <1>4 DEF Next

(* ... so the bytes at a path, and their landing time, stay the same. *)
LEMMA BytesStay ==
    ASSUME TypeOK, Next, NEW o \in objects
    PROVE  \E n \in objects' : /\ Path(n) = Path(o)
                               /\ n.key = o.key
                               /\ n.content = o.content
                               /\ n.landed = o.landed
<1>1. o \in Objects
  BY DEF TypeOK
<1> QED
  BY <1>1, ObjectsStay, SyncedEntry

(* Manifests are only ever added, by the commit of an open transaction. *)
LEMMA ManifestsGrow ==
    ASSUME TypeOK, Next
    PROVE  \/ UNCHANGED <<manifests, events>>
           \/ \E p \in Ingestors : CommitRegistration(p)
BY DEF Next, Extract, Start, Work, Fail, Inspect, FindNoManifest, FindManifest,
       LookAtPath, CopySource, WriteCopy, CopyDiffers, LinkObject, LinkExists, SyncObject,
       VerifyExisting, RejectExisting, RefuseManifest, InsertManifest, FindWinner,
       Report, registryVars, Registry!Insert, Registry!Rollback

(* A manifest stays, and a registered key stays registered. *)
LEMMA RegisteredStays ==
    ASSUME TypeOK, Next
    PROVE  /\ manifests \subseteq manifests'
           /\ \A k : Registry!Registered(k) => Registry!Registered(k)'
<1>1. manifests \subseteq manifests'
  BY ManifestsGrow DEF CommitRegistration, Registry!Commit
<1> QED
  BY <1>1 DEF Registry!Registered

-----------------------------------------------------------------------------
(* Type correctness *)

(* The environment's choices of a first state are well typed. *)
LEMMA TypeInit == Init => TypeOK
<1> SUFFICES ASSUME Init PROVE TypeOK
  OBVIOUS
<1>1. (CHOOSE c \in Contents : TRUE) \in Contents
  BY FilesAssumption
<1>2. objects \subseteq Objects /\ directory \in Directories
  BY LandingZoneAssumption DEF Init
<1>3. /\ source \in [Files -> [content : Contents, extracted : Nat]]
  BY DEF Init
<1>4. /\ pc \in [Ingestors -> PCs] /\ result \in [Ingestors -> Results]
      /\ extracted \in [Ingestors -> Nat] /\ landed \in [Ingestors -> Int]
      /\ created \in [Contents -> Nat]
  BY DEF Init, PCs, Results
<1>5. artifact \in [Ingestors -> Contents]
  BY <1>1, Zenon DEF Init
<1>6. copy \in [Ingestors -> SUBSET Copies]
  BY DEF Init
<1> QED
  BY <1>2, <1>3, <1>4, <1>5, <1>6 DEF Init, TypeOK, Registry!InitRegistry

(* The variables of the executions keep their types. *)
LEMMA ExecutionType ==
    ASSUME TypeOK, NEW p \in Ingestors, Start(p) \/ Work(p) \/ Fail(p)
    PROVE  /\ pc'        \in [Ingestors -> PCs]
           /\ extracted' \in [Ingestors -> Nat]
           /\ artifact'  \in [Ingestors -> Contents]
           /\ copy'      \in [Ingestors -> SUBSET Copies]
           /\ landed'    \in [Ingestors -> Int]
           /\ result'    \in [Ingestors -> Results]
           /\ created'   \in [Contents -> Nat]
           /\ faults' \in Nat
           /\ now' = now /\ source' = source
<1> USE DEF TypeOK, PCs, Results, Go
<1>1. CASE Start(p)
  BY <1>1, FilesAssumption DEF Start
<1>2. CASE Inspect(p)
  BY <1>2, FilesAssumption DEF Inspect
<1>3. CASE FindNoManifest(p) \/ LookAtPath(p) \/ LinkObject(p) \/ LinkExists(p)
           \/ InsertManifest(p) \/ CommitRegistration(p)
  BY <1>3 DEF FindNoManifest, LookAtPath, LinkObject, LinkExists, InsertManifest,
              CommitRegistration
<1>4. CASE CopySource(p)
  <2>1. \A d \in ClockErrors :
            [content |-> source[FileOf[p]].content, written |-> now + d] \in Copies
    BY FilesAssumption, LandingZoneAssumption DEF Copies
  <2> QED
    BY <1>4, <2>1 DEF CopySource, WriteCopy
<1>5. CASE SyncObject(p) \/ VerifyExisting(p)
  <2>1. \A o \in At(PathOf(p)) : o.landed \in Int
    BY DEF At, Objects
  <2> QED
    BY <1>5, <2>1 DEF SyncObject, VerifyExisting, Receive, End
<1>6. CASE FindManifest(p) \/ CopyDiffers(p) \/ RejectExisting(p)
           \/ RefuseManifest(p) \/ FindWinner(p) \/ Report(p) \/ Fail(p)
  BY <1>6 DEF FindManifest, CopyDiffers, RejectExisting, RefuseManifest,
              FindWinner, Report, Fail, End
<1> QED
  BY <1>1, <1>2, <1>3, <1>4, <1>5, <1>6 DEF Work

(* The landing zone keeps its type. *)
LEMMA LandingType ==
    ASSUME TypeOK, NEW p \in Ingestors, Start(p) \/ Work(p) \/ Fail(p)
    PROVE  directory' \in Directories /\ objects' \subseteq Objects
<1>1. CASE LinkObject(p)
  <2>1. \A c \in copy[p] : Entry(PathOf(p), c.content, c.written) \in Objects
    BY PathType, EntryType DEF TypeOK, Copies
  <2> QED
    BY <1>1, <2>1 DEF TypeOK, LinkObject, Link
<1>2. CASE SyncObject(p)
  BY <1>2, SyncedEntry DEF TypeOK, SyncObject, SyncDirectory
<1>3. CASE LookAtPath(p)
  BY <1>3 DEF TypeOK, LookAtPath, MakeDirectory, Directories
<1>4. CASE UNCHANGED landingVars
  BY <1>4 DEF TypeOK, landingVars
<1> QED
  BY <1>1, <1>2, <1>3, <1>4
     DEF Start, Work, Fail, Inspect, FindNoManifest, FindManifest, CopySource, WriteCopy,
         CopyDiffers, LinkExists, VerifyExisting, RejectExisting, RefuseManifest,
         InsertManifest, FindWinner, CommitRegistration, Report

(* The tables keep their types. *)
LEMMA RegistryType ==
    ASSUME TypeOK, NEW p \in Ingestors, Start(p) \/ Work(p) \/ Fail(p)
    PROVE  /\ manifests' \subseteq Registry!Manifests
           /\ events' \subseteq Batches
           /\ inserting' \in [Ingestors -> SUBSET Registry!Manifests]
<1>1. CASE InsertManifest(p)
  BY <1>1, CandidateType DEF TypeOK, InsertManifest, Registry!Insert
<1>2. CASE CommitRegistration(p)
  BY <1>2 DEF TypeOK, CommitRegistration, Registry!Commit, Registry!Manifests
<1>3. CASE Fail(p)
  BY <1>3 DEF TypeOK, Fail, Registry!Rollback
<1>4. CASE UNCHANGED registryVars
  BY <1>4 DEF TypeOK, registryVars
<1> QED
  BY <1>1, <1>2, <1>3, <1>4
     DEF Start, Work, Inspect, FindNoManifest, FindManifest, LookAtPath, CopySource,
         WriteCopy, CopyDiffers, LinkObject, LinkExists, SyncObject, VerifyExisting,
         RejectExisting, RefuseManifest, FindWinner, Report

(* Every step keeps the types. *)
LEMMA TypeStep == TypeOK /\ [Next]_vars => TypeOK'
<1> SUFFICES ASSUME TypeOK, [Next]_vars
             PROVE  TypeOK'
  OBVIOUS
<1>1. ASSUME NEW f \in Files, Extract(f)
      PROVE  TypeOK'
  BY <1>1 DEF TypeOK, Extract, landingVars, registryVars, executionVars
<1>2. ASSUME NEW p \in Ingestors, Start(p) \/ Work(p) \/ Fail(p)
      PROVE  TypeOK'
  <2>1. now' \in Nat /\ source' \in [Files -> [content : Contents, extracted : Nat]]
    BY <1>2, ExecutionType DEF TypeOK
  <2> QED
    BY <1>2, <2>1, ExecutionType, LandingType, RegistryType DEF TypeOK
<1>3. CASE UNCHANGED vars
  BY <1>3 DEF TypeOK, vars, landingVars, registryVars, executionVars
<1> QED
  BY <1>1, <1>2, <1>3 DEF Next

-----------------------------------------------------------------------------
(* The inductive invariant *)

(* An empty registry and a landing zone with one object per path. *)
LEMMA InvInit == Init => IngestInv
<1> SUFFICES ASSUME Init PROVE IngestInv
  OBVIOUS
<1>1. TypeOK
  BY TypeInit
<1>2. OnePerPath
  BY LandingZoneAssumption DEF Init, OnePerPath
<1>3. /\ manifests = {} /\ events = {}
      /\ \A p \in Ingestors : inserting[p] = {} /\ pc[p] = "idle" /\ result[p] = "none"
      /\ \A p \in Ingestors : copy[p] = {}
      /\ directory = "absent" => objects = {}
      /\ \A k \in Contents : created[k] = 0
  BY DEF Init, Registry!InitRegistry
<1>4. ReceiptsAreTrue /\ OpenTransactions /\ TransactionsAreDisjoint
  BY <1>3 DEF ReceiptsAreTrue, HasObject, OpenTransactions, TransactionsAreDisjoint
<1>6. PartitionExists /\ CopiesAreVerified
  BY <1>3 DEF PartitionExists, HasPartition, CopiesAreVerified
<1>5. CreationsAreOwn /\ OneBatchPerArtifact /\ ResultsAreTrue /\ ManifestsMatchObjects
  BY <1>3 DEF CreationsAreOwn, OneBatchPerArtifact, ResultsAreTrue, ManifestsMatchObjects
<1> QED
  BY <1>1, <1>2, <1>4, <1>5, <1>6 DEF IngestInv, CoreInv

(* The partition is made before it is used, and is there from then on. *)
LEMMA PartitionStep ==
    ASSUME CoreInv, Next
    PROVE  PartitionExists'
<1>1. TypeOK /\ PartitionExists
  BY DEF CoreInv
<1> SUFFICES ASSUME directory' = "absent"
             PROVE  /\ objects' = {}
                    /\ \A q \in Ingestors : pc'[q] \notin HasPartition
  BY DEF PartitionExists
<1>2. ASSUME NEW p \in Ingestors, LookAtPath(p)
      PROVE  FALSE
  BY <1>2 DEF LookAtPath, MakeDirectory
<1>3. directory = "absent"
  BY <1>2 DEF Next, Extract, Start, Work, Fail, Inspect, FindNoManifest, FindManifest,
     CopySource, WriteCopy, CopyDiffers, LinkObject, LinkExists, SyncObject, VerifyExisting,
     RejectExisting, RefuseManifest, InsertManifest, FindWinner, CommitRegistration,
     Report, landingVars
<1>4. objects = {} /\ \A q \in Ingestors : pc[q] \notin HasPartition
  BY <1>1, <1>3 DEF PartitionExists
<1>5. ASSUME NEW f \in Files, Extract(f)
      PROVE  objects' = objects /\ pc' = pc
  BY <1>5 DEF Extract, landingVars, executionVars
<1>6. ASSUME NEW p \in Ingestors, Start(p) \/ Work(p) \/ Fail(p)
      PROVE  objects' = objects /\ pc'[p] \notin HasPartition
  BY <1>1, <1>2, <1>4, <1>6 DEF HasPartition, TypeOK, Start, Work, Fail, Inspect,
     FindNoManifest, FindManifest, CopySource, WriteCopy, CopyDiffers, LinkObject,
     LinkExists, SyncObject, VerifyExisting, RejectExisting, RefuseManifest,
     InsertManifest, FindWinner, CommitRegistration, Report, Go, End, landingVars
<1>7. ASSUME NEW p \in Ingestors, Start(p) \/ Work(p) \/ Fail(p), NEW q \in Ingestors
      PROVE  pc'[q] \notin HasPartition
  BY <1>1, <1>4, <1>6, <1>7, OthersUntouched
<1> QED
  BY <1>4, <1>5, <1>6, <1>7 DEF Next

(* A copy is kept only if it has the bytes of the inspected file. *)
LEMMA CopiesStep ==
    ASSUME CoreInv, Next
    PROVE  CopiesAreVerified'
<1>1. TypeOK /\ CopiesAreVerified
  BY DEF CoreInv
<1> SUFFICES ASSUME NEW q \in Ingestors
             PROVE  /\ \A c \in copy'[q] : c.content = artifact'[q]
                    /\ pc'[q] \notin {"copied", "linked"} => copy'[q] = {}
  BY DEF CopiesAreVerified
<1>2. CASE copy'[q] = copy[q] /\ artifact'[q] = artifact[q] /\ pc'[q] = pc[q]
  BY <1>1, <1>2 DEF CopiesAreVerified
<1>3. ASSUME NEW f \in Files, Extract(f)
      PROVE  copy'[q] = copy[q] /\ artifact'[q] = artifact[q] /\ pc'[q] = pc[q]
  BY <1>3 DEF Extract, executionVars
<1>4. ASSUME NEW p \in Ingestors, p # q, Start(p) \/ Work(p) \/ Fail(p)
      PROVE  copy'[q] = copy[q] /\ artifact'[q] = artifact[q] /\ pc'[q] = pc[q]
  BY <1>1, <1>4, OthersUntouched
<1>5. CASE CopySource(q)
  BY <1>1, <1>5 DEF CopySource, WriteCopy, Go, TypeOK
<1>6. CASE LinkObject(q)
  BY <1>1, <1>6 DEF LinkObject, Go, TypeOK, CopiesAreVerified
<1>7. CASE /\ Start(q) \/ Work(q) \/ Fail(q)
           /\ ~CopySource(q) /\ ~LinkObject(q)
  <2>1. CASE pc[q] \notin {"copied", "linked"}
    <3>1. copy[q] = {}
      BY <1>1, <2>1 DEF CopiesAreVerified
    <3> QED
      BY <1>1, <1>7, <2>1, <3>1 DEF TypeOK, Start, Work, Fail, Inspect, FindNoManifest,
         FindManifest, LookAtPath, CopyDiffers, LinkExists, SyncObject, VerifyExisting,
         RejectExisting, RefuseManifest, InsertManifest, FindWinner, CommitRegistration,
         Report, Go, Receive, End
  <2>2. CASE pc[q] \in {"copied", "linked"}
    <3>1. LinkExists(q) \/ SyncObject(q) \/ Fail(q)
      BY <1>7, <2>2 DEF Start, Work, Inspect, FindNoManifest, FindManifest, LookAtPath,
         CopyDiffers, VerifyExisting, RejectExisting, RefuseManifest, InsertManifest,
         FindWinner, CommitRegistration, Report, Go
    <3> QED
      BY <1>1, <3>1 DEF TypeOK, LinkExists, SyncObject, Fail, Receive, End
  <2> QED
    BY <2>1, <2>2
<1> QED
  BY <1>2, <1>3, <1>4, <1>5, <1>6, <1>7 DEF Next

(* A link adds the bytes that were inspected, where there is nothing. *)
LEMMA LinkedEntry ==
    ASSUME CoreInv, NEW p \in Ingestors, LinkObject(p)
    PROVE  \E new \in Objects :
              /\ objects' = objects \cup {new}
              /\ Path(new) = PathOf(p) /\ new.key = artifact[p]
              /\ new.content = artifact[p]
              /\ \A o \in objects : Path(o) # PathOf(p)
<1>1. TypeOK /\ CopiesAreVerified
  BY DEF CoreInv
<1>2. PICK c \in copy[p] : Link(PathOf(p), c.content, c.written)
  BY DEF LinkObject
<1>3. c.content = artifact[p] /\ c.content \in Contents /\ c.written \in Int
  BY <1>1 DEF CopiesAreVerified, TypeOK, Copies
<1> DEFINE new == Entry(PathOf(p), c.content, c.written)
<1>4. /\ new \in Objects /\ Path(new) = PathOf(p)
      /\ new.key = artifact[p] /\ new.content = artifact[p]
  BY <1>1, <1>3, PathType, EntryType DEF PathOf
<1>5. objects' = objects \cup {new} /\ \A o \in objects : Path(o) # PathOf(p)
  BY <1>2 DEF Link, At
<1> HIDE DEF new
<1> QED
  BY <1>4, <1>5

(* A link is made only where there is nothing. *)
LEMMA OnePerPathStep ==
    ASSUME CoreInv, Next
    PROVE  OnePerPath'
<1>1. TypeOK /\ OnePerPath
  BY DEF CoreInv
<1>2. ASSUME NEW p \in Ingestors, LinkObject(p)
      PROVE  OnePerPath'
  BY <1>1, <1>2, LinkedEntry DEF OnePerPath, Path
<1>3. ASSUME NEW p \in Ingestors, SyncObject(p)
      PROVE  OnePerPath'
  <2> SUFFICES ASSUME NEW n \in objects', NEW m \in objects', Path(n) = Path(m)
               PROVE  n = m
    BY DEF OnePerPath, Path
  <2>1. PICK o \in objects : n = [o EXCEPT !.synced = TRUE]
    BY <1>3 DEF SyncObject, SyncDirectory
  <2>2. PICK l \in objects : m = [l EXCEPT !.synced = TRUE]
    BY <1>3 DEF SyncObject, SyncDirectory
  <2>3. Path(o) = Path(l)
    BY <1>1, <2>1, <2>2, SyncedEntry DEF TypeOK
  <2>4. o = l
    BY <1>1, <2>3 DEF OnePerPath
  <2> QED
    BY <2>1, <2>2, <2>4
<1>4. CASE UNCHANGED objects
  BY <1>1, <1>4 DEF OnePerPath, Path
<1> QED
  BY <1>2, <1>3, <1>4 DEF landingVars, Next, Extract, Start, Work, Fail, Inspect,
     FindNoManifest, FindManifest, LookAtPath, CopySource, WriteCopy, CopyDiffers,
     LinkExists, VerifyExisting, RejectExisting, RefuseManifest, InsertManifest, FindWinner,
     CommitRegistration, Report

(* A receipt is given for the object that was linked or verified. *)
LEMMA ReceiptsStep ==
    ASSUME CoreInv, TypeOK', Next
    PROVE  ReceiptsAreTrue'
<1>1. TypeOK /\ ReceiptsAreTrue
  BY DEF CoreInv
<1> SUFFICES ASSUME NEW q \in Ingestors, pc'[q] \in HasObject
             PROVE  \E n \in objects' :
                       /\ Path(n) = PathOf(q)'
                       /\ n.content = artifact'[q]
                       /\ pc'[q] \in HasReceipt => n.landed = landed'[q]
  BY DEF ReceiptsAreTrue, At, Path
<1>2. CASE /\ pc[q] \in HasObject
           /\ pc'[q] \in HasReceipt => pc[q] \in HasReceipt
           /\ artifact'[q] = artifact[q] /\ landed'[q] = landed[q]
  <2>1. PICK o \in objects : /\ Path(o) = PathOf(q)
                             /\ o.content = artifact[q]
                             /\ pc[q] \in HasReceipt => o.landed = landed[q]
    BY <1>1, <1>2 DEF ReceiptsAreTrue, At
  <2>2. PathOf(q)' = PathOf(q)
    BY <1>2 DEF PathOf
  <2> QED
    BY <1>1, <1>2, <2>1, <2>2, BytesStay
<1>3. ASSUME NEW f \in Files, Extract(f)
      PROVE  pc'[q] = pc[q] /\ artifact'[q] = artifact[q] /\ landed'[q] = landed[q]
  BY <1>3 DEF Extract, executionVars
<1>4. ASSUME NEW p \in Ingestors, p # q, Start(p) \/ Work(p) \/ Fail(p)
      PROVE  pc'[q] = pc[q] /\ artifact'[q] = artifact[q] /\ landed'[q] = landed[q]
  BY <1>1, <1>4, OthersUntouched
<1>5. CASE LinkObject(q)
  <2>1. pc'[q] \notin HasReceipt /\ artifact' = artifact
    BY <1>1, <1>5 DEF LinkObject, Go, HasReceipt, TypeOK
  <2>2. \E new \in objects' : Path(new) = PathOf(q) /\ new.content = artifact[q]
    BY <1>5, LinkedEntry
  <2>3. PathOf(q)' = PathOf(q)
    BY <2>1 DEF PathOf
  <2> QED
    BY <2>1, <2>2, <2>3
<1>6. CASE SyncObject(q)
  <2>1. PICK o \in At(PathOf(q)) : Receive(q, o)
    BY <1>1, <1>6 DEF SyncObject, End, HasObject, TypeOK
  <2>2. o \in objects /\ Path(o) = PathOf(q) /\ artifact' = artifact /\ landed'[q] = o.landed
    BY <1>1, <2>1 DEF At, Receive, TypeOK
  <2>3. \A l \in objects : Path(l) = PathOf(q) => l = o
    BY <2>2 DEF CoreInv, OnePerPath
  <2>4. o.content = artifact[q]
    BY <1>1, <1>6, <2>3 DEF ReceiptsAreTrue, SyncObject, HasObject, At
  <2>5. PathOf(q)' = PathOf(q)
    BY <2>2 DEF PathOf
  <2> QED
    BY <1>1, <2>2, <2>4, <2>5, BytesStay
<1>7. CASE VerifyExisting(q)
  <2>1. PICK o \in At(PathOf(q)) : o.content = artifact[q] /\ Receive(q, o)
    BY <1>7 DEF VerifyExisting
  <2>2. /\ o \in objects /\ objects' = objects /\ artifact' = artifact
        /\ Path(o) = PathOf(q) /\ landed'[q] = o.landed
    BY <1>1, <1>7, <2>1 DEF VerifyExisting, Receive, At, TypeOK, landingVars
  <2>3. PathOf(q)' = PathOf(q)
    BY <2>2 DEF PathOf
  <2> QED
    BY <2>1, <2>2, <2>3
<1>8. CASE InsertManifest(q) \/ CommitRegistration(q)
  BY <1>1, <1>2, <1>8 DEF TypeOK, InsertManifest, CommitRegistration, Go,
                          HasObject, HasReceipt
<1>9. CASE \/ Start(q) \/ Inspect(q) \/ FindNoManifest(q) \/ FindManifest(q)
           \/ LookAtPath(q) \/ CopySource(q) \/ CopyDiffers(q) \/ LinkExists(q)
           \/ RejectExisting(q) \/ RefuseManifest(q) \/ FindWinner(q)
           \/ Report(q) \/ Fail(q)
  <2>1. pc'[q] \notin HasObject
    BY <1>1, <1>9 DEF TypeOK, Start, Inspect, FindNoManifest, FindManifest, LookAtPath,
          CopySource, WriteCopy, CopyDiffers, LinkExists, RejectExisting, RefuseManifest,
          FindWinner, Report, Fail, Go, End, HasObject
  <2> QED
    BY <2>1
<1>10. CASE pc'[q] = pc[q] /\ artifact'[q] = artifact[q] /\ landed'[q] = landed[q]
  BY <1>2, <1>10
<1> QED
  BY <1>3, <1>4, <1>5, <1>6, <1>7, <1>8, <1>9, <1>10 DEF Next, Work

(* A registered manifest's object is there when the receipt was given, and *)
(* stays.                                                                  *)
LEMMA ManifestsStep ==
    ASSUME IngestInv, TypeOK', Next
    PROVE  ManifestsMatchObjects'
<1>1. TypeOK /\ ReceiptsAreTrue /\ OpenTransactions /\ ManifestsMatchObjects
  BY DEF IngestInv, CoreInv
<1> SUFFICES ASSUME NEW m \in manifests'
             PROVE  \E n \in objects' : /\ Path(n) = m.place
                                        /\ n.content = m.key
                                        /\ n.landed = m.landed
  BY DEF ManifestsMatchObjects, Path
<1>2. SUFFICES \E o \in objects : /\ Path(o) = m.place
                                  /\ o.content = m.key
                                  /\ o.landed = m.landed
  BY <1>1, BytesStay
<1>3. CASE m \in manifests
  BY <1>1, <1>3 DEF ManifestsMatchObjects
<1>4. ASSUME NEW p \in Ingestors, CommitRegistration(p), m \notin manifests
      PROVE  \E o \in objects : /\ Path(o) = m.place
                                /\ o.content = m.key
                                /\ o.landed = m.landed
  <2>1. PICK b \in Batches : m = Candidate(p, b)
    BY <1>1, <1>4 DEF OpenTransactions, CommitRegistration, Go, Registry!Commit
  <2>2. pc[p] \in HasObject /\ pc[p] \in HasReceipt
    BY <1>4 DEF CommitRegistration, Go, HasObject, HasReceipt
  <2> QED
    BY <1>1, <2>1, <2>2, CandidateType DEF ReceiptsAreTrue, At
<1> QED
  BY <1>1, <1>3, <1>4, ManifestsGrow

(* The open transaction of an execution that has just inserted is its own. *)
LEMMA OpenStep ==
    ASSUME CoreInv, TypeOK', Next
    PROVE  OpenTransactions'
<1>1. TypeOK /\ OpenTransactions
  BY DEF CoreInv
<1> SUFFICES ASSUME NEW q \in Ingestors
             PROVE  /\ pc'[q] # "inserted" => inserting'[q] = {}
                    /\ pc'[q] = "inserted" =>
                          \E b \in Batches : inserting'[q] = {Candidate(q, b)'}
  BY DEF OpenTransactions
<1>2. CASE /\ pc'[q] = pc[q] /\ inserting'[q] = inserting[q]
           /\ artifact'[q] = artifact[q] /\ landed'[q] = landed[q]
           /\ extracted'[q] = extracted[q]
  BY <1>1, <1>2 DEF OpenTransactions, Candidate, PathOf
<1>3. ASSUME NEW f \in Files, Extract(f)
      PROVE  /\ pc'[q] = pc[q] /\ inserting'[q] = inserting[q]
             /\ artifact'[q] = artifact[q] /\ landed'[q] = landed[q]
             /\ extracted'[q] = extracted[q]
  BY <1>3 DEF Extract, executionVars, registryVars
<1>4. ASSUME NEW p \in Ingestors, p # q, Start(p) \/ Work(p) \/ Fail(p)
      PROVE  /\ pc'[q] = pc[q] /\ inserting'[q] = inserting[q]
             /\ artifact'[q] = artifact[q] /\ landed'[q] = landed[q]
             /\ extracted'[q] = extracted[q]
  BY <1>1, <1>4, OthersUntouched
<1>5. CASE InsertManifest(q)
  <2>1. PICK b \in Batches : Registry!Insert(q, Candidate(q, b))
    BY <1>5 DEF InsertManifest
  <2>2. Candidate(q, b)' = Candidate(q, b)
    BY <1>5 DEF InsertManifest, Candidate, PathOf
  <2> QED
    BY <1>1, <1>5, <2>1, <2>2 DEF TypeOK, InsertManifest, Go, Registry!Insert
<1>6. CASE CommitRegistration(q) \/ Fail(q)
  BY <1>1, <1>6 DEF TypeOK, CommitRegistration, Fail, Go, End,
                    Registry!Commit, Registry!Rollback
<1>7. CASE \/ Start(q) \/ Inspect(q) \/ FindNoManifest(q) \/ FindManifest(q)
           \/ LookAtPath(q) \/ CopySource(q) \/ CopyDiffers(q) \/ LinkObject(q)
           \/ LinkExists(q) \/ SyncObject(q) \/ VerifyExisting(q)
           \/ RejectExisting(q) \/ RefuseManifest(q) \/ FindWinner(q) \/ Report(q)
  <2>1. /\ pc[q] # "inserted" /\ pc'[q] # "inserted"
        /\ inserting' = inserting
    BY <1>1, <1>7 DEF TypeOK, Start, Inspect, FindNoManifest, FindManifest, LookAtPath,
          CopySource, WriteCopy, CopyDiffers, LinkObject, LinkExists, SyncObject, VerifyExisting,
          RejectExisting, RefuseManifest, FindWinner, Report, Go, Receive, End, registryVars
  <2> QED
    BY <1>1, <2>1 DEF OpenTransactions
<1> QED
  BY <1>2, <1>3, <1>4, <1>5, <1>6, <1>7 DEF Next, Work

(* What a step does to the tables. *)
LEMMA RegistrySteps ==
    ASSUME CoreInv, Next
    PROVE  \/ UNCHANGED registryVars
           \/ \E p \in Ingestors, b \in Batches :
                 Registry!Insert(p, Candidate(p, b)) /\ InsertManifest(p)
           \/ \E p \in Ingestors, b \in Batches :
                 /\ inserting[p] = {Candidate(p, b)}
                 /\ CommitRegistration(p)
                 /\ Registry!Commit(p)
           \/ \E p \in Ingestors : Registry!Rollback(p) /\ Fail(p)
<1>1. ASSUME NEW p \in Ingestors, CommitRegistration(p)
      PROVE  /\ Registry!Commit(p)
             /\ \E b \in Batches : inserting[p] = {Candidate(p, b)}
  BY <1>1 DEF CoreInv, OpenTransactions, CommitRegistration, Go
<1> QED
  BY <1>1 DEF Next, Extract, Start, Work, Fail, Inspect, FindNoManifest, FindManifest,
     LookAtPath, CopySource, WriteCopy, CopyDiffers, LinkObject, LinkExists, SyncObject,
     VerifyExisting, RejectExisting, RefuseManifest, InsertManifest, FindWinner, Report

(* An insert waits for every open transaction it conflicts with, and a     *)
(* manifest is committed in the transaction that inserted it.              *)
LEMMA TransactionsStep ==
    ASSUME CoreInv, TypeOK', Next
    PROVE  TransactionsAreDisjoint'
<1>1. TypeOK /\ TransactionsAreDisjoint
  BY DEF CoreInv
<1>2. CASE UNCHANGED registryVars
  BY <1>1, <1>2 DEF TransactionsAreDisjoint, registryVars, Registry!Conflict
<1>3. ASSUME NEW p \in Ingestors, NEW c, Registry!Insert(p, c)
      PROVE  TransactionsAreDisjoint'
  BY <1>1, <1>3 DEF TypeOK, TransactionsAreDisjoint, Registry!Insert, Registry!Conflict
<1>4. ASSUME NEW p \in Ingestors, Registry!Commit(p)
      PROVE  TransactionsAreDisjoint'
  BY <1>1, <1>4 DEF TypeOK, TransactionsAreDisjoint, Registry!Commit, Registry!Conflict
<1>5. ASSUME NEW p \in Ingestors, Registry!Rollback(p)
      PROVE  TransactionsAreDisjoint'
  BY <1>1, <1>5 DEF TypeOK, TransactionsAreDisjoint, Registry!Rollback, Registry!Conflict
<1> QED
  BY <1>2, <1>3, <1>4, <1>5, RegistrySteps

(* A commit adds one manifest with a new key and a new batch id, and its event. *)
LEMMA OneBatchStep ==
    ASSUME CoreInv, TypeOK', Next
    PROVE  OneBatchPerArtifact'
<1>1. TypeOK /\ TransactionsAreDisjoint /\ OneBatchPerArtifact
  BY DEF CoreInv
<1>2. ASSUME NEW p \in Ingestors, NEW m, inserting[p] = {m}, Registry!Commit(p)
      PROVE  OneBatchPerArtifact'
  <2>1. manifests' = manifests \cup {m} /\ events' = events \cup {m.batch}
    BY <1>2 DEF Registry!Commit
  <2>2. \A n \in manifests : m.key # n.key /\ m.batch # n.batch
    BY <1>1, <1>2 DEF TransactionsAreDisjoint, Registry!Conflict
  <2> QED
    BY <1>1, <2>1, <2>2 DEF OneBatchPerArtifact
<1>3. CASE UNCHANGED <<manifests, events>>
  BY <1>1, <1>3 DEF OneBatchPerArtifact
<1> QED
  BY <1>2, <1>3, RegistrySteps DEF registryVars, Registry!Insert, Registry!Rollback

(* Who has committed a key is the only one to report it as new. *)
LEMMA CreationsStep ==
    ASSUME CoreInv, TypeOK', Next
    PROVE  CreationsAreOwn'
<1>1. TypeOK /\ TransactionsAreDisjoint /\ OpenTransactions /\ CreationsAreOwn
  BY DEF CoreInv
<1>2. ASSUME NEW p \in Ingestors, CommitRegistration(p)
      PROVE  CreationsAreOwn'
  <2>1. PICK b \in Batches : inserting[p] = {Candidate(p, b)}
    BY <1>1, <1>2 DEF OpenTransactions, CommitRegistration, Go
  <2>2. Candidate(p, b).key = artifact[p]
    BY <1>1, CandidateType
  <2>3. ~Registry!Registered(artifact[p])
    BY <1>1, <2>1, <2>2 DEF TransactionsAreDisjoint, Registry!Registered,
                            Registry!Conflict
  <2>4. Registry!Registered(artifact[p])'
    BY <1>2, <2>1, <2>2 DEF CommitRegistration, Registry!Registered, Registry!Commit
  <2>5. /\ created[artifact[p]] = 0
        /\ \A q \in Ingestors : pc[q] = "committed" => artifact[q] # artifact[p]
    BY <1>1, <2>3 DEF TypeOK, CreationsAreOwn
  <2>6. /\ created' = created /\ artifact' = artifact /\ result' = result
        /\ pc[p] # "idle" /\ pc'[p] = "committed"
        /\ \A q \in Ingestors \ {p} : pc'[q] = pc[q]
    BY <1>1, <1>2 DEF CommitRegistration, Go, TypeOK
  <2>7. \A k : Registry!Registered(k) => Registry!Registered(k)'
    BY <1>1, RegisteredStays
  <2> QED
    BY <1>1, <2>4, <2>5, <2>6, <2>7 DEF CreationsAreOwn
<1>3. ASSUME NEW p \in Ingestors, Report(p)
      PROVE  CreationsAreOwn'
  <2>1. /\ Registry!Registered(artifact[p])
        /\ \A q \in Ingestors \ {p} : pc[q] = "committed" => artifact[q] # artifact[p]
    BY <1>1, <1>3 DEF CreationsAreOwn, Report
  <2>2. /\ created' = [created EXCEPT ![artifact[p]] = @ + 1]
        /\ artifact' = artifact /\ pc'[p] = "idle"
        /\ \A q \in Ingestors \ {p} : pc'[q] = pc[q] /\ result'[q] = result[q]
    BY <1>1, <1>3 DEF Report, End, TypeOK
  <2>3. \A k : Registry!Registered(k) => Registry!Registered(k)'
    BY <1>1, RegisteredStays
  <2>4. \A k \in Contents : k # artifact[p] => created'[k] = created[k]
    BY <1>1, <2>2 DEF TypeOK
  <2>5. \A q \in Ingestors : artifact[q] \in Contents
    BY <1>1 DEF TypeOK
  <2> QED
    BY <1>1, <2>1, <2>2, <2>3, <2>4, <2>5 DEF CreationsAreOwn
<1>4. ASSUME NEW p \in Ingestors,
             Start(p) \/ Work(p) \/ Fail(p), ~CommitRegistration(p), ~Report(p)
      PROVE  CreationsAreOwn'
  <2>1. /\ created' = created
        /\ pc'[p] # "committed"
        /\ pc'[p] # "idle" => result'[p] = "none"
    BY <1>1, <1>4 DEF CreationsAreOwn, TypeOK, Start, Work, Fail, Inspect, FindNoManifest,
          FindManifest, LookAtPath, CopySource, WriteCopy, CopyDiffers, LinkObject, LinkExists,
          SyncObject, VerifyExisting, RejectExisting, RefuseManifest, InsertManifest,
          FindWinner, Go, Receive, End
  <2>2. \A q \in Ingestors \ {p} :
            pc'[q] = pc[q] /\ artifact'[q] = artifact[q] /\ result'[q] = result[q]
    BY <1>1, <1>4, OthersUntouched
  <2>3. \A k : Registry!Registered(k) => Registry!Registered(k)'
    BY <1>1, RegisteredStays
  <2> QED
    BY <1>1, <2>1, <2>2, <2>3 DEF CreationsAreOwn
<1>5. ASSUME NEW f \in Files, Extract(f)
      PROVE  CreationsAreOwn'
  BY <1>1, <1>5 DEF CreationsAreOwn, Extract, executionVars, registryVars,
                    Registry!Registered
<1> QED
  BY <1>2, <1>3, <1>4, <1>5 DEF Next

(* A success is reported only with the manifest at hand, and manifests stay. *)
LEMMA ResultsStep ==
    ASSUME CoreInv, TypeOK', Next
    PROVE  ResultsAreTrue'
<1>1. TypeOK /\ CreationsAreOwn /\ ResultsAreTrue
  BY DEF CoreInv
<1>2. \A k \in Contents : created'[k] <= 1
  <2>1. ASSUME NEW p \in Ingestors, Report(p)
        PROVE  \A k \in Contents : created'[k] <= 1
    BY <1>1, <2>1 DEF TypeOK, CreationsAreOwn, ResultsAreTrue, Report
  <2>2. CASE created' = created
    BY <1>1, <2>2 DEF ResultsAreTrue
  <2> QED
    BY <2>1, <2>2 DEF Next, Extract, executionVars, Start, Work, Fail, Inspect,
       FindNoManifest, FindManifest, LookAtPath, CopySource, WriteCopy, CopyDiffers, LinkObject,
       LinkExists, SyncObject, VerifyExisting, RejectExisting, RefuseManifest,
       InsertManifest, FindWinner, CommitRegistration
<1>3. ASSUME NEW q \in Ingestors, result'[q] \in {"created", "deduplicated"}
      PROVE  Registry!Registered(artifact[q])'
  <2>1. CASE Registry!Registered(artifact[q]) /\ artifact'[q] = artifact[q]
    BY <1>1, <2>1, RegisteredStays DEF Registry!Registered
  <2>2. CASE result'[q] = result[q] /\ artifact'[q] = artifact[q]
    BY <1>1, <1>3, <2>1, <2>2 DEF ResultsAreTrue
  <2>3. CASE Start(q) \/ Work(q) \/ Fail(q)
    BY <1>1, <1>3, <2>1, <2>2, <2>3
       DEF CreationsAreOwn, TypeOK, Start, Work, Fail, Inspect, FindNoManifest,
           FindManifest, LookAtPath, CopySource, WriteCopy, CopyDiffers, LinkObject, LinkExists,
           SyncObject, VerifyExisting, RejectExisting, RefuseManifest, InsertManifest,
           FindWinner, CommitRegistration, Report, Go, Receive, End
  <2>4. ASSUME NEW p \in Ingestors, p # q, Start(p) \/ Work(p) \/ Fail(p)
        PROVE  result'[q] = result[q] /\ artifact'[q] = artifact[q]
    BY <1>1, <2>4, OthersUntouched
  <2>5. ASSUME NEW f \in Files, Extract(f)
        PROVE  result'[q] = result[q] /\ artifact'[q] = artifact[q]
    BY <2>5 DEF Extract, executionVars
  <2> QED
    BY <2>2, <2>3, <2>4, <2>5 DEF Next
<1> QED
  BY <1>2, <1>3 DEF ResultsAreTrue

(* Every step of ingestion keeps what does not depend on the directory. *)
LEMMA CoreStep == CoreInv /\ [Next]_vars => CoreInv'
<1> SUFFICES ASSUME CoreInv, [Next]_vars
             PROVE  CoreInv'
  OBVIOUS
<1>1. TypeOK'
  BY TypeStep DEF CoreInv
<1>2. CASE Next
  BY <1>1, <1>2, PartitionStep, CopiesStep, OnePerPathStep, ReceiptsStep, OpenStep,
     TransactionsStep, OneBatchStep, CreationsStep, ResultsStep DEF CoreInv
<1>3. CASE UNCHANGED vars
  <2>1. OnePerPath' /\ ReceiptsAreTrue'
    BY <1>3 DEF vars, landingVars, executionVars, CoreInv, OnePerPath, ReceiptsAreTrue,
                At, Path, PathOf
  <2>2. PartitionExists' /\ CopiesAreVerified'
    BY <1>3 DEF vars, landingVars, executionVars, CoreInv, PartitionExists,
                CopiesAreVerified
  <2>3. OpenTransactions' /\ TransactionsAreDisjoint' /\ OneBatchPerArtifact'
    BY <1>3 DEF vars, executionVars, registryVars, CoreInv, OpenTransactions, Candidate,
                PathOf, TransactionsAreDisjoint, Registry!Conflict, OneBatchPerArtifact
  <2>4. CreationsAreOwn' /\ ResultsAreTrue'
    BY <1>3 DEF vars, executionVars, registryVars, CoreInv, CreationsAreOwn, ResultsAreTrue,
                Registry!Registered
  <2> QED
    BY <1>1, <2>1, <2>2, <2>3, <2>4 DEF CoreInv
<1> QED
  BY <1>2, <1>3

(* Every step of ingestion keeps the inductive invariant. *)
LEMMA InvStep == IngestInv /\ [Next]_vars => IngestInv'
<1> SUFFICES ASSUME IngestInv, [Next]_vars
             PROVE  IngestInv'
  OBVIOUS
<1>1. CoreInv'
  BY CoreStep DEF IngestInv
<1>2. ManifestsMatchObjects'
  <2>1. CASE Next
    BY <1>1, <2>1, ManifestsStep DEF CoreInv
  <2>2. CASE UNCHANGED vars
    BY <2>2 DEF vars, landingVars, registryVars, IngestInv, ManifestsMatchObjects, Path
  <2> QED
    BY <2>1, <2>2
<1> QED
  BY <1>1, <1>2 DEF IngestInv

(* The inductive invariant holds in every reachable state. *)
THEOREM Invariance == Spec => []IngestInv
<1>1. Init => IngestInv
  BY InvInit
<1>2. IngestInv /\ [Next]_vars => IngestInv'
  BY InvStep
<1> QED
  BY <1>1, <1>2, PTL DEF Spec

(* However many executions race and crash, the registry holds one manifest *)
(* and one event per key.                                                  *)
THEOREM BatchesAreUnique == Spec => []OneBatchPerArtifact
<1>1. IngestInv => OneBatchPerArtifact
  BY DEF IngestInv, CoreInv
<1> QED
  BY <1>1, Invariance, PTL

(* A batch is reported as new at most once, and a success has a manifest. *)
THEOREM ReportsAreTrue == Spec => []ResultsAreTrue
<1>1. IngestInv => ResultsAreTrue
  BY DEF IngestInv, CoreInv
<1> QED
  BY <1>1, Invariance, PTL

(* A registered manifest has the object it describes in its place. *)
THEOREM ManifestsAreBacked == Spec => []ManifestsMatchObjects
<1>1. IngestInv => ManifestsMatchObjects
  BY DEF IngestInv, CoreInv
<1> QED
  BY <1>1, Invariance, PTL

-----------------------------------------------------------------------------
(* Action properties and the refinement *)

(* No step replaces, changes or removes a landed object. *)
THEOREM LandingIsImmutable == Spec => ObjectsAreImmutable
<1> DEFINE Kept == \A o \in objects : \E n \in objects' :
                      o = n \/ [o EXCEPT !.synced = TRUE] = n
<1>1. IngestInv /\ Next => Kept
  BY ObjectsStay DEF IngestInv, CoreInv
<1>2. UNCHANGED vars => Kept
  BY DEF vars, landingVars
<1> QED
  BY <1>1, <1>2, Invariance, PTL DEF Spec, ObjectsAreImmutable

(* The objects that a step adds have the bytes of their keys. *)
LEMMA NewObjects ==
    ASSUME CoreInv, [Next]_vars, NEW o \in objects',
           \A n \in objects : Path(n) # Path(o)
    PROVE  o.content = o.key
<1>1. TypeOK
  BY DEF CoreInv
<1>2. ASSUME NEW p \in Ingestors, LinkObject(p)
      PROVE  o.content = o.key
  BY <1>2, LinkedEntry
<1>3. ASSUME NEW p \in Ingestors, SyncObject(p)
      PROVE  FALSE
  <2>1. PICK n \in objects : o = [n EXCEPT !.synced = TRUE]
    BY <1>3 DEF SyncObject, SyncDirectory
  <2> QED
    BY <1>1, <2>1, SyncedEntry DEF TypeOK
<1>4. CASE UNCHANGED objects
  BY <1>4
<1> QED
  BY <1>2, <1>3, <1>4 DEF vars, landingVars, Next, Extract, Start, Work, Fail, Inspect,
     FindNoManifest, FindManifest, LookAtPath, CopySource, WriteCopy, CopyDiffers,
     LinkExists, VerifyExisting, RejectExisting, RefuseManifest, InsertManifest, FindWinner,
     CommitRegistration, Report

(* Whatever is written to a source file between its inspection and its     *)
(* copy, other bytes never get the key of the inspected ones.              *)
THEOREM KeysAreHonest == Spec => LandedUnderOwnKey
<1> DEFINE Own == \A o \in objects' :
                     (\A n \in objects : Path(n) # Path(o)) => o.content = o.key
<1>1. IngestInv /\ [Next]_vars => Own
  BY NewObjects DEF IngestInv
<1>2. UNCHANGED vars => Own
  BY DEF vars, landingVars, Path
<1> QED
  BY <1>1, <1>2, Invariance, PTL DEF Spec, LandedUnderOwnKey

(* Only a link adds to what is stored, and it adds what was inspected. *)
LEMMA StoredSteps ==
    ASSUME IngestInv, Next
    PROVE  LET stored == {c \in Contents : \E o \in objects : o.key = c /\ o.content = c}
           IN  \/ stored' = stored
               \/ \E p \in Ingestors :
                     LinkObject(p) /\ stored' = stored \cup {artifact[p]}
<1> DEFINE stored == {c \in Contents : \E o \in objects : o.key = c /\ o.content = c}
<1>1. TypeOK
  BY DEF IngestInv, CoreInv
<1>2. ASSUME NEW p \in Ingestors, LinkObject(p)
      PROVE  stored' = stored \cup {artifact[p]}
  <2>1. artifact[p] \in Contents /\ CoreInv
    BY <1>1 DEF TypeOK, IngestInv
  <2> QED
    BY <1>2, <2>1, LinkedEntry
<1>3. ASSUME NEW p \in Ingestors, SyncObject(p)
      PROVE  stored' = stored
  <2>1. \A o \in objects : \E n \in objects' : n.key = o.key /\ n.content = o.content
    BY <1>1, BytesStay
  <2>2. ASSUME NEW n \in objects'
        PROVE  \E o \in objects : n.key = o.key /\ n.content = o.content
    <3>1. PICK o \in objects : n = [o EXCEPT !.synced = TRUE]
      BY <1>3 DEF SyncObject, SyncDirectory
    <3> QED
      BY <1>1, <3>1, SyncedEntry DEF TypeOK
  <2> QED
    BY <2>1, <2>2
<1>4. CASE UNCHANGED objects
  BY <1>4
<1> QED
  BY <1>2, <1>3, <1>4 DEF landingVars, Next, Extract, Start, Work, Fail, Inspect,
     FindNoManifest, FindManifest, LookAtPath, CopySource, WriteCopy, CopyDiffers,
     LinkExists, VerifyExisting, RejectExisting, RefuseManifest, InsertManifest, FindWinner,
     CommitRegistration, Report

(* Every step of ingestion stores or accepts an artifact, or neither. *)
THEOREM IngestionIsImplemented == Spec => ImplementsIngestion
<1> DEFINE stored == {c \in Contents : \E o \in objects : o.key = c /\ o.content = c}
           registered == {m.key : m \in manifests}
           announced == {m.key : m \in {n \in manifests : n.batch \in events}}
<1>1. Init => Ingestion!Init
  BY DEF Init, Registry!InitRegistry, Ingestion!Init
<1>2. IngestInv /\ Next => Ingestion!Next \/ UNCHANGED Ingestion!vars
  <2> SUFFICES ASSUME IngestInv, Next
               PROVE  Ingestion!Next \/ UNCHANGED Ingestion!vars
    OBVIOUS
  <2>1. TypeOK /\ OneBatchPerArtifact /\ OneBatchPerArtifact'
    BY OneBatchStep, TypeStep DEF IngestInv, CoreInv
  <2>2. announced = registered /\ announced' = registered'
    BY <2>1 DEF OneBatchPerArtifact
  <2>3. ASSUME NEW p \in Ingestors, LinkObject(p), stored' = stored \cup {artifact[p]}
        PROVE  Ingestion!Next
    <3>1. artifact[p] \in Contents /\ UNCHANGED <<registered, announced>>
      BY <2>1, <2>3 DEF TypeOK, LinkObject, registryVars
    <3> QED
      BY <2>3, <3>1 DEF Ingestion!Next, Ingestion!Store
  <2>4. ASSUME NEW p \in Ingestors, CommitRegistration(p), stored' = stored
        PROVE  Ingestion!Next
    <3>1. PICK b \in Batches : inserting[p] = {Candidate(p, b)}
      BY <2>4 DEF IngestInv, CoreInv, OpenTransactions, CommitRegistration, Go
    <3>2. Candidate(p, b).key = artifact[p] /\ artifact[p] \in Contents
      BY <2>1, CandidateType DEF TypeOK
    <3>3. artifact[p] \in stored \ registered
      <4>1. \E o \in At(PathOf(p)) : o.content = artifact[p]
        BY <2>4 DEF IngestInv, CoreInv, ReceiptsAreTrue, HasObject, CommitRegistration, Go
      <4>2. PICK o \in objects : Path(o) = PathOf(p) /\ o.content = artifact[p]
        BY <4>1 DEF At
      <4>3. o.key = artifact[p]
        BY <4>2 DEF Path, PathOf
      <4>4. \A n \in manifests : n.key # artifact[p]
        BY <3>1, <3>2 DEF IngestInv, CoreInv, TransactionsAreDisjoint, Registry!Conflict
      <4> QED
        BY <3>2, <4>2, <4>3, <4>4
    <3>4. registered' = registered \cup {artifact[p]}
      BY <2>4, <3>1, <3>2 DEF CommitRegistration, Registry!Commit
    <3> QED
      BY <2>2, <2>4, <3>2, <3>3, <3>4 DEF Ingestion!Next, Ingestion!Accept
  <2>5. CASE stored' = stored /\ UNCHANGED <<manifests, events>>
    BY <2>5 DEF Ingestion!vars
  <2>6. ASSUME NEW p \in Ingestors, CommitRegistration(p)
        PROVE  stored' = stored
    BY <2>6 DEF CommitRegistration, landingVars
  <2>7. ASSUME NEW p \in Ingestors, LinkObject(p)
        PROVE  UNCHANGED <<manifests, events>>
    BY <2>7 DEF LinkObject, registryVars
  <2> QED
    BY <2>1, <2>3, <2>4, <2>5, <2>6, <2>7, StoredSteps, ManifestsGrow
<1>3. UNCHANGED vars => UNCHANGED Ingestion!vars
  BY DEF vars, landingVars, registryVars, Ingestion!vars
<1> QED
  BY <1>1, <1>2, <1>3, Invariance, PTL DEF Spec, ImplementsIngestion, Ingestion!Spec

-----------------------------------------------------------------------------
(* Power losses *)

(* What is in the partition afterwards was in it before. *)
LEMMA LossOnly ==
    ASSUME TypeOK, LoseUnsynced
    PROVE  /\ directory' \in Directories
           /\ directory' = "absent" => objects' = {} \/ directory = "absent"
           /\ \A n \in objects' : \E o \in objects :
                 n = [o EXCEPT !.synced = TRUE] /\ Path(n) = Path(o) /\ n \in Objects
<1>1. CASE LoseDirectory
  BY <1>1 DEF LoseDirectory, Directories
<1>2. CASE LoseEntries
  <2>1. directory' \in Directories /\ (directory' = "absent" => directory = "absent")
    BY <1>2 DEF LoseEntries, Directories, TypeOK
  <2>2. \A n \in objects' : \E o \in objects : n = [o EXCEPT !.synced = TRUE]
    BY <1>2 DEF LoseEntries
  <2> QED
    BY <2>1, <2>2, SyncedEntry DEF TypeOK
<1> QED
  BY <1>1, <1>2 DEF LoseUnsynced

(* The host restarts with idle processes; the database has rolled their    *)
(* transactions back and kept the rest; entries may be gone.               *)
LEMMA PowerLossKeepsCore == CoreInv /\ PowerLoss => CoreInv'
<1> SUFFICES ASSUME CoreInv, PowerLoss PROVE CoreInv'
  OBVIOUS
<1>1. /\ UNCHANGED <<now, source, manifests, events, artifact, created>>
      /\ inserting' = [p \in Ingestors |-> {}]
      /\ pc' = [p \in Ingestors |-> "idle"]
      /\ copy' = [p \in Ingestors |-> {}]
      /\ result' = [p \in Ingestors |-> "failed"]
      /\ LoseUnsynced /\ TypeOK /\ OnePerPath /\ PartitionExists
  BY DEF PowerLoss, CoreInv
<1>2. TypeOK'
  <2>1. /\ extracted' \in [Ingestors -> Nat] /\ landed' \in [Ingestors -> Int]
        /\ faults' \in Nat
    BY DEF PowerLoss, CoreInv, TypeOK
  <2>2. directory' \in Directories /\ objects' \subseteq Objects
    BY <1>1, LossOnly
  <2> QED
    BY <1>1, <2>1, <2>2 DEF TypeOK, PCs, Results
<1>3. OnePerPath'
  <2> SUFFICES ASSUME NEW n \in objects', NEW m \in objects', Path(n) = Path(m)
               PROVE  n = m
    BY DEF OnePerPath, Path
  <2>1. PICK o \in objects : n = [o EXCEPT !.synced = TRUE] /\ Path(n) = Path(o)
    BY <1>1, LossOnly
  <2>2. PICK l \in objects : m = [l EXCEPT !.synced = TRUE] /\ Path(m) = Path(l)
    BY <1>1, LossOnly
  <2>3. o = l
    BY <1>1, <2>1, <2>2 DEF OnePerPath
  <2> QED
    BY <2>1, <2>2, <2>3
<1>4. ReceiptsAreTrue' /\ OpenTransactions' /\ TransactionsAreDisjoint' /\ CopiesAreVerified'
  BY <1>1 DEF ReceiptsAreTrue, HasObject, OpenTransactions, TransactionsAreDisjoint,
              CopiesAreVerified
<1>5. OneBatchPerArtifact' /\ ResultsAreTrue'
  BY <1>1 DEF CoreInv, OneBatchPerArtifact, ResultsAreTrue
<1>6. CreationsAreOwn'
  <2>1. \A k \in Contents : created[k] > 0 => Registry!Registered(k)
    BY DEF CoreInv, CreationsAreOwn
  <2> QED
    BY <1>1, <2>1 DEF CreationsAreOwn, Registry!Registered
<1>7. PartitionExists'
  <2>1. ASSUME directory' = "absent"
        PROVE  objects' = {}
    BY <1>1, <2>1, LossOnly DEF PartitionExists
  <2> QED
    BY <1>1, <2>1 DEF PartitionExists, HasPartition
<1> QED
  BY <1>2, <1>3, <1>4, <1>5, <1>6, <1>7 DEF CoreInv

(* What ingestion promises about receipts, transactions, batches and       *)
(* results holds although the host may lose power at any moment.           *)
THEOREM CoreUnderPowerLoss == PowerLossSpec => []CoreInv
<1>1. Init => CoreInv
  BY InvInit DEF IngestInv
<1>2. CoreInv /\ [Next \/ PowerLoss]_vars => CoreInv'
  BY CoreStep, PowerLossKeepsCore
<1> QED
  BY <1>1, <1>2, PTL DEF PowerLossSpec

(* Power losses cannot make two batches or two events of one artifact.     *)
THEOREM BatchesAreUniqueUnderPowerLoss == PowerLossSpec => []OneBatchPerArtifact
<1>1. CoreInv => OneBatchPerArtifact
  BY DEF CoreInv
<1> QED
  BY <1>1, CoreUnderPowerLoss, PTL

(* Power losses cannot make the command report what did not happen: an      *)
(* artifact is new at most once, and a success has its manifest.           *)
THEOREM ReportsAreTrueUnderPowerLoss == PowerLossSpec => []ResultsAreTrue
<1>1. CoreInv => ResultsAreTrue
  BY DEF CoreInv
<1> QED
  BY <1>1, CoreUnderPowerLoss, PTL

(* What a power loss leaves in the landing zone has not changed, so other  *)
(* bytes never get the key of the inspected ones then either.              *)
THEOREM KeysAreHonestUnderPowerLoss == PowerLossSpec => LandedUnderOwnKey
<1> DEFINE Own == \A o \in objects' :
                     (\A n \in objects : Path(n) # Path(o)) => o.content = o.key
<1>1. CoreInv /\ [Next]_vars => Own
  BY NewObjects
<1>2. CoreInv /\ PowerLoss => Own
  BY LossOnly DEF CoreInv, PowerLoss
<1> QED
  BY <1>1, <1>2, CoreUnderPowerLoss, PTL DEF PowerLossSpec, LandedUnderOwnKey

-----------------------------------------------------------------------------
(* The two ways to lose what is registered *)

(* An execution is given a receipt for an object whose entry nobody has    *)
(* synchronized yet.                                                       *)
AdoptsUnsynced(p) == VerifyExisting(p) /\ \A o \in At(PathOf(p)) : ~o.synced

(* A manifest is registered for an object in a partition that was made     *)
(* since the last restart and that nobody synchronizes.                    *)
RegistersInNewDirectory(p) == InsertManifest(p) /\ directory = "created"

Careful == \A p \in Ingestors : ~AdoptsUnsynced(p) /\ ~RegistersInNewDirectory(p)

(* Power losses, but neither of these. *)
CarefulSpec == Init /\ [][(Next \/ PowerLoss) /\ Careful]_vars

(* A receipt is then for an object whose entry is on the disk, *)
ReceiptsAreDurable ==
    \A p \in Ingestors : pc[p] \in HasReceipt =>
        /\ \E o \in At(PathOf(p)) :
              o.content = artifact[p] /\ o.landed = landed[p] /\ o.synced
        /\ pc[p] # "received" => directory = "durable"

(* and so is what a manifest describes, together with the partition. *)
Durable(m, o) ==
    /\ Path(o) = m.place /\ o.content = m.key /\ o.landed = m.landed
    /\ o.synced

ManifestsAreDurable ==
    \A m \in manifests : directory = "durable" /\ \E o \in objects : Durable(m, o)

DurableInv == CoreInv /\ ReceiptsAreDurable /\ ManifestsAreDurable

(* No step of an ingestor removes an entry that reached the disk. *)
LEMMA SyncedStay ==
    ASSUME TypeOK, Next, NEW o \in objects, o.synced
    PROVE  o \in objects'
<1>1. o \in Objects
  BY DEF TypeOK
<1>2. [o EXCEPT !.synced = TRUE] = o
  BY <1>1 DEF Objects
<1> QED
  BY <1>2, ObjectsStay

(* ... nor the partition. *)
LEMMA DurableStays ==
    ASSUME Next, directory = "durable"
    PROVE  directory' = "durable"
BY DEF Next, Extract, Start, Work, Fail, Inspect, FindNoManifest, FindManifest, LookAtPath,
   MakeDirectory, CopySource, WriteCopy, CopyDiffers, LinkObject, LinkExists, SyncObject,
   VerifyExisting, RejectExisting, RefuseManifest, InsertManifest, FindWinner,
   CommitRegistration, Report, landingVars

LEMMA DurableReceiptsStep ==
    ASSUME DurableInv, Next, Careful
    PROVE  ReceiptsAreDurable'
<1>1. TypeOK /\ OnePerPath /\ ReceiptsAreTrue /\ ReceiptsAreDurable /\ PartitionExists
  BY DEF DurableInv, CoreInv
<1> SUFFICES ASSUME NEW q \in Ingestors, pc'[q] \in HasReceipt
             PROVE  /\ \E n \in objects' : /\ Path(n) = PathOf(q)'
                                           /\ n.content = artifact'[q]
                                           /\ n.landed = landed'[q]
                                           /\ n.synced
                    /\ pc'[q] # "received" => directory' = "durable"
  BY DEF ReceiptsAreDurable, At, Path
<1>2. CASE /\ pc[q] \in HasReceipt
           /\ pc'[q] # "received" => directory = "durable"
           /\ artifact'[q] = artifact[q] /\ landed'[q] = landed[q]
  <2>1. PICK o \in objects : /\ Path(o) = PathOf(q) /\ o.content = artifact[q]
                             /\ o.landed = landed[q] /\ o.synced
    BY <1>1, <1>2 DEF ReceiptsAreDurable, At
  <2>2. PathOf(q)' = PathOf(q)
    BY <1>2 DEF PathOf
  <2>3. o \in objects'
    BY <1>1, <2>1, SyncedStay
  <2> QED
    BY <1>2, <2>1, <2>2, <2>3, DurableStays
<1>3. ASSUME NEW f \in Files, Extract(f)
      PROVE  pc'[q] = pc[q] /\ artifact'[q] = artifact[q] /\ landed'[q] = landed[q]
  BY <1>3 DEF Extract, executionVars
<1>4. ASSUME NEW p \in Ingestors, p # q, Start(p) \/ Work(p) \/ Fail(p)
      PROVE  pc'[q] = pc[q] /\ artifact'[q] = artifact[q] /\ landed'[q] = landed[q]
  BY <1>1, <1>4, OthersUntouched
<1>5. CASE pc'[q] = pc[q] /\ artifact'[q] = artifact[q] /\ landed'[q] = landed[q]
  BY <1>1, <1>2, <1>5 DEF ReceiptsAreDurable
<1>6. CASE SyncObject(q)
  <2>1. PICK o \in At(PathOf(q)) : Receive(q, o)
    BY <1>1, <1>6 DEF SyncObject, End, HasReceipt, HasObject, TypeOK
  <2>2. /\ o \in objects /\ o \in Objects /\ Path(o) = PathOf(q)
        /\ artifact' = artifact /\ landed'[q] = o.landed /\ pc'[q] = "received"
    BY <1>1, <2>1 DEF At, Receive, TypeOK
  <2>3. \A l \in objects : Path(l) = PathOf(q) => l = o
    BY <1>1, <2>2 DEF OnePerPath
  <2>4. o.content = artifact[q]
    BY <1>1, <1>6, <2>3 DEF ReceiptsAreTrue, SyncObject, HasObject, At
  <2> DEFINE n == [o EXCEPT !.synced = TRUE]
  <2>5. n \in objects'
    BY <1>6, <2>2 DEF SyncObject, SyncDirectory
  <2>6. Path(n) = Path(o) /\ n.content = o.content /\ n.landed = o.landed /\ n.synced
    BY <2>2, SyncedEntry DEF Objects
  <2>7. PathOf(q)' = PathOf(q)
    BY <2>2 DEF PathOf
  <2> HIDE DEF n
  <2> QED
    BY <2>2, <2>4, <2>5, <2>6, <2>7
<1>7. CASE VerifyExisting(q)
  <2>1. PICK o \in At(PathOf(q)) : o.content = artifact[q] /\ Receive(q, o)
    BY <1>7 DEF VerifyExisting
  <2>2. /\ o \in objects /\ objects' = objects /\ artifact' = artifact
        /\ Path(o) = PathOf(q) /\ landed'[q] = o.landed /\ pc'[q] = "received"
    BY <1>1, <1>7, <2>1 DEF VerifyExisting, Receive, At, TypeOK, landingVars
  <2>3. PathOf(q)' = PathOf(q)
    BY <2>2 DEF PathOf
  <2>4. PICK n \in At(PathOf(q)) : n.synced
    BY <1>7 DEF AdoptsUnsynced, Careful
  <2>5. n = o
    BY <1>1, <2>2, <2>4 DEF OnePerPath, At
  <2> QED
    BY <2>1, <2>2, <2>3, <2>4, <2>5
<1>8. CASE InsertManifest(q)
  <2>1. directory = "durable"
    BY <1>1, <1>8 DEF Careful, RegistersInNewDirectory, PartitionExists, HasPartition,
                      InsertManifest, Go, TypeOK, Directories
  <2> QED
    BY <1>2, <1>8, <2>1 DEF InsertManifest, Go, HasReceipt, HasObject
<1>9. CASE CommitRegistration(q)
  <2>1. directory = "durable" /\ pc[q] \in HasReceipt
    BY <1>1, <1>9 DEF ReceiptsAreDurable, CommitRegistration, Go, HasReceipt, HasObject
  <2> QED
    BY <1>2, <1>9, <2>1 DEF CommitRegistration
<1>10. CASE \/ Start(q) \/ Inspect(q) \/ FindNoManifest(q) \/ FindManifest(q)
            \/ LookAtPath(q) \/ CopySource(q) \/ CopyDiffers(q) \/ LinkObject(q)
            \/ LinkExists(q) \/ RejectExisting(q) \/ RefuseManifest(q) \/ FindWinner(q)
            \/ Report(q) \/ Fail(q)
  <2>1. pc'[q] \notin HasReceipt
    BY <1>1, <1>10 DEF TypeOK, Start, Inspect, FindNoManifest, FindManifest, LookAtPath,
          CopySource, WriteCopy, CopyDiffers, LinkObject, LinkExists, RejectExisting,
          RefuseManifest, FindWinner, Report, Fail, Go, End, HasReceipt, HasObject
  <2> QED
    BY <2>1
<1> QED
  BY <1>3, <1>4, <1>5, <1>6, <1>7, <1>8, <1>9, <1>10 DEF Next, Work

LEMMA DurableManifestsStep ==
    ASSUME DurableInv, Next
    PROVE  ManifestsAreDurable'
<1>1. TypeOK /\ OpenTransactions /\ ReceiptsAreDurable /\ ManifestsAreDurable
  BY DEF DurableInv, CoreInv
<1> SUFFICES ASSUME NEW m \in manifests'
             PROVE  directory' = "durable" /\ \E n \in objects' : Durable(m, n)
  BY DEF ManifestsAreDurable, Durable, Path
<1>2. SUFFICES directory = "durable" /\ \E o \in objects : Durable(m, o)
  BY <1>1, SyncedStay, DurableStays DEF Durable
<1>3. CASE m \in manifests
  BY <1>1, <1>3 DEF ManifestsAreDurable
<1>4. ASSUME NEW p \in Ingestors, CommitRegistration(p), m \notin manifests
      PROVE  directory = "durable" /\ \E o \in objects : Durable(m, o)
  <2>1. PICK b \in Batches : m = Candidate(p, b)
    BY <1>1, <1>4 DEF OpenTransactions, CommitRegistration, Go, Registry!Commit
  <2>2. pc[p] \in HasReceipt /\ pc[p] # "received"
    BY <1>4 DEF CommitRegistration, Go, HasReceipt, HasObject
  <2> QED
    BY <1>1, <2>1, <2>2, CandidateType DEF ReceiptsAreDurable, At, Durable
<1> QED
  BY <1>1, <1>3, <1>4, ManifestsGrow

(* A power loss spares what is on the disk, and no execution goes on. *)
LEMMA PowerLossKeepsDurable == DurableInv /\ PowerLoss => DurableInv'
<1> SUFFICES ASSUME DurableInv, PowerLoss PROVE DurableInv'
  OBVIOUS
<1>1. manifests' = manifests /\ pc' = [p \in Ingestors |-> "idle"]
  BY DEF PowerLoss
<1>2. CoreInv'
  BY PowerLossKeepsCore DEF DurableInv
<1>3. ReceiptsAreDurable'
  BY <1>1 DEF ReceiptsAreDurable, HasReceipt, HasObject
<1>4. ManifestsAreDurable'
  <2> SUFFICES ASSUME NEW m \in manifests
               PROVE  directory' = "durable" /\ \E n \in objects' : Durable(m, n)
    BY <1>1 DEF ManifestsAreDurable, Durable, Path
  <2>1. PICK o \in objects : directory = "durable" /\ Durable(m, o)
    BY DEF DurableInv, ManifestsAreDurable
  <2>2. directory' = "durable" /\ [o EXCEPT !.synced = TRUE] \in objects'
    BY <2>1 DEF PowerLoss, LoseUnsynced, LoseDirectory, LoseEntries, Durable
  <2>3. [o EXCEPT !.synced = TRUE] = o
    BY <2>1 DEF DurableInv, CoreInv, TypeOK, Objects, Durable
  <2> QED
    BY <2>1, <2>2, <2>3
<1> QED
  BY <1>2, <1>3, <1>4 DEF DurableInv

(* A registered batch can lose its bytes in two ways only: its object was  *)
(* adopted before its entry was synchronized, or it lies in a new          *)
(* partition, which is never synchronized.  Where neither happens, every   *)
(* manifest keeps its object through any number of power losses.           *)
THEOREM LossHasTwoCauses == CarefulSpec => []ManifestsMatchObjects
<1>1. Init => DurableInv
  BY InvInit DEF IngestInv, DurableInv, Init, Registry!InitRegistry, ReceiptsAreDurable,
                 HasReceipt, HasObject, ManifestsAreDurable
<1>2. DurableInv /\ [(Next \/ PowerLoss) /\ Careful]_vars => DurableInv'
  <2>1. ASSUME DurableInv, Next, Careful
        PROVE  DurableInv'
    BY <2>1, CoreStep, DurableReceiptsStep, DurableManifestsStep DEF DurableInv
  <2>2. ASSUME DurableInv, UNCHANGED vars
        PROVE  DurableInv'
    <3>1. CoreInv'
      BY <2>2, CoreStep DEF DurableInv
    <3>2. ReceiptsAreDurable' /\ ManifestsAreDurable'
      BY <2>2 DEF DurableInv, ReceiptsAreDurable, ManifestsAreDurable, vars, landingVars,
                  registryVars, executionVars, At, Path, PathOf, Durable
    <3> QED
      BY <3>1, <3>2 DEF DurableInv
  <2> QED
    BY <2>1, <2>2, PowerLossKeepsDurable
<1>3. DurableInv => ManifestsMatchObjects
  BY DEF DurableInv, ManifestsAreDurable, ManifestsMatchObjects, Durable
<1> QED
  BY <1>1, <1>2, <1>3, PTL DEF CarefulSpec
=============================================================================
