---------------------------- MODULE LandingStore ----------------------------
(***************************************************************************)
(* The landing directory of LocalFilesystemLandingStore: objects that are  *)
(* published with a hard link to a verified temporary file and never       *)
(* overwritten.                                                            *)
(*                                                                         *)
(* An idempotency key stands for the content it is computed from.  All the *)
(* objects here share their source, dataset, date and schema version, so   *)
(* they differ in key and suffix only and lie in one directory, the        *)
(* partition of their date.                                                *)
(***************************************************************************)
EXTENDS Integers

CONSTANTS
    Contents,   \* the bytes a source file may hold
    Suffixes    \* the suffixes of source file names

VARIABLES
    directory,  \* the partition, together with the directories above it
    objects     \* its entries

(* A directory that was made is durable when its entry, and the entry of   *)
(* every directory above it that was made with it, is on the disk.         *)
Directories == {"absent", "created", "durable"}

(* landed is the modification time, synced whether the entry reached the   *)
(* disk.                                                                   *)
Objects == [key : Contents, suffix : Suffixes, content : Contents,
            landed : Int, synced : BOOLEAN]

(* The path of an object: build_landing_object_key(). *)
Path(o) == <<o.key, o.suffix>>

(* mkdir() with its parents, if they do not exist.  None of the            *)
(* directories above the partition is synchronized, now or later.          *)
MakeDirectory ==
    directory' = IF directory = "absent" THEN "created" ELSE directory

At(path) == {o \in objects : Path(o) = path}

Entry(path, content, written) ==
    [key |-> path[1], suffix |-> path[2], content |-> content,
     landed |-> written, synced |-> FALSE]

(* Mutant: the temporary file is renamed over whatever is there. *)
Rename(path, content, written) ==
    objects' = (objects \ At(path)) \cup {Entry(path, content, written)}

(* os.link(): the entry appears complete, with the bytes and modification  *)
(* time of the temporary file, where there was none.                       *)
Link(path, content, written) ==
    /\ At(path) = {}
    /\ objects' = objects \cup {Entry(path, content, written)}

(* _fsync_directory(): every entry of the partition reaches the disk, but  *)
(* not the partition's own entry.                                          *)
SyncDirectory == objects' = {[o EXCEPT !.synced = TRUE] : o \in objects}

(* After a power loss, a directory that was not durable may be gone with   *)
(* all that was in it ...                                                  *)
LoseDirectory ==
    /\ directory = "created"
    /\ directory' = "absent"
    /\ objects' = {}

(* ... or else entries that were not synced may be.  What is still there   *)
(* is on the disk.                                                         *)
LoseEntries ==
    /\ directory' = IF directory = "created" THEN "durable" ELSE directory
    /\ \E lost \in SUBSET {o \in objects : ~o.synced} :
          objects' = {[o EXCEPT !.synced = TRUE] : o \in objects \ lost}

LoseUnsynced == LoseDirectory \/ LoseEntries
=============================================================================
