----------------------------- MODULE SessionFile -----------------------------
(***************************************************************************)
(* session::file: `save` seals a document, truncates the file, writes the  *)
(* document and syncs it; `load` reads exactly one document, looks for a   *)
(* trailing byte and opens what it read.  Several threads or processes may *)
(* be in either at once, since neither takes a lock, every system call may *)
(* fail, and the machine may crash between any two of them.                *)
(*                                                                         *)
(* A document is Blocks pieces that carry its number; the tag over all of  *)
(* it is "every piece carries the same number".  Number 0 is a hole.       *)
(*                                                                         *)
(* The file system (external) keeps what was written in memory until it is *)
(* synced.  A crash leaves of an unsynced file any length, and in every    *)
(* place a hole, what was last synced, or what was written since.          *)
(***************************************************************************)
EXTENDS Integers, Sequences, FiniteSets

CONSTANTS
    Savers,         \* threads that save
    Blocks,         \* pieces of a document (SESSION_DOCUMENT_BYTES bytes)
    MaxDocuments,   \* bound: documents sealed
    MaxCrashes,     \* bound: crashes
    MaxLoads        \* bound: loads

ASSUME BoundsAssumption ==
    /\ Blocks \in Nat \ {0}
    /\ MaxDocuments \in Nat \ {0} /\ MaxCrashes \in Nat /\ MaxLoads \in Nat

VARIABLES
    \* the file system
    exists,         \* the directory has an entry for the path
    linked,         \* that entry would survive a crash
    file,           \* the content a reader sees: a sequence of numbers
    disk,           \* the content when it was last synced
    unsynced,       \* documents written to since
    \* the processes
    saver,          \* saver -> [at, doc, offset]
    loader,         \* [at, blocks]
    documents,      \* how many documents were sealed
    crashes, loads,
    \* history
    latest,         \* the document whose save returned Ok while no other save
                    \* overlapped it and none has opened the file since, or 0
    alone,          \* the save that opened the file last met no other, or 0
    expected,       \* `latest` through the whole of the current load, or 0
    apart,          \* no two saves were at the file at once during the load
    wholes,         \* documents the file held whole at some moment of the load
    loaded          \* the document the last load returned, 0 on error

fileSystem == <<exists, linked, file, disk, unsynced>>
bounds == <<documents, crashes, loads>>
history == <<latest, alone, expected, apart, wholes, loaded>>
fileVars == <<fileSystem, saver, loader, bounds, history>>

Idle == [at |-> "idle", doc |-> 0, offset |-> 0]
Resting == [at |-> "idle", blocks |-> <<>>]
Whole(doc) == [i \in 1 .. Blocks |-> doc]
Saving(p) == saver[p].at \in {"writing", "syncing"}
Holds(content, doc) ==
    Len(content) >= Blocks /\ \A i \in 1 .. Blocks : content[i] = doc

-----------------------------------------------------------------------------
(* There is no file, a document an earlier run saved, or a longer file.    *)
FileInit ==
    /\ exists \in BOOLEAN /\ linked = exists
    /\ file \in IF exists THEN {Whole(1), Whole(1) \o <<0>>} ELSE {<<>>}
    /\ disk = file /\ unsynced = {}
    /\ saver = [p \in Savers |-> Idle]
    /\ loader = Resting
    /\ documents = 1 /\ crashes = 0 /\ loads = 0
    /\ latest = 0 /\ alone = 0 /\ expected = 0
    /\ apart = TRUE /\ wholes = {} /\ loaded = 0

-----------------------------------------------------------------------------
(* seal: a fresh salt makes every document a new one.  When it fails, the  *)
(* file was not touched.                                                   *)
FileSeal(p) ==
    /\ saver[p].at = "idle" /\ documents < MaxDocuments
    /\ documents' = documents + 1
    /\ \E at \in {"sealed", "idle"} :
          saver' = [saver EXCEPT ![p] =
              [at |-> at, doc |-> IF at = "idle" THEN 0 ELSE documents + 1,
               offset |-> 0]]
    /\ UNCHANGED <<fileSystem, loader, crashes, loads, history>>

(* Mutant: the file is opened without truncating it.                       *)
CreateUntruncated(p) ==
    /\ saver[p].at = "sealed"
    /\ exists' = TRUE
    /\ saver' = [saver EXCEPT ![p].at = "writing"]
    /\ alone' = IF \E q \in Savers : Saving(q) THEN 0 ELSE saver[p].doc
    /\ latest' = 0 /\ expected' = 0
    /\ apart' = (apart /\ (loader.at = "reading" => \A q \in Savers : ~Saving(q)))
    /\ UNCHANGED <<linked, file, disk, unsynced, loader, bounds, wholes, loaded>>

(* File::create: a new entry, or the old content gone.                     *)
Create(p) ==
    /\ saver[p].at = "sealed"
    /\ exists' = TRUE
    /\ file' = <<>>
    /\ saver' = [saver EXCEPT ![p].at = "writing"]
    /\ alone' = IF \E q \in Savers : Saving(q) THEN 0 ELSE saver[p].doc
    /\ latest' = 0 /\ expected' = 0
    /\ apart' = (apart /\ (loader.at = "reading" => \A q \in Savers : ~Saving(q)))
    /\ UNCHANGED <<linked, disk, unsynced, loader, bounds, wholes, loaded>>

(* One of the writes of write_all, at this saver's own offset.             *)
Write(p) ==
    LET at == saver[p].offset + 1
    IN  /\ saver[p].at = "writing"
        /\ file' = [i \in 1 .. IF Len(file) < at THEN at ELSE Len(file) |->
                       IF i = at THEN saver[p].doc
                       ELSE IF i <= Len(file) THEN file[i] ELSE 0]
        /\ unsynced' = unsynced \cup {saver[p].doc}
        /\ saver' = [saver EXCEPT ![p].offset = at,
                                  ![p].at = IF at = Blocks THEN "syncing" ELSE @]
        /\ wholes' = IF loader.at = "reading"
                     THEN wholes \cup {d \in 1 .. documents : Holds(file', d)}
                     ELSE wholes
        /\ UNCHANGED <<exists, linked, disk, loader, bounds,
                       latest, alone, expected, apart, loaded>>

(* Mutant: the save returns without syncing.                               *)
SyncSkipped(p) ==
    /\ saver[p].at = "syncing"
    /\ saver' = [saver EXCEPT ![p] = Idle]
    /\ latest' = IF alone = saver[p].doc THEN alone ELSE latest
    /\ UNCHANGED <<fileSystem, loader, bounds, alone, expected, apart, wholes, loaded>>

(* sync_all, and Ok.                                                       *)
Sync(p) ==
    /\ saver[p].at = "syncing"
    /\ disk' = file /\ unsynced' = {}
    /\ saver' = [saver EXCEPT ![p] = Idle]
    /\ latest' = IF alone = saver[p].doc THEN alone ELSE latest
    /\ UNCHANGED <<exists, linked, file, loader, bounds,
                   alone, expected, apart, wholes, loaded>>

(* create, write_all or sync_all fails, and so does the save.              *)
SaveFails(p) ==
    /\ saver[p].at \in {"sealed", "writing", "syncing"}
    /\ saver' = [saver EXCEPT ![p] = Idle]
    /\ UNCHANGED <<fileSystem, loader, bounds, history>>

-----------------------------------------------------------------------------
(* File::open succeeds.                                                    *)
LoadOpen ==
    /\ loader.at = "idle" /\ loads < MaxLoads
    /\ loads' = loads + 1
    /\ exists
    /\ loader' = [at |-> "reading", blocks |-> <<>>]
    /\ expected' = latest /\ loaded' = 0
    /\ apart' = (\A p, q \in Savers : Saving(p) /\ Saving(q) => p = q)
    /\ wholes' = {d \in 1 .. documents : Holds(file, d)}
    /\ UNCHANGED <<fileSystem, saver, documents, crashes, latest, alone>>

(* One of the reads of read_exact.                                         *)
LoadRead ==
    LET at == Len(loader.blocks) + 1
    IN  /\ loader.at = "reading" /\ at <= Blocks /\ at <= Len(file)
        /\ loader' = [loader EXCEPT !.blocks = Append(@, file[at])]
        /\ UNCHANGED <<fileSystem, saver, bounds, history>>

FileAuthentic(blocks) == blocks[1] # 0 /\ blocks = Whole(blocks[1])

(* Mutant: the tag is not compared.                                        *)
LoadEndUnauthenticated ==
    LET blocks == loader.blocks
    IN  /\ loader.at = "reading"
        /\ Len(blocks) = Blocks \/ Len(blocks) >= Len(file)
        /\ loaded' = IF Len(blocks) = Blocks /\ Len(file) <= Blocks
                     THEN blocks[1] ELSE 0
        /\ loader' = Resting
        /\ UNCHANGED <<fileSystem, saver, bounds,
                       latest, alone, expected, apart, wholes>>

(* The file ended early, or a byte follows the document, or `open` decides.*)
LoadEnd ==
    LET blocks == loader.blocks
    IN  /\ loader.at = "reading"
        /\ Len(blocks) = Blocks \/ Len(blocks) >= Len(file)
        /\ loaded' = IF /\ Len(blocks) = Blocks /\ Len(file) <= Blocks
                        /\ FileAuthentic(blocks)
                     THEN blocks[1] ELSE 0
        /\ loader' = Resting
        /\ UNCHANGED <<fileSystem, saver, bounds,
                       latest, alone, expected, apart, wholes>>

(* File::open, a read or the look behind the document fails.               *)
LoadFails ==
    /\ \/ loader.at = "reading" /\ UNCHANGED loads
       \/ loader.at = "idle" /\ loads < MaxLoads /\ loads' = loads + 1
    /\ loader' = Resting
    /\ loaded' = 0 /\ expected' = 0
    /\ UNCHANGED <<fileSystem, saver, documents, crashes,
                   latest, alone, apart, wholes>>

-----------------------------------------------------------------------------
(* The file system writes the directory back when it likes: sync_all on    *)
(* the file does not ask for it.                                           *)
LinkWritten ==
    /\ exists /\ ~linked
    /\ linked' = TRUE
    /\ UNCHANGED <<exists, file, disk, unsynced, saver, loader, bounds, history>>

AfterCrash ==
    IF file = disk /\ unsynced = {} THEN {file}
    ELSE LET Places == 1 .. IF Len(file) < Len(disk) THEN Len(disk) ELSE Len(file)
             At(i) == {0} \cup unsynced
                          \cup (IF i <= Len(disk) THEN {disk[i]} ELSE {})
         IN  UNION {{f \in [1 .. n -> {0} \cup 1 .. documents] :
                        \A i \in 1 .. n : f[i] \in At(i)} : n \in {0} \cup Places}

Crash ==
    /\ crashes < MaxCrashes
    /\ crashes' = crashes + 1
    /\ exists' = linked
    /\ file' \in IF linked THEN AfterCrash ELSE {<<>>}
    /\ disk' = file' /\ unsynced' = {}
    /\ saver' = [p \in Savers |-> Idle]
    /\ loader' = Resting
    /\ expected' = 0
    /\ latest' = IF linked THEN latest ELSE 0
    /\ UNCHANGED <<linked, documents, loads, alone, apart, wholes, loaded>>

FileNext ==
    \/ \E p \in Savers : FileSeal(p) \/ Create(p) \/ Write(p) \/ Sync(p) \/ SaveFails(p)
    \/ LoadOpen \/ LoadRead \/ LoadEnd \/ LoadFails
    \/ LinkWritten \/ Crash

FileSpec == FileInit /\ [][FileNext]_fileVars

-----------------------------------------------------------------------------
Documents == 0 .. MaxDocuments

TypeOK ==
    /\ exists \in BOOLEAN /\ linked \in BOOLEAN /\ (linked => exists)
    /\ file \in Seq(Documents) /\ disk \in Seq(Documents)
    /\ unsynced \subseteq 1 .. documents
    /\ saver \in [Savers -> [at : {"idle", "sealed", "writing", "syncing"},
                             doc : 0 .. documents, offset : 0 .. Blocks]]
    /\ loader \in [at : {"idle", "reading"}, blocks : Seq(Documents)]
    /\ Len(loader.blocks) <= Blocks
    /\ {latest, alone, expected} \subseteq 0 .. documents
    /\ loaded \in Documents /\ apart \in BOOLEAN /\ wholes \subseteq 1 .. documents
    /\ documents \in 1 .. MaxDocuments
    /\ crashes \in 0 .. MaxCrashes /\ loads \in 0 .. MaxLoads

(* What a save that no other save overlapped reported as saved stays in    *)
(* the file and on the disk until the next save opens the file: crashes,   *)
(* saves that fail before they open it, and loads leave it alone.          *)
SavedSurvives ==
    latest # 0 => /\ file = Whole(latest) /\ disk = Whole(latest)
                  /\ unsynced = {}

(* A load reads in several calls while saves truncate and rewrite the file *)
(* under it.  As long as the saves do not overlap one another, what it     *)
(* returns is nevertheless a document the file held whole at one moment of *)
(* the load, never one that some save left cut short.                      *)
LoadIsAtomic == loaded # 0 /\ apart => loaded \in wholes

(* A load during which the file was not opened by a save, and before which *)
(* the last save had it for itself, succeeds with that save's document.    *)
LoadsWhatWasSaved == expected # 0 /\ loader.at = "idle" => loaded = expected
==============================================================================
