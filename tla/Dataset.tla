------------------------------- MODULE Dataset -------------------------------
(***************************************************************************)
(* Where the user's data is, and that it is whole: the pointer to the data  *)
(* directory (app local_config.rs), opening and upgrading the database      *)
(* (storage lib.rs), moving it elsewhere (relocation.rs), replacing it by a *)
(* backup (portable.rs), and the recovery window with what it can build     *)
(* (storage recovery.rs, app recovery.rs).  Each is a series of writes to   *)
(* several files, and the core may stop, or the power fail, between any two.*)
(*                                                                          *)
(* A database is its schema and whose data it holds; the pictures of some   *)
(* data are its day containers.  Wrong passwords, checksums and the checks  *)
(* of a chosen path only refuse to begin, so they are left out.             *)
(***************************************************************************)
EXTENDS Integers, FiniteSets

CONSTANTS
  Directories,  \* places the user may choose
  Home,         \* the one used first
  NoFile,       \* a file that is not there
  Torn,         \* a file written in part
  MaxStops,     \* bounds how often the core stops where it stands
  MaxJobs       \* bounds moves, restores and recoveries

ASSUME HomeIsADirectory == Home \in Directories

Latest == 2
Contents == {"mine", "backup", "recovered", "empty"}
Database == [schema: 1..Latest, of: Contents]
Pieces == {"database", "key", "pictures"}

ASSUME FilesAreTold == Database \cap {NoFile, Torn} = {} /\ NoFile # Torn

VARIABLES
  files,       \* what each directory holds
  pointer,     \* the directory the location file names
  stage,       \* what the core is doing
  target,      \* the directory it fills
  afterwards,  \* what follows when a backup has been put back
  unsynced,    \* whether a commit may still be lost with the power
  userHas,     \* whose data the user has: what the last thing confirmed left
  halts, jobs

datasetVars == <<files, pointer, stage, target, afterwards, unsynced, userHas, halts, jobs>>

EmptyDirectory ==
  [database |-> NoFile, safety |-> NoFile, key |-> FALSE, pictures |-> {}, litter |-> FALSE]

Stages == {"off", "check", "put back", "putting back", "put", "open", "copy", "copying",
           "migrate", "clean", "opened", "run", "refused", "candidate", "staging", "adopt",
           "publish", "remove old", "commit", "reconcile"}

DatasetTypeOK ==
  /\ files \in [Directories ->
       [database: Database \cup {NoFile, Torn}, safety: Database \cup {NoFile, Torn},
        key: BOOLEAN, pictures: SUBSET Contents, litter: BOOLEAN]]
  /\ pointer \in Directories /\ target \in Directories
  /\ stage \in Stages /\ afterwards \in {"open", "refused"}
  /\ unsynced \in BOOLEAN /\ userHas \in Contents

DatasetInit ==
  /\ \E schema \in 1..Latest :
       files = [d \in Directories |->
                 IF d = Home THEN [database |-> [schema |-> schema, of |-> "mine"],
                                   safety |-> NoFile, key |-> TRUE,
                                   pictures |-> {"mine"}, litter |-> FALSE]
                 ELSE EmptyDirectory]
  /\ pointer = Home /\ target = Home /\ stage = "off" /\ afterwards = "open"
  /\ unsynced = FALSE /\ userHas = "mine" /\ halts = 0 /\ jobs = 0

Here == files[pointer]
Readable(file) == file \notin {NoFile, Torn}
Goes(s) == stage' = s
Set(d, changed) == files' = [files EXCEPT ![d] = changed]
counters == <<halts, jobs>>

-----------------------------------------------------------------------------
(* Opening, with the upgrade of an old database. *)

Start ==
  /\ stage = "off" /\ Goes("check")
  /\ UNCHANGED <<files, pointer, target, afterwards, unsynced, userHas, counters>>

\* As SafetyCopySuperseded, by a bug: any readable copy goes.
SafetyCopyGoes(f) == Readable(f.safety)

\* What an upgrade left is compared with the database (recover_interrupted_migration).
SafetyCopySuperseded(f) ==
  Readable(f.safety) /\ Readable(f.database) /\ f.database.schema >= f.safety.schema

CheckSafetyCopy ==
  /\ stage = "check"
  /\ \/ Here.safety = NoFile /\ Goes("open") /\ UNCHANGED <<files, afterwards>>
     \/ /\ SafetyCopySuperseded(Here)
        /\ Set(pointer, [Here EXCEPT !.safety = NoFile])
        /\ Goes("open") /\ UNCHANGED afterwards
     \/ /\ Here.safety = Torn /\ Here.database # NoFile
        /\ Goes("refused") /\ UNCHANGED <<files, afterwards>>
     \/ /\ Here.safety # NoFile /\ ~SafetyCopySuperseded(Here)
        /\ ~(Here.safety = Torn /\ Here.database # NoFile)
        /\ Goes("put back") /\ afterwards' = "open" /\ UNCHANGED files
  /\ UNCHANGED <<pointer, target, unsynced, userHas, counters>>

\* restore_backup: the log goes, the database is written over, the copy goes.
PutBackBegins ==
  /\ stage = "put back" /\ Goes("putting back")
  /\ Set(pointer, [Here EXCEPT !.database = Torn]) /\ unsynced' = FALSE
  /\ UNCHANGED <<pointer, target, afterwards, userHas, counters>>

PutBackEnds ==
  /\ stage = "putting back" /\ Goes("put")
  /\ Set(pointer, [Here EXCEPT !.database = Here.safety])
  /\ UNCHANGED <<pointer, target, afterwards, unsynced, userHas, counters>>

PutBackIsDone ==
  /\ stage = "put" /\ Goes(afterwards)
  /\ Set(pointer, [Here EXCEPT !.safety = NoFile])
  /\ UNCHANGED <<pointer, target, afterwards, unsynced, userHas, counters>>

\* Storage::open: a database without its key is refused, a damaged one too, and
\* an empty directory gets a new one.  An upgrade may need the user's consent.
OpenDatabase ==
  /\ stage = "open"
  /\ \/ /\ Here.database = NoFile
        /\ Set(pointer, [Here EXCEPT !.key = TRUE,
                                     !.database = [schema |-> Latest, of |-> "empty"]])
        /\ Goes("opened")
     \/ /\ Here.database # NoFile /\ UNCHANGED files
        /\ IF ~Here.key \/ Here.database = Torn THEN Goes("refused")
           ELSE IF Here.database.schema = Latest THEN Goes("opened")
           ELSE Goes("copy")
  /\ UNCHANGED <<pointer, target, afterwards, unsynced, userHas, counters>>

ConsentIsRefused ==
  /\ stage = "copy" /\ Goes("off")
  /\ UNCHANGED <<files, pointer, target, afterwards, unsynced, userHas, counters>>

\* migrate_database copies the database first, in place (copy_and_sync).
CopyBegins ==
  /\ stage = "copy" /\ Goes("copying")
  /\ Set(pointer, [Here EXCEPT !.safety = Torn])
  /\ UNCHANGED <<pointer, target, afterwards, unsynced, userHas, counters>>

CopyEnds ==
  /\ stage = "copying"
  /\ \/ Goes("migrate") /\ Set(pointer, [Here EXCEPT !.safety = Here.database])
     \/ Goes("refused") /\ UNCHANGED files                 \* the disk is full
  /\ UNCHANGED <<pointer, target, afterwards, unsynced, userHas, counters>>

Migrate ==
  /\ stage = "migrate"
  /\ \/ /\ Goes("clean") /\ unsynced' = TRUE /\ UNCHANGED afterwards
        /\ Set(pointer, [Here EXCEPT !.database.schema = Latest])
     \/ /\ Goes("put back") /\ afterwards' = "refused" /\ UNCHANGED <<files, unsynced>>
  /\ UNCHANGED <<pointer, target, userHas, counters>>

RemoveSafetyCopy ==
  /\ stage = "clean" /\ Goes("opened")
  /\ Set(pointer, [Here EXCEPT !.safety = NoFile])
  /\ UNCHANGED <<pointer, target, afterwards, unsynced, userHas, counters>>

\* reconcile_snapshot_files: containers no row names are removed.
Reconciled(f) == [f EXCEPT !.pictures = @ \cap {f.database.of}]

Opened ==
  /\ stage = "opened" /\ Goes("run")
  /\ Set(pointer, Reconciled(Here))
  /\ UNCHANGED <<pointer, target, afterwards, unsynced, userHas, counters>>

\* The core's checkpoints put earlier commits into the database.
Checkpoint ==
  /\ stage = "run" /\ unsynced /\ unsynced' = FALSE
  /\ UNCHANGED <<files, pointer, stage, target, afterwards, userHas, counters>>

-----------------------------------------------------------------------------
(* Moving the data (Storage::relocate). *)

BeginJob == jobs < MaxJobs /\ jobs' = jobs + 1

\* The copy is made in a folder of its own within the destination and verified.
BeginMove(d) ==
  /\ stage = "run" /\ d # pointer /\ files[d] = EmptyDirectory /\ BeginJob
  /\ Goes("staging") /\ target' = d /\ unsynced' = FALSE
  /\ Set(d, [files[d] EXCEPT !.litter = TRUE])
  /\ UNCHANGED <<pointer, afterwards, userHas, halts>>

StageIsDone ==
  /\ stage = "staging"
  /\ \/ Goes("adopt") /\ UNCHANGED files
     \/ Goes("run") /\ Set(target, EmptyDirectory)
  /\ UNCHANGED <<pointer, target, afterwards, unsynced, userHas, counters>>

With(f, piece, g) ==
  CASE piece = "database" -> [f EXCEPT !.database = g.database]
    [] piece = "key"      -> [f EXCEPT !.key = g.key]
    [] piece = "pictures" -> [f EXCEPT !.pictures = g.pictures]
Has(f, piece) ==
  CASE piece = "database" -> f.database # NoFile
    [] piece = "key"      -> f.key
    [] piece = "pictures" -> f.pictures # {}
Missing(d) == {p \in Pieces : Has(Here, p) /\ ~Has(files[d], p)}

\* adopt_stage: one piece after the other is moved out of the stage.
AdoptOne(piece) ==
  /\ stage = "adopt" /\ piece \in Missing(target)
  /\ Set(target, With(files[target], piece, Here))
  /\ UNCHANGED <<pointer, stage, target, afterwards, unsynced, userHas, counters>>

AdoptFails ==
  /\ stage = "adopt" /\ Missing(target) # {}
  /\ Goes("run") /\ Set(target, EmptyDirectory)
  /\ UNCHANGED <<pointer, target, afterwards, unsynced, userHas, counters>>

AdoptIsDone ==
  /\ stage = "adopt" /\ Missing(target) = {}
  /\ Goes("publish")
  /\ UNCHANGED <<files, pointer, target, afterwards, unsynced, userHas, counters>>

\* local_config::publish replaces the location file in one step.  When that
\* fails the data stays where it was, and the copy stays too.
PublishPointer ==
  /\ stage = "publish"
  /\ \/ /\ Goes("remove old") /\ pointer' = target /\ target' = pointer
        /\ UNCHANGED files
     \/ /\ Goes("run") /\ UNCHANGED <<pointer, target>>
        /\ Set(target, [files[target] EXCEPT !.litter = FALSE])
  /\ UNCHANGED <<afterwards, unsynced, userHas, counters>>

\* The files of the old place go one by one; one that cannot be removed stays.
RemoveOld(piece) ==
  /\ stage = "remove old" /\ Has(files[target], piece)
  /\ Set(target, With(files[target], piece, EmptyDirectory))
  /\ UNCHANGED <<pointer, stage, target, afterwards, unsynced, userHas, counters>>

RemoveOldIsDone ==
  /\ stage = "remove old" /\ Goes("run")
  /\ Set(pointer, [Here EXCEPT !.litter = FALSE])
  /\ UNCHANGED <<pointer, target, afterwards, unsynced, userHas, counters>>

-----------------------------------------------------------------------------
(* Replacing the data by a backup (Storage::replace_from_backup). *)

InstallPictures ==
  /\ stage = "run" /\ BeginJob
  /\ \/ Goes("commit") /\ Set(pointer, [Here EXCEPT !.pictures = @ \cup {"backup"}])
     \/ Goes("reconcile") /\ UNCHANGED files
  /\ UNCHANGED <<pointer, target, afterwards, unsynced, userHas, halts>>

\* Every table is replaced in one transaction, synced in full.
CommitBackup ==
  /\ stage = "commit" /\ Goes("reconcile")
  /\ \/ /\ Set(pointer, [Here EXCEPT !.database.of = "backup"]) /\ userHas' = "backup"
        /\ unsynced' = FALSE
     \/ UNCHANGED <<files, userHas, unsynced>>
  /\ UNCHANGED <<pointer, target, afterwards, counters>>

Reconcile ==
  /\ stage = "reconcile" /\ Goes("run")
  /\ Set(pointer, Reconciled(Here))
  /\ UNCHANGED <<pointer, target, afterwards, unsynced, userHas, counters>>

-----------------------------------------------------------------------------
(* The recovery window. *)

Retry ==
  /\ stage \in {"refused", "candidate"} /\ Goes("check")
  /\ UNCHANGED <<files, pointer, target, afterwards, unsynced, userHas, counters>>

\* What is put together has a key of its own and only pictures that were verified.
Candidate(content) ==
  [EmptyDirectory EXCEPT !.key = TRUE, !.pictures = {content},
                         !.database = [schema |-> Latest, of |-> content]]

\* A data set is built in another, empty directory: from a backup, empty, or of
\* the rows that can still be read; building it may fail on the way.
BuildCandidate(d, content) ==
  /\ stage = "refused" /\ d # pointer /\ files[d] = EmptyDirectory /\ BeginJob
  /\ content \in Contents \ {"mine"}
  /\ \/ /\ Goes("candidate") /\ target' = d
        /\ Set(d, Candidate(content))
     \/ /\ UNCHANGED <<stage, target>>
        /\ Set(d, [EmptyDirectory EXCEPT !.key = TRUE, !.litter = TRUE])
  /\ UNCHANGED <<pointer, afterwards, unsynced, userHas, halts>>

AdoptCandidate ==
  /\ stage = "candidate" /\ Goes("run")
  /\ pointer' = target /\ userHas' = files[target].database.of /\ unsynced' = FALSE
  /\ UNCHANGED <<files, target, afterwards, counters>>

-----------------------------------------------------------------------------
\* The core ends wherever it stands; with the power, an unsynced upgrade goes
\* too, and the database is the old one again.
Halt ==
  /\ stage # "off" /\ halts < MaxStops
  /\ halts' = halts + 1 /\ Goes("off") /\ unsynced' = FALSE
  /\ \/ UNCHANGED files
     \/ /\ unsynced /\ Readable(Here.database)
        /\ Set(pointer, [Here EXCEPT !.database.schema = 1])
  /\ UNCHANGED <<pointer, target, afterwards, userHas, jobs>>

DatasetNext ==
  \/ Start \/ CheckSafetyCopy \/ PutBackBegins \/ PutBackEnds \/ PutBackIsDone
  \/ OpenDatabase \/ ConsentIsRefused \/ CopyBegins \/ CopyEnds \/ Migrate \/ RemoveSafetyCopy
  \/ Opened \/ Checkpoint
  \/ \E d \in Directories : BeginMove(d)
  \/ StageIsDone \/ AdoptFails \/ AdoptIsDone \/ PublishPointer \/ RemoveOldIsDone
  \/ \E piece \in Pieces : AdoptOne(piece) \/ RemoveOld(piece)
  \/ InstallPictures \/ CommitBackup \/ Reconcile
  \/ Retry \/ AdoptCandidate
  \/ \E d \in Directories, content \in Contents : BuildCandidate(d, content)
  \/ Halt

DatasetSpec == DatasetInit /\ [][DatasetNext]_datasetVars

-----------------------------------------------------------------------------
\* The data of f can be had again: its database is readable, or the copy an
\* upgrade made of it is.
Whole(f, content) ==
  /\ f.key
  /\ \/ Readable(f.database) /\ f.database.of = content
     \/ ~Readable(f.database) /\ Readable(f.safety) /\ f.safety.of = content
  /\ content \in f.pictures \/ content = "empty"

\* Wherever an upgrade, a move or a restore is cut off, the directory Timelens
\* will open next holds the data the user last had, with its key and all its
\* pictures (relocation.rs, portable.rs, migrate_database).
DatasetWhole == Whole(Here, userHas)

\* A database that can be read is opened: the recovery window comes only when
\* it cannot, or when an upgrade was rolled back in full.
ReadableIsOpened ==
  stage = "refused" => ~Readable(Here.database) \/ Here.safety = NoFile
=============================================================================
