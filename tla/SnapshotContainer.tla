------------------------- MODULE SnapshotContainer -------------------------
(***************************************************************************)
(* Snapshot pictures: one append-only container file per day, and index    *)
(* rows in SQLite that say which record of it, under which key, is which   *)
(* picture.  SQLite is the commit journal: a file is written and synced    *)
(* before the transaction that refers to it commits, and files are removed *)
(* after the transaction that stops referring to them.  Any step may be    *)
(* the last one before a crash.                                            *)
(*                                                                         *)
(* An older version kept one file per picture, the original; opening the   *)
(* storage copies originals into containers day by day and removes them    *)
(* when all are copied and verified.                                       *)
(*                                                                         *)
(* A snapshot has a picture and a day; equal pictures share a row of       *)
(* snapshot_blobs and one record per day.                                  *)
(***************************************************************************)
EXTENDS Naturals, Sequences, FiniteSets, FiniteSetsExt, SequencesExt

CONSTANTS Pics,      \* pictures
          Days,      \* calendar days, in order
          MaxSlots,  \* bound: snapshots
          Old,       \* bound: snapshots of the older version
          Files,     \* bound: container files at a time
          MaxErrors, \* bound: failing or rotting files
          FaultSets  \* which faults may happen together

\* The process or the machine stops; a reader keeps the log from being truncated; a file
\* or a commit fails; stored bytes rot or a file disappears.
Faults == {"crash", "busy", "io", "decay"}

ASSUME SnapshotConstants ==
  /\ IsFiniteSet(Pics)
  /\ Days \subseteq Nat \ {0} /\ IsFiniteSet(Days)
  /\ Files \subseteq Nat \ {0} /\ IsFiniteSet(Files)
  /\ MaxSlots \in Nat
  /\ Old \in 0..MaxSlots
  /\ MaxErrors \in Nat
  /\ FaultSets \subseteq SUBSET Faults

VARIABLES
  may,      \* the faults of this behaviour
  errors,   \* how many files have failed or rotted
  pc,       \* where the storage is in an operation
  job,      \* that operation
  db,       \* the database, as last committed
  wal,      \* keys that are gone from the index but not yet from the log
  files,    \* the container files
  originals,\* the files of the older version
  settled,  \* snapshot_files_settled
  complete, \* history: the last opening got to its end
  next,     \* the next snapshot
  told      \* history: pictures whose last snapshot was reported as deleted

session == <<settled, complete>>
stored == <<db, wal, files, originals>>
faults == <<may, errors>>
vars == <<faults, pc, job, stored, session, next, told>>

Shot == [slot : 1..MaxSlots, pic : Pics, day : Days]
Key == 0..(2 * Cardinality(Pics) * (Cardinality(Days) + Cardinality(Files)))
Rec == [pic : Pics, key : Key]
\* Bytes that no key decrypts: the record with key 0.
Rotten(r) == [r EXCEPT !.key = 0]
NoContainer == [file |-> 0, recs |-> <<>>]

PicsOf(shots) == {s.pic : s \in shots}
On(shots, d) == {s \in shots : s.day = d}
Recs(c) == ToSet(c.recs)
Indexed(d) == {r.pic : r \in Recs(db.index[d])}
Referenced == {db.index[d].file : d \in Days}

-----------------------------------------------------------------------------
(* Reading.                                                                *)

\* The snapshots that migration still has to index.
Pending == {s \in db.shown : s.pic \notin Indexed(s.day)}

\* read_record: the bytes at the record's place decrypt under its key.
Intact(d, p) ==
  LET c == db.index[d]
  IN  /\ c.file \in DOMAIN files
      /\ Len(files[c.file]) >= Len(c.recs)
      /\ \A i \in DOMAIN c.recs : c.recs[i].pic = p => files[c.file][i] = c.recs[i]

\* read_legacy_payload: the original.
HasOriginal(p) == p \in db.old /\ originals[p] = "intact"

\* load_snapshot_image: the day's record if there is one, otherwise the original.
CanRead(s) == IF s \in Pending THEN HasOriginal(s.pic) ELSE Intact(s.day, s.pic)

\* What migration reads: the first day's record, or else the original.
Copies(p) == {d \in Days : p \in Indexed(d)}
CanCopy(p) == HasOriginal(p) \/ (Copies(p) # {} /\ Intact(Min(Copies(p)), p))

-----------------------------------------------------------------------------
(* Operations prepare a transaction and possibly write to one file.        *)

FileError(kind) ==
  /\ kind \in may /\ errors < MaxErrors
  /\ errors' = errors + 1 /\ may' = may

NoDb == [shown |-> {}, blobs |-> {}, old |-> {}, index |-> [d \in Days |-> NoContainer]]
NoJob == [kind |-> "none", tx |-> NoDb, file |-> 0, kept |-> 0, retired |-> {},
          remove |-> {}, removeOld |-> {}, pics |-> {}]

\* Where an operation goes on, and where after an error.
Then(kind) == CASE kind = "migrate" -> "migrate"
                [] kind = "lost" -> "reconcile"
                [] kind = "retain" -> "retain"
                [] OTHER -> "up"

Put(f, recs) == [g \in DOMAIN files \cup {f} |-> IF g = f THEN recs ELSE files[g]]
Removed(fs) == [g \in DOMAIN files \ fs |-> files[g]]

\* container_name: random, so that no file and no row has it.
FreshFiles == Files \ (DOMAIN files \cup Referenced)
NewFile == CHOOSE f \in FreshFiles : TRUE
FreshKeys ==
  Key \ ({0} \cup {r.key : r \in wal}
             \cup UNION {{r.key : r \in Recs(db.index[d])} : d \in Days}
             \cup UNION {{files[f][i].key : i \in DOMAIN files[f]} : f \in DOMAIN files})

\* Seeded fault: a file that may not exist is to be removed.
FileUnchecked(c) == {c.file}
FileOf(c) == {c.file} \cap DOMAIN files

\* Seeded fault: other snapshots of the day may show the same picture.
ShownBy(shots, others) == PicsOf(shots)
\* Pictures that only shots show, and not the others.
OnlyShownBy(shots, others) == PicsOf(shots) \ PicsOf(others)

\* New records for pictures ps, each with a key of its own, as long as Key has some.
KeysLeft(ps) == \E k \in [ps -> FreshKeys] : IsInjective(k)
NewRecs(ps) ==
  LET keys == CHOOSE k \in [ps -> FreshKeys] : IsInjective(k)
  IN  SetToSeq({[pic |-> p, key |-> keys[p]] : p \in ps})

\* Rows without those of blobs that no snapshot in rest shows.
WithoutOrphans(rest, index) ==
  [shown |-> rest, blobs |-> db.blobs \cap PicsOf(rest), old |-> db.old \cap PicsOf(rest),
   index |-> index]

Begin(j) ==
  /\ job' = j
  /\ pc' = IF j.file = 0 THEN "commit" ELSE "write"

\* ContainerAppend::open accepts the file of the day's container.
CanAppend(d) ==
  LET c == db.index[d]
  IN  c # NoContainer => c.file \in DOMAIN files /\ Len(files[c.file]) >= Len(c.recs)

\* ContainerAppend: new records for ps after the committed ones, an uncommitted tail is cut off.
AppendRecords(kind, d, ps, shown) ==
  LET c == db.index[d]
      f == IF c = NoContainer THEN NewFile ELSE c.file
      added == NewRecs(ps)
  IN  /\ CanAppend(d) /\ KeysLeft(ps)
      /\ c = NoContainer => FreshFiles # {}
      /\ files' = Put(f, IF c = NoContainer THEN added
                         ELSE SubSeq(files[f], 1, Len(c.recs)) \o added)
      /\ Begin([NoJob EXCEPT
           !.kind = kind, !.file = f, !.kept = Len(c.recs),
           !.tx = [db EXCEPT !.shown = shown,
                             !.blobs = PicsOf(shown) \cup @,
                             !.index[d] = [file |-> f, recs |-> c.recs \o added]]])

-----------------------------------------------------------------------------
(* A capture, while the storage is open.                                   *)

\* append_snapshot: a record unless the day has one of the same picture.
Capture(p, d) ==
  /\ pc = "up" /\ next <= MaxSlots
  /\ next' = next + 1
  /\ AppendRecords("capture", d, {p} \ Indexed(d),
                   db.shown \cup {[slot |-> next, pic |-> p, day |-> d]})
  /\ UNCHANGED <<faults, db, wal, originals, session, told>>

-----------------------------------------------------------------------------
(* Deletion by the user and by retention.                                  *)

\* delete_day_snapshots: the records that no other snapshot of the day shows go; the others
\* are copied with their keys to a new file, in an order that nothing depends on.
DeleteFromDay(d, shots) ==
  LET c == db.index[d]
      rest == db.shown \ shots
      gone == OnlyShownBy(shots, On(rest, d))
      left == SetToSeq({r \in Recs(c) : r.pic \notin gone})
      f == IF gone = {} \/ left = <<>> THEN 0 ELSE NewFile
      index == IF gone = {} THEN db.index
               ELSE [db.index EXCEPT ![d] = IF left = <<>> THEN NoContainer
                                            ELSE [file |-> f, recs |-> left]]
  IN  /\ pc = "up"
      /\ shots # {} /\ shots \subseteq On(db.shown, d)
      /\ c # NoContainer
      /\ gone # {} /\ left # <<>> =>
           FreshFiles # {} /\ \A r \in ToSet(left) : Intact(d, r.pic)
      /\ files' = IF f = 0 THEN files ELSE Put(f, left)
      /\ Begin([NoJob EXCEPT
           !.kind = "delete", !.file = f, !.pics = PicsOf(shots),
           !.tx = WithoutOrphans(rest, index),
           !.retired = Recs(c) \ Recs(index[d]),
           !.remove = IF gone = {} THEN {} ELSE {c.file}])
      /\ UNCHANGED <<faults, db, wal, originals, session, next, told>>

\* delete_legacy_snapshot: a day without a container; the original goes with the last
\* snapshot of the picture.
DeleteOld(s) ==
  LET rest == db.shown \ {s}
      orphan == s.pic \notin PicsOf(rest) /\ Copies(s.pic) = {}
  IN  /\ pc = "up"
      /\ s \in db.shown /\ db.index[s.day] = NoContainer
      /\ Begin([NoJob EXCEPT
           !.kind = "delete", !.pics = {s.pic},
           !.tx = IF orphan THEN WithoutOrphans(rest, db.index)
                  ELSE [db EXCEPT !.shown = rest],
           !.removeOld = IF orphan THEN {s.pic} \cap db.old ELSE {}])
      /\ UNCHANGED <<faults, stored, session, next, told>>

\* clean_snapshot_day: a whole day and the originals that no snapshot shows any more.
CleanDay(kind, d) ==
  LET rest == db.shown \ On(db.shown, d)
      c == db.index[d]
  IN  /\ c # NoContainer \/ On(db.shown, d) # {}
      /\ Begin([NoJob EXCEPT
           !.kind = kind,
           !.tx = WithoutOrphans(rest, [db.index EXCEPT ![d] = NoContainer]),
           !.retired = Recs(c), !.remove = FileOf(c),
           !.removeOld = db.old \ PicsOf(rest)])
      /\ UNCHANGED <<faults, stored, session, next, told>>

\* apply_snapshot_day_retention: what an earlier deletion left behind first, then any days.
StartRetention ==
  /\ pc = "up"
  /\ pc' = IF settled THEN "retain" ELSE "resettle"
  /\ UNCHANGED <<faults, job, stored, session, next, told>>

RetainDay(d) == pc = "retain" /\ CleanDay("retain", d)

EndRetention ==
  /\ pc = "retain"
  /\ pc' = "up"
  /\ UNCHANGED <<faults, job, stored, session, next, told>>

-----------------------------------------------------------------------------
(* Write and sync, commit, clean up.                                       *)

SyncFile ==
  /\ pc = "write"
  /\ pc' = "commit"
  /\ UNCHANGED <<faults, job, stored, session, next, told>>

\* ContainerAppend::drop undoes the write, as far as the file system lets it.
WriteFails ==
  /\ FileError("io")
  /\ pc = "write"
  /\ files' \in {files, IF job.kept = 0 THEN Removed({job.file})
                        ELSE Put(job.file, SubSeq(files[job.file], 1, job.kept))}
  /\ pc' = "up" /\ job' = NoJob
  /\ UNCHANGED <<db, wal, originals, session, next, told>>

Deleting == job.kind \in {"delete", "retain", "lost"}

\* Seeded fault: a deletion does not ask for the files to be settled.
SettledStill == settled
SettledAfter == settled /\ ~Deleting

Committed ==
  /\ db' = job.tx
  /\ wal' = wal \cup job.retired
  /\ told' = told \ PicsOf(job.tx.shown)

Commit ==
  /\ pc = "commit"
  /\ Committed
  /\ settled' = SettledAfter
  /\ IF Deleting THEN pc' = "cleanup" /\ job' = job
     ELSE pc' = Then(job.kind) /\ job' = NoJob
  /\ UNCHANGED <<faults, files, originals, complete, next>>

\* An I/O error of the commit leaves open whether it took place; the file stays.
CommitFails ==
  /\ FileError("io")
  /\ pc = "commit"
  /\ Committed \/ UNCHANGED <<db, wal, told>>
  /\ pc' = "up" /\ job' = NoJob
  /\ UNCHANGED <<files, originals, session, next>>

RemoveOriginals(ps) ==
  originals' = [p \in Pics |-> IF p \in ps THEN "absent" ELSE originals[p]]

\* finish_snapshot_key_cleanup, which leaves log, and the removal of files after a deletion has
\* committed.  Only when all of it went well is the deletion reported as complete.
CleanUpLeaving(log) ==
  /\ pc = "cleanup"
  /\ wal' = log
  /\ files' = Removed(job.remove)
  /\ RemoveOriginals(job.removeOld)
  /\ told' = IF job.remove \subseteq DOMAIN files
             THEN told \cup (job.pics \ PicsOf(db.shown)) ELSE told
  /\ pc' = Then(job.kind) /\ job' = NoJob
  /\ UNCHANGED <<faults, db, session, next>>

\* Seeded fault: the log is not truncated.
CleanUpFilesOnly == CleanUpLeaving(wal)
CleanUp == CleanUpLeaving({})

\* A reader is in the way, or a file cannot be removed.
CleanUpFails ==
  /\ pc = "cleanup"
  /\ \/ "busy" \in may /\ UNCHANGED <<faults, wal, files, originals>>
     \/ /\ FileError("io")
        /\ wal' = {}
        /\ \E fs \in SUBSET job.remove : files' = Removed(fs)
        /\ \E ps \in SUBSET job.removeOld : RemoveOriginals(ps)
  /\ pc' = Then(job.kind) /\ job' = NoJob
  /\ UNCHANGED <<db, session, next, told>>

-----------------------------------------------------------------------------
(* settle_snapshot_files, at the end of an opening and before retention.   *)

AfterSettle == IF pc = "settle" THEN "up" ELSE "retain"

\* Seeded fault: files are removed while migration is pending.
Sweeps == TRUE
\* purge_unreferenced_snapshot_files keeps everything while migration is pending.
SweepsAll == Pending = {}

Settle ==
  /\ pc \in {"settle", "resettle"}
  /\ wal' = {}
  /\ IF SweepsAll
     THEN files' = Removed(DOMAIN files \ Referenced) /\ RemoveOriginals(Pics)
     ELSE UNCHANGED <<files, originals>>
  /\ settled' = TRUE
  /\ pc' = AfterSettle
  /\ complete' = (complete \/ pc = "settle")
  /\ UNCHANGED <<faults, job, db, next, told>>

\* A reader is in the way, or files cannot be removed, some of them perhaps were.
SettleFails ==
  /\ pc \in {"settle", "resettle"}
  /\ \/ "busy" \in may /\ UNCHANGED <<faults, wal, files, originals>>
     \/ /\ FileError("io")
        /\ wal' = {}
        /\ \E fs \in SUBSET (DOMAIN files \ Referenced), ps \in SUBSET Pics :
             IF SweepsAll THEN files' = Removed(fs) /\ RemoveOriginals(ps)
             ELSE fs = {} /\ ps = {} /\ UNCHANGED <<files, originals>>
  /\ pc' = AfterSettle
  /\ complete' = (complete \/ pc = "settle")
  /\ UNCHANGED <<job, db, settled, next, told>>

-----------------------------------------------------------------------------
(* Storage::open: reconcile_snapshot_containers and migration.  An error   *)
(* stops it there and leaves the storage open.                             *)

Open ==
  /\ pc = "down"
  /\ pc' = "reconcile" /\ settled' = FALSE /\ complete' = FALSE
  /\ UNCHANGED <<faults, job, stored, next, told>>

Close ==
  /\ pc = "up"
  /\ pc' = "down" /\ settled' = FALSE /\ complete' = FALSE
  /\ UNCHANGED <<faults, job, stored, next, told>>

Containers == {d \in Days : db.index[d] # NoContainer}
Lost == {d \in Containers : db.index[d].file \notin DOMAIN files}

\* The file of a day is gone: originals of all its pictures take its place, or else the day
\* is given up.
LoseContainer(d) ==
  /\ pc = "reconcile" /\ d \in Lost
  /\ LET c == db.index[d]
     IN  IF Indexed(d) \subseteq db.old /\ \A p \in Indexed(d) : originals[p] # "absent"
         THEN /\ db' = [db EXCEPT !.index[d] = NoContainer]
              /\ wal' = wal \cup Recs(c)
              /\ UNCHANGED <<faults, pc, job, files, originals, session, next, told>>
         ELSE CleanDay("lost", d)

Short == {d \in Containers \ Lost : Len(files[db.index[d].file]) < Len(db.index[d].recs)}

\* Uncommitted tails are cut off the files of days ds.
Cut(ds) ==
  [f \in DOMAIN files |->
     LET own == {d \in ds : db.index[d].file = f}
     IN  IF own = {} THEN files[f]
         ELSE SubSeq(files[f], 1, Len(db.index[CHOOSE d \in own : TRUE].recs))]

CutTails ==
  /\ pc = "reconcile" /\ Lost = {}
  /\ IF Short = {} THEN files' = Cut(Containers) /\ pc' = "migrate"
     ELSE \E ds \in SUBSET (Containers \ Short) : files' = Cut(ds) /\ pc' = "up"
  /\ UNCHANGED <<faults, job, db, wal, originals, session, next, told>>

\* Pictures without any bytes: their snapshots are given up.
Missing ==
  {p \in db.blobs : Copies(p) = {} /\ ~(p \in db.old /\ originals[p] # "absent")}

ForgetMissing(p) ==
  /\ pc = "migrate" /\ p \in Missing
  /\ db' = [db EXCEPT !.shown = {s \in @ : s.pic # p}, !.blobs = @ \ {p}, !.old = @ \ {p}]
  /\ wal' \in IF "busy" \in may THEN {wal, {}} ELSE {{}}
  /\ UNCHANGED <<faults, pc, job, files, originals, session, next, told>>

\* The day to copy next.
FirstPending(d) == On(Pending, d) # {} /\ \A s \in Pending : d <= s.day
CanMigrate(d) == CanAppend(d) /\ \A s \in On(Pending, d) : CanCopy(s.pic)

\* migrate_snapshot_containers: one transaction for each day.
MigrateDay(d) ==
  /\ pc = "migrate" /\ Missing = {} /\ FirstPending(d)
  /\ CanMigrate(d)
  /\ AppendRecords("migrate", d, PicsOf(On(Pending, d)), db.shown)
  /\ UNCHANGED <<faults, db, wal, originals, session, next, told>>

MigrationStops ==
  /\ pc = "migrate" /\ Missing = {} /\ Pending # {}
  /\ \/ UNCHANGED faults /\ \E d \in Days : FirstPending(d) /\ ~CanMigrate(d)
     \/ FileError("io")
  /\ pc' = "up"
  /\ UNCHANGED <<job, stored, session, next, told>>

AllReadable == \A s \in db.shown : CanRead(s)

\* verify_snapshot_containers, while there are files of the older version.
Verify ==
  /\ pc = "migrate" /\ Missing = {} /\ Pending = {}
  /\ pc' = IF AllReadable \/ \A p \in Pics : originals[p] = "absent" THEN "settle" ELSE "up"
  /\ UNCHANGED <<faults, job, stored, session, next, told>>

-----------------------------------------------------------------------------
(* Faults.                                                                 *)

\* What a crash makes of a file whose records beyond the first n were not synced.
Torn(recs, n) ==
  {recs} \cup UNION {{SubSeq(recs, 1, k), SubSeq(recs, 1, k) \o <<Rotten(recs[k + 1])>>} :
                     k \in n..(Len(recs) - 1)}

Crash ==
  /\ "crash" \in may
  /\ pc # "down"
  /\ IF pc = "write"
     THEN \E recs \in Torn(files[job.file], job.kept) : files' = Put(job.file, recs)
     ELSE files' = files
  /\ pc' = "down" /\ job' = NoJob /\ settled' = FALSE /\ complete' = FALSE
  /\ UNCHANGED <<faults, db, wal, originals, next, told>>

Decay ==
  /\ FileError("decay")
  /\ pc \in {"down", "up"}
  /\ \/ /\ \E f \in DOMAIN files :
             \/ files' = Removed({f})
             \/ \E i \in DOMAIN files[f] :
                  \/ files' = [files EXCEPT ![f][i] = Rotten(@)]
                  \/ files' = [files EXCEPT ![f] = SubSeq(@, 1, i - 1)]
        /\ UNCHANGED originals
     \/ /\ \E p \in Pics : originals' =
             [originals EXCEPT ![p] = IF @ = "intact" THEN "rotten" ELSE "absent"]
        /\ UNCHANGED files
  /\ UNCHANGED <<pc, job, db, wal, session, next, told>>

-----------------------------------------------------------------------------
\* The storage of the older version: snapshots and originals, no containers.
OldDb(shots) ==
  [NoDb EXCEPT !.shown = shots, !.blobs = PicsOf(shots), !.old = PicsOf(shots)]

Init ==
  /\ may \in FaultSets /\ errors = 0
  /\ pc = "down" /\ job = NoJob
  /\ \E n \in 0..Old : \E shot \in [1..n -> [pic : Pics, day : Days]] :
       /\ db = OldDb({[slot |-> i, pic |-> shot[i].pic, day |-> shot[i].day] : i \in 1..n})
       /\ next = n + 1
  /\ wal = {}
  /\ files = [f \in {} |-> <<>>]
  /\ originals = [p \in Pics |-> IF p \in db.old THEN "intact" ELSE "absent"]
  /\ settled = FALSE /\ complete = FALSE
  /\ told = {}

Next ==
  \/ \E p \in Pics, d \in Days : Capture(p, d)
  \/ \E d \in Days : \E shots \in SUBSET On(db.shown, d) : DeleteFromDay(d, shots)
  \/ \E s \in db.shown : DeleteOld(s)
  \/ StartRetention \/ EndRetention
  \/ \E d \in Days : RetainDay(d)
  \/ SyncFile \/ WriteFails \/ Commit \/ CommitFails
  \/ CleanUp \/ CleanUpFails \/ Settle \/ SettleFails
  \/ Close \/ Open \/ CutTails \/ MigrationStops \/ Verify
  \/ \E d \in Days : LoseContainer(d) \/ MigrateDay(d)
  \/ \E p \in Pics : ForgetMissing(p)
  \/ Crash \/ Decay

Spec == Init /\ [][Next]_vars

-----------------------------------------------------------------------------
(* Properties.                                                             *)

Container == [file : Files \cup {0}, recs : Seq(Rec)]
Database == [shown : SUBSET Shot, blobs : SUBSET Pics, old : SUBSET Pics,
             index : [Days -> Container]]

Job == [kind : {"none", "capture", "migrate", "delete", "retain", "lost"},
        tx : Database, file : Files \cup {0}, kept : Nat, retired : SUBSET Rec,
        remove : SUBSET Files, removeOld : SUBSET Pics, pics : SUBSET Pics]

TypeOK ==
  /\ may \in FaultSets
  /\ errors \in 0..MaxErrors
  /\ pc \in {"down", "reconcile", "migrate", "settle", "up", "resettle", "retain",
             "write", "commit", "cleanup"}
  /\ job \in Job
  /\ db \in Database
  /\ wal \subseteq Rec
  /\ DOMAIN files \subseteq Files /\ files \in [DOMAIN files -> Seq(Rec)]
  /\ originals \in [Pics -> {"intact", "rotten", "absent"}]
  /\ settled \in BOOLEAN /\ complete \in BOOLEAN
  /\ next \in 1..(MaxSlots + 1)
  /\ told \subseteq Pics

\* As long as stored bytes do not rot, every snapshot the database has can be read, whatever
\* crash or error came between the writes of a file, a commit and the removal of files.
EveryPictureThere == "decay" \notin may => AllReadable

\* Even when stored bytes have rotted, no operation makes a snapshot unreadable that it
\* keeps: it does not stop referring to a good copy, or remove it, for a bad one.
NoneSpoiled ==
  [][~Decay => \A s \in db.shown \cap db'.shown : CanRead(s) => CanRead(s)']_vars

\* A picture whose deletion was reported as complete can be read from nothing: no key of it
\* in the index or in the log, and no original once migration is complete and files are settled.
DeletedIsGone ==
  \A p \in told :
    /\ p \notin {r.pic : r \in wal} \cup UNION {Indexed(d) : d \in Days}
    /\ settled /\ complete => originals[p] = "absent"

\* When migration is complete and the storage says that its files are settled, nothing is left
\* over between operations: no key in the log, no original, no file without a reference.
SettledIsClean ==
  pc \in {"up", "retain"} /\ settled /\ complete /\ "io" \notin may =>
    /\ wal = {}
    /\ Pending = {}
    /\ DOMAIN files \subseteq Referenced
    /\ \A p \in Pics : originals[p] = "absent"

\* "Retain all old files until every original reference has a verified replacement"
\* (snapshot_container.rs 431-432): no good original is removed while a snapshot that it
\* could serve has only a bad record.
OriginalsRetained ==
  [][\A s \in db.shown :
       originals[s.pic] = "intact" /\ originals'[s.pic] = "absent" /\ s \in db'.shown
         => CanRead(s)]_vars
=============================================================================
