----------------------------- MODULE ViewsProofs -----------------------------
(***************************************************************************)
(* Theorems about Dataset, SnapshotPanel, AppHistory and TimelineCache: the *)
(* data set's files, the page of snapshots, an application's history and    *)
(* the remembered views, for any number of stops, pictures, uses and rows.  *)
(***************************************************************************)
EXTENDS Dataset, SnapshotPanel, AppHistory, TimelineCache,
        FiniteSetTheorems, SequenceTheorems, WellFoundedInduction, TLAPS

\* A set of natural numbers has a least.
LEMMA LeastNatural ==
  ASSUME NEW T \in SUBSET Nat, T # {}
  PROVE  \E x \in T : \A y \in T : x <= y
<1>1. PICK x \in T : \A y \in T : ~(<<y, x>> \in OpToRel(<, Nat))
  BY NatLessThanWellFounded, WFMin
<1>2. \A y \in T : ~(y < x)
  BY <1>1 DEF OpToRel
<1> QED
  BY <1>2

-----------------------------------------------------------------------------
(* Dataset. *)

\* What a directory may hold.
Directory ==
  [database: Database \cup {NoFile, Torn}, safety: Database \cup {NoFile, Torn},
   key: BOOLEAN, pictures: SUBSET Contents, litter: BOOLEAN]

\* The copy that an upgrade left is of the user's data.
SafetyIsMine == Readable(Here.safety) => Here.safety.of = userHas

\* What is there while the core is at a stage.
StageNeeds ==
  /\ stage \in {"put back", "putting back"} => Readable(Here.safety)
  /\ stage \in {"put", "copy", "copying", "migrate", "clean"} => Readable(Here.database)
  /\ stage = "migrate" => Readable(Here.safety)
  /\ stage = "open" => Here.safety = NoFile
  /\ stage \in {"opened", "run", "staging", "adopt", "publish", "remove old", "commit", "reconcile"} =>
       Readable(Here.database) /\ Here.safety = NoFile
  /\ stage = "commit" => "backup" \in Here.pictures

\* A piece of the new directory is not there yet or as in the old one.
CopyOf(g, f) ==
  /\ g.database \in {NoFile, f.database} /\ g.pictures \in {{}, f.pictures}
  /\ g.safety = NoFile

\* The directory that is filled is not the one in use.
TargetIsApart ==
  /\ stage \in {"staging", "adopt", "publish", "remove old", "candidate"} => target # pointer
  /\ stage \in {"staging", "adopt", "publish"} => CopyOf(files[target], Here)
  /\ stage = "publish" => Missing(target) = {}
  /\ stage = "candidate" => \E content \in Contents : files[target] = Candidate(content)

DatasetInv == DatasetTypeOK /\ DatasetWhole /\ SafetyIsMine /\ StageNeeds /\ TargetIsApart

\* Setting one directory.
LEMMA SetOne ==
  ASSUME NEW fs \in [Directories -> Directory], NEW d \in Directories, NEW g \in Directory
  PROVE  LET new == [fs EXCEPT ![d] = g]
         IN  /\ new \in [Directories -> Directory]
             /\ new[d] = g
             /\ \A e \in Directories \ {d} : new[e] = fs[e]
  OBVIOUS

\* An installation that has just begun is whole.
LEMMA DatasetInitInv == DatasetInit => DatasetInv
  <1> SUFFICES ASSUME DatasetInit PROVE DatasetInv
    OBVIOUS
  <1>1. PICK schema \in 1..Latest :
       files = [d \in Directories |->
                 IF d = Home THEN [database |-> [schema |-> schema, of |-> "mine"],
                                   safety |-> NoFile, key |-> TRUE,
                                   pictures |-> {"mine"}, litter |-> FALSE]
                 ELSE EmptyDirectory]
    BY DEF DatasetInit
  <1>2. [schema |-> schema, of |-> "mine"] \in Database /\ "mine" \in Contents
    BY DEF Database, Contents
  <1>3. files \in [Directories -> Directory]
    BY <1>1, <1>2 DEF Directory, EmptyDirectory
  <1>4. DatasetTypeOK
    BY <1>2, <1>3, HomeIsADirectory DEF DatasetTypeOK, DatasetInit, Directory, Stages
  <1>5. Here = [database |-> [schema |-> schema, of |-> "mine"],
                                   safety |-> NoFile, key |-> TRUE,
                                   pictures |-> {"mine"}, litter |-> FALSE]
    BY <1>1, HomeIsADirectory DEF Here, DatasetInit
  <1>6. Readable(Here.database) /\ ~Readable(Here.safety)
    BY <1>2, <1>5, FilesAreTold DEF Readable
  <1> QED
    BY <1>4, <1>5, <1>6 DEF DatasetInv, DatasetWhole, Whole, SafetyIsMine, StageNeeds,
       TargetIsApart, DatasetInit
-----------------------------------------------------------------------------
\* A step that sets the directory in use leaves the others alone.
LEMMA SetHere ==
  ASSUME DatasetTypeOK, NEW g \in Directory, Set(pointer, g), pointer' = pointer
  PROVE  /\ Here' = g
         /\ files' \in [Directories -> Directory]
         /\ \A d \in Directories \ {pointer} : files'[d] = files[d]
  <1>1. files \in [Directories -> Directory] /\ pointer \in Directories
    BY DEF DatasetTypeOK, Directory
  <1> QED
    BY <1>1, SetOne DEF Set, Here

\* A step that sets another directory leaves the one in use alone.
LEMMA SetOther ==
  ASSUME DatasetTypeOK, NEW d \in Directories \ {pointer}, NEW g \in Directory, Set(d, g),
         pointer' = pointer
  PROVE  /\ Here' = Here
         /\ files' \in [Directories -> Directory]
         /\ files'[d] = g
  <1>1. files \in [Directories -> Directory] /\ pointer \in Directories
    BY DEF DatasetTypeOK, Directory
  <1> QED
    BY <1>1, SetOne DEF Set, Here

\* What is in use is a directory, its database and copy are told apart.
LEMMA HereType ==
  ASSUME DatasetTypeOK
  PROVE  /\ Here \in Directory
         /\ Readable(Here.database) => Here.database \in Database
         /\ Readable(Here.safety) => Here.safety \in Database
  BY DEF DatasetTypeOK, Directory, Here, Readable

\* A database that is there can be read.
LEMMA DatabaseIsReadable ==
  /\ \A b \in Database : Readable(b)
  /\ ~Readable(NoFile) /\ ~Readable(Torn)
  BY FilesAreTold DEF Readable

\* The two schemas.
LEMMA Schemas == 1 \in 1..Latest /\ Latest \in 1..Latest
  BY DEF Latest

\* A new database of the latest schema.
LEMMA NewDatabase == \A content \in Contents : [schema |-> Latest, of |-> content] \in Database
  BY DEF Database, Latest

\* An empty directory is one, and so is what recovery builds.
LEMMA NewDirectories ==
  /\ EmptyDirectory \in Directory
  /\ \A content \in Contents : 
       /\ Candidate(content) \in Directory
       /\ Candidate(content).database = [schema |-> Latest, of |-> content]
       /\ Candidate(content).safety = NoFile
       /\ Candidate(content).key /\ Candidate(content).pictures = {content}
  <1>1. EmptyDirectory \in Directory
    BY DEF EmptyDirectory, Directory
  <1>2. ASSUME NEW content \in Contents, NEW b \in Database
        PROVE  [EmptyDirectory EXCEPT !.key = TRUE, !.pictures = {content}, !.database = b] \in Directory
    BY DEF EmptyDirectory, Directory
  <1>3. ASSUME NEW content \in Contents, NEW b
        PROVE  LET g == [EmptyDirectory EXCEPT !.key = TRUE, !.pictures = {content}, !.database = b]
               IN  g.database = b /\ g.safety = NoFile /\ g.key /\ g.pictures = {content}
    BY DEF EmptyDirectory
  <1> QED
    BY <1>1, <1>2, <1>3, NewDatabase DEF Candidate

\* The parts of the invariant that do not depend on the stage of the directory in use.
LEMMA StageSteps ==
  ASSUME DatasetInv, Start \/ ConsentIsRefused \/ Checkpoint \/ Retry
  PROVE  DatasetInv'
  BY DEF Start, ConsentIsRefused, Checkpoint, Retry, DatasetInv, DatasetTypeOK, Stages, Goes,
       DatasetWhole, SafetyIsMine, StageNeeds, TargetIsApart, Here, counters

\* The safety copy is compared with the database: what is left is whole either way.
LEMMA CheckStep == DatasetInv /\ CheckSafetyCopy => DatasetInv'
  <1> SUFFICES ASSUME DatasetInv, CheckSafetyCopy PROVE DatasetInv'
    OBVIOUS
  <1> USE DEF DatasetInv
  <1>1. /\ Here \in Directory
        /\ [Here EXCEPT !.safety = NoFile] \in Directory
    BY HereType DEF Directory
  <1>2. CASE SafetyCopySuperseded(Here) /\ Set(pointer, [Here EXCEPT !.safety = NoFile]) /\ Goes("open")
    <2>1. PICK g \in Directory : g = [Here EXCEPT !.safety = NoFile]
      BY <1>1
    <2>2. Here' = g /\ files' \in [Directories -> Directory]
      BY <1>2, <2>1, SetHere DEF CheckSafetyCopy
    <2>3. /\ g.safety = NoFile /\ g.database = Here.database /\ g.key = Here.key /\ g.pictures = Here.pictures
          /\ Readable(Here.database)
      BY <1>1, <1>2, <2>1 DEF Directory, SafetyCopySuperseded
    <2>4. DatasetWhole' /\ SafetyIsMine'
      BY <1>1, <1>2, <2>2, <2>3, DatabaseIsReadable DEF CheckSafetyCopy, DatasetWhole, Whole, SafetyIsMine
    <2>5. DatasetTypeOK'
      BY <1>2, <2>2 DEF CheckSafetyCopy, Directory, DatasetTypeOK, Stages, Goes
    <2>6. StageNeeds' /\ TargetIsApart'
      BY <1>2, <2>2, <2>3 DEF CheckSafetyCopy, Goes, StageNeeds, TargetIsApart
    <2> QED
      BY <2>4, <2>5, <2>6
  <1>3. ASSUME UNCHANGED files,
               \/ Goes("put back") /\ Readable(Here.safety)
               \/ Goes("open") /\ Here.safety = NoFile
               \/ Goes("refused")
        PROVE  DatasetInv'
    <2>1. Here' = Here
      BY <1>3 DEF CheckSafetyCopy, Here
    <2>2. DatasetWhole' /\ SafetyIsMine'
      BY <1>3, <2>1 DEF CheckSafetyCopy, DatasetWhole, Whole, SafetyIsMine
    <2>3. DatasetTypeOK'
      BY <1>3 DEF CheckSafetyCopy, DatasetTypeOK, Stages, Goes
    <2>4. StageNeeds' /\ TargetIsApart'
      BY <2>1, <1>3 DEF Goes, StageNeeds, TargetIsApart
    <2> QED
      BY <2>2, <2>3, <2>4
  <1>4. CASE Here.safety = NoFile /\ Goes("open") /\ UNCHANGED files
    BY <1>3, <1>4
  <1>5. CASE Here.safety = Torn /\ Here.database # NoFile /\ Goes("refused") /\ UNCHANGED files
    BY <1>3, <1>5
  <1>6. CASE /\ Here.safety # NoFile /\ ~(Here.safety = Torn /\ Here.database # NoFile)
             /\ Goes("put back") /\ UNCHANGED files
    <2>1. Readable(Here.safety)
      BY <1>6 DEF DatasetWhole, Whole, Readable
    <2> QED
      BY <1>3, <1>6, <2>1
  <1> QED
    BY <1>2, <1>4, <1>5, <1>6 DEF CheckSafetyCopy

\* The copy is put back: while the database is torn the copy is there.
LEMMA PutBackSteps ==
  ASSUME DatasetInv, PutBackBegins \/ PutBackEnds \/ PutBackIsDone
  PROVE  DatasetInv'
  <1> USE DEF DatasetInv
  <1>1. Here \in Directory /\ (Readable(Here.safety) => Here.safety \in Database)
    BY HereType
  <1>2. CASE PutBackBegins
    <2>1. PICK g \in Directory : g = [Here EXCEPT !.database = Torn]
      BY <1>1 DEF Directory
    <2>2. Here' = g /\ files' \in [Directories -> Directory]
      BY <1>2, <2>1, SetHere DEF PutBackBegins
    <2> QED
      BY <1>1, <1>2, <2>1, <2>2, DatabaseIsReadable DEF PutBackBegins, Directory, DatasetTypeOK, Stages, Goes, DatasetWhole, Whole,
         SafetyIsMine, StageNeeds, TargetIsApart, counters
  <1>3. CASE PutBackEnds
    <2>1. PICK g \in Directory : g = [Here EXCEPT !.database = Here.safety]
      BY <1>1 DEF Directory
    <2>2. Here' = g /\ files' \in [Directories -> Directory]
      BY <1>3, <2>1, SetHere DEF PutBackEnds
    <2> QED
      BY <1>1, <1>3, <2>1, <2>2, DatabaseIsReadable DEF PutBackEnds, Directory, DatasetTypeOK, Stages, Goes, DatasetWhole, Whole,
         SafetyIsMine, StageNeeds, TargetIsApart, counters
  <1>4. CASE PutBackIsDone
    <2>1. PICK g \in Directory : g = [Here EXCEPT !.safety = NoFile]
      BY <1>1 DEF Directory
    <2>2. Here' = g /\ files' \in [Directories -> Directory]
      BY <1>4, <2>1, SetHere DEF PutBackIsDone
    <2> QED
      BY <1>1, <1>4, <2>1, <2>2, DatabaseIsReadable DEF PutBackIsDone, Directory, DatasetTypeOK, Stages, Goes, DatasetWhole, Whole,
         SafetyIsMine, StageNeeds, TargetIsApart, counters
  <1> QED
    BY <1>2, <1>3, <1>4

\* A database is opened, or copied, upgraded and the copy removed.
LEMMA UpgradeSteps ==
  ASSUME DatasetInv, OpenDatabase \/ CopyBegins \/ CopyEnds \/ Migrate \/ RemoveSafetyCopy
  PROVE  DatasetInv'
  <1> USE DEF DatasetInv
  <1>1. Here \in Directory /\ (Readable(Here.database) => Here.database \in Database)
    BY HereType
  <1>2. CASE OpenDatabase
    <2>1. UNCHANGED files /\ Here' = Here
      BY <1>2, DatabaseIsReadable DEF OpenDatabase, StageNeeds, DatasetWhole, Whole, Here
    <2> QED
      BY <1>1, <1>2, <2>1, DatabaseIsReadable DEF OpenDatabase, Readable, Directory, DatasetTypeOK, Stages, Goes, DatasetWhole, Whole,
         SafetyIsMine, StageNeeds, TargetIsApart, counters
  <1>3. CASE CopyBegins
    <2>1. PICK g \in Directory : g = [Here EXCEPT !.safety = Torn]
      BY <1>1 DEF Directory
    <2>2. Here' = g /\ files' \in [Directories -> Directory]
      BY <1>3, <2>1, SetHere DEF CopyBegins
    <2> QED
      BY <1>1, <1>3, <2>1, <2>2, DatabaseIsReadable DEF CopyBegins, Directory, DatasetTypeOK, Stages, Goes, DatasetWhole, Whole,
         SafetyIsMine, StageNeeds, TargetIsApart, counters
  <1>4. CASE CopyEnds
    <2>1. PICK g \in Directory : g = [Here EXCEPT !.safety = Here.database]
      BY <1>1 DEF Directory
    <2>2. CASE Set(pointer, g) /\ Goes("migrate")
      <3>1. Here' = g /\ files' \in [Directories -> Directory]
        BY <1>4, <2>2, SetHere DEF CopyEnds
      <3> QED
        BY <1>1, <1>4, <2>1, <2>2, <3>1, DatabaseIsReadable DEF CopyEnds, Directory, DatasetTypeOK, Stages, Goes, DatasetWhole, Whole,
         SafetyIsMine, StageNeeds, TargetIsApart, counters
    <2>3. CASE UNCHANGED files /\ Goes("refused")
      BY <1>4, <2>3 DEF CopyEnds, Here, DatasetTypeOK, Stages, Goes, DatasetWhole, Whole,
         SafetyIsMine, StageNeeds, TargetIsApart, counters
    <2> QED
      BY <1>4, <2>1, <2>2, <2>3 DEF CopyEnds
  <1>5. CASE Migrate
    <2>1. PICK g \in Directory : /\ g = [Here EXCEPT !.database.schema = Latest]
                                 /\ g.database \in Database /\ g.database.of = Here.database.of
      <3>1. Here.database \in Database
        BY <1>1, <1>5 DEF Migrate, StageNeeds
      <3>2. ASSUME NEW a \in Database
            PROVE  /\ [a EXCEPT !.schema = Latest] \in Database
                   /\ [a EXCEPT !.schema = Latest].of = a.of
        BY Schemas DEF Database
      <3>3. PICK b \in Database : b = [Here.database EXCEPT !.schema = Latest] /\ b.of = Here.database.of
        BY <3>1, <3>2
      <3>4. [Here EXCEPT !.database.schema = Latest] = [Here EXCEPT !.database = b]
        BY <3>3
      <3> QED
        BY <1>1, <3>3, <3>4 DEF Directory
    <2>2. CASE Set(pointer, g) /\ Goes("clean")
      <3>1. Here' = g /\ files' \in [Directories -> Directory]
        BY <1>5, <2>2, SetHere DEF Migrate
      <3>2. g.safety = Here.safety /\ g.key = Here.key /\ g.pictures = Here.pictures
        BY <2>1, <1>1 DEF Directory
      <3> QED
        BY <1>1, <1>5, <2>1, <2>2, <3>1, <3>2, DatabaseIsReadable DEF Migrate, Directory, DatasetTypeOK, Stages, Goes, DatasetWhole, Whole,
         SafetyIsMine, StageNeeds, TargetIsApart, counters
    <2>3. CASE UNCHANGED files /\ Goes("put back")
      BY <1>5, <2>3 DEF Migrate, Here, DatasetTypeOK, Stages, Goes, DatasetWhole, Whole,
         SafetyIsMine, StageNeeds, TargetIsApart, counters
    <2> QED
      BY <1>5, <2>1, <2>2, <2>3 DEF Migrate
  <1>6. CASE RemoveSafetyCopy
    <2>1. PICK g \in Directory : g = [Here EXCEPT !.safety = NoFile]
      BY <1>1 DEF Directory
    <2>2. Here' = g /\ files' \in [Directories -> Directory]
      BY <1>6, <2>1, SetHere DEF RemoveSafetyCopy
    <2> QED
      BY <1>1, <1>6, <2>1, <2>2, DatabaseIsReadable DEF RemoveSafetyCopy, Directory, DatasetTypeOK, Stages, Goes, DatasetWhole, Whole,
         SafetyIsMine, StageNeeds, TargetIsApart, counters
  <1> QED
    BY <1>2, <1>3, <1>4, <1>5, <1>6

\* A directory of which one thing is set.
LEMMA OneThing ==
  ASSUME NEW f \in Directory
  PROVE  /\ \A b \in Database : LET g == [f EXCEPT !.database = b]
                                IN  /\ g \in Directory /\ g.key = f.key /\ g.database = b
                                    /\ g.safety = f.safety /\ g.pictures = f.pictures
         /\ \A ps \in SUBSET Contents : LET g == [f EXCEPT !.pictures = ps]
                                IN  /\ g \in Directory /\ g.key = f.key /\ g.database = f.database
                                    /\ g.safety = f.safety /\ g.pictures = ps
         /\ LET g == [f EXCEPT !.litter = TRUE]
            IN  /\ g \in Directory /\ g.key = f.key /\ g.database = f.database
                /\ g.safety = f.safety /\ g.pictures = f.pictures
         /\ LET g == [f EXCEPT !.litter = FALSE]
            IN  /\ g \in Directory /\ g.key = f.key /\ g.database = f.database
                /\ g.safety = f.safety /\ g.pictures = f.pictures
  BY DEF Directory

\* Once the core works with the data, they are whole by what the directory in use holds.
LEMMA RunningStep ==
  ASSUME DatasetInv, NEW g \in Directory, Here' = g, files' \in [Directories -> Directory],
         pointer' \in Directories, target' \in Directories, unsynced' \in BOOLEAN,
         afterwards' = afterwards, stage' \in {"run", "commit", "reconcile"}, userHas' \in Contents,
         g.key, g.database \in Database, g.database.of = userHas', g.safety = NoFile,
         userHas' \in g.pictures \/ userHas' = "empty",
         stage' = "commit" => "backup" \in g.pictures
  PROVE  DatasetInv'
  <1>1. DatasetTypeOK'
    BY DEF DatasetInv, DatasetTypeOK, Directory, Stages
  <1>2. DatasetWhole' /\ SafetyIsMine'
    BY DatabaseIsReadable DEF DatasetWhole, Whole, SafetyIsMine
  <1>3. StageNeeds' /\ TargetIsApart'
    BY DatabaseIsReadable DEF StageNeeds, TargetIsApart
  <1> QED
    BY <1>1, <1>2, <1>3 DEF DatasetInv

\* Opening and a restore end with the pictures of the database only; what a
\* restore adds is not the user's before it commits.
LEMMA RestoreSteps ==
  ASSUME DatasetInv, Opened \/ InstallPictures \/ CommitBackup \/ Reconcile \/ RemoveOldIsDone
  PROVE  DatasetInv'
  <1>1. /\ Here \in Directory /\ Here.database \in Database /\ Here.safety = NoFile
        /\ Here.database.of = userHas /\ userHas \in Contents /\ Here.key
        /\ userHas \in Here.pictures \/ userHas = "empty"
    BY HereType, DatabaseIsReadable DEF Opened, InstallPictures, CommitBackup, Reconcile, RemoveOldIsDone, StageNeeds,
       DatasetInv, DatasetWhole, Whole, DatasetTypeOK
  <1>2. /\ files \in [Directories -> Directory] /\ pointer' = pointer /\ pointer \in Directories
        /\ target' = target /\ target \in Directories /\ afterwards' = afterwards /\ unsynced' \in BOOLEAN
        /\ DatasetTypeOK
    BY DEF Opened, InstallPictures, CommitBackup, Reconcile, RemoveOldIsDone, DatasetInv, DatasetTypeOK, Directory
  <1>3. ASSUME NEW g \in Directory, Set(pointer, g), userHas' = userHas, stage' \in {"run", "commit"},
               g.key, g.database = Here.database, g.safety = NoFile, userHas \in Here.pictures => userHas \in g.pictures,
               stage' = "commit" => "backup" \in g.pictures
        PROVE  DatasetInv'
    <2>1. Here' = g /\ files' \in [Directories -> Directory]
      BY <1>2, <1>3, SetHere
    <2>2. userHas' \in g.pictures \/ userHas' = "empty"
      BY <1>1, <1>3
    <2> QED
      BY <1>1, <1>2, <1>3, <2>1, <2>2, RunningStep
  <1>4. ASSUME UNCHANGED files, userHas' = userHas, stage' = "reconcile"
        PROVE  DatasetInv'
    <2>1. Here' = Here /\ files' \in [Directories -> Directory]
      BY <1>2, <1>4 DEF Here
    <2> QED
      BY <1>1, <1>2, <1>4, <2>1, RunningStep
  <1>5. CASE Opened \/ Reconcile
    <2>1. /\ Reconciled(Here) \in Directory
          /\ Reconciled(Here).key = Here.key /\ Reconciled(Here).database = Here.database
          /\ Reconciled(Here).safety = Here.safety
          /\ Reconciled(Here).pictures = Here.pictures \cap {userHas}
      BY <1>1 DEF Reconciled, Directory
    <2> QED
      BY <1>1, <1>3, <1>5, <2>1 DEF Opened, Reconcile, Goes
  <1>6. CASE InstallPictures
    <2>0. PICK ps \in SUBSET Contents : ps = Here.pictures \cup {"backup"}
      BY <1>1 DEF Directory, Contents
    <2>1. PICK g \in Directory : /\ g = [Here EXCEPT !.pictures = ps]
                                 /\ g.key = Here.key /\ g.database = Here.database /\ g.safety = Here.safety
                                 /\ g.pictures = ps
      <3>1. Here \in Directory
        BY <1>1
      <3> QED
        BY <3>1, OneThing, Zenon
    <2>2. [Here EXCEPT !.pictures = @ \cup {"backup"}] = g
      BY <2>0, <2>1
    <2> QED
      BY <1>1, <1>3, <1>4, <1>6, <2>0, <2>1, <2>2 DEF InstallPictures, Goes
  <1>7. CASE CommitBackup
    <2>1. CASE UNCHANGED files /\ userHas' = userHas
      BY <1>4, <1>7, <2>1 DEF CommitBackup, Goes
    <2>2. CASE Set(pointer, [Here EXCEPT !.database.of = "backup"]) /\ userHas' = "backup"
      <3>1. ASSUME NEW a \in Database
            PROVE  /\ [a EXCEPT !.of = "backup"] \in Database
                   /\ [a EXCEPT !.of = "backup"].of = "backup"
        BY DEF Database, Contents
      <3>2. PICK b \in Database : b = [Here.database EXCEPT !.of = "backup"] /\ b.of = "backup"
        BY <1>1, <3>1
      <3>3. [Here EXCEPT !.database.of = "backup"] = [Here EXCEPT !.database = b]
        BY <3>2
      <3>4. PICK g \in Directory : /\ g = [Here EXCEPT !.database = b]
                                   /\ g.key = Here.key /\ g.database = b /\ g.safety = Here.safety
                                   /\ g.pictures = Here.pictures
        <4>1. Here \in Directory /\ b \in Database
          BY <1>1, <3>2
        <4> QED
          BY <4>1, OneThing, Zenon
      <3>5. Here' = g /\ files' \in [Directories -> Directory]
        BY <1>2, <2>2, <3>3, <3>4, SetHere
      <3>6. "backup" \in Here.pictures /\ stage' = "reconcile"
        BY <1>7 DEF CommitBackup, Goes, DatasetInv, StageNeeds
      <3>7. "backup" \in Contents
        BY DEF Contents
      <3> QED
        BY <1>1, <1>2, <2>2, <3>2, <3>4, <3>5, <3>6, <3>7, RunningStep
    <2> QED
      BY <1>7, <2>1, <2>2 DEF CommitBackup
  <1>8. CASE RemoveOldIsDone
    <2>1. PICK g \in Directory : /\ g = [Here EXCEPT !.litter = FALSE]
                                 /\ g.key = Here.key /\ g.database = Here.database /\ g.safety = Here.safety
                                 /\ g.pictures = Here.pictures
      <3>1. Here \in Directory
        BY <1>1
      <3> QED
        BY <3>1, OneThing, Zenon
    <2> QED
      BY <1>1, <1>3, <1>8, <2>1 DEF RemoveOldIsDone, Goes
  <1> QED
    BY <1>5, <1>6, <1>7, <1>8

\* A move fills a directory that is not in use; the pointer changes when it has everything.
LEMMA MoveStep ==
  ASSUME DatasetInv, NEW d \in Directories \ {pointer}, NEW g \in Directory, Set(d, g),
         pointer' = pointer, target' = d, unsynced' \in BOOLEAN, UNCHANGED <<afterwards, userHas>>,
         stage \in {"run", "staging", "adopt", "publish", "remove old"},
         stage' \in {"run", "staging", "adopt", "remove old"},
         stage' \in {"staging", "adopt"} => CopyOf(g, Here)
  PROVE  DatasetInv'
  <1>1. Here' = Here /\ files' \in [Directories -> Directory] /\ files'[d] = g
    BY SetOther DEF DatasetInv
  <1>2. DatasetTypeOK'
    BY <1>1 DEF DatasetInv, DatasetTypeOK, Directory, Stages
  <1>3. DatasetWhole' /\ SafetyIsMine'
    BY <1>1 DEF DatasetInv, DatasetWhole, Whole, SafetyIsMine
  <1>4. StageNeeds'
    BY <1>1 DEF DatasetInv, StageNeeds
  <1>5. TargetIsApart'
    BY <1>1 DEF TargetIsApart
  <1> QED
    BY <1>2, <1>3, <1>4, <1>5 DEF DatasetInv

\* Moving one piece over, or away.
LEMMA OnePiece ==
  ASSUME NEW f \in Directory, NEW g \in Directory, NEW h \in Directory, NEW piece \in Pieces,
         CopyOf(f, g), h \in {g, EmptyDirectory}
  PROVE  With(f, piece, h) \in Directory /\ CopyOf(With(f, piece, h), g)
  BY DEF With, CopyOf, Directory, Pieces, EmptyDirectory

\* No step of a move loses what the pointer names.
LEMMA MoveSteps ==
  ASSUME DatasetInv,
         \/ \E d \in Directories : BeginMove(d)
         \/ StageIsDone \/ AdoptFails \/ AdoptIsDone \/ PublishPointer
         \/ \E piece \in Pieces : AdoptOne(piece) \/ RemoveOld(piece)
  PROVE  DatasetInv'
  <1>1. /\ DatasetTypeOK /\ Here \in Directory /\ files \in [Directories -> Directory]
        /\ pointer \in Directories /\ target \in Directories /\ unsynced \in BOOLEAN
    BY HereType DEF DatasetInv, DatasetTypeOK, Directory
  <1>2. EmptyDirectory \in Directory /\ CopyOf(EmptyDirectory, Here)
    BY NewDirectories DEF CopyOf, EmptyDirectory
  <1>3. ASSUME NEW d \in Directories, BeginMove(d) PROVE DatasetInv'
    <2>0. PICK e \in Directory : /\ e = EmptyDirectory
                                 /\ e.database = NoFile /\ e.safety = NoFile /\ e.pictures = {}
      BY <1>2 DEF EmptyDirectory
    <2>1. PICK g \in Directory : /\ g = [e EXCEPT !.litter = TRUE]
                                 /\ g.database = e.database /\ g.safety = e.safety /\ g.pictures = e.pictures
      BY OneThing, Zenon
    <2>2. CopyOf(g, Here)
      BY <2>0, <2>1 DEF CopyOf
    <2> QED
      BY <1>1, <1>3, <2>0, <2>1, <2>2, MoveStep DEF BeginMove, Goes
  <1>4. CASE (StageIsDone /\ UNCHANGED files) \/ AdoptIsDone
    <2>1. Here' = Here /\ Missing(target)' = Missing(target)
      BY <1>4 DEF StageIsDone, AdoptIsDone, Here, Missing
    <2>2. DatasetTypeOK'
      BY <1>1, <1>4 DEF StageIsDone, AdoptIsDone, DatasetTypeOK, Stages, Goes
    <2>3. DatasetWhole' /\ SafetyIsMine'
      BY <1>4, <2>1 DEF StageIsDone, AdoptIsDone, DatasetInv, DatasetWhole, Whole, SafetyIsMine
    <2>4. StageNeeds'
      BY <1>4, <2>1 DEF StageIsDone, AdoptIsDone, DatasetInv, StageNeeds, Goes
    <2>5. TargetIsApart'
      BY <1>4, <2>1 DEF StageIsDone, AdoptIsDone, DatasetInv, TargetIsApart, Goes
    <2> QED
      BY <2>2, <2>3, <2>4, <2>5 DEF DatasetInv
  <1>5. CASE \/ StageIsDone /\ Set(target, EmptyDirectory) /\ Goes("run")
             \/ AdoptFails
    <2>1. target # pointer
      BY <1>5 DEF StageIsDone, AdoptFails, DatasetInv, TargetIsApart
    <2> QED
      BY <1>1, <1>2, <1>5, <2>1, MoveStep DEF StageIsDone, AdoptFails, Goes
  <1>6. ASSUME NEW piece \in Pieces, AdoptOne(piece) PROVE DatasetInv'
    <2>1. target # pointer /\ CopyOf(files[target], Here)
      BY <1>6 DEF AdoptOne, DatasetInv, TargetIsApart
    <2>2. PICK g \in Directory : g = With(files[target], piece, Here) /\ CopyOf(g, Here)
      BY <1>1, <2>1, OnePiece
    <2> QED
      BY <1>1, <1>6, <2>1, <2>2, MoveStep DEF AdoptOne
  <1>7. ASSUME NEW piece \in Pieces, RemoveOld(piece) PROVE DatasetInv'
    <2>1. target # pointer
      BY <1>7 DEF RemoveOld, DatasetInv, TargetIsApart
    <2>2. With(files[target], piece, EmptyDirectory) \in Directory
      BY <1>1, <1>2 DEF With, Directory, Pieces, EmptyDirectory
    <2> QED
      BY <1>1, <1>7, <2>1, <2>2, MoveStep DEF RemoveOld
  <1>8. CASE PublishPointer
    <2>1. target # pointer /\ CopyOf(files[target], Here) /\ Missing(target) = {}
      BY <1>8 DEF PublishPointer, DatasetInv, TargetIsApart
    <2>2. CASE Goes("run")
      <3>1. [files[target] EXCEPT !.litter = FALSE] \in Directory
        BY <1>1 DEF Directory
      <3> QED
        BY <1>1, <1>8, <2>1, <2>2, <3>1, MoveStep DEF PublishPointer, Goes
    <2>3. CASE Goes("remove old") /\ pointer' = target /\ target' = pointer /\ UNCHANGED files
      <3>1. PICK g \in Directory : g = files[target]
        BY <1>1
      <3>2. Here' = g
        BY <2>3, <3>1 DEF Here
      <3>3. Here.key /\ Readable(Here.database) /\ Here.safety = NoFile /\ Here.database.of = userHas
            /\ (userHas \in Here.pictures \/ userHas = "empty")
        BY <1>8, DatabaseIsReadable DEF PublishPointer, DatasetInv, StageNeeds, DatasetWhole, Whole
      <3>4. g.database = Here.database /\ g.key /\ g.pictures = Here.pictures /\ g.safety = NoFile
        BY <1>1, <2>1, <3>1, <3>3, DatabaseIsReadable DEF Missing, Has, Pieces, CopyOf, Directory
      <3>5. DatasetTypeOK'
        BY <1>1, <1>8, <2>3 DEF PublishPointer, DatasetTypeOK, Stages, Goes
      <3>6. DatasetWhole' /\ SafetyIsMine'
        BY <1>8, <3>2, <3>3, <3>4, DatabaseIsReadable DEF PublishPointer, DatasetWhole, Whole, SafetyIsMine
      <3>7. StageNeeds' /\ TargetIsApart'
        BY <2>1, <2>3, <3>2, <3>3, <3>4 DEF StageNeeds, TargetIsApart, Goes
      <3> QED
        BY <3>5, <3>6, <3>7 DEF DatasetInv
    <2> QED
      BY <1>8, <2>2, <2>3 DEF PublishPointer
  <1> QED
    BY <1>3, <1>4, <1>5, <1>6, <1>7, <1>8 DEF StageIsDone

\* What recovery builds is adopted whole.
LEMMA RecoverySteps ==
  ASSUME DatasetInv,
         AdoptCandidate \/ \E d \in Directories, content \in Contents : BuildCandidate(d, content)
  PROVE  DatasetInv'
  <1>1. /\ DatasetTypeOK /\ Here \in Directory /\ files \in [Directories -> Directory]
        /\ pointer \in Directories /\ target \in Directories /\ unsynced \in BOOLEAN
    BY HereType DEF DatasetInv, DatasetTypeOK, Directory
  <1>2. CASE AdoptCandidate
    <2>1. PICK content \in Contents : files[target] = Candidate(content)
      BY <1>2 DEF AdoptCandidate, DatasetInv, TargetIsApart
    <2>2. PICK g \in Directory : g = Candidate(content)
      BY NewDirectories
    <2>3. g.database = [schema |-> Latest, of |-> content] /\ g.safety = NoFile /\ g.pictures = {content}
      BY <2>2, NewDirectories, Zenon
    <2>5. g.key
      BY <2>2, NewDirectories, Zenon
    <2>6. g.database \in Database /\ g.database.of = content
      BY <2>3, NewDatabase
    <2>4. /\ Here' = g /\ files' = files /\ pointer' = target /\ target' = target /\ unsynced' = FALSE
          /\ userHas' = content /\ stage' = "run" /\ afterwards' = afterwards
      BY <1>2, <2>1, <2>2, <2>6 DEF AdoptCandidate, Here, Goes
    <2> QED
      BY <1>1, <2>3, <2>4, <2>5, <2>6, RunningStep
  <1>3. ASSUME NEW d \in Directories, NEW content \in Contents, BuildCandidate(d, content)
        PROVE  DatasetInv'
    <2>1. d # pointer /\ pointer' = pointer /\ UNCHANGED <<afterwards, unsynced, userHas>> /\ stage = "refused"
      BY <1>3 DEF BuildCandidate
    <2>2. PICK g \in Directory : /\ Set(d, g)
                                 /\ \/ Goes("candidate") /\ target' = d /\ g = Candidate(content)
                                    \/ UNCHANGED <<stage, target>>
      <3>1. [EmptyDirectory EXCEPT !.key = TRUE, !.litter = TRUE] \in Directory
        BY DEF EmptyDirectory, Directory
      <3> QED
        BY <1>3, <3>1, NewDirectories DEF BuildCandidate
    <2>3. Here' = Here /\ files' \in [Directories -> Directory] /\ files'[d] = g
      BY <1>1, <2>1, <2>2, SetOther
    <2>4. DatasetTypeOK'
      BY <1>1, <2>1, <2>2, <2>3 DEF DatasetTypeOK, Directory, Stages, Goes
    <2>5. DatasetWhole' /\ SafetyIsMine'
      BY <2>1, <2>3 DEF DatasetInv, DatasetWhole, Whole, SafetyIsMine
    <2>6. StageNeeds'
      BY <2>1, <2>2 DEF StageNeeds, Goes
    <2>7. TargetIsApart'
      BY <2>1, <2>2, <2>3 DEF TargetIsApart, Goes
    <2> QED
      BY <2>4, <2>5, <2>6, <2>7 DEF DatasetInv
  <1> QED
    BY <1>2, <1>3

\* Wherever the core ends, and if the power takes an upgrade back, the data are as whole
\* as they were.
LEMMA HaltStep == DatasetInv /\ Halt => DatasetInv'
  <1> SUFFICES ASSUME DatasetInv, Halt PROVE DatasetInv'
    OBVIOUS
  <1>1. DatasetTypeOK /\ Here \in Directory /\ (Readable(Here.database) => Here.database \in Database)
    BY HereType DEF DatasetInv
  <1>2. CASE UNCHANGED files
    BY <1>2 DEF Halt, Here, DatasetInv, DatasetTypeOK, Stages, Goes, DatasetWhole, Whole,
       SafetyIsMine, StageNeeds, TargetIsApart
  <1>3. CASE Readable(Here.database) /\ Set(pointer, [Here EXCEPT !.database.schema = 1])
    <2>1. ASSUME NEW a \in Database
          PROVE  /\ [a EXCEPT !.schema = 1] \in Database
                 /\ [a EXCEPT !.schema = 1].of = a.of
      BY Schemas DEF Database
    <2>2. PICK b \in Database : b = [Here.database EXCEPT !.schema = 1] /\ b.of = Here.database.of
      BY <1>1, <1>3, <2>1
    <2>3. [Here EXCEPT !.database.schema = 1] = [Here EXCEPT !.database = b]
      BY <2>2
    <2>4. PICK g \in Directory : /\ g = [Here EXCEPT !.database = b]
                                 /\ g.key = Here.key /\ g.database = b /\ g.safety = Here.safety
                                 /\ g.pictures = Here.pictures
      <3>1. Here \in Directory /\ b \in Database
        BY <1>1, <2>2
      <3> QED
        BY <3>1, OneThing, Zenon
    <2>5. Here' = g /\ files' \in [Directories -> Directory]
      BY <1>1, <1>3, <2>3, <2>4, SetHere DEF Halt
    <2>6. DatasetTypeOK'
      BY <1>1, <2>5 DEF Halt, DatasetTypeOK, Directory, Stages, Goes
    <2>7. DatasetWhole' /\ SafetyIsMine'
      BY <1>3, <2>2, <2>4, <2>5, DatabaseIsReadable DEF Halt, DatasetInv, DatasetWhole, Whole, SafetyIsMine
    <2>8. StageNeeds' /\ TargetIsApart'
      BY DEF Halt, StageNeeds, TargetIsApart, Goes
    <2> QED
      BY <2>6, <2>7, <2>8 DEF DatasetInv
  <1> QED
    BY <1>2, <1>3 DEF Halt

\* Every step keeps the invariant.
LEMMA DatasetStep == DatasetInv /\ [DatasetNext]_datasetVars => DatasetInv'
  <1> SUFFICES ASSUME DatasetInv, [DatasetNext]_datasetVars PROVE DatasetInv'
    OBVIOUS
  <1>1. CASE UNCHANGED datasetVars
    <2>1. Here' = Here /\ Missing(target)' = Missing(target)
      BY <1>1 DEF datasetVars, Here, Missing
    <2>2. DatasetTypeOK' /\ DatasetWhole' /\ SafetyIsMine'
      BY <1>1, <2>1 DEF datasetVars, DatasetInv, DatasetTypeOK, DatasetWhole, Whole, SafetyIsMine
    <2>3. StageNeeds' /\ TargetIsApart'
      BY <1>1, <2>1 DEF datasetVars, DatasetInv, StageNeeds, TargetIsApart
    <2> QED
      BY <2>2, <2>3 DEF DatasetInv
  <1> QED
    BY <1>1, StageSteps, CheckStep, PutBackSteps, UpgradeSteps, RestoreSteps, MoveSteps, RecoverySteps,
       HaltStep DEF DatasetNext

\* What is in use is whole at every moment, and so is what a step is about to rely on.
THEOREM DatasetAlwaysInv == DatasetSpec => []DatasetInv
  BY DatasetInitInv, DatasetStep, PTL DEF DatasetSpec

\* Wherever an upgrade, a move, a restore or a recovery is cut off, by a crash or the power,
\* the directory that will be opened next holds the user's data, with key and pictures.
THEOREM DatasetAlwaysWhole == DatasetSpec => []DatasetWhole
  <1>1. DatasetInv => DatasetWhole
    BY DEF DatasetInv
  <1> QED
    BY <1>1, DatasetAlwaysInv, PTL

-----------------------------------------------------------------------------
(* SnapshotPanel. *)

Holdings == Pictures \cup {NoSlot, Omitted}

\* What the page listed is still there, or has lost its picture; unless the data was
\* cleared and the window does not know yet.
ListIsOfTheData ==
  ~dataChanged =>
    \A i \in SlotIds : panel[i] # NoSlot => slots[i] \in {panel[i], Omitted}

\* The decode under way is of the tile chosen, and what it read is the tile's picture.
DecodeIsOfTheChoice ==
  opening # NoDecode /\ ~dataChanged =>
    /\ opening.slot = chosen
    /\ opening.got \in Pictures => panel[chosen] \in {opening.got, Omitted}

\* A choice is of a tile.
ChoiceIsListed == chosen # NoSelection /\ ~dataChanged => panel[chosen] # NoSlot

PanelShape ==
  /\ slots \in [SlotIds -> Holdings] /\ panel \in [SlotIds -> Holdings]
  /\ chosen \in SlotIds \cup {NoSelection} /\ picture \in Pictures \cup {NoPicture}
  /\ opening \in Decodes \cup {NoDecode}
  /\ taken \in Nat /\ doomed \subseteq SlotIds

PanelInv == PanelShape /\ ListIsOfTheData /\ DecodeIsOfTheChoice /\ ChoiceIsListed /\ PreviewIsChosen

\* The marks for nothing are none of the things they stand for.
LEMMA PanelNumbers ==
  /\ NoSelection \notin SlotIds /\ NoPicture \notin Pictures /\ Unread \notin Pictures /\ MaxSlots \in SlotIds
  /\ NoSlot # Omitted /\ NoSlot \notin Pictures /\ Omitted \notin Pictures
  BY PanelAssumption DEF NoSelection, NoPicture, Unread, SlotIds, Pictures

\* Slots emptied are of the list still.
LEMMA EmptiedKeeps ==
  ASSUME PanelInv, NEW ids \in SUBSET SlotIds
  PROVE  /\ Emptied(ids) \in [SlotIds -> Holdings]
         /\ \A i \in SlotIds : Emptied(ids)[i] \in {slots[i], Omitted} /\ (Emptied(ids)[i] = NoSlot <=> slots[i] = NoSlot)
  BY PanelNumbers DEF PanelInv, PanelShape, Holdings, Emptied

\* What only the database does, emptying slots or filling a free one, keeps the invariant.
LEMMA DatabaseKeeps ==
  ASSUME PanelInv,
         \/ \E ids \in SUBSET SlotIds : slots' = Emptied(ids)
         \/ \E i \in SlotIds, h \in Holdings : slots[i] = NoSlot /\ slots' = [slots EXCEPT ![i] = h],
         taken' \in Nat, doomed' \subseteq SlotIds, UNCHANGED <<dataChanged, panel, chosen, picture, opening>>
  PROVE  PanelInv'
  <1>1. slots' \in [SlotIds -> Holdings]
        /\ \A i \in SlotIds : slots'[i] \in {slots[i], Omitted} \/ slots[i] = NoSlot
    BY EmptiedKeeps DEF PanelInv, PanelShape
  <1>2. PanelShape'
    BY <1>1 DEF PanelInv, PanelShape
  <1>3. ListIsOfTheData'
    BY <1>1, PanelNumbers DEF PanelInv, PanelShape, Holdings, ListIsOfTheData
  <1> QED
    BY <1>2, <1>3 DEF PanelInv, DecodeIsOfTheChoice, ChoiceIsListed, PreviewIsChosen

\* The free slot is one.
LEMMA FreeSlotType == ASSUME PanelInv, HasRoom PROVE FreeSlot \in SlotIds /\ slots[FreeSlot] = NoSlot
  <1>1. \A j \in SlotIds : slots[j] # NoSlot => j < MaxSlots
    BY PanelAssumption DEF HasRoom, SlotIds
  <1> QED
    BY <1>1, PanelNumbers DEF HasRoom, FreeSlot

\* A capture, an omitted one, retention and the deletion under way are such steps.
LEMMA OthersOfTheDatabase ==
  ASSUME PanelInv, Captured \/ CaptureOmitted \/ DeletesTicked \/ \E i \in SlotIds : RetentionEmpties(i)
  PROVE  PanelInv'
  <1>1. CASE Captured
    <2>1. taken + 1 \in Holdings
      BY <1>1, PanelAssumption DEF Captured, PanelInv, PanelShape, Holdings, Pictures
    <2>2. /\ HasRoom /\ slots' = [slots EXCEPT ![FreeSlot] = taken + 1] /\ taken' = taken + 1 /\ doomed' = doomed
          /\ UNCHANGED <<dataChanged, panel, chosen, picture, opening>>
      BY <1>1 DEF Captured, listVars, previewVars
    <2>3. FreeSlot \in SlotIds /\ slots[FreeSlot] = NoSlot
      BY <2>2, FreeSlotType
    <2>4. taken' \in Nat /\ doomed' \subseteq SlotIds
      BY <2>2 DEF PanelInv, PanelShape
    <2>5. \E i \in SlotIds, h \in Holdings : slots[i] = NoSlot /\ slots' = [slots EXCEPT ![i] = h]
      BY <2>1, <2>2, <2>3
    <2> QED
      BY <2>2, <2>4, <2>5, DatabaseKeeps
  <1>2. CASE CaptureOmitted
    BY <1>2, FreeSlotType, DatabaseKeeps DEF CaptureOmitted, PanelInv, PanelShape, Holdings, listVars, previewVars
  <1>3. CASE DeletesTicked
    BY <1>3, DatabaseKeeps DEF DeletesTicked, PanelInv, PanelShape, listVars, previewVars
  <1>4. CASE \E i \in SlotIds : RetentionEmpties(i)
    BY <1>4, DatabaseKeeps DEF RetentionEmpties, PanelInv, PanelShape, listVars, previewVars
  <1> QED
    BY <1>1, <1>2, <1>3, <1>4

\* Clearing everything empties the page, or leaves it knowing nothing of it yet.
LEMMA ClearsKeep == ASSUME PanelInv, ClearedAll \/ StartsAfresh PROVE PanelInv'
  <1>1. NoSlots \in [SlotIds -> Holdings]
    BY DEF NoSlots, Holdings
  <1>2. CASE ClearedAll
    BY <1>1, <1>2 DEF ClearedAll, PanelInv, PanelShape, ListIsOfTheData, DecodeIsOfTheChoice, ChoiceIsListed,
       PreviewIsChosen, listVars, previewVars
  <1>3. CASE StartsAfresh
    BY <1>1, <1>3, PanelNumbers DEF StartsAfresh, ClearPreview, PanelInv, PanelShape, ListIsOfTheData, DecodeIsOfTheChoice, ChoiceIsListed,
       PreviewIsChosen, NoSlots
  <1> QED
    BY <1>2, <1>3

\* The list is read anew: the choice stays if its slot is there.
LEMMA ListingKeeps ==
  ASSUME PanelInv, panel' = slots,
         IF chosen # NoSelection /\ slots[chosen] # NoSlot THEN UNCHANGED previewVars
         ELSE chosen' = NoSelection /\ ClearPreview,
         UNCHANGED <<databaseVars, doomed>>
  PROVE  PanelInv'
  <1>1. CASE chosen # NoSelection /\ slots[chosen] # NoSlot
    <2>1. UNCHANGED previewVars
      BY <1>1
    <2>2. PanelShape' /\ ListIsOfTheData' /\ ChoiceIsListed'
      BY <1>1, <2>1 DEF PanelInv, PanelShape, ListIsOfTheData, ChoiceIsListed, databaseVars, previewVars
    <2>3. ~dataChanged => slots[chosen] \in {panel[chosen], Omitted}
      BY <1>1 DEF PanelInv, PanelShape, ListIsOfTheData, ChoiceIsListed
    <2>4. DecodeIsOfTheChoice' /\ PreviewIsChosen'
      BY <1>1, <2>1, <2>3 DEF PanelInv, PanelShape, DecodeIsOfTheChoice, PreviewIsChosen, databaseVars, previewVars
    <2> QED
      BY <2>2, <2>4 DEF PanelInv
  <1>2. CASE ~(chosen # NoSelection /\ slots[chosen] # NoSlot)
    BY <1>2, PanelNumbers DEF ClearPreview, PanelInv, PanelShape, ListIsOfTheData, DecodeIsOfTheChoice, ChoiceIsListed,
       PreviewIsChosen, databaseVars
  <1> QED
    BY <1>1, <1>2

\* Each time the page lists anew.
LEMMA ListsKeep == ASSUME PanelInv, Refreshed \/ PanelShown \/ PanelLeft PROVE PanelInv'
  <1>1. CASE Refreshed
    BY <1>1, ListingKeeps DEF Refreshed, ListedAgain, databaseVars
  <1>2. CASE PanelShown
    BY <1>2, ListingKeeps DEF PanelShown, ListedAgain, databaseVars
  <1>3. CASE PanelLeft
    BY <1>3 DEF PanelLeft, PanelInv, PanelShape, ListIsOfTheData, DecodeIsOfTheChoice, ChoiceIsListed,
       PreviewIsChosen, databaseVars, listVars, previewVars
  <1> QED
    BY <1>1, <1>2, <1>3

\* A tile of the list that the window shows is opened.
LEMMA OpeningKeeps ==
  ASSUME PanelInv, NEW i \in SlotIds, OpenSlot(i, panel'),
         PanelShape', ListIsOfTheData', panel'[i] # NoSlot
  PROVE  PanelInv'
  <1>1. CASE panel'[i] \in Pictures
    <2>1. opening' = [slot |-> i, got |-> Unread] /\ chosen' = i
      BY <1>1 DEF OpenSlot
    <2>2. opening' # NoDecode /\ opening'.slot = i /\ opening'.got = Unread
      BY <2>1, PanelAssumption DEF Decodes
    <2> QED
      BY <1>1, <2>1, <2>2, PanelNumbers DEF PanelInv, PanelShape, DecodeIsOfTheChoice, ChoiceIsListed, PreviewIsChosen
  <1>2. CASE panel'[i] \notin Pictures
    BY <1>2, PanelNumbers DEF OpenSlot, ClearPreview, PanelInv, PanelShape, DecodeIsOfTheChoice, ChoiceIsListed, PreviewIsChosen
  <1> QED
    BY <1>1, <1>2

\* Opening a slot chooses it and may start a decode.
LEMMA OpenSlotType ==
  ASSUME PanelInv, NEW i \in SlotIds, NEW list, OpenSlot(i, list)
  PROVE  chosen' \in SlotIds /\ picture' \in Pictures \cup {NoPicture} /\ opening' \in Decodes \cup {NoDecode}
  BY DEF OpenSlot, ClearPreview, PanelInv, PanelShape, Decodes

\* A click opens the tile it is on.
LEMMA SelectedKeeps == ASSUME PanelInv, NEW i \in SlotIds, Selected(i) PROVE PanelInv'
  <1>1. UNCHANGED <<slots, panel, taken, doomed, dataChanged>> /\ OpenSlot(i, panel) /\ panel[i] # NoSlot
    BY DEF Selected, databaseVars, listVars
  <1>2. PanelShape' /\ ListIsOfTheData'
    BY <1>1, OpenSlotType DEF PanelInv, PanelShape, ListIsOfTheData
  <1> QED
    BY <1>1, <1>2, OpeningKeeps

\* Some slots have a first and a last one.
LEMMA SomeLeast ==
  ASSUME NEW T \in SUBSET SlotIds, T # {}
  PROVE  (\E x \in T : \A y \in T : x <= y) /\ (\E x \in T : \A y \in T : y <= x)
  <1>1. T \in SUBSET Nat /\ MaxSlots \in Nat /\ \A x \in T : x \in Nat /\ x <= MaxSlots
    BY PanelAssumption DEF SlotIds
  <1>2. \E x \in T : \A y \in T : x <= y
    BY <1>1, LeastNatural
  <1> DEFINE D == {MaxSlots - x : x \in T}
  <1>3. D \in SUBSET Nat /\ D # {}
    <2>1. \A x \in T : MaxSlots - x \in Nat
      BY <1>1
    <2> QED
      BY <2>1
  <1>4. PICK d \in D : \A e \in D : d <= e
    BY <1>3, LeastNatural
  <1>5. PICK x \in T : d = MaxSlots - x
    BY <1>4
  <1>6. \A y \in T : MaxSlots - x <= MaxSlots - y
    BY <1>4, <1>5
  <1>7. \A y \in T : y <= x
    BY <1>1, <1>6
  <1> QED
    BY <1>2, <1>7

\* The neighbour of a deleted tile is a slot, or there is none.
LEMMA NeighbourType == ASSUME NEW i PROVE Neighbour(i) \in SlotIds \cup {NoSelection}
  <1>1. Older(i) \in SUBSET SlotIds /\ Newer(i) \in SUBSET SlotIds
    BY DEF Older, Newer
  <1> HIDE DEF Older, Newer
  <1>2. Older(i) # {} => (CHOOSE j \in Older(i) : \A k \in Older(i) : k <= j) \in SlotIds
    BY <1>1, SomeLeast
  <1>3. Newer(i) # {} => (CHOOSE j \in Newer(i) : \A k \in Newer(i) : j <= k) \in SlotIds
    BY <1>1, SomeLeast
  <1> QED
    BY <1>2, <1>3 DEF Neighbour

\* Deleting the chosen tile opens its neighbour, or none when the list cannot be read.
LEMMA DeletesKeep == ASSUME PanelInv, DeleteChosen \/ DeleteChosenUnread PROVE PanelInv'
  <1>0. chosen \in SlotIds
    BY DEF DeleteChosen, DeleteChosenUnread, PanelInv, PanelShape
  <1>1. /\ Emptied({chosen}) \in [SlotIds -> Holdings]
        /\ \A i \in SlotIds : /\ Emptied({chosen})[i] \in {slots[i], Omitted}
                              /\ (Emptied({chosen})[i] = NoSlot <=> slots[i] = NoSlot)
    BY <1>0, EmptiedKeeps
  <1>2. slots' = Emptied({chosen}) /\ UNCHANGED <<taken, dataChanged, doomed>>
    BY DEF DeleteChosen, DeleteChosenUnread
  <1>3. CASE DeleteChosenUnread
    <2>1. OpenSlot(chosen, panel) /\ panel' = panel /\ panel[chosen] # NoSlot
      BY <1>3 DEF DeleteChosenUnread, listVars
    <2>2. PanelShape' /\ ListIsOfTheData'
      BY <1>0, <1>1, <1>2, <2>1, OpenSlotType DEF PanelInv, PanelShape, ListIsOfTheData
    <2> QED
      BY <1>0, <2>1, <2>2, OpeningKeeps
  <1>4. CASE DeleteChosen
    <2>1. panel' = slots'
      BY <1>4 DEF DeleteChosen
    <2>2. Neighbour(chosen) \in SlotIds \cup {NoSelection}
      BY NeighbourType
    <2>3. CASE Neighbour(chosen) # NoSelection /\ slots[Neighbour(chosen)] # NoSlot
      <3> DEFINE n == Neighbour(chosen)
      <3> HIDE DEF n
      <3>1. n \in SlotIds /\ OpenSlot(n, slots') /\ slots'[n] # NoSlot
        BY <1>1, <1>2, <1>4, <2>2, <2>3 DEF DeleteChosen, n
      <3>2. PanelShape' /\ ListIsOfTheData'
        BY <1>1, <1>2, <2>1, <3>1, OpenSlotType DEF PanelInv, PanelShape, ListIsOfTheData
      <3> QED
        BY <2>1, <3>1, <3>2, OpeningKeeps
    <2>4. CASE ~(Neighbour(chosen) # NoSelection /\ slots[Neighbour(chosen)] # NoSlot)
      <3>1. chosen' = NoSelection /\ ClearPreview
        BY <1>4, <2>4 DEF DeleteChosen
      <3> QED
        BY <1>1, <1>2, <2>1, <3>1, PanelNumbers DEF ClearPreview, PanelInv, PanelShape, ListIsOfTheData,
           DecodeIsOfTheChoice, ChoiceIsListed, PreviewIsChosen
    <2> QED
      BY <2>3, <2>4
  <1> QED
    BY <1>3, <1>4

\* Deleting the ticked tiles leaves no tile of theirs chosen.
LEMMA TickedKeep == ASSUME PanelInv, NEW ids \in SUBSET SlotIds, DeleteTicked(ids) PROVE PanelInv'
  <1>1. UNCHANGED <<slots, panel, taken, dataChanged>> /\ doomed' = ids
    BY DEF DeleteTicked, databaseVars, listVars
  <1>2. CASE chosen \in ids
    BY <1>1, <1>2, PanelNumbers DEF DeleteTicked, ClearPreview, PanelInv, PanelShape, ListIsOfTheData,
       DecodeIsOfTheChoice, ChoiceIsListed, PreviewIsChosen
  <1>3. CASE chosen \notin ids
    BY <1>1, <1>3 DEF DeleteTicked, previewVars, PanelInv, PanelShape, ListIsOfTheData,
       DecodeIsOfTheChoice, ChoiceIsListed, PreviewIsChosen
  <1> QED
    BY <1>2, <1>3

\* What a decode has read is shown only for the tile that it was started for.
LEMMA DecodesKeep == ASSUME PanelInv, PreviewIsRead \/ PreviewIsShown PROVE PanelInv'
  <1>1. UNCHANGED <<slots, panel, taken, dataChanged, chosen, doomed>> /\ opening \in Decodes
    BY DEF PreviewIsRead, PreviewIsShown, PanelInv, PanelShape, databaseVars, listVars
  <1>2. CASE PreviewIsRead
    <2>0. \A o \in Decodes, g \in Pictures \cup {NoPicture, Unread} :
            /\ [o EXCEPT !.got = g] \in Decodes /\ [o EXCEPT !.got = g].slot = o.slot /\ [o EXCEPT !.got = g].got = g
            /\ o.slot \in SlotIds
      BY DEF Decodes
    <2> DEFINE got == IF slots[opening.slot] \in Pictures THEN slots[opening.slot] ELSE NoPicture
    <2>1. opening' = [opening EXCEPT !.got = got] /\ got \in Pictures \cup {NoPicture}
          /\ (got \in Pictures => slots[opening.slot] = got)
      BY <1>2, PanelNumbers DEF PreviewIsRead
    <2> HIDE DEF got
    <2>2. opening' \in Decodes /\ opening'.slot = opening.slot /\ opening'.got = got /\ opening.slot \in SlotIds
      BY <1>1, <2>0, <2>1
    <2>3. opening # NoDecode /\ opening' # NoDecode /\ picture' = picture
      BY <1>2, <2>2, PanelAssumption DEF PreviewIsRead
    <2>4. ~dataChanged => opening.slot = chosen /\ chosen # NoSelection /\ panel[chosen] # NoSlot
      BY <2>2, <2>3, PanelNumbers DEF PanelInv, DecodeIsOfTheChoice, ChoiceIsListed
    <2>5. ~dataChanged /\ got \in Pictures => panel[chosen] \in {got, Omitted}
      <3>1. ~dataChanged => slots[opening.slot] \in {panel[opening.slot], Omitted}
        BY <2>2, <2>4 DEF PanelInv, ListIsOfTheData
      <3>2. got \in Pictures => got # Omitted /\ slots[opening.slot] = got
        BY <2>1, PanelNumbers
      <3> QED
        BY <2>4, <3>1, <3>2
    <2> QED
      BY <1>1, <2>2, <2>3, <2>4, <2>5 DEF PanelInv, PanelShape, ListIsOfTheData, DecodeIsOfTheChoice, ChoiceIsListed, PreviewIsChosen
  <1>3. CASE PreviewIsShown
    <2>1. opening # NoDecode /\ picture' = opening.got /\ opening' = NoDecode /\ opening.got \in Pictures \cup {NoPicture}
          /\ opening.slot \in SlotIds
      BY <1>1, <1>3 DEF PreviewIsShown, Decodes
    <2> QED
      BY <1>1, <2>1, PanelNumbers DEF PanelInv, PanelShape, ListIsOfTheData, DecodeIsOfTheChoice, ChoiceIsListed, PreviewIsChosen
  <1> QED
    BY <1>2, <1>3

\* What is on display, and what is under way to it, is of the tile chosen.
THEOREM PanelAlwaysInv == PanelSpec => []PanelInv
  <1>1. PanelInit => PanelInv
    BY PanelNumbers, PanelAssumption DEF PanelInit, NoSlots, Holdings, PanelInv, PanelShape, ListIsOfTheData, DecodeIsOfTheChoice,
       ChoiceIsListed, PreviewIsChosen
  <1>2. PanelInv /\ [PanelNext]_panelVars => PanelInv'
    <2> SUFFICES ASSUME PanelInv, [PanelNext]_panelVars PROVE PanelInv'
      OBVIOUS
    <2>1. CASE UNCHANGED <<databaseVars, panel, chosen, picture, opening, doomed>>
      BY <2>1 DEF databaseVars, PanelInv, PanelShape, ListIsOfTheData, DecodeIsOfTheChoice, ChoiceIsListed, PreviewIsChosen
    <2>2. CASE UNCHANGED panelVars
      BY <2>1, <2>2 DEF panelVars, databaseVars
    <2>3. CASE \E i \in SlotIds : ThumbIsRead(i)
      BY <2>1, <2>3 DEF ThumbIsRead, previewVars
    <2>4. CASE \E done \in thumbsDone : ThumbIsShown(done)
      BY <2>1, <2>4 DEF ThumbIsShown, previewVars
    <2> QED
      BY <2>2, <2>3, <2>4, OthersOfTheDatabase, ClearsKeep, ListsKeep, SelectedKeeps, DeletesKeep, TickedKeep, DecodesKeep DEF PanelNext
  <1> QED
    BY <1>1, <1>2, PTL DEF PanelSpec

\* PreviewIsChosen.
THEOREM PreviewAlwaysChosen == PanelSpec => []PreviewIsChosen
  <1>1. PanelInv => PreviewIsChosen
    BY DEF PanelInv
  <1> QED
    BY <1>1, PanelAlwaysInv, PTL

-----------------------------------------------------------------------------
(* AppHistory. *)

EventKinds == {"opened", "updated", "closed", "input"}
Event == [kind : EventKinds, use : Nat, at : Times]
UseOf == [from : Times, until : Times \cup {Open}]
StateRow == [use : Nat, from : Times, until : Times \cup {Open}]
Stretch == [from : Times, until : Times]

HistoryShape ==
  /\ now \in Times /\ life \in Seq(UseOf) /\ typing \subseteq Times /\ coming \in Seq(Event)
  /\ arrived \in 0..Len(life) /\ states \subseteq StateRow /\ minutes \subseteq Times /\ deletions \subseteq Stretch
  /\ cuts \in 0..MaxCuts /\ Len(life) <= MaxUses

\* One use after the other, none later than now.
LifeIsOver ==
  /\ \A u \in DOMAIN life : life[u].from <= now
  /\ \A u \in DOMAIN life : life[u].until # Open => life[u].from <= life[u].until /\ life[u].until <= now
  /\ \A u \in DOMAIN life : u # Len(life) => life[u].until # Open

DeletedBefore == \A d \in deletions : d.from < d.until /\ d.until <= now

Begins(e) == e.kind \in {"opened", "updated"}
Closes(e) == e.kind = "closed"

\* What an event on its way says.
EventsTell ==
  \A i \in DOMAIN coming :
    /\ Begins(coming[i]) => /\ coming[i].use \in (arrived + 1)..Len(life)
                            /\ coming[i].at = life[coming[i].use].from
    /\ coming[i].kind = "updated" => coming[i].use - 1 \in DOMAIN life /\ coming[i].at = life[coming[i].use - 1].until
    /\ Closes(coming[i]) => /\ coming[i].use \in DOMAIN life /\ arrived <= coming[i].use
                            /\ coming[i].at = life[coming[i].use].until

\* They come in the order in which they happened ...
EventsInOrder ==
  \A i, j \in DOMAIN coming : i < j =>
    /\ Begins(coming[i]) /\ Begins(coming[j]) => coming[i].use < coming[j].use
    /\ Closes(coming[i]) /\ Begins(coming[j]) => coming[i].use < coming[j].use
    /\ Begins(coming[i]) /\ Closes(coming[j]) => coming[i].use <= coming[j].use

\* ... and none is missing.
NoneIsMissing == \A u \in (arrived + 1)..Len(life) : \E i \in DOMAIN coming : Begins(coming[i]) /\ coming[i].use = u

OpenStates == {s \in states : s.until = Open}

\* A use has ended, or its end comes before position n.
EndsBefore(u, n) ==
  \/ \E j \in DOMAIN coming : j < n /\ Closes(coming[j]) /\ coming[j].use = u
  \/ u = arrived /\ OpenStates = {}

\* Before a window opens, the use before it has ended.
EndedFirst ==
  /\ \A i \in DOMAIN coming : coming[i].kind = "opened" /\ coming[i].use # 1 => EndsBefore(coming[i].use - 1, i)
  /\ Len(life) # 0 /\ life[Len(life)].until # Open => EndsBefore(Len(life), Len(coming) + 1)

Gone(t) == \E d \in deletions : d.from <= t /\ t < d.until

\* A state in storage is its use's, but for what was deleted; n uses have begun there.
StateTells(s, n) ==
  /\ s.use \in 1..n /\ life[s.use].from <= s.from
  /\ s.until = Open => s.use = n
  /\ s.until # Open => life[s.use].until # Open /\ s.until <= life[s.use].until
  /\ \A d \in deletions : d.from <= life[s.use].from => d.until <= s.from
  /\ \A t \in Times : life[s.use].from <= t /\ t < s.from => Gone(t)
  /\ \A t \in Times : s.until # Open /\ s.until <= t /\ t < life[s.use].until => Gone(t)

\* A use without one was deleted, all of it.
StatelessIsGone(u, kept) ==
  \/ \E s \in kept : s.use = u
  \/ /\ life[u].until # Open
     /\ \A t \in Times : life[u].from <= t /\ t < life[u].until => Gone(t)

StatesTell(kept, n) ==
  /\ \A s \in kept : StateTells(s, n)
  /\ \A s, t \in kept : s.use = t.use => s = t
  /\ \A u \in 1..n : StatelessIsGone(u, kept)

MinutesTell ==
  /\ \A m \in minutes : ~MinuteDeleted(m)
  /\ \A m \in typing : m \in minutes \/ MinuteDeleted(m) \/ \E i \in DOMAIN coming :
       coming[i].kind = "input" /\ coming[i].at = m

HistoryInv ==
  /\ HistoryShape /\ LifeIsOver /\ DeletedBefore
  /\ EventsTell /\ EventsInOrder /\ NoneIsMissing /\ EndedFirst
  /\ StatesTell(states, arrived)
  /\ MinutesTell

\* Some times have a latest.
LEMMA LatestTime ==
  ASSUME NEW T \in SUBSET Times, T # {}
  PROVE  \E x \in T : \A y \in T : y <= x
  <1>1. MaxTime \in Nat /\ \A x \in T : x \in Nat /\ x <= MaxTime
    BY AppHistoryAssumption DEF Times
  <1> DEFINE D == {MaxTime - x : x \in T}
  <1>2. \A x \in T : MaxTime - x \in Nat
    BY <1>1
  <1>3. D \in SUBSET Nat /\ D # {}
    BY <1>2
  <1>4. PICK e \in D : \A f \in D : e <= f
    BY <1>3, LeastNatural
  <1>5. PICK x \in T : e = MaxTime - x
    BY <1>4
  <1>6. \A y \in T : MaxTime - x <= MaxTime - y
    BY <1>4, <1>5
  <1> QED
    BY <1>1, <1>6

\* Times are numbers, and none is the end of what has not ended.
LEMMA TimesAreNumbers == /\ \A t \in Times : t \in Nat
                         /\ \A t \in Times : t # Open
  BY AppHistoryAssumption DEF Times

\* Where a late event starts: after every deletion that began before it, and whatever
\* lies between is deleted.
LEMMA StartsAfter ==
  ASSUME HistoryShape, DeletedBefore, NEW at \in Times
  PROVE  /\ StartAfterDeletions(at) \in Times /\ at <= StartAfterDeletions(at)
         /\ \A d \in deletions : d.from <= at => d.until <= StartAfterDeletions(at)
         /\ \A t \in Times : at <= t /\ t < StartAfterDeletions(at) => Gone(t)
  <1> DEFINE late == {e \in deletions : e.from <= at /\ at < e.until}
             over == {e.until : e \in late}
  <1>1. \A d \in deletions : d.from \in Times /\ d.until \in Times
    BY DEF HistoryShape, Stretch
  <1>2. over \in SUBSET Times
    BY <1>1
  <1>3. \A d \in deletions : d.from <= at => d.until <= at \/ d.until \in over
    BY <1>1, TimesAreNumbers
  <1>4. CASE over = {}
    <2>1. StartAfterDeletions(at) = at
      BY <1>4 DEF StartAfterDeletions
    <2> QED
      BY <1>3, <1>4, <2>1, TimesAreNumbers
  <1>5. CASE over # {}
    <2>1. StartAfterDeletions(at) = CHOOSE u \in over : \A v \in over : v <= u
      BY <1>5 DEF StartAfterDeletions
    <2>2. \E u \in over : \A v \in over : v <= u
      BY <1>2, <1>5, LatestTime
    <2> DEFINE r == StartAfterDeletions(at)
    <2>3. r \in over /\ \A v \in over : v <= r
      BY <2>1, <2>2
    <2> HIDE DEF r
    <2>4. PICK e \in late : r = e.until
      BY <2>3
    <2>5. r \in Times /\ at < r /\ e.from <= at /\ e \in deletions
      BY <1>1, <2>4
    <2>6. \A t \in Times : at <= t /\ t < r => Gone(t)
      BY <1>1, <2>4, <2>5, TimesAreNumbers DEF Gone
    <2>7. \A d \in deletions : d.from <= at => d.until <= r
      BY <1>1, <1>3, <2>3, <2>5, TimesAreNumbers
    <2> QED
      BY <2>5, <2>6, <2>7, TimesAreNumbers DEF r
  <1> QED
    BY <1>4, <1>5

\* The uses are numbered, each with its times.
LEMMA LifeType ==
  ASSUME HistoryShape
  PROVE  /\ Len(life) \in Nat /\ DOMAIN life = 1..Len(life)
         /\ \A u \in DOMAIN life : /\ life[u] \in UseOf /\ life[u].from \in Times
                                  /\ life[u].until \in Times \cup {Open}
  <1>1. life \in Seq(UseOf)
    BY DEF HistoryShape
  <1>2. \A u \in DOMAIN life : life[u] \in UseOf
    BY <1>1
  <1> QED
    BY <1>1, <1>2 DEF UseOf

\* A use begins in storage.
LEMMA BeginTells ==
  ASSUME HistoryShape, LifeIsOver, DeletedBefore, NEW kept \in SUBSET StateRow, NEW n \in Nat,
         n + 1 \in DOMAIN life, StatesTell(kept, n), \A s \in kept : s.until # Open,
         NEW row, row = [use |-> n + 1, from |-> StartAfterDeletions(life[n + 1].from), until |-> Open]
  PROVE  /\ kept \cup {row} \in SUBSET StateRow /\ StatesTell(kept \cup {row}, n + 1)
         /\ row.until = Open
  <1>1. life[n + 1] \in UseOf /\ life[n + 1].from \in Times
    BY LifeType
  <1>2. row \in StateRow /\ row.use = n + 1 /\ row.from = StartAfterDeletions(life[n + 1].from) /\ row.until = Open
    BY <1>1, StartsAfter DEF StateRow
  <1>3. StateTells(row, n + 1)
    <2>1. life[row.use].from <= row.from /\ row.use \in 1..(n + 1)
      BY <1>1, <1>2, StartsAfter
    <2>2. \A d \in deletions : d.from <= life[row.use].from => d.until <= row.from
      BY <1>1, <1>2, StartsAfter
    <2>3. \A t \in Times : life[row.use].from <= t /\ t < row.from => Gone(t)
      BY <1>1, <1>2, StartsAfter
    <2> QED
      BY <1>2, <2>1, <2>2, <2>3 DEF StateTells
  <1>4. \A s \in kept : StateTells(s, n + 1) /\ s.use # n + 1
    <2> SUFFICES ASSUME NEW s \in kept PROVE StateTells(s, n + 1) /\ s.use # n + 1
      OBVIOUS
    <2>1. StateTells(s, n) /\ s.until # Open
      BY DEF StatesTell
    <2>2. s.use \in 1..(n + 1) /\ s.use # n + 1
      BY <2>1 DEF StateTells
    <2> QED
      BY <2>1, <2>2 DEF StateTells
  <1>5. \A s, t \in kept \cup {row} : s.use = t.use => s = t
    BY <1>2, <1>4 DEF StatesTell
  <1>6. \A u \in 1..(n + 1) : StatelessIsGone(u, kept \cup {row})
    <2> SUFFICES ASSUME NEW u \in 1..(n + 1) PROVE StatelessIsGone(u, kept \cup {row})
      OBVIOUS
    <2>1. CASE u = n + 1
      BY <1>2, <2>1 DEF StatelessIsGone
    <2>2. CASE u # n + 1
      <3>1. u \in 1..n
        BY <2>2
      <3>2. StatelessIsGone(u, kept)
        BY <3>1 DEF StatesTell
      <3> QED
        BY <3>2 DEF StatelessIsGone
    <2> QED
      BY <2>1, <2>2
  <1>7. StatesTell(kept \cup {row}, n + 1)
    BY <1>3, <1>4, <1>5, <1>6 DEF StatesTell
  <1> QED
    BY <1>2, <1>7

\* What is open in storage ends.
LEMMA EndTells ==
  ASSUME HistoryShape, LifeIsOver, StatesTell(states, arrived), arrived \in DOMAIN life,
         NEW at \in Times, at = life[arrived].until
  PROVE  /\ StateEnds(at) \in SUBSET StateRow /\ StatesTell(StateEnds(at), arrived)
         /\ \A s \in StateEnds(at) : s.until # Open
  <1> DEFINE End(s) == [s EXCEPT !.until = IF @ = Open THEN at ELSE @]
             some == {t \in states : t.until # Open \/ t.from <= at}
  <1>1. StateEnds(at) = {End(s) : s \in some}
    BY DEF StateEnds
  <1>2. \A s \in states : /\ End(s) \in StateRow /\ End(s).use = s.use /\ End(s).from = s.from
                          /\ End(s).until = IF s.until = Open THEN at ELSE s.until
    BY DEF HistoryShape, StateRow
  <1>3. \A s \in states : s.until # Open => End(s) = s
    BY DEF HistoryShape, StateRow
  <1> HIDE DEF End
  <1>4. \A s \in StateEnds(at) : s.until # Open /\ s \in StateRow
    BY <1>1, <1>2, TimesAreNumbers
  <1>5. \A s \in some : StateTells(End(s), arrived)
    <2> SUFFICES ASSUME NEW s \in some PROVE StateTells(End(s), arrived)
      OBVIOUS
    <2>1. StateTells(s, arrived) /\ s \in StateRow
      BY DEF StatesTell, HistoryShape
    <2>2. CASE s.until # Open
      BY <1>3, <2>1, <2>2
    <2>3. CASE s.until = Open
      <3>1. End(s).until = at /\ s.use = arrived /\ at # Open /\ at \in Nat
        BY <1>2, <2>1, <2>3, TimesAreNumbers DEF StateTells
      <3>2. \A t \in Times : ~(at <= t /\ t < at)
        BY TimesAreNumbers
      <3> QED
        BY <1>2, <2>1, <2>3, <3>1, <3>2 DEF StateTells
    <2> QED
      BY <2>2, <2>3
  <1>6. \A s, t \in StateEnds(at) : s.use = t.use => s = t
    BY <1>1, <1>2 DEF StatesTell
  <1>7. ASSUME NEW u \in 1..arrived PROVE StatelessIsGone(u, StateEnds(at))
    <2>1. StatelessIsGone(u, states)
      BY DEF StatesTell
    <2>2. CASE \E s \in some : s.use = u
      BY <1>1, <1>2, <2>2 DEF StatelessIsGone
    <2>3. CASE ~\E s \in states : s.use = u
      BY <2>1, <2>3 DEF StatelessIsGone
    <2>4. CASE \E s \in states \ some : s.use = u
      <3>1. PICK s \in states \ some : s.use = u
        BY <2>4
      <3>2. s.until = Open /\ ~(s.from <= at) /\ StateTells(s, arrived) /\ s \in StateRow
        BY <3>1 DEF StatesTell, HistoryShape
      <3>3. u = arrived /\ s.from \in Times
        BY <3>1, <3>2 DEF StateTells, StateRow
      <3>4. \A t \in Times : t < at => t < s.from
        BY <3>2, <3>3, TimesAreNumbers
      <3>5. \A t \in Times : life[u].from <= t /\ t < life[u].until => Gone(t)
        BY <3>1, <3>2, <3>3, <3>4 DEF StateTells
      <3> QED
        BY <3>3, <3>5, TimesAreNumbers DEF StatelessIsGone
    <2> QED
      BY <2>2, <2>3, <2>4
  <1> QED
    BY <1>1, <1>4, <1>5, <1>6, <1>7 DEF StatesTell

\* The events on their way are numbered, each with its use and time.
LEMMA ComingType ==
  ASSUME HistoryShape
  PROVE  /\ Len(coming) \in Nat /\ DOMAIN coming = 1..Len(coming)
         /\ \A i \in DOMAIN coming : coming[i] \in Event /\ coming[i].use \in Nat /\ coming[i].at \in Times
  <1>1. coming \in Seq(Event)
    BY DEF HistoryShape
  <1>2. \A i \in DOMAIN coming : coming[i] \in Event
    BY <1>1
  <1> QED
    BY <1>1, <1>2 DEF Event

\* One more event is the last.
LEMMA Appending ==
  ASSUME HistoryShape, NEW e \in Event
  PROVE  LET all == Append(coming, e) IN
         /\ all \in Seq(Event) /\ Len(all) = Len(coming) + 1 /\ DOMAIN all = 1..(Len(coming) + 1)
         /\ all[Len(coming) + 1] = e /\ \A i \in DOMAIN coming : i \in DOMAIN all /\ all[i] = coming[i]
  <1>1. coming \in Seq(Event)
    BY DEF HistoryShape
  <1> QED
    BY <1>1

\* What happens leaves storage as it is, and what had happened.
Happening ==
  /\ UNCHANGED <<now, storageVars>>
  /\ life' \in Seq(UseOf) /\ Len(life) <= Len(life') /\ Len(life') <= MaxUses
  /\ \A u \in DOMAIN life : /\ u \in DOMAIN life' /\ life'[u].from = life[u].from
                            /\ life[u].until # Open => life'[u].until = life[u].until
  /\ typing' \subseteq Times

\* What is stored tells the same when only the application went on.
LEMMA StorageStays ==
  ASSUME HistoryInv, Happening
  PROVE  DeletedBefore' /\ StatesTell(states, arrived)'
  <1>1. UNCHANGED <<now, states, arrived, deletions>> /\ arrived \in Nat /\ 1..arrived \subseteq DOMAIN life
    BY LifeType DEF HistoryInv, HistoryShape, Happening, storageVars
  <1>2. \A t : Gone(t)' <=> Gone(t)
    BY <1>1 DEF Gone
  <1>3. \A u \in 1..arrived : /\ life'[u].from = life[u].from
                              /\ life[u].until # Open => life'[u].until = life[u].until
    BY <1>1 DEF Happening
  <1>4. ASSUME NEW s \in states PROVE StateTells(s, arrived)'
    <2>1. StateTells(s, arrived) /\ s.use \in 1..arrived
      BY DEF HistoryInv, StatesTell, StateTells
    <2>2. s.until # Open => life[s.use].until # Open
      BY <2>1 DEF StateTells
    <2> QED
      BY <1>1, <1>2, <1>3, <2>1, <2>2 DEF StateTells
  <1>5. ASSUME NEW u \in 1..arrived PROVE StatelessIsGone(u, states)'
    <2>1. StatelessIsGone(u, states)
      BY DEF HistoryInv, StatesTell
    <2> QED
      BY <1>1, <1>2, <1>3, <2>1 DEF StatelessIsGone
  <1>6. StatesTell(states, arrived)'
    BY <1>1, <1>4, <1>5 DEF HistoryInv, StatesTell
  <1> QED
    BY <1>1, <1>6 DEF HistoryInv, DeletedBefore

\* The events that were on their way still tell what happened.
LEMMA OldEventsStay ==
  ASSUME HistoryInv, Happening, NEW e \in Event, coming' = Append(coming, e)
  PROVE  /\ \A i \in DOMAIN coming :
              /\ coming'[i] = coming[i]
              /\ Begins(coming[i]) => /\ coming[i].use \in (arrived + 1)..Len(life')
                                      /\ coming[i].at = life'[coming[i].use].from
              /\ coming[i].kind = "updated" => coming[i].use - 1 \in DOMAIN life' /\ coming[i].at = life'[coming[i].use - 1].until
              /\ Closes(coming[i]) => /\ coming[i].use \in DOMAIN life' /\ arrived <= coming[i].use
                                      /\ coming[i].at = life'[coming[i].use].until
         /\ \A u, n \in Nat : n <= Len(coming) + 1 /\ EndsBefore(u, n) => EndsBefore(u, n)'
  <1>1. UNCHANGED <<states, arrived>> /\ arrived \in Nat
    BY DEF HistoryInv, HistoryShape, Happening, storageVars
  <1>2. \A i \in DOMAIN coming : i \in DOMAIN coming' /\ coming'[i] = coming[i]
    BY Appending DEF HistoryInv
  <1>3. \A u, n \in Nat : n <= Len(coming) + 1 /\ EndsBefore(u, n) => EndsBefore(u, n)'
    BY <1>1, <1>2 DEF EndsBefore, OpenStates, Closes
  <1>4. ASSUME NEW i \in DOMAIN coming
        PROVE  /\ Begins(coming[i]) => /\ coming[i].use \in (arrived + 1)..Len(life')
                                       /\ coming[i].at = life'[coming[i].use].from
               /\ coming[i].kind = "updated" => coming[i].use - 1 \in DOMAIN life' /\ coming[i].at = life'[coming[i].use - 1].until
               /\ Closes(coming[i]) => /\ coming[i].use \in DOMAIN life' /\ arrived <= coming[i].use
                                       /\ coming[i].at = life'[coming[i].use].until
    <2>1. coming[i].at # Open /\ coming[i].use \in Nat
      BY ComingType, TimesAreNumbers DEF HistoryInv
    <2>2. Len(life') \in Nat /\ Len(life) \in Nat /\ Len(life) <= Len(life') /\ DOMAIN life = 1..Len(life)
      BY LifeType DEF HistoryInv, Happening
    <2>3. CASE Begins(coming[i])
      <3>1. coming[i].use \in (arrived + 1)..Len(life) /\ coming[i].at = life[coming[i].use].from
        BY <2>3 DEF HistoryInv, EventsTell
      <3>2. coming[i].use \in DOMAIN life
        BY <1>1, <2>1, <2>2, <3>1
      <3>3. coming[i].use \in (arrived + 1)..Len(life') /\ coming[i].at = life'[coming[i].use].from
        BY <1>1, <2>2, <3>1, <3>2 DEF Happening
      <3>4. coming[i].kind = "updated" => coming[i].use - 1 \in DOMAIN life' /\ coming[i].at = life'[coming[i].use - 1].until
        BY <2>1 DEF HistoryInv, EventsTell, Happening
      <3> QED
        BY <2>3, <3>3, <3>4 DEF Begins, Closes
    <2>4. CASE ~Begins(coming[i])
      <3>1. Closes(coming[i]) => /\ coming[i].use \in DOMAIN life /\ arrived <= coming[i].use
                                 /\ coming[i].at = life[coming[i].use].until
        BY DEF HistoryInv, EventsTell
      <3> QED
        BY <2>1, <2>4, <3>1 DEF Happening, Begins
    <2> QED
      BY <2>3, <2>4
  <1> QED
    BY <1>2, <1>3, <1>4

\* A new event begins the latest use, or ends it.
InItsPlace(e) ==
  /\ Begins(e) => /\ e.use = Len(life') /\ Len(life) + 1 = Len(life') /\ e.at = life'[e.use].from
                  /\ life'[Len(life')].until = Open
  /\ e.kind = "updated" => Len(life) # 0 /\ e.at = life'[Len(life)].until
  /\ Closes(e) => Len(life) # 0 /\ e.use = Len(life) /\ Len(life) = Len(life') /\ e.at = life'[e.use].until
  /\ e.kind = "input" => life' = life
  /\ e.kind = "opened" /\ Len(life) # 0 => life[Len(life)].until # Open

\* What was on its way and an event that comes last, in its place, tell what happened.
LEMMA NewEventKeeps ==
  ASSUME HistoryInv, Happening, NEW e \in Event, coming' = Append(coming, e), InItsPlace(e)
  PROVE  EventsTell' /\ EventsInOrder' /\ NoneIsMissing' /\ EndedFirst'
  <1>1. UNCHANGED <<states, arrived>> /\ arrived \in Nat /\ arrived <= Len(life)
    BY LifeType DEF HistoryInv, HistoryShape, Happening, storageVars
  <1>2. Len(life') \in Nat /\ Len(life) \in Nat /\ Len(life) <= Len(life') /\ DOMAIN life = 1..Len(life) /\ DOMAIN life' = 1..Len(life')
    BY LifeType DEF HistoryInv, Happening
  <1>3. /\ Len(coming') = Len(coming) + 1 /\ DOMAIN coming' = 1..(Len(coming) + 1) /\ DOMAIN coming = 1..Len(coming)
        /\ coming'[Len(coming) + 1] = e /\ Len(coming) \in Nat
    BY Appending, ComingType DEF HistoryInv
  <1>4. \A i \in DOMAIN coming' : i \in DOMAIN coming \/ i = Len(coming) + 1
    BY <1>3
  <1>5. e.kind \in EventKinds /\ e.use \in Nat
    BY DEF Event
  <1>6. \A i \in DOMAIN coming : coming'[i] = coming[i]
    BY OldEventsStay
  <1>a. PICK l \in Nat, m \in Nat, n \in Nat : l = Len(life) /\ m = Len(life') /\ n = Len(coming)
    BY <1>2, <1>3
  <1>b. l <= m /\ arrived <= l /\ DOMAIN life = 1..l /\ DOMAIN life' = 1..m /\ DOMAIN coming = 1..n
        /\ DOMAIN coming' = 1..(n + 1) /\ coming'[n + 1] = e /\ Len(coming') = n + 1
    BY <1>1, <1>2, <1>3, <1>a
  <1>c. PICK v \in Nat : v = e.use
    BY <1>5
  <1>d. /\ Begins(e) => v = m /\ l + 1 = m /\ e.at = life'[v].from /\ life'[v].until = Open
        /\ e.kind = "updated" => l # 0 /\ e.at = life'[l].until /\ Begins(e)
        /\ Closes(e) => l # 0 /\ v = l /\ l = m /\ e.at = life'[v].until
        /\ e.kind = "input" => life' = life
        /\ e.kind = "opened" /\ l # 0 => life[l].until # Open
    BY <1>a, <1>c DEF InItsPlace, Begins
  <1>7. EventsTell'
    <2>1. Begins(e) => e.use \in (arrived + 1)..Len(life') /\ e.at = life'[e.use].from
      <3>1. Begins(e) => v \in (arrived + 1)..m
        BY <1>1, <1>b, <1>d
      <3> QED
        BY <1>a, <1>c, <1>d, <3>1
    <2>4. e.kind = "updated" => e.use - 1 \in DOMAIN life' /\ e.at = life'[e.use - 1].until
      <3>1. e.kind = "updated" => v - 1 = l /\ l \in 1..m
        BY <1>b, <1>d
      <3> QED
        BY <1>a, <1>b, <1>c, <1>d, <3>1
    <2>2. Closes(e) => e.use \in DOMAIN life' /\ arrived <= e.use /\ e.at = life'[e.use].until
      <3>1. Closes(e) => v \in 1..m /\ arrived <= v
        BY <1>1, <1>b, <1>d
      <3> QED
        BY <1>a, <1>b, <1>c, <1>d, <3>1
    <2>3. ASSUME NEW i \in DOMAIN coming'
          PROVE  /\ Begins(coming'[i]) => /\ coming'[i].use \in (arrived + 1)..Len(life')
                                          /\ coming'[i].at = life'[coming'[i].use].from
                 /\ coming'[i].kind = "updated" => coming'[i].use - 1 \in DOMAIN life' /\ coming'[i].at = life'[coming'[i].use - 1].until
                 /\ Closes(coming'[i]) => /\ coming'[i].use \in DOMAIN life' /\ arrived <= coming'[i].use
                                          /\ coming'[i].at = life'[coming'[i].use].until
      <3>1. CASE i \in DOMAIN coming
        <4>1. coming'[i] = coming[i]
          BY <1>6, <3>1
        <4> QED
          BY <3>1, <4>1, OldEventsStay
      <3>2. CASE i = Len(coming) + 1
        BY <1>3, <2>1, <2>2, <2>4, <3>2
      <3> QED
        BY <1>4, <3>1, <3>2
    <2> QED
      BY <1>1, <2>3 DEF EventsTell, Begins, Closes
  <1>8. EventsInOrder'
    <2>1. ASSUME NEW i \in DOMAIN coming
          PROVE  /\ Begins(coming[i]) /\ Begins(e) => coming[i].use < e.use
                 /\ Closes(coming[i]) /\ Begins(e) => coming[i].use < e.use
                 /\ Begins(coming[i]) /\ Closes(e) => coming[i].use <= e.use
      <3>1. PICK w \in Nat : coming[i].use = w
        BY ComingType DEF HistoryInv
      <3>2. Begins(coming[i]) => w \in (arrived + 1)..l
        BY <1>a, <3>1 DEF HistoryInv, EventsTell
      <3>3. Closes(coming[i]) => w \in 1..l
        BY <1>b, <3>1 DEF HistoryInv, EventsTell
      <3>4. (Begins(coming[i]) \/ Closes(coming[i])) => w <= l
        BY <1>1, <3>2, <3>3
      <3>5. /\ Begins(e) => v = l + 1
            /\ Closes(e) => v = l
        BY <1>d
      <3>6. /\ Begins(coming[i]) /\ Begins(e) => w < v
            /\ Closes(coming[i]) /\ Begins(e) => w < v
            /\ Begins(coming[i]) /\ Closes(e) => w <= v
        BY <3>4, <3>5
      <3> QED
        BY <1>c, <3>1, <3>6
    <2>2. ASSUME NEW i \in DOMAIN coming', NEW j \in DOMAIN coming', i < j
          PROVE  i \in DOMAIN coming /\ (j \in DOMAIN coming \/ j = Len(coming) + 1)
      BY <1>a, <1>b, <2>2
    <2> QED
      BY <1>3, <1>6, <2>1, <2>2 DEF HistoryInv, EventsInOrder, Begins, Closes
  <1>9. NoneIsMissing'
    <2> SUFFICES ASSUME NEW u \in (arrived + 1)..Len(life')
                 PROVE  \E i \in DOMAIN coming' : Begins(coming'[i]) /\ coming'[i].use = u
      BY <1>1 DEF NoneIsMissing, Begins
    <2>0. u \in (arrived + 1)..m /\ u \in Nat
      BY <1>1, <1>a
    <2>1. CASE u <= l
      <3>0. u \in (arrived + 1)..l
        BY <1>1, <2>0, <2>1
      <3>1. u \in (arrived + 1)..Len(life)
        BY <1>a, <3>0
      <3>2. PICK i \in DOMAIN coming : Begins(coming[i]) /\ coming[i].use = u
        BY <3>1 DEF HistoryInv, NoneIsMissing
      <3> QED
        BY <1>3, <1>6, <3>2
    <2>2. CASE ~(u <= l)
      <3>1. m # l
        BY <1>b, <2>0, <2>2
      <3>2. Begins(e)
        BY <1>5, <1>a, <1>d, <3>1 DEF Begins, Closes, EventKinds
      <3>3. u = v /\ n + 1 \in 1..(n + 1)
        BY <1>1, <1>b, <1>d, <2>0, <2>2, <3>2
      <3> QED
        BY <1>b, <1>c, <3>2, <3>3
    <2> QED
      BY <2>1, <2>2
  <1>10. EndedFirst'
    <2>1. ASSUME l # 0, life[l].until # Open PROVE EndsBefore(l, n + 1)'
      <3>1. EndsBefore(l, n + 1)
        BY <1>a, <2>1 DEF HistoryInv, EndedFirst
      <3>2. n + 1 \in Nat /\ n + 1 <= Len(coming) + 1
        BY <1>a
      <3> QED
        BY <3>1, <3>2, OldEventsStay
    <2>2. ASSUME NEW i \in DOMAIN coming', NEW u \in Nat, coming'[i].kind = "opened", coming'[i].use # 1, u = coming'[i].use - 1
          PROVE  EndsBefore(u, i)'
      <3>1. CASE i \in DOMAIN coming
        <4>1. coming'[i] = coming[i] /\ i \in Nat /\ i <= Len(coming) + 1
          BY <1>3, <1>6, <3>1
        <4>2. EndsBefore(u, i)
          BY <2>2, <3>1, <4>1 DEF HistoryInv, EndedFirst
        <4> QED
          BY <4>1, <4>2, OldEventsStay
      <3>2. CASE i = n + 1
        <4>1. coming'[i] = e
          BY <1>b, <3>2
        <4>2. e.kind = "opened" /\ v # 1 /\ u = v - 1 /\ Begins(e)
          BY <1>c, <2>2, <4>1 DEF Begins
        <4>3. u = l /\ l # 0 /\ life[l].until # Open
          BY <1>d, <4>2
        <4> QED
          BY <2>1, <3>2, <4>3
      <3> QED
        BY <1>4, <1>a, <3>1, <3>2
    <2>3. ASSUME NEW k \in Nat, k = n + 2, m # 0, life'[m].until # Open
          PROVE  EndsBefore(m, k)'
      <3>1. CASE Closes(e)
        <4>1. n + 1 \in 1..(n + 1) /\ n + 1 < k /\ m = v
          BY <1>d, <2>3, <3>1
        <4>2. n + 1 \in DOMAIN coming' /\ coming'[n + 1].use = m /\ coming'[n + 1].kind = "closed"
          BY <1>b, <1>c, <3>1, <4>1 DEF Closes
        <4> QED
          BY <4>1, <4>2 DEF EndsBefore, Closes
      <3>2. CASE e.kind = "input"
        <4>1. life' = life /\ l = m
          BY <1>a, <1>d, <3>2
        <4>2. EndsBefore(l, n + 1)'
          BY <2>1, <2>3, <4>1
        <4>3. \A j \in Nat : j < n + 1 => j < k
          BY <2>3
        <4>4. \A j \in DOMAIN coming' : j \in Nat
          BY <1>b
        <4> QED
          BY <4>1, <4>2, <4>3, <4>4 DEF EndsBefore
      <3> QED
        BY <1>5, <1>d, <2>3, <3>1, <3>2 DEF Begins, Closes, EventKinds
    <2>4. ASSUME NEW i \in DOMAIN coming', coming'[i].kind = "opened"
          PROVE  coming'[i].use - 1 \in Nat
      <3>1. coming'[i].use \in (arrived + 1)..Len(life')
        BY <1>1, <1>7, <2>4 DEF EventsTell, Begins
      <3>2. coming'[i].use \in (arrived + 1)..m
        BY <1>a, <3>1
      <3> QED
        BY <1>1, <3>2
    <2>5. PICK k \in Nat : k = n + 2 /\ k = Len(coming') + 1
      BY <1>b
    <2> QED
      BY <1>a, <2>2, <2>3, <2>4, <2>5 DEF EndedFirst
  <1> QED
    BY <1>7, <1>8, <1>9, <1>10

\* What happens, and the event that tells of it, keep the invariant.
LEMMA HappeningKeeps ==
  ASSUME HistoryInv, Happening, NEW e \in Event, coming' = Append(coming, e), InItsPlace(e), LifeIsOver',
         \A m \in typing' : m \in typing \/ (e.kind = "input" /\ e.at = m)
  PROVE  HistoryInv'
  <1>1. UNCHANGED <<now, arrived, states, minutes, deletions, cuts>>
    BY DEF Happening, storageVars
  <1>2. /\ coming' \in Seq(Event) /\ Len(coming') = Len(coming) + 1 /\ DOMAIN coming' = 1..(Len(coming) + 1)
        /\ coming'[Len(coming) + 1] = e /\ \A i \in DOMAIN coming : i \in DOMAIN coming' /\ coming'[i] = coming[i]
    BY Appending DEF HistoryInv
  <1>3. Len(life) \in Nat /\ Len(life') \in Nat
    BY LifeType DEF HistoryInv, Happening
  <1>4. HistoryShape'
    BY <1>1, <1>2, <1>3 DEF HistoryInv, HistoryShape, Happening
  <1>5. MinutesTell'
    <2>1. \A m : MinuteDeleted(m)' <=> MinuteDeleted(m)
      BY <1>1 DEF MinuteDeleted
    <2>2. Len(coming) + 1 \in DOMAIN coming'
      BY <1>2, ComingType DEF HistoryInv
    <2>3. ASSUME NEW m \in typing'
          PROVE  m \in minutes' \/ MinuteDeleted(m)' \/ \E i \in DOMAIN coming' : coming'[i].kind = "input" /\ coming'[i].at = m
      <3>1. CASE m \in typing
        BY <1>1, <1>2, <2>1, <3>1 DEF HistoryInv, MinutesTell
      <3>2. CASE e.kind = "input" /\ e.at = m
        BY <1>2, <2>2, <3>2
      <3> QED
        BY <3>1, <3>2
    <2> QED
      BY <1>1, <2>1, <2>3 DEF HistoryInv, MinutesTell
  <1> QED
    BY <1>4, <1>5, StorageStays, NewEventKeeps DEF HistoryInv

\* The latest use ends now.
LEMMA EndingUse ==
  ASSUME HistoryInv, InUse
  PROVE  /\ Len(life) # 0 /\ Ended \in Seq(UseOf) /\ Len(Ended) = Len(life) /\ DOMAIN Ended = DOMAIN life
         /\ \A u \in DOMAIN life : /\ Ended[u].from = life[u].from
                                   /\ Ended[u].until = IF u = Len(life) THEN now ELSE life[u].until
  <1>1. life \in Seq(UseOf) /\ now \in Times
    BY DEF HistoryInv, HistoryShape
  <1>2. Len(life) # 0
    BY <1>1 DEF InUse
  <1>3. \A u \in DOMAIN life : life[u] \in UseOf
    BY <1>1
  <1>4. \A r \in UseOf : /\ [r EXCEPT !.until = now] \in UseOf /\ [r EXCEPT !.until = now].from = r.from
                         /\ [r EXCEPT !.until = now].until = now
    BY <1>1 DEF UseOf
  <1>5. Len(life) \in DOMAIN life
    BY <1>1, <1>2
  <1>6. PICK r \in UseOf : r = [life[Len(life)] EXCEPT !.until = now] /\ r.from = life[Len(life)].from /\ r.until = now
    BY <1>3, <1>4, <1>5
  <1>7. Ended = [life EXCEPT ![Len(life)] = r]
    BY <1>6 DEF Ended
  <1>8. Ended \in Seq(UseOf) /\ Len(Ended) = Len(life) /\ DOMAIN Ended = DOMAIN life
    BY <1>1, <1>5, <1>7
  <1>9. \A u \in DOMAIN life : Ended[u] = IF u = Len(life) THEN r ELSE life[u]
    BY <1>1, <1>7
  <1> QED
    BY <1>2, <1>6, <1>8, <1>9

\* A new use begins now.
LEMMA NextUse ==
  ASSUME HistoryInv, NEW uses \in Seq(UseOf), NEW n \in Nat, n = Len(uses)
  PROVE  LET all == Append(uses, [from |-> now, until |-> Open]) IN
         /\ all \in Seq(UseOf) /\ Len(all) = n + 1 /\ DOMAIN all = 1..(n + 1) /\ n + 1 \in DOMAIN all
         /\ all[n + 1].from = now /\ all[n + 1].until = Open
         /\ \A u \in DOMAIN uses : u \in DOMAIN all /\ all[u] = uses[u]
  <1>0. [from |-> now, until |-> Open] \in UseOf
    BY DEF HistoryInv, HistoryShape, UseOf
  <1>1. PICK r \in UseOf : r = [from |-> now, until |-> Open] /\ r.from = now /\ r.until = Open
    BY <1>0
  <1>2. Append(uses, r)[n + 1] = r
    OBVIOUS
  <1> QED
    BY <1>1, <1>2

\* A window that opens is the next use.
LEMMA WindowOpeningKeeps == HistoryInv /\ WindowOpens => HistoryInv'
  <1> SUFFICES ASSUME HistoryInv, WindowOpens PROVE HistoryInv'
    OBVIOUS
  <1>1. PICK n \in Nat : n = Len(life)
    BY LifeType DEF HistoryInv
  <1>2. life \in Seq(UseOf) /\ now \in Times /\ DOMAIN life = 1..n
    BY <1>1, LifeType DEF HistoryInv, HistoryShape
  <1>3. life' = Append(life, [from |-> now, until |-> Open])
    BY DEF WindowOpens
  <1>4. /\ life' \in Seq(UseOf) /\ Len(life') = n + 1 /\ DOMAIN life' = 1..(n + 1) /\ n + 1 \in DOMAIN life'
        /\ life'[n + 1].from = now /\ life'[n + 1].until = Open
        /\ \A u \in DOMAIN life : u \in DOMAIN life' /\ life'[u] = life[u]
    BY <1>1, <1>2, <1>3, NextUse
  <1>5. PICK e \in Event : /\ coming' = Append(coming, e) /\ e.kind = "opened" /\ e.use = n + 1 /\ e.at = now
    <2>1. [kind |-> "opened", use |-> n + 1, at |-> now] \in Event
      BY <1>2 DEF Event, EventKinds
    <2> QED
      BY <1>1, <2>1 DEF WindowOpens, Sends
  <1>6. n < MaxUses /\ MaxUses \in Nat
    BY <1>1, AppHistoryAssumption DEF WindowOpens
  <1>7. Happening
    <2>1. Len(life) <= Len(life') /\ Len(life') <= MaxUses
      BY <1>1, <1>4, <1>6
    <2> QED
      BY <1>4, <2>1 DEF WindowOpens, Happening, HistoryInv, HistoryShape
  <1>8. n # 0 => life[n].until # Open
    BY <1>1, <1>2 DEF WindowOpens, InUse
  <1>9. InItsPlace(e)
    <2>1. Begins(e) /\ e.kind # "updated" /\ ~Closes(e) /\ e.kind # "input"
      BY <1>5 DEF Begins, Closes
    <2>2. e.use = Len(life') /\ Len(life) + 1 = Len(life') /\ e.at = life'[e.use].from
      BY <1>1, <1>4, <1>5
    <2>3. life'[Len(life')].until = Open
      BY <1>4
    <2> QED
      BY <1>1, <1>8, <2>1, <2>2, <2>3 DEF InItsPlace
  <1>10. LifeIsOver'
    <2>1. now' = now
      BY DEF WindowOpens
    <2>2. \A u \in DOMAIN life' : u \in DOMAIN life \/ u = n + 1
      BY <1>2, <1>4
    <2>3. now <= now
      BY <1>2, TimesAreNumbers
    <2>4. \A u \in DOMAIN life : life[u].until # Open
      BY <1>1, <1>2, <1>8 DEF HistoryInv, LifeIsOver
    <2>5. \A u \in DOMAIN life' : life'[u].from <= now
      BY <1>4, <2>2, <2>3 DEF HistoryInv, LifeIsOver
    <2>6. \A u \in DOMAIN life' : life'[u].until # Open => life'[u].from <= life'[u].until /\ life'[u].until <= now
      BY <1>4, <2>2 DEF HistoryInv, LifeIsOver
    <2>7. \A u \in DOMAIN life' : u # Len(life') => life'[u].until # Open
      BY <1>4, <2>2, <2>4
    <2> QED
      BY <2>1, <2>5, <2>6, <2>7 DEF LifeIsOver
  <1>11. typing' = typing
    BY DEF WindowOpens
  <1> QED
    BY <1>5, <1>7, <1>9, <1>10, <1>11, HappeningKeeps

\* A window that changes ends a use and begins the next.
LEMMA ChangingKeeps == HistoryInv /\ WindowChanges => HistoryInv'
  <1> SUFFICES ASSUME HistoryInv, WindowChanges PROVE HistoryInv'
    OBVIOUS
  <1>1. PICK n \in Nat : n = Len(life)
    BY LifeType DEF HistoryInv
  <1>2. life \in Seq(UseOf) /\ now \in Times /\ DOMAIN life = 1..n
    BY <1>1, LifeType DEF HistoryInv, HistoryShape
  <1>0. PICK uses \in Seq(UseOf) : uses = Ended
    BY EndingUse DEF WindowChanges
  <1>3. life' = Append(uses, [from |-> now, until |-> Open])
    BY <1>0 DEF WindowChanges
  <1>a. /\ n # 0 /\ Len(uses) = n /\ DOMAIN uses = DOMAIN life
        /\ \A u \in DOMAIN life : /\ uses[u].from = life[u].from
                                  /\ uses[u].until = IF u = n THEN now ELSE life[u].until
    BY <1>0, <1>1, EndingUse DEF WindowChanges
  <1>4. /\ life' \in Seq(UseOf) /\ Len(life') = n + 1 /\ DOMAIN life' = 1..(n + 1) /\ n + 1 \in DOMAIN life'
        /\ life'[n + 1].from = now /\ life'[n + 1].until = Open
        /\ \A u \in DOMAIN uses : u \in DOMAIN life' /\ life'[u] = uses[u]
    BY <1>a, <1>3, NextUse
  <1>b. \A u \in DOMAIN life : /\ u \in DOMAIN life' /\ life'[u].from = life[u].from
                               /\ life'[u].until = IF u = n THEN now ELSE life[u].until
    BY <1>4, <1>a
  <1>c. n \in DOMAIN life /\ life[n].until = Open
    BY <1>1, <1>2, <1>a DEF WindowChanges, InUse
  <1>5. PICK e \in Event : /\ coming' = Append(coming, e) /\ e.kind = "updated" /\ e.use = n + 1 /\ e.at = now
    <2>1. [kind |-> "updated", use |-> n + 1, at |-> now] \in Event
      BY <1>2 DEF Event, EventKinds
    <2> QED
      BY <1>1, <2>1 DEF WindowChanges, Sends
  <1>6. n < MaxUses /\ MaxUses \in Nat
    BY <1>1, AppHistoryAssumption DEF WindowChanges
  <1>7. Happening
    <2>1. Len(life) <= Len(life') /\ Len(life') <= MaxUses
      BY <1>1, <1>4, <1>6
    <2>2. \A u \in DOMAIN life : life[u].until # Open => life'[u].until = life[u].until
      BY <1>b, <1>c
    <2> QED
      BY <1>4, <1>b, <2>1, <2>2 DEF WindowChanges, Happening, HistoryInv, HistoryShape
  <1>9. InItsPlace(e)
    <2>1. Begins(e) /\ e.kind # "opened" /\ ~Closes(e) /\ e.kind # "input"
      BY <1>5 DEF Begins, Closes
    <2>2. e.use = Len(life') /\ Len(life) + 1 = Len(life') /\ e.at = life'[e.use].from
      BY <1>1, <1>4, <1>5
    <2>3. life'[Len(life')].until = Open /\ e.at = life'[Len(life)].until
      BY <1>1, <1>4, <1>5, <1>b, <1>c
    <2> QED
      BY <1>1, <1>a, <2>1, <2>2, <2>3 DEF InItsPlace
  <1>10. LifeIsOver'
    <2>1. now' = now
      BY DEF WindowChanges
    <2>2. \A u \in DOMAIN life' : u \in DOMAIN life \/ u = n + 1
      BY <1>2, <1>4
    <2>3. now <= now /\ now # Open
      BY <1>2, TimesAreNumbers
    <2>5. \A u \in DOMAIN life' : life'[u].from <= now
      BY <1>4, <1>b, <2>2, <2>3 DEF HistoryInv, LifeIsOver
    <2>6. \A u \in DOMAIN life' : life'[u].until # Open => life'[u].from <= life'[u].until /\ life'[u].until <= now
      BY <1>4, <1>b, <2>2, <2>3 DEF HistoryInv, LifeIsOver
    <2>7. \A u \in DOMAIN life' : u # Len(life') => life'[u].until # Open
      BY <1>1, <1>4, <1>b, <2>2, <2>3 DEF HistoryInv, LifeIsOver
    <2> QED
      BY <2>1, <2>5, <2>6, <2>7 DEF LifeIsOver
  <1>11. typing' = typing
    BY DEF WindowChanges
  <1> QED
    BY <1>5, <1>7, <1>9, <1>10, <1>11, HappeningKeeps

\* A window that closes ends the latest use.
LEMMA ClosingKeeps == HistoryInv /\ WindowCloses => HistoryInv'
  <1> SUFFICES ASSUME HistoryInv, WindowCloses PROVE HistoryInv'
    OBVIOUS
  <1>1. PICK n \in Nat : n = Len(life)
    BY LifeType DEF HistoryInv
  <1>2. life \in Seq(UseOf) /\ now \in Times /\ DOMAIN life = 1..n
    BY <1>1, LifeType DEF HistoryInv, HistoryShape
  <1>3. life' = Ended
    BY DEF WindowCloses
  <1>4. /\ n # 0 /\ life' \in Seq(UseOf) /\ Len(life') = n /\ DOMAIN life' = DOMAIN life
        /\ \A u \in DOMAIN life : /\ life'[u].from = life[u].from
                                  /\ life'[u].until = IF u = n THEN now ELSE life[u].until
    BY <1>1, <1>3, EndingUse DEF WindowCloses
  <1>c. n \in DOMAIN life /\ life[n].until = Open
    BY <1>1, <1>2, <1>4 DEF WindowCloses, InUse
  <1>5. PICK e \in Event : /\ coming' = Append(coming, e) /\ e.kind = "closed" /\ e.use = n /\ e.at = now
    <2>1. [kind |-> "closed", use |-> n, at |-> now] \in Event
      BY <1>2 DEF Event, EventKinds
    <2> QED
      BY <1>1, <2>1 DEF WindowCloses, Sends
  <1>7. Happening
    <2>1. Len(life) <= Len(life') /\ Len(life') <= MaxUses
      BY <1>1, <1>4 DEF HistoryInv, HistoryShape
    <2>2. \A u \in DOMAIN life : life[u].until # Open => life'[u].until = life[u].until
      BY <1>4, <1>c
    <2> QED
      BY <1>4, <2>1, <2>2 DEF WindowCloses, Happening, HistoryInv, HistoryShape
  <1>9. InItsPlace(e)
    <2>1. ~Begins(e) /\ e.kind # "opened" /\ e.kind # "updated" /\ e.kind # "input"
      BY <1>5 DEF Begins
    <2>2. e.use = Len(life) /\ Len(life) = Len(life') /\ e.at = life'[e.use].until
      BY <1>1, <1>4, <1>5, <1>c
    <2> QED
      BY <1>1, <1>4, <2>1, <2>2 DEF InItsPlace
  <1>10. LifeIsOver'
    <2>1. now' = now
      BY DEF WindowCloses
    <2>3. now <= now /\ now # Open
      BY <1>2, TimesAreNumbers
    <2>5. \A u \in DOMAIN life' : life'[u].from <= now
      BY <1>4 DEF HistoryInv, LifeIsOver
    <2>6. \A u \in DOMAIN life' : life'[u].until # Open => life'[u].from <= life'[u].until /\ life'[u].until <= now
      BY <1>4, <2>3 DEF HistoryInv, LifeIsOver
    <2>7. \A u \in DOMAIN life' : u # Len(life') => life'[u].until # Open
      BY <1>1, <1>4 DEF HistoryInv, LifeIsOver
    <2> QED
      BY <2>1, <2>5, <2>6, <2>7 DEF LifeIsOver
  <1>11. typing' = typing
    BY DEF WindowCloses
  <1> QED
    BY <1>5, <1>7, <1>9, <1>10, <1>11, HappeningKeeps

\* A minute that is sealed is on its way.
LEMMA SealingKeeps == HistoryInv /\ MinuteSealed => HistoryInv'
  <1> SUFFICES ASSUME HistoryInv, MinuteSealed PROVE HistoryInv'
    OBVIOUS
  <1>1. PICK m : m = now - 1
    OBVIOUS
  <1>2. m \in Times
    BY <1>1, AppHistoryAssumption DEF MinuteSealed, HistoryInv, HistoryShape, Times
  <1>3. PICK e \in Event : coming' = Append(coming, e) /\ e.kind = "input" /\ e.at = m
    <2>1. [kind |-> "input", use |-> 0, at |-> m] \in Event
      BY <1>2 DEF Event, EventKinds
    <2> QED
      BY <1>1, <2>1 DEF MinuteSealed, Sends
  <1>4. typing' = typing \cup {m} /\ life' = life
    BY <1>1 DEF MinuteSealed
  <1>5. Happening
    <2>1. Len(life) <= Len(life)
      BY LifeType DEF HistoryInv
    <2> QED
      BY <1>2, <1>4, <2>1 DEF MinuteSealed, Happening, HistoryInv, HistoryShape
  <1>6. InItsPlace(e)
    BY <1>3, <1>4 DEF InItsPlace, Begins, Closes
  <1>7. LifeIsOver'
    BY <1>4 DEF MinuteSealed, HistoryInv, LifeIsOver
  <1> QED
    BY <1>3, <1>4, <1>5, <1>6, <1>7, HappeningKeeps

\* Nothing that was over is changed by time.
LEMMA PassingKeeps == HistoryInv /\ TimePasses => HistoryInv'
  <1> SUFFICES ASSUME HistoryInv, TimePasses PROVE HistoryInv'
    OBVIOUS
  <1>1. now \in Times /\ now' = now + 1 /\ now < MaxTime
    BY DEF TimePasses, HistoryInv, HistoryShape
  <1>2. now' \in Times /\ now <= now' /\ now \in Nat /\ now' \in Nat
    BY <1>1, AppHistoryAssumption DEF Times
  <1>3. UNCHANGED <<life, typing, coming, arrived, states, minutes, deletions, cuts>>
    BY DEF TimePasses, storageVars
  <1>4. \A t \in Times \cup {Open} : t # Open => t \in Nat
    BY TimesAreNumbers
  <1>5. HistoryShape'
    BY <1>2, <1>3 DEF HistoryInv, HistoryShape
  <1>6. LifeIsOver'
    <2>1. ASSUME NEW u \in DOMAIN life PROVE life[u].from <= now' /\ (life[u].until # Open => life[u].until <= now')
      <3>1. life[u].from \in Nat /\ life[u].from <= now
        BY LifeType, TimesAreNumbers DEF HistoryInv, LifeIsOver
      <3>2. life[u].until # Open => life[u].until \in Nat /\ life[u].until <= now
        BY <1>4, LifeType DEF HistoryInv, LifeIsOver
      <3> QED
        BY <1>2, <3>1, <3>2
    <2> QED
      BY <1>3, <2>1 DEF HistoryInv, LifeIsOver
  <1>7. DeletedBefore'
    <2>1. \A d \in deletions : d.until \in Nat /\ d.until <= now
      BY TimesAreNumbers DEF HistoryInv, HistoryShape, Stretch, DeletedBefore
    <2>2. \A d \in deletions : d.until <= now'
      BY <1>2, <2>1
    <2> QED
      BY <1>3, <2>2 DEF HistoryInv, DeletedBefore
  <1>8. EventsTell' /\ EventsInOrder' /\ NoneIsMissing' /\ EndedFirst'
    BY <1>3 DEF HistoryInv, EventsTell, EventsInOrder, NoneIsMissing, EndedFirst, Begins, Closes, EndsBefore, OpenStates
  <1>9. \A t : Gone(t)' <=> Gone(t)
    BY <1>3 DEF Gone
  <1>10. StatesTell(states, arrived)'
    BY <1>3, <1>9 DEF HistoryInv, StatesTell, StateTells, StatelessIsGone
  <1>11. MinutesTell'
    BY <1>3 DEF HistoryInv, MinutesTell, MinuteDeleted
  <1> QED
    BY <1>5, <1>6, <1>7, <1>8, <1>10, <1>11 DEF HistoryInv

\* The event that arrives is the next: it begins the next use, or ends the latest.
LEMMA NextArrives ==
  ASSUME HistoryInv, Len(coming) # 0, NEW e, e = Head(coming)
  PROVE  /\ e \in Event /\ e.kind \in EventKinds /\ e.at \in Times
         /\ Begins(e) => /\ e.use = arrived + 1 /\ arrived + 1 \in DOMAIN life /\ e.at = life[arrived + 1].from
         /\ e.kind = "opened" => OpenStates = {}
         /\ e.kind = "updated" => arrived \in DOMAIN life /\ e.at = life[arrived].until
         /\ Closes(e) => e.use = arrived /\ arrived \in DOMAIN life /\ e.at = life[arrived].until
  <1>1. PICK n \in Nat, l \in Nat : n = Len(coming) /\ l = Len(life) /\ DOMAIN coming = 1..n /\ DOMAIN life = 1..l /\ n # 0
    BY ComingType, LifeType DEF HistoryInv
  <1>2. coming \in Seq(Event) /\ arrived \in Nat /\ arrived <= l
    BY <1>1 DEF HistoryInv, HistoryShape
  <1>3. 1 \in DOMAIN coming /\ e = coming[1] /\ e \in Event
    BY <1>1, <1>2
  <1>4. e.kind \in EventKinds /\ e.use \in Nat /\ e.at \in Times
    BY <1>3 DEF Event
  <1>5. PICK v \in Nat : v = e.use
    BY <1>4
  <1>6. /\ Begins(e) => v \in (arrived + 1)..l /\ e.at = life[v].from
        /\ e.kind = "updated" => v - 1 \in 1..l /\ e.at = life[v - 1].until
        /\ Closes(e) => v \in 1..l /\ arrived <= v /\ e.at = life[v].until
    BY <1>1, <1>3, <1>5 DEF HistoryInv, EventsTell
  <1>7. \A u \in (arrived + 1)..l : \E i \in DOMAIN coming : Begins(coming[i]) /\ coming[i].use = u
    BY <1>1 DEF HistoryInv, NoneIsMissing
  <1>8. \A i \in DOMAIN coming : i # 1 =>
          /\ Begins(e) /\ Begins(coming[i]) => v < coming[i].use
          /\ Closes(e) /\ Begins(coming[i]) => v < coming[i].use
    <2>1. \A i \in DOMAIN coming : i # 1 => 1 < i
      BY <1>1
    <2> QED
      BY <1>3, <1>5, <2>1 DEF HistoryInv, EventsInOrder
  <1>9. Begins(e) => v = arrived + 1
    <2> SUFFICES ASSUME Begins(e), v # arrived + 1 PROVE FALSE
      OBVIOUS
    <2>1. v \in (arrived + 1)..l /\ arrived + 1 \in (arrived + 1)..l /\ ~(v < arrived + 1)
      BY <1>2, <1>6
    <2>2. PICK i \in DOMAIN coming : Begins(coming[i]) /\ coming[i].use = arrived + 1
      BY <1>7, <2>1
    <2>3. i # 1
      BY <1>3, <1>5, <2>2
    <2> QED
      BY <1>8, <2>1, <2>2, <2>3
  <1>10. Closes(e) => v = arrived
    <2> SUFFICES ASSUME Closes(e), v # arrived PROVE FALSE
      OBVIOUS
    <2>1. v \in (arrived + 1)..l /\ ~(v < v)
      BY <1>2, <1>6
    <2>2. PICK i \in DOMAIN coming : Begins(coming[i]) /\ coming[i].use = v
      BY <1>7, <2>1
    <2>3. i # 1
      BY <1>3, <2>2 DEF Begins, Closes
    <2> QED
      BY <1>8, <2>1, <2>2, <2>3
  <1>11. ASSUME e.kind = "opened" PROVE OpenStates = {}
    <2>1. Begins(e)
      BY <1>11 DEF Begins
    <2>2. CASE v = 1
      <3>1. arrived = 0
        BY <1>2, <1>9, <2>1, <2>2
      <3>2. \A s \in states : s.use \in 1..0
        BY <3>1 DEF HistoryInv, StatesTell, StateTells
      <3> QED
        BY <3>2 DEF OpenStates
    <2>3. CASE v # 1
      <3>1. EndsBefore(v - 1, 1)
        BY <1>3, <1>5, <1>11, <2>3 DEF HistoryInv, EndedFirst
      <3>2. ~\E j \in DOMAIN coming : j < 1
        BY <1>1
      <3> QED
        BY <3>1, <3>2 DEF EndsBefore
    <2> QED
      BY <2>2, <2>3
  <1>12. e.kind = "updated" => arrived \in DOMAIN life /\ e.at = life[arrived].until
    <2>1. e.kind = "updated" => Begins(e)
      BY DEF Begins
    <2>2. e.kind = "updated" => v - 1 = arrived
      BY <1>2, <1>9, <2>1
    <2> QED
      BY <1>1, <1>6, <2>2
  <1>13. Begins(e) => arrived + 1 \in DOMAIN life /\ e.at = life[arrived + 1].from
    BY <1>1, <1>2, <1>6, <1>9
  <1> QED
    BY <1>1, <1>3, <1>4, <1>5, <1>6, <1>9, <1>10, <1>11, <1>12, <1>13

\* What the event writes.
LEMMA WritingTells ==
  ASSUME HistoryInv, Arrives, NEW e, e = Head(coming)
  PROVE  /\ states' \in SUBSET StateRow /\ StatesTell(states, arrived)'
         /\ arrived' = IF Begins(e) THEN arrived + 1 ELSE arrived
         /\ Closes(e) => OpenStates' = {}
         /\ ~Begins(e) /\ ~Closes(e) => states' = states
  <1>1. Len(coming) # 0 /\ arrived \in Nat
    BY DEF Arrives, HistoryInv, HistoryShape
  <1>2. /\ e \in Event /\ e.kind \in EventKinds /\ e.at \in Times
        /\ Begins(e) => /\ e.use = arrived + 1 /\ arrived + 1 \in DOMAIN life /\ e.at = life[arrived + 1].from
        /\ e.kind = "opened" => OpenStates = {}
        /\ e.kind = "updated" => arrived \in DOMAIN life /\ e.at = life[arrived].until
        /\ Closes(e) => e.use = arrived /\ arrived \in DOMAIN life /\ e.at = life[arrived].until
    BY <1>1, NextArrives
  <1>3. HistoryShape /\ LifeIsOver /\ DeletedBefore /\ StatesTell(states, arrived) /\ states \in SUBSET StateRow
    BY DEF HistoryInv, HistoryShape
  <1>4. arrived' = IF Begins(e) THEN arrived + 1 ELSE arrived
    BY DEF Arrives, Begins
  <1>5. \E kept \in SUBSET StateRow, n \in Nat :
          /\ kept = states' /\ n = arrived' /\ StatesTell(kept, n)
          /\ Closes(e) => \A s \in kept : s.until # Open
          /\ ~Begins(e) /\ ~Closes(e) => kept = states
    <2>1. CASE e.kind = "opened"
      <3>1. states' = states \cup {StateBegins(e.at)} /\ arrived' = arrived + 1 /\ ~Closes(e) /\ Begins(e)
        BY <2>1 DEF Arrives, Begins, Closes
      <3>2. \A s \in states : s.until # Open
        BY <1>2, <2>1 DEF OpenStates
      <3>3. PICK row : row = StateBegins(e.at) /\ row = [use |-> arrived + 1, from |-> StartAfterDeletions(life[arrived + 1].from), until |-> Open]
        BY <1>2, <3>1 DEF StateBegins
      <3>4. states \cup {row} \in SUBSET StateRow /\ StatesTell(states \cup {row}, arrived + 1)
        BY <1>1, <1>2, <1>3, <3>1, <3>2, <3>3, BeginTells
      <3> QED
        BY <1>1, <3>1, <3>3, <3>4
    <2>2. CASE e.kind = "updated"
      <3>1. states' = StateEnds(e.at) \cup {StateBegins(e.at)} /\ arrived' = arrived + 1 /\ ~Closes(e) /\ Begins(e)
        BY <2>2 DEF Arrives, Begins, Closes
      <3>2. PICK kept : /\ kept = StateEnds(e.at) /\ kept \in SUBSET StateRow /\ StatesTell(kept, arrived)
                        /\ \A s \in kept : s.until # Open
        BY <1>2, <1>3, <2>2, EndTells
      <3>3. PICK row : row = StateBegins(e.at) /\ row = [use |-> arrived + 1, from |-> StartAfterDeletions(life[arrived + 1].from), until |-> Open]
        BY <1>2, <3>1 DEF StateBegins
      <3>4. kept \cup {row} \in SUBSET StateRow /\ StatesTell(kept \cup {row}, arrived + 1)
        BY <1>1, <1>2, <1>3, <3>1, <3>2, <3>3, BeginTells
      <3> QED
        BY <1>1, <3>1, <3>2, <3>3, <3>4
    <2>3. CASE e.kind = "closed"
      <3>1. states' = StateEnds(e.at) /\ arrived' = arrived /\ Closes(e) /\ ~Begins(e)
        BY <2>3 DEF Arrives, Begins, Closes
      <3>2. PICK kept : /\ kept = StateEnds(e.at) /\ kept \in SUBSET StateRow /\ StatesTell(kept, arrived)
                        /\ \A s \in kept : s.until # Open
        BY <1>2, <1>3, <3>1, EndTells
      <3> QED
        BY <1>1, <3>1, <3>2
    <2>4. CASE e.kind = "input"
      <3>1. states' = states /\ arrived' = arrived /\ ~Closes(e) /\ ~Begins(e)
        BY <2>4 DEF Arrives, Begins, Closes
      <3> QED
        BY <1>1, <1>3, <3>1
    <2> QED
      BY <1>2, <2>1, <2>2, <2>3, <2>4 DEF EventKinds
  <1>6. PICK kept \in SUBSET StateRow, n \in Nat :
          /\ kept = states' /\ n = arrived' /\ StatesTell(kept, n)
          /\ Closes(e) => \A s \in kept : s.until # Open
          /\ ~Begins(e) /\ ~Closes(e) => kept = states
    BY <1>5
  <1>7. life' = life /\ deletions' = deletions
    BY DEF Arrives
  <1>8. \A t : Gone(t)' <=> Gone(t)
    BY <1>7 DEF Gone
  <1>9. StatesTell(states, arrived)'
    BY <1>6, <1>7, <1>8 DEF StatesTell, StateTells, StatelessIsGone
  <1> QED
    BY <1>4, <1>6, <1>9 DEF OpenStates

\* The others are next.
LEMMA OthersAreNext ==
  ASSUME HistoryInv, Arrives, NEW n \in Nat, n = Len(coming)
  PROVE  /\ n # 0 /\ DOMAIN coming = 1..n /\ 1 \in DOMAIN coming /\ Head(coming) = coming[1]
         /\ coming' \in Seq(Event) /\ Len(coming') = n - 1 /\ DOMAIN coming' = 1..(n - 1)
         /\ \A i \in DOMAIN coming' : i + 1 \in DOMAIN coming /\ coming'[i] = coming[i + 1]
         /\ \A i \in DOMAIN coming : i # 1 => i - 1 \in DOMAIN coming' /\ coming'[i - 1] = coming[i]
  <1>1. coming \in Seq(Event) /\ coming # <<>> /\ coming' = Tail(coming)
    BY DEF HistoryInv, HistoryShape, Arrives
  <1>2. n # 0 /\ DOMAIN coming = 1..n
    BY <1>1
  <1>3. coming' \in Seq(Event) /\ Len(coming') = n - 1 /\ DOMAIN coming' = 1..(n - 1)
    BY <1>1, <1>2
  <1>4. \A i \in 1..(n - 1) : coming'[i] = coming[i + 1]
    BY <1>1, <1>2
  <1>5. \A i \in 1..(n - 1) : i + 1 \in 1..n
    BY <1>2
  <1>6. \A i \in 1..n : i # 1 => i - 1 \in 1..(n - 1) /\ (i - 1) + 1 = i
    BY <1>2
  <1>7. 1 \in 1..n /\ Head(coming) = coming[1]
    BY <1>1, <1>2
  <1> QED
    BY <1>2, <1>3, <1>4, <1>5, <1>6, <1>7

\* What comes before a position still does, or has come.
LEMMA StillEndsBefore ==
  ASSUME HistoryInv, Arrives, NEW u \in Nat, NEW k \in Nat, arrived' <= u, EndsBefore(u, k + 1)
  PROVE  EndsBefore(u, k)'
  <1>1. PICK n \in Nat : n = Len(coming)
    BY ComingType DEF HistoryInv
  <1>2. arrived \in Nat
    BY DEF HistoryInv, HistoryShape
  <1>3. PICK e : e = Head(coming) /\ e = coming[1]
    BY <1>1, OthersAreNext
  <1>4. Len(coming) # 0
    BY <1>1, OthersAreNext
  <1>5. Closes(e) => e.use = arrived
    BY <1>3, <1>4, NextArrives
  <1>6. /\ arrived' = IF Begins(e) THEN arrived + 1 ELSE arrived
        /\ Closes(e) => OpenStates' = {} /\ ~Begins(e)
        /\ ~Begins(e) /\ ~Closes(e) => states' = states
    BY <1>3, WritingTells DEF Begins, Closes
  <1>7. CASE \E j \in DOMAIN coming : j < k + 1 /\ Closes(coming[j]) /\ coming[j].use = u
    <2>1. PICK j \in DOMAIN coming : j < k + 1 /\ Closes(coming[j]) /\ coming[j].use = u
      BY <1>7
    <2>2. CASE j = 1
      <3>1. u = arrived /\ arrived' = arrived /\ OpenStates' = {}
        BY <1>3, <1>5, <1>6, <2>1, <2>2
      <3> QED
        BY <3>1 DEF EndsBefore
    <2>3. CASE j # 1
      <3>1. j - 1 \in DOMAIN coming' /\ coming'[j - 1] = coming[j]
        BY <1>1, <2>3, OthersAreNext
      <3>2. j \in 1..n
        BY <1>1, OthersAreNext
      <3>3. j - 1 < k
        BY <2>1, <3>2
      <3> QED
        BY <2>1, <3>1, <3>3 DEF EndsBefore, Closes
    <2> QED
      BY <2>2, <2>3
  <1>8. CASE u = arrived /\ OpenStates = {}
    <2>1. ~Begins(e) /\ arrived' = arrived
      BY <1>2, <1>6, <1>8
    <2>2. OpenStates' = {}
      BY <1>6, <1>8, <2>1 DEF OpenStates
    <2> QED
      BY <1>8, <2>1, <2>2 DEF EndsBefore
  <1> QED
    BY <1>7, <1>8 DEF EndsBefore

\* An event that arrives is stored as what it tells (ingestion in the core).
LEMMA ArrivingKeeps == HistoryInv /\ Arrives => HistoryInv'
  <1> SUFFICES ASSUME HistoryInv, Arrives PROVE HistoryInv'
    OBVIOUS
  <1>1. PICK n \in Nat, l \in Nat : n = Len(coming) /\ l = Len(life) /\ DOMAIN life = 1..l
    BY ComingType, LifeType DEF HistoryInv
  <1>2. /\ n # 0 /\ DOMAIN coming = 1..n /\ 1 \in DOMAIN coming /\ Head(coming) = coming[1]
        /\ coming' \in Seq(Event) /\ Len(coming') = n - 1 /\ DOMAIN coming' = 1..(n - 1)
        /\ \A i \in DOMAIN coming' : i + 1 \in DOMAIN coming /\ coming'[i] = coming[i + 1]
        /\ \A i \in DOMAIN coming : i # 1 => i - 1 \in DOMAIN coming' /\ coming'[i - 1] = coming[i]
    BY <1>1, OthersAreNext
  <1>3. PICK e : e = Head(coming) /\ e = coming[1]
    BY <1>2
  <1>4. /\ e.at \in Times /\ e.kind \in EventKinds
        /\ Begins(e) => e.use = arrived + 1 /\ arrived + 1 \in DOMAIN life
        /\ Closes(e) => e.use = arrived /\ arrived \in DOMAIN life
    BY <1>1, <1>2, <1>3, NextArrives
  <1>5. /\ states' \in SUBSET StateRow /\ StatesTell(states, arrived)'
        /\ arrived' = IF Begins(e) THEN arrived + 1 ELSE arrived
    BY <1>3, WritingTells
  <1>6. UNCHANGED <<now, life, typing, deletions, cuts>>
    BY DEF Arrives
  <1>7. arrived \in Nat /\ arrived <= l
    BY <1>1 DEF HistoryInv, HistoryShape
  <1>8. arrived' \in 0..l
    BY <1>1, <1>4, <1>5, <1>7
  <1>9. minutes' \in SUBSET Times
    BY <1>3, <1>4 DEF Arrives, HistoryInv, HistoryShape
  <1>10. HistoryShape'
    BY <1>1, <1>2, <1>5, <1>6, <1>8, <1>9 DEF HistoryInv, HistoryShape
  <1>11. LifeIsOver' /\ DeletedBefore'
    BY <1>6 DEF HistoryInv, LifeIsOver, DeletedBefore
  <1>12. ASSUME NEW i \in DOMAIN coming'
         PROVE  /\ Begins(coming'[i]) => coming'[i].use \in (arrived' + 1)..l
                /\ Closes(coming'[i]) => arrived' <= coming'[i].use
    <2>1. PICK j \in DOMAIN coming : j = i + 1 /\ coming'[i] = coming[j]
      BY <1>2
    <2>2. 1 < j
      BY <1>2, <2>1
    <2>3. PICK v \in Nat : v = coming[j].use
      BY ComingType DEF HistoryInv
    <2>4. /\ Begins(coming[j]) => v \in (arrived + 1)..l
          /\ Closes(coming[j]) => v \in 1..l /\ arrived <= v
      BY <1>1, <2>3 DEF HistoryInv, EventsTell
    <2>5. /\ Begins(e) /\ Begins(coming[j]) => arrived + 1 < v
          /\ Begins(e) /\ Closes(coming[j]) => arrived + 1 <= v
      BY <1>2, <1>3, <1>4, <2>2, <2>3 DEF HistoryInv, EventsInOrder
    <2>6. /\ Begins(coming[j]) => v \in (arrived' + 1)..l
          /\ Closes(coming[j]) => arrived' <= v
      BY <1>5, <1>7, <2>4, <2>5
    <2> QED
      BY <2>1, <2>3, <2>6
  <1>13. EventsTell'
    <2>1. ASSUME NEW i \in DOMAIN coming'
          PROVE  /\ Begins(coming'[i]) => coming'[i].at = life[coming'[i].use].from
                 /\ coming'[i].kind = "updated" => coming'[i].use - 1 \in DOMAIN life /\ coming'[i].at = life[coming'[i].use - 1].until
                 /\ Closes(coming'[i]) => coming'[i].use \in DOMAIN life /\ coming'[i].at = life[coming'[i].use].until
      <3>1. PICK j \in DOMAIN coming : coming'[i] = coming[j]
        BY <1>2
      <3> QED
        BY <3>1 DEF HistoryInv, EventsTell
    <2> QED
      BY <1>1, <1>6, <1>12, <2>1 DEF EventsTell, Begins, Closes
  <1>14. EventsInOrder'
    <2>1. ASSUME NEW i \in DOMAIN coming', NEW j \in DOMAIN coming', i < j
          PROVE  /\ Begins(coming'[i]) /\ Begins(coming'[j]) => coming'[i].use < coming'[j].use
                 /\ Closes(coming'[i]) /\ Begins(coming'[j]) => coming'[i].use < coming'[j].use
                 /\ Begins(coming'[i]) /\ Closes(coming'[j]) => coming'[i].use <= coming'[j].use
      <3>1. PICK a \in DOMAIN coming : a = i + 1 /\ coming'[i] = coming[a]
        BY <1>2
      <3>2. PICK b \in DOMAIN coming : b = j + 1 /\ coming'[j] = coming[b]
        BY <1>2
      <3>3. a < b
        BY <1>2, <2>1, <3>1, <3>2
      <3> QED
        BY <3>1, <3>2, <3>3 DEF HistoryInv, EventsInOrder
    <2> QED
      BY <2>1 DEF EventsInOrder, Begins, Closes
  <1>15. NoneIsMissing'
    <2>1. ASSUME NEW u \in (arrived' + 1)..l PROVE \E i \in DOMAIN coming' : Begins(coming'[i]) /\ coming'[i].use = u
      <3>1. u \in (arrived + 1)..l /\ (Begins(e) => u # arrived + 1)
        BY <1>5, <1>7
      <3>2. PICK j \in DOMAIN coming : Begins(coming[j]) /\ coming[j].use = u
        BY <1>1, <3>1 DEF HistoryInv, NoneIsMissing
      <3>3. j # 1
        BY <1>3, <1>4, <3>1, <3>2
      <3> QED
        BY <1>2, <3>2, <3>3
    <2> QED
      BY <1>1, <1>6, <2>1 DEF NoneIsMissing, Begins
  <1>16. EndedFirst'
    <2>1. ASSUME NEW i \in DOMAIN coming', NEW u, coming'[i].kind = "opened", coming'[i].use # 1, u = coming'[i].use - 1
          PROVE  EndsBefore(u, i)'
      <3>1. PICK j \in DOMAIN coming : j = i + 1 /\ coming'[i] = coming[j] /\ i \in Nat
        BY <1>2
      <3>2. EndsBefore(u, i + 1)
        BY <2>1, <3>1 DEF HistoryInv, EndedFirst
      <3>3. coming'[i].use \in (arrived' + 1)..l
        BY <1>12, <2>1 DEF Begins
      <3>4. u \in Nat /\ arrived' <= u
        BY <1>8, <2>1, <3>3
      <3> QED
        BY <3>1, <3>2, <3>4, StillEndsBefore
    <2>2. ASSUME NEW k \in Nat, k = n, l # 0, life[l].until # Open PROVE EndsBefore(l, k)'
      <3>1. EndsBefore(l, k + 1)
        BY <1>1, <2>2 DEF HistoryInv, EndedFirst
      <3> QED
        BY <1>8, <3>1, StillEndsBefore
    <2>3. Len(coming') + 1 = n
      BY <1>2
    <2> QED
      BY <1>1, <1>6, <2>1, <2>2, <2>3 DEF EndedFirst
  <1>17. MinutesTell'
    <2>1. \A m : MinuteDeleted(m)' <=> MinuteDeleted(m)
      BY <1>6 DEF MinuteDeleted
    <2>2. minutes' = IF e.kind = "input" /\ ~MinuteDeleted(e.at) THEN minutes \cup {e.at} ELSE minutes
      BY <1>3 DEF Arrives
    <2>3. ASSUME NEW m \in typing
          PROVE  m \in minutes' \/ MinuteDeleted(m) \/ \E i \in DOMAIN coming' : coming'[i].kind = "input" /\ coming'[i].at = m
      <3>1. CASE m \in minutes \/ MinuteDeleted(m)
        BY <2>2, <3>1
      <3>2. CASE \E i \in DOMAIN coming : coming[i].kind = "input" /\ coming[i].at = m
        <4>1. PICK i \in DOMAIN coming : coming[i].kind = "input" /\ coming[i].at = m
          BY <3>2
        <4> QED
          BY <1>2, <1>3, <2>2, <4>1
      <3> QED
        BY <3>1, <3>2 DEF HistoryInv, MinutesTell
    <2> QED
      BY <1>6, <2>1, <2>2, <2>3 DEF HistoryInv, MinutesTell
  <1> QED
    BY <1>5, <1>10, <1>11, <1>13, <1>14, <1>15, <1>16, <1>17 DEF HistoryInv

\* What is left of a state after a deletion is its use's, but for what was deleted.
LEMMA ClippedTells ==
  ASSUME HistoryInv, NEW d \in Stretch, d.from < d.until, deletions' = deletions \cup {d},
         life' = life, arrived' = arrived, NEW s \in states, ~Inside(s, d)
  PROVE  /\ Clipped(s, d) \in StateRow /\ Clipped(s, d).use = s.use
         /\ Clipped(s, d).until = Open <=> s.until = Open
         /\ StateTells(Clipped(s, d), arrived)'
  <1>1. s \in StateRow /\ StateTells(s, arrived) /\ s.use \in 1..arrived
    BY DEF HistoryInv, HistoryShape, StatesTell, StateTells
  <1>2. s.from \in Times /\ s.until \in Times \cup {Open} /\ d.from \in Times /\ d.until \in Times
    BY <1>1 DEF StateRow, Stretch
  <1>3. PICK f \in Nat, a \in Nat, b \in Nat : f = s.from /\ a = d.from /\ b = d.until
    BY <1>2, TimesAreNumbers
  <1>4. a < b /\ a # Open /\ b # Open /\ f # Open
    BY <1>2, <1>3, TimesAreNumbers
  <1>5. arrived \in Nat /\ s.use \in DOMAIN life /\ life[s.use].from \in Times /\ life[s.use].until \in Times \cup {Open}
    BY <1>1, LifeType DEF HistoryInv, HistoryShape
  <1>6. PICK h \in Nat : h = life[s.use].from
    BY <1>5, TimesAreNumbers
  <1>7. \A t : Gone(t) \/ (a <= t /\ t < b) => Gone(t)'
    BY <1>3 DEF Gone
  <1>8. PICK c \in StateRow :
          /\ c = Clipped(s, d) /\ c.use = s.use /\ (c.until = Open <=> s.until = Open)
          /\ c.from = (IF ~CrossesStart(s, d) /\ CrossesEnd(s, d) THEN b ELSE f)
          /\ c.until = (IF CrossesStart(s, d) THEN a ELSE s.until)
    <2>1. \A v \in Times : /\ [s EXCEPT !.until = v] \in StateRow /\ [s EXCEPT !.until = v].use = s.use
                           /\ [s EXCEPT !.until = v].from = s.from /\ [s EXCEPT !.until = v].until = v
                           /\ [s EXCEPT !.from = v] \in StateRow /\ [s EXCEPT !.from = v].use = s.use
                           /\ [s EXCEPT !.from = v].from = v /\ [s EXCEPT !.from = v].until = s.until
      BY <1>1 DEF StateRow
    <2>2. CASE CrossesStart(s, d)
      <3>1. Clipped(s, d) = [s EXCEPT !.until = a] /\ s.until # Open
        BY <1>3, <2>2 DEF Clipped, CrossesStart
      <3>2. PICK c \in StateRow : c = [s EXCEPT !.until = a] /\ c.use = s.use /\ c.from = f /\ c.until = a
        BY <1>2, <1>3, <2>1
      <3> QED
        BY <1>4, <2>2, <3>1, <3>2
    <2>3. CASE ~CrossesStart(s, d) /\ CrossesEnd(s, d)
      <3>1. Clipped(s, d) = [s EXCEPT !.from = b]
        BY <1>3, <2>3 DEF Clipped
      <3>2. PICK c \in StateRow : c = [s EXCEPT !.from = b] /\ c.use = s.use /\ c.from = b /\ c.until = s.until
        BY <1>2, <1>3, <2>1
      <3> QED
        BY <2>3, <3>1, <3>2
    <2>4. CASE ~CrossesStart(s, d) /\ ~CrossesEnd(s, d)
      <3>1. Clipped(s, d) = s
        BY <2>4 DEF Clipped
      <3> QED
        BY <1>1, <1>3, <2>4, <3>1
    <2> QED
      BY <2>2, <2>3, <2>4
  <1>9. c.use = s.use /\ h <= f /\ (s.until = Open => s.use = arrived)
    BY <1>1, <1>3, <1>6, <1>8 DEF StateTells
  <1>10. /\ \A e \in deletions : e.from <= h => e.until <= f
         /\ \A t \in Times : h <= t /\ t < f => Gone(t)
         /\ \A t \in Times : s.until # Open /\ s.until <= t /\ t < life[s.use].until => Gone(t)
         /\ s.until # Open => life[s.use].until # Open /\ s.until <= life[s.use].until
    BY <1>1, <1>3, <1>6 DEF StateTells
  <1>11. /\ CrossesStart(s, d) <=> f < a /\ s.until # Open /\ s.until > a /\ s.until <= b
         /\ CrossesEnd(s, d) <=> f >= a /\ f < b /\ (s.until = Open \/ s.until > b)
         /\ ~(f >= a /\ s.until # Open /\ s.until <= b)
    BY <1>3 DEF CrossesStart, CrossesEnd, Inside
  <1>12. s.until # Open => s.until \in Nat
    BY <1>2, TimesAreNumbers
  <1>13. PICK g \in Nat : g = c.from /\ f <= g /\ (g # f => g = b /\ a <= f) /\ (a <= h => b <= g)
    BY <1>4, <1>8, <1>9, <1>11, <1>12
  <1>14. h <= g
    BY <1>9, <1>13
  <1>15. \A e \in deletions \cup {d} : e.from <= h => e.until <= g
    <2>1. \A e \in deletions : e.from \in Nat /\ e.until \in Nat
      BY TimesAreNumbers DEF HistoryInv, HistoryShape, Stretch
    <2>2. \A e \in deletions : e.from <= h => e.until <= g
      BY <1>10, <1>13, <2>1
    <2> QED
      BY <1>3, <1>13, <2>2
  <1>16. \A t \in Times : h <= t /\ t < g => Gone(t)'
    <2> SUFFICES ASSUME NEW t \in Times, h <= t, t < g PROVE Gone(t)'
      OBVIOUS
    <2>1. t \in Nat
      BY TimesAreNumbers
    <2>2. CASE t < f
      BY <1>7, <1>10, <2>2
    <2>3. CASE ~(t < f)
      BY <1>7, <1>13, <2>1, <2>3
    <2> QED
      BY <2>2, <2>3
  <1>17. c.until # Open => life[s.use].until # Open /\ c.until <= life[s.use].until
    <2> SUFFICES ASSUME c.until # Open PROVE life[s.use].until # Open /\ c.until <= life[s.use].until
      OBVIOUS
    <2>1. s.until # Open /\ s.until \in Nat /\ life[s.use].until # Open /\ s.until <= life[s.use].until
      BY <1>8, <1>10, <1>12
    <2>2. PICK w \in Nat, x \in Nat : w = life[s.use].until /\ x = s.until
      BY <1>5, <2>1, TimesAreNumbers
    <2>3. CASE CrossesStart(s, d)
      BY <1>8, <1>11, <2>1, <2>2, <2>3
    <2>4. CASE ~CrossesStart(s, d)
      BY <1>8, <2>1, <2>4
    <2> QED
      BY <2>3, <2>4
  <1>18. \A t \in Times : c.until # Open /\ c.until <= t /\ t < life[s.use].until => Gone(t)'
    <2> SUFFICES ASSUME NEW t \in Times, c.until # Open, c.until <= t, t < life[s.use].until PROVE Gone(t)'
      OBVIOUS
    <2>1. t \in Nat /\ s.until \in Nat /\ s.until # Open
      BY <1>8, <1>12, TimesAreNumbers
    <2>2. CASE s.until <= t
      BY <1>7, <1>10, <2>1, <2>2
    <2>3. CASE ~(s.until <= t)
      <3>1. CrossesStart(s, d) /\ c.until = a
        BY <1>8, <2>3
      <3>2. a <= t /\ t < b
        BY <1>11, <2>1, <2>3, <3>1
      <3> QED
        BY <1>7, <3>2
    <2> QED
      BY <2>2, <2>3
  <1>19. StateTells(c, arrived)'
    BY <1>1, <1>6, <1>8, <1>9, <1>13, <1>14, <1>15, <1>16, <1>17, <1>18 DEF StateTells
  <1> QED
    BY <1>8, <1>19

\* A deletion takes its stretch and no more (delete_application_activity_between).
LEMMA CuttingKeeps == ASSUME HistoryInv, NEW stretch \in DeletedStretches, Cut(stretch) PROVE HistoryInv'
  <1>1. PICK d : d = [stretch EXCEPT !.until = IF now < @ THEN now ELSE @]
    OBVIOUS
  <1>2. stretch \in Stretch /\ now \in Times
    BY AppHistoryAssumption DEF Stretch, HistoryInv, HistoryShape
  <1>3. d \in Stretch /\ d.until = IF now < stretch.until THEN now ELSE stretch.until
    BY <1>1, <1>2 DEF Stretch
  <1>4. d.until <= now /\ d.from \in Nat /\ d.until \in Nat
    BY <1>2, <1>3, TimesAreNumbers DEF Stretch
  <1>5. /\ d.from < d.until /\ cuts < MaxCuts
        /\ states' = {Clipped(s, d) : s \in {t \in states : ~Inside(t, d)}}
        /\ minutes' = {m \in minutes : ~(d.from <= m /\ m + 1 <= d.until)}
        /\ deletions' = deletions \cup {d} /\ cuts' = cuts + 1
        /\ UNCHANGED <<now, life, typing, coming, arrived>>
    BY <1>1 DEF Cut
  <1>6. \A s \in states : ~Inside(s, d) =>
           /\ Clipped(s, d) \in StateRow /\ Clipped(s, d).use = s.use
           /\ Clipped(s, d).until = Open <=> s.until = Open
           /\ StateTells(Clipped(s, d), arrived)'
    BY <1>3, <1>5, ClippedTells
  <1>7. cuts' \in 0..MaxCuts
    BY <1>5, AppHistoryAssumption DEF HistoryInv, HistoryShape
  <1>8. HistoryShape'
    BY <1>3, <1>5, <1>6, <1>7 DEF HistoryInv, HistoryShape
  <1>9. LifeIsOver'
    BY <1>5 DEF HistoryInv, LifeIsOver
  <1>10. DeletedBefore'
    BY <1>4, <1>5 DEF HistoryInv, DeletedBefore
  <1>11. OpenStates = {} => OpenStates' = {}
    BY <1>5, <1>6 DEF OpenStates
  <1>12. \A u, n : EndsBefore(u, n) => EndsBefore(u, n)'
    BY <1>5, <1>11 DEF EndsBefore, Closes
  <1>13. EventsTell' /\ EventsInOrder' /\ NoneIsMissing'
    BY <1>5 DEF HistoryInv, EventsTell, EventsInOrder, NoneIsMissing, Begins, Closes
  <1>14. EndedFirst'
    BY <1>5, <1>12 DEF HistoryInv, EndedFirst
  <1>15. \A t : Gone(t) \/ (d.from <= t /\ t < d.until) => Gone(t)'
    BY <1>5 DEF Gone
  <1>16. ASSUME NEW u \in 1..arrived PROVE StatelessIsGone(u, states)'
    <2>1. StatelessIsGone(u, states)
      BY DEF HistoryInv, StatesTell
    <2>2. CASE ~\E s \in states : s.use = u
      BY <1>5, <1>15, <2>1, <2>2 DEF StatelessIsGone
    <2>3. CASE \E s \in states : s.use = u /\ ~Inside(s, d)
      BY <1>5, <1>6, <2>3 DEF StatelessIsGone
    <2>4. ASSUME NEW s \in states, s.use = u, Inside(s, d) PROVE StatelessIsGone(u, states)'
      <3>1. StateTells(s, arrived) /\ s \in StateRow
        BY DEF HistoryInv, HistoryShape, StatesTell
      <3>2. s.until # Open /\ d.from <= s.from /\ s.until <= d.until
        BY <2>4 DEF Inside
      <3>3. s.from \in Nat /\ s.until \in Nat
        BY <3>1, <3>2, TimesAreNumbers DEF StateRow
      <3>4. life[u].until # Open
        BY <2>4, <3>1, <3>2 DEF StateTells
      <3>5. ASSUME NEW t \in Times, life[u].from <= t, t < life[u].until PROVE Gone(t)'
        <4>1. t \in Nat
          BY TimesAreNumbers
        <4>2. t < s.from \/ s.until <= t => Gone(t)
          BY <2>4, <3>1, <3>2, <3>5 DEF StateTells
        <4>3. ~(t < s.from) /\ ~(s.until <= t) => d.from <= t /\ t < d.until
          BY <1>4, <3>2, <3>3, <4>1
        <4> QED
          BY <1>15, <4>2, <4>3
      <3> QED
        BY <1>5, <3>4, <3>5 DEF StatelessIsGone
    <2> QED
      BY <2>2, <2>3, <2>4
  <1>17. StatesTell(states, arrived)'
    <2>1. \A s, t \in states' : s.use = t.use => s = t
      BY <1>5, <1>6 DEF HistoryInv, StatesTell
    <2>2. \A s \in states' : StateTells(s, arrived)'
      BY <1>5, <1>6
    <2> QED
      BY <1>5, <1>16, <2>1, <2>2 DEF StatesTell
  <1>18. MinutesTell'
    <2>1. \A m : MinuteDeleted(m)' <=> MinuteDeleted(m) \/ (d.from <= m /\ m + 1 <= d.until)
      BY <1>5 DEF MinuteDeleted
    <2> QED
      BY <1>5, <2>1 DEF HistoryInv, MinutesTell
  <1> QED
    BY <1>8, <1>9, <1>10, <1>13, <1>14, <1>17, <1>18 DEF HistoryInv

\* Nothing has happened and nothing is stored.
LEMMA HistoryBegins == AppHistoryInit => HistoryInv
  <1> SUFFICES ASSUME AppHistoryInit PROVE HistoryInv
    OBVIOUS
  <1>1. 0 \in Times /\ 0 \in 0..MaxCuts /\ 0 <= MaxUses
    BY AppHistoryAssumption DEF Times
  <1>2. life = <<>> /\ Len(life) = 0 /\ DOMAIN life = {} /\ coming = <<>> /\ DOMAIN coming = {}
    BY DEF AppHistoryInit
  <1>3. HistoryShape
    BY <1>1, <1>2 DEF AppHistoryInit, HistoryShape
  <1>4. LifeIsOver /\ DeletedBefore
    BY <1>2 DEF AppHistoryInit, LifeIsOver, DeletedBefore
  <1>5. EventsTell /\ EventsInOrder /\ EndedFirst
    BY <1>2 DEF EventsTell, EventsInOrder, EndedFirst
  <1>6. arrived = 0 /\ states = {} /\ 1..arrived = {} /\ (arrived + 1)..Len(life) = {}
    BY <1>2 DEF AppHistoryInit
  <1>7. NoneIsMissing /\ StatesTell(states, arrived) /\ MinutesTell
    BY <1>6 DEF AppHistoryInit, NoneIsMissing, StatesTell, MinutesTell
  <1> QED
    BY <1>3, <1>4, <1>5, <1>7 DEF HistoryInv

\* What is in storage and on its way tells the application's history, but for what was
\* deleted, however late events arrive (open_window_instance, update_window_instance,
\* close_window_instance, ingest_input_minute, delete_application_activity_between).
THEOREM HistoryAlwaysInv == AppHistorySpec => []HistoryInv
  <1>1. HistoryInv /\ [AppHistoryNext]_historyVars => HistoryInv'
    <2> SUFFICES ASSUME HistoryInv, [AppHistoryNext]_historyVars PROVE HistoryInv'
      OBVIOUS
    <2>1. CASE UNCHANGED historyVars
      <3>1. UNCHANGED <<now, life, typing, coming, arrived, states, minutes, deletions, cuts>>
        BY <2>1 DEF historyVars
      <3>2. HistoryShape' /\ LifeIsOver' /\ DeletedBefore'
        BY <3>1 DEF HistoryInv, HistoryShape, LifeIsOver, DeletedBefore
      <3>3. EventsTell' /\ EventsInOrder' /\ NoneIsMissing' /\ EndedFirst'
        BY <3>1 DEF HistoryInv, EventsTell, EventsInOrder, NoneIsMissing, EndedFirst, Begins, Closes, EndsBefore, OpenStates
      <3>4. StatesTell(states, arrived)' /\ MinutesTell'
        BY <3>1 DEF HistoryInv, StatesTell, StateTells, StatelessIsGone, Gone, MinutesTell, MinuteDeleted
      <3> QED
        BY <3>2, <3>3, <3>4 DEF HistoryInv
    <2>2. ASSUME NEW stretch \in DeletedStretches, Cut(stretch) PROVE HistoryInv'
      BY <2>2, CuttingKeeps
    <2> QED
      BY <2>1, <2>2, PassingKeeps, WindowOpeningKeeps, ChangingKeeps, ClosingKeeps, SealingKeeps, ArrivingKeeps DEF AppHistoryNext
  <1> QED
    BY <1>1, HistoryBegins, PTL DEF AppHistorySpec

\* What a use's states show, tick by tick.
LEMMA StoredIsLived ==
  ASSUME HistoryInv, NEW u \in 1..arrived, NEW t \in Stored(u)
  PROVE  /\ t \in Times
         /\ \E s \in states :
              /\ s.use = u /\ StateTells(s, arrived) /\ s.from \in Times /\ s.from <= t
              /\ life[u].from \in Times /\ life[u].from <= s.from
              /\ IF s.until = Open THEN t < now
                 ELSE life[u].until \in Times /\ s.until \in Times /\ t < s.until /\ s.until <= life[u].until
  <1>1. PICK s \in states : s.use = u /\ t \in TicksOf(s)
    BY DEF Stored
  <1>2. s \in StateRow /\ StateTells(s, arrived)
    BY DEF HistoryInv, HistoryShape, StatesTell
  <1>3. u \in DOMAIN life /\ life[u].from \in Times /\ life[u].until \in Times \cup {Open}
    BY LifeType DEF HistoryInv, HistoryShape
  <1> QED
    BY <1>1, <1>2, <1>3 DEF TicksOf, Ticks, StateRow, StateTells

\* A use in storage shows what was lived and not deleted.
LEMMA TellsOnlyTheStretch ==
  ASSUME HistoryInv, NEW u \in 1..arrived
  PROVE  /\ Stored(u) \subseteq Lived(u) \cup Ticks(IF life[u].until = Open THEN now ELSE life[u].until, now)
         /\ Settled(u) => Stored(u) \subseteq Lived(u) /\ Lived(u) \ DeletedTicks \subseteq Stored(u)
         /\ \A d \in deletions : life[u].from >= d.from => Stored(u) \cap Ticks(d.from, d.until) = {}
  <1>1. u \in DOMAIN life /\ life[u].from \in Times /\ life[u].until \in Times \cup {Open} /\ now \in Times
    BY LifeType DEF HistoryInv, HistoryShape
  <1>2. PICK end \in Times : end = IF life[u].until = Open THEN now ELSE life[u].until
    BY <1>1
  <1>3. Lived(u) = {t \in Times : life[u].from <= t /\ t < end}
    BY <1>2 DEF Lived, TicksOf, Ticks
  <1>4. ASSUME NEW t \in Stored(u) PROVE t \in Lived(u) \/ (end <= t /\ t < now /\ t \in Times /\ ~Settled(u))
    <2>1. PICK s \in states :
              /\ t \in Times /\ s.use = u /\ s.from \in Times /\ s.from <= t
              /\ life[u].from \in Times /\ life[u].from <= s.from
              /\ IF s.until = Open THEN t < now
                 ELSE life[u].until \in Times /\ s.until \in Times /\ t < s.until /\ s.until <= life[u].until
      BY StoredIsLived
    <2>2. t \in Nat /\ end \in Nat /\ life[u].from <= t
      BY <1>1, <1>2, <2>1, TimesAreNumbers
    <2>3. CASE s.until = Open
      BY <1>3, <2>1, <2>2, <2>3 DEF Settled
    <2>4. CASE s.until # Open
      <3>1. t < s.until /\ s.until <= end /\ s.until \in Nat
        BY <1>2, <2>1, <2>4, TimesAreNumbers
      <3>2. t < end
        BY <2>2, <3>1
      <3> QED
        BY <1>3, <2>1, <2>2, <3>2
    <2> QED
      BY <2>3, <2>4
  <1>5. Stored(u) \subseteq Lived(u) \cup Ticks(IF life[u].until = Open THEN now ELSE life[u].until, now)
    BY <1>2, <1>4 DEF Ticks
  <1>6. ASSUME Settled(u) PROVE Stored(u) \subseteq Lived(u) /\ Lived(u) \ DeletedTicks \subseteq Stored(u)
    <2>1. Stored(u) \subseteq Lived(u)
      BY <1>4, <1>6
    <2>2. ASSUME NEW t \in Lived(u) \ DeletedTicks PROVE t \in Stored(u)
      <3>1. t \in Times /\ life[u].from <= t /\ t < end /\ t \in Nat
        BY <1>3, TimesAreNumbers
      <3>2. ~Gone(t)
        BY <2>2, <3>1 DEF DeletedTicks, Ticks, Gone
      <3>3. StatelessIsGone(u, states)
        BY DEF HistoryInv, StatesTell
      <3>4. PICK s \in states : s.use = u
        BY <1>2, <3>1, <3>2, <3>3 DEF StatelessIsGone
      <3>5. StateTells(s, arrived) /\ s \in StateRow /\ s.until # Open
        BY <1>6, <3>4 DEF HistoryInv, HistoryShape, StatesTell, Settled
      <3>6. s.from \in Nat /\ s.until \in Nat
        BY <3>5, TimesAreNumbers DEF StateRow
      <3>7. ~(t < s.from)
        BY <3>1, <3>2, <3>4, <3>5 DEF StateTells
      <3>8. life[u].until # Open
        BY <3>4, <3>5 DEF StateTells
      <3>9. ~(s.until <= t)
        BY <1>2, <3>1, <3>2, <3>4, <3>5, <3>8 DEF StateTells
      <3>10. t \in TicksOf(s)
        BY <3>1, <3>5, <3>6, <3>7, <3>9 DEF TicksOf, Ticks
      <3> QED
        BY <3>4, <3>10 DEF Stored
    <2> QED
      BY <2>1, <2>2
  <1>7. ASSUME NEW d \in deletions, life[u].from >= d.from, NEW t \in Stored(u) PROVE t \notin Ticks(d.from, d.until)
    <2>1. PICK s \in states : t \in Times /\ s.use = u /\ StateTells(s, arrived) /\ s.from \in Times /\ s.from <= t
      BY StoredIsLived
    <2>2. d.from \in Times /\ d.until \in Times
      BY DEF HistoryInv, HistoryShape, Stretch
    <2>3. d.from <= life[u].from
      BY <1>1, <1>7, <2>2, TimesAreNumbers
    <2>4. d.until <= s.from
      BY <2>1, <2>3 DEF StateTells
    <2> QED
      BY <2>1, <2>2, <2>4, TimesAreNumbers DEF Ticks
  <1> QED
    BY <1>5, <1>6, <1>7

\* Of what was deleted nothing comes back, and of the rest nothing is missing once
\* it has ended in storage (OnlyTheStretchIsGone), for any life of the window and
\* any deletions in it (start_after_deletions, delete_application_activity_between).
THEOREM OnlyTheStretchIsEverGone == AppHistorySpec => []OnlyTheStretchIsGone
  <1>1. HistoryInv => OnlyTheStretchIsGone
    BY TellsOnlyTheStretch DEF HistoryInv, MinutesTell, OnlyTheStretchIsGone
  <1> QED
    BY <1>1, HistoryAlwaysInv, PTL

-----------------------------------------------------------------------------
(* TimelineCache. *)

\* What is summed, and what is remembered.
Sums == {Sum(counts) : counts \in UNION {[bs -> Nat] : bs \in SUBSET Buckets}}
SpanRow == [app : Identities, from : Moments, to : Moments \cup {StillRunning}]
Hole == [from : Moments, to : Moments]
AppRow == [time : Nat, keys : Sums]
ViewOf == [apps : UNION {[D -> AppRow] : D \in SUBSET Identities}, total : Sums, gaps : SUBSET Hole]
Entry ==
  [start : Starts, end : Moments, view : ViewOf, edges : SUBSET {"user", "automatic"},
   running : SUBSET Identities, next : Nat, dirty : SUBSET Identities, totals : BOOLEAN]

CacheShape ==
  /\ spans \subseteq SpanRow /\ presses \in [Buckets -> Nat] /\ holes \subseteq Hole
  /\ edges \subseteq {"user", "automatic"} /\ lastSeen \in Nat \ {0}
  /\ entries \in Seq(Entry) /\ Len(entries) <= CacheSize /\ current \in BOOLEAN

Roots == {Root(x) : x \in Identities}
DirtyRoots(e) == {Root(x) : x \in e.dirty}

ShownOf(r, start, end) ==
  \/ \E s \in spans : Root(s.app) = r /\ Shown(s, start, end)
  \/ \E b \in Identities \X Minutes : Root(b[1]) = r /\ Counted(b, start, end)
RowOf(r, start, end) ==
  [time |-> Covered(MergedWith(r), start, end),
   keys |-> SumOf({b \in MergedWith(r) \X Minutes : Counted(b, start, end)})]

\* A view tells an application as the rows do ...
ShowsApp(e, r) ==
  /\ r \in DOMAIN e.view.apps <=> ShownOf(r, e.start, e.end)
  /\ r \in DOMAIN e.view.apps => e.view.apps[r] = RowOf(r, e.start, e.end)
RunsApp(e, r) == r \in e.running <=> \E s \in spans : Root(s.app) = r /\ s.from < e.end /\ s.to > e.end
\* ... and nothing of it begins or ends before the view's limit.
AheadOfApp(e, r) ==
  /\ \A s \in spans : Root(s.app) = r =>
       /\ s.from >= e.end => e.next <= s.from
       /\ s.to >= e.end /\ s.to # StillRunning => e.next <= s.to
  /\ \A b \in Identities \X Minutes : Root(b[1]) = r /\ presses[b] > 0 /\ b[2] >= e.end => e.next <= b[2]

TellsTotal(e) ==
  /\ e.view.total = Total(e.start, e.end) /\ e.view.gaps = GapsIn(e.start, e.end)
  /\ \A b \in Buckets : presses[b] > 0 /\ b[2] >= e.end => e.next <= b[2]
  /\ \A h \in holes : h.from >= e.end => e.next <= h.from

\* What is not marked as touched is as the rows have it.
Tells(e) ==
  /\ e.start < e.end
  /\ e.edges \subseteq edges /\ (e.edges # edges => e.dirty # {})
  /\ e.edges = edges =>
       /\ DOMAIN e.view.apps \subseteq Roots
       /\ \A r \in Roots \ DirtyRoots(e) : ShowsApp(e, r) /\ RunsApp(e, r) /\ AheadOfApp(e, r)
  /\ ~Stale(e) => TellsTotal(e)

EntriesTell == current => \A i \in DOMAIN entries : Tells(entries[i])
CacheInv == CacheShape /\ EntriesTell

\* Moments and minutes are numbers, all before what still runs ends.
LEMMA CacheNumbers ==
  /\ MinuteLength \in Nat \ {0} /\ CacheSize \in Nat \ {0} /\ StillRunning \in Nat
  /\ \A t \in Moments : t \in Nat /\ t < StillRunning /\ t + MinuteLength < StillRunning
  /\ \A t \in Starts : t \in Nat
  /\ Minutes \subseteq Moments
  /\ \A b \in Buckets : b[1] \in Identities \cup {NoApplication} /\ b[2] \in Minutes
  /\ Identities \X Minutes \subseteq Buckets
  <1>1. LastTick \in Nat /\ MinuteLength \in Nat \ {0}
    BY CacheAssumption
  <1>2. \A t \in Moments : t \in Nat /\ t <= LastTick
    BY <1>1 DEF Moments
  <1>3. StillRunning = LastTick + MinuteLength + 1
    BY DEF StillRunning
  <1>4. \A t \in Moments : t < StillRunning /\ t + MinuteLength < StillRunning
    BY <1>1, <1>2, <1>3
  <1> QED
    BY <1>1, <1>2, <1>3, <1>4, CacheAssumption DEF Minutes, Buckets

\* A sum of buckets is one.
LEMMA SumType ==
  ASSUME presses \in [Buckets -> Nat], NEW bs \in SUBSET Buckets
  PROVE  SumOf(bs) \in Sums
  <1>1. [b \in bs |-> presses[b]] \in [bs -> Nat]
    OBVIOUS
  <1> QED
    BY <1>1 DEF SumOf, Sums

\* Nothing begins or ends between a moment and its next boundary.
LEMMA NextBoundaryIsNext ==
  ASSUME CacheShape, NEW end \in Moments
  PROVE  LET next == NextBoundary(end) IN
         /\ next \in Nat
         /\ \A s \in spans : s.from >= end => next <= s.from
         /\ \A s \in spans : s.to >= end /\ s.to # StillRunning => next <= s.to
         /\ \A b \in Buckets : presses[b] > 0 /\ b[2] >= end => next <= b[2]
         /\ \A h \in holes : h.from >= end => next <= h.from
  <1> DEFINE counted == {x \in Buckets : presses[x] > 0}
             moments == {s.from : s \in spans} \cup {s.to : s \in spans}
                   \cup {b[2] : b \in counted} \cup {b[2] + MinuteLength : b \in counted}
                   \cup {h.from : h \in holes} \cup {h.to : h \in holes}
             later == {t \in moments \ {StillRunning} : t >= end}
             next == NextBoundary(end)
  <1>1. next = IF later = {} THEN StillRunning ELSE CHOOSE t \in later : \A u \in later : t <= u
    BY DEF NextBoundary
  <1>2. moments \subseteq Nat
    <2>1. \A s \in spans : s.from \in Nat /\ s.to \in Nat
      BY CacheNumbers DEF CacheShape, SpanRow
    <2>2. \A b \in counted : b[2] \in Nat /\ b[2] + MinuteLength \in Nat
      BY CacheNumbers
    <2>3. \A h \in holes : h.from \in Nat /\ h.to \in Nat
      BY CacheNumbers DEF CacheShape, Hole
    <2> QED
      BY <2>1, <2>2, <2>3
  <1>3. /\ \A s \in spans : s.from \in moments /\ s.to \in moments /\ s.from # StillRunning
        /\ \A b \in Buckets : presses[b] > 0 => b[2] \in moments /\ b[2] # StillRunning
        /\ \A h \in holes : h.from \in moments /\ h.from # StillRunning
    <2>1. \A t \in Moments : t # StillRunning
      BY CacheNumbers
    <2> QED
      BY <2>1, CacheNumbers DEF CacheShape, SpanRow, Hole
  <1> HIDE DEF moments
  <1>4. later \in SUBSET Nat
    BY <1>2
  <1>5. next \in Nat /\ \A t \in later : next <= t
    <2>1. CASE later = {}
      BY <1>1, <2>1, CacheNumbers
    <2>2. CASE later # {}
      BY <1>1, <1>4, <2>2, LeastNatural
    <2> QED
      BY <2>1, <2>2
  <1> QED
    BY <1>3, <1>5

\* The groups of merged identities.
LEMMA GroupsOfRoots ==
  /\ Roots \subseteq Identities
  /\ \A x \in Identities : Root(x) \in Roots /\ x \in MergedWith(x) /\ MergedWith(x) = MergedWith(Root(x))
  /\ \A r \in Roots : Root(r) = r /\ MergedWith(r) = {x \in Identities : Root(x) = r}
  BY DEF Roots, Root, MergedWith, Identities

AreRead(apps, sources, start, end) ==
  /\ DOMAIN apps = {r \in {Root(x) : x \in sources} : ShownOf(r, start, end)}
  /\ apps = [r \in DOMAIN apps |-> RowOf(r, start, end)]

\* An application's row is read from its group.
LEMMA ApplicationsAre ==
  ASSUME CacheShape,
         NEW sources \in SUBSET Identities, \A x \in sources : MergedWith(x) \subseteq sources, NEW start, NEW end
  PROVE  AreRead(Applications(sources, start, end), sources, start, end)
  <1> DEFINE shown == {Root(s.app) : s \in {x \in spans : x.app \in sources /\ Shown(x, start, end)}}
                 \cup {Root(b[1]) : b \in {x \in sources \X Minutes : Counted(x, start, end)}}
             row(r) == [time |-> Covered(MergedWith(r) \cap sources, start, end),
                        keys |-> SumOf({b \in (MergedWith(r) \cap sources) \X Minutes : Counted(b, start, end)})]
  <1>1. Applications(sources, start, end) = [r \in shown |-> row(r)]
    BY DEF Applications
  <1>2. \A x \in Identities : Root(x) \in {Root(y) : y \in sources} => x \in sources
    <2>1. \A x \in Identities, y \in sources : Root(x) = Root(y) => x \in MergedWith(y)
      BY DEF MergedWith
    <2> QED
      BY <2>1
  <1>3. shown = {r \in {Root(x) : x \in sources} : ShownOf(r, start, end)}
    <2>1. ASSUME NEW r \in shown PROVE r \in {Root(x) : x \in sources} /\ ShownOf(r, start, end)
      BY DEF ShownOf
    <2>2. ASSUME NEW x \in sources, ShownOf(Root(x), start, end) PROVE Root(x) \in shown
      <3>1. CASE \E s \in spans : Root(s.app) = Root(x) /\ Shown(s, start, end)
        <4>1. \A s \in spans : s.app \in Identities
          BY DEF CacheShape, SpanRow
        <4>2. \A s \in spans : Root(s.app) = Root(x) => s.app \in sources
          BY <1>2, <4>1
        <4> QED
          BY <3>1, <4>2
      <3>2. CASE \E b \in Identities \X Minutes : Root(b[1]) = Root(x) /\ Counted(b, start, end)
        <4>1. PICK b \in Identities \X Minutes : Root(b[1]) = Root(x) /\ Counted(b, start, end)
          BY <3>2
        <4>2. b \in sources \X Minutes
          BY <1>2, <4>1
        <4> QED
          BY <4>1, <4>2
      <3> QED
        BY <2>2, <3>1, <3>2 DEF ShownOf
    <2> QED
      BY <2>1, <2>2
  <1>4. \A x \in sources : MergedWith(Root(x)) \cap sources = MergedWith(Root(x))
    BY GroupsOfRoots
  <1>5. \A r \in shown : row(r) = RowOf(r, start, end)
    <2>1. \A r \in shown : MergedWith(r) \cap sources = MergedWith(r)
      BY <1>3, <1>4
    <2> QED
      BY <2>1 DEF RowOf
  <1> HIDE DEF shown, row
  <1>6. PICK apps : apps = Applications(sources, start, end)
    OBVIOUS
  <1>7. DOMAIN apps = shown /\ apps = [r \in shown |-> RowOf(r, start, end)]
    BY <1>1, <1>5, <1>6
  <1>8. AreRead(apps, sources, start, end)
    BY <1>3, <1>7 DEF AreRead
  <1> QED
    BY <1>6, <1>8

\* Numbers between two moments.
LEMMA HowMany ==
  ASSUME NEW a \in Nat, NEW b \in Nat
  PROVE  /\ IsFiniteSet(a..(b - 1))
         /\ a <= b => Cardinality(a..(b - 1)) = b - a
  <1>1. /\ IsFiniteSet(a..(b - 1))
        /\ Cardinality(a..(b - 1)) = IF a > b - 1 THEN 0 ELSE (b - 1) - a + 1
    <2>1. a \in Int /\ b - 1 \in Int
      OBVIOUS
    <2> QED
      BY <2>1, FS_Interval
  <1> QED
    BY <1>1

\* Up to its limit a view's application goes on with what was running at its end.
LEMMA RunsOn ==
  ASSUME CacheShape, NEW e \in Entry, NEW end \in Moments, e.end <= end, end < e.next, NEW r, AheadOfApp(e, r),
         NEW s \in spans, Root(s.app) = r
  PROVE  /\ s.from < end <=> s.from < e.end
         /\ s.to > end <=> s.to > e.end
         /\ \A t \in Nat : e.end <= t /\ t < end =>
              (s.from <= t /\ t < s.to <=> s.from < e.end /\ s.to > e.end)
  <1>1. s.from \in Nat /\ s.to \in Nat /\ end \in Nat /\ e.end \in Nat /\ e.next \in Nat
    BY CacheNumbers DEF CacheShape, SpanRow, Entry
  <1>2. StillRunning \in Nat /\ end < StillRunning /\ e.end < StillRunning
    BY CacheNumbers DEF Entry
  <1>3. /\ s.from >= e.end => e.next <= s.from
        /\ s.to >= e.end /\ s.to # StillRunning => e.next <= s.to
    BY DEF AheadOfApp
  <1>4. s.to >= e.end => s.to > end
    BY <1>1, <1>2, <1>3
  <1>5. s.from >= e.end => s.from > end
    BY <1>1, <1>3
  <1> HIDE DEF StillRunning
  <1> QED
    BY <1>1, <1>4, <1>5

\* The time covered grows by what goes on.
LEMMA CoveredGoesOn ==
  ASSUME CacheShape, NEW e \in Entry, e.start < e.end, NEW end \in Moments, e.end <= end, end < e.next,
         NEW r \in Roots, AheadOfApp(e, r), RunsApp(e, r)
  PROVE  Covered(MergedWith(r), e.start, end) =
           IF r \in e.running THEN Covered(MergedWith(r), e.start, e.end) + (end - e.end)
           ELSE Covered(MergedWith(r), e.start, e.end)
  <1> DEFINE covers(t) == \E s \in spans : s.app \in MergedWith(r) /\ s.from <= t /\ t < s.to
             before == {t \in e.start..(e.end - 1) : covers(t)}
             after == {t \in e.start..(end - 1) : covers(t)}
             between == e.end..(end - 1)
  <1>1. end \in Nat /\ e.end \in Nat /\ e.start \in Nat
    BY CacheNumbers DEF Entry
  <1>2. \A s \in spans : s.app \in MergedWith(r) <=> Root(s.app) = r
    BY GroupsOfRoots DEF CacheShape, SpanRow
  <1>3. ASSUME NEW t \in between PROVE covers(t) <=> r \in e.running
    <2>1. t \in Nat /\ e.end <= t /\ t < end
      BY <1>1
    <2>2. \A s \in spans : Root(s.app) = r => (s.from <= t /\ t < s.to <=> s.from < e.end /\ s.to > e.end)
      BY <2>1, RunsOn
    <2>3. covers(t) <=> \E s \in spans : Root(s.app) = r /\ s.from < e.end /\ s.to > e.end
      BY <1>2, <2>2
    <2> QED
      BY <2>3 DEF RunsApp
  <1>4. /\ e.start..(end - 1) = (e.start..(e.end - 1)) \cup between
        /\ (e.start..(e.end - 1)) \cap between = {}
    BY <1>1
  <1>5. IsFiniteSet(before) /\ IsFiniteSet(between) /\ Cardinality(between) = end - e.end
    <2>1. IsFiniteSet(e.start..(e.end - 1)) /\ IsFiniteSet(between) /\ Cardinality(between) = end - e.end
      BY <1>1, HowMany
    <2>2. before \in SUBSET (e.start..(e.end - 1))
      OBVIOUS
    <2> QED
      BY <2>1, <2>2, FS_Subset
  <1>6. Cardinality(before) \in Nat
    BY <1>5, FS_CardinalityType
  <1>7. /\ Covered(MergedWith(r), e.start, end) = Cardinality(after)
        /\ Covered(MergedWith(r), e.start, e.end) = Cardinality(before)
    BY DEF Covered
  <1>8. CASE r \in e.running
    <2>1. after = before \cup between /\ before \cap between = {}
      BY <1>3, <1>4, <1>8
    <2> HIDE DEF before, after, between
    <2>2. Cardinality(before \cap between) = 0
      BY <2>1, FS_EmptySet
    <2>3. Cardinality(after) = Cardinality(before) + Cardinality(between) - Cardinality(before \cap between)
      BY <1>5, <2>1, FS_Union
    <2> QED
      BY <1>1, <1>5, <1>6, <1>7, <1>8, <2>2, <2>3
  <1>9. CASE r \notin e.running
    <2>1. after = before
      BY <1>3, <1>4, <1>9
    <2> HIDE DEF before, after
    <2> QED
      BY <1>7, <1>9, <2>1
  <1> QED
    BY <1>8, <1>9

\* A view that is moved on.
LEMMA AdvanceIs ==
  ASSUME NEW e \in Entry, NEW end \in Moments, e.end <= end
  PROVE  LET a == Advance(e, end) IN
         /\ a \in Entry /\ a.start = e.start /\ a.end = end /\ a.edges = e.edges /\ a.running = e.running
         /\ a.next = e.next /\ a.dirty = e.dirty /\ a.totals = e.totals
         /\ a.view.total = e.view.total /\ a.view.gaps = e.view.gaps
         /\ DOMAIN a.view.apps = DOMAIN e.view.apps
         /\ \A r \in DOMAIN e.view.apps :
              a.view.apps[r] = [e.view.apps[r] EXCEPT !.time = IF r \in e.running THEN @ + (end - e.end) ELSE @]
  <1> DEFINE later(r) == [e.view.apps[r] EXCEPT !.time = IF r \in e.running THEN @ + (end - e.end) ELSE @]
             apps == [r \in DOMAIN e.view.apps |-> later(r)]
  <1>1. end \in Nat /\ e.end \in Nat /\ end - e.end \in Nat
    BY CacheNumbers DEF Entry
  <1>2. PICK D \in SUBSET Identities : e.view.apps \in [D -> AppRow]
    BY DEF Entry, ViewOf
  <1>3. \A r \in D : later(r) \in AppRow
    <2>1. ASSUME NEW row \in AppRow, NEW n \in Nat PROVE [row EXCEPT !.time = n] \in AppRow
      BY DEF AppRow
    <2>2. \A r \in D : e.view.apps[r] \in AppRow /\ e.view.apps[r].time \in Nat
      BY <1>2 DEF AppRow
    <2>3. \A r \in D : (IF r \in e.running THEN e.view.apps[r].time + (end - e.end) ELSE e.view.apps[r].time) \in Nat
      BY <1>1, <2>2
    <2> QED
      BY <2>1, <2>2, <2>3
  <1>4. DOMAIN e.view.apps = D
    BY <1>2
  <1>5. apps \in [D -> AppRow]
    BY <1>3, <1>4
  <1>6. PICK f : f = apps
    OBVIOUS
  <1>7. Advance(e, end) = [e EXCEPT !.end = end, !.view.apps = f]
    BY <1>6 DEF Advance
  <1>8. f \in UNION {[X -> AppRow] : X \in SUBSET Identities}
    BY <1>5, <1>6
  <1> HIDE DEF apps
  <1>9. PICK v \in ViewOf : v = e.view
    BY DEF Entry
  <1>10. PICK w \in ViewOf : w = [v EXCEPT !.apps = f] /\ w.apps = f /\ w.total = v.total /\ w.gaps = v.gaps
    <2>1. PICK T : T = UNION {[X -> AppRow] : X \in SUBSET Identities}
      OBVIOUS
    <2>2. ViewOf = [apps : T, total : Sums, gaps : SUBSET Hole]
      BY <2>1 DEF ViewOf
    <2>3. ASSUME NEW x \in [apps : T, total : Sums, gaps : SUBSET Hole], NEW g \in T
          PROVE  /\ [x EXCEPT !.apps = g] \in [apps : T, total : Sums, gaps : SUBSET Hole]
                 /\ [x EXCEPT !.apps = g].apps = g /\ [x EXCEPT !.apps = g].total = x.total
                 /\ [x EXCEPT !.apps = g].gaps = x.gaps
      OBVIOUS
    <2>4. f \in T /\ v \in [apps : T, total : Sums, gaps : SUBSET Hole]
      BY <1>8, <2>1, <2>2
    <2>5. [v EXCEPT !.apps = f] \in ViewOf /\ [v EXCEPT !.apps = f].apps = f
          /\ [v EXCEPT !.apps = f].total = v.total /\ [v EXCEPT !.apps = f].gaps = v.gaps
      BY <2>2, <2>3, <2>4, Zenon
    <2> QED
      BY <2>5
  <1>11. [e EXCEPT !.end = end, !.view.apps = f] = [e EXCEPT !.end = end, !.view = w]
    BY <1>9, <1>10 DEF Entry
  <1>12. PICK a : a = [e EXCEPT !.end = end, !.view = w]
    OBVIOUS
  <1>13. /\ a \in Entry /\ a.start = e.start /\ a.end = end /\ a.edges = e.edges /\ a.running = e.running
         /\ a.next = e.next /\ a.dirty = e.dirty /\ a.totals = e.totals /\ a.view = w
    <2>1. ASSUME NEW V, NEW x \in [start : Starts, end : Moments, view : V, edges : SUBSET {"user", "automatic"},
                running : SUBSET Identities, next : Nat, dirty : SUBSET Identities, totals : BOOLEAN],
                NEW m \in Moments, NEW y \in V
          PROVE LET z == [x EXCEPT !.end = m, !.view = y] IN
                /\ z \in [start : Starts, end : Moments, view : V, edges : SUBSET {"user", "automatic"},
                          running : SUBSET Identities, next : Nat, dirty : SUBSET Identities, totals : BOOLEAN]
                /\ z.start = x.start /\ z.end = m /\ z.edges = x.edges /\ z.running = x.running
                /\ z.next = x.next /\ z.dirty = x.dirty /\ z.totals = x.totals /\ z.view = y
      OBVIOUS
    <2> QED
      BY <1>12, <2>1, Zenon DEF Entry
  <1>14. a = Advance(e, end)
    BY <1>7, <1>11, <1>12
  <1>15. a.view.total = e.view.total /\ a.view.gaps = e.view.gaps /\ DOMAIN a.view.apps = DOMAIN e.view.apps
         /\ \A r \in DOMAIN e.view.apps : a.view.apps[r] = later(r)
    BY <1>6, <1>9, <1>10, <1>13 DEF apps
  <1> QED
    BY <1>13, <1>14, <1>15

\* What a view shows of an application does not change up to the limit, but for its time.
LEMMA ShownGoesOn ==
  ASSUME CacheShape, NEW e \in Entry, e.start < e.end, NEW end \in Moments, e.end <= end, end < e.next,
         NEW r \in Roots, AheadOfApp(e, r)
  PROVE  /\ ShownOf(r, e.start, end) <=> ShownOf(r, e.start, e.end)
         /\ RowOf(r, e.start, end).keys = RowOf(r, e.start, e.end).keys
  <1>1. \A s \in spans : Root(s.app) = r => (Shown(s, e.start, end) <=> Shown(s, e.start, e.end))
    BY RunsOn DEF Shown
  <1>2. \A b \in Identities \X Minutes : Root(b[1]) = r => (Counted(b, e.start, end) <=> Counted(b, e.start, e.end))
    <2>1. end \in Nat /\ e.end \in Nat /\ e.next \in Nat /\ \A b \in Identities \X Minutes : b[2] \in Nat
      BY CacheNumbers DEF Entry
    <2>2. \A b \in Identities \X Minutes : Root(b[1]) = r /\ presses[b] > 0 /\ b[2] >= e.end => e.next <= b[2]
      BY DEF AheadOfApp
    <2> QED
      BY <2>1, <2>2 DEF Counted
  <1>3. {b \in MergedWith(r) \X Minutes : Counted(b, e.start, end)}
          = {b \in MergedWith(r) \X Minutes : Counted(b, e.start, e.end)}
    BY <1>2, GroupsOfRoots
  <1> QED
    BY <1>1, <1>2, <1>3 DEF ShownOf, RowOf

\* Moving a view on keeps what it tells.
LEMMA AdvanceTells ==
  ASSUME CacheShape, NEW e \in Entry, e.start < e.end, NEW end \in Moments, e.end <= end, end < e.next,
         NEW r \in Roots, ShowsApp(e, r), RunsApp(e, r), AheadOfApp(e, r)
  PROVE  ShowsApp(Advance(e, end), r)
  <1>1. PICK a : a = Advance(e, end)
    OBVIOUS
  <1>2. a.start = e.start /\ a.end = end /\ DOMAIN a.view.apps = DOMAIN e.view.apps
    BY <1>1, AdvanceIs
  <1>3. ASSUME r \in DOMAIN e.view.apps PROVE a.view.apps[r] = RowOf(r, e.start, end)
    <2>1. a.view.apps[r] = [e.view.apps[r] EXCEPT !.time = IF r \in e.running THEN @ + (end - e.end) ELSE @]
      BY <1>1, <1>3, AdvanceIs
    <2>2. e.view.apps[r] = RowOf(r, e.start, e.end)
      BY <1>3 DEF ShowsApp
    <2>3. RowOf(r, e.start, end).time = IF r \in e.running THEN RowOf(r, e.start, e.end).time + (end - e.end)
                                        ELSE RowOf(r, e.start, e.end).time
      BY CoveredGoesOn DEF RowOf
    <2>4. RowOf(r, e.start, end).keys = RowOf(r, e.start, e.end).keys
      BY ShownGoesOn
    <2>5. RowOf(r, e.start, end) = [RowOf(r, e.start, e.end) EXCEPT !.time = RowOf(r, e.start, end).time]
      BY <2>4 DEF RowOf
    <2> QED
      BY <2>1, <2>2, <2>3, <2>5
  <1>4. ShownOf(r, e.start, end) <=> ShownOf(r, e.start, e.end)
    BY ShownGoesOn
  <1> QED
    BY <1>1, <1>2, <1>3, <1>4 DEF ShowsApp

\* What is read is a view.
LEMMA ReadsAreViews ==
  ASSUME CacheShape, NEW start \in Starts, NEW end \in Moments
  PROVE  /\ \A r : RowOf(r, start, end) \in AppRow
         /\ Total(start, end) \in Sums /\ GapsIn(start, end) \in SUBSET Hole
         /\ NextBoundary(end) \in Nat
  <1>1. start \in Nat /\ end \in Nat
    BY CacheNumbers
  <1>2. ASSUME NEW r PROVE RowOf(r, start, end) \in AppRow
    <2>1. Covered(MergedWith(r), start, end) \in Nat
      <3> DEFINE T == {t \in start..(end - 1) : \E s \in spans : s.app \in MergedWith(r) /\ s.from <= t /\ t < s.to}
      <3>1. IsFiniteSet(start..(end - 1)) /\ T \in SUBSET (start..(end - 1))
        BY <1>1, HowMany
      <3>2. IsFiniteSet(T)
        BY <3>1, FS_Subset
      <3> QED
        BY <3>2, FS_CardinalityType DEF Covered
    <2>2. SumOf({b \in MergedWith(r) \X Minutes : Counted(b, start, end)}) \in Sums
      <3>1. MergedWith(r) \X Minutes \subseteq Buckets
        BY DEF MergedWith, Buckets
      <3> QED
        BY <3>1, SumType DEF CacheShape
    <2> QED
      BY <2>1, <2>2 DEF RowOf, AppRow
  <1>3. Total(start, end) \in Sums
    BY SumType DEF Total, CacheShape
  <1>4. GapsIn(start, end) \in SUBSET Hole
    BY DEF GapsIn, CacheShape
  <1>5. NextBoundary(end) \in Nat
    BY NextBoundaryIsNext
  <1> QED
    BY <1>2, <1>3, <1>4, <1>5

\* A view shows each application of a set as the rows do.
LEMMA ViewsOfRows ==
  ASSUME CacheShape, NEW start \in Starts, NEW end \in Moments,
         NEW D \in SUBSET Roots, NEW f, f = [r \in D |-> RowOf(r, start, end)]
  PROVE  [apps |-> f, total |-> Total(start, end), gaps |-> GapsIn(start, end)] \in ViewOf
  <1>1. D \in SUBSET Identities /\ f \in [D -> AppRow]
    BY ReadsAreViews, GroupsOfRoots
  <1>2. PICK T : T = UNION {[X -> AppRow] : X \in SUBSET Identities}
    OBVIOUS
  <1>3. f \in T
    BY <1>1, <1>2
  <1> QED
    BY <1>2, <1>3, ReadsAreViews DEF ViewOf

\* All that is told by an answer, but for what runs on.
Answers(a, start, end) ==
  /\ a \in Entry /\ a.start = start /\ a.end = end /\ a.edges = edges /\ ~Stale(a)
  /\ DOMAIN a.view.apps \subseteq Roots
  /\ \A r \in Roots : ShowsApp(a, r) /\ AheadOfApp(a, r)
  /\ TellsTotal(a)

\* A record of the form of an entry is one.
LEMMA NewEntry ==
  ASSUME NEW a, NEW start \in Starts, NEW end \in Moments, NEW view \in ViewOf, NEW edgeSet \in SUBSET {"user", "automatic"},
         NEW running \in SUBSET Identities, NEW next \in Nat, NEW dirty \in SUBSET Identities, NEW total \in BOOLEAN,
         a = [start |-> start, end |-> end, view |-> view, edges |-> edgeSet, running |-> running,
              next |-> next, dirty |-> dirty, totals |-> total]
  PROVE  /\ a \in Entry /\ a.start = start /\ a.end = end /\ a.view = view /\ a.edges = edgeSet /\ a.running = running
         /\ a.next = next /\ a.dirty = dirty /\ a.totals = total
  BY DEF Entry

\* What is new in an answer that was read.
LEMMA ReadIsAnswer ==
  ASSUME CacheShape, NEW a \in Entry, NEW start \in Starts, NEW end \in Moments, NEW D \in SUBSET Roots, NEW f,
         a.start = start, a.end = end, a.edges = edges, a.dirty = {}, a.totals = FALSE, a.next = NextBoundary(end),
         D = {r \in Roots : ShownOf(r, start, end)}, f = [r \in D |-> RowOf(r, start, end)],
         a.view = [apps |-> f, total |-> Total(start, end), gaps |-> GapsIn(start, end)]
  PROVE  Answers(a, start, end)
  <1>1. PICK next \in Nat : next = NextBoundary(end)
    BY ReadsAreViews
  <1>2. /\ \A s \in spans : s.from >= end => next <= s.from
        /\ \A s \in spans : s.to >= end /\ s.to # StillRunning => next <= s.to
        /\ \A b \in Buckets : presses[b] > 0 /\ b[2] >= end => next <= b[2]
        /\ \A h \in holes : h.from >= end => next <= h.from
    BY <1>1, NextBoundaryIsNext
  <1>3. a.view.apps = f /\ a.view.total = Total(start, end) /\ a.view.gaps = GapsIn(start, end)
    OBVIOUS
  <1>4. \A r \in Roots : ShowsApp(a, r)
    BY <1>3 DEF ShowsApp
  <1>5. \A r \in Roots : AheadOfApp(a, r)
    BY <1>1, <1>2, CacheNumbers DEF AheadOfApp
  <1>6. TellsTotal(a)
    BY <1>1, <1>2, <1>3 DEF TellsTotal
  <1>7. ~Stale(a)
    BY DEF Stale
  <1>8. DOMAIN a.view.apps \subseteq Roots
    BY <1>3
  <1> QED
    BY <1>4, <1>5, <1>6, <1>7, <1>8 DEF Answers

\* The whole view is as the rows have it.
LEMMA WholeView ==
  ASSUME CacheShape, NEW start, NEW end
  PROVE  Applications(Identities, start, end)
           = [r \in {x \in Roots : ShownOf(x, start, end)} |-> RowOf(r, start, end)]
  <1>1. \A x \in Identities : MergedWith(x) \subseteq Identities
    BY DEF MergedWith
  <1>2. PICK apps : apps = Applications(Identities, start, end)
    OBVIOUS
  <1>3. /\ DOMAIN apps = {r \in {Root(x) : x \in Identities} : ShownOf(r, start, end)}
        /\ apps = [r \in DOMAIN apps |-> RowOf(r, start, end)]
    <2>1. PICK sources \in SUBSET Identities : sources = Identities
      OBVIOUS
    <2>2. \A x \in sources : MergedWith(x) \subseteq sources
      BY <1>1, <2>1
    <2>3. AreRead(Applications(sources, start, end), sources, start, end)
      BY <2>2, ApplicationsAre
    <2> QED
      BY <1>2, <2>1, <2>3 DEF AreRead
  <1>4. DOMAIN apps = {x \in Roots : ShownOf(x, start, end)}
    BY <1>3 DEF Roots
  <1> QED
    BY <1>2, <1>3, <1>4

\* Reading the whole view answers.
LEMMA ReadWholeAnswers ==
  ASSUME CacheShape, NEW start \in Starts, NEW end \in Moments
  PROVE  Answers(ReadWhole(start, end), start, end)
  <1>1. PICK D \in SUBSET Roots : D = {r \in Roots : ShownOf(r, start, end)}
    OBVIOUS
  <1>2. PICK f : f = [r \in D |-> RowOf(r, start, end)]
    OBVIOUS
  <1>3. PICK view : view = [apps |-> f, total |-> Total(start, end), gaps |-> GapsIn(start, end)]
    OBVIOUS
  <1>4. View(start, end) = view
    BY <1>1, <1>2, <1>3, WholeView DEF View
  <1>5. view \in ViewOf
    BY <1>2, <1>3, ViewsOfRows
  <1>6. PICK next \in Nat : next = NextBoundary(end)
    BY ReadsAreViews
  <1>7. edges \in SUBSET {"user", "automatic"} /\ {} \in SUBSET Identities /\ FALSE \in BOOLEAN
    BY DEF CacheShape
  <1>8. PICK a : a = ReadWhole(start, end)
    OBVIOUS
  <1>9. a = [start |-> start, end |-> end, view |-> view, edges |-> edges, running |-> {}, next |-> next,
             dirty |-> {}, totals |-> FALSE]
    BY <1>4, <1>6, <1>8 DEF ReadWhole
  <1>10. /\ a \in Entry /\ a.start = start /\ a.end = end /\ a.view = view /\ a.edges = edges
         /\ a.next = next /\ a.dirty = {} /\ a.totals = FALSE
    BY <1>5, <1>7, <1>9, NewEntry
  <1>11. Answers(a, start, end)
    BY <1>1, <1>2, <1>3, <1>6, <1>10, ReadIsAnswer
  <1> QED
    BY <1>8, <1>11

\* Moving on a view that is not marked answers.
LEMMA AdvanceAnswers ==
  ASSUME CacheShape, NEW e \in Entry, Tells(e), ~Stale(e), NEW end \in Moments, e.end <= end, end < e.next
  PROVE  Answers(Advance(e, end), e.start, end)
  <1>1. e.start < e.end /\ e.edges = edges /\ TellsTotal(e) /\ DOMAIN e.view.apps \subseteq Roots
        /\ \A r \in Roots : ShowsApp(e, r) /\ RunsApp(e, r) /\ AheadOfApp(e, r)
    BY DEF Tells, Stale, DirtyRoots
  <1>2. PICK a : a = Advance(e, end)
    OBVIOUS
  <1>3. /\ a \in Entry /\ a.start = e.start /\ a.end = end /\ a.edges = e.edges
        /\ a.next = e.next /\ a.dirty = e.dirty /\ a.totals = e.totals
        /\ a.view.total = e.view.total /\ a.view.gaps = e.view.gaps
        /\ DOMAIN a.view.apps = DOMAIN e.view.apps
    BY <1>2, AdvanceIs
  <1>4. ASSUME NEW r \in Roots PROVE ShowsApp(a, r) /\ AheadOfApp(a, r)
    <2>1. ShowsApp(a, r)
      BY <1>1, <1>2, AdvanceTells
    <2>2. AheadOfApp(e, r)
      BY <1>1
    <2>3. /\ \A s \in spans : s.from \in Nat /\ s.to \in Nat
          /\ \A b \in Identities \X Minutes : b[2] \in Nat
          /\ end \in Nat /\ e.end \in Nat
      BY CacheNumbers DEF CacheShape, SpanRow, Entry
    <2>4. AheadOfApp(a, r)
      BY <1>3, <2>2, <2>3 DEF AheadOfApp
    <2> QED
      BY <2>1, <2>4
  <1>5. TellsTotal(a)
    <2>1. /\ \A b \in Buckets : b[2] \in Nat
          /\ \A h \in holes : h.from \in Nat
          /\ end \in Nat /\ e.end \in Nat /\ e.next \in Nat
      BY CacheNumbers DEF CacheShape, Hole, Entry
    <2>2. /\ \A b \in Buckets : presses[b] > 0 /\ b[2] >= e.end => e.next <= b[2]
          /\ \A h \in holes : h.from >= e.end => e.next <= h.from
      BY <1>1 DEF TellsTotal
    <2>3. \A b \in Buckets : Counted(b, e.start, end) <=> Counted(b, e.start, e.end)
      BY <2>1, <2>2 DEF Counted
    <2>4. Total(e.start, end) = Total(e.start, e.end)
      BY <2>3 DEF Total
    <2>5. GapsIn(e.start, end) = GapsIn(e.start, e.end)
      BY <2>1, <2>2 DEF GapsIn
    <2>6. a.view.total = Total(a.start, a.end) /\ a.view.gaps = GapsIn(a.start, a.end)
      BY <1>1, <1>3, <2>4, <2>5 DEF TellsTotal
    <2> QED
      BY <1>3, <2>1, <2>2, <2>6 DEF TellsTotal
  <1>6. ~Stale(a)
    BY <1>3 DEF Stale
  <1>7. Answers(a, e.start, end)
    BY <1>1, <1>3, <1>4, <1>5, <1>6 DEF Answers
  <1> QED
    BY <1>2, <1>7

\* Reading again what was marked answers.
LEMMA ReadAgainAnswers ==
  ASSUME CacheShape, NEW e \in Entry, Tells(e), e.edges = edges, NEW end \in Moments, e.end <= end, end < e.next
  PROVE  Answers(ReadAgain(e, end), e.start, end)
  <1>1. e.start < e.end /\ DOMAIN e.view.apps \subseteq Roots /\ e.start \in Starts /\ e.dirty \in SUBSET Identities
        /\ \A r \in Roots \ DirtyRoots(e) : ShowsApp(e, r) /\ RunsApp(e, r) /\ AheadOfApp(e, r)
    BY DEF Tells, Entry
  <1>2. PICK moved : moved = Advance(e, end)
    OBVIOUS
  <1>3. /\ moved \in Entry /\ moved.start = e.start /\ moved.end = end /\ moved.edges = e.edges
        /\ DOMAIN moved.view.apps = DOMAIN e.view.apps
    BY <1>2, AdvanceIs
  <1>4. PICK sources \in SUBSET Identities : sources = UNION {MergedWith(x) : x \in e.dirty}
    BY DEF MergedWith
  <1>5. PICK again : again = Applications(sources, e.start, end)
    OBVIOUS
  <1>6. {Root(x) : x \in sources} = DirtyRoots(e)
    <2>1. \A x \in e.dirty : x \in MergedWith(x) /\ \A y \in MergedWith(x) : Root(y) = Root(x)
      BY <1>1 DEF MergedWith
    <2> QED
      BY <1>4, <2>1 DEF DirtyRoots
  <1>7. DOMAIN again = {r \in DirtyRoots(e) : ShownOf(r, e.start, end)}
        /\ \A r \in DOMAIN again : again[r] = RowOf(r, e.start, end)
    <2>1. \A x \in sources : MergedWith(x) \subseteq sources
      BY <1>4 DEF MergedWith
    <2>2. AreRead(Applications(sources, e.start, end), sources, e.start, end)
      BY <2>1, ApplicationsAre
    <2> QED
      BY <1>5, <1>6, <2>2 DEF AreRead
  <1>8. PICK D : D = (DOMAIN moved.view.apps \ DirtyRoots(e)) \cup DOMAIN again
    OBVIOUS
  <1>9. PICK f : f = [r \in D |-> IF r \in DOMAIN again THEN again[r] ELSE moved.view.apps[r]]
    OBVIOUS
  <1>10. DirtyRoots(e) \subseteq Roots
    BY <1>1 DEF DirtyRoots, Roots
  <1>11. \A r \in Roots \ DirtyRoots(e) : ShowsApp(moved, r)
    BY <1>1, <1>2, AdvanceTells
  <1>12. \A r \in Roots \ DirtyRoots(e) : /\ r \in DOMAIN moved.view.apps <=> ShownOf(r, e.start, end)
                                          /\ r \in DOMAIN moved.view.apps => moved.view.apps[r] = RowOf(r, e.start, end)
    BY <1>3, <1>11 DEF ShowsApp
  <1>13. D = {r \in Roots : ShownOf(r, e.start, end)}
    BY <1>1, <1>3, <1>7, <1>8, <1>10, <1>12
  <1>14. f = [r \in D |-> RowOf(r, e.start, end)]
    <2>1. ASSUME NEW r \in D
          PROVE  (IF r \in DOMAIN again THEN again[r] ELSE moved.view.apps[r]) = RowOf(r, e.start, end)
      <3>1. CASE r \in DOMAIN again
        BY <1>7, <3>1
      <3>2. CASE r \notin DOMAIN again
        BY <1>8, <1>12, <1>13, <3>2
      <3> QED
        BY <3>1, <3>2
    <2> QED
      BY <1>9, <2>1
  <1>15. PICK view : view = [apps |-> f, total |-> Total(e.start, end), gaps |-> GapsIn(e.start, end)]
    OBVIOUS
  <1>16. view \in ViewOf
    BY <1>1, <1>13, <1>14, <1>15, ViewsOfRows
  <1>17. PICK next \in Nat : next = NextBoundary(end)
    BY <1>1, ReadsAreViews
  <1>18. ReadAgain(e, end) = [moved EXCEPT !.view = view, !.dirty = {}, !.totals = FALSE, !.next = next]
    BY <1>2, <1>4, <1>5, <1>8, <1>9, <1>15, <1>17 DEF ReadAgain, DirtyRoots
  <1>19. PICK a : a = [moved EXCEPT !.view = view, !.dirty = {}, !.totals = FALSE, !.next = next]
    OBVIOUS
  <1>20. /\ a \in Entry /\ a.start = e.start /\ a.end = end /\ a.edges = edges /\ a.view = view
         /\ a.dirty = {} /\ a.totals = FALSE /\ a.next = next
    <2>1. ASSUME NEW V, NEW x \in [start : Starts, end : Moments, view : V, edges : SUBSET {"user", "automatic"},
                running : SUBSET Identities, next : Nat, dirty : SUBSET Identities, totals : BOOLEAN],
                NEW y \in V, NEW n \in Nat
          PROVE LET z == [x EXCEPT !.view = y, !.dirty = {}, !.totals = FALSE, !.next = n] IN
                /\ z \in [start : Starts, end : Moments, view : V, edges : SUBSET {"user", "automatic"},
                          running : SUBSET Identities, next : Nat, dirty : SUBSET Identities, totals : BOOLEAN]
                /\ z.start = x.start /\ z.end = x.end /\ z.edges = x.edges /\ z.view = y
                /\ z.dirty = {} /\ z.totals = FALSE /\ z.next = n
      OBVIOUS
    <2>2. LET z == [moved EXCEPT !.view = view, !.dirty = {}, !.totals = FALSE, !.next = next] IN
                /\ z \in Entry
                /\ z.start = moved.start /\ z.end = moved.end /\ z.edges = moved.edges /\ z.view = view
                /\ z.dirty = {} /\ z.totals = FALSE /\ z.next = next
      BY <1>3, <1>16, <2>1, Zenon DEF Entry
    <2> QED
      BY <1>3, <1>19, <2>2
  <1>21. Answers(a, e.start, end)
    BY <1>1, <1>13, <1>14, <1>15, <1>17, <1>20, ReadIsAnswer
  <1> QED
    BY <1>18, <1>19, <1>21

-----------------------------------------------------------------------------
(* The list of the remembered views. *)

Ascends(s) == \A m, n \in DOMAIN s : m < n => s[m] < s[n]

\* Places can be put in order.
LEMMA PlacesInOrder ==
  ASSUME NEW S \in SUBSET Nat, IsFiniteSet(S)
  PROVE  \E s \in [1..Cardinality(S) -> S] : Ascends(s)
  <1> DEFINE Unordered(n) == \E T \in SUBSET Nat : /\ IsFiniteSet(T) /\ Cardinality(T) = n
                                                  /\ ~\E s \in [1..n -> T] : Ascends(s)
             Counts == {n \in Nat : Unordered(n)}
  <1>1. SUFFICES ASSUME Counts # {} PROVE FALSE
    <2>1. Cardinality(S) \in Nat
      BY FS_CardinalityType
    <2> QED
      BY <2>1
  <1>2. PICK n \in Counts : \A m \in Counts : n <= m
    BY <1>1, LeastNatural
  <1>3. PICK T \in SUBSET Nat : /\ IsFiniteSet(T) /\ Cardinality(T) = n
                                /\ ~\E s \in [1..n -> T] : Ascends(s)
    BY <1>2
  <1>4. T # {}
    <2>1. SUFFICES ASSUME T = {} PROVE FALSE
      OBVIOUS
    <2>2. n = 0
      BY <1>3, <2>1, FS_EmptySet
    <2>3. [m \in 1..0 |-> 0] \in [1..n -> T] /\ Ascends([m \in 1..0 |-> 0])
      BY <2>2 DEF Ascends
    <2> QED
      BY <1>3, <2>3
  <1>5. PICK x \in T : \A y \in T : x <= y
    BY <1>4, LeastNatural
  <1>6. IsFiniteSet(T \ {x}) /\ Cardinality(T \ {x}) = n - 1 /\ n \in Nat /\ n # 0
    BY <1>3, <1>5, FS_RemoveElement, FS_EmptySet
  <1>7. n - 1 \in Nat /\ n - 1 \notin Counts
    BY <1>2, <1>6
  <1>8. PICK s \in [1..(n - 1) -> T \ {x}] : Ascends(s)
    BY <1>6, <1>7
  <1> DEFINE t == [m \in 1..n |-> IF m = 1 THEN x ELSE s[m - 1]]
  <1>9. \A m \in 2..n : m - 1 \in 1..(n - 1) /\ s[m - 1] \in T \ {x} /\ t[m] = s[m - 1]
    BY <1>6, <1>8
  <1>10. t \in [1..n -> T] /\ t[1] = x
    BY <1>5, <1>6, <1>8, <1>9
  <1>11. ASSUME NEW i \in 1..n, NEW j \in 1..n, i < j PROVE t[i] < t[j]
    <2>1. j \in 2..n /\ t[j] \in T \ {x} /\ t[j] = s[j - 1] /\ j - 1 \in 1..(n - 1)
      BY <1>6, <1>9, <1>11
    <2>2. CASE i = 1
      <3>1. x <= t[j] /\ x # t[j] /\ x \in Nat /\ t[j] \in Nat
        BY <1>5, <2>1
      <3> QED
        BY <1>10, <2>2, <3>1
    <2>3. CASE i # 1
      <3>1. i \in 2..n /\ i - 1 \in 1..(n - 1) /\ t[i] = s[i - 1] /\ i - 1 < j - 1
        BY <1>6, <1>9, <1>11, <2>3
      <3> QED
        BY <1>8, <2>1, <3>1 DEF Ascends
    <2> QED
      BY <2>2, <2>3
  <1>12. Ascends(t)
    BY <1>10, <1>11 DEF Ascends
  <1> QED
    BY <1>3, <1>10, <1>12

\* A list of views that have been told of every change.
Remembers(list) == list \in Seq(Entry) /\ \A i \in DOMAIN list : Tells(list[i])

\* Some of the views of a list.
LEMMA KeptAreKnown ==
  ASSUME NEW known \in Seq(Entry), NEW is \in SUBSET (DOMAIN known)
  PROVE  /\ Kept(known, is) \in Seq(Entry) /\ Len(Kept(known, is)) <= Len(known)
         /\ \A n \in DOMAIN Kept(known, is) : \E i \in is : Kept(known, is)[n] = known[i]
  <1>1. PICK len \in Nat : len = Len(known)
    OBVIOUS
  <1>2. DOMAIN known = 1..len /\ IsFiniteSet(1..len) /\ Cardinality(1..len) = len
    <2>1. IsFiniteSet(1..len) /\ Cardinality(1..len) = IF 1 > len THEN 0 ELSE len - 1 + 1
      <3>1. 1 \in Int /\ len \in Int
        OBVIOUS
      <3> QED
        BY <3>1, FS_Interval
    <2> QED
      BY <1>1, <2>1
  <1>3. IsFiniteSet(is) /\ Cardinality(is) <= Cardinality(1..len)
    BY <1>2, FS_Subset, Zenon
  <1>4. PICK c \in Nat : c = Cardinality(is)
    BY <1>3, FS_CardinalityType
  <1>5. is \in SUBSET Nat
    BY <1>2
  <1>6. \E s \in [1..Cardinality(is) -> is] : \A m, n \in DOMAIN s : m < n => s[m] < s[n]
    BY <1>3, <1>5, PlacesInOrder DEF Ascends
  <1>7. PICK s \in [1..c -> is] : s = OneByOne(is)
    BY <1>4, <1>6 DEF OneByOne
  <1>8. Kept(known, is) = [n \in 1..c |-> known[s[n]]]
    BY <1>4, <1>7 DEF Kept
  <1>9. \A n \in 1..c : s[n] \in is /\ known[s[n]] \in Entry
    BY <1>7
  <1> QED
    BY <1>1, <1>2, <1>3, <1>4, <1>8, <1>9

\* The views of a list are still remembered when some are forgotten.
LEMMA KeptRemembers ==
  ASSUME NEW known, Remembers(known), Len(known) <= CacheSize, NEW is \in SUBSET (DOMAIN known)
  PROVE  Remembers(Kept(known, is)) /\ Len(Kept(known, is)) <= CacheSize
  <1>1. PICK list : list = Kept(known, is)
    OBVIOUS
  <1>2. list \in Seq(Entry) /\ Len(list) <= Len(known) /\ \A n \in DOMAIN list : \E i \in is : list[n] = known[i]
    BY <1>1, KeptAreKnown DEF Remembers
  <1>3. Remembers(list)
    BY <1>2 DEF Remembers
  <1>4. Len(list) \in Nat /\ Len(known) \in Nat /\ CacheSize \in Nat
    BY <1>2, CacheNumbers DEF Remembers
  <1> QED
    BY <1>1, <1>2, <1>3, <1>4

\* A new view is put behind the others, and the oldest gives way.
LEMMA OneMore ==
  ASSUME NEW rest, Remembers(rest), Len(rest) <= CacheSize, NEW e \in Entry, Tells(e)
  PROVE  /\ Remembers(Remembered(Append(rest, e)))
         /\ Len(Remembered(Append(rest, e))) <= CacheSize
  <1>1. PICK all \in Seq(Entry) : all = Append(rest, e) /\ Len(all) = Len(rest) + 1
    <2>1. rest \in Seq(Entry)
      BY DEF Remembers
    <2>2. Append(rest, e) \in Seq(Entry) /\ Len(Append(rest, e)) = Len(rest) + 1
      BY <2>1, AppendProperties
    <2> QED
      BY <2>2
  <1>2. PICK n \in Nat : n = Len(rest)
    BY DEF Remembers
  <1>3. CacheSize \in Nat
    BY CacheNumbers
  <1>4. \A i \in DOMAIN all : Tells(all[i])
    <2>1. \A i \in 1..(n + 1) : all[i] = IF i = n + 1 THEN e ELSE rest[i]
      BY <1>1, <1>2 DEF Remembers
    <2>2. DOMAIN all = 1..(n + 1) /\ DOMAIN rest = 1..n
      BY <1>1, <1>2 DEF Remembers
    <2>3. \A i \in 1..(n + 1) : i # n + 1 => i \in 1..n
      BY <1>2
    <2>4. \A i \in 1..n : Tells(rest[i])
      BY <2>2 DEF Remembers
    <2> QED
      BY <2>1, <2>2, <2>3, <2>4
  <1>5. CASE n + 1 > CacheSize
    <2>1. Remembered(all) = Tail(all)
      BY <1>1, <1>2, <1>5 DEF Remembered
    <2>2. PICK tail : tail = Tail(all)
      OBVIOUS
    <2>3. /\ tail \in Seq(Entry) /\ Len(tail) = n
          /\ \A i \in 1..n : tail[i] = all[i + 1] /\ i + 1 \in 1..(n + 1)
      <3>1. all # << >> /\ Len(all) = n + 1
        BY <1>1, <1>2
      <3>2. /\ Tail(all) \in Seq(Entry) /\ Len(Tail(all)) = Len(all) - 1
            /\ \A i \in 1..Len(Tail(all)) : Tail(all)[i] = all[i + 1]
        BY <3>1, HeadTailProperties
      <3> QED
        BY <1>2, <2>2, <3>1, <3>2
    <2>4. Remembers(tail)
      <3>1. DOMAIN all = 1..(n + 1) /\ DOMAIN tail = 1..n
        BY <1>1, <1>2, <2>3
      <3>2. \A i \in 1..n : Tells(tail[i])
        BY <1>4, <2>3, <3>1
      <3> QED
        BY <2>3, <3>1, <3>2 DEF Remembers
    <2> QED
      BY <1>1, <1>2, <1>3, <1>5, <2>1, <2>2, <2>3, <2>4
  <1>6. CASE ~(n + 1 > CacheSize)
    <2>1. Remembered(all) = all
      BY <1>1, <1>2, <1>6 DEF Remembered
    <2> QED
      BY <1>1, <1>2, <1>3, <1>4, <1>6, <2>1 DEF Remembers
  <1> QED
    BY <1>5, <1>6

-----------------------------------------------------------------------------
(* Each step keeps what is remembered. *)

\* What the step before the running applications answers is remembered with them.
LEMMA AnswerTells ==
  ASSUME CacheShape, NEW start \in Starts, NEW end \in Moments, start < end, NEW b, Answers(b, start, end)
  PROVE  LET a == [b EXCEPT !.running = Running(end)] IN a \in Entry /\ Tells(a)
  <1>1. PICK running \in SUBSET Identities : running = Running(end)
    <2>1. \A s \in spans : s.app \in Identities
      BY DEF CacheShape, SpanRow
    <2>2. \A s \in spans : Root(s.app) \in Identities
      BY <2>1, GroupsOfRoots
    <2>3. Running(end) \subseteq Identities
      BY <2>2 DEF Running
    <2> QED
      BY <2>3
  <1>2. PICK a : a = [b EXCEPT !.running = running]
    OBVIOUS
  <1>3. /\ a \in Entry /\ a.start = b.start /\ a.end = b.end /\ a.edges = b.edges /\ a.running = running
        /\ a.next = b.next /\ a.dirty = b.dirty /\ a.totals = b.totals /\ a.view = b.view
    <2>1. ASSUME NEW x \in Entry, NEW g \in SUBSET Identities
          PROVE LET z == [x EXCEPT !.running = g] IN
                /\ z \in Entry /\ z.start = x.start /\ z.end = x.end /\ z.edges = x.edges /\ z.running = g
                /\ z.next = x.next /\ z.dirty = x.dirty /\ z.totals = x.totals /\ z.view = x.view
      BY DEF Entry
    <2>2. b \in Entry
      BY DEF Answers
    <2> QED
      BY <1>2, <2>1, <2>2, Zenon
  <1>4. \A r : RunsApp(a, r)
    <2>1. a.running = running /\ a.end = end
      BY <1>3 DEF Answers
    <2> QED
      BY <1>1, <2>1 DEF RunsApp, Running
  <1>5. \A r \in Roots : ShowsApp(a, r) /\ AheadOfApp(a, r)
    BY <1>3 DEF Answers, ShowsApp, AheadOfApp
  <1>6. TellsTotal(a)
    BY <1>3 DEF Answers, TellsTotal
  <1>7. a.start < a.end /\ a.edges = edges /\ DOMAIN a.view.apps \subseteq Roots
    BY <1>3 DEF Answers
  <1>8. Tells(a)
    BY <1>4, <1>5, <1>6, <1>7 DEF Tells
  <1> QED
    BY <1>1, <1>2, <1>3, <1>8

\* The first of some places is one of them.
LEMMA EarliestIsFound ==
  ASSUME NEW is \in SUBSET Nat, is # {}
  PROVE  Earliest(is) \in is
  BY LeastNatural DEF Earliest

\* Whatever is remembered, an answer tells what the rows have.
LEMMA AnswerAnswers ==
  ASSUME CacheShape, NEW known, Remembers(known), NEW start \in Starts, NEW end \in Moments,
         NEW found, found = {i \in DOMAIN known : Useful(known[i], start, end)}
  PROVE  Answers(Answer(known, found, start, end), start, end)
  <1>1. CASE found = {}
    <2>1. Answer(known, found, start, end) = ReadWhole(start, end)
      BY <1>1 DEF Answer
    <2> QED
      BY <2>1, ReadWholeAnswers
  <1>2. CASE found # {}
    <2>1. Earliest(found) \in found
      <3>1. known \in Seq(Entry)
        BY DEF Remembers
      <3>2. DOMAIN known \subseteq Nat
        BY <3>1
      <3>3. found \in SUBSET Nat
        BY <3>2
      <3> QED
        BY <1>2, <3>3, EarliestIsFound
    <2>2. PICK e \in Entry : /\ e = known[Earliest(found)] /\ Tells(e)
                             /\ e.start = start /\ e.end <= end /\ end < e.next
      <3>1. PICK i \in DOMAIN known : i = Earliest(found) /\ Useful(known[i], start, end)
        BY <2>1
      <3>2. known[i] \in Entry /\ Tells(known[i])
        BY <3>1 DEF Remembers
      <3> QED
        BY <3>1, <3>2 DEF Useful
    <2>3. Answer(known, found, start, end) =
            IF ~Stale(e) THEN Advance(e, end) ELSE IF e.edges = edges THEN ReadAgain(e, end) ELSE ReadWhole(start, end)
      BY <1>2, <2>2 DEF Answer
    <2>4. CASE ~Stale(e)
      BY <2>2, <2>3, <2>4, AdvanceAnswers
    <2>5. CASE Stale(e) /\ e.edges = edges
      BY <2>2, <2>3, <2>5, ReadAgainAnswers
    <2>6. CASE Stale(e) /\ e.edges # edges
      BY <2>2, <2>3, <2>6, ReadWholeAnswers
    <2> QED
      BY <2>4, <2>5, <2>6
  <1> QED
    BY <1>1, <1>2

\* The rows are as they were, and so is what tells them.
LEMMA SameRows ==
  ASSUME UNCHANGED rows, NEW list, Remembers(list)
  PROVE  Remembers(list)'
  <1>1. spans' = spans /\ presses' = presses /\ holes' = holes /\ edges' = edges
    BY DEF rows
  <1>2. \A x : Root(x)' = Root(x)
    BY <1>1 DEF Root
  <1>3. Roots' = Roots /\ \A x : MergedWith(x)' = MergedWith(x)
    BY <1>2 DEF Roots, MergedWith
  <1>4. \A b, start, end : Counted(b, start, end)' <=> Counted(b, start, end)
    BY <1>1 DEF Counted
  <1>5. \A bs : SumOf(bs)' = SumOf(bs)
    BY <1>1 DEF SumOf
  <1>6. \A group, start, end : Covered(group, start, end)' = Covered(group, start, end)
    BY <1>1 DEF Covered
  <1>7. \A r, start, end : RowOf(r, start, end)' = RowOf(r, start, end)
    BY <1>3, <1>4, <1>5, <1>6 DEF RowOf
  <1>8. \A r, start, end : ShownOf(r, start, end)' <=> ShownOf(r, start, end)
    BY <1>1, <1>2, <1>4 DEF ShownOf, Shown
  <1>9. \A start, end : Total(start, end)' = Total(start, end) /\ GapsIn(start, end)' = GapsIn(start, end)
    BY <1>1, <1>4, <1>5 DEF Total, GapsIn
  <1>10. ASSUME NEW e, Tells(e) PROVE Tells(e)'
    <2>1. DirtyRoots(e)' = DirtyRoots(e)
      BY <1>2 DEF DirtyRoots
    <2>2. \A r : ShowsApp(e, r)' <=> ShowsApp(e, r)
      BY <1>7, <1>8 DEF ShowsApp
    <2>3. \A r : RunsApp(e, r)' <=> RunsApp(e, r)
      BY <1>1, <1>2 DEF RunsApp
    <2>4. \A r : AheadOfApp(e, r)' <=> AheadOfApp(e, r)
      BY <1>1, <1>2 DEF AheadOfApp
    <2>5. TellsTotal(e)' <=> TellsTotal(e)
      BY <1>1, <1>9 DEF TellsTotal
    <2> QED
      BY <1>1, <1>3, <1>10, <2>1, <2>2, <2>3, <2>4, <2>5 DEF Tells, Stale
  <1> QED
    BY <1>10 DEF Remembers

\* Asking.
LEMMA AskKeeps ==
  ASSUME CacheInv, NEW start \in Starts, NEW end \in Moments, Ask(start, end)
  PROVE  CacheInv'
  <1>1. CacheShape
    BY DEF CacheInv
  <1>2. PICK known : known = IF current THEN entries ELSE <<>>
    OBVIOUS
  <1>3. Remembers(known) /\ Len(known) <= CacheSize
    <2>1. CASE current
      BY <1>1, <1>2, <2>1 DEF CacheInv, EntriesTell, CacheShape, Remembers
    <2>2. CASE ~current
      <3>1. known \in Seq(Entry) /\ Len(known) = 0 /\ DOMAIN known = {}
        BY <1>2, <2>2
      <3> QED
        BY <3>1, CacheNumbers DEF Remembers
    <2> QED
      BY <2>1, <2>2
  <1>4. PICK found : found = {i \in DOMAIN known : Useful(known[i], start, end)}
    OBVIOUS
  <1>5. PICK rest : rest = IF found = {} THEN known ELSE Kept(known, DOMAIN known \ {Earliest(found)})
    OBVIOUS
  <1>6. PICK b : b = Answer(known, found, start, end)
    OBVIOUS
  <1>7. PICK a : a = [b EXCEPT !.running = Running(end)]
    OBVIOUS
  <1>8. start < end /\ entries' = Remembered(Append(rest, a)) /\ current' = TRUE /\ UNCHANGED rows
    BY <1>2, <1>4, <1>5, <1>6, <1>7 DEF Ask
  <1>9. a \in Entry /\ Tells(a)
    <2>1. Answers(b, start, end)
      BY <1>1, <1>3, <1>4, <1>6, AnswerAnswers
    <2> QED
      BY <1>1, <1>7, <1>8, <2>1, AnswerTells
  <1>10. Remembers(rest) /\ Len(rest) <= CacheSize
    <2>1. CASE found = {}
      BY <1>3, <1>5, <2>1
    <2>2. CASE found # {}
      <3>1. DOMAIN known \ {Earliest(found)} \in SUBSET (DOMAIN known)
        OBVIOUS
      <3> QED
        BY <1>3, <1>5, <2>2, <3>1, KeptRemembers
    <2> QED
      BY <2>1, <2>2
  <1>11. Remembers(entries') /\ Len(entries') <= CacheSize
    BY <1>8, <1>9, <1>10, OneMore
  <1>12. PICK list : list = entries'
    OBVIOUS
  <1>13. Remembers(list)'
    BY <1>8, <1>11, <1>12, SameRows
  <1>14. CacheShape'
    BY <1>1, <1>8, <1>11 DEF CacheShape, rows, Remembers
  <1> QED
    BY <1>12, <1>13, <1>14 DEF CacheInv, EntriesTell, Remembers

\* What a step leaves of an application.
Untouched(r) ==
  /\ \A s \in spans \cup spans' : Root(s.app) = r => (s \in spans' <=> s \in spans)
  /\ \A b \in Identities \X Minutes : Root(b[1]) = r => presses'[b] = presses[b]

\* What a view tells of an application does not depend on the others.
LEMMA OthersRows ==
  ASSUME CacheShape, spans' \subseteq SpanRow, edges' = edges, NEW r \in Roots, Untouched(r), NEW e,
         ShowsApp(e, r), RunsApp(e, r), AheadOfApp(e, r)
  PROVE  ShowsApp(e, r)' /\ RunsApp(e, r)' /\ AheadOfApp(e, r)'
  <1>1. \A x : Root(x)' = Root(x) /\ MergedWith(x)' = MergedWith(x)
    BY DEF Root, MergedWith
  <1>2. \A s \in spans' : Root(s.app) = r => s \in spans
    BY DEF Untouched
  <1>3. \A s \in spans : Root(s.app) = r => s \in spans'
    BY DEF Untouched
  <1>4. \A b \in Identities \X Minutes : Root(b[1]) = r => presses'[b] = presses[b]
    BY DEF Untouched
  <1>5. \A b \in Identities \X Minutes : Root(b[1]) = r => \A start, end : Counted(b, start, end)' <=> Counted(b, start, end)
    BY <1>4 DEF Counted
  <1>6. \A s \in spans \cup spans' : s.app \in MergedWith(r) <=> Root(s.app) = r
    BY GroupsOfRoots DEF CacheShape, SpanRow
  <1>7. \A start, end : Covered(MergedWith(r), start, end)' = Covered(MergedWith(r), start, end)
    <2>1. ASSUME NEW t
          PROVE  (\E s \in spans' : s.app \in MergedWith(r) /\ s.from <= t /\ t < s.to)
                   <=> \E s \in spans : s.app \in MergedWith(r) /\ s.from <= t /\ t < s.to
      BY <1>2, <1>3, <1>6
    <2> QED
      BY <1>1, <2>1 DEF Covered
  <1>8. \A start, end : SumOf({b \in MergedWith(r) \X Minutes : Counted(b, start, end)})'
                          = SumOf({b \in MergedWith(r) \X Minutes : Counted(b, start, end)})
    <2>1. ASSUME NEW start, NEW end
          PROVE  SumOf({b \in MergedWith(r) \X Minutes : Counted(b, start, end)})'
                   = SumOf({b \in MergedWith(r) \X Minutes : Counted(b, start, end)})
      <3>1. \A b \in MergedWith(r) \X Minutes : b \in Identities \X Minutes /\ Root(b[1]) = r
        BY GroupsOfRoots
      <3>2. {b \in MergedWith(r)' \X Minutes : Counted(b, start, end)'}
              = {b \in MergedWith(r) \X Minutes : Counted(b, start, end)}
        BY <1>1, <1>5, <3>1
      <3>3. \A b \in {x \in MergedWith(r) \X Minutes : Counted(x, start, end)} : presses'[b] = presses[b]
        BY <1>4, <3>1
      <3> QED
        BY <3>2, <3>3 DEF SumOf
    <2> QED
      BY <2>1
  <1>9. \A start, end : RowOf(r, start, end)' = RowOf(r, start, end)
    BY <1>7, <1>8 DEF RowOf
  <1>10. \A start, end : ShownOf(r, start, end)' <=> ShownOf(r, start, end)
    <2>1. ASSUME NEW start, NEW end PROVE ShownOf(r, start, end)' <=> ShownOf(r, start, end)
      <3>1. (\E s \in spans' : Root(s.app) = r /\ Shown(s, start, end))
              <=> \E s \in spans : Root(s.app) = r /\ Shown(s, start, end)
        BY <1>2, <1>3
      <3>2. (\E b \in Identities \X Minutes : Root(b[1]) = r /\ Counted(b, start, end)')
              <=> \E b \in Identities \X Minutes : Root(b[1]) = r /\ Counted(b, start, end)
        BY <1>5
      <3> QED
        BY <1>1, <3>1, <3>2 DEF ShownOf, Shown
    <2> QED
      BY <2>1
  <1>11. ShowsApp(e, r)'
    BY <1>9, <1>10 DEF ShowsApp
  <1>12. RunsApp(e, r)'
    BY <1>1, <1>2, <1>3 DEF RunsApp
  <1>13. AheadOfApp(e, r)'
    BY <1>1, <1>2, <1>4 DEF AheadOfApp
  <1> QED
    BY <1>11, <1>12, <1>13

\* A view that is marked still tells the rest.
LEMMA MarkedTells ==
  ASSUME CacheShape, spans' \subseteq SpanRow, NEW e \in Entry, Tells(e),
         NEW touched \in SUBSET Identities, NEW nobodys \in BOOLEAN, touched # {} \/ nobodys,
         edges \subseteq edges', edges' # edges => touched # {},
         edges' = edges => \A r \in Roots : r \notin {Root(x) : x \in touched} => Untouched(r)
  PROVE  LET m == [e EXCEPT !.dirty = @ \cup touched, !.totals = @ \/ nobodys] IN m \in Entry /\ Tells(m)'
  <1>1. PICK m : m = [e EXCEPT !.dirty = @ \cup touched, !.totals = @ \/ nobodys]
    OBVIOUS
  <1>2. /\ m \in Entry /\ m.start = e.start /\ m.end = e.end /\ m.edges = e.edges /\ m.running = e.running
        /\ m.next = e.next /\ m.view = e.view /\ m.dirty = e.dirty \cup touched /\ m.totals = (e.totals \/ nobodys)
    BY <1>1 DEF Entry
  <1>3. Stale(m)
    BY <1>2 DEF Stale
  <1>4. m.start < m.end /\ m.edges \subseteq edges' /\ (m.edges # edges' => m.dirty # {})
    BY <1>2 DEF Tells
  <1>5. ASSUME m.edges = edges'
        PROVE  /\ DOMAIN m.view.apps \subseteq Roots'
               /\ \A r \in Roots' \ DirtyRoots(m)' : ShowsApp(m, r)' /\ RunsApp(m, r)' /\ AheadOfApp(m, r)'
    <2>1. edges' = edges /\ e.edges = edges
      BY <1>2, <1>5 DEF Tells
    <2>2. \A x : Root(x)' = Root(x)
      BY <2>1 DEF Root
    <2>3. Roots' = Roots /\ DirtyRoots(m)' = DirtyRoots(e) \cup {Root(x) : x \in touched}
      BY <1>2, <2>2 DEF Roots, DirtyRoots
    <2>4. ASSUME NEW r \in Roots, r \notin DirtyRoots(e) \cup {Root(x) : x \in touched}
          PROVE  ShowsApp(m, r)' /\ RunsApp(m, r)' /\ AheadOfApp(m, r)'
      <3>1. ShowsApp(e, r) /\ RunsApp(e, r) /\ AheadOfApp(e, r)
        BY <2>1, <2>4 DEF Tells
      <3>2. ShowsApp(m, r) /\ RunsApp(m, r) /\ AheadOfApp(m, r)
        BY <1>2, <3>1 DEF ShowsApp, RunsApp, AheadOfApp
      <3>3. Untouched(r)
        BY <2>1, <2>4
      <3> QED
        BY <2>1, <3>2, <3>3, OthersRows
    <2> QED
      BY <1>2, <2>1, <2>3, <2>4 DEF Tells
  <1>6. Tells(m)'
    BY <1>3, <1>4, <1>5 DEF Tells, Stale
  <1> QED
    BY <1>1, <1>2, <1>6

\* A batch marks what it touches.
LEMMA MarkingKeeps ==
  ASSUME CacheInv, spans' \subseteq SpanRow,
         NEW touched \in SUBSET Identities, NEW nobodys \in BOOLEAN, touched # {} \/ nobodys,
         Ingested(touched, nobodys, FALSE),
         edges \subseteq edges', edges' # edges => touched # {},
         edges' = edges => \A r \in Roots : r \notin {Root(x) : x \in touched} => Untouched(r)
  PROVE  entries' \in Seq(Entry) /\ Len(entries') <= CacheSize /\ current' \in BOOLEAN /\ EntriesTell'
  <1>1. CacheShape
    BY DEF CacheInv
  <1>2. CASE ~current
    BY <1>2, CacheNumbers DEF Ingested, EntriesTell
  <1>3. CASE current
    <2>1. PICK list : list = entries'
      OBVIOUS
    <2>2. list = [i \in DOMAIN entries |-> [entries[i] EXCEPT !.dirty = @ \cup touched, !.totals = @ \/ nobodys]]
      BY <1>3, <2>1 DEF Ingested
    <2>3. PICK n \in Nat : n = Len(entries) /\ DOMAIN entries = 1..n /\ n <= CacheSize
      BY <1>1 DEF CacheShape
    <2>4. \A i \in 1..n : entries[i] \in Entry /\ Tells(entries[i])
      BY <1>1, <1>3, <2>3 DEF CacheShape, CacheInv, EntriesTell
    <2>5. ASSUME NEW i \in 1..n PROVE list[i] \in Entry /\ Tells(list[i])'
      <3>1. PICK e \in Entry : e = entries[i] /\ Tells(e)
        BY <2>4
      <3>2. PICK m : m = [e EXCEPT !.dirty = @ \cup touched, !.totals = @ \/ nobodys]
        OBVIOUS
      <3>3. m \in Entry /\ Tells(m)'
        BY <1>1, <3>1, <3>2, MarkedTells
      <3>4. list[i] = m
        BY <2>2, <2>3, <3>1, <3>2
      <3> QED
        BY <3>3, <3>4
    <2>6. list \in Seq(Entry) /\ Len(list) = n /\ DOMAIN list = 1..n
      <3>1. \A i \in 1..n : list[i] \in Entry
        BY <2>5
      <3>2. DOMAIN list = 1..n /\ list = [i \in 1..n |-> list[i]]
        BY <2>2, <2>3
      <3>3. list \in [1..n -> Entry]
        BY <3>1, <3>2
      <3> QED
        BY <3>2, <3>3
    <2> QED
      BY <2>1, <2>3, <2>5, <2>6 DEF Ingested, EntriesTell
  <1> QED
    BY <1>2, <1>3

\* A window opens.
LEMMA SpanBeginsKeeps ==
  ASSUME CacheInv, NEW app \in Identities, NEW t \in Minutes, NEW joins \in BOOLEAN, SpanBegins(app, t, joins)
  PROVE  CacheInv'
  <1> DEFINE new == [app |-> app, from |-> t, to |-> StillRunning]
  <1>1. CacheShape
    BY DEF CacheInv
  <1>2. /\ spans' = spans \cup {new} /\ edges' = (IF joins THEN edges \cup {"automatic"} ELSE edges)
        /\ lastSeen' = t /\ presses' = presses /\ holes' = holes /\ Ingested({app}, FALSE, FALSE)
    BY DEF SpanBegins
  <1>3. new \in SpanRow /\ t \in Nat \ {0}
    BY CacheNumbers DEF SpanRow, Moments
  <1>4. spans' \subseteq SpanRow /\ edges' \in SUBSET {"user", "automatic"} /\ edges \subseteq edges'
    BY <1>1, <1>2, <1>3 DEF CacheShape
  <1>5. \A r \in Roots : r \notin {Root(x) : x \in {app}} => Untouched(r)
    <2>1. new.app = app
      OBVIOUS
    <2> HIDE DEF new
    <2> QED
      BY <1>2, <2>1 DEF Untouched
  <1>6. PICK touched \in SUBSET Identities : touched = {app}
    OBVIOUS
  <1>7. entries' \in Seq(Entry) /\ Len(entries') <= CacheSize /\ current' \in BOOLEAN /\ EntriesTell'
    <2>1. Ingested(touched, FALSE, FALSE) /\ touched # {}
      BY <1>2, <1>6
    <2>2. \A r \in Roots : r \notin {Root(x) : x \in touched} => Untouched(r)
      BY <1>5, <1>6
    <2> QED
      BY <1>4, <2>1, <2>2, MarkingKeeps
  <1> QED
    BY <1>1, <1>2, <1>3, <1>4, <1>7 DEF CacheInv, CacheShape

\* A window closes.
LEMMA SpanEndsKeeps ==
  ASSUME CacheInv, NEW s \in spans, NEW t \in Moments, SpanEnds(s, t)
  PROVE  CacheInv'
  <1>1. CacheShape /\ s \in SpanRow
    BY DEF CacheInv, CacheShape
  <1>2. PICK new \in SpanRow : new = [s EXCEPT !.to = t] /\ new.app = s.app
    <2>1. \A x \in SpanRow, y \in Moments : [x EXCEPT !.to = y] \in SpanRow /\ [x EXCEPT !.to = y].app = x.app
      BY DEF SpanRow
    <2> QED
      BY <1>1, <2>1
  <1>3. /\ spans' = (spans \ {s}) \cup {new} /\ edges' = edges
        /\ lastSeen' = t /\ presses' = presses /\ holes' = holes /\ Ingested({s.app}, FALSE, FALSE)
    BY <1>2 DEF SpanEnds
  <1>4. spans' \subseteq SpanRow /\ edges' \in SUBSET {"user", "automatic"} /\ t \in Nat \ {0}
    BY <1>1, <1>3 DEF CacheShape, Moments
  <1>5. PICK touched \in SUBSET Identities : touched = {s.app}
    BY <1>1 DEF SpanRow
  <1>6. \A r \in Roots : r \notin {Root(x) : x \in touched} => Untouched(r)
    BY <1>2, <1>3, <1>5 DEF Untouched
  <1>7. entries' \in Seq(Entry) /\ Len(entries') <= CacheSize /\ current' \in BOOLEAN /\ EntriesTell'
    <2>1. Ingested(touched, FALSE, FALSE) /\ touched # {}
      BY <1>3, <1>5
    <2> QED
      BY <1>3, <1>4, <1>6, <2>1, MarkingKeeps
  <1> QED
    BY <1>1, <1>3, <1>4, <1>7 DEF CacheInv, CacheShape

\* A minute of input.
LEMMA InputKeeps ==
  ASSUME CacheInv, NEW b \in Buckets, InputArrives(b)
  PROVE  CacheInv'
  <1>1. CacheShape
    BY DEF CacheInv
  <1>2. /\ presses' = [presses EXCEPT ![b] = @ + 1] /\ spans' = spans /\ edges' = edges /\ holes' = holes
        /\ lastSeen' \in {b[2] + 1, lastSeen}
        /\ Ingested({b[1]} \ {NoApplication}, b[1] = NoApplication, FALSE)
    BY DEF InputArrives
  <1>3. presses' \in [Buckets -> Nat] /\ \A x \in Buckets : x # b => presses'[x] = presses[x]
    BY <1>1, <1>2 DEF CacheShape
  <1>4. lastSeen' \in Nat \ {0}
    <2>1. b[2] \in Nat
      BY CacheNumbers
    <2> QED
      BY <1>1, <1>2, <2>1 DEF CacheShape
  <1>5. PICK touched \in SUBSET Identities, nobodys \in BOOLEAN :
          touched = {b[1]} \ {NoApplication} /\ nobodys = (b[1] = NoApplication)
    BY CacheNumbers
  <1>6. touched # {} \/ nobodys
    BY <1>5
  <1>7. \A r \in Roots : r \notin {Root(x) : x \in touched} => Untouched(r)
    <2>1. ASSUME NEW r \in Roots, r \notin {Root(x) : x \in touched}, NEW x \in Identities \X Minutes, Root(x[1]) = r
          PROVE  x # b /\ x \in Buckets
      <3>1. x[1] \in Identities /\ x \in Buckets
        BY CacheNumbers
      <3>2. x[1] # NoApplication
        BY <3>1, CacheAssumption
      <3> QED
        BY <1>5, <2>1, <3>1, <3>2
    <2> QED
      BY <1>2, <1>3, <2>1 DEF Untouched
  <1>8. spans' \subseteq SpanRow
    BY <1>1, <1>2 DEF CacheShape
  <1>9. entries' \in Seq(Entry) /\ Len(entries') <= CacheSize /\ current' \in BOOLEAN /\ EntriesTell'
    <2>1. Ingested(touched, nobodys, FALSE)
      BY <1>2, <1>5
    <2> QED
      BY <1>2, <1>6, <1>7, <1>8, <2>1, MarkingKeeps
  <1> QED
    BY <1>1, <1>2, <1>3, <1>4, <1>8, <1>9 DEF CacheInv, CacheShape

\* Nothing is remembered after what concerns every view.
LEMMA NothingRemembered ==
  ASSUME entries' = <<>>, current' \in BOOLEAN
  PROVE  entries' \in Seq(Entry) /\ Len(entries') <= CacheSize /\ current' \in BOOLEAN /\ EntriesTell'
  BY CacheNumbers DEF EntriesTell

\* Lost events and a new run.
LEMMA GapsKeep ==
  ASSUME CacheInv, NEW t \in Moments, GapArrives(t) \/ RunBegins(t)
  PROVE  CacheInv'
  <1>1. CacheShape
    BY DEF CacheInv
  <1>2. /\ holes' = holes \cup {[from |-> lastSeen, to |-> t]} /\ presses' = presses /\ edges' = edges
        /\ t > lastSeen /\ lastSeen' = t /\ entries' = <<>> /\ current' = TRUE
    BY DEF GapArrives, RunBegins, Ingested
  <1>3. lastSeen \in Moments /\ t \in Nat \ {0}
    BY <1>1, <1>2, CacheAssumption DEF CacheShape, Moments
  <1>4. spans' \subseteq SpanRow
    <2>1. CASE spans' = spans
      BY <1>1, <2>1 DEF CacheShape
    <2>2. CASE RunBegins(t)
      <3>1. \A s \in SpanRow : [s EXCEPT !.to = lastSeen] \in SpanRow
        BY <1>3 DEF SpanRow
      <3>2. \A s \in spans : s \in SpanRow
        BY <1>1 DEF CacheShape
      <3> QED
        BY <2>2, <3>1, <3>2 DEF RunBegins
    <2> QED
      BY <2>1, <2>2 DEF GapArrives
  <1>5. entries' \in Seq(Entry) /\ Len(entries') <= CacheSize /\ current' \in BOOLEAN /\ EntriesTell'
    BY <1>2, NothingRemembered
  <1> QED
    BY <1>1, <1>2, <1>3, <1>4, <1>5 DEF CacheInv, CacheShape, Hole

\* What a removal leaves has its type.
LEMMA RemovedType ==
  ASSUME CacheShape, NEW cutoff, Removed(cutoff)
  PROVE  spans' \subseteq SpanRow /\ presses' \in [Buckets -> Nat]
  BY DEF CacheShape, Removed

\* The writes the cache is not told of.
LEMMA UntoldKeep ==
  ASSUME CacheInv, (\E cutoff \in Moments : RetentionFails(cutoff)) \/ Merges \/ (\E app \in Identities : Deletes(app))
  PROVE  CacheInv'
  <1>1. CacheShape
    BY DEF CacheInv
  <1>2. current' = FALSE /\ holes' = holes /\ lastSeen' = lastSeen
    BY DEF RetentionFails, Merges, Deletes
  <1>3. entries' \in Seq(Entry) /\ Len(entries') <= CacheSize
    <2>1. entries' = entries \/ entries' = <<>>
      BY DEF RetentionFails, Merges, Deletes
    <2>2. entries \in Seq(Entry) /\ Len(entries) <= CacheSize
      BY <1>1 DEF CacheShape
    <2>3. <<>> \in Seq(Entry) /\ Len(<<>>) <= CacheSize
      BY CacheNumbers
    <2> QED
      BY <2>1, <2>2, <2>3
  <1>4. edges' \in SUBSET {"user", "automatic"}
    BY <1>1 DEF CacheShape, RetentionFails, Merges, Deletes
  <1>5. spans' \subseteq SpanRow /\ presses' \in [Buckets -> Nat]
    <2>1. ASSUME NEW cutoff \in Moments, RetentionFails(cutoff) PROVE spans' \subseteq SpanRow /\ presses' \in [Buckets -> Nat]
      BY <1>1, <2>1, RemovedType DEF RetentionFails
    <2>2. CASE Merges
      BY <1>1, <2>2 DEF Merges, CacheShape
    <2>3. ASSUME NEW app \in Identities, Deletes(app) PROVE spans' \subseteq SpanRow /\ presses' \in [Buckets -> Nat]
      BY <1>1, <2>3 DEF Deletes, CacheShape
    <2> QED
      BY <2>1, <2>2, <2>3
  <1>6. EntriesTell'
    BY <1>2 DEF EntriesTell
  <1> QED
    BY <1>1, <1>2, <1>3, <1>4, <1>5, <1>6 DEF CacheInv, CacheShape

\* What leaves the rows alone.
LEMMA QuietKeep ==
  ASSUME CacheInv, HealthIsNoted \/ MemoryIsReleased \/ UNCHANGED cacheVars
  PROVE  CacheInv'
  <1>1. CacheShape
    BY DEF CacheInv
  <1>2. UNCHANGED rows
    BY DEF HealthIsNoted, MemoryIsReleased, cacheVars
  <1>3. CASE entries' = entries /\ current' = current
    <2>1. EntriesTell'
      <3>1. CASE current
        <4>1. Remembers(entries)
          BY <1>1, <3>1 DEF Remembers, CacheInv, CacheShape, EntriesTell
        <4>2. PICK list : list = entries
          OBVIOUS
        <4>3. Remembers(list)'
          BY <1>2, <4>1, <4>2, SameRows
        <4> QED
          BY <1>3, <4>2, <4>3 DEF Remembers, EntriesTell
      <3>2. CASE ~current
        BY <1>3, <3>2 DEF EntriesTell
      <3> QED
        BY <3>1, <3>2
    <2> QED
      BY <1>1, <1>2, <1>3, <2>1 DEF CacheInv, CacheShape, rows
  <1>4. CASE entries' = <<>> /\ current' = TRUE
    <2>1. entries' \in Seq(Entry) /\ Len(entries') <= CacheSize /\ current' \in BOOLEAN /\ EntriesTell'
      BY <1>4, NothingRemembered
    <2> QED
      BY <1>1, <1>2, <2>1 DEF CacheInv, CacheShape, rows
  <1>5. (entries' = entries /\ current' = current) \/ (entries' = <<>> /\ current' = TRUE)
    BY <1>1 DEF HealthIsNoted, MemoryIsReleased, cacheVars, CacheShape
  <1> QED
    BY <1>3, <1>4, <1>5

\* A view that begins a minute after the cutoff saw nothing of what goes.
LEMMA UnaffectedTells ==
  ASSUME CacheShape, NEW cutoff \in Moments, Removed(cutoff), holes' = holes, edges' = edges,
         NEW e \in Entry, Tells(e), Unaffected(e, cutoff)
  PROVE  Tells(e)'
  <1>1. /\ e.start \in Nat /\ e.end \in Nat /\ cutoff \in Nat /\ MinuteLength \in Nat \ {0}
        /\ e.start < e.end /\ cutoff + MinuteLength <= e.start
    BY CacheNumbers DEF Entry, Tells, Unaffected
  <1>2. \A x : Root(x)' = Root(x) /\ MergedWith(x)' = MergedWith(x)
    BY DEF Root, MergedWith
  <1>3. Roots' = Roots /\ DirtyRoots(e)' = DirtyRoots(e)
    BY <1>2 DEF Roots, DirtyRoots
  <1>4. /\ spans' \subseteq spans
        /\ \A s \in spans : s.to > e.start => s \in spans'
    <2>1. \A s \in spans : s.to \in Nat
      BY CacheNumbers DEF CacheShape, SpanRow
    <2> QED
      BY <1>1, <2>1 DEF Removed
  <1>5. \A b \in Buckets : /\ presses'[b] \in {0, presses[b]} /\ presses[b] \in Nat
                           /\ b[2] \in Nat
                           /\ b[2] + MinuteLength > e.start => presses'[b] = presses[b]
    <2>1. \A b \in Buckets : b[2] \in Nat /\ presses[b] \in Nat
      BY CacheNumbers DEF CacheShape
    <2>2. \A b \in Buckets : presses'[b] = IF b[2] < cutoff THEN 0 ELSE presses[b]
      BY DEF Removed
    <2> QED
      BY <1>1, <2>1, <2>2
  <1>6. \A b \in Buckets : \A end : Counted(b, e.start, end)' <=> Counted(b, e.start, end)
    BY <1>5 DEF Counted
  <1>7. \A b \in Buckets : \A end : Counted(b, e.start, end) => presses'[b] = presses[b]
    BY <1>5 DEF Counted
  <1>8. \A r : Covered(MergedWith(r), e.start, e.end)' = Covered(MergedWith(r), e.start, e.end)
    <2>1. ASSUME NEW r, NEW t \in e.start..(e.end - 1)
          PROVE  (\E s \in spans' : s.app \in MergedWith(r) /\ s.from <= t /\ t < s.to)
                   <=> \E s \in spans : s.app \in MergedWith(r) /\ s.from <= t /\ t < s.to
      <3>1. t \in Nat /\ e.start <= t
        BY <1>1
      <3>2. \A s \in spans : s.to \in Nat
        BY CacheNumbers DEF CacheShape, SpanRow
      <3>3. \A s \in spans : t < s.to => s \in spans'
        BY <1>1, <1>4, <3>1, <3>2
      <3> QED
        BY <1>4, <3>3
    <2> QED
      BY <1>2, <2>1 DEF Covered
  <1>9. \A r \in Roots : RowOf(r, e.start, e.end)' = RowOf(r, e.start, e.end)
    <2>1. ASSUME NEW r \in Roots
          PROVE  SumOf({b \in MergedWith(r) \X Minutes : Counted(b, e.start, e.end)})'
                   = SumOf({b \in MergedWith(r) \X Minutes : Counted(b, e.start, e.end)})
      <3>1. PICK bs \in SUBSET Buckets : bs = MergedWith(r) \X Minutes
        BY CacheNumbers DEF MergedWith
      <3>2. {b \in MergedWith(r)' \X Minutes : Counted(b, e.start, e.end)'} = {b \in bs : Counted(b, e.start, e.end)'}
        BY <1>2, <3>1
      <3>3. {b \in bs : Counted(b, e.start, e.end)'} = {b \in bs : Counted(b, e.start, e.end)}
        BY <1>6
      <3>4. \A b \in {x \in bs : Counted(x, e.start, e.end)} : presses'[b] = presses[b]
        BY <1>7
      <3> QED
        BY <3>1, <3>2, <3>3, <3>4 DEF SumOf
    <2> QED
      BY <1>8, <2>1 DEF RowOf
  <1>10. \A r \in Roots : ShownOf(r, e.start, e.end)' <=> ShownOf(r, e.start, e.end)
    <2>1. \A s \in spans : Shown(s, e.start, e.end) => s \in spans'
      BY <1>4 DEF Shown
    <2>2. \A b \in Identities \X Minutes : Counted(b, e.start, e.end)' <=> Counted(b, e.start, e.end)
      BY <1>6, CacheNumbers
    <2> QED
      BY <1>2, <1>4, <2>1, <2>2 DEF ShownOf, Shown
  <1>11. \A r \in Roots : ShowsApp(e, r) => ShowsApp(e, r)'
    BY <1>9, <1>10 DEF ShowsApp
  <1>12. \A r \in Roots : RunsApp(e, r) => RunsApp(e, r)'
    <2>1. \A s \in spans : s.to > e.end => s \in spans'
      <3>1. \A s \in spans : s.to \in Nat
        BY CacheNumbers DEF CacheShape, SpanRow
      <3> QED
        BY <1>1, <1>4, <3>1
    <2> QED
      BY <1>2, <1>4, <2>1 DEF RunsApp
  <1>13. \A b \in Buckets : presses'[b] > 0 => presses[b] > 0
    BY <1>5
  <1>14. \A r \in Roots : AheadOfApp(e, r) => AheadOfApp(e, r)'
    <2>1. \A b \in Identities \X Minutes : presses'[b] > 0 => presses[b] > 0
      BY <1>13, CacheNumbers
    <2> QED
      BY <1>2, <1>4, <2>1 DEF AheadOfApp
  <1>15. TellsTotal(e) => TellsTotal(e)'
    <2>1. Total(e.start, e.end)' = Total(e.start, e.end)
      <3>1. PICK bs \in SUBSET Buckets : bs = Buckets
        OBVIOUS
      <3>2. {b \in bs : Counted(b, e.start, e.end)'} = {b \in bs : Counted(b, e.start, e.end)}
        BY <1>6
      <3>3. \A b \in {x \in bs : Counted(x, e.start, e.end)} : presses'[b] = presses[b]
        BY <1>7
      <3> QED
        BY <3>1, <3>2, <3>3 DEF Total, SumOf
    <2>2. GapsIn(e.start, e.end)' = GapsIn(e.start, e.end)
      BY DEF GapsIn
    <2> QED
      BY <1>13, <2>1, <2>2 DEF TellsTotal
  <1> QED
    BY <1>1, <1>3, <1>11, <1>12, <1>14, <1>15 DEF Tells, Stale

\* A cleanup.
LEMMA RetentionKeeps ==
  ASSUME CacheInv, NEW cutoff \in Moments, Retention(cutoff)
  PROVE  CacheInv'
  <1>1. CacheShape
    BY DEF CacheInv
  <1>2. Removed(cutoff) /\ holes' = holes /\ edges' = edges /\ lastSeen' = lastSeen /\ current' = TRUE
    BY DEF Retention
  <1>3. spans' \subseteq SpanRow /\ presses' \in [Buckets -> Nat]
    BY <1>1, <1>2, RemovedType
  <1>4. entries' \in Seq(Entry) /\ Len(entries') <= CacheSize /\ current' \in BOOLEAN /\ EntriesTell'
    <2>1. CASE ~current
      BY <1>2, <2>1, NothingRemembered DEF Retention
    <2>2. CASE current
      <3>1. PICK is \in SUBSET (DOMAIN entries) : is = {i \in DOMAIN entries : Unaffected(entries[i], cutoff)}
        OBVIOUS
      <3>2. PICK list : list = Kept(entries, is)
        OBVIOUS
      <3>3. entries' = list
        BY <2>2, <3>1, <3>2 DEF Retention
      <3>4. Remembers(entries) /\ Len(entries) <= CacheSize
        BY <1>1, <2>2 DEF CacheInv, EntriesTell, CacheShape, Remembers
      <3>5. Remembers(list) /\ Len(list) <= CacheSize
        BY <3>2, <3>4, KeptRemembers
      <3>6. \A n \in DOMAIN list : \E i \in is : list[n] = entries[i]
        BY <3>2, <3>4, KeptAreKnown DEF Remembers
      <3>7. ASSUME NEW n \in DOMAIN list PROVE Tells(list[n])'
        <4>1. PICK i \in is : list[n] = entries[i]
          BY <3>6
        <4>2. PICK e \in Entry : e = entries[i]
          BY <3>4 DEF Remembers
        <4>3. Tells(e) /\ Unaffected(e, cutoff)
          BY <3>1, <3>4, <4>2 DEF Remembers
        <4>4. Tells(e)'
          BY <1>1, <1>2, <4>3, UnaffectedTells
        <4>5. list[n] = e
          BY <4>1, <4>2
        <4> QED
          BY <4>4, <4>5
      <3> QED
        BY <1>2, <3>3, <3>5, <3>7 DEF EntriesTell, Remembers
    <2> QED
      BY <2>1, <2>2
  <1> QED
    BY <1>1, <1>2, <1>3, <1>4 DEF CacheInv, CacheShape

\* At first nothing is remembered.
LEMMA CacheBegins == CacheInit => CacheInv
  <1> SUFFICES ASSUME CacheInit PROVE CacheInv
    OBVIOUS
  <1>1. presses \in [Buckets -> Nat]
    BY DEF CacheInit
  <1>2. entries \in Seq(Entry) /\ Len(entries) <= CacheSize /\ DOMAIN entries = {}
    BY CacheNumbers DEF CacheInit
  <1> QED
    BY <1>1, <1>2 DEF CacheInit, CacheInv, CacheShape, EntriesTell

\* What is remembered keeps telling what the rows have, through every write and every question.
LEMMA CacheStep == CacheInv /\ [CacheNext]_cacheVars => CacheInv'
  <1> SUFFICES ASSUME CacheInv, [CacheNext]_cacheVars PROVE CacheInv'
    OBVIOUS
  <1>1. ASSUME NEW start \in Starts, NEW end \in Moments, Ask(start, end) PROVE CacheInv'
    BY <1>1, AskKeeps
  <1>2. ASSUME NEW app \in Identities, NEW t \in Minutes, NEW joins \in BOOLEAN, SpanBegins(app, t, joins) PROVE CacheInv'
    BY <1>2, SpanBeginsKeeps
  <1>3. ASSUME NEW s \in spans, NEW t \in Moments, SpanEnds(s, t) PROVE CacheInv'
    BY <1>3, SpanEndsKeeps
  <1>4. ASSUME NEW b \in Buckets, InputArrives(b) PROVE CacheInv'
    BY <1>4, InputKeeps
  <1>5. ASSUME NEW t \in Moments, GapArrives(t) \/ RunBegins(t) PROVE CacheInv'
    BY <1>5, GapsKeep
  <1>6. ASSUME NEW cutoff \in Moments, Retention(cutoff) PROVE CacheInv'
    BY <1>6, RetentionKeeps
  <1>7. CASE (\E cutoff \in Moments : RetentionFails(cutoff)) \/ Merges \/ (\E app \in Identities : Deletes(app))
    BY <1>7, UntoldKeep
  <1>8. CASE HealthIsNoted \/ MemoryIsReleased \/ UNCHANGED cacheVars
    BY <1>8, QuietKeep
  <1> QED
    BY <1>1, <1>2, <1>3, <1>4, <1>5, <1>6, <1>7, <1>8 DEF CacheNext

\* At every moment a remembered view tells what the rows have, but for what is marked: the
\* inductive invariant of timeline_cache.rs.
THEOREM CacheAlwaysInv == CacheSpec => []CacheInv
  BY CacheBegins, CacheStep, PTL DEF CacheSpec

\* No answer of timeline_snapshot_cached differs from what reading the database again would show.
THEOREM CacheIsAlwaysExact == CacheSpec => []CacheIsExact
  <1>1. CacheInv => CacheIsExact
    <2> SUFFICES ASSUME CacheInv, current, NEW i \in DOMAIN entries, ~Stale(entries[i])
                 PROVE  entries[i].view = View(entries[i].start, entries[i].end)
      BY DEF CacheIsExact
    <2>1. PICK e : e = entries[i]
      OBVIOUS
    <2>2. CacheShape /\ e \in Entry /\ Tells(e) /\ ~Stale(e)
      BY <2>1 DEF CacheInv, CacheShape, EntriesTell
    <2>3. /\ e.edges = edges /\ DOMAIN e.view.apps \subseteq Roots /\ \A r \in Roots : ShowsApp(e, r)
          /\ e.view.total = Total(e.start, e.end) /\ e.view.gaps = GapsIn(e.start, e.end)
      BY <2>2 DEF Tells, Stale, DirtyRoots, TellsTotal
    <2>4. PICK D : D = {x \in Roots : ShownOf(x, e.start, e.end)}
      OBVIOUS
    <2>5. PICK f : f = [r \in D |-> RowOf(r, e.start, e.end)]
      OBVIOUS
    <2>6. Applications(Identities, e.start, e.end) = f
      <3>1. Applications(Identities, e.start, e.end)
              = [r \in {x \in Roots : ShownOf(x, e.start, e.end)} |-> RowOf(r, e.start, e.end)]
        BY <2>2, WholeView, Zenon
      <3> QED
        BY <2>4, <2>5, <3>1, Zenon
    <2>7. e.view.apps = f
      <3>1. PICK X : e.view.apps \in [X -> AppRow]
        BY <2>2 DEF Entry, ViewOf
      <3>2. X = D
        BY <2>3, <2>4, <3>1 DEF ShowsApp
      <3>3. \A r \in D : e.view.apps[r] = RowOf(r, e.start, e.end)
        BY <2>3, <2>4, <3>1, <3>2 DEF ShowsApp
      <3> QED
        BY <2>5, <3>1, <3>2, <3>3
    <2>8. e.view = [apps |-> e.view.apps, total |-> e.view.total, gaps |-> e.view.gaps]
      BY <2>2 DEF Entry, ViewOf
    <2> QED
      BY <2>1, <2>3, <2>6, <2>7, <2>8 DEF View
  <1> QED
    BY <1>1, CacheAlwaysInv, PTL
=============================================================================
