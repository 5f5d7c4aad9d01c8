---------------------- MODULE SnapshotContainerProofs ----------------------
(***************************************************************************)
(* Theorems about SnapshotContainer, for any pictures, days and files and  *)
(* any faults.                                                             *)
(***************************************************************************)
EXTENDS SnapshotContainer, FiniteSetTheorems, SequenceTheorems, TLAPS

-----------------------------------------------------------------------------
(* Sequences made of sets.                                                 *)

\* The sequence that SetToSeq makes of a finite set has its elements, and only those.
LEMMA SetToSeqIs ==
  ASSUME NEW S, IsFiniteSet(S)
  PROVE  SetToSeq(S) \in Seq(S) /\ ToSet(SetToSeq(S)) = S
<1> DEFINE n == Cardinality(S)
<1> DEFINE q == SetToSeq(S)
<1>1. n \in Nat /\ ExistsBijection(1..n, S)
  BY FS_CardinalityType
<1>2. \E f \in [1..n -> S] : IsInjective(f)
  BY <1>1 DEF ExistsBijection, Bijection, Injection
<1>3. q \in [1..n -> S] /\ IsInjective(q)
  BY <1>2 DEF SetToSeq
<1>4. q \in Injection(1..n, S)
  BY <1>3 DEF Injection
<1>5. Cardinality(1..n) = n
  BY <1>1, FS_Interval
<1> HIDE DEF n, q
<1>6. q \in Surjection(1..n, S)
  BY <1>4, <1>5, FS_Injection DEF n
<1>7. DOMAIN q = 1..n /\ \A x \in S : \E i \in 1..n : q[i] = x
  BY <1>3, <1>6 DEF Surjection
<1>8. q \in Seq(S)
  BY <1>1, <1>3
<1>9. ToSet(q) = S
  BY <1>3, <1>7 DEF ToSet
<1> QED  BY <1>8, <1>9 DEF q

\* The elements of a sequence are those of its parts.
LEMMA ToSetOfConcat ==
  ASSUME NEW S, NEW s \in Seq(S), NEW t \in Seq(S)
  PROVE  ToSet(s \o t) = ToSet(s) \cup ToSet(t)
<1>1. /\ s \o t \in Seq(S)
      /\ Len(s \o t) = Len(s) + Len(t)
      /\ \A i \in 1..(Len(s) + Len(t)) :
           (s \o t)[i] = IF i <= Len(s) THEN s[i] ELSE t[i - Len(s)]
  BY ConcatProperties
<1>2. /\ Len(s) \in Nat /\ DOMAIN s = 1..Len(s)
      /\ Len(t) \in Nat /\ DOMAIN t = 1..Len(t)
      /\ DOMAIN (s \o t) = 1..(Len(s) + Len(t))
  BY <1>1, LenProperties
<1>3. ASSUME NEW i \in 1..(Len(s) + Len(t))
      PROVE  (s \o t)[i] \in ToSet(s) \cup ToSet(t)
  <2>1. CASE i <= Len(s)
    BY <1>1, <1>2, <2>1 DEF ToSet
  <2>2. CASE ~(i <= Len(s))
    <3>1. i - Len(s) \in 1..Len(t)
      BY <1>2, <2>2
    <3> QED  BY <1>1, <1>2, <2>2, <3>1 DEF ToSet
  <2> QED  BY <2>1, <2>2
<1>4. ASSUME NEW i \in 1..Len(s)
      PROVE  s[i] \in ToSet(s \o t)
  <2>1. i \in 1..(Len(s) + Len(t)) /\ i <= Len(s)
    BY <1>2
  <2> QED  BY <1>1, <1>2, <2>1 DEF ToSet
<1>5. ASSUME NEW i \in 1..Len(t)
      PROVE  t[i] \in ToSet(s \o t)
  <2>1. i + Len(s) \in 1..(Len(s) + Len(t)) /\ ~(i + Len(s) <= Len(s)) /\ i + Len(s) - Len(s) = i
    BY <1>2
  <2>2. (s \o t)[i + Len(s)] = t[i]
    BY <1>1, <2>1
  <2> QED  BY <1>2, <2>1, <2>2 DEF ToSet
<1> QED  BY <1>2, <1>3, <1>4, <1>5 DEF ToSet

-----------------------------------------------------------------------------
(* The inductive invariant.                                                *)

IndexedIn(D, d) == {r.pic : r \in Recs(D.index[d])}
PendingIn(D) == {s \in D.shown : s.pic \notin IndexedIn(D, s.day)}

\* The bytes of p's records in container c are in files F.
Holds(c, F, p) ==
  /\ c.file \in DOMAIN F
  /\ Len(F[c.file]) >= Len(c.recs)
  /\ \A i \in DOMAIN c.recs : c.recs[i].pic = p => F[c.file][i] = c.recs[i]

\* Snapshot s of database D can be read from files F and originals O.
Readable(D, F, O, s) ==
  IF s \in PendingIn(D) THEN s.pic \in D.old /\ O[s.pic] = "intact"
  ELSE Holds(D.index[s.day], F, s.pic)

\* Containers have a file of their own and at least one record, and no record is without a
\* snapshot of its day.
Whole(D) ==
  /\ \A d \in Days : D.index[d] = NoContainer \/ (D.index[d].file # 0 /\ D.index[d].recs # <<>>)
  /\ \A d, e \in Days : D.index[d].file = D.index[e].file /\ D.index[d].file # 0 => d = e
  /\ \A d \in Days : IndexedIn(D, d) \subseteq PicsOf(On(D.shown, d))

\* What is prepared does not need the files it will remove.
JobKeeps ==
  /\ Whole(job.tx)
  /\ \A d \in Days : job.tx.index[d].file \notin job.remove
  /\ \A s \in PendingIn(job.tx) : s.pic \notin job.removeOld
  /\ complete => PendingIn(job.tx) = {}
  /\ job.kind \in {"migrate", "lost"} => ~settled /\ ~complete

\* Before it commits, what can be read now can be read then.
JobReads ==
  /\ \A s \in db.shown \cap job.tx.shown :
       Readable(db, files, originals, s) => Readable(job.tx, files, originals, s)
  /\ "decay" \notin may => \A s \in job.tx.shown : Readable(job.tx, files, originals, s)
  /\ \A r \in job.retired : r.pic \notin told
  /\ ~Deleting => job.retired = {}
  /\ ~Deleting /\ settled /\ complete /\ "io" \notin may =>
       DOMAIN files \subseteq {job.tx.index[d].file : d \in Days}

\* While a file is written, the committed records in it are not touched.
JobWrites ==
  /\ job.file \in DOMAIN files
  /\ job.kept <= Len(files[job.file])
  /\ \A d \in Days : db.index[d].file = job.file =>
       job.kept # 0 /\ Len(db.index[d].recs) <= job.kept

JobInv ==
  /\ pc \in {"write", "commit", "cleanup"} => JobKeeps
  /\ pc \in {"write", "commit"} => JobReads
  /\ pc = "write" => JobWrites
  /\ pc = "cleanup" => job.tx = db /\ Deleting /\ ~settled

\* What settled and complete say.
SessionInv ==
  /\ pc \in {"down", "reconcile", "migrate", "settle"} => ~settled /\ ~complete
  /\ pc = "resettle" => ~settled
  /\ complete \/ pc = "settle" => PendingIn(db) = {}

\* Deleted pictures are in no snapshot, no log and, in the end, no original.
ToldInv ==
  /\ told \cap PicsOf(db.shown) = {}
  /\ \A r \in wal : r.pic \notin told
  /\ settled /\ complete => \A p \in told : originals[p] = "absent"

CleanInv ==
  settled /\ "io" \notin may =>
    /\ wal = {}
    /\ complete => /\ \A p \in Pics : originals[p] = "absent"
                   /\ pc \in {"up", "retain"} => DOMAIN files \subseteq Referenced

ReadInv == "decay" \notin may => \A s \in db.shown : Readable(db, files, originals, s)

Inv == TypeOK /\ Whole(db) /\ JobInv /\ SessionInv /\ ToldInv /\ CleanInv /\ ReadInv

\* What a step leaves readable.
Spares ==
  \A s \in db.shown \cap db'.shown :
    Readable(db, files, originals, s) => Readable(db', files', originals', s)

-----------------------------------------------------------------------------
(* Steps between operations, which touch neither files nor database.       *)

\* A step that leaves the storage as it is keeps what can be read.
LEMMA QuietSpares ==
  ASSUME UNCHANGED stored
  PROVE  Spares
BY DEF Spares, stored

\* Retention begins and ends.
LEMMA RetentionKeeps ==
  ASSUME Inv, StartRetention \/ EndRetention
  PROVE  Inv' /\ Spares
<1>1. /\ pc \in {"up", "retain"} /\ pc' \in {"up", "retain", "resettle"}
      /\ pc' = "resettle" => ~settled
      /\ UNCHANGED <<faults, job, stored, session, next, told>>
  BY DEF StartRetention, EndRetention
<1>2. TypeOK'
  BY <1>1 DEF Inv, TypeOK, faults, stored, session
<1>3. Whole(db)' /\ ReadInv' /\ ToldInv'
  BY <1>1 DEF Inv, Whole, IndexedIn, Recs, On, ReadInv, ToldInv, faults, stored, session
<1>4. JobInv'
  BY <1>1 DEF JobInv
<1>5. SessionInv'
  BY <1>1 DEF Inv, SessionInv, stored, session
<1>6. CleanInv'
  BY <1>1 DEF Inv, CleanInv, Referenced, faults, stored, session
<1> QED  BY <1>1, <1>2, <1>3, <1>4, <1>5, <1>6, QuietSpares DEF Inv

\* The storage is opened and closed.
LEMMA OpenCloseKeeps ==
  ASSUME Inv, Open \/ Close
  PROVE  Inv' /\ Spares
<1>1. /\ pc' \in {"reconcile", "down"} /\ settled' = FALSE /\ complete' = FALSE
      /\ UNCHANGED <<faults, job, stored, next, told>>
  BY DEF Open, Close
<1>2. TypeOK'
  BY <1>1 DEF Inv, TypeOK, faults, stored
<1>3. Whole(db)' /\ ReadInv' /\ ToldInv'
  BY <1>1 DEF Inv, Whole, IndexedIn, Recs, On, ReadInv, ToldInv, faults, stored
<1>4. JobInv' /\ SessionInv' /\ CleanInv'
  BY <1>1 DEF JobInv, SessionInv, CleanInv
<1> QED  BY <1>1, <1>2, <1>3, <1>4, QuietSpares DEF Inv

\* Migration stops, or everything is copied and verified.
LEMMA MigratedKeeps ==
  ASSUME Inv, MigrationStops \/ Verify
  PROVE  Inv' /\ Spares
<1>1. /\ pc = "migrate" /\ pc' \in {"up", "settle"}
      /\ pc' = "settle" => Pending = {}
      /\ may' = may /\ errors' \in 0..MaxErrors
      /\ UNCHANGED <<job, stored, session, next, told>>
  BY SnapshotConstants DEF MigrationStops, Verify, FileError, faults, Inv, TypeOK
<1>2. TypeOK'
  BY <1>1 DEF Inv, TypeOK, stored, session
<1>3. Whole(db)' /\ ReadInv' /\ ToldInv'
  BY <1>1 DEF Inv, Whole, IndexedIn, Recs, On, ReadInv, ToldInv, stored, session
<1>4. JobInv'
  BY <1>1 DEF JobInv
<1>5. ~settled /\ ~complete
  BY <1>1 DEF Inv, SessionInv
<1>6. Pending = PendingIn(db)
  BY DEF Pending, PendingIn, Indexed, IndexedIn
<1>7. SessionInv' /\ CleanInv'
  BY <1>1, <1>5, <1>6 DEF SessionInv, CleanInv, stored, session
<1> QED  BY <1>1, <1>2, <1>3, <1>4, <1>7, QuietSpares DEF Inv

-----------------------------------------------------------------------------
(* Settling.                                                               *)

\* Files that nothing refers to, and originals that nothing reads, can go.
LEMMA GoneSpares ==
  ASSUME Inv, NEW fs \in SUBSET Nat, NEW ps \in SUBSET Pics,
         \A d \in Days : db.index[d].file \notin fs,
         \A s \in PendingIn(db) : s.pic \notin ps,
         files' = Removed(fs), RemoveOriginals(ps), db' = db
  PROVE  /\ Spares
         /\ originals' \in [Pics -> {"intact", "rotten", "absent"}]
         /\ \A p \in Pics : originals[p] = "absent" => originals'[p] = "absent"
         /\ DOMAIN files' = DOMAIN files \ fs
         /\ DOMAIN files' \subseteq Files /\ files' \in [DOMAIN files' -> Seq(Rec)]
<1>1. /\ DOMAIN files' = DOMAIN files \ fs
      /\ \A f \in DOMAIN files' : files'[f] = files[f]
      /\ files' \in [DOMAIN files' -> Seq(Rec)]
  BY DEF Removed, Inv, TypeOK
<1>2. /\ \A p \in Pics : originals'[p] = IF p \in ps THEN "absent" ELSE originals[p]
      /\ originals' \in [Pics -> {"intact", "rotten", "absent"}]
  BY DEF RemoveOriginals, Inv, TypeOK
<1>3. \A s \in db.shown : s.pic \in Pics /\ s.day \in Days
  BY DEF Inv, TypeOK, Database, Shot
<1>4. ASSUME NEW s \in db.shown, Readable(db, files, originals, s)
      PROVE  Readable(db, files', originals', s)
  <2>1. CASE s \in PendingIn(db)
    BY <1>2, <1>3, <1>4, <2>1 DEF Readable
  <2>2. CASE s \notin PendingIn(db)
    BY <1>1, <1>3, <1>4, <2>2 DEF Readable, Holds
  <2> QED  BY <2>1, <2>2
<1>5. Spares
  BY <1>4 DEF Spares
<1> QED  BY <1>1, <1>2, <1>5 DEF Inv, TypeOK

\* Settling, all of it or as far as it gets.
LEMMA SettleKeeps ==
  ASSUME Inv, Settle \/ SettleFails
  PROVE  Inv' /\ Spares
<1>1. /\ pc \in {"settle", "resettle"} /\ pc' = AfterSettle
      /\ may' = may /\ errors' \in 0..MaxErrors
      /\ wal' \in {wal, {}}
      /\ UNCHANGED <<job, db, next, told>>
      /\ settled' \in BOOLEAN
      /\ complete' = (complete \/ pc = "settle")
  <2>1. CASE Settle
    BY <2>1 DEF Settle, faults, Inv, TypeOK
  <2>2. CASE SettleFails
    <3>1. may' = may /\ errors' \in 0..MaxErrors
      BY <2>2, SnapshotConstants DEF SettleFails, FileError, faults, Inv, TypeOK
    <3> QED  BY <2>2, <3>1 DEF SettleFails, Inv, TypeOK
  <2> QED  BY <2>1, <2>2
<1>2. Pending = PendingIn(db)
  BY DEF Pending, PendingIn, Indexed, IndexedIn
<1>3. DOMAIN files \subseteq Nat
  BY SnapshotConstants DEF Inv, TypeOK
<1>4. \E fs \in SUBSET Nat, ps \in SUBSET Pics :
        /\ \A d \in Days : db.index[d].file \notin fs
        /\ \A s \in PendingIn(db) : s.pic \notin ps
        /\ files' = Removed(fs) /\ RemoveOriginals(ps)
        /\ settled' => wal' = {}
        /\ settled' /\ PendingIn(db) = {} => fs = DOMAIN files \ Referenced /\ ps = Pics
  <2>1. files = Removed({}) /\ (UNCHANGED originals => RemoveOriginals({}))
    BY DEF Removed, RemoveOriginals, Inv, TypeOK
  <2>2. ~settled
    BY <1>1 DEF Inv, SessionInv
  <2>3. CASE Settle
    <3>1. CASE SweepsAll
      <4>1. PendingIn(db) = {}
        BY <1>2, <3>1 DEF SweepsAll
      <4>2. files' = Removed(DOMAIN files \ Referenced) /\ RemoveOriginals(Pics) /\ wal' = {}
        BY <2>3, <3>1 DEF Settle
      <4>3. \A d \in Days : db.index[d].file \notin DOMAIN files \ Referenced
        BY DEF Referenced
      <4>4. DOMAIN files \ Referenced \in SUBSET Nat /\ Pics \in SUBSET Pics
        BY <1>3
      <4> QED  BY <4>1, <4>2, <4>3, <4>4
    <3>2. CASE ~SweepsAll
      <4>1. PendingIn(db) # {}
        BY <1>2, <3>2 DEF SweepsAll
      <4>2. files' = Removed({}) /\ RemoveOriginals({}) /\ wal' = {}
        BY <2>1, <2>3, <3>2 DEF Settle
      <4> QED  BY <4>1, <4>2
    <3> QED  BY <3>1, <3>2
  <2>4. CASE SettleFails
    <3>0. ~settled'
      BY <2>2, <2>4 DEF SettleFails
    <3>1. CASE UNCHANGED <<files, originals>>
      BY <2>1, <3>0, <3>1
    <3>2. CASE /\ SweepsAll
               /\ \E fs \in SUBSET (DOMAIN files \ Referenced), ps \in SUBSET Pics :
                    files' = Removed(fs) /\ RemoveOriginals(ps)
      <4>1. PICK fs \in SUBSET (DOMAIN files \ Referenced), ps \in SUBSET Pics :
              files' = Removed(fs) /\ RemoveOriginals(ps)
        BY <3>2
      <4>2. PendingIn(db) = {}
        BY <1>2, <3>2 DEF SweepsAll
      <4>3. \A d \in Days : db.index[d].file \notin fs
        BY DEF Referenced
      <4>4. fs \in SUBSET Nat
        BY <1>3
      <4> QED  BY <3>0, <4>1, <4>2, <4>3, <4>4
    <3> QED  BY <2>4, <3>1, <3>2 DEF SettleFails
  <2> QED  BY <2>3, <2>4
<1>5. PICK fs \in SUBSET Nat, ps \in SUBSET Pics :
        /\ \A d \in Days : db.index[d].file \notin fs
        /\ \A s \in PendingIn(db) : s.pic \notin ps
        /\ files' = Removed(fs) /\ RemoveOriginals(ps)
        /\ settled' => wal' = {}
        /\ settled' /\ PendingIn(db) = {} => fs = DOMAIN files \ Referenced /\ ps = Pics
  BY <1>4, Zenon
<1>6. /\ Spares
      /\ originals' \in [Pics -> {"intact", "rotten", "absent"}]
      /\ \A p \in Pics : originals[p] = "absent" => originals'[p] = "absent"
      /\ DOMAIN files' = DOMAIN files \ fs
      /\ DOMAIN files' \subseteq Files /\ files' \in [DOMAIN files' -> Seq(Rec)]
  BY <1>1, <1>5, GoneSpares
<1>7. pc' \in {"up", "retain"}
  BY <1>1 DEF AfterSettle
<1>8. TypeOK'
  BY <1>1, <1>6, <1>7 DEF Inv, TypeOK
<1>9. Whole(db)' /\ JobInv'
  BY <1>1, <1>7 DEF Inv, Whole, IndexedIn, Recs, On, JobInv
<1>10. ReadInv'
  BY <1>1, <1>6 DEF Inv, ReadInv, Spares
<1>11. complete' => PendingIn(db) = {}
  BY <1>1 DEF Inv, SessionInv
<1>12. SessionInv'
  BY <1>1, <1>7, <1>11 DEF SessionInv
<1>13. settled' /\ complete' =>
         /\ \A p \in Pics : originals'[p] = "absent"
         /\ DOMAIN files' \subseteq Referenced
  BY <1>5, <1>6, <1>11 DEF RemoveOriginals
<1>14. ToldInv'
  BY <1>1, <1>13 DEF Inv, ToldInv, TypeOK
<1>15. CleanInv'
  BY <1>1, <1>5, <1>13 DEF CleanInv, Referenced
<1> QED  BY <1>6, <1>8, <1>9, <1>10, <1>12, <1>14, <1>15 DEF Inv

-----------------------------------------------------------------------------
(* Opening.                                                                *)

\* Originals take the place of a container whose file is gone.
LEMMA ForgetContainerKeeps ==
  ASSUME Inv, NEW d \in Lost, pc = "reconcile",
         db' = [db EXCEPT !.index[d] = NoContainer],
         wal' = wal \cup Recs(db.index[d]),
         UNCHANGED <<faults, pc, job, files, originals, session, next, told>>
  PROVE  Inv' /\ Spares
<1>1. d \in Days /\ db.index[d].file \notin DOMAIN files
  BY DEF Lost, Containers
<1>2. /\ db'.shown = db.shown /\ db'.blobs = db.blobs /\ db'.old = db.old
      /\ \A e \in Days : db'.index[e] = IF e = d THEN NoContainer ELSE db.index[e]
      /\ db' \in Database
  <2>1. NoContainer \in Container
    BY DEF NoContainer, Container
  <2>2. db \in Database
    BY DEF Inv, TypeOK
  <2> QED  BY <1>1, <2>1, <2>2 DEF Database
<1>3. IndexedIn(db', d) = {}
  BY <1>1, <1>2 DEF IndexedIn, Recs, NoContainer, ToSet
<1>4. \A e \in Days \ {d} : IndexedIn(db', e) = IndexedIn(db, e)
  BY <1>2 DEF IndexedIn, Recs
<1>5. \A s \in db.shown : s.pic \in Pics /\ s.day \in Days
  BY DEF Inv, TypeOK, Database, Shot
<1>6. Whole(db')
  <2>1. \A e \in Days : db'.index[e] = NoContainer \/ (db'.index[e].file # 0 /\ db'.index[e].recs # <<>>)
    BY <1>2 DEF Inv, Whole
  <2>2. \A e, g \in Days : db'.index[e].file = db'.index[g].file /\ db'.index[e].file # 0 => e = g
    BY <1>2 DEF Inv, Whole, NoContainer
  <2>3. \A e \in Days : IndexedIn(db', e) \subseteq PicsOf(On(db'.shown, e))
    BY <1>2, <1>3, <1>4 DEF Inv, Whole
  <2> QED  BY <2>1, <2>2, <2>3 DEF Whole
<1>7. Spares
  <2> SUFFICES ASSUME NEW s \in db.shown, Readable(db, files, originals, s)
               PROVE  Readable(db', files, originals, s)
    BY DEF Spares
  <2>1. CASE s \in PendingIn(db)
    <3>1. s \in PendingIn(db')
      BY <1>2, <1>3, <1>4, <1>5, <2>1 DEF PendingIn
    <3> QED  BY <1>2, <2>1, <3>1 DEF Readable
  <2>2. CASE s \notin PendingIn(db)
    <3>1. s.day # d
      BY <1>1, <2>2 DEF Readable, Holds
    <3>2. s \notin PendingIn(db')
      BY <1>4, <1>5, <2>2, <3>1 DEF PendingIn
    <3> QED  BY <1>2, <1>5, <2>2, <3>1, <3>2 DEF Readable
  <2> QED  BY <2>1, <2>2
<1>8. ReadInv'
  BY <1>2, <1>7 DEF Inv, ReadInv, Spares, faults
<1>9. ~settled /\ ~complete /\ ~settled' /\ ~complete'
  BY DEF Inv, SessionInv, session
<1>10. SessionInv' /\ CleanInv' /\ JobInv'
  BY <1>9 DEF SessionInv, CleanInv, JobInv
<1>11. ToldInv'
  <2>1. \A r \in Recs(db.index[d]) : r.pic \in PicsOf(db.shown)
    BY <1>1 DEF Inv, Whole, IndexedIn, On, PicsOf
  <2> QED  BY <1>2, <1>9, <2>1 DEF Inv, ToldInv
<1>12. TypeOK'
  <2>1. Recs(db.index[d]) \subseteq Rec
    BY <1>1 DEF Inv, TypeOK, Database, Container, Recs, ToSet
  <2> QED  BY <1>2, <2>1 DEF Inv, TypeOK, faults, session
<1> QED  BY <1>6, <1>7, <1>8, <1>10, <1>11, <1>12 DEF Inv

\* Snapshots of a picture without bytes are given up.
LEMMA ForgetMissingKeeps ==
  ASSUME Inv, NEW p \in Pics, ForgetMissing(p)
  PROVE  Inv' /\ Spares
<1>1. /\ pc = "migrate" /\ p \in Missing
      /\ db' = [db EXCEPT !.shown = {s \in @ : s.pic # p}, !.blobs = @ \ {p}, !.old = @ \ {p}]
      /\ wal' \in {wal, {}}
      /\ UNCHANGED <<faults, pc, job, files, originals, session, next, told>>
  BY DEF ForgetMissing
<1>2. /\ db'.shown = {s \in db.shown : s.pic # p} /\ db'.old = db.old \ {p}
      /\ db'.index = db.index
      /\ db' \in Database
  <2>1. db \in Database
    BY DEF Inv, TypeOK
  <2> QED  BY <1>1, <2>1 DEF Database
<1>3. \A d \in Days : p \notin IndexedIn(db, d) /\ IndexedIn(db', d) = IndexedIn(db, d)
  BY <1>1, <1>2 DEF Missing, Copies, Indexed, IndexedIn, Recs
<1>4. \A s \in db.shown : s.pic \in Pics /\ s.day \in Days
  BY DEF Inv, TypeOK, Database, Shot
<1>5. Whole(db')
  <2>1. \A d \in Days : IndexedIn(db', d) \subseteq PicsOf(On(db'.shown, d))
    BY <1>2, <1>3 DEF Inv, Whole, PicsOf, On
  <2> QED  BY <1>2, <2>1 DEF Inv, Whole
<1>6. Spares
  <2> SUFFICES ASSUME NEW s \in db'.shown, Readable(db, files, originals, s)
               PROVE  Readable(db', files, originals, s)
    BY <1>1 DEF Spares
  <2>1. s \in PendingIn(db') <=> s \in PendingIn(db)
    BY <1>2, <1>3, <1>4 DEF PendingIn
  <2> QED  BY <1>2, <2>1 DEF Readable
<1>7. ReadInv'
  BY <1>1, <1>2, <1>6 DEF Inv, ReadInv, Spares, faults
<1>8. ~settled /\ ~complete /\ ~settled' /\ ~complete'
  BY <1>1 DEF Inv, SessionInv, session
<1>9. SessionInv' /\ CleanInv' /\ JobInv'
  BY <1>1, <1>8 DEF SessionInv, CleanInv, JobInv
<1>10. ToldInv'
  BY <1>1, <1>2, <1>8 DEF Inv, ToldInv, PicsOf
<1>11. TypeOK'
  BY <1>1, <1>2 DEF Inv, TypeOK, faults, session
<1> QED  BY <1>5, <1>6, <1>7, <1>9, <1>10, <1>11 DEF Inv

\* The key that decrypts nothing is among the keys.
LEMMA ZeroIsAKey == 0 \in Key
<1>1. Cardinality(Pics) \in Nat /\ Cardinality(Days) \in Nat /\ Cardinality(Files) \in Nat
  BY SnapshotConstants, FS_CardinalityType
<1>2. \A a, b, c \in Nat : 0 \in 0..(2 * a * (b + c))
  <2>1. \A a, b, c \in Nat : 2 * a * (b + c) \in Nat
    OBVIOUS
  <2> QED  BY <2>1
<1> QED  BY <1>1, <1>2 DEF Key

\* The first n of a sequence.
LEMMA FirstsOf ==
  ASSUME NEW S, NEW s \in Seq(S), NEW n \in Nat, n <= Len(s)
  PROVE  /\ SubSeq(s, 1, n) \in Seq(S)
         /\ Len(SubSeq(s, 1, n)) = n
         /\ \A i \in 1..n : SubSeq(s, 1, n)[i] = s[i]
<1>1. \A i \in 1..n : i \in 1..Len(s)
  BY LenProperties
<1>2. \A i \in 1..n : s[i] \in S
  BY <1>1, ElementOfSeq
<1>3. /\ SubSeq(s, 1, n) \in Seq(S)
      /\ Len(SubSeq(s, 1, n)) = IF 1 <= n THEN n - 1 + 1 ELSE 0
      /\ \A i \in 1..(n - 1 + 1) : SubSeq(s, 1, n)[i] = s[1 + i - 1]
  BY <1>2, SubSeqProperties
<1> QED  BY <1>3

\* A change of the files that leaves the committed records in place.
LEMMA FilesSpare ==
  ASSUME Inv, NEW F,
         \A d \in Days : db.index[d].file \in DOMAIN files =>
           /\ db.index[d].file \in DOMAIN F
           /\ Len(files[db.index[d].file]) >= Len(db.index[d].recs) =>
                /\ Len(F[db.index[d].file]) >= Len(db.index[d].recs)
                /\ \A i \in 1..Len(db.index[d].recs) :
                     F[db.index[d].file][i] = files[db.index[d].file][i]
  PROVE  \A s \in db.shown :
           Readable(db, files, originals, s) => Readable(db, F, originals, s)
<1> SUFFICES ASSUME NEW s \in db.shown, Readable(db, files, originals, s), s \notin PendingIn(db)
             PROVE  Readable(db, F, originals, s)
  BY DEF Readable
<1>1. s.day \in Days /\ db.index[s.day].recs \in Seq(Rec)
  BY DEF Inv, TypeOK, Database, Shot, Container
<1>2. DOMAIN db.index[s.day].recs = 1..Len(db.index[s.day].recs)
  BY <1>1, LenProperties
<1>3. Holds(db.index[s.day], files, s.pic)
  BY DEF Readable
<1>4. Holds(db.index[s.day], F, s.pic)
  BY <1>1, <1>2, <1>3 DEF Holds
<1> QED  BY <1>4 DEF Readable

\* Uncommitted tails are cut off.
LEMMA CutTailsKeeps ==
  ASSUME Inv, CutTails
  PROVE  Inv' /\ Spares
<1>1. PICK ds \in SUBSET (Containers \ Short) :
        /\ pc = "reconcile" /\ Lost = {} /\ files' = Cut(ds) /\ pc' \in {"migrate", "up"}
        /\ UNCHANGED <<faults, job, db, wal, originals, session, next, told>>
  BY DEF CutTails
<1>2. \A d \in ds :
        /\ d \in Days /\ db.index[d].file \in DOMAIN files
        /\ Len(files[db.index[d].file]) >= Len(db.index[d].recs)
  <2>1. \A d \in ds : d \in Days /\ d \in Containers /\ d \notin Short /\ d \notin Lost
    BY <1>1 DEF Containers
  <2>2. \A d \in Days : Len(db.index[d].recs) \in Nat
    BY LenProperties DEF Inv, TypeOK, Database, Container
  <2>3. \A f \in DOMAIN files : Len(files[f]) \in Nat
    BY LenProperties DEF Inv, TypeOK
  <2> QED  BY <2>1, <2>2, <2>3 DEF Lost, Short
<1>3. \A f \in DOMAIN files : f # 0
  BY SnapshotConstants DEF Inv, TypeOK
<1>4. \A d \in Days : db.index[d].recs \in Seq(Rec) /\ Len(db.index[d].recs) \in Nat
  BY LenProperties DEF Inv, TypeOK, Database, Container
<1>5. DOMAIN files' = DOMAIN files
  BY <1>1 DEF Cut
<1>6. ASSUME NEW f \in DOMAIN files
      PROVE  \/ files'[f] = files[f]
             \/ \E d \in ds : db.index[d].file = f /\ files'[f] = SubSeq(files[f], 1, Len(db.index[d].recs))
  <2> DEFINE own == {d \in ds : db.index[d].file = f}
  <2>1. files'[f] = IF own = {} THEN files[f]
                    ELSE SubSeq(files[f], 1, Len(db.index[CHOOSE d \in own : TRUE].recs))
    BY <1>1 DEF Cut
  <2>2. own # {} => (CHOOSE d \in own : TRUE) \in own
    OBVIOUS
  <2> QED  BY <2>1, <2>2
<1>7. ASSUME NEW f \in DOMAIN files
      PROVE  files'[f] \in Seq(Rec)
  <2>1. files[f] \in Seq(Rec)
    BY DEF Inv, TypeOK
  <2>2. ASSUME NEW d \in ds, db.index[d].file = f
        PROVE  SubSeq(files[f], 1, Len(db.index[d].recs)) \in Seq(Rec)
    BY <1>2, <1>4, <2>1, <2>2, FirstsOf
  <2> QED  BY <1>6, <2>1, <2>2
<1>8. ASSUME NEW d \in Days, db.index[d].file \in DOMAIN files,
             Len(files[db.index[d].file]) >= Len(db.index[d].recs)
      PROVE  /\ Len(files'[db.index[d].file]) >= Len(db.index[d].recs)
             /\ \A i \in 1..Len(db.index[d].recs) :
                  files'[db.index[d].file][i] = files[db.index[d].file][i]
  <2> DEFINE f == db.index[d].file
  <2>1. CASE files'[f] = files[f]
    BY <1>8, <2>1
  <2>2. CASE \E e \in ds : db.index[e].file = f /\ files'[f] = SubSeq(files[f], 1, Len(db.index[e].recs))
    <3>1. PICK e \in ds : db.index[e].file = f /\ files'[f] = SubSeq(files[f], 1, Len(db.index[e].recs))
      BY <2>2
    <3>2. e = d
      BY <1>2, <1>3, <1>8, <3>1 DEF Inv, Whole
    <3>3. files[f] \in Seq(Rec)
      BY <1>8 DEF Inv, TypeOK
    <3>4. /\ Len(SubSeq(files[f], 1, Len(db.index[d].recs))) = Len(db.index[d].recs)
          /\ \A i \in 1..Len(db.index[d].recs) : SubSeq(files[f], 1, Len(db.index[d].recs))[i] = files[f][i]
      BY <1>4, <1>8, <3>3, FirstsOf
    <3> QED  BY <1>4, <3>1, <3>2, <3>4
  <2> QED  BY <1>6, <1>8, <2>1, <2>2
<1>9. \A s \in db.shown : Readable(db, files, originals, s) => Readable(db, files', originals, s)
  BY <1>5, <1>8, FilesSpare
<1>10. Spares
  BY <1>1, <1>9 DEF Spares
<1>11. TypeOK'
  <2>1. files' \in [DOMAIN files' -> Seq(Rec)]
    BY <1>1, <1>5, <1>7 DEF Cut
  <2> QED  BY <1>1, <1>5, <2>1 DEF Inv, TypeOK, faults, session
<1>12. Whole(db)'
  BY <1>1 DEF Inv, Whole, IndexedIn, Recs, On
<1>13. ReadInv'
  BY <1>1, <1>9 DEF Inv, ReadInv, faults
<1>14. ~settled /\ ~complete
  BY <1>1 DEF Inv, SessionInv
<1>15. SessionInv' /\ CleanInv' /\ JobInv' /\ ToldInv'
  BY <1>1, <1>14 DEF Inv, SessionInv, CleanInv, JobInv, ToldInv, session
<1> QED  BY <1>10, <1>11, <1>12, <1>13, <1>15 DEF Inv

-----------------------------------------------------------------------------
(* Faults.                                                                 *)

\* Bytes rot, records are cut off, files disappear.
LEMMA DecayKeeps ==
  ASSUME Inv, Decay
  PROVE  Inv'
<1>1. /\ pc \in {"down", "up"} /\ "decay" \in may /\ may' = may /\ errors' \in 0..MaxErrors
      /\ UNCHANGED <<pc, job, db, wal, session, next, told>>
  BY SnapshotConstants DEF Decay, FileError, Inv, TypeOK
<1>2. /\ originals' \in [Pics -> {"intact", "rotten", "absent"}]
      /\ \A p \in Pics : originals[p] = "absent" => originals'[p] = "absent"
  BY DEF Decay, Inv, TypeOK
<1>3. /\ DOMAIN files' \subseteq DOMAIN files
      /\ files' \in [DOMAIN files' -> Seq(Rec)]
  <2>1. CASE UNCHANGED files
    BY <2>1 DEF Inv, TypeOK
  <2>2. ASSUME NEW f \in DOMAIN files, files' = Removed({f})
        PROVE  <1>3
    BY <2>2 DEF Inv, TypeOK, Removed
  <2>3. ASSUME NEW f \in DOMAIN files, NEW i \in DOMAIN files[f],
               \/ files' = [files EXCEPT ![f][i] = Rotten(@)]
               \/ files' = [files EXCEPT ![f] = SubSeq(@, 1, i - 1)]
        PROVE  <1>3
    <3>1. files[f] \in Seq(Rec) /\ files \in [DOMAIN files -> Seq(Rec)]
      BY DEF Inv, TypeOK
    <3>2. i \in 1..Len(files[f]) /\ Len(files[f]) \in Nat
      BY <3>1, LenProperties
    <3>3. files[f][i] \in Rec
      BY <3>1, <3>2, ElementOfSeq
    <3>4. 0 \in Key
      BY ZeroIsAKey
    <3>5. Rotten(files[f][i]) \in Rec
      BY <3>3, <3>4 DEF Rec, Rotten
    <3>6. [files[f] EXCEPT ![i] = Rotten(files[f][i])] \in Seq(Rec)
      BY <3>1, <3>2, <3>5, ExceptSeq
    <3>7. SubSeq(files[f], 1, i - 1) \in Seq(Rec)
      <4>1. i - 1 \in Nat /\ i - 1 <= Len(files[f])
        BY <3>2
      <4> QED  BY <3>1, <4>1, FirstsOf
    <3>8. \E q \in Seq(Rec) : files' = [files EXCEPT ![f] = q]
      BY <2>3, <3>6, <3>7
    <3> QED  BY <3>1, <3>8
  <2> QED  BY <2>1, <2>2, <2>3 DEF Decay
<1>4. TypeOK'
  BY <1>1, <1>2, <1>3 DEF Inv, TypeOK, session
<1>5. Whole(db)'
  BY <1>1 DEF Inv, Whole, IndexedIn, Recs, On
<1>6. ReadInv' /\ JobInv'
  BY <1>1 DEF ReadInv, JobInv
<1>7. SessionInv' /\ ToldInv'
  BY <1>1, <1>2 DEF Inv, SessionInv, ToldInv, session, TypeOK
<1>8. CleanInv'
  BY <1>1, <1>2, <1>3 DEF Inv, CleanInv, session, Referenced
<1> QED  BY <1>4, <1>5, <1>6, <1>7, <1>8 DEF Inv

-----------------------------------------------------------------------------
(* Preparing a transaction.                                                *)

\* An operation that prepares j and writes files that no committed record needs.
LEMMA BeginKeeps ==
  ASSUME Inv, NEW j \in Job, Begin(j),
         UNCHANGED <<faults, db, wal, originals, session, told>>,
         next' \in 1..(MaxSlots + 1),
         DOMAIN files' \subseteq Files, files' \in [DOMAIN files' -> Seq(Rec)],
         \A s \in db.shown : Readable(db, files, originals, s) => Readable(db, files', originals, s),
         Whole(j.tx),
         \A d \in Days : j.tx.index[d].file \notin j.remove,
         \A s \in PendingIn(j.tx) : s.pic \notin j.removeOld,
         complete => PendingIn(j.tx) = {},
         j.kind \in {"migrate", "lost"} => ~settled /\ ~complete,
         \A s \in db.shown \cap j.tx.shown :
           Readable(db, files', originals, s) => Readable(j.tx, files', originals, s),
         "decay" \notin may =>
           \A s \in j.tx.shown \ db.shown : Readable(j.tx, files', originals, s),
         \A r \in j.retired : r.pic \in PicsOf(db.shown),
         \/ j.kind \in {"delete", "retain", "lost"}
         \/ /\ j.retired = {}
            /\ settled /\ complete /\ "io" \notin may =>
                 DOMAIN files' \subseteq {j.tx.index[d].file : d \in Days},
         j.file # 0 =>
           /\ j.file \in DOMAIN files'
           /\ j.kept <= Len(files'[j.file])
           /\ \A d \in Days : db.index[d].file = j.file =>
                j.kept # 0 /\ Len(db.index[d].recs) <= j.kept
  PROVE  Inv' /\ Spares
<1>1. job' = j /\ pc' \in {"write", "commit"} /\ (pc' = "write" => j.file # 0)
  BY DEF Begin
<1>2. TypeOK'
  BY <1>1 DEF Inv, TypeOK, faults, session
<1>3. Whole(db)'
  BY DEF Inv, Whole, IndexedIn, Recs, On
<1>4. Spares
  BY DEF Spares
<1>5. ReadInv'
  BY DEF Inv, ReadInv, faults
<1>6. SessionInv' /\ ToldInv' /\ CleanInv'
  BY <1>1 DEF Inv, SessionInv, ToldInv, CleanInv, faults, session
<1>7. JobKeeps'
  BY <1>1 DEF JobKeeps, session
<1>8. JobReads'
  <2>1. \A s \in db.shown \cap j.tx.shown :
          Readable(db', files', originals', s) => Readable(j.tx, files', originals', s)
    OBVIOUS
  <2>2. "decay" \notin may => \A s \in j.tx.shown : Readable(j.tx, files', originals', s)
    BY DEF Inv, ReadInv
  <2>3. \A r \in j.retired : r.pic \notin told
    BY DEF Inv, ToldInv
  <2> QED  BY <1>1, <2>1, <2>2, <2>3 DEF JobReads, Deleting, session, faults
<1>9. pc' = "write" => JobWrites'
  BY <1>1 DEF JobWrites
<1>10. JobInv'
  BY <1>1, <1>7, <1>8, <1>9 DEF JobInv
<1> QED  BY <1>2, <1>3, <1>4, <1>5, <1>6, <1>10 DEF Inv

\* New records are of the pictures asked for.
LEMMA NewRecsAre ==
  ASSUME NEW ps \in SUBSET Pics, KeysLeft(ps)
  PROVE  NewRecs(ps) \in Seq(Rec) /\ {r.pic : r \in ToSet(NewRecs(ps))} = ps
<1> DEFINE keys == CHOOSE k \in [ps -> FreshKeys] : IsInjective(k)
<1> DEFINE S == {[pic |-> p, key |-> keys[p]] : p \in ps}
<1>1. keys \in [ps -> FreshKeys]
  BY DEF KeysLeft
<1>2. S \subseteq Rec
  <2>1. \A p \in ps : p \in Pics /\ keys[p] \in Key
    BY <1>1 DEF FreshKeys
  <2> HIDE DEF keys
  <2> QED  BY <2>1 DEF Rec
<1>3. IsFiniteSet(ps)
  BY SnapshotConstants, FS_Subset
<1>4. [p \in ps |-> [pic |-> p, key |-> keys[p]]] \in Surjection(ps, S)
  BY DEF Surjection
<1>5. IsFiniteSet(S)
  <2> HIDE DEF S
  <2> QED  BY <1>3, <1>4, FS_Surjection
<1>6. {r.pic : r \in S} = ps
  <2> HIDE DEF keys
  <2>2. \A r \in S : r.pic \in ps
    OBVIOUS
  <2>3. ASSUME NEW p \in ps
        PROVE  \E r \in S : r.pic = p
    <3>1. [pic |-> p, key |-> keys[p]] \in S
      OBVIOUS
    <3>2. [pic |-> p, key |-> keys[p]].pic = p
      OBVIOUS
    <3> HIDE DEF S
    <3> QED  BY <3>1, <3>2
  <2> QED  BY <2>2, <2>3
<1>7. NewRecs(ps) = SetToSeq(S)
  BY DEF NewRecs
<1> HIDE DEF S
<1>8. SetToSeq(S) \in Seq(S) /\ ToSet(SetToSeq(S)) = S
  BY <1>5, SetToSeqIs
<1>9. SetToSeq(S) \in Seq(Rec)
  BY <1>2, <1>8, SeqMonotonic
<1> QED  BY <1>6, <1>7, <1>8, <1>9

\* The files and the record sequences that appending to day d leaves: the file is the day's
\* own or new, and continues with the same records as the index.
Appended(d, ps, f, new) ==
  LET c == db.index[d]
  IN  /\ f \in Files /\ new \in Seq(Rec)
      /\ \A e \in Days \ {d} : db.index[e].file # f
      /\ c = NoContainer \/ c.file = f
      /\ DOMAIN files' = DOMAIN files \cup {f}
      /\ \A g \in DOMAIN files \ {f} : files'[g] = files[g]
      /\ files'[f] \in Seq(Rec)
      /\ Len(c.recs) <= Len(new) /\ Len(files'[f]) = Len(new)
      /\ \A i \in 1..Len(c.recs) : new[i] = c.recs[i]
      /\ c # NoContainer =>
           /\ f \in DOMAIN files
           /\ \A i \in 1..Len(c.recs) : files'[f][i] = files[f][i]
      /\ \A i \in 1..Len(new) : ~(i <= Len(c.recs)) => files'[f][i] = new[i]
      /\ {r.pic : r \in ToSet(new)} = IndexedIn(db, d) \cup ps

\* That is what AppendRecords does.
LEMMA AppendAdds ==
  ASSUME Inv, NEW d \in Days, NEW ps \in SUBSET Pics, NEW kind, NEW shown,
         AppendRecords(kind, d, ps, shown)
  PROVE  \E f, new :
           /\ Appended(d, ps, f, new)
           /\ files' \in [DOMAIN files' -> Seq(Rec)]
           /\ Begin([NoJob EXCEPT
                !.kind = kind, !.file = f, !.kept = Len(db.index[d].recs),
                !.tx = [db EXCEPT !.shown = shown,
                                  !.blobs = PicsOf(shown) \cup @,
                                  !.index[d] = [file |-> f, recs |-> new]]])
<1> DEFINE c == db.index[d]
<1> DEFINE f == IF c = NoContainer THEN NewFile ELSE c.file
<1> DEFINE added == NewRecs(ps)
<1> DEFINE new == c.recs \o added
<1> DEFINE base == IF c = NoContainer THEN <<>> ELSE SubSeq(files[f], 1, Len(c.recs))
<1>1. /\ CanAppend(d) /\ KeysLeft(ps)
      /\ c = NoContainer => FreshFiles # {}
      /\ files' = Put(f, IF c = NoContainer THEN added ELSE SubSeq(files[f], 1, Len(c.recs)) \o added)
      /\ Begin([NoJob EXCEPT
           !.kind = kind, !.file = f, !.kept = Len(c.recs),
           !.tx = [db EXCEPT !.shown = shown,
                             !.blobs = PicsOf(shown) \cup @,
                             !.index[d] = [file |-> f, recs |-> new]]])
  BY DEF AppendRecords
<1>2. added \in Seq(Rec) /\ {r.pic : r \in ToSet(added)} = ps
  BY <1>1, NewRecsAre
<1>3. c.recs \in Seq(Rec) /\ Len(c.recs) \in Nat /\ Len(added) \in Nat
  BY <1>2, LenProperties DEF Inv, TypeOK, Database, Container
<1>4. c # NoContainer => c.file # 0 /\ c.file = f /\ f \in DOMAIN files /\ Len(files[f]) >= Len(c.recs)
  BY <1>1 DEF CanAppend, Inv, Whole
<1>5. c = NoContainer => f \in Files /\ f \notin DOMAIN files /\ f \notin Referenced /\ c.recs = <<>>
  BY <1>1 DEF NewFile, FreshFiles, NoContainer
<1>6. f \in Files
  BY <1>4, <1>5 DEF Inv, TypeOK
<1>7. \A e \in Days \ {d} : db.index[e].file # f
  BY <1>4, <1>5 DEF Inv, Whole, Referenced
<1>8. /\ base \in Seq(Rec) /\ Len(base) = Len(c.recs)
      /\ c # NoContainer => \A i \in 1..Len(c.recs) : base[i] = files[f][i]
  <2>1. CASE c = NoContainer
    BY <1>5, <2>1, EmptySeq
  <2>2. CASE c # NoContainer
    <3>1. files[f] \in Seq(Rec)
      BY <1>4, <2>2 DEF Inv, TypeOK
    <3> QED  BY <1>3, <1>4, <2>2, <3>1, FirstsOf
  <2> QED  BY <2>1, <2>2
<1>9. files' = Put(f, base \o added)
  BY <1>1, <1>2, ConcatEmptySeq
<1> HIDE DEF c, f, added, base
<1>10. /\ base \o added \in Seq(Rec)
       /\ Len(base \o added) = Len(base) + Len(added)
       /\ \A i \in 1..(Len(base) + Len(added)) :
            (base \o added)[i] = IF i <= Len(base) THEN base[i] ELSE added[i - Len(base)]
  <2>1. base \in Seq(Rec) /\ added \in Seq(Rec)
    BY <1>2, <1>8
  <2> QED  BY <2>1, ConcatProperties, SMTT(30)
<1>11. /\ new \in Seq(Rec)
       /\ Len(new) = Len(c.recs) + Len(added)
       /\ \A i \in 1..(Len(c.recs) + Len(added)) :
            new[i] = IF i <= Len(c.recs) THEN c.recs[i] ELSE added[i - Len(c.recs)]
  BY <1>2, <1>3, ConcatProperties
<1>12. ToSet(new) = ToSet(c.recs) \cup ToSet(added)
  BY <1>2, <1>3, ToSetOfConcat
<1> HIDE DEF new
<1>13. {r.pic : r \in ToSet(new)} = IndexedIn(db, d) \cup ps
  BY <1>2, <1>12 DEF IndexedIn, Recs, c
<1>14. /\ DOMAIN files' = DOMAIN files \cup {f}
       /\ files'[f] = base \o added
       /\ \A g \in DOMAIN files \ {f} : files'[g] = files[g]
       /\ files' \in [DOMAIN files' -> Seq(Rec)]
  BY <1>9, <1>10 DEF Put, Inv, TypeOK
<1>15. \A i \in 1..Len(c.recs) : i \in 1..(Len(c.recs) + Len(added)) /\ i <= Len(c.recs)
  BY <1>3
<1>16. Len(c.recs) <= Len(new) /\ Len(files'[f]) = Len(new)
  BY <1>3, <1>8, <1>10, <1>11, <1>14
<1>17. Appended(d, ps, f, new)
  <2>1. \A i \in 1..Len(c.recs) : new[i] = c.recs[i]
    BY <1>11, <1>15
  <2>2. c # NoContainer => \A i \in 1..Len(c.recs) : files'[f][i] = files[f][i]
    BY <1>8, <1>10, <1>14, <1>15
  <2>3. \A i \in 1..Len(new) : ~(i <= Len(c.recs)) => files'[f][i] = new[i]
    BY <1>8, <1>10, <1>11, <1>14
  <2>4. c = NoContainer \/ c.file = f
    BY <1>4
  <2> QED  BY <1>4, <1>6, <1>7, <1>10, <1>11, <1>13, <1>14, <1>16, <2>1, <2>2, <2>3, <2>4 DEF Appended, c
<1> QED  BY <1>1, <1>14, <1>17 DEF c

\* Appending keeps the containers, and everything in them readable.
LEMMA AppendKeeps ==
  ASSUME Inv, NEW d \in Days, NEW ps \in SUBSET Pics, NEW kind \in {"capture", "migrate"},
         NEW shown \in SUBSET Shot,
         db.shown \subseteq shown,
         \A s \in shown \ db.shown : s.day = d /\ s.pic \in IndexedIn(db, d) \cup ps,
         ps \subseteq PicsOf(On(shown, d)),
         ps = {} => db.index[d] # NoContainer,
         kind = "migrate" => ~settled /\ ~complete,
         pc = "up" \/ kind = "migrate",
         AppendRecords(kind, d, ps, shown),
         next' \in 1..(MaxSlots + 1),
         UNCHANGED <<faults, db, wal, originals, session, told>>
  PROVE  Inv' /\ Spares
<1> DEFINE c == db.index[d]
<1>1. PICK f, new :
        /\ Appended(d, ps, f, new)
        /\ files' \in [DOMAIN files' -> Seq(Rec)]
        /\ Begin([NoJob EXCEPT
             !.kind = kind, !.file = f, !.kept = Len(c.recs),
             !.tx = [db EXCEPT !.shown = shown,
                               !.blobs = PicsOf(shown) \cup @,
                               !.index[d] = [file |-> f, recs |-> new]]])
  BY AppendAdds
<1> DEFINE nc == [file |-> f, recs |-> new]
<1> DEFINE tx == [db EXCEPT !.shown = shown, !.blobs = PicsOf(shown) \cup @, !.index[d] = nc]
<1> DEFINE j == [NoJob EXCEPT !.kind = kind, !.file = f, !.kept = Len(c.recs), !.tx = tx]
<1>2. db \in Database /\ c.recs \in Seq(Rec) /\ Len(c.recs) \in Nat /\ DOMAIN c.recs = 1..Len(c.recs)
  BY LenProperties DEF Inv, TypeOK, Database, Container
<1>3. f \in Files /\ new \in Seq(Rec) /\ DOMAIN new = 1..Len(new) /\ Len(new) \in Nat /\ f # 0
  BY <1>1, LenProperties, SnapshotConstants DEF Appended
<1>4. nc \in Container
  BY <1>3 DEF Container
<1>5. PicsOf(shown) \subseteq Pics
  BY DEF PicsOf, Shot
<1>6. /\ tx \in Database
      /\ tx.shown = shown /\ tx.old = db.old
      /\ \A e \in Days : tx.index[e] = IF e = d THEN nc ELSE db.index[e]
  BY <1>2, <1>4, <1>5 DEF Database
<1> HIDE DEF tx
<1>7. /\ j \in Job
      /\ j.kind = kind /\ j.file = f /\ j.kept = Len(c.recs) /\ j.tx = tx
      /\ j.remove = {} /\ j.removeOld = {} /\ j.retired = {}
  <2>1. j.kind = kind /\ j.file = f /\ j.kept = Len(c.recs) /\ j.tx = tx
    BY DEF NoJob
  <2>2. j.remove = {} /\ j.removeOld = {} /\ j.retired = {}
    BY DEF NoJob
  <2>3. j \in Job
    BY <1>2, <1>3, <1>6 DEF NoJob, Job
  <2> QED  BY <2>1, <2>2, <2>3
<1>8. Begin(j)
  BY <1>1 DEF tx
<1> HIDE DEF j
<1>9. \A e \in Days \ {d} : IndexedIn(tx, e) = IndexedIn(db, e)
  BY <1>6 DEF IndexedIn, Recs
<1>10. IndexedIn(tx, d) = IndexedIn(db, d) \cup ps
  <2>1. tx.index[d].recs = new
    BY <1>6
  <2>2. {r.pic : r \in ToSet(new)} = IndexedIn(db, d) \cup ps
    BY <1>1 DEF Appended
  <2> QED  BY <2>1, <2>2 DEF IndexedIn, Recs
<1>11. \A s \in shown : s.pic \in Pics /\ s.day \in Days
  BY DEF Shot
<1>12. new # <<>>
  <2>1. IndexedIn(db, d) \cup ps # {}
    <3>1. CASE ps # {}
      BY <3>1
    <3>2. CASE ps = {}
      <4>1. c # NoContainer /\ c.recs # <<>>
        BY <3>2 DEF Inv, Whole
      <4>2. 1 \in 1..Len(c.recs)
        BY <1>2, <4>1, EmptySeq
      <4>3. c.recs[1] \in Recs(c)
        BY <1>2, <4>2 DEF Recs, ToSet
      <4> QED  BY <4>3 DEF IndexedIn
    <3> QED  BY <3>1, <3>2
  <2>2. \E r : r \in ToSet(new)
    BY <1>1, <2>1 DEF Appended
  <2> QED  BY <1>3, <2>2, EmptySeq DEF ToSet
<1>13. Whole(tx)
  <2>1. \A e \in Days : tx.index[e] = NoContainer \/ (tx.index[e].file # 0 /\ tx.index[e].recs # <<>>)
    BY <1>3, <1>6, <1>12 DEF Inv, Whole
  <2>2. \A e, g \in Days : tx.index[e].file = tx.index[g].file /\ tx.index[e].file # 0 => e = g
    BY <1>1, <1>6 DEF Inv, Whole, Appended
  <2>3. \A e \in Days : IndexedIn(tx, e) \subseteq PicsOf(On(tx.shown, e))
    <3>1. \A e \in Days : PicsOf(On(db.shown, e)) \subseteq PicsOf(On(shown, e))
      BY DEF PicsOf, On
    <3>2. \A e \in Days : IndexedIn(db, e) \subseteq PicsOf(On(shown, e))
      BY <3>1 DEF Inv, Whole
    <3> QED  BY <1>6, <1>9, <1>10, <3>2
  <2> QED  BY <2>1, <2>2, <2>3 DEF Whole
<1>14. \A s \in shown : s \in PendingIn(tx) => s \in PendingIn(db) /\ s.pic \notin IndexedIn(tx, s.day)
  BY <1>6, <1>9, <1>10, <1>11 DEF PendingIn
<1>15. \A s \in db.shown : Readable(db, files, originals, s) => Readable(db, files', originals, s)
  <2>1. ASSUME NEW e \in Days, db.index[e].file \in DOMAIN files,
               Len(files[db.index[e].file]) >= Len(db.index[e].recs)
        PROVE  /\ Len(files'[db.index[e].file]) >= Len(db.index[e].recs)
               /\ \A i \in 1..Len(db.index[e].recs) :
                    files'[db.index[e].file][i] = files[db.index[e].file][i]
    <3>1. CASE e # d
      BY <1>1, <2>1, <3>1 DEF Appended
    <3>2. CASE e = d
      <4>1. c # NoContainer
        BY <2>1, <3>2, SnapshotConstants DEF NoContainer, Inv, TypeOK
      <4> QED  BY <1>1, <1>2, <1>3, <3>2, <4>1 DEF Appended
    <3> QED  BY <3>1, <3>2
  <2>2. DOMAIN files \subseteq DOMAIN files'
    BY <1>1 DEF Appended
  <2> QED  BY <2>1, <2>2, FilesSpare
\* What the old index finds in the new files, the new one finds, and the new records too.
<1>16. ASSUME NEW p, p \in IndexedIn(db, d) => Holds(c, files', p)
       PROVE  Holds(nc, files', p)
  <2>1. f \in DOMAIN files' /\ Len(files'[f]) >= Len(new)
    BY <1>1, <1>3 DEF Appended
  <2>2. ASSUME NEW i \in 1..Len(new), new[i].pic = p
        PROVE  files'[f][i] = new[i]
    <3>1. CASE ~(i <= Len(c.recs))
      BY <1>1, <3>1 DEF Appended
    <3>2. CASE i <= Len(c.recs)
      <4>1. i \in 1..Len(c.recs)
        BY <1>2, <1>3, <3>2
      <4>2. new[i] = c.recs[i]
        BY <1>1, <4>1 DEF Appended
      <4>3. p \in IndexedIn(db, d)
        BY <1>2, <2>2, <4>1, <4>2 DEF IndexedIn, Recs, ToSet
      <4>4. c # NoContainer
        BY <1>2, <4>1, EmptySeq DEF NoContainer
      <4>5. c.file = f
        BY <1>1, <4>4 DEF Appended
      <4> QED  BY <1>2, <1>16, <2>2, <4>1, <4>2, <4>3, <4>5 DEF Holds
    <3> QED  BY <3>1, <3>2
  <2> QED  BY <1>3, <2>1, <2>2 DEF Holds
<1> HIDE DEF nc
<1>17. ASSUME NEW s \in db.shown, Readable(db, files', originals, s)
       PROVE  Readable(tx, files', originals, s)
  <2>1. s \in shown /\ s.day \in Days
    BY <1>11
  <2>2. CASE s \in PendingIn(tx)
    BY <1>6, <1>14, <1>17, <2>1, <2>2 DEF Readable
  <2>3. CASE s \notin PendingIn(tx)
    <3>1. s.pic \in IndexedIn(tx, s.day)
      BY <1>6, <2>1, <2>3 DEF PendingIn
    <3>2. CASE s.day # d
      <4>1. s \notin PendingIn(db)
        BY <1>9, <2>1, <3>1, <3>2 DEF PendingIn
      <4> QED  BY <1>6, <1>17, <2>1, <2>3, <3>2, <4>1 DEF Readable
    <3>3. CASE s.day = d
      <4>1. s.pic \in IndexedIn(db, d) => s \notin PendingIn(db)
        BY <3>3 DEF PendingIn
      <4>2. s.pic \in IndexedIn(db, d) => Holds(c, files', s.pic)
        BY <1>17, <3>3, <4>1 DEF Readable
      <4> QED  BY <1>6, <1>16, <2>3, <3>3, <4>2 DEF Readable
    <3> QED  BY <3>2, <3>3
  <2> QED  BY <2>2, <2>3
<1>18. ASSUME "decay" \notin may, NEW s \in shown \ db.shown
       PROVE  Readable(tx, files', originals, s)
  <2>1. s.day = d /\ s.pic \in IndexedIn(tx, d) /\ s \notin PendingIn(tx)
    BY <1>10 DEF PendingIn
  <2>2. ASSUME s.pic \in IndexedIn(db, d)
        PROVE  Holds(c, files', s.pic)
    <3>1. PICK t \in On(db.shown, d) : t.pic = s.pic
      BY <2>2 DEF Inv, Whole, PicsOf
    <3>2. t \in db.shown /\ t.day = d /\ t \notin PendingIn(db)
      BY <2>2, <3>1 DEF On, PendingIn
    <3>3. Readable(db, files', originals, t)
      BY <1>15, <1>18, <3>2 DEF Inv, ReadInv
    <3> QED  BY <3>1, <3>2, <3>3 DEF Readable
  <2>3. Holds(nc, files', s.pic)
    BY <1>16, <2>2
  <2> QED  BY <1>6, <2>1, <2>3 DEF Readable
<1>19. complete => PendingIn(tx) = {}
  <2>1. ASSUME complete
        PROVE  PendingIn(db) = {}
    BY <2>1 DEF Inv, SessionInv
  <2> QED  BY <1>6, <1>14, <2>1 DEF PendingIn
<1>20. settled /\ complete /\ "io" \notin may =>
         DOMAIN files' \subseteq {tx.index[e].file : e \in Days}
  <2>1. ASSUME settled, complete, "io" \notin may
        PROVE  DOMAIN files \subseteq Referenced
    BY <2>1 DEF Inv, CleanInv
  <2>2. ASSUME NEW e \in Days
        PROVE  db.index[e].file \in {tx.index[g].file : g \in Days} \cup {0}
    <3>1. CASE e # d
      BY <1>6, <3>1
    <3>2. CASE e = d
      <4>1. db.index[d].file \in {0, f}
        BY <1>1 DEF Appended, NoContainer
      <4> QED  BY <1>6, <3>2, <4>1 DEF nc
    <3> QED  BY <3>1, <3>2
  <2>3. f \in {tx.index[g].file : g \in Days}
    BY <1>6 DEF nc
  <2>4. 0 \notin DOMAIN files
    BY SnapshotConstants DEF Inv, TypeOK
  <2>5. DOMAIN files' = DOMAIN files \cup {f}
    BY <1>1 DEF Appended
  <2> QED  BY <2>1, <2>2, <2>3, <2>4, <2>5 DEF Referenced
<1>21. /\ f \in DOMAIN files' /\ Len(c.recs) <= Len(files'[f])
       /\ \A e \in Days : db.index[e].file = f => Len(c.recs) # 0 /\ Len(db.index[e].recs) <= Len(c.recs)
  <2>1. f \in DOMAIN files' /\ Len(c.recs) <= Len(files'[f])
    BY <1>1 DEF Appended
  <2>2. ASSUME NEW e \in Days, db.index[e].file = f
        PROVE  e = d
    BY <1>1, <2>2 DEF Appended
  <2>3. ASSUME c.file = f
        PROVE  Len(c.recs) # 0
    <3>1. c # NoContainer
      BY <1>3, <2>3 DEF NoContainer
    <3>2. c.recs # <<>>
      BY <3>1 DEF Inv, Whole
    <3> QED  BY <1>2, <3>2, EmptySeq
  <2> QED  BY <1>2, <2>1, <2>2, <2>3
<1>22. DOMAIN files' \subseteq Files /\ files' \in [DOMAIN files' -> Seq(Rec)]
  BY <1>1, <1>3 DEF Appended, Inv, TypeOK
<1>23. \A e \in Days : j.tx.index[e].file \notin j.remove
  BY <1>7
<1>24. \A s \in PendingIn(j.tx) : s.pic \notin j.removeOld
  BY <1>7
<1>25. j.kind \in {"migrate", "lost"} => ~settled /\ ~complete
  BY <1>7
<1> HIDE DEF c
<1> QED
  <2>1. Whole(j.tx) /\ (complete => PendingIn(j.tx) = {})
    BY <1>7, <1>13, <1>19
  <2>2. \A s \in db.shown \cap j.tx.shown :
          Readable(db, files', originals, s) => Readable(j.tx, files', originals, s)
    BY <1>7, <1>17
  <2>3. "decay" \notin may => \A s \in j.tx.shown \ db.shown : Readable(j.tx, files', originals, s)
    BY <1>6, <1>7, <1>18
  <2>4. \A r \in j.retired : r.pic \in PicsOf(db.shown)
    BY <1>7
  <2>5. /\ j.retired = {}
        /\ settled /\ complete /\ "io" \notin may =>
             DOMAIN files' \subseteq {j.tx.index[e].file : e \in Days}
    BY <1>7, <1>20
  <2>6. j.file # 0 =>
          /\ j.file \in DOMAIN files' /\ j.kept <= Len(files'[j.file])
          /\ \A e \in Days : db.index[e].file = j.file =>
               j.kept # 0 /\ Len(db.index[e].recs) <= j.kept
    BY <1>7, <1>21
  <2> QED
    BY <1>7, <1>8, <1>15, <1>22, <1>23, <1>24, <1>25, <2>1, <2>2, <2>3, <2>4, <2>5, <2>6, BeginKeeps

\* A capture.
LEMMA CaptureKeeps ==
  ASSUME Inv, NEW p \in Pics, NEW d \in Days, Capture(p, d)
  PROVE  Inv' /\ Spares
<1> DEFINE s == [slot |-> next, pic |-> p, day |-> d]
<1>1. /\ pc = "up" /\ next <= MaxSlots /\ next' = next + 1
      /\ AppendRecords("capture", d, {p} \ Indexed(d), db.shown \cup {s})
      /\ UNCHANGED <<faults, db, wal, originals, session, told>>
  BY DEF Capture
<1>2. next \in 1..(MaxSlots + 1) /\ MaxSlots \in Nat
  BY SnapshotConstants DEF Inv, TypeOK
<1>3. s \in Shot /\ next' \in 1..(MaxSlots + 1)
  BY <1>1, <1>2 DEF Shot
<1>4. db.shown \cup {s} \in SUBSET Shot /\ Indexed(d) = IndexedIn(db, d)
  BY <1>3 DEF Inv, TypeOK, Database, Indexed, IndexedIn
<1>5. {p} \ Indexed(d) \in SUBSET Pics
  OBVIOUS
<1>6. {p} \ Indexed(d) \subseteq PicsOf(On(db.shown \cup {s}, d))
  <2>1. s \in On(db.shown \cup {s}, d) /\ s.pic = p
    BY DEF On
  <2> HIDE DEF s
  <2>2. p \in PicsOf(On(db.shown \cup {s}, d))
    BY <2>1 DEF PicsOf
  <2> QED  BY <2>2
<1>7. {p} \ Indexed(d) = {} => db.index[d] # NoContainer
  BY DEF Indexed, Recs, NoContainer, ToSet
<1>8. \A t \in (db.shown \cup {s}) \ db.shown :
        t.day = d /\ t.pic \in IndexedIn(db, d) \cup ({p} \ Indexed(d))
  BY <1>4
<1> DEFINE ps == {p} \ Indexed(d)
<1> DEFINE shown == db.shown \cup {s}
<1>9. /\ ps \in SUBSET Pics /\ shown \in SUBSET Shot /\ db.shown \subseteq shown
      /\ ps \subseteq PicsOf(On(shown, d))
      /\ ps = {} => db.index[d] # NoContainer
      /\ \A t \in shown \ db.shown : t.day = d /\ t.pic \in IndexedIn(db, d) \cup ps
      /\ AppendRecords("capture", d, ps, shown)
  BY <1>1, <1>4, <1>5, <1>6, <1>7, <1>8
<1> HIDE DEF ps, shown
<1> QED  BY <1>1, <1>3, <1>9, AppendKeeps

\* The migration of a day.
LEMMA MigrateKeeps ==
  ASSUME Inv, NEW d \in Days, MigrateDay(d)
  PROVE  Inv' /\ Spares
<1> DEFINE ps == PicsOf(On(Pending, d))
<1>1. /\ pc = "migrate" /\ FirstPending(d)
      /\ AppendRecords("migrate", d, ps, db.shown)
      /\ UNCHANGED <<faults, db, wal, originals, session, next, told>>
  BY DEF MigrateDay
<1>2. ~settled /\ ~complete
  BY <1>1 DEF Inv, SessionInv
<1>3. db.shown \in SUBSET Shot /\ next' \in 1..(MaxSlots + 1)
  BY <1>1 DEF Inv, TypeOK, Database
<1>4. ps \in SUBSET Pics /\ ps \subseteq PicsOf(On(db.shown, d))
  BY <1>3 DEF PicsOf, On, Pending, Shot
<1>5. ps # {}
  BY <1>1 DEF FirstPending, PicsOf
<1> QED  BY <1>1, <1>2, <1>3, <1>4, <1>5, AppendKeeps

\* The rows without those of pictures that no snapshot in rest shows.
LEMMA OrphansAre ==
  ASSUME Inv, NEW rest \in SUBSET db.shown, NEW index \in [Days -> Container]
  PROVE  /\ WithoutOrphans(rest, index) \in Database
         /\ WithoutOrphans(rest, index).shown = rest
         /\ WithoutOrphans(rest, index).old = db.old \cap PicsOf(rest)
         /\ WithoutOrphans(rest, index).index = index
BY DEF WithoutOrphans, Inv, TypeOK, Database

\* A deletion that gives up the container of a day, or none, and originals that no snapshot
\* in rest shows.
LEMMA RemovalKeeps ==
  ASSUME Inv, NEW j \in Job, Begin(j), j.kind \in {"delete", "retain", "lost"},
         j.kind = "lost" => ~settled /\ ~complete,
         j.tx.shown \subseteq db.shown,
         \A s \in j.tx.shown : s.pic \in db.old => s.pic \in j.tx.old,
         \A d \in Days :
           \/ j.tx.index[d] = db.index[d] /\ IndexedIn(db, d) \subseteq PicsOf(On(j.tx.shown, d))
           \/ j.tx.index[d] = NoContainer /\ On(j.tx.shown, d) = {},
         \A d \in Days : j.tx.index[d] # NoContainer => db.index[d].file \notin j.remove,
         0 \notin j.remove,
         \A s \in j.tx.shown : s.pic \notin j.removeOld,
         \A r \in j.retired : \E d \in Days : r \in Recs(db.index[d]),
         j.file = 0,
         UNCHANGED <<faults, stored, session, next, told>>
  PROVE  Inv' /\ Spares
<1> DEFINE tx == j.tx
<1>1. \A s \in db.shown : s.day \in Days
  BY DEF Inv, TypeOK, Database, Shot
<1>2. \A s \in tx.shown : tx.index[s.day] = db.index[s.day]
  BY <1>1 DEF On
<1>3. \A s \in tx.shown : s \in PendingIn(tx) <=> s \in PendingIn(db)
  BY <1>2 DEF PendingIn, IndexedIn
<1>4. Whole(tx)
  <2>1. \A d \in Days : tx.index[d] = NoContainer \/ (tx.index[d].file # 0 /\ tx.index[d].recs # <<>>)
    BY DEF Inv, Whole
  <2>2. \A d, e \in Days : tx.index[d].file = tx.index[e].file /\ tx.index[d].file # 0 => d = e
    BY DEF Inv, Whole, NoContainer
  <2>3. ASSUME NEW d \in Days
        PROVE  IndexedIn(tx, d) \subseteq PicsOf(On(tx.shown, d))
    <3>1. CASE tx.index[d] = db.index[d] /\ IndexedIn(db, d) \subseteq PicsOf(On(tx.shown, d))
      BY <3>1 DEF IndexedIn
    <3>2. CASE tx.index[d] = NoContainer
      BY <3>2 DEF IndexedIn, Recs, NoContainer, ToSet
    <3> QED  BY <3>1, <3>2
  <2> QED  BY <2>1, <2>2, <2>3 DEF Whole
<1>5. \A d \in Days : tx.index[d].file \notin j.remove
  BY DEF NoContainer
<1>6. \A s \in tx.shown : Readable(db, files', originals, s) => Readable(tx, files', originals, s)
  BY <1>2, <1>3 DEF Readable, PendingIn
<1>7. complete => PendingIn(tx) = {}
  BY <1>3 DEF Inv, SessionInv, PendingIn
<1>8. \A r \in j.retired : r.pic \in PicsOf(db.shown)
  <2> SUFFICES ASSUME NEW r \in j.retired
               PROVE  r.pic \in PicsOf(db.shown)
    OBVIOUS
  <2>1. PICK d \in Days : r \in Recs(db.index[d])
    OBVIOUS
  <2>2. r.pic \in IndexedIn(db, d)
    BY <2>1 DEF IndexedIn
  <2> QED  BY <2>2 DEF Inv, Whole, On, PicsOf
<1>9. \A s \in PendingIn(tx) : s.pic \notin j.removeOld
  BY DEF PendingIn
<1>10. /\ files' = files /\ next' \in 1..(MaxSlots + 1)
       /\ DOMAIN files' \subseteq Files /\ files' \in [DOMAIN files' -> Seq(Rec)]
       /\ UNCHANGED <<faults, db, wal, originals, session, told>>
  BY DEF Inv, TypeOK, stored
<1>11. \A s \in tx.shown \ db.shown : FALSE
  OBVIOUS
<1> HIDE DEF tx
<1> QED
  BY <1>4, <1>5, <1>6, <1>7, <1>8, <1>9, <1>10, <1>11, BeginKeeps DEF tx

\* Retention of a day, and the loss of one.
LEMMA CleanDayKeeps ==
  ASSUME Inv, NEW d \in Days, NEW kind \in {"retain", "lost"}, CleanDay(kind, d),
         kind = "lost" => ~settled /\ ~complete
  PROVE  Inv' /\ Spares
<1> DEFINE rest == db.shown \ On(db.shown, d)
<1> DEFINE c == db.index[d]
<1> DEFINE index == [db.index EXCEPT ![d] = NoContainer]
<1> DEFINE tx == WithoutOrphans(rest, index)
<1> DEFINE j == [NoJob EXCEPT !.kind = kind, !.tx = tx, !.retired = Recs(c),
                   !.remove = FileOf(c), !.removeOld = db.old \ PicsOf(rest)]
<1>1. Begin(j) /\ UNCHANGED <<faults, stored, session, next, told>>
  BY DEF CleanDay
<1>2. db \in Database /\ db.index \in [Days -> Container]
  BY DEF Inv, TypeOK, Database
<1>3. index \in [Days -> Container]
  <2>1. NoContainer \in Container
    BY DEF NoContainer, Container
  <2> QED  BY <1>2, <2>1
<1>4. \A e \in Days : index[e] = IF e = d THEN NoContainer ELSE db.index[e]
  BY <1>2
<1> HIDE DEF index
<1>5. tx \in Database /\ tx.shown = rest /\ tx.old = db.old \cap PicsOf(rest) /\ tx.index = index
  BY <1>3, OrphansAre
<1> HIDE DEF tx
<1>6. Recs(c) \subseteq Rec
  BY <1>2 DEF Recs, ToSet, Container
<1>7. FileOf(c) \subseteq Files /\ 0 \notin FileOf(c)
  BY SnapshotConstants DEF FileOf, Inv, TypeOK
<1>8. NoDb \in Database
  BY DEF NoDb, Database, Container, NoContainer
<1>9. j \in Job
  BY <1>2, <1>5, <1>6, <1>7 DEF NoJob, Job, Database
<1>10. /\ j.kind = kind /\ j.tx = tx /\ j.retired = Recs(c) /\ j.remove = FileOf(c)
       /\ j.removeOld = db.old \ PicsOf(rest) /\ j.file = 0
  BY DEF NoJob
<1> HIDE DEF j
<1>11. \A s \in rest : s.pic \in PicsOf(rest)
  BY DEF PicsOf
<1>12. \A s \in tx.shown : s.pic \in db.old => s.pic \in tx.old
  BY <1>5, <1>11
<1>13. ASSUME NEW e \in Days
       PROVE  \/ tx.index[e] = db.index[e] /\ IndexedIn(db, e) \subseteq PicsOf(On(tx.shown, e))
              \/ tx.index[e] = NoContainer /\ On(tx.shown, e) = {}
  <2>1. CASE e = d
    BY <1>4, <1>5, <2>1 DEF On
  <2>2. CASE e # d
    <3>1. On(tx.shown, e) = On(db.shown, e)
      BY <1>5, <2>2 DEF On
    <3> QED  BY <1>4, <1>5, <2>2, <3>1 DEF Inv, Whole
  <2> QED  BY <2>1, <2>2
<1>14. ASSUME NEW e \in Days, tx.index[e] # NoContainer
       PROVE  db.index[e].file \notin FileOf(c)
  <2>1. e # d /\ db.index[e] # NoContainer
    BY <1>4, <1>5, <1>14
  <2> QED  BY <2>1 DEF FileOf, Inv, Whole
<1>15. \A s \in tx.shown : s.pic \notin j.removeOld
  BY <1>5, <1>10, <1>11
<1>16. tx.shown \subseteq db.shown
  BY <1>5
<1> HIDE DEF rest
<1> QED
  BY <1>1, <1>7, <1>9, <1>10, <1>12, <1>13, <1>14, <1>15, <1>16, RemovalKeeps

\* The deletion of a snapshot on a day without a container.
LEMMA DeleteOldKeeps ==
  ASSUME Inv, NEW s \in db.shown, DeleteOld(s)
  PROVE  Inv' /\ Spares
<1> DEFINE rest == db.shown \ {s}
<1> DEFINE orphan == s.pic \notin PicsOf(rest) /\ Copies(s.pic) = {}
<1> DEFINE tx == IF orphan THEN WithoutOrphans(rest, db.index) ELSE [db EXCEPT !.shown = rest]
<1> DEFINE j == [NoJob EXCEPT !.kind = "delete", !.pics = {s.pic}, !.tx = tx,
                   !.removeOld = IF orphan THEN {s.pic} \cap db.old ELSE {}]
<1>1. /\ db.index[s.day] = NoContainer
      /\ Begin(j) /\ UNCHANGED <<faults, stored, session, next, told>>
  BY DEF DeleteOld
<1>2. db \in Database /\ db.index \in [Days -> Container] /\ db.old \subseteq Pics /\ s.pic \in Pics
  BY DEF Inv, TypeOK, Database, Shot
<1>3. /\ tx \in Database /\ tx.shown = rest /\ tx.index = db.index
      /\ \A t \in rest : t.pic \in db.old => t.pic \in tx.old
  <2>1. CASE orphan
    <3>1. tx = WithoutOrphans(rest, db.index)
      BY <2>1
    <3> HIDE DEF tx
    <3>2. tx \in Database /\ tx.shown = rest /\ tx.index = db.index /\ tx.old = db.old \cap PicsOf(rest)
      BY <1>2, <3>1, OrphansAre
    <3>3. \A t \in rest : t.pic \in PicsOf(rest)
      BY DEF PicsOf
    <3> QED  BY <3>2, <3>3
  <2>2. CASE ~orphan
    <3>1. tx = [db EXCEPT !.shown = rest]
      BY <2>2
    <3> HIDE DEF tx
    <3> QED  BY <1>2, <3>1 DEF Database
  <2> QED  BY <2>1, <2>2
<1> HIDE DEF tx
<1>4. j \in Job
  BY <1>2, <1>3 DEF NoJob, Job
<1>5. /\ j.kind = "delete" /\ j.tx = tx /\ j.retired = {} /\ j.remove = {} /\ j.file = 0
      /\ j.removeOld = IF orphan THEN {s.pic} \cap db.old ELSE {}
  BY DEF NoJob
<1> HIDE DEF j
<1>6. ASSUME NEW e \in Days
      PROVE  IndexedIn(db, e) \subseteq PicsOf(On(rest, e))
  <2>1. CASE e = s.day
    BY <1>1, <2>1 DEF IndexedIn, Recs, NoContainer, ToSet
  <2>2. CASE e # s.day
    <3>1. On(rest, e) = On(db.shown, e)
      BY <2>2 DEF On
    <3> QED  BY <3>1 DEF Inv, Whole
  <2> QED  BY <2>1, <2>2
<1>7. \A t \in rest : t.pic \notin j.removeOld
  BY <1>5 DEF PicsOf
<1> QED
  BY <1>1, <1>3, <1>4, <1>5, <1>6, <1>7, RemovalKeeps

\* A deletion from a day: the records that stay are copied to a new file.
LEMMA DeleteFromDayKeeps ==
  ASSUME Inv, NEW d \in Days, NEW shots \in SUBSET On(db.shown, d), DeleteFromDay(d, shots)
  PROVE  Inv' /\ Spares
<1> DEFINE c == db.index[d]
<1> DEFINE rest == db.shown \ shots
<1> DEFINE gone == OnlyShownBy(shots, On(rest, d))
<1> DEFINE stay == {r \in Recs(c) : r.pic \notin gone}
<1> DEFINE left == SetToSeq(stay)
<1> DEFINE f == IF gone = {} \/ left = <<>> THEN 0 ELSE NewFile
<1> DEFINE nc == IF left = <<>> THEN NoContainer ELSE [file |-> f, recs |-> left]
<1> DEFINE index == IF gone = {} THEN db.index ELSE [db.index EXCEPT ![d] = nc]
<1> DEFINE tx == WithoutOrphans(rest, index)
<1> DEFINE j == [NoJob EXCEPT !.kind = "delete", !.file = f, !.pics = PicsOf(shots), !.tx = tx,
                   !.retired = Recs(c) \ Recs(index[d]),
                   !.remove = IF gone = {} THEN {} ELSE {c.file}]
<1>1. /\ pc = "up" /\ c # NoContainer
      /\ gone # {} /\ left # <<>> =>
           FreshFiles # {} /\ \A r \in ToSet(left) : Intact(d, r.pic)
      /\ files' = IF f = 0 THEN files ELSE Put(f, left)
      /\ Begin(j)
      /\ UNCHANGED <<faults, db, wal, originals, session, next, told>>
  BY DEF DeleteFromDay
<1>2. /\ db \in Database /\ db.index \in [Days -> Container]
      /\ c.recs \in Seq(Rec) /\ c.file \in Files \cup {0}
  BY DEF Inv, TypeOK, Database, Container
<1>3. Recs(c) \subseteq Rec /\ IsFiniteSet(Recs(c))
  <2>1. Len(c.recs) \in Nat /\ DOMAIN c.recs = 1..Len(c.recs) /\ c.recs \in [1..Len(c.recs) -> Rec]
    BY <1>2, LenProperties
  <2>2. Recs(c) \subseteq Rec /\ c.recs \in Surjection(1..Len(c.recs), Recs(c))
    BY <2>1 DEF Recs, ToSet, Surjection
  <2>3. IsFiniteSet(1..Len(c.recs))
    BY <2>1, FS_Interval
  <2> QED  BY <2>2, <2>3, FS_Surjection
<1>4. stay \subseteq Recs(c) /\ IsFiniteSet(stay)
  BY <1>3, FS_Subset
<1> HIDE DEF stay
<1>5. left \in Seq(stay) /\ ToSet(left) = stay
  BY <1>4, SetToSeqIs
<1> HIDE DEF left
<1>6. left \in Seq(Rec) /\ Len(left) \in Nat /\ DOMAIN left = 1..Len(left)
  <2>1. stay \subseteq Rec
    BY <1>3, <1>4
  <2>2. left \in Seq(Rec)
    BY <1>5, <2>1, SeqMonotonic
  <2> QED  BY <2>2, LenProperties
<1>7. c.file # 0
  BY <1>1 DEF Inv, Whole
<1>8. f # 0 => /\ f \in Files /\ f \notin DOMAIN files /\ f \notin Referenced
               /\ gone # {} /\ left # <<>>
               /\ \A r \in stay : Holds(c, files, r.pic)
  BY <1>1, <1>5 DEF NewFile, FreshFiles, Intact, Holds
<1>9. f = 0 => gone = {} \/ left = <<>>
  <2>1. ASSUME gone # {}, left # <<>>
        PROVE  f \in Files
    BY <1>1, <2>1 DEF NewFile, FreshFiles
  <2> QED  BY <2>1, SnapshotConstants
<1> HIDE DEF f
<1>10. nc \in Container /\ (gone # {} /\ left # <<>> => f # 0)
  BY <1>6, <1>8, <1>9 DEF Container, NoContainer
<1>11. index \in [Days -> Container] /\ \A e \in Days : index[e] = IF e = d /\ gone # {} THEN nc ELSE db.index[e]
  BY <1>2, <1>10
<1> HIDE DEF index
<1>12. tx \in Database /\ tx.shown = rest /\ tx.old = db.old \cap PicsOf(rest) /\ tx.index = index
  BY <1>11, OrphansAre
<1> HIDE DEF tx
<1>13. j \in Job
  <2>1. PicsOf(shots) \subseteq Pics
    BY <1>2 DEF PicsOf, On, Database, Shot
  <2>2. c.file \in Files /\ f \in Files \cup {0} /\ Recs(c) \ Recs(index[d]) \subseteq Rec
    BY <1>2, <1>3, <1>7, <1>8
  <2> QED  BY <1>12, <2>1, <2>2 DEF NoJob, Job
<1>14. /\ j.kind = "delete" /\ j.tx = tx /\ j.file = f /\ j.kept = 0 /\ j.removeOld = {}
       /\ j.remove = (IF gone = {} THEN {} ELSE {c.file}) /\ j.retired \subseteq Recs(c)
  BY DEF NoJob
<1> HIDE DEF j
<1>15. \A s \in db.shown : s.pic \in Pics /\ s.day \in Days
  BY DEF Inv, TypeOK, Database, Shot
\* The day keeps the records that the remaining snapshots of the day show, and only those.
<1>16. \A r \in Recs(c) : r.pic \notin gone <=> r.pic \in PicsOf(On(rest, d))
  <2>1. \A r \in Recs(c) : r.pic \in PicsOf(On(db.shown, d))
    BY DEF Inv, Whole, IndexedIn
  <2>2. PicsOf(On(db.shown, d)) \subseteq PicsOf(shots) \cup PicsOf(On(rest, d))
    BY DEF PicsOf, On
  <2> QED  BY <2>1, <2>2 DEF OnlyShownBy
<1>17. IndexedIn(tx, d) = IndexedIn(db, d) \cap PicsOf(On(rest, d))
  <2>1. CASE gone = {}
    BY <1>11, <1>12, <1>16, <2>1 DEF IndexedIn
  <2>2. CASE gone # {}
    <3>1. Recs(tx.index[d]) = stay
      <4>1. tx.index[d] = nc /\ Recs(nc) = ToSet(left)
        BY <1>11, <1>12, <2>2 DEF Recs, NoContainer
      <4> QED  BY <1>5, <4>1
    <3> QED  BY <1>16, <3>1 DEF IndexedIn, stay
  <2> QED  BY <2>1, <2>2
<1>18. \A e \in Days \ {d} : tx.index[e] = db.index[e] /\ IndexedIn(tx, e) = IndexedIn(db, e)
  BY <1>11, <1>12 DEF IndexedIn
<1>19. \A e \in Days \ {d} : On(rest, e) = On(db.shown, e)
  BY DEF On
<1>20. Whole(tx)
  <2>1. \A e \in Days : tx.index[e] = NoContainer \/ (tx.index[e].file # 0 /\ tx.index[e].recs # <<>>)
    <3>1. gone # {} => nc = NoContainer \/ (nc.file # 0 /\ nc.recs # <<>>)
      BY <1>10
    <3> HIDE DEF nc
    <3> QED  BY <1>11, <1>12, <3>1 DEF Inv, Whole
  <2>2. ASSUME NEW e \in Days, NEW g \in Days, tx.index[e].file = tx.index[g].file, tx.index[e].file # 0
        PROVE  e = g
    <3>1. \A h \in Days \ {d} : tx.index[h].file = db.index[h].file
      BY <1>18
    <3>2. tx.index[d].file \in {0, f, c.file}
      BY <1>11, <1>12 DEF NoContainer
    <3>3. f # 0 => \A h \in Days : db.index[h].file # f
      BY <1>8 DEF Referenced
    <3> QED  BY <2>2, <3>1, <3>2, <3>3 DEF Inv, Whole
  <2>3. \A e \in Days : IndexedIn(tx, e) \subseteq PicsOf(On(tx.shown, e))
    BY <1>12, <1>17, <1>18, <1>19 DEF Inv, Whole
  <2> QED  BY <2>1, <2>2, <2>3 DEF Whole
<1>21. \A s \in rest : s \in PendingIn(tx) <=> s \in PendingIn(db)
  <2>1. \A s \in rest : s.day = d => s.pic \in PicsOf(On(rest, d))
    BY DEF PicsOf, On
  <2> QED  BY <1>12, <1>15, <1>17, <1>18, <2>1 DEF PendingIn
<1>22. /\ DOMAIN files' \subseteq Files /\ files' \in [DOMAIN files' -> Seq(Rec)]
       /\ DOMAIN files \subseteq DOMAIN files'
       /\ \A g \in DOMAIN files : files'[g] = files[g]
       /\ f # 0 => f \in DOMAIN files' /\ files'[f] = left
  BY <1>1, <1>6, <1>8 DEF Put, Inv, TypeOK
<1>23. \A s \in db.shown : Readable(db, files, originals, s) => Readable(db, files', originals, s)
  BY <1>22, FilesSpare
<1>24. ASSUME NEW s \in rest, Readable(db, files', originals, s)
       PROVE  Readable(tx, files', originals, s)
  <2>1. CASE s \in PendingIn(db)
    <3>1. s.pic \in PicsOf(rest)
      BY DEF PicsOf
    <3> QED  BY <1>12, <1>21, <1>24, <2>1, <3>1 DEF Readable
  <2>2. CASE s \notin PendingIn(db)
    <3>1. Holds(db.index[s.day], files', s.pic) /\ s \notin PendingIn(tx)
      BY <1>21, <1>24, <2>2 DEF Readable
    <3>2. CASE s.day # d \/ gone = {}
      BY <1>11, <1>12, <1>15, <3>1, <3>2 DEF Readable
    <3>3. CASE s.day = d /\ gone # {}
      <4>1. tx.index[s.day] = nc /\ s.pic \in IndexedIn(tx, d)
        BY <1>11, <1>12, <3>1, <3>3 DEF PendingIn
      <4>2. left # <<>> /\ f # 0
        <5>1. left # <<>>
          BY <4>1, <3>3 DEF IndexedIn, Recs, NoContainer, ToSet
        <5> QED  BY <1>10, <3>3, <5>1
      <4>3. Holds(nc, files', s.pic)
        BY <1>22, <4>2, <1>6 DEF Holds
      <4> QED  BY <3>1, <4>1, <4>3 DEF Readable
    <3> QED  BY <3>2, <3>3
  <2> QED  BY <2>1, <2>2
<1>25. \A e \in Days : tx.index[e].file \notin j.remove
  <2>1. \A e \in Days \ {d} : tx.index[e].file # c.file
    BY <1>7, <1>18 DEF Inv, Whole
  <2>2. gone # {} => tx.index[d].file # c.file
    BY <1>7, <1>8, <1>11, <1>12 DEF NoContainer, Referenced
  <2> QED  BY <1>14, <2>1, <2>2
<1>26. complete => PendingIn(tx) = {}
  BY <1>12, <1>21 DEF Inv, SessionInv, PendingIn
<1>27. \A r \in j.retired : r.pic \in PicsOf(db.shown)
  <2>1. IndexedIn(db, d) \subseteq PicsOf(db.shown)
    BY DEF Inv, Whole, On, PicsOf
  <2> QED  BY <1>14, <2>1 DEF IndexedIn
<1>28. j.file # 0 =>
         /\ j.file \in DOMAIN files' /\ j.kept <= Len(files'[j.file])
         /\ \A e \in Days : db.index[e].file = j.file =>
              j.kept # 0 /\ Len(db.index[e].recs) <= j.kept
  BY <1>6, <1>8, <1>14, <1>22 DEF Referenced
<1>29. next' \in 1..(MaxSlots + 1)
  BY <1>1 DEF Inv, TypeOK
<1>30. \A s \in db.shown \cap tx.shown :
         Readable(db, files', originals, s) => Readable(tx, files', originals, s)
  BY <1>12, <1>24
<1>31. tx.shown \ db.shown = {}
  BY <1>12
<1> HIDE DEF rest, gone, nc, c
<1> QED
  BY <1>1, <1>13, <1>14, <1>20, <1>22, <1>23, <1>25, <1>26, <1>27, <1>28, <1>29, <1>30, <1>31, BeginKeeps

\* The file of a day is gone.
LEMMA LoseContainerKeeps ==
  ASSUME Inv, NEW d \in Days, LoseContainer(d)
  PROVE  Inv' /\ Spares
<1>1. pc = "reconcile" /\ d \in Lost
  BY DEF LoseContainer
<1>2. ~settled /\ ~complete
  BY <1>1 DEF Inv, SessionInv
<1>3. CASE CleanDay("lost", d)
  BY <1>2, <1>3, CleanDayKeeps
<1>4. CASE /\ db' = [db EXCEPT !.index[d] = NoContainer]
           /\ wal' = wal \cup Recs(db.index[d])
           /\ UNCHANGED <<faults, pc, job, files, originals, session, next, told>>
  BY <1>1, <1>4, ForgetContainerKeeps
<1> QED  BY <1>3, <1>4 DEF LoseContainer

\* Retention of a day.
LEMMA RetainDayKeeps ==
  ASSUME Inv, NEW d \in Days, RetainDay(d)
  PROVE  Inv' /\ Spares
BY CleanDayKeeps DEF RetainDay

-----------------------------------------------------------------------------
(* Write and sync, commit, clean up.                                       *)

\* NoJob is a job.
LEMMA NoJobIs == NoJob \in Job
<1>1. NoDb \in Database
  BY DEF NoDb, Database, Container, NoContainer
<1> QED  BY <1>1 DEF NoJob, Job

\* The file is synced.
LEMMA SyncFileKeeps ==
  ASSUME Inv, SyncFile
  PROVE  Inv' /\ Spares
<1>1. /\ pc = "write" /\ pc' = "commit"
      /\ UNCHANGED <<faults, job, stored, session, next, told>>
  BY DEF SyncFile
<1>2. TypeOK'
  BY <1>1 DEF Inv, TypeOK, faults, stored, session
<1>3. Whole(db)' /\ ReadInv' /\ ToldInv'
  BY <1>1 DEF Inv, Whole, IndexedIn, Recs, On, ReadInv, ToldInv, faults, stored, session
<1>4. JobKeeps'
  BY <1>1 DEF Inv, JobInv, JobKeeps, session
<1>5. JobReads'
  BY <1>1 DEF Inv, JobInv, JobReads, Deleting, faults, stored, session
<1>6. JobInv' /\ SessionInv' /\ CleanInv'
  BY <1>1, <1>4, <1>5 DEF Inv, JobInv, SessionInv, CleanInv, stored, session, faults
<1> QED  BY <1>1, <1>2, <1>3, <1>6, QuietSpares DEF Inv

\* The records that a write has added are lost, all or some of them.
LEMMA UnwrittenKeeps ==
  ASSUME Inv, pc = "write",
         \/ files' = files
         \/ job.kept = 0 /\ files' = Removed({job.file})
         \/ \E recs \in Seq(Rec) :
              /\ Len(recs) >= job.kept
              /\ \A i \in 1..job.kept : recs[i] = files[job.file][i]
              /\ files' = Put(job.file, recs)
  PROVE  /\ DOMAIN files' \subseteq Files /\ files' \in [DOMAIN files' -> Seq(Rec)]
         /\ \A s \in db.shown : Readable(db, files, originals, s) => Readable(db, files', originals, s)
<1>1. /\ job.file \in DOMAIN files
      /\ \A d \in Days : db.index[d].file = job.file =>
           job.kept # 0 /\ Len(db.index[d].recs) <= job.kept
  BY DEF Inv, JobInv, JobWrites
<1>2. files \in [DOMAIN files -> Seq(Rec)] /\ DOMAIN files \subseteq Files /\ job.kept \in Nat
  BY DEF Inv, TypeOK, Job
<1>3. CASE files' = files
  BY <1>2, <1>3
<1>4. CASE job.kept = 0 /\ files' = Removed({job.file})
  <2>1. /\ DOMAIN files' = DOMAIN files \ {job.file}
        /\ \A f \in DOMAIN files' : files'[f] = files[f]
        /\ files' \in [DOMAIN files' -> Seq(Rec)]
    BY <1>2, <1>4 DEF Removed
  <2>2. \A d \in Days : db.index[d].file # job.file
    BY <1>1, <1>4
  <2>3. \A d \in Days : db.index[d].file \in DOMAIN files =>
          db.index[d].file \in DOMAIN files' /\ files'[db.index[d].file] = files[db.index[d].file]
    BY <2>1, <2>2
  <2>4. \A s \in db.shown : Readable(db, files, originals, s) => Readable(db, files', originals, s)
    BY <2>3, FilesSpare
  <2> QED  BY <1>2, <2>1, <2>4
<1>5. CASE \E recs \in Seq(Rec) :
             /\ Len(recs) >= job.kept
             /\ \A i \in 1..job.kept : recs[i] = files[job.file][i]
             /\ files' = Put(job.file, recs)
  <2>1. PICK recs \in Seq(Rec) :
          /\ Len(recs) >= job.kept
          /\ \A i \in 1..job.kept : recs[i] = files[job.file][i]
          /\ files' = Put(job.file, recs)
    BY <1>5
  <2>2. /\ DOMAIN files' = DOMAIN files
        /\ files'[job.file] = recs
        /\ \A f \in DOMAIN files \ {job.file} : files'[f] = files[f]
        /\ files' \in [DOMAIN files' -> Seq(Rec)]
    BY <1>1, <1>2, <2>1 DEF Put
  <2>3. \A d \in Days : Len(db.index[d].recs) \in Nat
    BY LenProperties DEF Inv, TypeOK, Database, Container
  <2>4. Len(recs) \in Nat
    BY <2>1, LenProperties
  <2>5. ASSUME NEW d \in Days, db.index[d].file \in DOMAIN files,
               Len(files[db.index[d].file]) >= Len(db.index[d].recs)
        PROVE  /\ db.index[d].file \in DOMAIN files'
               /\ Len(files'[db.index[d].file]) >= Len(db.index[d].recs)
               /\ \A i \in 1..Len(db.index[d].recs) :
                    files'[db.index[d].file][i] = files[db.index[d].file][i]
    <3>1. CASE db.index[d].file # job.file
      BY <2>2, <2>5, <3>1
    <3>2. CASE db.index[d].file = job.file
      <4>1. Len(db.index[d].recs) <= job.kept
        BY <1>1, <3>2
      <4>2. \A i \in 1..Len(db.index[d].recs) : i \in 1..job.kept
        BY <1>2, <2>3, <4>1
      <4>3. Len(recs) >= Len(db.index[d].recs)
        BY <1>2, <2>1, <2>3, <2>4, <4>1
      <4> QED  BY <2>1, <2>2, <2>5, <3>2, <4>2, <4>3
    <3> QED  BY <3>1, <3>2
  <2>6. \A s \in db.shown : Readable(db, files, originals, s) => Readable(db, files', originals, s)
    BY <2>2, <2>5, FilesSpare
  <2> QED  BY <1>2, <2>2, <2>6
<1> QED  BY <1>3, <1>4, <1>5

\* A write fails and is undone, or not.
LEMMA WriteFailsKeeps ==
  ASSUME Inv, WriteFails
  PROVE  Inv' /\ Spares
<1>1. /\ pc = "write" /\ pc' = "up" /\ job' = NoJob
      /\ "io" \in may /\ may' = may /\ errors' \in 0..MaxErrors
      /\ files' \in {files, IF job.kept = 0 THEN Removed({job.file})
                            ELSE Put(job.file, SubSeq(files[job.file], 1, job.kept))}
      /\ UNCHANGED <<db, wal, originals, session, next, told>>
  BY SnapshotConstants DEF WriteFails, FileError, Inv, TypeOK
<1>2. /\ files[job.file] \in Seq(Rec) /\ job.kept \in Nat /\ job.kept <= Len(files[job.file])
  BY <1>1 DEF Inv, TypeOK, Job, JobInv, JobWrites
<1>3. /\ SubSeq(files[job.file], 1, job.kept) \in Seq(Rec)
      /\ Len(SubSeq(files[job.file], 1, job.kept)) = job.kept
      /\ \A i \in 1..job.kept : SubSeq(files[job.file], 1, job.kept)[i] = files[job.file][i]
  BY <1>2, FirstsOf
<1>4. \/ files' = files
      \/ job.kept = 0 /\ files' = Removed({job.file})
      \/ \E recs \in Seq(Rec) :
           /\ Len(recs) >= job.kept
           /\ \A i \in 1..job.kept : recs[i] = files[job.file][i]
           /\ files' = Put(job.file, recs)
  <2> DEFINE recs == SubSeq(files[job.file], 1, job.kept)
  <2>1. recs \in Seq(Rec) /\ Len(recs) >= job.kept /\ \A i \in 1..job.kept : recs[i] = files[job.file][i]
    BY <1>2, <1>3
  <2>2. files' \in {files, IF job.kept = 0 THEN Removed({job.file}) ELSE Put(job.file, recs)}
    BY <1>1
  <2> HIDE DEF recs
  <2> QED  BY <2>1, <2>2
<1>5. /\ DOMAIN files' \subseteq Files /\ files' \in [DOMAIN files' -> Seq(Rec)]
      /\ \A s \in db.shown : Readable(db, files, originals, s) => Readable(db, files', originals, s)
  BY <1>1, <1>4, UnwrittenKeeps
<1>6. TypeOK'
  BY <1>1, <1>5, NoJobIs DEF Inv, TypeOK, session
<1>7. Whole(db)' /\ JobInv'
  BY <1>1 DEF Inv, Whole, IndexedIn, Recs, On, JobInv
<1>8. SessionInv' /\ ToldInv' /\ CleanInv'
  BY <1>1 DEF Inv, SessionInv, ToldInv, CleanInv, session
<1>9. ReadInv' /\ Spares
  BY <1>1, <1>5 DEF Inv, ReadInv, Spares
<1> QED  BY <1>6, <1>7, <1>8, <1>9 DEF Inv

\* A crash, in a write or elsewhere.
LEMMA CrashKeeps ==
  ASSUME Inv, Crash
  PROVE  Inv' /\ Spares
<1>1. /\ pc' = "down" /\ job' = NoJob /\ settled' = FALSE /\ complete' = FALSE
      /\ UNCHANGED <<faults, db, wal, originals, next, told>>
      /\ pc = "write" => \E recs \in Torn(files[job.file], job.kept) : files' = Put(job.file, recs)
      /\ pc # "write" => files' = files
  BY DEF Crash
<1>2. ASSUME pc = "write"
      PROVE  /\ DOMAIN files' \subseteq Files /\ files' \in [DOMAIN files' -> Seq(Rec)]
             /\ \A s \in db.shown :
                  Readable(db, files, originals, s) => Readable(db, files', originals, s)
  <2>1. /\ files[job.file] \in Seq(Rec) /\ job.kept \in Nat /\ job.kept <= Len(files[job.file])
    BY <1>2 DEF Inv, TypeOK, Job, JobInv, JobWrites
  <2> DEFINE old == files[job.file]
  <2>2. Len(old) \in Nat /\ DOMAIN old = 1..Len(old)
    BY <2>1, LenProperties
  <2>3. PICK recs \in Torn(old, job.kept) : files' = Put(job.file, recs)
    BY <1>1, <1>2
  <2>4. /\ recs \in Seq(Rec) /\ Len(recs) >= job.kept
        /\ \A i \in 1..job.kept : recs[i] = old[i]
    <3>1. CASE recs = old
      BY <2>1, <2>2, <3>1
    <3>2. ASSUME NEW k \in job.kept..(Len(old) - 1),
                 recs \in {SubSeq(old, 1, k), SubSeq(old, 1, k) \o <<Rotten(old[k + 1])>>}
          PROVE  <2>4
      <4>1. k \in Nat /\ k <= Len(old) /\ k >= job.kept /\ k + 1 \in 1..Len(old)
        BY <2>1, <2>2
      <4>2. /\ SubSeq(old, 1, k) \in Seq(Rec) /\ Len(SubSeq(old, 1, k)) = k
            /\ \A i \in 1..k : SubSeq(old, 1, k)[i] = old[i]
        BY <2>1, <4>1, FirstsOf
      <4>3. \A i \in 1..job.kept : i \in 1..k /\ i <= k /\ i \in 1..(k + 1)
        BY <2>1, <4>1
      <4>4. CASE recs = SubSeq(old, 1, k)
        BY <4>1, <4>2, <4>3, <4>4
      <4>5. CASE recs = SubSeq(old, 1, k) \o <<Rotten(old[k + 1])>>
        <5> DEFINE rot == Rotten(old[k + 1])
        <5>1. rot \in Rec
          <6>1. old[k + 1] \in Rec
            BY <2>1, <4>1, ElementOfSeq
          <6>2. 0 \in Key
            BY ZeroIsAKey
          <6> QED  BY <6>1, <6>2 DEF Rec, Rotten
        <5> HIDE DEF rot
        <5>2. <<rot>> \in Seq(Rec) /\ Len(<<rot>>) = 1
          BY <5>1
        <5>3. /\ SubSeq(old, 1, k) \o <<rot>> \in Seq(Rec)
              /\ Len(SubSeq(old, 1, k) \o <<rot>>) = Len(SubSeq(old, 1, k)) + Len(<<rot>>)
              /\ \A i \in 1..(Len(SubSeq(old, 1, k)) + Len(<<rot>>)) :
                   (SubSeq(old, 1, k) \o <<rot>>)[i] =
                     IF i <= Len(SubSeq(old, 1, k)) THEN SubSeq(old, 1, k)[i]
                     ELSE <<rot>>[i - Len(SubSeq(old, 1, k))]
          BY <4>2, <5>2, ConcatProperties
        <5>4. recs = SubSeq(old, 1, k) \o <<rot>>
          BY <4>5 DEF rot
        <5>5. /\ recs \in Seq(Rec) /\ Len(recs) = k + 1
              /\ \A i \in 1..(k + 1) : i <= k => recs[i] = SubSeq(old, 1, k)[i]
          BY <4>2, <5>2, <5>3, <5>4
        <5> QED  BY <2>1, <4>1, <4>2, <4>3, <5>5
      <4> QED  BY <3>2, <4>4, <4>5
    <3>3. recs = old \/ \E k \in job.kept..(Len(old) - 1) :
            recs \in {SubSeq(old, 1, k), SubSeq(old, 1, k) \o <<Rotten(old[k + 1])>>}
      BY <2>3 DEF Torn
    <3> QED  BY <3>1, <3>2, <3>3
  <2> QED  BY <1>2, <2>3, <2>4, UnwrittenKeeps
<1>3. /\ DOMAIN files' \subseteq Files /\ files' \in [DOMAIN files' -> Seq(Rec)]
      /\ \A s \in db.shown : Readable(db, files, originals, s) => Readable(db, files', originals, s)
  <2>1. CASE pc = "write"
    BY <1>2, <2>1
  <2>2. CASE pc # "write"
    BY <1>1, <2>2 DEF Inv, TypeOK
  <2> QED  BY <2>1, <2>2
<1>4. TypeOK'
  BY <1>1, <1>3, NoJobIs DEF Inv, TypeOK, faults
<1>5. Whole(db)'
  BY <1>1 DEF Inv, Whole, IndexedIn, Recs, On
<1>6. JobInv' /\ SessionInv' /\ ToldInv' /\ CleanInv'
  BY <1>1 DEF Inv, JobInv, SessionInv, ToldInv, CleanInv
<1>7. ReadInv' /\ Spares
  BY <1>1, <1>3 DEF Inv, ReadInv, Spares, faults
<1> QED  BY <1>4, <1>5, <1>6, <1>7 DEF Inv

\* What a commit makes of the database.
LEMMA CommittedIs ==
  ASSUME Inv, pc = "commit", Committed, UNCHANGED <<files, originals, may>>
  PROVE  /\ db' \in Database /\ Whole(db)' /\ db' = job.tx
         /\ wal' \subseteq Rec /\ told' \subseteq Pics
         /\ told' \cap PicsOf(db'.shown) = {}
         /\ \A r \in wal' : r.pic \notin told'
         /\ told' \subseteq told
         /\ complete => PendingIn(db') = {}
         /\ ReadInv' /\ Spares
<1>1. /\ db' = job.tx /\ wal' = wal \cup job.retired /\ told' = told \ PicsOf(job.tx.shown)
  BY DEF Committed
<1>2. JobKeeps /\ JobReads /\ job \in Job
  BY DEF Inv, JobInv, TypeOK
<1>3. db' \in Database /\ wal' \subseteq Rec /\ told' \subseteq Pics
  BY <1>1, <1>2 DEF Inv, TypeOK, Job
<1>4. Whole(db)'
  BY <1>1, <1>2 DEF JobKeeps, Whole, IndexedIn, Recs, On
<1>5. \A r \in wal' : r.pic \notin told'
  BY <1>1, <1>2 DEF JobReads, Inv, ToldInv
<1>6. complete => PendingIn(db') = {}
  BY <1>1, <1>2 DEF JobKeeps
<1>7. ReadInv' /\ Spares
  BY <1>1, <1>2 DEF JobReads, ReadInv, Spares
<1> QED  BY <1>1, <1>3, <1>4, <1>5, <1>6, <1>7

\* The commit.
LEMMA CommitKeeps ==
  ASSUME Inv, Commit
  PROVE  Inv' /\ Spares
<1>1. /\ pc = "commit" /\ Committed /\ settled' = (settled /\ ~Deleting)
      /\ IF Deleting THEN pc' = "cleanup" /\ job' = job
         ELSE pc' = Then(job.kind) /\ job' = NoJob
      /\ UNCHANGED <<faults, files, originals, complete, next>>
  BY DEF Commit, SettledAfter
<1>2. JobKeeps /\ JobReads /\ job \in Job
  BY <1>1 DEF Inv, JobInv, TypeOK
<1>3. /\ db' \in Database /\ Whole(db)' /\ db' = job.tx
      /\ wal' \subseteq Rec /\ told' \subseteq Pics
      /\ told' \cap PicsOf(db'.shown) = {}
      /\ \A r \in wal' : r.pic \notin told'
      /\ told' \subseteq told
      /\ complete => PendingIn(db') = {}
      /\ ReadInv' /\ Spares
  BY <1>1, CommittedIs DEF faults
<1>4. Then(job.kind) \in {"migrate", "reconcile", "retain", "up"}
  BY DEF Then
<1>5. TypeOK'
  BY <1>1, <1>2, <1>3, <1>4, NoJobIs DEF Inv, TypeOK, faults
<1>6. CASE Deleting
  <2>1. pc' = "cleanup" /\ job' = job /\ settled' = FALSE
    BY <1>1, <1>6
  <2>2. JobKeeps'
    BY <1>1, <1>2, <2>1 DEF JobKeeps
  <2>3. JobInv'
    BY <1>3, <1>6, <2>1, <2>2 DEF JobInv, Deleting
  <2>4. SessionInv' /\ CleanInv' /\ ToldInv'
    BY <1>1, <1>3, <2>1 DEF SessionInv, CleanInv, ToldInv
  <2> QED  BY <1>3, <1>5, <2>3, <2>4 DEF Inv
<1>7. CASE ~Deleting
  <2>1. /\ pc' = Then(job.kind) /\ settled' = settled /\ wal' = wal
        /\ pc' \in {"migrate", "up"}
        /\ pc' = "migrate" => ~settled /\ ~complete
    <3>1. job.kind \in {"none", "capture", "migrate"}
      BY <1>2, <1>7 DEF Job, Deleting
    <3> QED  BY <1>1, <1>2, <1>7, <3>1 DEF Then, JobKeeps, JobReads, Inv, TypeOK, Committed
  <2>2. JobInv' /\ SessionInv'
    BY <1>1, <1>3, <2>1 DEF JobInv, SessionInv
  <2>3. ToldInv'
    BY <1>1, <1>3, <2>1 DEF Inv, ToldInv
  <2>4. Referenced' = {job.tx.index[d].file : d \in Days}
    BY <1>3 DEF Referenced
  <2>5. CleanInv'
    BY <1>1, <1>2, <1>7, <2>1, <2>4 DEF Inv, CleanInv, JobReads, faults
  <2> QED  BY <1>3, <1>5, <2>2, <2>3, <2>5 DEF Inv
<1> QED  BY <1>6, <1>7

\* A commit fails and may have taken place.
LEMMA CommitFailsKeeps ==
  ASSUME Inv, CommitFails
  PROVE  Inv' /\ Spares
<1>1. /\ pc = "commit" /\ pc' = "up" /\ job' = NoJob
      /\ "io" \in may /\ may' = may /\ errors' \in 0..MaxErrors
      /\ Committed \/ UNCHANGED <<db, wal, told>>
      /\ UNCHANGED <<files, originals, session, next>>
  BY SnapshotConstants DEF CommitFails, FileError, Inv, TypeOK
<1>2. /\ db' \in Database /\ Whole(db)'
      /\ wal' \subseteq Rec /\ told' \subseteq Pics
      /\ told' \cap PicsOf(db'.shown) = {}
      /\ \A r \in wal' : r.pic \notin told'
      /\ told' \subseteq told
      /\ complete => PendingIn(db') = {}
      /\ ReadInv' /\ Spares
  <2>1. CASE Committed
    BY <1>1, <2>1, CommittedIs
  <2>2. CASE UNCHANGED <<db, wal, told>>
    <3>1. db' \in Database /\ wal' \subseteq Rec /\ told' \subseteq Pics
      BY <2>2 DEF Inv, TypeOK
    <3>2. Whole(db)'
      BY <2>2 DEF Inv, Whole, IndexedIn, Recs, On
    <3>3. /\ told' \cap PicsOf(db'.shown) = {} /\ \A r \in wal' : r.pic \notin told'
          /\ told' \subseteq told
          /\ complete => PendingIn(db') = {}
      BY <2>2 DEF Inv, ToldInv, SessionInv
    <3>4. ReadInv' /\ Spares
      BY <1>1, <2>2 DEF Inv, ReadInv, Spares
    <3> QED  BY <2>2, <3>1, <3>2, <3>3, <3>4
  <2> QED  BY <1>1, <2>1, <2>2
<1>3. TypeOK'
  BY <1>1, <1>2, NoJobIs DEF Inv, TypeOK, session
<1>4. JobInv' /\ SessionInv' /\ CleanInv'
  BY <1>1, <1>2 DEF JobInv, SessionInv, CleanInv, session
<1>5. ToldInv'
  BY <1>1, <1>2 DEF Inv, ToldInv, session
<1> QED  BY <1>2, <1>3, <1>4, <1>5 DEF Inv

\* What a deletion made needless goes, all of it or as far as it gets.
LEMMA CleanUpKeeps ==
  ASSUME Inv, CleanUp \/ CleanUpFails
  PROVE  Inv' /\ Spares
<1>1. /\ pc = "cleanup" /\ pc' = Then(job.kind) /\ job' = NoJob
      /\ may' = may /\ errors' \in 0..MaxErrors
      /\ wal' \in {wal, {}}
      /\ UNCHANGED <<db, session, next>>
      /\ told' = told \/ (wal' = {} /\ told' = told \cup (job.pics \ PicsOf(db.shown)))
  <2>1. CASE CleanUp
    BY <2>1 DEF CleanUp, CleanUpLeaving, faults, Inv, TypeOK
  <2>2. CASE CleanUpFails
    <3>1. may' = may /\ errors' \in 0..MaxErrors
      BY <2>2, SnapshotConstants DEF CleanUpFails, FileError, faults, Inv, TypeOK
    <3> QED  BY <2>2, <3>1 DEF CleanUpFails
  <2> QED  BY <2>1, <2>2
<1>2. job.tx = db /\ JobKeeps /\ Deleting /\ ~settled /\ job \in Job
  BY <1>1 DEF Inv, JobInv, TypeOK
<1>3. job.remove \subseteq Nat /\ job.removeOld \subseteq Pics
  BY <1>2, SnapshotConstants DEF Job
<1>4. \E fs \in SUBSET job.remove, ps \in SUBSET job.removeOld :
        files' = Removed(fs) /\ RemoveOriginals(ps)
  <2>1. files = Removed({}) /\ (UNCHANGED originals => RemoveOriginals({}))
    BY DEF Removed, RemoveOriginals, Inv, TypeOK
  <2>2. CASE CleanUp
    BY <2>2 DEF CleanUp, CleanUpLeaving
  <2>3. CASE CleanUpFails
    BY <2>1, <2>3 DEF CleanUpFails
  <2> QED  BY <2>2, <2>3
<1>5. PICK fs \in SUBSET job.remove, ps \in SUBSET job.removeOld :
        files' = Removed(fs) /\ RemoveOriginals(ps)
  BY <1>4
<1>6. /\ \A d \in Days : db.index[d].file \notin fs
      /\ \A s \in PendingIn(db) : s.pic \notin ps
  BY <1>2 DEF JobKeeps
<1>7. fs \in SUBSET Nat /\ ps \in SUBSET Pics
  BY <1>3
<1>8. /\ Spares
      /\ originals' \in [Pics -> {"intact", "rotten", "absent"}]
      /\ DOMAIN files' \subseteq Files /\ files' \in [DOMAIN files' -> Seq(Rec)]
  BY <1>1, <1>5, <1>6, <1>7, GoneSpares
<1>9. /\ pc' \in {"reconcile", "retain", "up"}
      /\ pc' = "reconcile" => ~complete
  BY <1>1, <1>2 DEF Then, Deleting, JobKeeps
<1>10. told' \subseteq Pics
  BY <1>1, <1>2 DEF Inv, TypeOK, Job
<1>11. TypeOK'
  BY <1>1, <1>8, <1>9, <1>10, NoJobIs DEF Inv, TypeOK, session
<1>12. Whole(db)' /\ JobInv'
  BY <1>1, <1>9 DEF Inv, Whole, IndexedIn, Recs, On, JobInv
<1>13. SessionInv' /\ CleanInv'
  BY <1>1, <1>2, <1>9 DEF Inv, SessionInv, CleanInv, session
<1>14. ToldInv'
  BY <1>1, <1>2 DEF Inv, ToldInv, session
<1>15. ReadInv'
  BY <1>1, <1>8 DEF Inv, ReadInv, Spares
<1> QED  BY <1>8, <1>11, <1>12, <1>13, <1>14, <1>15 DEF Inv

-----------------------------------------------------------------------------
(* The theorems.                                                           *)

\* The storage of the older version satisfies the invariant.
LEMMA InitInv ==
  ASSUME Init
  PROVE  Inv
<1>0. PICK n \in 0..Old : \E shot \in [1..n -> [pic : Pics, day : Days]] :
        /\ db = OldDb({[slot |-> i, pic |-> shot[i].pic, day |-> shot[i].day] : i \in 1..n})
        /\ next = n + 1
  BY DEF Init
<1>1. PICK shot \in [1..n -> [pic : Pics, day : Days]] :
        /\ db = OldDb({[slot |-> i, pic |-> shot[i].pic, day |-> shot[i].day] : i \in 1..n})
        /\ next = n + 1
  BY <1>0
<1> DEFINE shots == {[slot |-> i, pic |-> shot[i].pic, day |-> shot[i].day] : i \in 1..n}
<1>2. /\ may \in FaultSets /\ errors = 0 /\ pc = "down" /\ job = NoJob
      /\ wal = {} /\ files = [f \in {} |-> <<>>]
      /\ originals = [p \in Pics |-> IF p \in db.old THEN "intact" ELSE "absent"]
      /\ settled = FALSE /\ complete = FALSE /\ told = {}
  BY DEF Init
<1>3. n \in Nat /\ n <= MaxSlots /\ MaxSlots \in Nat /\ MaxErrors \in Nat
  BY SnapshotConstants
<1>4. shots \subseteq Shot
  <2>1. ASSUME NEW i \in 1..n
        PROVE  [slot |-> i, pic |-> shot[i].pic, day |-> shot[i].day] \in Shot
    <3>1. i \in 1..MaxSlots /\ shot[i].pic \in Pics /\ shot[i].day \in Days
      BY <1>3
    <3> QED  BY <3>1 DEF Shot
  <2> QED  BY <2>1
<1> HIDE DEF shots
<1>5. /\ db.shown = shots /\ db.blobs = PicsOf(shots) /\ db.old = PicsOf(shots)
      /\ \A d \in Days : db.index[d] = NoContainer
      /\ db \in Database
  <2>1. PicsOf(shots) \subseteq Pics
    BY <1>4 DEF PicsOf, Shot
  <2>2. NoDb.index \in [Days -> Container] /\ \A d \in Days : NoDb.index[d] = NoContainer
    BY DEF NoDb, Container, NoContainer
  <2> QED  BY <1>1, <1>4, <2>1, <2>2 DEF OldDb, NoDb, Database, shots
<1>6. \A d \in Days : IndexedIn(db, d) = {}
  BY <1>5 DEF IndexedIn, Recs, NoContainer, ToSet
<1>7. \A s \in shots : s.pic \in Pics /\ s.day \in Days /\ s.pic \in PicsOf(shots)
  BY <1>4 DEF Shot, PicsOf
<1>8. TypeOK
  <2>1. next \in 1..(MaxSlots + 1)
    BY <1>1, <1>3
  <2>2. DOMAIN files \subseteq Files /\ files \in [DOMAIN files -> Seq(Rec)]
    BY <1>2
  <2>3. originals \in [Pics -> {"intact", "rotten", "absent"}]
    BY <1>2
  <2>4. /\ job \in Job /\ errors \in 0..MaxErrors
        /\ wal \subseteq Rec /\ told \subseteq Pics
    BY <1>2, <1>3, NoJobIs
  <2>5. may \in FaultSets /\ pc = "down" /\ settled \in BOOLEAN /\ complete \in BOOLEAN
    BY <1>2
  <2> QED  BY <1>5, <2>1, <2>2, <2>3, <2>4, <2>5 DEF TypeOK
<1>9. Whole(db)
  <2>1. \A d \in Days : db.index[d].file = 0
    BY <1>5 DEF NoContainer
  <2> QED  BY <1>5, <1>6, <2>1 DEF Whole
<1>10. ReadInv
  BY <1>2, <1>5, <1>6, <1>7 DEF ReadInv, Readable, PendingIn
<1>11. JobInv /\ SessionInv /\ ToldInv /\ CleanInv
  BY <1>2 DEF JobInv, SessionInv, ToldInv, CleanInv
<1> QED  BY <1>8, <1>9, <1>10, <1>11 DEF Inv

\* Every step but decay keeps the invariant and what can be read.
LEMMA StepKeeps ==
  ASSUME Inv, Next, ~Decay
  PROVE  Inv' /\ Spares
<1>1. \A s \in db.shown : s.day \in Days
  BY DEF Inv, TypeOK, Database, Shot
<1>2. ASSUME NEW p \in Pics, NEW d \in Days, Capture(p, d)
      PROVE  Inv' /\ Spares
  BY <1>2, CaptureKeeps
<1>3. ASSUME NEW d \in Days, NEW shots \in SUBSET On(db.shown, d), DeleteFromDay(d, shots)
      PROVE  Inv' /\ Spares
  BY <1>3, DeleteFromDayKeeps
<1>4. ASSUME NEW s \in db.shown, DeleteOld(s)
      PROVE  Inv' /\ Spares
  BY <1>4, DeleteOldKeeps
<1>5. CASE StartRetention \/ EndRetention
  BY <1>5, RetentionKeeps
<1>6. ASSUME NEW d \in Days, RetainDay(d) \/ LoseContainer(d) \/ MigrateDay(d)
      PROVE  Inv' /\ Spares
  BY <1>6, RetainDayKeeps, LoseContainerKeeps, MigrateKeeps
<1>7. CASE SyncFile \/ WriteFails \/ Commit \/ CommitFails
  BY <1>7, SyncFileKeeps, WriteFailsKeeps, CommitKeeps, CommitFailsKeeps
<1>8. CASE CleanUp \/ CleanUpFails
  BY <1>8, CleanUpKeeps
<1>9. CASE Settle \/ SettleFails
  BY <1>9, SettleKeeps
<1>10. CASE Open \/ Close
  BY <1>10, OpenCloseKeeps
<1>11. CASE CutTails \/ MigrationStops \/ Verify
  BY <1>11, CutTailsKeeps, MigratedKeeps
<1>12. ASSUME NEW p \in Pics, ForgetMissing(p)
       PROVE  Inv' /\ Spares
  BY <1>12, ForgetMissingKeeps
<1>13. CASE Crash
  BY <1>13, CrashKeeps
<1> QED
  BY <1>2, <1>3, <1>4, <1>5, <1>6, <1>7, <1>8, <1>9, <1>10, <1>11, <1>12, <1>13 DEF Next

\* A step that changes nothing keeps the invariant.
LEMMA StutterKeeps ==
  ASSUME Inv, UNCHANGED vars
  PROVE  Inv' /\ Spares
<1>1. UNCHANGED <<faults, pc, job, stored, session, next, told>>
  BY DEF vars
<1>2. TypeOK'
  BY <1>1 DEF Inv, TypeOK, faults, stored, session
<1>3. Whole(db)' /\ ReadInv' /\ ToldInv'
  BY <1>1 DEF Inv, Whole, IndexedIn, Recs, On, ReadInv, ToldInv, faults, stored, session
<1>4. JobKeeps <=> JobKeeps'
  BY <1>1 DEF JobKeeps, session
<1>5. JobReads <=> JobReads'
  BY <1>1 DEF JobReads, Deleting, faults, stored, session
<1>6. JobWrites <=> JobWrites'
  BY <1>1 DEF JobWrites, stored
<1>7. JobInv'
  BY <1>1, <1>4, <1>5, <1>6 DEF Inv, JobInv, Deleting, stored, session
<1>8. SessionInv' /\ CleanInv'
  BY <1>1 DEF Inv, SessionInv, CleanInv, Referenced, stored, session, faults
<1> QED  BY <1>1, <1>2, <1>3, <1>7, <1>8, QuietSpares DEF Inv

\* The invariant holds at every moment: containers have files of their own and no record
\* without a snapshot, a prepared transaction reads what can be read now, and what settled
\* and complete say is so (snapshot_container.rs).
THEOREM ContainerInv == Spec => []Inv
<1>1. Init => Inv
  BY InitInv
<1>2. Inv /\ [Next]_vars => Inv'
  BY StepKeeps, StutterKeeps, DecayKeeps
<1> QED  BY <1>1, <1>2, PTL DEF Spec

\* What CanRead says, said of the database, the files and the originals.
LEMMA CanReadIs ==
  ASSUME Inv, NEW s \in db.shown
  PROVE  CanRead(s) <=> Readable(db, files, originals, s)
<1>1. s.pic \in Pics /\ s.day \in Days
  BY DEF Inv, TypeOK, Database, Shot
<1>2. Pending = PendingIn(db)
  BY DEF Pending, PendingIn, Indexed, IndexedIn
<1>3. Intact(s.day, s.pic) <=> Holds(db.index[s.day], files, s.pic)
  BY DEF Intact, Holds
<1> QED  BY <1>2, <1>3 DEF CanRead, Readable, HasOriginal

\* As long as stored bytes do not rot, every snapshot that the database has can be read,
\* whatever crash or error interrupted captures, deletions, retention, opening or migration.
THEOREM EveryPictureAlwaysThere == Spec => []EveryPictureThere
<1>1. Inv => EveryPictureThere
  BY CanReadIs DEF EveryPictureThere, AllReadable, Inv, ReadInv
<1> QED  BY <1>1, ContainerInv, PTL

\* Even with rotten bytes and lost files, no operation makes a snapshot that it keeps
\* unreadable.
THEOREM NothingSpoiled == Spec => NoneSpoiled
<1>1. Inv /\ Inv' /\ [Next]_vars =>
        [~Decay => \A s \in db.shown \cap db'.shown : CanRead(s) => CanRead(s)']_vars
  <2> SUFFICES ASSUME Inv, Inv', Next, ~Decay, NEW s \in db.shown \cap db'.shown, CanRead(s)
               PROVE  CanRead(s)'
    OBVIOUS
  <2>1. Readable(db, files, originals, s)
    BY CanReadIs
  <2>2. Readable(db', files', originals', s)
    BY <2>1, StepKeeps DEF Spares
  <2>3. (s.pic \in Pics /\ s.day \in Days)'
    BY DEF Inv, TypeOK, Database, Shot
  <2>4. Pending' = PendingIn(db')
    BY DEF Pending, PendingIn, Indexed, IndexedIn
  <2>5. Intact(s.day, s.pic)' <=> Holds(db'.index[s.day], files', s.pic)
    BY DEF Intact, Holds
  <2> QED  BY <2>2, <2>4, <2>5 DEF CanRead, Readable, HasOriginal
<1> QED  BY <1>1, ContainerInv, PTL DEF Spec, NoneSpoiled

\* A picture whose deletion was reported as complete is in no index and no log, and once
\* migration is complete and the files are settled, in no original.
THEOREM DeletedIsAlwaysGone == Spec => []DeletedIsGone
<1>1. Inv => DeletedIsGone
  <2> SUFFICES ASSUME Inv, NEW p \in told
               PROVE  /\ p \notin {r.pic : r \in wal} \cup UNION {Indexed(d) : d \in Days}
                      /\ settled /\ complete => originals[p] = "absent"
    BY DEF DeletedIsGone
  <2>1. p \notin {r.pic : r \in wal} /\ (settled /\ complete => originals[p] = "absent")
    BY DEF Inv, ToldInv
  <2>2. ASSUME NEW d \in Days
        PROVE  p \notin Indexed(d)
    <3>1. Indexed(d) \subseteq PicsOf(db.shown)
      BY DEF Inv, Whole, Indexed, IndexedIn, On, PicsOf
    <3> QED  BY <3>1 DEF Inv, ToldInv
  <2> QED  BY <2>1, <2>2
<1> QED  BY <1>1, ContainerInv, PTL

\* When migration is complete and the files are settled, nothing is left over between
\* operations: no key in the log, no original, no file without a reference.
THEOREM SettledIsAlwaysClean == Spec => []SettledIsClean
<1>1. Inv => SettledIsClean
  <2>1. Pending = PendingIn(db)
    BY DEF Pending, PendingIn, Indexed, IndexedIn
  <2> QED  BY <2>1 DEF Inv, SettledIsClean, CleanInv, SessionInv
<1> QED  BY <1>1, ContainerInv, PTL
=============================================================================
