------------------------------- MODULE Schema --------------------------------
(***************************************************************************)
(* The database as tables whose rows refer to one another: what each        *)
(* migration creates, rebuilds and drops (MIGRATIONS in the storage's       *)
(* lib.rs and its .sql files), and the transactions that have to respect    *)
(* the references and the lists of allowed words: ingestion, cleanup,       *)
(* deletion, clearing all, the backup and its restore (portable.rs) and the *)
(* rescue of what a damaged database still yields (recovery.rs).            *)
(*                                                                          *)
(* A row is its table, its key, what it refers to, and the one word the     *)
(* transactions tell apart: a reason, or whether it is open.  The times     *)
(* within a row, files and passwords are left to the other modules.         *)
(***************************************************************************)
EXTENDS Integers, FiniteSets, Sequences
LOCAL INSTANCE SequencesExt

CONSTANTS
  Programs,       \* applications, as strings
  MaxWrites,   \* bounds the transactions
  NoBackup     \* no backup file yet

VARIABLES
  version,   \* the schema version of the database
  rows,      \* its rows
  archive,   \* the backup file
  toldOpen,  \* what the collector has told as open and not yet as ended
  typed,     \* applications with input in a minute not sealed yet
  unknown,   \* applications whose rows storage lost, or never got
  collectorRun,  \* the collector's run
  outcome,   \* the last transaction
  writes

schemaVars == <<version, rows, archive, toldOpen, typed, unknown, collectorRun, outcome, writes>>

-----------------------------------------------------------------------------
(* The migrations: the tables created, each with those it refers to; which  *)
(* references cascade; the tables dropped, in order; the first rows; and    *)
(* the words a table allows.  A table that is there already is rebuilt.     *)

Plain == [creates |-> <<>>, cascades |-> {}, drops |-> <<>>, first |-> {}, allows |-> <<>>]

Row(table, key, of, says) == [table |-> table, key |-> key, of |-> of, says |-> says]
Setting(table, says) == Row(table, "1", {}, says)

Migration1 == [Plain EXCEPT !.creates = [runtime_health |-> {}]]

Migration2 ==
  [Plain EXCEPT
     !.creates = [collector_runs |-> {},
                  collector_batches |-> {"collector_runs"},
                  applications |-> {},
                  application_metadata_revisions |-> {"applications", "collector_runs"},
                  window_instances |-> {"collector_runs", "applications"},
                  window_state_intervals |-> {"window_instances", "collector_runs"},
                  data_availability |-> {}],
     !.allows = [data_availability |-> {"collector_restart"},
                 window_instances |-> {"open", "ended"},
                 window_state_intervals |-> {"open", "ended"}]]

Migration3 == Plain     \* a column for the checksum of a batch

AvailabilityBefore ==
  {"collector_restart", "buffer_overflow", "input_overflow", "retention_time", "retention_space"}

Migration4 == [Plain EXCEPT !.allows = [data_availability |-> AvailabilityBefore]]

Migration5 ==
  [Plain EXCEPT !.creates = [input_minute_buckets |-> {"applications"},
                             daily_physical_key_frequency |-> {},
                             anonymous_daily_input_ledger |-> {}]]

Migration6 ==
  [Plain EXCEPT
     !.creates = [tray_background_intervals |-> {"applications", "collector_runs"}],
     !.allows = [tray_background_intervals |-> {"open", "ended"}]]

Migration7 ==
  [Plain EXCEPT !.creates = [retention_policy |-> {}],
                !.first = {Setting("retention_policy", "")}]

Migration8 == Plain     \* indexes

MissingBefore ==
  {"desktop_idle", "global_pause", "locked", "sleep", "secure_desktop", "session_disconnected",
   "remote_session", "privacy_exclusion", "capture_failed", "low_disk", "retention_cleaned",
   "user_deleted"}

\* The word of a slot is why its picture is missing; "picture" is none.
Migration9 ==
  [Plain EXCEPT
     !.creates = [snapshot_policy |-> {}, snapshot_exclusions |-> {}, snapshot_blobs |-> {},
                  snapshot_slots |-> {"snapshot_blobs"},
                  local_reports |-> {},
                  local_report_applications |-> {"local_reports"},
                  local_report_gaps |-> {"local_reports"},
                  local_report_snapshot_reasons |-> {"local_reports"}],
     !.cascades = {"local_report_applications", "local_report_gaps",
                   "local_report_snapshot_reasons"},
     !.first = {Setting("snapshot_policy", "on")},
     !.allows = [snapshot_policy |-> {"on", "off"},
                 snapshot_slots |-> {"picture"} \cup MissingBefore]]

Migration10 ==
  LET cascading == [ai_jobs |-> {"ai_versions"}, ai_versions |-> {"ai_jobs"},
                    ai_messages |-> {"ai_versions", "ai_messages"},
                    ai_compressions |-> {"ai_versions", "ai_messages"},
                    ai_version_sources |-> {"ai_jobs"}, ai_image_authorizations |-> {"ai_jobs"}]
      alone == {"ai_profiles", "ai_prompts", "ai_settings", "ai_schedules"}
  IN  [Plain EXCEPT
         !.creates = [t \in alone \cup DOMAIN cascading |->
                        IF t \in alone THEN {} ELSE cascading[t]],
         !.cascades = DOMAIN cascading]

SystemKinds ==
  {"desktop_idle", "locked", "sleep", "global_pause", "privacy_exclusion",
   "session_disconnected", "secure_desktop", "clock_discontinuity", "system_end"}

Migration11 ==
  [Plain EXCEPT
     !.creates = [collection_policy |-> {}, application_merges |-> {}, system_intervals |-> {}],
     !.first = {Setting("collection_policy", "collects")},
     !.allows = [collection_policy |-> {"collects", "paused"},
                 system_intervals |-> SystemKinds,
                 data_availability |->
                   AvailabilityBefore \cup {"user_deleted", "clock_discontinuity"}]]

ReasonsOf12 == {"picture", "backup_omitted", "recovery_corruption"} \cup MissingBefore
Migration12Allowing(reasons) ==
  [Plain EXCEPT
     !.creates = [storage_checks |-> {}],
     !.first = {Setting("storage_checks", "")},
     !.allows = [data_availability |-> AvailabilityBefore \cup
                   {"user_deleted", "clock_discontinuity", "recovery_corruption"},
                 snapshot_slots |-> reasons]]

\* As Migration12, by a bug: a reason of version 9 is not copied into the list.
Migration12Forgets == Migration12Allowing(ReasonsOf12 \ {"remote_session"})

Migration12 == Migration12Allowing(ReasonsOf12)

Migration13 ==
  [Plain EXCEPT
     !.creates = [snapshot_containers |-> {},
                  snapshot_container_records |-> {"snapshot_containers", "snapshot_blobs"},
                  snapshot_slot_days |-> {"snapshot_slots"}],
     !.cascades = {"snapshot_container_records", "snapshot_slot_days"}]

Migration14 ==
  [Plain EXCEPT
     !.drops = <<"ai_image_authorizations", "ai_version_sources", "ai_compressions",
                 "ai_messages", "ai_versions", "ai_jobs", "ai_schedules", "ai_settings",
                 "ai_prompts", "ai_profiles">>]

Migration15 ==
  [Plain EXCEPT !.drops = <<"local_report_snapshot_reasons", "local_report_gaps",
                            "local_report_applications", "local_reports">>]

Migration16 == [Plain EXCEPT !.creates = [deleted_application_stretches |-> {}]]

Migrations ==
  <<Migration1, Migration2, Migration3, Migration4, Migration5, Migration6, Migration7,
    Migration8, Migration9, Migration10, Migration11, Migration12, Migration13, Migration14,
    Migration15, Migration16>>
Newest == 16
Versions == 1..Newest

Created(t) == CHOOSE i \in Versions : t \in DOMAIN Migrations[i].creates
AllTables == UNION {DOMAIN Migrations[i].creates : i \in Versions}
RefersTo == [t \in AllTables |-> Migrations[Created(t)].creates[t]]
Cascading == UNION {Migrations[i].cascades : i \in Versions}
TablesAt ==
  [v \in Versions |->
     {t \in AllTables : Created(t) <= v
        /\ \A i \in 1..v : \A k \in DOMAIN Migrations[i].drops : Migrations[i].drops[k] # t}]
Allowed(t, v) ==
  LET lists == {i \in 1..v : t \in DOMAIN Migrations[i].allows}
  IN  IF lists = {} THEN {""} ELSE Migrations[Max(lists)].allows[t]

-----------------------------------------------------------------------------
(* SQL: a transaction is the rows it has made so far and whether a          *)
(* constraint has refused one of its statements.                            *)

Unchecked(rs) == [rows |-> rs, ok |-> TRUE]
NameOf(r) == <<r.table, r.key>>
Names(rs) == {NameOf(r) : r \in rs}
In(rs, t) == {r \in rs : r.table = t}
Broken(rs) == LET there == Names(rs) IN {r \in rs : ~(r.of \subseteq there)}
Sound(rs, v) ==
  /\ Broken(rs) = {}
  /\ {r.table : r \in rs} \subseteq TablesAt[v]
  /\ \A t \in {r.table : r \in rs} : {r.says : r \in In(rs, t)} \subseteq Allowed(t, v)

\* What goes with the rows in doomed: through tables whose references cascade.
Fallen(rs, doomed) ==
  LET fallen[i \in 0..5] ==
        IF i = 0 THEN doomed
        ELSE LET before == fallen[i - 1]
                 gone == Names(before)
             IN  before \cup {r \in rs : r.table \in Cascading /\ r.of \cap gone # {}}
  IN  IF doomed = {} THEN {} ELSE fallen[5]

Without(rs, fallen) ==
  LET names == Names(fallen)
  IN  [rows |-> rs \ fallen, ok |-> \A r \in rs \ fallen : r.of \cap names = {}]
DeleteRows(s, doomed) ==
  IF doomed = {} \/ ~s.ok THEN s ELSE Without(s.rows, Fallen(s.rows, doomed))

\* The rows in among are deleted, table by table.
EmptiedInTurn(s, tables, among) ==
  LET after[i \in 0..Len(tables)] ==
        IF i = 0 THEN s
        ELSE LET before == after[i - 1]
             IN  DeleteRows(before, In(before.rows \cap among, tables[i]))
  IN  after[Len(tables)]

Insert(s, r) ==
  [rows |-> s.rows \cup {r},
   ok |-> s.ok /\ r.of \subseteq Names(s.rows) /\ r.says \in Allowed(r.table, Newest)]

Replace(s, old, new) == [s EXCEPT !.rows = (@ \ old) \cup new]

\* One migration.  A rebuilt table is copied, dropped with all its rows, and
\* the copy takes its name.
CopiedBack(s, copy, words) ==
  [rows |-> s.rows \cup copy, ok |-> s.ok /\ \A r \in copy : r.says \in words]
Rebuilt(s, t, words) ==
  IF ~s.ok THEN s ELSE CopiedBack(DeleteRows(s, In(s.rows, t)), In(s.rows, t), words)
RebuiltInTurn(s, tables, allows) ==
  LET after[k \in 0..Len(tables)] ==
        IF k = 0 THEN s ELSE Rebuilt(after[k - 1], tables[k], allows[tables[k]])
  IN  after[Len(tables)]
Migrated(s, m) ==
  LET rebuilt == RebuiltInTurn(s, SetToSeq(DOMAIN m.allows), m.allows)
      dropped == EmptiedInTurn(rebuilt, m.drops, s.rows)
  IN  [dropped EXCEPT !.rows = @ \cup m.first]

MigratedTo(rs, from, to) ==
  LET after[v \in from..to] ==
        IF v = from THEN Unchecked(rs)
        ELSE LET before == after[v - 1] IN IF before.ok THEN Migrated(before, Migrations[v]) ELSE before
  IN  after[to]

FreshAt == [v \in Versions |-> MigratedTo({}, 0, v).rows]

-----------------------------------------------------------------------------
(* Ingestion.  A batch has one event here: its kind, and the application,   *)
(* the gap's reason or the system's state it is of.                         *)

\* The collector's runs; no more are begun.
RunNames == <<"a", "b", "c", "d">>
RunName == RunNames[collectorRun]
RunRow == Row("collector_runs", RunName, {}, "")
AppRow(x) == Row("applications", x, {}, "")
WindowKey(x) == x \o RunName
\* A row of table t of the application and of the run that brought it.
RowOf(t, x, says) == Row(t, WindowKey(x), {NameOf(AppRow(x)), NameOf(RunRow)}, says)
StateRow(x, says) ==
  Row("window_state_intervals", WindowKey(x),
      {<<"window_instances", WindowKey(x)>>, NameOf(RunRow)}, says)
Gap(reason) == Row("data_availability", reason, {}, reason)

Lasting == {"window_instances", "window_state_intervals", "tray_background_intervals"}
Ended(rs) == {IF r.says = "open" THEN [r EXCEPT !.says = "ended"] ELSE r : r \in rs}

\* close_stale_runs, before a run's first batch.
RunBegins(s, explicitGap) ==
  LET stale == {r \in s.rows : r.table \in Lasting}
      closed == Replace(s, stale, Ended(stale))
  IN  Insert(IF explicitGap \/ In(s.rows, "collector_runs") = {} THEN closed
             ELSE Insert(closed, Gap("collector_restart")), RunRow)

Registered(s, x) == IF AppRow(x) \in s.rows THEN s ELSE Insert(s, AppRow(x))
\* upsert_application
Upserted(s, x) ==
  LET known == \E r \in In(s.rows, "application_metadata_revisions") : NameOf(AppRow(x)) \in r.of
  IN  IF known THEN Registered(s, x)
      ELSE Insert(Registered(s, x), RowOf("application_metadata_revisions", x, ""))

\* An event that finds no open row of its own contradicts what is stored.
Needing(s, r) == [s EXCEPT !.ok = @ /\ r \in s.rows]
Ending(s, r) == Replace(Needing(s, r), {r}, Ended({r}))

\* ingest_input_minute: a minute the user deleted comes to the day's counts only.
Counted(s, x, deleted) ==
  LET bucket == Row("input_minute_buckets", x, {NameOf(AppRow(x))}, "")
      keys == Insert(IF deleted THEN s ELSE Insert(s, bucket),
                     Row("daily_physical_key_frequency", "1", {}, ""))
  IN  Insert(keys, Row("anonymous_daily_input_ledger", "1", {}, ""))

\* ingest_collector_event
Accepted(s, event, deleted) ==
  LET x == event.of IN
  CASE event.kind = "opened" ->
         Insert(Insert(Upserted(s, x), RowOf("window_instances", x, "open")),
                StateRow(x, "open"))
    [] event.kind = "updated" ->
         Insert(Ending(Needing(Upserted(s, x), RowOf("window_instances", x, "open")),
                       StateRow(x, "open")), StateRow(x, "open"))
    [] event.kind = "closed" ->
         Ending(Ending(Upserted(s, x), RowOf("window_instances", x, "open")),
                StateRow(x, "open"))
    [] event.kind = "tray started" ->
         Insert(Registered(s, x), RowOf("tray_background_intervals", x, "open"))
    [] event.kind = "tray ended" ->
         Ending(Registered(s, x), RowOf("tray_background_intervals", x, "open"))
    [] event.kind = "minute" -> Counted(s, x, deleted)
    [] event.kind = "gap" -> Insert(s, Gap(x))
    [] event.kind = "system" -> Insert(s, Row("system_intervals", x, {}, x))

\* ingest_event_batch
Ingested(event, deleted) ==
  LET begun == IF RunRow \in rows THEN Unchecked(rows)
               ELSE RunBegins(Unchecked(rows), event.kind = "gap")
  IN  Insert(Accepted(begun, event, deleted),
             Row("collector_batches", RunName, {NameOf(RunRow)}, ""))

-----------------------------------------------------------------------------
(* What the storage does with its rows. *)

OfApp(rs, x) == {r \in rs : NameOf(AppRow(x)) \in r.of}

\* delete_application_history
HistoryDeleted(rs, x) ==
  LET windows == In(OfApp(rs, x), "window_instances")
      states == {r \in In(rs, "window_state_intervals") : r.of \cap Names(windows) # {}}
      order == <<"window_instances", "tray_background_intervals", "input_minute_buckets",
                 "application_metadata_revisions">>
      emptied == EmptiedInTurn(DeleteRows(Unchecked(rs), states), order, OfApp(rs, x))
      deleted == DeleteRows(emptied, {AppRow(x)})
  IN  IF windows = {} THEN deleted ELSE Insert(deleted, Gap("user_deleted"))

\* delete_application_activity_between, for a stretch that ends now: what is
\* open goes on.
StretchDeleted(rs, x) ==
  LET mine == OfApp(rs, x) \cup
              {r \in In(rs, "window_state_intervals") : r.of \cap Names(OfApp(rs, x)) # {}}
      ended == {r \in mine : r.table \in Lasting /\ r.says = "ended"}
      first == DeleteRows(Unchecked(rs), ended \ In(rs, "window_instances"))
      unused == {r \in In(ended, "window_instances") :
                   ~\E q \in In(first.rows, "window_state_intervals") : NameOf(r) \in q.of}
      then == DeleteRows(first, unused \cup In(mine, "input_minute_buckets"))
  IN  IF then.rows = rs THEN then
      ELSE Insert(Insert(then, Row("deleted_application_stretches", x, {}, "")),
                  Gap("user_deleted"))

\* cleanup_before: whatever has ended is old, or only what is of the applications in old.
CleanedUp(rs, old, reason) ==
  LET aged == {r \in rs : /\ r.table \in Lasting /\ r.says = "ended"
                          /\ \E x \in old : r \in OfApp(rs, x) \/
                               r.of \cap Names(In(OfApp(rs, x), "window_instances")) # {}}
      first == DeleteRows(Unchecked(rs), In(aged, "window_state_intervals"))
      unused == {r \in In(aged, "window_instances") :
                   ~\E q \in In(first.rows, "window_state_intervals") : NameOf(r) \in q.of}
      others == {r \in rs : r.table \in {"system_intervals", "input_minute_buckets",
                                         "daily_physical_key_frequency", "collector_batches"}}
      second == DeleteRows(first, unused \cup In(aged, "tray_background_intervals"))
      done == DeleteRows(second, others)
  IN  IF done.rows = rs THEN done ELSE Insert(done, Gap(reason))

\* As ClearedTables, by a bug: the table of the last version is not in the list.
ClearedTablesOfOld ==
  <<"system_intervals", "snapshot_slot_days", "snapshot_slots", "snapshot_container_records",
    "snapshot_containers", "snapshot_blobs", "window_state_intervals", "window_instances",
    "tray_background_intervals", "input_minute_buckets", "daily_physical_key_frequency",
    "anonymous_daily_input_ledger", "application_metadata_revisions", "applications",
    "collector_batches", "collector_runs", "runtime_health", "data_availability">>

\* clear_all
ClearedTables ==
  <<"system_intervals", "snapshot_slot_days", "snapshot_slots", "snapshot_container_records",
    "snapshot_containers", "snapshot_blobs", "window_state_intervals", "window_instances",
    "tray_background_intervals", "input_minute_buckets", "daily_physical_key_frequency",
    "anonymous_daily_input_ledger", "application_metadata_revisions", "applications",
    "collector_batches", "collector_runs", "runtime_health", "data_availability",
    "deleted_application_stretches">>
AllCleared(rs) == EmptiedInTurn(Unchecked(rs), ClearedTables, rs)

\* The rows of the pictures' files: reconcile_snapshot_files puts every picture
\* that is left into the container of its day.
Picture(key) == Row("snapshot_slots", key, {<<"snapshot_blobs", key>>}, "picture")
Day == Row("snapshot_containers", "a", {}, "")
RecordOf(slot) ==
  Row("snapshot_container_records", slot.key, slot.of \cup {NameOf(Day)}, "")
DayOf(slot) == Row("snapshot_slot_days", slot.key, {NameOf(slot)}, "")
Pictures(rs) == {r \in In(rs, "snapshot_slots") : r.says = "picture"}
Contained(s) ==
  LET slots == Pictures(s.rows)
  IN  IF slots = {} THEN s
      ELSE [s EXCEPT !.rows = @ \cup {Day} \cup {RecordOf(q) : q \in slots}
                                \cup {DayOf(q) : q \in slots}]

Pictureless(slots, reason) == {[r EXCEPT !.of = {}, !.says = reason] : r \in slots}

\* sanitize
Sanitized(s, pictures) ==
  LET healthy == DeleteRows(s, In(s.rows, "runtime_health"))
      slots == Pictures(s.rows)
      without == DeleteRows(Replace(healthy, slots, Pictureless(slots, "backup_omitted")),
                            In(s.rows, "snapshot_blobs"))
  IN  IF pictures THEN healthy ELSE DeleteRows(without, In(without.rows, "snapshot_slot_days"))

WithoutContainers(s) ==
  DeleteRows(DeleteRows(s, In(s.rows, "snapshot_container_records")),
             In(s.rows, "snapshot_containers"))

\* prepare_restore: what the backup's database becomes before it is let in.
Prepared(backup) ==
  Contained(WithoutContainers(Sanitized(
    MigratedTo(backup.rows, backup.version, Newest), backup.pictures)))

\* recover_to_new_directory: rows that cannot be read are left out, then those
\* without what they refer to, round by round.
Swept(rs, rounds) ==
  LET left[i \in 0..rounds] == IF i = 0 THEN rs ELSE LET s == left[i - 1] IN s \ Broken(s)
  IN  left[rounds]
Spoiled(rs, blobs) == {q \in Pictures(rs) : q.of \cap Names(blobs) # {}}
Marked(s, blobs) ==
  LET spoiled == Spoiled(s.rows, blobs)
  IN  DeleteRows(Replace(s, spoiled, Pictureless(spoiled, "recovery_corruption")),
                 blobs \cap s.rows)
\* Days are kept only of slots that have a picture.
DaysCleared(s) ==
  DeleteRows(s, {r \in In(s.rows, "snapshot_slot_days") :
                   ~\E q \in Pictures(s.rows) : NameOf(q) \in r.of})
Paused(s) ==
  Replace(s, {r \in s.rows : r.table \in {"collection_policy", "snapshot_policy"}},
          {Setting("collection_policy", "paused"), Setting("snapshot_policy", "off")})
Copied(readable, first) == readable \cup {f \in first : NameOf(f) \notin Names(readable)}
Salvaged(readable, lostPictures) ==
  LET swept == Swept(Copied(readable, FreshAt[version]), Cardinality(TablesAt[version]) + 1)
      marked == Marked(MigratedTo(swept, version, Newest), lostPictures)
      clean == Sanitized(Contained(DaysCleared(WithoutContainers(marked))), TRUE)
  IN  Insert(Paused(clean), Gap("recovery_corruption"))

-----------------------------------------------------------------------------
(* The steps.  A transaction a constraint refuses leaves nothing behind.    *)

Finishes(work, of, s) ==
  /\ outcome' = [work |-> work, of |-> of, lost |-> {}, unreadable |-> {}, ok |-> s.ok]
  /\ rows' = IF s.ok THEN s.rows ELSE rows
Writes(s) ==
  /\ version = Newest /\ writes < MaxWrites
  /\ writes' = IF s.ok THEN writes + 1 ELSE writes
CollectorStays == UNCHANGED <<toldOpen, typed, unknown, collectorRun>>
CollectorBeginsAnew ==
  /\ collectorRun < Len(RunNames) /\ collectorRun' = collectorRun + 1
  /\ toldOpen' = {} /\ typed' = {} /\ unknown' = {}

Thing(kind) == IF kind \in {"tray started", "tray ended"} THEN "tray" ELSE "window"
Events ==
  [kind : {"opened", "updated", "closed", "tray started", "tray ended", "minute"}, of : Programs]
    \cup [kind : {"gap"}, of : {"buffer_overflow", "input_overflow"}]
    \cup [kind : {"system"}, of : SystemKinds \cup {"active"}]

\* What the collector may send: it opens what is not open and ends what is, and
\* a minute is of an application that it has seen.
MaySend(event) ==
  CASE event.kind \in {"opened", "tray started"} ->
         /\ <<Thing(event.kind), event.of>> \notin toldOpen
         /\ ~\E r \in rows : r.table \in Lasting /\ r.key = WindowKey(event.of) /\ r.says = "ended"
    [] event.kind \in {"updated", "closed", "tray ended"} ->
         <<Thing(event.kind), event.of>> \in toldOpen
    [] event.kind = "minute" -> event.of \in typed
    [] event.kind = "gap" -> TRUE
    [] event.kind = "system" -> event.of # "active"

IsAccepted(event, s) ==
  LET x == event.of
      thing == <<Thing(event.kind), x>>
      begins == event.kind \in {"opened", "tray started"}
  IN  /\ toldOpen' = IF begins THEN toldOpen \cup {thing}
                     ELSE IF event.kind \in {"closed", "tray ended"} THEN toldOpen \ {thing}
                     ELSE toldOpen
      /\ typed' = IF event.kind = "opened" THEN typed \cup {x}
                  ELSE IF event.kind = "minute" /\ <<"window", x>> \notin toldOpen
                  THEN typed \ {x} ELSE typed
      /\ unknown' = IF begins THEN unknown \ {thing, <<"app", x>>} ELSE unknown
      /\ UNCHANGED collectorRun

\* The collector gives the run up, with what waits behind the batch: of windows
\* that opened and closed meanwhile only the input is told.  Then it tells anew
\* what is open.
IsRefused ==
  /\ collectorRun < Len(RunNames) /\ collectorRun' = collectorRun + 1
  /\ toldOpen' = {}
  /\ \E lost \in SUBSET {x \in Programs : <<"window", x>> \notin toldOpen} :
       /\ typed' = typed \cup lost
       /\ unknown' = unknown \cup {<<"app", x>> : x \in {y \in lost : AppRow(y) \notin rows}}

Deliver(event) ==
  /\ version = Newest /\ writes < MaxWrites /\ MaySend(event)
  /\ \E deleted \in BOOLEAN :
       /\ deleted => event.kind = "minute"
                       /\ Row("deleted_application_stretches", event.of, {}, "") \in rows
       /\ \E s \in {Ingested(event, deleted)} :
            /\ Writes(s) /\ Finishes(event.kind, event.of, s)
            /\ IF s.ok THEN IsAccepted(event, s) ELSE IsRefused
  /\ UNCHANGED <<version, archive>>

Stores(work, of, result) ==
  /\ version = Newest /\ writes < MaxWrites
  /\ \E s \in {result} : Writes(s) /\ Finishes(work, of, s)
  /\ UNCHANGED <<version, archive>>

DeleteHistory(x) ==
  /\ AppRow(x) \in rows
  /\ Stores("delete", x, HistoryDeleted(rows, x))
  /\ unknown' = unknown \cup {<<thing, x>> : thing \in {"window", "tray", "app"}}
  /\ UNCHANGED <<toldOpen, typed, collectorRun>>

CutStretch(x) == Stores("cut", x, StretchDeleted(rows, x)) /\ CollectorStays

CleanUp(old, reason) == Stores("clean up", reason, CleanedUp(rows, old, reason)) /\ CollectorStays

EmptyDatabase == Stores("clear", "", AllCleared(rows)) /\ CollectorBeginsAnew

\* store_snapshot, record_snapshot_missing, and the deletion of one picture.
StorePicture(key) ==
  LET slot == Picture(key)
      blob == Insert(Unchecked(rows), Row("snapshot_blobs", key, {}, ""))
      record == Insert(Insert(blob, Day), RecordOf(slot))
  IN  /\ Names({slot}) \cap Names(rows) = {}
      /\ Stores("picture", key, Insert(Insert(record, slot), DayOf(slot)))
      /\ CollectorStays

MissPicture(reason) ==
  /\ Stores("missing", reason,
            Insert(Unchecked(rows), Row("snapshot_slots", reason, {}, reason)))
  /\ CollectorStays

DeletePicture(slot) ==
  LET marked == Replace(Unchecked(rows), {slot}, Pictureless({slot}, "user_deleted"))
      undated == DeleteRows(marked, In({DayOf(slot)}, "snapshot_slot_days"))
      unrecorded == DeleteRows(undated, {RecordOf(slot)})
      emptied == IF In(unrecorded.rows, "snapshot_container_records") = {}
                 THEN DeleteRows(unrecorded, {Day}) ELSE unrecorded
  IN  /\ Stores("delete picture", slot.key,
                DeleteRows(emptied, {r \in In(rows, "snapshot_blobs") : NameOf(r) \in slot.of}))
      /\ CollectorStays

\* export_backup
Export(pictures) ==
  /\ version = Newest /\ writes < MaxWrites
  /\ \E s \in {WithoutContainers(Sanitized(Unchecked(rows), pictures))} :
       /\ Writes(s)
       /\ outcome' = [work |-> "export", of |-> "", lost |-> {}, unreadable |-> {}, ok |-> s.ok]
       /\ archive' = IF s.ok THEN [version |-> version, rows |-> s.rows, pictures |-> pictures]
                     ELSE archive
  /\ CollectorStays /\ UNCHANGED <<version, rows>>

\* replace_from_backup: the references are not looked at while all tables are
\* replaced, and all together before the commit.
Restore ==
  /\ archive # NoBackup
  /\ \E s \in {Prepared(archive)} :
       Stores("restore", "", [s EXCEPT !.ok = @ /\ Sound(s.rows, Newest)])
  /\ CollectorBeginsAnew

\* migrate_database, then the first reconciliation.
Upgrade ==
  /\ version < Newest /\ writes < MaxWrites /\ writes' = writes + 1
  /\ \E s \in {MigratedTo(rows, version, Newest)} :
       /\ Finishes("upgrade", "", Contained(s))
       /\ version' = IF s.ok THEN Newest ELSE version
  /\ CollectorStays /\ UNCHANGED archive

\* A rescue makes a dataset of its own.  It comes first, and ends the behaviour
\* (a bound).
Salvage(lost, lostPictures) ==
  /\ writes = 0 /\ archive = NoBackup /\ writes' = MaxWrites
  /\ \E s \in {Salvaged(rows \ lost, lostPictures)} :
       /\ outcome' = [work |-> "salvage", of |-> "", lost |-> lost, unreadable |-> lostPictures,
                      ok |-> s.ok /\ Sound(s.rows, Newest)]
       /\ rows' = IF s.ok THEN s.rows ELSE rows
       /\ version' = IF s.ok THEN Newest ELSE version
  /\ CollectorBeginsAnew /\ UNCHANGED archive

-----------------------------------------------------------------------------
(* Databases to begin with: a new one, or one row for every word of every   *)
(* table, as far as its version has them.                                   *)

Default(t) ==
  IF t \in {"window_instances", "window_state_intervals", "tray_background_intervals",
            "application_metadata_revisions"} THEN "aa" ELSE "a"
Example(t, says) ==
  Row(t, IF says \in {"", "open", "ended", "picture"} THEN Default(t) ELSE says,
      IF t = "snapshot_slots" /\ says # "picture" THEN {}
      ELSE {<<p, Default(p)>> : p \in RefersTo[t]}, says)
SettingsAt(v) == UNION {Migrations[i].first : i \in 1..v}
SettingTables == {r.table : r \in SettingsAt(Newest)}
FullAt ==
  [v \in Versions |->
     FreshAt[v] \cup
       (UNION {{Example(t, says) : says \in Allowed(t, v)} : t \in TablesAt[v] \ SettingTables}
          \ {Example("window_instances", "ended")})]

Derived == {"runtime_health", "snapshot_containers", "snapshot_container_records"}
FirstBackup == 12      \* the version that knows pictures a backup left out
BackupAt(v, pictures) ==
  LET rs == {r \in FullAt[v] : r.table \notin Derived}
  IN  [version |-> v, pictures |-> pictures,
       rows |-> IF pictures THEN rs
                ELSE (rs \ (In(rs, "snapshot_blobs") \cup In(rs, "snapshot_slot_days")
                              \cup Pictures(rs)))
                       \cup Pictureless(Pictures(rs), "backup_omitted")]

SchemaInit ==
  /\ version \in Versions
  /\ rows \in {FreshAt[version], FullAt[version]}
  /\ archive \in IF version = Newest
                 THEN {NoBackup} \cup {BackupAt(v, pictures) :
                                         v \in FirstBackup..Newest, pictures \in BOOLEAN}
                 ELSE {NoBackup}
  /\ unknown = {}
  /\ \/ toldOpen = {} /\ typed = {} /\ collectorRun = 2
     \/ /\ rows = FullAt[Newest] /\ archive = NoBackup
        /\ toldOpen = {"window", "tray"} \X {"a"} /\ typed = {"a"} /\ collectorRun = 1
  /\ outcome = [work |-> "none", of |-> "", lost |-> {}, unreadable |-> {}, ok |-> TRUE]
  /\ writes = 0

SchemaNext ==
  \/ Upgrade \/ Restore \/ EmptyDatabase
  \/ \E event \in Events : Deliver(event)
  \/ \E x \in Programs : DeleteHistory(x) \/ CutStretch(x)
  \/ \E old \in SUBSET Programs, reason \in {"retention_time", "retention_space"} :
       CleanUp(old, reason)
  \/ \E key \in Programs : StorePicture(key)
  \/ \E reason \in MissingBefore : MissPicture(reason)
  \/ \E slot \in Pictures(rows) : DeletePicture(slot)
  \/ \E pictures \in BOOLEAN : Export(pictures)
  \/ \E t \in TablesAt[version], lostPictures \in {{}, In(rows, "snapshot_blobs")} :
       Salvage(In(rows, t), lostPictures)

SchemaSpec == SchemaInit /\ [][SchemaNext]_schemaVars

-----------------------------------------------------------------------------
\* Rows refer to rows that are there and say what their tables allow, and a
\* setting that is read has its row (the CHECKs and REFERENCES of MIGRATIONS).
SchemaTypeOK ==
  /\ version \in Versions /\ collectorRun \in 1..Len(RunNames)
  /\ Sound(rows, version)
  /\ Names(SettingsAt(version)) \subseteq Names(rows)
  /\ typed \subseteq Programs
  /\ toldOpen \subseteq {"window", "tray"} \X Programs
  /\ unknown \subseteq {"window", "tray", "app"} \X Programs

Concerns(kind) ==
  CASE kind = "minute" -> "app" [] kind = "tray ended" -> "tray" [] OTHER -> "window"

\* Whatever a database of any version holds, no constraint refuses its upgrade,
\* its rescue, a cleanup, a deletion, a backup or its restore; and of the
\* collector's events only one of an application that was deleted, or that was
\* told in a run the collector gave up, since it was last told as open.
NothingRefused ==
  \/ outcome.ok
  \/ /\ outcome.work \in {"updated", "closed", "tray ended", "minute"}
     /\ \E thing \in unknown : thing = <<Concerns(outcome.work), outcome.of>>

\* All that refers to the rows in gone, directly or not, and they themselves.
Above(rs, gone) ==
  LET found[i \in 0..6] ==
        IF i = 0 THEN gone
        ELSE LET before == found[i - 1]
                 those == Names(before)
             IN  before \cup {r \in rs : r.of \cap those # {}}
  IN  found[6]
Settings(rs) == {r \in rs : r.table \in SettingTables}
FactTables == TablesAt[Newest] \ (SettingTables \cup Derived \cup {"snapshot_slot_days"})
Facts(rs) == UNION {In(rs, t) : t \in FactTables}
AreKept(before, after) == Names(Settings(before)) \subseteq Names(Settings(after))
                            /\ Facts(after) = Facts(before)

\* An upgrade and a restore keep every fact of the database and of the backup;
\* a rescue every fact that can be read and that only refers to such, with the
\* collection paused until it is looked at; a clear only the settings and
\* rules; and the deletion of an application's history all that is not its own.
KeepsAllItCan ==
  [][writes' # writes /\ outcome'.ok =>
     CASE outcome'.work = "upgrade" -> AreKept(rows, rows') /\ Settings(rows) \subseteq rows'
       [] outcome'.work = "restore" ->
            AreKept(archive.rows, rows') /\ Settings(archive.rows) \subseteq rows'
       [] outcome'.work = "salvage" ->
            LET left == rows \ Above(rows, outcome'.lost)
                blobs == outcome'.unreadable
                slots == Spoiled(left, blobs)
                gap == {Gap("recovery_corruption")}
            IN  /\ Facts(rows') \ gap =
                     Facts((left \ (slots \cup blobs))
                             \cup Pictureless(slots, "recovery_corruption")) \ gap
                /\ gap \subseteq rows'
                /\ Setting("collection_policy", "paused") \in rows'
                /\ Setting("snapshot_policy", "off") \in rows'
       [] outcome'.work = "clear" ->
            rows' = {r \in rows : r.table \in SettingTables \cup
                                    {"snapshot_exclusions", "application_merges"}}
       [] outcome'.work = "delete" ->
            rows' \ {Gap("user_deleted")} =
              (rows \ Above(rows, {AppRow(outcome'.of)})) \ {Gap("user_deleted")}
       [] OTHER -> TRUE]_schemaVars
=============================================================================
