---------------------------- MODULE HistoryRows -----------------------------
(***************************************************************************)
(* The history page of the app (history.rs): the rows that show a day's     *)
(* activities, with headers, breaks and interruptions between them; how the *)
(* list on screen is patched when they change; and the pane of the chosen   *)
(* activity, whose times a thread reads while the list goes on changing.    *)
(*                                                                          *)
(* The day and its activities are those of ActivityRows.  An application is *)
(* on screen from its first focus on.  Sizes, names and the rows out of     *)
(* sight, which are shown bare, are left out; there is one day, today, and  *)
(* it is read in one step (HistoryPaging has the threads that read days).   *)
(***************************************************************************)
EXTENDS ActivityRows
LOCAL INSTANCE SequencesExt

CONSTANTS
  Noon,         \* the last tick of the morning
  LongBreak,    \* BREAK_MS
  Recent,       \* SAME_SCREEN_RECENT_MS
  LockedTicks, AsleepTicks,   \* the ticks of system states
  MaxChoices,   \* bounds what the user and the settings do
  MaxTogether   \* bounds that, what arrives late and the ticks of the day together

VARIABLES
  inMemory, \* today is among the days in memory
  roles,    \* with each activity listed, what part each application has in it
  sought,    \* the application searched for, or 0
  shown,     \* the rows on screen
  selected,  \* the key of the chosen activity, or <<>>
  pane,      \* the detail pane
  job,       \* the key and the end its times are read for, or <<>>
  answer,    \* what the thread has sent: nothing or one result
  posted,    \* calls of on_history_detail_ready on their way
  unheard,   \* storage was emptied and the window has not heard of it
  missed,    \* the answer for the pane came while its activity was not listed
  choices

shownVars == <<inMemory, roles, sought, shown, selected, pane, job, answer, posted, unheard,
               missed, choices>>

-----------------------------------------------------------------------------
(* The rows of a day. *)

\* participants: what part each application has in an activity.
Participants(day, act) ==
  LET span == act.from + 1 .. act.to
      focused(a) == {i \in span : day[i] = a}
      visible(a) == {i \in span : day[i] \notin {a, Lost} /\ \E j \in 1..i : day[j] = a}
      lately(a) == \E j \in DOMAIN day : j > act.from - Recent /\ j <= act.to /\ day[j] = a
  IN  [a \in Apps |->
         IF a = act.main THEN "main"
         ELSE IF focused(a) # {} THEN "interleaved"
         ELSE IF 2 * Cardinality(visible(a)) >= act.to - act.from /\ lately(a) THEN "same screen"
         ELSE "none"]

\* The entries of build_day: activities with their participants, which those
\* that are kept keep.
Entries(acts, parts) ==
  [i \in DOMAIN acts |-> [from |-> acts[i].from, to |-> acts[i].to, main |-> acts[i].main,
                          parts |-> parts[i]]]
RolesRebuilt(acts, parts, old, new, rebuilt) ==
  LET kept == Len(Finished(acts, Boundary(acts, old, new)))
  IN  [i \in DOMAIN rebuilt |-> IF i <= kept THEN parts[i] ELSE Participants(new, rebuilt[i])]

Matches(entry, query) == query = 0 \/ entry.parts[query] # "none"

Period(tick) == IF tick <= Noon THEN "morning" ELSE "afternoon"

\* break_title: the state that covers most of a break, if it covers half.
BreakTitle(from, to) ==
  LET locked == Cardinality((from + 1 .. to) \cap LockedTicks)
      asleep == Cardinality((from + 1 .. to) \cap AsleepTicks)
  IN  IF 2 * Max({locked, asleep}) < to - from THEN "no focus"
      ELSE IF asleep >= locked THEN "asleep" ELSE "locked"

Row(kind, from, of, says) ==
  [key |-> <<kind, from, of>>, says |-> says, top |-> FALSE, bottom |-> FALSE]
KindOf(row) == row.key[1]
KeyOf(act) == <<"entry", act.from, act.main>>
\* A hit on another application says which.
EntryRow(entry, query) ==
  Row("entry", entry.from, entry.main,
      <<entry.to, entry.parts, IF query \in {0, entry.main} THEN 0 ELSE query>>)
EndRow(query) == Row("end", 0, 0, <<query = 0>>)

\* The interruptions between the day's activities, which a search leaves out.
Interruptions(entries, day, query) ==
  IF query # 0 \/ entries = <<>> THEN {}
  ELSE {s \in Unrecorded(day, 0) : s[1] >= entries[1].to /\ s[2] <= entries[Len(entries)].from}

\* What has a time, in its order: activities, and interruptions.
Timed(entries, day, query) ==
  LET gaps == SetToSeq(Interruptions(entries, day, query))
      all == [i \in DOMAIN entries |-> [from |-> entries[i].from, to |-> entries[i].to,
                                        row |-> EntryRow(entries[i], query)]]
             \o [i \in DOMAIN gaps |-> [from |-> gaps[i][1], to |-> gaps[i][2],
                                        row |-> Row("gap", gaps[i][1], 0, <<gaps[i][2]>>)]]
  IN  SortSeq(all, LAMBDA x, y : x.from < y.from)

Rails(rows) ==
  LET joins(i) == i \in DOMAIN rows /\ KindOf(rows[i]) \in {"entry", "pause", "gap"}
  IN  [i \in DOMAIN rows |-> [rows[i] EXCEPT !.top = joins(i - 1) /\ joins(i),
                                             !.bottom = joins(i + 1) /\ joins(i)]]

\* The rows above one that has a time: a long break since the activity before
\* it, and the header of its part of the day.
Above(timed, i, query) ==
  LET x == timed[i]
      before == timed[i - 1]
      breaks == query = 0 /\ i > 1 /\ KindOf(x.row) = "entry" /\ KindOf(before.row) = "entry"
                  /\ x.from - before.to >= LongBreak
      begins == i = 1 \/ Period(x.from) # Period(before.from)
  IN  (IF breaks THEN <<Row("pause", before.to, 0, BreakTitle(before.to, x.from))>> ELSE <<>>)
        \o (IF begins THEN <<Row("period", IF x.from <= Noon THEN 0 ELSE 1, 0, "")>> ELSE <<>>)

Focused(day, a) == Cardinality({i \in DOMAIN day : day[i] = a})

\* flatten_days
Flattened(entries, day, query) ==
  LET found == SelectSeq(entries, LAMBDA entry : Matches(entry, query))
      timed == Timed(found, day, query)
      parts == [i \in DOMAIN timed |-> Above(timed, i, query) \o <<timed[i].row>>]
      header == Row("day", 0, 0, IF query = 0 THEN [a \in Apps |-> Focused(day, a)]
                                 ELSE <<Len(found)>>)
      body == IF timed = <<>> THEN <<Row("empty", 0, 0, "")>> ELSE FlattenSeq(parts)
  IN  Rails(<<EndRow(query)>> \o
            (IF found = <<>> /\ query # 0 THEN <<>> ELSE <<header>> \o body))

\* What stands for a day that is not in memory: its header, unless a search is on.
Awaited(query) ==
  <<EndRow(query)>> \o (IF query = 0 THEN <<Row("day", 0, 0, <<>>)>> ELSE <<>>)

-----------------------------------------------------------------------------
(* patch: touch only the rows that changed. *)

\* As SameItem, by a bug: a row whose neighbour went keeps its rail.
SameItemButRails(x, y) == x.key = y.key /\ x.says = y.says
SameItem(x, y) == x = y

\* How many keys at the front, and then at the end, of both sequences are equal.
Prefix(model, items) ==
  Max({n \in 0 .. Min({Len(model), Len(items)}) :
         \A i \in 1..n : model[i].key = items[i].key})
Suffix(model, items, prefix) ==
  Max({n \in 0 .. Min({Len(model), Len(items)}) - prefix :
         \A i \in 0 .. n - 1 : model[Len(model) - i].key = items[Len(items) - i].key})

Patched(model, items) ==
  LET prefix == Prefix(model, items)
      suffix == Suffix(model, items, prefix)
      kept == SubSeq(model, 1, prefix) \o SubSeq(model, Len(model) - suffix + 1, Len(model))
      old(i) == IF i <= prefix THEN kept[i] ELSE kept[i - (Len(items) - Len(kept))]
      inserted(i) == i > prefix /\ i <= Len(items) - suffix
  IN  [i \in DOMAIN items |-> IF ~inserted(i) /\ SameItem(old(i), items[i]) THEN old(i)
                              ELSE items[i]]

-----------------------------------------------------------------------------
(* The page. *)

\* "of" is what the times in the pane were read for.
NoPane == [open |-> FALSE, key |-> <<>>, to |-> 0, loading |-> FALSE, of |-> <<>>]

ShownInit ==
  /\ RowsInit
  /\ inMemory = FALSE /\ roles = <<>> /\ sought = 0 /\ shown = <<>>
  /\ selected = <<>> /\ pane = NoPane
  /\ job = <<>> /\ answer = <<>> /\ posted = 0
  /\ unheard = FALSE /\ missed = FALSE /\ choices = 0

GoesOn == choices + late + Len(ticks) < MaxTogether
Chooses == choices < MaxChoices /\ GoesOn /\ choices' = choices + 1
DayStays == UNCHANGED <<rowVars, roles>>
PaneStays == UNCHANGED <<selected, pane, job, answer, posted, missed>>

\* paging::refresh with today read again, and publish.
ShowAgain ==
  LET rebuilt == Rebuilt(listed, source, ticks)
      parts == RolesRebuilt(listed, roles, source, ticks, rebuilt)
  IN  /\ source # ticks \/ ~inMemory
      /\ source' = ticks /\ listed' = rebuilt /\ roles' = parts /\ inMemory' = TRUE
      /\ shown' = Patched(shown, Flattened(Entries(rebuilt, parts), ticks, sought))
      /\ PaneStays /\ UNCHANGED <<ticks, late, sought, unheard, choices>>

\* on_history_search, on_history_jump
SearchFor(query) ==
  /\ query # sought /\ Chooses /\ sought' = query
  /\ shown' = Patched(shown, IF inMemory
                             THEN Flattened(Entries(listed, roles), source, query)
                             ELSE Awaited(query))
  /\ DayStays /\ PaneStays /\ UNCHANGED <<inMemory, unheard>>

\* The days in memory are forgotten; they will be read anew.
Forgets ==
  /\ inMemory' = FALSE /\ source' = <<>> /\ listed' = <<>> /\ roles' = <<>>
  /\ shown' = Patched(Patched(shown, <<>>), Awaited(sought))
  /\ UNCHANGED <<ticks, late, sought>>

\* invalidate, noticed by refresh: the same records read differently.
Invalidate == Chooses /\ Forgets /\ PaneStays /\ UNCHANGED unheard

\* All data is cleared, and then the timer hears of it (reset).
Wipe ==
  /\ Chooses /\ ticks # <<>> /\ ticks' = [i \in DOMAIN ticks |-> Nobody]
  /\ unheard' = TRUE
  /\ PaneStays /\ UNCHANGED <<source, listed, late, roles, inMemory, sought, shown>>
ResetHistory ==
  /\ unheard /\ unheard' = FALSE /\ Forgets
  /\ selected' = <<>>
  /\ UNCHANGED <<pane, job, answer, posted, missed, choices>>

-----------------------------------------------------------------------------
(* The pane. *)

Found(key) == {i \in DOMAIN listed : KeyOf(listed[i]) = key}

\* select: a thread begins to read; the one before, if any, finds nobody to tell.
Selects(i) ==
  LET act == listed[i] IN
  /\ selected' = KeyOf(act) /\ job' = <<KeyOf(act), act.to>> /\ answer' = <<>>
  /\ pane' = [NoPane EXCEPT !.open = TRUE, !.key = KeyOf(act), !.to = act.to, !.loading = TRUE]
  /\ missed' = FALSE
  /\ DayStays /\ UNCHANGED <<inMemory, sought, shown, posted, unheard>>

Select(key) == Chooses /\ \E i \in Found(key) : Selects(i)

\* on_history_step: the activity above or below, or the last of all.
ShownEntries == SelectSeq(shown, LAMBDA row : KindOf(row) = "entry")
Step(delta) ==
  LET at == {i \in DOMAIN ShownEntries : ShownEntries[i].key = selected}
      next == IF at = {} THEN Len(ShownEntries) ELSE Max(at) + delta
  IN  /\ next \in DOMAIN ShownEntries
      /\ Select(ShownEntries[next].key)

\* The thread reads what storage holds of the activity's time, or fails.
ReadDetail(ok) ==
  /\ job # <<>> /\ answer = <<>>
  /\ answer' = <<IF ok THEN job ELSE <<>> >>
  /\ posted' = posted + 1
  /\ DayStays
  /\ UNCHANGED <<inMemory, sought, shown, selected, pane, job, unheard, missed, choices>>

\* on_history_detail_ready, show_detail
DetailReady ==
  /\ posted > 0 /\ posted' = posted - 1
  /\ IF answer = <<>> THEN UNCHANGED <<pane, job, answer, missed>>
     ELSE /\ job' = <<>> /\ answer' = <<>>
          /\ IF selected # job[1] \/ Found(job[1]) = {}
             THEN missed' = TRUE /\ UNCHANGED pane
             ELSE /\ pane' = [pane EXCEPT !.loading = FALSE, !.of = answer[1]]
                  /\ UNCHANGED missed
  /\ DayStays /\ UNCHANGED <<inMemory, sought, shown, selected, unheard, choices>>

\* on_history_close
ClosePane ==
  /\ Chooses /\ pane.open
  /\ selected' = <<>> /\ job' = <<>> /\ answer' = <<>> /\ pane' = NoPane /\ missed' = FALSE
  /\ DayStays /\ UNCHANGED <<inMemory, sought, shown, posted, unheard>>

ShownNext ==
  \/ /\ GoesOn /\ UNCHANGED shownVars
     /\ \/ \E v \in Apps \cup {Nobody, Lost} : Record(v)
        \/ \E i \in DOMAIN ticks, v \in Apps \cup {Lost} : RecordLate(i, v)
  \/ ShowAgain \/ Invalidate \/ Wipe \/ ResetHistory
  \/ \E query \in {0} \cup Apps : SearchFor(query)
  \/ \E i \in DOMAIN shown : Select(shown[i].key)
  \/ \E delta \in {-1, 1} : Step(delta)
  \/ \E ok \in BOOLEAN : ReadDetail(ok)
  \/ DetailReady \/ ClosePane

ShownSpec == ShownInit /\ [][ShownNext]_<<rowVars, shownVars>>

-----------------------------------------------------------------------------
ShownTypeOK ==
  /\ inMemory \in BOOLEAN /\ sought \in {0} \cup Apps /\ posted \in 0..MaxChoices
  /\ Len(answer) <= 1 /\ (answer # <<>> => job # <<>>)
  /\ selected # <<>> => pane.open

\* The rows on screen tell the day as it was last read: every activity that is
\* sought, and every interruption between them, in their order and once, below
\* the header of its part of the day; a break where nothing else explains a long
\* absence; and rails that meet (history.rs 420-688, 689-722).
RowsTellTheDay ==
  LET rows(kind) == SelectSeq(shown, LAMBDA row : KindOf(row) = kind)
      told == rows("entry")
      entries == SelectSeq(
        Entries(listed, [i \in DOMAIN listed |-> Participants(source, listed[i])]),
        LAMBDA entry : Matches(entry, sought))
      places(key) == {i \in DOMAIN shown : shown[i].key = key}
      place(key) == CHOOSE i \in places(key) : TRUE
      periods(i) == {j \in 1 .. i - 1 : KindOf(shown[j]) = "period"}
      gaps == Interruptions(entries, source, sought)
      explained(x, y) == \E g \in gaps : g[1] >= x.from /\ g[1] < y.from
  IN  /\ [i \in DOMAIN told |-> [told[i] EXCEPT !.top = FALSE, !.bottom = FALSE]]
           = [i \in DOMAIN entries |-> EntryRow(entries[i], sought)]
      /\ {row.key[2] : row \in ToSet(rows("gap"))} = {g[1] : g \in gaps}
      /\ Len(rows("gap")) = Cardinality(gaps) /\ Len(rows("period")) <= 2
      /\ \A i \in DOMAIN shown : KindOf(shown[i]) \in {"entry", "gap"} =>
           /\ periods(i) # {}
           /\ shown[Max(periods(i))].key[2] = IF shown[i].key[2] <= Noon THEN 0 ELSE 1
      /\ \A i \in 2 .. Len(entries) :
           LET x == entries[i - 1]
               y == entries[i]
               breaks == places(<<"pause", x.to, 0>>)
           IN  IF sought = 0 /\ y.from - x.to >= LongBreak /\ ~explained(x, y)
               THEN \E j \in breaks : /\ shown[j].says = BreakTitle(x.to, y.from)
                                      /\ place(KeyOf(x)) < j /\ j < place(KeyOf(y))
               ELSE breaks = {}
      /\ \A i \in 1 .. Len(shown) - 1 :
           /\ shown[i].bottom = shown[i + 1].top
           /\ shown[i].bottom =
                (\A j \in {i, i + 1} : KindOf(shown[j]) \in {"entry", "pause", "gap"})

\* The pane is of the chosen activity, until a reset takes the choice away; the
\* times in it are those of its own span, whatever was chosen before and has
\* still answered; and while it says that they are being read they are, unless
\* they came when the activity was not listed (history.rs 851-866, 1131-1162).
PaneTellsTheChosen ==
  pane.open =>
    /\ selected \in {pane.key, <<>>}
    /\ pane.loading => job = <<pane.key, pane.to>> \/ missed
    /\ pane.of \in {<<>>, <<pane.key, pane.to>>}

\* What is on screen is true: the rows once the day is in memory, and the pane.
HistoryIsShown == (inMemory => RowsTellTheDay) /\ PaneTellsTheChosen
=============================================================================
