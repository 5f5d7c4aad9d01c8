---------------------------- MODULE StatisticsPages ----------------------------
(***************************************************************************)
(* The statistics in the window (main.rs, collection_ui.rs, ui_refresh.rs): *)
(* an application list and a keyboard that threads read, a timeline that     *)
(* the window reads itself, the range that they share, and the window's      *)
(* timer, which hears of changes to the data in three ways: the count of     *)
(* merges, the count of deletions and restores, and an action's message.     *)
(*                                                                          *)
(* The timer's callback is several steps, with other threads between them;   *)
(* what the user does comes between two callbacks.  Intervals are left out:  *)
(* what is due after one may be due at any time.  The page stays on the list *)
(* or on the keyboard, which share nothing but the range.                    *)
(***************************************************************************)
EXTENDS Naturals, FiniteSets, FiniteSetsExt

CONSTANTS Ranges,     \* what the statistics can be asked for
          None,       \* nothing
          Failed,     \* a read that failed
          MaxChanges, \* bounds the changes of the data
          MaxMoves    \* and what the user does

ASSUME StatisticsAssumption ==
  /\ {None, Failed} \cap (Ranges \cup [n: Nat, range: Ranges]) = {}
  /\ {MaxChanges, MaxMoves} \subseteq Nat

VARIABLES
  content,   \* how often the stored data has changed
  untold,    \* a change that the window could not hear of yet, or None
  announced, \* of each way to hear of one: the last change it tells
  told,      \* history: the last change the window has acted upon
  range, origin, chosen, \* the range shown; the one to go back to; history: the user's own
  view,      \* where the window is, whether it can be seen, whether an action runs
  tick,      \* the step of the timer's callback
  totals,    \* the application list: AppsState
  refresh,   \* UiRefresh, and what the timeline shows
  keys       \* the keyboard: what was asked, the reads under way, what it shows

statisticsVars == <<content, untold, announced, told, range, origin, chosen, view, tick, totals, refresh, keys>>
data == <<content, untold, announced>>
ranges == <<range, origin, chosen>>

Ways == {"merge", "dataset", "message"}
Unasked == [generation |-> 0, requested |-> None, pending |-> None, shown |-> None]

Read(r) == [range |-> r, content |-> content]

-----------------------------------------------------------------------------
(* The data. *)

Change ==
  /\ content < MaxChanges /\ untold = None
  /\ content' = content + 1
  /\ \E way \in Ways : untold' = [way |-> way, content |-> content + 1]
  /\ UNCHANGED <<announced, told, ranges, view, tick, totals, refresh, keys>>

\* invalidate, dataset_changed, or the message of an action.
Announce ==
  /\ untold # None
  /\ announced' = [announced EXCEPT ![untold.way] = untold.content] /\ untold' = None
  /\ UNCHANGED <<content, told, ranges, view, tick, totals, refresh, keys>>

-----------------------------------------------------------------------------
(* Threads. *)

\* request_apps's thread; a read that was dropped comes to nothing.
Gather ==
  /\ totals.pending # None /\ totals.pending.result = None
  /\ \E result \in {Read(totals.pending.range), Failed} : totals' = [totals EXCEPT !.pending.result = result]
  /\ UNCHANGED <<data, told, ranges, view, tick, refresh, keys>>

\* action_busy and a collection action's busy, which others set and clear.
Occupy ==
  /\ view.moves < MaxMoves
  /\ \E busy \in {"action", "collection", "no"} \ {view.busy} :
       view' = [view EXCEPT !.busy = busy, !.moves = @ + 1]
  /\ UNCHANGED <<data, told, ranges, tick, totals, refresh, keys>>

-----------------------------------------------------------------------------
(* The user, between two callbacks. *)

Move(v) == tick = "idle" /\ view.moves < MaxMoves /\ view' = [v EXCEPT !.moves = @ + 1]

Asked(r) == [keys EXCEPT !.asked = @ + 1, !.pending = TRUE,
                         !.reads = @ \cup {[n |-> keys.asked + 1, range |-> r]}]

\* Action 7. While a collection action runs nothing is asked.
AskKeys(r) == keys' = IF view.busy = "collection" THEN keys ELSE Asked(r)

\* refresh_timeline at once; storage may be busy or fail.
RefreshTimeline(r) == \E shown \in {refresh.timeline, Read(r)} : refresh' = [refresh EXCEPT !.timeline = shown]

Hide ==
  /\ Move([view EXCEPT !.active = ~@])
  /\ UNCHANGED <<data, told, ranges, tick, totals, refresh, keys>>

\* on_navigate; leaving a page puts the range back, as on_range_origin_restore.
Navigate ==
  /\ \E page \in {"statistics", "other"} \ {view.page} :
       /\ Move([view EXCEPT !.page = page])
       /\ IF origin = None THEN UNCHANGED <<ranges, refresh>>
          ELSE range' = origin /\ origin' = None /\ UNCHANGED chosen /\ RefreshTimeline(origin)
       /\ IF page = "statistics" /\ view.tab = "keys" THEN AskKeys(range') ELSE UNCHANGED keys
  /\ UNCHANGED <<data, told, tick, totals>>

\* on_date_selected and its like replace the whole state, on_time_range_selected does
\* not; then stats-changed. A running action refuses them.
ChooseRange ==
  /\ Move(view) /\ view.page = "statistics" /\ view.busy # "action"
  /\ \E r \in Ranges \ {range} : range' = r /\ chosen' = r /\ origin' = None
  /\ RefreshTimeline(range')
  /\ totals' \in {Unasked, [totals EXCEPT !.requested = None]}
  /\ IF view.tab = "keys" THEN AskKeys(range') ELSE UNCHANGED keys
  /\ UNCHANGED <<data, told, tick>>

\* As Saved, by a bug: the range before, whatever it was.
SavedLast == range
\* The first of several activities keeps the range to go back to.
Saved == IF origin = None THEN range ELSE origin

\* focus_range: the timeline points the pages at an activity.
PointAt ==
  /\ Move(view)
  /\ \E r \in Ranges \ {range} : range' = r /\ origin' = Saved /\ RefreshTimeline(r)
  /\ UNCHANGED <<data, told, chosen, tick, totals, keys>>

\* As Shown, by a bug: whichever read comes last.
ShownOf(read) == [keys EXCEPT !.pending = @ /\ read.n # keys.asked, !.reads = @ \ {read}, !.shown = read]
\* Only the latest shows.
Shown(read) ==
  IF read.n # keys.asked THEN [keys EXCEPT !.reads = @ \ {read}]
  ELSE [keys EXCEPT !.reads = @ \ {read}, !.pending = FALSE, !.shown = read]

\* load_statistics's threads end in any order; a read that failed leaves what is there.
KeysAreRead ==
  /\ tick = "idle"
  /\ \E read \in keys.reads, shown \in BOOLEAN :
       keys' = IF shown THEN Shown(read)
               ELSE [Shown(read) EXCEPT !.shown = keys.shown, !.failed = IF read.n = keys.asked THEN read.n ELSE @]
  /\ UNCHANGED <<data, told, ranges, view, tick, totals, refresh>>

-----------------------------------------------------------------------------
(* The timer's callback. *)

Then(step) == tick' = step
On(tab) == view.page = "statistics" /\ view.tab = tab

\* keys_due and request_apps. A merge drops what was gathered before it.
Request ==
  /\ tick = "idle"
  /\ IF ~view.active THEN Then("reset") /\ UNCHANGED <<totals, told, keys>>
     ELSE \E current \in {IF totals.generation = announced["merge"] THEN totals
                          ELSE [Unasked EXCEPT !.generation = announced["merge"]]},
             due \in BOOLEAN :
       /\ Then("poll")
       /\ told' = Max({told, announced["merge"]})
       /\ totals' = IF On("totals") /\ current.pending = None
                       /\ (due \/ current.requested # range)
                    THEN [current EXCEPT !.requested = range, !.pending = [range |-> range, result |-> None]]
                    ELSE current
       /\ keys' = IF On("keys") /\ keys.shown # None /\ ~keys.pending /\ due /\ keys.asked < MaxMoves
                  THEN Asked(range) ELSE keys
  /\ UNCHANGED <<data, ranges, view, refresh>>

\* poll_apps: a range that is no longer asked for is not shown.
Poll ==
  /\ tick = "poll" /\ Then("reset")
  /\ totals' = IF totals.pending = None \/ totals.pending.result = None THEN totals
               ELSE [totals EXCEPT !.pending = None,
                       !.shown = IF totals.pending.result # Failed /\ totals.pending.range = range
                                 THEN totals.pending.result ELSE @]
  /\ UNCHANGED <<data, told, ranges, view, refresh, keys>>

\* As Forgotten, by a bug: a read that is under way goes on.
ForgottenShown == [totals EXCEPT !.requested = None, !.shown = None]
Forgotten == Unasked

\* data_generation and action_receiver.
Heard == Max({announced["dataset"], announced["message"]})
Reset ==
  /\ tick = "reset" /\ Then("refresh")
  /\ IF Heard = refresh.heard THEN UNCHANGED <<totals, refresh, told>>
     ELSE /\ totals' = Forgotten /\ told' = Max({told, Heard})
          /\ refresh' = [refresh EXCEPT !.heard = Heard, !.dirty = TRUE]
  /\ UNCHANGED <<data, ranges, view, keys>>

\* As Tried, by a bug: whatever comes of it.
TriedOnce(dirty, shown) == [refresh EXCEPT !.dirty = FALSE, !.active = TRUE, !.timeline = shown]
\* refreshed, if storage was free.
Tried(dirty, shown) ==
  [refresh EXCEPT !.dirty = dirty /\ shown # Read(range), !.active = TRUE, !.timeline = shown]

\* due: a window that is shown again is read anew; a hidden one keeps what it missed.
Refresh ==
  /\ tick = "refresh" /\ Then("idle")
  /\ \E dirty \in {refresh.dirty \/ (view.active /\ ~refresh.active)}, elapsed \in BOOLEAN :
       IF ~view.active \/ view.busy = "action" \/ ~(dirty \/ elapsed)
       THEN refresh' = [refresh EXCEPT !.dirty = dirty, !.active = view.active]
       ELSE \E shown \in {refresh.timeline, Read(range)} : refresh' = Tried(dirty, shown)
  /\ UNCHANGED <<data, told, ranges, view, totals, keys>>

-----------------------------------------------------------------------------
StatisticsInit ==
  /\ content = 0 /\ untold = None /\ announced = [way \in Ways |-> 0] /\ told = 0
  /\ range \in Ranges /\ chosen = range /\ origin = None
  /\ view \in [page : {"statistics"}, tab : {"totals", "keys"}, active : {TRUE}, busy : {"no"}, moves : {0}] /\ tick = "idle"
  /\ totals = Unasked
  /\ refresh = [active |-> FALSE, dirty |-> TRUE, heard |-> 0, timeline |-> Read(range)]
  /\ keys = [asked |-> 0, pending |-> FALSE, failed |-> 0, reads |-> {}, shown |-> None]

StatisticsNext ==
  \/ Change \/ Announce \/ Gather \/ Occupy
  \/ Hide \/ Navigate \/ ChooseRange \/ PointAt \/ KeysAreRead
  \/ Request \/ Poll \/ Reset \/ Refresh

StatisticsSpec == StatisticsInit /\ [][StatisticsNext]_statisticsVars

-----------------------------------------------------------------------------
(* Properties. *)

StatisticsTypeOK ==
  /\ content \in 0..MaxChanges /\ told \in 0..content
  /\ range \in Ranges /\ chosen \in Ranges /\ origin \in Ranges \cup {None}
  /\ tick \in {"idle", "poll", "reset", "refresh"} /\ Cardinality(keys.reads) <= keys.asked

\* The list that is not marked as loading was read after every change the window acted
\* upon, also by a thread that was reading while the data changed.
TotalsAreCurrent == totals.shown # None => totals.shown.content >= told

\* A change heard while the window was hidden, an action ran or storage was busy is not
\* forgotten: the timeline shows it, or is marked as not showing it.
TimelineIsCurrent == refresh.dirty \/ refresh.timeline.content >= refresh.heard

\* Reads of the keyboard that come in another order than they were asked for show the
\* latest, unless that one failed.
KeysAreLatest ==
  ~keys.pending /\ keys.asked # 0 => keys.failed = keys.asked \/ (keys.shown # None /\ keys.shown.n = keys.asked)

\* However many activities the timeline points at, the range the user chose comes back.
RangeComesBack == chosen = IF origin = None THEN range ELSE origin

\* The statistics are of the data and the range that the window says.
StatisticsAreCurrent == TotalsAreCurrent /\ TimelineIsCurrent /\ KeysAreLatest /\ RangeComesBack
=============================================================================
