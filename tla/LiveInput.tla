------------------------------ MODULE LiveInput ------------------------------
(***************************************************************************)
(* The counts on the statistics page that move as the user types: previews  *)
(* of the minute the collector has not sealed yet (collector live.rs and    *)
(* InputAggregator::live), carried over the collector's pipe (the server    *)
(* loop in the app's main.rs), and added by the page to the totals it read  *)
(* from storage (app live_input.rs).  Previews and sealed minutes reach the *)
(* core by different ways, and the page reads storage at moments of its own.*)
(*                                                                          *)
(* One count stands for the four of keyboard and buttons.                   *)
(***************************************************************************)
EXTENDS Integers, FiniteSets, Sequences
LOCAL INSTANCE SequencesExt

CONSTANTS
  LastMinuteOfInput,  \* bounds time
  MaxTyped,           \* bounds the presses
  MaxStops,           \* bounds restarts of the collector and clears
  KeptFor,            \* how long a preview waits for its minute: 10 in the code
  Near,               \* how far the minutes a read lists lie from now: 20 in the code
  Ranges,             \* the ranges shown: the first minute and the one after the last
  NoPreview           \* nothing

InputMinutes == 1..LastMinuteOfInput

VARIABLES
  minuteNow,      \* the clock
  typed,          \* presses made in each minute, since the last clear
  unsealed,       \* of those, the ones the collector has not sealed
  sealedMinutes,  \* minutes on their way to storage: minute and count
  storedInput,    \* what storage holds of each minute
  offered,        \* the newest preview, on its way to the page
  kept,           \* the previews the page keeps: minute, count, when it arrived
  keptFrom,       \* the generation of the data they were counted against
  dataset,        \* the generation of the data; clearing it begins another
  reading,        \* a read of storage the page has not shown yet
  overview,       \* the read it shows
  stops

liveVars == <<minuteNow, typed, unsealed, sealedMinutes, storedInput, offered,
              kept, keptFrom, dataset, reading, overview, stops>>
collectorVars == <<unsealed, sealedMinutes>>
pageVars == <<kept, keptFrom, reading, overview>>

Preview == [minute: InputMinutes, count: Nat]
ReadOf == [range: Ranges, dataset: Nat, stored: SUBSET InputMinutes, total: Nat]

LiveTypeOK ==
  /\ minuteNow \in InputMinutes
  /\ typed \in [InputMinutes -> Nat] /\ unsealed \in [InputMinutes -> Nat]
  /\ storedInput \in [InputMinutes -> Nat]
  /\ sealedMinutes \in Seq(Preview)
  /\ offered \in Preview \cup {NoPreview}
  /\ kept \subseteq [minute: InputMinutes, count: Nat, at: InputMinutes]
  /\ reading \in ReadOf \cup {NoPreview} /\ overview \in ReadOf \cup {NoPreview}

InRange(m, range) == range.start <= m /\ m < range.end
SumOfMinutes(f, S) == FoldLeft(LAMBDA n, m : n + f[m], 0, SetToSeq(S))

Nothing == [m \in InputMinutes |-> 0]

LiveInit ==
  /\ minuteNow = 1 /\ typed = Nothing /\ unsealed = Nothing /\ storedInput = Nothing
  /\ sealedMinutes = <<>> /\ offered = NoPreview
  /\ kept = {} /\ keptFrom = 0 /\ dataset = 0
  /\ reading = NoPreview /\ overview = NoPreview /\ stops = 0

-----------------------------------------------------------------------------
(* The collector. *)

Type ==
  /\ SumOfMinutes(typed, InputMinutes) < MaxTyped
  /\ typed' = [typed EXCEPT ![minuteNow] = @ + 1]
  /\ unsealed' = [unsealed EXCEPT ![minuteNow] = @ + 1]
  /\ UNCHANGED <<minuteNow, sealedMinutes, storedInput, offered, dataset, stops, pageVars>>

MinutePasses ==
  /\ minuteNow < LastMinuteOfInput
  /\ minuteNow' = minuteNow + 1
  /\ UNCHANGED <<typed, storedInput, offered, dataset, stops, collectorVars, pageVars>>

Completed(before) == {m \in InputMinutes : m < before /\ unsealed[m] > 0}

\* take_completed: the minutes that are over go to the spool.
SealWhat(minutes) ==
  /\ sealedMinutes' = sealedMinutes \o SetToSeq({[minute |-> m, count |-> unsealed[m]] : m \in minutes})
  /\ unsealed' = [m \in InputMinutes |-> IF m \in minutes THEN 0 ELSE unsealed[m]]

Seal ==
  /\ Completed(minuteNow) # {}
  /\ SealWhat(Completed(minuteNow))
  /\ UNCHANGED <<minuteNow, typed, storedInput, offered, dataset, stops, pageVars>>

\* The collector stops in order, or begins another run: it seals what it has,
\* the running minute too, and counts that minute afresh.
Restart ==
  /\ stops < MaxStops
  /\ SealWhat(Completed(LastMinuteOfInput + 1))
  /\ stops' = stops + 1
  /\ UNCHANGED <<minuteNow, typed, storedInput, offered, dataset, pageVars>>

\* LivePreview::offer of InputAggregator::live: the running minute alone.  The
\* thread that sends keeps the newest only.  (That a preview equal to the one
\* before is not sent again is left out.)
Offer ==
  LET preview == [minute |-> minuteNow, count |-> unsealed[minuteNow]]
  IN  /\ offered # preview
      /\ offered' = preview
      /\ UNCHANGED <<minuteNow, typed, unsealed, sealedMinutes, storedInput, dataset, stops, pageVars>>

-----------------------------------------------------------------------------
(* The core. *)

\* A batch is ingested (ingest_input_minute adds to the bucket).
Store ==
  /\ sealedMinutes # <<>>
  /\ storedInput' = [storedInput EXCEPT ![Head(sealedMinutes).minute] = @ + Head(sealedMinutes).count]
  /\ sealedMinutes' = Tail(sealedMinutes)
  /\ UNCHANGED <<minuteNow, typed, unsealed, offered, dataset, stops, pageVars>>

\* As Current, by a bug: previews of cleared data count too.
CurrentOfAnyData == {p \in kept : minuteNow - p.at < KeptFor}

\* Previews::current: previews of other data, and old ones, are let go.
Current == {p \in kept : keptFrom = dataset /\ minuteNow - p.at < KeptFor}

\* The page is not on screen, or the collector's call fails.
PreviewIsLost ==
  /\ offered # NoPreview
  /\ offered' = NoPreview
  /\ UNCHANGED <<minuteNow, typed, storedInput, dataset, stops, collectorVars, pageVars>>

\* live_input::receive.
Receive ==
  /\ offered # NoPreview
  /\ kept' = {p \in Current : p.minute # offered.minute}
               \cup {[minute |-> offered.minute, count |-> offered.count, at |-> minuteNow]}
  /\ keptFrom' = dataset
  /\ offered' = NoPreview
  /\ UNCHANGED <<minuteNow, typed, storedInput, dataset, stops, collectorVars, reading, overview>>

\* stored_input_minutes_near.
RecentMinutes == {m \in InputMinutes : storedInput[m] > 0 /\ m - minuteNow \in (-Near)..Near}

\* A worker reads the view; the newest read is the one that will be shown.
ReadStorage(range) ==
  /\ reading' = [range |-> range, dataset |-> dataset, stored |-> RecentMinutes,
                 total |-> SumOfMinutes(storedInput, {m \in InputMinutes : InRange(m, range)})]
  /\ UNCHANGED <<minuteNow, typed, storedInput, offered, dataset, stops, collectorVars,
                 kept, keptFrom, overview>>

\* set_overview.
ShowRead ==
  /\ reading # NoPreview
  /\ overview' = reading /\ reading' = NoPreview
  /\ UNCHANGED <<minuteNow, typed, storedInput, offered, dataset, stops, collectorVars,
                 kept, keptFrom>>

\* The user clears all data, or restores a backup: the collector forgets what
\* it counted and what waits for the core (ClearAll).  It takes the collector
\* some loops to confirm, and by then a preview it sent is with the page.
ClearData ==
  /\ stops < MaxStops /\ offered = NoPreview
  /\ typed' = Nothing /\ unsealed' = Nothing /\ storedInput' = Nothing
  /\ sealedMinutes' = <<>> /\ dataset' = dataset + 1 /\ stops' = stops + 1
  /\ UNCHANGED <<minuteNow, offered, pageVars>>

LiveNext ==
  \/ Type \/ MinutePasses \/ Seal \/ Restart \/ Offer
  \/ Store \/ PreviewIsLost \/ Receive \/ ShowRead \/ ClearData
  \/ \E range \in Ranges : ReadStorage(range)

LiveSpec == LiveInit /\ [][LiveNext]_liveVars

-----------------------------------------------------------------------------
\* show_overview: the totals read, and of the minutes they lack the previews.
Unstored == {p \in Current : p.minute \notin overview.stored /\ InRange(p.minute, overview.range)}
ShownCount ==
  overview.total + FoldLeft(LAMBDA n, p : n + p.count, 0, SetToSeq(Unstored))

\* What the page shows of a range never exceeds what was typed in it, however
\* previews, sealed minutes and reads of storage overtake each other: no minute
\* is shown twice, as its preview and as stored (Previews::unstored).
ShownOnce ==
  overview # NoPreview /\ overview.dataset = dataset =>
    ShownCount <= SumOfMinutes(typed, {m \in InputMinutes : InRange(m, overview.range)})
=============================================================================
