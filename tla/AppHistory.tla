----------------------------- MODULE AppHistory ------------------------------
(***************************************************************************)
(* Deleting one stretch of an application's history                         *)
(* (delete_application_activity_between in the storage's collection.rs)     *)
(* while the collector goes on recording it: what it observed before and    *)
(* has on its way arrives after the deletion (start_after_deletions and its *)
(* callers in lib.rs, ingest_input_minute).                                 *)
(*                                                                          *)
(* One window; each of its states is one use of the application.  The rows  *)
(* of the window itself and of a tray icon are cut by the same rules, and   *)
(* so is monotonic time.  Minutes of input have the length of the clock's   *)
(* step.  A deletion is forgotten after a day, when nothing is on its way;  *)
(* that is left out.                                                        *)
(***************************************************************************)
EXTENDS Integers, FiniteSets, Sequences

CONSTANTS
  MaxTime,    \* bounds time
  MaxUses,    \* bounds the states of the window
  MaxCuts,    \* bounds the deletions
  DeletedStretches,  \* what may be deleted, [from |-> .., until |-> ..]
  Open        \* the end of what has not ended yet

Times == 0..MaxTime
Uses == 1..MaxUses

ASSUME AppHistoryAssumption ==
  /\ {MaxTime, MaxUses, MaxCuts} \subseteq Nat /\ Open \notin Times
  /\ DeletedStretches \subseteq [from: Times, until: Times]

VARIABLES
  now,        \* the clock
  life,       \* what happened: the uses, [from, until] each
  typing,     \* the minutes in which something was typed
  coming,     \* the events on their way to the core; each has the use it is of, as history
  arrived,    \* how many uses have begun in storage
  states,     \* window_state_intervals: use, from, until
  minutes,    \* input_minute_buckets
  deletions,  \* deleted_application_stretches
  cuts        \* deletions so far

historyVars == <<now, life, typing, coming, arrived, states, minutes, deletions, cuts>>
storageVars == <<arrived, states, minutes, deletions, cuts>>

AppHistoryTypeOK ==
  /\ now \in Times /\ arrived \in 0..MaxUses /\ cuts \in 0..MaxCuts
  /\ life \in Seq([from: Times, until: Times \cup {Open}])
  /\ typing \subseteq Times /\ minutes \subseteq Times
  /\ coming \in Seq([kind: {"opened", "updated", "closed", "input"}, use: 0..MaxUses, at: Times])
  /\ states \subseteq [use: Uses, from: Times, until: Times \cup {Open}]
  /\ deletions \subseteq [from: Times, until: Times]

AppHistoryInit ==
  /\ now = 0 /\ life = <<>> /\ typing = {} /\ coming = <<>>
  /\ arrived = 0 /\ states = {} /\ minutes = {} /\ deletions = {} /\ cuts = 0

-----------------------------------------------------------------------------
(* The application and the collector. *)

InUse == life # <<>> /\ life[Len(life)].until = Open
Ended == [life EXCEPT ![Len(life)].until = now]
Sends(kind, use, at) == coming' = Append(coming, [kind |-> kind, use |-> use, at |-> at])

TimePasses ==
  /\ now < MaxTime
  /\ now' = now + 1
  /\ UNCHANGED <<life, typing, coming, storageVars>>

WindowOpens ==
  /\ ~InUse /\ Len(life) < MaxUses
  /\ life' = Append(life, [from |-> now, until |-> Open])
  /\ Sends("opened", Len(life) + 1, now)
  /\ UNCHANGED <<now, typing, storageVars>>

WindowChanges ==
  /\ InUse /\ Len(life) < MaxUses
  /\ life' = Append(Ended, [from |-> now, until |-> Open])
  /\ Sends("updated", Len(life) + 1, now)
  /\ UNCHANGED <<now, typing, storageVars>>

WindowCloses ==
  /\ InUse
  /\ life' = Ended
  /\ Sends("closed", Len(life), now)
  /\ UNCHANGED <<now, typing, storageVars>>

\* The minute before this one is sealed: its input was the application's.
MinuteSealed ==
  /\ now > 0 /\ now - 1 \notin typing
  /\ typing' = typing \cup {now - 1}
  /\ Sends("input", 0, now - 1)
  /\ UNCHANGED <<now, life, storageVars>>

-----------------------------------------------------------------------------
(* The core. *)

\* As StartAfterDeletions, by a bug: only what began with the stretch is late.
StartAtTheEvent(at) ==
  IF \E d \in deletions : d.from = at
  THEN (CHOOSE d \in deletions : d.from = at).until ELSE at

\* start_after_deletions: where the deletion ends, the latest there is.
StartAfterDeletions(at) ==
  LET over == {d.until : d \in {e \in deletions : e.from <= at /\ at < e.until}}
  IN  IF over = {} THEN at ELSE CHOOSE u \in over : \A v \in over : v <= u

\* close_window_state: what would end before it starts was deleted.
StateEnds(at) ==
  {[s EXCEPT !.until = IF @ = Open THEN at ELSE @] :
     s \in {t \in states : t.until # Open \/ t.from <= at}}

StateBegins(at) == [use |-> arrived + 1, from |-> StartAfterDeletions(at), until |-> Open]

\* ingest_input_minute: a minute wholly deleted stays deleted.
MinuteDeleted(m) == \E d \in deletions : d.from <= m /\ m + 1 <= d.until

\* open_window_instance, update_window_instance, close_window_instance,
\* ingest_input_minute.
Arrives ==
  LET event == Head(coming) IN
  /\ coming # <<>>
  /\ coming' = Tail(coming)
  /\ states' =
       CASE event.kind = "opened" -> states \cup {StateBegins(event.at)}
         [] event.kind = "updated" -> StateEnds(event.at) \cup {StateBegins(event.at)}
         [] event.kind = "closed" -> StateEnds(event.at)
         [] event.kind = "input" -> states
  /\ arrived' = IF event.kind \in {"opened", "updated"} THEN arrived + 1 ELSE arrived
  /\ minutes' = IF event.kind = "input" /\ ~MinuteDeleted(event.at)
                THEN minutes \cup {event.at} ELSE minutes
  /\ UNCHANGED <<now, life, typing, deletions, cuts>>

Inside(s, d) == s.from >= d.from /\ s.until # Open /\ s.until <= d.until
CrossesStart(s, d) ==
  s.from < d.from /\ s.until # Open /\ s.until > d.from /\ s.until <= d.until
CrossesEnd(s, d) ==
  s.from >= d.from /\ s.from < d.until /\ (s.until = Open \/ s.until > d.until)

\* clip: what crosses one edge is cut back to it; what crosses both stays.
Clipped(s, d) ==
  IF CrossesStart(s, d) THEN [s EXCEPT !.until = d.from]
  ELSE IF CrossesEnd(s, d) THEN [s EXCEPT !.from = d.until]
  ELSE s

\* delete_application_activity_between; nothing after now is deleted, and
\* without anything to delete nothing is written.
Cut(stretch) ==
  LET d == [stretch EXCEPT !.until = IF now < @ THEN now ELSE @]
      kept == {Clipped(s, d) : s \in {t \in states : ~Inside(t, d)}}
      left == {m \in minutes : ~(d.from <= m /\ m + 1 <= d.until)}
  IN  /\ d.from < d.until /\ cuts < MaxCuts
      /\ states # kept \/ minutes # left
      /\ states' = kept /\ minutes' = left
      /\ deletions' = deletions \cup {d}
      /\ cuts' = cuts + 1
      /\ UNCHANGED <<now, life, typing, coming, arrived>>

AppHistoryNext ==
  \/ TimePasses \/ WindowOpens \/ WindowChanges \/ WindowCloses \/ MinuteSealed \/ Arrives
  \/ \E stretch \in DeletedStretches : Cut(stretch)

AppHistorySpec == AppHistoryInit /\ [][AppHistoryNext]_historyVars

-----------------------------------------------------------------------------
Ticks(from, until) == {t \in Times : from <= t /\ t < until}
TicksOf(s) == Ticks(s.from, IF s.until = Open THEN now ELSE s.until)
Lived(u) == TicksOf(life[u])
Stored(u) == UNION {TicksOf(s) : s \in {t \in states : t.use = u}}
DeletedTicks == UNION {Ticks(d.from, d.until) : d \in deletions}

Settled(u) == u <= arrived /\ ~\E s \in states : s.use = u /\ s.until = Open

\* However late its events arrive, of a use that began in a deleted stretch
\* or after its start nothing of the stretch is shown; all of it that was not
\* deleted is, once it has ended in storage; and nothing else.  A minute of
\* input wholly in a deleted stretch does not come back.
OnlyTheStretchIsGone ==
  /\ \A u \in 1..arrived :
       /\ Stored(u) \subseteq Lived(u) \cup Ticks(IF life[u].until = Open THEN now ELSE life[u].until, now)
       /\ Settled(u) => Stored(u) \subseteq Lived(u) /\ Lived(u) \ DeletedTicks \subseteq Stored(u)
       /\ \A d \in deletions : life[u].from >= d.from => Stored(u) \cap Ticks(d.from, d.until) = {}
  /\ \A m \in minutes : ~MinuteDeleted(m)
  /\ \A m \in typing : m \in minutes \/ MinuteDeleted(m) \/ \E i \in DOMAIN coming :
       coming[i].kind = "input" /\ coming[i].at = m
=============================================================================
