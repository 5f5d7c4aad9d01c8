---------------------------- MODULE TimelineCache ----------------------------
(***************************************************************************)
(* The memory of the core's storage of the views it has answered            *)
(* (timelens-storage, timeline_cache.rs), beside the rows those views are   *)
(* read from (lib.rs, timeline_snapshot_selected) and the writes that make  *)
(* a remembered view stale: batches of the collector, retention, merges and *)
(* deletions.                                                               *)
(*                                                                          *)
(* A window, a state of a window and a tray continuation all become a span: *)
(* an application and when it began and ended, or StillRunning.             *)
(***************************************************************************)
EXTENDS Integers, FiniteSets, Sequences
LOCAL INSTANCE Functions

CONSTANTS
  Labelled,       \* an identity of an AppUserModelID ...
  Unlabelled,     \* ... and that of the executable behind it, which may join it
  NoApplication,  \* input that belongs to no application
  CacheSize,      \* how many views are remembered: 3 in the code
  Starts,         \* where the views asked for begin
  MinuteLength,   \* how long an input bucket is
  LastTick,       \* bounds time
  MaxSpans,       \* bounds the spans stored
  MaxCacheSteps   \* bounds the writes and reads of a behaviour

Identities == {Labelled, Unlabelled}
Moments == 1..LastTick

ASSUME CacheAssumption ==
  /\ Labelled # Unlabelled /\ NoApplication \notin Identities
  /\ {CacheSize, LastTick, MinuteLength} \subseteq Nat \ {0} /\ Starts \subseteq Nat

Minutes == {t \in Moments : t % MinuteLength = 1}
StillRunning == LastTick + MinuteLength + 1     \* later than any end

VARIABLES
  spans,     \* the stored spans: application, from, to
  presses,   \* the presses stored in each bucket of an application and minute
  holes,     \* the stored monitoring gaps
  edges,     \* which merges join the two identities: "user", "automatic"
  lastSeen,  \* when the collector's run was last heard
  entries,   \* the remembered views, oldest first
  current,   \* whether the cache knows of every change of the database
  cacheSteps

rows == <<spans, presses, holes, edges, lastSeen>>
cacheVars == <<rows, entries, current, cacheSteps>>

Buckets == (Identities \cup {NoApplication}) \X Minutes

CacheTypeOK ==
  /\ spans \subseteq [app: Identities, from: Moments, to: Moments \cup {StillRunning}]
  /\ presses \in [Buckets -> Nat]
  /\ holes \subseteq [from: Moments, to: Moments]
  /\ edges \subseteq {"user", "automatic"}
  /\ lastSeen \in Moments
  /\ Len(entries) <= CacheSize
  /\ current \in BOOLEAN

CacheInit ==
  /\ spans = {} /\ holes = {} /\ edges = {} /\ lastSeen = 1
  /\ presses = [b \in Buckets |-> 0]
  /\ entries = <<>> /\ current = TRUE /\ cacheSteps = 0

-----------------------------------------------------------------------------
(* What a view shows, read from the rows. *)

\* merge_group: an application is shown under the first identity of its group.
Root(app) == IF edges = {} THEN app ELSE Labelled
MergedWith(app) == {x \in Identities : Root(x) = Root(app)}

Shown(s, start, end) == s.from < end /\ s.to > start
Counted(b, start, end) == presses[b] > 0 /\ b[2] < end /\ b[2] + MinuteLength > start

Sum(counts) == SumFunction(counts)
SumOf(bs) == Sum([b \in bs |-> presses[b]])

\* How long within the view some span of the group lasts: overlapping
\* windows count once.
Covered(group, start, end) ==
  Cardinality({t \in start..(end - 1) :
                \E s \in spans : s.app \in group /\ s.from <= t /\ t < s.to})

\* timeline_snapshot_selected, of the sources named.
Applications(sources, start, end) ==
  LET shown == {Root(s.app) : s \in {x \in spans : x.app \in sources /\ Shown(x, start, end)}}
                 \cup {Root(b[1]) : b \in {x \in sources \X Minutes : Counted(x, start, end)}}
  IN  [r \in shown |->
        [time |-> Covered(MergedWith(r) \cap sources, start, end),
         keys |-> SumOf({b \in (MergedWith(r) \cap sources) \X Minutes :
                          Counted(b, start, end)})]]

Total(start, end) == SumOf({b \in Buckets : Counted(b, start, end)})
GapsIn(start, end) == {h \in holes : h.from < end /\ h.to > start}

View(start, end) ==
  [apps |-> Applications(Identities, start, end),
   total |-> Total(start, end), gaps |-> GapsIn(start, end)]

\* As NextBoundary, by a bug: the first moment after `end`.
NextBoundaryAfter(end) ==
  LET moments == {s.from : s \in spans} \cup {s.to : s \in spans}
      later == {t \in moments \ {StillRunning} : t > end}
  IN  IF later = {} THEN StillRunning ELSE CHOOSE t \in later : \A u \in later : t <= u

\* The first moment from `end` on at which some row begins or ends.
NextBoundary(end) ==
  LET moments == {s.from : s \in spans} \cup {s.to : s \in spans}
                   \cup {b[2] : b \in {x \in Buckets : presses[x] > 0}}
                   \cup {b[2] + MinuteLength : b \in {x \in Buckets : presses[x] > 0}}
                   \cup {h.from : h \in holes} \cup {h.to : h \in holes}
      later == {t \in moments \ {StillRunning} : t >= end}
  IN  IF later = {} THEN StillRunning ELSE CHOOSE t \in later : \A u \in later : t <= u

\* timeline_projections: the applications whose time runs on past `end`.
Running(end) == {Root(s.app) : s \in {x \in spans : x.from < end /\ x.to > end}}

-----------------------------------------------------------------------------
(* Asking for a view. *)

Earliest(is) == CHOOSE i \in is : \A j \in is : i <= j
OneByOne(is) ==
  CHOOSE s \in [1..Cardinality(is) -> is] : \A m, n \in DOMAIN s : m < n => s[m] < s[n]

\* Those of the views that have these places.
Kept(known, is) == [n \in 1..Cardinality(is) |-> known[OneByOne(is)[n]]]

Useful(e, start, end) == e.start = start /\ e.end <= end /\ end < e.next
Stale(e) == e.dirty # {} \/ e.totals

\* Cached::advance: time passes for what was running.
Advance(e, end) ==
  [e EXCEPT !.end = end,
            !.view.apps = [r \in DOMAIN e.view.apps |->
              [e.view.apps[r] EXCEPT !.time =
                 IF r \in e.running THEN @ + (end - e.end) ELSE @]]]

\* Only the applications a write has touched are read again, with those they
\* are merged with, and the totals.
ReadAgain(e, end) ==
  LET moved == Advance(e, end)
      sources == UNION {MergedWith(x) : x \in e.dirty}
      again == Applications(sources, e.start, end)
      kept == DOMAIN moved.view.apps \ {Root(x) : x \in e.dirty}
  IN  [moved EXCEPT
        !.view = [apps |-> [r \in kept \cup DOMAIN again |->
                              IF r \in DOMAIN again THEN again[r] ELSE moved.view.apps[r]],
                  total |-> Total(e.start, end), gaps |-> GapsIn(e.start, end)],
        !.dirty = {}, !.totals = FALSE, !.next = NextBoundary(end)]

ReadWhole(start, end) ==
  [start |-> start, end |-> end, view |-> View(start, end), edges |-> edges,
   running |-> {}, next |-> NextBoundary(end), dirty |-> {}, totals |-> FALSE]

Answer(known, found, start, end) ==
  LET e == known[Earliest(found)]
  IN  IF found = {} THEN ReadWhole(start, end)
      ELSE IF ~Stale(e) THEN Advance(e, end)
      ELSE IF e.edges = edges THEN ReadAgain(e, end)
      ELSE ReadWhole(start, end)

\* As Remembered, by a bug: nothing is ever forgotten.
RememberedAll(all) == all
\* The oldest view gives way.
Remembered(all) == IF Len(all) > CacheSize THEN Tail(all) ELSE all

\* timeline_snapshot_cached.
Ask(start, end) ==
  LET known == IF current THEN entries ELSE <<>>
      found == {i \in DOMAIN known : Useful(known[i], start, end)}
      rest == IF found = {} THEN known ELSE Kept(known, DOMAIN known \ {Earliest(found)})
      answer == [Answer(known, found, start, end) EXCEPT !.running = Running(end)]
  IN  /\ start < end
      /\ entries' = Remembered(Append(rest, answer))
      /\ current' = TRUE
      /\ UNCHANGED rows

-----------------------------------------------------------------------------
(* Writes. *)

\* TimelineCache::ingested, of a batch that touches these identities, input of
\* nobody, or holds a monitoring gap or begins a run.
Ingested(touched, nobodys, clears) ==
  /\ entries' = IF clears \/ ~current THEN <<>>
                ELSE [i \in DOMAIN entries |->
                       [entries[i] EXCEPT !.dirty = @ \cup touched,
                                          !.totals = @ \/ nobodys]]
  /\ current' = TRUE

\* A window opens.  With the first window of the executable, or the first
\* labelled one that names it, the two identities join (merge_edges).
SpanBegins(app, t, joins) ==
  /\ t >= lastSeen /\ Cardinality(spans) < MaxSpans
  /\ \A s \in spans : ~(s.app = app /\ s.to = StillRunning)
  /\ spans' = spans \cup {[app |-> app, from |-> t, to |-> StillRunning]}
  /\ edges' = IF joins THEN edges \cup {"automatic"} ELSE edges
  /\ lastSeen' = t
  /\ Ingested({app}, FALSE, FALSE)
  /\ UNCHANGED <<presses, holes>>

SpanEnds(s, t) ==
  /\ s.to = StillRunning /\ t > s.from /\ t >= lastSeen
  /\ spans' = (spans \ {s}) \cup {[s EXCEPT !.to = t]}
  /\ lastSeen' = t
  /\ Ingested({s.app}, FALSE, FALSE)
  /\ UNCHANGED <<presses, holes, edges>>

\* ingest_input_minute adds to the bucket of the minute, or starts it; how
\* often a bucket is added to is bounded.
InputArrives(b) ==
  /\ presses[b] = 0
  /\ presses' = [presses EXCEPT ![b] = @ + 1]
  /\ lastSeen' = IF b[2] + 1 > lastSeen THEN b[2] + 1 ELSE lastSeen
  /\ Ingested({b[1]} \ {NoApplication}, b[1] = NoApplication, FALSE)
  /\ UNCHANGED <<spans, holes, edges>>

\* The collector lost events: the whole batch may also hold other events.
GapArrives(t) ==
  /\ t > lastSeen
  /\ holes' = holes \cup {[from |-> lastSeen, to |-> t]}
  /\ lastSeen' = t
  /\ Ingested({}, FALSE, TRUE)
  /\ UNCHANGED <<spans, presses, edges>>

\* The first batch of another run: what the old one left open ended where that
\* run was last heard, and the time since is a gap (close_stale_runs).
RunBegins(t) ==
  /\ t > lastSeen
  /\ spans' = {IF s.to = StillRunning /\ s.from < lastSeen THEN [s EXCEPT !.to = lastSeen] ELSE s :
                s \in {x \in spans : x.to # StillRunning \/ x.from < lastSeen}}
  /\ holes' = holes \cup {[from |-> lastSeen, to |-> t]}
  /\ lastSeen' = t
  /\ Ingested({}, FALSE, TRUE)
  /\ UNCHANGED <<presses, edges>>

\* record_component_health writes no row a view shows.
HealthIsNoted ==
  /\ entries' = IF current THEN entries ELSE <<>>
  /\ current' = TRUE
  /\ UNCHANGED rows

Removed(cutoff) ==
  /\ spans' = {s \in spans : s.to >= cutoff}
  /\ presses' = [b \in Buckets |-> IF b[2] < cutoff THEN 0 ELSE presses[b]]

\* TimelineCache::pruned: a view that begins a minute after the cutoff saw
\* nothing of what went.
Unaffected(e, cutoff) == e.start >= cutoff + MinuteLength

\* apply_retention, of time or of space (cleanup_before).
Retention(cutoff) ==
  /\ Removed(cutoff)
  /\ entries' = IF current THEN Kept(entries, {i \in DOMAIN entries : Unaffected(entries[i], cutoff)})
                ELSE <<>>
  /\ current' = TRUE
  /\ UNCHANGED <<holes, edges, lastSeen>>

\* It removes rows and then fails, before the cache is told.
RetentionFails(cutoff) ==
  /\ Removed(cutoff)
  /\ current' = FALSE
  /\ UNCHANGED <<holes, edges, lastSeen, entries>>

\* Writes the cache is not told of: the user merges two applications or parts
\* them (set_application_merge), or deletes the history of one.
Merges ==
  /\ edges' = (edges \ {"user"}) \cup ({"user"} \ edges)
  /\ current' = FALSE
  /\ UNCHANGED <<spans, presses, holes, lastSeen, entries>>

Deletes(app) ==
  /\ spans' = {s \in spans : s.app \notin MergedWith(app)}
  /\ presses' = [b \in Buckets |-> IF b[1] \in MergedWith(app) THEN 0 ELSE presses[b]]
  /\ edges' = edges \ {"automatic"}
  /\ entries' = <<>>          \* cleared before the rows go
  /\ current' = FALSE
  /\ UNCHANGED <<holes, lastSeen>>

\* release_memory, while the window is hidden.
MemoryIsReleased ==
  /\ entries # <<>>
  /\ entries' = <<>> /\ current' = TRUE
  /\ UNCHANGED rows

CacheNext ==
  /\ cacheSteps < MaxCacheSteps
  /\ cacheSteps' = cacheSteps + 1
  /\ \/ \E start \in Starts, end \in Moments : Ask(start, end)
     \/ \E app \in Identities, t \in Minutes, joins \in BOOLEAN : SpanBegins(app, t, joins)
     \/ \E s \in spans, t \in Moments : SpanEnds(s, t)
     \/ \E b \in Buckets : InputArrives(b)
     \/ \E t \in Moments : GapArrives(t)
     \/ \E t \in Moments : RunBegins(t)
     \/ HealthIsNoted
     \/ \E cutoff \in Moments : Retention(cutoff)
     \/ \E cutoff \in Moments : RetentionFails(cutoff)
     \/ Merges
     \/ \E app \in Identities : Deletes(app)
     \/ MemoryIsReleased

CacheSpec == CacheInit /\ [][CacheNext]_cacheVars

-----------------------------------------------------------------------------
\* A remembered view that is given out as it is, or only moved on in time, is
\* what reading the database again would show: every answer is pushed here, so
\* no answer ever differs from a fresh one, whatever was written between two
\* questions (timeline_snapshot_cached).
CacheIsExact ==
  current =>
    \A i \in DOMAIN entries :
      ~Stale(entries[i]) => entries[i].view = View(entries[i].start, entries[i].end)
=============================================================================
