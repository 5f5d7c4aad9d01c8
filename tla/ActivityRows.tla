---------------------------- MODULE ActivityRows ----------------------------
(***************************************************************************)
(* The activities of a day as the timeline lists them (app                  *)
(* timeline_view.rs), and how today's list is kept up while the day goes on *)
(* (app history.rs): the finished part is kept as it was listed and only    *)
(* what follows is grouped again.                                           *)
(*                                                                          *)
(* A day is a sequence of ticks, each with the application in focus, with   *)
(* none, or unrecorded.  A day has one local date, and applications do not  *)
(* hold focus at the same time.                                             *)
(***************************************************************************)
EXTENDS Integers, Sequences, FiniteSets, FiniteSetsExt

CONSTANTS
  Apps,       \* applications, numbers for their order by identity
  Nobody,     \* a tick with no application in focus
  Lost,       \* a tick that went unrecorded
  Brief,      \* BRIEF_ABSENCE_MS, in ticks
  Join,       \* UNRECORDED_JOIN_MS
  MinMissing, \* MIN_UNRECORDED_MS
  DayLength,  \* bounds the ticks of the day
  MaxGaps,    \* bounds its unrecorded stretches
  MaxLate     \* bounds how often something arrives late

ASSUME AppsAreNumbers == Apps \subseteq Nat /\ {Nobody, Lost} \cap Apps = {}

VARIABLES
  ticks,  \* the day so far, as the storage has it
  source, \* the day as it was when last listed
  listed, \* the activities listed then
  late

rowVars == <<ticks, source, listed, late>>

-----------------------------------------------------------------------------
\* The longest stretches <<from, to>> of ticks from \in after + 1 .. to that all hold the value.
Stretches(day, after, value) ==
  LET good(i) == i \in after + 1 .. Len(day) /\ day[i] = value
  IN {<<f, t>> \in (after .. Len(day)) \X (after + 1 .. Len(day)) :
        /\ f < t /\ \A i \in f + 1 .. t : good(i)
        /\ ~good(f) /\ ~good(t + 1)}

Gaps(day, after) == Stretches(day, after, Lost)
\* a set of stretches as the sequence of them by start
InOrder(stretches) ==
  [i \in 1 .. Cardinality(stretches) |->
     CHOOSE s \in stretches : Cardinality({t \in stretches : t[1] < s[1]}) = i - 1]

\* unrecorded_spans: gaps close together are one span, and short ones are none.
Unrecorded(day, after) ==
  LET gaps == Gaps(day, after)
      near(g, h) == g[1] < h[1] /\ h[1] - g[2] <= Join
      chained(f, t) == \A g \in gaps : g[1] >= f /\ g[2] < t => \E h \in gaps : near(g, h)
      spans == {<<g[1], h[2]>> : <<g, h>> \in
        {p \in gaps \X gaps :
           /\ p[1][1] <= p[2][1] /\ chained(p[1][1], p[2][2])
           /\ ~\E x \in gaps : near(x, p[1]) \/ near(p[2], x)}}
      missing(s) == Cardinality({i \in s[1] + 1 .. s[2] : day[i] = Lost})
  IN {s \in spans : missing(s) >= MinMissing}

Runs(day, after) ==
  LET stretches == UNION {Stretches(day, after, a) : a \in Apps}
      run(s) == [from |-> s[1], to |-> s[2], main |-> day[s[2]],
                 focus |-> [b \in Apps |-> IF b = day[s[2]] THEN s[2] - s[1] ELSE 0]]
      ordered == InOrder(stretches)
  IN [i \in DOMAIN ordered |-> run(ordered[i])]

-----------------------------------------------------------------------------
(* group_runs. *)

Links(x, y, spans) ==
  /\ y.from - x.to <= Brief
  /\ ~\E s \in spans : s[1] < y.from /\ s[2] > x.to

\* The main application has focus longest; the smaller identity wins a tie.
Longest(focus) ==
  CHOOSE a \in Apps : \A b \in Apps \ {a} :
    focus[a] > focus[b] \/ (focus[a] = focus[b] /\ a < b)

Absorb(x, y) ==
  LET focus == [a \in Apps |-> x.focus[a] + y.focus[a]]
  IN [from |-> x.from, to |-> y.to, main |-> Longest(focus), focus |-> focus]

\* blocks with the i-th and the one after it made one
Joined(blocks, i) ==
  SubSeq(blocks, 1, i - 1) \o <<Absorb(blocks[i], blocks[i + 1])>>
    \o SubSeq(blocks, i + 2, Len(blocks))

RECURSIVE MergeSame(_, _, _)
MergeSame(blocks, i, spans) ==
  IF i >= Len(blocks) THEN blocks
  ELSE IF blocks[i].main = blocks[i + 1].main /\ Links(blocks[i], blocks[i + 1], spans)
  THEN MergeSame(Joined(blocks, i), i, spans)
  ELSE MergeSame(blocks, i + 1, spans)

MainFocus(block) == block.focus[block.main]

\* The neighbour a brief block joins: the nearer, or on a tie the one focused
\* longer, or the one before.
Neighbours(blocks, i, spans) ==
  {j \in {i - 1, i + 1} \cap DOMAIN blocks :
     Links(blocks[Min({i, j})], blocks[Max({i, j})], spans)}
Nearer(blocks, i, spans) ==
  LET near == Neighbours(blocks, i, spans)
      gap(j) == blocks[Max({i, j})].from - blocks[Min({i, j})].to
  IN IF near # {i - 1, i + 1} THEN CHOOSE j \in near : TRUE
     ELSE IF gap(i - 1) < gap(i + 1) THEN i - 1
     ELSE IF gap(i + 1) < gap(i - 1) THEN i + 1
     ELSE IF MainFocus(blocks[i + 1]) > MainFocus(blocks[i - 1]) THEN i + 1 ELSE i - 1

RECURSIVE Group(_, _)
Group(blocks, spans) ==
  LET merged == MergeSame(blocks, 1, spans)
      brief == {i \in DOMAIN merged :
                  MainFocus(merged[i]) < Brief /\ Neighbours(merged, i, spans) # {}}
  IN IF brief = {} THEN merged
     ELSE LET i == CHOOSE i \in brief : \A j \in brief :
                     \/ MainFocus(merged[i]) < MainFocus(merged[j])
                     \/ MainFocus(merged[i]) = MainFocus(merged[j]) /\ i <= j
          IN Group(Joined(merged, Min({i, Nearer(merged, i, spans)})), spans)

\* build_activity_rows, of the part of the day after a tick
Rows(day, after) == Group(Runs(day, after), Unrecorded(day, after))

-----------------------------------------------------------------------------
(* build_day. *)

\* The first tick whose record changed (earliest_change): everything has when a
\* gap has, or when an application is new to the day or gone from it.
Used(day) == {a \in Apps : \E i \in DOMAIN day : day[i] = a}
SegmentsOf(day, a) == InOrder(Stretches(day, 0, a))
FirstDifference(old, new) ==
  {IF i <= Len(old) /\ i <= Len(new)
   THEN IF old[i][1] = new[i][1] THEN Min({old[i][2], new[i][2]})
        ELSE Min({old[i][1], new[i][1]})
   ELSE IF i <= Len(old) THEN old[i][1] ELSE new[i][1] :
     i \in {j \in 1 .. Max({Len(old), Len(new)}) :
              ~(j <= Len(old) /\ j <= Len(new) /\ old[j] = new[j])}}
EarliestChange(old, new) ==
  IF Gaps(old, 0) # Gaps(new, 0) \/ ~(Used(old) \subseteq Used(new)) THEN 0
  ELSE Min({Len(old)} \cup
           UNION {FirstDifference(SegmentsOf(old, a), SegmentsOf(new, a)) : a \in Used(new)})

Breaks(rows, old, new) ==
  LET changed == EarliestChange(old, new)
  IN {rows[i].from : i \in {j \in 2 .. Len(rows) :
        rows[j].from - rows[j - 1].to > Brief /\ rows[j].from <= changed}}

Boundary(rows, old, new) == Max({0} \cup Breaks(rows, old, new))
Finished(rows, boundary) == SelectSeq(rows, LAMBDA r : r.to <= boundary)
Rebuilt(rows, old, new) ==
  LET boundary == Boundary(rows, old, new)
  IN Finished(rows, boundary) \o Rows(new, boundary)

-----------------------------------------------------------------------------
RowsTypeOK ==
  /\ ticks \in Seq(Apps \cup {Nobody, Lost}) /\ Len(ticks) <= DayLength
  /\ source \in Seq(Apps \cup {Nobody, Lost})
  /\ late \in 0..MaxLate

RowsInit == ticks = <<>> /\ source = <<>> /\ listed = <<>> /\ late = 0

Record(v) ==
  /\ Len(ticks) < DayLength
  /\ ticks' = Append(ticks, v) /\ Cardinality(Gaps(ticks', 0)) <= MaxGaps
  /\ UNCHANGED <<source, listed, late>>

\* Something that lay in the collector's buffer fills a tick that held nothing.
RecordLate(i, v) ==
  /\ late < MaxLate /\ late' = late + 1
  /\ ticks[i] = Nobody /\ v # Nobody
  /\ ticks' = [ticks EXCEPT ![i] = v] /\ Cardinality(Gaps(ticks', 0)) <= MaxGaps
  /\ UNCHANGED <<source, listed>>

\* load_day of today, every two seconds
ListAgain ==
  /\ source # ticks
  /\ source' = ticks /\ listed' = Rebuilt(listed, source, ticks)
  /\ UNCHANGED <<ticks, late>>

RowsNext ==
  \/ \E v \in Apps \cup {Nobody, Lost} : Record(v)
  \/ \E i \in DOMAIN ticks, v \in Apps \cup {Lost} : RecordLate(i, v)
  \/ ListAgain

RowsSpec == RowsInit /\ [][RowsNext]_rowVars

-----------------------------------------------------------------------------
=============================================================================
