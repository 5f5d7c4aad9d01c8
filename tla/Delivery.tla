------------------------------ MODULE Delivery ------------------------------
(***************************************************************************)
(* How an observation travels from the collector process to the database:  *)
(* the collection loop queues batches in the persistent spool, a delivery  *)
(* worker thread replays the spool front over a named pipe, and the core   *)
(* ingests each batch in one transaction and acknowledges it.              *)
(*                                                                         *)
(* A batch is a run id, the sequence number of its first event, and its    *)
(* events.  Run ids are 16 random bytes in the code; here they count up,   *)
(* and only their freshness is used.  A window stands for anything the     *)
(* collector opens and closes: a window or a tray application.             *)
(***************************************************************************)
EXTENDS Naturals, Sequences, FiniteSets, SequencesExt

CONSTANTS Windows,      \* windows and tray applications that may be on the desktop
          NoWindow,     \* the window of an event that is about none
          MaxEvents,    \* MAX_WINDOW_EVENTS_PER_BATCH
          Capacity,     \* batches that fit in the spool
          Tolerance,    \* CLOCK_ROLLBACK_TOLERANCE_MS, in ticks of the clock
          MaxTime,      \* bound: the clock reads 1..MaxTime
          MaxRun,       \* bound: runs started
          MaxSeq,       \* bound: events queued in a run before the loop rests
          Occurring     \* which of the Occurrences happen

\* What the environment may do besides opening and closing windows: set the wall clock
\* back, sleep, let a spool record decay on disk, make an event the core refuses for its
\* content, overflow the input hooks, change a window's state, ask the collector to stop.
Occurrences == {"clock", "sleep", "decay", "content", "input", "update", "stop"}

ASSUME ConstantsOK ==
  /\ IsFiniteSet(Windows)
  /\ NoWindow \notin Windows
  /\ MaxEvents \in Nat \ {0}
  /\ Capacity \in Nat \ {0}
  /\ Tolerance \in Nat
  /\ MaxTime \in Nat \ {0}
  /\ MaxRun \in Nat
  /\ MaxSeq \in Nat
  /\ Occurring \subseteq Occurrences

\* queue_restart_snapshot stops the collector when a snapshot does not fit into an
\* empty spool; the 32 MiB file holds thousands of windows.
ASSUME SnapshotFits == Cardinality(Windows) + 1 <= Capacity * MaxEvents

VARIABLES
  pc,       \* where the collection loop is
  after,    \* where it goes once todo is queued
  todo,     \* events still to be queued
  run,      \* the current run id; kept while down, so that ids stay fresh
  seq,      \* next_sequence
  windows,  \* filter.windows and filter.tray: what this run has open
  lastNow,  \* last_now: the time of the loop's last observation
  lastUtc,  \* filter.last_utc: the time of the filter's last reconciliation
  fault,    \* the DeliveryFault slot ...
  faultRun, \* ... and the run of a RejectedRun
  spool,    \* the pending batches, oldest first
  damaged,  \* whether the front record can no longer be decoded
  worker,   \* the delivery worker
  sent,     \* <<>>, or the batch the worker is delivering
  wire,     \* <<>>, or the batch the core's server has yet to ingest
  runs,     \* collector_runs, in order of rowid
  log,      \* collector_batches, in the order they were stored
  open,     \* <<run, window>> of every interval that has no end yet
  gaps,     \* data_availability: the monitoring gaps
  clock,    \* history: the last reading of the wall clock
  lost      \* history: batches dropped before the core stored them

collectorVars == <<pc, after, todo, run, seq, windows, lastNow, lastUtc>>
faultVars == <<fault, faultRun>>
spoolVars == <<spool, damaged>>
workerVars == <<worker, sent>>
coreVars == <<runs, log, open, gaps>>
vars == <<collectorVars, faultVars, spoolVars, workerVars, wire, coreVars, clock, lost>>

Time == 1..MaxTime
Kinds == {"opened", "updated", "closed", "interval", "gap", "input_gap", "bad"}
Event == [kind : Kinds, win : Windows \cup {NoWindow}, at : Time, since : Time]
Batch == [run : Nat, first : Nat \ {0}, events : Seq(Event) \ {<<>>}]

WindowEvent(kind, w, t) == [kind |-> kind, win |-> w, at |-> t, since |-> t]
Note(kind, since, t) == [kind |-> kind, win |-> NoWindow, at |-> t, since |-> since]

\* EventBatch::last_sequence
LastSequence(b) == b.first + Len(b.events) - 1

-----------------------------------------------------------------------------
(* Helpers of the collection loop.                                         *)

Earlier(s, t) == IF s < t THEN s ELSE t

\* Seeded fault: the run's time follows the clock back.
LaterNot(s, t) == t
Later(s, t) == IF s < t THEN t ELSE s

\* What the wall clock may read next.
Readings == IF "clock" \in Occurring THEN Time ELSE clock..MaxTime

\* events.chunks(MAX_WINDOW_EVENTS_PER_BATCH): the next chunk of todo and the rest.
ChunkLength == Earlier(MaxEvents, Len(todo))
Chunk == SubSeq(todo, 1, ChunkLength)
Rest == SubSeq(todo, ChunkLength + 1, Len(todo))

\* One event of this kind for each of these windows, in any order.
EventsFor(kind, ws, t) ==
  {[i \in DOMAIN f |-> WindowEvent(kind, f[i], t)] : f \in SetToSeqs(ws)}

\* The batch of the next chunk, and what the whole of todo would have become.
NextBatch == [run |-> run, first |-> seq, events |-> Chunk]
Unqueued == IF todo = <<>> THEN {} ELSE {[run |-> run, first |-> seq, events |-> todo]}

\* Seeded fault: only the rejected batch is dropped, not the rest of its run.
WithoutFront(r) == IF spool = <<>> THEN <<>> ELSE Tail(spool)

\* discard_run: the spool without the batches of run r at its front.
WithoutRun(r) ==
  LET kept == {i \in DOMAIN spool : spool[i].run # r}
  IN  IF kept = {} THEN <<>>
      ELSE SubSeq(spool, CHOOSE i \in kept : \A j \in kept : i <= j, Len(spool))

\* The locks: queue_restart_snapshot holds the spool while it queues its batches.
SpoolFree == pc \notin {"down", "snap"}

-----------------------------------------------------------------------------
(* Initial state: nothing installed has run yet.                           *)

Init ==
  /\ pc = "down" /\ after = "loop" /\ todo = <<>>
  /\ run = 0 /\ seq = 1 /\ windows = {} /\ lastNow = 1 /\ lastUtc = 1
  /\ fault = "none" /\ faultRun = 0
  /\ spool = <<>> /\ damaged = FALSE
  /\ worker = "idle" /\ sent = <<>> /\ wire = <<>>
  /\ runs = <<>> /\ log = <<>> /\ open = {} /\ gaps = {}
  /\ clock = 1 /\ lost = {}

-----------------------------------------------------------------------------
(* The collection loop.                                                    *)

\* The process starts.  A spool that does not decode is quarantined; a new run
\* begins and the first publish_collection follows with the time read here.
Start ==
  /\ pc = "down" /\ run < MaxRun
  /\ \E t \in Readings : clock' = t /\ lastNow' = t /\ lastUtc' = t
  /\ pc' = "publish" /\ after' = "loop" /\ todo' = <<>>
  /\ run' = run + 1 /\ seq' = 1 /\ windows' = {}
  /\ spool' = IF damaged THEN <<>> ELSE spool
  /\ lost' = IF damaged THEN lost \cup Range(spool) ELSE lost
  /\ damaged' = FALSE
  /\ UNCHANGED <<faultVars, workerVars, wire, coreVars>>

\* Hand these events to queue_events, then go on at next.
Queue(es, next) ==
  /\ todo' = es
  /\ after' = next
  /\ pc' = IF es = <<>> THEN next ELSE "push"

\* Filter::reconcile compares what the run has open with the windows now shown.
\* After a sleep or a clock discontinuity everything is closed and opened again;
\* windows open when the machine went to sleep close at the last time before it.
Closed(shown, how) == IF how = "steady" THEN windows \ shown ELSE windows
Opened(shown, how) == IF how = "steady" THEN shown \ windows ELSE shown
ClosedAt(how, now) == IF how = "sleep" THEN lastUtc ELSE now
Updated(shown, how) ==
  IF how = "steady" /\ "update" \in Occurring THEN SUBSET (windows \cap shown) ELSE {{}}

\* A sleep, a discontinuity and a change of the system state make an interval.  A new
\* filter starts in the "active" state, so with no window to show it reports one.
Notes(shown, how, now, fresh) ==
  {<<Note("interval", now, now)>>} \cup
  (IF how # "steady" \/ (fresh /\ shown = {}) THEN {} ELSE {<<>>}) \cup
  (IF "content" \in Occurring /\ how = "steady" THEN {<<Note("bad", now, now)>>} ELSE {})

\* publish_collection: what the filter reports is sorted by time and queued.
Publish(now, fresh) ==
  \E shown \in SUBSET Windows, how \in {"steady", "sleep", "discontinuity"} :
    /\ how = "sleep" => "sleep" \in Occurring /\ lastUtc < now
    /\ how = "discontinuity" => "clock" \in Occurring
    /\ \E notes \in Notes(shown, how, now, fresh),
          closed \in EventsFor("closed", Closed(shown, how), ClosedAt(how, now)),
          updated \in UNION {EventsFor("updated", ws, now) : ws \in Updated(shown, how)},
          opened \in EventsFor("opened", Opened(shown, how), now) :
         Queue(IF ClosedAt(how, now) < now THEN closed \o notes \o updated \o opened
                                           ELSE notes \o closed \o updated \o opened, "loop")
    /\ windows' = shown
    /\ lastNow' = now /\ lastUtc' = now

\* The first publication of a run, with the time already read.
FirstPublish ==
  /\ pc = "publish"
  /\ Publish(lastNow, TRUE)
  /\ UNCHANGED <<run, seq, faultVars, spoolVars, workerVars, wire, coreVars, clock, lost>>

\* One turn of the loop; continue_run_clock keeps a run's time from going back.
Observe ==
  /\ pc = "loop" /\ seq <= MaxSeq
  /\ \E t \in Readings :
       /\ lastNow <= t + Tolerance
       /\ clock' = t
       /\ Publish(Later(lastNow, t), FALSE)
  /\ UNCHANGED <<run, seq, faultVars, spoolVars, workerVars, wire, coreVars, lost>>

\* The same turn's InputOverflow event: some input of this minute was not counted.
ReportInputOverflow ==
  /\ pc = "loop" /\ seq <= MaxSeq /\ "input" \in Occurring
  /\ Queue(<<Note("input_gap", lastNow, lastNow)>>, "loop")
  /\ UNCHANGED <<run, seq, windows, lastNow, lastUtc, faultVars, spoolVars, workerVars,
                 wire, coreVars, clock, lost>>

\* The clock went back too far: the old run is sealed at the last time it reported.
SealRun ==
  /\ pc = "loop"
  /\ \E t \in Readings : t + Tolerance < lastNow /\ clock' = t
  /\ Queue(<<Note("interval", lastNow, lastNow)>>, "rotate")
  /\ UNCHANGED <<run, seq, windows, lastNow, lastUtc, faultVars, spoolVars, workerVars,
                 wire, coreVars, lost>>

\* ... and a new run with a new filter begins with a clock_discontinuity.
RotateRun ==
  /\ pc = "rotate" /\ run < MaxRun
  /\ run' = run + 1 /\ seq' = 1 /\ windows' = {}
  /\ lastNow' = clock /\ lastUtc' = clock
  /\ Queue(<<Note("interval", clock, clock)>>, "publish")
  /\ UNCHANGED <<faultVars, spoolVars, workerVars, wire, coreVars, clock, lost>>

\* A stop request: everything closes, the run ends, and the worker gets ten
\* seconds to deliver what is left.
Stop ==
  /\ pc = "loop" /\ "stop" \in Occurring
  /\ \E t \in Readings :
       LET now == Later(t, lastNow)
       IN  /\ clock' = t /\ lastNow' = now
           /\ \E c \in EventsFor("closed", windows, now) :
                Queue(c \o <<Note("interval", now, now)>>, "drain")
  /\ windows' = {}
  /\ UNCHANGED <<run, seq, lastUtc, faultVars, spoolVars, workerVars, wire, coreVars, lost>>

\* PendingSpool::push of the next chunk.
Push ==
  /\ pc = "push" /\ Len(spool) < Capacity
  /\ spool' = Append(spool, NextBatch)
  /\ seq' = seq + ChunkLength
  /\ todo' = Rest
  /\ pc' = IF Rest = <<>> THEN after ELSE "push"
  /\ UNCHANGED <<after, run, windows, lastNow, lastUtc, faultVars, damaged, workerVars,
                 wire, coreVars, clock, lost>>

\* The spool is full: it is emptied, the rest of todo is dropped, and a new run
\* begins with a BufferOverflow gap since the oldest batch dropped, followed by
\* every window that is open now.
Overflow ==
  /\ pc = "push" /\ Len(spool) = Capacity /\ ~damaged /\ run < MaxRun
  /\ LET oldest == Head(spool).events[1].at
         now == todo[ChunkLength].at
     IN  \E o \in EventsFor("opened", windows, now) :
           todo' = <<Note("gap", Earlier(oldest, now), now)>> \o o
  /\ lost' = lost \cup Range(spool) \cup Unqueued
  /\ spool' = <<>>
  /\ run' = run + 1 /\ seq' = 1
  /\ pc' = "snap"
  /\ UNCHANGED <<after, windows, lastNow, lastUtc, faultVars, damaged, workerVars, wire,
                 coreVars, clock>>

\* queue_restart_snapshot queues its next chunk, holding the spool.
PushSnapshot ==
  /\ pc = "snap" /\ Len(spool) < Capacity
  /\ spool' = Append(spool, NextBatch)
  /\ seq' = seq + ChunkLength
  /\ todo' = Rest
  /\ pc' = IF Rest = <<>> THEN after ELSE "snap"
  /\ UNCHANGED <<after, run, windows, lastNow, lastUtc, faultVars, damaged, workerVars,
                 wire, coreVars, clock, lost>>

\* Seeded fault: sequence numbers begin at zero.
RestartRunAtZero ==
  /\ run < MaxRun
  /\ run' = run + 1 /\ seq' = 0
  /\ clock' = clock /\ lastNow' = clock
  /\ \E o \in EventsFor("opened", windows, clock) : todo' = o
  /\ pc' = IF windows = {} THEN "loop" ELSE "snap"
  /\ after' = "loop"

\* The current run was abandoned: a new one begins with the windows open now.
RestartRun ==
  /\ run < MaxRun
  /\ run' = run + 1 /\ seq' = 1
  /\ \E t \in Readings :
       /\ clock' = t /\ lastNow' = t
       /\ \E o \in EventsFor("opened", windows, t) : todo' = o
  /\ pc' = IF windows = {} THEN "loop" ELSE "snap"
  /\ after' = "loop"

\* repair_delivery_fault for an UnreadableSpool: the spool is emptied.
RepairUnreadable ==
  /\ pc = "loop" /\ fault = "unreadable"
  /\ fault' = "none"
  /\ spool' = <<>> /\ damaged' = FALSE
  /\ lost' = lost \cup Range(spool)
  /\ RestartRun
  /\ UNCHANGED <<windows, lastUtc, faultRun, workerVars, wire, coreVars>>

\* repair_delivery_fault for a RejectedRun: the rest of that run is dropped, and the
\* loop starts a new run when it was the current one.
RepairRejected ==
  /\ pc = "loop" /\ fault = "rejected" /\ ~damaged
  /\ fault' = "none"
  /\ spool' = WithoutRun(faultRun)
  /\ lost' = lost \cup (Range(spool) \ Range(spool'))
  /\ IF faultRun = run
     THEN RestartRun
     ELSE UNCHANGED <<pc, after, todo, run, seq, lastNow, clock>>
  /\ UNCHANGED <<windows, lastUtc, faultRun, damaged, workerVars, wire, coreVars>>

\* The process ends, and its worker with it.  A request already handed to the core
\* may still be ingested.
Halt ==
  /\ pc' = "down" /\ todo' = <<>>
  /\ fault' = "none" /\ worker' = "idle" /\ sent' = <<>>
  /\ lost' = lost \cup Unqueued
  /\ UNCHANGED <<after, run, seq, windows, lastNow, lastUtc, faultRun, spoolVars, wire,
                 coreVars, clock>>

\* The ten seconds are over, or the spool is empty.
Exit == pc = "drain" /\ Halt

\* The process dies, or stops on an error of its environment.
Crash == pc \notin {"down", "drain"} /\ Halt

\* oldest_observed_at_utc_ms or discard_run meets a front record that does not decode
\* before the worker has reported it: the collector stops with that error.
StopUnreadable ==
  /\ damaged
  /\ \/ pc = "push" /\ Len(spool) = Capacity
     \/ pc = "loop" /\ fault = "rejected"
  /\ Halt

\* The spool file decays: its front record no longer decodes.
Decay ==
  /\ "decay" \in Occurring /\ pc # "snap" /\ spool # <<>> /\ ~damaged
  /\ damaged' = TRUE
  /\ UNCHANGED <<collectorVars, faultVars, spool, workerVars, wire, coreVars, clock, lost>>

-----------------------------------------------------------------------------
(* The delivery worker.                                                    *)

\* The worker reads the front and sends it; the server takes one message at a time.
Send ==
  /\ SpoolFree /\ worker = "idle" /\ fault = "none" /\ wire = <<>>
  /\ spool # <<>> /\ ~damaged
  /\ worker' = "waiting"
  /\ sent' = <<Head(spool)>> /\ wire' = <<Head(spool)>>
  /\ UNCHANGED <<collectorVars, faultVars, spoolVars, coreVars, clock, lost>>

\* The front does not decode.
ReportUnreadable ==
  /\ SpoolFree /\ worker = "idle" /\ fault = "none" /\ damaged
  /\ fault' = "unreadable"
  /\ UNCHANGED <<collectorVars, faultRun, spoolVars, workerVars, wire, coreVars, clock, lost>>

\* Seeded fault: whatever is at the front is removed.
PopUnmatched ==
  /\ SpoolFree /\ worker = "acked"
  /\ spool' = IF ~damaged /\ spool # <<>> THEN Tail(spool) ELSE spool
  /\ worker' = "idle" /\ sent' = <<>>
  /\ UNCHANGED <<collectorVars, faultVars, damaged, wire, coreVars, clock, lost>>

\* Acknowledged: pop_if_matches removes the batch if it is still the front.
Pop ==
  /\ SpoolFree /\ worker = "acked"
  /\ spool' = IF ~damaged /\ spool # <<>> /\ Head(spool) = Head(sent) THEN Tail(spool)
                                                                      ELSE spool
  /\ worker' = "idle" /\ sent' = <<>>
  /\ UNCHANGED <<collectorVars, faultVars, damaged, wire, coreVars, clock, lost>>

\* Seeded fault: a permanent refusal is retried like a passing one.
RetryRejected ==
  /\ pc # "down" /\ worker = "refused"
  /\ worker' = "idle" /\ sent' = <<>>
  /\ UNCHANGED <<collectorVars, faultVars, spoolVars, wire, coreVars, clock, lost>>

\* Refused for good: the run is reported to the collection loop.
ReportRejected ==
  /\ pc # "down" /\ worker = "refused"
  /\ fault' = "rejected" /\ faultRun' = Head(sent).run
  /\ worker' = "idle" /\ sent' = <<>>
  /\ UNCHANGED <<collectorVars, spoolVars, wire, coreVars, clock, lost>>

-----------------------------------------------------------------------------
(* The core.                                                               *)

\* The connection breaks, the core is not there, or it answers with an error that
\* may pass: nothing is stored.
Lose ==
  /\ wire # <<>>
  /\ wire' = <<>>
  /\ worker' = "idle" /\ sent' = <<>>
  /\ UNCHANGED <<collectorVars, faultVars, spoolVars, coreVars, clock, lost>>

Known(r) == \E i \in DOMAIN runs : runs[i].run = r
RowOf(r) == CHOOSE i \in DOMAIN runs : runs[i].run = r

\* What is open after the first n events of b, when start was open before.
OpenAfter(b, start, n) ==
  LET pair(i) == <<b.run, b.events[i].win>>
      closedAfter(i, p) == \E k \in (i + 1)..n : b.events[k].kind = "closed" /\ pair(k) = p
  IN  {p \in start : ~closedAfter(0, p)} \cup
      {pair(i) : i \in {j \in 1..n : b.events[j].kind = "opened" /\ ~closedAfter(j, pair(j))}}

\* A window opens only when it is not open, and changes or closes only when it is.
WindowsAgree(b, start) ==
  \A n \in DOMAIN b.events :
    LET e == b.events[n]
        isOpen == <<b.run, e.win>> \in OpenAfter(b, start, n - 1)
    IN  /\ e.kind = "opened" => ~isOpen
        /\ e.kind \in {"updated", "closed"} => isOpen

\* Seeded fault: what the old run had open stays open.
OpenKept(b) == open

\* close_stale_runs ends everything that is open before a new run begins.
OpenBefore(b) == IF Known(b.run) THEN open ELSE {}

\* Seeded fault: a batch sent again is stored again.
VerdictUnlessWindows(b) ==
  IF ~WindowsAgree(b, OpenBefore(b)) THEN "window"
  ELSE IF \E i \in DOMAIN b.events : b.events[i].kind = "bad" THEN "content"
  ELSE "stored"

\* What ingest_event_batch makes of a batch, in the order of its checks.  Everything but
\* "stored" and "duplicate" is a StorageError::InvalidBatch, which no retry can mend.
Verdict(b) ==
  IF \E i \in 1..(Len(b.events) - 1) : b.events[i + 1].at < b.events[i].at THEN "time"
  ELSE IF b \in Range(log) THEN "duplicate"
  ELSE IF \E i \in DOMAIN log : log[i].run = b.run /\ log[i].first = b.first THEN "overlap"
  ELSE IF b.first # (IF Known(b.run) THEN runs[RowOf(b.run)].seq + 1 ELSE 1) THEN "sequence"
  ELSE IF Known(b.run) /\ b.events[1].at < runs[RowOf(b.run)].last THEN "time"
  ELSE IF ~WindowsAgree(b, OpenBefore(b)) THEN "window"
  ELSE IF \E i \in DOMAIN b.events : b.events[i].kind = "bad" THEN "content"
  ELSE "stored"

\* close_stale_runs: the span since the newest run's last event, unless the new run
\* opens with a monitoring gap of its own.
RestartGap(b) ==
  LET from == runs[Len(runs)].last
      to == b.events[1].at
  IN  IF runs # <<>> /\ ~Known(b.run) /\ b.events[1].kind \notin {"gap", "input_gap"}
                     /\ from < to
      THEN {[since |-> from, until |-> to, reason |-> "collector_restart"]}
      ELSE {}

\* ingest_monitoring_gap, for every gap event of the batch.
ExplicitGaps(b) ==
  {[since |-> b.events[i].since, until |-> b.events[i].at,
    reason |-> IF b.events[i].kind = "gap" THEN "buffer_overflow" ELSE "input_overflow"] :
     i \in {j \in DOMAIN b.events : b.events[j].kind \in {"gap", "input_gap"}}}

\* Seeded fault: a new run counts as observing since the last run's end.
RowSinceLastRun(b) ==
  [run |-> b.run, first |-> IF runs = <<>> THEN b.events[1].at ELSE runs[Len(runs)].last,
   last |-> b.events[Len(b.events)].at, seq |-> LastSequence(b)]

\* The collector_runs row of a run whose first stored batch is b.
RowFrom(b) ==
  [run |-> b.run, first |-> b.events[1].at,
   last |-> b.events[Len(b.events)].at, seq |-> LastSequence(b)]

\* The transaction that stores a batch.
Store(b) ==
  /\ runs' = IF Known(b.run)
             THEN [runs EXCEPT ![RowOf(b.run)] =
                     [@ EXCEPT !.last = RowFrom(b).last, !.seq = RowFrom(b).seq]]
             ELSE Append(runs, RowFrom(b))
  /\ log' = Append(log, b)
  /\ open' = OpenAfter(b, OpenBefore(b), Len(b.events))
  /\ gaps' = gaps \cup RestartGap(b) \cup ExplicitGaps(b)

\* The server ingests the request, also when the collector that sent it is gone.
Handle ==
  /\ wire # <<>> /\ wire' = <<>>
  /\ LET b == Head(wire)
     IN  IF Verdict(b) = "stored" THEN Store(b) ELSE UNCHANGED coreVars
  /\ UNCHANGED <<collectorVars, faultVars, spoolVars, clock, lost>>

\* ... and answers the worker that waits.
Ingest ==
  /\ Handle
  /\ worker' = IF worker # "waiting" THEN worker
               ELSE IF Verdict(Head(wire)) \in {"stored", "duplicate"} THEN "acked" ELSE "refused"
  /\ UNCHANGED sent

\* ... or dies before its answer is out: the worker will send the same batch again.
IngestUnanswered ==
  /\ Handle
  /\ worker' = "idle" /\ sent' = <<>>

-----------------------------------------------------------------------------
(* The specification.                                                      *)

Collector ==
  \/ Start \/ FirstPublish \/ Observe \/ ReportInputOverflow \/ SealRun \/ RotateRun
  \/ Stop \/ Push \/ Overflow \/ PushSnapshot \/ RepairUnreadable \/ RepairRejected
  \/ Exit \/ Crash \/ StopUnreadable \/ Decay

Worker == Send \/ ReportUnreadable \/ Pop \/ ReportRejected

Core == Lose \/ Ingest \/ IngestUnanswered

Next == Collector \/ Worker \/ Core

Spec == Init /\ [][Next]_vars

(* Fairness.  The loop never waits between two pushes, and looks at the fault slot
   in every turn.  The worker retries every two seconds for ever, so an exchange
   succeeds in the end unless the core stays away; a request left behind is ingested
   or lost.  Nothing obliges the environment to start the collector, to crash it or
   to open a window.                                                               *)
Fairness ==
  /\ WF_vars(FirstPublish) /\ WF_vars(RotateRun) /\ WF_vars(Exit) /\ WF_vars(StopUnreadable)
  /\ WF_vars(Push) /\ WF_vars(Overflow) /\ WF_vars(PushSnapshot)
  /\ SF_vars(RepairUnreadable) /\ SF_vars(RepairRejected)
  /\ SF_vars(Send) /\ SF_vars(Pop) /\ SF_vars(ReportRejected) /\ SF_vars(ReportUnreadable)
  /\ SF_vars(Ingest /\ worker = "waiting") /\ WF_vars(Core)

FairSpec == Spec /\ Fairness

-----------------------------------------------------------------------------
(* Properties.                                                             *)

GapRecord == [since : Time, until : Time,
              reason : {"collector_restart", "buffer_overflow", "input_overflow"}]
RunRow == [run : Nat, first : Time, last : Time, seq : Nat]

\* The type invariant: the shape of every variable, and that a batch is never empty.
TypeOK ==
  /\ pc \in {"down", "publish", "loop", "push", "snap", "rotate", "drain"}
  /\ after \in {"loop", "rotate", "publish", "drain"}
  /\ todo \in Seq(Event)
  /\ run \in Nat /\ seq \in Nat \ {0}
  /\ windows \subseteq Windows
  /\ lastNow \in Time /\ lastUtc \in Time /\ clock \in Time
  /\ fault \in {"none", "unreadable", "rejected"} /\ faultRun \in Nat
  /\ spool \in Seq(Batch) /\ damaged \in BOOLEAN
  /\ worker \in {"idle", "waiting", "acked", "refused"}
  /\ sent \in Seq(Batch) /\ wire \in Seq(Batch)
  /\ runs \in Seq(RunRow) /\ log \in Seq(Batch)
  /\ open \in SUBSET (Nat \X (Windows \cup {NoWindow}))
  /\ gaps \in SUBSET GapRecord
  /\ lost \in SUBSET Batch

\* ingest_event_batch refuses a batch for good only because of what an event says.
\* No retry, lost answer, crash, overflow, repair or clock rollback makes the core
\* refuse a batch for its place in the run, its time, or a window it takes for open
\* or closed: such a refusal would make the collector drop the rest of a good run.
RefusedOnlyForContent ==
  \A b \in Range(wire) : Verdict(b) \in {"stored", "duplicate", "content"}

\* The same without the time of the events, which a sleep upsets.
NeverRefusedForPlace ==
  \A b \in Range(wire) : Verdict(b) \notin {"overlap", "sequence"}

\* The database holds each run's events once, in order, from the first one on, and
\* no other run's batch in between, however often a batch was sent.
StoredInOrder ==
  \A i \in DOMAIN log :
    IF log[i].first = 1
    THEN \A j \in 1..(i - 1) : log[j].run # log[i].run
    ELSE i > 1 /\ log[i - 1].run = log[i].run
               /\ LastSequence(log[i - 1]) + 1 = log[i].first

\* Why these two hold: batch b continues batch a, or begins a later run ...
Follows(a, b) ==
  IF b.run = a.run THEN b.first = LastSequence(a) + 1 ELSE a.run < b.run /\ b.first = 1

\* ... or is what the database expects next of its run.
NextFor(r, n) == n = IF Known(r) THEN runs[RowOf(r)].seq + 1 ELSE 1

\* The spool is one chain that ends where the collector will go on.
SpoolChained ==
  /\ \A i \in 1..(Len(spool) - 1) : Follows(spool[i], spool[i + 1])
  /\ IF spool = <<>>
     THEN NextFor(run, seq)
     ELSE LET z == spool[Len(spool)]
          IN  IF z.run = run THEN seq = LastSequence(z) + 1 ELSE z.run < run /\ seq = 1

\* The chain begins where the database ends, or with the batch stored last.
FrontNext ==
  /\ \A i \in DOMAIN runs : /\ runs[i].run <= run
                            /\ spool # <<>> => runs[i].run <= spool[1].run
  /\ spool # <<>> =>
       IF spool[1] \in Range(log)
       THEN runs[RowOf(spool[1].run)].seq = LastSequence(spool[1])
       ELSE NextFor(spool[1].run, spool[1].first)

\* A request at the core is the spool's front, or is left from a run before it.
WireNext ==
  wire # <<>> =>
    /\ IF spool = <<>> THEN wire[1].run < run
                       ELSE wire[1] = spool[1] \/ wire[1].run < spool[1].run
    /\ wire[1] \notin Range(log) =>
         /\ NextFor(wire[1].run, wire[1].first)
         /\ \A i \in DOMAIN runs : runs[i].run <= wire[1].run

\* The rows of collector_runs say how far the batches stored go.
RunsMatchLog ==
  /\ \A i, j \in DOMAIN runs : runs[i].run = runs[j].run => i = j
  /\ \A i \in DOMAIN log :
       Known(log[i].run) /\ LastSequence(log[i]) <= runs[RowOf(log[i].run)].seq
  /\ runs # <<>> =>
       /\ log # <<>>
       /\ runs[RowOf(log[Len(log)].run)].seq = LastSequence(log[Len(log)])
       /\ \A i \in DOMAIN runs : runs[i].run <= log[Len(log)].run

\* What the worker knows of its exchange.
WorkerKnows ==
  /\ worker = "waiting" => wire = sent
  /\ worker \in {"acked", "refused"} => wire = <<>>
  /\ worker = "acked" => sent[1] \in Range(log)
  /\ worker # "idle" => sent # <<>>
  /\ Len(wire) <= 1

\* The sequence numbers of spool, request and database are one chain, through every
\* retry, lost answer, restart, overflow and repair: the core always finds in the
\* next batch the number it expects.
Chained == SpoolChained /\ FrontNext /\ WireNext /\ RunsMatchLog /\ WorkerKnows

\* Every event of the current run that got a sequence number is stored, or still in
\* the spool, or was dropped by an overflow, a repair or a quarantine: nothing
\* leaves the spool by a stale or doubled acknowledgement.
Accounted ==
  \A n \in 1..(seq - 1) :
    \E b \in Range(log) \cup Range(spool) \cup lost :
      b.run = run /\ b.first <= n /\ n <= LastSequence(b)

\* When everything queued has arrived, the core has open exactly what the collector
\* has open: a run cut short by an overflow or a repair leaves nothing open behind
\* it and loses nothing that is still on the desktop.
CaughtUp ==
  pc = "loop" /\ spool = <<>> /\ wire = <<>> =>
    IF Known(run) THEN open = {run} \X windows ELSE windows = {}

\* data_coverage counts as observed what lies within a stored run, and lists the
\* rest and the recorded gaps as missing.
Missing(t) ==
  \/ \A i \in DOMAIN runs : ~(runs[i].first < t /\ t < runs[i].last)
  \/ \E g \in gaps : g.reason # "input_overflow" /\ g.since <= t /\ t <= g.until

\* An event that was dropped is never inside a time the statistics call observed.
DroppedIsMissing ==
  \A b \in lost \ Range(log) : \A i \in DOMAIN b.events : Missing(b.events[i].at)

\* The spool drains while the collector keeps running: one batch that can never be
\* delivered, or a record that no longer decodes, does not hold up what is queued
\* behind it.  (Once the bound on runs is reached no repair can start another.)
Drains == spool # <<>> ~> (spool = <<>> \/ pc = "down" \/ run = MaxRun)

\* Refinement: a batch is pending from its push until it is stored, also while only
\* the core's server still holds it.
Stale == wire # <<>> /\ (spool = <<>> \/ Head(spool) # Head(wire))
Orphaned == IF Stale /\ Head(wire) \notin Range(log) THEN wire ELSE <<>>
Unstored == IF spool # <<>> /\ Head(spool) \in Range(log) THEN Tail(spool) ELSE spool
Pending == Orphaned \o Unstored

Promise == INSTANCE EventLog WITH queue <- Pending, log <- log

\* The collector, the worker and the core keep the promise of EventLog.
ImplementsEventLog == Promise!Spec
=============================================================================
