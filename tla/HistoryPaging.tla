---------------------------- MODULE HistoryPaging ----------------------------
(***************************************************************************)
(* The timeline's days (app history_cache.rs, history.rs).  Days are read   *)
(* by one worker at a time, a few at once and in the order asked for; the   *)
(* ones out of sight are let go, and only their places in the list stay.    *)
(* A search, a jump, a new date or changed data starts over, while the      *)
(* worker already reading cannot be stopped.                                *)
(*                                                                          *)
(* A day is its number of days before today.  Heights, rows and their       *)
(* wording are left out: a day has a place in the list (its outline) or     *)
(* has none yet, and one day at a time is in view.                          *)
(***************************************************************************)
EXTENDS Integers, Sequences, FiniteSets, FiniteSetsExt

CONSTANTS
  NoRequest,    \* no worker is reading
  Nowhere,      \* no day to jump to
  DaysPerLoad,  \* DAYS_PER_LOAD
  SearchDays,   \* SEARCH_DAYS
  Around,       \* how many days around the one in view are kept
  MaxOldest,    \* bounds how far back the records go
  MaxRestarts,  \* bounds searches, jumps, new dates and changes of the data
  MaxScrolls    \* bounds moves of the view, further loads and failures

VARIABLES
  resident,         \* the days in memory: for each, the version of the data it shows
  outlined,         \* the days with a place in the list, for the current search
  queue, queued, inflight,
  pending,          \* what the worker reads, as the view knows it
  epoch, loaded, horizon, searching, jump, top, onScreen,
  noted,            \* the version of the data the view has started over for
  version, oldest,  \* the data: its version, and how many days back it goes
  failed,           \* a read has failed since the view last started over
  restarts, scrolls

pagingVars == <<resident, outlined, queue, queued, inflight, pending, epoch, loaded, horizon,
 searching, jump, top, onScreen, noted, version, oldest, failed, restarts, scrolls>>

Offsets == 0..MaxOldest
view == <<top, jump, searching, onScreen>>
data == <<version, oldest>>
counts == <<restarts, scrolls>>

HistoryTypeOK ==
  /\ DOMAIN resident \subseteq Offsets /\ outlined \subseteq Offsets
  /\ \A d \in DOMAIN resident : resident[d] \in 0..MaxRestarts
  /\ queue \in Seq(Offsets) /\ queued \subseteq Offsets /\ inflight \in Seq(Offsets)
  /\ epoch \in Nat /\ loaded \in -1..MaxOldest /\ horizon \in Offsets
  /\ jump \in Offsets \cup {Nowhere} /\ top \in Offsets
  /\ searching \in BOOLEAN /\ onScreen \in BOOLEAN /\ failed \in BOOLEAN

HistoryInit ==
  /\ resident = <<>> /\ outlined = {} /\ queue = <<>> /\ queued = {} /\ inflight = <<>>
  /\ pending = NoRequest /\ epoch = 0 /\ loaded = -1 /\ horizon = 0
  /\ searching = FALSE /\ jump = Nowhere /\ top = 0 /\ onScreen = TRUE
  /\ noted = 0 /\ version = 0 /\ oldest \in 1..MaxOldest /\ failed = FALSE
  /\ restarts = 0 /\ scrolls = 0

-----------------------------------------------------------------------------
(* The view's bookkeeping, as one record that a handler takes through its     *)
(* steps; the handlers run on the UI thread, each to its end.                 *)

Book == [resident |-> resident, outlined |-> outlined, queue |-> queue, queued |-> queued,
         inflight |-> inflight, pending |-> pending, epoch |-> epoch, loaded |-> loaded,
         horizon |-> horizon, searching |-> searching, jump |-> jump, top |-> top]

Keep(b) ==
  /\ resident' = b.resident /\ outlined' = b.outlined
  /\ queue' = b.queue /\ queued' = b.queued /\ inflight' = b.inflight
  /\ pending' = b.pending /\ epoch' = b.epoch /\ loaded' = b.loaded
  /\ horizon' = b.horizon /\ searching' = b.searching /\ jump' = b.jump /\ top' = b.top

\* A day is queued once, until its read is over.
Queue(b, d) ==
  IF d \in 0..b.horizon \ b.queued
  THEN [b EXCEPT !.queue = Append(@, d), !.queued = @ \cup {d}] ELSE b
RECURSIVE QueueAll(_, _)
QueueAll(b, days) ==
  IF days = {} THEN b ELSE QueueAll(Queue(b, Min(days)), days \ {Min(days)})

Near(b, d) == (d - Around .. d + Around) \cap 0..b.horizon
Needed(b) ==
  {0} \cup Near(b, b.top) \cup (IF b.jump = Nowhere THEN {} ELSE Near(b, b.jump))

\* publish: days in memory get their places, and without a search the others a
\* placeholder; a jump ends at its day; days no longer needed are let go, and
\* missing ones are queued.
Publish(b) ==
  LET listed == IF b.searching THEN DOMAIN b.resident \cap 0..b.loaded ELSE 0..b.loaded
      placed == [b EXCEPT !.outlined = @ \cup listed]
      moved == IF b.jump \in DOMAIN b.resident
               THEN [placed EXCEPT !.top = b.jump, !.jump = Nowhere] ELSE placed
      wanted == Needed(moved)
      kept == [moved EXCEPT !.resident =
                [d \in DOMAIN b.resident \cap wanted |-> b.resident[d]]]
  IN QueueAll(kept, wanted \ DOMAIN b.resident)

\* request: one worker at a time, and none while the window is out of sight.
Request(b, seen) ==
  LET n == Min({DaysPerLoad, Len(b.queue)})
  IN IF b.pending # NoRequest \/ ~seen \/ n = 0 THEN b
     ELSE [b EXCEPT !.inflight = SubSeq(b.queue, 1, n),
                    !.queue = SubSeq(@, n + 1, Len(@)),
                    !.pending = [epoch |-> b.epoch, days |-> SubSeq(b.queue, 1, n),
                                 read |-> FALSE, version |-> 0, horizon |-> 0]]

DaysOf(seq) == {seq[i] : i \in DOMAIN seq}

\* A search covers SearchDays once it is known how far back the records go.
ExtendSearch(b) ==
  LET until == Min({SearchDays, b.horizon})
  IN IF ~b.searching \/ b.loaded >= until THEN b
     ELSE [QueueAll(b, (b.loaded + 1 .. until) \ DOMAIN b.resident) EXCEPT !.loaded = until]

-----------------------------------------------------------------------------
\* The worker reads its days, and how far back the records go.
WorkerReads ==
  /\ pending # NoRequest /\ ~pending.read
  /\ pending' = [pending EXCEPT !.read = TRUE, !.version = version, !.horizon = oldest]
  /\ UNCHANGED <<resident, outlined, queue, queued, inflight, epoch, loaded, horizon, view,
                 noted, data, failed, counts>>

\* Paging's default, with the next epoch: what the worker reads is not received.
StartOver(b) ==
  [b EXCEPT !.resident = <<>>, !.outlined = {}, !.queue = <<>>, !.queued = {},
            !.inflight = <<>>, !.pending = NoRequest, !.epoch = @ + 1, !.loaded = -1,
            !.jump = Nowhere]

\* The result is taken when it is of this epoch.
Received(b) ==
  LET over == [b EXCEPT !.pending = NoRequest, !.queued = @ \ DaysOf(b.inflight),
                        !.inflight = <<>>]
      days == DaysOf(b.pending.days)
      known == [over EXCEPT !.horizon = b.pending.horizon,
                            !.loaded = Max({Min({b.loaded, b.pending.horizon}), 0})]
      extended == ExtendSearch(known)
  IN IF b.pending.epoch # b.epoch THEN over
     ELSE [extended EXCEPT
            !.queued = @ \ days, !.outlined = @ \cup days,
            !.resident = [d \in DOMAIN @ \cup days |->
                           IF d \in days THEN b.pending.version ELSE @[d]]]

\* A failed read ends the handler there; what it was to read is forgotten.
Lose(b) ==
  [b EXCEPT !.pending = NoRequest, !.queued = @ \ DaysOf(b.inflight), !.inflight = <<>>]

\* refresh, on a tick or when a worker is done.  Today is asked for every two
\* seconds and yesterday every thirty, and more days while few hold anything.
RefreshSteps(b, again, few) ==
  LET begun == IF b.loaded >= 0 THEN b
               ELSE QueueAll([b EXCEPT !.loaded = 1, !.horizon = Max({@, 1})], {0, 1})
      asked == QueueAll(begun, again)
      until == Min({asked.loaded + DaysPerLoad, asked.horizon})
      further == IF few /\ asked.loaded < asked.horizon /\ asked.pending = NoRequest
                      /\ asked.queue = <<>>
                 THEN [QueueAll(asked, asked.loaded + 1 .. until) EXCEPT !.loaded = until]
                 ELSE asked
  IN Request(Publish(further), TRUE)

Refresh(again, few) ==
  LET started == IF noted # version THEN StartOver(Book) ELSE Book
      b == IF started.pending # NoRequest /\ started.pending.read
           THEN Received(started) ELSE started
  IN /\ onScreen
     /\ few \/ Cardinality(b.outlined) >= 2
     /\ Keep(RefreshSteps(b, again, few)) /\ noted' = version
     /\ failed' = (failed /\ noted = version)
     /\ UNCHANGED <<onScreen, data, counts>>

\* The storage refuses the read.
ReadFails ==
  /\ onScreen /\ noted = version /\ scrolls < MaxScrolls /\ scrolls' = scrolls + 1
  /\ pending # NoRequest /\ ~pending.read
  /\ Keep(Lose(Book)) /\ failed' = TRUE
  /\ UNCHANGED <<onScreen, noted, data, restarts>>

\* The timer starts the history over for data deleted, moved or replaced.
TimerResets ==
  /\ noted # version
  /\ Keep(StartOver(Book)) /\ noted' = version /\ failed' = FALSE
  /\ UNCHANGED <<onScreen, data, counts>>

-----------------------------------------------------------------------------
\* What the user does.
Again == restarts < MaxRestarts /\ restarts' = restarts + 1

\* As Restarted, by a bug: the days it had queued are still taken for coming.
RestartedStillQueued(b, on) ==
  LET cleared == [b EXCEPT !.searching = on, !.epoch = @ + 1, !.inflight = <<>>,
                           !.queue = <<>>, !.outlined = DOMAIN b.resident]
  IN ExtendSearch(QueueAll(cleared, (0..b.loaded) \ DOMAIN b.resident))

\* restart_search: the worker goes on and its result is thrown away.
Restarted(b, on) ==
  LET cleared == [b EXCEPT !.searching = on, !.epoch = @ + 1, !.inflight = <<>>,
                           !.queue = <<>>, !.queued = {}, !.outlined = DOMAIN b.resident]
  IN ExtendSearch(QueueAll(cleared, (0..b.loaded) \ DOMAIN b.resident))

Search(on) ==
  /\ onScreen /\ Again
  /\ Keep(Request(Publish(Restarted(Book, on)), onScreen)) /\ failed' = FALSE
  /\ UNCHANGED <<onScreen, noted, data, scrolls>>

Jump(d) ==
  /\ onScreen /\ Again /\ d \in 0..horizon
  /\ LET left == [Book EXCEPT !.searching = FALSE,
                              !.outlined = IF searching THEN {} ELSE @,
                              !.epoch = @ + 1, !.pending = NoRequest, !.inflight = <<>>,
                              !.queue = <<>>, !.queued = {}, !.jump = d,
                              !.loaded = Max({@, d})]
     IN Keep(Request(Publish(QueueAll(Queue(left, d), Near(left, d))), onScreen))
  /\ UNCHANGED <<onScreen, noted, data, failed, scrolls>>

More ==
  /\ onScreen /\ scrolls < MaxScrolls /\ scrolls' = scrolls + 1
  /\ LET until == Min({loaded + DaysPerLoad, horizon})
         further == [QueueAll(Book, loaded + 1 .. until) EXCEPT !.loaded = until]
     IN Keep(Request(Publish(further), onScreen))
  /\ UNCHANGED <<onScreen, noted, data, failed, restarts>>

Scroll(d) ==
  /\ onScreen /\ scrolls < MaxScrolls /\ scrolls' = scrolls + 1
  /\ d \in outlined /\ d # top
  /\ Keep(Request(Publish([Book EXCEPT !.top = d]), onScreen))
  /\ UNCHANGED <<onScreen, noted, data, failed, restarts>>

HideOrShow ==
  /\ scrolls < MaxScrolls /\ scrolls' = scrolls + 1 /\ onScreen' = ~onScreen
  /\ UNCHANGED <<resident, outlined, queue, queued, inflight, pending, epoch, loaded, horizon,
                 searching, jump, top, noted, data, failed, restarts>>

\* Applications are merged, or records deleted: every day may read differently.
ChangeData(reach) ==
  /\ Again /\ version' = version + 1 /\ oldest' = reach
  /\ UNCHANGED <<resident, outlined, queue, queued, inflight, pending, epoch, loaded, horizon,
                 view, noted, failed, scrolls>>

HistoryNext ==
  \/ WorkerReads \/ ReadFails \/ TimerResets
  \/ \E again \in SUBSET {0, 1}, few \in BOOLEAN : Refresh(again, few)
  \/ \E on \in BOOLEAN : Search(on)
  \/ \E d \in Offsets : Jump(d) \/ Scroll(d)
  \/ More \/ HideOrShow
  \/ \E reach \in Offsets : ChangeData(reach)

HistorySpec == HistoryInit /\ [][HistoryNext]_pagingVars

-----------------------------------------------------------------------------
\* What describe() says of a search, history_cache.rs:395-404.
SearchIsDone ==
  LET until == Min({SearchDays, horizon})
  IN \/ Cardinality(outlined \cap 0..until) > until
     \/ queue = <<>> /\ pending = NoRequest

\* A search said to be finished has looked at every day it covers, unless a
\* read has failed; a day once queued is never taken for coming when nobody
\* will read it (restart_search, refresh).  And no day in memory is of data
\* that has been merged or deleted since the view started over.
HistoryIsTrue ==
  noted = version =>
    /\ \A d \in DOMAIN resident : resident[d] = version
    /\ searching /\ SearchIsDone /\ ~failed /\ loaded >= 0 =>
         0..Min({SearchDays, oldest}) \subseteq outlined
=============================================================================
