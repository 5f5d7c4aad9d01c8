--------------------------- MODULE DeliveryProofs ---------------------------
(***************************************************************************)
(* How batches travel: theorems about Delivery for every number of         *)
(* windows, every spool capacity and batch size, and every bound.  The     *)
(* sequence numbers of spool, request and database stay one chain, so the  *)
(* core stores in order, nothing is refused for its place or lost on the   *)
(* way, and Delivery keeps the promise of EventLog.                        *)
(***************************************************************************)
EXTENDS Delivery, FiniteSetTheorems, SequenceTheorems, WellFoundedInduction, TLAPS

(* What the types need besides TypeOK: a loop that is pushing has something to push,
   and a worker that is not idle has a batch.                                      *)
Busy ==
  /\ pc \in {"push", "snap"} => todo # <<>>
  /\ worker # "idle" => sent # <<>>

TypeInv == TypeOK /\ Busy

\* What EventsFor queues are events, as many as there are windows.
LEMMA EventsForType ==
  ASSUME NEW kind \in Kinds, NEW ws \in SUBSET Windows, NEW t \in Time,
         NEW s \in EventsFor(kind, ws, t)
  PROVE  s \in Seq(Event) /\ (ws # {} => s # <<>>)
<1>1. IsFiniteSet(ws)
  BY ConstantsOK, FS_Subset
<1>2. Cardinality(ws) \in Nat /\ (ws # {} => Cardinality(ws) # 0)
  BY <1>1, FS_CardinalityType, FS_EmptySet
<1>3. PICK f \in SetToSeqs(ws) : s = [i \in DOMAIN f |-> WindowEvent(kind, f[i], t)]
  BY DEF EventsFor
<1>4. f \in [1..Cardinality(ws) -> ws]
  BY DEF SetToSeqs
<1>5. s \in [1..Cardinality(ws) -> Event]
  BY <1>3, <1>4 DEF WindowEvent, Event
<1>. QED
  BY <1>2, <1>5

\* A chunk is a legal batch, and what is left is still a list of events.
LEMMA ChunkType ==
  ASSUME TypeOK, todo # <<>>
  PROVE  /\ ChunkLength \in 1..Len(todo)
         /\ Rest \in Seq(Event)
         /\ NextBatch \in Batch /\ Len(NextBatch.events) = ChunkLength
<1>1. ChunkLength \in 1..Len(todo)
  BY ConstantsOK DEF TypeOK, ChunkLength, Earlier
<1>2. Chunk \in Seq(Event) /\ Len(Chunk) = ChunkLength
  BY <1>1, SubSeqProperties DEF TypeOK, Chunk
<1>3. Rest \in Seq(Event)
  BY <1>1, SubSeqProperties DEF TypeOK, Rest
<1>4. NextBatch \in Batch
  BY <1>1, <1>2 DEF TypeOK, NextBatch, Batch
<1>. QED
  BY <1>1, <1>2, <1>3, <1>4 DEF NextBatch

\* A batch has a first and a last event, and its last sequence number is not below its first.
LEMMA BatchType ==
  ASSUME NEW b \in Batch
  PROVE  /\ b.run \in Nat /\ b.first \in Nat \ {0}
         /\ b.events \in Seq(Event) /\ Len(b.events) \in Nat \ {0}
         /\ \A i \in DOMAIN b.events : b.events[i] \in Event
         /\ LastSequence(b) \in Nat \ {0} /\ b.first <= LastSequence(b)
<1>1. b.events \in Seq(Event) /\ b.events # <<>> /\ b.run \in Nat /\ b.first \in Nat \ {0}
  BY DEF Batch
<1>2. Len(b.events) \in Nat \ {0}
  BY <1>1, EmptySeq
<1>. QED
  BY <1>1, <1>2 DEF LastSequence

\* The clock reads a Time next.
LEMMA ReadingsType == TypeOK => Readings \subseteq Time
  BY ConstantsOK DEF TypeOK, Readings, Time

\* An event about no window is an event.
LEMMA NoteType ==
  ASSUME NEW kind \in Kinds, NEW s \in Time, NEW t \in Time
  PROVE  Note(kind, s, t) \in Event /\ <<Note(kind, s, t)>> \in Seq(Event)
<1>1. Note(kind, s, t) \in Event
  BY DEF Note, Event
<1>. QED
  BY <1>1

\* What a publication queues.
LEMMA PublishType ==
  ASSUME TypeInv, NEW now \in Time, NEW fresh \in BOOLEAN, Publish(now, fresh)
  PROVE  /\ todo' \in Seq(Event) /\ after' = "loop"
         /\ pc' \in {"push", "loop"} /\ (pc' = "push" => todo' # <<>>)
         /\ windows' \subseteq Windows /\ lastNow' = now /\ lastUtc' = now
<1>1. PICK shown \in SUBSET Windows, how \in {"steady", "sleep", "discontinuity"} :
        \E notes \in Notes(shown, how, now, fresh),
           closed \in EventsFor("closed", Closed(shown, how), ClosedAt(how, now)),
           updated \in UNION {EventsFor("updated", ws, now) : ws \in Updated(shown, how)},
           opened \in EventsFor("opened", Opened(shown, how), now) :
          Queue(IF ClosedAt(how, now) < now THEN closed \o notes \o updated \o opened
                                            ELSE notes \o closed \o updated \o opened, "loop")
  BY DEF Publish
<1>2. PICK notes \in Notes(shown, how, now, fresh),
           closed \in EventsFor("closed", Closed(shown, how), ClosedAt(how, now)),
           updated \in UNION {EventsFor("updated", ws, now) : ws \in Updated(shown, how)},
           opened \in EventsFor("opened", Opened(shown, how), now) :
          Queue(IF ClosedAt(how, now) < now THEN closed \o notes \o updated \o opened
                                            ELSE notes \o closed \o updated \o opened, "loop")
  BY <1>1
<1>3. notes \in Seq(Event)
  <2>1. notes \in {<<>>, <<Note("interval", now, now)>>, <<Note("bad", now, now)>>}
    BY DEF Notes
  <2>2. <<>> \in Seq(Event)
    OBVIOUS
  <2>3. "interval" \in Kinds /\ "bad" \in Kinds
    BY DEF Kinds
  <2>4. <<Note("interval", now, now)>> \in Seq(Event) /\ <<Note("bad", now, now)>> \in Seq(Event)
    BY <2>3, NoteType
  <2>. QED
    BY <2>1, <2>2, <2>4
<1>4. closed \in Seq(Event) /\ opened \in Seq(Event)
  <2>1. /\ Closed(shown, how) \in SUBSET Windows /\ Opened(shown, how) \in SUBSET Windows
        /\ ClosedAt(how, now) \in Time
    BY DEF TypeInv, TypeOK, Closed, Opened, ClosedAt
  <2>. QED
    BY <2>1, EventsForType DEF Kinds
<1>5. updated \in Seq(Event)
  <2>1. PICK ws \in Updated(shown, how) : updated \in EventsFor("updated", ws, now)
    OBVIOUS
  <2>2. ws \in SUBSET Windows
    BY DEF Updated, TypeInv, TypeOK
  <2>. QED
    BY <2>1, <2>2, EventsForType DEF Kinds
<1>6. /\ closed \o notes \o updated \o opened \in Seq(Event)
      /\ notes \o closed \o updated \o opened \in Seq(Event)
  BY <1>3, <1>4, <1>5
<1>7. todo' \in Seq(Event) /\ after' = "loop" /\ pc' = IF todo' = <<>> THEN "loop" ELSE "push"
  BY <1>2, <1>6 DEF Queue
<1>8. windows' \subseteq Windows /\ lastNow' = now /\ lastUtc' = now
  BY DEF Publish
<1>. QED
  BY <1>7, <1>8

\* A set of natural numbers has a least element.
LEMMA LeastNatural ==
  ASSUME NEW T \in SUBSET Nat, T # {}
  PROVE  \E x \in T : \A y \in T : x <= y
<1>1. PICK x \in T : \A y \in T : ~(<<y, x>> \in OpToRel(<, Nat))
  BY NatLessThanWellFounded, WFMin
<1>2. \A y \in T : ~(y < x)
  BY <1>1 DEF OpToRel
<1>. QED
  BY <1>2

\* discard_run leaves the spool from some place on, and takes only batches of that run.
LEMMA WithoutRunType ==
  ASSUME TypeOK, NEW r \in Nat
  PROVE  /\ WithoutRun(r) \in Seq(Batch)
         /\ Range(WithoutRun(r)) \subseteq Range(spool)
         /\ \/ WithoutRun(r) = <<>> /\ \A i \in DOMAIN spool : spool[i].run = r
            \/ \E k \in DOMAIN spool :
                 /\ spool[k].run # r /\ \A i \in 1..(k - 1) : spool[i].run = r
                 /\ Len(WithoutRun(r)) = Len(spool) - k + 1
                 /\ \A i \in 1..Len(WithoutRun(r)) : WithoutRun(r)[i] = spool[k + i - 1]
<1>. DEFINE kept == {i \in DOMAIN spool : spool[i].run # r}
<1>1. CASE kept = {}
  <2>1. WithoutRun(r) = <<>>
    BY <1>1 DEF WithoutRun
  <2>. QED
    BY <1>1, <2>1 DEF Range
<1>2. CASE kept # {}
  <2>1. kept \in SUBSET Nat
    BY DEF TypeOK
  <2>2. PICK k \in kept : /\ \A j \in kept : k <= j
                         /\ WithoutRun(r) = SubSeq(spool, k, Len(spool))
    BY <1>2, <2>1, LeastNatural DEF WithoutRun
  <2>3. k \in 1..Len(spool) /\ \A i \in k..Len(spool) : spool[i] \in Batch
    BY DEF TypeOK
  <2>4. /\ WithoutRun(r) \in Seq(Batch)
        /\ Len(WithoutRun(r)) = Len(spool) - k + 1
        /\ \A i \in 1..Len(WithoutRun(r)) : WithoutRun(r)[i] = spool[k + i - 1]
    <3>1. Len(spool) \in Nat
      BY DEF TypeOK
    <3>. QED
      BY <2>2, <2>3, <3>1, SubSeqProperties
  <2>5. Range(WithoutRun(r)) \subseteq Range(spool)
    <3>1. \A i \in 1..Len(WithoutRun(r)) : k + i - 1 \in DOMAIN spool
      BY <2>3, <2>4 DEF TypeOK
    <3>. QED
      BY <2>4, <3>1 DEF Range
  <2>6. \A i \in 1..(k - 1) : spool[i].run = r
    BY <2>2, <2>3 DEF TypeOK
  <2>. QED
    BY <2>2, <2>3, <2>4, <2>5, <2>6
<1>. QED
  BY <1>1, <1>2

\* The row of a known run exists.
LEMMA RowOfKnown ==
  ASSUME NEW r, Known(r)
  PROVE  RowOf(r) \in DOMAIN runs /\ runs[RowOf(r)].run = r
BY DEF Known, RowOf

\* A new run begins with events, or with an empty list and nothing to push.
LEMMA RestartRunType ==
  ASSUME TypeInv, RestartRun
  PROVE  /\ pc' \in {"loop", "snap"} /\ (pc' = "snap" => todo' # <<>>)
         /\ after' = "loop" /\ todo' \in Seq(Event)
         /\ run' = run + 1 /\ run' \in Nat /\ seq' = 1
         /\ clock' \in Time /\ lastNow' \in Time
<1>1. PICK t \in Readings : /\ clock' = t /\ lastNow' = t
                           /\ \E o \in EventsFor("opened", windows, t) : todo' = o
  BY DEF RestartRun
<1>2. t \in Time
  BY ReadingsType DEF TypeInv
<1>3. todo' \in Seq(Event) /\ (windows # {} => todo' # <<>>)
  BY <1>1, <1>2, EventsForType DEF TypeInv, TypeOK, Kinds
<1>. QED
  BY <1>1, <1>2, <1>3 DEF RestartRun, TypeInv, TypeOK

\* What a stored batch leaves in the database.
LEMMA StoreType ==
  ASSUME TypeOK, NEW b \in Batch, Store(b)
  PROVE  /\ runs' \in Seq(RunRow) /\ log' \in Seq(Batch)
         /\ open' \in SUBSET (Nat \X (Windows \cup {NoWindow}))
         /\ gaps' \in SUBSET GapRecord
<1>1. b.events[1] \in Event /\ b.events[Len(b.events)] \in Event
  BY BatchType
<1>2. RowFrom(b) \in RunRow
  BY <1>1, BatchType DEF RowFrom, RunRow, Event
<1>3. runs' \in Seq(RunRow)
  <2>1. CASE Known(b.run)
    <3>. DEFINE i == RowOf(b.run)
                row == [runs[i] EXCEPT !.last = RowFrom(b).last, !.seq = RowFrom(b).seq]
    <3>1. runs' = [runs EXCEPT ![i] = row]
      BY <2>1 DEF Store
    <3>2. i \in DOMAIN runs
      BY <2>1, RowOfKnown
    <3>3. RowFrom(b).last \in Time /\ RowFrom(b).seq \in Nat
      BY <1>2 DEF RunRow
    <3>4. row \in RunRow
      <4>1. runs[i] \in RunRow
        BY <3>2 DEF TypeOK
      <4>. HIDE DEF i
      <4>. QED
        BY <3>3, <4>1 DEF RunRow
    <3>. HIDE DEF row, i
    <3>. QED
      BY <3>1, <3>2, <3>4 DEF TypeOK
  <2>2. CASE ~Known(b.run)
    BY <2>2, <1>2 DEF Store, TypeOK
  <2>. QED
    BY <2>1, <2>2
<1>4. log' \in Seq(Batch)
  BY DEF Store, TypeOK
<1>5. open' \in SUBSET (Nat \X (Windows \cup {NoWindow}))
  <2>1. OpenBefore(b) \in SUBSET (Nat \X (Windows \cup {NoWindow}))
    BY DEF OpenBefore, TypeOK
  <2>2. \A i \in 1..Len(b.events) : <<b.run, b.events[i].win>> \in Nat \X (Windows \cup {NoWindow})
    BY BatchType DEF Event
  <2>3. open' = OpenAfter(b, OpenBefore(b), Len(b.events))
    BY DEF Store
  <2>. QED
    BY <2>1, <2>2, <2>3 DEF OpenAfter
<1>6. gaps' \in SUBSET GapRecord
  <2>1. RestartGap(b) \in SUBSET GapRecord
    <3>1. CASE runs = <<>>
      BY <3>1 DEF RestartGap
    <3>2. CASE runs # <<>>
      <4>1. runs[Len(runs)] \in RunRow
        BY <3>2 DEF TypeOK
      <4>2. runs[Len(runs)].last \in Time /\ b.events[1].at \in Time
        BY <4>1, <1>1 DEF RunRow, Event
      <4>. QED
        BY <4>2 DEF RestartGap, GapRecord
    <3>. QED
      BY <3>1, <3>2
  <2>2. ExplicitGaps(b) \in SUBSET GapRecord
    <3>1. \A i \in DOMAIN b.events : b.events[i].since \in Time /\ b.events[i].at \in Time
      BY BatchType DEF Event
    <3>. QED
      BY <3>1 DEF ExplicitGaps, GapRecord
  <2>. QED
    BY <2>1, <2>2 DEF Store, TypeOK
<1>. QED
  BY <1>3, <1>4, <1>5, <1>6

\* A chunk that is pushed, also from a restart snapshot.
LEMMA PushType ==
  ASSUME TypeInv, todo # <<>>, Push \/ PushSnapshot
  PROVE  TypeInv'
<1>1. /\ spool' = Append(spool, NextBatch) /\ seq' = seq + ChunkLength /\ todo' = Rest
      /\ Rest = <<>> => pc' = after
      /\ Rest # <<>> => pc' \in {"push", "snap"}
      /\ UNCHANGED <<after, run, windows, lastNow, lastUtc, faultVars, damaged, workerVars,
                     wire, coreVars, clock, lost>>
  BY DEF Push, PushSnapshot
<1>2. ChunkLength \in Nat /\ Rest \in Seq(Event) /\ NextBatch \in Batch
  BY ChunkType DEF TypeInv
<1>3. seq' \in Nat \ {0} /\ spool' \in Seq(Batch)
  BY <1>1, <1>2 DEF TypeInv, TypeOK
<1>4. pc' \in {"loop", "rotate", "publish", "drain", "push", "snap"}
  BY <1>1 DEF TypeInv, TypeOK
<1>5. TypeOK'
  BY <1>1, <1>2, <1>3, <1>4 DEF TypeInv, TypeOK, faultVars, workerVars, coreVars
<1>6. Busy'
  BY <1>1 DEF TypeInv, TypeOK, Busy, workerVars
<1>. QED
  BY <1>5, <1>6 DEF TypeInv

\* What the events of todo that were dropped would have been is a batch.
LEMMA UnqueuedType == TypeOK => Unqueued \subseteq Batch
  BY DEF TypeOK, Unqueued, Batch

\* The process going down.
LEMMA HaltType ==
  ASSUME TypeInv, Halt
  PROVE  TypeInv'
<1>1. lost' \in SUBSET Batch
  BY UnqueuedType DEF Halt, TypeInv, TypeOK
<1>2. TypeOK'
  BY <1>1 DEF Halt, TypeInv, TypeOK, spoolVars, coreVars
<1>. QED
  BY <1>2 DEF Halt, TypeInv, Busy

\* Initially the types are right.
LEMMA InitTypes == Init => TypeInv
<1>. SUFFICES ASSUME Init PROVE TypeInv
  OBVIOUS
<1>1. 1 \in Time
  BY ConstantsOK DEF Time
<1>2. /\ todo \in Seq(Event) /\ spool \in Seq(Batch) /\ sent \in Seq(Batch)
      /\ wire \in Seq(Batch) /\ runs \in Seq(RunRow) /\ log \in Seq(Batch)
  BY DEF Init
<1>3. /\ pc = "down" /\ after = "loop" /\ run = 0 /\ seq = 1 /\ windows = {}
      /\ lastNow = 1 /\ lastUtc = 1 /\ clock = 1 /\ fault = "none" /\ faultRun = 0
      /\ damaged \in BOOLEAN /\ worker = "idle" /\ open = {} /\ gaps = {} /\ lost = {}
  BY DEF Init
<1>4. TypeOK
  BY <1>1, <1>2, <1>3 DEF TypeOK
<1>. QED
  BY <1>3, <1>4 DEF TypeInv, Busy

\* Every step keeps the types right.
LEMMA NextTypes == TypeInv /\ [Next]_vars => TypeInv'
<1>. SUFFICES ASSUME TypeInv, [Next]_vars PROVE TypeInv'
  OBVIOUS
<1>. USE DEF TypeInv
<1>1. CASE Start
  <2>1. PICK t \in Readings : clock' = t /\ lastNow' = t /\ lastUtc' = t
    BY <1>1 DEF Start
  <2>2. t \in Time
    BY ReadingsType
  <2>3. Range(spool) \subseteq Batch
    BY DEF TypeOK, Range
  <2>4. /\ pc' = "publish" /\ after' = "loop"
        /\ run' \in Nat /\ seq' = 1 /\ windows' = {}
    BY <1>1 DEF Start, TypeOK
  <2>5. damaged' \in BOOLEAN
    BY <1>1 DEF Start
  <2>6. todo' \in Seq(Event) /\ spool' \in Seq(Batch) /\ lost' \in SUBSET Batch
    BY <1>1, <2>3 DEF Start, TypeOK
  <2>7. UNCHANGED <<faultVars, workerVars, wire, coreVars>>
    BY <1>1 DEF Start
  <2>8. TypeOK'
    BY <2>1, <2>2, <2>3, <2>4, <2>5, <2>6, <2>7 DEF TypeOK, faultVars, workerVars, coreVars
  <2>9. Busy'
    BY <2>4, <2>7 DEF Busy, workerVars
  <2>. QED
    BY <2>8, <2>9
<1>2. CASE FirstPublish
  <2>1. Publish(lastNow, TRUE) /\ lastNow \in Time
    BY <1>2 DEF FirstPublish, TypeOK
  <2>. QED
    BY <1>2, <2>1, PublishType
    DEF FirstPublish, TypeOK, Busy, faultVars, spoolVars, workerVars, coreVars
<1>3. CASE Observe
  <2>1. PICK t \in Readings : clock' = t /\ Publish(Later(lastNow, t), FALSE)
    BY <1>3 DEF Observe
  <2>2. t \in Time /\ Later(lastNow, t) \in Time
    BY ReadingsType DEF Later, TypeOK
  <2>. QED
    BY <1>3, <2>1, <2>2, PublishType
    DEF Observe, TypeOK, Busy, faultVars, spoolVars, workerVars, coreVars
<1>4. CASE ReportInputOverflow
  <2>1. <<Note("input_gap", lastNow, lastNow)>> \in Seq(Event)
    BY NoteType DEF TypeOK, Kinds
  <2>2. /\ todo' = <<Note("input_gap", lastNow, lastNow)>>
        /\ after' = "loop" /\ pc' \in {"push", "loop"}
    BY <1>4 DEF ReportInputOverflow, Queue
  <2>3. todo' # <<>>
    BY <2>2
  <2>. QED
    BY <1>4, <2>1, <2>2, <2>3
    DEF ReportInputOverflow, TypeOK, Busy, faultVars, spoolVars, workerVars, coreVars
<1>5. CASE SealRun
  <2>1. <<Note("interval", lastNow, lastNow)>> \in Seq(Event)
    BY NoteType DEF TypeOK, Kinds
  <2>2. /\ todo' = <<Note("interval", lastNow, lastNow)>>
        /\ after' = "rotate" /\ pc' \in {"push", "rotate"}
    BY <1>5 DEF SealRun, Queue
  <2>3. todo' # <<>> /\ clock' \in Time
    BY <1>5, <2>2, ReadingsType DEF SealRun
  <2>. QED
    BY <1>5, <2>1, <2>2, <2>3
    DEF SealRun, TypeOK, Busy, faultVars, spoolVars, workerVars, coreVars
<1>6. CASE RotateRun
  <2>1. <<Note("interval", clock, clock)>> \in Seq(Event)
    BY NoteType DEF TypeOK, Kinds
  <2>2. /\ todo' = <<Note("interval", clock, clock)>>
        /\ after' = "publish" /\ pc' \in {"push", "publish"}
    BY <1>6 DEF RotateRun, Queue
  <2>3. todo' # <<>>
    BY <2>2
  <2>4. /\ run' \in Nat /\ seq' = 1 /\ windows' = {} /\ lastNow' = clock /\ lastUtc' = clock
        /\ UNCHANGED <<faultVars, spoolVars, workerVars, wire, coreVars, clock, lost>>
    BY <1>6 DEF RotateRun, TypeOK
  <2>. QED
    BY <2>1, <2>2, <2>3, <2>4
    DEF TypeOK, Busy, faultVars, spoolVars, workerVars, coreVars
<1>7. CASE Stop
  <2>1. PICK t \in Readings :
          LET now == Later(t, lastNow)
          IN  /\ clock' = t /\ lastNow' = now
              /\ \E c \in EventsFor("closed", windows, now) :
                   Queue(c \o <<Note("interval", now, now)>>, "drain")
    BY <1>7 DEF Stop
  <2>. DEFINE now == Later(t, lastNow)
  <2>2. t \in Time /\ now \in Time
    BY ReadingsType DEF Later, TypeOK
  <2>. HIDE DEF now
  <2>3. PICK c \in EventsFor("closed", windows, now) :
          Queue(c \o <<Note("interval", now, now)>>, "drain")
    BY <2>1 DEF now
  <2>4. c \in Seq(Event) /\ <<Note("interval", now, now)>> \in Seq(Event)
    BY <2>2, EventsForType, NoteType DEF TypeOK, Kinds
  <2>5. /\ todo' \in Seq(Event) /\ todo' # <<>> /\ after' = "drain"
        /\ pc' \in {"push", "drain"}
    BY <2>3, <2>4 DEF Queue
  <2>6. clock' \in Time /\ lastNow' \in Time
    BY <2>1, <2>2 DEF now
  <2>. QED
    BY <1>7, <2>5, <2>6 DEF Stop, TypeOK, Busy, faultVars, spoolVars, workerVars, coreVars
<1>8. CASE Push
  BY <1>8, PushType DEF Push, Busy
<1>9. CASE Overflow
  <2>1. todo # <<>> /\ pc = "push" /\ Len(spool) = Capacity
    BY <1>9 DEF Overflow, Busy
  <2>2. Head(spool) \in Batch
    BY <2>1, ConstantsOK DEF TypeOK
  <2>. DEFINE oldest == Head(spool).events[1].at
              now == todo[ChunkLength].at
  <2>3. oldest \in Time /\ now \in Time
    <3>1. Head(spool).events[1] \in Event
      BY <2>2, BatchType
    <3>2. todo[ChunkLength] \in Event
      BY <2>1, ChunkType DEF TypeOK
    <3>. QED
      BY <3>1, <3>2 DEF Event
  <2>4. PICK o \in EventsFor("opened", windows, now) :
          todo' = <<Note("gap", Earlier(oldest, now), now)>> \o o
    BY <1>9 DEF Overflow
  <2>. HIDE DEF oldest, now
  <2>5. o \in Seq(Event)
    BY <2>3, EventsForType DEF TypeOK, Kinds
  <2>6. <<Note("gap", Earlier(oldest, now), now)>> \in Seq(Event)
    BY <2>3, NoteType DEF Earlier, Kinds
  <2>7. todo' \in Seq(Event) /\ todo' # <<>>
    BY <2>4, <2>5, <2>6
  <2>8. lost' \in SUBSET Batch
    <3>1. Range(spool) \subseteq Batch
      BY DEF TypeOK, Range
    <3>. QED
      BY <1>9, <3>1, UnqueuedType DEF Overflow, TypeOK
  <2>9. /\ spool' = <<>> /\ run' \in Nat /\ seq' = 1 /\ pc' = "snap"
        /\ UNCHANGED <<after, windows, lastNow, lastUtc, faultVars, damaged, workerVars,
                       wire, coreVars, clock>>
    BY <1>9 DEF Overflow, TypeOK
  <2>. QED
    BY <2>7, <2>8, <2>9 DEF TypeOK, Busy, faultVars, workerVars, coreVars
<1>10. CASE PushSnapshot
  BY <1>10, PushType DEF PushSnapshot, Busy
<1>11. CASE RepairUnreadable
  <2>1. RestartRun
    BY <1>11 DEF RepairUnreadable
  <2>2. lost' \in SUBSET Batch /\ fault' = "none"
    BY <1>11 DEF RepairUnreadable, TypeOK, Range
  <2>5. damaged' \in BOOLEAN
    BY <1>11 DEF RepairUnreadable
  <2>3. UNCHANGED <<windows, lastUtc, faultRun, workerVars, wire, coreVars>>
    BY <1>11 DEF RepairUnreadable
  <2>4. spool' \in Seq(Batch)
    BY <1>11 DEF RepairUnreadable
  <2>. QED
    BY <2>1, <2>2, <2>3, <2>4, <2>5, RestartRunType DEF TypeOK, Busy, workerVars, coreVars
<1>12. CASE RepairRejected
  <2>1. spool' \in Seq(Batch) /\ lost' \in SUBSET Batch /\ fault' = "none"
    <3>1. Range(spool) \subseteq Batch
      BY DEF TypeOK, Range
    <3>2. WithoutRun(faultRun) \in Seq(Batch)
      BY WithoutRunType DEF TypeOK
    <3>. QED
      BY <1>12, <3>1, <3>2 DEF RepairRejected, TypeOK
  <2>2. UNCHANGED <<windows, lastUtc, faultRun, damaged, workerVars, wire, coreVars>>
    BY <1>12 DEF RepairRejected
  <2>3. CASE faultRun = run
    <3>1. RestartRun
      BY <1>12, <2>3 DEF RepairRejected
    <3>. QED
      BY <2>1, <2>2, <3>1, RestartRunType DEF TypeOK, Busy, workerVars, coreVars
  <2>4. CASE faultRun # run
    <3>1. UNCHANGED <<pc, after, todo, run, seq, lastNow, clock>>
      BY <1>12, <2>4 DEF RepairRejected
    <3>. QED
      BY <2>1, <2>2, <3>1 DEF TypeOK, Busy, workerVars, coreVars
  <2>. QED
    BY <2>3, <2>4
<1>13. CASE Exit \/ Crash \/ StopUnreadable
  BY <1>13, HaltType DEF Exit, Crash, StopUnreadable
<1>14. CASE Decay
  BY <1>14 DEF Decay, TypeOK, Busy, collectorVars, faultVars, workerVars, coreVars
<1>15. CASE Send
  <2>1. <<Head(spool)>> \in Seq(Batch)
    BY <1>15 DEF Send, TypeOK
  <2>2. /\ sent' = <<Head(spool)>> /\ wire' = <<Head(spool)>> /\ worker' = "waiting"
        /\ UNCHANGED <<collectorVars, faultVars, spoolVars, coreVars, clock, lost>>
    BY <1>15 DEF Send
  <2>. QED
    BY <2>1, <2>2 DEF TypeOK, Busy, collectorVars, faultVars, spoolVars, coreVars
<1>16. CASE ReportUnreadable
  BY <1>16 DEF ReportUnreadable, TypeOK, Busy, collectorVars, spoolVars, workerVars, coreVars
<1>18. CASE Pop
  <2>1. spool' \in Seq(Batch)
    BY <1>18 DEF Pop, TypeOK
  <2>. QED
    BY <1>18, <2>1 DEF Pop, TypeOK, Busy, collectorVars, faultVars, coreVars
<1>19. CASE ReportRejected
  <2>1. Head(sent) \in Batch
    BY <1>19 DEF ReportRejected, TypeOK, Busy
  <2>2. faultRun' \in Nat
    BY <1>19, <2>1 DEF ReportRejected, Batch
  <2>. QED
    BY <1>19, <2>2 DEF ReportRejected, TypeOK, Busy, collectorVars, spoolVars, coreVars
<1>20. CASE Lose
  BY <1>20 DEF Lose, TypeOK, Busy, collectorVars, faultVars, spoolVars, coreVars
<1>21. CASE Ingest \/ IngestUnanswered
  <2>. Handle
    BY <1>21 DEF Ingest, IngestUnanswered
  <2>1. Head(wire) \in Batch
    BY DEF Handle, TypeOK
  <2>2. /\ runs' \in Seq(RunRow) /\ log' \in Seq(Batch)
        /\ open' \in SUBSET (Nat \X (Windows \cup {NoWindow}))
        /\ gaps' \in SUBSET GapRecord
    <3>1. CASE UNCHANGED coreVars
      BY <3>1 DEF coreVars, TypeOK
    <3>2. CASE Store(Head(wire))
      BY <2>1, <3>2, StoreType
    <3>. QED
      BY <3>1, <3>2 DEF Handle
  <2>3. wire' = <<>> /\ UNCHANGED <<collectorVars, faultVars, spoolVars, clock, lost>>
    BY DEF Handle
  <2>4. /\ worker' \in {"idle", "waiting", "acked", "refused"} /\ sent' \in Seq(Batch)
        /\ worker' # "idle" => sent' # <<>>
    <3>1. CASE Ingest
      <4>1. worker' \in {worker, "acked", "refused"} /\ (worker = "idle" => worker' = "idle")
        BY <3>1 DEF Ingest
      <4>. QED
        BY <3>1, <4>1 DEF Ingest, TypeOK, Busy
    <3>2. CASE IngestUnanswered
      BY <3>2 DEF IngestUnanswered
    <3>. QED
      BY <1>21, <3>1, <3>2
  <2>5. /\ UNCHANGED <<pc, after, todo, run, seq, windows, lastNow, lastUtc>>
        /\ UNCHANGED <<fault, faultRun, spool, damaged, clock, lost>> /\ wire' \in Seq(Batch)
    BY <2>3 DEF collectorVars, faultVars, spoolVars
  <2>. QED
    BY <2>2, <2>4, <2>5 DEF TypeOK, Busy
<1>22. CASE UNCHANGED vars
  BY <1>22 DEF vars, TypeOK, Busy, collectorVars, faultVars, spoolVars, workerVars, coreVars
<1>. QED
  BY <1>1, <1>2, <1>3, <1>4, <1>5, <1>6, <1>7, <1>8, <1>9, <1>10, <1>11, <1>12, <1>13,
     <1>14, <1>15, <1>16, <1>18, <1>19, <1>20, <1>21, <1>22
  DEF Next, Collector, Worker, Core

\* Every reachable state is well typed: in particular no batch is ever empty, sequence
\* numbers begin at 1, and a full spool always has an oldest event to date the gap from.
THEOREM TypeCorrect == Spec => []TypeOK
<1>1. TypeInv => TypeOK
  BY DEF TypeInv
<1>. QED
  BY <1>1, InitTypes, NextTypes, PTL DEF Spec

-----------------------------------------------------------------------------
(* The chain of sequence numbers.                                          *)

ChainInv == TypeInv /\ Chained

\* Runs never go back along the spool.
LEMMA SpoolAscends ==
  ASSUME TypeOK, SpoolChained
  PROVE  \A j \in DOMAIN spool : /\ spool[1].run <= spool[j].run
                                /\ spool[j].run <= spool[Len(spool)].run
                                /\ spool[j].run <= run
<1>1. \A j \in DOMAIN spool : spool[j].run \in Nat
  BY BatchType DEF TypeOK
<1>2. \A j \in DOMAIN spool : j # Len(spool) => spool[j].run <= spool[j + 1].run
  <2>1. SUFFICES ASSUME NEW j \in DOMAIN spool, j # Len(spool)
                 PROVE  spool[j].run <= spool[j + 1].run
    OBVIOUS
  <2>2. j \in 1..(Len(spool) - 1) /\ j + 1 \in DOMAIN spool
    BY <2>1 DEF TypeOK
  <2>3. Follows(spool[j], spool[j + 1])
    BY <2>2 DEF SpoolChained
  <2>. QED
    BY <1>1, <2>2, <2>3 DEF Follows
<1>3. \A j \in DOMAIN spool : spool[1].run <= spool[j].run
  <2>. DEFINE bad == {j \in DOMAIN spool : ~(spool[1].run <= spool[j].run)}
  <2>1. SUFFICES ASSUME bad # {} PROVE FALSE
    OBVIOUS
  <2>2. PICK j \in bad : \A i \in bad : j <= i
    <3>1. bad \in SUBSET Nat
      BY DEF TypeOK
    <3>. QED
      BY <2>1, <3>1, LeastNatural
  <2>3. j # 1 /\ j - 1 \in DOMAIN spool /\ j - 1 # Len(spool)
    BY <1>1, <2>2 DEF TypeOK
  <2>4. j - 1 \notin bad
    BY <2>2, <2>3 DEF TypeOK
  <2>5. spool[j - 1].run <= spool[j].run
    BY <1>2, <2>3 DEF TypeOK
  <2>6. spool[1].run <= spool[j - 1].run
    BY <2>3, <2>4
  <2>7. 1 \in DOMAIN spool /\ j \in DOMAIN spool
    BY <2>2 DEF TypeOK
  <2>. QED
    BY <1>1, <2>2, <2>3, <2>5, <2>6, <2>7
<1>4. \A j \in DOMAIN spool : spool[j].run <= spool[Len(spool)].run
  <2>. DEFINE back(n) == Len(spool) - n
              bad == {n \in 0..(Len(spool) - 1) : ~(spool[back(n)].run <= spool[Len(spool)].run)}
  <2>1. bad = {}
    <3>1. SUFFICES ASSUME bad # {} PROVE FALSE
      OBVIOUS
    <3>2. PICK n \in bad : \A i \in bad : n <= i
      <4>1. bad \in SUBSET Nat
        BY DEF TypeOK
      <4>. HIDE DEF bad
      <4>. QED
        BY <3>1, <4>1, LeastNatural
    <3>3. n # 0 /\ n - 1 \in 0..(Len(spool) - 1) /\ back(n) + 1 = back(n - 1)
          /\ back(n) \in DOMAIN spool /\ back(n - 1) \in DOMAIN spool /\ back(n) # Len(spool)
          /\ Len(spool) \in DOMAIN spool
      BY <1>1, <3>2 DEF TypeOK
    <3>4. n - 1 \notin bad
      <4>1. n \in Nat /\ ~(n <= n - 1)
        BY DEF TypeOK
      <4>. HIDE DEF bad
      <4>. QED
        BY <3>2, <4>1
    <3>5. spool[back(n - 1)].run <= spool[Len(spool)].run
      BY <3>3, <3>4
    <3>6. spool[back(n)].run <= spool[back(n - 1)].run
      BY <1>2, <3>3
    <3>. HIDE DEF back
    <3>. QED
      BY <1>1, <3>2, <3>3, <3>5, <3>6
  <2>2. SUFFICES ASSUME NEW j \in DOMAIN spool PROVE spool[j].run <= spool[Len(spool)].run
    OBVIOUS
  <2>3. Len(spool) - j \in 0..(Len(spool) - 1) /\ back(Len(spool) - j) = j
    BY DEF TypeOK
  <2>. QED
    BY <2>1, <2>3
<1>5. \A j \in DOMAIN spool : spool[Len(spool)].run <= run
  <2>1. SUFFICES ASSUME NEW j \in DOMAIN spool PROVE spool[Len(spool)].run <= run
    OBVIOUS
  <2>2. spool # <<>> /\ Len(spool) \in DOMAIN spool
    BY DEF TypeOK
  <2>. QED
    BY <1>1, <2>2 DEF SpoolChained, TypeOK
<1>. QED
  <2>1. \A j \in DOMAIN spool : Len(spool) \in DOMAIN spool
    BY DEF TypeOK
  <2>2. run \in Nat
    BY DEF TypeOK
  <2>. QED
    BY <1>1, <1>3, <1>4, <1>5, <2>1, <2>2

\* The rows of collector_runs are rows.
LEMMA RowType ==
  ASSUME TypeOK
  PROVE  \A i \in DOMAIN runs : runs[i].run \in Nat /\ runs[i].seq \in Nat
<1>1. \A i \in DOMAIN runs : runs[i] \in RunRow
  BY DEF TypeOK
<1>. QED
  BY <1>1 DEF RunRow

\* Nothing stored expects an event that a later run will bring.
LEMMA UnknownLater ==
  ASSUME TypeOK, NEW r \in Nat, \A i \in DOMAIN runs : runs[i].run < r
  PROVE  ~Known(r)
<1>1. \A i \in DOMAIN runs : runs[i].run \in Nat
  BY RowType
<1>. QED
  BY <1>1 DEF Known

\* What the parts of the chain say about the oldest and the newest batch of the spool.
LEMMA ChainEnds ==
  ASSUME ChainInv
  PROVE  /\ run \in Nat /\ seq \in Nat \ {0} /\ spool \in Seq(Batch)
         /\ \A i \in DOMAIN runs : runs[i].run \in Nat /\ runs[i].run <= run
         /\ spool # <<>> =>
              /\ 1 \in DOMAIN spool /\ Len(spool) \in DOMAIN spool
              /\ spool[1] \in Batch /\ spool[Len(spool)] \in Batch
              /\ spool[1].run \in Nat /\ spool[Len(spool)].run \in Nat
              /\ spool[1].run <= spool[Len(spool)].run
              /\ spool[Len(spool)].run <= run
              /\ \A i \in DOMAIN runs : runs[i].run <= spool[1].run
         /\ wire # <<>> =>
              /\ wire[1] \in Batch /\ wire[1].run \in Nat
              /\ IF spool = <<>> THEN wire[1].run < run ELSE wire[1].run <= spool[1].run
<1>. USE DEF ChainInv, Chained, TypeInv
<1>1. run \in Nat /\ seq \in Nat \ {0} /\ spool \in Seq(Batch)
  BY DEF TypeOK
<1>2. \A i \in DOMAIN runs : runs[i].run \in Nat /\ runs[i].run <= run
  BY RowType DEF FrontNext
<1>3. ASSUME spool # <<>>
      PROVE  /\ 1 \in DOMAIN spool /\ Len(spool) \in DOMAIN spool
             /\ spool[1] \in Batch /\ spool[Len(spool)] \in Batch
             /\ spool[1].run \in Nat /\ spool[Len(spool)].run \in Nat
             /\ spool[1].run <= spool[Len(spool)].run
             /\ spool[Len(spool)].run <= run
             /\ \A i \in DOMAIN runs : runs[i].run <= spool[1].run
  <2>1. 1 \in DOMAIN spool /\ Len(spool) \in DOMAIN spool
    BY <1>1, <1>3
  <2>2. spool[1] \in Batch /\ spool[Len(spool)] \in Batch
    BY <1>1, <2>1
  <2>. QED
    BY <1>3, <2>1, <2>2, BatchType, SpoolAscends DEF FrontNext
<1>4. ASSUME wire # <<>>
      PROVE  /\ wire[1] \in Batch /\ wire[1].run \in Nat
             /\ IF spool = <<>> THEN wire[1].run < run ELSE wire[1].run <= spool[1].run
  <2>1. wire[1] \in Batch
    BY <1>4 DEF TypeOK
  <2>2. wire[1].run \in Nat
    BY <2>1, BatchType
  <2>. QED
    BY <1>3, <1>4, <2>1, <2>2 DEF WireNext
<1>. QED
  BY <1>1, <1>2, <1>3, <1>4

\* The chain survives a new run, and the loss of all the spool or of the runs at its front.
LEMMA ChainCut ==
  ASSUME ChainInv, UNCHANGED <<runs, log, wire>>, spool' \in Seq(Batch),
         \/ spool' = spool
         \/ spool' = <<>>
         \/ \E k \in 2..Len(spool) :
              /\ spool[k - 1].run # spool[k].run
              /\ Len(spool') = Len(spool) - k + 1
              /\ \A i \in 1..Len(spool') : spool'[i] = spool[k + i - 1],
         \/ run' = run + 1 /\ seq' = 1
         \/ /\ run' = run /\ seq' = seq
            /\ spool' = <<>> => spool = <<>> \/ spool[Len(spool)].run # run
  PROVE  SpoolChained' /\ FrontNext' /\ WireNext' /\ RunsMatchLog'
<1>. USE DEF ChainInv, Chained, TypeInv
<1>1. /\ \A r : Known(r)' <=> Known(r)
      /\ \A r : RowOf(r)' = RowOf(r)
      /\ \A r, n : NextFor(r, n)' <=> NextFor(r, n)
  BY DEF Known, RowOf, NextFor
<1>2. RunsMatchLog'
  BY <1>1 DEF RunsMatchLog
<1>3. run' \in Nat /\ run <= run' /\ (run' # run => run' = run + 1 /\ seq' = 1)
  BY ChainEnds
<1>4. ~Known(run + 1)
  <2>1. run + 1 \in Nat /\ \A i \in DOMAIN runs : runs[i].run < run + 1
    BY ChainEnds
  <2>. QED
    BY <2>1, UnknownLater
<1>5. CASE spool' = <<>>
  <2>1. NextFor(run', seq')
    <3>1. CASE run' = run + 1
      <4>1. seq' = 1
        BY <1>3, <3>1, ChainEnds
      <4>. QED
        BY <1>4, <3>1, <4>1 DEF NextFor
    <3>2. CASE run' = run /\ spool = <<>>
      <4>1. seq' = seq
        BY <3>2, ChainEnds
      <4>. QED
        BY <3>2, <4>1 DEF SpoolChained
    <3>3. CASE run' = run /\ spool # <<>>
      <4>1. spool[Len(spool)].run # run /\ seq' = seq
        BY <1>5, <3>3, ChainEnds
      <4>2. spool[Len(spool)].run < run /\ seq = 1
        BY <3>3, <4>1 DEF SpoolChained
      <4>3. \A i \in DOMAIN runs : runs[i].run < run
        BY <3>3, <4>2, ChainEnds
      <4>4. ~Known(run)
        BY <4>3, UnknownLater, ChainEnds
      <4>. QED
        BY <3>3, <4>1, <4>2, <4>4 DEF NextFor
    <3>. QED
      BY <3>1, <3>2, <3>3, ChainEnds
  <2>2. SpoolChained'
    <3>1. NextFor(run, seq)'
      BY <2>1 DEF NextFor, Known, RowOf
    <3>. QED
      BY <1>5, <3>1 DEF SpoolChained
  <2>3. FrontNext'
    BY <1>3, <1>5, ChainEnds DEF FrontNext
  <2>4. WireNext'
    <3>1. wire # <<>> => wire[1].run < run'
      <4>1. CASE spool = <<>>
        BY <1>3, <4>1, ChainEnds
      <4>2. CASE spool # <<>> /\ run' = run + 1
        BY <4>2, ChainEnds
      <4>3. CASE spool # <<>> /\ run' = run
        <5>1. spool[Len(spool)].run # run
          BY <1>5, <4>3, ChainEnds
        <5>. QED
          BY <4>3, <5>1, ChainEnds
      <4>. QED
        BY <4>1, <4>2, <4>3, ChainEnds
    <3>. QED
      BY <1>1, <1>5, <3>1 DEF WireNext
  <2>. QED
    BY <1>2, <2>2, <2>3, <2>4
<1>6. CASE spool' = spool /\ spool # <<>>
  <2>1. SpoolChained'
    <3>1. run' = run + 1 \/ (run' = run /\ seq' = seq)
      OBVIOUS
    <3>. QED
      BY <1>3, <1>6, <3>1, ChainEnds DEF SpoolChained, Follows, LastSequence
  <2>2. FrontNext'
    BY <1>1, <1>3, <1>6, ChainEnds DEF FrontNext, LastSequence
  <2>3. WireNext'
    BY <1>1, <1>6 DEF WireNext
  <2>. QED
    BY <1>2, <2>1, <2>2, <2>3
<1>7. CASE \E k \in 2..Len(spool) :
             /\ spool[k - 1].run # spool[k].run
             /\ Len(spool') = Len(spool) - k + 1
             /\ \A i \in 1..Len(spool') : spool'[i] = spool[k + i - 1]
  <2>1. PICK k \in 2..Len(spool) :
             /\ spool[k - 1].run # spool[k].run
             /\ Len(spool') = Len(spool) - k + 1
             /\ \A i \in 1..Len(spool') : spool'[i] = spool[k + i - 1]
    BY <1>7
  <2>2. /\ Len(spool) \in Nat /\ spool # <<>> /\ spool' # <<>>
        /\ k - 1 \in 1..(Len(spool) - 1) /\ k - 1 \in DOMAIN spool /\ k \in DOMAIN spool
        /\ spool'[1] = spool[k] /\ spool'[Len(spool')] = spool[Len(spool)]
        /\ spool[k] \in Batch /\ spool[k - 1] \in Batch
    <3>1. /\ Len(spool) \in Nat /\ Len(spool') \in Nat /\ Len(spool') >= 1
          /\ k \in Nat /\ k >= 2 /\ k <= Len(spool) /\ Len(spool') = Len(spool) - k + 1
      BY <2>1, ChainEnds
    <3>2. /\ k - 1 \in 1..(Len(spool) - 1) /\ k - 1 \in 1..Len(spool) /\ k \in 1..Len(spool)
          /\ k + 1 - 1 = k /\ k + Len(spool') - 1 = Len(spool)
      <4>. DEFINE m == Len(spool)
                  n == Len(spool')
      <4>1. m \in Nat /\ n \in Nat /\ k \in Nat /\ k >= 2 /\ k <= m /\ n = m - k + 1
        BY <3>1
      <4>. HIDE DEF m, n
      <4>2. k - 1 \in 1..(m - 1) /\ k - 1 \in 1..m /\ k \in 1..m
        BY <4>1
      <4>3. k + 1 - 1 = k /\ k + n - 1 = m
        BY <4>1
      <4>. QED
        BY <4>2, <4>3 DEF m, n
    <3>3. spool # <<>> /\ spool' # <<>>
      BY <3>1, <3>2
    <3>4. spool'[1] = spool[k] /\ spool'[Len(spool')] = spool[Len(spool)]
      BY <2>1, <3>1, <3>2
    <3>5. k - 1 \in DOMAIN spool /\ k \in DOMAIN spool
      BY <3>2, ChainEnds
    <3>6. spool[k] \in Batch /\ spool[k - 1] \in Batch
      BY <3>5, ChainEnds
    <3>. QED
      BY <3>1, <3>2, <3>3, <3>4, <3>5, <3>6
  <2>3. spool[k - 1].run < spool[k].run /\ spool[k].first = 1
    <3>1. Follows(spool[k - 1], spool[(k - 1) + 1])
      BY <2>2 DEF SpoolChained
    <3>. QED
      BY <2>1, <2>2, <3>1 DEF Follows
  <2>4. spool[1].run < spool[k].run /\ spool[k].run \in Nat
    <3>1. spool[1].run \in Nat /\ spool[k - 1].run \in Nat /\ spool[k].run \in Nat
      BY <2>2, BatchType, ChainEnds
    <3>2. spool[1].run <= spool[k - 1].run
      BY <2>2, SpoolAscends
    <3>. QED
      BY <2>3, <3>1, <3>2
  <2>5. ~Known(spool[k].run)
    <3>1. \A i \in DOMAIN runs : runs[i].run < spool[k].run
      <4>1. spool[1].run \in Nat /\ \A i \in DOMAIN runs : runs[i].run \in Nat /\ runs[i].run <= spool[1].run
        BY <2>2, ChainEnds
      <4>. QED
        BY <2>4, <4>1
    <3>. QED
      BY <2>4, <3>1, UnknownLater
  <2>6. spool[k] \notin Range(log)
    BY <2>5 DEF RunsMatchLog, Range
  <2>7. SpoolChained'
    <3>1. ASSUME NEW i \in 1..(Len(spool') - 1) PROVE Follows(spool'[i], spool'[i + 1])
      <4>1. /\ k + i - 1 \in 1..(Len(spool) - 1) /\ (k + i - 1) + 1 = k + (i + 1) - 1
            /\ i \in 1..Len(spool') /\ i + 1 \in 1..Len(spool')
        <5>1. i \in Nat /\ i >= 1 /\ i <= Len(spool) - k /\ k \in Nat /\ k >= 2 /\ Len(spool) \in Nat
          BY <2>1, <2>2
        <5>. QED
          BY <2>1, <5>1
      <4>2. Follows(spool[k + i - 1], spool[(k + i - 1) + 1])
        BY <4>1 DEF SpoolChained
      <4>. QED
        BY <2>1, <4>1, <4>2
    <3>2. \A i \in 1..(Len(spool') - 1) : Follows(spool[i], spool[i + 1])'
      BY <3>1 DEF Follows, LastSequence
    <3>3. LET z == spool[Len(spool)]
          IN  IF z.run = run' THEN seq' = LastSequence(z) + 1 ELSE z.run < run' /\ seq' = 1
      BY SMTT(30), <1>3, <2>2, ChainEnds DEF SpoolChained
    <3>. QED
      BY <2>2, <3>2, <3>3 DEF SpoolChained, LastSequence
  <2>8. FrontNext'
    <3>1. NextFor(spool[k].run, spool[k].first)
      BY <2>3, <2>5 DEF NextFor
    <3>2. \A i \in DOMAIN runs : runs[i].run <= spool[k].run
      <4>1. spool[1].run \in Nat /\ \A i \in DOMAIN runs : runs[i].run \in Nat /\ runs[i].run <= spool[1].run
        BY <2>2, ChainEnds
      <4>. QED
        BY <2>4, <4>1
    <3>. QED
      BY SMTT(30), <1>1, <1>3, <2>2, <2>6, <3>1, <3>2, ChainEnds DEF FrontNext, LastSequence
  <2>9. WireNext'
    <3>1. wire # <<>> => wire[1].run < spool[k].run
      <4>1. spool[1].run \in Nat /\ (wire # <<>> => wire[1].run \in Nat /\ wire[1].run <= spool[1].run)
        BY <2>2, ChainEnds
      <4>. QED
        BY <2>4, <4>1
    <3>. QED
      BY <1>1, <2>2, <3>1 DEF WireNext
  <2>. QED
    BY <1>2, <2>7, <2>8, <2>9
<1>. QED
  BY <1>5, <1>6, <1>7

\* What the database expects next is not stored yet.
LEMMA NextIsNew ==
  ASSUME TypeOK, RunsMatchLog, NEW b \in Batch, NextFor(b.run, b.first)
  PROVE  \A i \in DOMAIN log : log[i].run = b.run => LastSequence(log[i]) < b.first
<1>1. SUFFICES ASSUME NEW i \in DOMAIN log, log[i].run = b.run
               PROVE  LastSequence(log[i]) < b.first
  OBVIOUS
<1>2. log[i] \in Batch
  BY DEF TypeOK
<1>3. Known(b.run) /\ LastSequence(log[i]) <= runs[RowOf(b.run)].seq
  BY <1>1 DEF RunsMatchLog
<1>4. b.first = runs[RowOf(b.run)].seq + 1 /\ runs[RowOf(b.run)].seq \in Nat
  BY <1>3, RowOfKnown, RowType DEF NextFor
<1>. QED
  BY <1>2, <1>3, <1>4, BatchType

\* ... so a batch of that number is new to the log.
LEMMA NextIsNotStored ==
  ASSUME TypeOK, RunsMatchLog, NEW b \in Batch, NextFor(b.run, b.first)
  PROVE  b \notin Range(log)
<1>1. SUFFICES ASSUME NEW i \in DOMAIN log, log[i] = b PROVE FALSE
  BY DEF Range
<1>2. LastSequence(b) < b.first
  BY <1>1, NextIsNew
<1>. QED
  BY <1>2, BatchType

\* A pushed chunk continues the chain.
LEMMA ChainPush ==
  ASSUME ChainInv, todo # <<>>, Push \/ PushSnapshot
  PROVE  Chained'
<1>. USE DEF ChainInv, Chained, TypeInv
<1>1. /\ spool' = Append(spool, NextBatch) /\ seq' = seq + ChunkLength
      /\ UNCHANGED <<run, runs, log, wire, worker, sent>>
  BY DEF Push, PushSnapshot, workerVars, coreVars
<1>2. /\ \A r : Known(r)' <=> Known(r)
      /\ \A r : RowOf(r)' = RowOf(r)
      /\ \A r, n : NextFor(r, n)' <=> NextFor(r, n)
  BY <1>1 DEF Known, RowOf, NextFor
<1>3. RunsMatchLog' /\ WorkerKnows'
  BY <1>1, <1>2 DEF RunsMatchLog, WorkerKnows
<1>4. /\ NextBatch \in Batch /\ NextBatch.run = run /\ NextBatch.first = seq
      /\ LastSequence(NextBatch) + 1 = seq'
  <2>1. NextBatch \in Batch /\ Len(NextBatch.events) = ChunkLength /\ ChunkLength \in Nat
    BY ChunkType DEF TypeOK
  <2>2. NextBatch.run = run /\ NextBatch.first = seq
    BY DEF NextBatch
  <2>3. seq \in Nat
    BY ChainEnds
  <2>. QED
    BY <1>1, <2>1, <2>2, <2>3 DEF LastSequence
<1>. HIDE DEF Chained
<1>. DEFINE b == NextBatch
<1>5. /\ Len(spool) \in Nat /\ Len(spool') = Len(spool) + 1 /\ spool' # <<>>
      /\ spool'[Len(spool) + 1] = b
      /\ \A i \in 1..Len(spool) : spool'[i] = spool[i]
  BY <1>1, <1>4, ChainEnds, AppendProperties
<1>6. spool # <<>> => Follows(spool[Len(spool)], b)
  BY <1>4, ChainEnds DEF SpoolChained, Follows, Chained
<1>. HIDE DEF b
<1>7. SpoolChained'
  <2>1. ASSUME NEW i \in 1..(Len(spool') - 1) PROVE Follows(spool'[i], spool'[i + 1])
    <3>1. CASE i = Len(spool)
      <4>1. spool # <<>>
        BY <3>1
      <4>. QED
        BY <1>5, <1>6, <3>1, <4>1
    <3>2. CASE i # Len(spool)
      <4>1. i \in 1..(Len(spool) - 1) /\ i \in 1..Len(spool) /\ i + 1 \in 1..Len(spool)
        BY <1>5, <3>2
      <4>. QED
        BY <1>5, <4>1 DEF SpoolChained, Chained
    <3>. QED
      BY <3>1, <3>2
  <2>2. \A i \in 1..(Len(spool') - 1) : Follows(spool[i], spool[i + 1])'
    BY <2>1 DEF Follows, LastSequence
  <2>3. spool'[Len(spool')] = b /\ b.run = run' /\ seq' = LastSequence(b) + 1
    BY <1>1, <1>4, <1>5 DEF b
  <2>. QED
    BY <1>5, <2>2, <2>3 DEF SpoolChained, LastSequence
<1>8. CASE spool = <<>>
  <2>1. spool'[1] = b /\ b.run = run /\ b.first = seq /\ b \in Batch
    BY <1>4, <1>5, <1>8 DEF b
  <2>2. NextFor(b.run, b.first)
    BY <1>8, <2>1 DEF SpoolChained, Chained
  <2>3. b \notin Range(log)
    BY <2>1, <2>2, NextIsNotStored DEF Chained
  <2>4. FrontNext'
    BY <1>1, <1>2, <2>1, <2>2, <2>3, ChainEnds DEF FrontNext
  <2>5. wire # <<>> => wire[1].run < b.run
    BY <1>8, <2>1, ChainEnds
  <2>6. WireNext'
    BY <1>1, <1>2, <1>5, <2>1, <2>5 DEF WireNext, Chained
  <2>. QED
    BY <1>3, <1>7, <2>4, <2>6 DEF Chained
<1>9. CASE spool # <<>>
  <2>1. spool'[1] = spool[1]
    BY <1>5, <1>9
  <2>2. FrontNext'
    BY <1>1, <1>2, <1>9, <2>1 DEF FrontNext, Chained, LastSequence
  <2>3. WireNext'
    BY <1>1, <1>2, <1>5, <1>9, <2>1 DEF WireNext, Chained
  <2>. QED
    BY <1>3, <1>7, <2>2, <2>3 DEF Chained
<1>. QED
  BY <1>8, <1>9

\* Only the batch that was stored leaves the spool by an acknowledgement.
LEMMA ChainPop ==
  ASSUME ChainInv, Pop
  PROVE  Chained'
<1>. USE DEF ChainInv, TypeInv
<1>1. /\ UNCHANGED <<run, seq, runs, log, wire>> /\ worker' = "idle" /\ sent' = <<>>
      /\ worker = "acked"
  BY DEF Pop, collectorVars, coreVars
<1>2. /\ \A r : Known(r)' <=> Known(r)
      /\ \A r : RowOf(r)' = RowOf(r)
      /\ \A r, n : NextFor(r, n)' <=> NextFor(r, n)
  BY <1>1 DEF Known, RowOf, NextFor
<1>3. wire = <<>> /\ sent # <<>> /\ sent[1] \in Range(log)
  BY <1>1 DEF Chained, WorkerKnows
<1>4. RunsMatchLog' /\ WorkerKnows' /\ WireNext'
  BY <1>1, <1>2, <1>3 DEF RunsMatchLog, WorkerKnows, WireNext, Chained
<1>5. CASE spool' = spool
  BY <1>1, <1>2, <1>4, <1>5 DEF Chained, SpoolChained, FrontNext, Follows, LastSequence
<1>6. CASE spool' # spool
  <2>1. spool # <<>> /\ Head(spool) = Head(sent) /\ spool' = Tail(spool)
    BY <1>6 DEF Pop
  <2>. DEFINE b == spool[1]
  <2>2. /\ Len(spool) \in Nat /\ Len(spool) >= 1 /\ b \in Batch /\ b \in Range(log)
        /\ Len(spool') = Len(spool) - 1
        /\ \A i \in 1..Len(spool') : spool'[i] = spool[i + 1]
    BY <1>3, <2>1, ChainEnds DEF TypeOK
  <2>3. /\ Known(b.run) /\ runs[RowOf(b.run)].seq = LastSequence(b)
        /\ \A i \in DOMAIN runs : runs[i].run <= b.run
    BY <2>1, <2>2 DEF Chained, FrontNext, RunsMatchLog, Range
  <2>4. b.run \in Nat /\ LastSequence(b) \in Nat
    BY <2>2, BatchType
  <2>. HIDE DEF b
  <2>5. CASE spool' = <<>>
    <3>1. Len(spool) = 1 /\ spool[Len(spool)] = b
      <4>1. Len(spool') = 0
        BY <2>5
      <4>2. Len(spool) = 1
        BY <2>2, <4>1
      <4>. QED
        BY <4>2 DEF b
    <3>2. NextFor(run, seq)
      <4>1. CASE b.run = run
        BY <2>1, <2>3, <3>1, <4>1 DEF Chained, SpoolChained, NextFor
      <4>2. CASE b.run # run
        <5>1. b.run < run /\ seq = 1
          BY <2>1, <3>1, <4>2 DEF Chained, SpoolChained
        <5>2. \A i \in DOMAIN runs : runs[i].run < run
          BY <2>3, <2>4, <5>1, ChainEnds
        <5>3. run \in Nat
          BY ChainEnds
        <5>. QED
          BY <5>1, <5>2, <5>3, UnknownLater DEF NextFor
      <4>. QED
        BY <4>1, <4>2
    <3>3. SpoolChained'
      BY <1>1, <1>2, <2>5, <3>2 DEF SpoolChained
    <3>4. FrontNext'
      BY <1>1, <2>5 DEF Chained, FrontNext
    <3>. QED
      BY <1>4, <3>3, <3>4 DEF Chained
  <2>6. CASE spool' # <<>>
    <3>. DEFINE c == spool[2]
    <3>1. /\ Len(spool) >= 2 /\ spool'[1] = c /\ c \in Batch
          /\ spool'[Len(spool')] = spool[Len(spool)] /\ Follows(b, c)
      <4>1. Len(spool') \in Nat /\ Len(spool') >= 1
        BY <2>2, <2>6, ChainEnds DEF TypeOK
      <4>2. Len(spool) >= 2 /\ 1 \in 1..(Len(spool) - 1) /\ 2 \in 1..Len(spool)
            /\ Len(spool') + 1 = Len(spool) /\ 1 \in 1..Len(spool') /\ Len(spool') \in 1..Len(spool')
        BY <2>2, <4>1
      <4>3. Follows(spool[1], spool[1 + 1])
        BY <4>2 DEF Chained, SpoolChained
      <4>. QED
        BY <2>2, <4>2, <4>3, ChainEnds DEF b
    <3>2. c.run \in Nat /\ c.first \in Nat
      BY <3>1, BatchType
    <3>. HIDE DEF c
    <3>3. NextFor(c.run, c.first) /\ \A i \in DOMAIN runs : runs[i].run <= c.run
      <4>1. CASE c.run = b.run
        BY <2>3, <3>1, <4>1 DEF Follows, NextFor
      <4>2. CASE c.run # b.run
        <5>1. b.run < c.run /\ c.first = 1
          BY <3>1, <4>2 DEF Follows
        <5>2. \A i \in DOMAIN runs : runs[i].run < c.run
          BY <2>3, <2>4, <3>2, <5>1, ChainEnds
        <5>. QED
          BY <3>2, <5>1, <5>2, UnknownLater, ChainEnds DEF NextFor
      <4>. QED
        BY <4>1, <4>2
    <3>4. c \notin Range(log)
      BY <3>1, <3>3, NextIsNotStored DEF Chained
    <3>5. FrontNext'
      BY <1>1, <1>2, <3>1, <3>3, <3>4, ChainEnds DEF FrontNext
    <3>6. SpoolChained'
      <4>1. ASSUME NEW i \in 1..(Len(spool') - 1) PROVE Follows(spool'[i], spool'[i + 1])
        <5>1. i + 1 \in 1..(Len(spool) - 1) /\ i \in 1..Len(spool') /\ i + 1 \in 1..Len(spool')
          BY <2>2
        <5>2. Follows(spool[i + 1], spool[(i + 1) + 1])
          BY <5>1 DEF Chained, SpoolChained
        <5>. QED
          BY <2>2, <5>1, <5>2
      <4>2. \A i \in 1..(Len(spool') - 1) : Follows(spool[i], spool[i + 1])'
        BY <4>1 DEF Follows, LastSequence
      <4>. QED
        BY <1>1, <2>1, <2>6, <3>1, <4>2 DEF Chained, SpoolChained, LastSequence
    <3>. QED
      BY <1>4, <3>5, <3>6 DEF Chained
  <2>. QED
    BY <2>5, <2>6
<1>. QED
  BY <1>5, <1>6

\* A batch that is stored was the next one of its run, and changes no other run's row.
LEMMA StoreRows ==
  ASSUME TypeOK, RunsMatchLog, NEW b \in Batch, Store(b)
  PROVE  /\ \A r : Known(r)' <=> Known(r) \/ r = b.run
         /\ \A r : Known(r) /\ r # b.run => runs'[RowOf(r)'].seq = runs[RowOf(r)].seq
         /\ runs'[RowOf(b.run)'].seq = LastSequence(b)
         /\ \A i, j \in DOMAIN runs' : runs'[i].run = runs'[j].run => i = j
<1>1. \A r : Known(r)' => RowOf(r)' \in DOMAIN runs' /\ runs'[RowOf(r)'].run = r
  BY DEF Known, RowOf
<1>2. \A r : Known(r) => RowOf(r) \in DOMAIN runs /\ runs[RowOf(r)].run = r
  BY RowOfKnown
<1>3. RowFrom(b).run = b.run /\ RowFrom(b).seq = LastSequence(b)
  BY DEF RowFrom
<1>4. CASE Known(b.run)
  <2>. DEFINE k == RowOf(b.run)
  <2>1. k \in DOMAIN runs /\ runs[k].run = b.run
    BY <1>2, <1>4
  <2>2. runs' = [runs EXCEPT ![k] = [runs[k] EXCEPT !.last = RowFrom(b).last,
                                                    !.seq = RowFrom(b).seq]]
    BY <1>4 DEF Store
  <2>. HIDE DEF k
  <2>3. runs[k] \in RunRow
    BY <2>1 DEF TypeOK
  <2>4. /\ DOMAIN runs' = DOMAIN runs
        /\ \A i \in DOMAIN runs : i # k => runs'[i] = runs[i]
        /\ runs'[k].run = b.run /\ runs'[k].seq = LastSequence(b)
    BY <1>3, <2>1, <2>2, <2>3 DEF RunRow
  <2>5. \A i \in DOMAIN runs : runs'[i].run = runs[i].run
    BY <2>1, <2>4
  <2>6. \A i, j \in DOMAIN runs' : runs'[i].run = runs'[j].run => i = j
    BY <2>4, <2>5 DEF RunsMatchLog
  <2>7. \A r : Known(r)' <=> Known(r)
    BY <2>4, <2>5 DEF Known
  <2>8. \A r : Known(r) => RowOf(r)' = RowOf(r)
    BY <1>1, <1>2, <2>4, <2>5, <2>6, <2>7
  <2>9. k = RowOf(b.run)
    BY DEF k
  <2>10. ASSUME NEW r, Known(r), r # b.run
         PROVE  runs'[RowOf(r)'].seq = runs[RowOf(r)].seq
    <3>1. RowOf(r)' = RowOf(r) /\ RowOf(r) \in DOMAIN runs /\ RowOf(r) # k
      BY <1>2, <2>1, <2>8, <2>10
    <3>. QED
      BY <2>4, <3>1
  <2>11. runs'[RowOf(b.run)'].seq = LastSequence(b)
    BY <1>4, <2>4, <2>8, <2>9
  <2>. QED
    BY <1>4, <2>6, <2>7, <2>10, <2>11
<1>5. CASE ~Known(b.run)
  <2>1. runs' = Append(runs, RowFrom(b))
    BY <1>5 DEF Store
  <2>2. /\ Len(runs) \in Nat /\ DOMAIN runs = 1..Len(runs) /\ DOMAIN runs' = 1..(Len(runs) + 1)
        /\ \A i \in DOMAIN runs : runs'[i] = runs[i]
        /\ runs'[Len(runs) + 1] = RowFrom(b)
    BY <2>1 DEF TypeOK
  <2>3. \A r : Known(r)' <=> Known(r) \/ r = b.run
    BY <1>3, <2>2 DEF Known
  <2>4. \A i \in DOMAIN runs : runs[i].run # b.run
    BY <1>5 DEF Known
  <2>5. \A i, j \in DOMAIN runs' : runs'[i].run = runs'[j].run => i = j
    BY <1>3, <2>2, <2>4 DEF RunsMatchLog
  <2>6. \A r : Known(r) => RowOf(r)' = RowOf(r)
    <3>1. SUFFICES ASSUME NEW r, Known(r) PROVE RowOf(r)' = RowOf(r)
      OBVIOUS
    <3>2. RowOf(r) \in DOMAIN runs' /\ runs'[RowOf(r)].run = r
      BY <1>2, <2>2, <3>1
    <3>3. RowOf(r)' \in DOMAIN runs' /\ runs'[RowOf(r)'].run = r
      BY <1>1, <2>3, <3>1
    <3>. QED
      BY <2>5, <3>2, <3>3
  <2>7. RowOf(b.run)' = Len(runs) + 1
    <3>1. RowOf(b.run)' \in DOMAIN runs' /\ runs'[RowOf(b.run)'].run = b.run
      BY <1>1, <2>3
    <3>2. Len(runs) + 1 \in DOMAIN runs' /\ runs'[Len(runs) + 1].run = b.run
      BY <1>3, <2>2
    <3>. QED
      BY <2>5, <3>1, <3>2
  <2>. QED
    BY <1>2, <1>3, <2>2, <2>3, <2>5, <2>6, <2>7
<1>. QED
  BY <1>4, <1>5

\* What a verdict says of a batch's place.
LEMMA VerdictPlace ==
  ASSUME NEW b \in Batch
  PROVE  /\ Verdict(b) = "stored" => NextFor(b.run, b.first)
         /\ Verdict(b) = "duplicate" => b \in Range(log)
BY DEF Verdict, NextFor

\* Storing a request moves the database to the next link of the chain.
LEMMA ChainStore ==
  ASSUME ChainInv, wire # <<>>, Store(wire[1]), NextFor(wire[1].run, wire[1].first),
         UNCHANGED <<run, seq, spool>>
  PROVE  SpoolChained' /\ FrontNext' /\ RunsMatchLog' /\ wire[1] \in Range(log')
<1>. USE DEF ChainInv, TypeInv
<1>0. PICK b \in Batch : b = wire[1]
  BY ChainEnds
<1>1. b \in Batch /\ b.run \in Nat /\ LastSequence(b) \in Nat /\ b.first <= LastSequence(b)
      /\ b.first \in Nat
  BY BatchType
<1>2. NextFor(b.run, b.first) /\ Store(b)
  BY <1>0
<1>3. b \notin Range(log)
  BY <1>1, <1>2, NextIsNotStored DEF Chained
<1>4. \A i \in DOMAIN runs : runs[i].run <= b.run
  BY <1>0, <1>3 DEF Chained, WireNext
<1>5. IF spool = <<>> THEN b.run < run ELSE b = spool[1] \/ b.run < spool[1].run
  BY <1>0 DEF Chained, WireNext
<1>6. b.run <= run /\ (spool # <<>> => b.run <= spool[1].run)
  BY <1>1, <1>5, ChainEnds
<1>7. /\ \A r : Known(r)' <=> Known(r) \/ r = b.run
      /\ \A r : Known(r) /\ r # b.run => runs'[RowOf(r)'].seq = runs[RowOf(r)].seq
      /\ runs'[RowOf(b.run)'].seq = LastSequence(b)
      /\ \A i, j \in DOMAIN runs' : runs'[i].run = runs'[j].run => i = j
  BY <1>1, <1>2, StoreRows DEF Chained
<1>8. \A r, n : r # b.run => (NextFor(r, n)' <=> NextFor(r, n))
  BY <1>7 DEF NextFor
<1>9. /\ Len(log) \in Nat /\ log' # <<>> /\ DOMAIN log = 1..Len(log)
      /\ Len(log') = Len(log) + 1 /\ DOMAIN log' = 1..(Len(log) + 1)
      /\ log'[Len(log) + 1] = b
      /\ \A i \in DOMAIN log : log'[i] = log[i]
  <2>1. log' = Append(log, b) /\ log \in Seq(Batch)
    BY <1>2 DEF Store, TypeOK
  <2>. QED
    BY <1>1, <2>1, AppendProperties
<1>10. b \in Range(log') /\ \A c : c # b => (c \in Range(log') <=> c \in Range(log))
  BY <1>9 DEF Range
<1>11. \A i \in DOMAIN runs' : runs'[i].run <= b.run
  <2>1. SUFFICES ASSUME NEW i \in DOMAIN runs' PROVE runs'[i].run <= b.run
    OBVIOUS
  <2>2. Known(runs'[i].run) \/ runs'[i].run = b.run
    <3>1. PICK r : r = runs'[i].run
      OBVIOUS
    <3>2. Known(r)'
      BY <3>1 DEF Known
    <3>. QED
      BY <1>7, <3>1, <3>2
  <2>. QED
    BY <1>1, <1>4, <2>2 DEF Known
<1>12. RunsMatchLog'
  <2>1. ASSUME NEW i \in DOMAIN log'
        PROVE  (Known(log[i].run) /\ LastSequence(log[i]) <= runs[RowOf(log[i].run)].seq)'
    <3>1. PICK e \in Batch : e = log'[i]
      <4>1. \A j \in DOMAIN log : log[j] \in Batch
        BY DEF TypeOK
      <4>. QED
        BY <1>1, <1>9, <4>1
    <3>2. Known(e.run)' /\ LastSequence(e) <= runs'[RowOf(e.run)'].seq
      <4>1. CASE i = Len(log) + 1
        BY <1>1, <1>7, <1>9, <3>1, <4>1
      <4>2. CASE i # Len(log) + 1
        <5>1. i \in DOMAIN log /\ e = log[i]
          BY <1>9, <3>1, <4>2
        <5>2. Known(e.run) /\ LastSequence(e) <= runs[RowOf(e.run)].seq
          BY <5>1 DEF Chained, RunsMatchLog
        <5>3. CASE e.run # b.run
          BY <1>7, <5>2, <5>3
        <5>4. CASE e.run = b.run
          <6>1. LastSequence(e) < b.first
            BY <1>1, <1>2, <5>1, <5>4, NextIsNew DEF Chained
          <6>2. LastSequence(e) \in Nat
            BY BatchType
          <6>. QED
            BY <1>1, <1>7, <5>4, <6>1, <6>2
        <5>. QED
          BY <5>3, <5>4
      <4>. QED
        BY <4>1, <4>2
    <3>. QED
      BY <3>1, <3>2 DEF LastSequence
  <2>2. log'[Len(log')] = b
    BY <1>9
  <2>3. /\ (runs[RowOf(log[Len(log)].run)].seq = LastSequence(log[Len(log)]))'
        /\ (\A i \in DOMAIN runs : runs[i].run <= log[Len(log)].run)'
    BY <1>7, <1>11, <2>2 DEF LastSequence
  <2>. QED
    BY <1>7, <1>9, <2>1, <2>3 DEF RunsMatchLog
<1>13. SpoolChained'
  <2>1. CASE spool = <<>>
    <3>1. run # b.run /\ NextFor(run, seq)
      BY <1>1, <1>5, <2>1, ChainEnds DEF Chained, SpoolChained
    <3>2. NextFor(run, seq)'
      <4>1. PICK r, n : r = run /\ n = seq
        OBVIOUS
      <4>. QED
        BY ZenonT(30), <1>8, <3>1, <4>1 DEF NextFor, Known, RowOf
    <3>. QED
      BY <2>1, <3>2 DEF SpoolChained
  <2>2. CASE spool # <<>>
    BY <2>2 DEF Chained, SpoolChained, Follows, LastSequence
  <2>. QED
    BY <2>1, <2>2
<1>14. FrontNext'
  <2>1. ASSUME NEW i \in DOMAIN runs'
        PROVE  runs'[i].run <= run /\ (spool # <<>> => runs'[i].run <= spool[1].run)
    <3>1. runs'[i].run = b.run \/ \E j \in DOMAIN runs : runs[j].run = runs'[i].run
      <4>1. PICK r : r = runs'[i].run
        OBVIOUS
      <4>2. Known(r)'
        BY <4>1 DEF Known
      <4>. QED
        BY <1>7, <4>1, <4>2 DEF Known
    <3>. QED
      BY <1>6, <3>1, ChainEnds
  <2>2. ASSUME spool # <<>>
        PROVE  IF spool[1] \in Range(log')
               THEN (runs[RowOf(spool[1].run)].seq = LastSequence(spool[1]))'
               ELSE NextFor(spool[1].run, spool[1].first)'
    <3>1. PICK c \in Batch : c = spool[1]
      BY <2>2, ChainEnds
    <3>2. CASE c = b
      BY <1>7, <1>10, <3>1, <3>2 DEF LastSequence
    <3>3. CASE c # b
      <4>1. c.run # b.run
        BY <1>1, <1>5, <2>2, <3>1, <3>3, ChainEnds
      <4>2. CASE c \in Range(log)
        <5>1. Known(c.run) /\ runs[RowOf(c.run)].seq = LastSequence(c)
          BY <2>2, <3>1, <4>2 DEF Chained, FrontNext, RunsMatchLog, Range
        <5>2. runs'[RowOf(c.run)'].seq = LastSequence(c)
          BY <1>7, <4>1, <5>1
        <5>. QED
          BY <1>10, <3>1, <3>3, <4>2, <5>2 DEF LastSequence
      <4>3. CASE c \notin Range(log)
        <5>1. NextFor(c.run, c.first)
          BY <2>2, <3>1, <4>3 DEF Chained, FrontNext
        <5>2. NextFor(c.run, c.first)'
          BY <1>8, <4>1, <5>1
        <5>. QED
          BY <1>10, <3>1, <3>3, <4>3, <5>2
      <4>. QED
        BY <4>2, <4>3
    <3>. QED
      BY <3>2, <3>3
  <2>. QED
    BY <2>1, <2>2 DEF FrontNext
<1>. QED
  BY <1>0, <1>10, <1>12, <1>13, <1>14

\* Initially the chain is empty.
LEMMA InitChain == Init => Chained
BY DEF Init, Chained, SpoolChained, FrontNext, WireNext, RunsMatchLog, WorkerKnows, NextFor, Known, Range

\* Every step keeps the chain.
LEMMA NextChain == ChainInv /\ [Next]_vars => Chained'
<1>. SUFFICES ASSUME ChainInv, [Next]_vars PROVE Chained'
  OBVIOUS
<1>. USE DEF ChainInv, TypeInv
<1>1. ASSUME UNCHANGED <<run, seq, spool, runs, log, wire, worker, sent>>
      PROVE  Chained'
  BY <1>1 DEF Chained, SpoolChained, FrontNext, WireNext, RunsMatchLog, WorkerKnows,
              NextFor, Known, RowOf, Follows, LastSequence
<1>2. ASSUME UNCHANGED <<run, seq, spool, runs, log, wire>>, WorkerKnows'
      PROVE  Chained'
  BY SMTT(30), <1>2 DEF Chained, SpoolChained, FrontNext, WireNext, RunsMatchLog,
              NextFor, Known, RowOf, Follows, LastSequence
<1>3. ASSUME UNCHANGED <<runs, log, wire, worker, sent>> \/
             (UNCHANGED <<runs, log, wire>> /\ worker' = "idle" /\ sent' = <<>>),
             SpoolChained' /\ FrontNext' /\ WireNext' /\ RunsMatchLog'
      PROVE  Chained'
  <2>1. WorkerKnows'
    BY <1>3 DEF Chained, WorkerKnows
  <2>. QED
    BY <1>3, <2>1 DEF Chained
<1>4. <<>> \in Seq(Batch) /\ spool \in Seq(Batch)
  BY ChainEnds
<1>5. CASE FirstPublish \/ Observe \/ ReportInputOverflow \/ SealRun \/ Stop \/ Decay
           \/ ReportUnreadable \/ UNCHANGED vars
  <2>1. UNCHANGED <<run, seq, spool, runs, log, wire, worker, sent>>
    BY <1>5 DEF FirstPublish, Observe, ReportInputOverflow, SealRun, Stop, Decay,
                ReportUnreadable, vars, collectorVars, spoolVars, workerVars, coreVars
  <2>. QED
    BY <1>1, <2>1
<1>6. CASE Start
  <2>1. /\ run' = run + 1 /\ seq' = 1 /\ (spool' = spool \/ spool' = <<>>)
        /\ UNCHANGED <<runs, log, wire, worker, sent>>
    BY <1>6 DEF Start, workerVars, coreVars
  <2>. QED
    BY <1>3, <1>4, <2>1, ChainCut
<1>7. CASE RotateRun
  <2>1. /\ run' = run + 1 /\ seq' = 1 /\ spool' = spool
        /\ UNCHANGED <<runs, log, wire, worker, sent>>
    BY <1>7 DEF RotateRun, spoolVars, workerVars, coreVars
  <2>. QED
    BY <1>3, <1>4, <2>1, ChainCut
<1>8. CASE Push \/ PushSnapshot
  BY <1>8, ChainPush DEF Push, PushSnapshot, Busy
<1>9. CASE Overflow
  <2>1. /\ run' = run + 1 /\ seq' = 1 /\ spool' = <<>>
        /\ UNCHANGED <<runs, log, wire, worker, sent>>
    BY <1>9 DEF Overflow, workerVars, coreVars
  <2>. QED
    BY <1>3, <1>4, <2>1, ChainCut
<1>10. CASE RepairUnreadable
  <2>1. /\ run' = run + 1 /\ seq' = 1 /\ spool' = <<>>
        /\ UNCHANGED <<runs, log, wire, worker, sent>>
    BY <1>10 DEF RepairUnreadable, RestartRun, workerVars, coreVars
  <2>. QED
    BY <1>3, <1>4, <2>1, ChainCut
<1>11. CASE RepairRejected
  <2>1. /\ spool' = WithoutRun(faultRun) /\ UNCHANGED <<runs, log, wire, worker, sent>>
        /\ IF faultRun = run THEN run' = run + 1 /\ seq' = 1 ELSE run' = run /\ seq' = seq
    BY <1>11 DEF RepairRejected, RestartRun, workerVars, coreVars
  <2>2. faultRun \in Nat /\ WithoutRun(faultRun) \in Seq(Batch)
    BY WithoutRunType DEF TypeOK
  <2>3. \/ spool' = <<>> /\ \A i \in DOMAIN spool : spool[i].run = faultRun
        \/ \E k \in DOMAIN spool :
             /\ spool[k].run # faultRun /\ \A i \in 1..(k - 1) : spool[i].run = faultRun
             /\ Len(spool') = Len(spool) - k + 1
             /\ \A i \in 1..Len(spool') : spool'[i] = spool[k + i - 1]
    BY <2>1, <2>2, WithoutRunType
  <2>4. CASE spool' = <<>> /\ \A i \in DOMAIN spool : spool[i].run = faultRun
    <3>1. spool = <<>> \/ spool[Len(spool)].run = faultRun
      BY <2>4, ChainEnds
    <3>2. \/ run' = run + 1 /\ seq' = 1
          \/ run' = run /\ seq' = seq /\ (spool = <<>> \/ spool[Len(spool)].run # run)
      BY <2>1, <3>1
    <3>. QED
      BY <1>3, <1>4, <2>1, <2>2, <2>4, <3>2, ChainCut
  <2>5. CASE \E k \in DOMAIN spool :
             /\ spool[k].run # faultRun /\ \A i \in 1..(k - 1) : spool[i].run = faultRun
             /\ Len(spool') = Len(spool) - k + 1
             /\ \A i \in 1..Len(spool') : spool'[i] = spool[k + i - 1]
    <3>1. PICK k \in DOMAIN spool :
             /\ spool[k].run # faultRun /\ \A i \in 1..(k - 1) : spool[i].run = faultRun
             /\ Len(spool') = Len(spool) - k + 1
             /\ \A i \in 1..Len(spool') : spool'[i] = spool[k + i - 1]
      BY <2>5
    <3>2. k \in 1..Len(spool) /\ Len(spool) \in Nat /\ spool' \in Seq(Batch)
      BY <1>4, <2>1, <2>2
    <3>3. spool' # <<>>
      <4>1. Len(spool') # 0
        BY <3>1, <3>2
      <4>. QED
        BY <4>1
    <3>4. CASE k = 1
      <4>1. Len(spool') = Len(spool) /\ \A i \in 1..Len(spool) : spool'[i] = spool[i]
        BY <3>1, <3>2, <3>4
      <4>2. spool' = spool
        BY <1>4, <3>2, <4>1
      <4>. QED
        BY <1>3, <1>4, <2>1, <3>3, <4>2, ChainCut
    <3>5. CASE k # 1
      <4>1. k \in 2..Len(spool) /\ spool[k - 1].run # spool[k].run
        BY <3>1, <3>2, <3>5
      <4>2. SpoolChained' /\ FrontNext' /\ WireNext' /\ RunsMatchLog'
        BY <2>1, <3>1, <3>2, <3>3, <4>1, ChainCut
      <4>. QED
        BY <1>3, <2>1, <4>2
    <3>. QED
      BY <3>4, <3>5
  <2>. QED
    BY <2>3, <2>4, <2>5
<1>12. CASE Exit \/ Crash \/ StopUnreadable \/ ReportRejected
  <2>1. UNCHANGED <<run, seq, spool, runs, log, wire>> /\ worker' = "idle" /\ sent' = <<>>
    BY <1>12 DEF Exit, Crash, StopUnreadable, Halt, ReportRejected, collectorVars,
                 spoolVars, coreVars
  <2>2. WorkerKnows'
    BY <2>1 DEF Chained, WorkerKnows
  <2>. QED
    BY <1>2, <2>1, <2>2
<1>13. CASE Send
  <2>1. /\ spool # <<>> /\ wire' = <<Head(spool)>> /\ sent' = <<Head(spool)>> /\ worker' = "waiting"
        /\ UNCHANGED <<run, seq, spool, runs, log>>
    BY <1>13 DEF Send, collectorVars, spoolVars, coreVars
  <2>2. wire'[1] = spool[1] /\ wire' # <<>> /\ Len(wire') = 1
    BY <2>1
  <2>3. SpoolChained' /\ FrontNext' /\ RunsMatchLog'
    BY <2>1 DEF Chained, SpoolChained, FrontNext, RunsMatchLog, NextFor, Known, RowOf,
                Follows, LastSequence
  <2>4. WireNext'
    BY <2>1, <2>2 DEF Chained, FrontNext, WireNext, NextFor, Known, RowOf
  <2>5. WorkerKnows'
    BY <2>1, <2>2 DEF WorkerKnows
  <2>. QED
    BY <2>3, <2>4, <2>5 DEF Chained
<1>14. CASE Pop
  BY <1>14, ChainPop
<1>15. CASE Lose
  <2>1. wire' = <<>> /\ worker' = "idle" /\ UNCHANGED <<run, seq, spool, runs, log>>
    BY <1>15 DEF Lose, collectorVars, spoolVars, coreVars
  <2>2. SpoolChained' /\ FrontNext' /\ RunsMatchLog'
    BY ZenonT(30), <2>1 DEF Chained, SpoolChained, FrontNext, RunsMatchLog, NextFor, Known, RowOf,
                Follows, LastSequence
  <2>3. WireNext' /\ WorkerKnows'
    BY <2>1 DEF WireNext, WorkerKnows
  <2>. QED
    BY <2>2, <2>3 DEF Chained
<1>16. CASE Ingest \/ IngestUnanswered
  <2>. Handle
    BY <1>16 DEF Ingest, IngestUnanswered
  <2>1. wire # <<>> /\ wire' = <<>> /\ UNCHANGED <<run, seq, spool>>
    BY DEF Handle, collectorVars, spoolVars
  <2>2. wire[1] \in Batch /\ Head(wire) = wire[1]
    BY <2>1, ChainEnds DEF TypeOK
  <2>. DEFINE verdict == Verdict(wire[1])
  <2>3. /\ IF verdict = "stored" THEN Store(wire[1]) ELSE UNCHANGED coreVars
        /\ \/ worker' = "idle" /\ sent' = <<>>
           \/ /\ worker' = IF worker # "waiting" THEN worker
                           ELSE IF verdict \in {"stored", "duplicate"} THEN "acked" ELSE "refused"
              /\ sent' = sent
    BY <1>16, <2>2 DEF Handle, Ingest, IngestUnanswered
  <2>4. SpoolChained' /\ FrontNext' /\ RunsMatchLog'
        /\ (verdict \in {"stored", "duplicate"} => wire[1] \in Range(log'))
    <3>1. CASE verdict = "stored"
      <4>1. NextFor(wire[1].run, wire[1].first)
        BY <2>2, <3>1, VerdictPlace
      <4>. QED
        BY <2>1, <2>3, <3>1, <4>1, ChainStore
    <3>2. CASE verdict # "stored"
      <4>1. UNCHANGED <<runs, log>>
        BY <2>3, <3>2 DEF coreVars
      <4>2. SpoolChained' /\ FrontNext' /\ RunsMatchLog'
        BY ZenonT(30), <2>1, <4>1 DEF Chained, SpoolChained, FrontNext, RunsMatchLog, NextFor, Known,
                          RowOf, Follows, LastSequence
      <4>. QED
        BY <2>2, <3>2, <4>1, <4>2, VerdictPlace
    <3>. QED
      BY <3>1, <3>2
  <2>5. WorkerKnows'
    <3>. HIDE DEF verdict
    <3>1. worker \in {"idle", "waiting"} /\ (worker = "waiting" => wire = sent)
      BY <2>1 DEF Chained, WorkerKnows, TypeOK
    <3>2. worker' = "acked" => sent'[1] \in Range(log')
      BY <2>1, <2>3, <2>4, <3>1
    <3>3. worker' # "waiting" /\ (worker' # "idle" => sent' # <<>>)
      BY <2>1, <2>3, <3>1
    <3>. QED
      BY <2>1, <3>2, <3>3 DEF WorkerKnows
  <2>6. WireNext'
    BY <2>1 DEF WireNext
  <2>. QED
    BY <2>4, <2>5, <2>6 DEF Chained
<1>. QED
  BY <1>5, <1>6, <1>7, <1>8, <1>9, <1>10, <1>11, <1>12, <1>13, <1>14, <1>15, <1>16
  DEF Next, Collector, Worker, Core

\* The strengthening of Chained by the types is inductive.
LEMMA ChainInvariant == Spec => []ChainInv
<1>1. Init => ChainInv
  BY InitTypes, InitChain DEF ChainInv
<1>2. ChainInv /\ [Next]_vars => ChainInv'
  BY NextTypes, NextChain DEF ChainInv
<1>. QED
  BY <1>1, <1>2, PTL DEF Spec

\* Through every retry, lost answer, restart, overflow and repair, the sequence numbers of
\* the spool, of a request at the core and of the database stay one chain.
THEOREM AlwaysChained == Spec => []Chained
<1>1. ChainInv => Chained
  BY DEF ChainInv
<1>. QED
  BY <1>1, ChainInvariant, PTL

\* A request at the core has the number that the database expects, or was stored.
LEMMA PlaceFits == ChainInv => NeverRefusedForPlace
<1>. SUFFICES ASSUME ChainInv, NEW b \in Range(wire)
              PROVE  Verdict(b) \notin {"overlap", "sequence"}
  BY DEF NeverRefusedForPlace
<1>. USE DEF ChainInv, TypeInv
<1>1. wire # <<>> /\ b = wire[1] /\ b \in Batch
  <2>1. PICK i \in DOMAIN wire : b = wire[i]
    BY DEF Range
  <2>2. Len(wire) \in Nat /\ Len(wire) <= 1 /\ DOMAIN wire = 1..Len(wire)
    BY DEF TypeOK, Chained, WorkerKnows
  <2>3. i = 1 /\ wire # <<>>
    BY <2>1, <2>2
  <2>. QED
    BY <2>1, <2>3, ChainEnds
<1>2. CASE b \in Range(log)
  BY <1>2 DEF Verdict
<1>3. CASE b \notin Range(log)
  <2>1. NextFor(b.run, b.first)
    BY <1>1, <1>3 DEF Chained, WireNext
  <2>2. \A i \in DOMAIN log : ~(log[i].run = b.run /\ log[i].first = b.first)
    <3>1. SUFFICES ASSUME NEW i \in DOMAIN log, log[i].run = b.run, log[i].first = b.first
                   PROVE  FALSE
      OBVIOUS
    <3>2. log[i] \in Batch
      BY DEF TypeOK
    <3>3. LastSequence(log[i]) < b.first
      BY <1>1, <2>1, <3>1, NextIsNew DEF Chained
    <3>. QED
      BY <3>1, <3>2, <3>3, BatchType
  <2>. QED
    BY <2>1, <2>2 DEF Verdict, NextFor
<1>. QED
  BY <1>2, <1>3

\* The core never refuses a batch for its place in its run, so no run is abandoned for one.
THEOREM PlaceNeverRefused == Spec => []NeverRefusedForPlace
  BY PlaceFits, ChainInvariant, PTL

\* A batch stored now continues the batch stored last, or is the first of its run.
LEMMA OrderStep ==
  ASSUME ChainInv, StoredInOrder, [Next]_vars
  PROVE  StoredInOrder'
<1>. USE DEF ChainInv, TypeInv
<1>1. CASE log' = log
  BY <1>1 DEF StoredInOrder, LastSequence
<1>2. CASE log' # log
  <2>1. wire # <<>> /\ Verdict(Head(wire)) = "stored" /\ log' = Append(log, Head(wire))
    BY <1>2 DEF Next, Collector, Worker, Core, Start, FirstPublish, Observe, ReportInputOverflow,
       SealRun, RotateRun, Stop, Push, Overflow, PushSnapshot, RepairUnreadable, RepairRejected,
       Exit, Crash, StopUnreadable, Halt, Decay, Send, ReportUnreadable, Pop,
       ReportRejected, Lose, Ingest, IngestUnanswered, Handle, Store, coreVars, vars
  <2>2. PICK b \in Batch : b = wire[1] /\ b = Head(wire)
    BY <2>1, ChainEnds DEF TypeOK
  <2>3. NextFor(b.run, b.first)
    BY <2>1, <2>2, VerdictPlace
  <2>4. b \notin Range(log)
    BY <2>3, NextIsNotStored DEF Chained
  <2>5. \A i \in DOMAIN runs : runs[i].run <= b.run
    BY <2>1, <2>2, <2>4 DEF Chained, WireNext
  <2>6. /\ Len(log) \in Nat /\ DOMAIN log = 1..Len(log) /\ DOMAIN log' = 1..(Len(log) + 1)
        /\ log'[Len(log) + 1] = b /\ \A i \in 1..Len(log) : log'[i] = log[i]
    <3>1. log \in Seq(Batch)
      BY DEF TypeOK
    <3>. QED
      BY <2>1, <2>2, <3>1, AppendProperties
  <2>7. IF b.first = 1
        THEN \A j \in 1..Len(log) : log[j].run # b.run
        ELSE Len(log) >= 1 /\ log[Len(log)].run = b.run
                           /\ LastSequence(log[Len(log)]) + 1 = b.first
    <3>1. CASE b.first = 1
      <4>1. SUFFICES ASSUME NEW j \in 1..Len(log), log[j].run = b.run PROVE FALSE
        BY <3>1
      <4>2. log[j] \in Batch /\ j \in DOMAIN log
        BY <2>6 DEF TypeOK
      <4>3. LastSequence(log[j]) < 1
        BY <2>3, <3>1, <4>1, <4>2, NextIsNew DEF Chained
      <4>. QED
        BY <4>2, <4>3, BatchType
    <3>2. CASE b.first # 1
      <4>1. Known(b.run) /\ b.first = runs[RowOf(b.run)].seq + 1
        BY <2>3, <3>2 DEF NextFor
      <4>2. PICK k \in DOMAIN runs : runs[k].run = b.run
        BY <4>1 DEF Known
      <4>3. /\ log # <<>> /\ runs[RowOf(log[Len(log)].run)].seq = LastSequence(log[Len(log)])
            /\ runs[k].run <= log[Len(log)].run
        BY <4>2 DEF Chained, RunsMatchLog
      <4>4. Len(log) \in DOMAIN log /\ log[Len(log)] \in Batch
        BY <2>6, <4>3 DEF TypeOK
      <4>5. Known(log[Len(log)].run)
        BY <4>4 DEF Chained, RunsMatchLog
      <4>6. log[Len(log)].run <= b.run
        BY <2>5, <4>5 DEF Known
      <4>7. log[Len(log)].run = b.run
        BY <4>2, <4>3, <4>4, <4>6, BatchType
      <4>. QED
        BY <2>6, <3>2, <4>1, <4>3, <4>4, <4>7
    <3>. QED
      BY <3>1, <3>2
  <2>8. ASSUME NEW i \in DOMAIN log'
        PROVE  IF log'[i].first = 1
               THEN \A j \in 1..(i - 1) : log'[j].run # log'[i].run
               ELSE i > 1 /\ log'[i - 1].run = log'[i].run
                          /\ LastSequence(log'[i - 1]) + 1 = log'[i].first
    <3>1. CASE i = Len(log) + 1
      <4>1. \A j \in 1..(i - 1) : log'[j] = log[j]
        BY <2>6, <3>1
      <4>2. i - 1 = Len(log) /\ (Len(log) >= 1 => i > 1 /\ log'[i - 1] = log[Len(log)])
        BY <2>6, <3>1
      <4>. QED
        BY <2>6, <2>7, <3>1, <4>1, <4>2
    <3>2. CASE i # Len(log) + 1
      <4>1. i \in DOMAIN log /\ i \in 1..Len(log) /\ log'[i] = log[i]
        BY <2>6, <3>2
      <4>2. \A j \in 1..(i - 1) : log'[j] = log[j]
        BY <2>6, <4>1
      <4>3. i > 1 => log'[i - 1] = log[i - 1]
        BY <2>6, <4>1, <4>2
      <4>. QED
        BY <4>1, <4>2, <4>3 DEF StoredInOrder
    <3>. QED
      BY <3>1, <3>2
  <2>. QED
    BY <2>8 DEF StoredInOrder, LastSequence
<1>. QED
  BY <1>1, <1>2

\* The database holds every run's events once, in order, and without another run's batch in
\* between, however often a batch was sent and whatever the collector had to drop.
THEOREM AlwaysInOrder == Spec => []StoredInOrder
<1>1. Init => StoredInOrder
  BY DEF Init, StoredInOrder
<1>2. ChainInv /\ StoredInOrder /\ [Next]_vars => StoredInOrder'
  BY OrderStep
<1>. QED
  BY <1>1, <1>2, ChainInvariant, PTL DEF Spec

-----------------------------------------------------------------------------
(* Nothing gets lost on the way.                                           *)

\* Where a batch that got its sequence numbers may be.
Somewhere == Range(log) \cup Range(spool) \cup lost

\* What a pushed chunk adds to the spool.
LEMMA PushAdds ==
  ASSUME TypeInv, todo # <<>>, Push \/ PushSnapshot
  PROVE  /\ run' = run /\ seq' = seq + ChunkLength /\ lost' = lost /\ log' = log
         /\ Range(spool') = Range(spool) \cup {NextBatch}
         /\ NextBatch.run = run /\ NextBatch.first = seq
         /\ LastSequence(NextBatch) = seq + ChunkLength - 1
<1>. USE DEF TypeInv
<1>1. /\ run' = run /\ seq' = seq + ChunkLength /\ lost' = lost /\ log' = log
      /\ spool' = Append(spool, NextBatch)
  BY DEF Push, PushSnapshot, coreVars
<1>2. NextBatch \in Batch /\ Len(NextBatch.events) = ChunkLength
  BY ChunkType
<1>3. Range(spool') = Range(spool) \cup {NextBatch}
  <2>1. spool \in Seq(Batch)
    BY DEF TypeOK
  <2>2. /\ Len(spool) \in Nat /\ DOMAIN spool = 1..Len(spool)
        /\ DOMAIN spool' = 1..(Len(spool) + 1)
        /\ spool'[Len(spool) + 1] = NextBatch /\ \A i \in 1..Len(spool) : spool'[i] = spool[i]
    BY <1>1, <1>2, <2>1, AppendProperties
  <2>3. \A i \in 1..(Len(spool) + 1) : i \in 1..Len(spool) \/ i = Len(spool) + 1
    BY <2>2
  <2>4. 1..Len(spool) \subseteq 1..(Len(spool) + 1) /\ Len(spool) + 1 \in 1..(Len(spool) + 1)
    BY <2>2
  <2>. QED
    BY <2>2, <2>3, <2>4 DEF Range
<1>. QED
  BY <1>1, <1>2, <1>3 DEF NextBatch, LastSequence

\* An acknowledged batch that leaves the spool is stored.
LEMMA PopKeeps ==
  ASSUME ChainInv, Pop
  PROVE  /\ UNCHANGED <<run, seq, lost, log>>
         /\ Range(spool) \subseteq Range(spool') \cup Range(log)
<1>. USE DEF ChainInv, TypeInv
<1>1. UNCHANGED <<run, seq, lost, log>> /\ sent # <<>> /\ sent[1] \in Range(log)
  BY DEF Pop, collectorVars, coreVars, Chained, WorkerKnows
<1>2. CASE spool' = spool
  BY <1>1, <1>2
<1>3. CASE spool' # spool
  <2>1. spool # <<>> /\ Head(spool) = Head(sent) /\ spool' = Tail(spool)
    BY <1>3 DEF Pop
  <2>2. /\ spool \in Seq(Batch) /\ Len(spool) \in Nat /\ DOMAIN spool = 1..Len(spool)
        /\ spool[1] = sent[1]
        /\ DOMAIN spool' = 1..(Len(spool) - 1)
        /\ \A i \in 1..(Len(spool) - 1) : spool'[i] = spool[i + 1]
    BY <1>1, <2>1 DEF TypeOK
  <2>3. ASSUME NEW i \in DOMAIN spool PROVE spool[i] \in Range(spool') \cup Range(log)
    <3>1. CASE i = 1
      BY <1>1, <2>2, <3>1
    <3>2. CASE i # 1
      <4>1. i - 1 \in 1..(Len(spool) - 1) /\ (i - 1) + 1 = i
        BY <2>2, <3>2
      <4>. QED
        BY <2>2, <4>1 DEF Range
    <3>. QED
      BY <3>1, <3>2
  <2>. QED
    BY <1>1, <2>3 DEF Range
<1>. QED
  BY <1>2, <1>3

\* A request that is stored is added to the log.
LEMMA HandleAdds ==
  ASSUME ChainInv, Handle
  PROVE  Range(log) \subseteq Range(log') /\ UNCHANGED <<run, seq, spool, lost>>
<1>. USE DEF ChainInv, TypeInv
<1>1. UNCHANGED <<run, seq, spool, lost>> /\ (log' = log \/ log' = Append(log, Head(wire)))
  BY DEF Handle, collectorVars, spoolVars, Store, coreVars
<1>2. CASE log' = Append(log, Head(wire))
  <2>1. log \in Seq(Batch) /\ wire # <<>>
    BY DEF TypeOK, Handle
  <2>2. Head(wire) \in Batch
    BY <2>1, ChainEnds DEF TypeOK
  <2>3. /\ Len(log) \in Nat /\ DOMAIN log = 1..Len(log) /\ DOMAIN log' = 1..(Len(log) + 1)
        /\ \A i \in 1..Len(log) : log'[i] = log[i]
    BY <1>2, <2>1, <2>2, AppendProperties
  <2>4. DOMAIN log \subseteq DOMAIN log'
    BY <2>3
  <2>. QED
    BY <1>1, <2>3, <2>4 DEF Range
<1>. QED
  BY <1>1, <1>2

\* A push numbers the events that it takes and no others.
LEMMA PushAccounted ==
  ASSUME ChainInv, Accounted, todo # <<>>, Push \/ PushSnapshot
  PROVE  Accounted'
<1>. USE DEF ChainInv, TypeInv
<1>1. ChunkLength \in Nat /\ seq \in Nat
  BY ChunkType DEF TypeOK
<1>2. SUFFICES ASSUME NEW n \in 1..(seq' - 1)
               PROVE  \E b \in Somewhere' : b.run = run' /\ b.first <= n /\ n <= LastSequence(b)
  BY DEF Accounted, Somewhere, LastSequence
<1>3. CASE n < seq
  <2>1. PICK b \in Somewhere : b.run = run /\ b.first <= n /\ n <= LastSequence(b)
    BY <1>1, <1>2, <1>3, PushAdds DEF Accounted, Somewhere
  <2>. QED
    BY <2>1, PushAdds DEF Somewhere
<1>4. CASE ~(n < seq)
  <2>1. NextBatch.first <= n /\ n <= LastSequence(NextBatch)
    BY <1>1, <1>2, <1>4, PushAdds
  <2>. QED
    BY <2>1, PushAdds DEF Somewhere
<1>. QED
  BY <1>3, <1>4

\* Nobody else moves a number or lets a batch disappear.
LEMMA NobodyLoses ==
  ASSUME ChainInv, [Next]_vars, ~Push, ~PushSnapshot
  PROVE  \/ seq' = 1
         \/ run' = run /\ seq' = seq /\ Somewhere \subseteq Somewhere'
<1>. USE DEF Somewhere
<1>1. CASE UNCHANGED vars
  BY <1>1 DEF vars, collectorVars, spoolVars, coreVars
<1>2. CASE Start \/ RotateRun \/ Overflow \/ RepairUnreadable
  BY <1>2 DEF Start, RotateRun, Overflow, RepairUnreadable, RestartRun
<1>3. CASE FirstPublish \/ Observe \/ ReportInputOverflow \/ SealRun \/ Stop
  BY <1>3 DEF FirstPublish, Observe, ReportInputOverflow, SealRun, Stop, spoolVars, coreVars
<1>4. CASE RepairRejected
  BY <1>4 DEF RepairRejected, RestartRun, coreVars
<1>5. CASE Exit \/ Crash \/ StopUnreadable
  BY <1>5 DEF Exit, Crash, StopUnreadable, Halt, spoolVars, coreVars
<1>6. CASE Decay \/ Send \/ ReportUnreadable \/ ReportRejected \/ Lose
  BY <1>6 DEF Decay, Send, ReportUnreadable, ReportRejected, Lose, collectorVars, spoolVars, coreVars
<1>7. CASE Pop
  BY <1>7, PopKeeps
<1>8. CASE Ingest \/ IngestUnanswered
  BY <1>8, HandleAdds DEF Ingest, IngestUnanswered
<1>. QED
  BY <1>1, <1>2, <1>3, <1>4, <1>5, <1>6, <1>7, <1>8 DEF Next, Collector, Worker, Core

\* Every event of the current run that got a sequence number is stored, or still in the
\* spool, or was dropped where the collector drops: no stale, doubled or late
\* acknowledgement takes anything else out of the spool.
THEOREM AlwaysAccounted == Spec => []Accounted
<1>1. Init => Accounted
  BY DEF Init, Accounted
<1>2. ChainInv /\ Accounted /\ [Next]_vars => Accounted'
  <2>. SUFFICES ASSUME ChainInv, Accounted, [Next]_vars PROVE Accounted'
    OBVIOUS
  <2>1. CASE Push \/ PushSnapshot
    <3>1. todo # <<>>
      BY <2>1 DEF ChainInv, TypeInv, Busy, Push, PushSnapshot
    <3>. QED
      BY <2>1, <3>1, PushAccounted
  <2>2. CASE ~Push /\ ~PushSnapshot
    <3>1. CASE seq' = 1
      BY <3>1 DEF Accounted
    <3>2. CASE run' = run /\ seq' = seq /\ Somewhere \subseteq Somewhere'
      BY <3>2 DEF Accounted, Somewhere, LastSequence
    <3>. QED
      BY <2>2, <3>1, <3>2, NobodyLoses
  <2>. QED
    BY <2>1, <2>2
<1>. QED
  BY <1>1, <1>2, ChainInvariant, PTL DEF Spec
-----------------------------------------------------------------------------
(* The refinement of EventLog.                                             *)

\* The two parts of what is pending.
LEMMA PendingShape ==
  ASSUME ChainInv
  PROVE  /\ Orphaned \in Seq(Batch) /\ Unstored \in Seq(Batch) /\ Pending \in Seq(Batch)
         /\ log \in Seq(Batch) /\ spool \in Seq(Batch)
         /\ wire # <<>> => Len(wire) = 1 /\ wire = <<wire[1]>> /\ wire[1] \in Batch
         /\ Orphaned # <<>> =>
              /\ Orphaned = wire /\ wire # <<>> /\ wire[1] \notin Range(log)
              /\ wire[1].run < run /\ \A i \in DOMAIN runs : runs[i].run <= wire[1].run
              /\ \A i \in DOMAIN spool : wire[1].run < spool[i].run
<1>. USE DEF ChainInv, TypeInv
<1>1. /\ wire \in Seq(Batch) /\ spool \in Seq(Batch) /\ log \in Seq(Batch) /\ Len(wire) <= 1
  BY DEF TypeOK, Chained, WorkerKnows
<1>2. ASSUME wire # <<>>
      PROVE  Len(wire) = 1 /\ wire = <<wire[1]>> /\ wire[1] \in Batch
  <2>1. Len(wire) = 1 /\ wire[1] \in Batch
    <3>1. Len(wire) \in Nat \ {0}
      BY <1>1, <1>2, EmptySeq
    <3>2. Len(wire) = 1
      BY <1>1, <3>1
    <3>3. 1 \in 1..Len(wire)
      BY <3>2
    <3>. QED
      BY <1>1, <3>2, <3>3, ElementOfSeq
  <2>2. wire = [i \in 1..1 |-> wire[1]]
    BY <1>1, <2>1
  <2>3. wire = <<wire[1]>>
    BY <2>2
  <2>. QED
    BY <2>1, <2>3
<1>3. Orphaned \in Seq(Batch) /\ Unstored \in Seq(Batch)
  BY <1>1 DEF Orphaned, Unstored
<1>4. ASSUME Orphaned # <<>>
      PROVE  /\ Orphaned = wire /\ wire # <<>> /\ wire[1] \notin Range(log)
             /\ wire[1].run < run /\ \A i \in DOMAIN runs : runs[i].run <= wire[1].run
             /\ \A i \in DOMAIN spool : wire[1].run < spool[i].run
  <2>1. /\ Orphaned = wire /\ wire # <<>> /\ Head(wire) = wire[1] /\ wire[1] \notin Range(log)
        /\ spool = <<>> \/ spool[1] # wire[1]
    BY <1>1, <1>4 DEF Orphaned, Stale
  <2>2. \A i \in DOMAIN runs : runs[i].run <= wire[1].run
    BY <2>1 DEF Chained, WireNext
  <2>3. spool = <<>> => wire[1].run < run
    BY <2>1, ChainEnds
  <2>4. spool # <<>> => wire[1].run < spool[1].run
    BY <2>1 DEF Chained, WireNext
  <2>5. \A i \in DOMAIN spool : spool[i].run \in Nat /\ spool[1].run <= spool[i].run
    BY <1>1, SpoolAscends, BatchType DEF Chained
  <2>6. spool # <<>> => wire[1].run < run
    BY <2>1, <2>4, ChainEnds
  <2>7. \A i \in DOMAIN spool : wire[1].run < spool[i].run
    <3>. SUFFICES ASSUME NEW i \in DOMAIN spool PROVE wire[1].run < spool[i].run
      OBVIOUS
    <3>1. spool # <<>>
      BY <1>1
    <3>. QED
      BY <2>1, <2>4, <2>5, <3>1, ChainEnds
  <2>. QED
    BY <2>1, <2>2, <2>3, <2>6, <2>7
<1>. QED
  BY <1>1, <1>2, <1>3, <1>4 DEF Pending

\* The batch stored last is of the newest run in the database, and its number the newest.
LEMMA NewestStored ==
  ASSUME ChainInv, NEW r \in Nat, Known(r), \A i \in DOMAIN runs : runs[i].run <= r
  PROVE  /\ log # <<>> /\ log[Len(log)] \in Batch /\ log[Len(log)].run = r
         /\ LastSequence(log[Len(log)]) = runs[RowOf(r)].seq
<1>. USE DEF ChainInv, TypeInv
<1>1. PICK k \in DOMAIN runs : runs[k].run = r
  BY DEF Known
<1>2. runs # <<>>
  BY <1>1
<1>3. /\ log # <<>> /\ \A i \in DOMAIN runs : runs[i].run <= log[Len(log)].run
      /\ runs[RowOf(log[Len(log)].run)].seq = LastSequence(log[Len(log)])
  BY <1>2 DEF Chained, RunsMatchLog
<1>4. Len(log) \in DOMAIN log /\ log[Len(log)] \in Batch
  BY <1>3 DEF TypeOK
<1>5. Known(log[Len(log)].run)
  BY <1>4 DEF Chained, RunsMatchLog
<1>6. log[Len(log)].run <= r
  BY <1>5 DEF Known
<1>7. log[Len(log)].run = r
  BY <1>1, <1>3, <1>4, <1>6, BatchType
<1>. QED
  BY <1>3, <1>4, <1>7

\* Whatever is stored is of a run that the database knows.
LEMMA StoredIsKnown ==
  ASSUME ChainInv, NEW b \in Range(log)
  PROVE  b \in Batch /\ Known(b.run) /\ \E i \in DOMAIN runs : runs[i].run = b.run
BY DEF ChainInv, TypeInv, TypeOK, Chained, RunsMatchLog, Range, Known

\* What is pending in the spool is the spool, or all but its first batch.
LEMMA UnstoredShape ==
  ASSUME ChainInv
  PROVE  /\ \A i \in DOMAIN Unstored : Unstored[i] \in Range(spool)
         /\ Unstored # <<>> => /\ spool # <<>> /\ Len(Unstored) \in Nat \ {0}
                              /\ Unstored[Len(Unstored)] = spool[Len(spool)]
         /\ Unstored = <<>> /\ spool # <<>> => Len(spool) = 1 /\ spool[1] \in Range(log)
<1>1. spool \in Seq(Batch) /\ Unstored \in Seq(Batch)
  BY PendingShape
<1>2. CASE Unstored = spool
  <2>1. spool # <<>> => Len(spool) \in Nat \ {0}
    BY <1>1, EmptySeq
  <2>. QED
    BY <1>1, <1>2, <2>1, RangeEquality
<1>3. CASE Unstored # spool
  <2>1. spool # <<>> /\ Head(spool) \in Range(log) /\ Unstored = Tail(spool)
    BY <1>3 DEF Unstored
  <2>2. /\ Len(spool) \in Nat \ {0} /\ DOMAIN spool = 1..Len(spool) /\ spool[1] = Head(spool)
        /\ DOMAIN Unstored = 1..(Len(spool) - 1) /\ Len(Unstored) = Len(spool) - 1
        /\ \A i \in 1..(Len(spool) - 1) : Unstored[i] = spool[i + 1]
    BY <1>1, <2>1, EmptySeq, HeadTailProperties
  <2>3. ASSUME NEW i \in DOMAIN Unstored PROVE Unstored[i] \in Range(spool)
    <3>1. i + 1 \in DOMAIN spool /\ Unstored[i] = spool[i + 1]
      BY <2>2
    <3>. QED
      BY <3>1 DEF Range
  <2>4. ASSUME Unstored # <<>>
        PROVE  Len(Unstored) \in Nat \ {0} /\ Unstored[Len(Unstored)] = spool[Len(spool)]
    <3>1. Len(Unstored) \in Nat \ {0}
      BY <1>1, <2>4, EmptySeq
    <3>2. Len(Unstored) \in 1..(Len(spool) - 1) /\ Len(Unstored) + 1 = Len(spool)
      BY <2>2, <3>1
    <3>. QED
      BY <2>2, <3>1, <3>2
  <2>5. ASSUME Unstored = <<>> PROVE Len(spool) = 1
    <3>1. Len(Unstored) = 0
      BY <2>5
    <3>2. Len(spool) \in Nat /\ Len(Unstored) = Len(spool) - 1
      BY <2>2
    <3>. QED
      BY <3>1, <3>2
  <2>. QED
    BY <2>1, <2>2, <2>3, <2>4, <2>5
<1>. QED
  BY <1>2, <1>3

\* The number that the collector goes on with is the first of a run nobody has heard of ...
LEMMA NewRun ==
  ASSUME ChainInv, seq = 1
  PROVE  /\ \A b \in Range(log) \cup Range(spool) : b.run # run
         /\ \A i \in DOMAIN Pending : Pending[i].run # run
<1>. USE DEF ChainInv, TypeInv
<1>1. ~Known(run) /\ \A i \in DOMAIN spool : spool[i].run # run
  <2>1. CASE spool = <<>>
    <3>1. NextFor(run, seq)
      BY <2>1 DEF Chained, SpoolChained
    <3>2. ~Known(run)
      <4>1. SUFFICES ASSUME Known(run) PROVE FALSE
        OBVIOUS
      <4>2. runs[RowOf(run)].seq \in Nat /\ runs[RowOf(run)].seq \in Nat \ {0}
        <5>1. \A i \in DOMAIN runs : runs[i].run <= run
          BY ChainEnds
        <5>2. log[Len(log)] \in Batch /\ LastSequence(log[Len(log)]) = runs[RowOf(run)].seq
          BY <4>1, <5>1, ChainEnds, NewestStored
        <5>. QED
          BY <5>2, BatchType
      <4>. QED
        BY <3>1, <4>1, <4>2 DEF NextFor
    <3>. QED
      BY <2>1, <3>2
  <2>2. CASE spool # <<>>
    <3>. DEFINE z == spool[Len(spool)]
    <3>1. z \in Batch /\ z.run \in Nat /\ run \in Nat
      BY <2>2, ChainEnds
    <3>2. z.run < run
      <4>1. z.run # run
        <5>1. LastSequence(z) \in Nat \ {0}
          BY <3>1, BatchType
        <5>2. z.run = run => seq = LastSequence(z) + 1
          BY <2>2 DEF Chained, SpoolChained
        <5>. HIDE DEF z
        <5>. QED
          BY <5>1, <5>2
      <4>. QED
        BY <2>2, <4>1 DEF Chained, SpoolChained
    <3>3. \A i \in DOMAIN spool : spool[i].run \in Nat /\ spool[i].run <= z.run
      BY SpoolAscends, BatchType DEF Chained, TypeOK
    <3>4. \A i \in DOMAIN runs : runs[i].run \in Nat /\ runs[i].run <= z.run
      BY <2>2, ChainEnds
    <3>. HIDE DEF z
    <3>5. \A i \in DOMAIN runs : runs[i].run < run
      BY <3>1, <3>2, <3>4
    <3>6. ~Known(run)
      BY <3>1, <3>5, UnknownLater
    <3>7. \A i \in DOMAIN spool : spool[i].run # run
      BY <3>1, <3>2, <3>3
    <3>. QED
      BY <3>6, <3>7
  <2>. QED
    BY <2>1, <2>2
<1>2. \A b \in Range(log) \cup Range(spool) : b.run # run
  BY <1>1, StoredIsKnown DEF Range
<1>3. ASSUME NEW i \in DOMAIN Pending PROVE Pending[i].run # run
  <2>1. /\ Orphaned \in Seq(Batch) /\ Unstored \in Seq(Batch) /\ Pending = Orphaned \o Unstored
        /\ Orphaned # <<>> => Orphaned[1].run # run /\ Len(Orphaned) = 1
    BY PendingShape, ChainEnds DEF Pending
  <2>2. CASE i <= Len(Orphaned)
    <3>1. /\ Len(Orphaned) \in Nat /\ Len(Unstored) \in Nat
          /\ DOMAIN Pending = 1..(Len(Orphaned) + Len(Unstored))
          /\ Pending[i] = Orphaned[i]
      BY <2>1, <2>2, <1>3, ConcatProperties, LenProperties
    <3>2. Orphaned # <<>>
      BY <2>2, <3>1, <1>3, EmptySeq
    <3>3. i = 1
      <4>1. i \in 1..(Len(Orphaned) + Len(Unstored))
        BY <3>1, <1>3
      <4>2. Len(Orphaned) = 1
        BY <2>1, <3>2
      <4>. QED
        BY <2>2, <3>1, <4>1, <4>2
    <3>. QED
      BY <2>1, <3>1, <3>2, <3>3
  <2>3. CASE ~(i <= Len(Orphaned))
    <3>1. /\ Len(Orphaned) \in Nat /\ Len(Unstored) \in Nat
          /\ i \in 1..(Len(Orphaned) + Len(Unstored))
          /\ DOMAIN Unstored = 1..Len(Unstored)
      BY <2>1, <1>3, ConcatProperties, LenProperties
    <3>2. Pending[i] = Unstored[i - Len(Orphaned)]
      BY <2>1, <2>3, <3>1, ConcatProperties
    <3>3. i - Len(Orphaned) \in DOMAIN Unstored
      BY <2>3, <3>1
    <3>4. Pending[i] \in Range(spool)
      BY <3>2, <3>3, UnstoredShape
    <3>. QED
      BY <1>2, <3>4
  <2>. QED
    BY <2>2, <2>3
<1>. QED
  BY <1>2, <1>3

\* ... or it continues the newest batch there is.
LEMMA SameRun ==
  ASSUME ChainInv, seq # 1
  PROVE  LET all == log \o Pending
         IN  /\ all # <<>> /\ all[Len(all)].run = run
             /\ seq = all[Len(all)].first + Len(all[Len(all)].events)
<1>. USE DEF ChainInv, TypeInv
<1>. DEFINE all == log \o Pending
<1>1. /\ log \in Seq(Batch) /\ Pending \in Seq(Batch) /\ spool \in Seq(Batch)
      /\ Orphaned \in Seq(Batch) /\ Unstored \in Seq(Batch)
      /\ seq \in Nat /\ run \in Nat
  BY PendingShape DEF TypeOK
<1>2. SUFFICES \E z \in Batch : /\ all # <<>> /\ all[Len(all)] = z /\ z.run = run
                                /\ seq = LastSequence(z) + 1
  BY BatchType DEF LastSequence
<1>3. CASE Unstored # <<>>
  <2>1. /\ spool # <<>> /\ Len(Unstored) \in Nat \ {0} /\ spool[Len(spool)] \in Batch
        /\ Unstored[Len(Unstored)] = spool[Len(spool)]
    BY <1>3, UnstoredShape, ChainEnds
  <2>2. Pending # <<>> /\ Pending[Len(Pending)] = spool[Len(spool)]
    BY <1>1, <2>1, ConcatProperties, LenProperties, EmptySeq DEF Pending
  <2>3. all # <<>> /\ all[Len(all)] = Pending[Len(Pending)]
    BY <1>1, <2>2, ConcatProperties, LenProperties, EmptySeq
  <2>4. spool[Len(spool)].run = run /\ seq = LastSequence(spool[Len(spool)]) + 1
    BY <1>1, <2>1 DEF Chained, SpoolChained
  <2>. QED
    BY <2>1, <2>2, <2>3, <2>4
<1>4. CASE Unstored = <<>>
  <2>1. Known(run) /\ seq = runs[RowOf(run)].seq + 1
    <3>1. CASE spool = <<>>
      BY <3>1 DEF Chained, SpoolChained, NextFor
    <3>2. CASE spool # <<>>
      <4>1. Len(spool) = 1 /\ spool[1] \in Range(log)
        BY <1>4, <3>2, UnstoredShape
      <4>2. spool[1].run = run /\ seq = LastSequence(spool[1]) + 1
        BY <3>2, <4>1 DEF Chained, SpoolChained
      <4>3. Known(spool[1].run) /\ runs[RowOf(spool[1].run)].seq = LastSequence(spool[1])
        BY <3>2, <4>1, StoredIsKnown DEF Chained, FrontNext
      <4>. QED
        BY <4>2, <4>3
    <3>. QED
      BY <3>1, <3>2
  <2>2. \A i \in DOMAIN runs : runs[i].run \in Nat /\ runs[i].run <= run
    BY ChainEnds
  <2>3. Orphaned = <<>>
    <3>1. SUFFICES ASSUME Orphaned # <<>> PROVE FALSE
      OBVIOUS
    <3>2. PICK i \in DOMAIN runs : runs[i].run = run
      BY <2>1 DEF Known
    <3>3. runs[i].run <= wire[1].run /\ wire[1].run < run /\ wire[1].run \in Nat
      BY <3>1, PendingShape, ChainEnds
    <3>. QED
      BY <1>1, <3>2, <3>3
  <2>4. Pending = <<>>
    BY <1>1, <1>4, <2>3, ConcatEmptySeq DEF Pending
  <2>5. all = log
    BY <1>1, <2>4, ConcatEmptySeq
  <2>6. /\ log # <<>> /\ log[Len(log)] \in Batch /\ log[Len(log)].run = run
        /\ LastSequence(log[Len(log)]) = runs[RowOf(run)].seq
    BY <1>1, <2>1, <2>2, NewestStored
  <2>. QED
    BY <2>1, <2>5, <2>6
<1>. QED
  BY <1>3, <1>4

\* Of a spool that grew, the pending batches grew by the same batch.
LEMMA PendingGrows ==
  ASSUME ChainInv, todo # <<>>, Push \/ PushSnapshot
  PROVE  Pending' = Append(Pending, NextBatch)
<1>. USE DEF ChainInv, TypeInv
<1>1. /\ UNCHANGED <<wire, log, runs>> /\ spool' = Append(spool, NextBatch)
      /\ NextBatch \in Batch /\ NextBatch.run = run /\ NextBatch.first = seq
      /\ spool \in Seq(Batch)
  BY PushAdds, ChunkType, PendingShape DEF Push, PushSnapshot, coreVars
<1>2. spool' # <<>> /\ Head(spool') = IF spool = <<>> THEN NextBatch ELSE Head(spool)
  BY <1>1, HeadTailAppend, AppendProperties
<1>3. Orphaned' = Orphaned
  <2>1. CASE spool = <<>> /\ wire # <<>>
    <3>1. wire[1].run < run /\ wire[1].run \in Nat /\ run \in Nat /\ Head(wire) = wire[1]
      BY <2>1, ChainEnds
    <3>2. NextBatch # Head(wire)
      BY <1>1, <3>1
    <3>. QED
      BY <1>1, <1>2, <2>1, <3>2 DEF Orphaned, Stale
  <2>2. CASE spool # <<>> \/ wire = <<>>
    BY <1>1, <1>2, <2>2 DEF Orphaned, Stale
  <2>. QED
    BY <2>1, <2>2
<1>4. Unstored' = Append(Unstored, NextBatch)
  <2>1. CASE spool = <<>>
    <3>1. NextFor(NextBatch.run, NextBatch.first)
      BY <1>1, <2>1 DEF Chained, SpoolChained
    <3>2. NextBatch \notin Range(log)
      BY <1>1, <3>1, NextIsNotStored DEF Chained
    <3>. QED
      BY <1>1, <1>2, <2>1, <3>2 DEF Unstored
  <2>2. CASE spool # <<>>
    BY <1>1, <1>2, <2>2, HeadTailAppend DEF Unstored
  <2>. QED
    BY <2>1, <2>2
<1>5. Orphaned \in Seq(Batch) /\ Unstored \in Seq(Batch) /\ Pending \in Seq(Batch)
  BY PendingShape
<1>6. Append(Unstored, NextBatch) = Unstored \o <<NextBatch>>
  BY <1>1, <1>5, AppendIsConcat
<1>7. <<NextBatch>> \in Seq(Batch)
  BY <1>1
<1>8. Orphaned \o (Unstored \o <<NextBatch>>) = Pending \o <<NextBatch>>
  BY <1>5, <1>7, ConcatAssociative DEF Pending
<1>. QED
  BY <1>1, <1>3, <1>4, <1>5, <1>6, <1>8, AppendIsConcat DEF Pending

\* A push is an Accept.
LEMMA PushAccepts ==
  ASSUME ChainInv, todo # <<>>, Push \/ PushSnapshot
  PROVE  Promise!Accept
<1>. USE DEF ChainInv, TypeInv
<1>1. /\ log \in Seq(Batch) /\ Pending \in Seq(Batch) /\ NextBatch \in Batch
      /\ NextBatch.run = run /\ NextBatch.first = seq /\ log' = log
  BY PendingShape, ChunkType, PushAdds
<1>2. Pending' = Append(Pending, NextBatch)
  BY PendingGrows
<1>3. Pending' # <<>> /\ Pending'[Len(Pending')] = NextBatch
  BY <1>1, <1>2, AppendProperties
<1>4. CASE seq = 1
  <2>1. ASSUME NEW a \in Promise!Members(log \o Pending) PROVE a.run # run
    <3>1. PICK i \in DOMAIN (log \o Pending) : a = (log \o Pending)[i]
      BY DEF Promise!Members
    <3>2. a \in Range(log \o Pending)
      BY <3>1 DEF Range
    <3>3. a \in Range(log) \/ a \in Range(Pending)
      BY <1>1, <3>2, RangeConcatenation
    <3>. QED
      BY <1>4, <3>3, NewRun DEF Range
  <2>2. Promise!BeginsRun(NextBatch)
    BY <1>1, <1>4, <2>1 DEF Promise!BeginsRun
  <2>. QED
    BY <1>1, <1>2, <1>3, <2>2 DEF Promise!Accept
<1>5. CASE seq # 1
  <2>1. Promise!GoesOn(NextBatch)
    BY <1>1, <1>5, SameRun DEF Promise!GoesOn
  <2>. QED
    BY <1>1, <1>2, <1>3, <2>1 DEF Promise!Accept
<1>. QED
  BY <1>4, <1>5

\* An acknowledgement takes a stored batch out of the spool; it was not pending any more.
LEMMA PopKeepsPending ==
  ASSUME ChainInv, Pop
  PROVE  UNCHANGED <<Pending, log>>
<1>. USE DEF ChainInv, TypeInv
<1>1. UNCHANGED <<log, wire>> /\ wire = <<>>
  BY DEF Pop, coreVars, Chained, WorkerKnows
<1>2. Orphaned' = <<>> /\ Orphaned = <<>>
  BY <1>1 DEF Orphaned, Stale
<1>3. CASE spool' = spool
  BY <1>1, <1>2, <1>3 DEF Pending, Unstored
<1>4. CASE spool' # spool
  <2>1. spool # <<>> /\ Head(spool) = Head(sent) /\ spool' = Tail(spool)
    BY <1>4 DEF Pop
  <2>2. Head(spool) \in Range(log)
    BY <2>1 DEF Pop, Chained, WorkerKnows
  <2>3. spool' # <<>> => Head(spool') \notin Range(log)
    <3>1. SUFFICES ASSUME spool' # <<>>, Head(spool') \in Range(log) PROVE FALSE
      OBVIOUS
    <3>. DEFINE c == spool[2]
    <3>2. /\ spool \in Seq(Batch) /\ Len(spool) \in Nat \ {0} /\ Tail(spool) \in Seq(Batch)
          /\ Len(Tail(spool)) = Len(spool) - 1
          /\ \A i \in 1..(Len(spool) - 1) : Tail(spool)[i] = spool[i + 1]
          /\ Len(Tail(spool)) \in Nat \ {0}
      BY <2>1, <3>1, HeadTailProperties, EmptySeq DEF TypeOK
    <3>3. Len(spool) \in Nat /\ Len(spool) >= 2
      BY <3>2
    <3>4. Head(spool') = c /\ c \in Batch
      BY <2>1, <3>1, <3>2, <3>3
    <3>5. Follows(spool[1], c)
      BY <3>3 DEF Chained, SpoolChained
    <3>6. /\ spool[1] \in Range(log) /\ spool[1] \in Batch /\ Known(spool[1].run)
          /\ runs[RowOf(spool[1].run)].seq = LastSequence(spool[1])
          /\ \A i \in DOMAIN runs : runs[i].run <= spool[1].run
      BY <2>1, <2>2, StoredIsKnown, ChainEnds DEF Chained, FrontNext
    <3>7. PICK i \in DOMAIN log : log[i] = c
      BY <3>1, <3>4 DEF Range
    <3>8. /\ Known(c.run) /\ LastSequence(c) <= runs[RowOf(c.run)].seq
          /\ c.run <= spool[1].run
      BY <3>6, <3>7 DEF Chained, RunsMatchLog, Known
    <3>9. /\ spool[1].run \in Nat /\ c.run \in Nat
          /\ c.first \in Nat /\ LastSequence(c) \in Nat /\ c.first <= LastSequence(c)
          /\ LastSequence(spool[1]) \in Nat
      BY <3>4, <3>6, BatchType
    <3>. HIDE DEF c
    <3>10. c.run = spool[1].run
      BY <3>5, <3>8, <3>9 DEF Follows
    <3>. QED
      BY <3>5, <3>6, <3>8, <3>9, <3>10 DEF Follows
  <2>. QED
    BY <1>1, <1>2, <2>1, <2>2, <2>3 DEF Pending, Unstored
<1>. QED
  BY <1>1, <1>3, <1>4

\* What is pending when the request on its way is left from before, and when it is the
\* spool's first batch.
LEMMA RequestPending ==
  ASSUME ChainInv, wire # <<>>, wire[1] \notin Range(log)
  PROVE  /\ Stale => Pending = <<wire[1]>> \o Unstored
         /\ ~Stale => Pending = spool /\ spool # <<>> /\ Head(spool) = wire[1]
         /\ Pending # <<>> /\ Head(Pending) = wire[1] /\ wire[1] \in Batch
         /\ Tail(Pending) = IF Stale THEN Unstored ELSE Tail(spool)
<1>1. /\ wire = <<wire[1]>> /\ Head(wire) = wire[1] /\ wire[1] \in Batch
      /\ spool \in Seq(Batch) /\ Unstored \in Seq(Batch)
  BY PendingShape
<1>2. CASE Stale
  <2>1. Orphaned = wire
    BY <1>1, <1>2 DEF Orphaned
  <2>2. Pending = <<wire[1]>> \o Unstored
    BY <1>1, <2>1 DEF Pending
  <2>. DEFINE one == <<wire[1]>>
  <2>3. one \in Seq(Batch) /\ Len(one) = 1 /\ one[1] = wire[1]
    BY <1>1
  <2>. HIDE DEF one
  <2>4. /\ one \o Unstored \in Seq(Batch) /\ Len(one \o Unstored) = 1 + Len(Unstored)
        /\ \A i \in 1 .. 1 + Len(Unstored) :
             (one \o Unstored)[i] = IF i <= 1 THEN one[1] ELSE Unstored[i - 1]
    <3>1. /\ one \o Unstored \in Seq(Batch) /\ Len(one \o Unstored) = Len(one) + Len(Unstored)
          /\ \A i \in 1 .. Len(one) + Len(Unstored) :
               (one \o Unstored)[i] = IF i <= Len(one) THEN one[i] ELSE Unstored[i - Len(one)]
      BY <1>1, <2>3, ConcatProperties
    <3>. QED
      BY <2>3, <3>1
  <2>5. Len(Unstored) \in Nat /\ DOMAIN Unstored = 1..Len(Unstored)
    BY <1>1, LenProperties
  <2>6. one \o Unstored # <<>> /\ Head(one \o Unstored) = wire[1]
    BY <2>3, <2>4, <2>5
  <2>7. Tail(one \o Unstored) = Unstored
    <3>1. /\ Tail(one \o Unstored) \in Seq(Batch) /\ Len(Tail(one \o Unstored)) = Len(Unstored)
          /\ \A i \in 1 .. Len(Unstored) : Tail(one \o Unstored)[i] = (one \o Unstored)[i + 1]
      BY <2>4, <2>5, <2>6, HeadTailProperties
    <3>2. \A i \in 1 .. Len(Unstored) : (one \o Unstored)[i + 1] = Unstored[i]
      BY <2>4, <2>5
    <3>. QED
      BY <1>1, <2>5, <3>1, <3>2, SeqEqual
  <2>. QED
    BY <1>1, <1>2, <2>2, <2>6, <2>7 DEF one
<1>3. CASE ~Stale
  <2>1. spool # <<>> /\ Head(spool) = wire[1]
    BY <1>1, <1>3 DEF Stale
  <2>2. Orphaned = <<>> /\ Unstored = spool
    BY <1>3, <2>1 DEF Orphaned, Unstored
  <2>3. Pending = spool
    BY <1>1, <2>2, ConcatEmptySeq DEF Pending
  <2>. QED
    BY <1>1, <1>3, <2>1, <2>3
<1>. QED
  BY <1>2, <1>3

\* When the request is gone and not stored, nothing is pending but the spool.
LEMMA RequestGone ==
  ASSUME ChainInv, wire # <<>>, wire' = <<>>, UNCHANGED <<spool, log>>
  PROVE  Pending' = Pending \/ Promise!Drop
<1>1. Orphaned' = <<>> /\ Unstored' = Unstored
  BY DEF Orphaned, Stale, Unstored
<1>2. Unstored \in Seq(Batch) /\ Pending \in Seq(Batch)
  BY PendingShape
<1>3. Pending' = Unstored
  BY <1>1, <1>2, ConcatEmptySeq DEF Pending
<1>4. CASE Stale /\ wire[1] \notin Range(log)
  <2>1. Pending # <<>> /\ Tail(Pending) = Unstored
    BY <1>4, RequestPending
  <2>2. Len(Pending) \in Nat \ {0}
    BY <1>2, <2>1, EmptySeq
  <2>3. Tail(Pending) = SubSeq(Pending, 2, Len(Pending))
    BY <1>2, <2>1, TailIsSubSeq
  <2>4. SubSeq(Pending, 1, 0) = <<>>
    BY SubSeqEmpty
  <2>5. SubSeq(Pending, 1, 0) \o SubSeq(Pending, 2, Len(Pending)) = Pending'
    BY <1>2, <1>3, <2>1, <2>3, <2>4, ConcatEmptySeq
  <2>6. 2 \in 1 .. Len(Pending) + 1 /\ 0 < 2 /\ 0 <= Len(Pending)
    BY <2>2
  <2>. QED
    BY <2>5, <2>6 DEF Promise!Drop
<1>5. CASE ~(Stale /\ wire[1] \notin Range(log))
  <2>1. Orphaned = <<>>
    BY <1>5, PendingShape DEF Orphaned
  <2>. QED
    BY <1>2, <1>3, <2>1, ConcatEmptySeq DEF Pending
<1>. QED
  BY <1>4, <1>5

\* A request that is stored was the oldest batch pending.
LEMMA StoreOldestPending ==
  ASSUME ChainInv, wire # <<>>, Verdict(Head(wire)) = "stored", Store(Head(wire)),
         wire' = <<>>, UNCHANGED spool
  PROVE  Promise!StoreOldest
<1>. USE DEF ChainInv, TypeInv
<1>. DEFINE b == wire[1]
<1>1. /\ Head(wire) = b /\ b \in Batch /\ spool \in Seq(Batch) /\ log \in Seq(Batch)
      /\ Unstored \in Seq(Batch) /\ log' = Append(log, b)
  BY PendingShape DEF Store
<1>2. b \notin Range(log)
  BY <1>1, VerdictPlace, NextIsNotStored DEF Chained
<1>3. Range(log') = Range(log) \cup {b}
  <2>1. log' = log \o <<b>> /\ <<b>> \in Seq(Batch)
    BY <1>1, AppendIsConcat
  <2>2. Range(<<b>>) = {b}
    BY DEF Range
  <2>3. Range(log \o <<b>>) = Range(log) \cup Range(<<b>>)
    BY ZenonT(30), <1>1, <2>1, RangeConcatenation
  <2>. QED
    BY <2>1, <2>2, <2>3
<1>4. /\ Pending # <<>> /\ Head(Pending) = b
      /\ Tail(Pending) = IF Stale THEN Unstored ELSE Tail(spool)
      /\ ~Stale => spool # <<>> /\ Head(spool) = b
  BY <1>2, RequestPending
<1>5. Stale => spool = <<>> \/ Head(spool) # b
  BY <1>1 DEF Stale
<1>. HIDE DEF b
<1>6. Orphaned' = <<>>
  BY DEF Orphaned, Stale
<1>7. Unstored' = IF Stale THEN Unstored ELSE Tail(spool)
  BY <1>3, <1>4, <1>5 DEF Unstored
<1>8. Unstored' \in Seq(Batch)
  BY <1>1, <1>4, <1>7, HeadTailProperties
<1>9. Pending' = Tail(Pending)
  BY <1>4, <1>6, <1>7, <1>8, ConcatEmptySeq DEF Pending
<1>. QED
  BY <1>1, <1>4, <1>9 DEF Promise!StoreOldest

\* s is the end of q.
EndOf(s, q) ==
  Len(s) <= Len(q) /\ \A i \in 1..Len(s) : s[i] = q[(Len(q) - Len(s)) + i]

\* The end of a sequence ends it also when something is taken from its front ...
LEMMA EndOfTail ==
  ASSUME NEW s \in Seq(Batch), NEW q \in Seq(Batch), EndOf(s, q), Len(s) < Len(q)
  PROVE  EndOf(s, Tail(q))
<1>1. Len(s) \in Nat /\ Len(q) \in Nat /\ q # <<>>
  BY LenProperties
<1>2. Len(Tail(q)) = Len(q) - 1 /\ \A i \in 1..(Len(q) - 1) : Tail(q)[i] = q[i + 1]
  BY <1>1, HeadTailProperties
<1>3. ASSUME NEW i \in 1..Len(s) PROVE s[i] = Tail(q)[((Len(q) - 1) - Len(s)) + i]
  <2>1. /\ ((Len(q) - 1) - Len(s)) + i \in 1..(Len(q) - 1)
        /\ (((Len(q) - 1) - Len(s)) + i) + 1 = (Len(q) - Len(s)) + i
    BY <1>1
  <2>. QED
    BY <1>2, <2>1 DEF EndOf
<1>. QED
  BY <1>1, <1>2, <1>3 DEF EndOf

\* ... or put there.
LEMMA EndOfConcat ==
  ASSUME NEW s \in Seq(Batch), NEW p \in Seq(Batch), NEW q \in Seq(Batch), EndOf(s, q)
  PROVE  EndOf(s, p \o q)
<1>1. Len(s) \in Nat /\ Len(q) \in Nat /\ Len(p) \in Nat
  BY LenProperties
<1>2. /\ Len(p \o q) = Len(p) + Len(q)
      /\ \A i \in 1 .. Len(p) + Len(q) :
           (p \o q)[i] = IF i <= Len(p) THEN p[i] ELSE q[i - Len(p)]
  BY ConcatProperties
<1>3. ASSUME NEW i \in 1..Len(s) PROVE s[i] = (p \o q)[((Len(p) + Len(q)) - Len(s)) + i]
  <2>. DEFINE j == ((Len(p) + Len(q)) - Len(s)) + i
  <2>1. /\ j \in 1 .. Len(p) + Len(q) /\ ~(j <= Len(p))
        /\ j - Len(p) = (Len(q) - Len(s)) + i
    BY <1>1 DEF EndOf
  <2>2. (p \o q)[j] = q[j - Len(p)]
    BY <1>2, <2>1
  <2>. QED
    BY <2>1, <2>2 DEF EndOf
<1>. QED
  BY <1>1, <1>2, <1>3 DEF EndOf

\* What keeps the end, or the oldest and the end, has lost a stretch.
LEMMA EndIsDrop ==
  ASSUME ChainInv, UNCHANGED log, NEW s \in Seq(Batch),
         \/ Pending' = s /\ EndOf(s, Pending)
         \/ /\ Pending # <<>> /\ Pending' = <<Head(Pending)>> \o s
            /\ EndOf(s, Tail(Pending))
  PROVE  Promise!Drop
<1>. DEFINE q == Pending
            rest == Len(q) - Len(s) + 1
<1>1. q \in Seq(Batch) /\ Len(q) \in Nat /\ Len(s) \in Nat
  BY PendingShape, LenProperties
<1>. HIDE DEF q
<1>2. ASSUME EndOf(s, q)
      PROVE  rest \in 1 .. Len(q) + 1 /\ s = SubSeq(q, rest, Len(q))
  <2>1. rest \in 1 .. Len(q) + 1 /\ rest \in Int /\ Len(q) \in Int
    BY <1>1, <1>2 DEF EndOf
  <2>2. \A i \in rest .. Len(q) : q[i] \in Batch
    BY <1>1, <2>1, ElementOfSeq
  <2>3. /\ SubSeq(q, rest, Len(q)) \in Seq(Batch)
        /\ Len(SubSeq(q, rest, Len(q))) = IF rest <= Len(q) THEN Len(q) - rest + 1 ELSE 0
        /\ \A i \in 1 .. Len(q) - rest + 1 : SubSeq(q, rest, Len(q))[i] = q[rest + i - 1]
    BY <2>1, <2>2, SubSeqProperties
  <2>4. Len(SubSeq(q, rest, Len(q))) = Len(s) /\ Len(q) - rest + 1 = Len(s)
    BY <1>1, <1>2, <2>3 DEF EndOf
  <2>5. \A i \in 1 .. Len(s) : rest + i - 1 = (Len(q) - Len(s)) + i
    BY <1>1
  <2>6. \A i \in 1 .. Len(s) : s[i] = SubSeq(q, rest, Len(q))[i]
    BY <1>2, <2>3, <2>4, <2>5 DEF EndOf
  <2>. QED
    BY <2>1, <2>3, <2>4, <2>6, SeqEqual
<1>3. CASE Pending' = s /\ EndOf(s, q)
  <2>1. SubSeq(q, 1, 0) = <<>>
    BY SubSeqEmpty
  <2>2. rest \in 1 .. Len(q) + 1 /\ s = SubSeq(q, rest, Len(q))
    BY <1>2, <1>3
  <2>3. SubSeq(q, 1, 0) \o SubSeq(q, rest, Len(q)) = s
    BY <2>1, <2>2, ConcatEmptySeq
  <2>4. 0 < rest /\ 0 <= Len(q)
    BY <1>1, <2>2
  <2>. QED
    BY <1>3, <2>2, <2>3, <2>4 DEF Promise!Drop, q
<1>4. CASE q # <<>> /\ Pending' = <<Head(q)>> \o s /\ EndOf(s, Tail(q))
  <2>1. /\ Len(q) \in Nat \ {0} /\ Tail(q) \in Seq(Batch) /\ Len(Tail(q)) = Len(q) - 1
        /\ <<Head(q)>> \in Seq(Batch)
    BY <1>1, <1>4, EmptySeq, HeadTailProperties
  <2>2. q = <<Head(q)>> \o Tail(q)
    BY <1>1, <1>4, <2>1, SubSeqRecursiveFirst, SubSeqFull, TailIsSubSeq
  <2>3. EndOf(s, <<Head(q)>> \o Tail(q))
    BY <1>4, <2>1, EndOfConcat
  <2>4. rest \in 1 .. Len(q) + 1 /\ s = SubSeq(q, rest, Len(q))
    BY <1>2, <2>2, <2>3
  <2>5. SubSeq(q, 1, 1) = <<Head(q)>>
    <3>1. 1 \in 1..Len(q) /\ SubSeq(q, 1, 1) = <<q[1]>> \o SubSeq(q, 2, 1)
      BY <1>1, <2>1, SubSeqRecursiveFirst
    <3>2. SubSeq(q, 2, 1) = <<>> /\ q[1] = Head(q) /\ <<q[1]>> \in Seq(Batch)
      BY <1>1, <1>4, <2>1, SubSeqEmpty
    <3>. QED
      BY <3>1, <3>2, ConcatEmptySeq
  <2>6. Len(s) <= Len(q) - 1
    BY <1>4, <2>1 DEF EndOf
  <2>7. 1 < rest /\ 1 <= Len(q)
    BY <1>1, <2>1, <2>6
  <2>. QED
    BY <1>4, <2>4, <2>5, <2>7 DEF Promise!Drop, q
<1>. QED
  BY <1>3, <1>4 DEF q

\* Batches that leave the spool from its front to the end of a run are dropped: what is
\* left begins a run that is neither stored nor on its way.
LEMMA CutPending ==
  ASSUME ChainInv, UNCHANGED <<wire, log>>, spool' \in Seq(Batch), spool # <<>>,
         EndOf(spool', spool), Len(spool') < Len(spool),
         spool' # <<>> => /\ Head(spool') \notin Range(log)
                          /\ wire # <<>> => Head(spool') # Head(wire)
  PROVE  Promise!Drop
<1>1. /\ spool \in Seq(Batch) /\ Unstored \in Seq(Batch) /\ Orphaned \in Seq(Batch)
      /\ wire # <<>> => wire = <<wire[1]>> /\ Head(wire) = wire[1] /\ wire[1] \in Batch
  BY PendingShape
<1>2. Unstored' = spool'
  BY DEF Unstored
<1>3. Orphaned' = IF wire # <<>> /\ Head(wire) \notin Range(log) THEN wire ELSE <<>>
  BY DEF Orphaned, Stale
<1>4. EndOf(spool', Tail(spool))
  BY <1>1, EndOfTail
<1>5. EndOf(spool', Unstored)
  BY <1>4 DEF Unstored
<1>6. CASE wire # <<>> /\ wire[1] \notin Range(log)
  <2>1. Pending' = <<wire[1]>> \o spool'
    BY <1>1, <1>2, <1>3, <1>6 DEF Pending
  <2>2. Pending # <<>> /\ Head(Pending) = wire[1]
        /\ Tail(Pending) = IF Stale THEN Unstored ELSE Tail(spool)
    BY <1>6, RequestPending
  <2>3. EndOf(spool', Tail(Pending))
    BY <1>4, <1>5, <2>2
  <2>. QED
    BY <2>1, <2>2, <2>3, EndIsDrop
<1>7. CASE wire = <<>> \/ wire[1] \in Range(log)
  <2>1. Orphaned' = <<>>
    BY <1>1, <1>3, <1>7
  <2>2. Pending' = spool'
    BY <1>2, <2>1, ConcatEmptySeq DEF Pending
  <2>3. EndOf(spool', Pending)
    BY <1>1, <1>5, EndOfConcat DEF Pending
  <2>. QED
    BY <2>2, <2>3, EndIsDrop
<1>. QED
  BY <1>6, <1>7

\* So every cut that the collector makes in the spool is a drop, or takes nothing.
LEMMA CutDrops ==
  ASSUME ChainInv, UNCHANGED <<runs, log, wire>>, spool' \in Seq(Batch),
         \/ spool' = spool
         \/ spool' = <<>>
         \/ \E k \in 2..Len(spool) :
              /\ spool[k - 1].run # spool[k].run
              /\ Len(spool') = Len(spool) - k + 1
              /\ \A i \in 1..Len(spool') : spool'[i] = spool[k + i - 1]
  PROVE  UNCHANGED <<Pending, log>> \/ Promise!Drop
<1>. USE DEF ChainInv, TypeInv
<1>1. CASE spool' = spool
  BY <1>1 DEF Pending, Orphaned, Unstored, Stale
<1>2. CASE spool' = <<>> /\ spool # <<>>
  <2>1. Len(spool) \in Nat \ {0} /\ Len(spool') = 0
    BY <1>2, EmptySeq, ChainEnds
  <2>2. EndOf(spool', spool)
    BY <2>1 DEF EndOf
  <2>. QED
    BY <1>2, <2>1, <2>2, CutPending
<1>3. CASE \E k \in 2..Len(spool) :
              /\ spool[k - 1].run # spool[k].run
              /\ Len(spool') = Len(spool) - k + 1
              /\ \A i \in 1..Len(spool') : spool'[i] = spool[k + i - 1]
  <2>1. PICK k \in 2..Len(spool) :
              /\ spool[k - 1].run # spool[k].run
              /\ Len(spool') = Len(spool) - k + 1
              /\ \A i \in 1..Len(spool') : spool'[i] = spool[k + i - 1]
    BY <1>3
  <2>. DEFINE h == spool[k]
  <2>2. Len(spool) \in Nat /\ k \in DOMAIN spool /\ k - 1 \in DOMAIN spool /\ k - 1 \in Nat
    BY <2>1 DEF TypeOK
  <2>3. spool # <<>> /\ Len(spool') < Len(spool) /\ Len(spool') \in Nat \ {0}
    BY <2>1, <2>2
  <2>4. EndOf(spool', spool)
    <3>1. \A i \in 1..Len(spool') : k + i - 1 = (Len(spool) - Len(spool')) + i
      BY SMTT(30), <2>1, <2>2
    <3>. QED
      BY <2>1, <2>3, <3>1 DEF EndOf
  <2>5. spool'[1] = h /\ Head(spool') = h /\ h \in Batch
    <3>1. 1 \in 1..Len(spool') /\ k + 1 - 1 = k
      BY <2>2, <2>3
    <3>2. spool'[1] = h
      BY <2>1, <3>1
    <3>. QED
      BY <2>2, <3>2 DEF TypeOK
  <2>6. Follows(spool[k - 1], h)
    <3>1. k - 1 \in 1..(Len(spool) - 1) /\ (k - 1) + 1 = k
      BY <2>1, <2>2
    <3>2. Follows(spool[k - 1], spool[(k - 1) + 1])
      BY <3>1 DEF Chained, SpoolChained
    <3>. QED
      BY <3>1, <3>2
  <2>7. spool[k - 1].run \in Nat /\ h.run \in Nat /\ spool[1].run <= spool[k - 1].run
    <3>1. h.run \in Nat
      BY <2>5, BatchType
    <3>2. spool[k - 1] \in Batch
      BY <2>2 DEF TypeOK
    <3>3. spool[k - 1].run \in Nat
      BY <3>2, BatchType
    <3>4. spool[1].run <= spool[k - 1].run
      BY <2>2, SpoolAscends DEF Chained
    <3>. QED
      BY <3>1, <3>3, <3>4
  <2>. HIDE DEF h
  <2>8. spool[1].run < h.run /\ spool[1].run \in Nat
    <3>1. spool[k - 1].run < h.run
      BY <2>1, <2>6 DEF Follows, h
    <3>. QED
      BY <2>3, <2>7, <3>1, ChainEnds
  <2>9. h \notin Range(log)
    <3>1. \A i \in DOMAIN runs : runs[i].run < h.run
      BY SMTT(30), <2>3, <2>7, <2>8, ChainEnds
    <3>2. ~Known(h.run)
      BY <2>7, <3>1, UnknownLater
    <3>. QED
      BY <3>2, StoredIsKnown
  <2>10. wire # <<>> => h # Head(wire)
    <3>. SUFFICES ASSUME wire # <<>> PROVE h # Head(wire)
      OBVIOUS
    <3>1. Head(wire) = wire[1] /\ wire[1].run \in Nat
      BY ChainEnds
    <3>2. wire[1] = spool[1] \/ wire[1].run < spool[1].run
      BY <2>3 DEF Chained, WireNext
    <3>3. wire[1].run < h.run
      BY <2>7, <2>8, <3>1, <3>2
    <3>. QED
      BY <2>7, <3>1, <3>3
  <2>. QED
    BY <2>3, <2>4, <2>5, <2>9, <2>10, CutPending
<1>. QED
  BY <1>1, <1>2, <1>3

\* A batch that is sent is pending as before.
LEMMA SendKeepsPending ==
  ASSUME ChainInv, Send
  PROVE  UNCHANGED <<Pending, log>>
<1>. USE DEF ChainInv, TypeInv
<1>1. /\ wire = <<>> /\ spool # <<>> /\ wire' = <<Head(spool)>>
      /\ UNCHANGED <<spool, log>>
  BY DEF Send, spoolVars, coreVars
<1>2. Head(wire') = Head(spool) /\ wire' # <<>>
  BY <1>1
<1>3. Orphaned' = <<>> /\ Orphaned = <<>>
  BY <1>1, <1>2 DEF Orphaned, Stale
<1>. QED
  BY <1>1, <1>3 DEF Pending, Unstored

\* A request that the core handles: the oldest batch pending is stored, or none.
LEMMA HandleKeepsPromise ==
  ASSUME ChainInv, Handle
  PROVE  UNCHANGED <<Pending, log>> \/ Promise!StoreOldest \/ Promise!Drop
<1>1. wire # <<>> /\ wire' = <<>> /\ UNCHANGED spool
  BY DEF Handle, spoolVars
<1>2. CASE Verdict(Head(wire)) = "stored"
  <2>1. Store(Head(wire))
    BY <1>2 DEF Handle
  <2>. QED
    BY <1>1, <1>2, <2>1, StoreOldestPending
<1>3. CASE Verdict(Head(wire)) # "stored"
  <2>1. UNCHANGED log
    BY <1>3 DEF Handle, coreVars
  <2>. QED
    BY <1>1, <2>1, RequestGone
<1>. QED
  BY <1>2, <1>3

\* What a repair leaves of the spool.
LEMMA RepairCuts ==
  ASSUME ChainInv, RepairRejected
  PROVE  UNCHANGED <<Pending, log>> \/ Promise!Drop
<1>. USE DEF ChainInv, TypeInv
<1>1. spool' = WithoutRun(faultRun) /\ UNCHANGED <<runs, log, wire>>
  BY DEF RepairRejected, coreVars
<1>2. faultRun \in Nat /\ spool \in Seq(Batch)
  BY DEF TypeOK
<1>3. WithoutRun(faultRun) \in Seq(Batch)
  BY <1>2, WithoutRunType
<1>4. spool' \in Seq(Batch)
  BY <1>1, <1>3
<1>5. \/ spool' = <<>>
      \/ \E k \in DOMAIN spool :
           /\ spool[k].run # faultRun /\ \A i \in 1..(k - 1) : spool[i].run = faultRun
           /\ Len(spool') = Len(spool) - k + 1
           /\ \A i \in 1..Len(spool') : spool'[i] = spool[k + i - 1]
  BY <1>1, <1>2, WithoutRunType
<1>6. CASE spool' = <<>>
  BY <1>1, <1>6, <1>4, CutDrops
<1>7. CASE \E k \in DOMAIN spool :
              /\ spool[k].run # faultRun /\ \A i \in 1..(k - 1) : spool[i].run = faultRun
              /\ Len(spool') = Len(spool) - k + 1
              /\ \A i \in 1..Len(spool') : spool'[i] = spool[k + i - 1]
  <2>1. PICK k \in DOMAIN spool :
              /\ spool[k].run # faultRun /\ \A i \in 1..(k - 1) : spool[i].run = faultRun
              /\ Len(spool') = Len(spool) - k + 1
              /\ \A i \in 1..Len(spool') : spool'[i] = spool[k + i - 1]
    BY <1>7
  <2>2. k \in 1..Len(spool) /\ Len(spool) \in Nat
    BY <1>2
  <2>3. CASE k = 1
    <3>1. Len(spool') = Len(spool) /\ \A i \in 1..Len(spool) : spool'[i] = spool[i]
      BY <2>1, <2>2, <2>3
    <3>2. spool' = spool
      BY <1>2, <1>4, <3>1, SeqEqual
    <3>. QED
      BY <1>1, <1>4, <3>2, CutDrops
  <2>4. CASE k # 1
    <3>1. k \in 2..Len(spool) /\ spool[k - 1].run # spool[k].run
      BY <2>1, <2>2, <2>4
    <3>. QED
      BY <1>1, <1>4, <2>1, <3>1, CutDrops
  <2>. QED
    BY <2>3, <2>4
<1>. QED
  BY <1>5, <1>6, <1>7

\* Every step of the collector, the worker and the core is a step of the promise, or none.
LEMMA PromiseStep ==
  ASSUME ChainInv, [Next]_vars
  PROVE  [Promise!Next]_(Promise!vars)
<1>. USE DEF ChainInv, TypeInv
<1>1. <<>> \in Seq(Batch) /\ spool \in Seq(Batch)
  BY ChainEnds
<1>2. CASE UNCHANGED <<spool, wire, log>>
  BY <1>2 DEF Pending, Orphaned, Unstored, Stale, Promise!vars
<1>3. CASE FirstPublish \/ Observe \/ ReportInputOverflow \/ SealRun \/ RotateRun \/ Stop
           \/ Exit \/ Crash \/ StopUnreadable \/ Decay \/ ReportUnreadable \/ ReportRejected
           \/ UNCHANGED vars
  <2>1. UNCHANGED <<spool, wire, log>>
    BY <1>3 DEF FirstPublish, Observe, ReportInputOverflow, SealRun, RotateRun, Stop, Exit,
                Crash, StopUnreadable, Halt, Decay, ReportUnreadable, ReportRejected, vars,
                spoolVars, coreVars
  <2>. QED
    BY <1>2, <2>1
<1>4. CASE Start \/ Overflow \/ RepairUnreadable
  <2>1. UNCHANGED <<runs, log, wire>> /\ (spool' = spool \/ spool' = <<>>)
    BY <1>4 DEF Start, Overflow, RepairUnreadable, coreVars
  <2>2. spool' \in Seq(Batch)
    BY <1>1, <2>1
  <2>. QED
    BY <2>1, <2>2, CutDrops DEF Promise!Next, Promise!vars
<1>5. CASE RepairRejected
  BY <1>5, RepairCuts DEF Promise!Next, Promise!vars
<1>6. CASE Push \/ PushSnapshot
  <2>1. todo # <<>>
    BY <1>6 DEF Busy, Push, PushSnapshot
  <2>. QED
    BY <1>6, <2>1, PushAccepts DEF Promise!Next
<1>7. CASE Send
  BY <1>7, SendKeepsPending DEF Promise!vars
<1>8. CASE Pop
  BY <1>8, PopKeepsPending DEF Promise!vars
<1>9. CASE Lose
  <2>1. wire # <<>> /\ wire' = <<>> /\ UNCHANGED <<spool, log>>
    BY <1>9 DEF Lose, spoolVars, coreVars
  <2>. QED
    BY <2>1, RequestGone DEF Promise!Next, Promise!vars
<1>10. CASE Ingest \/ IngestUnanswered
  <2>1. Handle
    BY <1>10 DEF Ingest, IngestUnanswered
  <2>. QED
    BY <2>1, HandleKeepsPromise DEF Promise!Next, Promise!vars
<1>. QED
  BY <1>3, <1>4, <1>5, <1>6, <1>7, <1>8, <1>9, <1>10 DEF Next, Collector, Worker, Core

\* The collector, the worker and the core together keep the promise of EventLog: batches
\* are taken in the order of their run, the oldest one pending is stored next and at most
\* once, and only a stretch of them, from the oldest or the one after it, is ever lost.
THEOREM PromiseIsKept == Spec => ImplementsEventLog
<1>1. Init => Promise!Init
  BY DEF Init, Promise!Init, Pending, Orphaned, Unstored, Stale
<1>2. ChainInv /\ [Next]_vars => [Promise!Next]_(Promise!vars)
  BY PromiseStep
<1>. QED
  BY <1>1, <1>2, ChainInvariant, PTL DEF Spec, ImplementsEventLog, Promise!Spec
=============================================================================
