------------------------------- MODULE Spool -------------------------------
(***************************************************************************)
(* The collector's spool on disk: a ring of encrypted, checksummed records *)
(* and two header slots that are written in turn, each with a generation.  *)
(* An operation writes to the file, where every process sees it at once;   *)
(* only a sync, or the system at its leisure, carries it to the disk,      *)
(* which is what a power loss leaves.                                      *)
(*                                                                         *)
(* The ring is made of cells.  The first cell of a record stands for its   *)
(* header, and a cell that does not belong to a complete record for bytes  *)
(* whose checksum does not match.  The collector's lock makes operations   *)
(* exclude each other, so that only faults come between their steps.       *)
(***************************************************************************)
EXTENDS Naturals, FiniteSets

CONSTANTS Cells,       \* data_capacity: cells of the ring
          MaxLength,   \* bound: cells of a record
          MaxRecords,  \* bound: records written
          MaxGen,      \* bound: generations of the header
          FaultSets    \* which faults may happen together

\* A process dies; the power fails; reading or writing the file fails; stored bytes rot.
Faults == {"crash", "power", "io", "decay"}

ASSUME SpoolConstants ==
  /\ Cells \in Nat \ {0}
  /\ MaxLength \in 1..Cells
  /\ MaxRecords \in Nat
  /\ MaxGen \in Nat
  /\ FaultSets \subseteq SUBSET Faults

VARIABLES
  may,      \* the faults of this behaviour
  pc,       \* what the collector does with the spool next
  op,       \* the operation it is in
  header,   \* header: the spool's header in memory
  active,   \* active_header_slot
  run,      \* the collector's run, 0 while the next record begins one
  file,     \* the file as processes see it
  disk,     \* the file as a power loss leaves it
  next,     \* the next record
  promised, \* history: records for which push returned true
  released  \* history: records whose removal has been asked for

callerVars == <<run, next, promised, released>>
memoryVars == <<header, active>>
vars == <<may, pc, op, memoryVars, file, disk, callerVars>>

Ring == 0..(Cells - 1)
Record == [id : Nat, run : Nat, len : 0..Cells]
NoRecord == [id |-> 0, run |-> 0, len |-> 0]
Cell == [rec : Record, at : Ring]
Junk == [rec |-> NoRecord, at |-> 0]
Header == [gen : Nat, head : Ring, tail : Ring, used : 0..Cells, count : 0..Cells]
NoHeader == [gen |-> 0, head |-> 0, tail |-> 0, used |-> 0, count |-> 0]
Slots == {0, 1}
Image == [slots : [Slots -> Header], cells : [Ring -> Cell]]

-----------------------------------------------------------------------------
(* Reading.                                                                *)

\* Seeded fault: one position too many.
WrapLate(p) == IF p <= Cells THEN p ELSE p - Cells
\* Position p % data_capacity, for the sum p of a position and a length.
Wrap(p) == IF p < Cells THEN p ELSE p - Cells

\* read_record: a record begins at p, within the available cells, and its checksum holds.
Readable(cells, p, available) ==
  LET r == cells[p].rec
  IN  /\ r.len \in 1..available
      /\ \A j \in 0..(r.len - 1) : cells[Wrap(p + j)] = [rec |-> r, at |-> j]

\* The cells h counts as used, by their distance from its head.
Used(h) == 0..(h.used - 1)
CellOf(cells, h, k) == cells[Wrap(h.head + k)]
Begins(cells, h) == {k \in Used(h) : CellOf(cells, h, k).at = 0}
RecordsOf(cells, h) == {CellOf(cells, h, k).rec : k \in Used(h)}

\* validate_records: complete records fill the used cells up to the tail.
Sound(cells, h) ==
  /\ \A k \in Used(h) :
       LET c == CellOf(cells, h, k)
       IN  /\ c.at <= k
           /\ Readable(cells, Wrap(h.head + (k - c.at)), h.used - (k - c.at))
           /\ CellOf(cells, h, k - c.at).rec = c.rec
  /\ Cardinality(Begins(cells, h)) = h.count
  /\ h.tail = Wrap(h.head + h.used)

\* The slots that read_header_slot accepts, and the one open_paths takes.
Valid(slots) == {s \in Slots : slots[s].gen # 0}
\* Seeded fault: open takes the older header.
Oldest(slots) == CHOOSE s \in Valid(slots) : \A t \in Valid(slots) : slots[s].gen <= slots[t].gen
Newest(slots) == CHOOSE s \in Valid(slots) : \A t \in Valid(slots) : slots[t].gen <= slots[s].gen

\* The header of an image that opens
OpenedWith(image) ==
  {h \in {image.slots[s] : s \in {n \in Valid(image.slots) : n = Newest(image.slots)}} :
     Sound(image.cells, h)}
Opens(image) == OpenedWith(image) # {}

\* The records a collector finds that opens this image.
Kept(image) == UNION {RecordsOf(image.cells, h) : h \in OpenedWith(image)}

FrontReadable == header.count # 0 /\ Readable(file.cells, header.head, header.used)
Front == file.cells[header.head].rec

-----------------------------------------------------------------------------
(* A spool that has just been created: slot 0 with generation 1, and       *)
(* zeroed cells.                                                           *)

FirstHeader == [NoHeader EXCEPT !.gen = 1]
Fresh == [slots |-> [s \in Slots |-> IF s = 0 THEN FirstHeader ELSE NoHeader],
          cells |-> [p \in Ring |-> Junk]]

Init ==
  /\ may \in FaultSets
  /\ pc = "down" /\ op = "none"
  /\ header = NoHeader /\ active = 0
  /\ run = 0
  /\ file = Fresh /\ disk = Fresh
  /\ next = 1 /\ promised = {} /\ released = {}

-----------------------------------------------------------------------------
(* push: the record is written and synced before the header that counts it.*)

\* The cells with the first n cells of record r written at the tail.
Written(r, n) ==
  [p \in Ring |->
     LET k == IF p >= header.tail THEN p - header.tail ELSE p + Cells - header.tail
     IN  IF k < n THEN [rec |-> r, at |-> k] ELSE file.cells[p]]

NewRecord(len) == [id |-> next, run |-> IF run = 0 THEN next ELSE run, len |-> len]

\* There is room, and the record goes into free cells.  A writer that fails or dies in
\* the middle leaves some of it there; the collector ends.
WriteRecord(len) ==
  LET r == NewRecord(len)
  IN  /\ pc = "idle" /\ next <= MaxRecords /\ header.gen < MaxGen
      /\ len <= Cells - header.used
      /\ \/ /\ file' = [file EXCEPT !.cells = Written(r, len)]
            /\ pc' = "record" /\ op' = "push"
         \/ /\ may \cap {"crash", "io"} # {}
            /\ \E n \in 0..(len - 1) : file' = [file EXCEPT !.cells = Written(r, n)]
            /\ pc' = "down" /\ op' = "none"
      /\ next' = next + 1
      /\ run' = r.run
      /\ UNCHANGED <<may, memoryVars, disk, promised, released>>

\* The record now in the free cells, as the header will count it.
Counted(h) ==
  LET len == file.cells[h.tail].rec.len
  IN  [gen |-> h.gen + 1, head |-> h.head, tail |-> Wrap(h.tail + len),
       used |-> h.used + len, count |-> h.count + 1]

\* Seeded fault: the header is written without a sync of the record before it.
SyncRecordLater ==
  /\ pc = "record"
  /\ header' = Counted(header)
  /\ pc' = "header"
  /\ UNCHANGED <<may, op, active, file, disk, callerVars>>

SyncRecord ==
  /\ pc = "record"
  /\ disk' = file
  /\ header' = Counted(header)
  /\ pc' = "header"
  /\ UNCHANGED <<may, op, active, file, callerVars>>

-----------------------------------------------------------------------------
(* Removals change only the header.                                        *)

\* The header without the first n used cells, which hold m records.
Without(h, n, m) ==
  [gen |-> h.gen + 1,
   head |-> IF h.count = m THEN h.tail ELSE Wrap(h.head + n),
   tail |-> h.tail,
   used |-> IF h.count = m THEN 0 ELSE h.used - n,
   count |-> h.count - m]

Remove(kind, n, m, recs) ==
  /\ pc = "idle" /\ header.gen < MaxGen
  /\ header' = Without(header, n, m)
  /\ released' = released \cup recs
  /\ pc' = "header" /\ op' = kind
  /\ UNCHANGED <<may, active, file, disk, next, promised>>

\* pop_if_matches: the core has stored the front.
Pop ==
  /\ FrontReadable
  /\ Remove("pop", Front.len, 1, {Front})
  /\ UNCHANGED run

\* The used cells before the first record of another run.
LeadingCells ==
  {k \in Used(header) :
     \A j \in 0..k : CellOf(file.cells, header, j).rec.run = Front.run}

\* discard_run: every record of the front's run at the front, if they can all be read,
\* and so can the record after them; otherwise the error ends the collector.
DiscardReads ==
  LET n == Cardinality(LeadingCells)
  IN  /\ \A k \in LeadingCells :
           LET at == CellOf(file.cells, header, k).at
           IN  at <= k /\ Readable(file.cells, Wrap(header.head + (k - at)),
                                   header.used - (k - at))
      /\ n < header.used =>
           Readable(file.cells, Wrap(header.head + n), header.used - n)

DiscardRun ==
  LET begins == LeadingCells \cap Begins(file.cells, header)
  IN  /\ FrontReadable
      /\ DiscardReads
      /\ Remove("discard", Cardinality(LeadingCells), Cardinality(begins),
                {CellOf(file.cells, header, k).rec : k \in begins})
      /\ run' = IF Front.run = run THEN 0 ELSE run

DiscardFails ==
  /\ pc = "idle"
  /\ FrontReadable
  /\ ~DiscardReads
  /\ pc' = "down" /\ op' = "none"
  /\ UNCHANGED <<may, memoryVars, file, disk, callerVars>>

\* reset: the spool is full, its front unreadable, or all data are to be cleared.
\* A new run follows.
Reset ==
  /\ Remove("reset", header.used, header.count, RecordsOf(file.cells, header))
  /\ run' = 0

-----------------------------------------------------------------------------
(* commit_header: the slot that is not active is written, synced, and      *)
(* becomes the active one.                                                 *)

\* Seeded fault: the active slot is overwritten.
SameSlot == active
SlotToWrite == 1 - active

WriteHeader ==
  /\ pc = "header"
  /\ file' = [file EXCEPT !.slots[SlotToWrite] = header]
  /\ pc' = "sync"
  /\ UNCHANGED <<may, op, memoryVars, disk, callerVars>>

SyncHeader ==
  /\ pc = "sync"
  /\ disk' = file
  /\ active' = SlotToWrite
  /\ promised' = IF op = "push"
                 THEN promised \cup {CellOf(file.cells, header, header.used - 1).rec}
                 ELSE promised
  /\ pc' = "idle" /\ op' = "none"
  /\ UNCHANGED <<may, header, file, run, next, released>>

\* An I/O error.  The delivery worker ignores that of a pop, after which the header in
\* memory is ahead of the active slot; any other ends the collector.
CommitFails ==
  /\ "io" \in may
  /\ pc \in {"record", "header", "sync"}
  /\ pc' = IF op = "pop" THEN "idle" ELSE "down"
  /\ op' = "none"
  /\ UNCHANGED <<may, memoryVars, file, disk, callerVars>>

-----------------------------------------------------------------------------
(* Faults.                                                                 *)

Crash ==
  /\ "crash" \in may
  /\ pc # "down"
  /\ pc' = "down" /\ op' = "none"
  /\ UNCHANGED <<may, memoryVars, file, disk, callerVars>>

\* The system writes part of the file to disk.  A header slot may be torn.
WriteBack ==
  /\ "power" \in may
  /\ \/ \E s \in Slots :
          /\ disk.slots[s] # file.slots[s]
          /\ \E h \in {file.slots[s], NoHeader} : disk' = [disk EXCEPT !.slots[s] = h]
     \/ \E p \in Ring :
          /\ disk.cells[p] # file.cells[p]
          /\ \E c \in {file.cells[p], Junk} : disk' = [disk EXCEPT !.cells[p] = c]
  /\ UNCHANGED <<may, pc, op, memoryVars, file, callerVars>>

PowerLoss ==
  /\ "power" \in may
  /\ file' = disk
  /\ pc' = "down" /\ op' = "none"
  /\ UNCHANGED <<may, memoryVars, disk, callerVars>>

\* Stored bytes rot while nobody writes.
Decay ==
  /\ "decay" \in may
  /\ pc \in {"down", "idle"}
  /\ \/ \E s \in Slots : file' = [file EXCEPT !.slots[s] = NoHeader]
     \/ \E p \in Ring : file' = [file EXCEPT !.cells[p] = Junk]
  /\ disk' = file'
  /\ UNCHANGED <<may, pc, op, memoryVars, callerVars>>

-----------------------------------------------------------------------------
(* A collector starts, with a run of its own.                              *)

\* Seeded fault: the collector goes on with the run it had.
SameRun == run
NewRun == 0

Open ==
  /\ pc = "down"
  /\ Opens(file)
  /\ active' = Newest(file.slots)
  /\ header' = file.slots[Newest(file.slots)]
  /\ pc' = "idle"
  /\ run' = NewRun
  /\ UNCHANGED <<may, op, file, disk, next, promised, released>>

\* open_or_quarantine: what cannot be read is moved aside.
Quarantine ==
  /\ pc = "down"
  /\ ~Opens(file)
  /\ file' = Fresh /\ disk' = Fresh
  /\ active' = 0 /\ header' = FirstHeader
  /\ pc' = "idle"
  /\ run' = NewRun
  /\ UNCHANGED <<may, op, next, promised, released>>

Next ==
  \/ \E len \in 1..MaxLength : WriteRecord(len)
  \/ SyncRecord
  \/ Pop \/ DiscardRun \/ DiscardFails \/ Reset
  \/ WriteHeader \/ SyncHeader \/ CommitFails
  \/ Crash \/ WriteBack \/ PowerLoss \/ Decay
  \/ Open \/ Quarantine

Spec == Init /\ [][Next]_vars

-----------------------------------------------------------------------------
(* Properties.                                                             *)

TypeOK ==
  /\ may \in FaultSets
  /\ pc \in {"down", "idle", "record", "header", "sync"}
  /\ op \in {"none", "push", "pop", "discard", "reset"}
  /\ header \in Header
  /\ active \in Slots
  /\ run \in Nat
  /\ file \in Image
  /\ disk \in Image
  /\ next \in Nat
  /\ promised \subseteq Record
  /\ released \subseteq Record

\* The file is trusted as long as nothing but one kind of stop happens to it.
Trusted == may \in {{}, {"crash"}, {"power"}}

\* Every record that push took and nobody asked to remove is found by a collector that
\* opens the file.
Retained == promised \ released \subseteq Kept(file)

\* The same goes for a collector that opens what a power loss at this moment leaves: the
\* order of the syncs, the turns of the header slots, the free space and the ring's
\* arithmetic never let a newer write reach what the last committed header counts.
Survives == Trusted => Retained /\ promised \ released \subseteq Kept(disk)

\* What a running collector has in its ring is delivered in the order it was taken, without
\* a record of a run missing between two others of the same run, which the core would
\* have to refuse; even after stored bytes have rotted.
NoHole ==
  pc # "down" /\ "io" \notin may /\ Sound(file.cells, header) =>
    LET queue == RecordsOf(file.cells, header)
    IN  /\ \A j, k \in Used(header) :
             j < k => CellOf(file.cells, header, j).rec.id <= CellOf(file.cells, header, k).rec.id
        /\ \A a, b \in queue, m \in promised :
             a.run = m.run /\ m.run = b.run /\ a.id < m.id /\ m.id < b.id => m \in queue

\* What a power loss leaves changes only as a persistent queue may: records are added
\* behind the newest, removed from the front when their removal has been asked for, and
\* never come back.
Durable == INSTANCE DurableQueue WITH kept <- Kept(disk)
ImplementsDurableQueue ==
  /\ Trusted => Durable!Init
  /\ [][Trusted => Durable!Next]_<<disk, promised, released>>
=============================================================================
