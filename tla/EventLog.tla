------------------------------ MODULE EventLog ------------------------------
(***************************************************************************)
(* What the collector and the core promise together about the events of a  *)
(* run, without processes, files, messages or retries: batches are taken   *)
(* into a queue in the order of their run, the oldest one is stored at     *)
(* most once, and batches may be dropped.  After a drop at its end a run   *)
(* cannot go on; the next batch begins a new run.                          *)
(***************************************************************************)
EXTENDS Naturals, Sequences

VARIABLES queue,   \* batches taken and not yet stored, oldest first
          log      \* batches stored, in order

vars == <<queue, log>>

Init == queue = <<>> /\ log = <<>>

Members(s) == {s[i] : i \in DOMAIN s}

\* b begins a run that neither the queue nor the log has.
BeginsRun(b) ==
  b.first = 1 /\ \A a \in Members(log \o queue) : a.run # b.run

\* b goes on where the newest batch ends.
GoesOn(b) ==
  LET all == log \o queue
      newest == all[Len(all)]
  IN  all # <<>> /\ newest.run = b.run /\ b.first = newest.first + Len(newest.events)

Accept ==
  /\ queue' # <<>>
  /\ LET b == queue'[Len(queue')]
     IN  queue' = Append(queue, b) /\ (BeginsRun(b) \/ GoesOn(b))
  /\ UNCHANGED log

StoreOldest ==
  /\ queue # <<>>
  /\ log' = Append(log, Head(queue))
  /\ queue' = Tail(queue)

\* A stretch of batches is lost: from the oldest on, or from the one after it,
\* which may be on its way.
Drop ==
  /\ \E oldest \in {0, 1}, rest \in 1 .. Len(queue) + 1 :
       /\ oldest < rest /\ oldest <= Len(queue)
       /\ queue' = SubSeq(queue, 1, oldest) \o SubSeq(queue, rest, Len(queue))
  /\ UNCHANGED log

Next == Accept \/ StoreOldest \/ Drop

Spec == Init /\ [][Next]_vars
=============================================================================
