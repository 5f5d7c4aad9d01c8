------------------------------ MODULE ClearAll ------------------------------
(***************************************************************************)
(* "Clear all data": the core deletes everything it has stored while the   *)
(* collector, another process, gives up what it has spooled.  They agree   *)
(* through two files: the core creates collector-reset.request, the        *)
(* collector answers with collector-reset.paused and waits until the       *)
(* request is gone; then it rotates the spool key, starts a new run and    *)
(* removes its own file.  Either process may die at any point.             *)
(*                                                                         *)
(* A batch here is one observation.  Its era says how often the database   *)
(* had been cleared when it was observed.                                  *)
(***************************************************************************)
EXTENDS Naturals, Sequences, FiniteSets, SequencesExt

CONSTANTS MaxClears,  \* bound: clears requested
          MaxRun,     \* bound: runs started
          MaxSeq,     \* bound: batches queued in a run
          Deaths      \* which of the processes may die: a subset of Processes

Processes == {"core", "collector"}

ASSUME ConstantsOK ==
  MaxClears \in Nat /\ MaxRun \in Nat /\ MaxSeq \in Nat /\ Deaths \subseteq Processes

VARIABLES
  request,  \* whether collector-reset.request exists
  paused,   \* whether collector-reset.paused exists
  core,     \* whether the core runs, holding its single-instance mutex
  clear,    \* the thread that clears; it has the storage lock unless "none"
  report,   \* what the last clear told the user
  log,      \* the batches in the database
  coll,     \* the collection loop; the collector has its mutex unless "down"
  run, seq, \* the current run and its next sequence number
  spool,    \* the pending batches
  fault,    \* 0, or the run that the core refused for good
  worker,   \* the delivery worker
  sent,     \* <<>>, or the batch it is delivering
  wire,     \* <<>>, or the request the core's server has in hand
  era,      \* history: how often the database was cleared
  asked     \* history: how often a clear was requested

files == <<request, paused>>
coreVars == <<core, clear, report, log>>
collVars == <<coll, run, seq, spool, fault>>
wireVars == <<worker, sent, wire>>
history == <<era, asked>>
vars == <<files, coreVars, collVars, wireVars, history>>

Batch == [era : Nat, run : Nat, first : Nat]

ResetActive == request \/ paused
StorageFree == core /\ clear = "none"

\* clear_all: an error may come before the deletion is committed or after it.
ClearDatabase(outcomes) ==
  \/ log' = <<>> /\ era' = era + 1 /\ report' \in outcomes
  \/ UNCHANGED <<log, era>> /\ report' = "failed"

\* What is observed now goes to the end of the spool.
Observed(r, n) == [era |-> era, run |-> r, first |-> n]

\* Seeded fault: sequence numbers begin at zero.
NewRunAtZero == run' = run + 1 /\ seq' = 0
NewRun == run' = run + 1 /\ seq' = 1

\* The batches without those of run r at the front.
WithoutRun(s, r) ==
  LET kept == {i \in DOMAIN s : s[i].run # r}
  IN  IF kept = {} THEN <<>> ELSE SubSeq(s, CHOOSE i \in kept : \A j \in kept : i <= j, Len(s))

Init ==
  /\ request = FALSE /\ paused = FALSE
  /\ core = FALSE /\ clear = "none" /\ report = "none" /\ log = <<>>
  /\ coll = "down" /\ run = 0 /\ seq = 1 /\ spool = <<>> /\ fault = 0
  /\ worker = "idle" /\ sent = <<>> /\ wire = <<>>
  /\ era = 0 /\ asked = 0

-----------------------------------------------------------------------------
(* The core.                                                               *)

\* Seeded fault: a request left by an earlier core stays.
StartCoreOnly ==
  /\ ~core /\ core' = TRUE
  /\ UNCHANGED <<files, clear, report, log, collVars, wireVars, history>>

\* The singleton proves that no earlier core is still clearing: its request goes.
StartCore ==
  /\ ~core /\ core' = TRUE
  /\ request' = FALSE
  /\ UNCHANGED <<paused, clear, report, log, collVars, wireVars, history>>

\* The core dies, and the request in its hands with it.
CoreDies ==
  /\ core /\ "core" \in Deaths
  /\ core' = FALSE /\ clear' = "none" /\ report' = "none"
  /\ wire' = <<>>
  /\ IF worker = "waiting" THEN worker' = "idle" /\ sent' = <<>> ELSE UNCHANGED <<worker, sent>>
  /\ UNCHANGED <<files, log, collVars, history>>

\* The user asks; the thread takes the storage lock and writes the request.
RequestClear ==
  /\ StorageFree /\ asked < MaxClears
  /\ asked' = asked + 1
  /\ request' = TRUE /\ clear' = "requested" /\ report' = "none"
  /\ UNCHANGED <<paused, core, log, collVars, wireVars, era>>

\* The collector has paused.
SeePaused ==
  /\ clear = "requested" /\ paused
  /\ clear' = "clearing"
  /\ UNCHANGED <<files, core, report, log, collVars, wireVars, history>>

\* Twelve seconds have gone by and it has not.
GiveUp ==
  /\ clear = "requested" /\ ~paused
  /\ clear' = "unanswered"
  /\ UNCHANGED <<files, core, report, log, collVars, wireVars, history>>

\* Clear with the collector paused, then let it go on.
ClearPaused ==
  /\ clear = "clearing"
  /\ ClearDatabase({"cleared", "failed"})
  /\ clear' = "cleared"
  /\ UNCHANGED <<files, core, collVars, wireVars, asked>>

ReleaseCollector ==
  /\ clear = "cleared"
  /\ request' = FALSE /\ clear' = "resuming"
  /\ UNCHANGED <<paused, core, report, log, collVars, wireVars, history>>

\* The collector has resumed ...
SeeResumed ==
  /\ clear = "resuming" /\ ~paused
  /\ clear' = "none"
  /\ UNCHANGED <<files, core, report, log, collVars, wireVars, history>>

\* ... or has not, after twelve more seconds.
GiveUpResume ==
  /\ clear = "resuming" /\ paused
  /\ clear' = "none" /\ report' = "unresumed"
  /\ UNCHANGED <<files, core, log, collVars, wireVars, history>>

\* Without an answer the request is withdrawn, and the core takes the collector's
\* mutex to prove that there is no collector.
Withdraw ==
  /\ clear = "unanswered"
  /\ request' = FALSE /\ clear' = "alone"
  /\ UNCHANGED <<paused, core, report, log, collVars, wireVars, history>>

\* "collector did not acknowledge pause; original data and offline buffer were preserved"
FindCollector ==
  /\ clear = "alone" /\ coll # "down"
  /\ clear' = "none" /\ report' = "preserved"
  /\ UNCHANGED <<files, core, log, collVars, wireVars, history>>

\* With the collector's mutex in hand, the spool, its key and the tray state go.
DeleteSpool ==
  /\ clear = "alone" /\ coll = "down"
  /\ clear' = "deleting" /\ spool' = <<>>
  /\ UNCHANGED <<files, core, report, log, coll, run, seq, fault, wireVars, history>>

ClearAlone ==
  /\ clear = "deleting"
  /\ ClearDatabase({"cleared", "failed"})
  /\ clear' = "none"
  /\ UNCHANGED <<files, core, collVars, wireVars, asked>>

ClearThread ==
  \/ SeePaused \/ GiveUp \/ ClearPaused \/ ReleaseCollector \/ SeeResumed \/ GiveUpResume
  \/ Withdraw \/ FindCollector \/ DeleteSpool \/ ClearAlone

\* ingest_event_batch: what was stored is acknowledged again, what is not next in
\* its run is refused for good.
InPlace(b) ==
  IF \E i \in DOMAIN log : log[i].run = b.run /\ log[i].first = b.first THEN "stored"
  ELSE IF b.first = 1 \/ \E i \in DOMAIN log : log[i].run = b.run /\ log[i].first = b.first - 1
       THEN "next"
       ELSE "misplaced"

\* ingest_if_not_resetting, under the storage lock.  A worker that has died since
\* gets no answer.
Serve ==
  /\ StorageFree /\ wire # <<>>
  /\ LET b == Head(wire)
         verdict == IF ResetActive THEN "later" ELSE InPlace(b)
     IN  /\ log' = IF verdict = "next" THEN Append(log, b) ELSE log
         /\ IF worker = "waiting"
            THEN /\ worker' = IF verdict = "later" THEN "idle"
                              ELSE IF verdict = "misplaced" THEN "refused" ELSE "acked"
                 /\ sent' = IF verdict = "later" THEN <<>> ELSE sent
            ELSE UNCHANGED <<worker, sent>>
  /\ wire' = <<>>
  /\ UNCHANGED <<files, core, clear, report, collVars, history>>

-----------------------------------------------------------------------------
(* The collection loop.                                                    *)

\* The collector starts.  A pause left by an earlier collector goes, unless a
\* request for it is there.
StartCollector ==
  /\ coll = "down" /\ clear # "deleting" /\ run < MaxRun
  /\ coll' = "starting"
  /\ paused' = (paused /\ request)
  /\ NewRun
  /\ UNCHANGED <<request, coreVars, spool, fault, wireVars, history>>

\* The first publication, before the loop is entered.
FirstPublish ==
  /\ coll = "starting" /\ coll' = "loop"
  /\ spool' = Append(spool, Observed(run, seq)) /\ seq' = seq + 1
  /\ UNCHANGED <<files, coreVars, run, fault, wireVars, history>>

\* One turn of the loop.
Observe ==
  /\ coll = "loop" /\ seq <= MaxSeq
  /\ spool' = Append(spool, Observed(run, seq)) /\ seq' = seq + 1
  /\ UNCHANGED <<files, coreVars, coll, run, fault, wireVars, history>>

\* repair_delivery_fault: the refused run goes; was it the current one, the windows
\* open now begin another.
RepairRejected ==
  /\ coll = "loop" /\ fault # 0
  /\ fault' = 0
  /\ IF fault = run
     THEN /\ run' = run + 1 /\ seq' = 2
          /\ spool' = Append(WithoutRun(spool, fault), Observed(run + 1, 1))
     ELSE spool' = WithoutRun(spool, fault) /\ UNCHANGED <<run, seq>>
  /\ UNCHANGED <<files, coreVars, coll, wireVars, history>>

\* The loop sees the request ...
SeeRequest ==
  /\ coll = "loop" /\ request
  /\ coll' = "asked"
  /\ UNCHANGED <<files, coreVars, run, seq, spool, fault, wireVars, history>>

\* ... and acknowledges it, then waits for it to go.
Acknowledge ==
  /\ coll = "asked"
  /\ paused' = TRUE /\ coll' = "wait"
  /\ UNCHANGED <<request, coreVars, run, seq, spool, fault, wireVars, history>>

WaitEnds ==
  /\ coll = "wait" /\ ~request
  /\ coll' = "rotate"
  /\ UNCHANGED <<files, coreVars, run, seq, spool, fault, wireVars, history>>

\* After a timeout, when the core's mutex is free, the request of a dead core goes.
WaitTimeout ==
  /\ coll = "wait" /\ request /\ ~core
  /\ request' = FALSE /\ coll' = "rotate"
  /\ UNCHANGED <<paused, coreVars, run, seq, spool, fault, wireVars, history>>


\* rotate_key empties the spool, and a new run begins.
Rotate ==
  /\ coll = "rotate" /\ coll' = "renew"
  /\ spool' = <<>>
  /\ NewRun
  /\ UNCHANGED <<files, coreVars, fault, wireVars, history>>

\* The new run publishes ...
Republish ==
  /\ coll = "renew" /\ coll' = "resume"
  /\ spool' = Append(spool, Observed(run, seq)) /\ seq' = seq + 1
  /\ UNCHANGED <<files, coreVars, run, fault, wireVars, history>>

\* ... and the pause is over.
Resume ==
  /\ coll = "resume" /\ coll' = "loop"
  /\ paused' = FALSE
  /\ UNCHANGED <<request, coreVars, run, seq, spool, fault, wireVars, history>>

ResetLoop ==
  FirstPublish \/ SeeRequest \/ Acknowledge \/ WaitEnds \/ WaitTimeout \/ Rotate \/ Republish
  \/ Resume

\* A stop request ends the loop; a death may come anywhere.  The spool stays on
\* disk, and a request that the core's server has in hand stays there.
CollectorEnds ==
  /\ coll = "loop" \/ (coll # "down" /\ "collector" \in Deaths)
  /\ coll' = "down" /\ fault' = 0
  /\ worker' = "idle" /\ sent' = <<>>
  /\ UNCHANGED <<files, coreVars, run, seq, spool, wire, history>>

-----------------------------------------------------------------------------
(* The delivery worker.                                                    *)

\* It takes the front, unless a reset or a fault is pending ...
Take ==
  /\ coll # "down" /\ worker = "idle" /\ spool # <<>>
  /\ ~ResetActive /\ fault = 0
  /\ worker' = "sending" /\ sent' = <<Head(spool)>>
  /\ UNCHANGED <<files, coreVars, collVars, wire, history>>

\* ... and connects to the core's only server ...
Connect ==
  /\ worker = "sending" /\ core /\ wire = <<>>
  /\ worker' = "waiting" /\ wire' = sent
  /\ UNCHANGED <<files, coreVars, collVars, sent, history>>

\* ... or fails to, within five seconds.
ConnectFails ==
  /\ worker = "sending"
  /\ worker' = "idle" /\ sent' = <<>>
  /\ UNCHANGED <<files, coreVars, collVars, wire, history>>

\* pop_if_matches
Pop ==
  /\ worker = "acked"
  /\ spool' = IF spool # <<>> /\ Head(spool) = Head(sent) THEN Tail(spool) ELSE spool
  /\ worker' = "idle" /\ sent' = <<>>
  /\ UNCHANGED <<files, coreVars, coll, run, seq, fault, wire, history>>

ReportRejected ==
  /\ worker = "refused"
  /\ fault' = Head(sent).run
  /\ worker' = "idle" /\ sent' = <<>>
  /\ UNCHANGED <<files, coreVars, coll, run, seq, spool, wire, history>>

Worker == Take \/ Connect \/ ConnectFails \/ Pop \/ ReportRejected

-----------------------------------------------------------------------------
Next ==
  \/ StartCore \/ CoreDies \/ RequestClear \/ ClearThread \/ Serve
  \/ StartCollector \/ Observe \/ RepairRejected \/ ResetLoop \/ CollectorEnds
  \/ Worker

Spec == Init /\ [][Next]_vars

\* The threads go on while their process lives.  Neither process has to start, and
\* nobody has to ask for a clear.
Fairness == WF_vars(ClearThread) /\ WF_vars(ResetLoop)
FairSpec == Spec /\ Fairness

-----------------------------------------------------------------------------
(* Properties.                                                             *)

\* The type invariant.
TypeOK ==
  /\ request \in BOOLEAN /\ paused \in BOOLEAN /\ core \in BOOLEAN
  /\ clear \in {"none", "requested", "unanswered", "clearing", "cleared", "resuming",
                "alone", "deleting"}
  /\ report \in {"none", "cleared", "failed", "preserved", "unresumed"}
  /\ coll \in {"down", "starting", "loop", "asked", "wait", "rotate", "renew", "resume"}
  /\ run \in Nat /\ seq \in Nat \ {0} /\ fault \in Nat
  /\ worker \in {"idle", "sending", "waiting", "acked", "refused"}
  /\ log \in Seq(Batch) /\ spool \in Seq(Batch) /\ sent \in Seq(Batch) /\ wire \in Seq(Batch)
  /\ era \in Nat /\ asked \in Nat

\* A request file outlives the thread that wrote it only while no core runs: a
\* collector never waits for a core that has forgotten it asked.
RequestOwned == request /\ core => clear \in {"requested", "unanswered", "clearing", "cleared"}


\* ... and is not in the database.
ClearedStaysCleared == \A b \in Range(log) : b.era = era

\* Of what was observed before a clear only a single batch, the first of its run, can
\* come back.
OneLeftover ==
  LET old == {i \in DOMAIN log : log[i].era # era}
  IN  Cardinality(old) <= 1 /\ \A i \in old : log[i].first = 1

\* A pause ends, unless the collector has ended: no order of requests, answers and
\* restarts leaves the file behind, which would hold up delivery for good.
PauseEnds == paused ~> (~paused \/ coll = "down")
=============================================================================
