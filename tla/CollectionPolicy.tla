---------------------------- MODULE CollectionPolicy ----------------------------
(***************************************************************************)
(* From the switch the user turns to what the collector records.  The app  *)
(* (pause.rs, collection_ui.rs) hands a change to a worker, storage        *)
(* (collection.rs) publishes it as a file and commits it, the collector    *)
(* (collection.rs) rereads the file when its stamp changes and filters     *)
(* what it tells the core.  A pause with a length ends by itself.          *)
(***************************************************************************)
EXTENDS Integers, FiniteSets

CONSTANTS
    Application,  \* applications
    Entry,        \* windows and tray entries
    AppOf,        \* the application of each
    Pause,        \* the lengths of a pause
    Retry,        \* RETRY_MS
    Nil,
    MaxClock,     \* bound on the clock
    MaxTurn       \* bound on what the user, the desktop and the faults do

ASSUME CollectionPolicyAssumption ==
    /\ AppOf \in [Entry -> Application]
    /\ Pause \subseteq Nat \ {0} /\ Retry \in Nat \ {0}
    /\ {MaxClock, MaxTurn} \subseteq Nat

\* What the switches show, and the change that a worker carries, when there is one
Switches == [paused : BOOLEAN, busy : BOOLEAN, until : Nat \union {Nil}]
Job == [change : [paused : BOOLEAN] \union [excluded : SUBSET Application],
        stage : {"asked", "published", "failed", "done"}]

ASSUME NilAssumption == Nil \notin Nat \union Switches \union Job

VARIABLES
    clock,
    ui,            \* CollectionState paused and busy, and install's `until`; Nil when the app is down
    deadlineFile,  \* pause-until.txt
    job,           \* the worker thread of an action
    database,      \* collection_policy
    policyFile,    \* the policy file, with a stamp for its time and length
    filter,        \* the collector's Filter: policy, modified, policy_changed, session, blocked, raw_windows, windows
    loop,          \* where the collection loop is
    raw,           \* what the observer sees: Entry to its state, or Nil
    told,          \* history: what the transitions told so far leave open
    timed,         \* history: the pause last asked for has a length
    stale,         \* history: the switch or the file not brought up to date, a deadline lost for that
    turns

app == <<ui, deadlineFile, job>>
pvars == <<clock, app, database, policyFile, filter, loop, raw, told, timed, stale, turns>>

Turn == turns < MaxTurn /\ turns' = turns + 1

Policy == [paused : BOOLEAN, excluded : SUBSET Application]
Default == [paused |-> FALSE, excluded |-> {}]
Unreadable == [paused |-> TRUE, excluded |-> {}]

(***************************************************************************)
(* The app                                                                 *)
(***************************************************************************)

Up == ui # Nil

\* on_action: the change is handed to a worker.
Ask(paused, until, change) ==
    /\ ui' = [paused |-> paused, busy |-> TRUE, until |-> until]
    /\ job' = [change |-> change, stage |-> "asked"]

\* on_pause_for, with the length of the pause or Nil for one that lasts until resumed
PauseFor(length) ==
    /\ Turn /\ Up /\ ~ui.busy
    /\ LET until == IF length = Nil THEN Nil ELSE clock + length
       IN  /\ Ask(TRUE, until, [paused |-> TRUE])
           /\ deadlineFile' = until
           /\ timed' = (until # Nil)
    /\ stale' = [stale EXCEPT !.deadline = FALSE]
    /\ UNCHANGED <<clock, database, policyFile, filter, loop, raw, told>>

\* The switch: a pause that lasts until resumed, or the end of one
Switch ==
    /\ Turn /\ Up /\ ~ui.busy
    /\ Ask(~ui.paused, ui.until, [paused |-> ~ui.paused])
    /\ timed' = (timed /\ ui.paused)
    /\ UNCHANGED <<clock, deadlineFile, database, policyFile, filter, loop, raw, told, stale>>

\* The rule of an application, as it is on the switches
Rule(excluded) ==
    /\ Turn /\ Up /\ ~ui.busy
    /\ Ask(ui.paused, ui.until, [excluded |-> excluded])
    /\ UNCHANGED <<clock, deadlineFile, database, policyFile, filter, loop, raw, told, timed, stale>>

\* Each second, while the pause has an end: a pause that is over, it seems, is
\* forgotten, one that is due is ended.  Its end is kept in case that fails.
PauseTick ==
    /\ Up /\ ui.until # Nil /\ ~ui.busy
    /\ IF ~ui.paused
       THEN /\ ui' = [ui EXCEPT !.until = Nil] /\ deadlineFile' = Nil /\ UNCHANGED job
            /\ stale' = [stale EXCEPT !.deadline = stale.switch]
       ELSE ui.until <= clock /\ Ask(FALSE, clock + Retry, [paused |-> FALSE]) /\ UNCHANGED <<deadlineFile, stale>>
    /\ UNCHANGED <<clock, database, policyFile, filter, loop, raw, told, timed, turns>>

Changed(change) ==
    IF "paused" \in DOMAIN change THEN [database EXCEPT !.paused = change.paused]
                                  ELSE [database EXCEPT !.excluded = change.excluded]

\* As Published, by a bug: the file's stamp may stay what it was.
PublishedUnnoticed(policy) == policyFile' = [policyFile EXCEPT !.policy = policy]
Published(policy) == policyFile' = [policy |-> policy, stamp |-> policyFile.stamp + 1]
Stage(s) == job' = [job EXCEPT !.stage = s]

\* set_collection_policy publishes the file before the database has the change,
Publish ==
    /\ job # Nil /\ job.stage = "asked"
    /\ \/ Published(Changed(job.change)) /\ Stage("published") /\ UNCHANGED turns
       \/ Stage("failed") /\ UNCHANGED policyFile /\ Turn
    /\ UNCHANGED <<clock, ui, deadlineFile, database, filter, loop, raw, told, timed, stale>>

\* and takes it back when the database refuses it.
Commit ==
    /\ job # Nil /\ job.stage = "published"
    /\ \/ database' = Changed(job.change) /\ Stage("done") /\ UNCHANGED <<policyFile, stale, turns>>
       \/ /\ Turn /\ Stage("failed") /\ UNCHANGED database
          /\ \/ Published(database) /\ UNCHANGED stale
             \/ stale' = [stale EXCEPT !.policyFile = TRUE] /\ UNCHANGED policyFile
    /\ UNCHANGED <<clock, ui, deadlineFile, filter, loop, raw, told, timed>>

\* on_updates_ready shows what is saved, if storage is not busy just then.
UpdatesReady ==
    /\ job # Nil /\ job.stage \in {"done", "failed"}
    /\ job' = Nil
    /\ \/ /\ ui' = [ui EXCEPT !.busy = FALSE, !.paused = database.paused]
          /\ stale' = [stale EXCEPT !.switch = FALSE] /\ UNCHANGED turns
       \/ /\ Turn /\ ui' = [ui EXCEPT !.busy = FALSE]
          /\ stale' = [stale EXCEPT !.switch = TRUE]
    /\ UNCHANGED <<clock, deadlineFile, database, policyFile, filter, loop, raw, told, timed>>

AppDies ==
    /\ Up /\ Turn
    /\ ui' = Nil /\ job' = Nil
    /\ UNCHANGED <<clock, deadlineFile, database, policyFile, filter, loop, raw, told, timed, stale>>

\* The app starts: storage publishes the policy it has, the switch shows it, and the
\* end of the pause is read back.
StartApp ==
    /\ ~Up
    /\ Published(database)
    /\ ui' = [paused |-> database.paused, busy |-> FALSE, until |-> deadlineFile]
    /\ stale' = [stale EXCEPT !.switch = FALSE, !.policyFile = FALSE]
    /\ UNCHANGED <<clock, deadlineFile, job, database, filter, loop, raw, told, timed, turns>>

(***************************************************************************)
(* The collector                                                           *)
(***************************************************************************)

\* Filter::new, in a collector that starts or a run that begins
NewFilter(policy, session) ==
    [policy |-> policy, modified |-> 0, changed |-> TRUE, session |-> session,
     blocked |-> FALSE, seen |-> Nil, windows |-> [w \in Entry |-> Nil]]

\* Filter::refresh: the session and the stamp, at most once a second; then the file, if
\* the stamp is another.  A file that cannot be read means a pause, until it changes.
Stat(session) ==
    /\ loop = "waiting"
    /\ IF session # filter.session THEN Turn ELSE UNCHANGED turns
    /\ filter' = [filter EXCEPT !.session = session, !.modified = policyFile.stamp]
    /\ loop' = IF filter.modified = policyFile.stamp THEN "looked" ELSE "loading"
    /\ UNCHANGED <<clock, app, database, policyFile, raw, told, timed, stale>>

NotDue ==
    /\ loop = "waiting"
    /\ loop' = "looked"
    /\ UNCHANGED <<clock, app, database, policyFile, filter, raw, told, timed, stale, turns>>

Load ==
    /\ loop = "loading"
    /\ \/ filter' = [filter EXCEPT !.policy = policyFile.policy, !.changed = @ \/ policyFile.policy # filter.policy]
          /\ UNCHANGED turns
       \/ filter' = [filter EXCEPT !.policy = Unreadable, !.changed = @ \/ Unreadable # filter.policy]
          /\ Turn
    /\ loop' = "looked"
    /\ UNCHANGED <<clock, app, database, policyFile, raw, told, timed, stale>>

Allowed(windows, policy, blocked) ==
    [w \in Entry |-> IF blocked \/ AppOf[w] \in policy.excluded THEN Nil ELSE windows[w]]

\* As HasToLook, by a bug: a change of the policy alone is no reason.
LooksAtWindows(again) == filter.seen # raw \/ again
HasToLook(again) == filter.changed \/ filter.seen # raw \/ again

\* Filter::reconcile, and what the core makes of its transitions: each closes or opens
\* one window or tray entry.  After a sleep, or a jump of the clock (`cut`), everything
\* is closed and opened again.
Reconcile(cut) ==
    /\ loop = "looked"
    /\ IF cut THEN Turn ELSE UNCHANGED turns
    /\ LET blocked == filter.policy.paused \/ filter.session
           again == cut \/ blocked # filter.blocked
           look == HasToLook(again)
           windows == IF look THEN Allowed(raw, filter.policy, blocked) ELSE filter.windows
           closed == {w \in Entry : look /\ filter.windows[w] # Nil /\ (cut \/ windows[w] = Nil)}
           opened == {w \in Entry : look /\ windows[w] # Nil /\ (cut \/ windows[w] # filter.windows[w])}
       IN  /\ filter' = [filter EXCEPT !.blocked = blocked, !.seen = raw, !.changed = FALSE, !.windows = windows]
           /\ told' = [w \in Entry |-> IF w \in opened THEN windows[w] ELSE IF w \in closed THEN Nil ELSE told[w]]
    /\ loop' = "waiting"
    /\ UNCHANGED <<clock, app, database, policyFile, raw, timed, stale>>

\* The collector, or its run, is replaced: the core closes what the old one left open.
\* A clock set back replaces the run alone, between the look and the reconciling.
FilterAnew(session) ==
    /\ Turn /\ loop \in {"waiting", "looked"}
    /\ \/ filter' = NewFilter(policyFile.policy, session)
       \/ filter' = NewFilter(Unreadable, session)
    /\ told' = [w \in Entry |-> Nil]
    /\ loop' = "looked"
    /\ UNCHANGED <<clock, app, database, policyFile, raw, timed, stale>>

\* A window or a tray entry appears, changes or goes.
DesktopChanges(w, s) ==
    /\ Turn /\ s # raw[w]
    /\ raw' = [raw EXCEPT ![w] = s]
    /\ UNCHANGED <<clock, app, database, policyFile, filter, loop, told, timed, stale>>

PolicyTick ==
    /\ clock < MaxClock
    /\ clock' = clock + 1
    /\ UNCHANGED <<app, database, policyFile, filter, loop, raw, told, timed, stale, turns>>

PolicyInit ==
    /\ clock = 0
    /\ ui = [paused |-> FALSE, busy |-> FALSE, until |-> Nil] /\ deadlineFile = Nil /\ job = Nil
    /\ database = Default
    /\ policyFile = [policy |-> Default, stamp |-> 1]
    /\ filter = NewFilter(Default, FALSE) /\ loop = "looked"
    /\ raw \in [Entry -> {Nil, "shown"}]
    /\ told = [w \in Entry |-> Nil]
    /\ timed = FALSE /\ stale = [switch |-> FALSE, policyFile |-> FALSE, deadline |-> FALSE] /\ turns = 0

PolicyNext ==
    \/ \E length \in Pause \union {Nil} : PauseFor(length)
    \/ Switch
    \/ \E excluded \in SUBSET Application : Rule(excluded)
    \/ PauseTick \/ Publish \/ Commit \/ UpdatesReady \/ AppDies \/ StartApp
    \/ \E session \in BOOLEAN : Stat(session) \/ FilterAnew(session)
    \/ NotDue \/ Load
    \/ \E cut \in BOOLEAN : Reconcile(cut)
    \/ \E w \in Entry, s \in {Nil, "shown", "focused"} : DesktopChanges(w, s)
    \/ PolicyTick

PolicySpec == PolicyInit /\ [][PolicyNext]_pvars

(***************************************************************************)
(* Properties                                                              *)
(***************************************************************************)

PolicyTypeOK ==
    /\ clock \in 0 .. MaxClock
    /\ Up => /\ DOMAIN ui = {"paused", "busy", "until"}
             /\ ui.busy <=> job # Nil
    /\ ~Up => job = Nil
    /\ database \in Policy /\ policyFile.policy \in Policy /\ filter.policy \in Policy
    /\ filter.modified <= policyFile.stamp
    /\ loop \in {"waiting", "loading", "looked"}

\* What the core believes open is what the desktop shows, without the applications the
\* collector's policy excludes, and nothing while recording is paused or the session
\* is locked: after every turn of the loop, whichever of the policy, the session and
\* the desktop changed between two turns, and in which order.
ToldIsFiltered ==
    loop = "waiting" => told = Allowed(filter.seen, filter.policy, filter.policy.paused \/ filter.session)

\* A change reaches the collector: when it has seen the file's stamp, it works with the
\* file's policy or, if it could not read it, collects nothing, however the reading
\* and the publishing interleave; and when nothing is under way, the file says what the
\* database says, and so does the switch.
PolicyArrives ==
    /\ loop # "loading" /\ filter.modified = policyFile.stamp => filter.policy \in {policyFile.policy, Unreadable}
    /\ Up /\ job = Nil => /\ stale.policyFile \/ policyFile.policy = database
                          /\ stale.switch \/ ui.paused = database.paused

\* A pause with a length is never left without its end, across crashes and failed
\* attempts to end it, as long as the switch shows what is saved.
TimedPauseIsKept ==
    timed /\ database.paused /\ job = Nil /\ ~stale.deadline =>
        /\ Up => ui.until # Nil
        /\ deadlineFile # Nil

\* pause.rs:124: the deadline is kept until the resume is seen to succeed.  It is not, if
\* the resume fails while storage is busy: the switch then still shows what was asked
\* for, and the next tick takes the pause for one that was ended by hand.
DeadlineIsKept ==
    timed /\ database.paused /\ Up /\ job = Nil => ui.until # Nil
=============================================================================
