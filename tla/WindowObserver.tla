---------------------------- MODULE WindowObserver ----------------------------
(***************************************************************************)
(* Which windows are open, shown and focused, as timelens-observer         *)
(* (lib.rs) follows them: Windows posts events about windows that may be   *)
(* gone, changed again or replaced when the collection loop looks; some    *)
(* changes post none; the queue overflows; a full look repairs the rest.   *)
(***************************************************************************)
EXTENDS Integers, Sequences, FiniteSets
LOCAL INSTANCE SequencesExt

CONSTANTS
    Handle,     \* window handles, which Windows hands out again
    Process,    \* processes, numbered by their creation time
    PidOf,      \* the process id of each, which Windows hands out again
    Parent,     \* the process that started it, or Absent
    FactsOf,    \* what can be read of it: folder, path, AUMID, package
    Look,       \* the states a top-level window is in
    Absent,
    MaxEvents,  \* 2048: the events that may wait
    MaxHappen   \* bound on what happens on the desktop

Looks == [structural : BOOLEAN, visible : BOOLEAN, minimized : BOOLEAN,
          cloaked : {"no", "app", "shell"}, here : BOOLEAN, placed : BOOLEAN]

\* A process starts while its parent runs, whose id is nobody else's then.
ASSUME WindowObserverAssumption ==
    /\ Process \subseteq Nat /\ PidOf \in [Process -> Nat]
    /\ Parent \in [Process -> Process \union {Absent}]
    /\ \A p \in Process : Parent[p] # Absent =>
          /\ Parent[p] < p
          /\ \A q \in Process : Parent[p] < q /\ q <= p => PidOf[q] # PidOf[Parent[p]]
    /\ MaxEvents \in Nat \ {0} /\ MaxHappen \in Nat
    /\ Look \subseteq Looks

Events == [handle : Handle, kind : {"changed", "foreground", "destroyed"}]
Queues == [events : Seq(Events), full : BOOLEAN]
Windows == [process : Process, look : Looks]

VARIABLES
    window,        \* the real windows: process and look, or Absent
    foreground,    \* the real foreground window
    running,       \* the processes alive
    newest,        \* the process started last
    pending,       \* WINDOW_EVENTS: the events that wait and the call for a full look
    taken,         \* those the loop has taken and not applied yet, or Absent
    tracked,       \* WindowObserver::tracked: the last observation, or Absent
    current,       \* WindowObserver::current: the snapshot the collector works with
    processCache,  \* WindowObserver::process_cache: by process id, what was read of which process
    tray,          \* WindowObserver::tray_candidates: processes
    opened,        \* history: what the transitions told so far leave open
    wrong,         \* history: a transition that does not follow from the ones before
    quiet,         \* history: the windows changed without an event since they were last observed
    happened       \* how much happened on the desktop

desktop == <<window, foreground, running, newest, happened>>
observer == <<tracked, current, processCache, tray, opened, wrong>>
ovars == <<desktop, pending, taken, observer, quiet>>

(***************************************************************************)
(* Windows                                                                 *)
(***************************************************************************)

\* As Push, by a bug: what finds no room is lost without a full look.
PushOrDrop(p, e) ==
    IF Len(p.events) >= MaxEvents THEN p ELSE [p EXCEPT !.events = Append(@, e)]

\* WindowEvents::push: a queue without room is given up for a full look.
Push(p, e) ==
    IF Len(p.events) >= MaxEvents THEN [events |-> <<>>, full |-> TRUE]
    ELSE IF p.full THEN p ELSE [p EXCEPT !.events = Append(@, e)]

Happen == happened < MaxHappen /\ happened' = happened + 1
Posted(h, kind) == pending' = Push(pending, [handle |-> h, kind |-> kind])

Appear(h, p, l) ==
    /\ Happen /\ window[h] = Absent /\ p \in running
    /\ window' = [window EXCEPT ![h] = [process |-> p, look |-> l]]
    /\ Posted(h, "changed")
    /\ UNCHANGED <<foreground, running, newest, taken, observer, quiet>>

\* Shown, hidden, minimized, restored, cloaked, or sent to another virtual desktop
Change(h, l) ==
    /\ Happen /\ window[h] # Absent /\ window[h].look # l
    /\ l.structural = window[h].look.structural
    /\ window' = [window EXCEPT ![h].look = l]
    /\ Posted(h, "changed")
    /\ UNCHANGED <<foreground, running, newest, taken, observer, quiet>>

\* Moved off every display, or back, by its program: no event
Move(h) ==
    /\ Happen /\ window[h] # Absent
    /\ window' = [window EXCEPT ![h].look.placed = ~@]
    /\ quiet' = quiet \union {h}
    /\ UNCHANGED <<foreground, running, newest, pending, taken, observer>>

Focus(h) ==
    /\ Happen /\ window[h] # Absent /\ foreground # h
    /\ foreground' = h
    /\ Posted(h, "foreground")
    /\ UNCHANGED <<window, running, newest, taken, observer, quiet>>

Destroy(h) ==
    /\ Happen /\ window[h] # Absent
    /\ window' = [window EXCEPT ![h] = Absent]
    /\ foreground' = IF foreground = h THEN Absent ELSE foreground
    /\ Posted(h, "destroyed")
    /\ UNCHANGED <<running, newest, taken, observer, quiet>>

\* A process ends; its id may go to the next one.
Exit(p) ==
    /\ Happen /\ p \in running /\ \A h \in Handle : window[h] # Absent => window[h].process # p
    /\ running' = running \ {p}
    /\ UNCHANGED <<window, foreground, newest, pending, taken, observer, quiet>>

Start(p) ==
    /\ Happen /\ p > newest /\ \A q \in running : PidOf[q] # PidOf[p]
    /\ Parent[p] \in running \union {Absent}
    /\ running' = running \union {p} /\ newest' = p
    /\ UNCHANGED <<window, foreground, pending, taken, observer, quiet>>

\* The secure desktop comes or goes.
DesktopSwitch ==
    /\ Happen
    /\ pending' = [pending EXCEPT !.full = TRUE]
    /\ UNCHANGED <<window, foreground, running, newest, taken, observer, quiet>>

(***************************************************************************)
(* What the observer sees of a window                                      *)
(***************************************************************************)

Cloaked(l) == l.cloaked # "no"

OnTaskbar(l, focused) ==
    /\ l.structural /\ l.visible
    /\ ~Cloaked(l) \/ l.cloaked = "app" \/ ~l.here \/ focused

Onboards(l, focused) ==
    /\ OnTaskbar(l, focused) /\ l.placed
    /\ ~Cloaked(l) \/ ~l.here \/ focused

Displayed(l) == l.structural /\ l.visible /\ ~l.minimized /\ ~Cloaked(l) /\ l.placed /\ l.here

\* A process younger than its child only took over the id of the parent.
ParentNow(p) ==
    LET found == {q \in running : Parent[p] # Absent /\ PidOf[q] = PidOf[Parent[p]] /\ q <= p}
    IN  IF found = {} THEN Absent ELSE CHOOSE q \in found : TRUE

\* p, its parent, and so on for four processes up
Climb(parent, p) ==
    LET up[n \in 0 .. 4] == IF n = 0 THEN p
                           ELSE IF up[n - 1] = Absent THEN Absent ELSE parent[up[n - 1]]
    IN  up

\* helper_launcher: up past copies of the helper to the program that runs from the folder
\* the helper is installed in
Launcher(p) ==
    LET up == Climb([q \in Process |-> ParentNow(q)], p)
        copy(n) == up[n] # Absent /\ FactsOf[up[n]].path = FactsOf[p].path
        ends == {n \in 1 .. 4 : ~copy(n) /\ \A m \in 1 .. n - 1 : copy(m)}
        first == CHOOSE n \in ends : TRUE
    IN  IF ends # {} /\ up[first] # Absent /\ FactsOf[up[first]].folder = FactsOf[p].folder
        THEN up[first] ELSE Absent

\* process_info: of a helper, what is known of its launcher
Read(p) == IF FactsOf[p].path = "helper" /\ Launcher(p) # Absent THEN FactsOf[Launcher(p)] ELSE FactsOf[p]

\* cached_process_info: what was read of a process holds as long as it lives.
ProcessInfo(cache, p) == IF cache[PidOf[p]].of = p THEN cache[PidOf[p]] ELSE [of |-> p, facts |-> Read(p)]

\* resolve_identity
Identity(f) ==
    IF f.path \in {"installer", "system"} THEN Absent
    ELSE IF f.aumid # Absent THEN <<"aumid", f.aumid>>
    ELSE IF f.package # Absent THEN <<"package", f.package>>
    ELSE IF f.path \in {Absent, "host"} THEN Absent
    ELSE <<"path", f.folder, f.path>>

Observations ==
    [process : Process, identity : {Identity(FactsOf[p]) : p \in Process},
     displayed : BOOLEAN, focused : BOOLEAN, here : BOOLEAN]

\* Absent is none of what it stands for the lack of.
ASSUME AbsentAssumption ==
    /\ Absent \notin Handle /\ Absent \notin Process /\ Absent \notin Windows
    /\ Absent \notin Queues /\ Absent \notin Observations

(***************************************************************************)
(* Observing                                                               *)
(***************************************************************************)

NotRead == [of |-> Absent, facts |-> Absent]
NoCache == [i \in {PidOf[p] : p \in Process} |-> NotRead]

\* TrackedWindow::observation
Observation(h, p, identity) ==
    LET l == window[h].look
    IN  [process |-> p, identity |-> identity, displayed |-> Displayed(l),
         focused |-> foreground = h /\ ~l.minimized, here |-> l.here]

\* One window, in observe_handles: what it is tracked as afterwards
Tracked(old, cache, h) ==
    IF window[h] = Absent \/ ~OnTaskbar(window[h].look, foreground = h) THEN Absent
    ELSE LET info == ProcessInfo(cache, window[h].process)
         IN  IF old # Absent /\ old.process = info.of THEN Observation(h, old.process, old.identity)
             ELSE IF Onboards(window[h].look, foreground = h) /\ Identity(info.facts) # Absent
             THEN Observation(h, info.of, Identity(info.facts))
             ELSE Absent

\* As Transitions, by a bug: the handle stands for the window.
TransitionsByHandle(h, old, new) ==
    LET transition(k, o) == [kind |-> k, handle |-> h, of |-> o]
    IN  CASE old = new -> <<>>
          [] old = Absent /\ new # Absent -> <<transition("opened", new)>>
          [] old # Absent /\ new = Absent -> <<transition("closed", old)>>
          [] OTHER -> <<transition("updated", new)>>

\* The transitions of a window that was tracked as `old` and now is as `new`: the old
\* one closes when the process behind the handle is another one.
Transitions(h, old, new) ==
    LET transition(k, o) == [kind |-> k, handle |-> h, of |-> o]
    IN  CASE old = new -> <<>>
          [] old = Absent /\ new # Absent -> <<transition("opened", new)>>
          [] old # Absent /\ new = Absent -> <<transition("closed", old)>>
          [] OTHER -> IF old.process = new.process THEN <<transition("updated", new)>>
                      ELSE <<transition("closed", old), transition("opened", new)>>

\* What the reader of the transitions believes, and whether they make sense to it
Follows(o, t) ==
    CASE t.kind = "opened"  -> o[t.handle] = Absent
      [] t.kind = "updated" -> o[t.handle] # Absent /\ o[t.handle].process = t.of.process
      [] t.kind = "closed"  -> o[t.handle] = t.of
AfterTransition(o, t) == [o EXCEPT ![t.handle] = IF t.kind = "closed" THEN Absent ELSE t.of]
AfterAll(o, ts) == FoldLeft(AfterTransition, o, ts)
AllFollow(o, ts) == \A i \in DOMAIN ts : Follows(AfterAll(o, SubSeq(ts, 1, i - 1)), ts[i])

\* update_tray_candidates: a process leaves the tray with a window of its own or its end.
InTray(shown) == {p \in tray : p \in running /\ \A h \in Handle : shown[h] # Absent => shown[h].process # p}

\* `closed`: the windows closed for their destroy events, before the look at `seen`
Observe(closed, seen, full) ==
  \E cache \in {IF full THEN NoCache ELSE processCache},
     before \in {[h \in Handle |-> IF h \in closed THEN Absent ELSE tracked[h]]} :
  \E after \in {[h \in Handle |-> IF h \in seen THEN Tracked(before[h], cache, h) ELSE before[h]]} :
  \E changes \in {[h \in Handle |-> Transitions(h, tracked[h], before[h]) \o Transitions(h, before[h], after[h])]} :
    LET read == {window[h].process : h \in {g \in seen : window[g] # Absent
                    /\ OnTaskbar(window[g].look, foreground = g)
                    /\ (Onboards(window[g].look, foreground = g) \/ before[g] # Absent)}}
        used == {after[h].process : h \in {g \in Handle : after[g] # Absent}}
    IN  /\ tracked' = after
        /\ current' = IF \A h \in Handle : changes[h] = <<>> THEN current ELSE after
        /\ opened' = [h \in Handle |-> AfterAll(opened, changes[h])[h]]
        /\ wrong' = (wrong \/ \E h \in Handle : ~AllFollow(opened, changes[h]))
        /\ tray' = InTray(current')
        /\ processCache' =
            [i \in DOMAIN cache |->
                LET latest == {p \in read : PidOf[p] = i}
                IN  IF full /\ i \notin {PidOf[p] : p \in used \union tray'} THEN NotRead
                    ELSE IF latest = {} THEN cache[i] ELSE ProcessInfo(cache, CHOOSE p \in latest : TRUE)]
        /\ quiet' = quiet \ seen
        /\ UNCHANGED desktop

Take ==
    /\ taken = Absent
    /\ taken' = pending
    /\ pending' = [events |-> <<>>, full |-> FALSE]
    /\ UNCHANGED <<desktop, observer, quiet>>

\* reconcile_transitions
ObserveAll ==
    /\ taken # Absent
    /\ taken' = Absent
    /\ Observe({}, Handle, TRUE)
    /\ UNCHANGED pending

\* apply_window_events: the windows of the events, and both ends of a change of focus
ObserveSome ==
    /\ taken # Absent /\ ~taken.full /\ taken.events # <<>>
    /\ LET events == {taken.events[i] : i \in DOMAIN taken.events}
           closed == {e.handle : e \in {d \in events : d.kind = "destroyed"}}
           open == {h \in Handle \ closed : tracked[h] # Absent}
           named == {h \in {e.handle : e \in events} : h \in open \/ window[h] # Absent}
           focused == {h \in open : tracked[h].focused}
       IN  Observe(closed, named \union focused \union ({foreground} \ {Absent}), FALSE)
    /\ taken' = Absent
    /\ UNCHANGED pending

ObserveNothing ==
    /\ taken # Absent /\ ~taken.full /\ taken.events = <<>>
    /\ taken' = Absent
    /\ UNCHANGED <<desktop, pending, observer, quiet>>

\* The collector starts with what its predecessor had in the tray.
ObserverInit ==
    /\ window = [h \in Handle |-> Absent] /\ foreground = Absent
    /\ newest \in Process
    /\ running = {p \in Process : p <= newest /\ \A q \in Process : q <= newest /\ PidOf[q] = PidOf[p] => q <= p}
    /\ tray \in {{}, {newest}}
    /\ pending = [events |-> <<>>, full |-> FALSE] /\ taken = Absent
    /\ tracked = [h \in Handle |-> Absent] /\ current = tracked /\ opened = tracked
    /\ processCache = NoCache
    /\ wrong = FALSE /\ quiet = {} /\ happened = 0

ObserverNext ==
    \/ \E h \in Handle, p \in Process, l \in Look : Appear(h, p, l)
    \/ \E h \in Handle, l \in Look : Change(h, l)
    \/ \E h \in Handle : Move(h) \/ Focus(h) \/ Destroy(h)
    \/ \E p \in Process : Exit(p) \/ Start(p)
    \/ DesktopSwitch
    \/ Take \/ ObserveAll \/ ObserveSome \/ ObserveNothing

ObserverSpec == ObserverInit /\ [][ObserverNext]_ovars

(***************************************************************************)
(* Properties                                                              *)
(***************************************************************************)

Idle == pending = [events |-> <<>>, full |-> FALSE] /\ taken = Absent

\* What a window of process p may be counted as: what its own process is, or for a helper
\* that of a process that led to it, whatever took over the process ids of either since
Origins(p) == {Climb(Parent, p)[n] : n \in 0 .. 4} \ {Absent}
IdentitiesOf(p) ==
    {Identity(FactsOf[q]) : q \in IF FactsOf[p].path = "helper" THEN Origins(p) ELSE {p}}

\* A minimized window that the shell cloaks here has a button only while it has the
\* focus, and it was not observed as focused: its loss makes nobody look at it.
HalfHidden(l) == l.minimized /\ l.cloaked = "shell" /\ l.here

\* A window is seen as it is when it is tracked as t.
Right(h, t) ==
    LET w == window[h]
    IN  IF t = Absent
        THEN w = Absent \/ ~Onboards(w.look, foreground = h) \/ Absent \in IdentitiesOf(w.process)
        ELSE /\ w # Absent /\ t = Observation(h, w.process, t.identity)
             /\ t.identity \in IdentitiesOf(w.process)
             /\ OnTaskbar(w.look, foreground = h) \/ HalfHidden(w.look)

\* Once every event is applied, the observer's picture is the desktop's: a tracked
\* window exists, has its button and is as observed, of the very process that was
\* seen and under an identity of its own; and an identified window on screen is
\* tracked.  Only a window its program moved and the button of a half hidden one wait
\* for the full look.  Events that were lost to the limit, that were about a handle
\* already handed out again, or that came after a look that was ahead of them, make no
\* difference.
SeesTheDesktop == Idle => \A h \in Handle \ quiet : Right(h, tracked[h])

\* The transitions alone say what is open: each follows from those before it, and
\* together they make up the snapshot the collector compares with.
TransitionsTellAll ==
    /\ ~wrong
    /\ current = tracked /\ opened = tracked
=============================================================================
