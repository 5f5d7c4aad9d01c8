--------------------------- MODULE RecordingProofs ---------------------------
(***************************************************************************)
(* Theorems about CollectionPolicy, SnapshotSchedule and InputCounts: what  *)
(* may be recorded, when a picture is taken and whose input is counted, for *)
(* all applications, windows, rules, lengths of a pause or a minute,        *)
(* intervals, gaps and bounds.                                              *)
(***************************************************************************)
EXTENDS CollectionPolicy, SnapshotSchedule, InputCounts, FiniteSetTheorems, TLAPS

-----------------------------------------------------------------------------
(* CollectionPolicy. *)

\* What the observer sees of an entry, and all of the filter
State == {Nil, "shown", "focused"}
Filter ==
    [policy : Policy, modified : Nat, changed : BOOLEAN, session : BOOLEAN, blocked : BOOLEAN,
     seen : {Nil} \union [Entry -> State], windows : [Entry -> State]]

(* The types, and how the worker's thread and the switches hang together.  *)
Types ==
    /\ PolicyTypeOK
    /\ ui \in {Nil} \union Switches
    /\ deadlineFile \in {Nil} \union Nat
    /\ job \in {Nil} \union Job
    /\ policyFile \in [policy : Policy, stamp : Nat]
    /\ filter \in Filter
    /\ raw \in [Entry -> State] /\ told \in [Entry -> State]
    /\ timed \in BOOLEAN
    /\ stale \in [switch : BOOLEAN, policyFile : BOOLEAN, deadline : BOOLEAN]

\* The policies that a change can make of another are policies.
LEMMA ChangedType ==
    ASSUME database \in Policy, NEW j \in Job
    PROVE  Changed(j.change) \in Policy
<1>1. CASE j.change \in [paused : BOOLEAN]
  BY <1>1 DEF Changed, Policy
<1>2. CASE j.change \in [excluded : SUBSET Application]
  BY <1>2 DEF Changed, Policy
<1>. QED
  BY <1>1, <1>2 DEF Job

\* The policies the code has without a file, and without one it can read.
LEMMA Policies == Default \in Policy /\ Unreadable \in Policy
BY DEF Default, Unreadable, Policy

\* Initially the types are right.
LEMMA InitTypes == PolicyInit => Types
<1>. SUFFICES ASSUME PolicyInit PROVE Types
  OBVIOUS
<1>1. filter \in Filter
  BY Policies DEF PolicyInit, NewFilter, Filter, State
<1>2. ui \in Switches /\ ui # Nil
  <2>1. ui \in Switches
    BY DEF PolicyInit, Switches
  <2>. QED
    BY <2>1, NilAssumption
<1>3. PolicyTypeOK
  BY <1>1, <1>2, Policies, CollectionPolicyAssumption
  DEF PolicyInit, PolicyTypeOK, Up, NewFilter
<1>. QED
  BY <1>1, <1>2, <1>3, Policies DEF PolicyInit, Types, State

\* A change that is handed to the worker.
LEMMA AskType ==
    ASSUME NEW paused \in BOOLEAN, NEW until \in Nat \union {Nil},
           NEW change \in [paused : BOOLEAN] \union [excluded : SUBSET Application],
           Ask(paused, until, change)
    PROVE  /\ ui' \in Switches /\ ui' # Nil /\ ui'.busy /\ ui'.until = until
           /\ ui'.paused = paused
           /\ DOMAIN ui' = {"paused", "busy", "until"}
           /\ job' \in Job /\ job' # Nil /\ job'.change = change /\ job'.stage = "asked"
<1>1. ui' \in Switches /\ ui'.busy /\ DOMAIN ui' = {"paused", "busy", "until"}
      /\ ui'.until = until /\ ui'.paused = paused
  BY DEF Ask, Switches
<1>2. job' \in Job /\ job'.change = change /\ job'.stage = "asked"
  BY DEF Ask, Job
<1>. QED
  BY <1>1, <1>2, NilAssumption

\* Every step of the user and of the app's threads keeps the types right.
LEMMA AppTypes ==
    ASSUME Types, UNCHANGED <<filter, loop, raw, told>>,
           \/ \E length \in Pause \union {Nil} : PauseFor(length)
           \/ Switch \/ \E excluded \in SUBSET Application : Rule(excluded)
           \/ PauseTick \/ Publish \/ Commit \/ UpdatesReady \/ AppDies \/ StartApp
    PROVE  Types'
<1>. USE DEF Types
<1>1. ASSUME NEW length \in Pause \union {Nil}, PauseFor(length) PROVE Types'
  <2>. DEFINE until == IF length = Nil THEN Nil ELSE clock + length
  <2>1. until \in Nat \union {Nil}
    <3>1. clock \in Nat
      BY CollectionPolicyAssumption DEF PolicyTypeOK
    <3>2. length # Nil => length \in Nat
      BY CollectionPolicyAssumption
    <3>. QED
      BY <3>1, <3>2
  <2>2. Ask(TRUE, until, [paused |-> TRUE]) /\ deadlineFile' = until
    BY <1>1 DEF PauseFor
  <2>3. [paused |-> TRUE] \in [paused : BOOLEAN]
    OBVIOUS
  <2>. HIDE DEF until
  <2>4. /\ ui' \in Switches /\ ui' # Nil /\ ui'.busy /\ DOMAIN ui' = {"paused", "busy", "until"}
        /\ job' \in Job /\ job' # Nil
    BY <2>1, <2>2, <2>3, AskType
  <2>5. UNCHANGED <<clock, database, policyFile>> /\ timed' \in BOOLEAN
        /\ stale' = [stale EXCEPT !.deadline = FALSE]
    BY <1>1 DEF PauseFor
  <2>6. PolicyTypeOK'
    BY <2>4, <2>5 DEF PolicyTypeOK, Up
  <2>. QED
    BY <2>1, <2>2, <2>4, <2>5, <2>6
<1>2. CASE Switch
  <2>1. ui \in Switches /\ Ask(~ui.paused, ui.until, [paused |-> ~ui.paused])
    BY <1>2 DEF Switch, Up
  <2>2. ui.until \in Nat \union {Nil} /\ ui.paused \in BOOLEAN
        /\ [paused |-> ~ui.paused] \in [paused : BOOLEAN]
    BY <2>1 DEF Switches
  <2>3. /\ ui' \in Switches /\ ui' # Nil /\ ui'.busy /\ DOMAIN ui' = {"paused", "busy", "until"}
        /\ job' \in Job /\ job' # Nil
    BY <2>1, <2>2, AskType
  <2>4. UNCHANGED <<clock, database, policyFile, deadlineFile, stale>> /\ timed' \in BOOLEAN
    BY <1>2 DEF Switch
  <2>5. PolicyTypeOK'
    BY <2>3, <2>4 DEF PolicyTypeOK, Up
  <2>. QED
    BY <2>3, <2>4, <2>5
<1>3. ASSUME NEW excluded \in SUBSET Application, Rule(excluded) PROVE Types'
  <2>1. ui \in Switches /\ Ask(ui.paused, ui.until, [excluded |-> excluded])
    BY <1>3 DEF Rule, Up
  <2>2. ui.until \in Nat \union {Nil} /\ ui.paused \in BOOLEAN
        /\ [excluded |-> excluded] \in [excluded : SUBSET Application]
    BY <2>1 DEF Switches
  <2>3. /\ ui' \in Switches /\ ui' # Nil /\ ui'.busy /\ DOMAIN ui' = {"paused", "busy", "until"}
        /\ job' \in Job /\ job' # Nil
    BY <2>1, <2>2, AskType
  <2>4. UNCHANGED <<clock, database, policyFile, deadlineFile, stale, timed>>
    BY <1>3 DEF Rule
  <2>5. PolicyTypeOK'
    BY <2>3, <2>4 DEF PolicyTypeOK, Up
  <2>. QED
    BY <2>3, <2>4, <2>5
<1>4. CASE PauseTick
  <2>1. ui \in Switches /\ UNCHANGED <<clock, database, policyFile, timed>>
    BY <1>4 DEF PauseTick, Up
  <2>2. CASE ~ui.paused
    <3>1. /\ ui' = [ui EXCEPT !.until = Nil] /\ deadlineFile' = Nil /\ job' = job
          /\ stale' = [stale EXCEPT !.deadline = stale.switch]
      BY <1>4, <2>2 DEF PauseTick
    <3>2. ui' \in Switches /\ ui'.busy = ui.busy /\ DOMAIN ui' = {"paused", "busy", "until"}
      BY <2>1, <3>1 DEF Switches
    <3>3. ui' # Nil
      BY <3>2, NilAssumption
    <3>4. PolicyTypeOK'
      BY <1>4, <2>1, <3>1, <3>2, <3>3 DEF PolicyTypeOK, Up, PauseTick
    <3>. QED
      BY <2>1, <3>1, <3>2, <3>4
  <2>3. CASE ui.paused
    <3>1. /\ Ask(FALSE, clock + Retry, [paused |-> FALSE]) /\ UNCHANGED <<deadlineFile, stale>>
      BY <1>4, <2>3 DEF PauseTick
    <3>2. clock + Retry \in Nat \union {Nil} /\ [paused |-> FALSE] \in [paused : BOOLEAN]
      BY CollectionPolicyAssumption DEF PolicyTypeOK
    <3>3. /\ ui' \in Switches /\ ui' # Nil /\ ui'.busy
          /\ DOMAIN ui' = {"paused", "busy", "until"} /\ job' \in Job /\ job' # Nil
      BY <3>1, <3>2, AskType
    <3>4. PolicyTypeOK'
      BY <2>1, <3>3 DEF PolicyTypeOK, Up
    <3>. QED
      BY <2>1, <3>1, <3>3, <3>4
  <2>. QED
    BY <2>2, <2>3
<1>5. CASE Publish \/ Commit
  <2>1. /\ job # Nil /\ job \in Job /\ \E s \in {"published", "failed", "done"} : Stage(s)
        /\ UNCHANGED <<clock, ui, deadlineFile, timed>>
    BY <1>5 DEF Publish, Commit
  <2>2. job' \in Job
    BY <2>1 DEF Stage, Job
  <2>3. job' # Nil
    BY <2>2, NilAssumption
  <2>4. Changed(job.change) \in Policy /\ database \in Policy
    BY <2>1, ChangedType DEF PolicyTypeOK
  <2>5. database' \in Policy /\ (policyFile' = policyFile
                                \/ \E p \in Policy : Published(p))
    BY <1>5, <2>4 DEF Publish, Commit
  <2>6. /\ policyFile' \in [policy : Policy, stamp : Nat]
        /\ policyFile.stamp <= policyFile'.stamp
    BY <2>5 DEF Published
  <2>7. stale' \in [switch : BOOLEAN, policyFile : BOOLEAN, deadline : BOOLEAN]
    BY <1>5 DEF Publish, Commit
  <2>8. filter.modified \in Nat /\ policyFile.stamp \in Nat
    BY DEF Filter
  <2>9. PolicyTypeOK'
    BY <2>1, <2>3, <2>5, <2>6, <2>8 DEF PolicyTypeOK, Up
  <2>. QED
    BY <2>1, <2>2, <2>6, <2>7, <2>9
<1>6. CASE UpdatesReady
  <2>1. ui \in Switches /\ job' = Nil /\ UNCHANGED <<clock, database, policyFile, deadlineFile, timed>>
    BY <1>6 DEF UpdatesReady, PolicyTypeOK, Up
  <2>2. \/ ui' = [ui EXCEPT !.busy = FALSE, !.paused = database.paused]
        \/ ui' = [ui EXCEPT !.busy = FALSE]
    BY <1>6 DEF UpdatesReady
  <2>3. ui' \in Switches /\ ~ui'.busy /\ DOMAIN ui' = {"paused", "busy", "until"}
    <3>1. database.paused \in BOOLEAN
      BY DEF PolicyTypeOK, Policy
    <3>. QED
      BY <2>1, <2>2, <3>1 DEF Switches
  <2>4. stale' \in [switch : BOOLEAN, policyFile : BOOLEAN, deadline : BOOLEAN]
    BY <1>6 DEF UpdatesReady
  <2>5. PolicyTypeOK'
    BY <2>1, <2>3 DEF PolicyTypeOK, Up
  <2>. QED
    BY <2>1, <2>3, <2>4, <2>5
<1>7. CASE AppDies
  BY <1>7 DEF AppDies, PolicyTypeOK, Up
<1>8. CASE StartApp
  <2>1. /\ ~Up /\ UNCHANGED <<clock, deadlineFile, job, database, timed>> /\ Published(database)
        /\ stale' = [stale EXCEPT !.switch = FALSE, !.policyFile = FALSE]
        /\ ui' = [paused |-> database.paused, busy |-> FALSE, until |-> deadlineFile]
    BY <1>8 DEF StartApp
  <2>2. ui' \in Switches /\ ~ui'.busy /\ DOMAIN ui' = {"paused", "busy", "until"}
    <3>1. database.paused \in BOOLEAN
      BY DEF PolicyTypeOK, Policy
    <3>. QED
      BY <2>1, <3>1 DEF Switches
  <2>3. ui' # Nil
    BY <2>2, NilAssumption
  <2>4. /\ policyFile' \in [policy : Policy, stamp : Nat]
        /\ policyFile.stamp <= policyFile'.stamp
    BY <2>1 DEF Published, PolicyTypeOK
  <2>5. filter.modified \in Nat /\ policyFile.stamp \in Nat
    BY DEF Filter
  <2>6. PolicyTypeOK'
    BY <2>1, <2>2, <2>3, <2>4, <2>5 DEF PolicyTypeOK, Up
  <2>. QED
    BY <2>1, <2>2, <2>4, <2>6
<1>. QED
  BY <1>1, <1>2, <1>3, <1>4, <1>5, <1>6, <1>7, <1>8

\* A filter that begins.
LEMMA NewFilterType ==
    ASSUME NEW p \in Policy, NEW session \in BOOLEAN
    PROVE  NewFilter(p, session) \in Filter /\ NewFilter(p, session).modified = 0
BY DEF NewFilter, Filter, State

\* What the policy lets through.
LEMMA AllowedType ==
    ASSUME NEW ws \in [Entry -> State], NEW p, NEW bl
    PROVE  Allowed(ws, p, bl) \in [Entry -> State]
BY DEF Allowed, State

\* Every step of the collector, the desktop and the clock keeps the types right.
LEMMA CollectorTypes ==
    ASSUME Types, UNCHANGED <<app, database, policyFile, timed, stale>>,
           \/ \E session \in BOOLEAN : Stat(session) \/ FilterAnew(session)
           \/ NotDue \/ Load \/ \E cut \in BOOLEAN : Reconcile(cut)
           \/ \E w \in Entry, s \in State : DesktopChanges(w, s)
           \/ PolicyTick
    PROVE  Types'
<1>. USE DEF Types
<1>1. /\ UNCHANGED <<ui, deadlineFile, job>> /\ policyFile.stamp \in Nat
      /\ policyFile.policy \in Policy /\ filter.policy \in Policy
  BY DEF app, Filter
<1>2. ASSUME UNCHANGED <<clock, raw>>, filter' \in Filter, filter'.modified <= policyFile.stamp,
             loop' \in {"waiting", "loading", "looked"}, told' \in [Entry -> State]
      PROVE  Types'
  <2>1. filter'.policy \in Policy
    BY <1>2 DEF Filter
  <2>2. PolicyTypeOK'
    BY <1>1, <1>2, <2>1 DEF PolicyTypeOK, Up
  <2>. QED
    BY <1>1, <1>2, <2>2
<1>3. ASSUME NEW session \in BOOLEAN, Stat(session) PROVE Types'
  <2>1. filter' \in Filter /\ filter'.modified = policyFile.stamp
    BY <1>1, <1>3 DEF Stat, Filter
  <2>2. loop' \in {"looked", "loading"} /\ UNCHANGED <<clock, raw, told>>
    BY <1>3 DEF Stat
  <2>3. filter'.modified <= policyFile.stamp
    BY <1>1, <2>1
  <2>. QED
    BY <1>2, <2>1, <2>2, <2>3
<1>4. ASSUME NEW session \in BOOLEAN, FilterAnew(session) PROVE Types'
  <2>1. filter' \in Filter /\ filter'.modified = 0
    BY <1>1, <1>4, NewFilterType, Policies DEF FilterAnew
  <2>2. told' \in [Entry -> State]
    BY <1>4 DEF FilterAnew, State
  <2>. QED
    BY <1>1, <1>2, <1>4, <2>1, <2>2 DEF FilterAnew
<1>5. CASE NotDue
  BY <1>2, <1>5 DEF NotDue, PolicyTypeOK
<1>6. CASE Load
  <2>1. PICK p \in Policy : filter' = [filter EXCEPT !.policy = p, !.changed = @ \/ p # filter.policy]
    BY <1>1, <1>6, Policies DEF Load
  <2>2. filter' \in Filter /\ filter'.modified = filter.modified
    BY <2>1 DEF Filter
  <2>. QED
    BY <1>2, <1>6, <2>2 DEF Load, PolicyTypeOK
<1>7. ASSUME NEW cut \in BOOLEAN, Reconcile(cut) PROVE Types'
  <2>1. PICK bl \in BOOLEAN, windows \in [Entry -> State] :
          filter' = [filter EXCEPT !.blocked = bl, !.seen = raw, !.changed = FALSE,
                                   !.windows = windows]
    <3>. DEFINE b == filter.policy.paused \/ filter.session
                passed == Allowed(raw, filter.policy, b)
    <3>1. b \in BOOLEAN
      BY <1>1 DEF Filter, Policy
    <3>2. filter.windows \in [Entry -> State] /\ passed \in [Entry -> State]
      BY AllowedType DEF Filter
    <3>3. \E windows \in {passed, filter.windows} :
            filter' = [filter EXCEPT !.blocked = b, !.seen = raw, !.changed = FALSE,
                                     !.windows = windows]
      BY <1>7 DEF Reconcile
    <3>. HIDE DEF b, passed
    <3>. QED
      BY <3>1, <3>2, <3>3
  <2>2. filter' \in Filter /\ filter'.modified = filter.modified
    BY <2>1 DEF Filter
  <2>3. told' \in [Entry -> State]
    <3>. DEFINE b == filter.policy.paused \/ filter.session
                look == HasToLook(cut \/ b # filter.blocked)
                ws == IF look THEN Allowed(raw, filter.policy, b) ELSE filter.windows
                closed == {w \in Entry : /\ look /\ filter.windows[w] # Nil
                                         /\ cut \/ ws[w] = Nil}
                opened == {w \in Entry : /\ look /\ ws[w] # Nil
                                         /\ cut \/ ws[w] # filter.windows[w]}
    <3>1. ws \in [Entry -> State]
      BY AllowedType DEF Filter
    <3>2. told' = [w \in Entry |-> IF w \in opened THEN ws[w]
                                   ELSE IF w \in closed THEN Nil ELSE told[w]]
      BY <1>7 DEF Reconcile
    <3>. HIDE DEF ws, opened, closed
    <3>. QED
      BY <3>1, <3>2 DEF State
  <2>. QED
    BY <1>2, <1>7, <2>2, <2>3 DEF Reconcile, PolicyTypeOK
<1>8. ASSUME NEW w \in Entry, NEW s \in State, DesktopChanges(w, s) PROVE Types'
  BY <1>1, <1>8 DEF DesktopChanges, PolicyTypeOK, Up
<1>9. CASE PolicyTick
  BY <1>1, <1>9, CollectionPolicyAssumption DEF PolicyTick, PolicyTypeOK, Up
<1>. QED
  BY <1>3, <1>4, <1>5, <1>6, <1>7, <1>8, <1>9

\* The actors keep out of each other's state.
LEMMA Separate ==
    ASSUME [PolicyNext]_pvars
    PROVE  \/ /\ UNCHANGED <<filter, loop, raw, told>>
              /\ \/ \E length \in Pause \union {Nil} : PauseFor(length)
                 \/ Switch \/ \E excluded \in SUBSET Application : Rule(excluded)
                 \/ PauseTick \/ Publish \/ Commit \/ UpdatesReady \/ AppDies \/ StartApp
           \/ /\ UNCHANGED <<app, database, policyFile, timed, stale>>
              /\ \/ \E session \in BOOLEAN : Stat(session) \/ FilterAnew(session)
                 \/ NotDue \/ Load \/ \E cut \in BOOLEAN : Reconcile(cut)
                 \/ \E w \in Entry, s \in State : DesktopChanges(w, s)
                 \/ PolicyTick
           \/ UNCHANGED pvars
BY DEF PolicyNext, State, PauseFor, Switch, Rule, PauseTick, Publish, Commit, UpdatesReady, AppDies,
       StartApp, Stat, FilterAnew, NotDue, Load, Reconcile, DesktopChanges, PolicyTick

\* Every step keeps the types right.
LEMMA NextTypes == Types /\ [PolicyNext]_pvars => Types'
<1>. SUFFICES ASSUME Types, [PolicyNext]_pvars PROVE Types'
  OBVIOUS
<1>1. CASE UNCHANGED pvars
  BY <1>1 DEF Types, PolicyTypeOK, Up, pvars, app
<1>. QED
  BY <1>1, Separate, AppTypes, CollectorTypes

\* The worker's thread is there exactly while the app shows that it is, and the collector
\* never has a newer stamp than the file.
THEOREM PolicyTypes == PolicySpec => []PolicyTypeOK
<1>1. Types => PolicyTypeOK
  BY DEF Types
<1>. QED
  BY <1>1, InitTypes, NextTypes, PTL DEF PolicySpec

-----------------------------------------------------------------------------
(* What the collector tells the core.                                      *)

\* What has been told is what the filter keeps; that is what the policy lets through of
\* what was seen last, unless the policy has changed since; and a turn of the loop ends
\* with the policy and the session that it was made with.
FilterInv ==
    /\ told = filter.windows
    /\ ~filter.changed => filter.windows = Allowed(filter.seen, filter.policy, filter.blocked)
    /\ loop = "waiting" => /\ ~filter.changed
                           /\ filter.blocked = (filter.policy.paused \/ filter.session)

\* A turn of the loop tells exactly what brings the core from what it was told to what
\* the filter keeps, whether it looks at the windows or finds no reason to.
LEMMA ReconcileTells ==
    ASSUME Types, FilterInv, NEW cut \in BOOLEAN, Reconcile(cut)
    PROVE  FilterInv'
<1>. DEFINE b == filter.policy.paused \/ filter.session
            again == cut \/ b # filter.blocked
            look == HasToLook(again)
            ws == IF look THEN Allowed(raw, filter.policy, b) ELSE filter.windows
            closed == {w \in Entry : look /\ filter.windows[w] # Nil /\ (cut \/ ws[w] = Nil)}
            opened == {w \in Entry : /\ look /\ ws[w] # Nil
                                     /\ cut \/ ws[w] # filter.windows[w]}
<1>1. /\ filter' = [filter EXCEPT !.blocked = b, !.seen = raw, !.changed = FALSE, !.windows = ws]
      /\ told' = [w \in Entry |-> IF w \in opened THEN ws[w]
                                  ELSE IF w \in closed THEN Nil ELSE told[w]]
      /\ loop' = "waiting"
  BY DEF Reconcile
<1>2. /\ ws \in [Entry -> State] /\ filter.windows \in [Entry -> State]
      /\ told = filter.windows
  BY AllowedType DEF Types, Filter, FilterInv
<1>3. told' = ws
  <2>1. ASSUME NEW w \in Entry PROVE told'[w] = ws[w]
    <3>. HIDE DEF look, b, again
    <3>1. CASE look
      <4>. HIDE DEF ws
      <4>. QED
        BY <1>1, <1>2, <3>1
    <3>2. CASE ~look
      BY <1>1, <1>2, <3>2
    <3>. QED
      BY <3>1, <3>2
  <2>. HIDE DEF ws, opened, closed
  <2>. QED
    BY <1>1, <1>2, <2>1
<1>4. ws = Allowed(raw, filter.policy, b)
  <2>1. CASE look
    BY <2>1
  <2>2. CASE ~look
    <3>1. ~filter.changed /\ filter.seen = raw /\ b = filter.blocked
      BY <2>2 DEF HasToLook
    <3>. QED
      BY <2>2, <3>1 DEF FilterInv
  <2>. QED
    BY <2>1, <2>2
<1>5. /\ filter'.policy = filter.policy /\ filter'.session = filter.session
      /\ filter'.blocked = b /\ filter'.seen = raw /\ ~filter'.changed /\ filter'.windows = ws
  <2>. HIDE DEF ws, b
  <2>. QED
    BY <1>1 DEF Types, Filter
<1>. HIDE DEF ws
<1>. QED
  BY <1>1, <1>3, <1>4, <1>5 DEF FilterInv

\* No step of the filter or around it leaves the two apart.
LEMMA FilterStep == Types /\ FilterInv /\ [PolicyNext]_pvars => FilterInv'
<1>. SUFFICES ASSUME Types, FilterInv, [PolicyNext]_pvars PROVE FilterInv'
  OBVIOUS
<1>1. CASE UNCHANGED <<filter, loop, told>>
  BY <1>1 DEF FilterInv, Allowed
<1>2. ASSUME NEW session \in BOOLEAN, Stat(session) PROVE FilterInv'
  <2>1. /\ filter'.policy = filter.policy /\ filter'.blocked = filter.blocked
        /\ filter'.changed = filter.changed /\ filter'.seen = filter.seen
        /\ filter'.windows = filter.windows /\ told' = told /\ loop' # "waiting"
    BY <1>2 DEF Stat, Types, Filter
  <2>. QED
    BY <2>1 DEF FilterInv, Allowed
<1>3. ASSUME NEW session \in BOOLEAN, FilterAnew(session) PROVE FilterInv'
  BY <1>3 DEF FilterAnew, NewFilter, FilterInv
<1>4. CASE NotDue
  BY <1>4 DEF NotDue, FilterInv, Allowed
<1>5. CASE Load
  <2>1. PICK p \in Policy : filter' = [filter EXCEPT !.policy = p, !.changed = @ \/ p # filter.policy]
    BY <1>5, Policies DEF Load, Types, PolicyTypeOK
  <2>2. /\ filter'.policy = p /\ filter'.blocked = filter.blocked
        /\ filter'.changed = (filter.changed \/ p # filter.policy)
        /\ filter'.seen = filter.seen /\ filter'.windows = filter.windows
        /\ told' = told /\ loop' # "waiting"
    BY <1>5, <2>1 DEF Load, Types, Filter
  <2>. QED
    BY <2>2 DEF FilterInv, Allowed
<1>6. ASSUME NEW cut \in BOOLEAN, Reconcile(cut) PROVE FilterInv'
  BY <1>6, ReconcileTells
<1>7. CASE \/ \E w \in Entry, s \in State : DesktopChanges(w, s)
           \/ PolicyTick \/ UNCHANGED pvars
  BY <1>1, <1>7 DEF DesktopChanges, PolicyTick, pvars
<1>. QED
  BY <1>1, <1>2, <1>3, <1>4, <1>5, <1>6, <1>7, Separate

\* After every turn of the loop the core believes open what the desktop shows without
\* what the policy excludes, and nothing while recording is paused or the session locked.
THEOREM AlwaysFiltered == PolicySpec => []ToldIsFiltered
<1>1. PolicyInit => FilterInv
  BY DEF PolicyInit, NewFilter, FilterInv
<1>2. FilterInv => ToldIsFiltered
  BY DEF FilterInv, ToldIsFiltered
<1>. QED
  BY <1>1, <1>2, InitTypes, NextTypes, FilterStep, PTL DEF PolicySpec

-----------------------------------------------------------------------------
(* How a change of the policy gets to the collector.                       *)

\* The collector's half: it works with the file that has the stamp it has seen.
Loaded ==
    loop # "loading" /\ filter.modified = policyFile.stamp =>
        filter.policy \in {policyFile.policy, Unreadable}

\* The app's half: where the file, the database and the switch stand at each stage.
Brought ==
    Up =>
        /\ job = Nil \/ job.stage # "published" => stale.policyFile \/ policyFile.policy = database
        /\ job # Nil /\ job.stage = "published" => policyFile.policy = Changed(job.change)
        /\ job = Nil => stale.switch \/ ui.paused = database.paused

\* A newer file is not seen yet, and a file that is seen is loaded.
LEMMA LoadedStep == Types /\ Loaded /\ [PolicyNext]_pvars => Loaded'
<1>. SUFFICES ASSUME Types, Loaded, [PolicyNext]_pvars PROVE Loaded'
  OBVIOUS
<1>1. filter.modified <= policyFile.stamp /\ filter.modified \in Nat /\ policyFile.stamp \in Nat
  BY DEF Types, PolicyTypeOK, Filter
<1>2. CASE UNCHANGED <<filter, loop, policyFile>>
  BY <1>2 DEF Loaded
<1>3. CASE UNCHANGED filter /\ \E p : Published(p)
  BY <1>1, <1>3 DEF Published, Loaded
<1>4. CASE \/ \E length \in Pause \union {Nil} : PauseFor(length)
           \/ Switch \/ \E excluded \in SUBSET Application : Rule(excluded)
           \/ PauseTick \/ Publish \/ Commit \/ UpdatesReady \/ AppDies \/ StartApp
  BY <1>2, <1>3, <1>4
  DEF PauseFor, Switch, Rule, PauseTick, Publish, Commit, UpdatesReady, AppDies, StartApp
<1>5. ASSUME NEW session \in BOOLEAN, Stat(session) PROVE Loaded'
  BY <1>5 DEF Stat, Types, Filter, Loaded
<1>6. ASSUME NEW session \in BOOLEAN, FilterAnew(session) PROVE Loaded'
  BY <1>6 DEF FilterAnew, NewFilter, Loaded
<1>7. CASE NotDue
  BY <1>7 DEF NotDue, Loaded
<1>8. CASE Load
  BY <1>8 DEF Load, Types, Filter, Loaded
<1>9. ASSUME NEW cut \in BOOLEAN, Reconcile(cut) PROVE Loaded'
  BY <1>9 DEF Reconcile, Types, Filter, Loaded
<1>10. CASE \/ \E w \in Entry, s \in State : DesktopChanges(w, s)
            \/ PolicyTick \/ UNCHANGED pvars
  BY <1>2, <1>10 DEF DesktopChanges, PolicyTick, pvars
<1>. QED
  BY <1>4, <1>5, <1>6, <1>7, <1>8, <1>9, <1>10, Separate

\* The worker's steps, failures and crashes among them.
LEMMA BroughtStep == Types /\ Brought /\ [PolicyNext]_pvars => Brought'
<1>. SUFFICES ASSUME Types, Brought, [PolicyNext]_pvars PROVE Brought'
  OBVIOUS
<1>. USE DEF Types, Up
<1>1. CASE UNCHANGED <<app, database, policyFile, stale>>
  BY <1>1 DEF Brought, app, Changed
<1>2. ASSUME NEW paused \in BOOLEAN, NEW until \in Nat \union {Nil}, job = Nil, Up,
             NEW change \in [paused : BOOLEAN] \union [excluded : SUBSET Application],
             Ask(paused, until, change), UNCHANGED <<database, policyFile>>,
             stale'.policyFile = stale.policyFile
      PROVE  Brought'
  BY <1>2, AskType DEF Brought
<1>3. ASSUME NEW length \in Pause \union {Nil}, PauseFor(length) PROVE Brought'
  <2>. DEFINE until == IF length = Nil THEN Nil ELSE clock + length
  <2>1. until \in Nat \union {Nil}
    <3>1. clock \in Nat
      BY CollectionPolicyAssumption DEF PolicyTypeOK
    <3>2. length # Nil => length \in Nat
      BY CollectionPolicyAssumption
    <3>. QED
      BY <3>1, <3>2
  <2>2. /\ Ask(TRUE, until, [paused |-> TRUE]) /\ UNCHANGED <<database, policyFile>>
        /\ job = Nil /\ stale'.policyFile = stale.policyFile
    BY <1>3 DEF PauseFor, PolicyTypeOK
  <2>3. [paused |-> TRUE] \in [paused : BOOLEAN] /\ Up
    BY <1>3 DEF PauseFor
  <2>. HIDE DEF until
  <2>. QED
    BY <1>2, <2>1, <2>2, <2>3
<1>4. CASE Switch
  <2>1. /\ Up /\ ui \in Switches /\ Ask(~ui.paused, ui.until, [paused |-> ~ui.paused])
        /\ job = Nil /\ UNCHANGED <<database, policyFile, stale>>
    BY <1>4 DEF Switch, PolicyTypeOK
  <2>2. /\ ui.until \in Nat \union {Nil} /\ (~ui.paused) \in BOOLEAN
        /\ [paused |-> ~ui.paused] \in [paused : BOOLEAN]
    BY <2>1 DEF Switches
  <2>. QED
    BY <1>2, <2>1, <2>2
<1>5. ASSUME NEW excluded \in SUBSET Application, Rule(excluded) PROVE Brought'
  <2>1. /\ Up /\ ui \in Switches /\ Ask(ui.paused, ui.until, [excluded |-> excluded])
        /\ job = Nil /\ UNCHANGED <<database, policyFile, stale>>
    BY <1>5 DEF Rule, PolicyTypeOK
  <2>2. /\ ui.until \in Nat \union {Nil} /\ ui.paused \in BOOLEAN
        /\ [excluded |-> excluded] \in [excluded : SUBSET Application]
    BY <2>1 DEF Switches
  <2>. QED
    BY <1>2, <2>1, <2>2
<1>6. CASE PauseTick
  <2>1. ui \in Switches /\ Up /\ job = Nil /\ UNCHANGED <<database, policyFile>>
    BY <1>6 DEF PauseTick, PolicyTypeOK
  <2>2. CASE ~ui.paused
    <3>1. ui'.paused = ui.paused /\ job' = job /\ stale'.policyFile = stale.policyFile
          /\ stale'.switch = stale.switch
      BY <1>6, <2>1, <2>2 DEF PauseTick, Switches
    <3>. QED
      BY <2>1, <3>1 DEF Brought
  <2>3. CASE ui.paused
    <3>1. Ask(FALSE, clock + Retry, [paused |-> FALSE]) /\ UNCHANGED stale
      BY <1>6, <2>3 DEF PauseTick
    <3>2. clock + Retry \in Nat \union {Nil} /\ [paused |-> FALSE] \in [paused : BOOLEAN]
      BY CollectionPolicyAssumption DEF PolicyTypeOK
    <3>. QED
      BY <1>2, <2>1, <3>1, <3>2
  <2>. QED
    BY <2>2, <2>3
<1>7. CASE Publish
  <2>1. /\ job # Nil /\ job \in Job /\ job.stage = "asked" /\ UNCHANGED <<ui, database, stale>>
        /\ \/ Published(Changed(job.change)) /\ Stage("published")
           \/ Stage("failed") /\ policyFile' = policyFile
    BY <1>7 DEF Publish
  <2>2. job' \in Job /\ job'.change = job.change /\ job'.stage \in {"published", "failed"}
    BY <2>1 DEF Stage, Job
  <2>3. job' # Nil
    BY <2>2, NilAssumption
  <2>4. Changed(job.change)' = Changed(job.change)
    BY <2>1, <2>2 DEF Changed
  <2>5. CASE Published(Changed(job.change)) /\ Stage("published")
    <3>1. job'.stage = "published" /\ policyFile'.policy = Changed(job.change)
      BY <2>1, <2>5 DEF Published, Stage, Job
    <3>. QED
      BY <2>3, <2>4, <3>1 DEF Brought
  <2>6. CASE Stage("failed") /\ policyFile' = policyFile
    <3>1. job'.stage = "failed"
      BY <2>1, <2>6 DEF Stage, Job
    <3>. QED
      BY <2>1, <2>3, <2>6, <3>1 DEF Brought
  <2>. QED
    BY <2>1, <2>5, <2>6
<1>8. CASE Commit
  <2>1. /\ job # Nil /\ job \in Job /\ job.stage = "published" /\ UNCHANGED ui
        /\ \/ /\ database' = Changed(job.change) /\ Stage("done")
              /\ UNCHANGED <<policyFile, stale>>
           \/ /\ Stage("failed") /\ UNCHANGED database
              /\ \/ Published(database) /\ UNCHANGED stale
                 \/ stale' = [stale EXCEPT !.policyFile = TRUE] /\ UNCHANGED policyFile
    BY <1>8 DEF Commit
  <2>2. job' \in Job /\ job'.stage \in {"done", "failed"}
    BY <2>1 DEF Stage, Job
  <2>3. job' # Nil
    BY <2>2, NilAssumption
  <2>4. Up => stale'.policyFile \/ policyFile'.policy = database'
    BY <2>1 DEF Brought, Published
  <2>. QED
    BY <2>1, <2>2, <2>3, <2>4 DEF Brought
<1>9. CASE UpdatesReady
  <2>1. /\ ui \in Switches /\ Up /\ job # Nil /\ job.stage # "published" /\ job' = Nil
        /\ UNCHANGED <<database, policyFile>>
        /\ \/ /\ ui' = [ui EXCEPT !.busy = FALSE, !.paused = database.paused]
              /\ stale' = [stale EXCEPT !.switch = FALSE]
           \/ /\ ui' = [ui EXCEPT !.busy = FALSE]
              /\ stale' = [stale EXCEPT !.switch = TRUE]
    BY <1>9 DEF UpdatesReady, PolicyTypeOK
  <2>2. stale'.policyFile = stale.policyFile
    BY <2>1
  <2>3. stale'.switch \/ ui'.paused = database'.paused
    BY <2>1 DEF Switches
  <2>. QED
    BY <2>1, <2>2, <2>3 DEF Brought
<1>10. CASE AppDies
  BY <1>10 DEF AppDies, Brought
<1>11. CASE StartApp
  BY <1>11 DEF StartApp, Published, PolicyTypeOK, Brought
<1>12. CASE UNCHANGED pvars
  BY <1>1, <1>12 DEF pvars
<1>. QED
  BY <1>1, <1>3, <1>4, <1>5, <1>6, <1>7, <1>8, <1>9, <1>10, <1>11, <1>12, Separate

\* A change of the policy reaches the collector as it is in the database, however the
\* publishing, the commit, their failures, crashes and the reading interleave.
THEOREM PolicyAlwaysArrives == PolicySpec => []PolicyArrives
<1>1. PolicyInit => Loaded /\ Brought
  <2>. SUFFICES ASSUME PolicyInit PROVE Loaded /\ Brought
    OBVIOUS
  <2>1. filter.modified = 0 /\ policyFile.stamp = 1
    BY DEF PolicyInit, NewFilter
  <2>2. job = Nil /\ policyFile.policy = database /\ ui.paused = database.paused
    BY DEF PolicyInit, Default
  <2>. QED
    BY <2>1, <2>2 DEF Loaded, Brought
<1>2. Loaded /\ Brought => PolicyArrives
  BY DEF Loaded, Brought, PolicyArrives
<1>. QED
  BY <1>1, <1>2, InitTypes, NextTypes, LoadedStep, BroughtStep, PTL DEF PolicySpec

-----------------------------------------------------------------------------
(* The end of a pause.                                                     *)

\* The end is kept in the file and, while the app is up, by the timer; or the pause is
\* over in the database, on the switch and in what the worker carries.
Kept == deadlineFile # Nil /\ (Up => ui.until # Nil)
Over ==
    /\ ~database.paused
    /\ Up => ~ui.paused
    /\ job # Nil => ~("paused" \in DOMAIN job.change /\ job.change.paused)

TimedInv == timed /\ ~stale.deadline => Kept \/ Over

\* What a change of the rules leaves of the pause.
LEMMA ChangedPause ==
    ASSUME Types, job # Nil
    PROVE  Changed(job.change).paused = IF "paused" \in DOMAIN job.change THEN job.change.paused
                                                                      ELSE database.paused
<1>. USE DEF Types, PolicyTypeOK
<1>1. CASE job.change \in [paused : BOOLEAN]
  BY <1>1 DEF Changed, Policy
<1>2. CASE job.change \in [excluded : SUBSET Application]
  BY <1>2 DEF Changed, Policy
<1>. QED
  BY <1>1, <1>2 DEF Job

\* The end of a pause stays with it, as long as the switch shows what is saved.
LEMMA TimedStep ==
    Types /\ Brought /\ TimedInv /\ [PolicyNext]_pvars => TimedInv'
<1>. SUFFICES ASSUME Types, Brought, TimedInv, [PolicyNext]_pvars PROVE TimedInv'
  OBVIOUS
<1>. USE DEF Types, Up
<1>1. CASE UNCHANGED <<app, database, timed, stale>>
  BY <1>1 DEF TimedInv, Kept, Over, app, Up
<1>2. ASSUME NEW length \in Pause \union {Nil}, PauseFor(length) PROVE TimedInv'
  <2>. DEFINE until == IF length = Nil THEN Nil ELSE clock + length
  <2>1. until \in Nat \union {Nil}
    <3>1. clock \in Nat
      BY CollectionPolicyAssumption DEF PolicyTypeOK
    <3>2. length # Nil => length \in Nat
      BY CollectionPolicyAssumption
    <3>. QED
      BY <3>1, <3>2
  <2>2. /\ Ask(TRUE, until, [paused |-> TRUE]) /\ deadlineFile' = until
        /\ timed' = (until # Nil)
    BY <1>2 DEF PauseFor
  <2>3. [paused |-> TRUE] \in [paused : BOOLEAN]
    OBVIOUS
  <2>. HIDE DEF until
  <2>4. ui'.until = until
    BY <2>1, <2>2, <2>3, AskType
  <2>. QED
    BY <2>2, <2>4 DEF TimedInv, Kept
<1>3. CASE Switch
  <2>1. /\ Up /\ ui \in Switches /\ Ask(~ui.paused, ui.until, [paused |-> ~ui.paused])
        /\ timed' = (timed /\ ui.paused) /\ UNCHANGED <<deadlineFile, database, stale>>
    BY <1>3 DEF Switch
  <2>2. /\ ui.until \in Nat \union {Nil} /\ ui.paused \in BOOLEAN /\ (~ui.paused) \in BOOLEAN
        /\ [paused |-> ~ui.paused] \in [paused : BOOLEAN]
    BY <2>1 DEF Switches
  <2>3. ui'.until = ui.until
    BY <2>1, <2>2, AskType
  <2>. QED
    BY <2>1, <2>3 DEF TimedInv, Kept, Over
<1>4. ASSUME NEW excluded \in SUBSET Application, Rule(excluded) PROVE TimedInv'
  <2>1. /\ Up /\ ui \in Switches /\ Ask(ui.paused, ui.until, [excluded |-> excluded])
        /\ UNCHANGED <<timed, deadlineFile, database, stale>>
    BY <1>4 DEF Rule
  <2>2. /\ ui.until \in Nat \union {Nil} /\ ui.paused \in BOOLEAN
        /\ [excluded |-> excluded] \in [excluded : SUBSET Application]
    BY <2>1 DEF Switches
  <2>3. ui'.until = ui.until /\ ui'.paused = ui.paused /\ job'.change = [excluded |-> excluded]
    BY ZenonT(30), <2>1, <2>2, AskType
  <2>4. "paused" \notin DOMAIN job'.change
    BY <2>3
  <2>. QED
    BY <2>1, <2>3, <2>4 DEF TimedInv, Kept, Over
<1>5. CASE PauseTick
  <2>1. ui \in Switches /\ Up /\ job = Nil /\ UNCHANGED <<database, timed>>
    BY <1>5 DEF PauseTick, PolicyTypeOK
  <2>2. CASE ~ui.paused
    <3>1. /\ ui'.paused = ui.paused /\ job' = job /\ stale'.deadline = stale.switch
      BY <1>5, <2>1, <2>2 DEF PauseTick, Switches
    <3>2. stale.switch \/ ~database.paused
      BY <2>1, <2>2 DEF Brought
    <3>. QED
      BY <2>1, <2>2, <3>1, <3>2 DEF TimedInv, Over
  <2>3. CASE ui.paused
    <3>1. Ask(FALSE, clock + Retry, [paused |-> FALSE]) /\ UNCHANGED <<deadlineFile, stale>>
      BY <1>5, <2>3 DEF PauseTick
    <3>2. clock + Retry \in Nat /\ [paused |-> FALSE] \in [paused : BOOLEAN]
      BY CollectionPolicyAssumption DEF PolicyTypeOK
    <3>3. ui'.until # Nil
      <4>. DEFINE until == clock + Retry
      <4>1. until \in Nat /\ until # Nil
        BY <3>2, NilAssumption
      <4>. HIDE DEF until
      <4>2. Ask(FALSE, until, [paused |-> FALSE])
        BY <3>1 DEF until
      <4>3. ui'.until = until
        BY <3>2, <4>1, <4>2, AskType
      <4>. QED
        BY <4>1, <4>3
    <3>. QED
      BY <2>1, <2>3, <3>1, <3>3 DEF TimedInv, Kept, Over
  <2>. QED
    BY <2>2, <2>3
<1>6. CASE Publish \/ Commit
  <2>1. /\ job # Nil /\ job \in Job /\ UNCHANGED <<ui, deadlineFile, timed>>
        /\ \E s \in {"published", "failed", "done"} : Stage(s)
        /\ stale'.deadline = stale.deadline
        /\ database' = database \/ database' = Changed(job.change)
    BY <1>6 DEF Publish, Commit
  <2>2. job'.change = job.change
    BY <2>1 DEF Stage, Job
  <2>3. Over => Over'
    BY <2>1, <2>2, ChangedPause DEF Over
  <2>. QED
    BY <2>1, <2>3 DEF TimedInv, Kept
<1>7. CASE UpdatesReady
  <2>1. /\ ui \in Switches /\ Up /\ job' = Nil
        /\ UNCHANGED <<deadlineFile, database, timed>>
        /\ \/ ui' = [ui EXCEPT !.busy = FALSE, !.paused = database.paused]
           \/ ui' = [ui EXCEPT !.busy = FALSE]
        /\ stale'.deadline = stale.deadline
    BY <1>7 DEF UpdatesReady, PolicyTypeOK
  <2>2. ui'.until = ui.until /\ ui'.paused \in {ui.paused, database.paused}
    BY <2>1 DEF Switches
  <2>. QED
    BY <2>1, <2>2 DEF TimedInv, Kept, Over
<1>8. CASE AppDies
  BY <1>8 DEF AppDies, TimedInv, Kept, Over
<1>9. CASE StartApp
  <2>1. /\ ~Up /\ job' = Nil /\ UNCHANGED <<deadlineFile, database, timed>>
        /\ ui'.paused = database.paused /\ ui'.until = deadlineFile
        /\ stale'.deadline = stale.deadline
    BY <1>9 DEF StartApp, PolicyTypeOK
  <2>. QED
    BY <2>1 DEF TimedInv, Kept, Over
<1>10. CASE UNCHANGED pvars
  BY <1>1, <1>10 DEF pvars
<1>. QED
  BY <1>1, <1>2, <1>3, <1>4, <1>5, <1>6, <1>7, <1>8, <1>9, <1>10, Separate

\* A pause with a length is never left without its end, across crashes of the app and
\* failed attempts to end it, as long as the switch shows what is saved.
THEOREM TimedPauseAlwaysKept == PolicySpec => []TimedPauseIsKept
<1>1. PolicyInit => Loaded /\ Brought /\ TimedInv
  <2>. SUFFICES ASSUME PolicyInit PROVE Loaded /\ Brought /\ TimedInv
    OBVIOUS
  <2>1. filter.modified = 0 /\ policyFile.stamp = 1 /\ ~timed
    BY DEF PolicyInit, NewFilter
  <2>2. job = Nil /\ policyFile.policy = database /\ ui.paused = database.paused
    BY DEF PolicyInit, Default
  <2>. QED
    BY <2>1, <2>2 DEF Loaded, Brought, TimedInv
<1>2. TimedInv => TimedPauseIsKept
  BY DEF TimedInv, TimedPauseIsKept, Kept, Over
<1>. QED
  BY <1>1, <1>2, InitTypes, NextTypes, BroughtStep, TimedStep, PTL DEF PolicySpec

-----------------------------------------------------------------------------
(* SnapshotSchedule. *)

(***************************************************************************)
(* Slots are start + k * interval: the little arithmetic they need         *)
(***************************************************************************)

\* A product of two that are not negative is not negative.
LEMMA Product ==
    ASSUME NEW x \in Nat, NEW y \in Nat
    PROVE  x * y \in Nat
OBVIOUS

\* What division leaves is less than the interval.
LEMMA Division ==
    ASSUME NEW n \in Int, NEW d \in Nat \ {0}
    PROVE  /\ n \div d \in Int /\ n % d \in 0 .. d - 1
           /\ n = (n \div d) * d + (n % d)
OBVIOUS

\* Fewer of the same interval are less far.
LEMMA Cancel ==
    ASSUME NEW x \in Int, NEW y \in Int, NEW d \in Nat \ {0}, x * d < y * d
    PROVE  x < y
<1>1. CASE y <= x
  <2>1. x - y \in Nat
    BY <1>1
  <2>2. (x - y) * d \in Nat
    BY <2>1, Product
  <2>3. (x - y) * d = x * d - y * d
    OBVIOUS
  <2>4. x * d \in Int /\ y * d \in Int
    OBVIOUS
  <2>. QED
    BY <2>2, <2>3, <2>4
<1>. QED
  BY <1>1

\* A boundary of a cycle is on it, and past the clock.
LEMMA Boundary ==
    ASSUME NEW start \in Nat, NEW d \in Nat \ {0}, clockTime \in Nat
    PROVE  /\ NextBoundary(start, d) \in Nat /\ clockTime < NextBoundary(start, d)
           /\ \E k \in Nat : NextBoundary(start, d) = start + k * d
<1>1. CASE clockTime < start
  <2>1. NextBoundary(start, d) = start + 0 * d
    BY <1>1 DEF NextBoundary
  <2>. QED
    BY <1>1, <2>1
<1>2. CASE start <= clockTime
  <2>. DEFINE n == clockTime - start
              q == n \div d
  <2>1. n \in Nat
    BY <1>2
  <2>4. NextBoundary(start, d) = start + (q + 1) * d
    BY <1>2 DEF NextBoundary
  <2>8. n = clockTime - start
    OBVIOUS
  <2>. HIDE DEF n
  <2>2. q \in Int /\ n % d \in 0 .. d - 1 /\ n = q * d + (n % d)
    BY <2>1, Division
  <2>3. q \in Nat
    BY <2>1 DEF q
  <2>. HIDE DEF q
  <2>5. (q + 1) * d = q * d + d /\ q * d \in Nat
    BY <2>3, Product
  <2>6. (q + 1) * d > n /\ (q + 1) * d \in Nat
    BY <2>1, <2>2, <2>5
  <2>9. clockTime < start + (q + 1) * d /\ start + (q + 1) * d \in Nat
    BY <2>6, <2>8
  <2>7. q + 1 \in Nat
    BY <2>3
  <2>. QED
    BY <2>4, <2>7, <2>9
<1>. QED
  BY <1>1, <1>2

\* The latest slot that is due is on the cycle of the next one and not past the clock,
\* and less than an interval before it.
LEMMA Latest ==
    ASSUME clockTime \in Nat, scheduler.next \in Nat, settings.interval \in Nat \ {0},
           scheduler.next <= clockTime
    PROVE  \E q \in Nat :
              /\ LatestDue = scheduler.next + q * settings.interval
              /\ LatestDue \in Nat /\ LatestDue <= clockTime
              /\ clockTime < LatestDue + settings.interval
              /\ Missed = {scheduler.next + k * settings.interval : k \in 0 .. q - 1}
<1>. DEFINE d == settings.interval
            n == clockTime - scheduler.next
            q == n \div d
<1>1. n \in Nat /\ d \in Nat \ {0}
  OBVIOUS
<1>4. LatestDue = scheduler.next + q * d
  BY DEF LatestDue
<1>9. n = clockTime - scheduler.next
  OBVIOUS
<1>. HIDE DEF n, d
<1>2. q \in Int /\ n % d \in 0 .. d - 1 /\ n = q * d + (n % d)
  BY <1>1, Division
<1>3. q \in Nat
  BY <1>1 DEF q
<1>5. q * d \in Nat
  BY <1>1, <1>3, Product
<1>6. (LatestDue - scheduler.next) \div d = q
  <2>. DEFINE m == LatestDue - scheduler.next
  <2>1. m = q * d /\ m \in Nat
    BY <1>4, <1>5
  <2>. HIDE DEF m, q
  <2>8. m \in Int
    BY <2>1
  <2>2. m \div d \in Int /\ m % d \in 0 .. d - 1 /\ m = (m \div d) * d + (m % d)
    BY <1>1, <2>8, Division
  <2>. DEFINE r == m \div d
  <2>. HIDE DEF r
  <2>3. r \in Int /\ q * d = r * d + (m % d) /\ m % d \in 0 .. d - 1
    BY <2>1, <2>2 DEF r
  <2>4. (q - r) * d = m % d
    <3>1. (q - r) * d = q * d - r * d
      BY <1>1, <1>3, <2>3
    <3>2. q * d \in Int /\ r * d \in Int /\ m % d \in Int
      BY <1>1, <1>3, <2>3
    <3>. QED
      BY <2>3, <3>1, <3>2
  <2>5. (q - r) * d < 1 * d /\ (0 - 1) * d < (q - r) * d
    BY <1>1, <2>3, <2>4
  <2>6. q - r < 1 /\ 0 - 1 < q - r
    BY <1>1, <1>3, <2>3, <2>5, Cancel
  <2>7. q = r
    BY <1>3, <2>3, <2>6
  <2>. QED
    BY <2>7 DEF r, m
<1>7. Missed = {scheduler.next + k * settings.interval : k \in 0 .. q - 1}
  BY <1>6 DEF Missed, d
<1>. HIDE DEF q
<1>8. LatestDue \in Nat /\ LatestDue <= clockTime /\ clockTime < LatestDue + d
  BY <1>1, <1>2, <1>4, <1>5, <1>9
<1>. QED
  BY <1>3, <1>4, <1>7, <1>8 DEF d

(***************************************************************************)
(* Every slot is told                                                      *)
(***************************************************************************)

\* Where the thread holds no slot, and where it holds one
Free == {"started", "waiting", "settled", "retrying"}
Holding == {"asleep", "due", "gated", "looked"}

\* What the thread holds
TickState ==
    [pc : Free]
        \union [pc : {"asleep", "due", "gated"}, slot : Nat, interval : Nat, clockTime : Nat, slept : Nat]
        \union [pc : {"looked"}, slot : Nat, interval : Nat, clockTime : Nat, slept : Nat,
                on : SUBSET Shown]

\* The types
ScheduleTypes ==
    /\ clockTime \in Nat /\ slept \in Nat /\ revision \in Nat
    /\ screen \in SUBSET Shown
    /\ settings \in [enabled : BOOLEAN, interval : Interval, started : Nat]
    /\ private \in [paused : BOOLEAN, excluded : SUBSET Shown]
    /\ scheduler \in [key : {NoOne} \union ScheduleKey, next : Nat, clockTime : Nat,
                      slept : Nat, seen : Nat, from : Nat]
    /\ tick \in TickState

\* The slot in hand is the next one of the cycle, and was the latest that was due.
SlotInHand ==
    tick.pc \in Holding =>
        /\ scheduler.key # NoOne
        /\ tick.slot = scheduler.next /\ tick.interval = scheduler.key[2]
        /\ tick.clockTime < tick.slot + tick.interval

\* The next slot is one of the cycle.
OnCycle ==
    scheduler.key # NoOne => \E k \in Nat : scheduler.next = scheduler.key[1] + k * scheduler.key[2]

\* Every slot of the cycle up to the next one is told.
Told ==
    scheduler.key # NoOne =>
        \A s \in scheduler.from .. scheduler.next - 1 :
            (s - scheduler.key[1]) % scheduler.key[2] = 0 => s \in DOMAIN slots

\* When the thread goes to sleep it waits for a slot past the time it saw.
SleepsBefore ==
    scheduler.key # NoOne /\ tick.pc \in {"settled", "waiting"} => scheduler.clockTime < scheduler.next

SlotsInv == SlotInHand /\ OnCycle /\ Told /\ SleepsBefore

\* A slot of the cycle is a number of intervals after its start.
LEMMA SlotOfCycle ==
    ASSUME NEW start \in Nat, NEW d \in Nat \ {0}, NEW s \in Int, (s - start) % d = 0
    PROVE  \E j \in Int : s = start + j * d
<1>. DEFINE n == s - start
            j == n \div d
<1>1. n \in Int /\ n % d = 0 /\ s = start + n
  OBVIOUS
<1>. HIDE DEF n
<1>2. j \in Int /\ n = j * d + (n % d)
  BY <1>1, Division
<1>. HIDE DEF j
<1>3. j * d \in Int
  BY <1>2
<1>. QED
  BY <1>1, <1>2, <1>3

\* Between a slot of the cycle and the next lies no other.
LEMMA Consecutive ==
    ASSUME NEW start \in Nat, NEW d \in Nat \ {0}, NEW k \in Nat, NEW s \in Int, NEW next \in Nat,
           (s - start) % d = 0, next = start + k * d, next <= s, s < next + d
    PROVE  s = next
<1>1. PICK j \in Int : s = start + j * d
  BY SlotOfCycle
<1>2. j * d \in Int /\ k * d \in Int
  BY <1>1
<1>3. (k - 1) * d = k * d - d /\ (k + 1) * d = k * d + d
  OBVIOUS
<1>4. (k - 1) * d < j * d /\ j * d < (k + 1) * d
  BY <1>1, <1>2, <1>3
<1>5. k - 1 < j /\ j < k + 1
  BY <1>1, <1>4, Cancel
<1>6. j = k
  BY <1>1, <1>5
<1>. QED
  BY <1>1, <1>6

\* What is known of a cycle's start and interval
LEMMA KeyType ==
    ASSUME ScheduleTypes, scheduler.key # NoOne
    PROVE  scheduler.key[1] \in Nat /\ scheduler.key[2] \in Nat \ {0}
BY SnapshotScheduleAssumption DEF ScheduleTypes, ScheduleKey

\* What became of the slot in hand is recorded, and the next one is the next of the cycle.
LEMMA SlotToldStep ==
    ASSUME ScheduleTypes, SlotsInv, tick.pc \in Holding, NEW result, SlotTold(result)
    PROVE  /\ SlotsInv' /\ tick' \in TickState /\ tick'.pc \in Free
           /\ scheduler' \in [key : {NoOne} \union ScheduleKey, next : Nat, clockTime : Nat,
                              slept : Nat, seen : Nat, from : Nat]
           /\ scheduler'.key = scheduler.key /\ scheduler'.seen = scheduler.seen
           /\ tick'.pc # "waiting"
<1>1. CASE tick' = At("retrying") /\ UNCHANGED <<slots, scheduler>>
  BY <1>1 DEF ScheduleTypes, SlotsInv, SlotInHand, OnCycle, Told, SleepsBefore, TickState, At, Free,
     Holding
<1>2. CASE /\ slots' = WithSlot(slots, tick.slot, result)
           /\ scheduler' = [scheduler EXCEPT !.next = tick.slot + tick.interval,
                                             !.clockTime = tick.clockTime, !.slept = tick.slept]
           /\ tick' = At("settled")
  <2>1. /\ scheduler.key # NoOne /\ tick.slot = scheduler.next /\ tick.interval = scheduler.key[2]
        /\ tick.clockTime < tick.slot + tick.interval
    BY DEF SlotsInv, SlotInHand
  <2>. DEFINE start == scheduler.key[1]
              d == scheduler.key[2]
  <2>2. start \in Nat /\ d \in Nat \ {0}
    BY <2>1, KeyType
  <2>3. tick.clockTime \in Nat /\ tick.slept \in Nat /\ scheduler.next \in Nat /\ scheduler.from \in Nat
    BY DEF ScheduleTypes, TickState, Free, Holding
  <2>4. /\ scheduler'.key = scheduler.key /\ scheduler'.seen = scheduler.seen
        /\ scheduler'.from = scheduler.from
        /\ scheduler'.next = scheduler.next + d /\ scheduler'.clockTime = tick.clockTime
        /\ scheduler' \in [key : {NoOne} \union ScheduleKey, next : Nat, clockTime : Nat,
                           slept : Nat, seen : Nat, from : Nat]
    <3>. DEFINE next == scheduler.next + d
    <3>1. next \in Nat
      BY <2>2, <2>3
    <3>2. scheduler' = [scheduler EXCEPT !.next = next, !.clockTime = tick.clockTime,
                                         !.slept = tick.slept]
      BY <1>2, <2>1
    <3>3. scheduler \in [key : {NoOne} \union ScheduleKey, next : Nat, clockTime : Nat,
                         slept : Nat, seen : Nat, from : Nat]
      BY DEF ScheduleTypes
    <3>4. next = scheduler.next + d
      OBVIOUS
    <3>. HIDE DEF next, d
    <3>5. /\ scheduler'.key = scheduler.key /\ scheduler'.seen = scheduler.seen
          /\ scheduler'.from = scheduler.from
          /\ scheduler'.next = next /\ scheduler'.clockTime = tick.clockTime
      BY <3>2, <3>3
    <3>6. scheduler' \in [key : {NoOne} \union ScheduleKey, next : Nat, clockTime : Nat,
                          slept : Nat, seen : Nat, from : Nat]
      BY <2>3, <3>1, <3>2, <3>3
    <3>. QED
      BY <3>4, <3>5, <3>6
  <2>5. DOMAIN slots' = DOMAIN slots \union {scheduler.next}
    BY <1>2, <2>1 DEF WithSlot
  <2>6. tick' \in TickState /\ tick'.pc = "settled"
    BY <1>2 DEF TickState, At, Free
  <2>7. PICK k \in Nat : scheduler.next = start + k * d
    BY <2>1 DEF SlotsInv, OnCycle
  <2>8. OnCycle'
    <3>1. (k + 1) * d = k * d + d /\ k * d \in Int /\ k + 1 \in Nat
      BY <2>2
    <3>2. scheduler.next + d = start + (k + 1) * d
      BY <2>2, <2>3, <2>7, <3>1
    <3>. QED
      BY <2>4, <3>1, <3>2 DEF OnCycle
  <2>9. Told'
    <3>1. SUFFICES ASSUME NEW s \in scheduler.from .. (scheduler.next + d) - 1, (s - start) % d = 0
                   PROVE  s \in DOMAIN slots \union {scheduler.next}
      BY <2>4, <2>5 DEF Told
    <3>2. CASE s < scheduler.next
      <4>1. s \in scheduler.from .. scheduler.next - 1
        BY <2>2, <2>3, <3>1, <3>2
      <4>. QED
        BY <2>1, <3>1, <4>1 DEF SlotsInv, Told
    <3>3. CASE scheduler.next <= s
      <4>. HIDE DEF start, d
      <4>1. /\ s \in Int /\ scheduler.next <= s /\ s < scheduler.next + d
            /\ (s - start) % d = 0
        BY <2>2, <2>3, <3>1, <3>3 DEF start, d
      <4>2. s = scheduler.next
        BY <2>2, <2>3, <2>7, <4>1, Consecutive
      <4>. QED
        BY <4>2
    <3>. QED
      BY <2>3, <3>1, <3>2, <3>3
  <2>10. SleepsBefore'
    BY <2>1, <2>4 DEF SleepsBefore
  <2>11. SlotInHand'
    BY <2>6 DEF SlotInHand, Holding
  <2>. QED
    BY <2>4, <2>6, <2>8, <2>9, <2>10, <2>11 DEF SlotsInv, Free
<1>. QED
  BY <1>1, <1>2 DEF SlotTold

\* With nothing to take the thread takes up the cycle in force, or goes on waiting for
\* its next slot.
LEMMA TickIdleStep ==
    ASSUME ScheduleTypes, SlotsInv, TickIdle
    PROVE  /\ SlotsInv' /\ ScheduleTypes' /\ tick'.pc = "settled"
           /\ scheduler'.seen = scheduler.seen
           /\ scheduler'.key = IF settings.enabled THEN <<settings.started, settings.interval>>
                               ELSE NoOne
<1>. DEFINE Scheduler == [key : {NoOne} \union ScheduleKey, next : Nat, clockTime : Nat,
                          slept : Nat, seen : Nat, from : Nat]
<1>1. /\ scheduler \in Scheduler /\ clockTime \in Nat /\ slept \in Nat
      /\ settings.started \in Nat /\ settings.interval \in Interval /\ settings.enabled \in BOOLEAN
      /\ settings.interval \in Nat \ {0}
  BY SnapshotScheduleAssumption DEF ScheduleTypes
<1>2. Observed \in Scheduler /\ Observed.key = scheduler.key /\ Observed.next = scheduler.next
      /\ Observed.from = scheduler.from /\ Observed.seen = scheduler.seen
      /\ Observed.clockTime = clockTime
  BY <1>1 DEF Observed
<1>3. /\ tick' = At("settled") /\ tick' \in TickState /\ tick'.pc = "settled"
      /\ UNCHANGED <<clockTime, slept, screen, settings, private, revision, slots>>
  BY DEF TickIdle, At, TickState, Free
<1>4. SlotInHand'
  BY <1>3 DEF SlotInHand, Holding
<1>5. CASE ~settings.enabled /\ scheduler' = [Observed EXCEPT !.key = NoOne]
  <2>1. scheduler' \in Scheduler /\ scheduler'.key = NoOne /\ scheduler'.seen = scheduler.seen
    BY <1>2, <1>5
  <2>. QED
    BY <1>3, <1>4, <1>5, <2>1 DEF ScheduleTypes, SlotsInv, OnCycle, Told, SleepsBefore
<1>6. CASE settings.enabled /\ scheduler.key = <<settings.started, settings.interval>>
           /\ clockTime < scheduler.next /\ scheduler' = Observed
  BY <1>2, <1>3, <1>4, <1>6 DEF ScheduleTypes, SlotsInv, OnCycle, Told, SleepsBefore
<1>7. ASSUME settings.enabled,
             scheduler' = [Observed EXCEPT
                             !.key = <<settings.started, settings.interval>>,
                             !.next = NextBoundary(settings.started, settings.interval),
                             !.from = NextBoundary(settings.started, settings.interval)]
      PROVE  SlotsInv' /\ ScheduleTypes' /\ scheduler'.seen = scheduler.seen
             /\ scheduler'.key = <<settings.started, settings.interval>>
  <2>. DEFINE next == NextBoundary(settings.started, settings.interval)
              key == <<settings.started, settings.interval>>
  <2>1. /\ next \in Nat /\ clockTime < next
        /\ \E k \in Nat : next = settings.started + k * settings.interval
    BY <1>1, Boundary
  <2>2. key \in ScheduleKey /\ key[1] = settings.started /\ key[2] = settings.interval
    BY <1>1 DEF ScheduleKey
  <2>3. scheduler' = [Observed EXCEPT !.key = key, !.next = next, !.from = next]
    BY <1>7
  <2>8. key = <<settings.started, settings.interval>>
    OBVIOUS
  <2>. HIDE DEF next, key
  <2>4. /\ scheduler' \in Scheduler /\ scheduler'.key = key /\ scheduler'.next = next
        /\ scheduler'.from = next /\ scheduler'.seen = scheduler.seen
        /\ scheduler'.clockTime = clockTime
    BY <1>2, <2>1, <2>2, <2>3
  <2>5. OnCycle'
    BY <2>1, <2>2, <2>4 DEF OnCycle
  <2>6. Told'
    <3>1. next .. next - 1 = {}
      BY <2>1
    <3>. QED
      BY <2>4, <3>1 DEF Told
  <2>7. SleepsBefore'
    BY <2>1, <2>4 DEF SleepsBefore
  <2>. QED
    BY <1>3, <1>4, <2>4, <2>5, <2>6, <2>7, <2>8 DEF ScheduleTypes, SlotsInv
<1>. QED
  BY <1>3, <1>5, <1>6, <1>7, <1>2 DEF TickIdle

\* With a slot that is due those before the latest are recorded as missed.
LEMMA TickDueStep ==
    ASSUME ScheduleTypes, SlotsInv, TickDue
    PROVE  /\ SlotsInv' /\ ScheduleTypes' /\ tick'.pc \in {"asleep", "due", "retrying"}
           /\ scheduler'.seen = scheduler.seen /\ scheduler'.key = scheduler.key
           /\ scheduler.key = <<settings.started, settings.interval>>
<1>. DEFINE Scheduler == [key : {NoOne} \union ScheduleKey, next : Nat, clockTime : Nat,
                          slept : Nat, seen : Nat, from : Nat]
            d == settings.interval
<1>1. /\ scheduler \in Scheduler /\ clockTime \in Nat /\ slept \in Nat
      /\ settings.started \in Nat /\ settings.interval \in Nat \ {0} /\ settings.enabled \in BOOLEAN
      /\ settings.interval \in Interval
      /\ scheduler.next \in Nat /\ scheduler.from \in Nat
  BY SnapshotScheduleAssumption DEF ScheduleTypes
<1>2. /\ tick.pc = "started" /\ settings.enabled
      /\ scheduler.key = <<settings.started, settings.interval>> /\ scheduler.next <= clockTime
      /\ UNCHANGED <<clockTime, slept, screen, settings, private, revision>>
  BY <1>1 DEF TickDue, Due
<1>3. /\ scheduler.key # NoOne /\ scheduler.key[1] = settings.started
      /\ scheduler.key[2] = settings.interval
  BY <1>1, <1>2, NoOneAssumption DEF ScheduleKey
<1>4. CASE tick' = At("retrying") /\ UNCHANGED <<slots, scheduler>>
  BY <1>2, <1>4 DEF ScheduleTypes, SlotsInv, SlotInHand, OnCycle, Told, SleepsBefore, TickState, At,
     Free, Holding
<1>5. CASE /\ slots' = [s \in DOMAIN slots \union Missed |->
                          IF s \in DOMAIN slots THEN slots[s] ELSE "missing"]
           /\ tick' = [pc |-> IF SleptPast THEN "asleep" ELSE "due", slot |-> LatestDue,
                       interval |-> settings.interval, clockTime |-> clockTime, slept |-> slept]
           /\ scheduler' = [scheduler EXCEPT !.next = LatestDue]
  <2>. DEFINE last == LatestDue
  <2>1. PICK q \in Nat :
              /\ last = scheduler.next + q * settings.interval
              /\ last \in Nat /\ last <= clockTime /\ clockTime < last + settings.interval
              /\ Missed = {scheduler.next + k * settings.interval : k \in 0 .. q - 1}
    BY <1>1, <1>2, Latest
  <2>2. PICK k \in Nat : scheduler.next = settings.started + k * settings.interval
    BY <1>3 DEF SlotsInv, OnCycle
  <2>3. scheduler' = [scheduler EXCEPT !.next = last]
    BY <1>5
  <2>4. /\ tick' \in [pc : {"asleep", "due", "gated"}, slot : Nat, interval : Nat, clockTime : Nat,
                      slept : Nat]
        /\ tick'.slot = last /\ tick'.interval = settings.interval /\ tick'.clockTime = clockTime
        /\ tick'.pc \in {"asleep", "due"}
    <3>. DEFINE pc == IF SleptPast THEN "asleep" ELSE "due"
    <3>1. pc \in {"asleep", "due"}
      OBVIOUS
    <3>2. tick' = [pc |-> pc, slot |-> last, interval |-> settings.interval,
                   clockTime |-> clockTime, slept |-> slept]
      BY <1>5
    <3>3. last \in Nat
      BY <2>1
    <3>. HIDE DEF pc, last
    <3>. QED
      BY <1>1, <3>1, <3>2, <3>3
  <2>5. DOMAIN slots' = DOMAIN slots \union Missed
    BY <1>5
  <2>12. last \in Nat
    BY <2>1
  <2>. HIDE DEF last
  <2>6. /\ scheduler' \in Scheduler /\ scheduler'.key = scheduler.key
        /\ scheduler'.next = last /\ scheduler'.from = scheduler.from
        /\ scheduler'.seen = scheduler.seen /\ scheduler'.clockTime = scheduler.clockTime
    BY <1>1, <2>3, <2>12
  <2>7. OnCycle'
    <3>1. (k + q) * d = k * d + q * d /\ k * d \in Int /\ q * d \in Int /\ k + q \in Nat
      BY <1>1
    <3>2. last = settings.started + (k + q) * d
      BY <1>1, <2>1, <2>2, <3>1
    <3>. QED
      BY <1>3, <2>6, <3>1, <3>2 DEF OnCycle
  <2>8. Told'
    <3>1. SUFFICES ASSUME NEW s \in scheduler.from .. last - 1, (s - settings.started) % d = 0
                   PROVE  s \in DOMAIN slots \union Missed
      BY <1>3, <2>5, <2>6 DEF Told
    <3>2. CASE s < scheduler.next
      <4>1. s \in scheduler.from .. scheduler.next - 1
        BY <1>1, <2>12, <3>1, <3>2
      <4>. QED
        BY <1>3, <3>1, <4>1 DEF SlotsInv, Told
    <3>3. CASE scheduler.next <= s
      <4>. DEFINE start == settings.started
      <4>1. s \in Int /\ (s - start) % d = 0 /\ start \in Nat /\ d \in Nat \ {0}
        BY <1>1, <2>12, <3>1
      <4>2. scheduler.next <= s /\ s < scheduler.next + q * d
        BY <2>1, <2>12, <3>1, <3>3
      <4>3. scheduler.next = start + k * d
        BY <2>2
      <4>4. k \in Nat /\ q \in Nat /\ scheduler.next \in Nat
        BY <1>1, <2>1, <2>2
      <4>. HIDE DEF start, d
      <4>5. PICK j \in Int : s = start + j * d
        BY <4>1, SlotOfCycle
      <4>6. j * d \in Int /\ k * d \in Int /\ q * d \in Int
        BY <4>1, <4>4, <4>5
      <4>7. (k - 1) * d = k * d - d /\ (k + q) * d = k * d + q * d
        BY <4>1, <4>4
      <4>8. (k - 1) * d < j * d /\ j * d < (k + q) * d
        BY <4>1, <4>2, <4>3, <4>4, <4>5, <4>6, <4>7
      <4>9. k - 1 < j /\ j < k + q
        BY <4>1, <4>4, <4>5, <4>8, Cancel
      <4>10. j - k \in 0 .. q - 1
        BY <4>4, <4>5, <4>9
      <4>11. (j - k) * d = j * d - k * d
        BY <4>1, <4>4, <4>5
      <4>12. s = scheduler.next + (j - k) * d
        BY <4>1, <4>3, <4>4, <4>5, <4>6, <4>11
      <4>. QED
        BY <2>1, <4>10, <4>12 DEF d
    <3>. QED
      BY <1>1, <2>12, <3>1, <3>2, <3>3
  <2>9. SleepsBefore'
    BY <2>4 DEF SleepsBefore
  <2>10. SlotInHand'
    BY <1>3, <2>1, <2>4, <2>6 DEF SlotInHand
  <2>11. ScheduleTypes'
    BY <1>2, <2>4, <2>6 DEF ScheduleTypes, TickState
  <2>. QED
    BY <1>2, <2>4, <2>6, <2>7, <2>8, <2>9, <2>10, <2>11 DEF SlotsInv
<1>. QED
  BY <1>2, <1>4, <1>5 DEF TickDue, At

(***************************************************************************)
(* The gate, and what wakes the thread                                     *)
(***************************************************************************)

\* From the gate to the picture no pause or exclusion is set.
GateInv ==
    /\ tick.pc \in {"gated", "looked"} => gate = "scheduler"
    /\ tick.pc = "looked" => ~private.paused
    /\ NothingPrivate

\* The cycle in force
InForce == IF settings.enabled THEN <<settings.started, settings.interval>> ELSE NoOne

\* Unless the thread is to look at the settings anyway, or they were changed since it
\* did, it has the cycle in force.
AwakeInv ==
    /\ scheduler.seen <= revision
    /\ tick.pc \in Holding \union {"settled", "waiting"} /\ scheduler.seen = revision
            /\ gate # "settings"
        => scheduler.key = InForce

ScheduleInv == ScheduleTypes /\ SlotsInv /\ GateInv /\ AwakeInv

\* Initially nothing is told and nothing is due.
LEMMA ScheduleInitInv == ScheduleInit => ScheduleInv
<1>. SUFFICES ASSUME ScheduleInit PROVE ScheduleInv
  OBVIOUS
<1>1. ScheduleTypes
  BY DEF ScheduleInit, ScheduleTypes, TickState, Free, At
<1>2. scheduler.key = NoOne /\ tick.pc = "started" /\ scheduler.seen = revision /\ shots = {}
      /\ revision = 0
  BY DEF ScheduleInit, At
<1>. QED
  BY <1>1, <1>2
  DEF ScheduleInv, SlotsInv, SlotInHand, OnCycle, Told, SleepsBefore, GateInv, AwakeInv,
      NothingPrivate, Holding

\* What the desktop and the user do leaves the thread where it is; a change of the
\* settings holds the gate until it has woken the thread.
LEMMA DesktopStep ==
    ASSUME ScheduleInv, UNCHANGED <<scheduler, tick, slots, shots>>,
           \/ WallTick
           \/ \E n \in 1 .. MaxTime : Sleep(n) \/ SetBackWall(n)
           \/ \E s \in SUBSET Shown : ScreenChanges(s)
           \/ TakeGate \/ LeaveGate
           \/ \E enabled \in BOOLEAN, interval \in Interval : SetSettings(enabled, interval)
           \/ Wake
           \/ \E p \in [paused : BOOLEAN, excluded : SUBSET Shown] : SetPrivate(p)
    PROVE  ScheduleInv'
<1>. USE DEF ScheduleInv
<1>1. SlotsInv'
  BY DEF SlotsInv, SlotInHand, OnCycle, Told, SleepsBefore
<1>2. NothingPrivate'
  BY DEF GateInv, NothingPrivate
<1>3. scheduler.seen \in Nat /\ revision \in Nat
  BY DEF ScheduleTypes
<1>4. CASE WallTick
  <2>1. ScheduleTypes'
    BY <1>4 DEF WallTick, ScheduleTypes
  <2>. QED
    BY <1>1, <1>2, <1>4, <2>1 DEF WallTick, GateInv, AwakeInv, InForce
<1>5. ASSUME NEW n \in 1 .. MaxTime, Sleep(n) PROVE ScheduleInv'
  <2>1. ScheduleTypes'
    BY <1>5, SnapshotScheduleAssumption DEF Sleep, ScheduleTypes
  <2>. QED
    BY <1>1, <1>2, <1>3, <1>5, <2>1 DEF Sleep, GateInv, AwakeInv, InForce
<1>6. ASSUME NEW n \in 1 .. MaxTime, SetBackWall(n) PROVE ScheduleInv'
  <2>1. ScheduleTypes'
    BY <1>6, SnapshotScheduleAssumption DEF SetBackWall, ScheduleTypes
  <2>. QED
    BY <1>1, <1>2, <1>3, <1>6, <2>1 DEF SetBackWall, GateInv, AwakeInv, InForce
<1>7. ASSUME NEW s \in SUBSET Shown, ScreenChanges(s) PROVE ScheduleInv'
  BY <1>1, <1>2, <1>7 DEF ScreenChanges, ScheduleTypes, GateInv, AwakeInv, InForce
<1>8. CASE TakeGate
  <2>1. gate = NoOne /\ gate' = "user" /\ ScheduleTypes'
    BY <1>8 DEF TakeGate, ScheduleTypes
  <2>2. gate # "scheduler" /\ gate # "settings"
    BY <2>1, NoOneAssumption
  <2>. QED
    BY <1>1, <1>2, <1>8, <2>1, <2>2 DEF TakeGate, GateInv, AwakeInv, InForce
<1>9. CASE LeaveGate
  BY <1>1, <1>2, <1>9, NoOneAssumption
  DEF LeaveGate, ScheduleTypes, GateInv, AwakeInv, InForce
<1>10. ASSUME NEW enabled \in BOOLEAN, NEW interval \in Interval, SetSettings(enabled, interval)
       PROVE  ScheduleInv'
  <2>1. gate = NoOne /\ gate' = "settings" /\ UNCHANGED <<private, revision>>
    BY <1>10 DEF SetSettings
  <2>2. ScheduleTypes'
    BY <1>10 DEF SetSettings, ScheduleTypes
  <2>3. gate # "scheduler"
    BY <2>1, NoOneAssumption
  <2>. QED
    BY <1>1, <1>2, <2>1, <2>2, <2>3 DEF GateInv, AwakeInv
<1>11. CASE Wake
  <2>1. ScheduleTypes' /\ gate = "settings" /\ revision' = revision + 1 /\ UNCHANGED private
    BY <1>11 DEF Wake, ScheduleTypes
  <2>. QED
    BY <1>1, <1>2, <1>3, <2>1 DEF GateInv, AwakeInv
<1>12. ASSUME NEW p \in [paused : BOOLEAN, excluded : SUBSET Shown], SetPrivate(p) PROVE ScheduleInv'
  <2>1. gate = NoOne /\ ScheduleTypes' /\ UNCHANGED <<gate, revision, settings>>
    BY <1>12 DEF SetPrivate, ScheduleTypes
  <2>2. tick.pc \notin {"gated", "looked"}
    BY <2>1, NoOneAssumption DEF GateInv
  <2>. QED
    BY <1>1, <1>2, <2>1, <2>2 DEF GateInv, AwakeInv, InForce
<1>. QED
  BY <1>4, <1>5, <1>6, <1>7, <1>8, <1>9, <1>10, <1>11, <1>12

\* The thread gives up the slot in hand, and the gate with it.
LEMMA SlotToldInv ==
    ASSUME ScheduleInv, tick.pc \in Holding, NEW result, SlotTold(result),
           gate' \in {gate, NoOne}, gate = "settings" => gate' = gate, NothingPrivate',
           UNCHANGED <<clockTime, slept, screen, settings, private, revision>>
    PROVE  ScheduleInv'
<1>. USE DEF ScheduleInv
<1>1. /\ SlotsInv' /\ tick' \in TickState /\ tick'.pc \in Free
      /\ scheduler' \in [key : {NoOne} \union ScheduleKey, next : Nat, clockTime : Nat,
                         slept : Nat, seen : Nat, from : Nat]
      /\ scheduler'.key = scheduler.key /\ scheduler'.seen = scheduler.seen
  BY SlotToldStep
<1>2. ScheduleTypes'
  BY <1>1 DEF ScheduleTypes
<1>3. GateInv'
  BY <1>1 DEF GateInv, Free
<1>4. AwakeInv'
  BY <1>1 DEF AwakeInv, InForce
<1>. QED
  BY <1>1, <1>2, <1>3, <1>4

\* Every step of the thread keeps the invariant.
LEMMA ThreadStep ==
    ASSUME ScheduleInv,
           \/ ReadRevision \/ Wait \/ TickIdle \/ TickDue \/ RecordSleep \/ TryGate
           \/ CapturePaused \/ CaptureLook \/ CaptureShoot
    PROVE  ScheduleInv'
<1>. USE DEF ScheduleInv
<1>1. CASE ReadRevision
  <2>1. /\ tick' = At("started") /\ scheduler' = [scheduler EXCEPT !.seen = revision]
        /\ UNCHANGED <<clockTime, slept, screen, settings, private, gate, revision, slots, shots>>
    BY <1>1 DEF ReadRevision
  <2>2. ScheduleTypes' /\ tick'.pc = "started"
    BY <2>1 DEF ScheduleTypes, TickState, At, Free
  <2>3. /\ scheduler'.key = scheduler.key /\ scheduler'.next = scheduler.next
        /\ scheduler'.from = scheduler.from /\ scheduler'.seen = revision
    BY <2>1 DEF ScheduleTypes
  <2>4. revision \in Nat
    BY DEF ScheduleTypes
  <2>. QED
    BY <2>1, <2>2, <2>3, <2>4
    DEF SlotsInv, SlotInHand, OnCycle, Told, SleepsBefore, GateInv, AwakeInv, NothingPrivate, Holding
<1>2. CASE Wait
  <2>1. /\ tick' = At("waiting") /\ tick'.pc = "waiting" /\ tick.pc = "settled"
        /\ UNCHANGED <<clockTime, slept, screen, settings, private, gate, revision, scheduler,
                       slots, shots>>
    BY <1>2 DEF Wait, At
  <2>2. ScheduleTypes'
    BY <2>1 DEF ScheduleTypes, TickState, At, Free
  <2>. QED
    BY <2>1, <2>2
    DEF SlotsInv, SlotInHand, OnCycle, Told, SleepsBefore, GateInv, AwakeInv, NothingPrivate,
        Holding, InForce
<1>3. CASE TickIdle
  <2>1. /\ SlotsInv' /\ ScheduleTypes' /\ tick'.pc = "settled"
        /\ scheduler'.seen = scheduler.seen /\ scheduler'.key = InForce
    BY <1>3, TickIdleStep DEF InForce
  <2>2. UNCHANGED <<settings, private, gate, revision, shots>>
    BY <1>3 DEF TickIdle
  <2>. QED
    BY <2>1, <2>2 DEF GateInv, AwakeInv, NothingPrivate, InForce
<1>4. CASE TickDue
  <2>1. /\ SlotsInv' /\ ScheduleTypes' /\ tick'.pc \in {"asleep", "due", "retrying"}
        /\ scheduler'.seen = scheduler.seen /\ scheduler'.key = <<settings.started, settings.interval>>
    BY <1>4, TickDueStep
  <2>2. UNCHANGED <<settings, private, gate, revision, shots>> /\ settings.enabled
    BY <1>4 DEF TickDue, Due
  <2>. QED
    BY <2>1, <2>2 DEF GateInv, AwakeInv, NothingPrivate, InForce, Holding
<1>5. CASE RecordSleep
  <2>1. /\ tick.pc \in Holding /\ SlotTold("missing") /\ UNCHANGED <<gate, shots>>
        /\ UNCHANGED <<clockTime, slept, screen, settings, private, revision>>
    BY <1>5 DEF RecordSleep, Holding
  <2>2. NothingPrivate'
    BY <2>1 DEF GateInv, NothingPrivate
  <2>. QED
    BY <2>1, <2>2, SlotToldInv
<1>6. CASE TryGate
  <2>1. /\ tick.pc = "due" /\ UNCHANGED <<clockTime, slept, screen, settings, private, revision, shots>>
    BY <1>6 DEF TryGate
  <2>2. NothingPrivate'
    BY <2>1 DEF GateInv, NothingPrivate
  <2>3. CASE gate # NoOne
    BY <1>6, <2>1, <2>2, <2>3, SlotToldInv DEF TryGate, Holding
  <2>4. CASE gate = NoOne
    <3>1. /\ gate' = "scheduler" /\ tick' = [tick EXCEPT !.pc = "gated"]
          /\ UNCHANGED <<slots, scheduler>>
      BY <1>6, <2>4 DEF TryGate
    <3>2. tick \in [pc : {"asleep", "due", "gated"}, slot : Nat, interval : Nat, clockTime : Nat,
                    slept : Nat]
      BY <2>1 DEF ScheduleTypes, TickState, Free
    <3>3. /\ tick' \in TickState /\ tick'.pc = "gated" /\ tick'.slot = tick.slot
          /\ tick'.interval = tick.interval /\ tick'.clockTime = tick.clockTime
      BY <3>1, <3>2 DEF TickState
    <3>4. ScheduleTypes'
      BY <2>1, <3>1, <3>3 DEF ScheduleTypes
    <3>5. SlotsInv'
      BY <2>1, <3>1, <3>3
      DEF SlotsInv, SlotInHand, OnCycle, Told, SleepsBefore, Holding
    <3>6. GateInv'
      BY <2>2, <3>1, <3>3 DEF GateInv
    <3>7. gate # "settings" /\ tick.pc \in Holding
      BY <2>1, <2>4, NoOneAssumption DEF Holding
    <3>8. AwakeInv'
      BY <2>1, <3>1, <3>7 DEF AwakeInv, InForce
    <3>. QED
      BY <3>4, <3>5, <3>6, <3>8
  <2>. QED
    BY <2>3, <2>4
<1>7. CASE CapturePaused
  <2>1. /\ tick.pc = "gated" /\ SlotTold("missing") /\ gate' = NoOne /\ UNCHANGED shots
        /\ UNCHANGED <<clockTime, slept, screen, settings, private, revision>>
    BY <1>7 DEF CapturePaused
  <2>2. NothingPrivate' /\ gate # "settings" /\ tick.pc \in Holding
    BY <2>1 DEF GateInv, NothingPrivate, Holding
  <2>. QED
    BY <2>1, <2>2, SlotToldInv
<1>8. CASE CaptureLook
  <2>1. /\ tick.pc = "gated" /\ ~private.paused
        /\ UNCHANGED <<clockTime, slept, screen, settings, private, revision, shots>>
    BY <1>8 DEF CaptureLook
  <2>2. NothingPrivate' /\ gate = "scheduler" /\ tick.pc \in Holding
    BY <2>1 DEF GateInv, NothingPrivate, Holding
  <2>3. CASE screen = {}
    BY <1>8, <2>1, <2>2, <2>3, SlotToldInv DEF CaptureLook
  <2>4. CASE screen # {}
    <3>1. /\ tick' = [pc |-> "looked", slot |-> tick.slot, interval |-> tick.interval,
                      clockTime |-> tick.clockTime, slept |-> tick.slept, on |-> screen]
          /\ UNCHANGED <<slots, scheduler, gate>>
      BY <1>8, <2>4 DEF CaptureLook
    <3>2. tick \in [pc : {"asleep", "due", "gated"}, slot : Nat, interval : Nat, clockTime : Nat,
                    slept : Nat]
      BY <2>1 DEF ScheduleTypes, TickState, Free
    <3>3. /\ tick' \in TickState /\ tick'.pc = "looked" /\ tick'.slot = tick.slot
          /\ tick'.interval = tick.interval /\ tick'.clockTime = tick.clockTime
      BY <3>1, <3>2 DEF TickState, ScheduleTypes
    <3>4. ScheduleTypes'
      BY <2>1, <3>1, <3>3 DEF ScheduleTypes
    <3>5. SlotsInv'
      BY <2>2, <3>1, <3>3
      DEF SlotsInv, SlotInHand, OnCycle, Told, SleepsBefore, Holding
    <3>6. GateInv'
      BY <2>1, <2>2, <3>1, <3>3 DEF GateInv
    <3>7. AwakeInv'
      BY <2>1, <2>2, <3>1 DEF AwakeInv, InForce
    <3>. QED
      BY <3>4, <3>5, <3>6, <3>7
  <2>. QED
    BY <2>3, <2>4
<1>9. CASE CaptureShoot
  <2>1. /\ tick.pc = "looked" /\ gate' = NoOne
        /\ UNCHANGED <<clockTime, slept, screen, settings, private, revision>>
    BY <1>9 DEF CaptureShoot
  <2>2. gate # "settings" /\ tick.pc \in Holding /\ ~private.paused
    BY <2>1 DEF GateInv, Holding
  <2>3. PICK result \in {"missing", "picture"} : SlotTold(result)
    BY <1>9 DEF CaptureShoot
  <2>4. NothingPrivate'
    <3>1. CASE UNCHANGED shots
      BY <3>1 DEF GateInv, NothingPrivate
    <3>2. CASE ~UNCHANGED shots
      <4>1. /\ tick.on \intersect private.excluded = {}
            /\ shots' = shots \union
                 {[slot |-> tick.slot, paused |-> private.paused,
                   private |-> (screen \intersect tick.on \intersect private.excluded) # {}]}
        BY <1>9, <3>2 DEF CaptureShoot
      <4>2. screen \intersect tick.on \intersect private.excluded = {}
        BY <4>1
      <4>. DEFINE shot == [slot |-> tick.slot, paused |-> private.paused,
                          private |-> (screen \intersect tick.on \intersect private.excluded) # {}]
      <4>3. ~shot.paused /\ ~shot.private
        BY <2>2, <4>2
      <4>4. shots' = shots \union {shot}
        BY <4>1
      <4>. HIDE DEF shot
      <4>. QED
        BY <4>3, <4>4 DEF GateInv, NothingPrivate
    <3>. QED
      BY <3>1, <3>2
  <2>. QED
    BY <2>1, <2>2, <2>3, <2>4, SlotToldInv
<1>. QED
  BY <1>1, <1>2, <1>3, <1>4, <1>5, <1>6, <1>7, <1>8, <1>9

\* A step of the schedule keeps the invariant.
LEMMA ScheduleStep == ScheduleInv /\ [ScheduleNext]_svars => ScheduleInv'
<1>. SUFFICES ASSUME ScheduleInv, [ScheduleNext]_svars PROVE ScheduleInv'
  OBVIOUS
<1>1. CASE UNCHANGED svars
  BY <1>1
  DEF svars, ScheduleInv, ScheduleTypes, SlotsInv, SlotInHand, OnCycle, Told, SleepsBefore, GateInv,
      AwakeInv, NothingPrivate, InForce
<1>2. CASE ScheduleNext
  <2>1. CASE \/ ReadRevision \/ Wait \/ TickIdle \/ TickDue \/ RecordSleep \/ TryGate
             \/ CapturePaused \/ CaptureLook \/ CaptureShoot
    BY <2>1, ThreadStep
  <2>2. CASE \/ WallTick
             \/ \E n \in 1 .. MaxTime : Sleep(n) \/ SetBackWall(n)
             \/ \E s \in SUBSET Shown : ScreenChanges(s)
             \/ TakeGate \/ LeaveGate
             \/ \E enabled \in BOOLEAN, interval \in Interval : SetSettings(enabled, interval)
             \/ Wake
             \/ \E p \in [paused : BOOLEAN, excluded : SUBSET Shown] : SetPrivate(p)
    <3>1. UNCHANGED <<scheduler, tick, slots, shots>>
      BY <2>2
      DEF WallTick, Sleep, SetBackWall, ScreenChanges, TakeGate, LeaveGate, SetSettings, Wake, SetPrivate
    <3>. QED
      BY <2>2, <3>1, DesktopStep
  <2>. QED
    BY <1>2, <2>1, <2>2 DEF ScheduleNext
<1>. QED
  BY <1>1, <1>2

\* The invariant holds of every state.
THEOREM ScheduleAlwaysInv == ScheduleSpec => []ScheduleInv
BY ScheduleInitInv, ScheduleStep, PTL DEF ScheduleSpec

\* Scheduler::tick (snapshot.rs): whatever the clock, sleep, errors and other tasks do,
\* every slot of the cycle that has passed is accounted for, by a picture or a reason.
THEOREM EverySlotAlwaysTold == ScheduleSpec => []EverySlotTold
<1>1. ScheduleInv => EverySlotTold
  BY DEF ScheduleInv, SlotsInv, Told, SleepsBefore, EverySlotTold
<1>. QED
  BY <1>1, ScheduleAlwaysInv, PTL

\* capture_slot (snapshot.rs) under the gate for heavy tasks: no picture is taken in a
\* pause that is acknowledged, nor of an excluded application that was on screen.
THEOREM AlwaysNothingPrivate == ScheduleSpec => []NothingPrivate
<1>1. ScheduleInv => NothingPrivate
  BY DEF ScheduleInv, GateInv
<1>. QED
  BY <1>1, ScheduleAlwaysInv, PTL

\* SchedulerWake (snapshot.rs): the thread does not sleep through a change of the settings.
THEOREM NeverAsleepOnOldSettings == ScheduleSpec => []NotAsleepOnOldSettings
<1>1. ScheduleInv => NotAsleepOnOldSettings
  BY DEF ScheduleInv, AwakeInv, InForce, NotAsleepOnOldSettings
<1>. QED
  BY <1>1, ScheduleAlwaysInv, PTL

(***************************************************************************)
(* InputCounts: sums of counts.  A sum is the number of the units counted, *)
(* so that what is known of finite sets tells how sums add up.             *)
(***************************************************************************)

\* A set of natural numbers has a least.
LEMMA LeastNatural ==
  ASSUME NEW T \in SUBSET Nat, T # {}
  PROVE  \E x \in T : \A y \in T : x <= y
<1>1. PICK x \in T : \A y \in T : ~(<<y, x>> \in OpToRel(<, Nat))
  BY NatLessThanWellFounded, WFMin
<1>2. \A y \in T : ~(y < x)
  BY <1>1 DEF OpToRel
<1>. QED
  BY <1>2

\* Sets that share no member have the cardinality of both together.
LEMMA DisjointUnion ==
  ASSUME NEW S, NEW T, IsFiniteSet(S), IsFiniteSet(T), S \intersect T = {}
  PROVE  /\ IsFiniteSet(S \union T)
         /\ Cardinality(S \union T) = Cardinality(S) + Cardinality(T)
<1>1. /\ IsFiniteSet(S \union T)
      /\ Cardinality(S \union T) = Cardinality(S) + Cardinality(T) - Cardinality(S \intersect T)
  BY FS_Union
<1>2. Cardinality(S \intersect T) = 0
  BY FS_EmptySet
<1>3. PICK m \in Nat : m = Cardinality(S)
  BY FS_CardinalityType
<1>4. PICK n \in Nat : n = Cardinality(T)
  BY FS_CardinalityType
<1>. QED
  BY <1>1, <1>2, <1>3, <1>4

\* What a function counts of the members of S
Counts(f, S) == IsFiniteSet(S) /\ \A x \in S : f[x] \in Nat

\* There are finitely many units.
LEMMA UnitsFinite ==
  ASSUME NEW f, NEW S, Counts(f, S)
  PROVE  IsFiniteSet(Units(f, S)) /\ SumOver(f, S) \in Nat
<1>. DEFINE g == [x \in S |-> {x} \X (1 .. f[x])]
<1>1. g \in Surjection(S, {{x} \X (1 .. f[x]) : x \in S})
  BY DEF Surjection
<1>2. IsFiniteSet({{x} \X (1 .. f[x]) : x \in S})
  BY <1>1, FS_Surjection DEF Counts
<1>3. \A T \in {{x} \X (1 .. f[x]) : x \in S} : IsFiniteSet(T)
  <2>. SUFFICES ASSUME NEW x \in S PROVE IsFiniteSet({x} \X (1 .. f[x]))
    OBVIOUS
  <2>1. IsFiniteSet(1 .. f[x])
    BY FS_Interval DEF Counts
  <2>2. IsFiniteSet({x})
    BY FS_Singleton
  <2>. QED
    BY <2>1, <2>2, FS_Product
<1>4. IsFiniteSet(Units(f, S))
  BY <1>2, <1>3, FS_UNION DEF Units
<1>. QED
  BY <1>4, FS_CardinalityType DEF SumOver

\* The members of a set that are not in another one add up by themselves.
LEMMA SumDisjoint ==
  ASSUME NEW f, NEW S, NEW T, Counts(f, S), Counts(f, T), S \intersect T = {}
  PROVE  Counts(f, S \union T) /\ SumOver(f, S \union T) = SumOver(f, S) + SumOver(f, T)
<1>1. Units(f, S \union T) = Units(f, S) \union Units(f, T)
  BY DEF Units
<1>2. Units(f, S) \intersect Units(f, T) = {}
  BY DEF Units
<1>3. IsFiniteSet(Units(f, S)) /\ IsFiniteSet(Units(f, T))
  BY UnitsFinite
<1>6. Cardinality(Units(f, S) \union Units(f, T)) = Cardinality(Units(f, S)) + Cardinality(Units(f, T))
  BY <1>2, <1>3, DisjointUnion
<1>7. IsFiniteSet(S \union T)
  BY FS_Union DEF Counts
<1>. QED
  BY <1>1, <1>6, <1>7 DEF SumOver, Counts

\* The sum over one member, and over none
LEMMA SumSingle ==
  ASSUME NEW f, NEW x, f[x] \in Nat
  PROVE  Counts(f, {x}) /\ SumOver(f, {x}) = f[x]
<1>1. Units(f, {x}) = {x} \X (1 .. f[x])
  BY DEF Units
<1>2. IsFiniteSet({x}) /\ Cardinality({x}) = 1
  BY FS_Singleton
<1>3. IsFiniteSet(1 .. f[x]) /\ Cardinality(1 .. f[x]) = f[x]
  BY FS_Interval
<1>4. Cardinality({x} \X (1 .. f[x])) = Cardinality({x}) * Cardinality(1 .. f[x])
  BY <1>2, <1>3, FS_Product
<1>5. 1 * f[x] = f[x]
  OBVIOUS
<1>. QED
  BY <1>1, <1>2, <1>3, <1>4, <1>5 DEF SumOver, Counts

\* What counts nothing is nothing.
LEMMA SumNone ==
  ASSUME NEW f
  PROVE  Counts(f, {}) /\ SumOver(f, {}) = 0
<1>1. Units(f, {}) = {}
  BY DEF Units
<1>. QED
  BY <1>1, FS_EmptySet DEF SumOver, Counts

\* Equal counts have equal sums, also over more members that count for nothing.
LEMMA SumSame ==
  ASSUME NEW f, NEW g, NEW S, NEW T, Counts(f, S), S \subseteq T,
         \A x \in S : g[x] = f[x],
         \A x \in T \ S : g[x] = 0
  PROVE  SumOver(g, T) = SumOver(f, S)
<1>1. \A x \in T \ S : 1 .. g[x] = {}
  OBVIOUS
<1>2. Units(g, T) = Units(f, S)
  BY <1>1 DEF Units
<1>. QED
  BY <1>2 DEF SumOver

\* More counts of more members have no lesser sum.
LEMMA SumMore ==
  ASSUME NEW f, NEW g, NEW S, NEW T, Counts(f, S), Counts(g, T), S \subseteq T,
         \A x \in S : f[x] <= g[x]
  PROVE  SumOver(f, S) <= SumOver(g, T)
<1>1. \A x \in S : 1 .. f[x] \subseteq 1 .. g[x]
  BY DEF Counts
<1>2. Units(f, S) \in SUBSET Units(g, T)
  BY <1>1 DEF Units
<1>3. IsFiniteSet(Units(g, T))
  BY UnitsFinite
<1>. QED
  BY <1>2, <1>3, FS_Subset DEF SumOver

\* The sum of two counts is the sum of their sums.
LEMMA SumPlus ==
  ASSUME NEW f, NEW g, NEW h, NEW S, Counts(f, S), Counts(g, S),
         \A x \in S : h[x] = f[x] + g[x]
  PROVE  Counts(h, S) /\ SumOver(h, S) = SumOver(f, S) + SumOver(g, S)
<1>. DEFINE Upper == UNION {{x} \X (f[x] + 1 .. h[x]) : x \in S}
            shift == [u \in Units(g, S) |-> <<u[1], f[u[1]] + u[2]>>]
<1>1. \A x \in S : f[x] \in Nat /\ g[x] \in Nat /\ h[x] \in Nat
  BY DEF Counts
<1>2. Counts(h, S)
  BY <1>1 DEF Counts
<1>3. \A u : u \in Units(g, S) <=> \E x \in S : \E i \in 1 .. g[x] : u = <<x, i>>
  BY DEF Units
<1>4. \A u : u \in Upper <=> \E x \in S : \E i \in f[x] + 1 .. h[x] : u = <<x, i>>
  OBVIOUS
<1>5. \A u \in Units(g, S) : shift[u] \in Upper
  <2>. SUFFICES ASSUME NEW x \in S, NEW i \in 1 .. g[x] PROVE <<x, f[x] + i>> \in Upper
    BY <1>3
  <2>1. f[x] + i \in f[x] + 1 .. h[x]
    BY <1>1
  <2>. QED
    BY <2>1, <1>4
<1>6. \A u, v \in Units(g, S) : shift[u] = shift[v] => u = v
  <2>. SUFFICES ASSUME NEW x \in S, NEW i \in 1 .. g[x], NEW y \in S, NEW j \in 1 .. g[y],
                       <<x, f[x] + i>> = <<y, f[y] + j>>
                PROVE  x = y /\ i = j
    BY <1>3
  <2>1. x = y /\ f[x] + i = f[y] + j
    OBVIOUS
  <2>. QED
    BY <2>1, <1>1
<1>7. \A v \in Upper : \E u \in Units(g, S) : shift[u] = v
  <2>. HIDE DEF shift, Upper
  <2>. SUFFICES ASSUME NEW x \in S, NEW i \in f[x] + 1 .. h[x]
                PROVE  \E u \in Units(g, S) : shift[u] = <<x, i>>
    BY <1>4
  <2>1. i - f[x] \in 1 .. g[x] /\ f[x] + (i - f[x]) = i
    BY <1>1
  <2>2. <<x, i - f[x]>> \in Units(g, S)
    BY <1>3, <2>1
  <2>3. shift[<<x, i - f[x]>>] = <<x, f[x] + (i - f[x])>>
    BY <2>2 DEF shift
  <2>4. shift[<<x, i - f[x]>>] = <<x, i>>
    BY <2>1, <2>3
  <2>. QED
    BY <2>2, <2>4
<1>8. shift \in Bijection(Units(g, S), Upper)
  <2>1. shift \in [Units(g, S) -> Upper]
    BY <1>5
  <2>. HIDE DEF shift, Upper
  <2>. QED
    BY <2>1, <1>6, <1>7 DEF Bijection, Injection, Surjection, IsInjective
<1>9. ExistsBijection(Units(g, S), Upper)
  BY <1>8 DEF ExistsBijection
<1>10. IsFiniteSet(Units(f, S)) /\ IsFiniteSet(Units(g, S))
  BY UnitsFinite
<1>11. IsFiniteSet(Upper) /\ Cardinality(Upper) = SumOver(g, S)
  <2>. HIDE DEF Upper
  <2>. QED
    BY <1>9, <1>10, FS_Bijection DEF SumOver
<1>12. Units(h, S) = Units(f, S) \union Upper
  <2>1. \A x \in S : 1 .. h[x] = (1 .. f[x]) \union (f[x] + 1 .. h[x])
    BY <1>1
  <2>. QED
    BY <2>1 DEF Units
<1>13. Units(f, S) \intersect Upper = {}
  <2>1. \A x \in S : (1 .. f[x]) \intersect (f[x] + 1 .. h[x]) = {}
    BY <1>1
  <2>. QED
    BY <2>1 DEF Units
<1>16. Cardinality(Units(f, S) \union Upper) = Cardinality(Units(f, S)) + Cardinality(Upper)
  <2>. HIDE DEF Upper
  <2>. QED
    BY <1>10, <1>11, <1>13, DisjointUnion
<1>. QED
  BY <1>2, <1>11, <1>12, <1>16 DEF SumOver

\* The members of S that belong to b
Fibre(of, S, b) == {x \in S : of[x] = b}

\* Regrouped by what each member belongs to, the sum is the same.
LEMMA SumGroup ==
  ASSUME NEW f, NEW S, NEW F, NEW B, NEW of, Counts(f, S), IsFiniteSet(B),
         \A x \in S : of[x] \in B,
         \A b \in B : F[b] = SumOver(f, Fibre(of, S, b))
  PROVE  Counts(F, B) /\ SumOver(F, B) = SumOver(f, S)
<1>. DEFINE In(T) == {x \in S : of[x] \in T}
            Differs(T) == SumOver(F, T) # SumOver(f, In(T))
            Bad == {n \in Nat : \E T \in SUBSET B : Cardinality(T) = n /\ Differs(T)}
<1>1. \A T : Counts(f, In(T))
  <2>. SUFFICES ASSUME NEW T PROVE Counts(f, In(T))
    OBVIOUS
  <2>1. In(T) \in SUBSET S
    OBVIOUS
  <2>2. IsFiniteSet(In(T))
    BY <2>1, FS_Subset DEF Counts
  <2>. QED
    BY <2>2 DEF Counts
<1>2. \A b \in B : F[b] = SumOver(f, In({b})) /\ F[b] \in Nat
  <2>. SUFFICES ASSUME NEW b \in B PROVE F[b] = SumOver(f, In({b})) /\ F[b] \in Nat
    OBVIOUS
  <2>1. Fibre(of, S, b) = In({b})
    BY DEF Fibre
  <2>2. F[b] = SumOver(f, In({b}))
    BY <2>1
  <2>3. SumOver(f, In({b})) \in Nat
    BY <1>1, UnitsFinite
  <2>. QED
    BY <2>2, <2>3
<1>3. Counts(F, B)
  BY <1>2 DEF Counts
<1>4. Bad = {}
  <2>. SUFFICES ASSUME Bad # {} PROVE FALSE
    OBVIOUS
  <2>1. PICK n \in Bad : \A m \in Bad : n <= m
    BY LeastNatural
  <2>2. PICK T \in SUBSET B : Cardinality(T) = n /\ Differs(T)
    OBVIOUS
  <2>3. T # {}
    <3>1. SumOver(F, {}) = 0 /\ SumOver(f, {}) = 0
      BY SumNone
    <3>2. In({}) = {}
      OBVIOUS
    <3>. QED
      BY <2>2, <3>1, <3>2
  <2>4. PICK b \in T : TRUE
    BY <2>3
  <2>. DEFINE U == T \ {b}
  <2>5. IsFiniteSet(T)
    BY FS_Subset
  <2>6. IsFiniteSet(U) /\ Cardinality(U) = Cardinality(T) - 1
    BY <2>5, FS_RemoveElement
  <2>7. Cardinality(U) \in Nat
    BY <2>6, FS_CardinalityType
  <2>8. Cardinality(U) \notin Bad
    <3>1. n \in Nat /\ Cardinality(U) = n - 1 /\ \A m \in Bad : n <= m
      BY <2>1, <2>2, <2>6
    <3>. HIDE DEF U, Bad
    <3>. QED
      BY <2>7, <3>1
  <2>9. SumOver(F, U) = SumOver(f, In(U))
    BY <2>7, <2>8
  <2>10. SumOver(F, {b}) = SumOver(f, In({b}))
    BY <1>2, SumSingle
  <2>11. SumOver(F, U \union {b}) = SumOver(F, U) + SumOver(F, {b})
    <3>1. Counts(F, U) /\ Counts(F, {b}) /\ U \intersect {b} = {}
      BY <1>2, <2>6, SumSingle DEF Counts
    <3>. HIDE DEF U
    <3>. QED
      BY <3>1, SumDisjoint
  <2>12. SumOver(f, In(U) \union In({b})) = SumOver(f, In(U)) + SumOver(f, In({b}))
    <3>1. In(U) \intersect In({b}) = {}
      OBVIOUS
    <3>. HIDE DEF In, U
    <3>. QED
      BY <1>1, <3>1, SumDisjoint
  <2>13. U \union {b} = T /\ In(U) \union In({b}) = In(T)
    OBVIOUS
  <2>. QED
    BY <2>2, <2>9, <2>10, <2>11, <2>12, <2>13
<1>5. SumOver(F, B) = SumOver(f, In(B))
  <2>1. Cardinality(B) \in Nat
    BY FS_CardinalityType
  <2>. QED
    BY <1>4, <2>1
<1>6. In(B) = S
  OBVIOUS
<1>. QED
  BY <1>3, <1>5, <1>6
(***************************************************************************)
(* The tables of counts, and what one step of the loop does to their sums. *)
(***************************************************************************)

\* A table of counts: finitely many entries, of natural numbers
Table(f) == IsFiniteSet(DOMAIN f) /\ f \in [DOMAIN f -> Nat]

\* What is seen of a table of counts, and of a part of it
LEMMA TableCounts ==
  ASSUME NEW f, Table(f), NEW S \in SUBSET DOMAIN f
  PROVE  Counts(f, S) /\ SumOver(f, S) \in Nat
<1>1. Counts(f, S)
  BY FS_Subset DEF Table, Counts
<1>. QED
  BY <1>1, UnitsFinite

\* The image of a finite set is finite.
LEMMA ImageFinite ==
  ASSUME NEW S, IsFiniteSet(S), NEW f
  PROVE  IsFiniteSet({f[x] : x \in S})
<1>. DEFINE g == [x \in S |-> f[x]]
<1>1. g \in Surjection(S, {f[x] : x \in S})
  BY DEF Surjection
<1>. QED
  BY <1>1, FS_Surjection

\* What n more of x add to the sum over a part
BumpAdds(f, x, n, T) ==
  SumOver(Bump(f, x, n), (DOMAIN f \union {x}) \intersect T)
    = SumOver(f, DOMAIN f \intersect T) + (IF x \in T THEN n ELSE 0)

\* A bumped table counts n more, of what was bumped.
LEMMA BumpSum ==
  ASSUME NEW f, Table(f), NEW x, NEW n \in Nat
  PROVE  /\ Table(Bump(f, x, n)) /\ DOMAIN Bump(f, x, n) = DOMAIN f \union {x}
         /\ \A T : BumpAdds(f, x, n, T)
<1>. DEFINE D == DOMAIN f \union {x}
            h == Bump(f, x, n)
<1>1. DOMAIN h = D /\ h = [y \in D |-> h[y]]
  BY DEF Bump
<1>2. \A y \in D : /\ CountAt(f, y) \in Nat
                   /\ h[y] = CountAt(f, y) + (IF y = x THEN n ELSE 0)
  BY DEF Bump, CountAt, Table
<1>3. \A y \in D : h[y] \in Nat
  BY <1>2
<1>4. IsFiniteSet(D)
  BY FS_AddElement DEF Table
<1>5. Table(h)
  <2>. HIDE DEF h, D
  <2>. QED
    BY <1>1, <1>3, <1>4 DEF Table
<1>6. ASSUME NEW T
      PROVE  SumOver(h, D \intersect T) = SumOver(f, DOMAIN f \intersect T) + (IF x \in T THEN n ELSE 0)
  <2>. DEFINE old == [y \in D |-> CountAt(f, y)]
              new == [y \in D |-> IF y = x THEN n ELSE 0]
              E == D \intersect T
  <2>1. IsFiniteSet(E)
    <3>. HIDE DEF D
    <3>. QED
      BY <1>4, FS_Intersection
  <2>2. \A y \in E : /\ old[y] \in Nat /\ new[y] \in Nat /\ h[y] = old[y] + new[y]
                     /\ new[y] = IF y = x THEN n ELSE 0
    BY <1>2
  <2>3. SumOver(h, E) = SumOver(old, E) + SumOver(new, E)
    <3>1. Counts(old, E) /\ Counts(new, E)
      BY <2>1, <2>2 DEF Counts
    <3>2. \A y \in E : h[y] = old[y] + new[y]
      BY <2>2
    <3>. HIDE DEF old, new, E, h
    <3>. QED
      BY <3>1, <3>2, SumPlus
  <2>4. SumOver(old, E) = SumOver(f, DOMAIN f \intersect T)
    <3>1. Counts(f, DOMAIN f \intersect T)
      BY TableCounts
    <3>2. \A y \in DOMAIN f \intersect T : old[y] = f[y]
      BY DEF CountAt
    <3>3. \A y \in E \ (DOMAIN f \intersect T) : old[y] = 0
      BY DEF CountAt
    <3>4. DOMAIN f \intersect T \subseteq E
      OBVIOUS
    <3>. HIDE DEF old, E
    <3>. QED
      BY <3>1, <3>2, <3>3, <3>4, SumSame
  <2>5. CASE x \in T
    <3>1. SumOver(new, {x}) = n /\ Counts(new, {x})
      <4>1. new[x] = n
        OBVIOUS
      <4>. HIDE DEF new
      <4>. QED
        BY <4>1, SumSingle
    <3>2. {x} \subseteq E
      BY <2>5
    <3>3. \A y \in E \ {x} : new[y] = 0
      BY <2>2
    <3>4. SumOver(new, E) = SumOver(new, {x})
      <4>. HIDE DEF new, E
      <4>. QED
        BY <3>1, <3>2, <3>3, SumSame
    <3>. HIDE DEF new, old, h, D
    <3>. QED
      BY <2>3, <2>4, <2>5, <3>1, <3>4
  <2>6. CASE x \notin T
    <3>1. Counts(new, {}) /\ SumOver(new, {}) = 0
      BY SumNone
    <3>2. \A y \in E : new[y] = 0
      BY <2>2, <2>6
    <3>3. SumOver(new, E) = 0
      <4>. HIDE DEF new, E
      <4>. QED
        BY <3>1, <3>2, SumSame
    <3>4. SumOver(f, DOMAIN f \intersect T) \in Nat
      BY TableCounts
    <3>. HIDE DEF new, old, h, D
    <3>. QED
      BY <2>3, <2>4, <2>6, <3>3, <3>4
  <2>. QED
    BY <2>5, <2>6
<1>7. \A T : BumpAdds(f, x, n, T)
  BY <1>6 DEF BumpAdds
<1>. QED
  BY <1>1, <1>5, <1>7

\* A table of tables of counts, as the open buckets are
Tables(bs) == IsFiniteSet(DOMAIN bs) /\ \A b \in DOMAIN bs : Table(bs[b])
\* The sealed minutes: how often each was sent
Minuted(sl) == Table(sl) /\ \A e \in DOMAIN sl : Table(e.counts)

\* The totals of a table of tables are a table.
LEMMA TotalsTable ==
  ASSUME NEW bs, Tables(bs)
  PROVE  Table(Totals(bs)) /\ DOMAIN Totals(bs) = DOMAIN bs
<1>1. \A b \in DOMAIN bs : Total(bs[b]) \in Nat
  BY TableCounts DEF Tables, Total
<1>. QED
  BY <1>1 DEF Totals, Table, Tables

\* The minutes sealed now
SealedNow(bs, current, at) == {c \in MinutesOver(bs, current) : ~TooEarly(c, at)}

\* What sealing adds to the sealed minutes is what their buckets counted.
LEMMA SealedSum ==
  ASSUME Minuted(sealed), NEW bs, Tables(bs), NEW current, NEW at
  PROVE  /\ Minuted(Sealed(bs, current, at))
         /\ \A e \in DOMAIN Sealed(bs, current, at) :
              e \in DOMAIN sealed \/ \E b \in SealedNow(bs, current, at) : e = Minute(bs, b, at)
         /\ \A W : SumOver(Worth(Sealed(bs, current, at)),
                           {e \in DOMAIN Sealed(bs, current, at) : e.bucket \in W})
                     = SumOver(Worth(sealed), {e \in DOMAIN sealed : e.bucket \in W})
                         + SumOver(Totals(bs), SealedNow(bs, current, at) \intersect W)
<1>. DEFINE now == SealedNow(bs, current, at)
            events == {Minute(bs, b, at) : b \in now}
            new == Sealed(bs, current, at)
            D == DOMAIN sealed \union events
<1>1. new = [e \in D |-> CountAt(sealed, e) + (IF e \in events THEN 1 ELSE 0)]
  BY DEF Sealed, SealedNow
<1>2. now \in SUBSET DOMAIN bs
  BY DEF SealedNow, MinutesOver
<1>3. IsFiniteSet(now)
  BY <1>2, FS_Subset DEF Tables
<1>4. IsFiniteSet(events)
  <2>. DEFINE g == [b \in now |-> Minute(bs, b, at)]
  <2>1. events = {g[b] : b \in now}
    OBVIOUS
  <2>2. IsFiniteSet({g[b] : b \in now})
    <3>. HIDE DEF g, now
    <3>. QED
      BY <1>3, ImageFinite
  <2>. QED
    BY <2>1, <2>2
<1>5. IsFiniteSet(D)
  <2>. HIDE DEF events
  <2>. QED
    BY <1>4, FS_Union DEF Minuted, Table
<1>6. \A e \in D : CountAt(sealed, e) \in Nat
  BY DEF CountAt, Minuted, Table
<1>7. Table(new)
  <2>1. \A e \in D : CountAt(sealed, e) + (IF e \in events THEN 1 ELSE 0) \in Nat
    BY <1>6
  <2>. HIDE DEF new, D
  <2>. QED
    BY <1>1, <1>5, <2>1 DEF Table
<1>8. \A b \in now : Minute(bs, b, at).counts = bs[b] /\ Minute(bs, b, at).bucket = b
  BY DEF Minute
<1>9. \A e \in D : Table(e.counts)
  <2>1. \A e \in events : Table(e.counts)
    BY <1>2, <1>8 DEF Tables
  <2>. QED
    BY <2>1 DEF Minuted
<1>10. \A e \in D : Total(e.counts) \in Nat
  BY <1>9, TableCounts DEF Total
<1>11. DOMAIN new = D
  BY <1>1
<1>12. ASSUME NEW W
       PROVE  SumOver(Worth(new), {e \in D : e.bucket \in W})
                = SumOver(Worth(sealed), {e \in DOMAIN sealed : e.bucket \in W})
                    + SumOver(Totals(bs), now \intersect W)
  <2>. DEFINE E == {e \in D : e.bucket \in W}
              F == {e \in DOMAIN sealed : e.bucket \in W}
              G == {e \in events : e.bucket \in W}
              was == [e \in D |-> CountAt(sealed, e) * Total(e.counts)]
              more == [e \in D |-> IF e \in events THEN Total(e.counts) ELSE 0]
  <2>1. IsFiniteSet(E)
    <3>1. E \in SUBSET D
      OBVIOUS
    <3>. HIDE DEF D, E
    <3>. QED
      BY <1>5, <3>1, FS_Subset
  <2>2. \A n, t \in Nat : n * t \in Nat /\ (n + 1) * t = n * t + t /\ (n + 0) * t = n * t + 0
    OBVIOUS
  <2>3. \A e \in D : /\ was[e] \in Nat /\ more[e] \in Nat
                     /\ Worth(new)[e] = was[e] + more[e]
    <3>. SUFFICES ASSUME NEW e \in D
                  PROVE  /\ was[e] \in Nat /\ more[e] \in Nat
                         /\ Worth(new)[e] = was[e] + more[e]
      OBVIOUS
    <3>1. PICK n \in Nat : n = CountAt(sealed, e)
      BY <1>6
    <3>2. PICK t \in Nat : t = Total(e.counts)
      BY <1>10
    <3>3. Worth(new)[e] = new[e] * Total(e.counts)
      BY <1>11 DEF Worth
    <3>4. new[e] = n + (IF e \in events THEN 1 ELSE 0)
      BY <1>1, <3>1
    <3>5. was[e] = n * t /\ more[e] = IF e \in events THEN t ELSE 0
      BY <3>1, <3>2
    <3>. HIDE DEF was, more, new, events, D
    <3>6. CASE e \in events
      BY <2>2, <3>2, <3>3, <3>4, <3>5, <3>6
    <3>7. CASE e \notin events
      BY <2>2, <3>2, <3>3, <3>4, <3>5, <3>7
    <3>. QED
      BY <3>6, <3>7
  <2>4. SumOver(Worth(new), E) = SumOver(was, E) + SumOver(more, E)
    <3>1. Counts(was, E) /\ Counts(more, E)
      BY <2>1, <2>3 DEF Counts
    <3>2. \A e \in E : Worth(new)[e] = was[e] + more[e]
      BY <2>3
    <3>. HIDE DEF was, more, E, new
    <3>. QED
      BY <3>1, <3>2, SumPlus
  <2>5. SumOver(was, E) = SumOver(Worth(sealed), F)
    <3>1. \A e \in F : was[e] = Worth(sealed)[e]
      BY DEF Worth, CountAt
    <3>2. \A e \in E \ F : was[e] = 0
      <4>. SUFFICES ASSUME NEW e \in E \ F PROVE was[e] = 0
        OBVIOUS
      <4>1. CountAt(sealed, e) = 0
        BY DEF CountAt
      <4>2. PICK t \in Nat : t = Total(e.counts)
        BY <1>10
      <4>3. was[e] = 0 * t
        BY <4>1, <4>2
      <4>. HIDE DEF was
      <4>. QED
        BY <4>3
    <3>3. F \subseteq E
      OBVIOUS
    <3>4. Counts(Worth(sealed), F)
      <4>1. \A e \in F : Worth(sealed)[e] \in Nat
        BY <2>3, <3>1
      <4>2. IsFiniteSet(F)
        <5>1. F \in SUBSET DOMAIN sealed
          OBVIOUS
        <5>. HIDE DEF F
        <5>. QED
          BY <5>1, FS_Subset DEF Minuted, Table
      <4>. QED
        BY <4>1, <4>2 DEF Counts
    <3>. HIDE DEF was, E, F
    <3>. QED
      BY <3>1, <3>2, <3>3, <3>4, SumSame
  <2>6. SumOver(more, E) = SumOver(more, G)
    <3>1. Counts(more, G)
      <4>1. G \in SUBSET E
        OBVIOUS
      <4>2. IsFiniteSet(G)
        <5>. HIDE DEF G, E
        <5>. QED
          BY <2>1, <4>1, FS_Subset
      <4>. QED
        BY <2>3, <4>2 DEF Counts
    <3>2. \A e \in E \ G : more[e] = 0
      OBVIOUS
    <3>3. G \subseteq E
      OBVIOUS
    <3>. HIDE DEF more, E, G
    <3>. QED
      BY <3>1, <3>2, <3>3, SumSame
  <2>7. SumOver(more, G) = SumOver(Totals(bs), now \intersect W)
    <3>. DEFINE of == [b \in now |-> Minute(bs, b, at)]
                B == now \intersect W
    <3>1. Counts(Totals(bs), B)
      <4>1. B \in SUBSET DOMAIN Totals(bs)
        BY <1>2, TotalsTable
      <4>. HIDE DEF B
      <4>. QED
        BY <4>1, TotalsTable, TableCounts
    <3>2. \A b \in B : of[b] \in G
      BY <1>8
    <3>3. \A e \in G : more[e] = SumOver(Totals(bs), Fibre(of, B, e))
      <4>. SUFFICES ASSUME NEW e \in G PROVE more[e] = SumOver(Totals(bs), Fibre(of, B, e))
        OBVIOUS
      <4>1. PICK b \in now : e = Minute(bs, b, at)
        OBVIOUS
      <4>2. e.bucket = b /\ e.counts = bs[b] /\ b \in B
        BY <1>8, <4>1
      <4>3. \A c \in B : of[c] = e <=> c = b
        BY <1>8, <4>1
      <4>4. Fibre(of, B, e) = {b}
        BY <4>2, <4>3 DEF Fibre
      <4>5. Totals(bs)[b] = Total(bs[b]) /\ Total(bs[b]) \in Nat
        BY <1>2, TableCounts DEF Totals, Total, Tables
      <4>6. SumOver(Totals(bs), {b}) = Totals(bs)[b]
        BY <4>5, SumSingle
      <4>7. more[e] = Total(bs[b])
        BY <4>2
      <4>. QED
        BY <4>4, <4>5, <4>6, <4>7
    <3>4. IsFiniteSet(G)
      <4>1. G \in SUBSET events
        OBVIOUS
      <4>. HIDE DEF G, events
      <4>. QED
        BY <1>4, <4>1, FS_Subset
    <3>. HIDE DEF more, G, of, B
    <3>5. SumOver(more, G) = SumOver(Totals(bs), B)
      BY <3>1, <3>2, <3>3, <3>4, SumGroup
    <3>. QED
      BY <3>5 DEF B
  <2>. QED
    BY <2>4, <2>5, <2>6, <2>7
<1>13. \A e \in D : e \in DOMAIN sealed \/ \E b \in now : e = Minute(bs, b, at)
  OBVIOUS
<1>. HIDE DEF new, D, now
<1>14. Minuted(new)
  BY <1>7, <1>9, <1>11 DEF Minuted
<1>. QED
  BY <1>11, <1>12, <1>13, <1>14 DEF new, now

\* A table with the counts of N added by kind has them and what it had.
LEMMA FilledOne ==
  ASSUME NEW old, Table(old), NEW c, NEW N, Counts(c, N), NEW kind, NEW table,
         table = [k \in DOMAIN old \union {kind[s] : s \in N} |->
                    CountAt(old, k) + SumOver(c, Fibre(kind, N, k))]
  PROVE  Table(table) /\ Total(table) = Total(old) + SumOver(c, N)
<1>. DEFINE D == DOMAIN old \union {kind[s] : s \in N}
            was == [k \in D |-> CountAt(old, k)]
            more == [k \in D |-> SumOver(c, Fibre(kind, N, k))]
<1>1. IsFiniteSet(D)
  <2>1. IsFiniteSet({kind[s] : s \in N})
    BY ImageFinite DEF Counts
  <2>. QED
    BY <2>1, FS_Union DEF Table
<1>2. \A k \in D : was[k] \in Nat
  BY DEF CountAt, Table
<1>3. \A s \in N : kind[s] \in D
  OBVIOUS
<1>4. \A k \in D : more[k] = SumOver(c, Fibre(kind, N, k))
  OBVIOUS
<1>5. Counts(more, D) /\ SumOver(more, D) = SumOver(c, N)
  <2>. HIDE DEF more, D
  <2>. QED
    BY <1>1, <1>3, <1>4, SumGroup
<1>6. Counts(was, D)
  BY <1>1, <1>2 DEF Counts
<1>7. DOMAIN table = D /\ \A k \in D : table[k] = was[k] + more[k]
  OBVIOUS
<1>8. Counts(table, D) /\ SumOver(table, D) = SumOver(was, D) + SumOver(more, D)
  <2>1. PICK t, w, m, d : t = table /\ w = was /\ m = more /\ d = D
    OBVIOUS
  <2>2. Counts(w, d) /\ Counts(m, d) /\ \A k \in d : t[k] = w[k] + m[k]
    <3>. HIDE DEF was, more, D
    <3>. QED
      BY <1>5, <1>6, <1>7, <2>1
  <2>3. Counts(t, d) /\ SumOver(t, d) = SumOver(w, d) + SumOver(m, d)
    BY <2>2, SumPlus
  <2>. HIDE DEF was, more, D
  <2>. QED
    BY <2>1, <2>3
<1>9. SumOver(was, D) = Total(old)
  <2>1. Counts(old, DOMAIN old)
    BY DEF Counts, Table
  <2>2. \A k \in DOMAIN old : was[k] = old[k]
    BY DEF CountAt
  <2>3. \A k \in D \ DOMAIN old : was[k] = 0
    BY DEF CountAt
  <2>4. DOMAIN old \subseteq D
    OBVIOUS
  <2>. HIDE DEF was, D
  <2>. QED
    BY <2>1, <2>2, <2>3, <2>4, SumSame DEF Total
<1>10. table \in [D -> Nat]
  <2>1. table = [k \in D |-> table[k]]
    OBVIOUS
  <2>2. \A k \in D : table[k] \in Nat
    BY <1>8 DEF Counts
  <2>. HIDE DEF D
  <2>. QED
    BY <2>1, <2>2
<1>. HIDE DEF was, more, D
<1>. QED
  BY <1>1, <1>5, <1>7, <1>8, <1>9, <1>10 DEF Table, Total

\* The samples of S that are counted in the buckets W
CountedIn(kn, re, ru, S, W) == {s \in S : Resolve(kn, re, ru, s) \in W}

\* The buckets bs count what the open buckets do and the samples S.
Adds(bs, kn, re, ru, S) ==
  \A W : SumOver(Totals(bs), DOMAIN bs \intersect W)
           = SumOver(Totals(buckets), DOMAIN buckets \intersect W)
               + SumOver(hook.counts, CountedIn(kn, re, ru, S, W))

\* The buckets with the samples S added have the presses of both.
LEMMA FilledSum ==
  ASSUME Tables(buckets), Table(hook.counts), NEW kn, NEW re, NEW ru,
         NEW S \in SUBSET DOMAIN hook.counts
  PROVE  /\ Tables(Filled(kn, re, ru, S))
         /\ DOMAIN Filled(kn, re, ru, S) = DOMAIN buckets \union {Resolve(kn, re, ru, s) : s \in S}
         /\ Adds(Filled(kn, re, ru, S), kn, re, ru, S)
<1>. DEFINE of == [s \in S |-> Resolve(kn, re, ru, s)]
            D == DOMAIN buckets \union {of[s] : s \in S}
            old(b) == IF b \in DOMAIN buckets THEN buckets[b] ELSE Empty
            N(b) == Fibre(of, S, b)
            kind(b) == [s \in S |-> Kind(b, s.key)]
            bs == Filled(kn, re, ru, S)
<1>1. DOMAIN bs = D
  BY DEF Filled
<1>2. IsFiniteSet(D)
  <2>1. IsFiniteSet(S)
    BY FS_Subset DEF Table
  <2>2. IsFiniteSet({of[s] : s \in S})
    <3>. HIDE DEF of
    <3>. QED
      BY <2>1, ImageFinite
  <2>. HIDE DEF of
  <2>. QED
    BY <2>2, FS_Union DEF Tables
<1>3. Counts(hook.counts, S)
  BY TableCounts
<1>4. \A b : Counts(hook.counts, N(b)) /\ N(b) \in SUBSET DOMAIN hook.counts
  <2>. SUFFICES ASSUME NEW b PROVE Counts(hook.counts, N(b)) /\ N(b) \in SUBSET DOMAIN hook.counts
    OBVIOUS
  <2>1. N(b) \in SUBSET DOMAIN hook.counts
    BY DEF Fibre
  <2>. HIDE DEF N
  <2>. QED
    BY <2>1, TableCounts
<1>5. Table(Empty) /\ Total(Empty) = 0
  <2>1. DOMAIN Empty = {} /\ Empty \in [{} -> Nat]
    BY DEF Empty
  <2>. QED
    BY <2>1, FS_EmptySet, SumNone DEF Table, Total
<1>6. \A b : Table(old(b))
  BY <1>5 DEF Tables
<1>7. ASSUME NEW b \in D
      PROVE  Table(bs[b]) /\ Total(bs[b]) = Total(old(b)) + SumOver(hook.counts, N(b))
  <2>1. PICK o : o = old(b)
    OBVIOUS
  <2>2. PICK n : n = N(b)
    OBVIOUS
  <2>3. PICK c : c = hook.counts
    OBVIOUS
  <2>4. PICK g : g = kind(b)
    OBVIOUS
  <2>5. PICK t : t = bs[b]
    OBVIOUS
  <2>6. t = [k \in DOMAIN o \union {Kind(b, s.key) : s \in n} |->
               CountAt(o, k) + SumOver(c, {s \in n : Kind(b, s.key) = k})]
    <3>1. n = {s \in S : Resolve(kn, re, ru, s) = b}
      BY <2>2 DEF Fibre
    <3>2. b \in DOMAIN buckets \union {Resolve(kn, re, ru, s) : s \in S}
      OBVIOUS
    <3>3. o = IF b \in DOMAIN buckets THEN buckets[b] ELSE Empty
      BY <2>1
    <3>. HIDE DEF old, N, kind, D, of
    <3>. QED
      BY <3>1, <3>2, <3>3, <2>3, <2>5 DEF Filled
  <2>7. t = [k \in DOMAIN o \union {g[s] : s \in n} |-> CountAt(o, k) + SumOver(c, Fibre(g, n, k))]
    <3>1. \A s \in n : g[s] = Kind(b, s.key)
      BY <2>2, <2>4 DEF Fibre
    <3>2. {g[s] : s \in n} = {Kind(b, s.key) : s \in n}
      BY <3>1
    <3>3. \A k : Fibre(g, n, k) = {s \in n : Kind(b, s.key) = k}
      BY <3>1 DEF Fibre
    <3>. HIDE DEF old, N, kind, D, of, bs
    <3>. QED
      BY <2>6, <3>2, <3>3
  <2>8. Table(o) /\ Counts(c, n)
    <3>. HIDE DEF old, N
    <3>. QED
      BY <1>4, <1>6, <2>1, <2>2, <2>3
  <2>9. Table(t) /\ Total(t) = Total(o) + SumOver(c, n)
    BY <2>7, <2>8, FilledOne
  <2>. HIDE DEF old, N, bs
  <2>. QED
    BY <2>1, <2>2, <2>3, <2>5, <2>9
<1>8. DOMAIN bs = D
  BY <1>1
<1>9. Tables(bs)
  <2>. HIDE DEF D, bs
  <2>. QED
    BY <1>2, <1>7, <1>8 DEF Tables
<1>10. ASSUME NEW W
       PROVE  SumOver(Totals(bs), D \intersect W)
                = SumOver(Totals(buckets), DOMAIN buckets \intersect W)
                    + SumOver(hook.counts, CountedIn(kn, re, ru, S, W))
  <2>. DEFINE E == D \intersect W
              was == [b \in D |-> Total(old(b))]
              more == [b \in D |-> SumOver(hook.counts, N(b))]
              C == CountedIn(kn, re, ru, S, W)
  <2>1. IsFiniteSet(E)
    <3>. HIDE DEF D
    <3>. QED
      BY <1>2, FS_Intersection
  <2>2. \A b \in E : was[b] \in Nat /\ Totals(bs)[b] = was[b] + more[b]
    <3>. SUFFICES ASSUME NEW b \in E PROVE was[b] \in Nat /\ Totals(bs)[b] = was[b] + more[b]
      OBVIOUS
    <3>1. Totals(bs)[b] = Total(bs[b])
      BY <1>8 DEF Totals
    <3>2. was[b] = Total(old(b)) /\ more[b] = SumOver(hook.counts, N(b))
      OBVIOUS
    <3>3. Total(old(b)) \in Nat
      BY <1>6, TableCounts DEF Total
    <3>. HIDE DEF old, N, was, more, bs, D
    <3>. QED
      BY <1>7, <3>1, <3>2, <3>3
  <2>3. /\ Counts(more, E) /\ SumOver(more, E) = SumOver(hook.counts, C)
    <3>1. Counts(hook.counts, C)
      <4>1. C \in SUBSET DOMAIN hook.counts
        BY DEF CountedIn
      <4>. HIDE DEF C
      <4>. QED
        BY <4>1, TableCounts
    <3>2. \A s \in C : of[s] \in E
      BY DEF CountedIn
    <3>3. \A b \in E : more[b] = SumOver(hook.counts, Fibre(of, C, b))
      <4>1. \A b \in E : Fibre(of, C, b) = N(b)
        BY DEF Fibre, CountedIn
      <4>. QED
        BY <4>1
    <3>. HIDE DEF more, C, E, of
    <3>. QED
      BY <2>1, <3>1, <3>2, <3>3, SumGroup
  <2>4. SumOver(was, E) = SumOver(Totals(buckets), DOMAIN buckets \intersect W)
    <3>. DEFINE F == DOMAIN buckets \intersect W
    <3>1. Counts(Totals(buckets), F)
      <4>1. F \in SUBSET DOMAIN Totals(buckets)
        BY TotalsTable
      <4>. HIDE DEF F
      <4>. QED
        BY <4>1, TotalsTable, TableCounts
    <3>2. \A b \in F : was[b] = Totals(buckets)[b]
      BY DEF Totals
    <3>3. \A b \in E \ F : was[b] = 0
      BY <1>5
    <3>4. F \subseteq E
      OBVIOUS
    <3>. HIDE DEF was, E, F
    <3>5. SumOver(was, E) = SumOver(Totals(buckets), F)
      BY <3>1, <3>2, <3>3, <3>4, SumSame
    <3>. QED
      BY <3>5 DEF F
  <2>5. SumOver(Totals(bs), E) = SumOver(was, E) + SumOver(more, E)
    <3>1. Counts(was, E)
      BY <2>1, <2>2 DEF Counts
    <3>2. \A b \in E : Totals(bs)[b] = was[b] + more[b]
      BY <2>2
    <3>. HIDE DEF was, more, E, bs
    <3>. QED
      BY <2>3, <3>1, <3>2, SumPlus
  <2>. QED
    BY <2>3, <2>4, <2>5
<1>11. D = DOMAIN buckets \union {Resolve(kn, re, ru, s) : s \in S}
  OBVIOUS
<1>. HIDE DEF bs, D
<1>12. Adds(bs, kn, re, ru, S)
  BY <1>8, <1>10 DEF Adds
<1>. QED
  BY <1>8, <1>9, <1>11, <1>12 DEF bs

\* The minutes that are dropped when they are over
Early(bs, current, at) == {b \in MinutesOver(bs, current) : TooEarly(b, at)}

\* The open and the sealed minutes count what the sealed minutes and bs did, less what is
\* too early.
Seals(bs, current, at) ==
  \A W : /\ SumOver(Totals(bs), Early(bs, current, at) \intersect W) \in Nat
          /\ KeptOf(W)' \in Nat
          /\ SumOver(Worth(sealed), {e \in DOMAIN sealed : e.bucket \in W}) \in Nat
          /\ KeptOf(W)' + SumOver(Totals(bs), Early(bs, current, at) \intersect W)
               = SumOver(Worth(sealed), {e \in DOMAIN sealed : e.bucket \in W})
                   + SumOver(Totals(bs), DOMAIN bs \intersect W)

\* Sealing the minutes of bs that are over keeps what they counted, but for those that
\* are too early.
LEMMA SealStep ==
  ASSUME Minuted(sealed), NEW bs, Tables(bs), NEW current, NEW at,
         buckets' = StillOpen(bs, current), sealed' = Sealed(bs, current, at)
  PROVE  /\ Tables(buckets)' /\ Minuted(sealed)'
         /\ \A e \in DOMAIN sealed' : e \in DOMAIN sealed \/ \E b \in DOMAIN bs : e = Minute(bs, b, at)
         /\ Seals(bs, current, at)
<1>. DEFINE now == SealedNow(bs, current, at)
            early == Early(bs, current, at)
            open == DOMAIN bs \ MinutesOver(bs, current)
<1>1. /\ now \in SUBSET DOMAIN bs /\ early \in SUBSET DOMAIN bs /\ open \in SUBSET DOMAIN bs
      /\ now \intersect early = {} /\ now \intersect open = {} /\ early \intersect open = {}
      /\ DOMAIN bs = now \union early \union open
  BY DEF SealedNow, Early, MinutesOver
<1>2. buckets' = [b \in open |-> bs[b]]
  BY DEF StillOpen
<1>3. Tables(buckets)'
  <2>1. DOMAIN buckets' = open /\ \A b \in open : buckets'[b] = bs[b]
    BY <1>2
  <2>2. IsFiniteSet(open)
    <3>. HIDE DEF open
    <3>. QED
      BY <1>1, FS_Subset DEF Tables
  <2>. HIDE DEF open
  <2>. QED
    BY <1>1, <2>1, <2>2 DEF Tables
<1>4. /\ Minuted(sealed)'
      /\ \A e \in DOMAIN sealed' : e \in DOMAIN sealed \/ \E b \in now : e = Minute(bs, b, at)
      /\ \A W : SumOver(Worth(sealed'), {e \in DOMAIN sealed' : e.bucket \in W})
                  = SumOver(Worth(sealed), {e \in DOMAIN sealed : e.bucket \in W})
                      + SumOver(Totals(bs), now \intersect W)
  <2>1. Minuted(Sealed(bs, current, at))
    BY SealedSum
  <2>2. Minuted(sealed)'
    BY <2>1 DEF Minuted, Table
  <2>3. \A e \in DOMAIN sealed' : e \in DOMAIN sealed \/ \E b \in now : e = Minute(bs, b, at)
    BY SealedSum
  <2>4. \A W : SumOver(Worth(sealed'), {e \in DOMAIN sealed' : e.bucket \in W})
                 = SumOver(Worth(sealed), {e \in DOMAIN sealed : e.bucket \in W})
                     + SumOver(Totals(bs), now \intersect W)
    BY SealedSum
  <2>. QED
    BY <2>2, <2>3, <2>4
<1>5. ASSUME NEW W
      PROVE  /\ SumOver(Totals(bs), Early(bs, current, at) \intersect W) \in Nat
             /\ KeptOf(W)' \in Nat
             /\ SumOver(Worth(sealed), {e \in DOMAIN sealed : e.bucket \in W}) \in Nat
             /\ KeptOf(W)' + SumOver(Totals(bs), early \intersect W)
                  = SumOver(Worth(sealed), {e \in DOMAIN sealed : e.bucket \in W})
                      + SumOver(Totals(bs), DOMAIN bs \intersect W)
  <2>. HIDE DEF now, early, open
  <2>1. PICK t : t = Totals(bs)
    OBVIOUS
  <2>2. PICK no, ea, op : no = now \intersect W /\ ea = early \intersect W /\ op = open \intersect W
    OBVIOUS
  <2>3. Counts(t, no) /\ Counts(t, ea) /\ Counts(t, op)
    <3>1. no \in SUBSET DOMAIN t /\ ea \in SUBSET DOMAIN t /\ op \in SUBSET DOMAIN t
      BY <1>1, <2>1, <2>2, TotalsTable
    <3>2. Table(t)
      BY <2>1, TotalsTable
    <3>. QED
      BY <3>1, <3>2, TableCounts
  <2>4. no \intersect ea = {} /\ no \intersect op = {} /\ ea \intersect op = {}
    BY <1>1, <2>2
  <2>5. Counts(t, no \union ea) /\ SumOver(t, no \union ea) = SumOver(t, no) + SumOver(t, ea)
    BY <2>3, <2>4, SumDisjoint
  <2>6. SumOver(t, (no \union ea) \union op) = SumOver(t, no \union ea) + SumOver(t, op)
    <3>1. (no \union ea) \intersect op = {}
      BY <2>4
    <3>. QED
      BY <2>3, <2>5, <3>1, SumDisjoint
  <2>7. DOMAIN bs \intersect W = (no \union ea) \union op
    BY <1>1, <2>2
  <2>8. SumOver(Totals(buckets'), DOMAIN buckets' \intersect W) = SumOver(t, op)
    <3>1. DOMAIN buckets' \intersect W = op
      BY <1>2, <2>2
    <3>2. \A b \in op : Totals(buckets')[b] = t[b]
      BY <1>1, <1>2, <2>1, <2>2 DEF Totals
    <3>3. SumOver(Totals(buckets'), op) = SumOver(t, op)
      BY <2>3, <3>2, SumSame
    <3>. QED
      BY <3>1, <3>3
  <2>9. SumOver(t, no) \in Nat /\ SumOver(t, ea) \in Nat /\ SumOver(t, op) \in Nat
    BY <2>3, UnitsFinite
  <2>10. PICK x : x = SumOver(Worth(sealed), {e \in DOMAIN sealed : e.bucket \in W})
    OBVIOUS
  <2>11. x \in Nat
    <3>1. Table(Worth(sealed)) /\ DOMAIN Worth(sealed) = DOMAIN sealed
      <4>1. \A e \in DOMAIN sealed : sealed[e] * Total(e.counts) \in Nat
        <5>. SUFFICES ASSUME NEW e \in DOMAIN sealed PROVE sealed[e] * Total(e.counts) \in Nat
          OBVIOUS
        <5>1. sealed[e] \in Nat /\ Total(e.counts) \in Nat
          BY TableCounts DEF Minuted, Table, Total
        <5>. QED
          BY <5>1
      <4>. QED
        BY <4>1 DEF Worth, Table, Minuted
    <3>2. {e \in DOMAIN sealed : e.bucket \in W} \in SUBSET DOMAIN Worth(sealed)
      BY <3>1
    <3>. QED
      BY <2>10, <3>1, <3>2, TableCounts
  <2>12. KeptOf(W)' = (x + SumOver(t, no)) + SumOver(t, op)
    <3>1. KeptOf(W)' = SumOver(Worth(sealed'), {e \in DOMAIN sealed' : e.bucket \in W})
                         + SumOver(Totals(buckets'), DOMAIN buckets' \intersect W)
      BY DEF KeptOf
    <3>. QED
      BY <1>4, <2>1, <2>2, <2>8, <2>10, <3>1
  <2>13. KeptOf(W)' + SumOver(t, ea) = x + SumOver(t, (no \union ea) \union op)
    <3>. HIDE DEF KeptOf
    <3>. QED
      BY <2>5, <2>6, <2>9, <2>11, <2>12
  <2>14. KeptOf(W)' \in Nat
    BY <2>9, <2>11, <2>12
  <2>. QED
    BY <2>1, <2>2, <2>7, <2>9, <2>10, <2>11, <2>13, <2>14 DEF early
<1>6. \A e \in DOMAIN sealed' : e \in DOMAIN sealed \/ \E b \in DOMAIN bs : e = Minute(bs, b, at)
  BY <1>1, <1>4
<1>7. Seals(bs, current, at)
  BY <1>5 DEF Seals
<1>. QED
  BY <1>3, <1>4, <1>6, <1>7

\* The samples the hooks count
Sampled == [minute : Minutes, win : Win, key : Key \union Button]

\* The open and the sealed minutes have their types, and the open ones their limits.
MinuteTypes ==
  /\ Tables(buckets) /\ DOMAIN buckets \subseteq Bucket /\ WithinLimits(buckets)
  /\ Minuted(sealed) /\ \A e \in DOMAIN sealed : e.bucket \in Bucket

HookTypes ==
  /\ hook = [counts |-> hook.counts, held |-> hook.held, over |-> hook.over, contended |-> hook.contended]
  /\ hook.held \subseteq Key
  /\ Table(hook.counts) /\ DOMAIN hook.counts \subseteq Sampled
  /\ Cardinality(DOMAIN hook.counts) <= MaxSamples

GoneTypes == gone \in [ignored : Nat, missed : Nat, reported : Nat]

MadeTypes == Table(made) /\ DOMAIN made \subseteq Truths(App)

LoopTypes ==
  /\ wall \in 0 .. MaxWall /\ lastNow \in 0 .. MaxWall
  /\ down \subseteq Key
  /\ owner \in [Win -> App \union {None}] /\ known \in [Win -> App \union {None}]
  /\ retired \in [Win -> SUBSET App]
  /\ rules \in Rules /\ blocked \in BOOLEAN
  /\ ipc \in {"waiting", "looked", "stopped"}

\* All types of the counts, and the tables' limits
InputTypes == LoopTypes /\ HookTypes /\ MinuteTypes /\ GoneTypes /\ MadeTypes

\* The bucket of a sample is one.
LEMMA ResolveType ==
  ASSUME NEW kn \in [Win -> App \union {None}], NEW re \in [Win -> SUBSET App], NEW ru,
         NEW s \in Sampled
  PROVE  /\ Resolve(kn, re, ru, s) \in Bucket
         /\ Resolve(kn, re, ru, s).minute = s.minute
         /\ Resolve(kn, re, ru, s).app \in {None, IdentityOf(kn, re, s.win)}
<1>1. s.win \in Win /\ s.minute \in Minutes
  BY DEF Sampled
<1>2. PICK id : id = IdentityOf(kn, re, s.win)
  OBVIOUS
<1>3. id \in App \union {None}
  <2>1. CASE re[s.win] = {}
    BY <1>1, <1>2, <2>1 DEF IdentityOf
  <2>2. CASE re[s.win] # {}
    <3>1. (CHOOSE a \in re[s.win] : TRUE) \in re[s.win]
      BY <2>2
    <3>. QED
      BY <1>1, <1>2, <2>2, <3>1 DEF IdentityOf
  <2>. QED
    BY <2>1, <2>2
<1>4. PICK an : an = IF id # None THEN id \in ru.input
                     ELSE Cardinality(re[s.win]) > 1 /\ re[s.win] \intersect ru.input # {}
  OBVIOUS
<1>5. an \in BOOLEAN
  <2>1. CASE id # None
    BY <1>4, <2>1
  <2>2. CASE id = None
    BY <1>4, <2>2
  <2>. QED
    BY <2>1, <2>2
<1>6. Resolve(kn, re, ru, s)
        = [minute |-> s.minute, app |-> IF id \in ru.input \union ru.activity THEN None ELSE id,
           anonymous |-> an]
  BY <1>2, <1>4 DEF Resolve
<1>. QED
  BY <1>1, <1>2, <1>3, <1>5, <1>6 DEF Bucket

\* Sealing keeps the types of the minutes.
LEMMA SealTypes ==
  ASSUME MinuteTypes, NEW bs, Tables(bs), DOMAIN bs \subseteq Bucket, WithinLimits(bs),
         NEW current, NEW at,
         buckets' = StillOpen(bs, current), sealed' = Sealed(bs, current, at)
  PROVE  MinuteTypes'
<1>1. /\ Tables(buckets)' /\ Minuted(sealed)'
      /\ \A e \in DOMAIN sealed' : e \in DOMAIN sealed \/ \E b \in DOMAIN bs : e = Minute(bs, b, at)
  BY SealStep DEF MinuteTypes
<1>2. DOMAIN buckets' \in SUBSET DOMAIN bs /\ \A b \in DOMAIN buckets' : buckets'[b] = bs[b]
  BY DEF StillOpen
<1>3. WithinLimits(buckets)'
  <2>1. Cardinality(DOMAIN buckets') <= MaxBuckets
    <3>1. IsFiniteSet(DOMAIN bs) /\ Cardinality(DOMAIN bs) <= MaxBuckets
      BY DEF Tables, WithinLimits
    <3>2. Cardinality(DOMAIN buckets') <= Cardinality(DOMAIN bs) /\ IsFiniteSet(DOMAIN buckets')
      BY <1>2, <3>1, FS_Subset
    <3>3. Cardinality(DOMAIN bs) \in Nat /\ Cardinality(DOMAIN buckets') \in Nat
      BY <3>1, <3>2, FS_CardinalityType
    <3>. QED
      BY <3>1, <3>2, <3>3, InputCountsAssumption
  <2>2. \A b \in DOMAIN buckets' : Cardinality(DOMAIN buckets'[b] \intersect Key) <= MaxKeys
    BY <1>2 DEF WithinLimits
  <2>. QED
    BY <2>1, <2>2 DEF WithinLimits
<1>4. \A e \in DOMAIN sealed' : e.bucket \in Bucket
  BY <1>1 DEF MinuteTypes, Minute
<1>. QED
  BY <1>1, <1>2, <1>3, <1>4 DEF MinuteTypes

\* A drained hook counts nothing.
LEMMA DrainedTypes ==
  ASSUME HookTypes, hook' = Drained
  PROVE  HookTypes' /\ DOMAIN hook'.counts = {} /\ Total(hook'.counts) = 0
<1>1. /\ hook'.counts = Empty /\ hook'.held \subseteq Key
      /\ hook' = [counts |-> hook'.counts, held |-> hook'.held, over |-> hook'.over,
                  contended |-> hook'.contended]
  BY DEF HookTypes, Drained, NewHook
<1>2. DOMAIN Empty = {} /\ Empty \in [{} -> Nat]
  BY DEF Empty
<1>3. IsFiniteSet({}) /\ Cardinality({}) = 0
  BY FS_EmptySet
<1>4. Table(hook'.counts) /\ Total(hook'.counts) = 0
  BY <1>1, <1>2, <1>3, SumNone DEF Table, Total
<1>. QED
  BY <1>1, <1>2, <1>3, <1>4, InputCountsAssumption DEF HookTypes, Table

\* What may be credited to the buckets W when the samples are resolved
Credited(kn, re, ru, W) == SumOver(hook.counts, CountedIn(kn, re, ru, DOMAIN hook.counts, W))

\* All that is accounted for
Everything == Total(hook.counts) + KeptOf(Bucket) + gone.ignored + gone.missed

\* Sums over parts of a table of counts
LEMMA PartSum ==
  ASSUME NEW f, Table(f), NEW S \in SUBSET DOMAIN f, NEW T \in SUBSET S
  PROVE  SumOver(f, T) \in Nat /\ SumOver(f, S) \in Nat /\ SumOver(f, T) <= SumOver(f, S)
<1>1. Counts(f, S) /\ SumOver(f, S) \in Nat
  BY TableCounts
<1>2. Counts(f, T) /\ SumOver(f, T) \in Nat
  BY TableCounts
<1>3. \A x \in T : f[x] <= f[x]
  BY DEF Table
<1>. QED
  BY <1>1, <1>2, <1>3, SumMore

\* Draining the hooks into the buckets and sealing what is over loses nothing that is not
\* recorded as lost, and adds to no bucket more than the samples resolved to it.
LEMMA AggregateStep ==
  ASSUME HookTypes, MinuteTypes, GoneTypes,
         NEW kn \in [Win -> App \union {None}], NEW re \in [Win -> SUBSET App], NEW ru, NEW bl,
         NEW current, NEW at, Aggregate(kn, re, ru, bl, current, at)
  PROVE  /\ HookTypes' /\ MinuteTypes' /\ GoneTypes' /\ DOMAIN hook'.counts = {}
         /\ Everything' = Everything
         /\ \A W : KeptOf(W)' <= KeptOf(W) + Credited(kn, re, ru, W)
         /\ \A W : KeptOf(W)' \in Nat /\ KeptOf(W) \in Nat /\ Credited(kn, re, ru, W) \in Nat
<1>1. HookTypes' /\ DOMAIN hook'.counts = {} /\ Total(hook'.counts) = 0
  <2>1. hook' = Drained
    BY DEF Aggregate
  <2>. QED
    BY <2>1, DrainedTypes
<1>2. \A W : Credited(kn, re, ru, W) \in Nat
  <2>. SUFFICES ASSUME NEW W PROVE Credited(kn, re, ru, W) \in Nat
    OBVIOUS
  <2>1. CountedIn(kn, re, ru, DOMAIN hook.counts, W) \in SUBSET DOMAIN hook.counts
    BY DEF CountedIn
  <2>. QED
    BY <2>1, TableCounts DEF Credited, HookTypes
<1>3. PICK all \in Nat : all = Total(hook.counts)
  BY TableCounts DEF HookTypes, Total
<1>4. PICK ig, mi, re0 \in Nat : gone = [ignored |-> ig, missed |-> mi, reported |-> re0]
  BY DEF GoneTypes
<1>5. CASE bl \/ ru.paused
  <2>1. /\ buckets' = StillOpen(buckets, current) /\ sealed' = Sealed(buckets, current, at)
        /\ gone' = [gone EXCEPT !.ignored = @ + Total(hook.counts) + Dropped(buckets, current, at),
                                !.reported = gone.missed]
    BY <1>5 DEF Aggregate
  <2>2. \A W : /\ SumOver(Totals(buckets), Early(buckets, current, at) \intersect W) \in Nat
               /\ KeptOf(W)' \in Nat
               /\ SumOver(Worth(sealed), {e \in DOMAIN sealed : e.bucket \in W}) \in Nat
               /\ KeptOf(W)' + SumOver(Totals(buckets), Early(buckets, current, at) \intersect W)
                    = KeptOf(W)
    <3>1. Minuted(sealed) /\ Tables(buckets)
      BY DEF MinuteTypes
    <3>2. buckets' = StillOpen(buckets, current) /\ sealed' = Sealed(buckets, current, at)
      BY <2>1
    <3>3. \A W : /\ SumOver(Totals(buckets), Early(buckets, current, at) \intersect W) \in Nat
                 /\ KeptOf(W)' \in Nat
                 /\ SumOver(Worth(sealed), {e \in DOMAIN sealed : e.bucket \in W}) \in Nat
                 /\ KeptOf(W)' + SumOver(Totals(buckets), Early(buckets, current, at) \intersect W)
                      = SumOver(Worth(sealed), {e \in DOMAIN sealed : e.bucket \in W})
                          + SumOver(Totals(buckets), DOMAIN buckets \intersect W)
      <4>1. Seals(buckets, current, at)
        BY <3>1, <3>2, SealStep
      <4>. QED
        BY <4>1 DEF Seals
    <3>4. \A W : KeptOf(W) = SumOver(Worth(sealed), {e \in DOMAIN sealed : e.bucket \in W})
                              + SumOver(Totals(buckets), DOMAIN buckets \intersect W)
      BY DEF KeptOf
    <3>. QED
      BY <3>3, <3>4
  <2>3. MinuteTypes'
    BY <2>1, SealTypes DEF MinuteTypes
  <2>4. PICK dr : dr = Dropped(buckets, current, at)
    OBVIOUS
  <2>5. dr = SumOver(Totals(buckets), Early(buckets, current, at) \intersect Bucket)
    <3>1. Early(buckets, current, at) \intersect Bucket = {b \in MinutesOver(buckets, current) : TooEarly(b, at)}
      BY DEF Early, MinutesOver, MinuteTypes
    <3>. QED
      BY <2>4, <3>1 DEF Dropped
  <2>6. dr \in Nat /\ KeptOf(Bucket)' \in Nat /\ KeptOf(Bucket)' + dr = KeptOf(Bucket)
    BY <2>2, <2>5
  <2>7. gone' = [ignored |-> ig + all + dr, missed |-> mi, reported |-> mi]
    BY <1>3, <1>4, <2>1, <2>4
  <2>8. GoneTypes'
    BY <2>6, <2>7 DEF GoneTypes
  <2>9. Everything' = Everything
    <3>1. Everything' = 0 + KeptOf(Bucket)' + (ig + all + dr) + mi
      BY <1>1, <2>7 DEF Everything
    <3>2. Everything = all + KeptOf(Bucket) + ig + mi
      BY <1>3, <1>4 DEF Everything
    <3>3. PICK k \in Nat : k = KeptOf(Bucket)'
      BY <2>6
    <3>4. KeptOf(Bucket) = k + dr
      BY <2>6, <3>3
    <3>. QED
      BY <2>6, <3>1, <3>2, <3>3, <3>4
  <2>10. \A W : /\ KeptOf(W)' \in Nat /\ KeptOf(W) \in Nat
                /\ KeptOf(W)' <= KeptOf(W) + Credited(kn, re, ru, W)
    <3>. SUFFICES ASSUME NEW W
                  PROVE  /\ KeptOf(W)' \in Nat /\ KeptOf(W) \in Nat
                         /\ KeptOf(W)' <= KeptOf(W) + Credited(kn, re, ru, W)
      OBVIOUS
    <3>1. PICK k \in Nat : k = KeptOf(W)'
      BY <2>2
    <3>2. PICK d \in Nat : d = SumOver(Totals(buckets), Early(buckets, current, at) \intersect W)
      BY <2>2
    <3>3. PICK c \in Nat : c = Credited(kn, re, ru, W)
      BY <1>2
    <3>4. KeptOf(W) = k + d
      BY <2>2, <3>1, <3>2
    <3>. QED
      BY <3>1, <3>3, <3>4
  <2>. QED
    BY <1>1, <1>2, <2>3, <2>8, <2>9, <2>10
<1>6. CASE ~(bl \/ ru.paused)
  <2>1. PICK S \in Taken(kn, re, ru) : \E bs \in {Filled(kn, re, ru, S)} :
            LET lost == Total(hook.counts) - SumOver(hook.counts, S)
            IN  /\ buckets' = StillOpen(bs, current)
                /\ sealed' = Sealed(bs, current, at)
                /\ gone' = [ignored |-> gone.ignored + Dropped(bs, current, at),
                            missed |-> gone.missed + lost,
                            reported |-> IF Overflowed \/ lost > 0 \/ current = EndOfTime
                                         THEN gone.missed + lost ELSE gone.reported]
    BY <1>6 DEF Aggregate
  <2>2. PICK bs : bs = Filled(kn, re, ru, S)
    OBVIOUS
  <2>3. PICK lost : lost = Total(hook.counts) - SumOver(hook.counts, S)
    OBVIOUS
  <2>4. /\ buckets' = StillOpen(bs, current) /\ sealed' = Sealed(bs, current, at)
        /\ gone' = [ignored |-> gone.ignored + Dropped(bs, current, at),
                    missed |-> gone.missed + lost,
                    reported |-> IF Overflowed \/ lost > 0 \/ current = EndOfTime
                                 THEN gone.missed + lost ELSE gone.reported]
    BY <2>1, <2>2, <2>3
  <2>5. S \in SUBSET DOMAIN hook.counts /\ WithinLimits(bs)
    BY <2>1, <2>2 DEF Taken
  <2>6. /\ Tables(bs)
        /\ DOMAIN bs = DOMAIN buckets \union {Resolve(kn, re, ru, s) : s \in S}
        /\ \A W : SumOver(Totals(bs), DOMAIN bs \intersect W)
                    = SumOver(Totals(buckets), DOMAIN buckets \intersect W)
                        + SumOver(hook.counts, CountedIn(kn, re, ru, S, W))
    <3>1. Tables(buckets) /\ Table(hook.counts) /\ S \in SUBSET DOMAIN hook.counts
      BY <2>5 DEF MinuteTypes, HookTypes
    <3>2. Tables(Filled(kn, re, ru, S))
      BY <3>1, FilledSum
    <3>3. DOMAIN Filled(kn, re, ru, S) = DOMAIN buckets \union {Resolve(kn, re, ru, s) : s \in S}
      BY <3>1, FilledSum
    <3>4. Adds(Filled(kn, re, ru, S), kn, re, ru, S)
      BY <3>1, FilledSum
    <3>5. Adds(bs, kn, re, ru, S)
      BY <2>2, <3>4
    <3>. QED
      BY <2>2, <3>2, <3>3, <3>5 DEF Adds
  <2>7. DOMAIN bs \subseteq Bucket
    <3>1. \A s \in S : Resolve(kn, re, ru, s) \in Bucket
      BY <2>5, ResolveType DEF HookTypes
    <3>. QED
      BY <2>6, <3>1 DEF MinuteTypes
  <2>8. MinuteTypes'
    BY <2>4, <2>5, <2>6, <2>7, SealTypes
  <2>9. \A W : /\ SumOver(Totals(bs), Early(bs, current, at) \intersect W) \in Nat
               /\ KeptOf(W)' \in Nat
               /\ SumOver(Worth(sealed), {e \in DOMAIN sealed : e.bucket \in W}) \in Nat
               /\ KeptOf(W)' + SumOver(Totals(bs), Early(bs, current, at) \intersect W)
                    = SumOver(Worth(sealed), {e \in DOMAIN sealed : e.bucket \in W})
                        + SumOver(Totals(bs), DOMAIN bs \intersect W)
    <3>1. Minuted(sealed) /\ Tables(bs)
      BY <2>6 DEF MinuteTypes
    <3>2. buckets' = StillOpen(bs, current) /\ sealed' = Sealed(bs, current, at)
      BY <2>4
    <3>3. Seals(bs, current, at)
      BY <3>1, <3>2, SealStep
    <3>. QED
      BY <3>3 DEF Seals
  <2>10. ASSUME NEW W
         PROVE  /\ KeptOf(W)' \in Nat /\ KeptOf(W) \in Nat
                /\ SumOver(Totals(bs), Early(bs, current, at) \intersect W) \in Nat
                /\ SumOver(hook.counts, CountedIn(kn, re, ru, S, W)) \in Nat
                /\ KeptOf(W)' + SumOver(Totals(bs), Early(bs, current, at) \intersect W)
                     = KeptOf(W) + SumOver(hook.counts, CountedIn(kn, re, ru, S, W))
    <3>1. PICK x \in Nat : x = SumOver(Worth(sealed), {e \in DOMAIN sealed : e.bucket \in W})
      BY <2>9
    <3>2. PICK y \in Nat : y = SumOver(Totals(buckets), DOMAIN buckets \intersect W)
      <4>1. DOMAIN buckets \intersect W \in SUBSET DOMAIN Totals(buckets) /\ Table(Totals(buckets))
        BY TotalsTable DEF MinuteTypes
      <4>. QED
        BY <4>1, TableCounts
    <3>3. PICK z \in Nat : z = SumOver(hook.counts, CountedIn(kn, re, ru, S, W))
      <4>1. CountedIn(kn, re, ru, S, W) \in SUBSET DOMAIN hook.counts
        BY <2>5 DEF CountedIn
      <4>. QED
        BY <4>1, TableCounts DEF HookTypes
    <3>4. KeptOf(W) = x + y
      BY <3>1, <3>2 DEF KeptOf
    <3>5. SumOver(Totals(bs), DOMAIN bs \intersect W) = y + z
      BY <2>6, <3>2, <3>3
    <3>6. PICK d \in Nat : d = SumOver(Totals(bs), Early(bs, current, at) \intersect W)
      BY <2>9
    <3>7. PICK k \in Nat : k = KeptOf(W)'
      BY <2>9
    <3>8. k + d = x + (y + z)
      BY <2>9, <3>1, <3>5, <3>6, <3>7
    <3>9. k + d = (x + y) + z
      BY <3>8
    <3>. QED
      BY <3>3, <3>4, <3>6, <3>7, <3>9
  <2>11. PICK dr \in Nat : dr = Dropped(bs, current, at)
    <3>1. Early(bs, current, at) \in SUBSET DOMAIN Totals(bs) /\ Table(Totals(bs))
      BY <2>6, TotalsTable DEF Early, MinutesOver
    <3>. QED
      BY <3>1, TableCounts DEF Dropped, Early
  <2>12. dr = SumOver(Totals(bs), Early(bs, current, at) \intersect Bucket)
    <3>1. Early(bs, current, at) \intersect Bucket = {b \in MinutesOver(bs, current) : TooEarly(b, at)}
      BY <2>7 DEF Early, MinutesOver
    <3>. QED
      BY <2>11, <3>1 DEF Dropped
  <2>13. PICK some \in Nat : some = SumOver(hook.counts, S) /\ some <= all
    <3>1. S \in SUBSET DOMAIN hook.counts /\ DOMAIN hook.counts \in SUBSET DOMAIN hook.counts
      BY <2>5
    <3>. QED
      BY <1>3, <3>1, PartSum DEF HookTypes, Total
  <2>14. lost = all - some /\ lost \in Nat
    BY <1>3, <2>3, <2>13
  <2>15. SumOver(hook.counts, CountedIn(kn, re, ru, S, Bucket)) = some
    <3>1. CountedIn(kn, re, ru, S, Bucket) = S
      BY <2>6, <2>7 DEF CountedIn
    <3>. QED
      BY <2>13, <3>1
  <2>16. gone'.ignored = ig + dr /\ gone'.missed = mi + lost /\ gone'.reported \in {re0, mi + lost}
         /\ gone' = [ignored |-> gone'.ignored, missed |-> gone'.missed, reported |-> gone'.reported]
    BY <1>4, <2>4, <2>11
  <2>17. GoneTypes'
    <3>1. ig + dr \in Nat /\ mi + lost \in Nat
      BY <2>14
    <3>2. gone'.ignored \in Nat /\ gone'.missed \in Nat /\ gone'.reported \in Nat
      BY <2>16, <3>1
    <3>. QED
      BY <2>16, <3>2 DEF GoneTypes
  <2>18. Everything' = Everything
    <3>1. Everything' = 0 + KeptOf(Bucket)' + (ig + dr) + (mi + lost)
      BY <1>1, <2>16 DEF Everything
    <3>2. Everything = all + KeptOf(Bucket) + ig + mi
      BY <1>3, <1>4 DEF Everything
    <3>3. PICK k \in Nat : k = KeptOf(Bucket)'
      BY <2>10
    <3>4. PICK o \in Nat : o = KeptOf(Bucket)
      BY <2>10
    <3>5. k + dr = o + some
      BY <2>10, <2>12, <2>15, <3>3, <3>4
    <3>. QED
      BY <2>13, <2>14, <3>1, <3>2, <3>3, <3>4, <3>5
  <2>19. \A W : KeptOf(W)' <= KeptOf(W) + Credited(kn, re, ru, W)
    <3>. SUFFICES ASSUME NEW W PROVE KeptOf(W)' <= KeptOf(W) + Credited(kn, re, ru, W)
      OBVIOUS
    <3>1. /\ CountedIn(kn, re, ru, S, W) \in SUBSET CountedIn(kn, re, ru, DOMAIN hook.counts, W)
          /\ CountedIn(kn, re, ru, DOMAIN hook.counts, W) \in SUBSET DOMAIN hook.counts
      BY <2>5 DEF CountedIn
    <3>2. SumOver(hook.counts, CountedIn(kn, re, ru, S, W)) <= Credited(kn, re, ru, W)
      BY <3>1, PartSum DEF Credited, HookTypes
    <3>3. PICK k, o, d, z \in Nat :
             /\ k = KeptOf(W)' /\ o = KeptOf(W)
             /\ d = SumOver(Totals(bs), Early(bs, current, at) \intersect W)
             /\ z = SumOver(hook.counts, CountedIn(kn, re, ru, S, W))
      BY <2>10
    <3>4. PICK c \in Nat : c = Credited(kn, re, ru, W)
      BY <1>2
    <3>5. k + d = o + z /\ z <= c
      BY <2>10, <3>2, <3>3, <3>4
    <3>6. k <= o + c
      BY <3>5
    <3>. QED
      BY <3>3, <3>4, <3>6
  <2>. QED
    BY <1>1, <1>2, <2>8, <2>10, <2>17, <2>18, <2>19
<1>. QED
  BY <1>5, <1>6

(***************************************************************************)
(* The steps                                                               *)
(***************************************************************************)

\* Earlier is not in a later minute.
LEMMA MinuteOrder ==
  ASSUME NEW t \in Nat, NEW u \in Nat, t <= u
  PROVE  MinuteOf(t) \in 0 .. MinuteOf(u)
<1>1. PICK d \in Nat \ {0} : d = MinuteLength
  BY InputCountsAssumption
<1>2. PICK q \in Int : q = t \div d
  BY <1>1, Division
<1>3. PICK p \in Int : p = u \div d
  BY <1>1, Division
<1>4. PICK r \in 0 .. d - 1 : t = q * d + r
  <2>1. t % d \in 0 .. d - 1 /\ t = (t \div d) * d + (t % d)
    BY Division
  <2>. QED
    BY <1>2, <2>1
<1>5. PICK e \in 0 .. d - 1 : u = p * d + e
  <2>1. u % d \in 0 .. d - 1 /\ u = (u \div d) * d + (u % d)
    BY Division
  <2>. QED
    BY <1>3, <2>1
<1>6. q * d \in Int /\ p * d \in Int /\ (p + 1) * d = p * d + d /\ (0 - 1) * d = 0 - d
      /\ (p + 1) * d \in Int /\ (0 - 1) * d \in Int
  OBVIOUS
<1>7. q * d < (p + 1) * d
  BY <1>4, <1>5, <1>6
<1>8. (0 - 1) * d < q * d
  BY <1>4, <1>6
<1>9. q < p + 1
  BY <1>7, Cancel
<1>10. 0 - 1 < q
  BY <1>8, Cancel
<1>. QED
  BY <1>1, <1>2, <1>3, <1>9, <1>10 DEF MinuteOf

\* A bumped table is another one, and has n more in all.
LEMMA BumpTotal ==
  ASSUME NEW f, Table(f), NEW x
  PROVE  Bump(f, x, 1) # f /\ Total(Bump(f, x, 1)) = Total(f) + 1 /\ Total(f) \in Nat
<1>. DEFINE D == DOMAIN f \union {x}
            h == Bump(f, x, 1)
<1>1. DOMAIN h = D /\ SumOver(h, D \intersect D) = SumOver(f, DOMAIN f \intersect D) + (IF x \in D THEN 1 ELSE 0)
  <2>1. DOMAIN h = D /\ BumpAdds(f, x, 1, D)
    BY BumpSum
  <2>. QED
    BY <2>1 DEF BumpAdds
<1>2. D \intersect D = D /\ DOMAIN f \intersect D = DOMAIN f /\ x \in D
  OBVIOUS
<1>3. SumOver(h, D) = SumOver(f, DOMAIN f) + 1
  <2>. HIDE DEF h, D
  <2>. QED
    BY <1>1, <1>2
<1>4. SumOver(f, DOMAIN f) \in Nat
  BY TableCounts
<1>5. h # f
  BY <1>1, <1>3, <1>4
<1>. QED
  BY <1>1, <1>3, <1>4, <1>5 DEF Total

\* The hooks after a press: one more of its sample, or none for lack of room
LEMMA RecordedTypes ==
  ASSUME LoopTypes, HookTypes, NEW k \in Key \union Button, NEW w \in Win, NEW h, h = Recorded(k, w)
  PROVE  /\ h = [counts |-> h.counts, held |-> h.held, over |-> h.over, contended |-> h.contended]
         /\ h.held \subseteq Key /\ Sample(k, w) \in Sampled
         /\ Table(h.counts) /\ DOMAIN h.counts \subseteq Sampled
         /\ Cardinality(DOMAIN h.counts) <= MaxSamples
         /\ h.counts = hook.counts \/ h.counts = Bump(hook.counts, Sample(k, w), 1)
<1>. DEFINE s == Sample(k, w)
<1>1. s \in Sampled
  <2>1. MinuteOf(wall) \in Minutes
    BY MinuteOrder, InputCountsAssumption DEF LoopTypes, Minutes
  <2>. QED
    BY <2>1 DEF Sample, Sampled
<1>2. PICK g : g = Increment(hook, s)
  OBVIOUS
<1>3. h.counts = g.counts /\ h.held \subseteq g.held \union Key
      /\ h = [counts |-> h.counts, held |-> h.held, over |-> h.over, contended |-> h.contended]
      /\ g.held = hook.held
  BY <1>2 DEF Recorded, Increment, HookTypes
<1>4. CASE s \notin DOMAIN hook.counts /\ Cardinality(DOMAIN hook.counts) >= MaxSamples
  <2>1. h.counts = hook.counts
    BY <1>2, <1>3, <1>4 DEF Increment, HookTypes
  <2>. QED
    BY <1>1, <1>3, <2>1 DEF HookTypes
<1>5. CASE ~(s \notin DOMAIN hook.counts /\ Cardinality(DOMAIN hook.counts) >= MaxSamples)
  <2>1. h.counts = Bump(hook.counts, s, 1)
    BY <1>2, <1>3, <1>5 DEF Increment, HookTypes
  <2>2. Table(h.counts) /\ DOMAIN h.counts = DOMAIN hook.counts \union {s}
    <3>1. PICK f : f = hook.counts
      OBVIOUS
    <3>2. Table(f)
      BY <3>1 DEF HookTypes
    <3>3. Table(Bump(f, s, 1)) /\ DOMAIN Bump(f, s, 1) = DOMAIN f \union {s}
      BY <3>2, BumpSum
    <3>. HIDE DEF s
    <3>. QED
      BY <2>1, <3>1, <3>3
  <2>3. Cardinality(DOMAIN h.counts) <= MaxSamples
    <3>1. IsFiniteSet(DOMAIN hook.counts)
      BY DEF HookTypes, Table
    <3>2. PICK n \in Nat : n = Cardinality(DOMAIN hook.counts)
      BY <3>1, FS_CardinalityType
    <3>3. Cardinality(DOMAIN hook.counts \union {s}) = IF s \in DOMAIN hook.counts THEN n ELSE n + 1
      BY <3>1, <3>2, FS_AddElement
    <3>4. n <= MaxSamples /\ MaxSamples \in Nat
      BY <3>2, InputCountsAssumption DEF HookTypes
    <3>. HIDE DEF s
    <3>. QED
      BY <1>5, <2>2, <3>2, <3>3, <3>4
  <2>. QED
    BY <1>1, <1>3, <2>1, <2>2, <2>3 DEF HookTypes
<1>. QED
  BY <1>4, <1>5

\* A press is counted by the hooks or is one more missed, and is one more made.
LEMMA PressStep ==
  ASSUME InputTypes, NEW k \in Key \union Button, NEW w \in Win, Pressed(k, w)
  PROVE  /\ HookTypes' /\ GoneTypes' /\ MadeTypes'
         /\ Sample(k, w) \in Sampled
         /\ made' = Bump(made, Truth(w), 1)
         /\ \/ hook'.counts = hook.counts /\ gone' = [gone EXCEPT !.missed = @ + 1]
            \/ hook'.counts = Bump(hook.counts, Sample(k, w), 1) /\ gone' = gone
<1>. USE DEF InputTypes
<1>1. PICK h : h = Recorded(k, w)
  OBVIOUS
<1>2. /\ h = [counts |-> h.counts, held |-> h.held, over |-> h.over, contended |-> h.contended]
      /\ h.held \subseteq Key /\ Sample(k, w) \in Sampled
      /\ Table(h.counts) /\ DOMAIN h.counts \subseteq Sampled
      /\ Cardinality(DOMAIN h.counts) <= MaxSamples
      /\ h.counts = hook.counts \/ h.counts = Bump(hook.counts, Sample(k, w), 1)
  BY <1>1, RecordedTypes
<1>3. \/ hook' = hook \/ hook' = h \/ hook' = [hook EXCEPT !.contended = TRUE]
  BY <1>1 DEF Pressed, Called
<1>4. HookTypes'
  <2>1. CASE hook' = hook
    BY <2>1 DEF HookTypes
  <2>2. CASE hook' = h
    BY <1>2, <2>2 DEF HookTypes
  <2>3. CASE hook' = [hook EXCEPT !.contended = TRUE]
    BY <2>3 DEF HookTypes
  <2>. QED
    BY <1>3, <2>1, <2>2, <2>3
<1>5. hook'.counts = hook.counts \/ hook'.counts = Bump(hook.counts, Sample(k, w), 1)
  BY <1>2, <1>3 DEF HookTypes
<1>6. gone' = IF hook'.counts = hook.counts THEN [gone EXCEPT !.missed = @ + 1] ELSE gone
  BY DEF Pressed
<1>7. Bump(hook.counts, Sample(k, w), 1) # hook.counts
  BY BumpTotal DEF HookTypes
<1>8. GoneTypes'
  BY <1>6 DEF GoneTypes
<1>9. made' = Bump(made, Truth(w), 1)
  BY DEF Pressed
<1>10. MadeTypes'
  <2>1. Truth(w) \in Truths(App)
    <3>1. MinuteOf(wall) \in Minutes
      BY MinuteOrder, InputCountsAssumption DEF LoopTypes, Minutes
    <3>2. owner[w] \in App
      BY DEF Pressed, LoopTypes
    <3>. QED
      BY <3>1, <3>2 DEF Truth, Truths
  <2>2. PICK t : t = Truth(w)
    OBVIOUS
  <2>3. Table(Bump(made, t, 1)) /\ DOMAIN Bump(made, t, 1) = DOMAIN made \union {t}
    BY BumpSum DEF MadeTypes
  <2>4. made' = Bump(made, t, 1)
    BY <1>9, <2>2
  <2>5. Table(made') /\ DOMAIN made' \subseteq Truths(App)
    BY <2>1, <2>2, <2>3, <2>4 DEF MadeTypes
  <2>. QED
    BY <2>5 DEF MadeTypes, Table
<1>. QED
  BY <1>2, <1>4, <1>5, <1>6, <1>7, <1>8, <1>9, <1>10

\* What is kept does not change with the minutes.
LEMMA KeptSame ==
  ASSUME UNCHANGED <<buckets, sealed>>, NEW W
  PROVE  KeptOf(W)' = KeptOf(W)
BY DEF KeptOf, Totals, Worth

\* What is kept is a number.
LEMMA KeptType ==
  ASSUME MinuteTypes, NEW W
  PROVE  KeptOf(W) \in Nat
<1>1. SumOver(Totals(buckets), DOMAIN buckets \intersect W) \in Nat
  <2>1. DOMAIN buckets \intersect W \in SUBSET DOMAIN Totals(buckets) /\ Table(Totals(buckets))
    BY TotalsTable DEF MinuteTypes
  <2>. QED
    BY <2>1, TableCounts
<1>2. SumOver(Worth(sealed), {e \in DOMAIN sealed : e.bucket \in W}) \in Nat
  <2>1. Table(Worth(sealed)) /\ DOMAIN Worth(sealed) = DOMAIN sealed
    <3>1. \A e \in DOMAIN sealed : sealed[e] * Total(e.counts) \in Nat
      <4>. SUFFICES ASSUME NEW e \in DOMAIN sealed PROVE sealed[e] * Total(e.counts) \in Nat
        OBVIOUS
      <4>1. sealed[e] \in Nat /\ Total(e.counts) \in Nat
        BY TableCounts DEF MinuteTypes, Minuted, Table, Total
      <4>. QED
        BY <4>1
    <3>. QED
      BY <3>1 DEF Worth, Table, MinuteTypes, Minuted
  <2>2. {e \in DOMAIN sealed : e.bucket \in W} \in SUBSET DOMAIN Worth(sealed)
    BY <2>1
  <2>. QED
    BY <2>1, <2>2, TableCounts
<1>. QED
  BY <1>1, <1>2 DEF KeptOf

\* Everything is accounted for after a press.
LEMMA PressConserves ==
  ASSUME InputTypes, Conserved, NEW k \in Key \union Button, NEW w \in Win, Pressed(k, w)
  PROVE  Conserved'
<1>1. /\ made' = Bump(made, Truth(w), 1)
      /\ \/ hook'.counts = hook.counts /\ gone' = [gone EXCEPT !.missed = @ + 1]
         \/ hook'.counts = Bump(hook.counts, Sample(k, w), 1) /\ gone' = gone
  BY PressStep
<1>2. PICK m \in Nat : m = Total(made) /\ Total(made') = m + 1
  BY <1>1, BumpTotal DEF InputTypes, MadeTypes
<1>3. PICK c \in Nat : c = Total(hook.counts) /\ (hook'.counts = Bump(hook.counts, Sample(k, w), 1) => Total(hook'.counts) = c + 1)
  BY BumpTotal DEF InputTypes, HookTypes
<1>4. PICK o \in Nat : o = KeptOf(Bucket)
  BY KeptType DEF InputTypes
<1>5. KeptOf(Bucket)' = o
  <2>1. UNCHANGED <<buckets, sealed>>
    BY DEF Pressed, loopVars
  <2>. QED
    BY <1>4, <2>1, KeptSame
<1>6. gone.ignored \in Nat /\ gone.missed \in Nat
  BY DEF InputTypes, GoneTypes
<1>7. m = c + o + gone.ignored + gone.missed
  BY <1>2, <1>3, <1>4 DEF Conserved
<1>8. m + 1 = Total(hook'.counts) + o + gone'.ignored + gone'.missed
  <2>1. CASE hook'.counts = hook.counts /\ gone' = [gone EXCEPT !.missed = @ + 1]
    <3>1. gone'.ignored = gone.ignored /\ gone'.missed = gone.missed + 1
      BY <2>1 DEF InputTypes, GoneTypes
    <3>. QED
      BY <1>3, <1>6, <1>7, <2>1, <3>1
  <2>2. CASE hook'.counts = Bump(hook.counts, Sample(k, w), 1) /\ gone' = gone
    BY <1>3, <1>6, <1>7, <2>2
  <2>. QED
    BY <1>1, <2>1, <2>2
<1>9. Total(made)' = Total(made')  /\ Total(hook.counts)' = Total(hook'.counts)
  BY DEF Total, SumOver, Units
<1>. QED
  BY <1>2, <1>5, <1>8, <1>9 DEF Conserved

\* What is accounted for stays when no count changes.
LEMMA SameCounts ==
  ASSUME HookTypes, MinuteTypes, GoneTypes, UNCHANGED <<buckets, sealed, gone>>,
         hook'.counts = hook.counts
  PROVE  MinuteTypes' /\ GoneTypes' /\ Everything' = Everything
<1>1. MinuteTypes' /\ GoneTypes'
  BY DEF MinuteTypes, GoneTypes, Minuted, Tables, Table, WithinLimits
<1>2. KeptOf(Bucket)' = KeptOf(Bucket)
  BY KeptSame
<1>3. Total(hook'.counts) = Total(hook.counts)
  OBVIOUS
<1>. QED
  BY <1>1, <1>2, <1>3 DEF Everything

\* What the observer says of windows, and what is retired of them, are applications.
LEMMA LookTypes ==
  ASSUME LoopTypes
  PROVE  [w \in Win |-> Seen(w)] \in [Win -> App \union {None}] /\ Retired \in [Win -> SUBSET App]
<1>1. \A w \in Win : Seen(w) \in App \union {None}
  BY DEF Seen, LoopTypes
<1>2. \A w \in Win : known[w] \in App \union {None}
  BY DEF LoopTypes
<1>3. \A w \in Win : (IF known[w] \in {None, Seen(w)} THEN {} ELSE {known[w], Seen(w)} \ {None}) \in SUBSET App
  BY <1>1, <1>2
<1>. QED
  BY <1>1, <1>3 DEF Retired

\* A step of the loop that drains the hooks: what it resolves with
Resolving(kn, re, ru) ==
  /\ kn \in [Win -> App \union {None}] /\ re \in [Win -> SUBSET App]
  /\ \E bl, current, at : Aggregate(kn, re, ru, bl, current, at)

\* A look of the loop drains the hooks, or leaves every count alone.
LEMMA LookStep ==
  ASSUME LoopTypes, NEW ru \in Rules, NEW session \in BOOLEAN, LoopLooks(ru, session)
  PROVE  /\ LoopTypes' /\ made' = made
         /\ ipc = "waiting" /\ ipc' = "looked" /\ known' = [w \in Win |-> Seen(w)] /\ retired' = Retired
         /\ owner' = owner
         /\ Resolving(known', retired', ru) \/ UNCHANGED <<hook, buckets, sealed, gone>>
<1>1. known' = [w \in Win |-> Seen(w)] /\ retired' = Retired /\ rules' = ru /\ ipc' = "looked"
      /\ ipc = "waiting" /\ made' = made /\ blocked' = (ru.paused \/ session)
  BY DEF LoopLooks
<1>2. blocked' \in BOOLEAN
  BY <1>1, Zenon
<1>3. known' \in [Win -> App \union {None}] /\ retired' \in [Win -> SUBSET App]
  BY <1>1, LookTypes
<1>4. UNCHANGED desk /\ lastNow' \in {wall, lastNow}
  BY DEF LoopLooks, Aggregate
<1>5. LoopTypes'
  BY <1>1, <1>2, <1>3, <1>4 DEF LoopTypes, desk
<1>6. Resolving(known', retired', ru) \/ UNCHANGED <<hook, buckets, sealed, gone>>
  <2>1. CASE lastNow - wall > Tolerance
    <3>1. Aggregate(known', Retired, ru, blocked, EndOfTime, lastNow)
      BY <2>1 DEF LoopLooks
    <3>2. Aggregate(known', retired', ru, blocked, EndOfTime, lastNow)
      BY <1>1, <3>1
    <3>3. \E bl, current, at : Aggregate(known', retired', ru, bl, current, at)
      BY <3>2
    <3>. QED
      BY <1>3, <3>3 DEF Resolving
  <2>2. CASE ~(lastNow - wall > Tolerance)
    BY <2>2 DEF LoopLooks
  <2>. QED
    BY <2>1, <2>2
<1>. QED
  BY <1>1, <1>4, <1>5, <1>6 DEF desk

\* So does the drain,
LEMMA CountStep ==
  ASSUME LoopTypes, Count
  PROVE  /\ LoopTypes' /\ made' = made /\ Resolving(known, retired, rules)
         /\ ipc = "looked" /\ ipc' = "waiting" /\ known' = known /\ owner' = owner
         /\ \A w \in Win : retired'[w] = {}
<1>1. Aggregate(known, retired, rules, blocked, MinuteOf(lastNow), lastNow)
  BY DEF Count
<1>2. UNCHANGED desk
  BY <1>1 DEF Aggregate
<1>3. /\ retired' = [w \in Win |-> {}] /\ ipc' = "waiting" /\ ipc = "looked"
      /\ UNCHANGED <<known, rules, blocked, lastNow, made, allowed, changes>>
  BY DEF Count
<1>4. LoopTypes'
  BY <1>2, <1>3 DEF LoopTypes, desk
<1>5. Resolving(known, retired, rules)
  <2>1. \E bl, current, at : Aggregate(known, retired, rules, bl, current, at)
    BY <1>1
  <2>. QED
    BY <2>1 DEF Resolving, LoopTypes
<1>. QED
  BY <1>2, <1>3, <1>4, <1>5 DEF desk

\* and the end of the run.
LEMMA StopStep ==
  ASSUME LoopTypes, Stop
  PROVE  /\ LoopTypes' /\ made' = made /\ Resolving(known, retired, rules)
         /\ ipc = "waiting" /\ ipc' = "stopped" /\ known' = known /\ owner' = owner /\ retired' = retired
         /\ \A w \in Win : ~Reused(w)
<1>1. Aggregate(known, retired, rules, blocked, EndOfTime, lastNow')
  BY DEF Stop
<1>2. UNCHANGED desk
  BY <1>1 DEF Aggregate
<1>3. /\ ipc' = "stopped" /\ ipc = "waiting" /\ lastNow' \in {wall, lastNow} /\ \A w \in Win : ~Reused(w)
      /\ UNCHANGED <<known, retired, rules, blocked, made, allowed, changes>>
  BY DEF Stop
<1>4. LoopTypes'
  BY <1>2, <1>3 DEF LoopTypes, desk
<1>5. Resolving(known, retired, rules)
  <2>1. PICK at : at = lastNow'
    OBVIOUS
  <2>2. Aggregate(known, retired, rules, blocked, EndOfTime, at)
    BY <1>1, <2>1
  <2>3. \E bl, current, x : Aggregate(known, retired, rules, bl, current, x)
    BY <2>2
  <2>. QED
    BY <2>3 DEF Resolving, LoopTypes
<1>. QED
  BY <1>2, <1>3, <1>4, <1>5 DEF desk

\* A step that drains the hooks keeps account of everything, and credits no bucket with
\* more than was resolved to it.
LEMMA ResolvingStep ==
  ASSUME HookTypes, MinuteTypes, GoneTypes, NEW kn, NEW re, NEW ru, Resolving(kn, re, ru)
  PROVE  /\ HookTypes' /\ MinuteTypes' /\ GoneTypes' /\ DOMAIN hook'.counts = {}
         /\ Everything' = Everything
         /\ \A W : /\ KeptOf(W)' <= KeptOf(W) + Credited(kn, re, ru, W)
                   /\ KeptOf(W)' \in Nat /\ KeptOf(W) \in Nat /\ Credited(kn, re, ru, W) \in Nat
<1>1. kn \in [Win -> App \union {None}] /\ re \in [Win -> SUBSET App]
  BY DEF Resolving
<1>2. PICK bl, current, at : Aggregate(kn, re, ru, bl, current, at)
  BY DEF Resolving
<1>3. /\ HookTypes' /\ MinuteTypes' /\ GoneTypes' /\ DOMAIN hook'.counts = {}
      /\ Everything' = Everything
  BY <1>1, <1>2, AggregateStep
<1>4. \A W : KeptOf(W)' <= KeptOf(W) + Credited(kn, re, ru, W)
  BY <1>1, <1>2, AggregateStep
<1>5. \A W : KeptOf(W)' \in Nat /\ KeptOf(W) \in Nat /\ Credited(kn, re, ru, W) \in Nat
  BY <1>1, <1>2, AggregateStep
<1>. QED
  BY <1>3, <1>4, <1>5

\* The types, and that everything is accounted for
CountsInv == InputTypes /\ Conserved

\* The types say what InputTypeOK does.
LEMMA TypesSuffice == InputTypes => InputTypeOK
BY DEF InputTypes, InputTypeOK, LoopTypes, HookTypes, MinuteTypes

\* A run begins with nothing counted.
LEMMA CountsInit == InputInit => CountsInv
<1>. SUFFICES ASSUME InputInit PROVE CountsInv
  OBVIOUS
<1>1. Table(Empty) /\ DOMAIN Empty = {} /\ Total(Empty) = 0
  <2>1. DOMAIN Empty = {} /\ Empty \in [{} -> Nat]
    BY DEF Empty
  <2>. QED
    BY <2>1, FS_EmptySet, SumNone DEF Table, Total
<1>2. Cardinality({}) = 0
  BY FS_EmptySet
<1>3. LoopTypes
  <2>1. known \in [Win -> App \union {None}]
    BY DEF InputInit, Seen
  <2>2. rules \in Rules /\ blocked \in BOOLEAN
    BY InputCountsAssumption DEF InputInit
  <2>3. 1 \in 0 .. MaxWall
    BY InputCountsAssumption
  <2>. QED
    BY <2>1, <2>2, <2>3 DEF InputInit, LoopTypes
<1>4. HookTypes
  <2>1. hook = [counts |-> Empty, held |-> {}, over |-> FALSE, contended |-> FALSE]
    BY DEF InputInit, NewHook
  <2>. QED
    BY <1>1, <1>2, <2>1, InputCountsAssumption DEF HookTypes
<1>5. MinuteTypes
  <2>1. Tables(Empty) /\ Minuted(Empty) /\ WithinLimits(Empty)
    BY <1>1, <1>2, InputCountsAssumption DEF Tables, Minuted, Table, WithinLimits
  <2>. QED
    BY <1>1, <2>1 DEF InputInit, MinuteTypes
<1>6. GoneTypes /\ MadeTypes
  BY <1>1 DEF InputInit, GoneTypes, MadeTypes
<1>7. Conserved
  <2>1. KeptOf(Bucket) = 0
    <3>1. DOMAIN buckets \intersect Bucket = {} /\ {e \in DOMAIN sealed : e.bucket \in Bucket} = {}
      BY <1>1 DEF InputInit
    <3>2. SumOver(Totals(buckets), {}) = 0 /\ SumOver(Worth(sealed), {}) = 0
      BY SumNone
    <3>. QED
      BY <3>1, <3>2 DEF KeptOf
  <2>2. Total(made) = 0 /\ Total(hook.counts) = 0 /\ gone.ignored = 0 /\ gone.missed = 0
    BY <1>1 DEF InputInit, NewHook
  <2>. QED
    BY <2>1, <2>2 DEF Conserved
<1>. QED
  BY <1>3, <1>4, <1>5, <1>6, <1>7 DEF CountsInv, InputTypes

\* A step of the desktop that presses nothing counts nothing.
LEMMA QuietStep ==
  ASSUME CountsInv, LoopTypes', HookTypes', hook'.counts = hook.counts,
         UNCHANGED <<buckets, sealed, gone, made>>
  PROVE  CountsInv'
<1>1. MinuteTypes' /\ GoneTypes' /\ Everything' = Everything
  BY SameCounts DEF CountsInv, InputTypes
<1>2. MadeTypes'
  BY DEF CountsInv, InputTypes, MadeTypes, Table
<1>3. Total(made)' = Total(made)
  BY DEF Total, SumOver, Units
<1>4. Conserved'
  BY <1>1, <1>3 DEF CountsInv, Conserved, Everything
<1>. QED
  BY <1>1, <1>2, <1>4 DEF CountsInv, InputTypes

\* What a step that drains the hooks does to the accounts
LEMMA DrainStep ==
  ASSUME CountsInv, LoopTypes', made' = made, NEW kn, NEW re, NEW ru, Resolving(kn, re, ru)
  PROVE  CountsInv'
<1>1. HookTypes' /\ MinuteTypes' /\ GoneTypes' /\ Everything' = Everything
  BY ResolvingStep DEF CountsInv, InputTypes
<1>2. MadeTypes'
  BY DEF CountsInv, InputTypes, MadeTypes, Table
<1>3. Total(made)' = Total(made)
  BY DEF Total, SumOver, Units
<1>4. Conserved'
  BY <1>1, <1>3 DEF CountsInv, Conserved, Everything
<1>. QED
  BY <1>1, <1>2, <1>4 DEF CountsInv, InputTypes

\* Every step of the desktop keeps the types and the account.
LEMMA DesktopCounts ==
  ASSUME CountsInv, Desktop
  PROVE  CountsInv'
<1>. USE DEF CountsInv, InputTypes
<1>1. ASSUME NEW w \in Win, NEW x \in App, OpensWindow(w, x) PROVE CountsInv'
  <2>1. LoopTypes' /\ HookTypes'
    BY <1>1 DEF OpensWindow, LoopTypes, HookTypes, loopVars, Table
  <2>. QED
    BY <1>1, <2>1, QuietStep DEF OpensWindow, loopVars
<1>2. ASSUME NEW w \in Win, Vanish(w) PROVE CountsInv'
  <2>1. LoopTypes' /\ HookTypes'
    BY <1>2 DEF Vanish, LoopTypes, HookTypes, loopVars, Table
  <2>. QED
    BY <1>2, <2>1, QuietStep DEF Vanish, loopVars
<1>3. ASSUME NEW k \in Key \union Button, NEW w \in Win, Pressed(k, w), down' \subseteq Key PROVE CountsInv'
  <2>1. HookTypes' /\ GoneTypes' /\ MadeTypes'
    BY <1>3, PressStep
  <2>2. LoopTypes'
    BY <1>3 DEF Pressed, LoopTypes, loopVars
  <2>3. MinuteTypes'
    BY <1>3 DEF Pressed, loopVars, MinuteTypes, Minuted, Tables, Table, WithinLimits
  <2>4. Conserved'
    BY <1>3, PressConserves
  <2>. QED
    BY <2>1, <2>2, <2>3, <2>4
<1>4. ASSUME NEW k \in Key \union Button, NEW w \in Win, Press(k, w) PROVE CountsInv'
  <2>1. Pressed(k, w) /\ down' \subseteq Key
    BY <1>4 DEF Press, LoopTypes
  <2>. QED
    BY <1>3, <2>1
<1>5. ASSUME NEW k \in Key, NEW w \in Win, Repeat(k, w) PROVE CountsInv'
  <2>1. Pressed(k, w) /\ down' \subseteq Key
    BY <1>5 DEF Repeat, LoopTypes
  <2>. QED
    BY <1>3, <2>1
<1>6. ASSUME NEW k \in Key, Release(k) PROVE CountsInv'
  <2>1. \/ hook' = [hook EXCEPT !.held = @ \ {k}]
        \/ hook' = [hook EXCEPT !.contended = TRUE]
    BY <1>6 DEF Release, Called
  <2>2. HookTypes' /\ hook'.counts = hook.counts
    BY <2>1 DEF HookTypes, Table
  <2>3. LoopTypes' /\ UNCHANGED <<buckets, sealed, gone, made>>
    BY <1>6 DEF Release, LoopTypes, loopVars
  <2>. QED
    BY <2>2, <2>3, QuietStep
<1>7. ASSUME Tick PROVE CountsInv'
  <2>1. LoopTypes' /\ HookTypes'
    BY <1>7, InputCountsAssumption DEF Tick, LoopTypes, HookTypes, loopVars, Table
  <2>. QED
    BY <1>7, <2>1, QuietStep DEF Tick, loopVars
<1>8. ASSUME NEW t \in 0 .. MaxWall, SetBack(t) PROVE CountsInv'
  <2>1. LoopTypes' /\ HookTypes'
    BY <1>8 DEF SetBack, LoopTypes, HookTypes, loopVars, Table
  <2>. QED
    BY <1>8, <2>1, QuietStep DEF SetBack, loopVars
<1>. QED
  BY <1>1, <1>2, <1>4, <1>5, <1>6, <1>7, <1>8 DEF Desktop

\* Every step keeps the types and the account.
LEMMA CountsStep == CountsInv /\ [InputNext]_ivars => CountsInv'
<1>. SUFFICES ASSUME CountsInv, [InputNext]_ivars PROVE CountsInv'
  OBVIOUS
<1>0. LoopTypes
  BY DEF CountsInv, InputTypes
<1>1. CASE Desktop
  BY <1>1, DesktopCounts
<1>2. ASSUME NEW ru \in Rules, NEW session \in BOOLEAN, LoopLooks(ru, session) PROVE CountsInv'
  <2>1. /\ LoopTypes' /\ made' = made
        /\ Resolving(known', retired', ru) \/ UNCHANGED <<hook, buckets, sealed, gone>>
    BY <1>0, <1>2, LookStep
  <2>2. CASE Resolving(known', retired', ru)
    <3>1. PICK kn, re : kn = known' /\ re = retired'
      OBVIOUS
    <3>2. Resolving(kn, re, ru)
      BY <2>2, <3>1
    <3>. QED
      BY <2>1, <3>2, DrainStep
  <2>3. CASE UNCHANGED <<hook, buckets, sealed, gone>>
    <3>1. HookTypes'
      BY <2>3 DEF CountsInv, InputTypes, HookTypes, Table
    <3>. QED
      BY <2>1, <2>3, <3>1, QuietStep
  <2>. QED
    BY <2>1, <2>2, <2>3
<1>3. CASE Count
  <2>1. LoopTypes' /\ made' = made /\ Resolving(known, retired, rules)
    BY <1>0, <1>3, CountStep
  <2>2. PICK kn, re, ru : kn = known /\ re = retired /\ ru = rules
    OBVIOUS
  <2>3. Resolving(kn, re, ru)
    BY <2>1, <2>2
  <2>. QED
    BY <2>1, <2>3, DrainStep
<1>4. CASE Stop
  <2>1. LoopTypes' /\ made' = made /\ Resolving(known, retired, rules)
    BY <1>0, <1>4, StopStep
  <2>2. PICK kn, re, ru : kn = known /\ re = retired /\ ru = rules
    OBVIOUS
  <2>3. Resolving(kn, re, ru)
    BY <2>1, <2>2
  <2>. QED
    BY <2>1, <2>3, DrainStep
<1>5. CASE UNCHANGED ivars
  BY <1>5, QuietStep
  DEF ivars, desk, loopVars, CountsInv, InputTypes, LoopTypes, HookTypes, Table
<1>. QED
  BY <1>1, <1>2, <1>3, <1>4, <1>5 DEF InputNext

\* The hooks' and the collector's tables have their types and stay within their limits.
THEOREM InputAlwaysTyped == InputSpec => []InputTypeOK
<1>1. InputSpec => []CountsInv
  BY CountsInit, CountsStep, PTL DEF InputSpec
<1>2. CountsInv => InputTypeOK
  BY TypesSuffice DEF CountsInv
<1>. QED
  BY <1>1, <1>2, PTL

\* Every press is in exactly one place, whatever the clock, the windows, the policy and
\* the limits do.
THEOREM AlwaysConserved == InputSpec => []Conserved
<1>1. InputSpec => []CountsInv
  BY CountsInit, CountsStep, PTL DEF InputSpec
<1>2. CountsInv => Conserved
  BY DEF CountsInv
<1>. QED
  BY <1>1, <1>2, PTL

(***************************************************************************)
(* Attribution.  A press waits in the hooks under its window, and the      *)
(* window may go to another application before the loop looks; Credit is   *)
(* the one application that may still be credited with what waits there.   *)
(***************************************************************************)

Credit(w) ==
  IF ipc = "looked" THEN IdentityOf(known, retired, w)
  ELSE IF known[w] = None THEN Seen(w)
  ELSE IF owner[w] \in {None, known[w]} THEN known[w] ELSE None

BucketsOf(x, m) == {b \in Bucket : b.app = x /\ b.minute = m}
TruthsOf(x, m) == {t \in Truths(App) : t.app = x /\ t.minute = m}
CreditedTo(x, m) == {s \in DOMAIN hook.counts : s.minute = m /\ Credit(s.win) = x}

\* What the loop holds of the windows, and who owns them
Identities ==
  /\ \A w \in Dialog : known[w] = None
  /\ ipc # "looked" => \A w \in Win : retired[w] = {}
  /\ ipc = "looked" =>
       \A w \in Win : IdentityOf(known, retired, w) # None => owner[w] \in {None, IdentityOf(known, retired, w)}

\* What an application is credited with, and may yet be, was made in its windows.
Attributed ==
  \A x \in App, m \in Minutes :
    KeptOf(BucketsOf(x, m)) + SumOver(hook.counts, CreditedTo(x, m)) <= MadeBy(TruthsOf(x, m))

AttributedInv == CountsInv /\ Identities /\ Attributed

\* The three sums of Attributed are numbers.
LEMMA AttributedTypes ==
  ASSUME InputTypes, NEW x, NEW m
  PROVE  /\ KeptOf(BucketsOf(x, m)) \in Nat /\ SumOver(hook.counts, CreditedTo(x, m)) \in Nat
         /\ MadeBy(TruthsOf(x, m)) \in Nat
<1>1. KeptOf(BucketsOf(x, m)) \in Nat
  BY KeptType DEF InputTypes
<1>2. SumOver(hook.counts, CreditedTo(x, m)) \in Nat
  <2>1. CreditedTo(x, m) \in SUBSET DOMAIN hook.counts
    BY DEF CreditedTo
  <2>. QED
    BY <2>1, TableCounts DEF InputTypes, HookTypes
<1>3. MadeBy(TruthsOf(x, m)) \in Nat
  <2>1. DOMAIN made \intersect TruthsOf(x, m) \in SUBSET DOMAIN made
    OBVIOUS
  <2>. QED
    BY <2>1, TableCounts DEF InputTypes, MadeTypes, MadeBy
<1>. QED
  BY <1>1, <1>2, <1>3

\* Nothing is credited anew by a step that counts nothing and after which no sample may
\* be credited to another application than before.
LEMMA CreditShrinks ==
  ASSUME InputTypes, Attributed, hook'.counts = hook.counts, UNCHANGED <<buckets, sealed, made>>,
         \A s \in DOMAIN hook.counts, x \in App : Credit(s.win)' = x => Credit(s.win) = x
  PROVE  Attributed'
<1>. SUFFICES ASSUME NEW x \in App, NEW m \in Minutes
              PROVE  KeptOf(BucketsOf(x, m))' + SumOver(hook'.counts, CreditedTo(x, m)')
                       <= MadeBy(TruthsOf(x, m))'
  BY DEF Attributed, BucketsOf, TruthsOf
<1>1. KeptOf(BucketsOf(x, m))' = KeptOf(BucketsOf(x, m))
  <2>1. PICK W : W = BucketsOf(x, m)
    OBVIOUS
  <2>2. KeptOf(W)' = KeptOf(W)
    BY KeptSame
  <2>3. KeptOf(BucketsOf(x, m))' = KeptOf(W)'
    BY <2>1 DEF BucketsOf, KeptOf
  <2>. QED
    BY <2>1, <2>2, <2>3
<1>2. MadeBy(TruthsOf(x, m))' = MadeBy(TruthsOf(x, m))
  BY DEF MadeBy, TruthsOf
<1>3. CreditedTo(x, m)' \in SUBSET CreditedTo(x, m)
  BY DEF CreditedTo
<1>4. CreditedTo(x, m) \in SUBSET DOMAIN hook.counts
  BY DEF CreditedTo
<1>5. PICK f, S, T : f = hook.counts /\ S = CreditedTo(x, m) /\ T = CreditedTo(x, m)'
  OBVIOUS
<1>6. SumOver(f, T) \in Nat /\ SumOver(f, T) <= SumOver(f, S)
  BY <1>3, <1>4, <1>5, PartSum DEF InputTypes, HookTypes
<1>7. KeptOf(BucketsOf(x, m)) + SumOver(f, S) <= MadeBy(TruthsOf(x, m))
  BY <1>5 DEF Attributed
<1>8. KeptOf(BucketsOf(x, m)) \in Nat /\ SumOver(f, S) \in Nat /\ MadeBy(TruthsOf(x, m)) \in Nat
  BY <1>5, AttributedTypes
<1>9. SumOver(hook'.counts, CreditedTo(x, m)') = SumOver(f, T)
  BY <1>5
<1>. QED
  BY <1>1, <1>2, <1>6, <1>7, <1>8, <1>9

\* The drain credits an application with what it might be credited with.
LEMMA CreditDrains ==
  ASSUME InputTypes, Attributed, made' = made, NEW kn, NEW re, NEW ru, Resolving(kn, re, ru),
         \A w \in Win, x \in App : IdentityOf(kn, re, w) = x => Credit(w) = x
  PROVE  Attributed'
<1>. SUFFICES ASSUME NEW x \in App, NEW m \in Minutes
              PROVE  KeptOf(BucketsOf(x, m))' + SumOver(hook'.counts, CreditedTo(x, m)')
                       <= MadeBy(TruthsOf(x, m))'
  BY DEF Attributed, BucketsOf, TruthsOf
<1>1. PICK W : W = BucketsOf(x, m)
  OBVIOUS
<1>2. /\ DOMAIN hook'.counts = {}
      /\ KeptOf(W)' <= KeptOf(W) + Credited(kn, re, ru, W)
      /\ KeptOf(W)' \in Nat /\ KeptOf(W) \in Nat /\ Credited(kn, re, ru, W) \in Nat
  BY ResolvingStep DEF InputTypes
<1>3. KeptOf(BucketsOf(x, m))' = KeptOf(W)'
  BY <1>1 DEF BucketsOf, KeptOf
<1>4. MadeBy(TruthsOf(x, m))' = MadeBy(TruthsOf(x, m))
  BY DEF MadeBy, TruthsOf
<1>5. SumOver(hook'.counts, CreditedTo(x, m)') = 0
  <2>1. CreditedTo(x, m)' = {}
    BY <1>2 DEF CreditedTo
  <2>. QED
    BY <2>1, SumNone
<1>6. CountedIn(kn, re, ru, DOMAIN hook.counts, W) \in SUBSET CreditedTo(x, m)
  <2>. SUFFICES ASSUME NEW s \in DOMAIN hook.counts, Resolve(kn, re, ru, s) \in BucketsOf(x, m)
                PROVE  s.minute = m /\ Credit(s.win) = x
    BY <1>1 DEF CountedIn, CreditedTo
  <2>1. s \in Sampled /\ s.win \in Win
    BY DEF InputTypes, HookTypes, Sampled
  <2>2. Resolve(kn, re, ru, s).minute = s.minute
        /\ Resolve(kn, re, ru, s).app \in {None, IdentityOf(kn, re, s.win)}
    BY <2>1, ResolveType DEF Resolving
  <2>3. Resolve(kn, re, ru, s).minute = m /\ Resolve(kn, re, ru, s).app = x /\ x # None
    BY InputCountsAssumption DEF BucketsOf
  <2>. QED
    BY <2>1, <2>2, <2>3
<1>7. Credited(kn, re, ru, W) <= SumOver(hook.counts, CreditedTo(x, m))
  <2>1. CreditedTo(x, m) \in SUBSET DOMAIN hook.counts
    BY DEF CreditedTo
  <2>. QED
    BY <1>6, <2>1, PartSum DEF Credited, InputTypes, HookTypes
<1>8. KeptOf(W) + SumOver(hook.counts, CreditedTo(x, m)) <= MadeBy(TruthsOf(x, m))
  BY <1>1 DEF Attributed
<1>9. SumOver(hook.counts, CreditedTo(x, m)) \in Nat /\ MadeBy(TruthsOf(x, m)) \in Nat
  BY AttributedTypes
<1>. QED
  BY <1>2, <1>3, <1>4, <1>5, <1>7, <1>8, <1>9

\* A press in a window may be credited to its owner alone.
LEMMA CreditPress ==
  ASSUME InputTypes, Attributed, NEW k \in Key \union Button, NEW w \in Win, Pressed(k, w),
         \A x \in App : Credit(w) = x => owner[w] = x,
         \A v \in Win : Credit(v)' = Credit(v)
  PROVE  Attributed'
<1>. SUFFICES ASSUME NEW x \in App, NEW m \in Minutes
              PROVE  KeptOf(BucketsOf(x, m))' + SumOver(hook'.counts, CreditedTo(x, m)')
                       <= MadeBy(TruthsOf(x, m))'
  BY DEF Attributed, BucketsOf, TruthsOf
<1>1. /\ HookTypes' /\ Sample(k, w) \in Sampled
      /\ made' = Bump(made, Truth(w), 1)
      /\ hook'.counts = hook.counts \/ hook'.counts = Bump(hook.counts, Sample(k, w), 1)
  BY PressStep
<1>2. KeptOf(BucketsOf(x, m))' = KeptOf(BucketsOf(x, m))
  <2>1. PICK W : W = BucketsOf(x, m)
    OBVIOUS
  <2>2. KeptOf(W)' = KeptOf(W)
    BY KeptSame DEF Pressed, loopVars
  <2>3. KeptOf(BucketsOf(x, m))' = KeptOf(W)'
    BY <2>1 DEF BucketsOf, KeptOf
  <2>. QED
    BY <2>1, <2>2, <2>3
<1>3. PICK o, c, d \in Nat :
         /\ o = KeptOf(BucketsOf(x, m)) /\ c = SumOver(hook.counts, CreditedTo(x, m))
         /\ d = MadeBy(TruthsOf(x, m))
  BY AttributedTypes
<1>4. o + c <= d
  BY <1>3 DEF Attributed
<1>5. PICK one \in {0, 1} : one = IF Truth(w) \in TruthsOf(x, m) THEN 1 ELSE 0
  OBVIOUS
<1>6. MadeBy(TruthsOf(x, m))' = d + one
  <2>1. PICK f, t, T : f = made /\ t = Truth(w) /\ T = TruthsOf(x, m)
    OBVIOUS
  <2>2. Table(f)
    BY <2>1 DEF InputTypes, MadeTypes
  <2>3. /\ DOMAIN Bump(f, t, 1) = DOMAIN f \union {t}
        /\ SumOver(Bump(f, t, 1), (DOMAIN f \union {t}) \intersect T)
             = SumOver(f, DOMAIN f \intersect T) + (IF t \in T THEN 1 ELSE 0)
    <3>1. DOMAIN Bump(f, t, 1) = DOMAIN f \union {t} /\ BumpAdds(f, t, 1, T)
      BY <2>2, BumpSum
    <3>. QED
      BY <3>1 DEF BumpAdds
  <2>4. MadeBy(TruthsOf(x, m))' = SumOver(made', DOMAIN made' \intersect T)
    BY <2>1 DEF MadeBy, TruthsOf
  <2>5. made' = Bump(f, t, 1)
    BY <1>1, <2>1
  <2>6. d = SumOver(f, DOMAIN f \intersect T)
    BY <1>3, <2>1 DEF MadeBy
  <2>7. one = IF t \in T THEN 1 ELSE 0
    BY <1>5, <2>1
  <2>. QED
    BY <2>3, <2>4, <2>5, <2>6, <2>7
<1>7. \A s \in Sampled : s.win \in Win
  BY DEF Sampled
<1>8. CASE hook'.counts = hook.counts
  <2>1. CreditedTo(x, m)' = CreditedTo(x, m)
    BY <1>7, <1>8 DEF CreditedTo, InputTypes, HookTypes
  <2>2. SumOver(hook'.counts, CreditedTo(x, m)') = c
    BY <1>3, <1>8, <2>1
  <2>. QED
    BY <1>2, <1>3, <1>4, <1>6, <2>2
<1>9. CASE hook'.counts = Bump(hook.counts, Sample(k, w), 1)
  <2>. DEFINE T == {s \in Sampled : s.minute = m /\ Credit(s.win) = x}
  <2>1. PICK f, s0, U : f = hook.counts /\ s0 = Sample(k, w) /\ U = T
    OBVIOUS
  <2>2. Table(f) /\ DOMAIN f \subseteq Sampled
    BY <2>1 DEF InputTypes, HookTypes
  <2>3. /\ DOMAIN Bump(f, s0, 1) = DOMAIN f \union {s0}
        /\ SumOver(Bump(f, s0, 1), (DOMAIN f \union {s0}) \intersect U)
             = SumOver(f, DOMAIN f \intersect U) + (IF s0 \in U THEN 1 ELSE 0)
    <3>1. DOMAIN Bump(f, s0, 1) = DOMAIN f \union {s0} /\ BumpAdds(f, s0, 1, U)
      BY <2>2, BumpSum
    <3>. QED
      BY <3>1 DEF BumpAdds
  <2>4. hook'.counts = Bump(f, s0, 1)
    BY <1>9, <2>1
  <2>5. CreditedTo(x, m)' = (DOMAIN f \union {s0}) \intersect U
    <3>1. DOMAIN hook'.counts = DOMAIN f \union {s0} /\ s0 \in Sampled
      BY <1>1, <2>1, <2>3, <2>4
    <3>. QED
      BY <1>7, <2>1, <2>2, <3>1 DEF CreditedTo
  <2>6. CreditedTo(x, m) = DOMAIN f \intersect U
    BY <2>1, <2>2 DEF CreditedTo
  <2>7. SumOver(hook'.counts, CreditedTo(x, m)') = c + (IF s0 \in U THEN 1 ELSE 0)
    BY <1>3, <2>1, <2>3, <2>4, <2>5, <2>6
  <2>8. s0 \in U => one = 1
    <3>. SUFFICES ASSUME s0 \in U PROVE Truth(w) \in TruthsOf(x, m)
      BY <1>5
    <3>1. s0.minute = m /\ Credit(s0.win) = x /\ s0.win = w /\ s0.minute = MinuteOf(wall)
      BY <2>1 DEF Sample
    <3>2. owner[w] = x
      BY <3>1
    <3>. QED
      BY <3>1, <3>2 DEF Truth, TruthsOf, Truths
  <2>. QED
    BY <1>2, <1>3, <1>4, <1>5, <1>6, <2>7, <2>8
<1>. QED
  BY <1>1, <1>8, <1>9

\* A window that changed hands while presses waited is nobody's; one that did not is still
\* its owner's, if it has one.
LEMMA LookIdentity ==
  ASSUME LoopTypes, Identities, ipc = "waiting", NEW w \in Win, NEW kn, NEW re, NEW x \in App,
         kn = [v \in Win |-> Seen(v)], re = Retired, IdentityOf(kn, re, w) = x
  PROVE  Credit(w) = x /\ owner[w] \in {None, x}
<1>1. x # None
  BY InputCountsAssumption
<1>2. Seen(w) = IF w \in Dialog THEN None ELSE owner[w]
  BY DEF Seen
<1>3. re[w] = IF known[w] \in {None, Seen(w)} THEN {} ELSE {known[w], Seen(w)} \ {None}
  BY DEF Retired
<1>4. kn[w] = Seen(w)
  OBVIOUS
<1>5. Credit(w) = IF known[w] = None THEN Seen(w)
                  ELSE IF owner[w] \in {None, known[w]} THEN known[w] ELSE None
  BY DEF Credit
<1>6. w \in Dialog => known[w] = None
  BY DEF Identities
<1>7. CASE known[w] \in {None, Seen(w)}
  <2>1. re[w] = {}
    BY <1>3, <1>7
  <2>2. x = Seen(w)
    BY <1>4, <2>1 DEF IdentityOf
  <2>3. owner[w] = x
    BY <1>1, <1>2, <2>2
  <2>. QED
    BY <1>1, <1>5, <1>7, <2>2, <2>3
<1>8. CASE known[w] \notin {None, Seen(w)}
  <2>1. w \notin Dialog /\ Seen(w) = owner[w]
    BY <1>2, <1>6, <1>8
  <2>2. re[w] = {known[w], owner[w]} \ {None}
    BY <1>3, <1>8, <2>1
  <2>3. CASE owner[w] = None
    <3>1. re[w] = {known[w]}
      BY <1>8, <2>2, <2>3
    <3>2. Cardinality(re[w]) = 1
      BY <3>1, FS_Singleton
    <3>3. x = CHOOSE a \in re[w] : TRUE
      BY <3>1, <3>2 DEF IdentityOf
    <3>4. x = known[w]
      BY <3>1, <3>3
    <3>. QED
      BY <1>1, <1>5, <2>3, <3>4
  <2>4. CASE owner[w] # None
    <3>1. re[w] = {known[w]} \union {owner[w]} /\ owner[w] \notin {known[w]}
      BY <1>8, <2>1, <2>2, <2>4
    <3>2. IsFiniteSet({known[w]}) /\ Cardinality({known[w]}) = 1
      BY FS_Singleton
    <3>3. Cardinality(re[w]) = 2
      <4>1. Cardinality({known[w]} \union {owner[w]}) = Cardinality({known[w]}) + 1
        BY <3>1, <3>2, FS_AddElement
      <4>. QED
        BY <3>1, <3>2, <4>1
    <3>4. re[w] # {}
      BY <3>1
    <3>5. IdentityOf(kn, re, w) = None
      BY <3>3, <3>4 DEF IdentityOf
    <3>. QED
      BY <1>1, <3>5
  <2>. QED
    BY <2>3, <2>4
<1>. QED
  BY <1>7, <1>8

\* Initially nothing waits, and every window is known.
LEMMA AttributedInit == InputInit => AttributedInv
<1>. SUFFICES ASSUME InputInit PROVE AttributedInv
  OBVIOUS
<1>1. CountsInv
  BY CountsInit
<1>2. Identities
  <2>1. /\ known = [w \in Win |-> Seen(w)] /\ retired = [w \in Win |-> {}]
        /\ ipc = "waiting"
    BY DEF InputInit
  <2>2. \A w \in Win : known[w] = Seen(w) /\ retired[w] = {}
    BY <2>1
  <2>3. \A w \in Dialog : known[w] = None
    BY <2>2, InputCountsAssumption DEF Seen
  <2>. QED
    BY <2>1, <2>2, <2>3, InputCountsAssumption DEF Identities
<1>3. Attributed
  <2>. SUFFICES ASSUME NEW x \in App, NEW m \in Minutes
                PROVE  KeptOf(BucketsOf(x, m)) + SumOver(hook.counts, CreditedTo(x, m)) <= MadeBy(TruthsOf(x, m))
    BY DEF Attributed
  <2>1. DOMAIN Empty = {}
    BY DEF Empty
  <2>2. SumOver(hook.counts, CreditedTo(x, m)) = 0
    <3>1. CreditedTo(x, m) = {}
      BY <2>1 DEF InputInit, NewHook, CreditedTo
    <3>. QED
      BY <3>1, SumNone
  <2>3. KeptOf(BucketsOf(x, m)) = 0
    <3>1. DOMAIN buckets \intersect BucketsOf(x, m) = {} /\ {e \in DOMAIN sealed : e.bucket \in BucketsOf(x, m)} = {}
      BY <2>1 DEF InputInit
    <3>2. SumOver(Totals(buckets), {}) = 0 /\ SumOver(Worth(sealed), {}) = 0
      BY SumNone
    <3>. QED
      BY <3>1, <3>2 DEF KeptOf
  <2>4. MadeBy(TruthsOf(x, m)) \in Nat
    BY <1>1, AttributedTypes DEF CountsInv
  <2>. QED
    BY <2>2, <2>3, <2>4
<1>. QED
  BY <1>1, <1>2, <1>3 DEF AttributedInv

\* What a step of the desktop does to who may be credited
LEMMA DesktopAttributes ==
  ASSUME AttributedInv, Desktop
  PROVE  Identities' /\ Attributed'
<1>. USE DEF AttributedInv, CountsInv
<1>0. LoopTypes /\ InputTypes
  BY DEF InputTypes
<1>1. ASSUME NEW w \in Win, NEW a \in App, OpensWindow(w, a) PROVE Identities' /\ Attributed'
  <2>1. /\ owner[w] = None /\ owner' = [owner EXCEPT ![w] = a]
        /\ \/ ipc = "waiting" /\ known[w] # None
           \/ known[w] = None /\ retired[w] = {} /\ ~Waiting(w)
        /\ UNCHANGED <<known, retired, ipc, hook, buckets, sealed, made>>
    BY <1>1 DEF OpensWindow, loopVars
  <2>2. \A v \in Win : IdentityOf(known, retired, v)' = IdentityOf(known, retired, v)
    BY <2>1 DEF IdentityOf
  <2>3. \A v \in Win : v # w => owner'[v] = owner[v]
    BY <1>0, <2>1 DEF LoopTypes
  <2>4. owner'[w] = a
    BY <1>0, <2>1 DEF LoopTypes
  <2>5. Identities'
    <3>1. ipc = "looked" => IdentityOf(known, retired, w) = None
      BY <2>1 DEF IdentityOf
    <3>2. ASSUME ipc = "looked", NEW v \in Win, IdentityOf(known, retired, v) # None
          PROVE  owner'[v] \in {None, IdentityOf(known, retired, v)}
      BY <2>3, <3>1, <3>2 DEF Identities
    <3>. QED
      BY <2>1, <2>2, <3>2 DEF Identities
  <2>6. \A s \in DOMAIN hook.counts, x \in App : Credit(s.win)' = x => Credit(s.win) = x
    <3>. SUFFICES ASSUME NEW s \in DOMAIN hook.counts, NEW x \in App, Credit(s.win)' = x
                  PROVE  Credit(s.win) = x
      OBVIOUS
    <3>1. PICK v \in Win : v = s.win
      BY <1>0 DEF InputTypes, HookTypes, Sampled
    <3>2. CASE v # w \/ ipc = "looked"
      <4>1. Credit(v)' = Credit(v)
        BY <2>1, <2>2, <2>3, <3>2 DEF Credit, Seen
      <4>. QED
        BY <3>1, <4>1
    <3>3. CASE v = w /\ ipc # "looked"
      <4>1. known[w] # None
        BY <2>1, <3>1, <3>3 DEF Waiting
      <4>2. x = IF a \in {None, known[w]} THEN known[w] ELSE None
        BY <2>1, <2>4, <3>1, <3>3, <4>1 DEF Credit
      <4>3. Credit(w) = known[w]
        BY <2>1, <3>3, <4>1 DEF Credit
      <4>4. x # None
        BY InputCountsAssumption
      <4>. QED
        BY <3>1, <3>3, <4>2, <4>3, <4>4
    <3>. QED
      BY <3>2, <3>3
  <2>7. Attributed'
    BY <1>0, <2>1, <2>6, CreditShrinks
  <2>. QED
    BY <2>5, <2>7
<1>2. ASSUME NEW w \in Win, Vanish(w) PROVE Identities' /\ Attributed'
  <2>1. /\ owner' = [owner EXCEPT ![w] = None] /\ ~Reused(w)
        /\ UNCHANGED <<known, retired, ipc, hook, buckets, sealed, made>>
    BY <1>2 DEF Vanish, loopVars
  <2>2. \A v \in Win : IdentityOf(known, retired, v)' = IdentityOf(known, retired, v)
    BY <2>1 DEF IdentityOf
  <2>3. \A v \in Win : owner'[v] \in {None, owner[v]}
    BY <1>0, <2>1 DEF LoopTypes
  <2>4. Identities'
    BY <2>1, <2>2, <2>3 DEF Identities
  <2>5. \A s \in DOMAIN hook.counts, x \in App : Credit(s.win)' = x => Credit(s.win) = x
    <3>. SUFFICES ASSUME NEW s \in DOMAIN hook.counts, NEW x \in App, Credit(s.win)' = x
                  PROVE  Credit(s.win) = x
      OBVIOUS
    <3>1. PICK v \in Win : v = s.win
      BY <1>0 DEF InputTypes, HookTypes, Sampled
    <3>2. x # None
      BY InputCountsAssumption
    <3>3. CASE ipc = "looked"
      BY <2>1, <2>2, <3>1, <3>3 DEF Credit
    <3>4. CASE ipc # "looked" /\ known[v] = None
      <4>1. x = IF v \in Dialog THEN None ELSE owner'[v]
        BY <2>1, <3>1, <3>4 DEF Credit, Seen
      <4>2. Credit(v) = IF v \in Dialog THEN None ELSE owner[v]
        BY <3>4 DEF Credit, Seen
      <4>. QED
        BY <2>3, <3>1, <3>2, <4>1, <4>2
    <3>5. CASE ipc # "looked" /\ known[v] # None
      <4>1. x = known[v]
        BY <2>1, <3>1, <3>2, <3>5 DEF Credit
      <4>2. owner[v] \in {None, known[v]}
        <5>1. CASE v = w
          BY <2>1, <3>5, <5>1 DEF Reused
        <5>2. CASE v # w
          <6>1. owner'[v] = owner[v]
            BY <1>0, <2>1, <5>2 DEF LoopTypes
          <6>. QED
            BY <2>1, <3>1, <3>2, <3>5, <6>1 DEF Credit
        <5>. QED
          BY <5>1, <5>2
      <4>. QED
        BY <3>1, <3>5, <4>1, <4>2 DEF Credit
    <3>. QED
      BY <3>3, <3>4, <3>5
  <2>6. Attributed'
    BY <1>0, <2>1, <2>5, CreditShrinks
  <2>. QED
    BY <2>4, <2>6
<1>3. ASSUME UNCHANGED <<owner, known, retired, ipc>>
      PROVE  Identities' /\ \A v \in Win : Credit(v)' = Credit(v)
  BY <1>3 DEF Identities, Credit, IdentityOf, Seen
<1>4. ASSUME NEW k \in Key \union Button, NEW w \in Win, Pressed(k, w) PROVE Identities' /\ Attributed'
  <2>1. UNCHANGED <<owner, known, retired, ipc>> /\ owner[w] # None
    BY <1>4 DEF Pressed, loopVars
  <2>2. Identities' /\ \A v \in Win : Credit(v)' = Credit(v)
    BY <1>3, <2>1
  <2>3. \A x \in App : Credit(w) = x => owner[w] = x
    <3>. SUFFICES ASSUME NEW x \in App, Credit(w) = x PROVE owner[w] = x
      OBVIOUS
    <3>1. x # None
      BY InputCountsAssumption
    <3>2. CASE ipc = "looked"
      BY <2>1, <3>1, <3>2 DEF Credit, Identities
    <3>3. CASE ipc # "looked"
      BY <2>1, <3>1, <3>3 DEF Credit, Seen
    <3>. QED
      BY <3>2, <3>3
  <2>4. Attributed'
    BY <1>0, <1>4, <2>2, <2>3, CreditPress
  <2>. QED
    BY <2>2, <2>4
<1>5. ASSUME UNCHANGED <<owner, known, retired, ipc, buckets, sealed, made>>, hook'.counts = hook.counts
      PROVE  Identities' /\ Attributed'
  <2>1. Identities' /\ \A v \in Win : Credit(v)' = Credit(v)
    BY <1>3, <1>5
  <2>2. \A s \in DOMAIN hook.counts : s.win \in Win
    BY <1>0 DEF InputTypes, HookTypes, Sampled
  <2>3. \A s \in DOMAIN hook.counts, x \in App : Credit(s.win)' = x => Credit(s.win) = x
    BY <2>1, <2>2
  <2>4. Attributed'
    BY <1>0, <1>5, <2>3, CreditShrinks
  <2>. QED
    BY <2>1, <2>4
<1>6. ASSUME NEW k \in Key \union Button, NEW w \in Win, Press(k, w) PROVE Identities' /\ Attributed'
  BY <1>4, <1>6 DEF Press
<1>7. ASSUME NEW k \in Key, NEW w \in Win, Repeat(k, w) PROVE Identities' /\ Attributed'
  BY <1>4, <1>7 DEF Repeat
<1>8. ASSUME NEW k \in Key, Release(k) PROVE Identities' /\ Attributed'
  <2>1. \/ hook' = [hook EXCEPT !.held = @ \ {k}]
        \/ hook' = [hook EXCEPT !.contended = TRUE]
    BY <1>8 DEF Release, Called
  <2>2. hook'.counts = hook.counts
    BY <1>0, <2>1 DEF InputTypes, HookTypes
  <2>. QED
    BY <1>5, <1>8, <2>2 DEF Release, loopVars
<1>9. CASE Tick
  BY <1>5, <1>9 DEF Tick, loopVars
<1>10. ASSUME NEW t \in 0 .. MaxWall, SetBack(t) PROVE Identities' /\ Attributed'
  BY <1>5, <1>10 DEF SetBack, loopVars
<1>. QED
  BY <1>1, <1>2, <1>6, <1>7, <1>8, <1>9, <1>10 DEF Desktop

\* Every step keeps what an application is credited with within what was made in its
\* windows.
LEMMA AttributedStep == AttributedInv /\ [InputNext]_ivars => AttributedInv'
<1>. SUFFICES ASSUME AttributedInv, [InputNext]_ivars PROVE AttributedInv'
  OBVIOUS
<1>0. CountsInv /\ InputTypes /\ LoopTypes /\ Identities /\ Attributed /\ CountsInv'
  BY CountsStep DEF AttributedInv, CountsInv, InputTypes
<1>1. CASE Desktop
  BY <1>0, <1>1, DesktopAttributes DEF AttributedInv
<1>2. ASSUME NEW ru \in Rules, NEW session \in BOOLEAN, LoopLooks(ru, session)
      PROVE  Identities' /\ Attributed'
  <2>1. /\ made' = made /\ ipc = "waiting" /\ ipc' = "looked" /\ owner' = owner
        /\ known' = [w \in Win |-> Seen(w)] /\ retired' = Retired
        /\ Resolving(known', retired', ru) \/ UNCHANGED <<hook, buckets, sealed, gone>>
    BY <1>0, <1>2, LookStep
  <2>2. PICK kn, re : kn = known' /\ re = retired'
    OBVIOUS
  <2>3. \A w \in Win, x \in App : IdentityOf(kn, re, w) = x => Credit(w) = x /\ owner[w] \in {None, x}
    BY <1>0, <2>1, <2>2, LookIdentity
  <2>4. \A w \in Win : IdentityOf(kn, re, w) \in App \union {None}
    <3>. SUFFICES ASSUME NEW w \in Win, IdentityOf(kn, re, w) # None PROVE IdentityOf(kn, re, w) \in App
      OBVIOUS
    <3>1. kn \in [Win -> App \union {None}] /\ re \in [Win -> SUBSET App]
      BY <1>0, <2>1, <2>2, LookTypes
    <3>2. CASE re[w] = {}
      BY <3>1, <3>2 DEF IdentityOf
    <3>3. CASE re[w] # {}
      <4>1. (CHOOSE a \in re[w] : TRUE) \in re[w]
        BY <3>3
      <4>. QED
        BY <3>1, <3>3, <4>1 DEF IdentityOf
    <3>. QED
      BY <3>2, <3>3
  <2>5. \A w \in Win : IdentityOf(known, retired, w)' = IdentityOf(kn, re, w)
    BY <2>2 DEF IdentityOf
  <2>6. Identities'
    <3>1. \A w \in Dialog : known'[w] = None
      BY <2>1, InputCountsAssumption DEF Seen
    <3>2. \A w \in Win : IdentityOf(kn, re, w) # None => owner'[w] \in {None, IdentityOf(kn, re, w)}
      BY <2>1, <2>3, <2>4
    <3>. QED
      BY <2>1, <2>5, <3>1, <3>2 DEF Identities
  <2>7. CASE Resolving(known', retired', ru)
    <3>1. Resolving(kn, re, ru)
      BY <2>2, <2>7
    <3>2. \A w \in Win, x \in App : IdentityOf(kn, re, w) = x => Credit(w) = x
      BY <2>3
    <3>3. Attributed'
      BY <1>0, <2>1, <3>1, <3>2, CreditDrains
    <3>. QED
      BY <2>6, <3>3
  <2>8. CASE UNCHANGED <<hook, buckets, sealed, gone>>
    <3>1. \A s \in DOMAIN hook.counts, x \in App : Credit(s.win)' = x => Credit(s.win) = x
      <4>. SUFFICES ASSUME NEW s \in DOMAIN hook.counts, NEW x \in App, Credit(s.win)' = x
                    PROVE  Credit(s.win) = x
        OBVIOUS
      <4>1. PICK v \in Win : v = s.win
        BY <1>0 DEF InputTypes, HookTypes, Sampled
      <4>2. Credit(v)' = IdentityOf(kn, re, v)
        BY <2>1, <2>5 DEF Credit
      <4>3. Credit(v)' = x
        BY <4>1
      <4>. QED
        BY <2>3, <4>1, <4>2, <4>3
    <3>2. Attributed'
      BY <1>0, <2>1, <2>8, <3>1, CreditShrinks
    <3>. QED
      BY <2>6, <3>2
  <2>. QED
    BY <2>1, <2>7, <2>8
<1>3. CASE Count
  <2>1. /\ made' = made /\ Resolving(known, retired, rules)
        /\ ipc = "looked" /\ ipc' = "waiting" /\ known' = known /\ owner' = owner
        /\ \A w \in Win : retired'[w] = {}
    BY <1>0, <1>3, CountStep
  <2>2. PICK kn, re, ru : kn = known /\ re = retired /\ ru = rules
    OBVIOUS
  <2>3. \A w \in Win, x \in App : IdentityOf(kn, re, w) = x => Credit(w) = x
    BY <2>1, <2>2 DEF Credit
  <2>4. Resolving(kn, re, ru)
    BY <2>1, <2>2
  <2>5. Attributed'
    BY <1>0, <2>1, <2>3, <2>4, CreditDrains
  <2>6. Identities'
    BY <1>0, <2>1 DEF Identities
  <2>. QED
    BY <1>0, <2>5, <2>6 DEF AttributedInv
<1>4. CASE Stop
  <2>1. /\ made' = made /\ Resolving(known, retired, rules)
        /\ ipc = "waiting" /\ ipc' = "stopped" /\ known' = known /\ owner' = owner /\ retired' = retired
        /\ \A w \in Win : ~Reused(w)
    BY <1>0, <1>4, StopStep
  <2>2. PICK kn, re, ru : kn = known /\ re = retired /\ ru = rules
    OBVIOUS
  <2>3. ASSUME NEW w \in Win, NEW x \in App, IdentityOf(kn, re, w) = x PROVE Credit(w) = x
    <3>1. retired[w] = {}
      BY <1>0, <2>1 DEF Identities
    <3>2. known[w] = x /\ x # None
      BY <2>2, <2>3, <3>1, InputCountsAssumption DEF IdentityOf
    <3>3. owner[w] \in {None, known[w]}
      BY <2>1, <3>2 DEF Reused
    <3>. QED
      BY <2>1, <3>2, <3>3 DEF Credit
  <2>4. Resolving(kn, re, ru)
    BY <2>1, <2>2
  <2>5. Attributed'
    BY <1>0, <2>1, <2>3, <2>4, CreditDrains
  <2>6. Identities'
    BY <1>0, <2>1 DEF Identities
  <2>. QED
    BY <1>0, <2>5, <2>6 DEF AttributedInv
<1>5. CASE UNCHANGED ivars
  <2>1. UNCHANGED <<owner, known, retired, ipc, hook, buckets, sealed, made>>
    BY <1>5 DEF ivars, desk, loopVars
  <2>2. Identities' /\ \A v \in Win : Credit(v)' = Credit(v)
    BY <1>0, <2>1 DEF Identities, Credit, IdentityOf, Seen
  <2>3. \A s \in DOMAIN hook.counts : s.win \in Win
    BY <1>0 DEF InputTypes, HookTypes, Sampled
  <2>4. \A s \in DOMAIN hook.counts, x \in App : Credit(s.win)' = x => Credit(s.win) = x
    BY <2>2, <2>3
  <2>5. Attributed'
    BY <1>0, <2>1, <2>4, CreditShrinks
  <2>. QED
    BY <1>0, <2>2, <2>5 DEF AttributedInv
<1>. QED
  BY <1>0, <1>1, <1>2, <1>3, <1>4, <1>5 DEF InputNext, AttributedInv

\* No application is ever credited with more input in a minute than was made in its
\* windows in that minute.
THEOREM AlwaysAttributed == InputSpec => []NeverMisattributed
<1>1. InputSpec => []AttributedInv
  BY AttributedInit, AttributedStep, PTL DEF InputSpec
<1>2. AttributedInv => NeverMisattributed
  <2>. SUFFICES ASSUME AttributedInv, NEW x \in App, NEW m \in Minutes
                PROVE  KeptOf(BucketsOf(x, m)) <= MadeBy(TruthsOf(x, m))
    BY DEF NeverMisattributed, BucketsOf, TruthsOf
  <2>1. KeptOf(BucketsOf(x, m)) + SumOver(hook.counts, CreditedTo(x, m)) <= MadeBy(TruthsOf(x, m))
    BY DEF AttributedInv, Attributed
  <2>2. KeptOf(BucketsOf(x, m)) \in Nat /\ SumOver(hook.counts, CreditedTo(x, m)) \in Nat
        /\ MadeBy(TruthsOf(x, m)) \in Nat
    BY AttributedTypes DEF AttributedInv, CountsInv
  <2>. QED
    BY <2>1, <2>2
<1>. QED
  BY <1>1, <1>2, PTL
=============================================================================
