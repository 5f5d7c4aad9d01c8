----------------------------- MODULE MCRecording -----------------------------
(***************************************************************************)
(* The parts of recording, apart from the delivery of what is recorded: the *)
(* collector's observer, input counts, filter, preview and spool, and the   *)
(* app's snapshot schedule.  A behaviour is one of one part; the others     *)
(* stay as they begin.                                                      *)
(***************************************************************************)
EXTENDS InputCounts, WindowObserver, CollectionPolicy, SnapshotSchedule, LiveInput, Spool

CONSTANTS a, b, win, Parts

VARIABLE part

\* No rule; or no activity recorded of one application and no input of the other
MCRules ==
  LET all == [paused |-> FALSE, activity |-> {}, input |-> {}]
  IN  {all, [all EXCEPT !.activity = {a}, !.input = {b}]}

\* Process 1 starts helper 2, which draws its windows; 3 takes over the id of 1.
MCProcess == 1..3
MCPidOf == [p \in MCProcess |-> IF p = 3 THEN 1 ELSE p]
MCParent == [p \in MCProcess |-> IF p = 2 THEN 1 ELSE Absent]
MCFactsOf ==
  [p \in MCProcess |->
    [folder |-> IF p = 3 THEN "other" ELSE "folder", aumid |-> Absent, package |-> Absent,
     path |-> CASE p = 1 -> "program" [] p = 2 -> "helper" [] OTHER -> "system"]]

\* A window on screen, minimized, on another virtual desktop, half hidden
MCLook ==
  LET plain == [structural |-> TRUE, visible |-> TRUE, minimized |-> FALSE, cloaked |-> "no",
                here |-> TRUE, placed |-> TRUE]
  IN  {plain, [plain EXCEPT !.minimized = TRUE],
       [plain EXCEPT !.cloaked = "shell", !.here = FALSE],
       [plain EXCEPT !.cloaked = "shell", !.minimized = TRUE]}

MCAppOf == [v \in Entry |-> a]
MCRanges == {[start |-> 2, end |-> 4]}
MCFaultSets == {{"crash"}, {"power"}, {"io"}, {"decay"}}

RecordingInit ==
  /\ part \in Parts
  /\ InputInit /\ ObserverInit /\ PolicyInit /\ ScheduleInit /\ LiveInit /\ Init
  /\ part # "input" => /\ owner = [v \in Win |-> None]
                       /\ rules = [paused |-> FALSE, activity |-> {}, input |-> {}]
  /\ part # "observer" => newest = 1 /\ tray = {}
  /\ part # "policy" => raw = [v \in Entry |-> Nil]
  /\ part # "schedule" => ~settings.enabled /\ settings.interval = 1
  /\ part # "spool" => may = {"io"}

RecordingNext ==
  /\ UNCHANGED part
  /\ \/ part = "input" /\ InputNext /\ UNCHANGED <<ovars, pvars, svars, liveVars, vars>>
     \/ part = "observer" /\ ObserverNext /\ UNCHANGED <<ivars, pvars, svars, liveVars, vars>>
     \/ part = "policy" /\ PolicyNext /\ UNCHANGED <<ivars, ovars, svars, liveVars, vars>>
     \/ part = "schedule" /\ ScheduleNext /\ UNCHANGED <<ivars, ovars, pvars, liveVars, vars>>
     \/ part = "live" /\ LiveNext /\ UNCHANGED <<ivars, ovars, pvars, svars, vars>>
     \/ part = "spool" /\ Next /\ UNCHANGED <<ivars, ovars, pvars, svars, liveVars>>

RecordingSpec == RecordingInit /\ [][RecordingNext]_<<part, ivars, ovars, pvars, svars, liveVars, vars>>

\* Every part's variables have their types, and its buffers and tables their limits.
RecordingTypeOK == InputTypeOK /\ PolicyTypeOK /\ LiveTypeOK /\ TypeOK
=============================================================================
