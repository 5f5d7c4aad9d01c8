---------------------------- MODULE SnapshotSchedule ----------------------------
(***************************************************************************)
(* When the app takes a picture of the desktop (snapshot.rs): a thread     *)
(* that sleeps until the next slot of a fixed cycle, or until it is woken; *)
(* the settings, which start a new cycle; the gate that lets one heavy     *)
(* task run at a time; and what is looked at before a picture is taken.    *)
(***************************************************************************)
EXTENDS Integers, FiniteSets

CONSTANTS
    Shown,     \* applications that may be on screen
    Interval,  \* the intervals on offer
    NoOne,
    SleepGap,  \* the time unaccounted for that means the computer slept
    MaxTime,   \* bound on the clock
    MaxAct     \* bound on what the user, the desktop and the faults do

ASSUME SnapshotScheduleAssumption ==
    /\ Interval \subseteq Nat \ {0} /\ SleepGap \in Nat
    /\ {MaxTime, MaxAct} \subseteq Nat

\* Key: the start of the cycle and its interval, as schedule_key holds them
ScheduleKey == Nat \X Interval

\* "No one" is neither a holder of the gate nor a key.
ASSUME NoOneAssumption == NoOne \notin {"user", "settings", "scheduler"} /\ NoOne \notin ScheduleKey

VARIABLES
    clockTime,      \* the clock
    slept,          \* how much of it the computer slept
    screen,         \* the applications on screen
    settings,       \* snapshot_policy: enabled, interval, start of the cycle
    private,        \* collection_policy's paused, and snapshot_exclusions
    gate,           \* who holds HEAVY_TASK_GATE
    revision,       \* SCHEDULER_WAKE
    scheduler,      \* the thread: schedule_key, next slot, last wall and slept time, seen revision;
                    \* history: the first slot it waited for with this key
    tick,           \* where the thread is, and what it holds of the storage's state
    slots,          \* snapshot_slots of scheduled pictures: slot to what is recorded of it
    shots,          \* history: of each picture, whether it was taken in a pause, and what was on it
    acts

svars == <<clockTime, slept, screen, settings, private, gate, revision, scheduler, tick, slots, shots, acts>>

Act == acts < MaxAct /\ acts' = acts + 1

(***************************************************************************)
(* The desktop and the user                                                *)
(***************************************************************************)

WallTick ==
    /\ clockTime < MaxTime
    /\ clockTime' = clockTime + 1
    /\ UNCHANGED <<slept, screen, settings, private, gate, revision, scheduler, tick, slots, shots, acts>>

\* The computer sleeps, and wakes the scheduler when it is back.
Sleep(n) ==
    /\ Act /\ clockTime + n <= MaxTime
    /\ clockTime' = clockTime + n /\ slept' = slept + n
    /\ revision' = revision + 1
    /\ UNCHANGED <<screen, settings, private, gate, scheduler, tick, slots, shots>>

SetBackWall(n) ==
    /\ Act /\ clockTime - n >= 0
    /\ clockTime' = clockTime - n
    /\ revision' = revision + 1
    /\ UNCHANGED <<slept, screen, settings, private, gate, scheduler, tick, slots, shots>>

ScreenChanges(s) ==
    /\ Act /\ s # screen
    /\ screen' = s
    /\ UNCHANGED <<clockTime, slept, settings, private, gate, revision, scheduler, tick, slots, shots>>

\* Any other heavy task, and those below: one at a time
TakeGate ==
    /\ Act /\ gate = NoOne
    /\ gate' = "user"
    /\ UNCHANGED <<clockTime, slept, screen, settings, private, revision, scheduler, tick, slots, shots>>

LeaveGate ==
    /\ gate = "user"
    /\ gate' = NoOne
    /\ UNCHANGED <<clockTime, slept, screen, settings, private, revision, scheduler, tick, slots, shots, acts>>

\* set_snapshot_policy: a change of when pictures are taken starts a new cycle.
SetSettings(enabled, interval) ==
    /\ Act /\ gate = NoOne
    /\ <<enabled, interval>> # <<settings.enabled, settings.interval>>
    /\ settings' = [enabled |-> enabled, interval |-> interval, started |-> clockTime]
    /\ gate' = "settings"
    /\ UNCHANGED <<clockTime, slept, screen, private, revision, scheduler, tick, slots, shots>>

\* update_and_refresh_snapshot_policy wakes the scheduler afterwards.
Wake ==
    /\ gate = "settings"
    /\ revision' = revision + 1
    /\ gate' = NoOne
    /\ UNCHANGED <<clockTime, slept, screen, settings, private, scheduler, tick, slots, shots, acts>>

\* As SetPrivate, by a bug: while a picture is being taken, too.
SetPrivateAtOnce(p) ==
    /\ Act /\ p # private
    /\ private' = p
    /\ UNCHANGED <<clockTime, slept, screen, settings, gate, revision, scheduler, tick, slots, shots>>

\* A pause or an exclusion is set while no other heavy task runs.
SetPrivate(p) ==
    /\ Act /\ gate = NoOne /\ p # private
    /\ private' = p
    /\ UNCHANGED <<clockTime, slept, screen, settings, gate, revision, scheduler, tick, slots, shots>>

(***************************************************************************)
(* The scheduler                                                           *)
(***************************************************************************)

\* ON CONFLICT DO NOTHING: the first record of a slot stays.
WithSlot(rows, slot, result) ==
    [s \in DOMAIN rows \union {slot} |-> IF s \in DOMAIN rows THEN rows[s] ELSE result]

NextBoundary(start, interval) ==
    IF clockTime < start THEN start ELSE start + ((clockTime - start) \div interval + 1) * interval

Observed == [scheduler EXCEPT !.clockTime = clockTime, !.slept = slept]
At(pc) == [pc |-> pc]

\* What became of the slot in hand: the thread goes on to the next.  What cannot be
\* recorded is tried again in a second.
SlotTold(result) ==
    \/ /\ slots' = WithSlot(slots, tick.slot, result)
       /\ scheduler' = [scheduler EXCEPT !.next = tick.slot + tick.interval, !.clockTime = tick.clockTime, !.slept = tick.slept]
       /\ tick' = At("settled") /\ UNCHANGED acts
    \/ Act /\ tick' = At("retrying") /\ UNCHANGED <<slots, scheduler>>

\* The revision is read before the settings.
ReadRevision ==
    /\ tick.pc \in {"waiting", "retrying"}
    /\ \/ revision # scheduler.seen \/ tick.pc = "retrying"
       \/ scheduler.key # NoOne /\ clockTime >= scheduler.next
    /\ scheduler' = [scheduler EXCEPT !.seen = revision]
    /\ tick' = At("started")
    /\ UNCHANGED <<clockTime, slept, screen, settings, private, gate, revision, slots, shots, acts>>

\* SchedulerWake::wait, until the revision is another than the one read then
Wait ==
    /\ tick.pc = "settled"
    /\ tick' = At("waiting")
    /\ UNCHANGED <<clockTime, slept, screen, settings, private, gate, revision, scheduler, slots, shots, acts>>

\* Scheduler::tick with nothing to take
TickIdle ==
    /\ tick.pc = "started"
    /\ LET key == <<settings.started, settings.interval>>
       IN  \/ ~settings.enabled /\ scheduler' = [Observed EXCEPT !.key = NoOne]
           \/ /\ settings.enabled /\ scheduler.key # key
              /\ scheduler' = [Observed EXCEPT !.key = key, !.next = NextBoundary(settings.started, settings.interval),
                                        !.from = NextBoundary(settings.started, settings.interval)]
           \/ /\ settings.enabled /\ scheduler.key = key /\ clockTime < scheduler.next
              /\ scheduler' = Observed
    /\ tick' = At("settled")
    /\ UNCHANGED <<clockTime, slept, screen, settings, private, gate, revision, slots, shots, acts>>

\* and with a slot that is due: those before it were missed, and so was the latest, if
\* the computer slept past it.
Due == tick.pc = "started" /\ settings.enabled
       /\ scheduler.key = <<settings.started, settings.interval>> /\ clockTime >= scheduler.next
LatestDue == scheduler.next + ((clockTime - scheduler.next) \div settings.interval) * settings.interval
\* As Missed, by a bug: the latest stands for those before it.
NoneMissed == {}
Missed == {scheduler.next + k * settings.interval : k \in 0 .. (LatestDue - scheduler.next) \div settings.interval - 1}
SleptPast == (clockTime - scheduler.clockTime) - ((clockTime - slept) - (scheduler.clockTime - scheduler.slept)) > SleepGap
             /\ LatestDue < clockTime - SleepGap

TickDue ==
    /\ Due
    /\ \/ /\ slots' = [s \in DOMAIN slots \union Missed |-> IF s \in DOMAIN slots THEN slots[s] ELSE "missing"]
          /\ tick' = [pc |-> IF SleptPast THEN "asleep" ELSE "due", slot |-> LatestDue,
                      interval |-> settings.interval, clockTime |-> clockTime, slept |-> slept]
          /\ scheduler' = [scheduler EXCEPT !.next = LatestDue]
          /\ UNCHANGED acts
       \/ Act /\ tick' = At("retrying") /\ UNCHANGED <<slots, scheduler>>
    /\ UNCHANGED <<clockTime, slept, screen, settings, private, gate, revision, shots>>

RecordSleep ==
    /\ tick.pc = "asleep"
    /\ SlotTold("missing")
    /\ UNCHANGED <<clockTime, slept, screen, settings, private, gate, revision, shots>>

\* try_run_heavy_task: a slot is skipped while another heavy task runs.
TryGate ==
    /\ tick.pc = "due"
    /\ IF gate # NoOne THEN SlotTold("missing") /\ UNCHANGED gate
       ELSE gate' = "scheduler" /\ tick' = [tick EXCEPT !.pc = "gated"] /\ UNCHANGED <<slots, scheduler, acts>>
    /\ UNCHANGED <<clockTime, slept, screen, settings, private, revision, shots>>

\* capture_slot: nothing in a pause (or a locked session, with little space, ...),
CapturePaused ==
    /\ tick.pc = "gated" /\ private.paused
    /\ SlotTold("missing")
    /\ gate' = NoOne
    /\ UNCHANGED <<clockTime, slept, screen, settings, private, revision, shots>>

\* nothing of an empty desktop; or it looks at the windows,
CaptureLook ==
    /\ tick.pc = "gated" /\ ~private.paused
    /\ IF screen = {} THEN SlotTold("missing") /\ gate' = NoOne
       ELSE /\ tick' = [pc |-> "looked", slot |-> tick.slot, interval |-> tick.interval,
                        clockTime |-> tick.clockTime, slept |-> tick.slept, on |-> screen]
            /\ UNCHANGED <<slots, scheduler, gate, acts>>
    /\ UNCHANGED <<clockTime, slept, screen, settings, private, revision, shots>>

\* nothing of a display with an excluded application; and takes the picture and stores it.
CaptureShoot ==
    /\ tick.pc = "looked"
    /\ IF tick.on \intersect private.excluded # {} THEN SlotTold("missing") /\ UNCHANGED shots
       ELSE \/ SlotTold("missing") /\ UNCHANGED shots
            \/ /\ SlotTold("picture")
               /\ shots' = shots \union {[slot |-> tick.slot, paused |-> private.paused,
                                           private |-> (screen \intersect tick.on \intersect private.excluded) # {}]}
    /\ gate' = NoOne
    /\ UNCHANGED <<clockTime, slept, screen, settings, private, revision>>

ScheduleInit ==
    /\ clockTime = 0 /\ slept = 0
    /\ screen = Shown
    /\ settings \in [enabled : BOOLEAN, interval : Interval, started : {0}]
    /\ private = [paused |-> FALSE, excluded |-> {}]
    /\ gate = NoOne /\ revision = 0
    /\ scheduler = [key |-> NoOne, next |-> 0, clockTime |-> 0, slept |-> 0, seen |-> 0, from |-> 0]
    /\ tick = At("started")
    /\ slots = [s \in {} |-> "missing"] /\ shots = {} /\ acts = 0

ScheduleNext ==
    \/ WallTick
    \/ \E n \in 1 .. MaxTime : Sleep(n) \/ SetBackWall(n)
    \/ \E s \in SUBSET Shown : ScreenChanges(s)
    \/ TakeGate \/ LeaveGate
    \/ \E enabled \in BOOLEAN, interval \in Interval : SetSettings(enabled, interval)
    \/ Wake
    \/ \E p \in [paused : BOOLEAN, excluded : SUBSET Shown] : SetPrivate(p)
    \/ ReadRevision \/ Wait \/ TickIdle \/ TickDue \/ RecordSleep \/ TryGate
    \/ CapturePaused \/ CaptureLook \/ CaptureShoot

ScheduleSpec == ScheduleInit /\ [][ScheduleNext]_svars

(***************************************************************************)
(* Properties                                                              *)
(***************************************************************************)

\* snapshot.rs:145: a change of the settings cannot leave the scheduler asleep on the
\* old ones: while it waits with nothing to wake it, it waits for the cycle in force.
NotAsleepOnOldSettings ==
    tick.pc = "waiting" /\ scheduler.seen = revision /\ gate # "settings" =>
        scheduler.key = IF settings.enabled THEN <<settings.started, settings.interval>> ELSE NoOne

\* Every slot of the cycle that has passed is accounted for, by a picture or a reason,
\* whatever the clock, sleep, errors and other tasks did; and when the scheduler goes to
\* sleep none that has passed is left.
EverySlotTold ==
    scheduler.key # NoOne =>
        /\ \A s \in scheduler.from .. scheduler.next - 1 :
              (s - scheduler.key[1]) % scheduler.key[2] = 0 => s \in DOMAIN slots
        /\ tick.pc \in {"settled", "waiting"} => scheduler.clockTime < scheduler.next

\* No picture is taken in a pause, once the pause is acknowledged, nor of an application
\* that was on screen when the windows were looked at and is excluded.
NothingPrivate == \A shot \in shots : ~shot.paused /\ ~shot.private
=============================================================================
