----------------------------- MODULE InputCounts -----------------------------
(***************************************************************************)
(* The way of a key press or click up to the sealed minute: counted by the *)
(* hooks, drained by the collection loop, attributed to the application    *)
(* that owned the foreground window, reduced by the collection rules,      *)
(* summed up in one bucket per minute and application, and sealed into an  *)
(* event when the minute is over.  Crates timelens-observer (input.rs) and *)
(* timelens-collector (main.rs, input_identity.rs).                        *)
(***************************************************************************)
EXTENDS Integers, FiniteSets

CONSTANTS
    App,            \* applications
    Win,            \* pairs of a window and a process id, as the samples carry them
    Dialog,         \* those of them the observer never tracks: owned and tool windows
    Key,            \* physical keys
    Button,         \* mouse buttons
    None,
    Rules,          \* the policies the user chooses between
    MinuteLength,
    MaxWall,        \* bound on the wall clock
    MaxPress,       \* bound on the presses of a behaviour
    MaxChange,      \* bound on the windows that appear, policy and session changes, clock
                    \* settings and lost locks of a behaviour, taken together
    MaxSamples,     \* MAX_DISTINCT_INPUT_SAMPLES
    MaxBuckets,     \* MAX_INPUT_BUCKETS_PER_MINUTE
    MaxKeys,        \* MAX_INPUT_KEYS_PER_MINUTE
    Tolerance       \* CLOCK_ROLLBACK_TOLERANCE_MS

ASSUME InputCountsAssumption ==
    /\ Dialog \subseteq Win
    /\ Rules \subseteq [paused : BOOLEAN, activity : SUBSET App, input : SUBSET App]
    /\ {MinuteLength, MaxSamples, MaxBuckets, MaxKeys} \subseteq Nat \ {0}
    /\ MaxWall \in Nat \ {0} /\ {MaxPress, MaxChange, Tolerance} \subseteq Nat
    /\ None \notin App

VARIABLES
    wall,     \* the wall clock
    down,     \* the keys that really are held
    owner,    \* who really owns each window
    hook,     \* HookState and the contention flag
    known,    \* InputIdentities::current
    retired,  \* InputIdentities::retired: the versions of each window since the last drain
    rules,    \* Filter::policy
    blocked,  \* Filter::blocked
    buckets,  \* InputAggregator::buckets
    lastNow,  \* the time of the run's latest event
    ipc,      \* where the collection loop is
    sealed,   \* the sealed minutes sent to the core, and how often each was
    made,     \* history: the presses made, by application, minute, and whether its window was known
    gone,     \* history: the presses not counted: ignored, missed, and reported of the missed
    allowed,  \* history: the applications some policy in force let input be counted of
    changes   \* how many of the changes that MaxChange bounds there were

desk == <<wall, down, owner>>
loopVars == <<known, retired, rules, blocked, buckets, lastNow, ipc, sealed>>
ivars == <<desk, hook, loopVars, made, gone, allowed, changes>>

AnotherChange == changes < MaxChange /\ changes' = changes + 1

MinuteOf(t) == t \div MinuteLength

CountAt(f, x) == IF x \in DOMAIN f THEN f[x] ELSE 0
Bump(f, x, n) == [y \in DOMAIN f \union {x} |-> CountAt(f, y) + (IF y = x THEN n ELSE 0)]
\* A sum of counts, as the number of the units counted
Units(f, S) == UNION {{x} \X (1 .. f[x]) : x \in S}
SumOver(f, S) == Cardinality(Units(f, S))
Total(f) == SumOver(f, DOMAIN f)
Empty == [x \in {} |-> 0]

(***************************************************************************)
(* The desktop                                                             *)
(***************************************************************************)

Waiting(w) == \E s \in DOMAIN hook.counts : s.win = w

\* A pair of ids that went to another application since the loop looked
Reused(w) == known[w] # None /\ owner[w] \notin {None, known[w]}

\* A window appears, perhaps under the ids of one that is gone.  Windows does not hand
\* out a pair of ids twice between two looks of the loop, nor between its look and its
\* drain: a window that opens wakes it.
OpensWindow(w, a) ==
    /\ owner[w] = None /\ AnotherChange
    /\ \/ ipc = "waiting" /\ known[w] # None
       \/ known[w] = None /\ retired[w] = {} /\ ~Waiting(w)
    /\ owner' = [owner EXCEPT ![w] = a]
    /\ UNCHANGED <<wall, down, hook, loopVars, made, gone, allowed>>

Vanish(w) ==
    /\ owner[w] # None /\ ~Reused(w)
    /\ owner' = [owner EXCEPT ![w] = None]
    /\ UNCHANGED <<wall, down, hook, loopVars, made, gone, allowed, changes>>

Tick ==
    /\ wall < MaxWall
    /\ wall' = wall + 1
    /\ UNCHANGED <<down, owner, hook, loopVars, made, gone, allowed, changes>>

SetBack(t) ==
    /\ t < wall /\ AnotherChange
    /\ wall' = t
    /\ UNCHANGED <<down, owner, hook, loopVars, made, gone, allowed>>

(***************************************************************************)
(* The hooks                                                               *)
(***************************************************************************)

NewHook == [counts |-> Empty, held |-> {}, over |-> FALSE, contended |-> FALSE]

\* As Increment, by a bug: whatever room there is.
IncrementWithoutLimit(h, s) == [h EXCEPT !.counts = Bump(@, s, 1)]

\* A count that finds no room is lost, and flagged.
Increment(h, s) ==
    IF s \notin DOMAIN h.counts /\ Cardinality(DOMAIN h.counts) >= MaxSamples
        THEN [h EXCEPT !.over = TRUE]
        ELSE [h EXCEPT !.counts = Bump(@, s, 1)]

Sample(k, w) == [minute |-> MinuteOf(wall), win |-> w, key |-> k]
Truth(w) == [app |-> owner[w], minute |-> MinuteOf(wall), seen |-> known[w] = owner[w]]

\* HookState::record_keyboard, record_mouse of a press
Recorded(k, w) ==
    IF k \in Key THEN [Increment(hook, Sample(k, w)) EXCEPT !.held = @ \union {k}]
                 ELSE Increment(hook, Sample(k, w))

\* The callback got the lock, or flags that it did not.
Called(h) ==
    \/ hook' = h /\ UNCHANGED changes
    \/ hook' = [hook EXCEPT !.contended = TRUE] /\ AnotherChange

\* A press, or a repeat of a key the hooks have forgotten, with w in the foreground
Pressed(k, w) ==
    /\ owner[w] # None /\ Total(made) < MaxPress
    /\ made' = Bump(made, Truth(w), 1)
    /\ Called(IF k \in hook.held THEN hook ELSE Recorded(k, w))
    /\ gone' = IF hook'.counts = hook.counts THEN [gone EXCEPT !.missed = @ + 1] ELSE gone
    /\ UNCHANGED <<wall, owner, loopVars, allowed>>

Press(k, w) ==
    /\ k \notin down
    /\ down' = down \union ({k} \intersect Key)
    /\ Pressed(k, w)

Repeat(k, w) ==
    /\ k \in down \ hook.held
    /\ UNCHANGED down
    /\ Pressed(k, w)

Release(k) ==
    /\ k \in down
    /\ down' = down \ {k}
    /\ Called([hook EXCEPT !.held = @ \ {k}])
    /\ UNCHANGED <<wall, owner, loopVars, made, gone, allowed>>

\* InputMonitor::drain; after a lost callback no key counts as held.
Drained == [NewHook EXCEPT !.held = IF hook.contended THEN {} ELSE hook.held]
\* As Overflowed, by a bug: a callback that did not get the lock goes unnoticed.
OverflowedAtLimit == hook.over
Overflowed == hook.over \/ hook.contended

(***************************************************************************)
(* Attribution                                                             *)
(***************************************************************************)

\* What the observer says of a window
Seen(w) == IF w \in Dialog THEN None ELSE owner[w]

\* As Retired, by a bug: a window that changed hands keeps the old version alone.
RetiredOldOnly == [w \in Win |-> IF known[w] \in {None, Seen(w)} THEN {} ELSE {known[w]}]

\* InputIdentities::retire: a window that changed hands since the last drain keeps
\* both versions until then.
Retired == [w \in Win |-> IF known[w] \in {None, Seen(w)} THEN {} ELSE {known[w], Seen(w)} \ {None}]

\* InputIdentities::known
IdentityOf(kn, re, w) ==
    IF re[w] = {} THEN kn[w]
    ELSE IF Cardinality(re[w]) = 1 THEN CHOOSE a \in re[w] : TRUE ELSE None

\* InputIdentities::resolve, with the minute: the bucket of a sample
Resolve(kn, re, ru, s) ==
    LET id == IdentityOf(kn, re, s.win)
    IN  [minute |-> s.minute,
         app |-> IF id \in ru.input \union ru.activity THEN None ELSE id,
         anonymous |-> IF id # None THEN id \in ru.input
                       ELSE Cardinality(re[s.win]) > 1 /\ re[s.win] \intersect ru.input # {}]

(***************************************************************************)
(* Aggregation                                                             *)
(***************************************************************************)

\* What a bucket counts: of anonymous input, not which key.
Kind(b, k) == IF b.anonymous /\ k \in Key THEN "any" ELSE k

\* The buckets with the samples S added
Filled(kn, re, ru, S) ==
    LET of(s) == Resolve(kn, re, ru, s)
    IN  [b \in DOMAIN buckets \union {of(s) : s \in S} |->
            LET old == IF b \in DOMAIN buckets THEN buckets[b] ELSE Empty
                new == {s \in S : of(s) = b}
            IN  [k \in DOMAIN old \union {Kind(b, s.key) : s \in new} |->
                    CountAt(old, k) + SumOver(hook.counts, {s \in new : Kind(b, s.key) = k})]]

WithinLimits(bs) ==
    /\ Cardinality(DOMAIN bs) <= MaxBuckets
    /\ \A b \in DOMAIN bs : Cardinality(DOMAIN bs[b] \intersect Key) <= MaxKeys

\* The samples that find room: all of them, or as many as fit in the order of a hash
\* table.
Taken(kn, re, ru) ==
    LET fits == {S \in SUBSET DOMAIN hook.counts : WithinLimits(Filled(kn, re, ru, S))}
    IN  {S \in fits : \A T \in fits : S \subseteq T => S = T}

\* InputAggregator::take_completed: the minutes that are over, but for a detailed one
\* that has not begun at the time of its event.
MinutesOver(bs, current) == {b \in DOMAIN bs : b.minute < current}
TooEarly(b, at) == ~b.anonymous /\ b.minute * MinuteLength >= at
Minute(bs, b, at) == [bucket |-> b, counts |-> bs[b], at |-> at]
Sealed(bs, current, at) ==
    LET events == {Minute(bs, b, at) : b \in {c \in MinutesOver(bs, current) : ~TooEarly(c, at)}}
    IN  [e \in DOMAIN sealed \union events |-> CountAt(sealed, e) + (IF e \in events THEN 1 ELSE 0)]
\* As StillOpen, by a bug: what was sealed stays.
StillOpenAll(bs, current) == bs
StillOpen(bs, current) == [b \in DOMAIN bs \ MinutesOver(bs, current) |-> bs[b]]
Totals(bs) == [b \in DOMAIN bs |-> Total(bs[b])]
Dropped(bs, current, at) ==
    SumOver(Totals(bs), {b \in MinutesOver(bs, current) : TooEarly(b, at)})

\* Past every minute: a run that ends seals all it has.
EndOfTime == MaxWall + 1

\* add_private and take_completed at `at`.  A loss is reported as a gap at once,
\* unless the run ends here.
Aggregate(kn, re, ru, bl, current, at) ==
    /\ hook' = Drained
    /\ IF bl \/ ru.paused
       THEN /\ buckets' = StillOpen(buckets, current)
            /\ sealed' = Sealed(buckets, current, at)
            /\ gone' = [gone EXCEPT !.ignored = @ + Total(hook.counts) + Dropped(buckets, current, at),
                                    !.reported = gone.missed]
       ELSE \E S \in Taken(kn, re, ru) : \E bs \in {Filled(kn, re, ru, S)} :
            LET lost == Total(hook.counts) - SumOver(hook.counts, S)
            IN  /\ buckets' = StillOpen(bs, current)
                /\ sealed' = Sealed(bs, current, at)
                /\ gone' = [ignored |-> gone.ignored + Dropped(bs, current, at),
                            missed |-> gone.missed + lost,
                            reported |-> IF Overflowed \/ lost > 0 \/ current = EndOfTime
                                         THEN gone.missed + lost ELSE gone.reported]
    /\ UNCHANGED desk

(***************************************************************************)
(* The collection loop                                                     *)
(***************************************************************************)

\* It wakes, rereads the policy and looks at the windows.  A clock set back by more
\* than the tolerance ends the run: what was counted is sealed at its last time.
LoopLooks(ru, session) ==
    /\ ipc = "waiting"
    /\ IF ru # rules \/ session # (blocked /\ ~rules.paused) THEN AnotherChange ELSE UNCHANGED changes
    /\ rules' = ru
    /\ known' = [w \in Win |-> Seen(w)]
    /\ retired' = Retired
    /\ blocked' = (ru.paused \/ session)
    /\ allowed' = allowed \union (App \ ru.input)
    /\ ipc' = "looked"
    /\ IF lastNow - wall > Tolerance
       THEN /\ lastNow' = wall
            /\ Aggregate(known', Retired, ru, blocked, EndOfTime, lastNow)
       ELSE /\ lastNow' = IF wall < lastNow THEN lastNow ELSE wall
            /\ UNCHANGED <<desk, hook, buckets, sealed, gone>>
    /\ UNCHANGED made

\* It drains the hooks, reports a loss and seals the minutes that are over.
Count ==
    /\ ipc = "looked"
    /\ Aggregate(known, retired, rules, blocked, MinuteOf(lastNow), lastNow)
    /\ retired' = [w \in Win |-> {}]
    /\ ipc' = "waiting"
    /\ UNCHANGED <<known, rules, blocked, lastNow, made, allowed, changes>>

\* The core asks it to stop.
Stop ==
    /\ ipc = "waiting" /\ \A w \in Win : ~Reused(w)
    /\ ipc' = "stopped"
    /\ lastNow' = IF wall < lastNow THEN lastNow ELSE wall
    /\ Aggregate(known, retired, rules, blocked, EndOfTime, lastNow')
    /\ UNCHANGED <<known, retired, rules, blocked, made, allowed, changes>>

Desktop ==
    \/ \E w \in Win, a \in App : OpensWindow(w, a)
    \/ \E w \in Win : Vanish(w)
    \/ \E k \in Key \union Button, w \in Win : Press(k, w)
    \/ \E k \in Key, w \in Win : Repeat(k, w)
    \/ \E k \in Key : Release(k)
    \/ Tick
    \/ \E t \in 0 .. MaxWall : SetBack(t)

InputInit ==
    /\ wall = 1 /\ down = {}
    /\ owner \in [Win -> App \union {None}]
    /\ hook = NewHook
    /\ known = [w \in Win |-> Seen(w)] /\ retired = [w \in Win |-> {}]
    /\ rules \in Rules /\ blocked = rules.paused
    /\ buckets = Empty /\ lastNow = wall /\ ipc = "waiting"
    /\ sealed = Empty /\ made = Empty
    /\ gone = [ignored |-> 0, missed |-> 0, reported |-> 0]
    /\ allowed = App \ rules.input
    /\ changes = 0

InputNext ==
    /\ ipc # "stopped"
    /\ \/ Desktop
       \/ \E ru \in Rules, session \in BOOLEAN : LoopLooks(ru, session)
       \/ Count
       \/ Stop

InputSpec == InputInit /\ [][InputNext]_ivars

(***************************************************************************)
(* Properties                                                              *)
(***************************************************************************)

Minutes == 0 .. MinuteOf(MaxWall)
Bucket == [minute : Minutes, app : App \union {None}, anonymous : BOOLEAN]

\* What is kept of the presses counted in the buckets B: sealed, or still open.
Worth(minutes) == [e \in DOMAIN minutes |-> minutes[e] * Total(e.counts)]
KeptOf(B) ==
    SumOver(Worth(sealed), {e \in DOMAIN sealed : e.bucket \in B})
        + SumOver(Totals(buckets), DOMAIN buckets \intersect B)
MadeBy(T) == SumOver(made, DOMAIN made \intersect T)
Truths(A) == [app : A, minute : Minutes, seen : BOOLEAN]

InputTypeOK ==
    /\ wall \in 0 .. MaxWall /\ lastNow \in 0 .. MaxWall
    /\ down \subseteq Key /\ hook.held \subseteq Key
    /\ owner \in [Win -> App \union {None}] /\ known \in [Win -> App \union {None}]
    /\ retired \in [Win -> SUBSET App]
    /\ rules \in Rules /\ blocked \in BOOLEAN
    /\ ipc \in {"waiting", "looked", "stopped"}
    /\ Cardinality(DOMAIN hook.counts) <= MaxSamples
    /\ WithinLimits(buckets)

\* Every press is in exactly one place: waiting in the hooks, in an open bucket, in a
\* sealed minute, or among those knowingly left out (collection paused or blocked, a
\* limit, a lock the callback did not get, a minute the set-back clock has not reached).
Conserved ==
    Total(made) = Total(hook.counts) + KeptOf(Bucket) + gone.ignored + gone.missed

\* An application is never credited with more input in a minute than was made in its
\* windows in that minute: not after its window or process id went to another one, not
\* when the windows change between a press and the drain.
NeverMisattributed ==
    \A a \in App, m \in Minutes :
        KeptOf({b \in Bucket : b.app = a /\ b.minute = m}) <= MadeBy({t \in Truths(App) : t.app = a /\ t.minute = m})

\* Input in a tracked window of an application that every policy so far excludes never
\* shows up with detail, neither under its name nor under none.
ExcludedIsAnonymous ==
    KeptOf({b \in Bucket : ~b.anonymous}) <= MadeBy({t \in Truths(App) : t.app \in allowed \/ ~t.seen})

\* CONTEXT.md:92: input observed while an excluded application is focused is reduced to
\* anonymous totals.  It is not, while the focused window is one the observer does not
\* track (an owned dialog, a tool window) or has not seen yet.
ExclusionHolds ==
    KeptOf({b \in Bucket : ~b.anonymous}) <= MadeBy(Truths(allowed))

\* The core accepts every sealed minute (validate_input_minute): it began before its
\* event, counts something, and has no key in it if it is anonymous.
MinutesAccepted ==
    \A e \in DOMAIN sealed :
        /\ Total(e.counts) > 0
        /\ IF e.bucket.anonymous THEN e.bucket.app = None /\ DOMAIN e.counts \intersect Key = {}
                                 ELSE e.bucket.minute * MinuteLength < e.at

\* A press lost to a limit or to the lock is reported as a gap by the next drain, unless
\* collection is blocked by then or the run ends with it.
LossIsReported == gone.missed > gone.reported => Overflowed
=============================================================================
