------------------------ MODULE WindowObserverProofs ------------------------
(***************************************************************************)
(* Theorems about WindowObserver, for every set of windows, processes and  *)
(* events: once all events are applied the observer sees the desktop.      *)
(***************************************************************************)
EXTENDS WindowObserver, TLAPS

TypeOK ==
  /\ window \in [Handle -> Windows \union {Absent}]
  /\ foreground \in Handle \union {Absent}
  /\ running \subseteq Process /\ newest \in Process
  /\ pending \in Queues
  /\ taken \in Queues \union {Absent}
  /\ tracked \in [Handle -> Observations \union {Absent}]
  /\ DOMAIN processCache = {PidOf[p] : p \in Process}

\* A process id is one running process's, and the last of those that had it; a window's
\* process runs.
Alive ==
  /\ \A p \in running : p <= newest
  /\ \A p, q \in running : PidOf[p] = PidOf[q] => p = q
  /\ \A p \in running : Parent[p] # Absent =>
       \A q \in running : q <= p /\ PidOf[q] = PidOf[Parent[p]] => q = Parent[p]
  /\ \A h \in Handle : window[h] # Absent => window[h].process \in running

\* What was read of a process is its own, or its launcher's.
Remembered(cache) ==
  \A i \in DOMAIN cache : cache[i].of # Absent =>
    cache[i].of \in Process /\ Identity(cache[i].facts) \in IdentitiesOf(cache[i].of)

\* The events that wait, and those that are being applied
Waiting == {pending.events[i] : i \in DOMAIN pending.events}
InHand == IF taken = Absent THEN {} ELSE {taken.events[i] : i \in DOMAIN taken.events}
Full == pending.full \/ (taken # Absent /\ taken.full)

\* The loop is to look at a window: for an event of its own, or for any if it was observed
\* with the focus.
Covered(h) ==
  \/ Full
  \/ \E e \in Waiting \union InHand : e.handle = h
  \/ tracked[h] # Absent /\ tracked[h].focused /\ Waiting \union InHand # {}

\* A window that is not seen as it is will be looked at.
Heard == \A h \in Handle \ quiet : Right(h, tracked[h]) \/ Covered(h)

\* A tracked window has an identity of its process.
Named ==
  \A h \in Handle : tracked[h] # Absent =>
    tracked[h].identity \in IdentitiesOf(tracked[h].process)

ObserverInv == TypeOK /\ Alive /\ Remembered(processCache) /\ Named /\ Heard
-----------------------------------------------------------------------------
(* Whose window it is.                                                     *)

\* p and what is found up from it
LEMMA ClimbIs ==
  ASSUME NEW parent, NEW p, NEW c, c = Climb(parent, p)
  PROVE  /\ c[0] = p
         /\ \A n \in 1 .. 4 : c[n] = IF c[n - 1] = Absent THEN Absent ELSE parent[c[n - 1]]
<1>. DEFINE up(x) == IF x = Absent THEN Absent ELSE parent[x]
            Ups(f) == [n \in 0 .. 4 |-> IF n = 0 THEN p
                                        ELSE IF f[n - 1] = Absent THEN Absent ELSE parent[f[n - 1]]]
<1>1. PICK a, b, d, e : a = up(p) /\ b = up(a) /\ d = up(b) /\ e = up(d)
  OBVIOUS
<1>2. PICK g : g = [n \in 0 .. 4 |-> IF n = 0 THEN p ELSE IF n = 1 THEN a ELSE IF n = 2 THEN b
                                     ELSE IF n = 3 THEN d ELSE e]
  OBVIOUS
<1>3. g = Ups(g)
  <2>1. g[0] = p /\ g[1] = a /\ g[2] = b /\ g[3] = d /\ g[4] = e
    BY <1>2
  <2>2. \A n \in 0 .. 4 : g[n] = IF n = 0 THEN p ELSE up(g[n - 1])
    <3>1. SUFFICES ASSUME NEW n \in 0 .. 4 PROVE g[n] = IF n = 0 THEN p ELSE up(g[n - 1])
      OBVIOUS
    <3>2. n = 0 \/ n = 1 \/ n = 2 \/ n = 3 \/ n = 4
      OBVIOUS
    <3>. HIDE DEF up
    <3>. QED
      BY <1>1, <2>1, <3>2
  <2>3. g = [n \in 0 .. 4 |-> g[n]]
    BY <1>2
  <2>. QED
    BY <2>2, <2>3
<1>4. c = Ups(c)
  <2>1. c = CHOOSE f : f = Ups(f)
    BY DEF Climb
  <2>. HIDE DEF Ups
  <2>. QED
    BY <1>3, <2>1
<1>5. ASSUME NEW n \in 0 .. 4
      PROVE  c[n] = IF n = 0 THEN p ELSE IF c[n - 1] = Absent THEN Absent ELSE parent[c[n - 1]]
  BY <1>4
<1>. QED
  BY <1>5

\* The parent that is found is the one that started the process.
LEMMA ParentNowIs ==
  ASSUME Alive, NEW p \in running, ParentNow(p) # Absent
  PROVE  ParentNow(p) \in running /\ ParentNow(p) = Parent[p]
<1>. DEFINE found == {q \in running :
                        Parent[p] # Absent /\ PidOf[q] = PidOf[Parent[p]] /\ q <= p}
<1>1. found # {} /\ ParentNow(p) = CHOOSE q \in found : TRUE
  BY DEF ParentNow
<1>2. ParentNow(p) \in found
  BY <1>1
<1>. QED
  BY <1>2 DEF Alive

\* So is the launcher: a process that led to the helper.
LEMMA LauncherIs ==
  ASSUME TypeOK, Alive, NEW p \in running, Launcher(p) # Absent
  PROVE  Launcher(p) \in Origins(p)
<1>. DEFINE now == [q \in Process |-> ParentNow(q)]
<1>1. PICK u, c : u = Climb(now, p) /\ c = Climb(Parent, p)
  OBVIOUS
<1>2. /\ u[0] = p /\ c[0] = p
      /\ \A n \in 1 .. 4 : u[n] = IF u[n - 1] = Absent THEN Absent ELSE now[u[n - 1]]
      /\ \A n \in 1 .. 4 : c[n] = IF c[n - 1] = Absent THEN Absent ELSE Parent[c[n - 1]]
  BY <1>1, ClimbIs
<1>3. running \subseteq Process /\ Absent \notin Process
  BY AbsentAssumption DEF TypeOK
<1>. DEFINE Same(n) == u[n] # Absent => u[n] \in running /\ u[n] = c[n]
<1>4. ASSUME NEW n \in 1 .. 4, Same(n - 1) PROVE Same(n)
  <2>1. SUFFICES ASSUME u[n] # Absent PROVE u[n] \in running /\ u[n] = c[n]
    OBVIOUS
  <2>2. u[n - 1] # Absent /\ u[n] = now[u[n - 1]]
    BY <1>2, <2>1
  <2>3. u[n - 1] \in running /\ u[n - 1] = c[n - 1]
    BY <1>4, <2>2
  <2>4. u[n] = ParentNow(u[n - 1])
    BY <1>3, <2>2, <2>3
  <2>5. u[n] \in running /\ u[n] = Parent[c[n - 1]]
    BY <2>1, <2>3, <2>4, ParentNowIs
  <2>. QED
    BY <1>2, <2>2, <2>3, <2>5
<1>5. Same(0)
  BY <1>2
<1>. HIDE DEF Same, now
<1>6. Same(1)
  BY <1>4, <1>5
<1>7. Same(2)
  BY <1>4, <1>6
<1>8. Same(3)
  BY <1>4, <1>7
<1>9. Same(4)
  BY <1>4, <1>8
<1>10. \A n \in 1 .. 4 : Same(n)
  BY <1>6, <1>7, <1>8, <1>9
<1>11. PICK first \in 1 .. 4 : Launcher(p) = u[first]
  <2>. DEFINE copy(n) == u[n] # Absent /\ FactsOf[u[n]].path = FactsOf[p].path
              ends == {n \in 1 .. 4 : ~copy(n) /\ \A m \in 1 .. n - 1 : copy(m)}
              first == CHOOSE n \in ends : TRUE
  <2>1. ends # {} /\ Launcher(p) = u[first]
    BY <1>1 DEF Launcher, now
  <2>2. first \in ends
    BY <2>1
  <2>3. first \in 1 .. 4
    BY <2>2
  <2>. HIDE DEF first
  <2>. QED
    BY <2>1, <2>3
<1>12. Launcher(p) = c[first]
  BY <1>10, <1>11 DEF Same
<1>. QED
  BY <1>1, <1>12 DEF Origins

\* Processes that led to another are processes.
LEMMA OriginsIn ==
  ASSUME NEW p \in Process
  PROVE  p \in Origins(p) /\ Origins(p) \subseteq Process
<1>1. PICK c : c = Climb(Parent, p)
  OBVIOUS
<1>2. /\ c[0] = p
      /\ \A n \in 1 .. 4 : c[n] = IF c[n - 1] = Absent THEN Absent ELSE Parent[c[n - 1]]
  BY <1>1, ClimbIs
<1>3. Parent \in [Process -> Process \union {Absent}] /\ Absent \notin Process
  BY WindowObserverAssumption, AbsentAssumption
<1>. DEFINE Ok(n) == c[n] \in Process \union {Absent}
<1>4. ASSUME NEW n \in 1 .. 4, Ok(n - 1) PROVE Ok(n)
  BY <1>2, <1>3, <1>4
<1>5. Ok(0)
  BY <1>2
<1>. HIDE DEF Ok
<1>6. Ok(1)
  BY <1>4, <1>5
<1>7. Ok(2)
  BY <1>4, <1>6
<1>8. Ok(3)
  BY <1>4, <1>7
<1>9. Ok(4)
  BY <1>4, <1>8
<1>10. \A n \in 0 .. 4 : Ok(n)
  BY <1>5, <1>6, <1>7, <1>8, <1>9
<1>11. Origins(p) = {c[n] : n \in 0 .. 4} \ {Absent}
  BY <1>1 DEF Origins
<1>12. p \in {c[n] : n \in 0 .. 4}
  BY <1>2
<1>. QED
  BY <1>3, <1>10, <1>11, <1>12 DEF Ok

\* What a window may be counted as is the identity of some process.
LEMMA IdentitiesIn ==
  ASSUME NEW p \in Process
  PROVE  /\ IdentitiesOf(p) \subseteq {Identity(FactsOf[q]) : q \in Process}
         /\ Identity(FactsOf[p]) \in IdentitiesOf(p)
         /\ FactsOf[p].path = "helper" =>
              \A q \in Origins(p) : Identity(FactsOf[q]) \in IdentitiesOf(p)
<1>1. p \in Origins(p) /\ Origins(p) \subseteq Process
  BY OriginsIn
<1>. QED
  BY <1>1 DEF IdentitiesOf

\* What is read of a running process, or was while it ran, is its own.
LEMMA InfoIs ==
  ASSUME TypeOK, Alive, NEW cache, Remembered(cache), DOMAIN cache = {PidOf[p] : p \in Process},
         NEW p \in running, NEW info, info = ProcessInfo(cache, p)
  PROVE  info.of = p /\ Identity(info.facts) \in IdentitiesOf(p)
<1>1. p \in Process /\ p # Absent /\ PidOf[p] \in DOMAIN cache
  BY AbsentAssumption DEF TypeOK
<1>2. CASE cache[PidOf[p]].of = p
  BY <1>1, <1>2 DEF ProcessInfo, Remembered
<1>3. CASE cache[PidOf[p]].of # p
  <2>1. info.of = p /\ info.facts = Read(p)
    BY <1>3 DEF ProcessInfo
  <2>2. Identity(Read(p)) \in IdentitiesOf(p)
    <3>1. CASE FactsOf[p].path = "helper" /\ Launcher(p) # Absent
      <4>1. Launcher(p) \in Origins(p) /\ Read(p) = FactsOf[Launcher(p)]
        BY <3>1, LauncherIs DEF Read
      <4>. QED
        BY <1>1, <3>1, <4>1, IdentitiesIn
    <3>2. CASE ~(FactsOf[p].path = "helper" /\ Launcher(p) # Absent)
      <4>1. Read(p) = FactsOf[p]
        BY <3>2 DEF Read
      <4>. QED
        BY <1>1, <4>1, IdentitiesIn
    <3>. QED
      BY <3>1, <3>2
  <2>. QED
    BY <2>1, <2>2
<1>. QED
  BY <1>2, <1>3
-----------------------------------------------------------------------------
(* Looking at windows.                                                     *)

\* A window's look, and what is observed of it
LEMMA LookIs ==
  ASSUME TypeOK, Alive, NEW h \in Handle, window[h] # Absent
  PROVE  /\ window[h] \in Windows /\ window[h].look \in Looks
         /\ window[h].process \in running /\ window[h].process \in Process
         /\ \A p \in Process, i \in {Identity(FactsOf[q]) : q \in Process} :
              /\ Observation(h, p, i) \in Observations /\ Observation(h, p, i) # Absent
              /\ Observation(h, p, i).process = p /\ Observation(h, p, i).identity = i
         /\ \A f \in BOOLEAN : Onboards(window[h].look, f) => OnTaskbar(window[h].look, f)
<1>1. window[h] \in Windows /\ window[h].look \in Looks /\ window[h].process \in running
      /\ window[h].process \in Process
  BY DEF TypeOK, Alive, Windows
<1>2. Displayed(window[h].look) \in BOOLEAN /\ window[h].look.here \in BOOLEAN
      /\ window[h].look.minimized \in BOOLEAN
  BY <1>1 DEF Looks, Displayed, Cloaked
<1>3. ASSUME NEW p \in Process, NEW i \in {Identity(FactsOf[q]) : q \in Process}
      PROVE  /\ Observation(h, p, i) \in Observations /\ Observation(h, p, i) # Absent
             /\ Observation(h, p, i).process = p /\ Observation(h, p, i).identity = i
  <2>1. /\ Observation(h, p, i).process = p /\ Observation(h, p, i).identity = i
        /\ Observation(h, p, i) \in Observations
    BY <1>2 DEF Observation, Observations
  <2>. QED
    BY <2>1, AbsentAssumption
<1>4. \A f \in BOOLEAN : Onboards(window[h].look, f) => OnTaskbar(window[h].look, f)
  BY DEF Onboards
<1>. QED
  BY <1>1, <1>3, <1>4

\* A window that is looked at is seen as it is, whatever it was tracked as.
LEMMA TrackedIs ==
  ASSUME TypeOK, Alive, NEW cache, Remembered(cache), DOMAIN cache = {PidOf[p] : p \in Process},
         NEW h \in Handle, NEW old \in Observations \union {Absent},
         old # Absent => old.identity \in IdentitiesOf(old.process),
         NEW t, t = Tracked(old, cache, h)
  PROVE  /\ t \in Observations \union {Absent} /\ Right(h, t)
         /\ t # Absent => t.identity \in IdentitiesOf(t.process)
<1>. DEFINE w == window[h]
            focused == foreground = h
<1>1. CASE w = Absent \/ ~OnTaskbar(w.look, focused)
  <2>1. t = Absent
    BY <1>1 DEF Tracked
  <2>2. w = Absent \/ ~Onboards(w.look, focused)
    BY <1>1 DEF Onboards
  <2>. QED
    BY <2>1, <2>2 DEF Right
<1>2. CASE w # Absent /\ OnTaskbar(w.look, focused)
  <2>1. PICK info : info = ProcessInfo(cache, w.process)
    OBVIOUS
  <2>2. w.process \in running /\ w.process \in Process
    BY <1>2, LookIs
  <2>3. info.of = w.process /\ Identity(info.facts) \in IdentitiesOf(w.process)
    BY <2>1, <2>2, InfoIs
  <2>4. t = IF old # Absent /\ old.process = info.of THEN Observation(h, old.process, old.identity)
            ELSE IF Onboards(w.look, focused) /\ Identity(info.facts) # Absent
            THEN Observation(h, info.of, Identity(info.facts)) ELSE Absent
    BY <1>2, <2>1 DEF Tracked
  <2>5. IdentitiesOf(w.process) \subseteq {Identity(FactsOf[q]) : q \in Process}
    BY <2>2, IdentitiesIn
  <2>6. ASSUME NEW i \in IdentitiesOf(w.process), t = Observation(h, w.process, i)
        PROVE  /\ t \in Observations \union {Absent} /\ Right(h, t)
               /\ t # Absent => t.identity \in IdentitiesOf(t.process)
    <3>1. i \in {Identity(FactsOf[q]) : q \in Process}
      BY <2>5
    <3>2. t \in Observations /\ t # Absent /\ t.process = w.process /\ t.identity = i
      BY <1>2, <2>2, <2>6, <3>1, LookIs
    <3>3. Right(h, t)
      BY <1>2, <2>6, <3>2 DEF Right
    <3>. QED
      BY <3>2, <3>3
  <2>7. CASE old # Absent /\ old.process = info.of
    <3>1. old.identity \in IdentitiesOf(w.process) /\ t = Observation(h, w.process, old.identity)
      BY <2>3, <2>4, <2>7
    <3>. QED
      BY <2>6, <3>1
  <2>8. CASE /\ ~(old # Absent /\ old.process = info.of)
             /\ Onboards(w.look, focused) /\ Identity(info.facts) # Absent
    <3>1. t = Observation(h, w.process, Identity(info.facts))
      BY <2>3, <2>4, <2>8
    <3>. QED
      BY <2>3, <2>6, <3>1
  <2>9. CASE /\ ~(old # Absent /\ old.process = info.of)
             /\ ~(Onboards(w.look, focused) /\ Identity(info.facts) # Absent)
    <3>1. t = Absent
      BY <2>4, <2>9
    <3>2. Absent \in IdentitiesOf(w.process) \/ ~Onboards(w.look, focused)
      BY <2>3, <2>9
    <3>. QED
      BY <3>1, <3>2 DEF Right
  <2>. QED
    BY <2>7, <2>8, <2>9
<1>. QED
  BY <1>1, <1>2

\* A look leaves the windows that are looked at as they are seen, ends those that are
\* closed and leaves the others.
LEMMA ObserveIs ==
  ASSUME TypeOK, Alive, Remembered(processCache), Named,
         NEW closed \in SUBSET Handle, NEW seen \in SUBSET Handle, NEW full \in BOOLEAN,
         Observe(closed, seen, full)
  PROVE  /\ tracked' \in [Handle -> Observations \union {Absent}] /\ Named'
         /\ \A h \in seen : Right(h, tracked'[h])
         /\ \A h \in Handle \ seen : tracked'[h] = IF h \in closed THEN Absent ELSE tracked[h]
         /\ DOMAIN processCache' = {PidOf[p] : p \in Process} /\ Remembered(processCache')
         /\ quiet' = quiet \ seen /\ UNCHANGED desktop
<1>. DEFINE Before == [h \in Handle |-> IF h \in closed THEN Absent ELSE tracked[h]]
            After(c, b) == [h \in Handle |-> IF h \in seen THEN Tracked(b[h], c, h) ELSE b[h]]
            ReadOf(b) == {window[h].process : h \in {g \in seen :
                  window[g] # Absent /\ OnTaskbar(window[g].look, foreground = g)
                  /\ (Onboards(window[g].look, foreground = g) \/ b[g] # Absent)}}
            UsedOf(a) == {a[h].process : h \in {g \in Handle : a[g] # Absent}}
            CacheAfter(c, r, u) ==
              [i \in DOMAIN c |->
                LET latest == {p \in r : PidOf[p] = i}
                IN  IF full /\ i \notin {PidOf[p] : p \in u \union tray'} THEN NotRead
                    ELSE IF latest = {} THEN c[i]
                    ELSE ProcessInfo(c, CHOOSE p \in latest : TRUE)]
<1>1. PICK cache, before, after :
        /\ cache = (IF full THEN NoCache ELSE processCache) /\ before = Before
        /\ after = After(cache, before)
        /\ tracked' = after /\ quiet' = quiet \ seen /\ UNCHANGED desktop
        /\ processCache' = CacheAfter(cache, ReadOf(before), UsedOf(after))
  <2>. DEFINE Changes(b, a) ==
                [h \in Handle |-> Transitions(h, tracked[h], b[h]) \o Transitions(h, b[h], a[h])]
              Rest(c, b, a, changes) ==
                /\ tracked' = a
                /\ current' = IF \A h \in Handle : changes[h] = <<>> THEN current ELSE a
                /\ opened' = [h \in Handle |-> AfterAll(opened, changes[h])[h]]
                /\ wrong' = (wrong \/ \E h \in Handle : ~AllFollow(opened, changes[h]))
                /\ tray' = InTray(current')
                /\ processCache' = CacheAfter(c, ReadOf(b), UsedOf(a))
                /\ quiet' = quiet \ seen
                /\ UNCHANGED desktop
  <2>1. \E c \in {IF full THEN NoCache ELSE processCache}, b \in {Before} :
          \E a \in {After(c, b)} : \E changes \in {Changes(b, a)} : Rest(c, b, a, changes)
    BY DEF Observe
  <2>2. ASSUME NEW c, NEW b, NEW a, NEW changes, Rest(c, b, a, changes)
        PROVE  /\ tracked' = a /\ quiet' = quiet \ seen /\ UNCHANGED desktop
               /\ processCache' = CacheAfter(c, ReadOf(b), UsedOf(a))
    BY <2>2
  <2>. HIDE DEF Rest, After, Changes, Before, CacheAfter, ReadOf, UsedOf
  <2>3. PICK c, b : /\ c = (IF full THEN NoCache ELSE processCache) /\ b = Before
                    /\ \E a \in {After(c, b)} : \E changes \in {Changes(b, a)} :
                         Rest(c, b, a, changes)
    BY <2>1, Zenon
  <2>4. PICK a, changes : a = After(c, b) /\ Rest(c, b, a, changes)
    BY <2>3, Zenon
  <2>5. /\ tracked' = a /\ quiet' = quiet \ seen /\ UNCHANGED desktop
        /\ processCache' = CacheAfter(c, ReadOf(b), UsedOf(a))
    BY <2>2, <2>4
  <2>. QED
    BY <2>3, <2>4, <2>5, Zenon
<1>2. before = [h \in Handle |-> IF h \in closed THEN Absent ELSE tracked[h]]
  BY <1>1
<1>3. after = [h \in Handle |-> IF h \in seen THEN Tracked(before[h], cache, h) ELSE before[h]]
  BY <1>1
<1>4. PICK read : read = ReadOf(before)
  OBVIOUS
<1>5. PICK used : used = UsedOf(after)
  OBVIOUS
<1>6. /\ tracked' = after /\ quiet' = quiet \ seen /\ UNCHANGED desktop
      /\ processCache' = CacheAfter(cache, read, used)
  BY <1>1, <1>4, <1>5
<1>7. DOMAIN cache = {PidOf[p] : p \in Process} /\ Remembered(cache)
  <2>1. CASE full
    BY <1>1, <2>1 DEF NoCache, NotRead, Remembered
  <2>2. CASE ~full
    BY <1>1, <2>2 DEF TypeOK
  <2>. QED
    BY <2>1, <2>2
<1>8. ASSUME NEW h \in Handle
      PROVE  /\ before[h] \in Observations \union {Absent}
             /\ before[h] # Absent => before[h].identity \in IdentitiesOf(before[h].process)
  BY <1>2 DEF TypeOK, Named
<1>9. ASSUME NEW h \in Handle
      PROVE  /\ after[h] \in Observations \union {Absent}
             /\ after[h] # Absent => after[h].identity \in IdentitiesOf(after[h].process)
             /\ h \in seen => Right(h, after[h])
             /\ h \notin seen => after[h] = IF h \in closed THEN Absent ELSE tracked[h]
  <2>1. CASE h \in seen
    <3>1. PICK old, t : old = before[h] /\ t = Tracked(old, cache, h)
      OBVIOUS
    <3>2. after[h] = t
      BY <1>3, <2>1, <3>1
    <3>3. old \in Observations \union {Absent}
          /\ (old # Absent => old.identity \in IdentitiesOf(old.process))
      BY <1>8, <3>1
    <3>4. /\ t \in Observations \union {Absent} /\ Right(h, t)
          /\ t # Absent => t.identity \in IdentitiesOf(t.process)
      BY <1>7, <3>1, <3>3, TrackedIs
    <3>. QED
      BY <2>1, <3>2, <3>4
  <2>2. CASE h \notin seen
    <3>1. after[h] = before[h]
      BY <1>3, <2>2
    <3>. QED
      BY <1>2, <1>8, <2>2, <3>1
  <2>. QED
    BY <2>1, <2>2
<1>10. after \in [Handle -> Observations \union {Absent}]
  BY <1>3, <1>9
<1>11. Named'
  BY <1>6, <1>9 DEF Named
<1>12. read \subseteq running
  <2>1. \A h \in seen : window[h] # Absent => window[h].process \in running
    BY LookIs
  <2>. QED
    BY <1>4, <2>1
<1>13. DOMAIN processCache' = DOMAIN cache
  BY <1>6
<1>14. Remembered(processCache')
  <2>1. SUFFICES ASSUME NEW i \in DOMAIN cache, processCache'[i].of # Absent
                 PROVE  /\ processCache'[i].of \in Process
                        /\ Identity(processCache'[i].facts) \in IdentitiesOf(processCache'[i].of)
    BY <1>13 DEF Remembered
  <2>. DEFINE latest == {p \in read : PidOf[p] = i}
              last == CHOOSE p \in latest : TRUE
  <2>2. \/ processCache'[i] = NotRead
        \/ processCache'[i] = cache[i]
        \/ latest # {} /\ processCache'[i] = ProcessInfo(cache, last)
    BY <1>6
  <2>3. CASE processCache'[i] = NotRead
    BY <2>1, <2>3 DEF NotRead
  <2>4. CASE processCache'[i] = cache[i]
    BY <1>7, <2>1, <2>4 DEF Remembered
  <2>5. CASE latest # {} /\ processCache'[i] = ProcessInfo(cache, last)
    <3>1. last \in running
      <4>1. last \in latest
        BY <2>5
      <4>. QED
        BY <1>12, <4>1
    <3>2. PICK info : info = ProcessInfo(cache, last)
      OBVIOUS
    <3>. HIDE DEF last
    <3>3. info.of = last /\ Identity(info.facts) \in IdentitiesOf(last)
      BY <1>7, <3>1, <3>2, InfoIs
    <3>. QED
      BY <2>5, <3>1, <3>2, <3>3 DEF TypeOK
  <2>. QED
    BY <2>2, <2>3, <2>4, <2>5
<1>. QED
  BY <1>6, <1>7, <1>9, <1>10, <1>11, <1>13, <1>14
-----------------------------------------------------------------------------
(* What waits.                                                             *)

\* What comes: the events the loop is still to apply
Coming == Waiting \union InHand

\* Nothing that is to come is lost, except to a full look.
Keeps == Full' \/ (~Full /\ Coming \subseteq Coming')

\* An event finds its place among those that wait, or a full look takes all their places.
LEMMA PushIs ==
  ASSUME NEW p \in Queues, NEW e \in Events, NEW q, q = Push(p, e)
  PROVE  /\ q \in Queues
         /\ q.full \/ (/\ ~p.full /\ \A i \in DOMAIN p.events : \E j \in DOMAIN q.events :
                                        q.events[j] = p.events[i]
                       /\ \E j \in DOMAIN q.events : q.events[j] = e)
<1>1. p.events \in Seq(Events) /\ p.full \in BOOLEAN /\ Len(p.events) \in Nat
      /\ p = [events |-> p.events, full |-> p.full]
  BY DEF Queues
<1>2. CASE Len(p.events) >= MaxEvents
  <2>1. q = [events |-> <<>>, full |-> TRUE] /\ <<>> \in Seq(Events)
    BY <1>2 DEF Push
  <2>. QED
    BY <2>1 DEF Queues
<1>3. CASE ~(Len(p.events) >= MaxEvents) /\ p.full
  BY <1>3 DEF Push
<1>4. CASE ~(Len(p.events) >= MaxEvents) /\ ~p.full
  <2>1. PICK s : s = Append(p.events, e)
    OBVIOUS
  <2>2. q = [p EXCEPT !.events = s]
    BY <1>4, <2>1 DEF Push
  <2>3. q.events = s /\ q.full = p.full /\ q = [events |-> s, full |-> p.full]
    BY <1>1, <2>2
  <2>4. /\ s \in Seq(Events) /\ DOMAIN s = 1 .. (Len(p.events) + 1)
        /\ s[Len(p.events) + 1] = e
        /\ \A i \in 1 .. Len(p.events) : s[i] = p.events[i]
    BY <1>1, <2>1
  <2>5. q \in Queues
    BY <1>1, <2>3, <2>4 DEF Queues
  <2>6. \A i \in DOMAIN p.events : i \in DOMAIN s /\ s[i] = p.events[i]
    BY <1>1, <2>4
  <2>7. Len(p.events) + 1 \in DOMAIN s
    BY <1>1, <2>4
  <2>. QED
    BY <1>4, <2>3, <2>4, <2>5, <2>6, <2>7
<1>. QED
  BY <1>2, <1>3, <1>4

\* What is posted waits.
LEMMA PostedIs ==
  ASSUME TypeOK, NEW h \in Handle, NEW kind \in {"changed", "foreground", "destroyed"},
         Posted(h, kind), UNCHANGED taken
  PROVE  pending' \in Queues /\ Keeps
         /\ (Full' \/ [handle |-> h, kind |-> kind] \in Coming')
<1>1. PICK e, p, q : e = [handle |-> h, kind |-> kind] /\ p = pending /\ q = Push(p, e)
  OBVIOUS
<1>2. e \in Events /\ p \in Queues
  BY <1>1 DEF Events, TypeOK
<1>3. /\ q \in Queues
      /\ q.full \/ (/\ ~p.full /\ \A i \in DOMAIN p.events : \E j \in DOMAIN q.events :
                                     q.events[j] = p.events[i]
                    /\ \E j \in DOMAIN q.events : q.events[j] = e)
  BY <1>1, <1>2, PushIs
<1>4. pending' = q
  BY <1>1 DEF Posted
<1>5. InHand' = InHand
  BY DEF InHand
<1>6. CASE q.full
  BY <1>3, <1>4, <1>6 DEF Full, Keeps
<1>7. CASE ~q.full
  <2>1. Waiting \subseteq Waiting' /\ e \in Waiting' /\ ~pending.full
    BY <1>1, <1>3, <1>4, <1>7 DEF Waiting
  <2>2. e \in Coming' /\ Coming \subseteq Coming'
    BY <1>5, <2>1 DEF Coming
  <2>3. Full' \/ ~Full
    BY <2>1 DEF Full
  <2>. QED
    BY <1>1, <1>3, <1>4, <2>2, <2>3 DEF Keeps
<1>. QED
  BY <1>6, <1>7

\* A window that will be looked at is looked at still.
LEMMA StaysCovered ==
  ASSUME Keeps, UNCHANGED tracked, NEW h \in Handle, Covered(h)
  PROVE  Covered(h)'
<1>1. CASE Full'
  BY <1>1 DEF Covered
<1>2. CASE ~Full /\ Coming \subseteq Coming'
  BY <1>2 DEF Covered, Coming
<1>. QED
  BY <1>1, <1>2 DEF Keeps

\* So is every window something comes about, and the one observed with the focus.
LEMMA NowCovered ==
  ASSUME NEW h \in Handle, NEW kind, UNCHANGED tracked,
         Full' \/ [handle |-> h, kind |-> kind] \in Coming'
  PROVE  /\ Covered(h)'
         /\ \A g \in Handle : tracked[g] # Absent /\ tracked[g].focused => Covered(g)'
<1>1. CASE Full'
  BY <1>1 DEF Covered
<1>2. CASE [handle |-> h, kind |-> kind] \in Coming'
  <2>1. [handle |-> h, kind |-> kind].handle = h
    OBVIOUS
  <2>. QED
    BY <1>2, <2>1 DEF Covered, Coming
<1>. QED
  BY <1>1, <1>2
-----------------------------------------------------------------------------
(* What happens on the desktop.                                            *)

\* Whether a window is seen as it is depends on the window, on whether it has the focus
\* and on what it is tracked as.
LEMMA SameRight ==
  ASSUME NEW h \in Handle, window'[h] = window[h], (foreground' = h) <=> (foreground = h),
         UNCHANGED tracked, Right(h, tracked[h])
  PROVE  Right(h, tracked[h])'
BY DEF Right, Observation

\* A window that loses the focus is still seen as it is unless it was observed with it.
LEMMA Unfocused ==
  ASSUME TypeOK, Alive, NEW h \in Handle, foreground = h, foreground' # h,
         UNCHANGED <<window, tracked>>, Right(h, tracked[h]),
         ~(tracked[h] # Absent /\ tracked[h].focused)
  PROVE  Right(h, tracked[h])'
<1>. DEFINE w == window[h]
            t == tracked[h]
<1>1. CASE t = Absent
  <2>1. w = Absent \/ ~Onboards(w.look, TRUE) \/ Absent \in IdentitiesOf(w.process)
    BY <1>1 DEF Right
  <2>2. Onboards(w.look, FALSE) => Onboards(w.look, TRUE)
    BY DEF Onboards, OnTaskbar
  <2>3. (foreground' = h) = FALSE
    OBVIOUS
  <2>. QED
    BY <1>1, <2>1, <2>2, <2>3 DEF Right
<1>2. CASE t # Absent
  <2>1. /\ w # Absent /\ t = Observation(h, w.process, t.identity)
        /\ t.identity \in IdentitiesOf(w.process)
        /\ OnTaskbar(w.look, TRUE) \/ HalfHidden(w.look)
    BY <1>2 DEF Right
  <2>2. w.look \in Looks
    BY <2>1, LookIs
  <2>3. t = [process |-> w.process, identity |-> t.identity, displayed |-> Displayed(w.look),
             focused |-> ~w.look.minimized, here |-> w.look.here]
    BY <2>1 DEF Observation
  <2>4. w.look.minimized
    <3>1. t.focused = ~w.look.minimized
      BY <2>3
    <3>. QED
      BY <1>2, <2>2, <3>1 DEF Looks
  <2>5. t = Observation(h, w.process, t.identity)'
    BY <2>3, <2>4 DEF Observation
  <2>6. OnTaskbar(w.look, FALSE) \/ HalfHidden(w.look)
    BY <2>1, <2>2, <2>4 DEF OnTaskbar, HalfHidden, Looks, Cloaked
  <2>. QED
    BY <1>2, <2>1, <2>5, <2>6 DEF Right
<1>. QED
  BY <1>1, <1>2

\* A window appears or changes, with an event of its own.
LEMMA WindowStep ==
  ASSUME ObserverInv, NEW h \in Handle, NEW w \in Windows, w.process \in running,
         window' = [window EXCEPT ![h] = w], Posted(h, "changed"),
         UNCHANGED <<foreground, running, newest, taken, observer, quiet>>
  PROVE  ObserverInv'
<1>. USE DEF ObserverInv, observer
<1>1. /\ pending' \in Queues /\ Keeps
      /\ Full' \/ [handle |-> h, kind |-> "changed"] \in Coming'
  BY PostedIs
<1>2. window' \in [Handle -> Windows \union {Absent}] /\ window'[h] = w
      /\ \A g \in Handle \ {h} : window'[g] = window[g]
  BY DEF TypeOK
<1>3. TypeOK'
  BY <1>1, <1>2 DEF TypeOK
<1>4. Alive'
  BY <1>2 DEF Alive
<1>5. Remembered(processCache)'
  BY DEF Remembered
<1>6. Named'
  BY DEF Named
<1>7. Heard'
  <2>1. SUFFICES ASSUME NEW g \in Handle \ quiet PROVE Right(g, tracked[g])' \/ Covered(g)'
    BY DEF Heard
  <2>2. CASE g = h
    BY <1>1, <2>2, NowCovered
  <2>3. CASE g # h /\ Covered(g)
    BY <1>1, <2>3, StaysCovered
  <2>4. CASE g # h /\ Right(g, tracked[g])
    BY <1>2, <2>4, SameRight
  <2>. QED
    BY <2>2, <2>3, <2>4 DEF Heard
<1>. QED
  BY <1>3, <1>4, <1>5, <1>6, <1>7

\* A window that appears is heard of (ObserverInv, by each action in turn).
LEMMA AppearStep ==
  ASSUME ObserverInv, NEW h \in Handle, NEW p \in Process, NEW l \in Look, Appear(h, p, l)
  PROVE  ObserverInv'
<1>1. PICK w : w = [process |-> p, look |-> l]
  OBVIOUS
<1>2. w \in Windows /\ w.process \in running
  BY <1>1, WindowObserverAssumption DEF Windows, Appear
<1>3. /\ window' = [window EXCEPT ![h] = w] /\ Posted(h, "changed")
      /\ UNCHANGED <<foreground, running, newest, taken, observer, quiet>>
  BY <1>1 DEF Appear
<1>. QED
  BY <1>2, <1>3, WindowStep

\* So is one that changes ...
LEMMA ChangeStep ==
  ASSUME ObserverInv, NEW h \in Handle, NEW l \in Look, Change(h, l)
  PROVE  ObserverInv'
<1>1. window[h] # Absent /\ TypeOK /\ Alive
  BY DEF Change, ObserverInv
<1>2. window[h] \in Windows /\ window[h].process \in running
  BY <1>1, LookIs
<1>3. PICK w : w = [window[h] EXCEPT !.look = l]
  OBVIOUS
<1>4. w \in Windows /\ w.process \in running
  BY <1>2, <1>3, WindowObserverAssumption DEF Windows
<1>5. window' = [window EXCEPT ![h] = w]
  BY <1>3 DEF Change
<1>6. /\ Posted(h, "changed")
      /\ UNCHANGED <<foreground, running, newest, taken, observer, quiet>>
  BY DEF Change
<1>. QED
  BY <1>4, <1>5, <1>6, WindowStep

\* A window that moves without an event is left to the next full look.
LEMMA MoveStep ==
  ASSUME ObserverInv, NEW h \in Handle, Move(h)
  PROVE  ObserverInv'
<1>. USE DEF ObserverInv, observer
<1>1. window[h] \in Windows /\ window[h].process \in running
  BY LookIs DEF Move
<1>2. PICK w : w = [window[h] EXCEPT !.look.placed = ~@]
  OBVIOUS
<1>3. w \in Windows /\ w.process = window[h].process
  <2>1. window[h].look \in Looks
    BY <1>1 DEF Windows
  <2>2. PICK l : l = [window[h].look EXCEPT !.placed = ~@]
    OBVIOUS
  <2>3. l \in Looks
    BY <2>1, <2>2 DEF Looks
  <2>4. w = [window[h] EXCEPT !.look = l]
    BY <1>1, <1>2, <2>2 DEF Windows
  <2>. QED
    BY <1>1, <2>3, <2>4 DEF Windows
<1>4. window' = [window EXCEPT ![h] = w]
  BY <1>2 DEF Move
<1>5. window' \in [Handle -> Windows \union {Absent}] /\ window'[h] = w
      /\ \A g \in Handle \ {h} : window'[g] = window[g]
  BY <1>3, <1>4 DEF TypeOK
<1>6. quiet' = quiet \union {h}
      /\ UNCHANGED <<foreground, running, newest, pending, taken, observer>>
  BY DEF Move
<1>7. TypeOK'
  BY <1>5, <1>6 DEF TypeOK
<1>8. Alive'
  BY <1>1, <1>3, <1>5, <1>6 DEF Alive
<1>9. Remembered(processCache)' /\ Named'
  BY <1>6 DEF Remembered, Named
<1>10. Heard'
  <2>1. SUFFICES ASSUME NEW g \in Handle \ quiet, g # h
                 PROVE  Right(g, tracked[g])' \/ Covered(g)'
    BY <1>6 DEF Heard
  <2>2. CASE Covered(g)
    BY <1>6, <2>2 DEF Covered, Full, Waiting, InHand
  <2>3. CASE Right(g, tracked[g])
    BY <1>5, <1>6, <2>1, <2>3, SameRight
  <2>. QED
    BY <2>2, <2>3 DEF Heard
<1>. QED
  BY <1>7, <1>8, <1>9, <1>10

\* ... one that comes to the foreground ...
LEMMA FocusStep ==
  ASSUME ObserverInv, NEW h \in Handle, Focus(h)
  PROVE  ObserverInv'
<1>. USE DEF ObserverInv, observer
<1>1. /\ foreground' = h /\ foreground # h /\ Posted(h, "foreground")
      /\ UNCHANGED <<window, running, newest, taken, observer, quiet>>
  BY DEF Focus
<1>2. /\ pending' \in Queues /\ Keeps
      /\ Full' \/ [handle |-> h, kind |-> "foreground"] \in Coming'
  BY <1>1, PostedIs
<1>3. TypeOK'
  BY <1>1, <1>2 DEF TypeOK
<1>4. Alive' /\ Remembered(processCache)' /\ Named'
  BY <1>1 DEF Alive, Remembered, Named
<1>5. Heard'
  <2>1. SUFFICES ASSUME NEW g \in Handle \ quiet PROVE Right(g, tracked[g])' \/ Covered(g)'
    BY <1>1 DEF Heard
  <2>2. CASE g = h \/ (tracked[g] # Absent /\ tracked[g].focused)
    BY <1>1, <1>2, <2>2, NowCovered
  <2>3. CASE Covered(g)
    BY <1>1, <1>2, <2>3, StaysCovered
  <2>4. CASE /\ g # h /\ ~(tracked[g] # Absent /\ tracked[g].focused)
             /\ Right(g, tracked[g])
    <3>1. CASE foreground = g
      BY <1>1, <2>4, <3>1, Unfocused
    <3>2. CASE foreground # g
      BY <1>1, <2>4, <3>2, SameRight
    <3>. QED
      BY <3>1, <3>2
  <2>. QED
    BY <2>2, <2>3, <2>4 DEF Heard
<1>. QED
  BY <1>3, <1>4, <1>5

\* ... and one that is destroyed.
LEMMA DestroyStep ==
  ASSUME ObserverInv, NEW h \in Handle, Destroy(h)
  PROVE  ObserverInv'
<1>. USE DEF ObserverInv, observer
<1>1. /\ window' = [window EXCEPT ![h] = Absent] /\ Posted(h, "destroyed")
      /\ foreground' = IF foreground = h THEN Absent ELSE foreground
      /\ UNCHANGED <<running, newest, taken, observer, quiet>>
  BY DEF Destroy
<1>2. /\ pending' \in Queues /\ Keeps
      /\ Full' \/ [handle |-> h, kind |-> "destroyed"] \in Coming'
  BY <1>1, PostedIs
<1>3. window' \in [Handle -> Windows \union {Absent}] /\ window'[h] = Absent
      /\ \A g \in Handle \ {h} : window'[g] = window[g]
  BY <1>1 DEF TypeOK
<1>4. TypeOK'
  BY <1>1, <1>2, <1>3 DEF TypeOK
<1>5. Alive' /\ Remembered(processCache)' /\ Named'
  BY <1>1, <1>3 DEF Alive, Remembered, Named
<1>6. Heard'
  <2>1. SUFFICES ASSUME NEW g \in Handle \ quiet PROVE Right(g, tracked[g])' \/ Covered(g)'
    BY <1>1 DEF Heard
  <2>2. CASE g = h
    BY <1>1, <1>2, <2>2, NowCovered
  <2>3. CASE Covered(g)
    BY <1>1, <1>2, <2>3, StaysCovered
  <2>4. CASE g # h /\ Right(g, tracked[g])
    <3>1. (foreground' = g) <=> (foreground = g)
      BY <1>1, <2>4, AbsentAssumption
    <3>. QED
      BY <1>1, <1>3, <2>4, <3>1, SameRight
  <2>. QED
    BY <2>2, <2>3, <2>4 DEF Heard
<1>. QED
  BY <1>4, <1>5, <1>6

\* A full look covers everything.
LEMMA SwitchStep ==
  ASSUME ObserverInv, DesktopSwitch
  PROVE  ObserverInv'
<1>. USE DEF ObserverInv, observer
<1>1. /\ pending' = [pending EXCEPT !.full = TRUE]
      /\ UNCHANGED <<window, foreground, running, newest, taken, observer, quiet>>
  BY DEF DesktopSwitch
<1>2. pending' \in Queues /\ pending'.full
  BY <1>1 DEF TypeOK, Queues
<1>3. TypeOK'
  BY <1>1, <1>2 DEF TypeOK
<1>4. Alive' /\ Remembered(processCache)' /\ Named'
  BY <1>1 DEF Alive, Remembered, Named
<1>5. Heard'
  BY <1>1, <1>2 DEF Heard, Covered, Full
<1>. QED
  BY <1>3, <1>4, <1>5

\* Who runs does not change what is seen.
LEMMA SameSight ==
  ASSUME ObserverInv, running' \subseteq Process, newest' \in Process,
         UNCHANGED <<window, foreground, pending, taken, observer, quiet>>
  PROVE  TypeOK' /\ Remembered(processCache)' /\ Named' /\ Heard'
<1>. USE DEF ObserverInv, observer
<1>1. TypeOK'
  BY DEF TypeOK
<1>2. Remembered(processCache)' /\ Named'
  BY DEF Remembered, Named
<1>3. ASSUME NEW g \in Handle \ quiet PROVE Right(g, tracked[g])' \/ Covered(g)'
  <2>1. CASE Covered(g)
    BY <2>1 DEF Covered, Full, Waiting, InHand
  <2>2. CASE Right(g, tracked[g])
    BY <2>2, SameRight
  <2>. QED
    BY <2>1, <2>2 DEF Heard
<1>. QED
  BY <1>1, <1>2, <1>3 DEF Heard

\* A process without windows may exit.
LEMMA ExitStep ==
  ASSUME ObserverInv, NEW p \in Process, Exit(p)
  PROVE  ObserverInv'
<1>1. /\ running' = running \ {p} /\ \A h \in Handle : window[h] # Absent => window[h].process # p
      /\ UNCHANGED <<window, foreground, newest, pending, taken, observer, quiet>>
  BY DEF Exit
<1>2. TypeOK' /\ Remembered(processCache)' /\ Named' /\ Heard'
  BY <1>1, SameSight DEF ObserverInv, TypeOK
<1>3. Alive'
  BY <1>1 DEF ObserverInv, Alive
<1>. QED
  BY <1>2, <1>3 DEF ObserverInv

\* A process that starts has a number that no running one has.
LEMMA StartStep ==
  ASSUME ObserverInv, NEW p \in Process, Start(p)
  PROVE  ObserverInv'
<1>1. /\ p > newest /\ \A q \in running : PidOf[q] # PidOf[p]
      /\ Parent[p] \in running \union {Absent}
      /\ running' = running \union {p} /\ newest' = p
      /\ UNCHANGED <<window, foreground, pending, taken, observer, quiet>>
  BY DEF Start
<1>2. TypeOK' /\ Remembered(processCache)' /\ Named' /\ Heard'
  BY <1>1, SameSight DEF ObserverInv, TypeOK
<1>3. Alive'
  <2>1. running \subseteq Process /\ Process \subseteq Nat /\ newest \in Process
    BY WindowObserverAssumption DEF ObserverInv, TypeOK
  <2>2. \A q \in running : q <= newest
    BY DEF ObserverInv, Alive
  <2>3. \A q \in running : q < p /\ q # p
    <3>1. \A a, b, c \in Nat : a <= b /\ c > b => a < c /\ a # c
      OBVIOUS
    <3>. QED
      BY <1>1, <2>1, <2>2, <3>1
  <2>4. \A q \in running' : q <= newest'
    BY <1>1, <2>1, <2>3
  <2>5. \A q, r \in running' : PidOf[q] = PidOf[r] => q = r
    BY <1>1 DEF ObserverInv, Alive
  <2>6. ASSUME NEW q \in running', Parent[q] # Absent, NEW r \in running',
               r <= q, PidOf[r] = PidOf[Parent[q]]
        PROVE  r = Parent[q]
    <3>1. CASE q = p
      <4>1. Parent[p] \in running
        BY <1>1, <2>6, <3>1
      <4>2. r # p
        BY <1>1, <2>6, <3>1, <4>1
      <4>. QED
        BY <1>1, <2>6, <3>1, <4>1, <4>2 DEF ObserverInv, Alive
    <3>2. CASE q # p
      <4>1. q \in running
        BY <1>1, <3>2
      <4>2. r # p
        <5>1. \A a, b \in Nat : ~(a < b /\ b <= a)
          OBVIOUS
        <5>. QED
          BY <2>1, <2>3, <2>6, <4>1, <5>1
      <4>3. r \in running
        BY <1>1, <4>2
      <4>. QED
        BY <2>6, <4>1, <4>3 DEF ObserverInv, Alive
    <3>. QED
      BY <3>1, <3>2
  <2>7. \A h \in Handle : window'[h] # Absent => window'[h].process \in running'
    BY <1>1 DEF ObserverInv, Alive
  <2>. QED
    BY <2>4, <2>5, <2>6, <2>7 DEF Alive
<1>. QED
  BY <1>2, <1>3 DEF ObserverInv
-----------------------------------------------------------------------------
(* What the loop does.                                                     *)

\* What is taken is still to come.
LEMMA TakeStep ==
  ASSUME ObserverInv, Take
  PROVE  ObserverInv'
<1>. USE DEF ObserverInv, observer, desktop
<1>1. /\ taken = Absent /\ taken' = pending
      /\ pending' = [events |-> <<>>, full |-> FALSE]
      /\ UNCHANGED <<desktop, observer, quiet>>
  BY DEF Take
<1>2. pending' \in Queues /\ taken' \in Queues /\ taken' # Absent
  <2>1. <<>> \in Seq(Events)
    OBVIOUS
  <2>. QED
    BY <1>1, <2>1, AbsentAssumption DEF TypeOK, Queues
<1>3. TypeOK'
  BY <1>1, <1>2 DEF TypeOK
<1>4. Alive' /\ Remembered(processCache)' /\ Named'
  BY <1>1 DEF Alive, Remembered, Named
<1>5. Heard'
  <2>1. Full' = Full
    BY <1>1, <1>2 DEF Full, TypeOK, Queues
  <2>2. Coming' = Coming
    <3>1. Waiting' = {} /\ InHand = {}
      BY <1>1 DEF Waiting, InHand
    <3>2. InHand' = Waiting
      BY <1>1, <1>2 DEF Waiting, InHand
    <3>. QED
      BY <3>1, <3>2 DEF Coming
  <2>3. SUFFICES ASSUME NEW g \in Handle \ quiet PROVE Right(g, tracked[g])' \/ Covered(g)'
    BY <1>1 DEF Heard
  <2>4. CASE Covered(g)
    BY <1>1, <2>1, <2>2, <2>4 DEF Covered, Coming
  <2>5. CASE Right(g, tracked[g])
    BY <1>1, <2>5, SameRight
  <2>. QED
    BY <2>4, <2>5 DEF Heard
<1>. QED
  BY <1>3, <1>4, <1>5

\* Nothing is to come of an empty batch.
LEMMA NothingStep ==
  ASSUME ObserverInv, ObserveNothing
  PROVE  ObserverInv'
<1>. USE DEF ObserverInv, observer, desktop
<1>1. /\ taken # Absent /\ ~taken.full /\ taken.events = <<>> /\ taken' = Absent
      /\ UNCHANGED <<desktop, pending, observer, quiet>>
  BY DEF ObserveNothing
<1>2. TypeOK'
  BY <1>1 DEF TypeOK
<1>3. Alive' /\ Remembered(processCache)' /\ Named'
  BY <1>1 DEF Alive, Remembered, Named
<1>4. Heard'
  <2>1. InHand = {} /\ InHand' = {} /\ Waiting' = Waiting
    BY <1>1 DEF InHand, Waiting
  <2>2. Full' = Full
    BY <1>1 DEF Full, TypeOK, Queues
  <2>3. SUFFICES ASSUME NEW g \in Handle \ quiet PROVE Right(g, tracked[g])' \/ Covered(g)'
    BY <1>1 DEF Heard
  <2>4. CASE Covered(g)
    BY <1>1, <2>1, <2>2, <2>4 DEF Covered
  <2>5. CASE Right(g, tracked[g])
    BY <1>1, <2>5, SameRight
  <2>. QED
    BY <2>4, <2>5 DEF Heard
<1>. QED
  BY <1>2, <1>3, <1>4

\* What a look at some of the windows leaves is what each of them is seen as.
LEMMA LookStep ==
  ASSUME ObserverInv, taken # Absent, taken' = Absent, UNCHANGED pending,
         NEW closed \in SUBSET Handle, NEW seen \in SUBSET Handle, NEW full \in BOOLEAN,
         Observe(closed, seen, full),
         \A h \in Handle \ (seen \union quiet) :
            Right(h, IF h \in closed THEN Absent ELSE tracked[h])
            \/ pending.full \/ \E e \in Waiting : e.handle = h
            \/ (h \notin closed /\ tracked[h] # Absent /\ tracked[h].focused /\ Waiting # {})
  PROVE  ObserverInv'
<1>. USE DEF ObserverInv
<1>1. /\ tracked' \in [Handle -> Observations \union {Absent}] /\ Named'
      /\ \A h \in seen : Right(h, tracked'[h])
      /\ \A h \in Handle \ seen : tracked'[h] = IF h \in closed THEN Absent ELSE tracked[h]
      /\ DOMAIN processCache' = {PidOf[p] : p \in Process} /\ Remembered(processCache')
      /\ quiet' = quiet \ seen /\ UNCHANGED desktop
  BY ObserveIs
<1>2. TypeOK' /\ Alive'
  BY <1>1 DEF TypeOK, Alive, desktop
<1>3. Heard'
  <2>1. SUFFICES ASSUME NEW h \in Handle \ (quiet \ seen)
                 PROVE  Right(h, tracked[h])' \/ Covered(h)'
    BY <1>1 DEF Heard
  <2>2. Right(h, tracked'[h]) => Right(h, tracked[h])'
    BY <1>1 DEF Right, Observation, desktop
  <2>3. CASE h \in seen
    BY <1>1, <2>2, <2>3
  <2>4. CASE h \notin seen
    <3>1. tracked'[h] = IF h \in closed THEN Absent ELSE tracked[h]
      BY <1>1, <2>4
    <3>2. Waiting' = Waiting
      BY DEF Waiting
    <3>3. \/ Right(h, tracked'[h])
          \/ pending.full \/ \E e \in Waiting : e.handle = h
          \/ tracked'[h] # Absent /\ tracked'[h].focused /\ Waiting # {}
      BY <2>1, <2>4, <3>1
    <3>4. CASE pending.full
      BY <3>4 DEF Covered, Full
    <3>5. CASE \E e \in Waiting : e.handle = h
      BY <3>2, <3>5 DEF Covered
    <3>6. CASE tracked'[h] # Absent /\ tracked'[h].focused /\ Waiting # {}
      BY <3>2, <3>6 DEF Covered
    <3>. QED
      BY <2>2, <3>3, <3>4, <3>5, <3>6
  <2>. QED
    BY <2>3, <2>4
<1>4. Remembered(processCache)'
  BY <1>1 DEF Remembered, IdentitiesOf, Origins
<1>. QED
  BY <1>1, <1>2, <1>3, <1>4

\* Looking at every window leaves none to look at.
LEMMA AllStep ==
  ASSUME ObserverInv, ObserveAll
  PROVE  ObserverInv'
<1>1. /\ taken # Absent /\ taken' = Absent /\ Observe({}, Handle, TRUE) /\ UNCHANGED pending
  BY DEF ObserveAll
<1>2. PICK closed, seen, full : closed = {} /\ seen = Handle /\ full = TRUE
  OBVIOUS
<1>3. Observe(closed, seen, full)
  BY <1>1, <1>2
<1>. QED
  BY <1>1, <1>2, <1>3, LookStep

\* The windows nothing is to come of are gone, or are seen as they are.
LEMMA SomeStep ==
  ASSUME ObserverInv, ObserveSome
  PROVE  ObserverInv'
<1>. USE DEF ObserverInv
<1>1. PICK events : events = {taken.events[i] : i \in DOMAIN taken.events}
  OBVIOUS
<1>2. PICK closed : closed = {e.handle : e \in {d \in events : d.kind = "destroyed"}}
  OBVIOUS
<1>3. PICK open : open = {h \in Handle \ closed : tracked[h] # Absent}
  OBVIOUS
<1>4. PICK named : named = {h \in {e.handle : e \in events} : h \in open \/ window[h] # Absent}
  OBVIOUS
<1>5. PICK focused : focused = {h \in open : tracked[h].focused}
  OBVIOUS
<1>6. PICK seen : seen = named \union focused \union ({foreground} \ {Absent})
  OBVIOUS
<1>7. /\ taken # Absent /\ ~taken.full /\ taken' = Absent /\ UNCHANGED pending
      /\ Observe(closed, seen, FALSE)
  BY <1>1, <1>2, <1>3, <1>4, <1>5, <1>6 DEF ObserveSome
<1>8. InHand = events
  BY <1>1, <1>7 DEF InHand
<1>9. \A e \in events : e.handle \in Handle
  <2>1. taken.events \in Seq(Events)
    BY <1>7 DEF TypeOK, Queues
  <2>2. events \subseteq Events
    BY <1>1, <2>1
  <2>. QED
    BY <2>2 DEF Events
<1>10. closed \in SUBSET Handle /\ seen \in SUBSET Handle
  BY <1>2, <1>3, <1>4, <1>5, <1>6, <1>9 DEF TypeOK
<1>11. ASSUME NEW h \in Handle \ (seen \union quiet)
       PROVE  \/ Right(h, IF h \in closed THEN Absent ELSE tracked[h])
              \/ pending.full \/ \E e \in Waiting : e.handle = h
              \/ (h \notin closed /\ tracked[h] # Absent /\ tracked[h].focused /\ Waiting # {})
  <2>1. CASE \E e \in events : e.handle = h
    <3>1. h \notin named
      BY <1>6
    <3>2. h \notin open /\ window[h] = Absent
      BY <1>4, <2>1, <3>1
    <3>3. (IF h \in closed THEN Absent ELSE tracked[h]) = Absent
      BY <1>3, <3>2
    <3>. QED
      BY <3>2, <3>3 DEF Right
  <2>2. CASE ~\E e \in events : e.handle = h
    <3>1. h \notin closed
      BY <1>2, <2>2
    <3>2. ~(tracked[h] # Absent /\ tracked[h].focused)
      BY <1>3, <1>5, <1>6, <3>1
    <3>3. Right(h, tracked[h]) \/ Covered(h)
      BY DEF Heard
    <3>4. CASE Right(h, tracked[h])
      BY <3>1, <3>4
    <3>5. CASE Covered(h)
      BY <1>7, <1>8, <2>2, <3>2, <3>5 DEF Covered, Full
    <3>. QED
      BY <3>3, <3>4, <3>5
  <2>. QED
    BY <2>1, <2>2
<1>12. PICK full \in BOOLEAN : full = FALSE
  OBVIOUS
<1>13. Observe(closed, seen, full)
  BY <1>7, <1>12
<1>. QED
  BY <1>7, <1>10, <1>11, <1>13, LookStep
-----------------------------------------------------------------------------
(* Always.                                                                 *)

\* The observer starts with everything to look at.
LEMMA ObserverStarts ==
  ASSUME ObserverInit
  PROVE  ObserverInv
<1>. USE DEF ObserverInit
<1>1. TypeOK
  <2>1. <<>> \in Seq(Events)
    OBVIOUS
  <2>. QED
    BY <2>1 DEF TypeOK, Queues, NoCache
<1>2. Alive
  <2>1. Process \subseteq Nat /\ newest \in Process /\ running \subseteq Process
    BY WindowObserverAssumption
  <2>2. \A p \in running, q \in Process : q <= newest /\ PidOf[q] = PidOf[p] => q <= p
    OBVIOUS
  <2>3. \A p \in running : p <= newest
    OBVIOUS
  <2>4. ASSUME NEW p \in running, NEW q \in running, PidOf[p] = PidOf[q] PROVE p = q
    <3>1. p <= q /\ q <= p
      BY <2>1, <2>2, <2>3, <2>4
    <3>. QED
      BY <2>1, <3>1
  <2>5. ASSUME NEW p \in running, Parent[p] # Absent, NEW q \in running,
               q <= p, PidOf[q] = PidOf[Parent[p]]
        PROVE  q = Parent[p]
    <3>1. /\ Parent[p] \in Process /\ Parent[p] < p
          /\ \A r \in Process : Parent[p] < r /\ r <= p => PidOf[r] # PidOf[Parent[p]]
      BY <2>1, <2>5, WindowObserverAssumption
    <3>2. ~(Parent[p] < q)
      BY <2>1, <2>5, <3>1
    <3>3. Parent[p] <= newest
      <4>1. \A a, b, c \in Nat : a < b /\ b <= c => a <= c
        OBVIOUS
      <4>2. Parent[p] \in Nat /\ p \in Nat /\ newest \in Nat /\ p <= newest
        BY <2>1, <2>3, <3>1
      <4>. QED
        BY <3>1, <4>1, <4>2
    <3>4. Parent[p] <= q
      BY <2>2, <2>5, <3>1, <3>3
    <3>5. \A a, b \in Nat : ~(a < b) /\ a <= b => b = a
      OBVIOUS
    <3>6. Parent[p] \in Nat /\ q \in Nat
      BY <2>1, <3>1
    <3>. QED
      BY <3>2, <3>4, <3>5, <3>6
  <2>. QED
    BY <2>3, <2>4, <2>5 DEF Alive
<1>3. Remembered(processCache) /\ Named
  BY DEF Remembered, Named, NoCache, NotRead
<1>4. Heard
  BY DEF Heard, Right
<1>. QED
  BY <1>1, <1>2, <1>3, <1>4 DEF ObserverInv

\* When nothing happens nothing changes.
LEMMA ObserverStutters ==
  ASSUME ObserverInv, UNCHANGED ovars
  PROVE  ObserverInv'
<1>1. /\ running' \subseteq Process /\ newest' \in Process
      /\ UNCHANGED <<window, foreground, pending, taken, observer, quiet>>
  BY DEF ovars, desktop, ObserverInv, TypeOK
<1>2. TypeOK' /\ Remembered(processCache)' /\ Named' /\ Heard'
  BY <1>1, SameSight
<1>3. Alive'
  BY DEF ObserverInv, Alive, ovars, desktop
<1>. QED
  BY <1>2, <1>3 DEF ObserverInv

\* At every moment every window is seen as it is or will be looked at: for an event of its
\* own, or because it was observed with the focus and any event comes.
THEOREM ObserverAlwaysInv == ObserverSpec => []ObserverInv
<1>1. ObserverInit => ObserverInv
  BY ObserverStarts
<1>2. ObserverInv /\ [ObserverNext]_ovars => ObserverInv'
  <2>. SUFFICES ASSUME ObserverInv, [ObserverNext]_ovars PROVE ObserverInv'
    OBVIOUS
  <2>1. ASSUME NEW h \in Handle, NEW p \in Process, NEW l \in Look, Appear(h, p, l)
        PROVE  ObserverInv'
    BY <2>1, AppearStep
  <2>2. ASSUME NEW h \in Handle, NEW l \in Look, Change(h, l) PROVE ObserverInv'
    BY <2>2, ChangeStep
  <2>3. ASSUME NEW h \in Handle, Move(h) \/ Focus(h) \/ Destroy(h) PROVE ObserverInv'
    BY <2>3, MoveStep, FocusStep, DestroyStep
  <2>4. ASSUME NEW p \in Process, Exit(p) \/ Start(p) PROVE ObserverInv'
    BY <2>4, ExitStep, StartStep
  <2>5. CASE DesktopSwitch
    BY <2>5, SwitchStep
  <2>6. CASE Take
    BY <2>6, TakeStep
  <2>7. CASE ObserveAll
    BY <2>7, AllStep
  <2>8. CASE ObserveSome
    BY <2>8, SomeStep
  <2>9. CASE ObserveNothing
    BY <2>9, NothingStep
  <2>10. CASE UNCHANGED ovars
    BY <2>10, ObserverStutters
  <2>. QED
    BY <2>1, <2>2, <2>3, <2>4, <2>5, <2>6, <2>7, <2>8, <2>9, <2>10 DEF ObserverNext
<1>. QED
  BY <1>1, <1>2, PTL DEF ObserverSpec

\* Once every event is applied, the observer's picture is the desktop's, of the very
\* processes that own the windows, whatever was lost, late or about a handle handed out again.
THEOREM AlwaysSeesTheDesktop == ObserverSpec => []SeesTheDesktop
<1>1. ObserverInv => SeesTheDesktop
  <2>1. SUFFICES ASSUME ObserverInv, Idle, NEW h \in Handle \ quiet
                 PROVE  Right(h, tracked[h])
    BY DEF SeesTheDesktop
  <2>2. pending.events = <<>> /\ pending.full = FALSE /\ taken = Absent
    BY <2>1 DEF Idle
  <2>3. Waiting = {} /\ InHand = {} /\ ~Full
    BY <2>2 DEF Waiting, InHand, Full
  <2>. QED
    BY <2>1, <2>3 DEF ObserverInv, Heard, Covered
<1>. QED
  BY <1>1, ObserverAlwaysInv, PTL
=============================================================================
