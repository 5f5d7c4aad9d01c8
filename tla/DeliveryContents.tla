--------------------------- MODULE DeliveryContents ---------------------------
(***************************************************************************)
(* What the batches say: theorems about Delivery for all constants, from   *)
(* the chain of DeliveryProofs.  The core catches up with the collector;   *)
(* while the machine does not sleep, the times of all batches go up and    *)
(* their windows open and close in turn, so that only the content of an    *)
(* event is ever refused, and what is dropped is reported as missing.      *)
(***************************************************************************)
EXTENDS DeliveryProofs

-----------------------------------------------------------------------------
(* The core catches up with the collector.                                 *)

Opens(e, w) == e.kind = "opened" /\ e.win = w
Closes(e, w) == e.kind = "closed" /\ e.win = w

\* These events with their sequence numbers, from first on
Numbered(first, es) == {<<first + i - 1, es[i]>> : i \in DOMAIN es}

\* The windows open after these numbered events, when those of ws were open before
After(ws, ps) ==
  {w \in Windows :
     \/ w \in ws /\ \A q \in ps : ~Closes(q[2], w)
     \/ \E p \in ps : Opens(p[2], w) /\ \A q \in ps : p[1] < q[1] => ~Closes(q[2], w)}

\* What the core has of the current run: the windows open, and up to which event
OpenThere == {w \in Windows : Known(run) /\ <<run, w>> \in open}
Base == IF Known(run) THEN runs[RowOf(run)].seq ELSE 0

\* The events of the current run that it has yet to store, with their numbers
InSpool == UNION {Numbered(b.first, b.events) : b \in {c \in Range(spool) : c.run = run}}
Coming == {p \in InSpool \cup Numbered(seq, todo) : Base < p[1]}

\* With what is coming, the core will have open what the collector has open.
WillMatch == pc # "down" => After(OpenThere, Coming) = windows

\* Between two turns of the loop nothing is left to be queued.
NothingLeft == pc \in {"publish", "loop", "rotate", "drain"} => todo = <<>>

\* Only windows open.
AboutWindows(es) == \A i \in DOMAIN es : es[i].kind = "opened" => es[i].win \in Windows
OpensWindows ==
  AboutWindows(todo) /\ \A b \in Range(spool) \cup Range(wire) : AboutWindows(b.events)

\* What is open in the database is open in the run stored last.
OpenOfLast == \A p \in open : p[2] \in Windows /\ log # <<>> /\ p[1] = log[Len(log)].run

Matching == WillMatch /\ NothingLeft /\ OpensWindows /\ OpenOfLast
MatchInv == ChainInv /\ Matching
-----------------------------------------------------------------------------
(* What numbered events leave open.                                        *)

\* Numbered events are pairs of a number from first on and an event.
LEMMA NumberedType ==
  ASSUME NEW first \in Nat, NEW s \in Seq(Event)
  PROVE  /\ Numbered(first, s) \subseteq Nat \X Event
         /\ \A p \in Numbered(first, s) : first <= p[1] /\ p[1] <= first + Len(s) - 1
<1>1. DOMAIN s = 1..Len(s) /\ Len(s) \in Nat /\ \A i \in DOMAIN s : s[i] \in Event
  BY LenProperties, ElementOfSeq
<1>2. ASSUME NEW i \in DOMAIN s
      PROVE  first + i - 1 \in Nat /\ first <= first + i - 1 /\ first + i - 1 <= first + Len(s) - 1
  BY <1>1
<1>. QED
  BY <1>1, <1>2 DEF Numbered

\* What is open after some events, read off their places.
LEMMA AfterNumbered ==
  ASSUME NEW first \in Nat, NEW s \in Seq(Event), NEW ws, NEW w \in Windows
  PROVE  w \in After(ws, Numbered(first, s)) <=>
           \/ w \in ws /\ \A k \in DOMAIN s : ~Closes(s[k], w)
           \/ \E i \in DOMAIN s : Opens(s[i], w) /\ \A k \in DOMAIN s : i < k => ~Closes(s[k], w)
<1>1. DOMAIN s = 1..Len(s) /\ Len(s) \in Nat
  BY LenProperties
<1>. DEFINE pair(i) == <<first + i - 1, s[i]>>
<1>2. \A i \in DOMAIN s : pair(i)[1] = first + i - 1 /\ pair(i)[2] = s[i]
  OBVIOUS
<1>3. Numbered(first, s) = {pair(i) : i \in DOMAIN s}
  BY DEF Numbered
<1>4. \A i, k \in DOMAIN s : pair(i)[1] < pair(k)[1] <=> i < k
  BY <1>1, <1>2
<1>. HIDE DEF pair
<1>5. (\A q \in Numbered(first, s) : ~Closes(q[2], w)) <=> \A k \in DOMAIN s : ~Closes(s[k], w)
  BY <1>2, <1>3
<1>6. ASSUME NEW i \in DOMAIN s
      PROVE  (\A q \in Numbered(first, s) : pair(i)[1] < q[1] => ~Closes(q[2], w))
             <=> \A k \in DOMAIN s : i < k => ~Closes(s[k], w)
  BY <1>2, <1>3, <1>4, <1>6
<1>7. (\E p \in Numbered(first, s) :
          Opens(p[2], w) /\ \A q \in Numbered(first, s) : p[1] < q[1] => ~Closes(q[2], w))
      <=> \E i \in DOMAIN s : Opens(s[i], w) /\ \A k \in DOMAIN s : i < k => ~Closes(s[k], w)
  <2>1. ASSUME NEW i \in DOMAIN s, Opens(s[i], w), \A k \in DOMAIN s : i < k => ~Closes(s[k], w)
        PROVE  \E p \in Numbered(first, s) :
                  Opens(p[2], w) /\ \A q \in Numbered(first, s) : p[1] < q[1] => ~Closes(q[2], w)
    <3>1. pair(i) \in Numbered(first, s) /\ Opens(pair(i)[2], w)
      BY <1>2, <1>3, <2>1
    <3>2. \A q \in Numbered(first, s) : pair(i)[1] < q[1] => ~Closes(q[2], w)
      BY <1>6, <2>1
    <3>. QED
      BY <3>1, <3>2
  <2>2. ASSUME NEW p \in Numbered(first, s), Opens(p[2], w),
               \A q \in Numbered(first, s) : p[1] < q[1] => ~Closes(q[2], w)
        PROVE  \E i \in DOMAIN s : Opens(s[i], w) /\ \A k \in DOMAIN s : i < k => ~Closes(s[k], w)
    <3>1. PICK i \in DOMAIN s : p = pair(i)
      BY <1>3
    <3>2. Opens(s[i], w)
      BY <1>2, <2>2, <3>1
    <3>3. \A k \in DOMAIN s : i < k => ~Closes(s[k], w)
      BY <1>6, <2>2, <3>1
    <3>. QED
      BY <3>2, <3>3
  <2>. QED
    BY <2>1, <2>2
<1>. QED
  BY <1>5, <1>7 DEF After

\* Events are taken in two goes as in one.
LEMMA AfterBoth ==
  ASSUME NEW ws, NEW A, NEW B, \A p \in A, q \in B : p[1] < q[1],
         \A p \in A \cup B : p[1] \in Nat
  PROVE  After(ws, A \cup B) = After(After(ws, A), B)
<1>1. ASSUME NEW w \in Windows, w \in After(ws, A \cup B) PROVE w \in After(After(ws, A), B)
  <2>1. CASE w \in ws /\ \A q \in A \cup B : ~Closes(q[2], w)
    BY <2>1 DEF After
  <2>2. CASE \E p \in A \cup B : Opens(p[2], w) /\ \A q \in A \cup B : p[1] < q[1] => ~Closes(q[2], w)
    <3>1. PICK p \in A \cup B : Opens(p[2], w) /\ \A q \in A \cup B : p[1] < q[1] => ~Closes(q[2], w)
      BY <2>2
    <3>2. CASE p \in A
      <4>1. w \in After(ws, A)
        BY <3>1, <3>2 DEF After
      <4>2. \A q \in B : ~Closes(q[2], w)
        BY <3>1, <3>2
      <4>. QED
        BY <4>1, <4>2 DEF After
    <3>3. CASE p \in B
      BY <3>1, <3>3 DEF After
    <3>. QED
      BY <3>1, <3>2, <3>3
  <2>. QED
    BY <1>1, <2>1, <2>2 DEF After
<1>2. ASSUME NEW w \in Windows, w \in After(After(ws, A), B) PROVE w \in After(ws, A \cup B)
  <2>1. CASE w \in After(ws, A) /\ \A q \in B : ~Closes(q[2], w)
    <3>1. CASE w \in ws /\ \A q \in A : ~Closes(q[2], w)
      BY <2>1, <3>1 DEF After
    <3>2. CASE \E p \in A : Opens(p[2], w) /\ \A q \in A : p[1] < q[1] => ~Closes(q[2], w)
      BY <2>1, <3>2 DEF After
    <3>. QED
      BY <2>1, <3>1, <3>2 DEF After
  <2>2. CASE \E p \in B : Opens(p[2], w) /\ \A q \in B : p[1] < q[1] => ~Closes(q[2], w)
    <3>1. PICK p \in B : Opens(p[2], w) /\ \A q \in B : p[1] < q[1] => ~Closes(q[2], w)
      BY <2>2
    <3>2. \A q \in A : ~(p[1] < q[1])
      BY <3>1
    <3>3. \A q \in A \cup B : p[1] < q[1] => ~Closes(q[2], w)
      BY <3>1, <3>2
    <3>. QED
      BY <3>1, <3>3 DEF After
  <2>. QED
    BY <1>2, <2>1, <2>2 DEF After
<1>3. After(ws, A \cup B) \subseteq Windows /\ After(After(ws, A), B) \subseteq Windows
  BY DEF After
<1>. QED
  BY <1>1, <1>2, <1>3

\* One sequence of events after another
LEMMA NumberedConcat ==
  ASSUME NEW first \in Nat, NEW s \in Seq(Event), NEW t \in Seq(Event)
  PROVE  Numbered(first, s \o t) = Numbered(first, s) \cup Numbered(first + Len(s), t)
<1>. DEFINE u == s \o t
<1>1. /\ Len(s) \in Nat /\ Len(t) \in Nat /\ DOMAIN s = 1..Len(s) /\ DOMAIN t = 1..Len(t)
      /\ u \in Seq(Event) /\ Len(u) = Len(s) + Len(t)
      /\ \A i \in 1..(Len(s) + Len(t)) : u[i] = IF i <= Len(s) THEN s[i] ELSE t[i - Len(s)]
  BY LenProperties, ConcatProperties
<1>2. DOMAIN u = 1..(Len(s) + Len(t))
  BY <1>1, LenProperties
<1>. HIDE DEF u
<1>3. ASSUME NEW i \in DOMAIN u
      PROVE  <<first + i - 1, u[i]>> \in Numbered(first, s) \cup Numbered(first + Len(s), t)
  <2>1. CASE i <= Len(s)
    <3>1. i \in DOMAIN s /\ u[i] = s[i]
      BY <1>1, <1>2, <2>1
    <3>. QED
      BY <3>1 DEF Numbered
  <2>2. CASE Len(s) < i
    <3>1. i - Len(s) \in DOMAIN t /\ u[i] = t[i - Len(s)]
          /\ first + i - 1 = (first + Len(s)) + (i - Len(s)) - 1
      BY <1>1, <1>2, <2>2
    <3>. QED
      BY <3>1 DEF Numbered
  <2>. QED
    BY <1>1, <1>2, <2>1, <2>2
<1>4. ASSUME NEW i \in DOMAIN s PROVE <<first + i - 1, s[i]>> \in Numbered(first, u)
  <2>1. i \in DOMAIN u /\ u[i] = s[i]
    BY <1>1, <1>2
  <2>. QED
    BY <2>1 DEF Numbered
<1>5. ASSUME NEW i \in DOMAIN t PROVE <<(first + Len(s)) + i - 1, t[i]>> \in Numbered(first, u)
  <2>1. Len(s) + i \in DOMAIN u /\ u[Len(s) + i] = t[i]
        /\ (first + Len(s)) + i - 1 = first + (Len(s) + i) - 1
    BY <1>1, <1>2
  <2>. QED
    BY <2>1 DEF Numbered
<1>6. Numbered(first, u) \subseteq Numbered(first, s) \cup Numbered(first + Len(s), t)
  BY <1>3 DEF Numbered
<1>7. Numbered(first, s) \cup Numbered(first + Len(s), t) \subseteq Numbered(first, u)
  BY <1>4, <1>5 DEF Numbered
<1>. QED
  BY <1>6, <1>7 DEF u

\* ... and what they leave open
LEMMA AfterConcat ==
  ASSUME NEW first \in Nat, NEW s \in Seq(Event), NEW t \in Seq(Event), NEW ws
  PROVE  After(ws, Numbered(first, s \o t))
           = After(After(ws, Numbered(first, s)), Numbered(first + Len(s), t))
<1>1. Len(s) \in Nat /\ first + Len(s) \in Nat
  BY LenProperties
<1>2. /\ \A p \in Numbered(first, s) : p[1] \in Nat /\ p[1] <= first + Len(s) - 1
      /\ \A q \in Numbered(first + Len(s), t) : q[1] \in Nat /\ first + Len(s) <= q[1]
  BY <1>1, NumberedType
<1>3. \A p \in Numbered(first, s), q \in Numbered(first + Len(s), t) : p[1] < q[1]
  BY <1>1, <1>2
<1>. QED
  BY <1>2, <1>3, NumberedConcat, AfterBoth

\* Events that open and close nothing
LEMMA AfterNotes ==
  ASSUME NEW first \in Nat, NEW s \in Seq(Event), NEW ws \in SUBSET Windows,
         \A i \in DOMAIN s : s[i].kind \notin {"opened", "closed"}
  PROVE  After(ws, Numbered(first, s)) = ws
<1>1. ASSUME NEW w \in Windows PROVE w \in After(ws, Numbered(first, s)) <=> w \in ws
  BY AfterNumbered DEF Opens, Closes
<1>. QED
  BY <1>1 DEF After

\* EventsFor has an event for each of the windows and for no other.
LEMMA EventsForEach ==
  ASSUME NEW kind \in Kinds, NEW ws \in SUBSET Windows, NEW t \in Time,
         NEW s \in EventsFor(kind, ws, t)
  PROVE  /\ s \in Seq(Event)
         /\ \A i \in DOMAIN s : s[i].kind = kind /\ s[i].win \in ws
         /\ \A w \in ws : \E i \in DOMAIN s : s[i].win = w
<1>1. IsFiniteSet(ws)
  BY ConstantsOK, FS_Subset
<1>. DEFINE n == Cardinality(ws)
<1>2. n \in Nat
  BY <1>1, FS_CardinalityType
<1>3. PICK f \in SetToSeqs(ws) : s = [i \in DOMAIN f |-> WindowEvent(kind, f[i], t)]
  BY DEF EventsFor
<1>. HIDE DEF n
<1>4. f \in [1..n -> ws] /\ \A i, j \in 1..n : i # j => f[i] # f[j]
  BY DEF SetToSeqs, n
<1>5. s \in Seq(Event)
  BY EventsForType
<1>6. DOMAIN s = 1..n /\ \A i \in 1..n : s[i] = WindowEvent(kind, f[i], t)
  BY <1>3, <1>4
<1>7. \A i \in 1..n : s[i].kind = kind /\ s[i].win = f[i]
  BY <1>6 DEF WindowEvent
<1>8. f \in Injection(1..n, ws)
  BY <1>4 DEF Injection, IsInjective
<1>9. Cardinality(1..n) = n
  BY <1>2, FS_Interval
<1>10. f \in Surjection(1..n, ws)
  BY <1>1, <1>8, <1>9, FS_Injection DEF n
<1>11. \A w \in ws : \E i \in 1..n : f[i] = w
  BY <1>10 DEF Surjection
<1>. QED
  BY <1>4, <1>5, <1>6, <1>7, <1>11

\* Events that close these windows
LEMMA AfterClosed ==
  ASSUME NEW first \in Nat, NEW closed \in SUBSET Windows, NEW t \in Time,
         NEW s \in EventsFor("closed", closed, t), NEW ws \in SUBSET Windows
  PROVE  After(ws, Numbered(first, s)) = ws \ closed
<1>1. /\ s \in Seq(Event)
      /\ \A i \in DOMAIN s : s[i].kind = "closed" /\ s[i].win \in closed
      /\ \A w \in closed : \E i \in DOMAIN s : s[i].win = w
  <2>1. "closed" \in Kinds
    BY DEF Kinds
  <2>. QED
    BY <2>1, EventsForEach
<1>2. ASSUME NEW w \in Windows PROVE w \in After(ws, Numbered(first, s)) <=> w \in ws \ closed
  <2>1. \A i \in DOMAIN s : ~Opens(s[i], w)
    BY <1>1 DEF Opens
  <2>2. (\A i \in DOMAIN s : ~Closes(s[i], w)) <=> w \notin closed
    BY <1>1 DEF Closes
  <2>. QED
    BY <1>1, <2>1, <2>2, AfterNumbered
<1>. QED
  BY <1>2 DEF After

\* Events that open these windows
LEMMA AfterOpened ==
  ASSUME NEW first \in Nat, NEW opened \in SUBSET Windows, NEW t \in Time,
         NEW s \in EventsFor("opened", opened, t), NEW ws \in SUBSET Windows
  PROVE  After(ws, Numbered(first, s)) = ws \cup opened
<1>1. /\ s \in Seq(Event)
      /\ \A i \in DOMAIN s : s[i].kind = "opened" /\ s[i].win \in opened
      /\ \A w \in opened : \E i \in DOMAIN s : s[i].win = w
  <2>1. "opened" \in Kinds
    BY DEF Kinds
  <2>. QED
    BY <2>1, EventsForEach
<1>2. ASSUME NEW w \in Windows PROVE w \in After(ws, Numbered(first, s)) <=> w \in ws \cup opened
  <2>1. \A i \in DOMAIN s : ~Closes(s[i], w)
    BY <1>1 DEF Closes
  <2>2. (\E i \in DOMAIN s : Opens(s[i], w)) <=> w \in opened
    BY <1>1 DEF Opens
  <2>. QED
    BY <1>1, <2>1, <2>2, AfterNumbered
<1>. QED
  BY <1>2 DEF After

\* A list of events in which only windows open, before another one
LEMMA AboutConcat ==
  ASSUME NEW s \in Seq(Event), NEW t \in Seq(Event), AboutWindows(s), AboutWindows(t)
  PROVE  AboutWindows(s \o t)
<1>. DEFINE u == s \o t
<1>1. /\ Len(s) \in Nat /\ Len(t) \in Nat /\ DOMAIN s = 1..Len(s) /\ DOMAIN t = 1..Len(t)
      /\ u \in Seq(Event) /\ Len(u) = Len(s) + Len(t)
      /\ \A i \in 1..(Len(s) + Len(t)) : u[i] = IF i <= Len(s) THEN s[i] ELSE t[i - Len(s)]
  BY LenProperties, ConcatProperties
<1>2. DOMAIN u = 1..(Len(s) + Len(t))
  BY <1>1, LenProperties
<1>. HIDE DEF u
<1>3. ASSUME NEW i \in DOMAIN u, u[i].kind = "opened" PROVE u[i].win \in Windows
  <2>1. CASE i <= Len(s)
    <3>1. i \in DOMAIN s /\ u[i] = s[i]
      BY <1>1, <1>2, <2>1
    <3>. QED
      BY <1>3, <3>1 DEF AboutWindows
  <2>2. CASE Len(s) < i
    <3>1. i - Len(s) \in DOMAIN t /\ u[i] = t[i - Len(s)]
      BY <1>1, <1>2, <2>2
    <3>. QED
      BY <1>3, <3>1 DEF AboutWindows
  <2>. QED
    BY <1>1, <1>2, <2>1, <2>2
<1>. QED
  BY <1>3 DEF AboutWindows, u

\* A note is a list of one event that opens and closes nothing.
LEMMA NoteIsNeutral ==
  ASSUME NEW kind \in {"interval", "gap", "input_gap", "bad"}, NEW s \in Time, NEW t \in Time
  PROVE  /\ <<Note(kind, s, t)>> \in Seq(Event) /\ <<Note(kind, s, t)>> # <<>>
         /\ \A i \in DOMAIN <<Note(kind, s, t)>> :
              <<Note(kind, s, t)>>[i].kind \notin {"opened", "closed"}
<1>1. kind \in Kinds
  BY DEF Kinds
<1>2. Note(kind, s, t) \in Event
  BY <1>1, NoteType
<1>3. Note(kind, s, t).kind = kind
  BY DEF Note
<1>. DEFINE e == Note(kind, s, t)
<1>. HIDE DEF e
<1>4. e \in Event /\ e.kind = kind
  BY <1>2, <1>3 DEF e
<1>5. <<e>> \in Seq(Event) /\ <<e>> # <<>> /\ \A i \in DOMAIN <<e>> : <<e>>[i] = e
  BY <1>4
<1>6. \A i \in DOMAIN <<e>> : <<e>>[i].kind \notin {"opened", "closed"}
  BY <1>4, <1>5
<1>. QED
  BY <1>5, <1>6 DEF e

\* What a publication queues opens and closes exactly what has changed.
LEMMA PublishMatches ==
  ASSUME TypeInv, NEW now \in Time, NEW fresh \in BOOLEAN, Publish(now, fresh), NEW first \in Nat
  PROVE  /\ After(windows, Numbered(first, todo')) = windows'
         /\ AboutWindows(todo') /\ (pc' = "loop" => todo' = <<>>)
<1>. USE DEF TypeInv
<1>1. PICK shown \in SUBSET Windows, how \in {"steady", "sleep", "discontinuity"} :
        /\ windows' = shown
        /\ \E notes \in Notes(shown, how, now, fresh),
              closed \in EventsFor("closed", Closed(shown, how), ClosedAt(how, now)),
              updated \in UNION {EventsFor("updated", ws, now) : ws \in Updated(shown, how)},
              opened \in EventsFor("opened", Opened(shown, how), now) :
             Queue(IF ClosedAt(how, now) < now THEN closed \o notes \o updated \o opened
                                               ELSE notes \o closed \o updated \o opened, "loop")
  BY DEF Publish
<1>2. PICK notes \in Notes(shown, how, now, fresh),
           closed \in EventsFor("closed", Closed(shown, how), ClosedAt(how, now)),
           updated \in UNION {EventsFor("updated", ws, now) : ws \in Updated(shown, how)},
           opened \in EventsFor("opened", Opened(shown, how), now) :
          Queue(IF ClosedAt(how, now) < now THEN closed \o notes \o updated \o opened
                                            ELSE notes \o closed \o updated \o opened, "loop")
  BY <1>1
<1>3. \/ todo' = ((closed \o notes) \o updated) \o opened
      \/ todo' = ((notes \o closed) \o updated) \o opened
  BY <1>2 DEF Queue
<1>4. pc' = "loop" => todo' = <<>>
  BY <1>2 DEF Queue
<1>. DEFINE gone == Closed(shown, how)
            new == Opened(shown, how)
            then == ClosedAt(how, now)
<1>5. gone \in SUBSET Windows /\ new \in SUBSET Windows /\ then \in Time /\ windows \in SUBSET Windows
  BY DEF TypeOK, Closed, Opened, ClosedAt
<1>6. (windows \ gone) \cup new = shown
  BY <1>5 DEF TypeOK, Closed, Opened
<1>7. closed \in EventsFor("closed", gone, then) /\ opened \in EventsFor("opened", new, now)
  OBVIOUS
<1>. HIDE DEF gone, new, then
<1>8. notes \in Seq(Event) /\ \A i \in DOMAIN notes : notes[i].kind \notin {"opened", "closed"}
  <2>1. \/ notes = <<>> \/ notes = <<Note("interval", now, now)>> \/ notes = <<Note("bad", now, now)>>
    BY DEF Notes
  <2>2. CASE notes = <<>>
    BY <2>2
  <2>3. CASE notes = <<Note("interval", now, now)>>
    BY <2>3, NoteIsNeutral
  <2>4. CASE notes = <<Note("bad", now, now)>>
    BY <2>4, NoteIsNeutral
  <2>. QED
    BY <2>1, <2>2, <2>3, <2>4
<1>9. updated \in Seq(Event) /\ \A i \in DOMAIN updated : updated[i].kind \notin {"opened", "closed"}
  <2>1. PICK ws \in Updated(shown, how) : updated \in EventsFor("updated", ws, now)
    OBVIOUS
  <2>2. ws \in SUBSET Windows
    BY DEF Updated, TypeOK
  <2>3. "updated" \in Kinds
    BY DEF Kinds
  <2>4. updated \in Seq(Event) /\ \A i \in DOMAIN updated : updated[i].kind = "updated"
    BY <2>1, <2>2, <2>3, EventsForEach
  <2>. QED
    BY <2>4
<1>10. closed \in Seq(Event) /\ \A i \in DOMAIN closed : closed[i].kind = "closed"
  <2>1. "closed" \in Kinds
    BY DEF Kinds
  <2>. QED
    BY <1>5, <1>7, <2>1, EventsForEach
<1>11. opened \in Seq(Event) /\ \A i \in DOMAIN opened : opened[i].win \in Windows
  <2>1. "opened" \in Kinds
    BY DEF Kinds
  <2>2. opened \in Seq(Event) /\ \A i \in DOMAIN opened : opened[i].win \in new
    BY <1>5, <1>7, <2>1, EventsForEach
  <2>. QED
    BY <1>5, <2>2
<1>12. AboutWindows(notes) /\ AboutWindows(updated) /\ AboutWindows(closed) /\ AboutWindows(opened)
  BY <1>8, <1>9, <1>10, <1>11 DEF AboutWindows
<1>13. Len(notes) \in Nat /\ Len(closed) \in Nat /\ Len(updated) \in Nat
  BY <1>8, <1>9, <1>10, LenProperties
<1>14. ASSUME NEW s \in Seq(Event), AboutWindows(s), After(windows, Numbered(first, s)) = windows \ gone,
              todo' = (s \o updated) \o opened
       PROVE  AboutWindows(todo') /\ After(windows, Numbered(first, todo')) = windows'
  <2>1. s \o updated \in Seq(Event) /\ AboutWindows(s \o updated)
    BY <1>9, <1>12, <1>14, ConcatProperties, AboutConcat
  <2>2. AboutWindows(todo')
    BY <1>11, <1>12, <1>14, <2>1, AboutConcat
  <2>3. first + Len(s) \in Nat /\ first + Len(s \o updated) \in Nat
    BY <2>1, LenProperties
  <2>4. windows \ gone \in SUBSET Windows
    BY <1>5
  <2>5. After(windows, Numbered(first, s \o updated))
          = After(windows \ gone, Numbered(first + Len(s), updated))
    <3>1. After(windows, Numbered(first, s \o updated))
            = After(After(windows, Numbered(first, s)), Numbered(first + Len(s), updated))
      BY <1>9, AfterConcat
    <3>. QED
      BY <3>1, <1>14
  <2>6. After(windows, Numbered(first, s \o updated)) = windows \ gone
    BY <1>9, <2>3, <2>4, <2>5, AfterNotes
  <2>. DEFINE u == s \o updated
  <2>7. u \in Seq(Event) /\ todo' = u \o opened /\ first + Len(u) \in Nat
        /\ After(windows, Numbered(first, u)) = windows \ gone
    BY <1>14, <2>1, <2>3, <2>6
  <2>. HIDE DEF u
  <2>10. u \in Seq(Event)
    BY <2>7
  <2>8. After(windows, Numbered(first, todo'))
          = After(windows \ gone, Numbered(first + Len(u), opened))
    <3>1. After(windows, Numbered(first, u \o opened))
            = After(After(windows, Numbered(first, u)), Numbered(first + Len(u), opened))
      BY <1>11, <2>10, AfterConcat
    <3>. QED
      BY <3>1, <2>7
  <2>9. After(windows \ gone, Numbered(first + Len(u), opened)) = (windows \ gone) \cup new
    BY <1>5, <1>7, <2>4, <2>7, AfterOpened
  <2>. QED
    BY <1>1, <1>6, <2>2, <2>8, <2>9
<1>15. CASE todo' = ((closed \o notes) \o updated) \o opened
  <2>1. closed \o notes \in Seq(Event) /\ AboutWindows(closed \o notes)
    BY <1>8, <1>10, <1>12, ConcatProperties, AboutConcat
  <2>2. first + Len(closed) \in Nat /\ windows \ gone \in SUBSET Windows
    BY <1>5, <1>13
  <2>3. After(windows, Numbered(first, closed)) = windows \ gone
    BY <1>5, <1>7, AfterClosed
  <2>4. After(windows, Numbered(first, closed \o notes))
          = After(windows \ gone, Numbered(first + Len(closed), notes))
    <3>1. After(windows, Numbered(first, closed \o notes))
            = After(After(windows, Numbered(first, closed)), Numbered(first + Len(closed), notes))
      BY <1>8, <1>10, AfterConcat
    <3>. QED
      BY <3>1, <2>3
  <2>5. After(windows, Numbered(first, closed \o notes)) = windows \ gone
    BY <1>8, <2>2, <2>4, AfterNotes
  <2>. QED
    BY <1>4, <1>14, <1>15, <2>1, <2>5
<1>16. CASE todo' = ((notes \o closed) \o updated) \o opened
  <2>1. notes \o closed \in Seq(Event) /\ AboutWindows(notes \o closed)
    BY <1>8, <1>10, <1>12, ConcatProperties, AboutConcat
  <2>2. first + Len(notes) \in Nat
    BY <1>13
  <2>3. After(windows, Numbered(first, notes)) = windows
    BY <1>5, <1>8, AfterNotes
  <2>4. After(windows, Numbered(first, notes \o closed))
          = After(windows, Numbered(first + Len(notes), closed))
    <3>1. After(windows, Numbered(first, notes \o closed))
            = After(After(windows, Numbered(first, notes)), Numbered(first + Len(notes), closed))
      BY <1>8, <1>10, AfterConcat
    <3>. QED
      BY <3>1, <2>3
  <2>5. After(windows, Numbered(first, notes \o closed)) = windows \ gone
    BY <1>5, <1>7, <2>2, <2>4, AfterClosed
  <2>. QED
    BY <1>4, <1>14, <1>16, <2>1, <2>5
<1>. QED
  BY <1>3, <1>4, <1>15, <1>16
-----------------------------------------------------------------------------
(* The numbers of what is coming.                                          *)

\* In the spool a run's numbers go up, and so do the runs.
LEMMA SpoolNumbers ==
  ASSUME TypeOK, SpoolChained, NEW i \in DOMAIN spool, NEW j \in DOMAIN spool, i < j
  PROVE  /\ spool[i].run <= spool[j].run
         /\ spool[i].run = spool[j].run => LastSequence(spool[i]) < spool[j].first
<1>1. \A k \in DOMAIN spool :
         /\ spool[k].run \in Nat /\ spool[k].first \in Nat \ {0}
         /\ LastSequence(spool[k]) \in Nat \ {0} /\ spool[k].first <= LastSequence(spool[k])
  <2>1. \A k \in DOMAIN spool : spool[k] \in Batch
    BY DEF TypeOK
  <2>. QED
    BY <2>1, BatchType
<1>2. DOMAIN spool = 1..Len(spool) /\ Len(spool) \in Nat
  BY DEF TypeOK
<1>. DEFINE Fits(k) == /\ spool[i].run <= spool[k].run
                       /\ spool[i].run = spool[k].run => LastSequence(spool[i]) < spool[k].first
            Unfit == {k \in DOMAIN spool : i < k /\ ~Fits(k)}
<1>13. SUFFICES ASSUME ~Fits(j) PROVE FALSE
  OBVIOUS
<1>3. Unfit # {}
  <2>1. j \in Unfit
    BY <1>13
  <2>. QED
    BY <2>1
<1>4. PICK k \in Unfit : \A l \in Unfit : k <= l
  <2>1. Unfit \in SUBSET Nat
    BY <1>2
  <2>. QED
    BY <1>3, <2>1, LeastNatural
<1>5. k \in 1..Len(spool) /\ i \in 1..Len(spool) /\ i < k /\ ~Fits(k)
  BY <1>2, <1>4
<1>. DEFINE h == k - 1
<1>6. h \in DOMAIN spool /\ h \in 1..(Len(spool) - 1) /\ k = h + 1 /\ i <= h
  BY <1>2, <1>5
<1>7. h \notin Unfit
  BY <1>4, <1>5, <1>6
<1>8. Follows(spool[h], spool[k])
  BY <1>6 DEF SpoolChained
<1>. HIDE DEF h
<1>9. IF spool[k].run = spool[h].run THEN spool[k].first = LastSequence(spool[h]) + 1
                                    ELSE spool[h].run < spool[k].run
  BY <1>8 DEF Follows
<1>10. k \in DOMAIN spool /\ i \in DOMAIN spool
  BY <1>2, <1>5
<1>11. CASE i = h
  BY <1>1, <1>5, <1>9, <1>10, <1>11
<1>12. CASE i < h
  <2>1. Fits(h)
    BY <1>6, <1>7, <1>12
  <2>. DEFINE a == spool[i]
              c == spool[h]
              z == spool[k]
  <2>2. /\ a.run \in Nat /\ c.run \in Nat /\ z.run \in Nat
        /\ LastSequence(a) \in Nat /\ LastSequence(c) \in Nat
        /\ z.first \in Nat /\ c.first \in Nat /\ c.first <= LastSequence(c)
    BY <1>1, <1>6, <1>10
  <2>3. a.run <= c.run /\ (a.run = c.run => LastSequence(a) < c.first)
    BY <2>1
  <2>4. IF z.run = c.run THEN z.first = LastSequence(c) + 1 ELSE c.run < z.run
    BY <1>9
  <2>5. ~(a.run <= z.run /\ (a.run = z.run => LastSequence(a) < z.first))
    BY <1>5
  <2>. HIDE DEF a, c, z
  <2>. QED
    BY <2>2, <2>3, <2>4, <2>5
<1>. QED
  BY <1>5, <1>6, <1>11, <1>12

\* What the spool has of the current run comes before the next number, and so does what
\* is stored.
LEMMA SpoolBelow ==
  ASSUME ChainInv
  PROVE  /\ \A b \in Range(spool) : b \in Batch /\ b.run <= run
                                    /\ (b.run = run => LastSequence(b) < seq)
         /\ Base \in Nat /\ Base < seq /\ seq \in Nat /\ run \in Nat
<1>. USE DEF ChainInv, TypeInv
<1>1. /\ spool \in Seq(Batch) /\ DOMAIN spool = 1..Len(spool) /\ Len(spool) \in Nat
      /\ seq \in Nat \ {0} /\ run \in Nat
  BY DEF TypeOK
<1>2. \A k \in DOMAIN spool :
         /\ spool[k] \in Batch /\ spool[k].run \in Nat /\ spool[k].first \in Nat \ {0}
         /\ LastSequence(spool[k]) \in Nat \ {0} /\ spool[k].first <= LastSequence(spool[k])
  <2>1. \A k \in DOMAIN spool : spool[k] \in Batch
    BY <1>1
  <2>. QED
    BY <2>1, BatchType
<1>3. \A k \in DOMAIN spool : spool[k].run <= run
  BY SpoolAscends DEF Chained
<1>4. ASSUME NEW k \in DOMAIN spool, spool[k].run = run PROVE LastSequence(spool[k]) < seq
  <2>. DEFINE n == Len(spool)
  <2>1. n \in DOMAIN spool /\ k <= n /\ spool # <<>>
    BY <1>1
  <2>2. spool[k].run <= spool[n].run /\ spool[n].run <= run
    BY <1>3, <2>1, SpoolAscends DEF Chained
  <2>3. spool[n].run = run
    BY <1>1, <1>2, <1>4, <2>1, <2>2
  <2>4. seq = LastSequence(spool[n]) + 1
    BY <2>1, <2>3 DEF Chained, SpoolChained
  <2>5. CASE k = n
    BY <1>2, <2>1, <2>4, <2>5
  <2>6. CASE k < n
    <3>1. LastSequence(spool[k]) < spool[n].first
      BY <1>4, <2>1, <2>3, <2>6, SpoolNumbers DEF Chained
    <3>. QED
      BY <1>1, <1>2, <2>1, <2>4, <3>1
  <2>. QED
    BY <1>1, <2>1, <2>5, <2>6
<1>5. Base \in Nat
  <2>1. CASE Known(run)
    <3>1. RowOf(run) \in DOMAIN runs
      BY <2>1, RowOfKnown
    <3>. QED
      BY <2>1, <3>1, RowType DEF Base
  <2>. QED
    BY <2>1 DEF Base
<1>6. Base < seq
  <2>1. CASE ~Known(run)
    BY <1>1, <2>1 DEF Base
  <2>2. CASE Known(run)
    <3>1. RowOf(run) \in DOMAIN runs /\ runs[RowOf(run)].run = run /\ Base = runs[RowOf(run)].seq
      BY <2>2, RowOfKnown DEF Base
    <3>2. CASE spool = <<>>
      <4>1. NextFor(run, seq)
        BY <3>2 DEF Chained, SpoolChained
      <4>. QED
        BY <1>1, <1>5, <2>2, <3>1, <4>1 DEF NextFor
    <3>3. CASE spool # <<>>
      <4>1. 1 \in DOMAIN spool
        BY <3>3, ChainEnds
      <4>2. run <= spool[1].run
        BY <3>1, <3>3 DEF Chained, FrontNext
      <4>3. spool[1].run = run
        BY <1>1, <1>2, <1>3, <4>1, <4>2
      <4>4. LastSequence(spool[1]) < seq
        BY <1>4, <4>1, <4>3
      <4>5. IF spool[1] \in Range(log) THEN Base = LastSequence(spool[1])
                                      ELSE spool[1].first = Base + 1
        BY <2>2, <3>1, <3>3, <4>3 DEF Chained, FrontNext, NextFor
      <4>. QED
        BY <1>1, <1>2, <1>5, <4>1, <4>4, <4>5
    <3>. QED
      BY <3>2, <3>3
  <2>. QED
    BY <2>1, <2>2
<1>. QED
  BY <1>1, <1>2, <1>3, <1>4, <1>5, <1>6 DEF Range

\* What the spool has of the current run, with its numbers
LEMMA InSpoolType ==
  ASSUME ChainInv
  PROVE  \A p \in InSpool : p[1] \in Nat /\ p[1] < seq
<1>1. SUFFICES ASSUME NEW b \in Range(spool), b.run = run, NEW p \in Numbered(b.first, b.events)
               PROVE  p[1] \in Nat /\ p[1] < seq
  BY DEF InSpool
<1>2. b \in Batch /\ LastSequence(b) < seq /\ seq \in Nat
  BY <1>1, SpoolBelow
<1>3. b.events \in Seq(Event) /\ b.first \in Nat /\ LastSequence(b) \in Nat
  BY <1>2, BatchType
<1>4. p \in Nat \X Event /\ p[1] <= b.first + Len(b.events) - 1
  BY <1>1, <1>3, NumberedType
<1>5. p[1] \in Nat /\ p[1] <= LastSequence(b)
  BY <1>4 DEF LastSequence
<1>. QED
  BY <1>2, <1>3, <1>5

\* Nothing has a number when there is nothing.
LEMMA NumberedNothing == \A first : Numbered(first, <<>>) = {}
BY DEF Numbered

\* What the loop queues comes after what is coming already.
LEMMA QueueMatches ==
  ASSUME ChainInv, After(OpenThere, Coming) = windows, todo = <<>>, todo' \in Seq(Event),
         UNCHANGED <<run, seq, spool, runs, open>>,
         After(windows, Numbered(seq, todo')) = windows'
  PROVE  After(OpenThere, Coming)' = windows'
<1>1. OpenThere' = OpenThere /\ Base' = Base /\ InSpool' = InSpool
  BY DEF OpenThere, Base, InSpool, Known, RowOf
<1>2. Base \in Nat /\ Base < seq /\ seq \in Nat
  BY SpoolBelow
<1>. DEFINE new == Numbered(seq, todo')
<1>3. \A p \in new : p[1] \in Nat /\ seq <= p[1]
  BY <1>2, NumberedType
<1>4. \A p \in Coming : p[1] \in Nat /\ p[1] < seq
  BY InSpoolType, NumberedNothing DEF Coming
<1>5. Coming = {p \in InSpool : Base < p[1]}
  BY NumberedNothing DEF Coming
<1>6. Coming' = {p \in InSpool \cup new : Base < p[1]}
  BY <1>1 DEF Coming
<1>. HIDE DEF new
<1>7. \A p \in new : Base < p[1]
  BY <1>2, <1>3
<1>8. Coming' = Coming \cup new
  BY <1>5, <1>6, <1>7
<1>9. \A p \in Coming, q \in new : p[1] < q[1]
  BY <1>2, <1>3, <1>4
<1>10. \A p \in Coming \cup new : p[1] \in Nat
  BY <1>3, <1>4
<1>11. After(OpenThere, Coming \cup new) = After(After(OpenThere, Coming), new)
  BY <1>9, <1>10, AfterBoth
<1>12. After(OpenThere, Coming)' = After(OpenThere', Coming')
  BY DEF After
<1>. QED
  BY <1>1, <1>8, <1>11, <1>12 DEF new

\* A new run has nothing stored and nothing in the spool.
LEMMA NewRunMatches ==
  ASSUME ChainInv, run' = run + 1, seq' = 1, Range(spool') \subseteq Range(spool),
         UNCHANGED <<runs, open>>, todo' \in Seq(Event), After({}, Numbered(1, todo')) = windows'
  PROVE  After(OpenThere, Coming)' = windows'
<1>1. ~Known(run + 1)
  <2>1. run \in Nat /\ \A i \in DOMAIN runs : runs[i].run \in Nat /\ runs[i].run <= run
    BY ChainEnds
  <2>2. \A i \in DOMAIN runs : runs[i].run # run + 1
    BY <2>1
  <2>. QED
    BY <2>2 DEF Known
<1>2. ~Known(run)'
  BY <1>1 DEF Known
<1>3. OpenThere' = {} /\ Base' = 0
  BY <1>2 DEF OpenThere, Base
<1>4. InSpool' = {}
  <2>1. \A b \in Range(spool') : b.run # run + 1
    <3>1. \A b \in Range(spool) : b \in Batch /\ b.run <= run
      BY SpoolBelow
    <3>2. \A b \in Range(spool) : b.run \in Nat /\ run \in Nat
      BY <3>1, SpoolBelow, BatchType
    <3>. QED
      BY <3>1, <3>2
  <2>. QED
    BY <2>1 DEF InSpool
<1>5. \A p \in Numbered(1, todo') : 0 < p[1]
  <2>1. \A p \in Numbered(1, todo') : p[1] \in Nat /\ 1 <= p[1]
    BY NumberedType
  <2>. QED
    BY <2>1
<1>6. Coming' = Numbered(1, todo')
  BY <1>3, <1>4, <1>5 DEF Coming
<1>7. After(OpenThere, Coming)' = After(OpenThere', Coming')
  BY DEF After
<1>. QED
  BY <1>3, <1>6, <1>7

\* The chunk and the rest have the numbers that todo has.
LEMMA ChunkNumbers ==
  ASSUME TypeInv, todo # <<>>
  PROVE  /\ Numbered(seq, todo) = Numbered(seq, Chunk) \cup Numbered(seq + ChunkLength, Rest)
         /\ Chunk \in Seq(Event) /\ Rest \in Seq(Event) /\ Len(Chunk) = ChunkLength
<1>. USE DEF TypeInv
<1>1. /\ Chunk \in Seq(Event) /\ Rest \in Seq(Event) /\ Len(Chunk) = ChunkLength
      /\ ChunkLength \in 1..Len(todo) /\ todo \in Seq(Event) /\ seq \in Nat
  BY ChunkType DEF TypeOK, NextBatch, Batch
<1>2. Len(todo) \in Nat
  BY <1>1, LenProperties
<1>3. todo = Chunk \o Rest
  <2>1. SubSeq(todo, 1, ChunkLength) \o SubSeq(todo, ChunkLength + 1, Len(todo))
          = SubSeq(todo, 1, Len(todo))
    <3>1. 1 \in 1..(Len(todo) + 1) /\ ChunkLength \in (1 - 1)..Len(todo)
          /\ Len(todo) \in ChunkLength..Len(todo)
      BY <1>1, <1>2
    <3>. QED
      BY <1>1, <3>1, ConcatAdjacentSubSeq
  <2>2. SubSeq(todo, 1, Len(todo)) = todo
    BY <1>1, SubSeqFull
  <2>. QED
    BY <2>1, <2>2 DEF Chunk, Rest
<1>4. Numbered(seq, todo) = Numbered(seq, Chunk) \cup Numbered(seq + ChunkLength, Rest)
  BY ZenonT(30), <1>1, <1>3, NumberedConcat
<1>. QED
  BY <1>1, <1>4

\* A chunk that is pushed keeps its numbers.
LEMMA PushMatches ==
  ASSUME ChainInv, todo # <<>>, Push \/ PushSnapshot
  PROVE  Coming' = Coming /\ OpenThere' = OpenThere
<1>. USE DEF ChainInv, TypeInv
<1>1. /\ run' = run /\ seq' = seq + ChunkLength /\ todo' = Rest /\ UNCHANGED <<runs, open>>
      /\ spool' = Append(spool, NextBatch)
  BY DEF Push, PushSnapshot, coreVars
<1>2. OpenThere' = OpenThere /\ Base' = Base
  BY <1>1 DEF OpenThere, Base, Known, RowOf
<1>3. Range(spool') = Range(spool) \cup {NextBatch}
  <2>1. spool \in Seq(Batch) /\ NextBatch \in Batch
    BY ChunkType DEF TypeOK
  <2>2. /\ Len(spool) \in Nat /\ DOMAIN spool = 1..Len(spool)
        /\ DOMAIN spool' = 1..(Len(spool) + 1)
        /\ spool'[Len(spool) + 1] = NextBatch /\ \A i \in 1..Len(spool) : spool'[i] = spool[i]
    BY <1>1, <2>1, AppendProperties
  <2>3. \A i \in 1..(Len(spool) + 1) : i \in 1..Len(spool) \/ i = Len(spool) + 1
    BY <2>2
  <2>4. 1..Len(spool) \subseteq 1..(Len(spool) + 1) /\ Len(spool) + 1 \in 1..(Len(spool) + 1)
    BY <2>2
  <2>. QED
    BY <2>2, <2>3, <2>4 DEF Range
<1>4. InSpool' = InSpool \cup Numbered(seq, Chunk)
  <2>1. NextBatch.run = run /\ NextBatch.first = seq /\ NextBatch.events = Chunk
    BY DEF NextBatch
  <2>2. {c \in Range(spool') : c.run = run} = {c \in Range(spool) : c.run = run} \cup {NextBatch}
    BY <1>3, <2>1
  <2>. QED
    BY <1>1, <2>1, <2>2 DEF InSpool
<1>5. Numbered(seq, todo) = Numbered(seq, Chunk) \cup Numbered(seq + ChunkLength, Rest)
  BY ChunkNumbers
<1>6. InSpool' \cup Numbered(seq, todo)' = InSpool \cup Numbered(seq, todo)
  <2>1. Numbered(seq, todo)' = Numbered(seq + ChunkLength, Rest)
    BY <1>1 DEF Numbered
  <2>. QED
    BY <1>4, <1>5, <2>1
<1>. QED
  BY <1>2, <1>6 DEF Coming

\* What leaves the spool without the core's run getting shorter was stored, or is of
\* another run.
LEMMA CutMatches ==
  ASSUME ChainInv, UNCHANGED <<run, seq, todo, runs, open>>,
         Range(spool') \subseteq Range(spool),
         \A b \in Range(spool) \ Range(spool') : b \in Range(log) \/ b.run # run
  PROVE  Coming' = Coming /\ OpenThere' = OpenThere
<1>. USE DEF ChainInv, TypeInv
<1>1. OpenThere' = OpenThere /\ Base' = Base
  BY DEF OpenThere, Base, Known, RowOf
<1>2. InSpool' \subseteq InSpool
  BY DEF InSpool
<1>3. ASSUME NEW p \in InSpool, Base < p[1] PROVE p \in InSpool'
  <2>1. PICK b \in Range(spool) : b.run = run /\ p \in Numbered(b.first, b.events)
    BY <1>3 DEF InSpool
  <2>2. CASE b \in Range(spool')
    BY <2>1, <2>2 DEF InSpool
  <2>3. CASE b \notin Range(spool')
    <3>1. PICK i \in DOMAIN log : log[i] = b
      BY <2>1, <2>3 DEF Range
    <3>2. Known(run) /\ LastSequence(b) <= Base
      BY <2>1, <3>1 DEF Chained, RunsMatchLog, Base
    <3>3. b \in Batch
      BY <2>1, SpoolBelow
    <3>4. b.events \in Seq(Event) /\ b.first \in Nat /\ LastSequence(b) \in Nat
      BY <3>3, BatchType
    <3>5. p[1] \in Nat /\ p[1] <= b.first + Len(b.events) - 1
      BY <2>1, <3>4, NumberedType
    <3>6. p[1] <= LastSequence(b) /\ Base \in Nat
      BY <3>5, SpoolBelow DEF LastSequence
    <3>. QED
      BY <1>3, <3>2, <3>4, <3>5, <3>6
  <2>. QED
    BY <2>2, <2>3
<1>4. Numbered(seq, todo)' = Numbered(seq, todo)
  BY DEF Numbered
<1>. QED
  BY <1>1, <1>2, <1>3, <1>4 DEF Coming
-----------------------------------------------------------------------------
(* The core stores a batch.                                                *)

\* The numbered events below m, and the windows of run r among what is open
Below(ps, m) == {p \in ps : p[1] < m}
WindowsIn(os, r) == {w \in Windows : <<r, w>> \in os}

\* What is open after the first n events of a batch
LEMMA OpenAfterSome ==
  ASSUME NEW b \in Batch, NEW start, NEW n \in 0..Len(b.events), NEW w \in Windows
  PROVE  <<b.run, w>> \in OpenAfter(b, start, n)
         <=> w \in After(WindowsIn(start, b.run), Below(Numbered(b.first, b.events), b.first + n))
<1>. DEFINE s == b.events
            u == SubSeq(s, 1, n)
            pair(i) == <<b.run, s[i].win>>
            closedAfter(i, p) == \E k \in (i + 1)..n : s[k].kind = "closed" /\ pair(k) = p
            ws == WindowsIn(start, b.run)
<1>1. /\ s \in Seq(Event) /\ b.first \in Nat /\ Len(s) \in Nat /\ DOMAIN s = 1..Len(s)
      /\ n \in Nat /\ n <= Len(s)
  BY BatchType, LenProperties
<1>2. u \in Seq(Event) /\ DOMAIN u = 1..n /\ \A i \in 1..n : u[i] = s[i] /\ i \in DOMAIN s
  <2>1. \A i \in 1..n : i \in DOMAIN s /\ s[i] \in Event
    BY <1>1
  <2>2. u \in Seq(Event) /\ Len(u) = (IF 1 <= n THEN n - 1 + 1 ELSE 0)
        /\ \A i \in 1..(n - 1 + 1) : u[i] = s[1 + i - 1]
    BY <1>1, <2>1, SubSeqProperties
  <2>3. Len(u) = n /\ n - 1 + 1 = n
    BY <1>1, <2>2
  <2>4. DOMAIN u = 1..n
    BY <2>2, <2>3, LenProperties
  <2>5. \A i \in 1..n : u[i] = s[i]
    BY <1>1, <2>2, <2>3
  <2>. QED
    BY <2>1, <2>2, <2>4, <2>5
<1>3. \A i \in 1..n : pair(i) = <<b.run, w>> <=> s[i].win = w
  OBVIOUS
<1>4. OpenAfter(b, start, n)
        = {p \in start : ~closedAfter(0, p)} \cup
          {pair(i) : i \in {j \in 1..n : s[j].kind = "opened" /\ ~closedAfter(j, pair(j))}}
  BY DEF OpenAfter
<1>5. ASSUME NEW i \in 0..n
      PROVE  closedAfter(i, <<b.run, w>>) <=> \E k \in 1..n : i < k /\ Closes(s[k], w)
  <2>1. \A k : k \in (i + 1)..n <=> k \in 1..n /\ i < k
    BY <1>1
  <2>. QED
    BY <1>3, <2>1 DEF Closes
<1>6. closedAfter(0, <<b.run, w>>) <=> \E k \in 1..n : Closes(s[k], w)
  <2>1. 0 \in 0..n /\ \A k \in 1..n : 0 < k
    BY <1>1
  <2>. QED
    BY <1>5, <2>1
<1>7. \A i \in 1..n : i \in 0..n
  BY <1>1
<1>8. <<b.run, w>> \in OpenAfter(b, start, n)
      <=> \/ <<b.run, w>> \in start /\ ~closedAfter(0, <<b.run, w>>)
          \/ \E i \in 1..n : Opens(s[i], w) /\ ~closedAfter(i, <<b.run, w>>)
  <2>. HIDE DEF closedAfter
  <2>1. ASSUME NEW i \in 1..n, Opens(s[i], w), ~closedAfter(i, <<b.run, w>>)
        PROVE  <<b.run, w>> \in OpenAfter(b, start, n)
    <3>1. s[i].kind = "opened" /\ pair(i) = <<b.run, w>>
      BY <1>3, <2>1 DEF Opens
    <3>. HIDE DEF pair
    <3>2. i \in {j \in 1..n : s[j].kind = "opened" /\ ~closedAfter(j, pair(j))}
      BY <2>1, <3>1
    <3>. QED
      BY <1>4, <3>1, <3>2
  <2>2. ASSUME NEW i \in 1..n, s[i].kind = "opened", ~closedAfter(i, pair(i)), pair(i) = <<b.run, w>>
        PROVE  \E j \in 1..n : Opens(s[j], w) /\ ~closedAfter(j, <<b.run, w>>)
    <3>1. s[i].win = w
      BY <1>3, <2>2
    <3>. QED
      BY <2>2, <3>1 DEF Opens
  <2>. HIDE DEF pair
  <2>. QED
    BY <1>4, <2>1, <2>2
<1>9. Below(Numbered(b.first, s), b.first + n) = Numbered(b.first, u)
  <2>1. ASSUME NEW i \in DOMAIN s PROVE b.first + i - 1 < b.first + n <=> i \in 1..n
    BY <1>1
  <2>2. \A i \in DOMAIN s : <<b.first + i - 1, s[i]>>[1] = b.first + i - 1
    OBVIOUS
  <2>3. Below(Numbered(b.first, s), b.first + n) = {<<b.first + i - 1, s[i]>> : i \in 1..n}
    <3>. HIDE DEF s
    <3>. QED
      BY <1>2, <2>1, <2>2 DEF Below, Numbered
  <2>4. Numbered(b.first, u) = {<<b.first + i - 1, s[i]>> : i \in 1..n}
    <3>. HIDE DEF s, u
    <3>. QED
      BY <1>2 DEF Numbered
  <2>. QED
    BY <2>3, <2>4
<1>10. w \in After(ws, Numbered(b.first, u))
       <=> \/ w \in ws /\ \A k \in 1..n : ~Closes(s[k], w)
           \/ \E i \in 1..n : Opens(s[i], w) /\ \A k \in 1..n : i < k => ~Closes(s[k], w)
  <2>. HIDE DEF s, u, ws
  <2>. QED
    BY <1>1, <1>2, AfterNumbered
<1>11. w \in ws <=> <<b.run, w>> \in start
  BY DEF WindowsIn
<1>. HIDE DEF closedAfter, ws, s, u, pair
<1>12. <<b.run, w>> \in OpenAfter(b, start, n)
       <=> w \in After(ws, Below(Numbered(b.first, s), b.first + n))
  BY <1>5, <1>6, <1>7, <1>8, <1>9, <1>10, <1>11
<1>. QED
  BY <1>12 DEF s, ws

\* ... and after all of them
LEMMA OpenAfterBatch ==
  ASSUME NEW b \in Batch, NEW start, NEW w \in Windows
  PROVE  <<b.run, w>> \in OpenAfter(b, start, Len(b.events))
         <=> w \in After(WindowsIn(start, b.run), Numbered(b.first, b.events))
<1>1. b.first \in Nat /\ b.events \in Seq(Event) /\ Len(b.events) \in 0..Len(b.events)
  BY BatchType
<1>2. \A p \in Numbered(b.first, b.events) : p[1] < b.first + Len(b.events)
  <2>1. \A p \in Numbered(b.first, b.events) :
           p[1] \in Nat /\ p[1] <= b.first + Len(b.events) - 1
    BY <1>1, NumberedType
  <2>. QED
    BY <1>1, <2>1
<1>3. Below(Numbered(b.first, b.events), b.first + Len(b.events)) = Numbered(b.first, b.events)
  BY <1>2 DEF Below
<1>. QED
  BY <1>1, <1>3, OpenAfterSome

\* The core's next batch of the current run is the front of the spool; what comes after
\* it is still coming.
LEMMA StoreMatches ==
  ASSUME ChainInv, wire # <<>>, UNCHANGED <<run, seq, todo, spool>>,
         Store(wire[1]), NextFor(wire[1].run, wire[1].first)
  PROVE  After(OpenThere, Coming)' = After(OpenThere, Coming)
<1>. USE DEF ChainInv, TypeInv
<1>0. PICK b \in Batch : b = wire[1]
  BY ChainEnds
<1>1. b \in Batch /\ b.run \in Nat /\ run \in Nat
  BY BatchType, ChainEnds
<1>2. Store(b) /\ NextFor(b.run, b.first)
  BY <1>0
<1>3. b \notin Range(log)
  BY <1>1, <1>2, NextIsNotStored DEF Chained
<1>4. /\ IF spool = <<>> THEN b.run < run ELSE b = spool[1] \/ b.run < spool[1].run
      /\ \A i \in DOMAIN runs : runs[i].run <= b.run
  BY <1>0, <1>3 DEF Chained, WireNext
<1>5. /\ \A r : Known(r)' <=> Known(r) \/ r = b.run
      /\ \A r : Known(r) /\ r # b.run => runs'[RowOf(r)'].seq = runs[RowOf(r)].seq
      /\ runs'[RowOf(b.run)'].seq = LastSequence(b)
      /\ \A i, j \in DOMAIN runs' : runs'[i].run = runs'[j].run => i = j
  BY <1>1, <1>2, StoreRows DEF Chained
<1>6. /\ b.events \in Seq(Event) /\ b.first \in Nat \ {0} /\ LastSequence(b) \in Nat
      /\ b.first <= LastSequence(b)
  BY <1>1, BatchType
<1>7. Numbered(seq, todo)' = Numbered(seq, todo) /\ InSpool' = InSpool
  BY DEF Numbered, InSpool
<1>8. After(OpenThere, Coming)' = After(OpenThere', Coming')
  BY DEF After
<1>9. CASE b.run # run
  <2>1. b.run < run
    <3>1. CASE spool = <<>>
      BY <1>4, <3>1
    <3>2. CASE spool # <<>>
      <4>1. spool[1].run <= run /\ spool[1].run \in Nat
        BY <3>2, ChainEnds
      <4>. QED
        BY <1>1, <1>4, <1>9, <3>2, <4>1
    <3>. QED
      BY <3>1, <3>2
  <2>2. ~Known(run)
    <3>1. \A i \in DOMAIN runs : runs[i].run < run
      BY <1>1, <1>4, <2>1, RowType
    <3>. QED
      BY <1>1, <3>1, UnknownLater
  <2>3. ~Known(run)'
    <3>1. Known(run)' => Known(run) \/ run = b.run
      BY <1>5
    <3>. QED
      BY <1>9, <2>2, <3>1
  <2>4. OpenThere' = OpenThere /\ Base' = Base
    BY <2>2, <2>3 DEF OpenThere, Base
  <2>. QED
    BY <1>7, <1>8, <2>4 DEF Coming
<1>10. CASE b.run = run
  <2>1. spool # <<>> /\ spool[1] = b
    <3>1. spool # <<>>
      BY <1>1, <1>4, <1>10
    <3>2. spool[1].run <= run /\ spool[1].run \in Nat
      BY <3>1, ChainEnds
    <3>. QED
      BY <1>1, <1>4, <1>10, <3>1, <3>2
  <2>2. 1 \in DOMAIN spool /\ b \in Range(spool) /\ DOMAIN spool = 1..Len(spool) /\ Len(spool) \in Nat
    <3>1. 1 \in DOMAIN spool
      BY <2>1, ChainEnds
    <3>. QED
      BY <2>1, <3>1 DEF Range, TypeOK
  <2>3. LastSequence(b) < seq /\ Base \in Nat /\ seq \in Nat
    BY <1>10, <2>2, SpoolBelow
  <2>4. b.first = Base + 1
    BY <1>2, <1>10 DEF NextFor, Base
  <2>5. Known(run)' /\ Base' = LastSequence(b)
    <3>1. Known(run)'
      BY <1>5, <1>10
    <3>2. Base' = runs'[RowOf(run)'].seq
      BY <3>1 DEF Base
    <3>. QED
      BY <1>5, <1>10, <3>1, <3>2 DEF RowOf
  <2>. DEFINE taken == Numbered(b.first, b.events)
              all == InSpool \cup Numbered(seq, todo)
  <2>6. OpenThere' = After(OpenThere, taken)
    <3>1. open' = OpenAfter(b, OpenBefore(b), Len(b.events))
      BY <1>2 DEF Store
    <3>2. WindowsIn(OpenBefore(b), b.run) = OpenThere
      BY <1>10 DEF WindowsIn, OpenBefore, OpenThere
    <3>3. OpenThere' = {w \in Windows : <<b.run, w>> \in open'}
      BY <1>10, <2>5 DEF OpenThere
    <3>4. \A w \in Windows : <<b.run, w>> \in OpenAfter(b, OpenBefore(b), Len(b.events))
             <=> w \in After(WindowsIn(OpenBefore(b), b.run), taken)
      BY <1>1, OpenAfterBatch
    <3>5. \A w \in Windows : <<b.run, w>> \in open' <=> w \in After(OpenThere, taken)
      BY <3>1, <3>2, <3>4
    <3>6. After(OpenThere, taken) \subseteq Windows
      BY DEF After
    <3>. QED
      BY <3>3, <3>5, <3>6
  <2>7. \A p \in taken : p[1] \in Nat /\ b.first <= p[1] /\ p[1] <= LastSequence(b)
    <3>1. \A p \in taken : p \in Nat \X Event /\ b.first <= p[1] /\ p[1] <= b.first + Len(b.events) - 1
      BY <1>6, NumberedType
    <3>. QED
      BY <3>1 DEF LastSequence
  <2>8. taken \subseteq all
    BY <1>10, <2>2 DEF InSpool
  <2>9. ASSUME NEW p \in all PROVE p[1] \in Nat /\ (p \in taken \/ LastSequence(b) < p[1])
    <3>1. CASE p \in Numbered(seq, todo)
      <4>1. todo \in Seq(Event)
        BY DEF TypeOK
      <4>2. p \in Nat \X Event /\ seq <= p[1]
        BY <2>3, <3>1, <4>1, NumberedType
      <4>. QED
        BY <1>6, <2>3, <4>2
    <3>2. ASSUME NEW j \in DOMAIN spool, spool[j].run = run,
                 p \in Numbered(spool[j].first, spool[j].events)
          PROVE  p[1] \in Nat /\ (p \in taken \/ LastSequence(b) < p[1])
      <4>1. CASE j = 1
        BY <2>1, <2>7, <3>2, <4>1
      <4>2. CASE j # 1
        <5>1. 1 < j
          BY <2>2, <4>2
        <5>2. LastSequence(b) < spool[j].first
          BY <1>10, <2>1, <2>2, <3>2, <5>1, SpoolNumbers DEF Chained
        <5>3. spool[j] \in Batch
          BY DEF TypeOK
        <5>4. spool[j].first \in Nat /\ spool[j].events \in Seq(Event)
          BY <5>3, BatchType
        <5>5. p \in Nat \X Event /\ spool[j].first <= p[1]
          BY <3>2, <5>4, NumberedType
        <5>. QED
          BY <1>6, <5>2, <5>4, <5>5
      <4>. QED
        BY <4>1, <4>2
    <3>. QED
      BY <3>1, <3>2 DEF InSpool, Range
  <2>10. Coming = {p \in all : Base < p[1]}
    BY DEF Coming
  <2>11. Coming' = {p \in all : LastSequence(b) < p[1]}
    BY <1>7, <2>5 DEF Coming
  <2>. HIDE DEF taken, all
  <2>12. Coming = taken \cup Coming'
    <3>1. \A p \in taken : p \in all /\ Base < p[1]
      BY <1>6, <2>3, <2>4, <2>7, <2>8
    <3>2. \A p \in all : LastSequence(b) < p[1] => Base < p[1]
      BY <1>6, <2>3, <2>4, <2>9
    <3>. QED
      BY <2>9, <2>10, <2>11, <3>1, <3>2
  <2>13. \A p \in taken, q \in Coming' : p[1] < q[1]
    BY <1>6, <2>7, <2>9, <2>11
  <2>14. \A p \in taken \cup Coming' : p[1] \in Nat
    BY <2>7, <2>9, <2>11
  <2>15. After(OpenThere, taken \cup Coming') = After(After(OpenThere, taken), Coming')
    BY <2>13, <2>14, AfterBoth
  <2>. QED
    BY <1>8, <2>6, <2>12, <2>15
<1>. QED
  BY <1>9, <1>10

\* What is open after a batch is stored is open in its run.
LEMMA StoreOpens ==
  ASSUME ChainInv, OpenOfLast, wire # <<>>, AboutWindows(wire[1].events),
         Store(wire[1]), NextFor(wire[1].run, wire[1].first)
  PROVE  OpenOfLast'
<1>. USE DEF ChainInv, TypeInv
<1>0. PICK b \in Batch : b = wire[1]
  BY ChainEnds
<1>1. b \in Batch /\ b.run \in Nat
  BY BatchType
<1>2. Store(b) /\ NextFor(b.run, b.first)
  BY <1>0
<1>3. b \notin Range(log)
  BY <1>1, <1>2, NextIsNotStored DEF Chained
<1>4. \A i \in DOMAIN runs : runs[i].run <= b.run
  BY <1>0, <1>3 DEF Chained, WireNext
<1>5. AboutWindows(b.events)
  BY <1>0
<1>6. log' # <<>> /\ log'[Len(log')] = b
  <2>1. log' = Append(log, b) /\ log \in Seq(Batch)
    BY <1>2 DEF Store, TypeOK
  <2>. QED
    BY <1>1, <2>1
<1>7. \A p \in OpenBefore(b) : p[2] \in Windows /\ p[1] = b.run
  <2>1. SUFFICES ASSUME Known(b.run), NEW p \in open PROVE p[2] \in Windows /\ p[1] = b.run
    BY DEF OpenBefore
  <2>2. p[2] \in Windows /\ log # <<>> /\ p[1] = log[Len(log)].run
    BY DEF OpenOfLast
  <2>. DEFINE z == log[Len(log)]
  <2>3. Len(log) \in DOMAIN log /\ z \in Batch
    <3>1. log \in Seq(Batch)
      BY DEF TypeOK
    <3>2. Len(log) \in Nat \ {0}
      BY <2>2, <3>1, EmptySeq
    <3>. QED
      BY <3>1, <3>2
  <2>4. Known(z.run) /\ \A i \in DOMAIN runs : runs[i].run <= z.run
    <3>1. runs # <<>>
      <4>1. RowOf(b.run) \in DOMAIN runs
        BY <2>1, RowOfKnown
      <4>. QED
        BY <4>1
    <3>. QED
      BY <2>3, <3>1 DEF Chained, RunsMatchLog
  <2>5. z.run \in Nat
    BY <2>3, BatchType
  <2>. HIDE DEF z
  <2>6. z.run <= b.run /\ b.run <= z.run
    BY <1>4, <2>1, <2>4, RowOfKnown
  <2>7. p[1] = z.run
    BY <2>2 DEF z
  <2>. QED
    BY <1>1, <2>2, <2>5, <2>6, <2>7
<1>8. ASSUME NEW p \in open' PROVE p[2] \in Windows /\ p[1] = b.run
  <2>1. \/ p \in OpenBefore(b)
        \/ \E i \in 1..Len(b.events) : b.events[i].kind = "opened" /\ p = <<b.run, b.events[i].win>>
    BY <1>2, <1>8 DEF Store, OpenAfter
  <2>2. DOMAIN b.events = 1..Len(b.events)
    BY <1>1, BatchType, LenProperties
  <2>. QED
    BY <1>5, <1>7, <2>1, <2>2 DEF AboutWindows
<1>. QED
  BY <1>6, <1>8 DEF OpenOfLast
-----------------------------------------------------------------------------
(* The steps of the collector.                                             *)

\* EventsFor is about windows, and empty when there are none.
LEMMA EventsForWindows ==
  ASSUME NEW kind \in Kinds, NEW ws \in SUBSET Windows, NEW t \in Time,
         NEW s \in EventsFor(kind, ws, t)
  PROVE  s \in Seq(Event) /\ AboutWindows(s) /\ (ws = {} => s = <<>>)
<1>1. s \in Seq(Event) /\ \A i \in DOMAIN s : s[i].win \in ws
  BY EventsForEach
<1>2. ASSUME ws = {} PROVE s = <<>>
  <2>1. DOMAIN s = 1..Len(s) /\ Len(s) \in Nat /\ DOMAIN s = {}
    BY <1>1, <1>2, LenProperties
  <2>2. Len(s) = 0
    BY <2>1
  <2>. QED
    BY <1>1, <2>2, EmptySeq
<1>. QED
  BY <1>1, <1>2 DEF AboutWindows

\* A turn of the loop queues what has changed.
LEMMA QueueKeeps ==
  ASSUME MatchInv, pc \in {"publish", "loop"}, UNCHANGED <<run, seq, spoolVars, wire, coreVars>>,
         todo' \in Seq(Event), AboutWindows(todo'), pc' # "push" => todo' = <<>>,
         After(windows, Numbered(seq, todo')) = windows'
  PROVE  Matching'
<1>. USE DEF MatchInv, Matching
<1>1. todo = <<>> /\ After(OpenThere, Coming) = windows
  BY DEF NothingLeft, WillMatch
<1>2. UNCHANGED <<run, seq, spool, runs, open, log, wire>>
  BY DEF spoolVars, coreVars
<1>3. WillMatch'
  BY <1>1, <1>2, QueueMatches DEF WillMatch
<1>4. NothingLeft'
  BY DEF NothingLeft
<1>5. OpensWindows' /\ OpenOfLast'
  BY <1>2 DEF OpensWindows, AboutWindows, OpenOfLast
<1>. QED
  BY <1>3, <1>4, <1>5

\* A new run begins by queueing what the collector has open.
LEMMA NewRunKeeps ==
  ASSUME MatchInv, run' = run + 1, seq' = 1, Range(spool') \subseteq Range(spool),
         UNCHANGED <<wire, coreVars>>, todo' \in Seq(Event), AboutWindows(todo'),
         pc' \notin {"push", "snap"} => todo' = <<>>,
         After({}, Numbered(1, todo')) = windows'
  PROVE  Matching'
<1>. USE DEF MatchInv, Matching
<1>1. UNCHANGED <<runs, open, log, wire>>
  BY DEF coreVars
<1>2. WillMatch'
  BY <1>1, NewRunMatches DEF WillMatch
<1>3. NothingLeft'
  BY DEF NothingLeft
<1>4. OpensWindows' /\ OpenOfLast'
  BY <1>1 DEF OpensWindows, AboutWindows, OpenOfLast
<1>. QED
  BY <1>2, <1>3, <1>4

\* A publication, at a time of the clock
LEMMA PublishKeeps ==
  ASSUME MatchInv, NEW now \in Time, NEW fresh \in BOOLEAN, Publish(now, fresh),
         pc \in {"publish", "loop"}, UNCHANGED <<run, seq, spoolVars, wire, coreVars>>
  PROVE  Matching'
<1>1. TypeInv /\ seq \in Nat
  BY DEF MatchInv, ChainInv, TypeInv, TypeOK
<1>2. After(windows, Numbered(seq, todo')) = windows' /\ AboutWindows(todo')
      /\ (pc' = "loop" => todo' = <<>>)
  BY <1>1, PublishMatches
<1>3. todo' \in Seq(Event) /\ pc' \in {"push", "loop"}
  BY <1>1, PublishType
<1>. QED
  BY <1>2, <1>3, QueueKeeps

\* A note that is queued
LEMMA NoteKeeps ==
  ASSUME MatchInv, NEW kind \in {"interval", "gap", "input_gap", "bad"}, NEW t \in Time, NEW next,
         Queue(<<Note(kind, t, t)>>, next), pc = "loop", windows' = windows,
         UNCHANGED <<run, seq, spoolVars, wire, coreVars>>
  PROVE  Matching'
<1>. DEFINE es == <<Note(kind, t, t)>>
<1>1. es \in Seq(Event) /\ es # <<>> /\ \A i \in DOMAIN es : es[i].kind \notin {"opened", "closed"}
  BY NoteIsNeutral
<1>2. todo' = es /\ pc' = IF es = <<>> THEN next ELSE "push"
  BY DEF Queue
<1>. HIDE DEF es
<1>3. seq \in Nat /\ windows \in SUBSET Windows
  BY DEF MatchInv, ChainInv, TypeInv, TypeOK
<1>4. After(windows, Numbered(seq, es)) = windows
  BY <1>1, <1>3, AfterNotes
<1>5. AboutWindows(es)
  BY <1>1 DEF AboutWindows
<1>. QED
  BY <1>1, <1>2, <1>4, <1>5, QueueKeeps

\* A stop closes everything.
LEMMA StopKeeps ==
  ASSUME MatchInv, Stop
  PROVE  Matching'
<1>1. PICK t \in Readings :
        LET now == Later(t, lastNow)
        IN  \E c \in EventsFor("closed", windows, now) :
               Queue(c \o <<Note("interval", now, now)>>, "drain")
  BY DEF Stop
<1>. DEFINE now == Later(t, lastNow)
            note == <<Note("interval", now, now)>>
<1>2. PICK c \in EventsFor("closed", windows, now) : Queue(c \o note, "drain")
  BY <1>1
<1>3. now \in Time /\ windows \in SUBSET Windows /\ seq \in Nat
  BY ReadingsType DEF MatchInv, ChainInv, TypeInv, TypeOK, Later
<1>. HIDE DEF now
<1>4. note \in Seq(Event) /\ note # <<>>
      /\ \A i \in DOMAIN note : note[i].kind \notin {"opened", "closed"}
  BY <1>3, NoteIsNeutral
<1>. HIDE DEF note
<1>5. "closed" \in Kinds
  BY DEF Kinds
<1>6. c \in Seq(Event) /\ AboutWindows(c)
  BY <1>3, <1>5, EventsForWindows
<1>7. AboutWindows(note)
  BY <1>4 DEF AboutWindows
<1>8. AboutWindows(c \o note)
  BY <1>4, <1>6, <1>7, AboutConcat
<1>9. After(windows, Numbered(seq, c \o note)) = {}
  <2>1. After(windows, Numbered(seq, c \o note))
          = After(After(windows, Numbered(seq, c)), Numbered(seq + Len(c), note))
    BY <1>3, <1>4, <1>6, AfterConcat
  <2>2. After(windows, Numbered(seq, c)) = windows \ windows
    BY <1>3, AfterClosed
  <2>3. seq + Len(c) \in Nat /\ {} \in SUBSET Windows
    BY <1>3, <1>6, LenProperties
  <2>4. After({}, Numbered(seq + Len(c), note)) = {}
    BY <1>4, <2>3, AfterNotes
  <2>5. windows \ windows = {}
    OBVIOUS
  <2>. QED
    BY <2>1, <2>2, <2>4, <2>5
<1>10. c \o note \in Seq(Event) /\ c \o note # <<>>
  <2>1. c \o note \in Seq(Event) /\ Len(c \o note) = Len(c) + Len(note)
        /\ Len(c) \in Nat /\ Len(note) \in Nat \ {0}
    BY <1>4, <1>6, ConcatProperties, LenProperties, EmptySeq
  <2>2. Len(c \o note) # 0
    BY <2>1
  <2>. QED
    BY <2>1, <2>2, EmptySeq
<1>11. todo' = c \o note /\ pc' = "push"
  BY <1>2, <1>10 DEF Queue
<1>12. windows' = {} /\ pc = "loop" /\ UNCHANGED <<run, seq, spoolVars, wire, coreVars>>
  BY DEF Stop
<1>. QED
  BY <1>8, <1>9, <1>10, <1>11, <1>12, QueueKeeps

\* A rotation begins a run with nothing open.
LEMMA RotateKeeps ==
  ASSUME MatchInv, RotateRun
  PROVE  Matching'
<1>. DEFINE es == <<Note("interval", clock, clock)>>
<1>1. clock \in Time
  BY DEF MatchInv, ChainInv, TypeInv, TypeOK
<1>2. es \in Seq(Event) /\ es # <<>> /\ \A i \in DOMAIN es : es[i].kind \notin {"opened", "closed"}
  BY <1>1, NoteIsNeutral
<1>3. /\ todo' = es /\ pc' = IF es = <<>> THEN "publish" ELSE "push"
      /\ run' = run + 1 /\ seq' = 1 /\ windows' = {}
      /\ UNCHANGED <<spool, wire, coreVars>>
  BY DEF RotateRun, Queue, spoolVars
<1>. HIDE DEF es
<1>4. 1 \in Nat /\ {} \in SUBSET Windows
  OBVIOUS
<1>5. After({}, Numbered(1, es)) = {}
  BY <1>2, <1>4, AfterNotes
<1>6. AboutWindows(es)
  BY <1>2 DEF AboutWindows
<1>7. Range(spool') \subseteq Range(spool)
  BY <1>3
<1>. QED
  BY <1>2, <1>3, <1>5, <1>6, <1>7, NewRunKeeps

\* A start begins a run with nothing queued.
LEMMA StartKeeps ==
  ASSUME MatchInv, Start
  PROVE  Matching'
<1>1. /\ todo' = <<>> /\ run' = run + 1 /\ seq' = 1 /\ windows' = {}
      /\ spool' = spool \/ spool' = <<>>
      /\ UNCHANGED <<wire, coreVars>>
  BY DEF Start
<1>2. Range(spool') \subseteq Range(spool)
  BY <1>1 DEF Range
<1>3. <<>> \in Seq(Event) /\ AboutWindows(<<>>)
  BY DEF AboutWindows
<1>4. After({}, Numbered(1, <<>>)) = {}
  BY NumberedNothing DEF After
<1>. QED
  BY <1>1, <1>2, <1>3, <1>4, NewRunKeeps

\* An overflow begins a run with a gap and everything that is open.
LEMMA OverflowKeeps ==
  ASSUME MatchInv, Overflow
  PROVE  Matching'
<1>. USE DEF MatchInv, ChainInv, TypeInv
<1>1. todo # <<>> /\ pc = "push" /\ Len(spool) = Capacity
  BY DEF Overflow, Busy
<1>2. Head(spool) \in Batch
  BY <1>1, ConstantsOK DEF TypeOK
<1>. DEFINE oldest == Head(spool).events[1].at
            now == todo[ChunkLength].at
<1>3. oldest \in Time /\ now \in Time
  <2>1. Head(spool).events[1] \in Event
    BY <1>2, BatchType
  <2>2. todo[ChunkLength] \in Event
    BY <1>1, ChunkType DEF TypeOK
  <2>. QED
    BY <2>1, <2>2 DEF Event
<1>4. PICK o \in EventsFor("opened", windows, now) :
        todo' = <<Note("gap", Earlier(oldest, now), now)>> \o o
  BY DEF Overflow
<1>. HIDE DEF oldest, now
<1>. DEFINE note == <<Note("gap", Earlier(oldest, now), now)>>
<1>5. note \in Seq(Event) /\ note # <<>>
      /\ \A i \in DOMAIN note : note[i].kind \notin {"opened", "closed"}
  <2>1. Earlier(oldest, now) \in Time
    BY <1>3 DEF Earlier
  <2>. QED
    BY <1>3, <2>1, NoteIsNeutral
<1>6. todo' = note \o o
  BY <1>4
<1>. HIDE DEF note
<1>7. "opened" \in Kinds /\ windows \in SUBSET Windows
  BY DEF Kinds, TypeOK
<1>8. o \in Seq(Event) /\ AboutWindows(o)
  BY <1>3, <1>7, EventsForWindows
<1>9. AboutWindows(note)
  BY <1>5 DEF AboutWindows
<1>10. AboutWindows(note \o o) /\ note \o o \in Seq(Event)
  BY <1>5, <1>8, <1>9, AboutConcat, ConcatProperties
<1>11. After({}, Numbered(1, note \o o)) = windows
  <2>1. 1 \in Nat /\ {} \in SUBSET Windows
    OBVIOUS
  <2>2. 1 + Len(note) \in Nat
    BY <1>5, LenProperties
  <2>3. After({}, Numbered(1, note \o o))
          = After(After({}, Numbered(1, note)), Numbered(1 + Len(note), o))
    BY <1>5, <1>8, <2>1, AfterConcat
  <2>4. After({}, Numbered(1, note)) = {}
    BY <1>5, <2>1, AfterNotes
  <2>5. After({}, Numbered(1 + Len(note), o)) = windows
    <3>1. PICK none \in SUBSET Windows : none = {}
      OBVIOUS
    <3>2. After(none, Numbered(1 + Len(note), o)) = none \cup windows
      BY <1>3, <1>7, <2>2, AfterOpened
    <3>. QED
      BY <3>1, <3>2
  <2>. QED
    BY <2>3, <2>4, <2>5
<1>12. /\ run' = run + 1 /\ seq' = 1 /\ spool' = <<>> /\ pc' = "snap" /\ windows' = windows
       /\ UNCHANGED <<wire, coreVars>>
  BY DEF Overflow
<1>13. Range(spool') \subseteq Range(spool)
  BY <1>12 DEF Range
<1>. QED
  BY <1>6, <1>10, <1>11, <1>12, <1>13, NewRunKeeps

\* A run that was abandoned is followed by one with everything that is open.
LEMMA RestartKeeps ==
  ASSUME MatchInv, RestartRun, Range(spool') \subseteq Range(spool), windows' = windows,
         UNCHANGED <<wire, coreVars>>
  PROVE  Matching'
<1>. USE DEF MatchInv, ChainInv, TypeInv
<1>1. PICK t \in Readings : \E o \in EventsFor("opened", windows, t) : todo' = o
  BY DEF RestartRun
<1>2. PICK o \in EventsFor("opened", windows, t) : todo' = o
  BY <1>1
<1>3. "opened" \in Kinds /\ windows \in SUBSET Windows /\ t \in Time /\ 1 \in Nat
      /\ {} \in SUBSET Windows
  BY ReadingsType DEF Kinds, TypeOK
<1>4. o \in Seq(Event) /\ AboutWindows(o) /\ (windows = {} => o = <<>>)
  BY <1>3, EventsForWindows
<1>5. After({}, Numbered(1, o)) = windows
  <2>1. PICK none \in SUBSET Windows : none = {}
    OBVIOUS
  <2>2. After(none, Numbered(1, o)) = none \cup windows
    BY <1>3, AfterOpened
  <2>. QED
    BY <2>1, <2>2
<1>6. run' = run + 1 /\ seq' = 1 /\ pc' = IF windows = {} THEN "loop" ELSE "snap"
  BY DEF RestartRun
<1>7. After({}, Numbered(1, todo')) = windows'
  BY <1>2, <1>5
<1>. QED
  BY <1>2, <1>4, <1>6, <1>7, NewRunKeeps

\* A chunk that is pushed stays what it was.
LEMMA PushKeeps ==
  ASSUME MatchInv, Push \/ PushSnapshot
  PROVE  Matching'
<1>. USE DEF MatchInv, Matching
<1>1. /\ pc \in {"push", "snap"} /\ todo # <<>> /\ TypeOK /\ todo \in Seq(Event)
      /\ todo' = Rest /\ (pc' \in {"push", "snap"} \/ Rest = <<>>)
      /\ windows' = windows /\ wire' = wire /\ open' = open /\ log' = log
  BY DEF Push, PushSnapshot, ChainInv, TypeInv, TypeOK, Busy, coreVars
<1>2. WillMatch'
  <2>1. Coming' = Coming /\ OpenThere' = OpenThere
    BY <1>1, PushMatches
  <2>2. After(OpenThere, Coming)' = After(OpenThere', Coming')
    BY DEF After
  <2>. QED
    BY <1>1, <2>1, <2>2 DEF WillMatch
<1>3. NothingLeft'
  BY <1>1 DEF NothingLeft
<1>4. AboutWindows(Chunk) /\ AboutWindows(Rest)
  <2>1. ChunkLength \in 1..Len(todo) /\ DOMAIN todo = 1..Len(todo) /\ Len(todo) \in Nat
    BY <1>1, ChunkType, LenProperties
  <2>2. Chunk \in Seq(Event) /\ Len(Chunk) = ChunkLength
        /\ \A i \in 1..ChunkLength : Chunk[i] = todo[i]
    <3>1. \A i \in 1..ChunkLength : todo[i] \in Event
      BY <1>1, <2>1
    <3>. QED
      BY <2>1, <3>1, SubSeqProperties DEF Chunk
  <2>3. Rest \in Seq(Event) /\ Len(Rest) = Len(todo) - ChunkLength
        /\ \A i \in 1..(Len(todo) - ChunkLength) : Rest[i] = todo[ChunkLength + i]
    <3>1. \A i \in (ChunkLength + 1)..Len(todo) : todo[i] \in Event
      BY <1>1, <2>1
    <3>2. /\ Rest \in Seq(Event)
          /\ Len(Rest) = IF ChunkLength + 1 <= Len(todo) THEN Len(todo) - (ChunkLength + 1) + 1 ELSE 0
          /\ \A i \in 1..(Len(todo) - (ChunkLength + 1) + 1) : Rest[i] = todo[(ChunkLength + 1) + i - 1]
      BY <2>1, <3>1, SubSeqProperties DEF Rest
    <3>3. Len(todo) - (ChunkLength + 1) + 1 = Len(todo) - ChunkLength
          /\ \A i \in Nat : (ChunkLength + 1) + i - 1 = ChunkLength + i
      BY <2>1
    <3>4. Len(Rest) = Len(todo) - ChunkLength
      <4>1. CASE ChunkLength + 1 <= Len(todo)
        BY <3>2, <3>3, <4>1
      <4>2. CASE ~(ChunkLength + 1 <= Len(todo))
        <5>1. Len(Rest) = 0
          BY <3>2, <4>2
        <5>2. \A n \in Nat : \A c \in 1..n : ~(c + 1 <= n) => n - c = 0
          OBVIOUS
        <5>3. Len(todo) - ChunkLength = 0
          BY <2>1, <4>2, <5>2
        <5>. QED
          BY <5>1, <5>3
      <4>. QED
        BY <4>1, <4>2
    <3>. QED
      BY <3>2, <3>3, <3>4
  <2>4. DOMAIN Chunk = 1..ChunkLength /\ DOMAIN Rest = 1..(Len(todo) - ChunkLength)
    BY <2>2, <2>3, LenProperties
  <2>5. \A i \in 1..ChunkLength : i \in DOMAIN todo
    BY <2>1
  <2>6. \A i \in 1..(Len(todo) - ChunkLength) : ChunkLength + i \in DOMAIN todo
    BY <2>1
  <2>. QED
    BY <2>2, <2>3, <2>4, <2>5, <2>6 DEF OpensWindows, AboutWindows
<1>5. Range(spool') = Range(spool) \cup {NextBatch} /\ NextBatch.events = Chunk
  BY <1>1, PushAdds DEF ChainInv, NextBatch
<1>6. OpensWindows'
  <2>1. AboutWindows(todo)'
    BY <1>1, <1>4 DEF AboutWindows
  <2>2. ASSUME NEW b \in Range(spool') \cup Range(wire') PROVE AboutWindows(b.events)
    <3>1. CASE b = NextBatch
      BY <1>4, <1>5, <3>1
    <3>2. CASE b \in Range(spool) \cup Range(wire)
      BY <3>2 DEF OpensWindows
    <3>. QED
      BY <1>1, <1>5, <2>2, <3>1, <3>2
  <2>3. \A b \in Range(spool') \cup Range(wire') : AboutWindows(b.events)
    BY <2>2
  <2>. QED
    BY <2>1, <2>3 DEF OpensWindows, AboutWindows
<1>7. OpenOfLast'
  BY <1>1 DEF OpenOfLast
<1>. QED
  BY <1>2, <1>3, <1>6, <1>7

\* Batches that leave the spool and were stored, or are of another run, are not missed.
LEMMA CutKeeps ==
  ASSUME MatchInv, UNCHANGED <<run, seq, todo, windows, coreVars>>,
         pc' = pc \/ pc' = "down", Range(wire') \subseteq Range(wire) \cup Range(spool),
         Range(spool') \subseteq Range(spool),
         \A b \in Range(spool) \ Range(spool') : b \in Range(log) \/ b.run # run
  PROVE  Matching'
<1>. USE DEF MatchInv, Matching
<1>1. UNCHANGED <<runs, open, log>>
  BY DEF coreVars
<1>2. Coming' = Coming /\ OpenThere' = OpenThere
  BY <1>1, CutMatches
<1>3. After(OpenThere, Coming)' = After(OpenThere', Coming')
  BY DEF After
<1>4. WillMatch'
  BY <1>2, <1>3 DEF WillMatch
<1>5. NothingLeft'
  BY DEF NothingLeft
<1>6. OpensWindows' /\ OpenOfLast'
  BY <1>1 DEF OpensWindows, AboutWindows, OpenOfLast
<1>. QED
  BY <1>4, <1>5, <1>6

\* The process going down.
LEMMA HaltKeeps ==
  ASSUME MatchInv, Halt
  PROVE  Matching'
<1>. USE DEF MatchInv, Matching
<1>1. pc' = "down" /\ todo' = <<>> /\ UNCHANGED <<spool, wire, open, log>>
  BY DEF Halt, spoolVars, coreVars
<1>2. WillMatch' /\ NothingLeft' /\ OpenOfLast'
  BY <1>1 DEF WillMatch, NothingLeft, OpenOfLast
<1>3. OpensWindows'
  BY <1>1 DEF OpensWindows, AboutWindows
<1>. QED
  BY <1>2, <1>3

\* A repair drops nothing of the current run, or begins a new one.
LEMMA RepairKeeps ==
  ASSUME MatchInv, RepairRejected
  PROVE  Matching'
<1>. USE DEF MatchInv, ChainInv, TypeInv
<1>1. /\ spool' = WithoutRun(faultRun) /\ UNCHANGED <<windows, wire, coreVars>>
      /\ faultRun \in Nat /\ spool \in Seq(Batch)
  BY DEF RepairRejected, TypeOK
<1>2. Range(spool') \subseteq Range(spool)
  BY <1>1, WithoutRunType
<1>3. CASE faultRun = run
  <2>1. RestartRun
    BY <1>3 DEF RepairRejected
  <2>. QED
    BY <1>1, <1>2, <2>1, RestartKeeps
<1>4. CASE faultRun # run
  <2>1. UNCHANGED <<pc, todo, run, seq>>
    BY <1>4 DEF RepairRejected
  <2>2. ASSUME NEW i \in DOMAIN spool, spool[i].run = run
        PROVE  spool[i] \in Range(spool')
    <3>1. ~\A j \in DOMAIN spool : spool[j].run = faultRun
      BY <1>4, <2>2
    <3>2. PICK k \in DOMAIN spool :
              /\ spool[k].run # faultRun /\ \A j \in 1..(k - 1) : spool[j].run = faultRun
              /\ Len(spool') = Len(spool) - k + 1
              /\ \A j \in 1..Len(spool') : spool'[j] = spool[k + j - 1]
      BY <1>1, <3>1, WithoutRunType
    <3>3. DOMAIN spool = 1..Len(spool) /\ Len(spool) \in Nat
      BY <1>1, LenProperties
    <3>4. k <= i
      BY <1>4, <2>2, <3>2, <3>3
    <3>. DEFINE j == i - k + 1
    <3>5. j \in 1..Len(spool') /\ k + j - 1 = i
      BY <3>2, <3>3, <3>4
    <3>6. DOMAIN spool' = 1..Len(spool')
      <4>1. spool' \in Seq(Batch)
        BY <1>1, WithoutRunType
      <4>. QED
        BY <4>1, LenProperties
    <3>. HIDE DEF j
    <3>. QED
      BY <3>2, <3>5, <3>6 DEF Range
  <2>3. \A b \in Range(spool) \ Range(spool') : b.run # run
    BY <2>2 DEF Range
  <2>. QED
    BY <1>1, <1>2, <2>1, <2>3, CutKeeps
<1>. QED
  BY <1>3, <1>4
-----------------------------------------------------------------------------
(* The steps of the worker and the core.                                   *)

\* What is popped was stored.
LEMMA PopMatches ==
  ASSUME MatchInv, Pop
  PROVE  Matching'
<1>. USE DEF MatchInv
<1>1. Range(spool) \subseteq Range(spool') \cup Range(log)
  BY PopKeeps
<1>2. UNCHANGED <<pc, run, seq, todo, windows, coreVars, wire>>
      /\ (spool' = spool \/ (spool # <<>> /\ spool' = Tail(spool)))
  BY DEF Pop, collectorVars
<1>3. Range(spool') \subseteq Range(spool)
  <2>1. CASE spool' = spool
    BY <2>1
  <2>2. CASE spool # <<>> /\ spool' = Tail(spool)
    <3>1. spool \in Seq(Batch)
      BY DEF ChainInv, TypeInv, TypeOK
    <3>2. /\ Len(spool) \in Nat /\ DOMAIN spool = 1..Len(spool)
          /\ DOMAIN spool' = 1..(Len(spool) - 1)
          /\ \A i \in 1..(Len(spool) - 1) : spool'[i] = spool[i + 1]
      BY <2>2, <3>1
    <3>3. \A i \in 1..(Len(spool) - 1) : i + 1 \in DOMAIN spool
      BY <3>2
    <3>. QED
      BY <3>2, <3>3 DEF Range
  <2>. QED
    BY <1>2, <2>1, <2>2
<1>. QED
  BY <1>1, <1>2, <1>3, CutKeeps

\* The worker sends the front.
LEMMA SendMatches ==
  ASSUME MatchInv, Send
  PROVE  Matching'
<1>1. UNCHANGED <<pc, run, seq, todo, windows, coreVars, spool>>
      /\ spool # <<>> /\ wire' = <<Head(spool)>>
  BY DEF Send, collectorVars, spoolVars
<1>2. spool \in Seq(Batch)
  BY DEF MatchInv, ChainInv, TypeInv, TypeOK
<1>3. Head(spool) \in Range(spool)
  <2>1. 1 \in DOMAIN spool /\ Head(spool) = spool[1]
    BY <1>1, <1>2
  <2>. QED
    BY <2>1 DEF Range
<1>4. Range(wire') \subseteq Range(spool)
  BY <1>1, <1>3 DEF Range
<1>. QED
  BY <1>1, <1>4, CutKeeps

\* The core stores the request, or only takes it.
LEMMA HandleMatches ==
  ASSUME MatchInv, Handle
  PROVE  Matching'
<1>. USE DEF MatchInv, Matching
<1>1. /\ wire # <<>> /\ wire' = <<>> /\ UNCHANGED <<pc, run, seq, todo, windows, spool>>
      /\ wire[1] \in Batch /\ Head(wire) = wire[1] /\ wire[1] \in Range(wire)
  <2>1. wire # <<>> /\ wire' = <<>> /\ UNCHANGED <<pc, run, seq, todo, windows, spool>>
    BY DEF Handle, collectorVars, spoolVars
  <2>2. wire \in Seq(Batch)
    BY DEF ChainInv, TypeInv, TypeOK
  <2>3. 1 \in DOMAIN wire /\ wire[1] \in Batch /\ Head(wire) = wire[1]
    BY <2>1, <2>2
  <2>. QED
    BY <2>1, <2>3 DEF Range
<1>2. Range(wire') = {}
  BY <1>1 DEF Range
<1>3. CASE Verdict(wire[1]) = "stored"
  <2>1. Store(wire[1])
    BY <1>1, <1>3 DEF Handle
  <2>2. NextFor(wire[1].run, wire[1].first)
    BY <1>1, <1>3, VerdictPlace
  <2>3. After(OpenThere, Coming)' = After(OpenThere, Coming)
    BY <1>1, <2>1, <2>2, StoreMatches
  <2>4. AboutWindows(wire[1].events)
    BY <1>1 DEF OpensWindows
  <2>5. OpenOfLast'
    BY <1>1, <2>1, <2>2, <2>4, StoreOpens
  <2>6. WillMatch' /\ NothingLeft'
    BY <1>1, <2>3 DEF WillMatch, NothingLeft
  <2>7. OpensWindows'
    BY <1>1, <1>2 DEF OpensWindows, AboutWindows
  <2>. QED
    BY <2>5, <2>6, <2>7
<1>4. CASE Verdict(wire[1]) # "stored"
  <2>1. UNCHANGED coreVars
    BY <1>1, <1>4 DEF Handle
  <2>. QED
    BY <1>1, <1>2, <2>1, CutKeeps
<1>. QED
  BY <1>3, <1>4
-----------------------------------------------------------------------------

\* Initially nothing runs and nothing is open.
LEMMA InitMatches == Init => MatchInv
<1>. SUFFICES ASSUME Init PROVE MatchInv
  OBVIOUS
<1>1. ChainInv
  BY InitTypes, InitChain DEF ChainInv
<1>2. pc = "down" /\ todo = <<>> /\ spool = <<>> /\ wire = <<>> /\ open = {}
  BY DEF Init
<1>3. WillMatch /\ NothingLeft /\ OpensWindows /\ OpenOfLast
  BY <1>2 DEF WillMatch, NothingLeft, OpensWindows, OpenOfLast, AboutWindows, Range
<1>. QED
  BY <1>1, <1>3 DEF MatchInv, Matching

\* Every step keeps what is coming, and what the core has, matched to what is open.
LEMMA NextMatches == MatchInv /\ [Next]_vars => MatchInv'
<1>. SUFFICES ASSUME MatchInv, [Next]_vars PROVE Matching'
  BY NextTypes, NextChain DEF MatchInv, ChainInv
<1>1. TypeInv
  BY DEF MatchInv, ChainInv
<1>2. CASE Start
  BY <1>2, StartKeeps
<1>3. CASE FirstPublish
  <2>1. lastNow \in Time /\ Publish(lastNow, TRUE) /\ pc = "publish"
        /\ UNCHANGED <<run, seq, spoolVars, wire, coreVars>>
    BY <1>1, <1>3 DEF FirstPublish, TypeInv, TypeOK
  <2>. QED
    BY <2>1, PublishKeeps
<1>4. CASE Observe
  <2>1. PICK t \in Readings : Publish(Later(lastNow, t), FALSE)
    BY <1>4 DEF Observe
  <2>2. Later(lastNow, t) \in Time
    BY <1>1, ReadingsType DEF Later, TypeInv, TypeOK
  <2>3. pc = "loop" /\ UNCHANGED <<run, seq, spoolVars, wire, coreVars>>
    BY <1>4 DEF Observe
  <2>. QED
    BY <2>1, <2>2, <2>3, PublishKeeps
<1>5. CASE ReportInputOverflow
  <2>1. /\ lastNow \in Time /\ Queue(<<Note("input_gap", lastNow, lastNow)>>, "loop")
        /\ pc = "loop" /\ windows' = windows
        /\ UNCHANGED <<run, seq, spoolVars, wire, coreVars>>
    BY <1>1, <1>5 DEF ReportInputOverflow, TypeInv, TypeOK
  <2>. QED
    BY <2>1, NoteKeeps
<1>6. CASE SealRun
  <2>1. /\ lastNow \in Time /\ Queue(<<Note("interval", lastNow, lastNow)>>, "rotate")
        /\ pc = "loop" /\ windows' = windows
        /\ UNCHANGED <<run, seq, spoolVars, wire, coreVars>>
    BY <1>1, <1>6 DEF SealRun, TypeInv, TypeOK
  <2>. QED
    BY <2>1, NoteKeeps
<1>7. CASE RotateRun
  BY <1>7, RotateKeeps
<1>8. CASE Stop
  BY <1>8, StopKeeps
<1>9. CASE Push \/ PushSnapshot
  BY <1>9, PushKeeps
<1>10. CASE Overflow
  BY <1>10, OverflowKeeps
<1>11. CASE RepairUnreadable
  <2>1. RestartRun /\ spool' = <<>> /\ UNCHANGED <<windows, wire, coreVars>>
    BY <1>11 DEF RepairUnreadable
  <2>2. Range(spool') \subseteq Range(spool)
    BY <2>1 DEF Range
  <2>. QED
    BY <2>1, <2>2, RestartKeeps
<1>12. CASE RepairRejected
  BY <1>12, RepairKeeps
<1>13. CASE Exit \/ Crash \/ StopUnreadable
  BY <1>13, HaltKeeps DEF Exit, Crash, StopUnreadable
<1>14. CASE Send
  BY <1>14, SendMatches
<1>15. CASE Pop
  BY <1>15, PopMatches
<1>16. CASE Ingest \/ IngestUnanswered
  BY <1>16, HandleMatches DEF Ingest, IngestUnanswered
<1>17. CASE Decay \/ ReportUnreadable \/ ReportRejected \/ Lose \/ UNCHANGED vars
  <2>1. /\ UNCHANGED <<pc, run, seq, todo, windows, coreVars, spool>>
        /\ wire' = wire \/ wire' = <<>>
    BY <1>17 DEF Decay, ReportUnreadable, ReportRejected, Lose, vars, collectorVars, spoolVars
  <2>2. Range(wire') \subseteq Range(wire)
    BY <2>1 DEF Range
  <2>. QED
    BY <2>1, <2>2, CutKeeps
<1>. QED
  BY <1>2, <1>3, <1>4, <1>5, <1>6, <1>7, <1>8, <1>9, <1>10, <1>11, <1>12, <1>13, <1>14,
     <1>15, <1>16, <1>17
  DEF Next, Collector, Worker, Core

\* With nothing coming, what the core has open is what the collector has open.
LEMMA MatchedIsCaughtUp == MatchInv => CaughtUp
<1>. SUFFICES ASSUME MatchInv, pc = "loop", spool = <<>>, wire = <<>>
              PROVE  IF Known(run) THEN open = {run} \X windows ELSE windows = {}
  BY DEF CaughtUp
<1>. USE DEF MatchInv, Matching, ChainInv, TypeInv
<1>1. todo = <<>> /\ After(OpenThere, Coming) = windows
  BY DEF NothingLeft, WillMatch
<1>2. Coming = {}
  <2>1. InSpool = {}
    BY DEF InSpool, Range
  <2>. QED
    BY <1>1, <2>1, NumberedNothing DEF Coming
<1>3. OpenThere = windows
  BY <1>1, <1>2 DEF After, OpenThere
<1>4. CASE ~Known(run)
  BY <1>3, <1>4 DEF OpenThere
<1>5. CASE Known(run)
  <2>1. \A w \in Windows : w \in windows <=> <<run, w>> \in open
    BY <1>3, <1>5 DEF OpenThere
  <2>2. ASSUME NEW p \in open PROVE p[1] = run /\ p[2] \in Windows
    <3>1. p[2] \in Windows /\ log # <<>> /\ p[1] = log[Len(log)].run
      BY DEF OpenOfLast
    <3>2. run \in Nat /\ \A i \in DOMAIN runs : runs[i].run <= run
      BY ChainEnds
    <3>3. log[Len(log)].run = run
      BY <1>5, <3>2, NewestStored
    <3>. QED
      BY <3>1, <3>3
  <2>3. open \subseteq Nat \X (Windows \cup {NoWindow}) /\ windows \subseteq Windows
    BY DEF TypeOK
  <2>4. \A p \in open : p = <<p[1], p[2]>>
    BY <2>3
  <2>5. \A p \in open : p = <<run, p[2]>> /\ p[2] \in windows
    BY <2>1, <2>2, <2>4
  <2>6. \A w \in windows : <<run, w>> \in open
    BY <2>1, <2>3
  <2>7. open = {run} \X windows
    BY <2>5, <2>6
  <2>. QED
    BY <1>5, <2>7
<1>. QED
  BY <1>4, <1>5

\* When everything queued has arrived, the core has open exactly what the collector has
\* open, after every overflow, repair, lost answer, crash and rotation.
THEOREM AlwaysCaughtUp == Spec => []CaughtUp
  BY InitMatches, NextMatches, MatchedIsCaughtUp, PTL DEF Spec

-----------------------------------------------------------------------------
(* Time.  No event of a run is older than the one before it, unless the     *)
(* machine slept: a sleep closes windows at the last time before it.  While *)
(* the clock is never set back that holds from one run to the next, too.    *)

Awake == "sleep" \notin Occurring
SteadyClock == "clock" \notin Occurring

\* Batch a is before batch c in time.
Precedes(a, c) == IF a.run = c.run THEN a.first < c.first ELSE SteadyClock /\ a.run < c.run
NoLater(a, c) == \A i \in DOMAIN a.events, j \in DOMAIN c.events : a.events[i].at <= c.events[j].at
Ascends(b) == \A i, j \in DOMAIN b.events : i <= j => b.events[i].at <= b.events[j].at
Apart(a, c) == a.run = c.run => a = c \/ LastSequence(a) < c.first \/ LastSequence(c) < a.first

\* The batches of B share no number, and their times go up.
Timeline(B) ==
  /\ \A b \in B : Ascends(b)
  /\ \A a, c \in B : Apart(a, c) /\ (Precedes(a, c) => NoLater(a, c))

\* The batches of B were made by run r and the runs before it, up to time t.
AllBy(b, t) == \A i \in DOMAIN b.events : b.events[i].at <= t
Past(B, r, t) == \A b \in B : b.run <= r /\ (b.run = r \/ SteadyClock => AllBy(b, t))

\* Those of run r have numbers below s.
Placed(B, r, s) == \A b \in B : b.run = r => LastSequence(b) < s

AllAt(es, t) == \A i \in DOMAIN es : es[i].at = t

TimesInv ==
  /\ Range(wire) \subseteq Somewhere
  /\ Timeline(Somewhere) /\ Past(Somewhere, run, lastNow)
  /\ pc # "down" => Placed(Somewhere, run, seq)
  /\ AllAt(todo, lastNow)
  /\ SteadyClock => lastNow <= clock

\* Every batch there is, is a batch.
LEMMA SomewhereType == TypeOK => Somewhere \subseteq Batch
<1>. SUFFICES ASSUME TypeOK PROVE Somewhere \subseteq Batch
  OBVIOUS
<1>1. log \in Seq(Batch) /\ spool \in Seq(Batch) /\ lost \subseteq Batch
  BY DEF TypeOK
<1>2. Range(log) \subseteq Batch /\ Range(spool) \subseteq Batch
  <2>1. \A i \in DOMAIN log : log[i] \in Batch
    BY <1>1
  <2>2. \A i \in DOMAIN spool : spool[i] \in Batch
    BY <1>1
  <2>. QED
    BY <2>1, <2>2 DEF Range
<1>. QED
  BY <1>1, <1>2 DEF Somewhere

\* A batch of the present goes behind the others.
LEMMA TimelineAdds ==
  ASSUME NEW B \in SUBSET Batch, NEW r \in Nat, NEW t \in Nat, NEW c \in Batch,
         Timeline(B), Past(B, r, t), Placed(B, r, c.first), c.run = r, AllAt(c.events, t)
  PROVE  Timeline(B \cup {c}) /\ Past(B \cup {c}, r, t)
<1>1. /\ c.run \in Nat /\ c.first \in Nat /\ LastSequence(c) \in Nat /\ c.first <= LastSequence(c)
      /\ \A i \in DOMAIN c.events : c.events[i].at = t
  BY BatchType DEF AllAt
<1>2. \A b \in B : /\ b.run \in Nat /\ b.first \in Nat /\ LastSequence(b) \in Nat
                   /\ b.first <= LastSequence(b)
                   /\ \A i \in DOMAIN b.events : b.events[i].at \in Nat
  <2>. SUFFICES ASSUME NEW b \in B
                PROVE  /\ b.run \in Nat /\ b.first \in Nat /\ LastSequence(b) \in Nat
                       /\ b.first <= LastSequence(b)
                       /\ \A i \in DOMAIN b.events : b.events[i].at \in Nat
    OBVIOUS
  <2>1. \A i \in DOMAIN b.events : b.events[i] \in Event
    BY BatchType
  <2>2. \A i \in DOMAIN b.events : b.events[i].at \in Nat
    BY <2>1 DEF Event, Time
  <2>. QED
    BY <2>2, BatchType
<1>3. Ascends(c) /\ AllBy(c, t)
  BY <1>1 DEF Ascends, AllBy
<1>4. ASSUME NEW b \in B
      PROVE  Apart(b, c) /\ Apart(c, b) /\ ~Precedes(c, b) /\ (Precedes(b, c) => NoLater(b, c))
  <2>1. b.run <= r /\ (b.run = r => LastSequence(b) < c.first)
    BY DEF Past, Placed
  <2>2. Apart(b, c) /\ Apart(c, b)
    BY <2>1 DEF Apart
  <2>3. ~Precedes(c, b)
    BY <1>1, <1>2, <2>1 DEF Precedes
  <2>4. ASSUME Precedes(b, c) PROVE NoLater(b, c)
    <3>1. AllBy(b, t)
      BY <2>4 DEF Precedes, Past
    <3>. QED
      BY <1>1, <3>1 DEF AllBy, NoLater
  <2>. QED
    BY <2>2, <2>3, <2>4
<1>5. Apart(c, c) /\ ~Precedes(c, c)
  BY <1>1 DEF Apart, Precedes
<1>6. Timeline(B \cup {c})
  BY <1>3, <1>4, <1>5 DEF Timeline
<1>7. Past(B \cup {c}, r, t)
  BY <1>1, <1>3 DEF Past
<1>. QED
  BY <1>6, <1>7

\* A batch that is missing takes nothing from what is said of the others.
LEMMA PastGoesOn ==
  ASSUME NEW B \in SUBSET Batch, NEW r \in Nat, NEW t \in Nat, NEW u \in Nat, Past(B, r, t),
         SteadyClock => t <= u
  PROVE  Past(B, r + 1, u) /\ (t <= u => Past(B, r, u)) /\ \A s : Placed(B, r + 1, s)
<1>1. \A b \in B : b.run \in Nat /\ \A i \in DOMAIN b.events : b.events[i].at \in Nat
  <2>1. \A b \in B : b.run \in Nat /\ \A i \in DOMAIN b.events : b.events[i] \in Event
    BY BatchType
  <2>. QED
    BY <2>1 DEF Event, Time
<1>2. \A b \in B : b.run <= r /\ b.run # r + 1
  BY <1>1 DEF Past
<1>3. \A b \in B : AllBy(b, t) /\ t <= u => AllBy(b, u)
  BY <1>1 DEF AllBy
<1>4. \A b \in B : b.run <= r + 1
  BY <1>1, <1>2
<1>. QED
  BY <1>2, <1>3, <1>4 DEF Past, Placed

-----------------------------------------------------------------------------
(* What a step does to the batches.                                        *)

\* A step numbers the next batch, ends the process, begins a run, or leaves the batches,
\* the run and its numbers as they are.
LEMMA BatchesStep ==
  ASSUME ChainInv, [Next]_vars, Range(wire) \subseteq Somewhere
  PROVE  /\ Range(wire') \subseteq Somewhere'
         /\ \/ /\ Push \/ PushSnapshot
               /\ todo # <<>> /\ Somewhere' = Somewhere \cup {NextBatch}
            \/ Halt /\ pc # "down" /\ Somewhere' = Somewhere \cup Unqueued
            \/ /\ run' = run + 1 /\ seq' = 1
               /\ Somewhere' = Somewhere \/ (pc # "down" /\ Somewhere' = Somewhere \cup Unqueued)
            \/ run' = run /\ seq' = seq /\ Somewhere' = Somewhere /\ (pc' = "down" <=> pc = "down")
<1>. USE DEF ChainInv, TypeInv
<1>1. CASE UNCHANGED vars
  <2>1. run' = run /\ seq' = seq /\ Somewhere' = Somewhere /\ pc' = pc /\ wire' = wire
    BY <1>1 DEF vars, collectorVars, spoolVars, coreVars, Somewhere
  <2>. QED
    BY <2>1
<1>2. CASE Start \/ RotateRun
  <2>1. run' = run + 1 /\ seq' = 1 /\ wire' = wire /\ log' = log
        /\ ((spool' = spool /\ lost' = lost) \/ (spool' = <<>> /\ lost' = lost \cup Range(spool)))
    BY <1>2 DEF Start, RotateRun, coreVars, spoolVars
  <2>2. Range(<<>>) = {}
    BY DEF Range
  <2>3. Somewhere' = Somewhere
    BY <2>1, <2>2 DEF Somewhere
  <2>. QED
    BY <2>1, <2>3
<1>3. CASE Overflow
  <2>1. /\ run' = run + 1 /\ seq' = 1 /\ wire' = wire /\ log' = log /\ pc = "push"
        /\ spool' = <<>> /\ lost' = lost \cup Range(spool) \cup Unqueued
    BY <1>3 DEF Overflow, coreVars
  <2>2. Range(<<>>) = {}
    BY DEF Range
  <2>3. Somewhere' = Somewhere \cup Unqueued
    BY <2>1, <2>2 DEF Somewhere
  <2>. QED
    BY <2>1, <2>3
<1>4. CASE RepairUnreadable
  <2>1. /\ run' = run + 1 /\ seq' = 1 /\ wire' = wire /\ log' = log
        /\ spool' = <<>> /\ lost' = lost \cup Range(spool)
    BY <1>4 DEF RepairUnreadable, RestartRun, coreVars
  <2>2. Range(<<>>) = {}
    BY DEF Range
  <2>3. Somewhere' = Somewhere
    BY <2>1, <2>2 DEF Somewhere
  <2>. QED
    BY <2>1, <2>3
<1>5. CASE RepairRejected
  <2>1. /\ wire' = wire /\ log' = log /\ pc = "loop"
        /\ spool' = WithoutRun(faultRun) /\ lost' = lost \cup (Range(spool) \ Range(spool'))
        /\ \/ run' = run + 1 /\ seq' = 1
           \/ run' = run /\ seq' = seq /\ pc' = pc
    BY <1>5 DEF RepairRejected, RestartRun, coreVars
  <2>2. Range(spool') \subseteq Range(spool)
    BY <2>1, WithoutRunType DEF TypeOK
  <2>3. Somewhere' = Somewhere
    BY <2>1, <2>2 DEF Somewhere
  <2>. QED
    BY <2>1, <2>3
<1>6. CASE FirstPublish \/ Observe \/ ReportInputOverflow \/ SealRun \/ Stop
  <2>1. run' = run /\ seq' = seq /\ wire' = wire /\ log' = log /\ spool' = spool /\ lost' = lost
        /\ pc # "down"
    BY <1>6 DEF FirstPublish, Observe, ReportInputOverflow, SealRun, Stop, coreVars, spoolVars
  <2>2. \A es, next : Queue(es, next) => pc' \in {next, "push"}
    BY DEF Queue
  <2>3. pc' # "down"
    <3>1. CASE FirstPublish \/ Observe
      <4>1. PICK now, fresh : Publish(now, fresh)
        BY <3>1 DEF FirstPublish, Observe
      <4>2. pc' \in {"loop", "push"}
        BY <2>2, <4>1 DEF Publish
      <4>. QED
        BY <4>2
    <3>2. CASE ReportInputOverflow \/ SealRun
      <4>1. pc' \in {"loop", "rotate", "push"}
        BY <2>2, <3>2 DEF ReportInputOverflow, SealRun
      <4>. QED
        BY <4>1
    <3>3. CASE Stop
      <4>1. \E es : Queue(es, "drain")
        BY <3>3 DEF Stop
      <4>2. pc' \in {"drain", "push"}
        BY <2>2, <4>1
      <4>. QED
        BY <4>2
    <3>. QED
      BY <1>6, <3>1, <3>2, <3>3
  <2>. QED
    BY <2>1, <2>3 DEF Somewhere
<1>7. CASE Push \/ PushSnapshot
  <2>1. todo # <<>>
    BY <1>7 DEF Busy, Push, PushSnapshot
  <2>2. lost' = lost /\ log' = log /\ Range(spool') = Range(spool) \cup {NextBatch}
    BY <1>7, <2>1, PushAdds
  <2>3. wire' = wire
    BY <1>7 DEF Push, PushSnapshot
  <2>4. Somewhere' = Somewhere \cup {NextBatch}
    BY <2>2 DEF Somewhere
  <2>. QED
    BY <1>7, <2>1, <2>3, <2>4
<1>8. CASE Exit \/ Crash \/ StopUnreadable
  <2>1. Halt /\ pc # "down"
    BY <1>8 DEF Exit, Crash, StopUnreadable
  <2>2. wire' = wire /\ log' = log /\ spool' = spool /\ lost' = lost \cup Unqueued
    BY <2>1 DEF Halt, spoolVars, coreVars
  <2>3. Somewhere' = Somewhere \cup Unqueued
    BY <2>2 DEF Somewhere
  <2>. QED
    BY <2>1, <2>2, <2>3
<1>9. CASE Decay \/ ReportUnreadable \/ ReportRejected \/ Lose
  <2>1. /\ run' = run /\ seq' = seq /\ log' = log /\ spool' = spool /\ lost' = lost
        /\ pc' = pc /\ (wire' = wire \/ wire' = <<>>)
    BY <1>9 DEF Decay, ReportUnreadable, ReportRejected, Lose, collectorVars, coreVars, spoolVars
  <2>. QED
    BY <2>1 DEF Somewhere, Range
<1>10. CASE Send
  <2>1. /\ run' = run /\ seq' = seq /\ log' = log /\ spool' = spool /\ lost' = lost
        /\ pc' = pc /\ wire' = <<Head(spool)>> /\ spool # <<>>
    BY <1>10 DEF Send, collectorVars, coreVars, spoolVars
  <2>2. Head(spool) \in Range(spool)
    <3>1. 1 \in DOMAIN spool /\ Head(spool) = spool[1]
      BY <2>1 DEF TypeOK
    <3>. QED
      BY <3>1 DEF Range
  <2>. QED
    BY <2>1, <2>2 DEF Somewhere, Range
<1>11. CASE Pop
  <2>1. UNCHANGED <<run, seq, lost, log>> /\ Range(spool) \subseteq Range(spool') \cup Range(log)
    BY <1>11, PopKeeps
  <2>2. pc' = pc /\ wire' = wire
    BY <1>11 DEF Pop, collectorVars
  <2>3. Range(spool') \subseteq Range(spool)
    <3>1. CASE spool' = spool
      BY <3>1
    <3>2. CASE spool # <<>> /\ spool' = Tail(spool)
      <4>1. /\ spool \in Seq(Batch) /\ Len(spool) \in Nat /\ DOMAIN spool = 1..Len(spool)
            /\ DOMAIN spool' = 1..(Len(spool) - 1)
            /\ \A i \in 1..(Len(spool) - 1) : spool'[i] = spool[i + 1]
        BY <3>2 DEF TypeOK
      <4>2. \A i \in 1..(Len(spool) - 1) : i + 1 \in DOMAIN spool
        BY <4>1
      <4>. QED
        BY <4>1, <4>2 DEF Range
    <3>. QED
      BY <1>11, <3>1, <3>2 DEF Pop
  <2>4. Somewhere' = Somewhere
    BY <2>1, <2>3 DEF Somewhere
  <2>. QED
    BY <2>1, <2>2, <2>4
<1>12. CASE Ingest \/ IngestUnanswered
  <2>1. Handle
    BY <1>12 DEF Ingest, IngestUnanswered
  <2>2. /\ run' = run /\ seq' = seq /\ spool' = spool /\ lost' = lost /\ pc' = pc
        /\ wire # <<>> /\ wire' = <<>> /\ (log' = log \/ log' = Append(log, Head(wire)))
    BY <2>1 DEF Handle, collectorVars, spoolVars, Store, coreVars
  <2>3. Range(log') = Range(log) \/ Range(log') = Range(log) \cup {Head(wire)}
    <3>1. log \in Seq(Batch) /\ Head(wire) \in Batch
      <4>1. wire[1] \in Batch /\ Head(wire) = wire[1]
        BY <2>2, ChainEnds DEF TypeOK
      <4>. QED
        BY <4>1 DEF TypeOK
    <3>2. CASE log' = Append(log, Head(wire))
      <4>1. /\ Len(log) \in Nat /\ DOMAIN log = 1..Len(log) /\ DOMAIN log' = 1..(Len(log) + 1)
            /\ log'[Len(log) + 1] = Head(wire) /\ \A i \in 1..Len(log) : log'[i] = log[i]
        BY <3>1, <3>2, AppendProperties
      <4>2. \A i \in 1..(Len(log) + 1) : i \in 1..Len(log) \/ i = Len(log) + 1
        BY <4>1
      <4>3. 1..Len(log) \subseteq 1..(Len(log) + 1) /\ Len(log) + 1 \in 1..(Len(log) + 1)
        BY <4>1
      <4>. QED
        BY <4>1, <4>2, <4>3 DEF Range
    <3>. QED
      BY <2>2, <3>2
  <2>4. Head(wire) \in Range(wire)
    <3>1. 1 \in DOMAIN wire /\ Head(wire) = wire[1]
      BY <2>2 DEF TypeOK
    <3>. QED
      BY <3>1 DEF Range
  <2>5. Somewhere' = Somewhere /\ Range(wire') = {}
    BY <2>2, <2>3, <2>4 DEF Somewhere, Range
  <2>. QED
    BY <2>2, <2>5
<1>. QED
  BY <1>1, <1>2, <1>3, <1>4, <1>5, <1>6, <1>7, <1>8, <1>9, <1>10, <1>11, <1>12
  DEF Next, Collector, Worker, Core

-----------------------------------------------------------------------------
(* The times of what is queued.                                            *)

\* The events of EventsFor are of different windows, and of one time.
LEMMA EventsForDistinct ==
  ASSUME NEW kind \in Kinds, NEW ws \in SUBSET Windows, NEW t \in Time,
         NEW s \in EventsFor(kind, ws, t)
  PROVE  /\ \A i, j \in DOMAIN s : i # j => s[i].win # s[j].win
         /\ AllAt(s, t)
<1>1. IsFiniteSet(ws)
  BY ConstantsOK, FS_Subset
<1>. DEFINE n == Cardinality(ws)
<1>2. n \in Nat
  BY <1>1, FS_CardinalityType
<1>3. PICK f \in SetToSeqs(ws) : s = [i \in DOMAIN f |-> WindowEvent(kind, f[i], t)]
  BY DEF EventsFor
<1>. HIDE DEF n
<1>4. f \in [1..n -> ws] /\ \A i, j \in 1..n : i # j => f[i] # f[j]
  BY DEF SetToSeqs, n
<1>5. DOMAIN s = 1..n /\ \A i \in 1..n : s[i] = WindowEvent(kind, f[i], t)
  BY <1>3, <1>4
<1>6. \A i \in 1..n : s[i].win = f[i] /\ s[i].at = t
  BY <1>5 DEF WindowEvent
<1>. QED
  BY <1>4, <1>5, <1>6 DEF AllAt

\* Events of one time behind others of that time
LEMMA AtConcat ==
  ASSUME NEW s \in Seq(Event), NEW u \in Seq(Event), NEW t, AllAt(s, t), AllAt(u, t)
  PROVE  s \o u \in Seq(Event) /\ AllAt(s \o u, t)
<1>. DEFINE z == s \o u
<1>1. /\ Len(s) \in Nat /\ Len(u) \in Nat /\ DOMAIN s = 1..Len(s) /\ DOMAIN u = 1..Len(u)
      /\ z \in Seq(Event) /\ Len(z) = Len(s) + Len(u)
      /\ \A i \in 1..(Len(s) + Len(u)) : z[i] = IF i <= Len(s) THEN s[i] ELSE u[i - Len(s)]
  BY LenProperties, ConcatProperties
<1>2. DOMAIN z = 1..(Len(s) + Len(u))
  BY <1>1, LenProperties
<1>. HIDE DEF z
<1>3. ASSUME NEW i \in DOMAIN z PROVE z[i].at = t
  <2>1. CASE i <= Len(s)
    <3>1. i \in DOMAIN s /\ z[i] = s[i]
      BY <1>1, <1>2, <2>1
    <3>. QED
      BY <3>1 DEF AllAt
  <2>2. CASE Len(s) < i
    <3>1. i - Len(s) \in DOMAIN u /\ z[i] = u[i - Len(s)]
      BY <1>1, <1>2, <2>2
    <3>. QED
      BY <3>1 DEF AllAt
  <2>. QED
    BY <1>1, <1>2, <2>1, <2>2
<1>. QED
  BY <1>1, <1>3 DEF AllAt, z

\* A note is one event of its time.
LEMMA NoteAt ==
  ASSUME NEW kind \in {"interval", "gap", "input_gap", "bad"}, NEW s \in Time, NEW t \in Time
  PROVE  <<Note(kind, s, t)>> \in Seq(Event) /\ AllAt(<<Note(kind, s, t)>>, t)
<1>1. <<Note(kind, s, t)>> \in Seq(Event)
  BY NoteIsNeutral
<1>2. Note(kind, s, t).at = t
  BY DEF Note
<1>. DEFINE e == Note(kind, s, t)
<1>3. e.at = t
  BY <1>2
<1>. HIDE DEF e
<1>4. \A i \in DOMAIN <<e>> : <<e>>[i] = e
  OBVIOUS
<1>. QED
  BY <1>1, <1>3, <1>4 DEF AllAt, e

\* The parts of what a publication queues: what is closed, notes, what has changed and what
\* is opened.
QueuedParts(now, gone, new, same, then, closed, notes, updated, opened) ==
  /\ gone \in SUBSET windows /\ new \in SUBSET Windows /\ same \in SUBSET windows /\ then \in Time
  /\ windows' = (windows \ gone) \cup new
  /\ new \cap (windows \ gone) = {} /\ same \cap gone = {}
  /\ Awake => then = now
  /\ closed \in EventsFor("closed", gone, then)
  /\ notes \in Seq(Event) /\ AllAt(notes, now)
  /\ \A i \in DOMAIN notes : notes[i].kind \notin {"opened", "closed", "updated"}
  /\ updated \in EventsFor("updated", same, now)
  /\ opened \in EventsFor("opened", new, now)
  /\ \/ todo' = ((closed \o notes) \o updated) \o opened
     \/ todo' = ((notes \o closed) \o updated) \o opened

\* A publication queues these parts.
LEMMA PublishParts ==
  ASSUME TypeInv, NEW now \in Time, NEW fresh \in BOOLEAN, Publish(now, fresh)
  PROVE  \E gone, new, same, then, closed, notes, updated, opened :
           QueuedParts(now, gone, new, same, then, closed, notes, updated, opened)
<1>. USE DEF TypeInv
<1>1. PICK shown \in SUBSET Windows, how \in {"steady", "sleep", "discontinuity"} :
        /\ windows' = shown /\ (how = "sleep" => "sleep" \in Occurring)
        /\ \E notes \in Notes(shown, how, now, fresh),
              closed \in EventsFor("closed", Closed(shown, how), ClosedAt(how, now)),
              updated \in UNION {EventsFor("updated", ws, now) : ws \in Updated(shown, how)},
              opened \in EventsFor("opened", Opened(shown, how), now) :
             Queue(IF ClosedAt(how, now) < now THEN closed \o notes \o updated \o opened
                                               ELSE notes \o closed \o updated \o opened, "loop")
  BY DEF Publish
<1>2. PICK notes \in Notes(shown, how, now, fresh),
           closed \in EventsFor("closed", Closed(shown, how), ClosedAt(how, now)),
           updated \in UNION {EventsFor("updated", ws, now) : ws \in Updated(shown, how)},
           opened \in EventsFor("opened", Opened(shown, how), now) :
          Queue(IF ClosedAt(how, now) < now THEN closed \o notes \o updated \o opened
                                            ELSE notes \o closed \o updated \o opened, "loop")
  BY <1>1
<1>3. \/ todo' = ((closed \o notes) \o updated) \o opened
      \/ todo' = ((notes \o closed) \o updated) \o opened
  BY <1>2 DEF Queue
<1>4. PICK same \in Updated(shown, how) : updated \in EventsFor("updated", same, now)
  BY <1>2
<1>5. notes \in Seq(Event) /\ AllAt(notes, now)
      /\ \A i \in DOMAIN notes : notes[i].kind \notin {"opened", "closed", "updated"}
  <2>1. \/ notes = <<>> \/ notes = <<Note("interval", now, now)>> \/ notes = <<Note("bad", now, now)>>
    BY <1>2 DEF Notes
  <2>2. CASE notes = <<>>
    BY <2>2 DEF AllAt
  <2>3. \A kind \in {"interval", "bad"} :
           \A i \in DOMAIN <<Note(kind, now, now)>> : <<Note(kind, now, now)>>[i].kind = kind
    BY DEF Note
  <2>4. CASE notes = <<Note("interval", now, now)>>
    <3>1. \A i \in DOMAIN notes : notes[i].kind = "interval"
      BY <2>3, <2>4
    <3>. QED
      BY <2>4, <3>1, NoteAt
  <2>5. CASE notes = <<Note("bad", now, now)>>
    <3>1. \A i \in DOMAIN notes : notes[i].kind = "bad"
      BY <2>3, <2>5
    <3>. QED
      BY <2>5, <3>1, NoteAt
  <2>. QED
    BY <2>1, <2>2, <2>4, <2>5
<1>. DEFINE gone == Closed(shown, how)
            new == Opened(shown, how)
            then == ClosedAt(how, now)
<1>6. /\ gone \in SUBSET windows /\ new \in SUBSET Windows /\ same \in SUBSET windows
      /\ then \in Time /\ (Awake => then = now)
  BY <1>1, <1>4 DEF TypeOK, Closed, Opened, ClosedAt, Updated, Awake
<1>7. windows' = (windows \ gone) \cup new /\ new \cap (windows \ gone) = {} /\ same \cap gone = {}
  BY <1>1, <1>4 DEF TypeOK, Closed, Opened, Updated
<1>8. closed \in EventsFor("closed", gone, then) /\ opened \in EventsFor("opened", new, now)
  BY <1>2
<1>. HIDE DEF gone, new, then
<1>9. QueuedParts(now, gone, new, same, then, closed, notes, updated, opened)
  BY <1>3, <1>4, <1>5, <1>6, <1>7, <1>8 DEF QueuedParts
<1>. QED
  BY <1>9

\* What a publication queues is of the time it is made at.
LEMMA PublishAt ==
  ASSUME TypeInv, Awake, NEW now \in Time, NEW fresh \in BOOLEAN, Publish(now, fresh)
  PROVE  AllAt(todo', now)
<1>1. PICK gone, new, same, then, closed, notes, updated, opened :
          QueuedParts(now, gone, new, same, then, closed, notes, updated, opened)
  BY PublishParts
<1>2. windows \in SUBSET Windows
  BY DEF TypeInv, TypeOK
<1>3. \A kind \in {"closed", "updated", "opened"} : kind \in Kinds
  BY DEF Kinds
<1>4. closed \in Seq(Event) /\ updated \in Seq(Event) /\ opened \in Seq(Event)
  BY <1>1, <1>2, <1>3, EventsForType DEF QueuedParts
<1>5. AllAt(closed, now) /\ AllAt(updated, now) /\ AllAt(opened, now)
  BY <1>1, <1>2, <1>3, EventsForDistinct DEF QueuedParts
<1>6. ASSUME NEW s \in Seq(Event), AllAt(s, now) PROVE AllAt((s \o updated) \o opened, now)
  <2>1. s \o updated \in Seq(Event) /\ AllAt(s \o updated, now)
    BY <1>4, <1>5, <1>6, AtConcat
  <2>. QED
    BY <1>4, <1>5, <2>1, AtConcat
<1>7. closed \o notes \in Seq(Event) /\ AllAt(closed \o notes, now)
      /\ notes \o closed \in Seq(Event) /\ AllAt(notes \o closed, now)
  BY <1>1, <1>4, <1>5, AtConcat DEF QueuedParts
<1>. QED
  BY <1>1, <1>6, <1>7 DEF QueuedParts

\* What the loop has to queue is of its own time, which goes on, in a run always and while the
\* clock is not set back from run to run.
LEMMA TodoStep ==
  ASSUME ChainInv, Awake, AllAt(todo, lastNow), SteadyClock => lastNow <= clock, [Next]_vars
  PROVE  /\ AllAt(todo', lastNow')
         /\ SteadyClock => lastNow' <= clock' /\ lastNow <= lastNow'
         /\ run' = run + 1 \/ lastNow <= lastNow'
<1>. USE DEF ChainInv, TypeInv
<1>1. lastNow \in Time /\ clock \in Time /\ todo \in Seq(Event) /\ windows \in SUBSET Windows
      /\ Time \subseteq Nat
  BY DEF TypeOK, Time
<1>2. /\ \A t \in Readings : t \in Time /\ (SteadyClock => clock <= t)
  <2>1. Readings \subseteq Time
    BY ReadingsType
  <2>. QED
    BY <2>1 DEF Readings, SteadyClock
<1>20. /\ lastNow \in Nat /\ clock \in Nat
       /\ \A t \in Readings : t \in Nat /\ (SteadyClock => lastNow <= t)
  <2>1. \A a, b, t \in Nat : a <= b /\ b <= t => a <= t
    OBVIOUS
  <2>2. lastNow \in Nat /\ clock \in Nat /\ \A t \in Readings : t \in Nat
    BY <1>1, <1>2
  <2>3. \A t \in Readings : SteadyClock => lastNow <= clock /\ clock <= t
    BY <1>2
  <2>. QED
    BY <2>1, <2>2, <2>3
<1>21. /\ \A t \in Readings : Later(lastNow, t) \in Time /\ Later(t, lastNow) \in Time
       /\ \A t \in Readings : lastNow <= Later(lastNow, t) /\ lastNow <= Later(t, lastNow)
       /\ \A t \in Readings : SteadyClock => Later(lastNow, t) <= t /\ Later(t, lastNow) <= t
  <2>. SUFFICES ASSUME NEW t \in Readings
                PROVE  /\ Later(lastNow, t) \in Time /\ Later(t, lastNow) \in Time
                       /\ lastNow <= Later(lastNow, t) /\ lastNow <= Later(t, lastNow)
                       /\ SteadyClock => Later(lastNow, t) <= t /\ Later(t, lastNow) <= t
    OBVIOUS
  <2>1. lastNow \in Time /\ t \in Time /\ lastNow \in Nat /\ t \in Nat /\ (SteadyClock => lastNow <= t)
    BY <1>1, <1>2, <1>20
  <2>2. Later(lastNow, t) = lastNow \/ Later(lastNow, t) = t
    BY DEF Later
  <2>3. Later(t, lastNow) = lastNow \/ Later(t, lastNow) = t
    BY DEF Later
  <2>4. lastNow <= Later(lastNow, t) /\ lastNow <= Later(t, lastNow)
    BY <2>1 DEF Later
  <2>5. t <= t
    BY <2>1
  <2>. QED
    BY <2>1, <2>2, <2>3, <2>4, <2>5
<1>3. \A es, next : Queue(es, next) => todo' = es
  BY DEF Queue
<1>4. CASE UNCHANGED <<todo, lastNow, clock>>
  BY <1>1, <1>4
<1>5. CASE todo' = <<>> /\ UNCHANGED <<lastNow, clock>>
  BY <1>1, <1>5 DEF AllAt
<1>6. CASE Start
  <2>1. PICK t \in Readings : clock' = t /\ lastNow' = t
    BY <1>6 DEF Start
  <2>2. todo' = <<>> /\ run' = run + 1
    BY <1>6 DEF Start
  <2>. QED
    BY <1>1, <1>2, <1>20, <2>1, <2>2 DEF AllAt
<1>7. CASE FirstPublish
  <2>1. Publish(lastNow, TRUE) /\ clock' = clock
    BY <1>7 DEF FirstPublish
  <2>2. AllAt(todo', lastNow) /\ lastNow' = lastNow
    BY <1>1, <2>1, PublishAt, PublishType
  <2>. QED
    BY <1>1, <2>1, <2>2
<1>8. CASE Observe
  <2>1. PICK t \in Readings : clock' = t /\ Publish(Later(lastNow, t), FALSE)
    BY <1>8 DEF Observe
  <2>. DEFINE now == Later(lastNow, t)
  <2>2. now \in Time /\ lastNow <= now /\ (SteadyClock => now <= t)
    BY <1>21
  <2>. HIDE DEF now
  <2>3. Publish(now, FALSE)
    BY <2>1 DEF now
  <2>4. AllAt(todo', now) /\ lastNow' = now
    BY <2>2, <2>3, PublishAt, PublishType
  <2>. QED
    BY <1>1, <2>1, <2>2, <2>4
<1>9. CASE ReportInputOverflow
  <2>1. todo' = <<Note("input_gap", lastNow, lastNow)>> /\ lastNow' = lastNow /\ clock' = clock
    BY <1>3, <1>9 DEF ReportInputOverflow
  <2>. QED
    BY <1>1, <2>1, NoteAt
<1>10. CASE SealRun
  <2>1. todo' = <<Note("interval", lastNow, lastNow)>> /\ lastNow' = lastNow
    BY <1>3, <1>10 DEF SealRun
  <2>2. clock' \in Readings
    BY <1>10 DEF SealRun
  <2>3. AllAt(todo', lastNow')
    BY <1>1, <2>1, NoteAt
  <2>. QED
    BY <1>1, <1>2, <1>20, <2>1, <2>2, <2>3
<1>11. CASE RotateRun
  <2>1. todo' = <<Note("interval", clock, clock)>> /\ lastNow' = clock /\ clock' = clock
        /\ run' = run + 1
    BY <1>3, <1>11 DEF RotateRun
  <2>2. AllAt(todo', lastNow')
    BY <1>1, <2>1, NoteAt
  <2>. QED
    BY <1>1, <2>1, <2>2
<1>12. CASE Stop
  <2>1. PICK t \in Readings :
          LET now == Later(t, lastNow)
          IN  /\ clock' = t /\ lastNow' = now
              /\ \E c \in EventsFor("closed", windows, now) :
                   Queue(c \o <<Note("interval", now, now)>>, "drain")
    BY <1>12 DEF Stop
  <2>. DEFINE now == Later(t, lastNow)
              note == <<Note("interval", now, now)>>
  <2>2. now \in Time /\ lastNow <= now /\ (SteadyClock => now <= t)
    BY <1>21
  <2>3. PICK c \in EventsFor("closed", windows, now) : todo' = c \o note
    BY <1>3, <2>1
  <2>4. clock' = t /\ lastNow' = now
    BY <2>1
  <2>. HIDE DEF now
  <2>5. note \in Seq(Event) /\ AllAt(note, now)
    BY <2>2, NoteAt
  <2>. HIDE DEF note
  <2>6. c \in Seq(Event) /\ AllAt(c, now)
    <3>1. "closed" \in Kinds
      BY DEF Kinds
    <3>. QED
      BY <1>1, <2>2, <3>1, EventsForType, EventsForDistinct
  <2>7. AllAt(todo', now)
    BY <2>3, <2>5, <2>6, AtConcat
  <2>. QED
    BY <1>1, <2>2, <2>4, <2>7
<1>13. CASE Push \/ PushSnapshot
  <2>1. todo # <<>> /\ todo' = Rest /\ lastNow' = lastNow /\ clock' = clock
    BY <1>13 DEF Busy, Push, PushSnapshot
  <2>2. ChunkLength \in 1..Len(todo) /\ Len(todo) \in Nat /\ DOMAIN todo = 1..Len(todo)
    BY <1>1, <2>1, ChunkType, LenProperties
  <2>3. AllAt(Rest, lastNow)
    <3>1. \A i \in (ChunkLength + 1)..Len(todo) : todo[i] \in Event
      BY <1>1, <2>2
    <3>2. /\ Rest \in Seq(Event)
          /\ Len(Rest) = IF ChunkLength + 1 <= Len(todo) THEN Len(todo) - (ChunkLength + 1) + 1 ELSE 0
          /\ \A i \in 1..(Len(todo) - (ChunkLength + 1) + 1) : Rest[i] = todo[(ChunkLength + 1) + i - 1]
      BY <1>1, <2>2, <3>1, SubSeqProperties DEF Rest
    <3>3. DOMAIN Rest = 1..Len(Rest)
      BY <3>2, LenProperties
    <3>4. ASSUME NEW i \in DOMAIN Rest PROVE Rest[i].at = lastNow
      <4>1. i \in 1..(Len(todo) - (ChunkLength + 1) + 1)
        <5>4. ChunkLength \in Nat /\ Len(todo) \in Nat
          BY <2>2
        <5>1. PICK m \in Nat, n \in Nat : m = ChunkLength /\ n = Len(todo)
          BY <5>4
        <5>2. i \in 1..(IF m + 1 <= n THEN n - (m + 1) + 1 ELSE 0)
          BY <3>2, <3>3, <5>1
        <5>3. i \in 1..(n - (m + 1) + 1)
          BY <5>1, <5>2
        <5>. QED
          BY <5>1, <5>3
      <4>2. (ChunkLength + 1) + i - 1 \in DOMAIN todo
        BY <2>2, <4>1
      <4>. QED
        BY <3>2, <4>1, <4>2 DEF AllAt
    <3>. QED
      BY <3>4 DEF AllAt
  <2>. QED
    BY <1>1, <2>1, <2>3
<1>14. CASE Overflow
  <2>1. todo # <<>> /\ pc = "push" /\ Len(spool) = Capacity /\ lastNow' = lastNow /\ clock' = clock
    BY <1>14 DEF Overflow, Busy
  <2>2. ChunkLength \in DOMAIN todo
    BY <1>1, <2>1, ChunkType, LenProperties
  <2>. DEFINE oldest == Head(spool).events[1].at
              now == todo[ChunkLength].at
  <2>3. now = lastNow
    BY <2>2 DEF AllAt
  <2>4. Earlier(oldest, now) \in Time
    <3>1. Head(spool) \in Batch
      BY <2>1, ConstantsOK DEF TypeOK
    <3>2. Head(spool).events[1] \in Event
      BY <3>1, BatchType
    <3>3. oldest \in Time
      BY <3>2 DEF Event
    <3>. QED
      BY <1>1, <2>3, <3>3 DEF Earlier
  <2>5. PICK o \in EventsFor("opened", windows, now) :
          todo' = <<Note("gap", Earlier(oldest, now), now)>> \o o
    BY <1>14 DEF Overflow
  <2>. HIDE DEF oldest, now
  <2>. DEFINE note == <<Note("gap", Earlier(oldest, now), now)>>
  <2>6. note \in Seq(Event) /\ AllAt(note, now)
    BY <1>1, <2>3, <2>4, NoteAt
  <2>7. todo' = note \o o
    BY <2>5
  <2>. HIDE DEF note
  <2>8. o \in Seq(Event) /\ AllAt(o, now)
    <3>1. "opened" \in Kinds
      BY DEF Kinds
    <3>. QED
      BY <1>1, <2>3, <3>1, EventsForType, EventsForDistinct
  <2>9. AllAt(todo', now)
    BY <2>6, <2>7, <2>8, AtConcat
  <2>. QED
    BY <1>1, <2>1, <2>3, <2>9
<1>15. CASE RestartRun
  <2>1. PICK t \in Readings : /\ clock' = t /\ lastNow' = t
                             /\ \E o \in EventsFor("opened", windows, t) : todo' = o
    BY <1>15 DEF RestartRun
  <2>2. AllAt(todo', t)
    <3>1. "opened" \in Kinds
      BY DEF Kinds
    <3>. QED
      BY <1>1, <1>2, <2>1, <3>1, EventsForDistinct
  <2>3. run' = run + 1
    BY <1>15 DEF RestartRun
  <2>. QED
    BY <1>1, <1>2, <1>20, <2>1, <2>2, <2>3
<1>16. CASE RepairUnreadable \/ RepairRejected
  <2>1. RestartRun \/ UNCHANGED <<todo, lastNow, clock>>
    BY <1>16 DEF RepairUnreadable, RepairRejected
  <2>. QED
    BY <1>4, <1>15, <2>1
<1>17. CASE Exit \/ Crash \/ StopUnreadable
  <2>1. todo' = <<>> /\ UNCHANGED <<lastNow, clock>>
    BY <1>17 DEF Exit, Crash, StopUnreadable, Halt
  <2>. QED
    BY <1>5, <2>1
<1>18. CASE Decay \/ Send \/ ReportUnreadable \/ Pop \/ ReportRejected \/ Lose \/ UNCHANGED vars
  <2>1. UNCHANGED <<todo, lastNow, clock>>
    BY <1>18 DEF Decay, Send, ReportUnreadable, Pop, ReportRejected, Lose, vars, collectorVars
  <2>. QED
    BY <1>4, <2>1
<1>19. CASE Ingest \/ IngestUnanswered
  <2>1. UNCHANGED <<todo, lastNow, clock>>
    BY <1>19 DEF Ingest, IngestUnanswered, Handle, collectorVars
  <2>. QED
    BY <1>4, <2>1
<1>. QED
  BY <1>6, <1>7, <1>8, <1>9, <1>10, <1>11, <1>12, <1>13, <1>14, <1>16, <1>17, <1>18, <1>19
  DEF Next, Collector, Worker, Core

\* The batches' times and numbers go up, whatever is pushed, dropped or started anew.
LEMMA TimesStep == ChainInv /\ Awake /\ TimesInv /\ [Next]_vars => TimesInv'
<1>. SUFFICES ASSUME ChainInv, Awake, TimesInv, [Next]_vars PROVE TimesInv'
  OBVIOUS
<1>. USE DEF ChainInv, TypeInv
<1>1. /\ AllAt(todo', lastNow')
      /\ SteadyClock => lastNow' <= clock' /\ lastNow <= lastNow'
      /\ run' = run + 1 \/ lastNow <= lastNow'
  BY TodoStep DEF TimesInv
<1>2. /\ Range(wire') \subseteq Somewhere'
      /\ \/ /\ Push \/ PushSnapshot
            /\ todo # <<>> /\ Somewhere' = Somewhere \cup {NextBatch}
         \/ Halt /\ pc # "down" /\ Somewhere' = Somewhere \cup Unqueued
         \/ /\ run' = run + 1 /\ seq' = 1
            /\ Somewhere' = Somewhere \/ (pc # "down" /\ Somewhere' = Somewhere \cup Unqueued)
         \/ run' = run /\ seq' = seq /\ Somewhere' = Somewhere /\ (pc' = "down" <=> pc = "down")
  BY BatchesStep DEF TimesInv
<1>3. Somewhere \in SUBSET Batch /\ run \in Nat /\ seq \in Nat \ {0} /\ todo \in Seq(Event)
  BY SomewhereType DEF TypeOK
<1>4. lastNow \in Nat /\ lastNow' \in Nat /\ run' \in Nat
  <2>1. TypeOK'
    BY NextTypes
  <2>. QED
    BY <2>1 DEF TypeOK, Time
<1>5. Timeline(Somewhere) /\ Past(Somewhere, run, lastNow) /\ AllAt(todo, lastNow)
      /\ (pc # "down" => Placed(Somewhere, run, seq))
  BY DEF TimesInv
<1>6. ASSUME pc # "down"
      PROVE  Timeline(Somewhere \cup Unqueued) /\ Past(Somewhere \cup Unqueued, run, lastNow)
  <2>1. CASE todo = <<>>
    BY <1>5, <2>1 DEF Unqueued
  <2>2. CASE todo # <<>>
    <3>. DEFINE c == [run |-> run, first |-> seq, events |-> todo]
    <3>1. Unqueued = {c} /\ c \in Batch
      BY <2>2, UnqueuedType DEF Unqueued
    <3>2. c.run = run /\ c.first = seq /\ c.events = todo
      OBVIOUS
    <3>. HIDE DEF c
    <3>. QED
      BY <1>3, <1>4, <1>5, <1>6, <3>1, <3>2, TimelineAdds
  <2>. QED
    BY <2>1, <2>2
<1>7. CASE (Push \/ PushSnapshot) /\ todo # <<>> /\ Somewhere' = Somewhere \cup {NextBatch}
  <2>1. /\ run' = run /\ seq' = seq + ChunkLength /\ lastNow' = lastNow /\ pc # "down"
        /\ NextBatch.run = run /\ NextBatch.first = seq
        /\ LastSequence(NextBatch) = seq + ChunkLength - 1
    BY <1>7, PushAdds DEF Push, PushSnapshot
  <2>2. NextBatch \in Batch /\ ChunkLength \in 1..Len(todo) /\ Len(NextBatch.events) = ChunkLength
    BY <1>7, ChunkType
  <2>3. Len(todo) \in Nat /\ DOMAIN todo = 1..Len(todo) /\ ChunkLength \in Nat
    BY <1>3, <2>2, LenProperties
  <2>4. AllAt(NextBatch.events, lastNow)
    <3>1. NextBatch.events = Chunk
      BY DEF NextBatch
    <3>2. \A i \in 1..ChunkLength : todo[i] \in Event
      BY <1>3, <2>2, <2>3
    <3>3. Chunk \in Seq(Event) /\ Len(Chunk) = ChunkLength /\ \A i \in 1..ChunkLength : Chunk[i] = todo[i]
      BY <2>2, <2>3, <3>2, SubSeqProperties DEF Chunk
    <3>4. DOMAIN Chunk = 1..ChunkLength
      BY <3>3, LenProperties
    <3>5. \A i \in 1..ChunkLength : todo[i].at = lastNow
      BY <1>5, <2>2, <2>3 DEF AllAt
    <3>. QED
      BY <3>1, <3>3, <3>4, <3>5 DEF AllAt
  <2>5. Timeline(Somewhere') /\ Past(Somewhere', run', lastNow')
    BY <1>3, <1>4, <1>5, <1>7, <2>1, <2>2, <2>4, TimelineAdds
  <2>6. Placed(Somewhere', run', seq')
    <3>1. \A b \in Somewhere : b.run = run => LastSequence(b) < seq + ChunkLength
      <4>1. \A b \in Somewhere : LastSequence(b) \in Nat /\ (b.run = run => LastSequence(b) < seq)
        BY <1>3, <1>5, <2>1, BatchType DEF Placed
      <4>. QED
        BY <1>3, <2>3, <4>1
    <3>2. LastSequence(NextBatch) < seq + ChunkLength
      BY <1>3, <2>1, <2>3
    <3>. QED
      BY <1>7, <2>1, <3>1, <3>2 DEF Placed
  <2>. QED
    BY <1>1, <1>2, <2>5, <2>6 DEF TimesInv, LastSequence
<1>8. CASE Halt /\ pc # "down" /\ Somewhere' = Somewhere \cup Unqueued
  <2>1. pc' = "down" /\ run' = run /\ lastNow' = lastNow
    BY <1>8 DEF Halt
  <2>. QED
    BY <1>1, <1>2, <1>6, <1>8, <2>1 DEF TimesInv
<1>9. CASE /\ run' = run + 1 /\ seq' = 1
           /\ Somewhere' = Somewhere \/ (pc # "down" /\ Somewhere' = Somewhere \cup Unqueued)
  <2>1. Timeline(Somewhere') /\ Past(Somewhere', run, lastNow) /\ Somewhere' \in SUBSET Batch
    <3>1. Unqueued \subseteq Batch
      BY UnqueuedType
    <3>. QED
      BY <1>3, <1>5, <1>6, <1>9, <3>1
  <2>2. Past(Somewhere', run + 1, lastNow') /\ Placed(Somewhere', run + 1, 1)
    BY <1>1, <1>3, <1>4, <2>1, PastGoesOn
  <2>3. Past(Somewhere', run', lastNow') /\ Placed(Somewhere', run', seq')
    BY <1>9, <2>2
  <2>. QED
    BY <1>1, <1>2, <2>1, <2>3 DEF TimesInv
<1>10. CASE run' = run /\ seq' = seq /\ Somewhere' = Somewhere /\ (pc' = "down" <=> pc = "down")
  <2>1. lastNow <= lastNow'
    BY <1>1, <1>3, <1>10
  <2>2. Past(Somewhere', run', lastNow')
    BY <1>3, <1>4, <1>5, <1>10, <2>1, PastGoesOn
  <2>3. Timeline(Somewhere')
    BY <1>5, <1>10
  <2>4. pc' # "down" => Placed(Somewhere', run', seq')
    BY <1>5, <1>10
  <2>. QED
    BY <1>1, <1>2, <2>2, <2>3, <2>4 DEF TimesInv
<1>. QED
  BY <1>2, <1>7, <1>8, <1>9, <1>10

\* At first there is no batch.
LEMMA InitTimesInv == Init => TimesInv
<1>. SUFFICES ASSUME Init PROVE TimesInv
  OBVIOUS
<1>1. Range(<<>>) = {}
  BY DEF Range
<1>2. Somewhere = {} /\ Range(wire) = {} /\ todo = <<>> /\ lastNow = 1 /\ clock = 1 /\ pc = "down"
  BY <1>1 DEF Init, Somewhere
<1>3. lastNow <= clock
  BY <1>2
<1>. QED
  BY <1>2, <1>3 DEF TimesInv, Timeline, Past, AllAt

-----------------------------------------------------------------------------
(* The rows of collector_runs tell the times of what is stored.            *)

\* A row tells the time of a stored batch's first event and that of the last event of the
\* batch it counts up to; what is not stored yet comes behind.
RowTells(i) ==
  /\ \E a \in Range(log) : a.run = runs[i].run /\ runs[i].first = a.events[1].at
  /\ \E z \in Range(log) : /\ z.run = runs[i].run /\ runs[i].seq = LastSequence(z)
                           /\ runs[i].last = z.events[Len(z.events)].at
  /\ \A b \in Somewhere \ Range(log) : b.run = runs[i].run => runs[i].seq < b.first

RowsTell == \A i \in DOMAIN runs : RowTells(i)

\* The database stays as it is, or the request at the core is stored.
LEMMA CoreStep ==
  ASSUME ChainInv, [Next]_vars
  PROVE  \/ UNCHANGED <<runs, log, open>>
         \/ /\ wire # <<>> /\ wire[1] \in Batch /\ wire[1] \in Range(wire)
            /\ Verdict(wire[1]) = "stored" /\ Store(wire[1])
            /\ Range(log') = Range(log) \cup {wire[1]}
            /\ UNCHANGED <<spool, lost, pc, run, seq, todo, windows>> /\ wire' = <<>>
<1>. USE DEF ChainInv, TypeInv
<1>1. CASE UNCHANGED vars
  BY <1>1 DEF vars, coreVars
<1>2. CASE Start \/ FirstPublish \/ Observe \/ ReportInputOverflow \/ SealRun \/ RotateRun \/ Stop
  BY <1>2 DEF Start, FirstPublish, Observe, ReportInputOverflow, SealRun, RotateRun, Stop, coreVars
<1>3. CASE Push \/ Overflow \/ PushSnapshot \/ RepairUnreadable \/ RepairRejected
  BY <1>3 DEF Push, Overflow, PushSnapshot, RepairUnreadable, RepairRejected, coreVars
<1>4. CASE Exit \/ Crash \/ StopUnreadable \/ Decay
  BY <1>4 DEF Exit, Crash, StopUnreadable, Halt, Decay, coreVars
<1>5. CASE Worker \/ Lose
  BY <1>5 DEF Worker, Send, ReportUnreadable, Pop, ReportRejected, Lose, coreVars
<1>6. CASE Ingest \/ IngestUnanswered
  <2>1. Handle
    BY <1>6 DEF Ingest, IngestUnanswered
  <2>2. wire # <<>> /\ wire' = <<>> /\ UNCHANGED <<spool, lost, pc, run, seq, todo, windows>>
        /\ IF Verdict(Head(wire)) = "stored" THEN Store(Head(wire)) ELSE UNCHANGED <<runs, log, open>>
    BY <2>1 DEF Handle, collectorVars, spoolVars, coreVars
  <2>3. wire[1] \in Batch /\ Head(wire) = wire[1] /\ wire[1] \in Range(wire)
    <3>1. wire[1] \in Batch
      BY <2>2, ChainEnds
    <3>2. 1 \in DOMAIN wire /\ Head(wire) = wire[1]
      BY <2>2 DEF TypeOK
    <3>. QED
      BY <3>1, <3>2 DEF Range
  <2>4. ASSUME Store(wire[1]) PROVE Range(log') = Range(log) \cup {wire[1]}
    <3>1. log' = Append(log, wire[1]) /\ log \in Seq(Batch)
      BY <2>4 DEF Store, TypeOK
    <3>2. /\ Len(log) \in Nat /\ DOMAIN log = 1..Len(log) /\ DOMAIN log' = 1..(Len(log) + 1)
          /\ log'[Len(log) + 1] = wire[1] /\ \A i \in 1..Len(log) : log'[i] = log[i]
      BY <2>3, <3>1, AppendProperties
    <3>3. \A i \in 1..(Len(log) + 1) : i \in 1..Len(log) \/ i = Len(log) + 1
      BY <3>2
    <3>4. 1..Len(log) \subseteq 1..(Len(log) + 1) /\ Len(log) + 1 \in 1..(Len(log) + 1)
      BY <3>2
    <3>. QED
      BY <3>2, <3>3, <3>4 DEF Range
  <2>. QED
    BY <2>2, <2>3, <2>4
<1>. QED
  BY <1>1, <1>2, <1>3, <1>4, <1>5, <1>6 DEF Next, Collector, Core

\* What storing a batch does to the rows
LEMMA StoredRow ==
  ASSUME TypeOK, RunsMatchLog, NEW b \in Batch, Store(b), NEW i \in DOMAIN runs'
  PROVE  \/ i \in DOMAIN runs /\ runs'[i] = runs[i] /\ runs[i].run # b.run
         \/ /\ runs'[i].run = b.run /\ runs'[i].seq = LastSequence(b)
            /\ runs'[i].last = b.events[Len(b.events)].at
            /\ \/ i \in DOMAIN runs /\ Known(b.run) /\ i = RowOf(b.run)
                  /\ runs[i].run = b.run /\ runs'[i].first = runs[i].first
               \/ ~Known(b.run) /\ runs'[i].first = b.events[1].at
<1>1. /\ RowFrom(b).run = b.run /\ RowFrom(b).seq = LastSequence(b)
      /\ RowFrom(b).first = b.events[1].at /\ RowFrom(b).last = b.events[Len(b.events)].at
  BY DEF RowFrom
<1>2. CASE Known(b.run)
  <2>. DEFINE k == RowOf(b.run)
  <2>1. k \in DOMAIN runs /\ runs[k].run = b.run
    BY <1>2, RowOfKnown
  <2>2. runs[k] \in RunRow
    BY <2>1 DEF TypeOK
  <2>3. runs' = [runs EXCEPT ![k] = [runs[k] EXCEPT !.last = RowFrom(b).last,
                                                  !.seq = RowFrom(b).seq]]
    BY <1>2 DEF Store
  <2>. HIDE DEF k
  <2>4. DOMAIN runs' = DOMAIN runs /\ \A j \in DOMAIN runs : j # k => runs'[j] = runs[j]
    BY <2>3
  <2>5. runs'[k] = [runs[k] EXCEPT !.last = RowFrom(b).last, !.seq = RowFrom(b).seq]
    BY <2>1, <2>3
  <2>6. /\ runs'[k].run = runs[k].run /\ runs'[k].first = runs[k].first
        /\ runs'[k].last = RowFrom(b).last /\ runs'[k].seq = RowFrom(b).seq
    BY <2>2, <2>5 DEF RunRow
  <2>7. \A j \in DOMAIN runs : runs[j].run = b.run => j = k
    BY <2>1 DEF RunsMatchLog
  <2>. QED
    BY <1>1, <1>2, <2>1, <2>4, <2>6, <2>7 DEF k
<1>3. CASE ~Known(b.run)
  <2>1. runs' = Append(runs, RowFrom(b)) /\ runs \in Seq(RunRow)
    BY <1>3 DEF Store, TypeOK
  <2>2. /\ Len(runs) \in Nat /\ DOMAIN runs = 1..Len(runs) /\ DOMAIN runs' = 1..(Len(runs) + 1)
        /\ runs'[Len(runs) + 1] = RowFrom(b) /\ \A j \in 1..Len(runs) : runs'[j] = runs[j]
    <3>1. RowFrom(b) \in RunRow
      <4>1. /\ b.run \in Nat /\ LastSequence(b) \in Nat /\ Len(b.events) \in Nat \ {0}
            /\ DOMAIN b.events = 1..Len(b.events)
            /\ \A j \in DOMAIN b.events : b.events[j] \in Event
        BY BatchType, LenProperties
      <4>2. b.events[1] \in Event /\ b.events[Len(b.events)] \in Event
        BY <4>1
      <4>. QED
        BY <4>1, <4>2 DEF RowFrom, RunRow, Event
    <3>. QED
      BY <2>1, <3>1, AppendProperties
  <2>3. i \in DOMAIN runs \/ i = Len(runs) + 1
    BY <2>2
  <2>4. \A j \in DOMAIN runs : runs[j].run # b.run
    BY <1>3 DEF Known
  <2>. QED
    BY <1>1, <1>3, <2>2, <2>3, <2>4
<1>. QED
  BY <1>2, <1>3

\* What joins the batches of run r comes behind the row of that run.
LEMMA BehindRow ==
  ASSUME ChainInv, TimesInv, RowsTell, pc # "down", NEW i \in DOMAIN runs, runs[i].run = run
  PROVE  runs[i].seq < seq
<1>1. PICK z \in Range(log) : z.run = run /\ runs[i].seq = LastSequence(z)
  BY DEF RowsTell, RowTells
<1>2. z \in Somewhere
  BY <1>1 DEF Somewhere
<1>. QED
  BY <1>1, <1>2 DEF TimesInv, Placed

\* A batch that was not there before is of the present run, and goes on where it is.
LEMMA NewBatch ==
  ASSUME ChainInv, TimesInv, [Next]_vars, NEW b \in Somewhere', b \notin Somewhere
  PROVE  pc # "down" /\ b.run = run /\ b.first = seq
<1>1. \/ /\ Push \/ PushSnapshot
         /\ todo # <<>> /\ Somewhere' = Somewhere \cup {NextBatch}
      \/ pc # "down" /\ Somewhere' = Somewhere \cup Unqueued
  BY BatchesStep DEF TimesInv
<1>2. CASE (Push \/ PushSnapshot) /\ todo # <<>> /\ Somewhere' = Somewhere \cup {NextBatch}
  <2>1. pc # "down" /\ b = NextBatch
    BY <1>2 DEF Push, PushSnapshot
  <2>. QED
    BY <2>1 DEF NextBatch
<1>3. CASE pc # "down" /\ Somewhere' = Somewhere \cup Unqueued
  BY <1>3 DEF Unqueued
<1>. QED
  BY <1>1, <1>2, <1>3

\* ... whatever is stored, queued, dropped or started anew.
LEMMA RowsStep == ChainInv /\ TimesInv /\ RowsTell /\ [Next]_vars => RowsTell'
<1>. SUFFICES ASSUME ChainInv, TimesInv, RowsTell, [Next]_vars PROVE RowsTell'
  OBVIOUS
<1>. USE DEF ChainInv, TypeInv
<1>1. CASE runs' = runs /\ log' = log
  <2>. SUFFICES ASSUME NEW i \in DOMAIN runs PROVE RowTells(i)'
    BY <1>1 DEF RowsTell
  <2>1. /\ \E a \in Range(log) : a.run = runs[i].run /\ runs[i].first = a.events[1].at
        /\ \E z \in Range(log) : /\ z.run = runs[i].run /\ runs[i].seq = LastSequence(z)
                                 /\ runs[i].last = z.events[Len(z.events)].at
        /\ \A b \in Somewhere \ Range(log) : b.run = runs[i].run => runs[i].seq < b.first
    BY DEF RowsTell, RowTells
  <2>2. ASSUME NEW b \in Somewhere', b \notin Range(log), b.run = runs[i].run
        PROVE  runs[i].seq < b.first
    <3>1. CASE b \in Somewhere
      BY <2>1, <2>2, <3>1
    <3>2. CASE b \notin Somewhere
      <4>1. pc # "down" /\ b.run = run /\ b.first = seq
        BY <2>2, <3>2, NewBatch
      <4>. QED
        BY <2>2, <4>1, BehindRow
    <3>. QED
      BY <3>1, <3>2
  <2>. QED
    BY <1>1, <2>1, <2>2 DEF RowTells, LastSequence
<1>2. ASSUME wire # <<>>, wire[1] \in Batch, wire[1] \in Range(wire), Verdict(wire[1]) = "stored",
             Store(wire[1]), Range(log') = Range(log) \cup {wire[1]}, spool' = spool, lost' = lost
      PROVE  RowsTell'
  <2>1. PICK b \in Batch : b = wire[1]
    BY <1>2
  <2>2. b \in Somewhere /\ Store(b) /\ Range(log') = Range(log) \cup {b}
    BY <1>2, <2>1 DEF TimesInv
  <2>3. Somewhere' = Somewhere
    BY <1>2, <2>2 DEF Somewhere
  <2>4. NextFor(b.run, b.first)
    BY <1>2, <2>1, VerdictPlace
  <2>5. SUFFICES ASSUME NEW i \in DOMAIN runs' PROVE RowTells(i)'
    BY DEF RowsTell
  <2>6. CASE i \in DOMAIN runs /\ runs'[i] = runs[i] /\ runs[i].run # b.run
    <3>1. RowTells(i)
      BY <2>6 DEF RowsTell
    <3>. QED
      BY <2>2, <2>3, <2>6, <3>1 DEF RowTells, LastSequence
  <2>7. CASE /\ runs'[i].run = b.run /\ runs'[i].seq = LastSequence(b)
             /\ runs'[i].last = b.events[Len(b.events)].at
             /\ \/ i \in DOMAIN runs /\ Known(b.run) /\ i = RowOf(b.run)
                   /\ runs[i].run = b.run /\ runs'[i].first = runs[i].first
                \/ ~Known(b.run) /\ runs'[i].first = b.events[1].at
    <3>1. b \in Range(log')
      BY <2>2
    <3>2. \E a \in Range(log') : a.run = b.run /\ runs'[i].first = a.events[1].at
      <4>1. CASE i \in DOMAIN runs /\ runs[i].run = b.run /\ runs'[i].first = runs[i].first
        <5>1. PICK a \in Range(log) : a.run = runs[i].run /\ runs[i].first = a.events[1].at
          BY <4>1 DEF RowsTell, RowTells
        <5>. QED
          BY <2>2, <4>1, <5>1
      <4>2. CASE runs'[i].first = b.events[1].at
        BY <3>1, <4>2
      <4>. QED
        BY <2>7, <4>1, <4>2
    <3>3. ASSUME NEW c \in Somewhere, c \notin Range(log), c # b, c.run = b.run
          PROVE  LastSequence(b) < c.first
      <4>1. Somewhere \subseteq Batch
        BY SomewhereType
      <4>2. /\ b.first \in Nat \ {0} /\ c.first \in Nat \ {0} /\ LastSequence(c) \in Nat
            /\ c.first <= LastSequence(c)
        BY <3>3, <4>1, BatchType
      <4>3. b.first <= c.first
        <5>1. CASE Known(b.run)
          <6>1. RowOf(b.run) \in DOMAIN runs /\ runs[RowOf(b.run)].run = b.run
            BY <5>1, RowOfKnown
          <6>2. runs[RowOf(b.run)].seq < c.first /\ runs[RowOf(b.run)].seq \in Nat
            BY <3>3, <6>1, RowType DEF RowsTell, RowTells
          <6>3. b.first = runs[RowOf(b.run)].seq + 1
            BY <2>4, <5>1 DEF NextFor
          <6>. QED
            BY <4>2, <6>2, <6>3
        <5>2. CASE ~Known(b.run)
          BY <2>4, <4>2, <5>2 DEF NextFor
        <5>. QED
          BY <5>1, <5>2
      <4>4. LastSequence(b) < c.first \/ LastSequence(c) < b.first
        BY <2>2, <3>3 DEF TimesInv, Timeline, Apart
      <4>. QED
        BY <4>2, <4>3, <4>4
    <3>4. \A c \in Somewhere' \ Range(log') : c.run = b.run => LastSequence(b) < c.first
      BY <2>2, <2>3, <3>3
    <3>. QED
      BY <2>7, <3>1, <3>2, <3>4 DEF RowTells, LastSequence
  <2>. QED
    BY <1>2, <2>2, <2>6, <2>7, StoredRow DEF Chained
<1>. QED
  BY <1>1, <1>2, CoreStep

\* The invariant holds from the start; a process that never slept keeps it.
TimedInv == ChainInv /\ TimesInv /\ RowsTell

LEMMA TimedInvariant == ASSUME Awake PROVE Spec => []TimedInv
<1>1. Init => TimesInv /\ RowsTell
  BY InitTimesInv DEF Init, RowsTell
<1>2. ChainInv /\ TimesInv /\ RowsTell /\ [Next]_vars => TimesInv' /\ RowsTell'
  BY TimesStep, RowsStep
<1>. QED
  BY <1>1, <1>2, ChainInvariant, PTL DEF Spec, TimedInv

\* While the machine does not sleep and the clock is never set back, an event that was
\* dropped is never inside a time that the statistics call observed: the rows of
\* collector_runs reach from stored events to stored events, and the times of all batches
\* go up with their numbers and their runs.
THEOREM DropsAreMissing == ASSUME Awake, SteadyClock PROVE Spec => []DroppedIsMissing
<1>1. TimedInv => DroppedIsMissing
  <2>. SUFFICES ASSUME TimedInv, NEW b \in lost, b \notin Range(log), NEW k \in DOMAIN b.events,
                       NEW j \in DOMAIN runs
                PROVE  ~(runs[j].first < b.events[k].at /\ b.events[k].at < runs[j].last)
    BY DEF DroppedIsMissing, Missing
  <2>. USE DEF TimedInv, ChainInv, TypeInv
  <2>1. PICK a \in Range(log) : a.run = runs[j].run /\ runs[j].first = a.events[1].at
    BY DEF RowsTell, RowTells
  <2>2. PICK z \in Range(log) : /\ z.run = runs[j].run /\ runs[j].seq = LastSequence(z)
                                /\ runs[j].last = z.events[Len(z.events)].at
    BY DEF RowsTell, RowTells
  <2>3. /\ b \in Somewhere /\ a \in Somewhere /\ z \in Somewhere
        /\ b \in Batch /\ a \in Batch /\ z \in Batch
    <3>1. b \in Somewhere /\ a \in Somewhere /\ z \in Somewhere
      BY DEF Somewhere
    <3>. QED
      BY <3>1, SomewhereType
  <2>4. /\ b.run \in Nat /\ a.run \in Nat /\ z.run \in Nat /\ b.first \in Nat
        /\ z.first \in Nat /\ LastSequence(z) \in Nat /\ z.first <= LastSequence(z)
    BY <2>3, BatchType
  <2>5. 1 \in DOMAIN a.events /\ Len(z.events) \in DOMAIN z.events
    BY <2>3, BatchType, LenProperties
  <2>6. /\ b.events[k].at \in Nat /\ a.events[1].at \in Nat
        /\ z.events[Len(z.events)].at \in Nat
    <3>1. b.events[k] \in Event /\ a.events[1] \in Event /\ z.events[Len(z.events)] \in Event
      BY <2>3, <2>5, BatchType
    <3>. QED
      BY <3>1 DEF Event, Time
  <2>7. Precedes(z, b) \/ Precedes(b, a)
    <3>1. CASE b.run = runs[j].run
      <4>1. LastSequence(z) < b.first
        BY <2>2, <2>3, <3>1 DEF RowsTell, RowTells
      <4>. QED
        BY <2>2, <2>4, <3>1, <4>1 DEF Precedes
    <3>2. CASE b.run # runs[j].run
      BY <2>1, <2>2, <2>4, <3>2 DEF Precedes
    <3>. QED
      BY <3>1, <3>2
  <2>8. NoLater(z, b) \/ NoLater(b, a)
    BY <2>3, <2>7 DEF TimesInv, Timeline
  <2>9. runs[j].last <= b.events[k].at \/ b.events[k].at <= runs[j].first
    BY <2>1, <2>2, <2>5, <2>8 DEF NoLater
  <2>. QED
    BY <2>1, <2>2, <2>6, <2>9
<1>. QED
  BY <1>1, TimedInvariant, PTL

-----------------------------------------------------------------------------
(* Windows open when they are not open, and change and close when they are. *)

Numbers(ps) == \A p \in ps : p[1] \in Nat
Before(A, B) == \A p \in A, q \in B : p[1] < q[1]

\* Event p of the numbered events ps fits to what is open by then, with ws open at first.
Fits(ws, ps, p) ==
  LET isOpen == p[2].win \in After(ws, Below(ps, p[1]))
  IN  /\ p[2].kind = "opened" => ~isOpen
      /\ p[2].kind \in {"updated", "closed"} => isOpen

\* The events ps all fit, and lead from ws open to vs open.
Leads(ws, ps, vs) == (\A p \in ps : Fits(ws, ps, p)) /\ After(ws, ps) = vs

\* Leading on
LEMMA LeadsBoth ==
  ASSUME NEW ws, NEW vs, NEW us, NEW A, NEW B, Before(A, B), Numbers(A \cup B),
         Leads(ws, A, vs), Leads(vs, B, us)
  PROVE  Leads(ws, A \cup B, us)
<1>1. After(ws, A \cup B) = us
  BY AfterBoth DEF Before, Numbers, Leads
<1>2. ASSUME NEW p \in A PROVE Fits(ws, A \cup B, p)
  <2>1. Below(A \cup B, p[1]) = Below(A, p[1])
    <3>1. \A q \in B : ~(q[1] < p[1])
      BY DEF Before, Numbers
    <3>. QED
      BY <3>1 DEF Below
  <2>2. Fits(ws, A, p)
    BY DEF Leads
  <2>. QED
    BY <2>1, <2>2 DEF Fits
<1>3. ASSUME NEW p \in B PROVE Fits(ws, A \cup B, p)
  <2>1. Below(A \cup B, p[1]) = A \cup Below(B, p[1])
    BY DEF Below, Before
  <2>2. After(ws, A \cup Below(B, p[1])) = After(After(ws, A), Below(B, p[1]))
    <3>1. \A a \in A, q \in Below(B, p[1]) : a[1] < q[1]
      BY DEF Below, Before
    <3>2. \A q \in A \cup Below(B, p[1]) : q[1] \in Nat
      BY DEF Below, Numbers
    <3>. QED
      BY <3>1, <3>2, AfterBoth
  <2>3. Fits(vs, B, p) /\ After(ws, A) = vs
    BY DEF Leads
  <2>. QED
    BY <2>1, <2>2, <2>3 DEF Fits
<1>. QED
  BY <1>1, <1>2, <1>3 DEF Leads

\* ... and part of the way
LEMMA LeadsLower ==
  ASSUME NEW ws, NEW us, NEW A, NEW B, Before(A, B), Numbers(A \cup B), Leads(ws, A \cup B, us)
  PROVE  Leads(ws, A, After(ws, A))
<1>1. ASSUME NEW p \in A PROVE Fits(ws, A, p)
  <2>1. Below(A \cup B, p[1]) = Below(A, p[1])
    <3>1. \A q \in B : ~(q[1] < p[1])
      BY DEF Before, Numbers
    <3>. QED
      BY <3>1 DEF Below
  <2>2. Fits(ws, A \cup B, p)
    BY DEF Leads
  <2>. QED
    BY <2>1, <2>2 DEF Fits
<1>. QED
  BY <1>1 DEF Leads

\* Numbered events have numbers, and those of one list come before those of the next.
LEMMA NumberedBefore ==
  ASSUME NEW first \in Nat, NEW s \in Seq(Event), NEW t \in Seq(Event)
  PROVE  /\ Numbers(Numbered(first, s)) /\ Len(s) \in Nat /\ first + Len(s) \in Nat
         /\ Numbers(Numbered(first, s) \cup Numbered(first + Len(s), t))
         /\ Before(Numbered(first, s), Numbered(first + Len(s), t))
<1>1. Len(s) \in Nat /\ first + Len(s) \in Nat
  BY LenProperties
<1>2. /\ \A p \in Numbered(first, s) : p[1] \in Nat /\ p[1] <= first + Len(s) - 1
      /\ \A q \in Numbered(first + Len(s), t) : q[1] \in Nat /\ first + Len(s) <= q[1]
  BY <1>1, NumberedType
<1>3. \A p \in Numbered(first, s), q \in Numbered(first + Len(s), t) : p[1] < q[1]
  BY <1>1, <1>2
<1>. QED
  BY <1>1, <1>2, <1>3 DEF Numbers, Before

\* One list behind the other
LEMMA LeadsConcat ==
  ASSUME NEW first \in Nat, NEW s \in Seq(Event), NEW t \in Seq(Event), NEW ws, NEW vs, NEW us,
         Leads(ws, Numbered(first, s), vs), Leads(vs, Numbered(first + Len(s), t), us)
  PROVE  s \o t \in Seq(Event) /\ Leads(ws, Numbered(first, s \o t), us)
<1>1. Leads(ws, Numbered(first, s) \cup Numbered(first + Len(s), t), us)
  BY NumberedBefore, LeadsBoth
<1>2. s \o t \in Seq(Event)
  BY ConcatProperties
<1>. QED
  BY <1>1, <1>2, NumberedConcat

\* What notes lead to
LEMMA LeadsNotes ==
  ASSUME NEW first \in Nat, NEW s \in Seq(Event), NEW ws \in SUBSET Windows,
         \A i \in DOMAIN s : s[i].kind \notin {"opened", "closed", "updated"}
  PROVE  Leads(ws, Numbered(first, s), ws)
<1>1. After(ws, Numbered(first, s)) = ws
  BY AfterNotes
<1>2. \A p \in Numbered(first, s) : p[2].kind \notin {"opened", "closed", "updated"}
  BY DEF Numbered
<1>. QED
  BY <1>1, <1>2 DEF Leads, Fits

\* A window is open or not whatever happens to others.
LEMMA AfterOthers ==
  ASSUME NEW ws, NEW ps, NEW w \in Windows, \A q \in ps : q[2].win # w
  PROVE  w \in After(ws, ps) <=> w \in ws
BY DEF After, Opens, Closes

\* Events of one kind for some windows lead on where these are open, or not open yet.
LEMMA LeadsEvents ==
  ASSUME NEW first \in Nat, NEW kind \in {"opened", "closed", "updated"}, NEW xs \in SUBSET Windows,
         NEW t \in Time, NEW s \in EventsFor(kind, xs, t), NEW ws \in SUBSET Windows,
         IF kind = "opened" THEN xs \cap ws = {} ELSE xs \subseteq ws
  PROVE  /\ s \in Seq(Event)
         /\ Leads(ws, Numbered(first, s), IF kind = "opened" THEN ws \cup xs
                                          ELSE IF kind = "closed" THEN ws \ xs ELSE ws)
<1>1. kind \in Kinds
  BY DEF Kinds
<1>2. /\ s \in Seq(Event) /\ \A i \in DOMAIN s : s[i].kind = kind /\ s[i].win \in xs
      /\ \A i, j \in DOMAIN s : i # j => s[i].win # s[j].win
  <2>1. s \in Seq(Event) /\ \A i \in DOMAIN s : s[i].kind = kind /\ s[i].win \in xs
    BY <1>1, EventsForEach
  <2>2. \A i, j \in DOMAIN s : i # j => s[i].win # s[j].win
    BY <1>1, EventsForDistinct
  <2>. QED
    BY <2>1, <2>2
<1>3. DOMAIN s = 1..Len(s) /\ Len(s) \in Nat
  BY <1>2, LenProperties
<1>4. After(ws, Numbered(first, s)) = IF kind = "opened" THEN ws \cup xs
                                      ELSE IF kind = "closed" THEN ws \ xs ELSE ws
  <2>1. CASE kind = "opened"
    BY <2>1, AfterOpened
  <2>2. CASE kind = "closed"
    BY <2>2, AfterClosed
  <2>3. CASE kind = "updated"
    BY <1>2, <2>3, AfterNotes
  <2>. QED
    BY <2>1, <2>2, <2>3
<1>5. ASSUME NEW p \in Numbered(first, s) PROVE Fits(ws, Numbered(first, s), p)
  <2>1. PICK i \in DOMAIN s : p = <<first + i - 1, s[i]>>
    BY DEF Numbered
  <2>2. p[1] = first + i - 1 /\ p[2] = s[i]
    BY <2>1
  <2>. DEFINE w == s[i].win
  <2>3. w \in xs /\ w \in Windows
    BY <1>2
  <2>4. ASSUME NEW q \in Below(Numbered(first, s), p[1]) PROVE q[2].win # w
    <3>1. PICK j \in DOMAIN s : q = <<first + j - 1, s[j]>>
      BY DEF Numbered, Below
    <3>2. q[1] = first + j - 1 /\ q[2] = s[j] /\ q[1] < p[1]
      BY <3>1 DEF Below
    <3>3. j # i
      BY <1>3, <2>2, <3>2
    <3>. QED
      BY <1>2, <3>2, <3>3
  <2>. HIDE DEF w
  <2>5. w \in After(ws, Below(Numbered(first, s), p[1])) <=> w \in ws
    BY <2>3, <2>4, AfterOthers
  <2>6. p[2].win = w /\ p[2].kind = kind
    BY <1>2, <2>2 DEF w
  <2>7. IF kind = "opened" THEN w \notin ws ELSE w \in ws
    BY <2>3
  <2>. QED
    BY <2>5, <2>6, <2>7 DEF Fits
<1>. QED
  BY <1>2, <1>4, <1>5 DEF Leads

\* A publication leads from the windows of this run to those shown now.
LEMMA PublishLeads ==
  ASSUME TypeInv, NEW now \in Time, NEW fresh \in BOOLEAN, Publish(now, fresh), NEW first \in Nat
  PROVE  Leads(windows, Numbered(first, todo'), windows')
<1>1. PICK gone, new, same, then, closed, notes, updated, opened :
          QueuedParts(now, gone, new, same, then, closed, notes, updated, opened)
  BY PublishParts
<1>2. windows \in SUBSET Windows
  BY DEF TypeInv, TypeOK
<1>. DEFINE rest == windows \ gone
<1>3. /\ gone \in SUBSET Windows /\ same \in SUBSET Windows /\ rest \in SUBSET Windows
      /\ new \in SUBSET Windows /\ then \in Time
      /\ gone \subseteq windows /\ same \subseteq rest /\ new \cap rest = {}
      /\ windows' = rest \cup new
      /\ closed \in EventsFor("closed", gone, then) /\ updated \in EventsFor("updated", same, now)
      /\ opened \in EventsFor("opened", new, now)
      /\ notes \in Seq(Event) /\ \A i \in DOMAIN notes : notes[i].kind \notin {"opened", "closed", "updated"}
      /\ \/ todo' = ((closed \o notes) \o updated) \o opened
         \/ todo' = ((notes \o closed) \o updated) \o opened
  BY <1>1, <1>2 DEF QueuedParts
<1>4. rest = windows \ gone
  OBVIOUS
<1>. HIDE DEF rest
<1>5. closed \in Seq(Event) /\ \A n \in Nat : Leads(windows, Numbered(n, closed), rest)
  BY <1>2, <1>3, <1>4, LeadsEvents
<1>6. updated \in Seq(Event) /\ \A n \in Nat : Leads(rest, Numbered(n, updated), rest)
  <2>1. updated \in Seq(Event)
    <3>1. "updated" \in Kinds
      BY DEF Kinds
    <3>. QED
      BY <1>3, <3>1, EventsForType
  <2>2. ASSUME NEW n \in Nat PROVE Leads(rest, Numbered(n, updated), rest)
    BY <1>3, LeadsEvents
  <2>. QED
    BY <2>1, <2>2
<1>7. opened \in Seq(Event) /\ \A n \in Nat : Leads(rest, Numbered(n, opened), windows')
  BY <1>3, LeadsEvents
<1>8. \A n \in Nat, ws \in SUBSET Windows : Leads(ws, Numbered(n, notes), ws)
  BY <1>3, LeadsNotes
<1>9. \A u \in Seq(Event) : first + Len(u) \in Nat
  BY LenProperties
<1>10. ASSUME NEW s \in Seq(Event), Leads(windows, Numbered(first, s), rest)
       PROVE  Leads(windows, Numbered(first, (s \o updated) \o opened), windows')
  <2>1. s \o updated \in Seq(Event) /\ Leads(windows, Numbered(first, s \o updated), rest)
    BY <1>6, <1>9, <1>10, LeadsConcat
  <2>. QED
    BY <1>7, <1>9, <2>1, LeadsConcat
<1>11. closed \o notes \in Seq(Event) /\ Leads(windows, Numbered(first, closed \o notes), rest)
  BY <1>3, <1>5, <1>8, <1>9, LeadsConcat
<1>12. notes \o closed \in Seq(Event) /\ Leads(windows, Numbered(first, notes \o closed), rest)
  BY <1>2, <1>3, <1>5, <1>8, <1>9, LeadsConcat
<1>. QED
  BY <1>3, <1>10, <1>11, <1>12

\* A note leads nowhere else.
LEMMA NoteLeads ==
  ASSUME NEW kind \in {"interval", "gap", "input_gap", "bad"}, NEW s \in Time, NEW t \in Time
  PROVE  /\ <<Note(kind, s, t)>> \in Seq(Event)
         /\ \A n \in Nat, ws \in SUBSET Windows : Leads(ws, Numbered(n, <<Note(kind, s, t)>>), ws)
<1>. DEFINE note == <<Note(kind, s, t)>>
<1>1. note \in Seq(Event)
  BY NoteIsNeutral
<1>2. \A i \in DOMAIN note : note[i].kind = kind
  BY DEF Note
<1>. HIDE DEF note
<1>3. \A i \in DOMAIN note : note[i].kind \notin {"opened", "closed", "updated"}
  BY <1>2
<1>4. \A n \in Nat, ws \in SUBSET Windows : Leads(ws, Numbered(n, note), ws)
  BY <1>1, <1>3, LeadsNotes
<1>. QED
  BY <1>1, <1>4 DEF note

\* What has been told of run r
ToldIn(B, r) == UNION {Numbered(b.first, b.events) : b \in {c \in B : c.run = r}}

\* ... with what the loop has yet to queue
Mine == ToldIn(Somewhere, run) \cup Numbered(seq, todo)

\* What was told of a run fits together, and with what is to be queued it leads to what the
\* collector has open.
TellsWell ==
  /\ \A r : Leads({}, ToldIn(Somewhere, r), After({}, ToldIn(Somewhere, r)))
  /\ pc # "down" => Leads({}, Mine, windows)

\* What a step does to what is to be queued
LEMMA TodoLeads ==
  ASSUME MatchInv, [Next]_vars
  PROVE  \/ /\ pc # "down" /\ todo = <<>> /\ run' = run /\ seq' = seq /\ Somewhere' = Somewhere
            /\ Leads(windows, Numbered(seq, todo'), windows')
         \/ run' = run + 1 /\ seq' = 1 /\ Leads({}, Numbered(1, todo'), windows')
         \/ (Push \/ PushSnapshot) /\ todo # <<>> /\ windows' = windows
         \/ Halt /\ pc # "down"
         \/ UNCHANGED <<run, seq, todo, windows, pc>>
<1>. USE DEF MatchInv, Matching, ChainInv, TypeInv
<1>1. /\ lastNow \in Time /\ clock \in Time /\ todo \in Seq(Event) /\ windows \in SUBSET Windows
      /\ {} \in SUBSET Windows /\ Readings \subseteq Time /\ seq \in Nat
  BY ReadingsType DEF TypeOK
<1>2. \A es, next : Queue(es, next) => todo' = es
  BY DEF Queue
<1>3. Leads({}, Numbered(1, <<>>), {})
  <2>1. <<>> \in Seq(Event) /\ DOMAIN <<>> = {}
    OBVIOUS
  <2>. QED
    BY <1>1, <2>1, LeadsNotes
<1>4. ASSUME NEW t \in Time, NEW o \in EventsFor("opened", windows, t)
      PROVE  o \in Seq(Event) /\ \A n \in Nat : Leads({}, Numbered(n, o), windows)
  <2>1. o \in Seq(Event)
    <3>1. "opened" \in Kinds
      BY DEF Kinds
    <3>. QED
      BY <1>1, <1>4, <3>1, EventsForType
  <2>2. ASSUME NEW n \in Nat PROVE Leads({}, Numbered(n, o), windows)
    <3>1. windows \cap {} = {} /\ {} \cup windows = windows
      OBVIOUS
    <3>2. Leads({}, Numbered(n, o), {} \cup windows)
      BY <1>1, <1>4, <3>1, LeadsEvents
    <3>. QED
      BY <3>1, <3>2
  <2>. QED
    BY <2>1, <2>2
<1>5. CASE Start
  <2>1. run' = run + 1 /\ seq' = 1 /\ todo' = <<>> /\ windows' = {}
    BY <1>5 DEF Start
  <2>. QED
    BY <1>3, <2>1
<1>6. CASE FirstPublish \/ Observe
  <2>1. /\ pc \in {"publish", "loop"} /\ run' = run /\ seq' = seq
        /\ UNCHANGED <<spool, log, lost>>
    BY <1>6 DEF FirstPublish, Observe, spoolVars, coreVars
  <2>2. PICK now \in Time, fresh \in BOOLEAN : Publish(now, fresh)
    <3>1. CASE FirstPublish
      BY <1>1, <3>1 DEF FirstPublish
    <3>2. CASE Observe
      <4>1. PICK t \in Readings : Publish(Later(lastNow, t), FALSE)
        BY <3>2 DEF Observe
      <4>2. Later(lastNow, t) \in Time
        BY <1>1 DEF Later
      <4>. QED
        BY <4>1, <4>2
    <3>. QED
      BY <1>6, <3>1, <3>2
  <2>3. Leads(windows, Numbered(seq, todo'), windows')
    BY <1>1, <2>2, PublishLeads
  <2>. QED
    BY <2>1, <2>3 DEF NothingLeft, Somewhere
<1>7. CASE ReportInputOverflow \/ SealRun
  <2>1. /\ pc = "loop" /\ run' = run /\ seq' = seq /\ windows' = windows
        /\ UNCHANGED <<spool, log, lost>>
        /\ \/ todo' = <<Note("input_gap", lastNow, lastNow)>>
           \/ todo' = <<Note("interval", lastNow, lastNow)>>
    BY <1>2, <1>7 DEF ReportInputOverflow, SealRun, spoolVars, coreVars
  <2>2. Leads(windows, Numbered(seq, todo'), windows)
    <3>1. CASE todo' = <<Note("input_gap", lastNow, lastNow)>>
      BY <1>1, <3>1, NoteLeads
    <3>2. CASE todo' = <<Note("interval", lastNow, lastNow)>>
      BY <1>1, <3>2, NoteLeads
    <3>. QED
      BY <2>1, <3>1, <3>2
  <2>. QED
    BY <2>1, <2>2 DEF NothingLeft, Somewhere
<1>8. CASE RotateRun
  <2>1. todo' = <<Note("interval", clock, clock)>> /\ run' = run + 1 /\ seq' = 1 /\ windows' = {}
    BY <1>2, <1>8 DEF RotateRun
  <2>2. Leads({}, Numbered(1, todo'), {})
    BY <1>1, <2>1, NoteLeads
  <2>. QED
    BY <2>1, <2>2
<1>9. CASE Stop
  <2>1. PICK t \in Readings :
          \E c \in EventsFor("closed", windows, Later(t, lastNow)) :
             Queue(c \o <<Note("interval", Later(t, lastNow), Later(t, lastNow))>>, "drain")
    BY <1>9 DEF Stop
  <2>2. PICK now \in Time : now = Later(t, lastNow)
    BY <1>1 DEF Later
  <2>3. PICK c \in EventsFor("closed", windows, now) : todo' = c \o <<Note("interval", now, now)>>
    BY <1>2, <2>1, <2>2
  <2>4. c \in Seq(Event) /\ Leads(windows, Numbered(seq, c), {})
    <3>1. c \in Seq(Event) /\ Leads(windows, Numbered(seq, c), windows \ windows)
      BY <1>1, <2>3, LeadsEvents
    <3>2. windows \ windows = {}
      OBVIOUS
    <3>. QED
      BY <3>1, <3>2
  <2>. DEFINE note == <<Note("interval", now, now)>>
  <2>5. note \in Seq(Event) /\ \A n \in Nat : Leads({}, Numbered(n, note), {})
    BY <1>1, <2>2, NoteLeads
  <2>6. todo' = c \o note
    BY <2>3
  <2>. HIDE DEF note
  <2>7. seq + Len(c) \in Nat
    BY <1>1, <2>4, LenProperties
  <2>8. Leads(windows, Numbered(seq, todo'), {})
    BY <1>1, <2>4, <2>5, <2>6, <2>7, LeadsConcat
  <2>9. /\ pc = "loop" /\ run' = run /\ seq' = seq /\ windows' = {}
        /\ UNCHANGED <<spool, log, lost>>
    BY <1>9 DEF Stop, spoolVars, coreVars
  <2>. QED
    BY <2>8, <2>9 DEF NothingLeft, Somewhere
<1>10. CASE Push \/ PushSnapshot
  <2>1. todo # <<>> /\ windows' = windows
    BY <1>10 DEF Busy, Push, PushSnapshot
  <2>. QED
    BY <1>10, <2>1
<1>11. CASE Overflow
  <2>1. /\ run' = run + 1 /\ seq' = 1 /\ windows' = windows
        /\ pc = "push" /\ Len(spool) = Capacity /\ todo # <<>>
    BY <1>11 DEF Overflow, Busy
  <2>. DEFINE oldest == Head(spool).events[1].at
              now == todo[ChunkLength].at
  <2>2. now \in Time
    <3>1. ChunkLength \in DOMAIN todo
      BY <1>1, <2>1, ChunkType, LenProperties
    <3>2. todo[ChunkLength] \in Event
      BY <1>1, <3>1
    <3>. QED
      BY <3>2 DEF Event
  <2>3. Earlier(oldest, now) \in Time
    <3>1. Head(spool) \in Batch
      BY <2>1, ConstantsOK DEF TypeOK
    <3>2. Head(spool).events[1] \in Event
      BY <3>1, BatchType
    <3>3. oldest \in Time
      BY <3>2 DEF Event
    <3>. QED
      BY <2>2, <3>3 DEF Earlier
  <2>4. PICK o \in EventsFor("opened", windows, now) :
          todo' = <<Note("gap", Earlier(oldest, now), now)>> \o o
    BY <1>11 DEF Overflow
  <2>. HIDE DEF oldest, now
  <2>5. o \in Seq(Event) /\ \A n \in Nat : Leads({}, Numbered(n, o), windows)
    BY <1>4, <2>2, <2>4
  <2>. DEFINE note == <<Note("gap", Earlier(oldest, now), now)>>
  <2>6. note \in Seq(Event) /\ Leads({}, Numbered(1, note), {})
    BY <1>1, <2>2, <2>3, NoteLeads
  <2>7. todo' = note \o o
    BY <2>4
  <2>. HIDE DEF note
  <2>8. 1 + Len(note) \in Nat
    BY <2>6, LenProperties
  <2>9. Leads({}, Numbered(1, todo'), windows)
    BY <2>5, <2>6, <2>7, <2>8, LeadsConcat
  <2>. QED
    BY <2>1, <2>9
<1>12. CASE RestartRun /\ windows' = windows
  <2>1. PICK t \in Readings : \E o \in EventsFor("opened", windows, t) : todo' = o
    BY <1>12 DEF RestartRun
  <2>2. Leads({}, Numbered(1, todo'), windows)
    BY <1>1, <1>4, <2>1
  <2>. QED
    BY <1>12, <2>2 DEF RestartRun
<1>13. CASE RepairUnreadable \/ RepairRejected
  <2>1. windows' = windows /\ (RestartRun \/ UNCHANGED <<run, seq, todo, pc>>)
    BY <1>13 DEF RepairUnreadable, RepairRejected
  <2>. QED
    BY <1>12, <2>1
<1>14. CASE Exit \/ Crash \/ StopUnreadable
  <2>1. Halt /\ pc # "down"
    BY <1>14 DEF Exit, Crash, StopUnreadable
  <2>. QED
    BY <2>1
<1>15. CASE Decay \/ Worker \/ Core \/ UNCHANGED vars
  BY <1>15 DEF Decay, Worker, Core, Send, ReportUnreadable, Pop, ReportRejected, Lose,
     Ingest, IngestUnanswered, Handle, vars, collectorVars
<1>. QED
  BY <1>5, <1>6, <1>7, <1>8, <1>9, <1>10, <1>11, <1>13, <1>14, <1>15 DEF Next, Collector

\* What was told of a run are numbered events of its batches.
LEMMA ToldType ==
  ASSUME NEW B \in SUBSET Batch, NEW r
  PROVE  \A p \in ToldIn(B, r) : /\ p[1] \in Nat
                                 /\ \E b \in B : /\ b.run = r /\ p \in Numbered(b.first, b.events)
                                                 /\ b.first <= p[1] /\ p[1] <= LastSequence(b)
<1>. SUFFICES ASSUME NEW b \in B, b.run = r, NEW p \in Numbered(b.first, b.events)
              PROVE  p[1] \in Nat /\ b.first <= p[1] /\ p[1] <= LastSequence(b)
  BY DEF ToldIn
<1>1. b.first \in Nat /\ b.events \in Seq(Event)
  BY BatchType
<1>2. p \in Nat \X Event /\ b.first <= p[1] /\ p[1] <= b.first + Len(b.events) - 1
  BY <1>1, NumberedType
<1>. QED
  BY <1>2 DEF LastSequence

\* One more batch tells its events.
LEMMA ToldAdds ==
  ASSUME NEW B, NEW c, NEW r
  PROVE  ToldIn(B \cup {c}, r) = IF c.run = r THEN ToldIn(B, r) \cup Numbered(c.first, c.events)
                                              ELSE ToldIn(B, r)
<1>1. CASE c.run = r
  <2>1. {b \in B \cup {c} : b.run = r} = {b \in B : b.run = r} \cup {c}
    BY <1>1
  <2>. QED
    BY <1>1, <2>1 DEF ToldIn
<1>2. CASE c.run # r
  <2>1. {b \in B \cup {c} : b.run = r} = {b \in B : b.run = r}
    BY <1>2
  <2>. QED
    BY <1>2, <2>1 DEF ToldIn
<1>. QED
  BY <1>1, <1>2

\* What the present run has told so far comes before what it will queue.
LEMMA MineBefore ==
  ASSUME ChainInv, TimesInv, pc # "down", NEW es \in Seq(Event)
  PROVE  /\ Before(ToldIn(Somewhere, run), Numbered(seq, es))
         /\ Numbers(ToldIn(Somewhere, run) \cup Numbered(seq, es))
         /\ \A p \in ToldIn(Somewhere, run) : p[1] \in Nat /\ p[1] < seq
<1>. USE DEF ChainInv, TypeInv
<1>1. Somewhere \in SUBSET Batch /\ seq \in Nat
  BY SomewhereType DEF TypeOK
<1>2. ASSUME NEW p \in ToldIn(Somewhere, run) PROVE p[1] \in Nat /\ p[1] < seq
  <2>1. PICK b \in Somewhere : p[1] \in Nat /\ b.run = run /\ p[1] <= LastSequence(b)
    BY <1>1, ToldType
  <2>2. LastSequence(b) < seq /\ LastSequence(b) \in Nat
    BY <1>1, <2>1, BatchType DEF TimesInv, Placed
  <2>. QED
    BY <1>1, <2>1, <2>2
<1>3. \A q \in Numbered(seq, es) : q[1] \in Nat /\ seq <= q[1]
  BY <1>1, NumberedType
<1>4. \A p \in ToldIn(Somewhere, run), q \in Numbered(seq, es) : p[1] < q[1]
  BY <1>1, <1>2, <1>3
<1>. QED
  BY <1>2, <1>3, <1>4 DEF Before, Numbers

\* What is dropped with a run that ends fits, too.
LEMMA EndTellsWell ==
  ASSUME TellsWell, pc # "down", NEW r
  PROVE  Leads({}, ToldIn(Somewhere \cup Unqueued, r), After({}, ToldIn(Somewhere \cup Unqueued, r)))
<1>1. Leads({}, ToldIn(Somewhere, r), After({}, ToldIn(Somewhere, r))) /\ Leads({}, Mine, windows)
  BY DEF TellsWell
<1>2. CASE todo = <<>>
  BY <1>1, <1>2 DEF Unqueued
<1>3. CASE todo # <<>>
  <2>. DEFINE c == [run |-> run, first |-> seq, events |-> todo]
  <2>1. Unqueued = {c} /\ c.run = run /\ c.first = seq /\ c.events = todo
    BY <1>3 DEF Unqueued
  <2>. HIDE DEF c
  <2>2. ToldIn(Somewhere \cup {c}, r) = IF run = r THEN Mine ELSE ToldIn(Somewhere, r)
    <3>1. CASE run = r
      <4>1. ToldIn(Somewhere \cup {c}, r) = ToldIn(Somewhere, r) \cup Numbered(c.first, c.events)
        <5>1. c.run = r
          BY <2>1, <3>1
        <5>. QED
          BY <5>1, ToldAdds
      <4>. QED
        BY <2>1, <3>1, <4>1 DEF Mine
    <3>2. CASE run # r
      <4>1. ToldIn(Somewhere \cup {c}, r) = ToldIn(Somewhere, r)
        <5>1. c.run # r
          BY <2>1, <3>2
        <5>. QED
          BY <5>1, ToldAdds
      <4>. QED
        BY <3>2, <4>1
    <3>. QED
      BY <3>1, <3>2
  <2>3. Leads({}, Mine, After({}, Mine))
    BY <1>1 DEF Leads
  <2>. QED
    BY <1>1, <2>1, <2>2, <2>3
<1>. QED
  BY <1>2, <1>3

\* Every step keeps what is told in order.
LEMMA TellsStep ==
  ASSUME MatchInv, TimesInv, TellsWell, [Next]_vars
  PROVE  TellsWell'
<1>. USE DEF MatchInv, ChainInv, TypeInv
<1>1. /\ Somewhere \in SUBSET Batch /\ run \in Nat /\ seq \in Nat /\ todo \in Seq(Event)
  BY SomewhereType DEF TypeOK
<1>2. todo' \in Seq(Event)
  BY NextTypes DEF TypeOK
<1>3. \A r : Leads({}, ToldIn(Somewhere, r), After({}, ToldIn(Somewhere, r)))
  BY DEF TellsWell
<1>4. /\ Mine' = ToldIn(Somewhere', run') \cup Numbered(seq', todo')
      /\ (\A r : Leads({}, ToldIn(Somewhere', r), After({}, ToldIn(Somewhere', r))))
           /\ (pc' # "down" => Leads({}, Mine', windows'))
         => TellsWell'
  BY DEF Mine, TellsWell, ToldIn, Numbered, Leads, Fits, After, Below
<1>5. CASE /\ pc # "down" /\ todo = <<>> /\ run' = run /\ seq' = seq /\ Somewhere' = Somewhere
           /\ Leads(windows, Numbered(seq, todo'), windows')
  <2>1. Mine = ToldIn(Somewhere, run)
    BY <1>5, NumberedNothing DEF Mine
  <2>2. Leads({}, ToldIn(Somewhere, run), windows)
    BY <1>5, <2>1 DEF TellsWell
  <2>3. Leads({}, ToldIn(Somewhere, run) \cup Numbered(seq, todo'), windows')
    BY <1>2, <1>5, <2>2, MineBefore, LeadsBoth
  <2>4. Leads({}, Mine', windows')
    BY <1>4, <1>5, <2>3
  <2>. QED
    BY <1>3, <1>4, <1>5, <2>4
<1>6. CASE run' = run + 1 /\ seq' = 1 /\ Leads({}, Numbered(1, todo'), windows')
  <2>1. Somewhere' = Somewhere \/ (pc # "down" /\ Somewhere' = Somewhere \cup Unqueued)
    <3>1. ~Push /\ ~PushSnapshot /\ ~Halt /\ run' # run
      BY <1>1, <1>6 DEF Push, PushSnapshot, Halt
    <3>. QED
      BY <3>1, BatchesStep DEF TimesInv
  <2>2. \A r : Leads({}, ToldIn(Somewhere', r), After({}, ToldIn(Somewhere', r)))
    <3>1. CASE Somewhere' = Somewhere
      BY <1>3, <3>1
    <3>2. CASE pc # "down" /\ Somewhere' = Somewhere \cup Unqueued
      BY <3>2, EndTellsWell
    <3>. QED
      BY <2>1, <3>1, <3>2
  <2>3. \A b \in Somewhere' : b.run # run + 1
    <3>1. \A b \in Somewhere : b.run \in Nat /\ b.run <= run
      BY <1>1, BatchType DEF TimesInv, Past
    <3>2. \A b \in Unqueued : b.run = run
      BY DEF Unqueued
    <3>. QED
      BY <1>1, <2>1, <3>1, <3>2
  <2>4. ToldIn(Somewhere', run + 1) = {}
    BY <2>3 DEF ToldIn
  <2>5. Mine' = Numbered(1, todo')
    BY <1>4, <1>6, <2>4
  <2>. QED
    BY <1>4, <1>6, <2>2, <2>5
<1>7. CASE (Push \/ PushSnapshot) /\ todo # <<>> /\ windows' = windows
  <2>1. /\ run' = run /\ seq' = seq + ChunkLength /\ todo' = Rest
        /\ Somewhere' = Somewhere \cup {NextBatch} /\ pc # "down"
    <3>1. lost' = lost /\ log' = log /\ Range(spool') = Range(spool) \cup {NextBatch}
      BY <1>7, PushAdds
    <3>. QED
      BY <1>7, <3>1 DEF Push, PushSnapshot, Somewhere
  <2>2. NextBatch.run = run /\ NextBatch.first = seq /\ NextBatch.events = Chunk
    BY DEF NextBatch
  <2>. DEFINE told == ToldIn(Somewhere, run) \cup Numbered(seq, Chunk)
              rest == Numbered(seq + ChunkLength, Rest)
  <2>3. /\ ToldIn(Somewhere', run) = told
        /\ \A r : r # run => ToldIn(Somewhere', r) = ToldIn(Somewhere, r)
    BY <2>1, <2>2, ToldAdds
  <2>4. Numbered(seq, todo) = Numbered(seq, Chunk) \cup rest /\ Len(Chunk) = ChunkLength
        /\ Chunk \in Seq(Event) /\ Rest \in Seq(Event)
    BY <1>7, ChunkNumbers
  <2>5. Mine = told \cup rest
    BY <2>4 DEF Mine
  <2>6. Mine' = told \cup rest
    BY <1>4, <2>1, <2>3
  <2>7. Leads({}, told \cup rest, windows)
    BY <2>1, <2>5 DEF TellsWell
  <2>8. Numbers(told \cup rest) /\ Before(told, rest)
    <3>1. Numbers(Numbered(seq, Chunk) \cup rest) /\ Before(Numbered(seq, Chunk), rest)
      BY <1>1, <2>4, NumberedBefore
    <3>2. /\ Before(ToldIn(Somewhere, run), Numbered(seq, todo))
          /\ Numbers(ToldIn(Somewhere, run) \cup Numbered(seq, todo))
      BY <1>1, <2>1, MineBefore
    <3>. HIDE DEF rest
    <3>. QED
      BY <2>4, <3>1, <3>2 DEF Numbers, Before
  <2>. HIDE DEF told, rest
  <2>9. Leads({}, told, After({}, told))
    BY <2>7, <2>8, LeadsLower
  <2>10. \A r : Leads({}, ToldIn(Somewhere', r), After({}, ToldIn(Somewhere', r)))
    BY <1>3, <2>3, <2>9
  <2>. QED
    BY <1>4, <1>7, <2>6, <2>7, <2>10
<1>8. CASE Halt /\ pc # "down"
  <2>1. pc' = "down" /\ log' = log /\ spool' = spool /\ lost' = lost \cup Unqueued
    BY <1>8 DEF Halt, spoolVars, coreVars
  <2>2. Somewhere' = Somewhere \cup Unqueued
    BY <2>1 DEF Somewhere
  <2>. QED
    BY <1>4, <1>8, <2>1, <2>2, EndTellsWell
<1>9. CASE UNCHANGED <<run, seq, todo, windows, pc>>
  <2>1. Somewhere' = Somewhere
    <3>1. ~(Halt /\ pc # "down")
      BY <1>9 DEF Halt
    <3>2. ~((Push \/ PushSnapshot) /\ todo # <<>>)
      <4>1. SUFFICES ASSUME Push \/ PushSnapshot, todo # <<>> PROVE FALSE
        OBVIOUS
      <4>2. ChunkLength \in 1..Len(todo) /\ seq' = seq + ChunkLength /\ Len(todo) \in Nat
        BY <1>1, <4>1, ChunkType, PushAdds, LenProperties
      <4>. QED
        BY <1>1, <1>9, <4>2
    <3>3. run' # run + 1
      BY <1>1, <1>9
    <3>. QED
      BY <3>1, <3>2, <3>3, BatchesStep DEF TimesInv
  <2>2. Mine' = Mine
    BY <1>4, <1>9, <2>1 DEF Mine
  <2>. QED
    BY <1>3, <1>4, <1>9, <2>1, <2>2 DEF TellsWell
<1>. QED
  BY <1>5, <1>6, <1>7, <1>8, <1>9, TodoLeads

-----------------------------------------------------------------------------
(* What the core has open is what it was told, up to the row of the run.    *)

\* What the newest run of the database has open is what its events leave open.
OpenAsTold ==
  log # <<>> =>
    LET r == log[Len(log)].run
    IN  WindowsIn(open, r) = After({}, Below(ToldIn(Somewhere, r), runs[RowOf(r)].seq + 1))

\* What was told of a run up to number m is what was told before one of its batches and the
\* events of this batch up to m.
LEMMA ToldUpTo ==
  ASSUME ChainInv, TimesInv, NEW b \in Somewhere, NEW m \in Nat,
         b.first <= m, m <= LastSequence(b) + 1
  PROVE  LET told == ToldIn(Somewhere, b.run)
         IN  /\ Below(told, m) = Below(told, b.first) \cup Below(Numbered(b.first, b.events), m)
             /\ \A ws : After(ws, Below(told, m))
                          = After(After(ws, Below(told, b.first)), Below(Numbered(b.first, b.events), m))
<1>. USE DEF ChainInv, TypeInv
<1>. DEFINE told == ToldIn(Somewhere, b.run)
            own == Numbered(b.first, b.events)
<1>1. Somewhere \in SUBSET Batch
  BY SomewhereType
<1>2. b \in Batch /\ b.first \in Nat /\ LastSequence(b) \in Nat /\ b.events \in Seq(Event)
  BY <1>1, BatchType
<1>3. \A p \in told : p[1] \in Nat
  BY <1>1, ToldType
<1>4. own \subseteq told
  BY DEF ToldIn
<1>5. \A p \in own : b.first <= p[1]
  BY <1>2, NumberedType
<1>6. ASSUME NEW p \in told, p[1] < m PROVE p[1] < b.first \/ p \in own
  <2>1. PICK c \in Somewhere : /\ c.run = b.run /\ p \in Numbered(c.first, c.events)
                               /\ c.first <= p[1] /\ p[1] <= LastSequence(c)
    BY <1>1, ToldType
  <2>2. c.first \in Nat /\ LastSequence(c) \in Nat
    BY <1>1, BatchType
  <2>3. b = c \/ LastSequence(b) < c.first \/ LastSequence(c) < b.first
    BY <2>1 DEF TimesInv, Timeline, Apart
  <2>4. CASE b = c
    BY <2>1, <2>4
  <2>5. CASE LastSequence(b) < c.first
    BY <1>2, <1>3, <1>6, <2>1, <2>2, <2>5
  <2>6. CASE LastSequence(c) < b.first
    BY <1>2, <1>3, <2>1, <2>2, <2>6
  <2>. QED
    BY <2>3, <2>4, <2>5, <2>6
<1>. HIDE DEF told, own
<1>7. \A p \in told : p[1] < b.first => p[1] < m
  BY <1>2, <1>3
<1>8. Below(told, m) = Below(told, b.first) \cup Below(own, m)
  BY <1>4, <1>6, <1>7 DEF Below
<1>9. \A p \in Below(told, b.first), q \in Below(own, m) : p[1] < q[1]
  BY <1>2, <1>3, <1>4, <1>5 DEF Below
<1>10. \A p \in Below(told, b.first) \cup Below(own, m) : p[1] \in Nat
  BY <1>3, <1>4 DEF Below
<1>11. ASSUME NEW ws
       PROVE  After(ws, Below(told, m)) = After(After(ws, Below(told, b.first)), Below(own, m))
  BY <1>8, <1>9, <1>10, AfterBoth
<1>. QED
  BY <1>8, <1>11 DEF told, own

\* The core has open for the next batch of a run what was told of this run before it.
LEMMA OpenForNext ==
  ASSUME ChainInv, OpenAsTold, NEW b \in Batch, NextFor(b.run, b.first),
         \A i \in DOMAIN runs : runs[i].run <= b.run
  PROVE  WindowsIn(OpenBefore(b), b.run) = After({}, Below(ToldIn(Somewhere, b.run), b.first))
<1>. USE DEF ChainInv, TypeInv
<1>1. CASE Known(b.run)
  <2>1. log # <<>> /\ log[Len(log)].run = b.run
    BY <1>1, NewestStored, BatchType
  <2>2. b.first = runs[RowOf(b.run)].seq + 1 /\ OpenBefore(b) = open
    BY <1>1 DEF NextFor, OpenBefore
  <2>. QED
    BY <2>1, <2>2 DEF OpenAsTold
<1>2. CASE ~Known(b.run)
  <2>1. OpenBefore(b) = {} /\ b.first = 1
    BY <1>2 DEF NextFor, OpenBefore
  <2>2. \A p \in ToldIn(Somewhere, b.run) : p[1] \in Nat /\ 1 <= p[1]
    <3>1. Somewhere \in SUBSET Batch
      BY SomewhereType
    <3>2. \A c \in Somewhere : c.first \in Nat \ {0}
      BY <3>1, BatchType
    <3>3. \A p \in ToldIn(Somewhere, b.run) : p[1] \in Nat /\ \E c \in Somewhere : c.first <= p[1]
      BY <3>1, ToldType
    <3>. QED
      BY <3>2, <3>3
  <2>3. Below(ToldIn(Somewhere, b.run), 1) = {}
    BY <2>2 DEF Below
  <2>4. After({}, {}) = {} /\ WindowsIn({}, b.run) = {}
    BY DEF After, WindowsIn
  <2>. QED
    BY <2>1, <2>3, <2>4
<1>. QED
  BY <1>1, <1>2

\* ... so its windows agree.
LEMMA WindowsFit ==
  ASSUME ChainInv, TimesInv, TellsWell, NEW b \in Somewhere, AboutWindows(b.events),
         WindowsIn(OpenBefore(b), b.run) = After({}, Below(ToldIn(Somewhere, b.run), b.first))
  PROVE  WindowsAgree(b, OpenBefore(b))
<1>. USE DEF ChainInv, TypeInv
<1>1. b \in Batch
  BY SomewhereType
<1>2. /\ b.first \in Nat /\ Len(b.events) \in Nat /\ DOMAIN b.events = 1..Len(b.events)
      /\ LastSequence(b) = b.first + Len(b.events) - 1
  BY <1>1, BatchType, LenProperties DEF LastSequence
<1>. SUFFICES ASSUME NEW n \in DOMAIN b.events
              PROVE  LET e == b.events[n]
                         isOpen == <<b.run, e.win>> \in OpenAfter(b, OpenBefore(b), n - 1)
                     IN  /\ e.kind = "opened" => ~isOpen
                         /\ e.kind \in {"updated", "closed"} => isOpen
  BY DEF WindowsAgree
<1>. DEFINE e == b.events[n]
            m == b.first + (n - 1)
            told == ToldIn(Somewhere, b.run)
            by == After({}, Below(told, m))
<1>3. n - 1 \in 0..Len(b.events) /\ m \in Nat /\ b.first <= m /\ m <= LastSequence(b) + 1
      /\ m = b.first + n - 1
  BY <1>2
<1>4. by = After(WindowsIn(OpenBefore(b), b.run), Below(Numbered(b.first, b.events), m))
  <2>. HIDE DEF m
  <2>. QED
    BY <1>3, ToldUpTo
<1>5. \A w \in Windows : <<b.run, w>> \in OpenAfter(b, OpenBefore(b), n - 1) <=> w \in by
  BY <1>1, <1>3, <1>4, OpenAfterSome
<1>6. Fits({}, told, <<m, e>>)
  <2>1. <<m, e>> \in Numbered(b.first, b.events)
    BY <1>3 DEF Numbered
  <2>2. <<m, e>> \in told
    BY <2>1 DEF ToldIn
  <2>. HIDE DEF told, m, e
  <2>3. Leads({}, told, After({}, told))
    BY DEF TellsWell, told
  <2>. QED
    BY <2>2, <2>3 DEF Leads
<1>7. /\ e.kind = "opened" => e.win \notin by
      /\ e.kind \in {"updated", "closed"} => e.win \in by
  <2>. DEFINE p == <<m, e>>
  <2>1. p[1] = m /\ p[2] = e /\ Fits({}, told, p)
    BY <1>6
  <2>. HIDE DEF p, m, e, told
  <2>. QED
    BY <2>1 DEF Fits
<1>8. e.kind = "opened" => e.win \in Windows
  BY DEF AboutWindows
<1>9. by \subseteq Windows
  BY DEF After
<1>. HIDE DEF by
<1>. QED
  BY <1>5, <1>7, <1>8, <1>9

\* Every step keeps what the core has open to what it was told.
LEMMA OpenAsToldStep ==
  ASSUME MatchInv, TimesInv, RowsTell, OpenAsTold, [Next]_vars
  PROVE  OpenAsTold'
<1>. USE DEF MatchInv, ChainInv, TypeInv
<1>1. TypeOK'
  BY NextTypes
<1>2. Somewhere \in SUBSET Batch /\ Somewhere' \in SUBSET Batch
  <2>1. log' \in Seq(Batch) /\ spool' \in Seq(Batch) /\ lost' \in SUBSET Batch
    BY <1>1 DEF TypeOK
  <2>2. (\A i \in DOMAIN log' : log'[i] \in Batch) /\ \A i \in DOMAIN spool' : spool'[i] \in Batch
    BY <2>1
  <2>3. Range(log') \subseteq Batch /\ Range(spool') \subseteq Batch
    BY <2>2 DEF Range
  <2>. QED
    BY <2>1, <2>3, SomewhereType DEF Somewhere
<1>3. CASE UNCHANGED <<runs, log, open>>
  <2>. DEFINE r == log[Len(log)].run
              n == runs[RowOf(r)].seq
  <2>1. SUFFICES ASSUME log # <<>>
                 PROVE  WindowsIn(open, r) = After({}, Below(ToldIn(Somewhere', r), n + 1))
    BY <1>3 DEF OpenAsTold, RowOf, WindowsIn, After, Below, ToldIn, Numbered
  <2>2. WindowsIn(open, r) = After({}, Below(ToldIn(Somewhere, r), n + 1))
    BY <2>1 DEF OpenAsTold
  <2>3. RowOf(r) \in DOMAIN runs /\ runs[RowOf(r)].run = r
    <3>1. Len(log) \in DOMAIN log
      BY <2>1 DEF TypeOK
    <3>. HIDE DEF r
    <3>2. Known(r)
      BY <3>1 DEF Chained, RunsMatchLog, r
    <3>. QED
      BY <3>2, RowOfKnown
  <2>4. n \in Nat
    BY <2>3, RowType
  <2>5. r = run /\ pc # "down" => n < seq
    BY <2>3, BehindRow
  <2>. HIDE DEF r, n
  <2>6. ASSUME NEW p \in ToldIn(Somewhere', r), p[1] < n + 1 PROVE p \in ToldIn(Somewhere, r)
    <3>1. PICK b \in Somewhere' : /\ b.run = r /\ p \in Numbered(b.first, b.events)
                                 /\ b.first <= p[1] /\ p[1] \in Nat
      BY <1>2, ToldType
    <3>2. CASE b \in Somewhere
      BY <3>1, <3>2 DEF ToldIn
    <3>3. CASE b \notin Somewhere
      <4>1. pc # "down" /\ b.run = run /\ b.first = seq
        BY <3>1, <3>3, NewBatch
      <4>2. n < seq /\ seq \in Nat
        BY <2>5, <3>1, <4>1 DEF TypeOK
      <4>. QED
        BY <2>4, <2>6, <3>1, <4>1, <4>2
    <3>. QED
      BY <3>2, <3>3
  <2>7. Somewhere \subseteq Somewhere'
    BY BatchesStep DEF TimesInv
  <2>8. ToldIn(Somewhere, r) \subseteq ToldIn(Somewhere', r)
    BY <2>7 DEF ToldIn
  <2>9. Below(ToldIn(Somewhere', r), n + 1) = Below(ToldIn(Somewhere, r), n + 1)
    BY <2>6, <2>8 DEF Below
  <2>. QED
    BY <2>2, <2>9
<1>4. ASSUME wire # <<>>, wire[1] \in Batch, wire[1] \in Range(wire), Verdict(wire[1]) = "stored",
             Store(wire[1]), Range(log') = Range(log) \cup {wire[1]}, spool' = spool, lost' = lost
      PROVE  OpenAsTold'
  <2>1. PICK b \in Batch : b = wire[1]
    BY <1>4
  <2>2. b \in Somewhere /\ Store(b) /\ NextFor(b.run, b.first)
    BY <1>4, <2>1, VerdictPlace DEF TimesInv
  <2>3. Somewhere' = Somewhere
    BY <1>4, <2>1, <2>2 DEF Somewhere
  <2>4. \A i \in DOMAIN runs : runs[i].run <= b.run
    <3>1. b \notin Range(log)
      BY <2>2, NextIsNotStored DEF Chained
    <3>. QED
      BY <1>4, <2>1, <3>1 DEF Chained, WireNext
  <2>5. /\ b.first \in Nat /\ Len(b.events) \in Nat /\ LastSequence(b) \in Nat
        /\ b.first <= LastSequence(b) /\ LastSequence(b) = b.first + Len(b.events) - 1
    BY BatchType DEF LastSequence
  <2>. DEFINE m == LastSequence(b) + 1
              told == ToldIn(Somewhere, b.run)
  <2>6. m \in Nat /\ b.first <= m /\ m <= LastSequence(b) + 1 /\ m = b.first + Len(b.events)
        /\ Len(b.events) \in 0..Len(b.events)
    BY <2>5
  <2>. HIDE DEF m
  <2>7. WindowsIn(OpenBefore(b), b.run) = After({}, Below(told, b.first))
    BY <2>2, <2>4, OpenForNext
  <2>8. After({}, Below(told, m)) = After(After({}, Below(told, b.first)), Below(Numbered(b.first, b.events), m))
    BY <2>2, <2>6, ToldUpTo
  <2>9. open' = OpenAfter(b, OpenBefore(b), Len(b.events))
    BY <2>2 DEF Store
  <2>10. ASSUME NEW w \in Windows
         PROVE  <<b.run, w>> \in open' <=> w \in After({}, Below(told, m))
    <3>1. <<b.run, w>> \in open'
          <=> w \in After(WindowsIn(OpenBefore(b), b.run), Below(Numbered(b.first, b.events), m))
      BY <2>6, <2>9, OpenAfterSome
    <3>. HIDE DEF told
    <3>. QED
      BY <2>7, <2>8, <3>1
  <2>11. WindowsIn(open', b.run) = After({}, Below(told, m))
    <3>1. After({}, Below(told, m)) \subseteq Windows
      BY DEF After
    <3>. HIDE DEF told
    <3>. QED
      BY <2>10, <3>1 DEF WindowsIn
  <2>12. log'[Len(log')] = b
    <3>1. log' = Append(log, b) /\ log \in Seq(Batch)
      BY <2>2 DEF Store, TypeOK
    <3>. QED
      BY <3>1
  <2>13. runs'[RowOf(b.run)'].seq = LastSequence(b)
    BY <2>2, StoreRows DEF Chained
  <2>14. ToldIn(Somewhere, b.run)' = told
    BY <2>3 DEF ToldIn, Numbered
  <2>15. WindowsIn(open, b.run)' = After({}, Below(ToldIn(Somewhere, b.run)', runs'[RowOf(b.run)'].seq + 1))
    <3>. HIDE DEF told
    <3>. QED
      BY <2>11, <2>13, <2>14 DEF m, WindowsIn
  <2>. HIDE DEF told
  <2>. QED
    BY <2>12, <2>15 DEF OpenAsTold, RowOf, WindowsIn, After, Below, ToldIn, Numbered
<1>. QED
  BY <1>3, <1>4, CoreStep

\* The next batch of a run is not older than the last event that the database has of it.
LEMMA TimeFits ==
  ASSUME TimedInv, NEW b \in Somewhere
  PROVE  /\ \A i \in 1..(Len(b.events) - 1) : ~(b.events[i + 1].at < b.events[i].at)
         /\ NextFor(b.run, b.first) =>
              ~(Known(b.run) /\ b.events[1].at < runs[RowOf(b.run)].last)
<1>. USE DEF TimedInv, ChainInv, TypeInv
<1>1. Somewhere \in SUBSET Batch
  BY SomewhereType
<1>2. \A c \in Somewhere : /\ DOMAIN c.events = 1..Len(c.events) /\ Len(c.events) \in Nat \ {0}
                          /\ \A i \in DOMAIN c.events : c.events[i].at \in Nat
  <2>. SUFFICES ASSUME NEW c \in Somewhere
                PROVE  /\ DOMAIN c.events = 1..Len(c.events) /\ Len(c.events) \in Nat \ {0}
                       /\ \A i \in DOMAIN c.events : c.events[i].at \in Nat
    OBVIOUS
  <2>1. \A i \in DOMAIN c.events : c.events[i] \in Event
    BY <1>1, BatchType
  <2>2. \A i \in DOMAIN c.events : c.events[i].at \in Nat
    BY <2>1 DEF Event, Time
  <2>. QED
    BY <1>1, <2>2, BatchType, LenProperties
<1>3. ASSUME NEW i \in 1..(Len(b.events) - 1) PROVE ~(b.events[i + 1].at < b.events[i].at)
  <2>1. i \in DOMAIN b.events /\ i + 1 \in DOMAIN b.events /\ i <= i + 1
    BY <1>2
  <2>2. b.events[i].at <= b.events[i + 1].at
    BY <2>1 DEF TimesInv, Timeline, Ascends
  <2>3. b.events[i].at \in Nat /\ b.events[i + 1].at \in Nat
    BY <1>2, <2>1
  <2>. QED
    BY <2>2, <2>3
<1>4. ASSUME NextFor(b.run, b.first), Known(b.run)
      PROVE  ~(b.events[1].at < runs[RowOf(b.run)].last)
  <2>1. RowOf(b.run) \in DOMAIN runs /\ runs[RowOf(b.run)].run = b.run
    BY <1>4, RowOfKnown
  <2>2. PICK z \in Range(log) : /\ z.run = b.run /\ runs[RowOf(b.run)].seq = LastSequence(z)
                               /\ runs[RowOf(b.run)].last = z.events[Len(z.events)].at
    BY <2>1 DEF RowsTell, RowTells
  <2>3. z \in Somewhere
    BY <2>2 DEF Somewhere
  <2>4. b.first = LastSequence(z) + 1
    BY <1>4, <2>2 DEF NextFor
  <2>5. Precedes(z, b)
    <3>1. z.first \in Nat /\ LastSequence(z) \in Nat /\ z.first <= LastSequence(z)
      BY <1>1, <2>3, BatchType
    <3>. QED
      BY <2>2, <2>4, <3>1 DEF Precedes
  <2>6. NoLater(z, b)
    BY <2>3, <2>5 DEF TimesInv, Timeline
  <2>7. Len(z.events) \in DOMAIN z.events /\ 1 \in DOMAIN b.events
    BY <1>2, <2>3
  <2>8. z.events[Len(z.events)].at <= b.events[1].at
    BY <2>6, <2>7 DEF NoLater
  <2>9. z.events[Len(z.events)].at \in Nat /\ b.events[1].at \in Nat
    BY <1>2, <2>3, <2>7
  <2>. QED
    BY <2>2, <2>8, <2>9
<1>. QED
  BY <1>3, <1>4

\* The invariant behind the refusals
ToldInv == TimedInv /\ MatchInv /\ TellsWell /\ OpenAsTold

LEMMA InitTold == Init => TellsWell /\ OpenAsTold
<1>. SUFFICES ASSUME Init PROVE TellsWell /\ OpenAsTold
  OBVIOUS
<1>1. Range(<<>>) = {}
  BY DEF Range
<1>2. Somewhere = {} /\ pc = "down" /\ log = <<>>
  BY <1>1 DEF Init, Somewhere
<1>3. \A r : ToldIn(Somewhere, r) = {}
  BY <1>2 DEF ToldIn
<1>4. Leads({}, {}, After({}, {}))
  BY DEF Leads
<1>. QED
  BY <1>2, <1>3, <1>4 DEF TellsWell, OpenAsTold

\* While the machine does not sleep, the core refuses a batch for good only because of what
\* an event says: not for its place, its time, or a window that it takes for open or closed.
\* So no retry, lost answer, crash, overflow, repair or clock rollback costs a good run.
THEOREM OnlyContentRefused == ASSUME Awake PROVE Spec => []RefusedOnlyForContent
<1>1. Init => MatchInv /\ TellsWell /\ OpenAsTold
  BY InitMatches, InitTold
<1>2. /\ TimedInv /\ MatchInv /\ TellsWell /\ OpenAsTold /\ [Next]_vars
      => MatchInv' /\ TellsWell' /\ OpenAsTold'
  BY NextMatches, TellsStep, OpenAsToldStep DEF TimedInv
<1>3. ToldInv => RefusedOnlyForContent
  <2>. SUFFICES ASSUME ToldInv, NEW b \in Range(wire)
                PROVE  Verdict(b) \in {"stored", "duplicate", "content"}
    BY DEF RefusedOnlyForContent
  <2>. USE DEF ToldInv, TimedInv, MatchInv, ChainInv, TypeInv
  <2>1. wire # <<>> /\ b = wire[1] /\ b \in Batch
    <3>1. PICK i \in DOMAIN wire : b = wire[i]
      BY DEF Range
    <3>2. Len(wire) \in Nat /\ Len(wire) <= 1 /\ DOMAIN wire = 1..Len(wire)
      BY DEF TypeOK, Chained, WorkerKnows
    <3>3. i = 1 /\ wire # <<>>
      BY <3>1, <3>2
    <3>. QED
      BY <3>1, <3>3, ChainEnds
  <2>2. b \in Somewhere
    BY DEF TimesInv
  <2>3. \A i \in 1..(Len(b.events) - 1) : ~(b.events[i + 1].at < b.events[i].at)
    BY <2>2, TimeFits
  <2>4. CASE b \in Range(log)
    BY <2>3, <2>4 DEF Verdict
  <2>5. CASE b \notin Range(log)
    <3>1. NextFor(b.run, b.first) /\ \A i \in DOMAIN runs : runs[i].run <= b.run
      BY <2>1, <2>5 DEF Chained, WireNext
    <3>2. Verdict(b) \notin {"overlap", "sequence"}
      BY PlaceFits DEF NeverRefusedForPlace
    <3>3. ~(Known(b.run) /\ b.events[1].at < runs[RowOf(b.run)].last)
      BY <2>2, <3>1, TimeFits
    <3>4. AboutWindows(b.events)
      BY DEF Matching, OpensWindows
    <3>5. WindowsAgree(b, OpenBefore(b))
      BY <2>1, <2>2, <3>1, <3>4, OpenForNext, WindowsFit
    <3>. QED
      BY <2>3, <3>2, <3>3, <3>5 DEF Verdict
  <2>. QED
    BY <2>4, <2>5
<1>. QED
  BY <1>1, <1>2, <1>3, TimedInvariant, PTL DEF Spec, ToldInv
=============================================================================
