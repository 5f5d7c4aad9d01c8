----------------------------- MODULE SpoolProofs -----------------------------
(***************************************************************************)
(* Theorems about Spool, for every ring, record length and bound: what a   *)
(* crash or a power loss leaves changes only as a persistent queue may.    *)
(***************************************************************************)
EXTENDS Spool, FiniteSetTheorems, TLAPS

\* The used cells in order, wherever they are in the ring
View(cells, h) == [k \in Used(h) |-> CellOf(cells, h, k)]

\* n cells q are complete records, one after the other, ...
Whole(q, n) ==
  \A k \in 0..(n - 1) :
    /\ q[k].at <= k /\ q[k].at < q[k].rec.len /\ (k - q[k].at) + q[k].rec.len <= n
    /\ \A j \in 0..(q[k].rec.len - 1) : q[(k - q[k].at) + j] = [rec |-> q[k].rec, at |-> j]

\* ... the oldest first.
Firsts(q, n) == {k \in 0..(n - 1) : q[k].at = 0}
InOrder(q, n) == \A j, k \in Firsts(q, n) : j < k => q[j].rec.id < q[k].rec.id

\* They are as many as the header counts, up to its tail, ...
Counts(cells, h) ==
  h.count = Cardinality(Begins(cells, h)) /\ h.tail = Wrap(h.head + h.used)

\* ... and numbered below n.
Below(cells, h, n) == \A r \in RecordsOf(cells, h) : r.id < n

Holds(cells, h, n) ==
  /\ Whole(View(cells, h), h.used) /\ InOrder(View(cells, h), h.used)
  /\ Counts(cells, h) /\ Below(cells, h, n)

\* Slot s is the one that is opened.
NewestIs(slots, s) == slots[s].gen # 0 /\ slots[1 - s].gen < slots[s].gen

FileOpens == \E s \in Slots : NewestIs(file.slots, s) /\ Holds(file.cells, file.slots[s], next)

\* A queue of these records may become one of those, with these removals asked for.
Moves(kept, after, gone) ==
  /\ Durable!Behind(after \ kept, kept)
  /\ kept \ after \subseteq gone
  /\ Durable!Behind(kept \cap after, kept \ after)

\* A record has been written to the free cells behind the used ones.
RecordWritten ==
  LET r == file.cells[header.tail].rec
  IN  /\ r.len \in 1..(Cells - header.used) /\ r.id < next
      /\ \A s \in RecordsOf(file.cells, header) : s.id < r.id
      /\ \A j \in 0..(r.len - 1) : file.cells[Wrap(header.tail + j)] = [rec |-> r, at |-> j]

\* The header in memory, and the one that is active in the file
InMemory ==
  LET a == file.slots[active]
  IN  /\ Holds(file.cells, a, next) /\ a.gen # 0
      /\ pc # "sync" => NewestIs(file.slots, active)
      /\ pc \in {"idle", "record"} => header = a
      /\ pc = "record" => RecordWritten
      /\ pc \in {"header", "sync"} =>
           /\ Holds(file.cells, header, next) /\ header.gen = a.gen + 1
           /\ op = "push" => header.used # 0
           /\ Moves(RecordsOf(file.cells, a), RecordsOf(file.cells, header), released)
           /\ Moves(Kept(disk), RecordsOf(file.cells, header), released)
      /\ pc = "sync" => file.slots[1 - active] = header

\* Without crashes, only what is being written is not on disk yet.
Twin ==
  /\ pc \in {"down", "idle", "header"} => file = disk
  /\ pc = "record" =>
       /\ file.slots = disk.slots
       /\ \A k \in Used(header) : CellOf(file.cells, header, k) = CellOf(disk.cells, header, k)
  /\ pc = "sync" =>
       /\ file.cells = disk.cells /\ disk.slots[active] = file.slots[active]
       /\ \/ disk.slots[1 - active] = header
          \/ disk.slots[1 - active].gen < file.slots[active].gen

Steady ==
  /\ TypeOK
  /\ FileOpens
  /\ pc # "down" => InMemory
  /\ Moves(Kept(disk), Kept(file), released)
  /\ may # {"crash"} => Twin

SpoolInv == Trusted => Steady
-----------------------------------------------------------------------------
(* Cells in order.                                                         *)

\* Every cell belongs to a record that begins at or before it.
LEMMA FirstOf ==
  ASSUME NEW u \in Nat, NEW q \in [0..(u - 1) -> Cell], Whole(q, u), NEW k \in 0..(u - 1)
  PROVE  /\ q[k].at \in Nat /\ q[k].rec.len \in Nat /\ q[k].rec.id \in Nat
         /\ k - q[k].at \in Firsts(q, u) /\ k - q[k].at <= k
         /\ q[k - q[k].at].rec = q[k].rec
<1>1. q[k] \in Cell
  OBVIOUS
<1>2. q[k].at \in Nat /\ q[k].rec.len \in Nat /\ q[k].rec.id \in Nat
  BY <1>1, SpoolConstants DEF Cell, Record, Ring
<1>. DEFINE b == k - q[k].at
<1>3. q[k].at <= k /\ q[k].at < q[k].rec.len
      /\ \A j \in 0..(q[k].rec.len - 1) : q[b + j] = [rec |-> q[k].rec, at |-> j]
  BY DEF Whole
<1>4. 0 \in 0..(q[k].rec.len - 1) /\ b \in 0..(u - 1) /\ b + 0 = b /\ b <= k
  BY <1>2, <1>3
<1>. HIDE DEF b
<1>5. q[b] = [rec |-> q[k].rec, at |-> 0]
  BY <1>3, <1>4
<1>6. q[b].at = 0 /\ q[b].rec = q[k].rec
  BY <1>5
<1>. QED
  BY <1>2, <1>4, <1>6 DEF Firsts, b

\* A record boundary separates older records from newer ones.
LEMMA Boundary ==
  ASSUME NEW u \in Nat, NEW q \in [0..(u - 1) -> Cell], Whole(q, u), InOrder(q, u),
         NEW n \in 0..u, n = u \/ q[n].at = 0
  PROVE  /\ \A k \in n..(u - 1) : n <= k - q[k].at
         /\ \A j \in 0..(n - 1), k \in n..(u - 1) : q[j].rec.id < q[k].rec.id
         /\ \A j \in 0..(n - 1) : \E b \in Firsts(q, u) : b < n /\ q[b].rec = q[j].rec
<1>1. ASSUME NEW k \in n..(u - 1) PROVE n <= k - q[k].at
  <2>1. SUFFICES ASSUME ~(n <= k - q[k].at) PROVE FALSE
    OBVIOUS
  <2>2. k \in 0..(u - 1) /\ n # u /\ q[n].at = 0
    OBVIOUS
  <2>3. q[k].at \in Nat /\ q[k].rec.len \in Nat
    BY <2>2, FirstOf
  <2>. DEFINE j == n - (k - q[k].at)
  <2>4. q[k].at <= k /\ q[k].at < q[k].rec.len
        /\ \A i \in 0..(q[k].rec.len - 1) : q[(k - q[k].at) + i] = [rec |-> q[k].rec, at |-> i]
    BY <2>2 DEF Whole
  <2>5. j \in 0..(q[k].rec.len - 1) /\ j # 0 /\ (k - q[k].at) + j = n
    <3>1. \A a, l \in Nat : a <= k /\ a < l /\ ~(n <= k - a) =>
            /\ n - (k - a) \in 0..(l - 1) /\ n - (k - a) # 0
            /\ (k - a) + (n - (k - a)) = n
      OBVIOUS
    <3>. QED
      BY <2>1, <2>3, <2>4, <3>1
  <2>. HIDE DEF j
  <2>6. q[n] = [rec |-> q[k].rec, at |-> j]
    BY <2>4, <2>5
  <2>. QED
    BY <2>2, <2>5, <2>6
<1>2. ASSUME NEW j \in 0..(n - 1)
      PROVE  j - q[j].at \in Firsts(q, u) /\ j - q[j].at < n /\ q[j - q[j].at].rec = q[j].rec
  <2>1. j \in 0..(u - 1)
    OBVIOUS
  <2>2. j - q[j].at \in Firsts(q, u) /\ j - q[j].at <= j /\ q[j].at \in Nat
        /\ q[j - q[j].at].rec = q[j].rec
    BY <2>1, FirstOf
  <2>. QED
    BY <2>2
<1>3. ASSUME NEW j \in 0..(n - 1), NEW k \in n..(u - 1) PROVE q[j].rec.id < q[k].rec.id
  <2>. DEFINE a == j - q[j].at
              b == k - q[k].at
  <2>1. a \in Firsts(q, u) /\ a < n /\ q[a].rec = q[j].rec
    BY <1>2
  <2>2. k \in 0..(u - 1)
    OBVIOUS
  <2>3. b \in Firsts(q, u) /\ q[b].rec = q[k].rec
    BY <2>2, FirstOf
  <2>4. n <= b
    BY <1>1
  <2>. HIDE DEF a, b
  <2>5. a \in Nat /\ b \in Nat
    BY <2>1, <2>3 DEF Firsts
  <2>6. a < b
    BY <2>1, <2>4, <2>5
  <2>7. q[a].rec.id < q[b].rec.id
    BY <2>1, <2>3, <2>6 DEF InOrder
  <2>. QED
    BY <2>1, <2>3, <2>7
<1>. QED
  BY <1>1, <1>2, <1>3

\* A removal at a record boundary leaves complete records in order.
LEMMA CutView ==
  ASSUME NEW u \in Nat, NEW q \in [0..(u - 1) -> Cell], Whole(q, u), InOrder(q, u),
         NEW n \in 0..u, n = u \/ q[n].at = 0,
         NEW p, p = [k \in 0..((u - n) - 1) |-> q[n + k]]
  PROVE  /\ p \in [0..((u - n) - 1) -> Cell]
         /\ Whole(p, u - n) /\ InOrder(p, u - n)
         /\ \A k : k \in Firsts(p, u - n) <=> k \in Nat /\ n + k \in Firsts(q, u)
<1>1. \A k \in 0..((u - n) - 1) : n + k \in n..(u - 1) /\ n + k \in 0..(u - 1) /\ p[k] = q[n + k]
  OBVIOUS
<1>2. p \in [0..((u - n) - 1) -> Cell]
  BY <1>1
<1>3. ASSUME NEW k \in 0..((u - n) - 1)
      PROVE  /\ p[k].at <= k /\ p[k].at < p[k].rec.len /\ (k - p[k].at) + p[k].rec.len <= u - n
             /\ \A j \in 0..(p[k].rec.len - 1) : p[(k - p[k].at) + j] = [rec |-> p[k].rec, at |-> j]
  <2>. DEFINE c == q[n + k]
  <2>1. n + k \in n..(u - 1) /\ n + k \in 0..(u - 1) /\ p[k] = c
    BY <1>1
  <2>2. /\ c.at < c.rec.len /\ ((n + k) - c.at) + c.rec.len <= u
        /\ \A j \in 0..(c.rec.len - 1) : q[((n + k) - c.at) + j] = [rec |-> c.rec, at |-> j]
    BY <2>1 DEF Whole
  <2>3. c.at \in Nat /\ c.rec.len \in Nat
    BY <2>1, FirstOf
  <2>4. n <= (n + k) - c.at
    BY <2>1, Boundary
  <2>. HIDE DEF c
  <2>5. c.at <= k /\ (k - c.at) + c.rec.len <= u - n
    BY <2>2, <2>3, <2>4
  <2>6. ASSUME NEW j \in 0..(c.rec.len - 1)
        PROVE  p[(k - c.at) + j] = [rec |-> c.rec, at |-> j]
    <3>1. (k - c.at) + j \in 0..((u - n) - 1) /\ n + ((k - c.at) + j) = ((n + k) - c.at) + j
      <4>1. \A a, l \in Nat : a <= k /\ (k - a) + l <= u - n =>
              \A i \in 0..(l - 1) : /\ (k - a) + i \in 0..((u - n) - 1)
                                   /\ n + ((k - a) + i) = ((n + k) - a) + i
        OBVIOUS
      <4>. QED
        BY <2>3, <2>5, <4>1
    <3>2. p[(k - c.at) + j] = q[n + ((k - c.at) + j)]
      BY <1>1, <3>1
    <3>. QED
      BY <2>2, <3>1, <3>2
  <2>. QED
    BY <2>1, <2>2, <2>5, <2>6
<1>4. Whole(p, u - n)
  BY <1>3 DEF Whole
<1>5. \A k : k \in Firsts(p, u - n) <=> k \in Nat /\ n + k \in Firsts(q, u)
  <2>1. \A k : k \in 0..((u - n) - 1) <=> k \in Nat /\ n + k \in 0..(u - 1)
    OBVIOUS
  <2>. QED
    BY <1>1, <2>1 DEF Firsts
<1>6. ASSUME NEW j \in Firsts(p, u - n), NEW k \in Firsts(p, u - n), j < k
      PROVE  p[j].rec.id < p[k].rec.id
  <2>1. n + j \in Firsts(q, u) /\ n + k \in Firsts(q, u) /\ j \in Nat /\ k \in Nat
    BY <1>5, <1>6
  <2>2. n + j < n + k
    BY <1>6, <2>1
  <2>3. q[n + j].rec.id < q[n + k].rec.id
    BY <2>1, <2>2 DEF InOrder
  <2>4. p[j] = q[n + j] /\ p[k] = q[n + k]
    BY <1>1, <1>6 DEF Firsts
  <2>. QED
    BY <2>3, <2>4
<1>. QED
  BY <1>2, <1>4, <1>5, <1>6 DEF InOrder

\* What is left begins as many records as there were, less those that were removed.
LEMMA CutCount ==
  ASSUME NEW u \in Nat, NEW S \in SUBSET (0..(u - 1)), NEW n \in 0..u, NEW T,
         \A k : k \in T <=> k \in Nat /\ n + k \in S
  PROVE  /\ IsFiniteSet(S) /\ IsFiniteSet(T)
         /\ Cardinality(T) = Cardinality(S) - Cardinality(S \cap (0..(n - 1)))
<1>1. IsFiniteSet(S)
  <2>1. IsFiniteSet(0..(u - 1))
    BY FS_Interval
  <2>. QED
    BY <2>1, FS_Subset
<1>. DEFINE rest == S \ (0..(n - 1))
            back == [j \in rest |-> j - n]
<1>2. IsFiniteSet(rest) /\ Cardinality(rest) = Cardinality(S) - Cardinality(S \cap (0..(n - 1)))
  BY <1>1, FS_Difference
<1>3. \A j \in rest : j - n \in Nat /\ n + (j - n) = j /\ j - n \in T
  OBVIOUS
<1>4. \A k \in T : n + k \in rest /\ (n + k) - n = k
  OBVIOUS
<1>5. back \in Bijection(rest, T)
  <2>1. back \in [rest -> T]
    BY <1>3
  <2>2. \A i, j \in rest : back[i] = back[j] => i = j
    BY <1>3
  <2>3. \A k \in T : \E j \in rest : back[j] = k
    BY <1>4
  <2>. HIDE DEF back, rest
  <2>. QED
    BY <2>1, <2>2, <2>3 DEF Bijection, Injection, Surjection, IsInjective
<1>6. ExistsBijection(rest, T)
  BY <1>5 DEF ExistsBijection
<1>. HIDE DEF rest, back
<1>7. IsFiniteSet(T) /\ Cardinality(T) = Cardinality(rest)
  BY <1>2, <1>6, FS_Bijection
<1>. QED
  BY <1>1, <1>2, <1>7

\* The records of the first n cells
Belong(q, n) == {q[k].rec : k \in 0..(n - 1)}

\* p has the u cells of q, and behind them record r, newer than the others.
Joined(p, q, u, r, len) ==
  /\ r.len = len
  /\ \A k \in 0..(u - 1) : p[k] = q[k] /\ q[k].rec.id < r.id
  /\ \A j \in 0..(len - 1) : p[u + j] = [rec |-> r, at |-> j]

\* A record behind the others
LEMMA AddView ==
  ASSUME NEW u \in Nat, NEW q \in [0..(u - 1) -> Cell], Whole(q, u), InOrder(q, u),
         NEW r \in Record, NEW len \in Nat \ {0}, NEW p, Joined(p, q, u, r, len)
  PROVE  /\ Whole(p, u + len) /\ InOrder(p, u + len)
         /\ Firsts(p, u + len) = Firsts(q, u) \cup {u}
         /\ Belong(p, u + len) = Belong(q, u) \cup {r}
<1>0. /\ r.len = len
      /\ \A k \in 0..(u - 1) : p[k] = q[k] /\ q[k].rec.id < r.id
      /\ \A j \in 0..(len - 1) : p[u + j] = [rec |-> r, at |-> j]
  BY DEF Joined
<1>1. \A k \in 0..((u + len) - 1) : k \in 0..(u - 1) \/ (k - u \in 0..(len - 1) /\ u + (k - u) = k)
  OBVIOUS
<1>2. ASSUME NEW k \in 0..((u + len) - 1), k \notin 0..(u - 1)
      PROVE  p[k].rec = r /\ p[k].at = k - u
  <2>1. p[u + (k - u)] = [rec |-> r, at |-> k - u]
    BY <1>0, <1>1, <1>2
  <2>. QED
    BY <1>1, <1>2, <2>1
<1>3. ASSUME NEW k \in 0..((u + len) - 1)
      PROVE  /\ p[k].at <= k /\ p[k].at < p[k].rec.len /\ (k - p[k].at) + p[k].rec.len <= u + len
             /\ \A j \in 0..(p[k].rec.len - 1) : p[(k - p[k].at) + j] = [rec |-> p[k].rec, at |-> j]
  <2>1. CASE k \in 0..(u - 1)
    <3>. DEFINE c == q[k]
    <3>1. /\ c.at <= k /\ c.at < c.rec.len /\ (k - c.at) + c.rec.len <= u
          /\ \A j \in 0..(c.rec.len - 1) : q[(k - c.at) + j] = [rec |-> c.rec, at |-> j]
      BY <2>1 DEF Whole
    <3>2. c.at \in Nat /\ c.rec.len \in Nat
      BY <2>1, FirstOf
    <3>3. p[k] = c
      BY <1>0, <2>1
    <3>. HIDE DEF c
    <3>4. \A a, l \in Nat : a <= k /\ (k - a) + l <= u =>
            /\ (k - a) + l <= u + len
            /\ \A i \in 0..(l - 1) : (k - a) + i \in 0..(u - 1)
      BY <2>1
    <3>5. (k - c.at) + c.rec.len <= u + len
          /\ \A i \in 0..(c.rec.len - 1) : (k - c.at) + i \in 0..(u - 1)
      BY <3>1, <3>2, <3>4
    <3>6. \A j \in 0..(c.rec.len - 1) : p[(k - c.at) + j] = [rec |-> c.rec, at |-> j]
      BY <1>0, <3>1, <3>5
    <3>. QED
      BY <3>1, <3>3, <3>5, <3>6
  <2>2. CASE k \notin 0..(u - 1)
    <3>1. p[k].rec = r /\ p[k].at = k - u
      BY <1>2, <2>2
    <3>2. k - u \in 0..(len - 1) /\ k - (k - u) = u
      BY <1>1, <2>2
    <3>3. k - u <= k /\ k - u < len
      BY <3>2
    <3>. QED
      BY <1>0, <3>1, <3>2, <3>3
  <2>. QED
    BY <2>1, <2>2
<1>4. Whole(p, u + len)
  BY <1>0, <1>3 DEF Whole
<1>5. Firsts(p, u + len) = Firsts(q, u) \cup {u}
  <2>1. ASSUME NEW k \in 0..((u + len) - 1)
        PROVE  k \in Firsts(p, u + len) <=> k \in Firsts(q, u) \cup {u}
    <3>1. CASE k \in 0..(u - 1)
      BY <1>0, <3>1 DEF Firsts
    <3>2. CASE k \notin 0..(u - 1)
      <4>1. p[k].at = k - u
        BY <1>2, <3>2
      <4>2. k - u = 0 <=> k = u
        OBVIOUS
      <4>3. p[k].at = 0 <=> k = u
        BY <4>1, <4>2
      <4>. QED
        BY <3>2, <4>3 DEF Firsts
    <3>. QED
      BY <3>1, <3>2
  <2>2. u \in 0..((u + len) - 1) /\ 0..(u - 1) \subseteq 0..((u + len) - 1)
    OBVIOUS
  <2>. QED
    BY <2>1, <2>2 DEF Firsts
<1>6. \A j, k \in Firsts(p, u + len) : j < k => p[j].rec.id < p[k].rec.id
  <2>1. SUFFICES ASSUME NEW j \in Firsts(q, u) \cup {u}, NEW k \in Firsts(q, u) \cup {u}, j < k
                 PROVE  p[j].rec.id < p[k].rec.id
    BY <1>5
  <2>2. Firsts(q, u) \subseteq 0..(u - 1)
    BY DEF Firsts
  <2>3. j \in 0..(u - 1) /\ j \in Firsts(q, u) /\ p[j] = q[j]
    BY <1>0, <2>1, <2>2
  <2>4. CASE k \in Firsts(q, u)
    <3>1. p[k] = q[k] /\ q[j].rec.id < q[k].rec.id
      BY <1>0, <2>1, <2>2, <2>3, <2>4 DEF InOrder
    <3>. QED
      BY <2>3, <3>1
  <2>5. CASE k = u
    <3>1. u \in 0..((u + len) - 1) /\ u \notin 0..(u - 1)
      OBVIOUS
    <3>2. p[u].rec = r
      BY <1>2, <3>1
    <3>. QED
      BY <1>0, <2>3, <2>5, <3>2
  <2>. QED
    BY <2>4, <2>5
<1>7. Belong(p, u + len) = Belong(q, u) \cup {r}
  <2>1. 0..(u - 1) \subseteq 0..((u + len) - 1) /\ u \in 0..((u + len) - 1) /\ u \notin 0..(u - 1)
    OBVIOUS
  <2>2. p[u].rec = r
    BY <1>2, <2>1
  <2>. QED
    BY <1>0, <1>2, <2>1, <2>2 DEF Belong
<1>. QED
  BY <1>4, <1>5, <1>6, <1>7 DEF InOrder
-----------------------------------------------------------------------------
(* The ring.                                                               *)

\* Positions of the ring
LEMMA WrapType ==
  /\ Cells \in Nat \ {0}
  /\ \A p \in Nat : p < Cells + Cells => Wrap(p) \in Ring
  /\ \A a, b \in Nat : a + b < Cells + Cells => Wrap(Wrap(a) + b) = Wrap(a + b)
<1>1. Cells \in Nat \ {0}
  BY SpoolConstants
<1>2. \A p \in Nat : p < Cells + Cells => Wrap(p) \in Ring
  BY <1>1 DEF Wrap, Ring
<1>3. ASSUME NEW a \in Nat, NEW b \in Nat, a + b < Cells + Cells
      PROVE  Wrap(Wrap(a) + b) = Wrap(a + b)
  BY <1>1, <1>3 DEF Wrap
<1>. QED
  BY <1>1, <1>2, <1>3

\* What a header says, in numbers
LEMMA HeaderType ==
  ASSUME NEW h \in Header
  PROVE  /\ h.gen \in Nat /\ h.head \in Nat /\ h.head < Cells /\ h.tail \in Ring
         /\ h.used \in Nat /\ h.used <= Cells /\ h.count \in Nat
         /\ Used(h) = 0..(h.used - 1)
         /\ \A k \in Used(h) : k \in Nat /\ h.head + k < Cells + Cells
BY WrapType DEF Header, Ring, Used

\* The view of a ring's cells
LEMMA ViewType ==
  ASSUME NEW cells \in [Ring -> Cell], NEW h \in Header
  PROVE  /\ View(cells, h) \in [0..(h.used - 1) -> Cell]
         /\ \A k \in Used(h) : View(cells, h)[k] = CellOf(cells, h, k)
         /\ Begins(cells, h) = Firsts(View(cells, h), h.used)
         /\ RecordsOf(cells, h) = {View(cells, h)[k].rec : k \in 0..(h.used - 1)}
         /\ RecordsOf(cells, h) \subseteq Record
         /\ \A r \in RecordsOf(cells, h) : r.id \in Nat
<1>1. \A k \in Used(h) : CellOf(cells, h, k) \in Cell /\ CellOf(cells, h, k).rec \in Record
  <2>1. SUFFICES ASSUME NEW k \in Used(h)
                 PROVE  CellOf(cells, h, k) \in Cell /\ CellOf(cells, h, k).rec \in Record
    OBVIOUS
  <2>2. Wrap(h.head + k) \in Ring
    BY HeaderType, WrapType
  <2>3. CellOf(cells, h, k) \in Cell
    BY <2>2 DEF CellOf
  <2>. QED
    BY <2>3 DEF Cell
<1>2. Used(h) = 0..(h.used - 1)
  BY DEF Used
<1>3. \A k \in Used(h) : View(cells, h)[k] = CellOf(cells, h, k)
  BY DEF View
<1>4. View(cells, h) \in [0..(h.used - 1) -> Cell]
  BY <1>1, <1>2 DEF View
<1>5. Begins(cells, h) = Firsts(View(cells, h), h.used)
  BY <1>2, <1>3 DEF Begins, Firsts
<1>6. RecordsOf(cells, h) = {View(cells, h)[k].rec : k \in 0..(h.used - 1)}
  BY <1>2, <1>3 DEF RecordsOf
<1>7. RecordsOf(cells, h) \subseteq Record
  BY <1>1 DEF RecordsOf
<1>8. \A r \in Record : r.id \in Nat
  BY DEF Record
<1>. QED
  BY <1>3, <1>4, <1>5, <1>6, <1>7, <1>8

\* A header that holds is sound: its spool opens.
LEMMA HoldsSound ==
  ASSUME NEW cells \in [Ring -> Cell], NEW h \in Header, NEW limit, Holds(cells, h, limit)
  PROVE  Sound(cells, h)
<1>. DEFINE q == View(cells, h)
            u == h.used
<1>1. /\ u \in Nat /\ q \in [0..(u - 1) -> Cell] /\ Whole(q, u) /\ Used(h) = 0..(u - 1)
      /\ \A k \in Used(h) : q[k] = CellOf(cells, h, k)
  BY HeaderType, ViewType DEF Holds
<1>2. u <= Cells /\ h.head \in Nat /\ h.head < Cells
  BY HeaderType
<1>. HIDE DEF q, u
<1>3. ASSUME NEW k \in Used(h)
      PROVE  LET c == CellOf(cells, h, k)
             IN  /\ c.at <= k
                 /\ Readable(cells, Wrap(h.head + (k - c.at)), h.used - (k - c.at))
                 /\ CellOf(cells, h, k - c.at).rec = c.rec
  <2>. DEFINE c == q[k]
              b == k - c.at
  <2>1. c = CellOf(cells, h, k) /\ k \in 0..(u - 1) /\ k \in Nat
    BY <1>1
  <2>2. c.at <= k /\ c.at < c.rec.len /\ b + c.rec.len <= u
        /\ \A j \in 0..(c.rec.len - 1) : q[b + j] = [rec |-> c.rec, at |-> j]
    BY <1>1, <2>1 DEF Whole
  <2>3. c.at \in Nat /\ c.rec.len \in Nat /\ b \in Firsts(q, u) /\ q[b].rec = c.rec
    BY <1>1, <2>1, FirstOf
  <2>4. b \in 0..(u - 1) /\ b \in Used(h)
    BY <1>1, <2>3 DEF Firsts
  <2>5. CellOf(cells, h, b).rec = c.rec
    BY <1>1, <2>3, <2>4
  <2>. HIDE DEF c, b
  <2>. DEFINE p == Wrap(h.head + b)
  <2>6. cells[p].rec = c.rec
    BY <2>5 DEF CellOf
  <2>7. c.rec.len \in 1..(u - b)
    BY <1>1, <2>2, <2>3, <2>4
  <2>8. ASSUME NEW j \in 0..(c.rec.len - 1)
        PROVE  cells[Wrap(p + j)] = [rec |-> c.rec, at |-> j]
    <3>1. b + j \in 0..(u - 1) /\ b + j \in Used(h) /\ j \in Nat /\ b \in Nat
      BY <1>1, <2>2, <2>3, <2>4
    <3>2. (h.head + b) + j < Cells + Cells /\ (h.head + b) + j = h.head + (b + j)
          /\ h.head + b \in Nat
      <4>1. \A hd, d, i \in Nat : hd < Cells /\ d + i < Cells =>
              /\ (hd + d) + i < Cells + Cells /\ (hd + d) + i = hd + (d + i)
              /\ hd + d \in Nat
        BY WrapType
      <4>2. b + j < Cells
        BY <1>1, <1>2, <3>1, WrapType
      <4>. QED
        BY <1>2, <3>1, <4>1, <4>2
    <3>3. Wrap(p + j) = Wrap(h.head + (b + j))
      BY <3>1, <3>2, WrapType
    <3>4. q[b + j] = cells[Wrap(h.head + (b + j))]
      BY <1>1, <3>1 DEF CellOf
    <3>. QED
      BY <2>2, <3>3, <3>4
  <2>9. Readable(cells, p, u - b)
    BY <2>6, <2>7, <2>8 DEF Readable
  <2>. QED
    BY <2>1, <2>2, <2>5, <2>9 DEF b, c, u
<1>. QED
  BY <1>3 DEF Sound, Holds, Counts

\* The slot with the newest header is opened, and its records are what is found.
LEMMA KeptIs ==
  ASSUME NEW image \in Image, NEW s \in Slots, NewestIs(image.slots, s),
         NEW limit, Holds(image.cells, image.slots[s], limit)
  PROVE  /\ Newest(image.slots) = s /\ Opens(image)
         /\ Kept(image) = RecordsOf(image.cells, image.slots[s])
<1>1. /\ image.slots \in [Slots -> Header] /\ image.cells \in [Ring -> Cell]
      /\ 1 - s \in Slots /\ Slots = {s, 1 - s} /\ s # 1 - s
  BY DEF Image, Slots
<1>2. image.slots[s] \in Header /\ image.slots[s].gen \in Nat /\ image.slots[1 - s].gen \in Nat
  BY <1>1, HeaderType
<1>3. s \in Valid(image.slots)
  BY DEF Valid, NewestIs
<1>4. \A t \in Valid(image.slots) : image.slots[t].gen <= image.slots[s].gen
  BY <1>1, <1>2 DEF Valid, NewestIs
<1>5. \A t \in Valid(image.slots) :
        (\A n \in Valid(image.slots) : image.slots[n].gen <= image.slots[t].gen) => t = s
  BY <1>1, <1>2, <1>3 DEF Valid, NewestIs
<1>6. Newest(image.slots) = s
  BY <1>3, <1>4, <1>5 DEF Newest
<1>7. Sound(image.cells, image.slots[s])
  BY <1>1, <1>2, HoldsSound
<1>8. OpenedWith(image) = {image.slots[s]}
  BY <1>3, <1>6, <1>7 DEF OpenedWith
<1>. QED
  BY <1>6, <1>8 DEF Opens, Kept

\* Only the used cells matter.
LEMMA Agreement ==
  ASSUME NEW cells, NEW others, NEW h, NEW limit,
         \A k \in Used(h) : CellOf(others, h, k) = CellOf(cells, h, k)
  PROVE  /\ RecordsOf(others, h) = RecordsOf(cells, h)
         /\ Holds(others, h, limit) <=> Holds(cells, h, limit)
<1>1. View(others, h) = View(cells, h)
  BY DEF View
<1>2. RecordsOf(others, h) = RecordsOf(cells, h)
  BY DEF RecordsOf
<1>3. Begins(others, h) = Begins(cells, h)
  BY DEF Begins
<1>. QED
  BY <1>1, <1>2, <1>3 DEF Holds, Counts, Below

\* Header g lacks only records of h that begin in its first n used cells, all of them older
\* than those it has.
CutsOff(cells, h, g, n) ==
  \A r \in RecordsOf(cells, h) \ RecordsOf(cells, g) :
    /\ \E b \in Begins(cells, h) \cap (0..(n - 1)) : r = CellOf(cells, h, b).rec
    /\ \A s \in RecordsOf(cells, g) : r.id < s.id

\* A header without the records in the first n used cells holds as well.
LEMMA CutHolds ==
  ASSUME NEW cells \in [Ring -> Cell], NEW h \in Header, NEW limit, Holds(cells, h, limit),
         NEW n \in 0..h.used, n = h.used \/ CellOf(cells, h, n).at = 0,
         NEW m, m = Cardinality(Begins(cells, h) \cap (0..(n - 1))),
         NEW g, g = Without(h, n, m)
  PROVE  /\ g \in Header /\ g.gen = h.gen + 1 /\ Holds(cells, g, limit)
         /\ RecordsOf(cells, g) \subseteq RecordsOf(cells, h) /\ CutsOff(cells, h, g, n)
<1>. DEFINE q == View(cells, h)
            u == h.used
            S == Begins(cells, h)
<1>1. /\ u \in Nat /\ q \in [0..(u - 1) -> Cell] /\ Whole(q, u) /\ InOrder(q, u)
      /\ Used(h) = 0..(u - 1) /\ S = Firsts(q, u)
      /\ \A k \in Used(h) : q[k] = CellOf(cells, h, k)
      /\ h.count = Cardinality(S) /\ h.tail = Wrap(h.head + u) /\ h.tail \in Ring
      /\ h.gen \in Nat /\ h.count \in Nat
  BY HeaderType, ViewType DEF Holds, Counts
<1>2. u <= Cells /\ h.head \in Nat /\ h.head < Cells /\ n \in Nat /\ n <= u
  BY HeaderType
<1>3. S \in SUBSET (0..(u - 1))
  BY <1>1 DEF Firsts
<1>4. n = u \/ q[n].at = 0
  <2>1. n # u => n \in Used(h)
    BY <1>1
  <2>. QED
    BY <1>1, <2>1
<1>. HIDE DEF q, u, S
<1>5. n \in 0..u
  BY <1>1, <1>2
<1>. DEFINE p == [k \in 0..((u - n) - 1) |-> q[n + k]]
<1>6. /\ Whole(p, u - n) /\ InOrder(p, u - n)
      /\ \A k : k \in Firsts(p, u - n) <=> k \in Nat /\ n + k \in Firsts(q, u)
  <2>. HIDE DEF p
  <2>1. p = [k \in 0..((u - n) - 1) |-> q[n + k]]
    BY DEF p
  <2>. QED
    BY <1>1, <1>4, <1>5, <2>1, CutView
<1>. HIDE DEF p
<1>7. /\ IsFiniteSet(S) /\ IsFiniteSet(Firsts(p, u - n))
      /\ Cardinality(Firsts(p, u - n)) = Cardinality(S) - Cardinality(S \cap (0..(n - 1)))
  <2>1. PICK T : T = Firsts(p, u - n)
    OBVIOUS
  <2>2. \A k : k \in T <=> k \in Nat /\ n + k \in S
    BY <1>1, <1>6, <2>1
  <2>3. /\ IsFiniteSet(S) /\ IsFiniteSet(T)
        /\ Cardinality(T) = Cardinality(S) - Cardinality(S \cap (0..(n - 1)))
    <3>1. u \in Nat
      BY <1>1
    <3>. QED
      BY <1>3, <1>5, <2>2, <3>1, CutCount
  <2>. QED
    BY <2>1, <2>3
<1>8. /\ \A k \in n..(u - 1) : n <= k - q[k].at
      /\ \A j \in 0..(n - 1), k \in n..(u - 1) : q[j].rec.id < q[k].rec.id
      /\ \A j \in 0..(n - 1) : \E b \in Firsts(q, u) : b < n /\ q[b].rec = q[j].rec
  BY <1>1, <1>4, <1>5, Boundary
<1>9. h.count = m => n = u
  <2>1. SUFFICES ASSUME h.count = m, n # u PROVE FALSE
    OBVIOUS
  <2>2. S \cap (0..(n - 1)) \in SUBSET S /\ Cardinality(S \cap (0..(n - 1))) = Cardinality(S)
    BY <1>1, <2>1 DEF S
  <2>3. S = S \cap (0..(n - 1))
    BY <1>7, <2>2, FS_Subset
  <2>4. n \in Firsts(q, u) /\ n \notin 0..(n - 1)
    BY <1>1, <1>2, <1>4, <2>1 DEF Firsts
  <2>. QED
    BY <1>1, <2>3, <2>4
<1>10. n = u => h.count = m
  <2>1. S \cap (0..(u - 1)) = S
    BY <1>3
  <2>. QED
    BY <1>1, <2>1 DEF S
<1>11. m \in Nat /\ m <= h.count
  <2>1. S \cap (0..(n - 1)) \in SUBSET S
    OBVIOUS
  <2>2. IsFiniteSet(S \cap (0..(n - 1))) /\ Cardinality(S \cap (0..(n - 1))) <= Cardinality(S)
    BY <1>7, <2>1, FS_Subset
  <2>3. Cardinality(S \cap (0..(n - 1))) \in Nat
    BY <2>2, FS_CardinalityType
  <2>. QED
    BY <1>1, <2>2, <2>3 DEF S
<1>12. /\ g.gen = h.gen + 1 /\ g.used = u - n /\ g.count = h.count - m /\ g.tail = h.tail
       /\ g.head = Wrap(h.head + n)
  <2>1. CASE h.count = m
    BY <1>1, <1>2, <1>9, <2>1 DEF Without, u
  <2>2. CASE h.count # m
    BY <1>1, <1>2, <2>2 DEF Without, u
  <2>. QED
    BY <2>1, <2>2
<1>13. h.head + n \in Nat /\ h.head + n < Cells + Cells /\ g.head \in Ring
  <2>1. \A hd \in Nat : hd < Cells => hd + n \in Nat /\ hd + n < Cells + Cells
    BY <1>1, <1>2, WrapType
  <2>2. h.head + n \in Nat /\ h.head + n < Cells + Cells
    BY <1>2, <2>1
  <2>3. Wrap(h.head + n) \in Ring
    BY <2>2, WrapType
  <2>. QED
    BY <1>12, <2>2, <2>3
<1>14. g \in Header
  <2>1. g = [gen |-> g.gen, head |-> g.head, tail |-> g.tail, used |-> g.used, count |-> g.count]
    BY DEF Without
  <2>2. g.gen \in Nat /\ g.used \in 0..Cells /\ g.count \in 0..Cells
    <3>1. h.count \in 0..Cells
      BY DEF Header
    <3>2. g.gen \in Nat
      BY <1>1, <1>12
    <3>3. \A c \in 0..Cells : \A i \in Nat : i <= c => c - i \in 0..Cells
      BY WrapType
    <3>4. u \in 0..Cells
      BY <1>1, <1>2, WrapType
    <3>5. u - n \in 0..Cells
      BY <1>2, <3>3, <3>4
    <3>6. h.count - m \in 0..Cells
      BY <1>11, <3>1, <3>3
    <3>. QED
      BY <1>12, <3>2, <3>5, <3>6
  <2>. QED
    BY <1>1, <1>12, <1>13, <2>1, <2>2 DEF Header
<1>15. Used(g) = 0..((u - n) - 1)
  BY <1>12 DEF Used
<1>16. ASSUME NEW k \in 0..((u - n) - 1)
       PROVE  n + k \in Used(h) /\ CellOf(cells, g, k) = CellOf(cells, h, n + k)
              /\ CellOf(cells, g, k) = q[n + k]
  <2>1. n + k \in 0..(u - 1) /\ k \in Nat
    BY <1>2, <1>1
  <2>2. \A hd \in Nat : hd < Cells =>
          (hd + n) + k < Cells + Cells /\ (hd + n) + k = hd + (n + k) /\ hd + n \in Nat
    BY <1>1, <1>2, <2>1, WrapType
  <2>3. Wrap(g.head + k) = Wrap(h.head + (n + k))
    <3>1. (h.head + n) + k < Cells + Cells /\ (h.head + n) + k = h.head + (n + k)
          /\ h.head + n \in Nat
      BY <1>2, <2>2
    <3>2. Wrap(Wrap(h.head + n) + k) = Wrap((h.head + n) + k)
      BY <2>1, <3>1, WrapType
    <3>. QED
      BY <1>12, <3>1, <3>2
  <2>4. n + k \in Used(h)
    BY <1>1, <2>1
  <2>. QED
    BY <1>1, <2>3, <2>4 DEF CellOf
<1>17. View(cells, g) = p
  BY <1>15, <1>16 DEF View, p
<1>18. Firsts(p, u - n) = Begins(cells, g)
  BY <1>12, <1>14, <1>17, ViewType
<1>19. g.tail = Wrap(g.head + g.used)
  <2>1. \A hd \in Nat : hd < Cells =>
          (hd + n) + (u - n) < Cells + Cells /\ (hd + n) + (u - n) = hd + u /\ hd + n \in Nat
    BY <1>1, <1>2, WrapType
  <2>2. u - n \in Nat
    BY <1>1, <1>2
  <2>. QED
    <3>1. (h.head + n) + (u - n) < Cells + Cells /\ (h.head + n) + (u - n) = h.head + u
          /\ h.head + n \in Nat
      BY <1>2, <2>1
    <3>2. Wrap(Wrap(h.head + n) + (u - n)) = Wrap((h.head + n) + (u - n))
      BY <2>2, <3>1, WrapType
    <3>. QED
      BY <1>1, <1>12, <3>1, <3>2
<1>20. Counts(cells, g)
  BY <1>1, <1>7, <1>12, <1>18, <1>19 DEF Counts, S
<1>21. RecordsOf(cells, g) \subseteq RecordsOf(cells, h)
  <2>1. SUFFICES ASSUME NEW k \in Used(g) PROVE CellOf(cells, g, k).rec \in RecordsOf(cells, h)
    BY DEF RecordsOf
  <2>2. n + k \in Used(h) /\ CellOf(cells, g, k) = CellOf(cells, h, n + k)
    BY <1>15, <1>16
  <2>. QED
    BY <2>2 DEF RecordsOf
<1>22. Holds(cells, g, limit)
  BY <1>6, <1>12, <1>17, <1>20, <1>21 DEF Holds, Below
<1>23. ASSUME NEW r \in RecordsOf(cells, h) \ RecordsOf(cells, g)
       PROVE  /\ \E b \in S \cap (0..(n - 1)) : r = CellOf(cells, h, b).rec
              /\ \A s \in RecordsOf(cells, g) : r.id < s.id
  <2>1. PICK j \in Used(h) : r = CellOf(cells, h, j).rec
    BY DEF RecordsOf
  <2>2. j \in 0..(n - 1)
    <3>1. SUFFICES ASSUME j \notin 0..(n - 1) PROVE FALSE
      OBVIOUS
    <3>2. j - n \in 0..((u - n) - 1) /\ n + (j - n) = j
      BY <1>1, <1>2, <3>1
    <3>3. CellOf(cells, g, j - n) = CellOf(cells, h, j)
      BY <1>16, <3>2
    <3>. QED
      BY <1>15, <2>1, <3>2, <3>3 DEF RecordsOf
  <2>3. PICK b \in Firsts(q, u) : b < n /\ q[b].rec = q[j].rec
    BY <1>8, <2>2
  <2>4. b \in S \cap (0..(n - 1)) /\ b \in Used(h)
    BY <1>1, <1>2, <2>3 DEF Firsts
  <2>5. r = CellOf(cells, h, b).rec
    BY <1>1, <2>1, <2>3, <2>4
  <2>6. ASSUME NEW s \in RecordsOf(cells, g) PROVE r.id < s.id
    <3>1. PICK k \in 0..((u - n) - 1) : s = CellOf(cells, g, k).rec
      BY <1>15 DEF RecordsOf
    <3>2. s = q[n + k].rec /\ n + k \in n..(u - 1)
      <4>1. n + k \in n..(u - 1)
        BY <1>1, <1>2
      <4>. QED
        BY <1>16, <3>1, <4>1
    <3>3. q[j].rec.id < q[n + k].rec.id
      BY <1>8, <2>2, <3>2
    <3>. QED
      BY <1>1, <2>1, <3>2, <3>3
  <2>. QED
    BY <2>4, <2>5, <2>6
<1>24. CutsOff(cells, h, g, n)
  BY <1>23 DEF CutsOff, S
<1>. QED
  BY <1>12, <1>14, <1>21, <1>22, <1>24

\* A header that counts the record behind its used cells holds as well.
LEMMA AddHolds ==
  ASSUME NEW cells \in [Ring -> Cell], NEW h \in Header, NEW limit, Holds(cells, h, limit),
         NEW r, r = cells[h.tail].rec, r.len \in 1..(Cells - h.used), r.id < limit,
         \A s \in RecordsOf(cells, h) : s.id < r.id,
         \A j \in 0..(r.len - 1) : cells[Wrap(h.tail + j)] = [rec |-> r, at |-> j],
         NEW g, g = [gen |-> h.gen + 1, head |-> h.head, tail |-> Wrap(h.tail + r.len),
                     used |-> h.used + r.len, count |-> h.count + 1]
  PROVE  /\ g \in Header /\ g.gen = h.gen + 1 /\ g.used # 0 /\ Holds(cells, g, limit)
         /\ RecordsOf(cells, g) = RecordsOf(cells, h) \cup {r}
<1>. DEFINE q == View(cells, h)
            p == View(cells, g)
            u == h.used
            l == r.len
<1>1. /\ u \in Nat /\ q \in [0..(u - 1) -> Cell] /\ Whole(q, u) /\ InOrder(q, u)
      /\ Used(h) = 0..(u - 1) /\ Begins(cells, h) = Firsts(q, u)
      /\ \A k \in Used(h) : q[k] = CellOf(cells, h, k)
      /\ h.count = Cardinality(Begins(cells, h)) /\ h.tail = Wrap(h.head + u) /\ h.tail \in Ring
      /\ h.gen \in Nat /\ h.count \in Nat
  BY HeaderType, ViewType DEF Holds, Counts
<1>2. u <= Cells /\ h.head \in Nat /\ h.head < Cells /\ Cells \in Nat
  BY HeaderType, WrapType
<1>3. r \in Record
  BY <1>1 DEF Cell
<1>4. l \in Nat \ {0} /\ u + l <= Cells /\ u + l \in Nat
  BY <1>1, <1>2
<1>5. /\ g.gen = h.gen + 1 /\ g.head = h.head /\ g.tail = Wrap(h.tail + l)
      /\ g.used = u + l /\ g.count = h.count + 1
  OBVIOUS
<1>6. Used(g) = 0..((u + l) - 1)
  BY <1>5 DEF Used
<1>. HIDE DEF q, p, u, l
<1>7. \A k \in 0..((u + l) - 1) :
        p[k] = CellOf(cells, g, k) /\ CellOf(cells, g, k) = CellOf(cells, h, k)
  BY <1>5, <1>6 DEF p, View, CellOf
<1>8. \A k \in 0..(u - 1) : p[k] = q[k]
  <2>1. \A k \in 0..(u - 1) : k \in 0..((u + l) - 1)
    BY <1>1, <1>4
  <2>. QED
    BY <1>1, <1>7, <2>1
<1>9. ASSUME NEW j \in 0..(l - 1) PROVE p[u + j] = [rec |-> r, at |-> j]
  <2>1. u + j \in 0..((u + l) - 1) /\ j \in Nat
    BY <1>1, <1>4
  <2>2. \A hd \in Nat : hd < Cells =>
          (hd + u) + j < Cells + Cells /\ (hd + u) + j = hd + (u + j) /\ hd + u \in Nat
    <3>1. \A c, v, i, hd \in Nat : hd < c /\ v + i < c =>
            (hd + v) + i < c + c /\ (hd + v) + i = hd + (v + i) /\ hd + v \in Nat
      OBVIOUS
    <3>2. u + j < Cells
      BY <1>1, <1>2, <1>4, <2>1
    <3>. QED
      BY <1>1, <1>2, <2>1, <3>1, <3>2
  <2>3. (h.head + u) + j < Cells + Cells /\ (h.head + u) + j = h.head + (u + j)
        /\ h.head + u \in Nat
    BY <1>2, <2>2
  <2>4. Wrap(Wrap(h.head + u) + j) = Wrap((h.head + u) + j)
    BY <2>1, <2>3, WrapType
  <2>5. cells[Wrap(h.tail + j)] = [rec |-> r, at |-> j]
    BY DEF l
  <2>. QED
    BY <1>1, <1>7, <2>1, <2>3, <2>4, <2>5 DEF CellOf
<1>10. \A k \in 0..(u - 1) : q[k].rec \in RecordsOf(cells, h)
  BY <1>1 DEF RecordsOf
<1>11. /\ Whole(p, u + l) /\ InOrder(p, u + l)
       /\ Firsts(p, u + l) = Firsts(q, u) \cup {u}
       /\ Belong(p, u + l) = Belong(q, u) \cup {r}
  <2>1. \A k \in 0..(u - 1) : q[k].rec.id < r.id
    BY <1>10
  <2>2. r.len = l
    BY DEF l
  <2>3. Joined(p, q, u, r, l)
    BY <1>8, <1>9, <2>1, <2>2 DEF Joined
  <2>. QED
    BY <1>1, <1>3, <1>4, <2>3, AddView
<1>12. RecordsOf(cells, g) = RecordsOf(cells, h) \cup {r}
  <2>1. RecordsOf(cells, g) = Belong(p, u + l)
    BY <1>6, <1>7 DEF RecordsOf, Belong
  <2>2. RecordsOf(cells, h) = Belong(q, u)
    BY <1>1 DEF RecordsOf, Belong
  <2>. QED
    BY <1>11, <2>1, <2>2
<1>13. Begins(cells, g) = Begins(cells, h) \cup {u}
  <2>1. Begins(cells, g) = Firsts(p, u + l)
    BY <1>6, <1>7 DEF Begins, Firsts
  <2>. QED
    BY <1>1, <1>11, <2>1
<1>14. IsFiniteSet(Begins(cells, g)) /\ Cardinality(Begins(cells, g)) = h.count + 1
       /\ Cardinality(Begins(cells, g)) <= u + l
  <2>1. Begins(cells, h) \in SUBSET (0..(u - 1)) /\ IsFiniteSet(0..(u - 1))
    <3>1. IsFiniteSet(0..(u - 1))
      <4>1. 0 \in Int /\ u - 1 \in Int
        BY <1>1
      <4>. QED
        BY <4>1, FS_Interval
    <3>2. Firsts(q, u) \in SUBSET (0..(u - 1))
      BY DEF Firsts
    <3>. QED
      BY <1>1, <3>1, <3>2
  <2>2. IsFiniteSet(Begins(cells, h))
    BY <2>1, FS_Subset
  <2>3. u \notin Begins(cells, h)
    BY <1>1, <2>1
  <2>4. IsFiniteSet(Begins(cells, g)) /\ Cardinality(Begins(cells, g)) = h.count + 1
    <3>1. /\ IsFiniteSet(Begins(cells, h) \cup {u})
          /\ Cardinality(Begins(cells, h) \cup {u}) = Cardinality(Begins(cells, h)) + 1
      BY <2>2, <2>3, FS_AddElement
    <3>. QED
      BY <1>1, <1>13, <3>1
  <2>5. Begins(cells, g) \in SUBSET (0..((u + l) - 1))
    BY <1>6 DEF Begins
  <2>6. (u + l) - 1 \in Int /\ 0 \in Int /\ ~(0 > (u + l) - 1)
    BY <1>4, <1>1
  <2>7. IsFiniteSet(0..((u + l) - 1)) /\ Cardinality(0..((u + l) - 1)) = ((u + l) - 1) - 0 + 1
    BY <2>6, FS_Interval
  <2>8. Cardinality(Begins(cells, g)) <= Cardinality(0..((u + l) - 1))
    BY <2>5, <2>7, FS_Subset
  <2>9. ((u + l) - 1) - 0 + 1 = u + l
    BY <1>4
  <2>. QED
    BY <2>4, <2>7, <2>8, <2>9
<1>15. g.tail = Wrap(g.head + g.used) /\ g.tail \in Ring
  <2>1. \A hd \in Nat : hd < Cells =>
          (hd + u) + l < Cells + Cells /\ (hd + u) + l = hd + (u + l) /\ hd + u \in Nat
    <3>1. \A c, v, i, hd \in Nat : hd < c /\ v + i <= c =>
            (hd + v) + i < c + c /\ (hd + v) + i = hd + (v + i) /\ hd + v \in Nat
      OBVIOUS
    <3>. QED
      BY <1>1, <1>2, <1>4, <3>1
  <2>2. (h.head + u) + l < Cells + Cells /\ (h.head + u) + l = h.head + (u + l)
        /\ h.head + u \in Nat /\ h.head + (u + l) \in Nat
    BY <1>2, <1>4, <2>1
  <2>3. Wrap(Wrap(h.head + u) + l) = Wrap((h.head + u) + l)
    BY <1>4, <2>2, WrapType
  <2>4. Wrap(h.head + (u + l)) \in Ring
    BY <2>2, WrapType
  <2>. QED
    BY <1>1, <1>5, <2>2, <2>3, <2>4
<1>16. g \in Header
  <2>1. g.gen \in Nat /\ g.used \in 0..Cells /\ g.count \in 0..Cells /\ g.head \in Ring
    <3>1. g.gen \in Nat
      BY <1>1, <1>5
    <3>2. g.used \in 0..Cells
      BY <1>2, <1>4, <1>5
    <3>3. h.count + 1 <= Cells
      BY <1>1, <1>2, <1>4, <1>14
    <3>4. g.count \in 0..Cells
      BY <1>1, <1>2, <1>5, <3>3
    <3>5. g.head \in Ring
      BY <1>5 DEF Header
    <3>. QED
      BY <3>1, <3>2, <3>4, <3>5
  <2>2. g = [gen |-> g.gen, head |-> g.head, tail |-> g.tail, used |-> g.used, count |-> g.count]
    BY <1>5
  <2>. QED
    BY <1>15, <2>1, <2>2 DEF Header
<1>17. Holds(cells, g, limit)
  <2>1. Whole(View(cells, g), g.used) /\ InOrder(View(cells, g), g.used)
    BY <1>5, <1>11 DEF p
  <2>2. Counts(cells, g)
    BY <1>5, <1>14, <1>15 DEF Counts
  <2>3. Below(cells, g, limit)
    BY <1>12 DEF Holds, Below
  <2>. QED
    BY <2>1, <2>2, <2>3 DEF Holds
<1>. QED
  BY <1>1, <1>4, <1>5, <1>12, <1>16, <1>17

\* Seen from the tail, a used cell lies behind all the free ones.
LEMMA Distance ==
  ASSUME NEW hd \in Nat, hd < Cells, NEW u \in Nat, u <= Cells, NEW k \in Nat, k < u
  PROVE  LET t == Wrap(hd + u)
             p == Wrap(hd + k)
         IN  /\ p >= t => p - t = (Cells - u) + k
             /\ ~(p >= t) => p + Cells - t = (Cells - u) + k
<1>1. CASE hd + u < Cells
  BY <1>1, WrapType DEF Wrap
<1>2. CASE hd + u >= Cells /\ hd + k < Cells
  BY <1>2, WrapType DEF Wrap
<1>3. CASE hd + k >= Cells
  BY <1>3, WrapType DEF Wrap
<1>. QED
  BY <1>1, <1>2, <1>3, WrapType

\* Writing a record touches no used cell.
LEMMA WrittenSpares ==
  ASSUME file \in Image, header \in Header, header.tail = Wrap(header.head + header.used),
         NEW r \in Record, NEW n \in 0..(Cells - header.used)
  PROVE  /\ Written(r, n) \in [Ring -> Cell]
         /\ \A k \in Used(header) : CellOf(Written(r, n), header, k) = CellOf(file.cells, header, k)
         /\ \A j \in 0..(n - 1) : Written(r, n)[Wrap(header.tail + j)] = [rec |-> r, at |-> j]
<1>1. /\ Cells \in Nat \ {0} /\ header.head \in Nat /\ header.head < Cells
      /\ header.used \in Nat /\ header.used <= Cells
      /\ header.tail \in Nat /\ header.tail < Cells /\ header.tail \in Ring
  <2>1. /\ header.head \in Nat /\ header.head < Cells
        /\ header.used \in Nat /\ header.used <= Cells /\ header.tail \in Ring
    BY HeaderType
  <2>. QED
    BY <2>1, WrapType DEF Ring
<1>2. file.cells \in [Ring -> Cell]
  BY DEF Image
<1>. DEFINE dist(p) == IF p >= header.tail THEN p - header.tail ELSE p + Cells - header.tail
<1>3. \A p \in Ring : Written(r, n)[p] = IF dist(p) < n THEN [rec |-> r, at |-> dist(p)]
                                                         ELSE file.cells[p]
  BY DEF Written
<1>4. \A p \in Ring : dist(p) \in Ring
  BY <1>1 DEF Ring
<1>5. Written(r, n) \in [Ring -> Cell]
  <2>1. \A p \in Ring : Written(r, n)[p] \in Cell
    <3>1. SUFFICES ASSUME NEW p \in Ring PROVE Written(r, n)[p] \in Cell
      OBVIOUS
    <3>2. dist(p) \in Ring
      BY <1>4
    <3>. HIDE DEF dist
    <3>3. [rec |-> r, at |-> dist(p)] \in Cell
      BY <3>2 DEF Cell
    <3>4. file.cells[p] \in Cell
      BY <1>2
    <3>. QED
      BY <1>3, <3>3, <3>4
  <2>2. Written(r, n) = [p \in Ring |-> Written(r, n)[p]]
    BY DEF Written
  <2>. QED
    BY <2>1, <2>2
<1>6. ASSUME NEW k \in Used(header)
      PROVE  CellOf(Written(r, n), header, k) = CellOf(file.cells, header, k)
  <2>1. k \in Nat /\ k < header.used /\ header.head + k < Cells + Cells
    BY <1>1 DEF Used
  <2>2. Wrap(header.head + k) \in Ring
    BY <1>1, <2>1, WrapType
  <2>3. dist(Wrap(header.head + k)) = (Cells - header.used) + k
    BY <1>1, <2>1, Distance
  <2>4. ~(dist(Wrap(header.head + k)) < n)
    BY <1>1, <2>1, <2>3
  <2>. QED
    BY <1>3, <2>2, <2>4 DEF CellOf
<1>7. ASSUME NEW j \in 0..(n - 1)
      PROVE  Written(r, n)[Wrap(header.tail + j)] = [rec |-> r, at |-> j]
  <2>1. j \in Nat /\ j < Cells /\ j < n
    BY <1>1
  <2>2. Wrap(header.tail + j) \in Ring
    BY <1>1, <2>1, WrapType
  <2>3. dist(Wrap(header.tail + j)) = j
    BY <1>1, <2>1 DEF Wrap
  <2>. QED
    BY <1>3, <2>1, <2>2, <2>3
<1>. QED
  BY <1>5, <1>6, <1>7
-----------------------------------------------------------------------------
(* Steps of the queue on disk.                                             *)

\* A queue may stay as it is.
LEMMA MovesStay == ASSUME NEW kept, NEW gone PROVE Moves(kept, kept, gone)
BY DEF Moves, Durable!Behind

\* What may become of a queue may still become of it when more removals are asked for.
LEMMA MovesMore ==
  ASSUME NEW kept, NEW after, NEW gone, NEW more, Moves(kept, after, gone), gone \subseteq more
  PROVE  Moves(kept, after, more)
BY DEF Moves

\* A removal of the oldest may follow.
LEMMA MovesCut ==
  ASSUME NEW kept, NEW between, NEW after, NEW gone, NEW more,
         Moves(kept, between, gone), gone \subseteq more, after \subseteq between,
         between \ after \subseteq more, Durable!Behind(after, between \ after)
  PROVE  Moves(kept, after, more) /\ Moves(between, after, more)
<1>1. after \ kept \subseteq between \ kept /\ kept \cap after \subseteq kept \cap between
  OBVIOUS
<1>2. kept \ after = (kept \ between) \cup ((kept \cap between) \ after)
  OBVIOUS
<1>3. Durable!Behind(after \ kept, kept)
  BY <1>1 DEF Moves, Durable!Behind
<1>4. kept \ after \subseteq more
  BY <1>2 DEF Moves
<1>5. Durable!Behind(kept \cap after, kept \ after)
  BY <1>1, <1>2 DEF Moves, Durable!Behind
<1>6. Moves(between, after, more)
  BY DEF Moves, Durable!Behind
<1>. QED
  BY <1>3, <1>4, <1>5, <1>6 DEF Moves

\* The disk as it was
LEMMA QueueStands ==
  ASSUME disk' = disk, promised' = promised, released \subseteq released'
  PROVE  Durable!Next
<1>1. Kept(disk)' = Kept(disk)
  BY DEF Kept, OpenedWith, Sound, Begins, RecordsOf, CellOf, Used, Readable, Valid, Newest
<1>. QED
  BY <1>1 DEF Durable!Next, Durable!KeptMoves, Durable!Promises, Durable!Releases

\* The disk as it may become
LEMMA QueueMoves ==
  ASSUME NEW kept, kept = Kept(disk'), Moves(Kept(disk), kept, released),
         promised \subseteq promised', promised' \ promised \subseteq kept,
         released \subseteq released'
  PROVE  Durable!Next
<1>1. Kept(disk)' = kept
  OBVIOUS
<1>2. Kept(disk) \ (Kept(disk) \ kept) = Kept(disk) \cap kept
  OBVIOUS
<1>3. Durable!KeptMoves
  BY <1>1, <1>2 DEF Durable!KeptMoves, Moves
<1>. QED
  BY <1>1, <1>3 DEF Durable!Next, Durable!Promises, Durable!Releases

\* What a steady spool is made of
LEMMA Facts ==
  ASSUME Trusted, Steady
  PROVE  /\ TypeOK /\ header \in Header /\ active \in Slots /\ 1 - active \in Slots
         /\ file \in Image /\ file.slots \in [Slots -> Header] /\ file.cells \in [Ring -> Cell]
         /\ disk \in Image /\ disk.slots \in [Slots -> Header] /\ disk.cells \in [Ring -> Cell]
         /\ file.slots[active] \in Header /\ next \in Nat
         /\ "io" \notin may /\ "decay" \notin may
         /\ "crash" \in may => may = {"crash"}
         /\ "power" \in may => may = {"power"}
         /\ Opens(file)
         /\ pc \notin {"down", "sync"} => /\ Kept(file) = RecordsOf(file.cells, file.slots[active])
                                          /\ Newest(file.slots) = active
         /\ pc = "sync" => /\ Kept(file) = RecordsOf(file.cells, header)
                           /\ NewestIs(file.slots, 1 - active)
<1>1. /\ TypeOK /\ header \in Header /\ active \in Slots /\ 1 - active \in Slots
      /\ file \in Image /\ file.slots \in [Slots -> Header] /\ file.cells \in [Ring -> Cell]
      /\ disk \in Image /\ disk.slots \in [Slots -> Header] /\ disk.cells \in [Ring -> Cell]
      /\ file.slots[active] \in Header /\ next \in Nat
  BY DEF Steady, TypeOK, Image, Slots
<1>2. /\ "io" \notin may /\ "decay" \notin may
      /\ "crash" \in may => may = {"crash"}
      /\ "power" \in may => may = {"power"}
  BY DEF Trusted
<1>3. Opens(file)
  BY <1>1, KeptIs DEF Steady, FileOpens
<1>4. ASSUME pc \notin {"down", "sync"}
      PROVE  /\ Kept(file) = RecordsOf(file.cells, file.slots[active])
             /\ Newest(file.slots) = active
  BY <1>1, <1>4, KeptIs DEF Steady, InMemory
<1>5. ASSUME pc = "sync"
      PROVE  /\ Kept(file) = RecordsOf(file.cells, header)
             /\ NewestIs(file.slots, 1 - active)
  <2>1. /\ Holds(file.cells, header, next) /\ header.gen = file.slots[active].gen + 1
        /\ file.slots[1 - active] = header /\ file.slots[active].gen # 0
    BY <1>5 DEF Steady, InMemory
  <2>2. 1 - (1 - active) = active /\ file.slots[active].gen \in Nat
    BY <1>1, HeaderType DEF Slots
  <2>3. NewestIs(file.slots, 1 - active)
    BY <2>1, <2>2 DEF NewestIs
  <2>. QED
    BY <1>1, <2>1, <2>3, KeptIs
<1>. QED
  BY <1>1, <1>2, <1>3, <1>4, <1>5

-----------------------------------------------------------------------------
(* Every step of the collector and every fault keeps the spool steady, and *)
(* is a step of the queue.                                                 *)

\* A collector starts.
LEMMA OpenKeeps == ASSUME Trusted, Steady, Open PROVE Steady' /\ Durable!Next
<1>1. /\ pc = "down" /\ active' = Newest(file.slots)
      /\ header' = file.slots[Newest(file.slots)] /\ pc' = "idle" /\ run' = NewRun
      /\ may' = may /\ op' = op /\ file' = file /\ disk' = disk /\ next' = next
      /\ promised' = promised /\ released' = released
  BY DEF Open
<1>2. PICK s \in Slots : NewestIs(file.slots, s) /\ Holds(file.cells, file.slots[s], next)
  BY DEF Steady, FileOpens
<1>3. active' = s /\ header' = file.slots[s]
  BY <1>1, <1>2, Facts, KeptIs
<1>4. TypeOK'
  BY <1>1, <1>3, Facts DEF TypeOK, NewRun
<1>5. FileOpens'
  BY <1>1, <1>2 DEF FileOpens
<1>6. InMemory'
  BY <1>1, <1>2, <1>3 DEF InMemory, NewestIs
<1>7. Kept(disk') = Kept(disk) /\ Kept(file') = Kept(file)
  BY <1>1
<1>8. Moves(Kept(disk'), Kept(file'), released')
  BY <1>1, <1>7 DEF Steady
<1>9. Twin' \/ may = {"crash"}
  BY <1>1 DEF Steady, Twin
<1>10. Durable!Next
  BY <1>1, QueueStands
<1>. QED
  BY <1>1, <1>4, <1>5, <1>6, <1>8, <1>9, <1>10 DEF Steady

\* The file could always be opened.
LEMMA NoQuarantine == ASSUME Trusted, Steady, Quarantine PROVE FALSE
BY Facts DEF Quarantine

\* The system carries the record to the disk.
LEMMA SyncRecordKeeps == ASSUME Trusted, Steady, SyncRecord PROVE Steady' /\ Durable!Next
<1>. DEFINE a == file.slots[active]
            r == file.cells[header.tail].rec
            g == Counted(header)
<1>1. /\ pc = "record" /\ disk' = file /\ header' = g /\ pc' = "header"
      /\ may' = may /\ op' = op /\ active' = active /\ file' = file /\ next' = next
      /\ run' = run /\ promised' = promised /\ released' = released
  BY DEF SyncRecord, callerVars
<1>2. /\ Holds(file.cells, a, next) /\ a.gen # 0 /\ NewestIs(file.slots, active) /\ header = a
      /\ RecordWritten
  BY <1>1 DEF Steady, InMemory
<1>3. /\ r.len \in 1..(Cells - header.used) /\ r.id < next
      /\ \A s \in RecordsOf(file.cells, header) : s.id < r.id
      /\ \A j \in 0..(r.len - 1) : file.cells[Wrap(header.tail + j)] = [rec |-> r, at |-> j]
  BY <1>2 DEF RecordWritten
<1>4. g = [gen |-> header.gen + 1, head |-> header.head, tail |-> Wrap(header.tail + r.len),
           used |-> header.used + r.len, count |-> header.count + 1]
  BY DEF Counted
<1>. HIDE DEF g, r, a
<1>5. /\ g \in Header /\ g.gen = header.gen + 1 /\ g.used # 0 /\ Holds(file.cells, g, next)
      /\ RecordsOf(file.cells, g) = RecordsOf(file.cells, header) \cup {r}
  <2>1. r = file.cells[header.tail].rec
    BY DEF r
  <2>2. header \in Header /\ file.cells \in [Ring -> Cell] /\ Holds(file.cells, header, next)
    BY <1>2, Facts
  <2>3. PICK cells, h : cells = file.cells /\ h = header
    OBVIOUS
  <2>4. /\ cells \in [Ring -> Cell] /\ h \in Header /\ Holds(cells, h, next)
        /\ r = cells[h.tail].rec /\ r.len \in 1..(Cells - h.used) /\ r.id < next
    BY <1>3, <2>1, <2>2, <2>3
  <2>5. /\ \A s \in RecordsOf(cells, h) : s.id < r.id
        /\ \A j \in 0..(r.len - 1) : cells[Wrap(h.tail + j)] = [rec |-> r, at |-> j]
    BY <1>3, <2>3, Zenon
  <2>6. g = [gen |-> h.gen + 1, head |-> h.head, tail |-> Wrap(h.tail + r.len),
             used |-> h.used + r.len, count |-> h.count + 1]
    BY <1>4, <2>3
  <2>7. /\ g \in Header /\ g.gen = h.gen + 1 /\ g.used # 0 /\ Holds(cells, g, next)
        /\ RecordsOf(cells, g) = RecordsOf(cells, h) \cup {r}
    BY <2>4, <2>5, <2>6, AddHolds
  <2>. QED
    BY <2>3, <2>7
<1>6. Kept(file) = RecordsOf(file.cells, header)
  BY <1>1, <1>2, Facts DEF a
<1>7. Moves(RecordsOf(file.cells, header), RecordsOf(file.cells, g), released)
  <2>1. \A s \in RecordsOf(file.cells, header) : s.id < r.id /\ r.id \in Nat /\ s.id \in Nat
    <3>1. RecordsOf(file.cells, g) \subseteq Record
      BY <1>5, Facts, ViewType
    <3>2. \A s \in RecordsOf(file.cells, header) \cup {r} : s.id \in Nat
      BY <1>5, <3>1 DEF Record
    <3>. QED
      BY <1>3, <3>2
  <2>. QED
    BY <1>5, <2>1 DEF Moves, Durable!Behind
<1>8. TypeOK'
  BY <1>1, <1>5, Facts DEF TypeOK
<1>9. FileOpens'
  BY <1>1 DEF Steady, FileOpens
<1>10. Kept(disk') = Kept(file) /\ Kept(file') = Kept(file)
  BY <1>1
<1>11. InMemory'
  BY <1>1, <1>2, <1>5, <1>6, <1>7, <1>10 DEF InMemory, a
<1>12. Moves(Kept(disk'), Kept(file'), released')
  BY <1>10, MovesStay
<1>13. Twin'
  BY <1>1 DEF Twin
<1>14. Durable!Next
  <2>1. Moves(Kept(disk), Kept(file), released)
    BY DEF Steady
  <2>. QED
    BY <1>1, <1>10, <2>1, QueueMoves
<1>. QED
  BY <1>8, <1>9, <1>11, <1>12, <1>13, <1>14 DEF Steady

\* The header is written to the slot that is not active.
LEMMA WriteHeaderKeeps == ASSUME Trusted, Steady, WriteHeader PROVE Steady' /\ Durable!Next
<1>. DEFINE a == file.slots[active]
<1>1. /\ pc = "header" /\ file' = [file EXCEPT !.slots[1 - active] = header] /\ pc' = "sync"
      /\ may' = may /\ op' = op /\ header' = header /\ active' = active /\ disk' = disk
      /\ next' = next /\ run' = run /\ promised' = promised /\ released' = released
  BY DEF WriteHeader, SlotToWrite, callerVars, memoryVars
<1>2. /\ Holds(file.cells, a, next) /\ a.gen # 0 /\ NewestIs(file.slots, active)
      /\ Holds(file.cells, header, next) /\ header.gen = a.gen + 1
      /\ op = "push" => header.used # 0
      /\ Moves(RecordsOf(file.cells, a), RecordsOf(file.cells, header), released)
      /\ Moves(Kept(disk), RecordsOf(file.cells, header), released)
  BY <1>1 DEF Steady, InMemory
<1>3. /\ file' \in Image /\ file'.cells = file.cells /\ file'.slots \in [Slots -> Header]
      /\ file'.slots[1 - active] = header /\ file'.slots[active] = a
      /\ 1 - (1 - active) = active
  BY <1>1, Facts DEF Image, Slots
<1>. HIDE DEF a
<1>4. a.gen \in Nat
  BY Facts, HeaderType DEF a
<1>5. NewestIs(file'.slots, 1 - active)
  BY <1>2, <1>3, <1>4 DEF NewestIs
<1>6. Kept(file') = RecordsOf(file.cells, header)
  BY <1>2, <1>3, <1>5, Facts, KeptIs
<1>7. TypeOK'
  BY <1>1, <1>3, Facts DEF TypeOK
<1>8. FileOpens'
  BY <1>1, <1>2, <1>3, <1>5, Facts DEF FileOpens
<1>9. Kept(disk') = Kept(disk)
  BY <1>1
<1>10. InMemory'
  BY <1>1, <1>2, <1>3, <1>9 DEF InMemory
<1>11. Moves(Kept(disk'), Kept(file'), released')
  BY <1>1, <1>2, <1>6, <1>9
<1>12. ASSUME may # {"crash"} PROVE Twin'
  <2>1. file = disk
    BY <1>1, <1>12 DEF Steady, Twin
  <2>2. disk.slots[1 - active].gen < a.gen
    BY <1>2, <2>1 DEF NewestIs, a
  <2>. QED
    BY <1>1, <1>3, <2>1, <2>2 DEF Twin, a
<1>13. Durable!Next
  BY <1>1, QueueStands
<1>. QED
  BY <1>1, <1>7, <1>8, <1>10, <1>11, <1>12, <1>13 DEF Steady

\* The system carries the header to the disk: what has been pushed may be promised.
LEMMA SyncHeaderKeeps == ASSUME Trusted, Steady, SyncHeader PROVE Steady' /\ Durable!Next
<1>. DEFINE last == CellOf(file.cells, header, header.used - 1).rec
<1>1. /\ pc = "sync" /\ disk' = file /\ active' = 1 - active
      /\ promised' = IF op = "push" THEN promised \cup {last} ELSE promised
      /\ pc' = "idle" /\ op' = "none" /\ may' = may /\ header' = header /\ file' = file
      /\ run' = run /\ next' = next /\ released' = released
  BY DEF SyncHeader, SlotToWrite
<1>2. /\ Holds(file.cells, header, next) /\ header.gen = file.slots[active].gen + 1
      /\ op = "push" => header.used # 0
      /\ file.slots[1 - active] = header
  BY <1>1 DEF Steady, InMemory
<1>3. Kept(file) = RecordsOf(file.cells, header) /\ NewestIs(file.slots, 1 - active)
  BY <1>1, Facts
<1>4. op = "push" => last \in RecordsOf(file.cells, header)
  <2>1. op = "push" => header.used - 1 \in Used(header)
    BY <1>2, Facts, HeaderType
  <2>. QED
    BY <2>1 DEF RecordsOf
<1>5. RecordsOf(file.cells, header) \subseteq Record
  BY Facts, ViewType
<1>. HIDE DEF last
<1>6. TypeOK'
  BY <1>1, <1>4, <1>5, Facts DEF TypeOK
<1>7. FileOpens'
  BY <1>1 DEF Steady, FileOpens
<1>8. Kept(disk') = Kept(file) /\ Kept(file') = Kept(file)
  BY <1>1
<1>9. InMemory'
  BY <1>1, <1>2, <1>3, Facts DEF InMemory, NewestIs
<1>10. Moves(Kept(disk'), Kept(file'), released')
  BY <1>8, MovesStay
<1>11. Twin'
  BY <1>1 DEF Twin
<1>12. Durable!Next
  <2>1. Moves(Kept(disk), Kept(file), released)
    BY DEF Steady
  <2>2. promised \subseteq promised' /\ promised' \ promised \subseteq Kept(file)
    BY <1>1, <1>3, <1>4
  <2>. QED
    BY <1>1, <1>8, <2>1, <2>2, QueueMoves
<1>. QED
  BY <1>6, <1>7, <1>9, <1>10, <1>11, <1>12 DEF Steady

\* Nothing but a crash or an unreadable record ends the collector, ...
LEMMA StopKeeps ==
  ASSUME Trusted, Steady, Crash \/ DiscardFails
  PROVE  Steady' /\ Durable!Next
<1>1. /\ pc' = "down" /\ op' = "none" /\ may' = may /\ header' = header /\ active' = active
      /\ file' = file /\ disk' = disk /\ run' = run /\ next' = next
      /\ promised' = promised /\ released' = released
      /\ pc = "idle" \/ may = {"crash"}
  BY Facts DEF Crash, DiscardFails, callerVars, memoryVars
<1>2. TypeOK'
  BY <1>1, Facts DEF TypeOK
<1>3. FileOpens' /\ Moves(Kept(disk'), Kept(file'), released')
  BY <1>1 DEF Steady, FileOpens
<1>4. may # {"crash"} => Twin'
  BY <1>1 DEF Steady, Twin
<1>5. Durable!Next
  BY <1>1, QueueStands
<1>. QED
  BY <1>1, <1>2, <1>3, <1>4, <1>5 DEF Steady

\* ... and neither an I/O error nor decay is among the faults.
LEMMA NoOtherFault == ASSUME Trusted, Steady, CommitFails \/ Decay PROVE FALSE
BY Facts DEF CommitFails, Decay

\* The cells of a record are written behind the used ones, all or some of them.
LEMMA WriteRecordKeeps ==
  ASSUME Trusted, Steady, NEW len \in 1..MaxLength, WriteRecord(len)
  PROVE  Steady' /\ Durable!Next
<1>. DEFINE r == NewRecord(len)
            a == file.slots[active]
<1>1. /\ pc = "idle" /\ len <= Cells - header.used
      /\ \/ /\ file' = [file EXCEPT !.cells = Written(r, len)]
            /\ pc' = "record" /\ op' = "push"
         \/ /\ "crash" \in may
            /\ \E n \in 0..(len - 1) : file' = [file EXCEPT !.cells = Written(r, n)]
            /\ pc' = "down" /\ op' = "none"
      /\ next' = next + 1 /\ run' = r.run
      /\ may' = may /\ header' = header /\ active' = active /\ disk' = disk
      /\ promised' = promised /\ released' = released
  BY Facts DEF WriteRecord, memoryVars
<1>2. /\ Holds(file.cells, header, next) /\ header.gen # 0 /\ NewestIs(file.slots, active)
      /\ header = a
  BY <1>1 DEF Steady, InMemory
<1>3. len \in Nat \ {0} /\ len <= Cells /\ header.used \in Nat /\ header.used <= Cells
      /\ Cells \in Nat
  <2>1. MaxLength \in 1..Cells /\ Cells \in Nat
    BY SpoolConstants
  <2>2. header.used \in Nat /\ header.used <= Cells
    BY Facts, HeaderType
  <2>. QED
    BY <2>1, <2>2
<1>4. r \in Record /\ r.len = len /\ r.id = next /\ r.run \in Nat
  BY <1>3, Facts DEF NewRecord, Record, TypeOK
<1>. HIDE DEF r, a
<1>5. PICK n \in 0..len :
        /\ file' = [file EXCEPT !.cells = Written(r, n)]
        /\ \/ n = len /\ pc' = "record" /\ op' = "push"
           \/ may = {"crash"} /\ pc' = "down" /\ op' = "none"
  <2>1. 0..(len - 1) \subseteq 0..len /\ len \in 0..len
    BY <1>3
  <2>. QED
    BY <1>1, <2>1, Facts
<1>6. n \in 0..(Cells - header.used)
  BY <1>1, <1>3
<1>7. /\ Written(r, n) \in [Ring -> Cell]
      /\ \A k \in Used(header) : CellOf(Written(r, n), header, k) = CellOf(file.cells, header, k)
      /\ \A j \in 0..(n - 1) : Written(r, n)[Wrap(header.tail + j)] = [rec |-> r, at |-> j]
  <2>1. header.tail = Wrap(header.head + header.used)
    BY <1>2 DEF Holds, Counts
  <2>. QED
    BY <1>4, <1>6, <2>1, Facts, WrittenSpares
<1>8. file' \in Image /\ file'.slots = file.slots /\ file'.cells = Written(r, n)
  BY <1>5, <1>7, Facts DEF Image
<1>9. /\ RecordsOf(file'.cells, header) = RecordsOf(file.cells, header)
      /\ Holds(file'.cells, header, next)
  BY <1>2, <1>7, <1>8, Agreement
<1>10. \A s \in RecordsOf(file.cells, header) : s.id < next
  BY <1>2 DEF Holds, Below
<1>11. Holds(file'.cells, header, next')
  <2>1. RecordsOf(file'.cells, header) \subseteq Record
    BY <1>9, Facts, ViewType
  <2>2. \A s \in Record : s.id < next => s.id < next + 1
    BY Facts DEF Record
  <2>. QED
    BY <1>1, <1>9, <2>1, <2>2 DEF Holds, Below
<1>12. Kept(file') = Kept(file)
  <2>1. Kept(file) = RecordsOf(file.cells, header)
    BY <1>1, <1>2, Facts DEF a
  <2>2. Kept(file') = RecordsOf(file'.cells, header)
    BY <1>2, <1>8, <1>9, Facts, KeptIs DEF a
  <2>. QED
    BY <1>9, <2>1, <2>2
<1>13. TypeOK'
  BY <1>1, <1>4, <1>5, <1>8, Facts DEF TypeOK
<1>14. FileOpens'
  BY <1>2, <1>8, <1>11, Facts DEF FileOpens, a
<1>15. pc' = "record" => RecordWritten'
  <2>1. SUFFICES ASSUME pc' = "record" PROVE RecordWritten'
    OBVIOUS
  <2>2. n = len
    BY <1>5, <2>1
  <2>3. header.tail \in Nat /\ header.tail < Cells
    <3>1. header.tail \in Ring
      BY Facts, HeaderType
    <3>. QED
      BY <3>1, WrapType DEF Ring
  <2>4. 0 \in 0..(len - 1) /\ header.tail + 0 = header.tail
    BY <1>3, <2>3
  <2>5. Written(r, n)[Wrap(header.tail + 0)] = [rec |-> r, at |-> 0]
    BY <1>7, <2>2, <2>4
  <2>6. Wrap(header.tail + 0) = header.tail
    BY <2>3, <2>4 DEF Wrap
  <2>7. file'.cells[header.tail].rec = r
    BY <1>8, <2>5, <2>6
  <2>8. r.len \in 1..(Cells - header.used) /\ r.id < next'
    BY <1>1, <1>3, <1>4, Facts
  <2>9. \A s \in RecordsOf(file'.cells, header) : s.id < r.id
    BY <1>4, <1>9, <1>10
  <2>10. \A j \in 0..(r.len - 1) : file'.cells[Wrap(header.tail + j)] = [rec |-> r, at |-> j]
    BY <1>4, <1>7, <1>8, <2>2
  <2>. QED
    BY <1>1, <2>7, <2>8, <2>9, <2>10 DEF RecordWritten
<1>16. pc' # "down" => InMemory'
  BY <1>1, <1>2, <1>5, <1>8, <1>11, <1>15 DEF InMemory, a
<1>17. Kept(disk') = Kept(disk)
  BY <1>1
<1>18. Moves(Kept(disk'), Kept(file'), released')
  BY <1>1, <1>12, <1>17 DEF Steady
<1>19. ASSUME may # {"crash"} PROVE Twin'
  <2>1. file = disk /\ pc' = "record"
    BY <1>1, <1>5, <1>19 DEF Steady, Twin
  <2>. QED
    BY <1>1, <1>7, <1>8, <2>1 DEF Twin
<1>20. Durable!Next
  BY <1>1, QueueStands
<1>. QED
  BY <1>1, <1>13, <1>14, <1>16, <1>18, <1>19, <1>20 DEF Steady

\* The oldest records are removed, up to the beginning of a record.
LEMMA RemoveKeeps ==
  ASSUME Trusted, Steady,
         NEW n \in 0..header.used,
         n = header.used \/ CellOf(file.cells, header, n).at = 0,
         NEW m, m = Cardinality(Begins(file.cells, header) \cap (0..(n - 1))),
         NEW recs, recs \subseteq Record,
         \A b \in Begins(file.cells, header) \cap (0..(n - 1)) :
           CellOf(file.cells, header, b).rec \in recs,
         NEW kind \in {"pop", "discard", "reset"}, Remove(kind, n, m, recs), run' \in Nat
  PROVE  Steady' /\ Durable!Next
<1>. DEFINE g == Without(header, n, m)
            a == file.slots[active]
<1>1. /\ pc = "idle" /\ header' = g /\ released' = released \cup recs
      /\ pc' = "header" /\ op' = kind
      /\ may' = may /\ active' = active /\ file' = file /\ disk' = disk /\ next' = next
      /\ promised' = promised
  BY DEF Remove
<1>2. /\ Holds(file.cells, header, next) /\ a.gen # 0 /\ NewestIs(file.slots, active)
      /\ header = a
  BY <1>1 DEF Steady, InMemory
<1>3. Kept(file) = RecordsOf(file.cells, header)
  BY <1>1, <1>2, Facts
<1>. HIDE DEF g, a
<1>4. /\ g \in Header /\ g.gen = header.gen + 1 /\ Holds(file.cells, g, next)
      /\ RecordsOf(file.cells, g) \subseteq RecordsOf(file.cells, header)
      /\ CutsOff(file.cells, header, g, n)
  <2>1. g = Without(header, n, m) /\ header \in Header /\ file.cells \in [Ring -> Cell]
    BY Facts DEF g
  <2>. QED
    BY <1>2, <2>1, CutHolds
<1>. DEFINE old == RecordsOf(file.cells, header)
            new == RecordsOf(file.cells, g)
<1>5. Moves(Kept(disk), new, released') /\ Moves(old, new, released')
  <2>1. Moves(Kept(disk), old, released)
    BY <1>3 DEF Steady
  <2>2. new \subseteq old /\ old \ new \subseteq released' /\ released \subseteq released'
    BY <1>1, <1>4 DEF CutsOff
  <2>3. Durable!Behind(new, old \ new)
    BY <1>4 DEF Durable!Behind, CutsOff
  <2>. HIDE DEF old, new
  <2>. QED
    BY <2>1, <2>2, <2>3, MovesCut
<1>6. TypeOK'
  BY <1>1, <1>4, Facts DEF TypeOK
<1>7. FileOpens'
  BY <1>1 DEF Steady, FileOpens
<1>8. Kept(disk') = Kept(disk) /\ Kept(file') = Kept(file)
  BY <1>1
<1>9. InMemory'
  BY <1>1, <1>2, <1>4, <1>5, <1>8 DEF InMemory, a
<1>10. Moves(Kept(disk'), Kept(file'), released')
  <2>1. Moves(Kept(disk), Kept(file), released) /\ released \subseteq released'
    BY <1>1 DEF Steady
  <2>. QED
    BY <1>8, <2>1, MovesMore
<1>11. may # {"crash"} => Twin'
  BY <1>1 DEF Steady, Twin
<1>12. Durable!Next
  <2>1. released \subseteq released'
    BY <1>1
  <2>. QED
    BY <1>1, <2>1, QueueStands
<1>. QED
  BY <1>1, <1>6, <1>7, <1>9, <1>10, <1>11, <1>12 DEF Steady

\* The front is the first used record.
LEMMA FrontIs ==
  ASSUME NEW cells \in [Ring -> Cell], NEW h \in Header, NEW limit, Holds(cells, h, limit),
         NEW r, r = cells[h.head].rec, Readable(cells, h.head, h.used)
  PROVE  /\ r \in Record /\ r.len \in 1..h.used
         /\ r.len = h.used \/ CellOf(cells, h, r.len).at = 0
         /\ Begins(cells, h) \cap (0..(r.len - 1)) = {0}
         /\ CellOf(cells, h, 0).rec = r
<1>. DEFINE q == View(cells, h)
            u == h.used
<1>1. /\ u \in Nat /\ q \in [0..(u - 1) -> Cell] /\ Whole(q, u)
      /\ Used(h) = 0..(u - 1) /\ Begins(cells, h) = Firsts(q, u)
      /\ \A k \in Used(h) : q[k] = CellOf(cells, h, k)
      /\ h.head \in Nat /\ h.head < Cells /\ h.head \in Ring
  BY HeaderType, ViewType DEF Holds, Header
<1>2. r.len \in 1..u /\ \A j \in 0..(r.len - 1) : cells[Wrap(h.head + j)] = [rec |-> r, at |-> j]
  BY DEF Readable
<1>3. r \in Record
  BY <1>1 DEF Cell
<1>. HIDE DEF q, u
<1>4. \A j \in 0..(r.len - 1) : j \in 0..(u - 1) /\ q[j] = [rec |-> r, at |-> j]
  <2>1. SUFFICES ASSUME NEW j \in 0..(r.len - 1)
                 PROVE  j \in 0..(u - 1) /\ q[j] = [rec |-> r, at |-> j]
    OBVIOUS
  <2>2. j \in 0..(u - 1)
    BY <1>1, <1>2
  <2>. QED
    BY <1>1, <1>2, <2>2 DEF CellOf
<1>5. 0 \in 0..(r.len - 1) /\ 0 \in 0..(u - 1)
  BY <1>1, <1>2
<1>6. q[0] = [rec |-> r, at |-> 0]
  BY <1>4, <1>5
<1>7. Firsts(q, u) \cap (0..(r.len - 1)) = {0}
  <2>1. ASSUME NEW j \in 0..(r.len - 1) PROVE q[j].at = j
    <3>1. q[j] = [rec |-> r, at |-> j]
      BY <1>4
    <3>. QED
      BY <3>1
  <2>. QED
    BY <1>4, <1>5, <2>1 DEF Firsts
<1>8. r.len = u \/ q[r.len].at = 0
  <2>1. SUFFICES ASSUME r.len # u, q[r.len].at # 0 PROVE FALSE
    OBVIOUS
  <2>2. r.len \in 0..(u - 1) /\ r.len \in Nat
    BY <1>1, <1>2, <2>1
  <2>. DEFINE c == q[r.len]
  <2>3. /\ c.at \in Nat /\ r.len - c.at \in Firsts(q, u) /\ r.len - c.at <= r.len
        /\ q[r.len - c.at].rec = c.rec
    BY <1>1, <2>2, FirstOf
  <2>4. c.at < c.rec.len
    BY <1>1, <2>2 DEF Whole
  <2>. HIDE DEF c
  <2>5. c.at # 0
    BY <2>1 DEF c
  <2>6. r.len - c.at \in 0..(r.len - 1)
    BY <2>2, <2>3, <2>5 DEF Firsts
  <2>7. r.len - c.at = 0
    BY <1>7, <2>3, <2>6
  <2>8. c.at = r.len
    BY <2>2, <2>3, <2>7
  <2>9. c.rec = r
    BY <1>6, <2>3, <2>7
  <2>. QED
    BY <2>2, <2>4, <2>8, <2>9
<1>9. r.len # u => CellOf(cells, h, r.len) = q[r.len]
  <2>1. r.len # u => r.len \in Used(h)
    BY <1>1, <1>2
  <2>. QED
    BY <1>1, <2>1
<1>10. CellOf(cells, h, 0).rec = r
  <2>1. 0 \in Used(h)
    BY <1>1, <1>5
  <2>. QED
    BY <1>1, <1>6, <2>1
<1>. QED
  BY <1>1, <1>2, <1>3, <1>7, <1>8, <1>9, <1>10 DEF u

\* A running collector's header holds while it is idle.
LEMMA IdleHolds ==
  ASSUME Trusted, Steady, pc = "idle"
  PROVE  Holds(file.cells, header, next) /\ header \in Header /\ file.cells \in [Ring -> Cell]
         /\ header.used \in Nat
BY Facts, HeaderType DEF Steady, InMemory

\* The core has stored the front.
LEMMA PopKeeps == ASSUME Trusted, Steady, Pop PROVE Steady' /\ Durable!Next
<1>1. /\ Readable(file.cells, header.head, header.used) /\ pc = "idle"
      /\ Remove("pop", Front.len, 1, {Front}) /\ run' = run
  BY DEF Pop, FrontReadable, Remove
<1>. DEFINE B == Begins(file.cells, header) \cap (0..(Front.len - 1))
<1>2. /\ Front \in Record /\ Front.len \in 1..header.used
      /\ Front.len = header.used \/ CellOf(file.cells, header, Front.len).at = 0
      /\ B = {0} /\ CellOf(file.cells, header, 0).rec = Front
  BY <1>1, IdleHolds, FrontIs DEF Front
<1>3. Front.len \in 0..header.used
  BY <1>1, <1>2, IdleHolds
<1>4. Cardinality(B) = 1
  BY <1>2, FS_Singleton
<1>5. \A b \in B : CellOf(file.cells, header, b).rec \in {Front}
  BY <1>2
<1>6. run' \in Nat /\ {Front} \subseteq Record
  BY <1>1, <1>2, Facts DEF TypeOK
<1>7. PICK n, m, recs : n = Front.len /\ m = 1 /\ recs = {Front}
  OBVIOUS
<1>8. /\ n \in 0..header.used
      /\ n = header.used \/ CellOf(file.cells, header, n).at = 0
      /\ m = Cardinality(Begins(file.cells, header) \cap (0..(n - 1)))
      /\ recs \subseteq Record
      /\ \A b \in Begins(file.cells, header) \cap (0..(n - 1)) :
           CellOf(file.cells, header, b).rec \in recs
      /\ Remove("pop", n, m, recs)
  BY <1>1, <1>2, <1>3, <1>4, <1>5, <1>6, <1>7
<1>9. "pop" \in {"pop", "discard", "reset"} /\ run' \in Nat
  BY <1>6
<1>. QED
  BY <1>8, <1>9, RemoveKeeps

\* All is removed.
LEMMA ResetKeeps == ASSUME Trusted, Steady, Reset PROVE Steady' /\ Durable!Next
<1>1. PICK n, m, recs : /\ n = header.used /\ m = header.count
                        /\ recs = RecordsOf(file.cells, header)
  OBVIOUS
<1>2. Remove("reset", n, m, recs) /\ run' = 0 /\ pc = "idle"
  BY <1>1 DEF Reset, Remove
<1>3. n \in 0..header.used
  BY <1>1, <1>2, IdleHolds
<1>4. /\ Begins(file.cells, header) \cap (0..(n - 1)) = Begins(file.cells, header)
      /\ Begins(file.cells, header) \subseteq Used(header)
  BY <1>1 DEF Begins, Used
<1>5. m = Cardinality(Begins(file.cells, header) \cap (0..(n - 1)))
  BY <1>1, <1>2, <1>4, IdleHolds DEF Holds, Counts
<1>6. recs \subseteq Record
  BY <1>1, <1>2, IdleHolds, ViewType
<1>7. \A b \in Begins(file.cells, header) \cap (0..(n - 1)) :
        CellOf(file.cells, header, b).rec \in recs
  BY <1>1, <1>4 DEF RecordsOf
<1>8. "reset" \in {"pop", "discard", "reset"} /\ run' \in Nat
  BY <1>2
<1>9. n = header.used \/ CellOf(file.cells, header, n).at = 0
  BY <1>1
<1>10. Remove("reset", n, m, recs)
  BY <1>2
<1>. QED
  BY <1>3, <1>5, <1>6, <1>7, <1>8, <1>9, <1>10, RemoveKeeps

\* A set of positions that has every position before one of its own has the first ones.
LEMMA Prefix ==
  ASSUME NEW u \in Nat, NEW L \in SUBSET (0..(u - 1)), \A k \in L : 0..k \subseteq L
  PROVE  Cardinality(L) \in 0..u /\ L = 0..(Cardinality(L) - 1)
<1>1. IsFiniteSet(0..(u - 1)) /\ Cardinality(0..(u - 1)) = u
  <2>1. 0 \in Int /\ u - 1 \in Int
    OBVIOUS
  <2>2. /\ IsFiniteSet(0..(u - 1))
        /\ Cardinality(0..(u - 1)) = IF 0 > u - 1 THEN 0 ELSE (u - 1) - 0 + 1
    BY <2>1, FS_Interval
  <2>. QED
    BY <2>2
<1>2. IsFiniteSet(L) /\ Cardinality(L) <= u
  <2>1. IsFiniteSet(L) /\ Cardinality(L) <= Cardinality(0..(u - 1))
    BY <1>1, FS_Subset, Zenon
  <2>. QED
    BY <1>1, <2>1, Zenon
<1>3. PICK n \in Nat : n = Cardinality(L)
  BY <1>2, FS_CardinalityType
<1>4. ASSUME NEW k \in L PROVE k \in 0..(n - 1)
  <2>1. k \in Nat /\ 0 \in Int /\ k \in Int /\ 0..k \in SUBSET L
    OBVIOUS
  <2>2. Cardinality(0..k) = IF 0 > k THEN 0 ELSE k - 0 + 1
    BY <2>1, FS_Interval
  <2>3. Cardinality(0..k) <= n
    BY <1>2, <1>3, <2>1, FS_Subset
  <2>. QED
    BY <2>1, <2>2, <2>3
<1>5. IsFiniteSet(0..(n - 1)) /\ Cardinality(0..(n - 1)) = n
  <2>1. 0 \in Int /\ n - 1 \in Int
    OBVIOUS
  <2>2. /\ IsFiniteSet(0..(n - 1))
        /\ Cardinality(0..(n - 1)) = IF 0 > n - 1 THEN 0 ELSE (n - 1) - 0 + 1
    BY <2>1, FS_Interval
  <2>. QED
    BY <2>2
<1>6. L \in SUBSET (0..(n - 1))
  BY <1>4
<1>7. L = 0..(n - 1)
  BY <1>3, <1>5, <1>6, FS_Subset
<1>. QED
  BY <1>2, <1>3, <1>7

\* The front's run is given up.
LEMMA DiscardKeeps == ASSUME Trusted, Steady, DiscardRun PROVE Steady' /\ Durable!Next
<1>1. PICK L, begins, n, m, recs :
        /\ L = LeadingCells /\ begins = L \cap Begins(file.cells, header)
        /\ n = Cardinality(L) /\ m = Cardinality(begins)
        /\ recs = {CellOf(file.cells, header, k).rec : k \in begins}
  OBVIOUS
<1>2. /\ DiscardReads /\ Remove("discard", n, m, recs) /\ pc = "idle"
      /\ run' = IF Front.run = run THEN 0 ELSE run
  BY <1>1 DEF DiscardRun, Remove
<1>3. /\ header \in Header /\ file.cells \in [Ring -> Cell] /\ header.used \in Nat
      /\ header.head \in Nat /\ header.head < Cells
  BY <1>2, IdleHolds, HeaderType
<1>4. L \in SUBSET (0..(header.used - 1)) /\ \A k \in L : 0..k \subseteq L
  <2>1. L \subseteq Used(header)
    BY <1>1 DEF LeadingCells
  <2>2. ASSUME NEW k \in L, NEW j \in 0..k PROVE j \in L
    <3>1. k \in Used(header)
          /\ \A i \in 0..k : CellOf(file.cells, header, i).rec.run = Front.run
      BY <1>1 DEF LeadingCells
    <3>2. j \in Used(header) /\ 0..j \subseteq 0..k
      BY <1>3, <3>1 DEF Used
    <3>. QED
      BY <1>1, <3>1, <3>2 DEF LeadingCells
  <2>. QED
    BY <2>1, <2>2 DEF Used
<1>5. n \in 0..header.used /\ L = 0..(n - 1)
  BY <1>1, <1>3, <1>4, Prefix
<1>6. n = header.used \/ CellOf(file.cells, header, n).at = 0
  <2>1. SUFFICES ASSUME n # header.used PROVE CellOf(file.cells, header, n).at = 0
    OBVIOUS
  <2>2. Readable(file.cells, Wrap(header.head + n), header.used - n)
    BY <1>1, <1>2, <1>3, <1>5, <2>1 DEF DiscardReads
  <2>3. header.used <= Cells
    BY <1>3, HeaderType
  <2>4. Wrap(header.head + n) \in Ring
    <3>1. header.head + n \in Nat /\ header.head + n < Cells + Cells
      BY <1>3, <1>5, <2>3, WrapType
    <3>. QED
      BY <3>1, WrapType
  <2>5. PICK p \in Ring : p = Wrap(header.head + n)
    BY <2>4
  <2>6. file.cells[p].rec.len \in 1..(header.used - n)
        /\ \A j \in 0..(file.cells[p].rec.len - 1) :
             file.cells[Wrap(p + j)] = [rec |-> file.cells[p].rec, at |-> j]
    BY <2>2, <2>5 DEF Readable
  <2>7. 0 \in 0..(file.cells[p].rec.len - 1)
    BY <2>6
  <2>8. Wrap(p + 0) = p
    BY WrapType DEF Wrap, Ring
  <2>9. file.cells[p].at = 0
    <3>1. file.cells[Wrap(p + 0)] = [rec |-> file.cells[p].rec, at |-> 0]
      BY <2>6, <2>7
    <3>. QED
      BY <2>8, <3>1
  <2>. QED
    BY <2>5, <2>9 DEF CellOf
<1>7. begins = Begins(file.cells, header) \cap (0..(n - 1))
  BY <1>1, <1>5
<1>8. recs \subseteq Record
  <2>1. recs \subseteq RecordsOf(file.cells, header)
    BY <1>1 DEF RecordsOf, Begins
  <2>. QED
    BY <1>3, <2>1, ViewType
<1>9. /\ m = Cardinality(Begins(file.cells, header) \cap (0..(n - 1)))
      /\ \A b \in Begins(file.cells, header) \cap (0..(n - 1)) :
           CellOf(file.cells, header, b).rec \in recs
  BY <1>1, <1>7
<1>10. "discard" \in {"pop", "discard", "reset"} /\ run' \in Nat
  BY <1>2, Facts DEF TypeOK
<1>11. Remove("discard", n, m, recs)
  BY <1>2
<1>. QED
  BY <1>5, <1>6, <1>8, <1>9, <1>10, <1>11, RemoveKeeps

\* What the file has is what a power loss leaves, but for what is being written.
LEMMA OnDisk ==
  ASSUME Trusted, Steady, Twin
  PROVE  /\ \E s \in Slots : NewestIs(disk.slots, s) /\ Holds(disk.cells, disk.slots[s], next)
         /\ pc = "record" => /\ Kept(disk) = RecordsOf(disk.cells, header)
                             /\ Holds(disk.cells, header, next)
                             /\ NewestIs(disk.slots, active) /\ disk.slots[active] = header
         /\ pc = "sync" /\ disk.slots[1 - active] # header =>
              /\ Kept(disk) = RecordsOf(file.cells, file.slots[active])
<1>1. CASE pc \in {"down", "idle", "header"}
  BY <1>1 DEF Steady, FileOpens, Twin
<1>2. CASE pc = "record"
  <2>1. /\ Holds(file.cells, header, next) /\ NewestIs(file.slots, active)
        /\ header = file.slots[active]
    BY <1>2 DEF Steady, InMemory
  <2>2. /\ file.slots = disk.slots
        /\ \A k \in Used(header) : CellOf(file.cells, header, k) = CellOf(disk.cells, header, k)
    BY <1>2 DEF Twin
  <2>3. Holds(disk.cells, header, next)
    BY <2>1, <2>2, Agreement
  <2>4. Kept(disk) = RecordsOf(disk.cells, header)
    BY <2>1, <2>2, <2>3, Facts, KeptIs
  <2>. QED
    BY <1>2, <2>1, <2>2, <2>3, <2>4, Facts
<1>3. CASE pc = "sync"
  <2>1. /\ file.cells = disk.cells /\ disk.slots[active] = file.slots[active]
        /\ \/ disk.slots[1 - active] = header
           \/ disk.slots[1 - active].gen < file.slots[active].gen
    BY <1>3 DEF Twin
  <2>2. /\ Holds(file.cells, file.slots[active], next) /\ file.slots[active].gen # 0
        /\ Holds(file.cells, header, next) /\ header.gen = file.slots[active].gen + 1
        /\ file.slots[1 - active] = header
    BY <1>3 DEF Steady, InMemory
  <2>3. CASE disk.slots[1 - active] = header
    <3>1. NewestIs(disk.slots, 1 - active)
      BY <1>3, <2>1, <2>2, <2>3, Facts DEF NewestIs, Slots
    <3>. QED
      BY <1>3, <2>1, <2>2, <2>3, <3>1, Facts
  <2>4. CASE disk.slots[1 - active] # header
    <3>1. NewestIs(disk.slots, active)
      BY <2>1, <2>2, <2>4 DEF NewestIs
    <3>2. Kept(disk) = RecordsOf(file.cells, file.slots[active])
      BY <2>1, <2>2, <3>1, Facts, KeptIs
    <3>. QED
      BY <1>3, <2>1, <2>2, <2>4, <3>1, <3>2, Facts
  <2>. QED
    BY <2>3, <2>4
<1>. QED
  BY <1>1, <1>2, <1>3, Facts DEF TypeOK

\* The power fails: what was on disk is there.
LEMMA PowerLossKeeps == ASSUME Trusted, Steady, PowerLoss PROVE Steady' /\ Durable!Next
<1>1. /\ may = {"power"} /\ file' = disk /\ pc' = "down" /\ op' = "none"
      /\ may' = may /\ header' = header /\ active' = active /\ disk' = disk
      /\ run' = run /\ next' = next /\ promised' = promised /\ released' = released
  BY Facts DEF PowerLoss, callerVars, memoryVars
<1>2. Twin
  BY <1>1 DEF Steady
<1>3. FileOpens'
  BY <1>1, <1>2, OnDisk DEF FileOpens
<1>4. TypeOK'
  BY <1>1, Facts DEF TypeOK
<1>5. Kept(disk') = Kept(disk) /\ Kept(file') = Kept(disk)
  BY <1>1
<1>6. Moves(Kept(disk'), Kept(file'), released')
  BY <1>5, MovesStay
<1>7. Twin'
  BY <1>1 DEF Twin
<1>8. Durable!Next
  BY <1>1, QueueStands
<1>. QED
  BY <1>1, <1>3, <1>4, <1>6, <1>7, <1>8 DEF Steady

\* The system writes a part of the file to the disk.
LEMMA WriteBackKeeps == ASSUME Trusted, Steady, WriteBack PROVE Steady' /\ Durable!Next
<1>1. /\ may = {"power"} /\ may' = may /\ pc' = pc /\ op' = op /\ header' = header
      /\ active' = active /\ file' = file /\ run' = run /\ next' = next
      /\ promised' = promised /\ released' = released
  BY Facts DEF WriteBack, callerVars, memoryVars
<1>2. Twin
  BY <1>1 DEF Steady
<1>3. disk # file
  BY DEF WriteBack
<1>4. pc \in {"record", "sync"}
  BY <1>2, <1>3, Facts DEF Twin, TypeOK
<1>5. Kept(file') = Kept(file) /\ FileOpens'
  BY <1>1 DEF Steady, FileOpens
<1>6. CASE pc = "record"
  <2>0. PICK p \in Ring :
          /\ disk.cells[p] # file.cells[p]
          /\ \E c \in {file.cells[p], Junk} : disk' = [disk EXCEPT !.cells[p] = c]
    BY <1>2, <1>6 DEF WriteBack, Twin
  <2>1. PICK c \in {file.cells[p], Junk} :
          disk.cells[p] # file.cells[p] /\ disk' = [disk EXCEPT !.cells[p] = c]
    BY <2>0
  <2>2. Junk \in Cell
    BY WrapType DEF Junk, Cell, NoRecord, Record, Ring
  <2>3. c \in Cell
    BY <2>2, Facts
  <2>4. /\ disk' \in Image /\ disk'.slots = disk.slots /\ disk'.cells \in [Ring -> Cell]
        /\ \A i \in Ring : i # p => disk'.cells[i] = disk.cells[i]
    BY <2>1, <2>3, Facts DEF Image
  <2>5. ASSUME NEW k \in Used(header)
        PROVE  CellOf(disk'.cells, header, k) = CellOf(disk.cells, header, k)
    <3>1. CellOf(file.cells, header, k) = CellOf(disk.cells, header, k)
      BY <1>2, <1>6 DEF Twin
    <3>2. Wrap(header.head + k) \in Ring
      <4>1. header.head + k \in Nat /\ header.head + k < Cells + Cells
        BY Facts, HeaderType
      <4>. QED
        BY <4>1, WrapType
    <3>3. Wrap(header.head + k) # p
      BY <2>1, <3>1 DEF CellOf
    <3>. QED
      BY <2>4, <3>2, <3>3 DEF CellOf
  <2>6. /\ Kept(disk) = RecordsOf(disk.cells, header) /\ Holds(disk.cells, header, next)
        /\ NewestIs(disk.slots, active) /\ disk.slots[active] = header
    BY <1>2, <1>6, OnDisk
  <2>7. RecordsOf(disk'.cells, header) = RecordsOf(disk.cells, header)
        /\ Holds(disk'.cells, header, next)
    BY <2>5, <2>6, Agreement
  <2>8. Kept(disk') = Kept(disk)
    BY <2>4, <2>6, <2>7, Facts, KeptIs
  <2>9. TypeOK'
    BY <1>1, <2>4, Facts DEF TypeOK
  <2>10. InMemory'
    BY <1>1, <1>6 DEF Steady, InMemory, RecordWritten
  <2>11. Moves(Kept(disk'), Kept(file'), released')
    BY <1>1, <1>5, <2>8 DEF Steady
  <2>12. Twin'
    BY <1>1, <1>2, <1>6, <2>4, <2>5 DEF Twin
  <2>13. Durable!Next
    <3>1. Moves(Kept(disk), Kept(disk'), released)
      BY <2>8, MovesStay
    <3>2. promised' \ promised \subseteq Kept(disk')
      BY <1>1
    <3>. QED
      BY <1>1, <3>1, <3>2, QueueMoves
  <2>. QED
    BY <1>1, <1>5, <2>9, <2>10, <2>11, <2>12, <2>13 DEF Steady
<1>7. CASE pc = "sync"
  <2>1. /\ file.cells = disk.cells /\ disk.slots[active] = file.slots[active]
        /\ \/ disk.slots[1 - active] = header
           \/ disk.slots[1 - active].gen < file.slots[active].gen
    BY <1>2, <1>7 DEF Twin
  <2>2. /\ Holds(file.cells, file.slots[active], next) /\ file.slots[active].gen # 0
        /\ Holds(file.cells, header, next) /\ header.gen = file.slots[active].gen + 1
        /\ file.slots[1 - active] = header
        /\ Moves(RecordsOf(file.cells, file.slots[active]), RecordsOf(file.cells, header), released)
    BY <1>7 DEF Steady, InMemory
  <2>0. PICK s \in Slots :
          /\ disk.slots[s] # file.slots[s]
          /\ \E h \in {file.slots[s], NoHeader} : disk' = [disk EXCEPT !.slots[s] = h]
    BY <2>1 DEF WriteBack
  <2>3. PICK h \in {file.slots[s], NoHeader} :
          disk.slots[s] # file.slots[s] /\ disk' = [disk EXCEPT !.slots[s] = h]
    BY <2>0
  <2>4. s = 1 - active
    BY <2>1, <2>3, Facts DEF Slots
  <2>5. NoHeader \in Header /\ NoHeader.gen = 0
    BY WrapType DEF NoHeader, Header, Ring
  <2>6. h \in Header
    BY <2>3, <2>5, Facts
  <2>7. /\ disk' \in Image /\ disk'.slots \in [Slots -> Header] /\ disk'.cells = disk.cells
        /\ disk'.slots[1 - active] = h /\ disk'.slots[active] = disk.slots[active]
    BY <2>3, <2>4, <2>6, Facts DEF Image, Slots
  <2>8. disk.slots[1 - active] # header
    BY <2>2, <2>3, <2>4
  <2>9. Kept(disk) = RecordsOf(file.cells, file.slots[active])
    BY <1>2, <1>7, <2>8, OnDisk
  <2>10. Kept(file) = RecordsOf(file.cells, header) /\ file.slots[active].gen \in Nat
         /\ 1 - (1 - active) = active
    BY <1>7, Facts, HeaderType DEF Slots
  <2>11. \/ h = header /\ Kept(disk') = Kept(file)
         \/ h = NoHeader /\ Kept(disk') = Kept(disk)
    <3>1. CASE h = header
      <4>1. NewestIs(disk'.slots, 1 - active)
        BY <2>1, <2>2, <2>7, <2>10, <3>1 DEF NewestIs
      <4>2. Kept(disk') = RecordsOf(file.cells, header)
        BY <2>1, <2>2, <2>7, <3>1, <4>1, Facts, KeptIs
      <4>. QED
        BY <2>10, <3>1, <4>2
    <3>2. CASE h = NoHeader
      <4>1. NewestIs(disk'.slots, active)
        BY <2>1, <2>2, <2>5, <2>7, <2>10, <3>2 DEF NewestIs
      <4>2. Kept(disk') = RecordsOf(file.cells, file.slots[active])
        BY <2>1, <2>2, <2>7, <4>1, Facts, KeptIs
      <4>. QED
        BY <2>9, <3>2, <4>2
    <3>. QED
      BY <2>2, <2>3, <2>4, <3>1, <3>2
  <2>12. Moves(Kept(disk), Kept(disk'), released) /\ Moves(Kept(disk'), Kept(file), released)
    BY <2>2, <2>9, <2>10, <2>11, MovesStay
  <2>13. TypeOK'
    BY <1>1, <2>7, Facts DEF TypeOK
  <2>14. Moves(Kept(disk'), Kept(file'), released')
    BY <1>1, <1>5, <2>12
  <2>15. InMemory'
    BY <1>1, <1>7, <2>10, <2>12 DEF Steady, InMemory
  <2>16. Twin'
    BY <1>1, <1>7, <2>1, <2>2, <2>5, <2>7, <2>10, <2>11 DEF Twin
  <2>17. Durable!Next
    <3>1. promised' \ promised \subseteq Kept(disk')
      BY <1>1
    <3>. QED
      BY <1>1, <2>12, <3>1, QueueMoves
  <2>. QED
    BY <1>1, <1>5, <2>13, <2>14, <2>15, <2>16, <2>17 DEF Steady
<1>. QED
  BY <1>4, <1>6, <1>7

\* A spool that has just been created
LEMMA SteadyAtFirst == ASSUME Init PROVE Steady /\ Durable!Init
<1>1. /\ pc = "down" /\ file = Fresh /\ disk = Fresh /\ promised = {} /\ released = {}
  BY DEF Init
<1>2. Junk \in Cell /\ NoHeader \in Header /\ FirstHeader \in Header
  BY WrapType DEF Junk, Cell, NoRecord, Record, Ring, NoHeader, FirstHeader, Header
<1>3. Fresh \in Image /\ Fresh.slots[0] = FirstHeader /\ Fresh.slots[1] = NoHeader
  BY <1>2 DEF Fresh, Image, Slots
<1>4. FirstHeader.gen = 1 /\ FirstHeader.used = 0 /\ FirstHeader.head = 0 /\ FirstHeader.tail = 0
      /\ FirstHeader.count = 0 /\ NoHeader.gen = 0
  BY DEF FirstHeader, NoHeader
<1>5. NewestIs(Fresh.slots, 0)
  BY <1>3, <1>4 DEF NewestIs
<1>6. Used(FirstHeader) = {}
  BY <1>4 DEF Used
<1>7. Begins(Fresh.cells, FirstHeader) = {} /\ RecordsOf(Fresh.cells, FirstHeader) = {}
  BY <1>6 DEF Begins, RecordsOf
<1>8. Holds(Fresh.cells, FirstHeader, next)
  <2>1. Whole(View(Fresh.cells, FirstHeader), FirstHeader.used)
        /\ InOrder(View(Fresh.cells, FirstHeader), FirstHeader.used)
    BY <1>4 DEF Whole, InOrder, Firsts
  <2>2. Counts(Fresh.cells, FirstHeader)
    BY <1>4, <1>7, FS_EmptySet, WrapType DEF Counts, Wrap
  <2>. QED
    BY <1>7, <2>1, <2>2 DEF Holds, Below
<1>9. Kept(Fresh) = {}
  BY <1>3, <1>5, <1>7, <1>8, KeptIs DEF Slots
<1>10. TypeOK
  BY <1>2, <1>3 DEF Init, TypeOK, Slots
<1>11. FileOpens
  BY <1>1, <1>3, <1>5, <1>8 DEF FileOpens, Slots
<1>12. Moves(Kept(disk), Kept(file), released)
  BY <1>1, MovesStay
<1>13. Twin
  BY <1>1 DEF Twin
<1>14. Durable!Init
  BY <1>1, <1>9 DEF Durable!Init
<1>. QED
  BY <1>1, <1>10, <1>11, <1>12, <1>13, <1>14 DEF Steady

-----------------------------------------------------------------------------
(* The theorems.                                                           *)

\* Every step keeps a trusted spool steady and is a step of the queue, or leaves it alone.
LEMMA StepKeeps ==
  ASSUME SpoolInv, [Next]_vars
  PROVE  SpoolInv' /\ [Trusted => Durable!Next]_<<disk, promised, released>>
<1>1. may' = may
  BY DEF Next, vars, WriteRecord, SyncRecord, Pop, DiscardRun, DiscardFails, Reset, Remove,
         WriteHeader, SyncHeader, CommitFails, Crash, WriteBack, PowerLoss, Decay, Open, Quarantine
<1>2. Trusted' <=> Trusted
  BY <1>1 DEF Trusted
<1>3. SUFFICES ASSUME Trusted
               PROVE  Steady' /\ [Durable!Next]_<<disk, promised, released>>
  BY <1>2 DEF SpoolInv
<1>4. Steady
  BY <1>3 DEF SpoolInv
<1>5. CASE UNCHANGED vars
  <2>1. Steady'
    BY <1>4, <1>5 DEF vars, memoryVars, callerVars, Steady, TypeOK, FileOpens, InMemory,
                      RecordWritten, Twin
  <2>. QED
    BY <1>5, <2>1 DEF vars, callerVars
<1>6. CASE Next
  <2>1. CASE \E len \in 1..MaxLength : WriteRecord(len)
    BY <1>3, <1>4, <2>1, WriteRecordKeeps
  <2>2. CASE SyncRecord
    BY <1>3, <1>4, <2>2, SyncRecordKeeps
  <2>3. CASE Pop
    BY <1>3, <1>4, <2>3, PopKeeps
  <2>4. CASE DiscardRun
    BY <1>3, <1>4, <2>4, DiscardKeeps
  <2>5. CASE DiscardFails \/ Crash
    BY <1>3, <1>4, <2>5, StopKeeps
  <2>6. CASE Reset
    BY <1>3, <1>4, <2>6, ResetKeeps
  <2>7. CASE WriteHeader
    BY <1>3, <1>4, <2>7, WriteHeaderKeeps
  <2>8. CASE SyncHeader
    BY <1>3, <1>4, <2>8, SyncHeaderKeeps
  <2>9. CASE CommitFails \/ Decay
    BY <1>3, <1>4, <2>9, NoOtherFault
  <2>10. CASE WriteBack
    BY <1>3, <1>4, <2>10, WriteBackKeeps
  <2>11. CASE PowerLoss
    BY <1>3, <1>4, <2>11, PowerLossKeeps
  <2>12. CASE Open
    BY <1>3, <1>4, <2>12, OpenKeeps
  <2>13. CASE Quarantine
    BY <1>3, <1>4, <2>13, NoQuarantine
  <2>. QED
    BY <1>6, <2>1, <2>2, <2>3, <2>4, <2>5, <2>6, <2>7, <2>8, <2>9, <2>10, <2>11, <2>12, <2>13
       DEF Next
<1>. QED
  BY <1>5, <1>6

\* What a power loss leaves changes only as a persistent queue may, however many records the
\* ring has room for (src/crates/timelens-ipc/src/spool.rs, push, pop_if_matches,
\* discard_run, reset, commit_header, open_paths).
THEOREM SpoolIsDurable == Spec => ImplementsDurableQueue
<1>1. Init => SpoolInv /\ Durable!Init
  BY SteadyAtFirst DEF SpoolInv
<1>2. SpoolInv /\ [Next]_vars => SpoolInv' /\ [Trusted => Durable!Next]_<<disk, promised, released>>
  BY StepKeeps
<1>. QED
  BY <1>1, <1>2, PTL DEF Spec, ImplementsDurableQueue

\* What has been promised and not released
NothingLost == Trusted => promised \ released \subseteq Kept(disk)

\* A crash or a power loss at any moment loses no record that push took and nobody asked to
\* remove.
THEOREM NothingPromisedIsLost == Spec => []Survives
<1>1. Init => SpoolInv /\ NothingLost
  BY SteadyAtFirst DEF SpoolInv, NothingLost, Init
<1>2. ASSUME SpoolInv, NothingLost, [Next]_vars PROVE SpoolInv' /\ NothingLost'
  <2>1. SpoolInv' /\ [Trusted => Durable!Next]_<<disk, promised, released>>
    BY <1>2, StepKeeps
  <2>2. may' = may
    BY <1>2 DEF Next, vars, WriteRecord, SyncRecord, Pop, DiscardRun, DiscardFails, Reset, Remove,
           WriteHeader, SyncHeader, CommitFails, Crash, WriteBack, PowerLoss, Decay, Open,
           Quarantine
  <2>3. Trusted' <=> Trusted
    BY <2>2 DEF Trusted
  <2>4. SUFFICES ASSUME Trusted PROVE promised' \ released' \subseteq Kept(disk')
    BY <2>1, <2>3 DEF NothingLost
  <2>5. promised \ released \subseteq Kept(disk)
    BY <1>2, <2>4 DEF NothingLost
  <2>6. CASE UNCHANGED <<disk, promised, released>>
    <3>1. Kept(disk') = Kept(disk)
      BY <2>6
    <3>. QED
      BY <2>5, <2>6, <3>1
  <2>7. CASE Durable!Next
    <3>1. PICK kept : kept = Kept(disk')
      OBVIOUS
    <3>2. Kept(disk)' = kept
      BY <3>1
    <3>. QED
      BY <2>5, <2>7, <3>1, <3>2 DEF Durable!Next, Durable!KeptMoves, Durable!Promises,
                                    Durable!Releases
  <2>. QED
    BY <2>1, <2>4, <2>6, <2>7
<1>3. SpoolInv /\ NothingLost => Survives
  BY DEF SpoolInv, Steady, Moves, NothingLost, Survives, Retained
<1>. QED
  BY <1>1, <1>2, <1>3, PTL DEF Spec
=============================================================================
