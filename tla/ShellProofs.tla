----------------------------- MODULE ShellProofs -----------------------------
(***************************************************************************)
(* Theorems about ClearAll, AppRules and StatisticsPages: the coordination  *)
(* of a clear, for any bounds and any deaths; the applications' rules, for  *)
(* any applications; the statistics' window, for any pages and changes.     *)
(***************************************************************************)
EXTENDS ClearAll, AppRules, StatisticsPages, FiniteSetTheorems, SequenceTheorems, WellFoundedInduction, TLAPS

\* A set of natural numbers has a least.
LEMMA LeastNatural ==
  ASSUME NEW T \in SUBSET Nat, T # {}
  PROVE  \E x \in T : \A y \in T : x <= y
<1>1. PICK x \in T : \A y \in T : ~(<<y, x>> \in OpToRel(<, Nat))
  BY NatLessThanWellFounded, WFMin
<1>2. \A y \in T : ~(y < x)
  BY <1>1 DEF OpToRel
<1> QED
  BY <1>2

-----------------------------------------------------------------------------
(* ClearAll. *)

\* A request file is owned by a live clearing thread whenever a core runs: the core
\* removes its predecessor's request before anything else, and no thread of its own
\* ends with its request still there.
THEOREM RequestAlwaysOwned == Spec => []RequestOwned
<1>1. Init => RequestOwned
  BY DEF Init, RequestOwned
<1>2. RequestOwned /\ [Next]_vars => RequestOwned'
  <2> SUFFICES ASSUME RequestOwned, [Next]_vars PROVE RequestOwned'
    OBVIOUS
  <2>1. CASE StartCore
    BY <2>1 DEF StartCore, RequestOwned
  <2>2. CASE CoreDies
    BY <2>2 DEF CoreDies, RequestOwned
  <2>3. CASE RequestClear
    BY <2>3 DEF RequestClear, RequestOwned
  <2>4. CASE ClearThread
    BY <2>4 DEF ClearThread, SeePaused, GiveUp, ClearPaused, ReleaseCollector, SeeResumed,
         GiveUpResume, Withdraw, FindCollector, DeleteSpool, ClearAlone, RequestOwned, files
  <2>5. CASE Serve
    BY <2>5 DEF Serve, RequestOwned, files
  <2>6. CASE StartCollector \/ Observe \/ RepairRejected \/ CollectorEnds
    BY <2>6 DEF StartCollector, Observe, RepairRejected, CollectorEnds, RequestOwned, files,
         coreVars
  <2>7. CASE ResetLoop
    BY <2>7 DEF ResetLoop, FirstPublish, SeeRequest, Acknowledge, WaitEnds, WaitTimeout, Rotate,
         Republish, Resume, RequestOwned, files, coreVars
  <2>8. CASE Worker
    BY <2>8 DEF Worker, Take, Connect, ConnectFails, Pop, ReportRejected, RequestOwned, files,
         coreVars
  <2>9. CASE UNCHANGED vars
    BY <2>9 DEF vars, RequestOwned, files, coreVars
  <2> QED
    BY <2>1, <2>2, <2>3, <2>4, <2>5, <2>6, <2>7, <2>8, <2>9 DEF Next
<1> QED
  BY <1>1, <1>2, PTL DEF Spec

\* What the worker is sending exists.
Sending == worker # "idle" => sent # <<>>

\* TypeOK in two parts: the files and processes, and everything else.
Flags == request \in BOOLEAN /\ paused \in BOOLEAN /\ core \in BOOLEAN

Data ==
  /\ clear \in {"none", "requested", "unanswered", "clearing", "cleared", "resuming",
                "alone", "deleting"}
  /\ report \in {"none", "cleared", "failed", "preserved", "unresumed"}
  /\ coll \in {"down", "starting", "loop", "asked", "wait", "rotate", "renew", "resume"}
  /\ run \in Nat /\ seq \in Nat \ {0} /\ fault \in Nat
  /\ worker \in {"idle", "sending", "waiting", "acked", "refused"}
  /\ log \in Seq(Batch) /\ spool \in Seq(Batch) /\ sent \in Seq(Batch) /\ wire \in Seq(Batch)
  /\ era \in Nat /\ asked \in Nat
  /\ Sending

TypeInv == Flags /\ Data

\* The operations on lists of batches.
LEMMA BatchSequences ==
  /\ <<>> \in Seq(Batch)
  /\ \A b \in Batch : <<b>> \in Seq(Batch) /\ <<b>> # <<>>
  /\ \A s \in Seq(Batch), b \in Batch : Append(s, b) \in Seq(Batch)
  /\ \A s \in Seq(Batch) : s # <<>> => Head(s) \in Batch /\ Tail(s) \in Seq(Batch)
<1>1. \A s \in Seq(Batch) : s # <<>> => Head(s) \in Batch /\ Tail(s) \in Seq(Batch)
  BY HeadTailProperties
<1> QED
  BY <1>1

\* Without the batches of a run, batches are left.
LEMMA WithoutRunType ==
  ASSUME NEW s \in Seq(Batch), NEW r \in Nat
  PROVE  WithoutRun(s, r) \in Seq(Batch)
<1> DEFINE kept == {i \in DOMAIN s : s[i].run # r}
<1>1. CASE kept = {}
  BY <1>1 DEF WithoutRun
<1>2. CASE kept # {}
  <2>1. kept \in SUBSET Nat
    OBVIOUS
  <2>2. PICK k \in kept : WithoutRun(s, r) = SubSeq(s, k, Len(s))
    BY <1>2, <2>1, LeastNatural DEF WithoutRun
  <2>3. k \in 1..Len(s) /\ \A i \in k..Len(s) : s[i] \in Batch
    OBVIOUS
  <2> QED
    BY <2>2, <2>3, SubSeqProperties
<1> QED
  BY <1>1, <1>2

\* Every variable keeps its type, for any number of clears, runs and deaths.
THEOREM TypeCorrect == Spec => []TypeOK
<1>1. Init => TypeInv
  <2>1. Init => Flags
    BY Zenon DEF Init, Flags
  <2>2. Init => Data
    BY BatchSequences DEF Init, Data, Sending
  <2> QED
    BY <2>1, <2>2 DEF TypeInv
<1>2. TypeInv /\ [Next]_vars => TypeInv'
  <2> SUFFICES ASSUME TypeInv, [Next]_vars PROVE TypeInv'
    OBVIOUS
  <2>0. \A r \in Nat, n \in Nat : Observed(r, n) \in Batch
    BY DEF TypeInv, Data, Observed, Batch
  <2>1. CASE StartCore
    <3>1. Flags'
      BY <2>1, Zenon DEF StartCore, files, TypeInv, Flags
    <3>2. Data'
      BY <2>1, BatchSequences DEF StartCore, files, collVars, wireVars, history, TypeInv,
          Data, Sending
    <3> QED
      BY <3>1, <3>2 DEF TypeInv
  <2>2. CASE CoreDies
    <3>1. Flags'
      BY <2>2, Zenon DEF CoreDies, files, collVars, history, TypeInv, Flags
    <3>2. Data'
      BY <2>2, BatchSequences DEF CoreDies, files, collVars, history, TypeInv, Data, Sending
    <3> QED
      BY <3>1, <3>2 DEF TypeInv
  <2>3. CASE RequestClear
    <3>1. Flags'
      BY <2>3, Zenon DEF RequestClear, collVars, wireVars, TypeInv, Flags
    <3>2. Data'
      BY <2>3, BatchSequences DEF RequestClear, collVars, wireVars, TypeInv, Data, Sending
    <3> QED
      BY <3>1, <3>2 DEF TypeInv
  <2>4. CASE SeePaused \/ GiveUp \/ ReleaseCollector \/ SeeResumed \/ GiveUpResume \/ Withdraw \/ FindCollector
    <3>1. Flags'
      BY <2>4, Zenon DEF SeePaused, GiveUp, ReleaseCollector, SeeResumed, GiveUpResume,
          Withdraw, FindCollector, files, collVars, wireVars, history, TypeInv, Flags
    <3>2. Data'
      BY <2>4, BatchSequences DEF SeePaused, GiveUp, ReleaseCollector, SeeResumed,
          GiveUpResume, Withdraw, FindCollector, files, collVars, wireVars, history, TypeInv,
          Data, Sending
    <3> QED
      BY <3>1, <3>2 DEF TypeInv
  <2>5. CASE ClearPaused \/ ClearAlone
    <3>1. Flags'
      BY <2>5, Zenon DEF ClearPaused, ClearAlone, ClearDatabase, files, collVars, wireVars,
          TypeInv, Flags
    <3>2. Data'
      <4>1. log' \in Seq(Batch) /\ era' \in Nat
        <5>1. \/ log' = <<>> /\ era' = era + 1
              \/ log' = log /\ era' = era
          BY <2>5 DEF ClearPaused, ClearAlone, ClearDatabase
        <5>2. log \in Seq(Batch) /\ <<>> \in Seq(Batch) /\ era \in Nat /\ era + 1 \in Nat
          BY BatchSequences DEF TypeInv, Data
        <5>3. CASE log' = <<>> /\ era' = era + 1
          BY <5>2, <5>3
        <5>4. CASE log' = log /\ era' = era
          BY <5>2, <5>4
        <5> QED
          BY <5>1, <5>3, <5>4
      <4>2. /\ report' \in {"cleared", "failed"} /\ clear' \in {"none", "cleared"}
            /\ UNCHANGED <<collVars, wireVars, asked>>
        BY <2>5 DEF ClearPaused, ClearAlone, ClearDatabase
      <4> QED
        BY <4>1, <4>2 DEF collVars, wireVars, TypeInv, Data, Sending
    <3> QED
      BY <3>1, <3>2 DEF TypeInv
  <2>6. CASE DeleteSpool
    <3>1. Flags'
      BY <2>6, Zenon DEF DeleteSpool, files, history, wireVars, TypeInv, Flags
    <3>2. Data'
      BY <2>6, BatchSequences DEF DeleteSpool, files, history, wireVars, TypeInv, Data, Sending
    <3> QED
      BY <3>1, <3>2 DEF TypeInv
  <2>7. CASE Serve
    <3>1. Flags'
      BY <2>7, Zenon DEF Serve, InPlace, ResetActive, files, collVars, history, TypeInv, Flags
    <3>2. Data'
      BY ZenonT(60), <2>7, BatchSequences DEF Serve, InPlace, ResetActive, files, collVars, history,
          TypeInv, Data, Sending
    <3> QED
      BY <3>1, <3>2 DEF TypeInv
  <2>8. CASE StartCollector
    <3>1. Flags'
      BY <2>8, Zenon DEF StartCollector, NewRun, coreVars, wireVars, history, TypeInv, Flags
    <3>2. Data'
      BY <2>8, BatchSequences DEF StartCollector, NewRun, coreVars, wireVars, history,
          TypeInv, Data, Sending
    <3> QED
      BY <3>1, <3>2 DEF TypeInv
  <2>9. CASE FirstPublish \/ Observe \/ Republish
    <3>1. Flags'
      BY <2>9, Zenon DEF FirstPublish, Observe, Republish, files, coreVars, wireVars, history,
          TypeInv, Flags
    <3>2. Data'
      <4>1. spool' = Append(spool, Observed(run, seq)) /\ seq' = seq + 1
        BY <2>9 DEF FirstPublish, Observe, Republish
      <4>2. spool' \in Seq(Batch) /\ seq' \in Nat \ {0}
        BY <4>1, <2>0, BatchSequences DEF TypeInv, Data
      <4>3. coll' \in {"loop", "resume"} /\ UNCHANGED <<coreVars, run, fault, wireVars, history>>
        BY <2>9 DEF FirstPublish, Observe, Republish
      <4> QED
        BY <4>2, <4>3 DEF coreVars, wireVars, history, TypeInv, Data, Sending
    <3> QED
      BY <3>1, <3>2 DEF TypeInv
  <2>10. CASE RepairRejected
    <3>1. Flags'
      BY <2>10, Zenon DEF RepairRejected, files, coreVars, wireVars, TypeInv, Flags
    <3>2. Data'
      <4>1. WithoutRun(spool, fault) \in Seq(Batch)
        BY WithoutRunType DEF TypeInv, Data
      <4>2. Append(WithoutRun(spool, fault), Observed(run + 1, 1)) \in Seq(Batch)
        BY <4>1, <2>0, BatchSequences DEF TypeInv, Data
      <4>3. spool' \in Seq(Batch) /\ run' \in Nat /\ seq' \in Nat \ {0}
        <5>1. CASE fault = run
          <6>1. /\ run' = run + 1 /\ seq' = 2
                /\ spool' = Append(WithoutRun(spool, fault), Observed(run + 1, 1))
            BY <2>10, <5>1 DEF RepairRejected
          <6> QED
            BY <4>2, <6>1 DEF TypeInv, Data
        <5>2. CASE fault # run
          <6>1. spool' = WithoutRun(spool, fault) /\ run' = run /\ seq' = seq
            BY <2>10, <5>2 DEF RepairRejected
          <6> QED
            BY <4>1, <6>1 DEF TypeInv, Data
        <5> QED
          BY <5>1, <5>2
      <4>4. fault' = 0 /\ UNCHANGED <<coreVars, coll, wireVars, history>>
        BY <2>10 DEF RepairRejected
      <4> QED
        BY <4>3, <4>4 DEF history, coreVars, wireVars, TypeInv, Data, Sending
    <3> QED
      BY <3>1, <3>2 DEF TypeInv
  <2>11. CASE SeeRequest \/ Acknowledge \/ WaitEnds \/ WaitTimeout \/ Resume
    <3>1. Flags'
      BY <2>11, Zenon DEF SeeRequest, Acknowledge, WaitEnds, WaitTimeout, Resume, files,
          coreVars, wireVars, history, TypeInv, Flags
    <3>2. Data'
      BY <2>11, BatchSequences DEF SeeRequest, Acknowledge, WaitEnds, WaitTimeout, Resume,
          files, coreVars, wireVars, history, TypeInv, Data, Sending
    <3> QED
      BY <3>1, <3>2 DEF TypeInv
  <2>12. CASE Rotate
    <3>1. Flags'
      BY <2>12, Zenon DEF Rotate, NewRun, files, history, coreVars, wireVars, TypeInv, Flags
    <3>2. Data'
      BY <2>12, BatchSequences DEF Rotate, NewRun, files, history, coreVars, wireVars, TypeInv, Data,
          Sending
    <3> QED
      BY <3>1, <3>2 DEF TypeInv
  <2>13. CASE CollectorEnds
    <3>1. Flags'
      BY <2>13, Zenon DEF CollectorEnds, files, coreVars, history, TypeInv, Flags
    <3>2. Data'
      BY <2>13, BatchSequences DEF CollectorEnds, files, coreVars, history, TypeInv, Data,
          Sending
    <3> QED
      BY <3>1, <3>2 DEF TypeInv
  <2>14. CASE Take \/ Connect \/ ConnectFails
    <3>1. Flags'
      BY <2>14, Zenon DEF Take, Connect, ConnectFails, files, coreVars, collVars, history,
          TypeInv, Flags
    <3>2. Data'
      BY ZenonT(30), <2>14, BatchSequences DEF Take, Connect, ConnectFails, files, coreVars, collVars,
          history, TypeInv, Data, Sending
    <3> QED
      BY <3>1, <3>2 DEF TypeInv
  <2>15. CASE Pop
    <3>1. Flags'
      BY <2>15, Zenon DEF Pop, files, coreVars, history, TypeInv, Flags
    <3>2. Data'
      BY <2>15, BatchSequences DEF Pop, files, coreVars, history, TypeInv, Data, Sending
    <3> QED
      BY <3>1, <3>2 DEF TypeInv
  <2>16. CASE ReportRejected
    <3>1. Flags'
      BY <2>16, Zenon DEF ReportRejected, Batch, files, coreVars, history, TypeInv, Flags
    <3>2. Data'
      BY <2>16, BatchSequences DEF ReportRejected, Batch, files, coreVars, history, TypeInv,
          Data, Sending
    <3> QED
      BY <3>1, <3>2 DEF TypeInv
  <2>17. CASE UNCHANGED vars
    <3>1. Flags'
      BY <2>17, Zenon DEF vars, files, coreVars, collVars, wireVars, history, TypeInv, Flags
    <3>2. Data'
      BY <2>17, BatchSequences DEF vars, files, coreVars, collVars, wireVars, history,
          TypeInv, Data, Sending
    <3> QED
      BY <3>1, <3>2 DEF TypeInv
  <2> QED
    BY <2>1, <2>2, <2>3, <2>4, <2>5, <2>6, <2>7, <2>8, <2>9, <2>10, <2>11, <2>12, <2>13, <2>14, <2>15, <2>16, <2>17 DEF
        Next, ClearThread, ResetLoop, Worker
<1> QED
  <2>1. TypeInv => TypeOK
    BY DEF TypeInv, Flags, Data, TypeOK
  <2> QED
    BY <1>1, <1>2, <2>1, PTL DEF Spec

-----------------------------------------------------------------------------
(* AppRules. *)

Increasing(s) == \A i, j \in DOMAIN s : i < j => s[i] < s[j]

\* Every finite set of numbers can be put in order.
LEMMA CanBeSorted ==
  ASSUME NEW S \in SUBSET Nat, IsFiniteSet(S)
  PROVE  \E s \in [1..Cardinality(S) -> S] : Increasing(s)
  <1> DEFINE Unsorted(n) == \E T \in SUBSET Nat : /\ IsFiniteSet(T) /\ Cardinality(T) = n
                                                 /\ ~\E s \in [1..n -> T] : Increasing(s)
             Sizes == {n \in Nat : Unsorted(n)}
  <1>1. SUFFICES ASSUME Sizes # {} PROVE FALSE
    <2>1. Cardinality(S) \in Nat
      BY FS_CardinalityType
    <2> QED
      BY <2>1
  <1>2. PICK n \in Sizes : \A m \in Sizes : n <= m
    BY <1>1, LeastNatural
  <1>3. PICK T \in SUBSET Nat : /\ IsFiniteSet(T) /\ Cardinality(T) = n
                                /\ ~\E s \in [1..n -> T] : Increasing(s)
    BY <1>2
  <1>4. T # {}
    <2>1. SUFFICES ASSUME T = {} PROVE FALSE
      OBVIOUS
    <2>2. n = 0
      BY <1>3, <2>1, FS_EmptySet
    <2>3. [i \in 1..0 |-> 0] \in [1..n -> T] /\ Increasing([i \in 1..0 |-> 0])
      BY <2>2 DEF Increasing
    <2> QED
      BY <1>3, <2>3
  <1>5. PICK x \in T : \A y \in T : x <= y
    BY <1>4, LeastNatural
  <1>6. IsFiniteSet(T \ {x}) /\ Cardinality(T \ {x}) = n - 1 /\ n \in Nat /\ n # 0
    BY <1>3, <1>5, FS_RemoveElement, FS_EmptySet
  <1>7. n - 1 \in Nat /\ n - 1 \notin Sizes
    BY <1>2, <1>6
  <1>8. PICK s \in [1..(n - 1) -> T \ {x}] : Increasing(s)
    BY <1>6, <1>7
  <1> DEFINE t == [i \in 1..n |-> IF i = 1 THEN x ELSE s[i - 1]]
  <1>9. \A i \in 2..n : i - 1 \in 1..(n - 1) /\ s[i - 1] \in T \ {x} /\ t[i] = s[i - 1]
    BY <1>6, <1>8
  <1>10. t \in [1..n -> T] /\ t[1] = x
    BY <1>5, <1>6, <1>8, <1>9
  <1>11. ASSUME NEW i \in 1..n, NEW j \in 1..n, i < j PROVE t[i] < t[j]
    <2>1. j \in 2..n /\ t[j] \in T \ {x} /\ t[j] = s[j - 1] /\ j - 1 \in 1..(n - 1)
      BY <1>6, <1>9, <1>11
    <2>2. CASE i = 1
      <3>1. x <= t[j] /\ x # t[j] /\ x \in Nat /\ t[j] \in Nat
        BY <1>5, <2>1
      <3> QED
        BY <1>10, <2>2, <3>1
    <2>3. CASE i # 1
      <3>1. i \in 2..n /\ i - 1 \in 1..(n - 1) /\ t[i] = s[i - 1] /\ i - 1 < j - 1
        BY <1>6, <1>9, <1>11, <2>3
      <3> QED
        BY <1>8, <2>1, <3>1 DEF Increasing
    <2> QED
      BY <2>2, <2>3
  <1>12. Increasing(t)
    BY <1>10, <1>11 DEF Increasing
  <1> QED
    BY <1>3, <1>10, <1>12

\* The list that the page reads is one of applications.
LEMMA SortedType ==
  ASSUME NEW apps \in SUBSET Applications
  PROVE  Sorted(apps) \in Seq(Applications)
  <1>1. apps \in SUBSET Nat /\ IsFiniteSet(apps)
    BY AppRulesAssumption, FS_Subset
  <1>2. \E s \in [1..Cardinality(apps) -> apps] : \A i, j \in DOMAIN s : i < j => s[i] < s[j]
    BY <1>1, CanBeSorted DEF Increasing
  <1>3. Sorted(apps) \in [1..Cardinality(apps) -> apps]
    BY <1>2 DEF Sorted
  <1>4. Cardinality(apps) \in Nat
    BY <1>1, FS_CardinalityType
  <1> QED
    BY <1>3, <1>4

-----------------------------------------------------------------------------
(* The groups that links and relabelled pairs make of the applications.    *)

Closed(s, pairs) == \A e \in Edges(pairs) : e \cap s # {} => e \subseteq s

\* A group has its application, is closed under what links its members, and is the least
\* such set.
LEMMA GroupProperties ==
  ASSUME NEW a \in Applications, NEW pairs \in SUBSET (SUBSET Applications)
  PROVE  /\ a \in Group(a, pairs) /\ Group(a, pairs) \subseteq Applications
         /\ Closed(Group(a, pairs), pairs)
         /\ \A s \in SUBSET Applications : a \in s /\ Closed(s, pairs) => Group(a, pairs) \subseteq s
  <1>1. \A e \in Edges(pairs) : e \subseteq Applications
    BY AppRulesAssumption DEF Edges
  <1> QED
    BY <1>1 DEF Group, Closed

\* Two groups are the same or have nothing in common.
LEMMA GroupsPart ==
  ASSUME NEW a \in Applications, NEW b \in Applications, NEW pairs \in SUBSET (SUBSET Applications),
         a \in Group(b, pairs)
  PROVE  Group(a, pairs) = Group(b, pairs)
  <1>1. \A e \in Edges(pairs) : e \subseteq Applications
    BY AppRulesAssumption DEF Edges
  <1>2. Group(a, pairs) \subseteq Group(b, pairs)
    BY GroupProperties
  <1>3. Closed(Applications \ Group(a, pairs), pairs)
    BY <1>1, GroupProperties DEF Closed
  <1>4. b \in Group(a, pairs)
    BY <1>3, GroupProperties
  <1>5. Group(b, pairs) \subseteq Group(a, pairs)
    BY <1>4, GroupProperties
  <1> QED
    BY <1>2, <1>5

\* A linked pair is in a group or apart from it.
LEMMA PairInGroup ==
  ASSUME NEW a \in Applications, NEW pairs \in SUBSET (SUBSET Applications), NEW pair \in pairs
  PROVE  pair \subseteq Group(a, pairs) \/ pair \cap Group(a, pairs) = {}
  BY GroupProperties DEF Closed, Edges

Agree(list, pairs) == \A pair \in pairs : pair \subseteq list \/ pair \cap list = {}

\* A switch for a group, and the rules of two groups that are merged.
LEMMA SwitchedAgrees ==
  ASSUME NEW a \in Applications, NEW pairs \in SUBSET (SUBSET Applications), NEW list, Agree(list, pairs),
         NEW on, NEW was
  PROVE  Agree(Switched(list, Group(a, pairs), on, was), pairs)
  BY PairInGroup DEF Agree, Switched

\* After a merge both groups are wholly in the list or wholly out of it.
LEMMA SharedAgrees ==
  ASSUME NEW a \in Applications, NEW b \in Applications, NEW pairs \in SUBSET (SUBSET Applications),
         NEW list, Agree(list, pairs)
  PROVE  Agree(Shared(list, Group(a, pairs) \cup Group(b, pairs)), pairs \cup {{a, b}})
  <1>1. \A pair \in pairs : \/ pair \subseteq Group(a, pairs) \cup Group(b, pairs)
                            \/ pair \cap (Group(a, pairs) \cup Group(b, pairs)) = {}
    BY PairInGroup
  <1>2. {a, b} \subseteq Group(a, pairs) \cup Group(b, pairs)
    BY GroupProperties
  <1> QED
    BY <1>1, <1>2 DEF Agree, Shared

\* What is left of a merge shares its rules again, whatever was put back.
LEMMA RegroupedAgrees ==
  ASSUME NEW members \in SUBSET Applications, NEW pairs \in SUBSET (SUBSET Applications), NEW list,
         \A pair \in pairs : pair \cap members = {} => pair \subseteq list \/ pair \cap list = {}
  PROVE  Agree(Regrouped(list, members, pairs), pairs)
  <1> SUFFICES ASSUME NEW pair \in pairs, NEW x \in pair, x \in Regrouped(list, members, pairs), NEW y \in pair
               PROVE  y \in Regrouped(list, members, pairs)
    BY DEF Agree
  <1>1. CASE \E b \in members : Group(b, pairs) \cap list # {} /\ x \in Group(b, pairs)
    <2>1. PICK b \in members : Group(b, pairs) \cap list # {} /\ x \in Group(b, pairs)
      BY <1>1
    <2>2. y \in Group(b, pairs)
      BY <2>1, PairInGroup
    <2> QED
      BY <2>1, <2>2 DEF Regrouped
  <1>2. CASE x \in list /\ pair \cap members = {}
    BY <1>2 DEF Regrouped
  <1>3. CASE x \in list /\ pair \cap members # {}
    <2>1. PICK b \in members : b \in pair
      BY <1>3
    <2>2. pair \subseteq Group(b, pairs)
      BY <2>1, PairInGroup, GroupProperties
    <2> QED
      BY <1>3, <2>1, <2>2 DEF Regrouped
  <1> QED
    BY <1>1, <1>2, <1>3 DEF Regrouped

-----------------------------------------------------------------------------
(* The invariant. *)

Perhaps == Applications \cup {Nothing}
Switches == [policy : BOOLEAN, shots : BOOLEAN]
Links == [pair : SUBSET Applications,
          prior : [members : SUBSET Applications, policy : SUBSET Applications, shots : SUBSET Applications]]
Stages == {"asked", "done"}

RulesWork == [stage : Stages, action : {"rules"}, id : Perhaps, named : Perhaps, on : Switches, was : Switches]
DeleteWork == [stage : Stages, action : {"delete"}, id : Perhaps, named : Perhaps]
MergeWork == [stage : Stages, action : {"merge"}, id : Perhaps, named : Perhaps, other : Perhaps]
UnmergeWork == [stage : Stages, action : {"unmerge"}, pair : SUBSET Applications]
PauseWork == [stage : Stages, action : {"pause"}, named : Perhaps]
FileAsked == [stage : {"asked"}, action : {"file"}, named : Perhaps]
FileDone == [stage : {"done"}, action : {"file"}, id : Perhaps, named : Perhaps]
Works == RulesWork \cup DeleteWork \cup MergeWork \cup UnmergeWork \cup PauseWork \cup FileAsked \cup FileDone

StoredOK ==
  /\ recorded \in SUBSET Applications /\ policy \in SUBSET Applications /\ shots \in SUBSET Applications
  /\ links \in SUBSET Links
  /\ \A l, k \in links : l.pair = k.pair => l = k
PageOK == page \in Page
WorkOK == work \in Works \cup {Nothing}
TurnsOK == turns \in 0..MaxTurns
RulesInv == StoredOK /\ PageOK /\ WorkOK /\ TurnsOK /\ MergedAgree

\* The invariant is at least the type.
LEMMA InvTypes == RulesInv => RulesTypeOK
  <1>1. ASSUME RulesInv, work # Nothing PROVE work.stage \in Stages
    BY <1>1 DEF RulesInv, WorkOK, Works, RulesWork, DeleteWork, MergeWork, UnmergeWork, PauseWork, FileAsked, FileDone, Stages
  <1> QED
    BY <1>1 DEF RulesInv, StoredOK, PageOK, TurnsOK, RulesTypeOK, Stages

\* The merged pairs are of applications ...
LEMMA PairsType == ASSUME StoredOK PROVE Pairs \in SUBSET (SUBSET Applications)
  BY DEF StoredOK, Pairs, Links

\* ... and so are the applications that storage knows.
LEMMA KnownType == ASSUME StoredOK PROVE Known \in SUBSET Applications
  BY DEF StoredOK, Known

\* The list read anew, and an application of the list selected, leave a page.
LEMMA RefreshedPage ==
  ASSUME StoredOK, NEW p \in Page
  PROVE  Refreshed(p) \in Page /\ Refreshed(p).index = p.index
  <1>1. Sorted(Known) \in Seq(Applications)
    BY KnownType, SortedType
  <1> QED
    BY <1>1 DEF Refreshed, Page

\* Choosing a row of the list gives a page.
LEMMA SelectedPage ==
  ASSUME NEW p \in Page, NEW i \in DOMAIN p.apps
  PROVE  Selected(p, i) \in Page
  <1>1. p.apps \in Seq(Applications)
    BY DEF Page
  <1>2. i \in Nat /\ p.apps[i] \in Applications
    BY <1>1
  <1>3. [policy |-> policy \cap Members(p.apps[i]) # {}, shots |-> shots \cap Members(p.apps[i]) # {}]
        \in [policy : BOOLEAN, shots : BOOLEAN]
    OBVIOUS
  <1> HIDE DEF Members
  <1> DEFINE sh == [policy |-> policy \cap Members(p.apps[i]) # {}, shots |-> shots \cap Members(p.apps[i]) # {}]
  <1>4. Selected(p, i) = [p EXCEPT !.index = i, !.named = p.apps[i], !.other = 0, !.shown = sh]
    BY DEF Selected
  <1> HIDE DEF sh
  <1>5. [p EXCEPT !.index = i, !.named = p.apps[i], !.other = 0, !.shown = sh] \in Page
    BY <1>2, <1>3 DEF Page, sh
  <1> QED
    BY <1>4, <1>5

\* Asking, and opening the menu, give a page.
LEMMA ConfirmPage ==
  ASSUME NEW p \in Page, NEW c \in {"none", "delete", "merge"}, NEW n \in Nat, NEW o \in BOOLEAN
  PROVE  /\ [p EXCEPT !.confirm = c] \in Page /\ [p EXCEPT !.open = o] \in Page
         /\ [p EXCEPT !.other = n, !.confirm = c] \in Page
  BY DEF Page

\* What the page has chosen is an application, or nothing.
LEMMA ChosenType == ASSUME PageOK, NEW i PROVE At(i) \in Perhaps /\ page.named \in Perhaps /\ page.shown \in Switches
  <1>1. page.apps \in Seq(Applications)
    BY DEF PageOK, Page
  <1> QED
    BY <1>1 DEF PageOK, Page, At, Perhaps, Switches

\* An application of the list has a place in it.
LEMMA PlaceOfType ==
  ASSUME NEW apps, NEW a, \E i \in DOMAIN apps : apps[i] = a
  PROVE  PlaceOf(a, apps) \in DOMAIN apps
  BY DEF PlaceOf

\* Of the applications that storage knows, each has a place in the list.
LEMMA SortedHasAll ==
  ASSUME NEW apps \in SUBSET Applications, NEW a \in apps
  PROVE  \E i \in DOMAIN Sorted(apps) : Sorted(apps)[i] = a
  <1>1. apps \in SUBSET Nat /\ IsFiniteSet(apps)
    BY AppRulesAssumption, FS_Subset
  <1>2. \E s \in [1..Cardinality(apps) -> apps] : \A i, j \in DOMAIN s : i < j => s[i] < s[j]
    BY <1>1, CanBeSorted DEF Increasing
  <1>3. Sorted(apps) \in [1..Cardinality(apps) -> apps] /\ \A i, j \in DOMAIN Sorted(apps) : i < j => Sorted(apps)[i] < Sorted(apps)[j]
    BY <1>2 DEF Sorted
  <1>4. Cardinality(apps) \in Nat
    BY <1>1, FS_CardinalityType
  <1> DEFINE s == Sorted(apps)
             D == 1..Cardinality(apps)
  <1> HIDE DEF s
  <1>5. s \in [D -> apps] /\ \A i, j \in D : s[i] = s[j] => i = j
    <2>1. \A i, j \in D : i = j \/ i < j \/ j < i
      BY <1>4
    <2>2. \A i \in D : s[i] \in Nat
      BY <1>1, <1>3 DEF s
    <2> QED
      BY <1>3, <2>1, <2>2 DEF s
  <1>6. s \in Injection(D, apps)
    BY <1>5 DEF Injection, IsInjective
  <1>7. IsFiniteSet(D) /\ Cardinality(D) = Cardinality(apps)
    BY <1>4, FS_Interval
  <1>8. s \in Surjection(D, apps)
    BY <1>1, <1>6, <1>7, FS_Injection
  <1> QED
    BY <1>3, <1>8 DEF Surjection, s

-----------------------------------------------------------------------------
(* The pages' steps. *)

\* It holds before anything is known.
LEMMA RulesInvInitially == RulesInit => RulesInv
  <1> SUFFICES ASSUME RulesInit PROVE RulesInv
    OBVIOUS
  <1>1. StoredOK /\ MergedAgree
    BY DEF RulesInit, StoredOK, Links, MergedAgree, Pairs
  <1>2. Unchosen \in Page
    <2>1. <<>> \in Seq(Applications)
      OBVIOUS
    <2>2. [policy |-> FALSE, shots |-> FALSE] \in [policy : BOOLEAN, shots : BOOLEAN]
      OBVIOUS
    <2> QED
      BY <2>1, <2>2 DEF Unchosen, Page
  <1>3. Refreshed(Unchosen) \in Page
    BY <1>1, <1>2, RefreshedPage
  <1>4. [Refreshed(Unchosen) EXCEPT !.open = TRUE] \in Page
        /\ [Refreshed(Unchosen) EXCEPT !.open = TRUE].apps = Refreshed(Unchosen).apps
    BY <1>3 DEF Page
  <1>5. page \in Page
    <2>1. \A i \in DOMAIN Refreshed(Unchosen).apps : Selected([Refreshed(Unchosen) EXCEPT !.open = TRUE], i) \in Page
      BY <1>4, SelectedPage
    <2> QED
      BY <1>3, <2>1 DEF RulesInit
  <1>6. WorkOK /\ TurnsOK
    BY AppRulesAssumption DEF RulesInit, WorkOK, TurnsOK
  <1> QED
    BY <1>1, <1>5, <1>6 DEF RulesInv, PageOK

\* What leaves storage as it is keeps what storage promises.
LEMMA StoredKept ==
  ASSUME RulesInv, UNCHANGED stored
  PROVE  StoredOK' /\ MergedAgree'
  BY DEF RulesInv, StoredOK, stored, MergedAgree, Pairs, Links

\* Turns stay within their bound.
LEMMA TurnKept == ASSUME RulesInv, Turn \/ UNCHANGED turns PROVE TurnsOK'
  BY AppRulesAssumption DEF RulesInv, TurnsOK, Turn

\* Recording an application changes no rule (RulesInv, by each action in turn).
LEMMA RecordedKeeps == ASSUME RulesInv, Recorded PROVE RulesInv'
  <1>1. StoredOK' /\ MergedAgree'
    BY DEF RulesInv, Recorded, StoredOK, MergedAgree, Pairs, Links
  <1>2. PageOK' /\ WorkOK' /\ TurnsOK'
    BY TurnKept DEF RulesInv, Recorded, PageOK, WorkOK
  <1> QED
    BY <1>1, <1>2 DEF RulesInv

\* Opening the page lists what storage knows.
LEMMA OpenedKeeps == ASSUME RulesInv, Opened PROVE RulesInv'
  <1>1. page \in Page /\ [page EXCEPT !.open = TRUE] \in Page
    BY DEF RulesInv, PageOK, Page
  <1>2. Refreshed([page EXCEPT !.open = TRUE]) \in Page
    BY <1>1, RefreshedPage DEF RulesInv
  <1> DEFINE fresh == Refreshed([page EXCEPT !.open = TRUE])
  <1> HIDE DEF fresh
  <1>3. fresh.apps # <<>> => 1 \in DOMAIN fresh.apps
    <2>1. fresh.apps \in Seq(Applications)
      BY <1>2 DEF fresh, Page
    <2> QED
      BY <2>1
  <1>4. \A i \in DOMAIN fresh.apps : Selected(fresh, i) \in Page
    BY <1>2, SelectedPage DEF fresh
  <1>5. PageOK'
    BY <1>2, <1>3, <1>4 DEF Opened, fresh, PageOK
  <1>6. WorkOK' /\ TurnsOK' /\ StoredOK' /\ MergedAgree'
    BY TurnKept, StoredKept DEF RulesInv, Opened, WorkOK
  <1> QED
    BY <1>5, <1>6 DEF RulesInv

\* Choosing another application changes the page alone.
LEMMA ChooseKeeps == ASSUME RulesInv, Choose PROVE RulesInv'
  <1>1. PageOK'
    BY SelectedPage DEF RulesInv, PageOK, Choose
  <1>2. WorkOK' /\ TurnsOK' /\ StoredOK' /\ MergedAgree'
    BY TurnKept, StoredKept DEF RulesInv, Choose, WorkOK
  <1> QED
    BY <1>1, <1>2 DEF RulesInv

\* Closing, and the dialogs.
LEMMA DialogsKeep == ASSUME RulesInv, Leave \/ AskDelete \/ AskMerge \/ Dismiss PROVE RulesInv'
  <1>1. page \in Page /\ \A i \in DOMAIN page.apps : i \in Nat
    <2>1. page \in Page /\ page.apps \in Seq(Applications)
      BY DEF RulesInv, PageOK, Page
    <2> QED
      BY <2>1
  <1>2. PageOK'
    <2>1. /\ [page EXCEPT !.open = FALSE] \in Page
          /\ [page EXCEPT !.confirm = "delete"] \in Page
          /\ [page EXCEPT !.confirm = "none"] \in Page
      BY <1>1, ConfirmPage
    <2>2. \A i \in DOMAIN page.apps : [page EXCEPT !.other = i, !.confirm = "merge"] \in Page
      BY <1>1, ConfirmPage
    <2> QED
      BY <2>1, <2>2 DEF Leave, AskDelete, AskMerge, Dismiss, PageOK
  <1>3. WorkOK' /\ TurnsOK' /\ StoredOK' /\ MergedAgree'
    BY TurnKept, StoredKept DEF RulesInv, Leave, AskDelete, AskMerge, Dismiss, WorkOK
  <1> QED
    BY <1>2, <1>3 DEF RulesInv

\* A switch of the page changes the page alone.
LEMMA ToggleKeeps == ASSUME RulesInv, Toggle PROVE RulesInv'
  <1>1. PICK switch \in {"policy", "shots"} :
          work' = [stage |-> "asked", action |-> "rules", id |-> Chosen, named |-> page.named,
                   on |-> [page.shown EXCEPT ![switch] = ~@], was |-> page.shown]
    BY DEF Toggle
  <1>2. Chosen \in Perhaps /\ page.named \in Perhaps /\ page.shown \in Switches
    BY ChosenType DEF RulesInv, Chosen
  <1>3. [page.shown EXCEPT ![switch] = ~@] \in Switches
    BY <1>2 DEF Switches
  <1>4. work' \in RulesWork
    BY <1>1, <1>2, <1>3 DEF RulesWork, Stages
  <1>5. WorkOK'
    BY <1>4 DEF WorkOK, Works
  <1>6. PageOK' /\ TurnsOK' /\ StoredOK' /\ MergedAgree'
    BY TurnKept, StoredKept DEF RulesInv, Toggle, PageOK
  <1> QED
    BY <1>5, <1>6 DEF RulesInv

\* What the menu of an application starts names an application.
LEMMA AppMenuKeeps == ASSUME RulesInv, AppMenu PROVE RulesInv'
  <1>1. PICK a \in Applications, item \in {"exclude", "delete"} :
          IF a \notin Known THEN page' = Refreshed(page) /\ UNCHANGED work
          ELSE \E p \in {Selected(Refreshed(page), PlaceOf(a, Refreshed(page).apps))} :
                 IF item = "delete" THEN page' = [p EXCEPT !.confirm = "delete"] /\ UNCHANGED work
                 ELSE /\ page' = p
                      /\ work' = [stage |-> "asked", action |-> "rules", id |-> a, named |-> a,
                                  on |-> [p.shown EXCEPT !.policy = TRUE], was |-> p.shown]
    BY DEF AppMenu
  <1>2. Refreshed(page) \in Page /\ page \in Page
    BY RefreshedPage DEF RulesInv, PageOK
  <1>3. TurnsOK' /\ StoredOK' /\ MergedAgree'
    BY TurnKept, StoredKept DEF RulesInv, AppMenu
  <1>4. PageOK' /\ WorkOK'
    <2>1. CASE a \notin Known
      BY <1>1, <1>2, <2>1 DEF RulesInv, PageOK, WorkOK
    <2>2. CASE a \in Known
      <3> DEFINE p == Selected(Refreshed(page), PlaceOf(a, Refreshed(page).apps))
      <3>1. \E i \in DOMAIN Refreshed(page).apps : Refreshed(page).apps[i] = a
        <4>1. Refreshed(page).apps = Sorted(Known)
          BY <1>2 DEF Refreshed, Page
        <4>2. StoredOK
          BY DEF RulesInv
        <4> QED
          BY <2>2, <4>1, <4>2, KnownType, SortedHasAll
      <3>2. p \in Page
        BY <1>2, <3>1, PlaceOfType, SelectedPage
      <3> HIDE DEF p
      <3>3. [p EXCEPT !.confirm = "delete"] \in Page
        BY <3>2, ConfirmPage
      <3>4. p.shown \in Switches /\ [p.shown EXCEPT !.policy = TRUE] \in Switches
        BY <3>2 DEF Page, Switches
      <3>5. [stage |-> "asked", action |-> "rules", id |-> a, named |-> a,
             on |-> [p.shown EXCEPT !.policy = TRUE], was |-> p.shown] \in RulesWork
        BY <3>4 DEF RulesWork, Stages, Perhaps
      <3>6. IF item = "delete" THEN page' = [p EXCEPT !.confirm = "delete"] /\ UNCHANGED work
            ELSE /\ page' = p
                 /\ work' = [stage |-> "asked", action |-> "rules", id |-> a, named |-> a,
                             on |-> [p.shown EXCEPT !.policy = TRUE], was |-> p.shown]
        BY <1>1, <2>2 DEF p
      <3> QED
        BY <3>2, <3>3, <3>5, <3>6 DEF RulesInv, PageOK, WorkOK, Works
    <2> QED
      BY <2>1, <2>2
  <1> QED
    BY <1>3, <1>4 DEF RulesInv

\* What is confirmed names an application.
LEMMA AcceptKeeps == ASSUME RulesInv, Accept PROVE RulesInv'
  <1>1. PageOK'
    BY ConfirmPage DEF RulesInv, PageOK, Accept
  <1>2. Chosen \in Perhaps /\ page.named \in Perhaps /\ At(page.other) \in Perhaps
    BY ChosenType DEF RulesInv, Chosen
  <1>3. [stage |-> "asked", action |-> "delete", id |-> Chosen, named |-> page.named] \in DeleteWork
    BY <1>2 DEF DeleteWork, Stages
  <1>4. [stage |-> "asked", action |-> "merge", id |-> Chosen, named |-> page.named, other |-> At(page.other)] \in MergeWork
    BY <1>2 DEF MergeWork, Stages
  <1>5. WorkOK'
    BY <1>3, <1>4 DEF RulesInv, WorkOK, Works, Accept
  <1>6. TurnsOK' /\ StoredOK' /\ MergedAgree'
    BY TurnKept, StoredKept DEF RulesInv, Accept
  <1> QED
    BY <1>1, <1>5, <1>6 DEF RulesInv

\* So do taking apart, pausing and choosing a file.
LEMMA OthersKeep == ASSUME RulesInv, TakeApart \/ PauseOrFile \/ FileChosen PROVE RulesInv'
  <1>1. Pairs \in SUBSET (SUBSET Applications) /\ page.named \in Perhaps
    BY PairsType, ChosenType DEF RulesInv
  <1>2. CASE TakeApart
    <2>1. \A pair \in Pairs : [stage |-> "asked", action |-> "unmerge", pair |-> pair] \in UnmergeWork
      BY <1>1 DEF UnmergeWork, Stages
    <2>2. WorkOK'
      BY <1>2, <2>1 DEF TakeApart, WorkOK, Works
    <2> QED
      BY <1>2, <2>2, TurnKept, StoredKept DEF RulesInv, TakeApart, PageOK
  <1>3. CASE PauseOrFile
    <2>1. /\ [stage |-> "asked", action |-> "pause", named |-> page.named] \in PauseWork
          /\ [stage |-> "asked", action |-> "file", named |-> page.named] \in FileAsked
      BY <1>1 DEF PauseWork, FileAsked, Stages
    <2>2. WorkOK'
      BY <1>3, <2>1 DEF PauseOrFile, WorkOK, Works
    <2> QED
      BY <1>3, <2>2, TurnKept, StoredKept DEF RulesInv, PauseOrFile, PageOK
  <1>4. CASE FileChosen
    <2>1. work.named \in Perhaps
      BY <1>4 DEF FileChosen, RulesInv, WorkOK, Works, RulesWork, DeleteWork, MergeWork, UnmergeWork, PauseWork, FileAsked, FileDone
    <2>2. \A a \in Perhaps : [stage |-> "done", action |-> "file", id |-> a, named |-> work.named] \in FileDone
      BY <2>1 DEF FileDone
    <2>3. WorkOK'
      BY <1>4, <2>2 DEF FileChosen, WorkOK, Works, Perhaps
    <2> QED
      BY <1>4, <2>3, TurnKept, StoredKept DEF RulesInv, FileChosen, PageOK
  <1> QED
    BY <1>2, <1>3, <1>4

\* The page takes over what the work has done.
LEMMA UpdatesKeep == ASSUME RulesInv, UpdatesAreReady PROVE RulesInv'
  <1>1. Refreshed(page) \in Page /\ page \in Page
    BY RefreshedPage DEF RulesInv, PageOK
  <1> DEFINE fresh == Refreshed(page)
  <1> HIDE DEF fresh
  <1>2. fresh \in Page /\ fresh.apps \in Seq(Applications) /\ fresh.index \in Nat
    BY <1>1 DEF fresh, Page
  <1>3. Reselected(fresh) \in Page
    <2>1. CASE fresh.apps = <<>> \/ (fresh.index = 0 /\ work.action # "delete")
      BY <1>2, <2>1 DEF Reselected
    <2>2. CASE ~(fresh.apps = <<>> \/ (fresh.index = 0 /\ work.action # "delete"))
      <3> DEFINE i == IF fresh.index = 0 THEN 1 ELSE IF fresh.index > Len(fresh.apps) THEN Len(fresh.apps) ELSE fresh.index
      <3>1. Len(fresh.apps) \in Nat /\ Len(fresh.apps) # 0 /\ DOMAIN fresh.apps = 1..Len(fresh.apps)
        BY <1>2, <2>2
      <3>2. i \in DOMAIN fresh.apps
        BY <1>2, <3>1
      <3>3. Reselected(fresh) = Selected(fresh, i)
        BY <2>2 DEF Reselected
      <3> HIDE DEF i
      <3> QED
        BY <1>2, <3>2, <3>3, SelectedPage
    <2> QED
      BY <2>1, <2>2
  <1>4. ASSUME NEW a \in Applications PROVE WithFile(fresh, a) \in Page
    <2> DEFINE listed == IF a \in ToSet(fresh.apps) THEN fresh ELSE [fresh EXCEPT !.apps = Append(@, a)]
    <2>1. listed \in Page /\ \E i \in DOMAIN listed.apps : listed.apps[i] = a
      <3>1. CASE a \in ToSet(fresh.apps)
        BY <1>2, <3>1 DEF ToSet
      <3>2. CASE a \notin ToSet(fresh.apps)
        <4>1. Append(fresh.apps, a) \in Seq(Applications) /\ Len(fresh.apps) + 1 \in DOMAIN Append(fresh.apps, a)
              /\ Append(fresh.apps, a)[Len(fresh.apps) + 1] = a
          BY <1>2
        <4>2. listed = [fresh EXCEPT !.apps = Append(fresh.apps, a)]
          BY <3>2
        <4>3. listed \in Page /\ listed.apps = Append(fresh.apps, a)
          BY <1>2, <4>1, <4>2 DEF Page
        <4> QED
          BY <4>1, <4>3
      <3> QED
        BY <3>1, <3>2
    <2>2. WithFile(fresh, a) = Selected(listed, PlaceOf(a, listed.apps))
      BY DEF WithFile
    <2> HIDE DEF listed
    <2>3. PlaceOf(a, listed.apps) \in DOMAIN listed.apps
      BY <2>1, PlaceOfType
    <2> QED
      BY <2>1, <2>2, <2>3, SelectedPage
  <1>5. work.action = "file" => work.id \in Perhaps
    BY DEF UpdatesAreReady, RulesInv, WorkOK, Works, RulesWork, DeleteWork, MergeWork, UnmergeWork, PauseWork, FileAsked, FileDone
  <1>6. PageOK'
    <2>1. page' = page \/ page' = IF work.action # "file" THEN Reselected(fresh)
                                  ELSE IF work.id = Nothing THEN fresh ELSE WithFile(fresh, work.id)
      BY DEF UpdatesAreReady, fresh
    <2>2. work.action = "file" /\ work.id # Nothing => work.id \in Applications
      BY <1>5 DEF Perhaps
    <2>3. page' \in Page
      BY <1>1, <1>2, <1>3, <1>4, <2>1, <2>2
    <2> QED
      BY <2>3 DEF PageOK
  <1>7. WorkOK' /\ TurnsOK' /\ StoredOK' /\ MergedAgree'
    BY TurnKept, StoredKept DEF UpdatesAreReady, WorkOK
  <1> QED
    BY <1>6, <1>7 DEF RulesInv

-----------------------------------------------------------------------------
(* What storage does. *)

\* A pair stands for one link: without the link, the pair is gone too.
LEMMA OneLinkAPair ==
  ASSUME StoredOK, NEW link \in links
  PROVE  {l.pair : l \in links \ {link}} = Pairs \ {link.pair}
  BY DEF StoredOK, Pairs

\* The policy after a save is the new one or the old one; both lists keep their type.
LEMMA SaveBothGives ==
  ASSUME StoredOK, NEW newPolicy \in SUBSET Applications, NEW newShots \in SUBSET Applications,
         NEW members \in SUBSET Applications, SaveBoth(newPolicy, newShots, members)
  PROVE  policy' \in {newPolicy, policy} /\ policy' \in SUBSET Applications /\ shots' \in SUBSET Applications
  BY DEF StoredOK, SaveBoth

\* Saving rules writes them for a whole group (update_application_rules).
LEMMA SaveRulesKeeps ==
  ASSUME StoredOK, MergedAgree, NEW w, w.id \in Applications, SaveRules(w)
  PROVE  StoredOK' /\ MergedAgree'
  <1>1. Pairs \in SUBSET (SUBSET Applications) /\ Agree(policy, Pairs)
    BY PairsType DEF MergedAgree, Agree
  <1>2. Members(w.id) = Group(w.id, Pairs) /\ Members(w.id) \in SUBSET Applications
    BY <1>1, GroupProperties DEF Members
  <1> DEFINE toPolicy == Switched(policy, Members(w.id), w.on.policy, w.was.policy)
             toShots == Switched(shots, Members(w.id), w.on.shots, w.was.shots)
  <1>3. toPolicy \in SUBSET Applications /\ toShots \in SUBSET Applications
    BY <1>2 DEF StoredOK, Switched
  <1>4. Agree(toPolicy, Pairs)
    BY <1>1, <1>2, SwitchedAgrees
  <1>5. SaveBoth(toPolicy, toShots, Members(w.id)) /\ recorded' = recorded /\ links' = links
    BY DEF SaveRules
  <1> HIDE DEF toPolicy, toShots
  <1>6. policy' \in {toPolicy, policy} /\ policy' \in SUBSET Applications /\ shots' \in SUBSET Applications
    BY <1>2, <1>3, <1>5, SaveBothGives
  <1>7. Agree(policy', Pairs)
    BY <1>1, <1>4, <1>6
  <1>8. StoredOK'
    BY <1>5, <1>6 DEF StoredOK
  <1> QED
    BY <1>5, <1>7, <1>8 DEF MergedAgree, Agree, Pairs

\* A merge shares the stricter rules with both groups, and keeps what they were (merge_applications).
LEMMA MergeKeeps ==
  ASSUME StoredOK, MergedAgree, NEW w, w.id \in Applications, w.other \in Applications, Merge(w)
  PROVE  StoredOK' /\ MergedAgree'
  <1>1. Pairs \in SUBSET (SUBSET Applications) /\ Agree(policy, Pairs)
    BY PairsType DEF MergedAgree, Agree
  <1>2. MergeMembers(w) = Group(w.id, Pairs) \cup Group(w.other, Pairs) /\ MergeMembers(w) \in SUBSET Applications
    BY <1>1, GroupProperties DEF MergeMembers, Members
  <1> DEFINE toPolicy == Shared(policy, MergeMembers(w))
             toShots == Shared(shots, MergeMembers(w))
             prior == [members |-> MergeMembers(w), policy |-> policy, shots |-> shots]
             pair == {w.id, w.other}
  <1>3. toPolicy \in SUBSET Applications /\ toShots \in SUBSET Applications
    BY <1>2 DEF StoredOK, Shared
  <1>4. Agree(toPolicy, Pairs \cup {pair})
    BY <1>1, <1>2, SharedAgrees
  <1>5. Agree(toPolicy, Pairs)
    BY <1>4 DEF Agree
  <1>6. recorded' = recorded
        /\ ((links' = links /\ SaveBoth(toPolicy, toShots, MergeMembers(w)))
            \/ (policy' = toPolicy /\ shots' = toShots
                /\ links' = IF pair \in Pairs THEN links ELSE links \cup {[pair |-> pair, prior |-> prior]}))
    BY DEF Merge
  <1>7. prior \in [members : SUBSET Applications, policy : SUBSET Applications, shots : SUBSET Applications]
    BY <1>2 DEF StoredOK
  <1>8. pair \in SUBSET Applications
    OBVIOUS
  <1> HIDE DEF toPolicy, toShots, prior, pair
  <1>9. CASE links' = links /\ SaveBoth(toPolicy, toShots, MergeMembers(w))
    <2>1. policy' \in {toPolicy, policy} /\ policy' \in SUBSET Applications /\ shots' \in SUBSET Applications
      BY <1>2, <1>3, <1>9, SaveBothGives
    <2>2. Agree(policy', Pairs)
      BY <1>1, <1>5, <2>1
    <2>3. StoredOK'
      BY <1>6, <1>9, <2>1 DEF StoredOK
    <2> QED
      BY <1>9, <2>2, <2>3 DEF MergedAgree, Agree, Pairs
  <1>10. CASE policy' = toPolicy /\ shots' = toShots
              /\ links' = IF pair \in Pairs THEN links ELSE links \cup {[pair |-> pair, prior |-> prior]}
    <2>1. CASE pair \in Pairs
      <3>1. StoredOK'
        BY <1>3, <1>6, <1>10, <2>1 DEF StoredOK
      <3> QED
        BY <1>5, <1>10, <2>1, <3>1 DEF MergedAgree, Agree, Pairs
    <2>2. CASE pair \notin Pairs
      <3> DEFINE new == [pair |-> pair, prior |-> prior]
      <3>1. new \in Links /\ new.pair = pair
        BY <1>7, <1>8 DEF Links
      <3>2. links' = links \cup {new}
        BY <1>10, <2>2
      <3> HIDE DEF new
      <3>3. links' \in SUBSET Links
        BY <3>1, <3>2 DEF StoredOK
      <3>4. \A l \in links : l.pair # pair
        BY <2>2 DEF Pairs
      <3>5. \A l, k \in links' : l.pair = k.pair => l = k
        BY <3>1, <3>2, <3>4 DEF StoredOK
      <3>6. StoredOK'
        BY <1>3, <1>6, <1>10, <3>3, <3>5 DEF StoredOK
      <3>7. \A l \in links' : l.pair \in Pairs \cup {pair}
        BY <3>1, <3>2 DEF Pairs
      <3>8. \A l \in links' : l.pair \subseteq policy' \/ l.pair \cap policy' = {}
        BY <1>4, <1>10, <3>7 DEF Agree
      <3> QED
        BY <3>6, <3>8 DEF MergedAgree, Pairs
    <2> QED
      BY <2>1, <2>2
  <1> QED
    BY <1>6, <1>9, <1>10

\* Taking a pair apart gives each part its rules back, alike within it (unmerge_applications).
LEMMA UnmergeKeeps ==
  ASSUME StoredOK, MergedAgree, NEW w, Unmerge(w)
  PROVE  StoredOK' /\ MergedAgree'
  <1>1. CASE UNCHANGED <<links, policy, shots>>
    BY <1>1 DEF Unmerge, StoredOK, MergedAgree, Pairs
  <1>2. CASE ~UNCHANGED <<links, policy, shots>>
    <2> DEFINE Now(list, before, members, pairs) == Regrouped(Restored(list, before, members), members, pairs)
    <2>1. PICK link \in links :
            /\ link.pair = w.pair /\ links' = links \ {link}
            /\ SaveBoth(Now(policy, link.prior.policy, link.prior.members, Pairs \ {w.pair}),
                        Now(shots, link.prior.shots, link.prior.members, Pairs \ {w.pair}), link.prior.members)
      BY <1>2 DEF Unmerge
    <2>2. link.prior.members \in SUBSET Applications
      BY <2>1 DEF StoredOK, Links
    <2> DEFINE members == link.prior.members
               pairs == Pairs \ {w.pair}
               back == Restored(policy, link.prior.policy, members)
    <2> HIDE DEF members
    <2>3. pairs \in SUBSET (SUBSET Applications) /\ members \in SUBSET Applications
      BY <2>2, PairsType DEF members
    <2>4. \A list, before : list \in SUBSET Applications => Now(list, before, members, pairs) \in SUBSET Applications
      <3>1. \A a \in Applications : Group(a, pairs) \subseteq Applications
        BY <2>3, GroupProperties
      <3>2. \A list, before : list \in SUBSET Applications => Restored(list, before, members) \in SUBSET Applications
        BY <2>3 DEF Restored
      <3> HIDE DEF pairs
      <3>3. \A list \in SUBSET Applications : Regrouped(list, members, pairs) \in SUBSET Applications
        BY <2>3, <3>1 DEF Regrouped
      <3> QED
        BY <3>2, <3>3
    <2>5. \A pair \in pairs : pair \cap members = {} => pair \subseteq back \/ pair \cap back = {}
      <3>1. \A x \in Applications \ members : x \in back <=> x \in policy
        BY <2>3 DEF Restored
      <3>2. \A pair \in pairs : pair \in SUBSET Applications /\ (pair \subseteq policy \/ pair \cap policy = {})
        BY <2>3 DEF MergedAgree
      <3> HIDE DEF pairs, back
      <3> QED
        BY <3>1, <3>2
    <2>6. Agree(Now(policy, link.prior.policy, members, pairs), pairs)
      <3> HIDE DEF pairs
      <3> QED
        BY <2>3, <2>5, RegroupedAgrees
    <2>7. Agree(policy, pairs)
      BY DEF Agree, MergedAgree
    <2> DEFINE toPolicy == Now(policy, link.prior.policy, members, pairs)
               toShots == Now(shots, link.prior.shots, members, pairs)
    <2>8. SaveBoth(toPolicy, toShots, members)
      BY <2>1 DEF members
    <2>9. toPolicy \in SUBSET Applications /\ toShots \in SUBSET Applications
      BY <2>4 DEF StoredOK
    <2>10. Agree(toPolicy, pairs)
      BY <2>6
    <2> HIDE DEF toPolicy, toShots, pairs
    <2>11. policy' \in {toPolicy, policy} /\ policy' \in SUBSET Applications /\ shots' \in SUBSET Applications
      BY <2>3, <2>8, <2>9, SaveBothGives
    <2>12. Agree(policy', pairs)
      BY <2>7, <2>10, <2>11
    <2>13. \A l \in links' : l.pair \in pairs
      <3>1. {l.pair : l \in links'} = Pairs \ {link.pair} /\ link.pair = w.pair
        BY <2>1, OneLinkAPair
      <3>2. pairs = {l.pair : l \in links'}
        BY <3>1 DEF pairs
      <3> QED
        BY <3>2
    <2>14. \A l \in links' : l.pair \subseteq policy' \/ l.pair \cap policy' = {}
      BY <2>12, <2>13 DEF Agree
    <2>15. recorded' = recorded
      BY DEF Unmerge
    <2>16. StoredOK'
      BY <2>1, <2>11, <2>15 DEF StoredOK
    <2> QED
      BY <2>14, <2>16 DEF MergedAgree, Pairs
  <1> QED
    BY <1>1, <1>2

\* Whatever the worker runs, applications that are merged agree.
LEMMA WorkRunsKeeps == ASSUME RulesInv, WorkRuns PROVE RulesInv'
  <1>1. work \in Works /\ work.action # "file"
    BY DEF RulesInv, WorkOK, WorkRuns
  <1>2. WorkOK'
    <2>1. work' = [work EXCEPT !.stage = "done"]
      BY DEF WorkRuns, Done
    <2>2. work \in RulesWork \cup DeleteWork \cup MergeWork \cup UnmergeWork \cup PauseWork
      BY <1>1 DEF Works, FileAsked, FileDone
    <2>3. /\ work \in RulesWork => [work EXCEPT !.stage = "done"] \in RulesWork
          /\ work \in DeleteWork => [work EXCEPT !.stage = "done"] \in DeleteWork
          /\ work \in MergeWork => [work EXCEPT !.stage = "done"] \in MergeWork
          /\ work \in UnmergeWork => [work EXCEPT !.stage = "done"] \in UnmergeWork
          /\ work \in PauseWork => [work EXCEPT !.stage = "done"] \in PauseWork
      BY DEF RulesWork, DeleteWork, MergeWork, UnmergeWork, PauseWork, Stages
    <2> QED
      BY <2>1, <2>2, <2>3 DEF WorkOK, Works
  <1>3. work.action \in {"rules", "merge", "delete"} => work.id \in Perhaps
    BY <1>1 DEF Works, RulesWork, DeleteWork, MergeWork, UnmergeWork, PauseWork, FileAsked, FileDone
  <1>4. work.action = "merge" => work.other \in Perhaps
    BY <1>1 DEF Works, RulesWork, DeleteWork, MergeWork, UnmergeWork, PauseWork, FileAsked, FileDone
  <1>5. PageOK' /\ TurnsOK'
    BY TurnKept DEF RulesInv, WorkRuns, PageOK
  <1>6. StoredOK' /\ MergedAgree'
    <2>1. CASE UNCHANGED stored
      BY <2>1, StoredKept
    <2>2. CASE work.action = "rules" /\ work.id # Nothing /\ SaveRules(work)
      BY <1>3, <2>2, SaveRulesKeeps DEF RulesInv, Perhaps
    <2>3. CASE work.action = "merge" /\ work.id # Nothing /\ work.other # Nothing /\ Merge(work)
      BY <1>3, <1>4, <2>3, MergeKeeps DEF RulesInv, Perhaps
    <2>4. CASE Unmerge(work)
      BY <2>4, UnmergeKeeps DEF RulesInv
    <2>5. CASE Delete(work)
      <3>1. StoredOK'
        BY <2>5 DEF RulesInv, Delete, StoredOK
      <3> QED
        BY <2>5, <3>1 DEF RulesInv, Delete, MergedAgree, Pairs
    <2> QED
      BY <2>1, <2>2, <2>3, <2>4, <2>5 DEF WorkRuns
  <1> QED
    BY <1>2, <1>5, <1>6 DEF RulesInv

\* Every step keeps the invariant.
LEMMA RulesInvStep == RulesInv /\ [RulesNext]_ruleVars => RulesInv'
  <1> SUFFICES ASSUME RulesInv, [RulesNext]_ruleVars PROVE RulesInv'
    OBVIOUS
  <1>1. CASE UNCHANGED ruleVars
    <2>1. StoredOK' /\ MergedAgree'
      BY <1>1, StoredKept DEF ruleVars, stored
    <2> QED
      BY <1>1, <2>1 DEF RulesInv, ruleVars, PageOK, WorkOK, TurnsOK
  <1>2. CASE RulesNext
    BY <1>2, RecordedKeeps, OpenedKeeps, ChooseKeeps, DialogsKeep, ToggleKeeps, AppMenuKeeps, AcceptKeeps,
       OthersKeep, WorkRunsKeeps, UpdatesKeep DEF RulesNext
  <1> QED
    BY <1>1, <1>2

\* Every state that the page, its worker and the collector reach is of its type, and the
\* page of storage's shape.
THEOREM RulesAlwaysInv == RulesSpec => []RulesInv
  BY RulesInvInitially, RulesInvStep, PTL DEF RulesSpec

\* Every variable of the rules keeps its type (RulesTypeOK), for any set of applications.
THEOREM RulesAlwaysTypeOK == RulesSpec => []RulesTypeOK
  BY RulesAlwaysInv, InvTypes, PTL

\* MergedAgree.
THEOREM MergedAlwaysAgree == RulesSpec => []MergedAgree
  <1>1. RulesInv => MergedAgree
    BY DEF RulesInv
  <1> QED
    BY <1>1, RulesAlwaysInv, PTL

-----------------------------------------------------------------------------
(* StatisticsPages. *)

Reading == [range: Ranges, content: Nat]
KeyRead == [n: Nat, range: Ranges]
Pending == [range: Ranges, result: Reading \cup {None, Failed}]
Views == [page: {"statistics", "other"}, tab: {"totals", "keys"}, active: BOOLEAN,
          busy: {"action", "collection", "no"}, moves: Nat]

\* The shape of every variable that the properties speak of.
StatisticsShape ==
  /\ content \in 0..MaxChanges /\ told \in 0..content
  /\ untold \in {None} \cup [way: Ways, content: 0..content]
  /\ announced \in [Ways -> 0..content]
  /\ range \in Ranges /\ chosen \in Ranges /\ origin \in Ranges \cup {None}
  /\ tick \in {"idle", "poll", "reset", "refresh"}
  /\ view \in Views
  /\ totals \in [generation: Nat, requested: Ranges \cup {None}, pending: Pending \cup {None},
                 shown: Reading \cup {None}]
  /\ refresh \in [active: BOOLEAN, dirty: BOOLEAN, heard: 0..content, timeline: Reading]
  /\ keys \in [asked: Nat, pending: BOOLEAN, failed: Nat, reads: SUBSET KeyRead,
               shown: KeyRead \cup {None}]
  /\ IsFiniteSet(keys.reads) /\ Cardinality(keys.reads) <= keys.asked

\* What a thread has read is as new as what the window acted upon, and the window has acted
\* upon the merges the list was begun after.
ReadsAreCurrent ==
  /\ totals.generation <= told
  /\ totals.pending # None => totals.pending.result \in {None, Failed} \/ totals.pending.result.content >= told

StatisticsInv == StatisticsShape /\ ReadsAreCurrent /\ StatisticsAreCurrent

\* The mark for nothing is nothing that is read.
LEMMA NoneIsNothing == None \notin Ranges /\ None \notin KeyRead
  BY StatisticsAssumption DEF KeyRead

\* The later of two.
LEMMA MaxOfTwo == ASSUME NEW a \in Nat, NEW b \in Nat
                  PROVE  Max({a, b}) \in {a, b} /\ Max({a, b}) >= a /\ Max({a, b}) >= b
  BY DEF Max

\* It holds when the window opens.
LEMMA StatisticsInitInv == StatisticsInit => StatisticsInv
  <1> SUFFICES ASSUME StatisticsInit PROVE StatisticsInv
    OBVIOUS
  <1>1. content = 0 /\ MaxChanges \in Nat /\ range \in Ranges /\ Read(range) \in Reading /\ Read(range).content = 0
    BY StatisticsAssumption DEF StatisticsInit, Read, Reading
  <1>2. IsFiniteSet({}) /\ Cardinality({}) = 0
    BY FS_EmptySet
  <1>3. keys = [asked |-> 0, pending |-> FALSE, failed |-> 0, reads |-> {}, shown |-> None]
    BY DEF StatisticsInit
  <1>5. view \in Views
    <2>1. view \in [page : {"statistics"}, tab : {"totals", "keys"}, active : {TRUE}, busy : {"no"}, moves : {0}]
      BY DEF StatisticsInit
    <2>2. view.active \in BOOLEAN
      BY <2>1
    <2> QED
      BY <2>1, <2>2 DEF Views
  <1>4. StatisticsShape
    BY <1>1, <1>2, <1>3, <1>5 DEF StatisticsInit, StatisticsShape, Unasked
  <1> QED
    BY <1>1, <1>3, <1>4 DEF StatisticsInit, StatisticsInv, Unasked, ReadsAreCurrent, StatisticsAreCurrent, TotalsAreCurrent,
       TimelineIsCurrent, KeysAreLatest, RangeComesBack

-----------------------------------------------------------------------------
\* Asking for the keyboard once more.
LEMMA AskedShape ==
  ASSUME StatisticsShape, NEW r \in Ranges
  PROVE  /\ Asked(r) \in [asked: Nat, pending: BOOLEAN, failed: Nat, reads: SUBSET KeyRead,
                          shown: KeyRead \cup {None}]
         /\ Asked(r).pending
         /\ IsFiniteSet(Asked(r).reads) /\ Cardinality(Asked(r).reads) <= Asked(r).asked
  <1>0. keys.asked + 1 \in Nat /\ keys.reads \in SUBSET KeyRead
    BY DEF StatisticsShape
  <1>1. PICK read \in KeyRead : read = [n |-> keys.asked + 1, range |-> r]
    <2>1. \A n \in Nat : [n |-> n, range |-> r] \in KeyRead
      BY DEF KeyRead
    <2> QED
      BY <1>0, <2>1
  <1>2. PICK reads \in SUBSET KeyRead : reads = keys.reads \cup {read}
    BY <1>0
  <1>3. IsFiniteSet(reads) /\ Cardinality(reads) <= keys.asked + 1
    <2>1. IsFiniteSet(keys.reads) /\ Cardinality(keys.reads) <= keys.asked /\ keys.asked \in Nat
      BY DEF StatisticsShape
    <2>2. /\ IsFiniteSet(keys.reads \cup {read})
          /\ \/ Cardinality(keys.reads \cup {read}) = Cardinality(keys.reads)
             \/ Cardinality(keys.reads \cup {read}) = Cardinality(keys.reads) + 1
      BY <2>1, FS_AddElement
    <2>3. Cardinality(keys.reads) \in Nat
      BY <2>1, FS_CardinalityType
    <2> QED
      BY <1>2, <2>1, <2>2, <2>3
  <1>4. /\ Asked(r) = [keys EXCEPT !.asked = @ + 1, !.pending = TRUE, !.reads = reads]
        /\ keys.asked + 1 \in Nat
    BY <1>1, <1>2 DEF Asked, StatisticsShape
  <1>5. Asked(r).reads = reads /\ Asked(r).asked = keys.asked + 1 /\ Asked(r).pending
    BY <1>4 DEF StatisticsShape
  <1> QED
    BY <1>2, <1>3, <1>4, <1>5 DEF StatisticsShape

\* What the user sees of the keyboard when one of its reads ends.
LEMMA ShownShape ==
  ASSUME StatisticsShape, NEW read \in keys.reads
  PROVE  /\ Shown(read) \in [asked: Nat, pending: BOOLEAN, failed: Nat, reads: SUBSET KeyRead,
                             shown: KeyRead \cup {None}]
         /\ Shown(read).reads = keys.reads \ {read} /\ Shown(read).asked = keys.asked
         /\ Shown(read).failed = keys.failed
         /\ IF read.n = keys.asked THEN ~Shown(read).pending /\ Shown(read).shown = read
            ELSE Shown(read).pending = keys.pending /\ Shown(read).shown = keys.shown
  BY DEF StatisticsShape, Shown, KeyRead

\* One read less is under way.
LEMMA FewerReads ==
  ASSUME StatisticsShape, NEW read \in keys.reads
  PROVE  IsFiniteSet(keys.reads \ {read}) /\ Cardinality(keys.reads \ {read}) <= keys.asked
  <1>1. IsFiniteSet(keys.reads) /\ Cardinality(keys.reads) <= keys.asked /\ keys.asked \in Nat
    BY DEF StatisticsShape
  <1>2. /\ IsFiniteSet(keys.reads \ {read})
        /\ Cardinality(keys.reads \ {read}) = Cardinality(keys.reads) - 1
    BY <1>1, FS_RemoveElement
  <1>3. Cardinality(keys.reads) \in Nat
    BY <1>1, FS_CardinalityType
  <1> QED
    BY <1>1, <1>2, <1>3

\* A move leads to a view.
LEMMA Moved == ASSUME NEW v \in Views, Move(v) PROVE view' \in Views
  BY DEF Move, Views

\* The data changes, the window is told, and a thread reads.
LEMMA DataSteps ==
  ASSUME StatisticsInv, Change \/ Announce \/ Gather \/ Occupy \/ Hide
  PROVE  StatisticsInv'
  <1>1. StatisticsShape
    BY DEF StatisticsInv
  <1>2. CASE Change
    <2>1. content' = content + 1 /\ content' \in 0..MaxChanges /\ content \in Nat
      BY <1>1, <1>2, StatisticsAssumption DEF Change, StatisticsShape
    <2>2. untold' \in [way: Ways, content: 0..content']
      <3>1. \A n \in Nat, way \in Ways : [way |-> way, content |-> n] \in [way: Ways, content: 0..n]
        OBVIOUS
      <3> QED
        BY <1>2, <2>1, <3>1 DEF Change
    <2>3. announced' \in [Ways -> 0..content'] /\ told' \in 0..content' /\ refresh'.heard \in 0..content'
      BY <1>1, <1>2, <2>1 DEF Change, StatisticsShape
    <2>4. StatisticsShape'
      BY <1>1, <1>2, <2>1, <2>2, <2>3 DEF Change, StatisticsShape, ranges
    <2> QED
      BY <1>2, <2>4 DEF Change, ranges, StatisticsInv, ReadsAreCurrent, StatisticsAreCurrent, TotalsAreCurrent,
         TimelineIsCurrent, KeysAreLatest, RangeComesBack
  <1>3. CASE Announce
    <2>1. announced' \in [Ways -> 0..content']
      BY <1>1, <1>3 DEF Announce, StatisticsShape
    <2>2. StatisticsShape'
      BY <1>1, <1>3, <2>1 DEF Announce, StatisticsShape, ranges
    <2> QED
      BY <1>3, <2>2 DEF Announce, ranges, StatisticsInv, ReadsAreCurrent, StatisticsAreCurrent, TotalsAreCurrent,
         TimelineIsCurrent, KeysAreLatest, RangeComesBack
  <1>4. CASE Gather
    <2>1. PICK result \in {Read(totals.pending.range), Failed} : totals' = [totals EXCEPT !.pending.result = result]
      BY <1>4 DEF Gather
    <2>2. totals.pending \in Pending /\ content \in Nat /\ told \in Nat /\ told <= content
      BY <1>1, <1>4 DEF Gather, StatisticsShape
    <2>3. result = Failed \/ (result \in Reading /\ result.content = content)
      BY <2>1, <2>2 DEF Read, Reading, Pending
    <2>4. PICK pending \in Pending : pending = [totals.pending EXCEPT !.result = result] /\ pending.result = result
      <3>1. ASSUME NEW p \in Pending, NEW x \in Reading \cup {Failed}
            PROVE  [p EXCEPT !.result = x] \in Pending /\ [p EXCEPT !.result = x].result = x
        BY DEF Pending
      <3> QED
        BY <2>2, <2>3, <3>1
    <2>5. totals' = [totals EXCEPT !.pending = pending]
      BY <2>1, <2>4
    <2>6. /\ totals' \in [generation: Nat, requested: Ranges \cup {None}, pending: Pending \cup {None},
                          shown: Reading \cup {None}]
          /\ totals'.generation = totals.generation /\ totals'.pending = pending /\ totals'.shown = totals.shown
      BY <1>1, <2>5 DEF StatisticsShape
    <2>7. StatisticsShape'
      BY <1>1, <1>4, <2>6 DEF Gather, StatisticsShape, ranges, data
    <2>8. ReadsAreCurrent' /\ TotalsAreCurrent'
      BY ZenonT(30), <1>4, <2>2, <2>3, <2>4, <2>6 DEF Gather, StatisticsInv, ReadsAreCurrent, StatisticsAreCurrent, TotalsAreCurrent
    <2>9. TimelineIsCurrent' /\ KeysAreLatest' /\ RangeComesBack'
      BY <1>4 DEF Gather, ranges, StatisticsInv, StatisticsAreCurrent, TimelineIsCurrent, KeysAreLatest, RangeComesBack
    <2> QED
      BY <2>7, <2>8, <2>9 DEF StatisticsInv, StatisticsAreCurrent
  <1>5. CASE Occupy \/ Hide
    <2>0. view' \in Views
      <3>1. CASE Occupy
        <4>1. PICK busy \in {"action", "collection", "no"} :
                 view' = [view EXCEPT !.busy = busy, !.moves = @ + 1]
          BY <3>1 DEF Occupy
        <4>2. view \in Views /\ view.moves + 1 \in Nat
          BY <1>1 DEF StatisticsShape, Views
        <4> QED
          BY <4>1, <4>2 DEF Views
      <3>2. CASE Hide
        <4>1. [view EXCEPT !.active = ~@] \in Views
          BY <1>1 DEF StatisticsShape, Views
        <4> QED
          BY <3>2, <4>1, Moved DEF Hide
      <3> QED
        BY <1>5, <3>1, <3>2
    <2>1. StatisticsShape'
      BY <1>1, <1>5, <2>0 DEF Occupy, Hide, StatisticsShape, ranges, data
    <2> QED
      BY <1>5, <2>1 DEF Occupy, Hide, Move, ranges, data, StatisticsInv, ReadsAreCurrent, StatisticsAreCurrent, TotalsAreCurrent,
         TimelineIsCurrent, KeysAreLatest, RangeComesBack
  <1> QED
    BY <1>2, <1>3, <1>4, <1>5

\* What the properties ask of each way to change the list, the timeline and the keyboard.
LEMMA KeysStep ==
  ASSUME StatisticsInv, NEW r \in Ranges, keys' \in {keys, Asked(r)}
  PROVE  /\ keys' \in [asked: Nat, pending: BOOLEAN, failed: Nat, reads: SUBSET KeyRead,
                       shown: KeyRead \cup {None}]
         /\ IsFiniteSet(keys'.reads) /\ Cardinality(keys'.reads) <= keys'.asked
         /\ KeysAreLatest'
  <1>1. StatisticsShape /\ KeysAreLatest
    BY DEF StatisticsInv, StatisticsAreCurrent
  <1>2. CASE keys' = keys
    BY <1>1, <1>2 DEF StatisticsShape, KeysAreLatest
  <1>3. CASE keys' = Asked(r)
    BY <1>1, <1>3, AskedShape DEF KeysAreLatest
  <1> QED
    BY <1>2, <1>3

\* A timeline read now shows everything that was heard.
LEMMA TimelineStep ==
  ASSUME StatisticsInv, NEW r \in Ranges, RefreshTimeline(r)
  PROVE  /\ refresh' \in [active: BOOLEAN, dirty: BOOLEAN, heard: 0..content, timeline: Reading]
         /\ TimelineIsCurrent'
  <1>1. /\ refresh \in [active: BOOLEAN, dirty: BOOLEAN, heard: 0..content, timeline: Reading]
        /\ TimelineIsCurrent /\ content \in Nat
    BY DEF StatisticsInv, StatisticsAreCurrent, StatisticsShape
  <1>2. PICK shown \in {refresh.timeline, Read(r)} : refresh' = [refresh EXCEPT !.timeline = shown]
    BY DEF RefreshTimeline
  <1>3. shown \in Reading /\ (shown = refresh.timeline \/ shown.content = content)
    BY <1>1, <1>2 DEF Read, Reading
  <1> QED
    BY <1>1, <1>2, <1>3 DEF TimelineIsCurrent

\* The user goes elsewhere, chooses a range, points at an activity, or a read ends.
LEMMA NavigateStep == StatisticsInv /\ Navigate => StatisticsInv'
  <1> SUFFICES ASSUME StatisticsInv, Navigate PROVE StatisticsInv'
    OBVIOUS
  <1>1. StatisticsShape /\ content \in Nat /\ RangeComesBack
    BY DEF StatisticsInv, StatisticsShape, StatisticsAreCurrent
  <1>2. /\ range' \in Ranges /\ origin' \in Ranges \cup {None} /\ chosen' = chosen /\ RangeComesBack'
        /\ refresh' \in [active: BOOLEAN, dirty: BOOLEAN, heard: 0..content, timeline: Reading]
        /\ TimelineIsCurrent'
    <2>1. CASE origin = None
      BY <1>1, <2>1 DEF Navigate, ranges, StatisticsShape, StatisticsInv, StatisticsAreCurrent, TimelineIsCurrent, RangeComesBack
    <2>2. CASE origin # None
      <3>1. origin \in Ranges /\ range' = origin /\ origin' = None /\ chosen' = chosen /\ RefreshTimeline(origin)
        BY <1>1, <2>2 DEF Navigate, StatisticsShape
      <3> QED
        BY <1>1, <2>2, <3>1, TimelineStep DEF RangeComesBack
    <2> QED
      BY <2>1, <2>2
  <1>3. keys' \in {keys, Asked(range')}
    BY DEF Navigate, AskKeys
  <1>4. UNCHANGED <<data, told, tick, totals>>
    BY DEF Navigate
  <1>9. view' \in Views
    <2>1. PICK to \in {"statistics", "other"} : Move([view EXCEPT !.page = to])
      BY DEF Navigate
    <2>2. [view EXCEPT !.page = to] \in Views
      BY <1>1, <2>1 DEF StatisticsShape, Views
    <2> QED
      BY <2>1, <2>2, Moved
  <1>5. StatisticsShape'
    BY <1>1, <1>9, <1>2, <1>3, <1>4, KeysStep DEF StatisticsShape, data
  <1>6. ReadsAreCurrent' /\ TotalsAreCurrent' /\ KeysAreLatest'
    BY <1>2, <1>3, <1>4, KeysStep DEF StatisticsInv, ReadsAreCurrent, StatisticsAreCurrent, TotalsAreCurrent
  <1> QED
    BY <1>2, <1>5, <1>6 DEF StatisticsInv, StatisticsAreCurrent

\* Choosing a range asks for what it needs.
LEMMA ChooseStep == StatisticsInv /\ ChooseRange => StatisticsInv'
  <1> SUFFICES ASSUME StatisticsInv, ChooseRange PROVE StatisticsInv'
    OBVIOUS
  <1>1. StatisticsShape /\ content \in Nat /\ told \in Nat
    BY DEF StatisticsInv, StatisticsShape
  <1>2. range' \in Ranges /\ chosen' = range' /\ origin' = None /\ RefreshTimeline(range')
    BY DEF ChooseRange
  <1>3. keys' \in {keys, Asked(range')}
    BY DEF ChooseRange, AskKeys
  <1>4. UNCHANGED <<data, told, tick>> /\ totals' \in {Unasked, [totals EXCEPT !.requested = None]}
    BY DEF ChooseRange
  <1>5. /\ totals' \in [generation: Nat, requested: Ranges \cup {None}, pending: Pending \cup {None},
                        shown: Reading \cup {None}]
        /\ \/ totals'.generation = 0 /\ totals'.pending = None /\ totals'.shown = None
           \/ totals'.generation = totals.generation /\ totals'.pending = totals.pending
              /\ totals'.shown = totals.shown
    BY <1>1, <1>4 DEF StatisticsShape, Unasked
  <1>9. view' \in Views
    BY <1>1, Moved DEF ChooseRange, StatisticsShape
  <1>6. StatisticsShape'
    BY <1>1, <1>9, <1>2, <1>3, <1>4, <1>5, KeysStep, TimelineStep DEF StatisticsShape, data
  <1>7. ReadsAreCurrent' /\ TotalsAreCurrent'
    BY <1>1, <1>4, <1>5 DEF StatisticsInv, ReadsAreCurrent, StatisticsAreCurrent, TotalsAreCurrent
  <1>8. KeysAreLatest' /\ TimelineIsCurrent' /\ RangeComesBack'
    BY <1>2, <1>3, KeysStep, TimelineStep DEF RangeComesBack
  <1> QED
    BY <1>6, <1>7, <1>8 DEF StatisticsInv, StatisticsAreCurrent

\* Pointing at another time does too.
LEMMA PointStep == StatisticsInv /\ PointAt => StatisticsInv'
  <1> SUFFICES ASSUME StatisticsInv, PointAt PROVE StatisticsInv'
    OBVIOUS
  <1>1. StatisticsShape /\ RangeComesBack
    BY DEF StatisticsInv, StatisticsAreCurrent
  <1>2. range' \in Ranges /\ origin' = Saved /\ RefreshTimeline(range')
    BY DEF PointAt
  <1>3. UNCHANGED <<data, told, chosen, tick, totals, keys>>
    BY DEF PointAt
  <1>4. origin' \in Ranges /\ RangeComesBack'
    BY <1>1, <1>2, <1>3, NoneIsNothing DEF Saved, StatisticsShape, RangeComesBack
  <1>9. view' \in Views
    BY <1>1, Moved DEF PointAt, StatisticsShape
  <1>5. StatisticsShape'
    BY <1>1, <1>9, <1>2, <1>3, <1>4, TimelineStep DEF StatisticsShape, data
  <1>6. ReadsAreCurrent' /\ TotalsAreCurrent' /\ KeysAreLatest' /\ TimelineIsCurrent'
    BY <1>2, <1>3, TimelineStep DEF StatisticsInv, ReadsAreCurrent, StatisticsAreCurrent, TotalsAreCurrent, KeysAreLatest
  <1> QED
    BY <1>4, <1>5, <1>6 DEF StatisticsInv, StatisticsAreCurrent

\* Of the reads of keys only the latest is shown.
LEMMA KeysReadStep == StatisticsInv /\ KeysAreRead => StatisticsInv'
  <1> SUFFICES ASSUME StatisticsInv, KeysAreRead PROVE StatisticsInv'
    OBVIOUS
  <1>1. StatisticsShape /\ KeysAreLatest
    BY DEF StatisticsInv, StatisticsAreCurrent
  <1>2. PICK read \in keys.reads :
          keys' \in {Shown(read), [Shown(read) EXCEPT !.shown = keys.shown,
                                     !.failed = IF read.n = keys.asked THEN read.n ELSE @]}
    BY DEF KeysAreRead
  <1>3. read \in KeyRead /\ read # None /\ read.n \in Nat
    BY <1>1, <1>2, NoneIsNothing DEF StatisticsShape, KeyRead
  <1>4. /\ keys' \in [asked: Nat, pending: BOOLEAN, failed: Nat, reads: SUBSET KeyRead,
                      shown: KeyRead \cup {None}]
        /\ keys'.reads = keys.reads \ {read} /\ keys'.asked = keys.asked
        /\ IF read.n = keys.asked
           THEN keys'.shown = read \/ keys'.failed = keys.asked
           ELSE keys'.pending = keys.pending /\ keys'.shown = keys.shown /\ keys'.failed = keys.failed
    <2>1. CASE keys' = Shown(read)
      BY <1>1, <1>2, <1>3, <2>1, ShownShape
    <2>2. PICK k \in [asked: Nat, pending: BOOLEAN, failed: Nat, reads: SUBSET KeyRead,
                      shown: KeyRead \cup {None}] : k = Shown(read)
      BY <1>1, <1>2, ShownShape
    <2>3. PICK failed \in Nat :
            failed = IF read.n = keys.asked THEN read.n ELSE k.failed
      BY <1>3, <2>2
    <2>4. CASE keys' = [k EXCEPT !.shown = keys.shown, !.failed = failed]
      <3>1. keys.shown \in KeyRead \cup {None}
        BY <1>1 DEF StatisticsShape
      <3>2. /\ keys' \in [asked: Nat, pending: BOOLEAN, failed: Nat, reads: SUBSET KeyRead,
                          shown: KeyRead \cup {None}]
            /\ keys'.reads = k.reads /\ keys'.asked = k.asked /\ keys'.pending = k.pending
            /\ keys'.shown = keys.shown /\ keys'.failed = failed
        BY <2>4, <3>1
      <3>3. /\ k.reads = keys.reads \ {read} /\ k.asked = keys.asked /\ k.failed = keys.failed
            /\ read.n = keys.asked \/ k.pending = keys.pending
        BY <1>1, <1>2, <2>2, ShownShape
      <3> QED
        BY <2>3, <3>2, <3>3
    <2> QED
      BY <1>2, <2>1, <2>2, <2>3, <2>4
  <1>5. IsFiniteSet(keys'.reads) /\ Cardinality(keys'.reads) <= keys'.asked
    BY <1>1, <1>2, <1>4, FewerReads
  <1>6. KeysAreLatest'
    BY <1>1, <1>3, <1>4 DEF KeysAreLatest
  <1>7. UNCHANGED <<data, told, ranges, view, tick, totals, refresh>>
    BY DEF KeysAreRead
  <1>8. StatisticsShape'
    BY <1>1, <1>4, <1>5, <1>7 DEF StatisticsShape, data, ranges
  <1> QED
    BY <1>6, <1>7, <1>8 DEF data, ranges, StatisticsInv, ReadsAreCurrent, StatisticsAreCurrent, TotalsAreCurrent,
       TimelineIsCurrent, RangeComesBack

-----------------------------------------------------------------------------
\* The timer's callback: a merge that was announced drops what was gathered before it.
LEMMA RequestStep == StatisticsInv /\ Request => StatisticsInv'
  <1> SUFFICES ASSUME StatisticsInv, Request PROVE StatisticsInv'
    OBVIOUS
  <1>1. /\ StatisticsShape /\ content \in Nat /\ told \in Nat /\ announced["merge"] \in Nat
        /\ announced["merge"] <= content /\ told <= content /\ range \in Ranges
    BY DEF StatisticsInv, StatisticsShape, Ways
  <1>2. UNCHANGED <<data, ranges, view, refresh>> /\ tick' \in {"reset", "poll"}
    BY DEF Request, Then
  <1>3. keys' \in {keys, Asked(range)}
    BY DEF Request
  <1>4. /\ totals' \in [generation: Nat, requested: Ranges \cup {None}, pending: Pending \cup {None},
                        shown: Reading \cup {None}]
        /\ told' \in 0..content /\ ReadsAreCurrent' /\ TotalsAreCurrent'
    <2>1. CASE UNCHANGED <<totals, told>>
      BY <1>1, <2>1 DEF StatisticsShape, StatisticsInv, ReadsAreCurrent, StatisticsAreCurrent, TotalsAreCurrent
    <2>2. CASE \E current \in {IF totals.generation = announced["merge"] THEN totals
                          ELSE [Unasked EXCEPT !.generation = announced["merge"]]} :
                 /\ told' = Max({told, announced["merge"]})
                 /\ totals' \in {current,
                      [current EXCEPT !.requested = range, !.pending = [range |-> range, result |-> None]]}
      <3>1. PICK current : /\ current = IF totals.generation = announced["merge"] THEN totals
                                        ELSE [Unasked EXCEPT !.generation = announced["merge"]]
                           /\ told' = Max({told, announced["merge"]})
                           /\ totals' \in {current,
                                [current EXCEPT !.requested = range, !.pending = [range |-> range, result |-> None]]}
        BY <2>2
      <3>2. told' \in {told, announced["merge"]} /\ told' >= told /\ told' >= announced["merge"]
        BY <1>1, <3>1, MaxOfTwo
      <3>3. /\ current \in [generation: Nat, requested: Ranges \cup {None}, pending: Pending \cup {None},
                            shown: Reading \cup {None}]
            /\ current.generation <= told'
            /\ \/ told' = told /\ current = totals
               \/ current.pending = None /\ current.shown = None
        <4>1. CASE totals.generation = announced["merge"]
          BY <1>1, <3>1, <3>2, <4>1 DEF StatisticsShape, StatisticsInv, ReadsAreCurrent
        <4>2. CASE totals.generation # announced["merge"]
          <5>1. current = [generation |-> announced["merge"], requested |-> None, pending |-> None, shown |-> None]
            BY <3>1, <4>2 DEF Unasked
          <5> QED
            BY <1>1, <3>2, <5>1
        <4> QED
          BY <4>1, <4>2
      <3>4. PICK p \in Pending : p = [range |-> range, result |-> None] /\ p.result = None
        <4>1. \A r \in Ranges : [range |-> r, result |-> None] \in Pending
          BY DEF Pending
        <4> QED
          BY <1>1, <4>1
      <3>5. \/ totals' = current
            \/ totals' = [current EXCEPT !.requested = range, !.pending = p]
        BY <3>1, <3>4
      <3>6. /\ totals' \in [generation: Nat, requested: Ranges \cup {None}, pending: Pending \cup {None},
                            shown: Reading \cup {None}]
            /\ totals'.generation = current.generation /\ totals'.shown = current.shown
            /\ totals'.pending \in {current.pending, p}
        BY <1>1, <3>3, <3>5
      <3>7. told' \in 0..content
        BY <1>1, <3>2
      <3>8. ReadsAreCurrent'
        BY <1>1, <3>2, <3>3, <3>4, <3>6 DEF StatisticsInv, ReadsAreCurrent
      <3>9. TotalsAreCurrent'
        BY <1>1, <3>2, <3>3, <3>6 DEF StatisticsInv, StatisticsAreCurrent, TotalsAreCurrent
      <3> QED
        BY <3>6, <3>7, <3>8, <3>9
    <2> QED
      BY <2>1, <2>2 DEF Request
  <1>5. StatisticsShape'
    BY <1>1, <1>2, <1>3, <1>4, KeysStep DEF StatisticsShape, data, ranges
  <1>6. KeysAreLatest' /\ TimelineIsCurrent' /\ RangeComesBack'
    BY <1>1, <1>2, <1>3, KeysStep DEF data, ranges, StatisticsInv, StatisticsAreCurrent, TimelineIsCurrent, RangeComesBack
  <1> QED
    BY <1>4, <1>5, <1>6 DEF StatisticsInv, StatisticsAreCurrent

\* A result for another range is dropped.
LEMMA PollStep == StatisticsInv /\ Poll => StatisticsInv'
  <1> SUFFICES ASSUME StatisticsInv, Poll PROVE StatisticsInv'
    OBVIOUS
  <1>1. StatisticsShape
    BY DEF StatisticsInv
  <1>2. UNCHANGED <<data, told, ranges, view, refresh, keys>> /\ tick' = "reset"
    BY DEF Poll, Then
  <1>3. /\ totals' \in [generation: Nat, requested: Ranges \cup {None}, pending: Pending \cup {None},
                        shown: Reading \cup {None}]
        /\ ReadsAreCurrent' /\ TotalsAreCurrent'
    <2>1. CASE totals' = totals
      BY <1>1, <1>2, <2>1 DEF StatisticsShape, StatisticsInv, ReadsAreCurrent, StatisticsAreCurrent, TotalsAreCurrent
    <2>2. CASE /\ totals.pending # None /\ totals.pending.result # None
               /\ totals' = [totals EXCEPT !.pending = None,
                       !.shown = IF totals.pending.result # Failed /\ totals.pending.range = range
                                 THEN totals.pending.result ELSE @]
      <3>1. totals.pending.result \in Reading \cup {None, Failed}
        BY <1>1, <2>2 DEF StatisticsShape, Pending
      <3>2. PICK shown \in Reading \cup {None} :
               /\ totals' = [totals EXCEPT !.pending = None, !.shown = shown]
               /\ shown # None => shown.content >= told
        BY <1>1, <2>2, <3>1 DEF StatisticsShape, StatisticsInv, ReadsAreCurrent, StatisticsAreCurrent, TotalsAreCurrent
      <3>3. /\ totals' \in [generation: Nat, requested: Ranges \cup {None}, pending: Pending \cup {None},
                            shown: Reading \cup {None}]
            /\ totals'.generation = totals.generation /\ totals'.pending = None /\ totals'.shown = shown
        BY <1>1, <3>2 DEF StatisticsShape
      <3> QED
        BY <1>2, <3>2, <3>3 DEF StatisticsInv, ReadsAreCurrent, TotalsAreCurrent
    <2> QED
      BY <2>1, <2>2 DEF Poll
  <1>4. StatisticsShape'
    BY <1>1, <1>2, <1>3 DEF StatisticsShape, data, ranges
  <1> QED
    BY <1>2, <1>3, <1>4 DEF data, ranges, StatisticsInv, StatisticsAreCurrent, TimelineIsCurrent, KeysAreLatest, RangeComesBack

\* What was deleted or restored drops the list and marks the timeline.
LEMMA ResetStep == StatisticsInv /\ Reset => StatisticsInv'
  <1> SUFFICES ASSUME StatisticsInv, Reset PROVE StatisticsInv'
    OBVIOUS
  <1>1. /\ StatisticsShape /\ content \in Nat /\ told \in Nat /\ told <= content
        /\ announced["dataset"] \in 0..content /\ announced["message"] \in 0..content
    BY DEF StatisticsInv, StatisticsShape, Ways
  <1>2. UNCHANGED <<data, ranges, view, keys>> /\ tick' = "refresh"
    BY DEF Reset, Then
  <1>3. CASE UNCHANGED <<totals, refresh, told>>
    BY <1>1, <1>2, <1>3 DEF data, ranges, StatisticsShape, StatisticsInv, ReadsAreCurrent, StatisticsAreCurrent, TotalsAreCurrent,
       TimelineIsCurrent, KeysAreLatest, RangeComesBack
  <1>4. CASE /\ totals' = Unasked /\ told' = Max({told, Heard})
             /\ refresh' = [refresh EXCEPT !.heard = Heard, !.dirty = TRUE]
    <2>1. Heard \in 0..content
      BY <1>1, MaxOfTwo DEF Heard
    <2>2. told' \in 0..content
      BY <1>1, <1>4, <2>1, MaxOfTwo
    <2>3. /\ refresh' \in [active: BOOLEAN, dirty: BOOLEAN, heard: 0..content, timeline: Reading]
          /\ refresh'.dirty
      BY <1>1, <1>4, <2>1 DEF StatisticsShape
    <2>4. /\ totals' \in [generation: Nat, requested: Ranges \cup {None}, pending: Pending \cup {None},
                          shown: Reading \cup {None}]
          /\ totals'.generation = 0 /\ totals'.pending = None /\ totals'.shown = None
      BY <1>4 DEF Unasked
    <2>5. StatisticsShape'
      BY <1>1, <1>2, <2>2, <2>3, <2>4 DEF StatisticsShape, data, ranges
    <2> QED
      BY <1>2, <2>2, <2>3, <2>4, <2>5 DEF data, ranges, StatisticsInv, ReadsAreCurrent, StatisticsAreCurrent, TotalsAreCurrent,
         TimelineIsCurrent, KeysAreLatest, RangeComesBack
  <1> QED
    BY <1>3, <1>4 DEF Reset, Forgotten

\* The timeline stays marked until it has been read.
LEMMA RefreshStep == StatisticsInv /\ Refresh => StatisticsInv'
  <1> SUFFICES ASSUME StatisticsInv, Refresh PROVE StatisticsInv'
    OBVIOUS
  <1>1. /\ StatisticsShape /\ content \in Nat /\ TimelineIsCurrent
        /\ refresh \in [active: BOOLEAN, dirty: BOOLEAN, heard: 0..content, timeline: Reading]
    BY DEF StatisticsInv, StatisticsAreCurrent, StatisticsShape
  <1>2. UNCHANGED <<data, told, ranges, view, totals, keys>> /\ tick' = "idle"
    BY DEF Refresh, Then
  <1>3. /\ refresh' \in [active: BOOLEAN, dirty: BOOLEAN, heard: 0..content, timeline: Reading]
        /\ TimelineIsCurrent'
    <2>1. PICK dirty \in BOOLEAN :
            /\ refresh.dirty => dirty
            /\ \/ refresh' = [refresh EXCEPT !.dirty = dirty, !.active = view.active]
               \/ \E shown \in {refresh.timeline, Read(range)} : refresh' = Tried(dirty, shown)
      BY <1>1 DEF Refresh, StatisticsShape, Views
    <2>2. CASE refresh' = [refresh EXCEPT !.dirty = dirty, !.active = view.active]
      <3>1. view.active \in BOOLEAN
        BY <1>1 DEF StatisticsShape, Views
      <3> QED
        BY <1>1, <2>1, <2>2, <3>1 DEF TimelineIsCurrent
    <2>3. ASSUME NEW shown \in {refresh.timeline, Read(range)}, refresh' = Tried(dirty, shown)
          PROVE  /\ refresh' \in [active: BOOLEAN, dirty: BOOLEAN, heard: 0..content, timeline: Reading]
                 /\ TimelineIsCurrent'
      <3>1. shown \in Reading /\ (shown = refresh.timeline \/ shown.content = content)
        BY <1>1, <2>3 DEF Read, Reading, StatisticsShape
      <3>2. PICK still \in BOOLEAN : still <=> dirty /\ shown # Read(range)
        OBVIOUS
      <3>3. refresh' = [refresh EXCEPT !.dirty = still, !.active = TRUE, !.timeline = shown]
        BY <2>3, <3>2 DEF Tried
      <3>4. ~still => shown.content = content \/ ~refresh.dirty
        BY <1>1, <2>1, <3>2 DEF Read
      <3>5. /\ refresh' \in [active: BOOLEAN, dirty: BOOLEAN, heard: 0..content, timeline: Reading]
            /\ refresh'.dirty = still /\ refresh'.heard = refresh.heard /\ refresh'.timeline = shown
        BY <1>1, <3>1, <3>3
      <3> QED
        BY <1>1, <3>1, <3>4, <3>5 DEF TimelineIsCurrent
    <2> QED
      BY <2>1, <2>2, <2>3
  <1>4. StatisticsShape'
    BY <1>1, <1>2, <1>3 DEF StatisticsShape, data, ranges
  <1> QED
    BY <1>2, <1>3, <1>4 DEF data, ranges, StatisticsInv, StatisticsAreCurrent, ReadsAreCurrent, TotalsAreCurrent, KeysAreLatest, RangeComesBack

\* Every step keeps the invariant.
LEMMA StatisticsStep == StatisticsInv /\ [StatisticsNext]_statisticsVars => StatisticsInv'
  <1> SUFFICES ASSUME StatisticsInv, [StatisticsNext]_statisticsVars PROVE StatisticsInv'
    OBVIOUS
  <1>1. CASE UNCHANGED statisticsVars
    BY <1>1 DEF statisticsVars, StatisticsInv, StatisticsShape, StatisticsAreCurrent, ReadsAreCurrent, TotalsAreCurrent,
       TimelineIsCurrent, KeysAreLatest, RangeComesBack
  <1> QED
    BY <1>1, DataSteps, NavigateStep, ChooseStep, PointStep, KeysReadStep, RequestStep, PollStep, ResetStep,
       RefreshStep DEF StatisticsNext

\* What the window shows and what threads are reading for it is never older than what it
\* has acted upon.
THEOREM StatisticsAlwaysInv == StatisticsSpec => []StatisticsInv
  BY StatisticsInitInv, StatisticsStep, PTL DEF StatisticsSpec

\* The list, the timeline, the keyboard and the range are of the data and the range that
\* the window says, however its timer, its threads and the user come between each other.
THEOREM StatisticsAlwaysCurrent == StatisticsSpec => []StatisticsAreCurrent
  <1>1. StatisticsInv => StatisticsAreCurrent
    BY DEF StatisticsInv
  <1> QED
    BY <1>1, StatisticsAlwaysInv, PTL
=============================================================================
