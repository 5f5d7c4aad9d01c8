------------------------------- MODULE AppRules -------------------------------
(***************************************************************************)
(* The page of the applications' rules (collection_ui.rs) and what it has   *)
(* storage do (collection.rs): exclude an application, merge it with        *)
(* another, take a merge apart, delete its history.  The page knows the     *)
(* application it shows by its place in a sorted list, which is read anew    *)
(* now and then; a change is handed to a worker, one at a time.             *)
(*                                                                          *)
(* Applications are numbers, in the order of their names.  The lists of      *)
(* activity and input are handled alike and stand as one, the policy.       *)
(***************************************************************************)
EXTENDS Naturals, Sequences, FiniteSets, SequencesExt

CONSTANTS Applications,   \* a set of numbers
          Relabelled,     \* the pairs that merge by themselves once both are recorded
          Nothing,        \* no application, or no work
          MaxTurns        \* bounds what the user, the collector and the faults do

ASSUME AppRulesAssumption ==
  /\ Applications \subseteq Nat /\ IsFiniteSet(Applications) /\ Nothing \notin Applications
  /\ Relabelled \subseteq SUBSET Applications /\ MaxTurns \in Nat

VARIABLES
  recorded,   \* the applications with history
  links,      \* the user's merges: the pair, and the rules before it
  policy,     \* the applications left out of the record
  shots,      \* and out of the snapshots
  page,       \* what the page shows
  work,       \* the worker's action, with what it was given at the click
  turns       \* so far

ruleVars == <<recorded, links, policy, shots, page, work, turns>>
stored == <<recorded, links, policy, shots>>

\* select's results are kept apart from the list they were read with.
Page == [open : BOOLEAN, apps : Seq(Applications), index : Nat, named : Applications \cup {Nothing},
         shown : [policy : BOOLEAN, shots : BOOLEAN], other : Nat, confirm : {"none", "delete", "merge"}]
Unchosen == [open |-> FALSE, apps |-> <<>>, index |-> 0, named |-> Nothing, shown |-> [policy |-> FALSE, shots |-> FALSE],
             other |-> 0, confirm |-> "none"]

Turn == turns < MaxTurns /\ turns' = turns + 1

-----------------------------------------------------------------------------
(* Storage. *)

Pairs == {link.pair : link \in links}
Edges(pairs) == pairs \cup {e \in Relabelled : e \subseteq recorded}

\* merge_group: what the edges connect with a.
Group(a, pairs) ==
  LET closed == {s \in SUBSET Applications : a \in s /\ \A e \in Edges(pairs) : e \cap s # {} => e \subseteq s}
  IN  {b \in Applications : \A s \in closed : b \in s}

Members(a) == Group(a, Pairs)

\* known_applications.
Known == recorded \cup policy \cup shots

\* A list that has one of the members takes all of them.
Shared(list, members) == IF list \cap members = {} THEN list ELSE list \cup members

\* rule_change: a switch that was off and stays off changes nothing.
Switched(list, members, on, was) ==
  IF on THEN list \cup members ELSE IF was THEN list \ members ELSE list

\* Snapshot exclusions are saved one by one, those of the members only, and an error may
\* cut that off; the policy comes after them and in one piece.
SaveBoth(newPolicy, newShots, members) ==
  LET Kept(saved) == (shots \ saved) \cup (newShots \cap saved)
  IN  \/ policy' = newPolicy /\ shots' = Kept(members)
      \/ UNCHANGED policy /\ \E saved \in SUBSET members : shots' = Kept(saved)

\* Action 2, for whoever is merged with the application at that time.
SaveRules(w) ==
  LET members == Members(w.id)
  IN  /\ SaveBoth(Switched(policy, members, w.on.policy, w.was.policy),
                  Switched(shots, members, w.on.shots, w.was.shots), members)
      /\ UNCHANGED <<recorded, links>>

\* As MergeMembers, by a bug: the two that were chosen only.
MergeThose(w) == {w.id, w.other}
MergeMembers(w) == Members(w.id) \cup Members(w.other)

\* Action 3. A pair that is merged already keeps its older rules.
Merge(w) ==
  LET members == MergeMembers(w)
      prior == [members |-> members, policy |-> policy, shots |-> shots]
      pair == {w.id, w.other}
  IN  /\ UNCHANGED recorded
      /\ \/ UNCHANGED links /\ SaveBoth(Shared(policy, members), Shared(shots, members), members)
         \/ /\ policy' = Shared(policy, members) /\ shots' = Shared(shots, members)
            /\ links' = IF pair \in Pairs THEN links ELSE links \cup {[pair |-> pair, prior |-> prior]}

\* The rules the members had before, in a list that had one of them then and has now.
Restored(list, before, members) ==
  IF before \cap members # {} /\ list \cap members # {}
  THEN (list \ members) \cup (before \cap members) ELSE list

\* As Regrouped, by a bug: what is left of the merge is not looked at again.
RegroupedNot(list, members, pairs) == list
\* Each of them shares again with whomever it is still merged with.
Regrouped(list, members, pairs) ==
  list \cup UNION {IF Group(a, pairs) \cap list # {} THEN Group(a, pairs) ELSE {} : a \in members}

\* Action 4: the link goes first.
Unmerge(w) ==
  /\ UNCHANGED recorded
  /\ \/ UNCHANGED <<links, policy, shots>>
     \/ \E link \in {l \in links : l.pair = w.pair} :
          LET members == link.prior.members
              pairs == Pairs \ {w.pair}
              Now(list, before) == Regrouped(Restored(list, before, members), members, pairs)
          IN  /\ links' = links \ {link}
              /\ SaveBoth(Now(policy, link.prior.policy), Now(shots, link.prior.shots), members)

\* Action 5, with the collector paused for it. The rules stay, and so do the links.
Delete(w) ==
  /\ recorded' = recorded \/ recorded' = recorded \ Members(w.id)
  /\ UNCHANGED <<links, policy, shots>>

\* The collector records an application it has not met.
Recorded ==
  /\ Turn
  /\ \E a \in Applications \ recorded : recorded' = recorded \cup {a}
  /\ UNCHANGED <<links, policy, shots, page, work>>

-----------------------------------------------------------------------------
(* The page. *)

\* By their names.
Sorted(apps) ==
  CHOOSE s \in [1..Cardinality(apps) -> apps] : \A i, j \in DOMAIN s : i < j => s[i] < s[j]

\* refresh.
Refreshed(p) == [p EXCEPT !.apps = Sorted(Known)]

\* select: the switches are on if a rule holds for any of the merged.
Selected(p, i) ==
  LET members == Members(p.apps[i])
  IN  [p EXCEPT !.index = i, !.named = p.apps[i], !.other = 0,
                !.shown = [policy |-> policy \cap members # {}, shots |-> shots \cap members # {}]]

PlaceOf(a, apps) == CHOOSE i \in DOMAIN apps : apps[i] = a

\* on_opened, for the application that was selected elsewhere or for the first.
Opened ==
  /\ Turn /\ ~page.open /\ page.confirm = "none"
  /\ \E fresh \in {Refreshed([page EXCEPT !.open = TRUE])} :
       IF fresh.apps = <<>> THEN page' = fresh
       ELSE \E i \in {1} \cup DOMAIN fresh.apps : page' = Selected(fresh, i)
  /\ UNCHANGED <<stored, work>>

\* Its settings are closed; other pages have the menu of an application and the same dialogs.
Leave ==
  /\ page.open /\ page.confirm = "none"
  /\ page' = [page EXCEPT !.open = FALSE]
  /\ UNCHANGED <<stored, work, turns>>

\* on_choose.
Choose ==
  /\ Turn /\ page.open /\ work = Nothing /\ page.confirm = "none"
  /\ \E i \in DOMAIN page.apps : page' = Selected(page, i)
  /\ UNCHANGED <<stored, work>>

CanAct == page.open /\ work = Nothing /\ page.index # 0

\* on_action: the application is the one in its place in the list, if there is one.
At(i) == IF i \in DOMAIN page.apps THEN page.apps[i] ELSE Nothing
Chosen == At(page.index)

\* A switch is turned; the other one is saved as it was shown.
Toggle ==
  /\ Turn /\ CanAct /\ page.confirm = "none"
  /\ \E switch \in {"policy", "shots"} :
       work' = [stage |-> "asked", action |-> "rules", id |-> Chosen, named |-> page.named,
                on |-> [page.shown EXCEPT ![switch] = ~@], was |-> page.shown]
  /\ UNCHANGED <<stored, page>>

\* on_app_menu on an application that some other page lists: leave it out from now on,
\* or delete its history. One that is gone by now is not found in the list.
AppMenu ==
  /\ Turn /\ ~page.open /\ work = Nothing /\ page.confirm = "none"
  /\ \E a \in Applications, item \in {"exclude", "delete"}, fresh \in {Refreshed(page)} :
       IF a \notin Known THEN page' = fresh /\ UNCHANGED work
       ELSE \E p \in {Selected(fresh, PlaceOf(a, fresh.apps))} :
              IF item = "delete" THEN page' = [p EXCEPT !.confirm = "delete"] /\ UNCHANGED work
              ELSE /\ page' = p
                   /\ work' = [stage |-> "asked", action |-> "rules", id |-> a, named |-> a,
                               on |-> [p.shown EXCEPT !.policy = TRUE], was |-> p.shown]
  /\ UNCHANGED stored

\* Both have a dialog, which names the application.
AskDelete ==
  /\ CanAct /\ page.confirm = "none"
  /\ page' = [page EXCEPT !.confirm = "delete"]
  /\ UNCHANGED <<stored, work, turns>>

AskMerge ==
  /\ Turn /\ CanAct /\ page.confirm = "none"
  /\ \E i \in DOMAIN page.apps \ {page.index} : page' = [page EXCEPT !.other = i, !.confirm = "merge"]
  /\ UNCHANGED <<stored, work>>

Dismiss ==
  /\ page.confirm # "none" /\ page' = [page EXCEPT !.confirm = "none"]
  /\ UNCHANGED <<stored, work, turns>>

Accept ==
  /\ page.confirm # "none" /\ page' = [page EXCEPT !.confirm = "none"]
  /\ IF work # Nothing THEN UNCHANGED work
     ELSE IF page.confirm = "delete"
     THEN work' = [stage |-> "asked", action |-> "delete", id |-> Chosen, named |-> page.named]
     ELSE work' = [stage |-> "asked", action |-> "merge", id |-> Chosen, named |-> page.named,
                   other |-> At(page.other)]
  /\ UNCHANGED <<stored, turns>>

TakeApart ==
  /\ Turn /\ page.open /\ work = Nothing /\ page.confirm = "none"
  /\ \E pair \in Pairs : work' = [stage |-> "asked", action |-> "unmerge", pair |-> pair]
  /\ UNCHANGED <<stored, page>>

\* Action 0, from this window or the tray, and action 1, the dialog for a program file.
PauseOrFile ==
  /\ Turn /\ work = Nothing
  /\ \E action \in {"pause", "file"} :
       /\ action = "file" => page.open /\ page.confirm = "none"
       /\ work' = [stage |-> "asked", action |-> action, named |-> page.named]
  /\ UNCHANGED <<stored, page>>

-----------------------------------------------------------------------------
(* The worker. *)

Done == work' = [work EXCEPT !.stage = "done"]

\* The file dialog ends with a program or without.
FileChosen ==
  /\ work # Nothing /\ work.stage = "asked" /\ work.action = "file"
  /\ \E a \in Applications \cup {Nothing} : work' = [stage |-> "done", action |-> "file", id |-> a, named |-> work.named]
  /\ UNCHANGED <<stored, page, turns>>

\* run_heavy_task, with the storage lock.
WorkRuns ==
  /\ work # Nothing /\ work.stage = "asked" /\ work.action # "file"
  /\ \/ work.action = "pause" /\ UNCHANGED stored
     \/ work.action \notin {"pause", "unmerge"} /\ work.id = Nothing /\ UNCHANGED stored
     \/ work.action = "rules" /\ work.id # Nothing /\ SaveRules(work)
     \/ work.action = "merge" /\ work.id # Nothing /\ IF work.other \in {Nothing, work.id} THEN UNCHANGED stored ELSE Merge(work)
     \/ work.action = "unmerge" /\ Unmerge(work)
     \/ work.action = "delete" /\ work.id # Nothing /\ Delete(work)
  /\ Done
  /\ UNCHANGED <<page, turns>>

\* A program chosen: added to the list if storage does not know it, and selected.
WithFile(p, a) ==
  LET listed == IF a \in ToSet(p.apps) THEN p ELSE [p EXCEPT !.apps = Append(@, a)]
  IN  Selected(listed, PlaceOf(a, listed.apps))

\* Whatever is in the page's place by now is selected.
Reselected(p) ==
  IF p.apps = <<>> \/ (p.index = 0 /\ work.action # "delete") THEN p
  ELSE Selected(p, IF p.index = 0 THEN 1 ELSE IF p.index > Len(p.apps) THEN Len(p.apps) ELSE p.index)

\* updates_ready. With the storage lock taken, the page stays as it is; a choice of a
\* program that was cancelled reads the list and selects nothing.
UpdatesAreReady ==
  /\ work # Nothing /\ work.stage = "done"
  /\ work' = Nothing
  /\ \/ UNCHANGED page
     \/ \E fresh \in {Refreshed(page)} :
          page' = IF work.action # "file" THEN Reselected(fresh)
                  ELSE IF work.id = Nothing THEN fresh ELSE WithFile(fresh, work.id)
  /\ UNCHANGED <<stored, turns>>

-----------------------------------------------------------------------------
\* Some applications may have been left out before the first merge.
RulesInit ==
  /\ recorded \in SUBSET Applications
  /\ links = {} /\ policy \in SUBSET Applications /\ shots = {}
  /\ \E closed \in {Refreshed(Unchosen)} :
       page \in {closed} \cup {Selected([closed EXCEPT !.open = TRUE], i) : i \in DOMAIN closed.apps}
  /\ work = Nothing /\ turns = 0

RulesNext ==
  \/ Recorded \/ Opened \/ Leave \/ Choose \/ Toggle \/ AppMenu \/ AskDelete \/ AskMerge
  \/ Dismiss \/ Accept \/ TakeApart \/ PauseOrFile
  \/ FileChosen \/ WorkRuns \/ UpdatesAreReady

RulesSpec == RulesInit /\ [][RulesNext]_ruleVars

-----------------------------------------------------------------------------
(* Properties. *)

RulesTypeOK ==
  /\ {recorded, policy, shots} \subseteq SUBSET Applications
  /\ page \in Page /\ turns \in 0..MaxTurns
  /\ work # Nothing => work.stage \in {"asked", "done"}

\* Applications that the user has merged are recorded, or left out of the record, as
\* one: through every merge, every merge taken apart, a switch turned on or off and a
\* save that was cut off. The switch of the page stands for all of them.
MergedAgree == \A pair \in Pairs : pair \subseteq policy \/ pair \cap policy = {}

\* Stated here and not kept by the code: what is changed or deleted is the application
\* that the page and its dialog name. After the dialog for a program file is cancelled the
\* list has been read anew, and the place in it may be another application's.
ActsOnTheNamed ==
  work # Nothing /\ work.action \in {"rules", "merge", "delete"} => work.id \in {work.named, Nothing}
=============================================================================
