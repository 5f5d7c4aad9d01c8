------------------------------- MODULE MCShell -------------------------------
(***************************************************************************)
(* What goes on around the data: clearing all of it, starting and ending    *)
(* the two processes, the applications' rules, the statistics' window, and   *)
(* the database itself.                                                     *)
(* A behaviour is one of one part; the others stay as they begin.           *)
(***************************************************************************)
EXTENDS ClearAll, Lifecycle, AppRules, StatisticsPages, Schema

CONSTANT Parts

VARIABLE part

ShellInit ==
  /\ part \in Parts
  /\ SchemaInit
  /\ part # "schema" => version = 1 /\ rows = {}
  /\ Init /\ LifeInit /\ RulesInit /\ StatisticsInit /\ range = 1
  /\ part # "statistics" => view.tab = "totals"
  /\ page.open /\ page.index = 1
  /\ recorded \in (IF part = "rules" THEN {Applications, {2, 3}} ELSE {Applications})
  /\ policy \in (IF part = "rules" THEN {{}, {1}, {2}} ELSE {{}})

ShellNext ==
  /\ UNCHANGED part
  /\ \/ /\ part = "clear" /\ Next
        /\ UNCHANGED <<lifeVars, ruleVars, statisticsVars, schemaVars>>
     \/ /\ part = "life" /\ LifeNext
        /\ UNCHANGED <<vars, ruleVars, statisticsVars, schemaVars>>
     \/ /\ part = "rules" /\ RulesNext
        /\ UNCHANGED <<vars, lifeVars, statisticsVars, schemaVars>>
     \/ /\ part = "statistics" /\ StatisticsNext
        /\ UNCHANGED <<vars, lifeVars, ruleVars, schemaVars>>
     \/ /\ part = "schema" /\ SchemaNext
        /\ UNCHANGED <<vars, lifeVars, ruleVars, statisticsVars>>

\* A part that does not move has nothing it must do.
ShellSpec ==
  ShellInit
    /\ [][ShellNext]_<<part, vars, lifeVars, ruleVars, statisticsVars, schemaVars>>
    /\ Fairness /\ LifeFairness

\* Every part's variables have their types.
ShellTypeOK ==
  /\ TypeOK /\ LifeTypeOK /\ RulesTypeOK /\ StatisticsTypeOK
  /\ part = "schema" => SchemaTypeOK
=============================================================================
