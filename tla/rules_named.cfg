\* The application that an action of the rules' page is for, and the one the page names.
SPECIFICATION RulesSpec
CONSTANTS
  Applications = {1, 2, 3}
  Relabelled = {{2, 3}}
  Nothing = Nothing
  MaxTurns = 3
INVARIANT ActsOnTheNamed
CHECK_DEADLOCK FALSE
