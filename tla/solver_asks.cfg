CONSTANTS
  Engines = {"polylog"}
  Lines <- MCLines
  MaxLines = 4
  MaxFacts = 2
  MaxRules = 2
  MaxDepth = 2
  MaxBindings = 5
  unify <- Unify
  apply_subst <- ApplySubst
  runs_away <- RunsAway
  make_list <- ListOf
  list_nth <- Nth
SPECIFICATION Spec
CHECK_DEADLOCK FALSE
PROPERTY AskingTeachesNothing
