\* Three items, two of them at once; stops, crashes and a second run.
CONSTANTS
  N = 3
  Dep <- MCJoin
  First = {1, 2, 3}
  Softenable = {}
  AttMax = 1
  MaxConcurrent = 2
  MaxSpawns = 3
  MaxFixes = 1
  Endings <- MCFewEndings
  Texts = {"other"}
  MaxRuns = 2
  MaxEdits = 0
SPECIFICATION Spec
INVARIANTS NoOrphan AttemptsBounded
PROPERTIES EndsDrained PausingStartsNothing
CHECK_DEADLOCK FALSE
