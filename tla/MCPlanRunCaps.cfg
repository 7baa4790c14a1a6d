\* Three items that could all start, two slots, stalls and retries.
CONSTANTS
  N = 3
  Dep <- MCFree
  First = {1, 2, 3}
  Softenable = {}
  AttMax = 2
  MaxConcurrent = 2
  MaxSpawns = 3
  MaxFixes = 1
  Endings <- MCFewEndings
  Texts = {"other"}
  MaxRuns = 1
  MaxEdits = 0
SPECIFICATION Spec
INVARIANTS WithinCaps
PROPERTIES WorkConserving
CHECK_DEADLOCK FALSE
