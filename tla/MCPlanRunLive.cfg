\* Under the fairness the loop gives, every run ends, whatever is edited meanwhile.
CONSTANTS
  N = 2
  Dep <- MCPair
  First = {1, 2}
  Softenable = {}
  AttMax = 1
  MaxConcurrent = 1
  MaxSpawns = 2
  MaxFixes = 1
  Endings <- MCFewEndings
  Texts = {"other"}
  MaxRuns = 1
  MaxEdits = 1
SPECIFICATION FairSpec
PROPERTIES RunTerminates
CHECK_DEADLOCK FALSE
