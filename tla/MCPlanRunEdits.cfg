\* A plan edited, extended and repaired while it is walked; every way an attempt can end.
CONSTANTS
  N = 2
  Dep <- MCPair
  First = {1}
  Softenable = {2}
  AttMax = 2
  MaxConcurrent = 2
  MaxSpawns = 2
  MaxFixes = 1
  Endings <- MCEndings
  Texts = {"other"}
  MaxRuns = 1
  MaxEdits = 2
SPECIFICATION Spec
INVARIANTS TypeOK NoStaleBlock
PROPERTIES ReadyOnly ImplementsChecklist
CHECK_DEADLOCK FALSE
