\* Both kinds of box; the box is made twice at most; one thing goes wrong at most.
CONSTANTS
  Turn = {1, 2}
  Job = Job
  Nobody = Nobody
  Kinds = {"shared", "own"}
  MaxRec = 2
  MaxCuts = 1
SPECIFICATION FairSpec
INVARIANTS TypeOK NothingLeaks Undisturbed OwnerKeepsEdits Told NoGhost
PROPERTIES TurnEnds
CHECK_DEADLOCK FALSE
