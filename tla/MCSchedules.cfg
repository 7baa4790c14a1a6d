\* Three ticks, two to a day; an edit, a restart and a failure at any moment, a late write too.
CONSTANTS
  q1 = q1
  Req = {q1}
  o1 = o1
  Operator = {o1}
  Free = Free
  NoRun = NoRun
  Cadence <- Cadences
  Day = 2
  MaxTime = 2
  MaxEdits = 1
  MaxCrashes = 1
  MaxFaults = 1
SPECIFICATION FairSpec
INVARIANTS TypeOK OneRun RunningIsTrue
PROPERTIES RunsAsItStands TimeIsSpent DueIsTaken
CHECK_DEADLOCK FALSE
