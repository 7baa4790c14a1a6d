\* Three callers at once; stops, failures and a timeout at any moment.
CONSTANTS
  op = op  ann = ann  bob = bob
  r1 = r1  r2 = r2  r3 = r3
  Operators = {op}
  Orchestrators = {ann, bob}
  Run = {r1, r2, r3}
  NoRun = NoRun
  Faults = {"stop", "fail", "timeout"}
SPECIFICATION FairSpec
INVARIANTS LaunchTypeOK HandleNamesRun FixPickedUp
PROPERTIES FixReturns
CHECK_DEADLOCK FALSE
