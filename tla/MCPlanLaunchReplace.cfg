\* A re-plan in flight while a run is started.
CONSTANTS
  op = op  ann = ann  bob = bob
  r1 = r1  r2 = r2  r3 = r3
  Operators = {op}
  Orchestrators = {ann, bob}
  Run = {r1, r2, r3}
  NoRun = NoRun
  Faults = {}
SPECIFICATION Spec
PROPERTIES RunKeepsItsPlan
CHECK_DEADLOCK FALSE
