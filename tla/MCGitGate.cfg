\* Two handlers at once, three in all; two requests; two failures, restarts or switches.
CONSTANTS
  p1 = p1  p2 = p2  a = a  b = b
  Handler = {p1, p2}
  Edit = {a, b}
  MaxReq = 2
  MaxCalls = 3
  MaxFaults = 2
SYMMETRY Alike
SPECIFICATION Spec
INVARIANTS TypeOK PushAgrees OpenIsListed NothingUnasked
CHECK_DEADLOCK FALSE
