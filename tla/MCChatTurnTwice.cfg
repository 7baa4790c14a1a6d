\* Two turns; nothing goes wrong.
CONSTANTS
  m1 = m1
  Task = {1, 2}
  Msg = {m1}
  AskMsg = AskMsg
  None = None
  MaxWrong = 0
SPECIFICATION Spec
INVARIANTS OneTurn
CHECK_DEADLOCK FALSE
