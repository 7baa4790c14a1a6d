\* Two turns, one message, one question; two things go wrong.
CONSTANTS
  m1 = m1
  Task = {1, 2}
  Msg = {m1}
  AskMsg = AskMsg
  None = None
  MaxWrong = 2
SPECIFICATION FairSpec
INVARIANTS TypeOK ReadOrReturned AcceptedArrives EndIsTold AnswerStands NeverBricked NoQuestionLeft
PROPERTIES TurnOver
CHECK_DEADLOCK FALSE
