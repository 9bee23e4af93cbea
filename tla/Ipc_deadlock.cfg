SPECIFICATION LiveSpec
CONSTANTS
  Conns = {c1}
  None = None
  Callers = {"observer", "controller"}
  SlotQueue = 1
  CommandQueue = 1
  SocketBuffer = 2
  MaxQuestions = 3
  MaxInbox = 1
PROPERTIES
  QuestionsEnd
CHECK_DEADLOCK FALSE
