SPECIFICATION LiveSpec
CONSTANTS
  Conns = {c1}
  None = None
  Callers = {"observer", "controller"}
  SlotQueue = 2
  CommandQueue = 1
  SocketBuffer = 1
  MaxQuestions = 2
  MaxInbox = 2
PROPERTIES
  DisconnectResolves
  QuestionsEnd
  CallsReturn
