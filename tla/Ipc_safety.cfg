SPECIFICATION Spec
CONSTANTS
  Conns = {c1, c2}
  None = None
  Callers = {"observer", "controller"}
  SlotQueue = 1
  CommandQueue = 1
  SocketBuffer = 2
  MaxQuestions = 2
  MaxInbox = 1
INVARIANTS
  TypeOK
  OneController
  AnswersOwnQuestion
  NoWaitIsOrphaned
CHECK_DEADLOCK FALSE
