SPECIFICATION LiveSpec
CONSTANTS
  Requests = {r1, r2}
  None = None
  Channel = 1
  MaxRestarts = 1
  MaxStaged = 2
INVARIANTS
  TypeOK
  AnswersItself
  CleansUp
PROPERTIES
  EveryScriptIsAnswered
