SPECIFICATION Spec
CONSTANTS
  Firmwares = {f1, f2}
  None = None
  Configs <- AllConfigs
  Requests = {"mark_valid", "reboot"}
  Panics = TRUE
  MaxInstalls = 2
  MaxReports = 1
  MaxCommands = 1
  MaxRestarts = 1
SYMMETRY FirmwareSymmetry
INVARIANTS
  TypeOK
  ToolHasOneOwner
  JoinNeedsNoTool
  QuestionsBetweenInstalls
  EndedUpdatesAreNotShown
