SPECIFICATION LiveSpec
CONSTANTS
  Firmwares = {f1}
  None = None
  Configs <- MainConfigs
  Requests = {}
  Panics = FALSE
  MaxInstalls = 2
  MaxReports = 1
  MaxCommands = 1
  MaxRestarts = 1
PROPERTIES
  ImplementsInstallProtocol
  ToolComesBack
  SuccessIsSettled
