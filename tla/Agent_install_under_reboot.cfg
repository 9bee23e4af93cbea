SPECIFICATION Spec
CONSTANTS
  Firmwares = {f1}
  None = None
  Configs <- HeadlessOnly
  Requests = {}
  Panics = FALSE
  MaxInstalls = 1
  MaxReports = 1
  MaxCommands = 1
  MaxRestarts = 0
INVARIANTS
  NoInstallUnderReboot
