SPECIFICATION LiveSpec
CONSTANTS
  Firmwares = {f0, f1, f2}
  Factory = f0
  Bad = {f2}
  None = None
  Garbage = Garbage
  BootLimit = 2
  MaxInstalls = 3
  Habits <- EveryDevice
INVARIANTS
  TypeOK
  RunningSlotIntact
  AlwaysBootable
  IdentityIsTrue
  OnlyProvenIsTrusted
PROPERTIES
  ImplementsAB
  BadFirmwareReverts
