SPECIFICATION LiveSpec
CONSTANTS
  Firmwares = {f0, f1, f2}
  Factory = f0
  Bad = {f2}
  Declared = {f1}
  None = None
  Garbage = Garbage
  Attempts = 3
  MaxInstalls = 3
  Habits <- EveryDevice
INVARIANTS
  TypeOK
  IdentityIsTrue
PROPERTIES
  ImplementsAB
  UnconfirmedReverts
