SPECIFICATION LiveSpec
CONSTANTS
  Keys = {health, logging, local_shell}
  Logging = logging
  Shell = local_shell
  None = None
  Offers <- EveryOffer
  MaxOutput = 2
  MaxInput = 1
INVARIANTS
  TypeOK
  OneNegotiation
  SpeaksWhenWanted
PROPERTIES
  Negotiates
  ShellLetGo
  LoopGoesOn
