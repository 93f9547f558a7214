SPECIFICATION CoresSpec
CONSTANTS
  factory = factory
  short = short
  long = long
  huge = huge
  deaf = deaf
  Cfg = {factory, short, long, huge, deaf}
  DefaultCfg = factory
  Size <- MCSize
  Valid <- MCValid
  BufSize = 4
  Page = 2
  SaveDelay = 1
  RebootDelay = 1
  FactoryDelay = 2
  OtaDelay = 0
  MaxEdits = 2
  MaxBoots = 2
  N = 2
  IndexSpan = 6
  Words = 2
  Val = {0, 1}
  Zero = 0
  NoPdu = NoPdu
  Rates <- MCRates
  SafeRate = 19200
  ConfigRates = {0, 9600}
  MaxMac = 2
  OwnMacs = {0, 1, 2}
  MaxChanges = 2
CHECK_DEADLOCK FALSE
INVARIANTS
  BootsLastOrDefault
  SpinsDuringSave
  HaltedDuringFlash
  NoSlotRace
  CheckStaysValid
  RateAsReported
PROPERTIES
  IsRegister
  ResetKeepsEdits
  EditsReachFlash
  OperationsEnd
  Core1Returns
  IsFifo
  Drains
  TalkersFound
  TokenComesRound
