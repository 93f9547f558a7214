INIT PauseScene
NEXT PauseStep
CONSTANTS
  factory = factory
  short = short
  long = long
  huge = huge
  deaf = deaf
  Cfg = {factory, short, long, huge, deaf}
  DefaultCfg = factory
  Size <- MCSize
  Valid <- MCValid
  BufSize = 4
  Page = 2
  SaveDelay = 1
  RebootDelay = 1
  FactoryDelay = 2
  OtaDelay = 0
  MaxEdits = 2
  MaxBoots = 2
CHECK_DEADLOCK FALSE
INVARIANT
  HandlerStaysOut
