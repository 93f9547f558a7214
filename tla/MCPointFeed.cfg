SPECIFICATION MCSpec
CONSTANTS
  d1 = d1
  d2 = d2
  d3 = d3
  bridge = bridge
  o1 = o1
  o2 = o2
  o3 = o3
  v1 = v1
  MaxDevices = 2
  MaxPoints = 2
  Device = {d1, d2, d3, bridge}
  BridgeDevice = bridge
  FirstByte <- MCFirstByte
  Oid = {o1, o2, o3}
  Val = {v1}
  Process <- MCProcess
  UnitCode = {62, 95}
  Subscriber = {sse, mqtt}
INVARIANTS
  NoDuplicates
  FiledUnderSender
  UnitIsReported
  LabelledRight
PROPERTIES
  PointsKeepIndex
  ChangesTaken
  ScansEnd
