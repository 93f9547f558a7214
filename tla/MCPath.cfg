SPECIFICATION MCSpec
CONSTANTS
  MaxData = 1
  FrameType = {0, 5}
  DataByte = {85, 255}
  MaxLost = 8
  MaxNoise = 1
  RingSize = 2
  MaxFrames = 2
  MaxPackets = 2
  MaxWhoIs = 2
INVARIANTS
  NoEcho
  RepliesLeaveBySource
  IntactFramesArrive
PROPERTIES
  RouterComesBack
  PushedAsSent
  Resynchronises
