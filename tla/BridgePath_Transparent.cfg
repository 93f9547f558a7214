SPECIFICATION PathSpec
CONSTANTS
  RingSize = 2
  MaxFrames = 2
  MaxPackets = 2
  MaxWhoIs = 2
INVARIANTS
  Transparent
