SPECIFICATION Spec
CONSTANTS
  RingSize = 2
  IndexSpan = 4
  MaxOps = 4
INVARIANT DeliveredOnceInOrder
CHECK_DEADLOCK FALSE
