CONSTANTS
  Plan <- MCPlan
  PacketSizes <- MCPacketSizes
  FirstSize = 6
  HighWater = 4
  IdModulus = 2
SPECIFICATION Spec
INVARIANTS
  WellFramed
  BoundedBuffers
PROPERTIES
  ImplementsFifo
  EveryMessageArrives
CHECK_DEADLOCK FALSE
