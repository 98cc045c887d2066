SPECIFICATION Spec
CONSTANTS
  Length = 4
  MaxPacket = 2
  Channels = {"atc", "log", "bt"}
  Versions = {"V10", "V20"}
  MaxBytes = 5
  Loads <- MCLoads
INVARIANTS
  PortSound
PROPERTIES
  
  IsFifo
CHECK_DEADLOCK FALSE
