SPECIFICATION FairSpec
CONSTANTS
  m1 = m1
  m2 = m2
  NoMac = NoMac
  Macs <- MCMacs
  Idx <- MCIdx
  MaxBuf = 2
  Loads <- MCLoads
INVARIANT StationsAgree 
 
CHECK_DEADLOCK FALSE
