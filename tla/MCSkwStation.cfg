SPECIFICATION MCSpec
CONSTANTS
    Bss = {a, b}
    None = None
    MaxAuthRetry = 2
    MaxAssocRetry = 2
    MaxRedo = 1
    Loads <- SmeLoads
INVARIANTS
    Consistent
    HostAgrees
    

    
CHECK_DEADLOCK FALSE
