SPECIFICATION MCSpec
CONSTANTS
    c1 = c1
    c2 = c2
    t1 = t1
    id1 = id1
    Callers = {c1, c2}
    Suspenders = {c2}
    TrySenders = {}
    Ids = {id1}
    FwModes = {"MP_MODE"}
    MaxCmds = 3
    MaxCrashes = 1
INVARIANTS
    TypeOK
    CmdLockHeld
    PermitNotLost
    CmdsAnswered

    
