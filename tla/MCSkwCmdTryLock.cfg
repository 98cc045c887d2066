SPECIFICATION Spec
CONSTANTS
    Callers = {c1, c2}
    Suspenders = {}
    TrySenders = {t1}
    Ids = {id1}
    FwModes = {}
    MaxCmds = 3
    MaxCrashes = 1
INVARIANTS CmdLockHeld
