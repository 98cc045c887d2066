SPECIFICATION MCSpec
CONSTANTS
    Ids = {0, 1}
    Loads <- LifeLoads
    UpLoads <- BringupLoads
    TimerIds = {"scan", "auth", "cqm"}
    TimerDelays = {0, 1, 3}
    TimerAdds = 3
    TimerHorizon = 7
    LogData = 3
    LogRoom = 3
    LogFileMax = 1
    LogFiles = 1
    LogErrors = 1
    LogEvents = 4
    WakeLoads <- SleepLoads
    WakeEntries = 4
    WakeBatch = 2
    WakeHdr = 2
    WakeRoom = 8
    WakeV6Limit = 2
INVARIANTS
    
    BringupSound
    TimersSound
    LogSound
    
PROPERTIES
    LifeMoves
CHECK_DEADLOCK FALSE
