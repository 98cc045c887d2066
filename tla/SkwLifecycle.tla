---------------------------- MODULE SkwLifecycle ----------------------------
(***************************************************************************)
(* The life of the driver: interfaces, recovery and removal (SkwLife),     *)
(* loading and unloading the modules (SkwBringup), the timer list          *)
(* (SkwTimer), the log recorder (SkwLog), and suspend and resume           *)
(* (SkwWake).  They share no state but the core that the removal frees.    *)
(***************************************************************************)
EXTENDS SkwLife

CONSTANTS
    UpLoads,                                                        \* Loads of SkwBringup
    TimerIds, TimerDelays, TimerAdds, TimerHorizon,                 \* of SkwTimer
    LogData, LogRoom, LogFileMax, LogFiles, LogErrors, LogEvents,   \* of SkwLog
    WakeLoads, WakeEntries, WakeBatch, WakeHdr, WakeRoom, WakeV6Limit \* of SkwWake

ASSUME TimerAssumption == TimerHorizon \in Nat /\ TimerAdds \in Nat /\ TimerDelays \subseteq Nat
ASSUME LogAssumption ==
    /\ LogRoom \in Nat \ {0}
    /\ LogData \in Nat /\ LogFileMax \in Nat /\ LogFiles \in Nat /\ LogErrors \in Nat /\ LogEvents \in Nat

VARIABLES
    load, held, plat, wifi, b_odd,
    now, list, armed, fire, gone, open, made, t_odd,
    dev, flags, port, work, out, exit, l_left, l_odd,
    w_load, at, pm, drv, ka, wf, sched, ip, w_fw, said, w_odd

Up == INSTANCE SkwBringup WITH
    Loads <- UpLoads, odd <- b_odd

Timers == INSTANCE SkwTimer WITH
    Ids <- TimerIds, Delays <- TimerDelays, Adds <- TimerAdds, Horizon <- TimerHorizon, odd <- t_odd

Log == INSTANCE SkwLog WITH
    Data <- LogData, Room <- LogRoom, FileMax <- LogFileMax, LogNum <- LogFiles, MaxErr <- LogErrors,
    Events <- LogEvents, left <- l_left, odd <- l_odd

Wake == INSTANCE SkwWake WITH
    Loads <- WakeLoads, Entries <- WakeEntries, Batch <- WakeBatch, Hdr <- WakeHdr, Room <- WakeRoom, V6Limit <- WakeV6Limit,
    load <- w_load, fw <- w_fw, odd <- w_odd

upVars ==
    <<load, held, plat, wifi, b_odd>>
timersVars ==
    <<now, list, armed, fire, gone, open, made, t_odd>>
logVars ==
    <<dev, flags, port, work, out, exit, l_left, l_odd>>
wakeVars ==
    <<w_load, at, pm, drv, ka, wf, sched, ip, w_fw, said, w_odd>>

-----------------------------------------------------------------------------
\* The property of the interfaces is SkwLife's Sound.

\* What a failed or undone step of loading took is given back, in an order that leaves nothing
\* in use, and success is reported only for a driver that works (skw_drv_probe, seekwave_boot_init).
BringupSound == Up!BringupSound /\ Up!Restored

\* No timer fires early, twice or after its list is gone; one that is late is behind a later one.
TimersSound == Timers!TimersSound

\* The log recorder: what it reads is in its files or known to be lost, and nothing stays open.
LogSound == Log!LogSound

\* Over a sleep the firmware keeps the rules, patterns and addresses the user was told it has.
WakeSound == Wake!WakeSound
=============================================================================
