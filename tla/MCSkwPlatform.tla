---------------------------- MODULE MCSkwPlatform ----------------------------
(* The platform over its buses for TLC (SkwPlatform).  A behaviour is a   *)
(* behaviour of one of its components, under one load.                     *)
EXTENDS SkwPlatform

PlatLoad(c, k, e, f, s) == [calls |-> c, crashes |-> k, errors |-> e, faults |-> f, sleeps |-> s]
\* service calls, a crash among calls, a second crash, a sleep, a reset that fails
PlatLoads == {PlatLoad(3, 0, 0, 0, 0), PlatLoad(1, 1, 0, 0, 0), PlatLoad(0, 1, 1, 0, 0), PlatLoad(0, 2, 0, 0, 0),
              PlatLoad(1, 0, 0, 0, 1), PlatLoad(0, 1, 0, 1, 0), PlatLoad(0, 1, 0, 0, 1), PlatLoad(1, 0, 1, 0, 0)}

CtlLoad == [crash |-> 0, hang |-> 0, dlfail |-> 0, start |-> 0, stop |-> 0, abort |-> 0,
            sleep |-> 0, unplug |-> 0, en |-> TRUE]
\* downloads that fail; services; crashes; a crash or an abort during a call; a sleep
ControlLoads == {[CtlLoad EXCEPT !.dlfail = 1, !.unplug = 1], [CtlLoad EXCEPT !.dlfail = 1, !.en = FALSE],
             [CtlLoad EXCEPT !.start = 2, !.stop = 1], [CtlLoad EXCEPT !.crash = 1, !.start = 2],
             [CtlLoad EXCEPT !.hang = 1, !.abort = 1], [CtlLoad EXCEPT !.abort = 1, !.crash = 1],
             [CtlLoad EXCEPT !.crash = 1, !.sleep = 1, !.abort = 1],
             [CtlLoad EXCEPT !.start = 1, !.unplug = 1, !.abort = 1],
             [CtlLoad EXCEPT !.dlfail = 1, !.crash = 1, !.abort = 1],
             [CtlLoad EXCEPT !.start = 1, !.stop = 1, !.abort = 1],
             [CtlLoad EXCEPT !.hang = 1, !.start = 2, !.stop = 1]}

UsbLoad == [data |-> 0, err |-> 0, fail |-> 0, frames |-> 0, stop |-> 0, sleep |-> 0, halt |-> 0, gone |-> 0]
\* data and errors, with a submission that fails; sending; sleep; the end
PortLoads == {[UsbLoad EXCEPT !.data = 3, !.err = 2, !.gone = 1],
             [UsbLoad EXCEPT !.data = 2, !.fail = 1, !.err = 1, !.sleep = 1],
             [UsbLoad EXCEPT !.data = 1, !.fail = 1, !.gone = 1],
             [UsbLoad EXCEPT !.data = 3, !.sleep = 2, !.gone = 1],
             [UsbLoad EXCEPT !.data = 1, !.frames = 4, !.stop = 1, !.sleep = 1, !.gone = 1],
             [UsbLoad EXCEPT !.data = 1, !.frames = 2, !.halt = 1, !.err = 1, !.gone = 1]}

EdmaLoad == [events |-> 0, oom |-> 0, nosub |-> 0, pkts |-> 0, bad |-> 0, stop |-> 0,
             frames |-> 0, nosend |-> 0, check |-> 0]
\* events, with a failed allocation; packets over two turns of the ring; frames
RingLoads == {[EdmaLoad EXCEPT !.events = 4, !.oom = 1],
              [EdmaLoad EXCEPT !.pkts = 9, !.bad = 1, !.oom = 1],
              [EdmaLoad EXCEPT !.pkts = 8, !.nosub = 1, !.stop = 1],
              [EdmaLoad EXCEPT !.frames = 4, !.check = 1], [EdmaLoad EXCEPT !.frames = 3, !.nosend = 1]}

VARIABLE which  \* the component that runs in this behaviour; the others stay as they begin

all == <<which, vars, ctlVars, usbVars, edmaVars>>

\* a component that does not run is in one of its initial states, always the same one
MCInit ==
    /\ which \in {"plat", "ctl", "usb", "edma"}
    /\ Init
    /\ Ctl!Init
    /\ Usb!Init
    /\ Edma!Init
    /\ (which # "plat" => left = CHOOSE l \in PlatLoads : TRUE)
    /\ (which # "plat" => irq_type = "external")
    /\ (which # "plat" => ~log_open)
    /\ (which # "ctl" => load = CHOOSE l \in CtlLoads : TRUE)
    /\ (which # "usb" => u_load = CHOOSE l \in UsbLoads : TRUE)
    /\ (which # "edma" => e_load = CHOOSE l \in EdmaLoads : TRUE)

MCNext ==
    /\ UNCHANGED which
    /\ \/ which = "plat" /\ Next /\ UNCHANGED <<ctlVars, usbVars, edmaVars>>
       \/ which = "ctl" /\ Ctl!Next /\ UNCHANGED <<vars, usbVars, edmaVars>>
       \/ which = "usb" /\ Usb!Next /\ UNCHANGED <<vars, ctlVars, edmaVars>>
       \/ which = "edma" /\ Edma!Next /\ UNCHANGED <<vars, ctlVars, usbVars>>

\* each component's own fairness, for the behaviours in which it runs
MCFairness ==
    /\ WF_vars(which = "plat" /\ RxThread)
    /\ WF_vars(which = "plat" /\ ExcWork)
    /\ WF_vars(which = "plat" /\ Caller)
    /\ WF_vars(which = "plat" /\ FwBoot)
    /\ WF_vars(which = "plat" /\ Recovery)
    /\ WF_vars(which = "plat" /\ Resume)
    /\ WF_ctlVars(which = "ctl" /\ Ctl!ChipUp)
    /\ WF_ctlVars(which = "ctl" /\ chip.fw \in {"boot", "up"} /\ Ctl!FwSays)
    /\ WF_ctlVars(which = "ctl" /\ chip.fw = "dead" /\ Ctl!ChipGone)
    /\ WF_ctlVars(which = "ctl" /\ Ctl!Hub)
    /\ WF_ctlVars(which = "ctl" /\ Ctl!DlStep)
    /\ WF_ctlVars(which = "ctl" /\ Ctl!Loop)
    /\ WF_ctlVars(which = "ctl" /\ (Ctl!ExcFire \/ Ctl!ExcEnd))
    /\ WF_ctlVars(which = "ctl" /\ (Ctl!MctlSend \/ Ctl!MctlArm))
    /\ WF_ctlVars(which = "ctl" /\ Ctl!AddDevices)
    /\ WF_ctlVars(which = "ctl" /\ Ctl!ServiceDone)
    /\ WF_usbVars(which = "usb" /\ Usb!Thread)
    /\ WF_usbVars(which = "usb" /\ Usb!Tasklet)
    /\ WF_usbVars(which = "usb" /\ Usb!Kick)
    /\ WF_usbVars(which = "usb" /\ Usb!Sender)
    /\ WF_usbVars(which = "usb" /\ Usb!WriteDone)
    /\ WF_usbVars(which = "usb" /\ Usb!PmStep)
    /\ WF_usbVars(which = "usb" /\ Usb!DisconnectFree)
    /\ WF_edmaVars(which = "edma" /\ Edma!Events)
    /\ WF_edmaVars(which = "edma" /\ Edma!RxPoll)
    /\ WF_edmaVars(which = "edma" /\ Edma!TxFree)
    /\ WF_edmaVars(which = "edma" /\ Edma!DevTxDone)

MCSpec == MCInit /\ [][MCNext]_all /\ MCFairness

-----------------------------------------------------------------------------
\* Service starts report what the firmware answered, and no crash is recovered twice at once
\* (skw_recovery_mode from the receive thread and from the exception work).
\* A crashed SDIO chip is recovered and so is a USB one, USB reads go on and a disconnected port
\* is freed, and the eDMA polls empty their rings.
BusesMove ==
    /\ StartMeansReady /\ RecoveredOnce
    /\ []<>(/\ which = "plat" => Recovered
            /\ which = "ctl" => Ctl!Back
            /\ which = "usb" => Usb!UsbMoved
            /\ which = "edma" => Edma!Drained)
=============================================================================
