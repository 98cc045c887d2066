---------------------------- MODULE MCSkwBluetooth ----------------------------
(* Bluetooth for TLC: the HCI driver and the log device (SkwBluetooth).  A *)
(* behaviour is a behaviour of one of them, under one load.                *)
EXTENDS SkwBluetooth

Load(o, f, c, t, x, s, r) == [opens |-> o, frames |-> f, crashes |-> c, timeouts |-> t,
                              faults |-> x, strays |-> s, removes |-> r]

HciLoads == {Load(1, 3, 0, 0, 2, 0, 0), Load(1, 2, 1, 0, 0, 0, 0), Load(1, 0, 2, 0, 0, 0, 0),
            Load(2, 0, 0, 2, 0, 1, 0), Load(2, 1, 0, 0, 1, 0, 1), Load(3, 0, 1, 0, 1, 0, 0)}

VARIABLE which  \* the component that runs in this behaviour; the others stay as they begin

all == <<which, vars, logVars>>

\* a component that does not run is in one of its initial states, always the same one
MCInit ==
    /\ which \in {"hci", "log"}
    /\ Init
    /\ Log!Init
    /\ (which # "hci" => left = CHOOSE l \in HciLoads : TRUE)
    /\ (which # "hci" => chip = "page")

MCNext ==
    /\ UNCHANGED which
    /\ \/ which = "hci" /\ Next /\ UNCHANGED <<logVars>>
       \/ which = "log" /\ Log!Next /\ UNCHANGED <<vars>>

\* each component's own fairness, for the behaviours in which it runs
MCFairness ==
    /\ WF_vars(which = "hci" /\ (OpenWaited \/ OpenGaveUp \/ OpenPorts \/ OpenService \/ SendCommand \/ OpenUndo))
    /\ WF_vars(which = "hci" /\ CommandAnswered)
    /\ WF_vars(which = "hci" /\ CommandTimeout)
    /\ WF_vars(which = "hci" /\ (CloseFlushed \/ CloseWaited \/ Close))
    /\ WF_vars(which = "hci" /\ ((told \/ rm = "unregister") /\ CloseCall))
    /\ WF_vars(which = "hci" /\ told /\ OpenCall)
    /\ WF_vars(which = "hci" /\ Work)
    /\ \A a \in Actors : WF_vars(which = "hci" /\ Flush(a))
    /\ WF_vars(which = "hci" /\ Rx)
    /\ WF_vars(which = "hci" /\ FwRestart)
    /\ WF_vars(which = "hci" /\ (RemoveWaited \/ RemoveTear \/ RemoveFlushed \/ RemoveEnd))
    /\ WF_logVars(which = "log" /\ Log!Writer)
    /\ WF_logVars(which = "log" /\ Log!FileStep)
    /\ \A r \in LogReaders : WF_logVars(which = "log" /\ Log!Reader(r))

MCSpec == MCInit /\ [][MCNext]_all /\ MCFairness

-----------------------------------------------------------------------------
\* A service lost in a crash is healed, and no reader of the log sleeps on packets.
BtMoves == []<>(/\ which = "hci" => Healed
                /\ which = "log" => Log!Awake)
=============================================================================
