---------------------------- MODULE MCSkwTxPath ----------------------------
(* The transmit path for TLC: queues, ring and credit with fair workers    *)
(* (SkwTx), the same with errors, thermal stops and disconnections         *)
(* (Faulty) and with a credit reset (Reset), the ownership of the buffers  *)
(* from skw_ndo_xmit on (SkwXmit), and the bus accesses that share the     *)
(* address register of the chip (SkwSdioReg).                              *)
EXTENDS SkwTxPath

BufLoad == [mode |-> "ring", frames |-> <<"data", "eapol">>, align |-> FALSE, rptr |-> FALSE,
         arpf |-> FALSE, cb |-> 0, busy |-> FALSE,
         left |-> [oom |-> 1, err |-> 1, refuse |-> 1, link |-> 1]]

\* each DMA mode; the command channel refusing; bridged ARP; links that come and go
XmitLoads ==
    {[BufLoad EXCEPT !.mode = m, !.frames = <<"data", "data", "mcast">>, !.align = a] : m \in {"ring", "sync_sdma", "async_sdma", "sync_adma", "async_adma"}, a \in BOOLEAN}
    \cup {[BufLoad EXCEPT !.frames = <<"eapol", "data">>, !.busy = TRUE, !.align = a, !.cb = c]
            : a \in BOOLEAN, c \in {0, 200}}
    \cup {[BufLoad EXCEPT !.frames = <<"arp", "short", "eapol">>, !.rptr = r, !.arpf = p, !.busy = b, !.align = a]
            : r \in BOOLEAN, p \in BOOLEAN, b \in BOOLEAN, a \in BOOLEAN}
    \cup {[BufLoad EXCEPT !.frames = <<"data", "data">>, !.left.link = 3, !.left.refuse = 2]}

VARIABLES
    which   \* the component that runs in this behaviour; the others stay as they begin

Live == INSTANCE SkwTx WITH MaxTrips <- 0, MaxGone <- 0, MaxErrors <- 0, MaxResets <- 0

Faulty == INSTANCE SkwTx WITH MaxFrames <- 2, PktLimit <- 3, High <- 2, Low <- 1, MaxResets <- 0

Reset == INSTANCE SkwTx WITH
    MaxFrames <- 2, PktLimit <- 3, High <- 2, Low <- 1, MaxTrips <- 0, MaxGone <- 0

all == <<which, vars, bufVars, regVars>>

\* a component that does not run is in one of its initial states, always the same one
MCInit ==
    /\ which \in {"live", "faulty", "reset", "buf", "reg"}
    /\ Init
    /\ Buf!Init
    /\ Reg!Init
    /\ (which # "buf" => load = CHOOSE l \in BufLoads : TRUE)
    /\ (which # "reg" => job = [t \in RegThreads |-> "data"])

MCNext ==
    /\ UNCHANGED which
    /\ \/ which = "live" /\ Live!Next /\ UNCHANGED <<bufVars, regVars>>
       \/ which = "faulty" /\ Faulty!Next /\ UNCHANGED <<bufVars, regVars>>
       \/ which = "reset" /\ Reset!Next /\ UNCHANGED <<bufVars, regVars>>
       \/ which = "buf" /\ Buf!Next /\ UNCHANGED <<vars, regVars>>
       \/ which = "reg" /\ Reg!Next /\ UNCHANGED <<vars, bufVars>>

\* each component's own fairness, for the behaviours in which it runs
MCFairness ==
    /\ WF_vars(which = "live" /\ XmitStep)
    /\ WF_vars(which = "live" /\ TxStep)
    /\ WF_vars(which = "live" /\ DyStep)
    /\ WF_vars(which = "live" /\ AddCredit)
    /\ WF_vars(which = "live" /\ ThermalClear)
    /\ WF_bufVars(which = "buf" /\ Buf!Xmit)
    /\ WF_bufVars(which = "buf" /\ Buf!Send)
    /\ WF_bufVars(which = "buf" /\ Buf!Complete)
    /\ WF_bufVars(which = "buf" /\ Buf!KfreeWorker)
    /\ WF_bufVars(which = "buf" /\ Buf!Work)
    /\ WF_bufVars(which = "buf" /\ Buf!Return)
    /\ \A t \in RegThreads : WF_regVars(which = "reg" /\ Reg!Step(t))

MCSpec == MCInit /\ [][MCNext]_all /\ MCFairness

-----------------------------------------------------------------------------
\* Every frame goes out or is dropped for a reason, its buffers are freed, and the worker rests;
\* every sequence of register accesses ends, whatever fails on its way.
FramesEnd == []<>(/\ which = "live" => AllSent
                  /\ which = "buf" => Buf!AllEnded
                  /\ which = "reg" => Reg!Returned)
=============================================================================
