---------------------------- MODULE MCSkwCmd ----------------------------
(* The command channel for TLC: blocking senders with a firmware that may  *)
(* crash (SkwCmd itself), and a sender that uses skw_msg_try_send beside   *)
(* them (Try).                                                             *)
EXTENDS SkwCmd

CONSTANTS c1, c2, t1, id1

VARIABLES
    which,  \* the component that runs in this behaviour; the others stay as they begin
    t_sem, t_waitq, t_pc, t_cmd, t_result, t_skwFlags, t_timer, t_works, t_txPc, t_fw, t_wire,
    t_acks, t_rx, t_nCmds, t_nCrashes, t_hit

Try == INSTANCE SkwCmd WITH
    Callers <- {c1, c2}, Suspenders <- {c2}, TrySenders <- {t1}, Ids <- {id1},
    FwModes <- {"FW_MAC_RECOVERY"}, MaxCmds <- 2, MaxCrashes <- 0, sem <- t_sem, waitq <- t_waitq,
    pc <- t_pc, cmd <- t_cmd, result <- t_result, skwFlags <- t_skwFlags, timer <- t_timer,
    works <- t_works, txPc <- t_txPc, fw <- t_fw, wire <- t_wire, acks <- t_acks, rx <- t_rx,
    nCmds <- t_nCmds, nCrashes <- t_nCrashes, hit <- t_hit

tryVars ==
    <<t_sem, t_waitq, t_pc, t_cmd, t_result, t_skwFlags, t_timer, t_works, t_txPc, t_fw, t_wire,
      t_acks, t_rx, t_nCmds, t_nCrashes, t_hit>>

all == <<which, vars, tryVars>>

\* a component that does not run is in one of its initial states, always the same one
MCInit ==
    /\ which \in {"sync", "try"}
    /\ Init
    /\ Try!Init

MCNext ==
    /\ UNCHANGED which
    /\ \/ which = "sync" /\ Next /\ UNCHANGED <<tryVars>>
       \/ which = "try" /\ Try!Next /\ UNCHANGED <<vars>>

\* each component's own fairness, for the behaviours in which it runs
MCFairness ==
    /\ \A c \in {c1, c2} : WF_tryVars(which = "try" /\ Try!CallerStep(c))
    /\ WF_tryVars(which = "try" /\ Try!TryStep(t1))
    /\ WF_tryVars(which = "try" /\ Try!TimerStep)
    /\ WF_tryVars(which = "try" /\ Try!WorkUnlock)

MCSpec == MCInit /\ [][MCNext]_all /\ MCFairness

-----------------------------------------------------------------------------
\* Every blocking call of skw_msg_xmit_timeout returns, with a try-lock sender beside it
\* (that the permit is not lost then is proved in SkwCmdProofs).
CallsReturn == which = "try" => Try!EveryCallReturns
=============================================================================
