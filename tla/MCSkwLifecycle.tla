---------------------------- MODULE MCSkwLifecycle ----------------------------
(* The life of the driver for TLC (SkwLifecycle).  A behaviour is a        *)
(* behaviour of one of its components, under one load.                     *)
EXTENDS SkwLifecycle

Load(a, d, g, c, l, x, f, r) == [adds |-> a, dels |-> d, changes |-> g, conns |-> c,
                                 leaves |-> l, crashes |-> x, faults |-> f, remove |-> r]

\* A connection and an access point over two crashes; interfaces that come, go and change
\* during a recovery; the removal during one.
LifeLoads == {Load(1, 0, 0, 3, 0, 2, 1, 0), Load(1, 1, 0, 1, 1, 2, 1, 0),
            Load(0, 0, 1, 3, 1, 2, 1, 0), Load(1, 0, 1, 2, 0, 1, 1, 1)}

UpLoad(f, t, w, d) == [fails |-> f, turns |-> t, wturns |-> w, opens |-> 0, dma |-> d]
\* two failures in one load of each module for every transfer mode; two loads with one failure;
\* a port that a user keeps open
BringupLoads == {UpLoad(2, 1, 1, d) : d \in {"sync_adma", "sync_sdma", "async_adma", "async_sdma"}}
           \cup {UpLoad(1, 2, 2, "sync_adma"), [UpLoad(1, 1, 1, "sync_adma") EXCEPT !.opens = 1]}

Ka(i, en, given) == [op |-> "ka", i |-> i, en |-> en, has |-> IF given THEN {"period", "flags", "pkt"} ELSE {"period", "pkt"}, good |-> TRUE]
Bad == [op |-> "ka", i |-> 1, en |-> TRUE, has |-> {}, good |-> FALSE]
Rule(i, kind, good) == [op |-> "rule", i |-> i, kind |-> kind, good |-> good]
Enable(white) == [op |-> "enable", white |-> white]
Wakeup(on) == [op |-> "wakeup", on |-> on]
Do(o) == [op |-> o]
NoMask == <<FALSE>>
WakeLoad(bsp, ops, sleeps, fails, mask) == [bsp |-> bsp, user |-> ops, sleeps |-> sleeps, fails |-> fails, mask |-> mask]
Sleeps == <<{"magic"}, {"disconnect"}>>
SleepLoads ==
    {WakeLoad(b, <<Ka(1, TRUE, TRUE), Ka(2, TRUE, TRUE), Ka(3, TRUE, TRUE), Ka(2, FALSE, FALSE), Ka(4, TRUE, g), Bad, Ka(1, TRUE, TRUE)>>,
        <<{"off"}, {"magic"}>>, n, NoMask) : b \in BOOLEAN, g \in BOOLEAN, n \in 0 .. 2}
    \cup {WakeLoad(b, <<Rule(1, "diff", TRUE), Rule(1, k, g), Enable(w), Rule(2, "same", TRUE), Rule(3, "same", TRUE), Enable(TRUE), Ka(1, TRUE, TRUE)>>,
        <<{"off"}>>, n, NoMask) : b \in BOOLEAN, g \in BOOLEAN, k \in {"same", "diff"}, w \in BOOLEAN, n \in 0 .. 2}
    \cup {WakeLoad(b, <<Ka(2, TRUE, TRUE), Enable(TRUE), Rule(1, "same", TRUE), Enable(TRUE), Do("disable"), Enable(FALSE), Rule(2, "diff", TRUE), Enable(FALSE), Wakeup(FALSE)>>,
        <<>>, n, NoMask) : b \in BOOLEAN, n \in 0 .. 2}
    \cup {WakeLoad(FALSE, <<Wakeup(TRUE), Wakeup(FALSE)>>, <<{"magic", "nd"}>>, 1, m) : m \in [1 .. 7 -> BOOLEAN]}
    \cup {WakeLoad(b, <<Do("sched"), Do("up"), Do("up"), Do("up"), Do("down")>>, s, n, NoMask) :
        b \in BOOLEAN, s \in {Sleeps, <<{"magic", "nd"}, {"off"}>>, <<{"magic"}, {"magic"}, {"off"}>>}, n \in 0 .. 2}

VARIABLE which  \* the component that runs in this behaviour; the others stay as they begin

all == <<which, vars, upVars, timersVars, logVars, wakeVars>>

\* a component that does not run is in one of its initial states, always the same one
MCInit ==
    /\ which \in {"life", "up", "timers", "log", "wake"}
    /\ Init
    /\ Up!Init
    /\ Timers!Init
    /\ Log!Init
    /\ Wake!Init
    /\ (which # "life" => left = CHOOSE l \in LifeLoads : TRUE)
    /\ (which # "up" => load = CHOOSE l \in UpLoads : TRUE)
    /\ (which # "wake" => w_load = CHOOSE l \in WakeLoads : TRUE)

MCNext ==
    /\ UNCHANGED which
    /\ \/ which = "life" /\ Next /\ UNCHANGED <<upVars, timersVars, logVars, wakeVars>>
       \/ which = "up" /\ Up!Next /\ UNCHANGED <<vars, timersVars, logVars, wakeVars>>
       \/ which = "timers" /\ Timers!Next /\ UNCHANGED <<vars, upVars, logVars, wakeVars>>
       \/ which = "log" /\ Log!Next /\ UNCHANGED <<vars, upVars, timersVars, wakeVars>>
       \/ which = "wake" /\ Wake!Next /\ UNCHANGED <<vars, upVars, timersVars, logVars>>

\* each component's own fairness, for the behaviours in which it runs
MCFairness ==
    /\ WF_vars(which = "life" /\ UserStep)
    /\ WF_vars(which = "life" /\ Notifier)
    /\ WF_vars(which = "life" /\ Recovery)
    /\ WF_vars(which = "life" /\ Removal)
    /\ WF_timersVars(which = "timers" /\ Timers!TimerWork)
    /\ WF_timersVars(which = "timers" /\ Timers!Tick)
    /\ WF_logVars(which = "log" /\ Log!Work)
    /\ WF_logVars(which = "log" /\ Log!LogExitEnd)
    /\ WF_wakeVars(which = "wake" /\ Wake!Worker)
    /\ WF_wakeVars(which = "wake" /\ pm.pc # "awake" /\ Wake!PmStep)

MCSpec == MCInit /\ [][MCNext]_all /\ MCFairness

-----------------------------------------------------------------------------
\* Crashes are healed and removals end; timers fire; the recorder's exit returns; the driver
\* transmits again after a sleep.
LifeMoves == []<>(/\ which = "life" => Known /\ (rm \in {"no", "gone"} \/ Stuck)
                  /\ which = "timers" => Timers!AllGone
                  /\ which = "log" => Log!Ended
                  /\ which = "wake" => Wake!Transmits)
=============================================================================
