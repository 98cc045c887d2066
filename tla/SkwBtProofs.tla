---------------------------- MODULE SkwBtProofs ----------------------------
(***************************************************************************)
(* Theorems about Bluetooth: the HCI driver (SkwBt), for every chip, every *)
(* size of the NV file and every load, and the log device beside it        *)
(* (SkwBtLog), for every number of readers and every length of its queue.  *)
(***************************************************************************)
EXTENDS SkwBluetooth, SequenceTheorems, TLAPS

Frames == [n : Nat \ {0}, c : Int]
Worker == [pc : {"idle", "run", "tx", "back"}, q : Queues, skb : Frames \cup {NoFrame}]
Hist == [gaveup : BOOLEAN, nostart : BOOLEAN, stray : BOOLEAN, silent : BOOLEAN]
Bounds == [opens : Nat, frames : Nat, crashes : Nat, timeouts : Nat, faults : Nat, strays : Nat,
           removes : Nat]

\* The sets the variables stay in.
DriverTypes ==
  /\ chip \in Chips /\ chip_version \in {"page", "tagged"}
  /\ cmd_reject \in BOOLEAN /\ is_init_mode \in BOOLEAN /\ evt_recv \in Nat
  /\ close_sync \in {"default", "remove", "close"}
  /\ bt_is_open \in BOOLEAN /\ plt_notifier_set \in BOOLEAN /\ skw_data \in BOOLEAN
  /\ ports \in BOOLEAN

QueueTypes ==
  /\ q \in [Queues -> Seq(Frames)] /\ pending \in BOOLEAN
  /\ work \in Worker /\ (work.pc \in {"tx", "back"} <=> work.skb # NoFrame)
  /\ next \in Nat \ {0} /\ last \in [Queues -> Nat] /\ purged \in Nat /\ held \in SUBSET Nat

ActorTypes ==
  /\ host \in {"idle", "reject", "ports", "service", "send", "wait", "undo", "flush", "closewait", "close"}
  /\ step \in 0 .. NvBlocks + Extras /\ up \in BOOLEAN
  /\ rm \in {"no", "wait", "tear", "flush", "unregister", "gone"}
  /\ flush \in [Actors -> {"no", "call", "wait", "done"}]
  /\ nt \in {"no", "flush"} /\ news \in Seq({"assert", "ready"})
  /\ fw \in [run : BOOLEAN, service : BOOLEAN] /\ evts \in Seq(Int) /\ told \in BOOLEAN
  /\ hist \in Hist /\ left \in Bounds

Types == DriverTypes /\ QueueTypes /\ ActorTypes

LEMMA SpendKeeps == 
  ASSUME left \in Bounds, NEW f \in {"opens", "frames", "crashes", "timeouts", "faults", "strays", "removes"}, Spend(f)
  PROVE left' \in Bounds
  BY DEF Bounds, Spend

LEMMA InitTypes == Init => Types
<1> SUFFICES ASSUME Init PROVE Types
  OBVIOUS
<1>1. DriverTypes
  BY DEF Init, DriverTypes
<1>2. QueueTypes
  <2>1. q \in [Queues -> Seq(Frames)] /\ last \in [Queues -> Nat]
    BY DEF Init
  <2>2. work \in Worker /\ work.pc = "idle" /\ work.skb = NoFrame
    BY DEF Init, Worker, Queues
  <2>3. next = 1 /\ purged = 0 /\ held = {} /\ pending = FALSE
    BY DEF Init
  <2>. QED
    <3>1. work.pc \in {"tx", "back"} <=> work.skb # NoFrame
      BY <2>2
    <3>2. held \in SUBSET Nat
      BY <2>3
    <3>3. next \in Nat \ {0} /\ purged \in Nat
      BY <2>3
    <3>4. pending \in BOOLEAN
      BY <2>3
    <3>. QED
      BY <2>1, <2>2, <3>1, <3>2, <3>3, <3>4 DEF QueueTypes
<1>3. ActorTypes
  <2>1. left \in Bounds
    BY BtAssumption DEF Init, Bounds
  <2>2. hist \in Hist
    BY DEF Init, Past, Hist
  <2>3. 0 \in 0 .. NvBlocks + Extras
    BY BtAssumption
  <2>4. flush \in [Actors -> {"no", "call", "wait", "done"}]
    BY DEF Init
  <2>5. fw \in [run : BOOLEAN, service : BOOLEAN] /\ news \in Seq({"assert", "ready"}) /\ evts \in Seq(Int)
    BY DEF Init
  <2>. QED
    BY <2>1, <2>2, <2>3, <2>4, <2>5 DEF Init, ActorTypes
<1>. QED
  BY <1>1, <1>2, <1>3 DEF Types

LEMMA FrameApart == NoFrame \notin Frames
  BY DEF NoFrame, Frames

LEMMA WorkerPc ==
  ASSUME work \in Worker, NEW p \in {"idle", "run", "tx", "back"}, work' = [work EXCEPT !.pc = p]
  PROVE work' \in Worker /\ work'.skb = work.skb /\ work'.q = work.q /\ work'.pc = p
  BY DEF Worker

LEMMA WorkerQ ==
  ASSUME work \in Worker, NEW x \in Queues, work' = [work EXCEPT !.q = x]
  PROVE work' \in Worker /\ work'.skb = work.skb /\ work'.q = x /\ work'.pc = work.pc
  BY DEF Worker

LEMMA WorkerSkb ==
  ASSUME work \in Worker, NEW p \in {"idle", "run", "tx", "back"}, NEW s \in Frames \cup {NoFrame},
         work' = [work EXCEPT !.pc = p, !.skb = s]
  PROVE work' \in Worker /\ work'.skb = s /\ work'.q = work.q /\ work'.pc = p
  BY DEF Worker

LEMMA NvFacts == BtAssumption => NvBlocks \in Nat \ {0} /\ Extras \in Nat /\ 0 \in 0 .. NvBlocks + Extras
  BY DEF BtAssumption

LEMMA HistMoves ==
  ASSUME hist \in Hist, NEW b \in BOOLEAN
  PROVE /\ [hist EXCEPT !.gaveup = b] \in Hist /\ [hist EXCEPT !.nostart = b] \in Hist
        /\ [hist EXCEPT !.stray = b] \in Hist /\ [hist EXCEPT !.silent = b] \in Hist
  BY DEF Hist

LEMMA QWorkTake == ASSUME Types, WorkTake PROVE QueueTypes'
<1>1. work.q \in Queues /\ work \in Worker
  BY DEF Types, QueueTypes, Worker
<1>2. CASE q[work.q] # <<>>
  <2>1. q[work.q] \in Seq(Frames)
    BY <1>1 DEF Types, QueueTypes
  <2>2. Head(q[work.q]) \in Frames /\ Tail(q[work.q]) \in Seq(Frames)
    BY <1>2, <2>1
  <2>3. work' = [work EXCEPT !.pc = "tx", !.skb = Head(q[work.q])] /\ q' = [q EXCEPT ![work.q] = Tail(@)]
    BY <1>2 DEF WorkTake
  <2>4. work' \in Worker /\ work'.skb # NoFrame /\ work'.pc = "tx"
    BY <1>1, <2>2, <2>3, WorkerSkb, FrameApart
  <2>5. q' \in [Queues -> Seq(Frames)]
    BY <1>1, <2>2, <2>3 DEF Types, QueueTypes
  <2>. QED
    BY <2>4, <2>5 DEF WorkTake, workKeeps, Types, QueueTypes
<1>3. CASE q[work.q] = <<>>
  <2>1. work' \in {[work EXCEPT !.q = "data"], [work EXCEPT !.q = "audio"], [work EXCEPT !.pc = "idle"]} /\ q' = q
    BY <1>1, <1>3 DEF WorkTake, Queues
  <2>2. work' \in Worker /\ work'.skb = work.skb /\ work'.pc \in {"idle", "run"}
    <3>1. CASE work' = [work EXCEPT !.q = "data"]
      BY <1>1, <3>1, WorkerQ DEF Queues, WorkTake
    <3>2. CASE work' = [work EXCEPT !.q = "audio"]
      BY <1>1, <3>2, WorkerQ DEF Queues, WorkTake
    <3>3. CASE work' = [work EXCEPT !.pc = "idle"]
      BY <1>1, <3>3, WorkerPc DEF Queues, WorkTake
    <3>. QED
      BY <2>1, <3>1, <3>2, <3>3
  <2>. QED
    BY <2>1, <2>2 DEF WorkTake, workKeeps, Types, QueueTypes
<1>. QED
  BY <1>2, <1>3

LEMMA QWorkTx == ASSUME Types, WorkTx PROVE QueueTypes'
<1>1. work \in Worker /\ work.skb \in Frames /\ work.q \in Queues /\ NoFrame \in Frames \cup {NoFrame}
  BY DEF Types, QueueTypes, WorkTx, Worker
<1>2. work.skb.n \in Nat
  BY <1>1 DEF Frames
<1>3. last' \in [Queues -> Nat]
  BY <1>1, <1>2 DEF WorkTx, Types, QueueTypes
<1>4. work' = [work EXCEPT !.pc = "run", !.skb = NoFrame] \/ work' = [work EXCEPT !.pc = "back"]
  BY DEF WorkTx
<1>5. work' \in Worker /\ (work'.pc \in {"tx", "back"} <=> work'.skb # NoFrame)
  <2>1. CASE work' = [work EXCEPT !.pc = "run", !.skb = NoFrame]
    BY <1>1, <2>1, WorkerSkb
  <2>2. CASE work' = [work EXCEPT !.pc = "back"]
    BY <1>1, <2>2, WorkerPc, FrameApart
  <2>. QED
    BY <1>4, <2>1, <2>2
<1>. QED
  BY <1>3, <1>5 DEF WorkTx, workKeeps, Types, QueueTypes

LEMMA QWorkBack == ASSUME Types, WorkBack PROVE QueueTypes'
<1>1. work \in Worker /\ work.skb \in Frames /\ work.q \in Queues /\ NoFrame \in Frames \cup {NoFrame}
  BY DEF Types, QueueTypes, WorkBack, Worker
<1>2. <<work.skb>> \o q[work.q] \in Seq(Frames)
  BY <1>1 DEF Types, QueueTypes
<1>3. q' \in [Queues -> Seq(Frames)]
  BY <1>1, <1>2 DEF WorkBack, Types, QueueTypes
<1>4. work' \in Worker /\ work'.pc = "idle" /\ work'.skb = NoFrame
  BY <1>1, WorkerSkb DEF WorkBack
<1>. QED
  BY <1>3, <1>4 DEF WorkBack, workKeeps, Types, QueueTypes

LEMMA PurgeTypes ==
  ASSUME QueueTypes, NEW a \in Actors, Purge(a)
  PROVE q' \in [Queues -> Seq(Frames)] /\ purged' \in Nat /\ held' \in SUBSET Nat
<1>1. work.skb \in Frames \cup {NoFrame}
  BY DEF QueueTypes, Worker
<1>2. work.skb.n \in Nat
  BY <1>1 DEF Frames, NoFrame
<1>3. next - 1 \in Nat
  BY DEF QueueTypes
<1>4. held' \in SUBSET Nat
  BY <1>2 DEF Purge, QueueTypes
<1>. QED
  BY <1>3, <1>4 DEF Purge

LEMMA QFlush == ASSUME Types, NEW a \in Actors, FlushCall(a) PROVE QueueTypes'
<1>1. CASE pending
  BY <1>1 DEF FlushCall, flushKeeps, Types, QueueTypes
<1>2. CASE ~pending
  BY <1>2, PurgeTypes DEF FlushCall, flushKeeps, Types, QueueTypes
<1>. QED
  BY <1>1, <1>2

LEMMA AOpenPorts == ASSUME Types, OpenPorts PROVE ActorTypes'
  BY DEF OpenPorts, Returns, Types, ActorTypes, DriverTypes, txVars, fwVars, drvVars

LEMMA AOpenService == ASSUME BtAssumption, Types, OpenService PROVE ActorTypes'
<1>1. left' \in Bounds
  BY SpendKeeps DEF OpenService, Types, ActorTypes
<1>2. hist' \in Hist
  BY HistMoves DEF OpenService, Types, ActorTypes
<1>3. step' \in 0 .. NvBlocks + Extras
  BY NvFacts DEF OpenService, Types, ActorTypes
<1>4. fw' \in [run : BOOLEAN, service : BOOLEAN]
  BY DEF OpenService, Types, ActorTypes
<1>. QED
  BY <1>1, <1>2, <1>3, <1>4 DEF OpenService, Returns, Types, ActorTypes, txVars

LEMMA CommandEndTypes ==
  ASSUME BtAssumption, Types, NEW ok \in BOOLEAN, CommandEnd(ok)
  PROVE /\ host' \in {"undo", "idle", "send"} /\ up' \in BOOLEAN /\ step' \in 0 .. NvBlocks + Extras
        /\ hist' \in Hist
<1>1. hist' \in Hist
  BY HistMoves DEF CommandEnd, Opened, Types, ActorTypes
<1>2. step' \in 0 .. NvBlocks + Extras
  <2>1. step \in 0 .. NvBlocks + Extras
    BY DEF Types, ActorTypes
  <2>2. step' = step \/ (step' = NvBlocks + 1 /\ ~(NvBlocks + 1 > NvBlocks + Extras))
        \/ (step' = step + 1 /\ ~(step + 1 > NvBlocks + Extras))
    BY DEF CommandEnd, Opened
  <2>. QED
    BY NvFacts, <2>1, <2>2
<1>. QED
  BY <1>1, <1>2 DEF CommandEnd, Opened, Returns, Types, ActorTypes

LEMMA ACommandAnswered == ASSUME BtAssumption, Types, CommandAnswered PROVE ActorTypes'
  BY CommandEndTypes DEF CommandAnswered, commandKeeps, Types, ActorTypes, fwVars, txVars

LEMMA DiesTypes == ASSUME ActorTypes, Dies
  PROVE news' \in Seq({"assert", "ready"}) /\ fw' \in [run : BOOLEAN, service : BOOLEAN] /\ evts' \in Seq(Int)
  BY DEF Dies, ActorTypes

LEMMA ACommandTimeout == ASSUME BtAssumption, Types, CommandTimeout PROVE ActorTypes'
<1>1. left' \in Bounds
  BY SpendKeeps DEF CommandTimeout, Types, ActorTypes
<1>2. news' \in Seq({"assert", "ready"}) /\ fw' \in [run : BOOLEAN, service : BOOLEAN] /\ evts' \in Seq(Int)
  BY DiesTypes DEF CommandTimeout, Types, ActorTypes, fwVars
<1>3. CommandEnd(FALSE)
  BY DEF CommandTimeout
<1>. QED
  BY <1>1, <1>2, <1>3, CommandEndTypes DEF CommandTimeout, commandKeeps, Types, ActorTypes, txVars

LEMMA AWorkTx == ASSUME Types, WorkTx PROVE ActorTypes'
<1>1. left' \in Bounds
  BY SpendKeeps DEF WorkTx, Types, ActorTypes
<1>2. work.skb \in Frames \cup {NoFrame}
  BY DEF Types, QueueTypes, Worker
<1>3. work.skb.c \in Int
  BY <1>2 DEF Frames, NoFrame
<1>4. evts' \in Seq(Int)
  <2>1. evts' = evts \/ evts' = Append(evts, work.skb.c)
    BY DEF WorkTx
  <2>. QED
    <3>1. evts \in Seq(Int)
      BY DEF Types, ActorTypes
    <3>. QED
      BY <1>3, <2>1, <3>1
<1>. QED
  BY <1>1, <1>4 DEF WorkTx, workKeeps, hostVars, Types, ActorTypes

LEMMA ARxEvent == ASSUME Types, RxEvent PROVE ActorTypes'
<1>1. hist' \in Hist
  <2>1. hist' = hist \/ \E b \in BOOLEAN : hist' = [hist EXCEPT !.stray = b]
    BY DEF RxEvent, Types, ActorTypes, Hist
  <2>. QED
    BY <2>1, HistMoves DEF Types, ActorTypes
<1>2. evts' \in Seq(Int)
  BY DEF RxEvent, Types, ActorTypes
<1>. QED
  BY <1>1, <1>2 DEF RxEvent, hostVars, Types, ActorTypes, txVars

LEMMA ANotifyAssert == ASSUME Types, NotifyAssert PROVE ActorTypes'
<1>1. hist' \in Hist
  <2>1. \E b \in BOOLEAN : hist' = [hist EXCEPT !.silent = b]
    BY DEF NotifyAssert, Types, ActorTypes, Hist, Listens
  <2>. QED
    BY <2>1, HistMoves DEF Types, ActorTypes
<1>2. fw' \in [run : BOOLEAN, service : BOOLEAN]
  BY DEF NotifyAssert, Types, ActorTypes, DriverTypes, Listens
<1>3. news' \in Seq({"assert", "ready"})
  BY DEF NotifyAssert, Types, ActorTypes
<1>. QED
  BY <1>1, <1>2, <1>3 DEF NotifyAssert, notifyKeeps, hostVars, Types, ActorTypes, txVars

LEMMA AFwCrash == ASSUME Types, FwCrash PROVE ActorTypes'
<1>1. hist' \in Hist
  <2>1. \E b \in BOOLEAN : hist' = [hist EXCEPT !.silent = b]
    BY DEF FwCrash, Types, ActorTypes, Hist
  <2>. QED
    BY <2>1, HistMoves DEF Types, ActorTypes
<1>2. news' \in Seq({"assert", "ready"}) /\ fw' \in [run : BOOLEAN, service : BOOLEAN] /\ evts' \in Seq(Int)
  BY DiesTypes DEF FwCrash, Types, ActorTypes
<1>3. left' \in Bounds
  BY SpendKeeps DEF FwCrash, Types, ActorTypes
<1>. QED
  BY <1>1, <1>2, <1>3 DEF FwCrash, fwKeeps, hostVars, Types, ActorTypes, txVars

LEMMA DriverTypesStep == ASSUME BtAssumption, Types, [Next]_vars PROVE DriverTypes'
<1>1. ASSUME OpenCall PROVE DriverTypes'
  BY <1>1 DEF OpenCall, Types, DriverTypes, ActorTypes, drvVars, devVars, txVars, hostVars, fwVars
<1>2. ASSUME OpenWaited PROVE DriverTypes'
  BY <1>2 DEF OpenWaited, Types, DriverTypes, ActorTypes, drvVars, devVars, txVars, hostVars, fwVars
<1>3. ASSUME OpenGaveUp PROVE DriverTypes'
  BY <1>3 DEF OpenGaveUp, Returns, Types, DriverTypes, ActorTypes, drvVars, devVars, txVars, hostVars,
     fwVars
<1>4. ASSUME OpenPorts PROVE DriverTypes'
  BY <1>4 DEF OpenPorts, Returns, Types, DriverTypes, ActorTypes, drvVars, devVars, txVars, hostVars,
     fwVars
<1>5. ASSUME OpenService PROVE DriverTypes'
  BY <1>5 DEF OpenService, Returns, Types, DriverTypes, ActorTypes, drvVars, devVars, txVars, hostVars,
     fwVars
<1>6. ASSUME SendCommand PROVE DriverTypes'
  BY <1>6 DEF SendCommand, Queue, Types, DriverTypes, ActorTypes, drvVars, devVars, txVars, hostVars,
     fwVars
<1>7. ASSUME CommandAnswered PROVE DriverTypes'
  BY <1>7 DEF CommandAnswered, CommandEnd, AfterCommand, Opened, Returns, commandKeeps, Types,
     DriverTypes, ActorTypes, drvVars, devVars, txVars, hostVars, fwVars
<1>8. ASSUME NvMissing PROVE DriverTypes'
  BY <1>8 DEF NvMissing, commandKeeps, Types, DriverTypes, ActorTypes, drvVars, devVars, txVars,
     hostVars, fwVars
<1>9. ASSUME CommandTimeout PROVE DriverTypes'
  BY <1>9 DEF CommandTimeout, CommandEnd, AfterCommand, Opened, Returns, Dies, commandKeeps, Types,
     DriverTypes, ActorTypes, drvVars, devVars, txVars, hostVars, fwVars
<1>10. ASSUME OpenUndo PROVE DriverTypes'
  BY <1>10 DEF OpenUndo, PortClose, Returns, closeKeeps, Types, DriverTypes, ActorTypes, drvVars,
     devVars, txVars, hostVars, fwVars
<1>11. ASSUME CloseCall PROVE DriverTypes'
  BY <1>11 DEF CloseCall, Types, DriverTypes, ActorTypes, drvVars, devVars, txVars, hostVars, fwVars
<1>12. ASSUME CloseFlushed PROVE DriverTypes'
  BY <1>12 DEF CloseFlushed, Types, DriverTypes, ActorTypes, drvVars, devVars, txVars, hostVars, fwVars
<1>13. ASSUME CloseWaited PROVE DriverTypes'
  BY <1>13 DEF CloseWaited, Types, DriverTypes, ActorTypes, drvVars, devVars, txVars, hostVars, fwVars
<1>14. ASSUME Close PROVE DriverTypes'
  BY <1>14 DEF Close, PortClose, Returns, closeKeeps, Types, DriverTypes, ActorTypes, drvVars, devVars,
     txVars, hostVars, fwVars
<1>15. ASSUME SendFrame PROVE DriverTypes'
  BY <1>15 DEF SendFrame, Queue, Types, DriverTypes, ActorTypes, drvVars, devVars, txVars, hostVars,
     fwVars
<1>16. ASSUME WakeupEnable PROVE DriverTypes'
  BY <1>16 DEF WakeupEnable, Queue, Types, DriverTypes, ActorTypes, drvVars, devVars, txVars, hostVars,
     fwVars
<1>17. ASSUME WorkStart PROVE DriverTypes'
  BY <1>17 DEF WorkStart, workKeeps, Types, DriverTypes, ActorTypes, drvVars, devVars, txVars, hostVars,
     fwVars
<1>18. ASSUME WorkTake PROVE DriverTypes'
  BY <1>18 DEF WorkTake, workKeeps, Types, DriverTypes, ActorTypes, drvVars, devVars, txVars, hostVars,
     fwVars
<1>19. ASSUME WorkTx PROVE DriverTypes'
  BY <1>19 DEF WorkTx, workKeeps, Types, DriverTypes, ActorTypes, drvVars, devVars, txVars, hostVars,
     fwVars
<1>20. ASSUME WorkBack PROVE DriverTypes'
  BY <1>20 DEF WorkBack, workKeeps, Types, DriverTypes, ActorTypes, drvVars, devVars, txVars, hostVars,
     fwVars
<1>21. ASSUME NEW a \in Actors, FlushCall(a) PROVE DriverTypes'
  BY <1>21 DEF FlushCall, Purge, flushKeeps, Types, DriverTypes, ActorTypes, drvVars, devVars, txVars,
     hostVars, fwVars
<1>22. ASSUME NEW a \in Actors, FlushWait(a) PROVE DriverTypes'
  BY <1>22 DEF FlushWait, Purge, flushKeeps, Types, DriverTypes, ActorTypes, drvVars, devVars, txVars,
     hostVars, fwVars
<1>23. ASSUME RemoveCall PROVE DriverTypes'
  BY <1>23 DEF RemoveCall, rmKeeps, Types, DriverTypes, ActorTypes, drvVars, devVars, txVars, hostVars,
     fwVars
<1>24. ASSUME RemoveWaited PROVE DriverTypes'
  BY <1>24 DEF RemoveWaited, rmKeeps, Types, DriverTypes, ActorTypes, drvVars, devVars, txVars,
     hostVars, fwVars
<1>25. ASSUME RemoveTear PROVE DriverTypes'
  BY <1>25 DEF RemoveTear, rmKeeps, Types, DriverTypes, ActorTypes, drvVars, devVars, txVars, hostVars,
     fwVars
<1>26. ASSUME RemoveFlushed PROVE DriverTypes'
  BY <1>26 DEF RemoveFlushed, rmKeeps, Types, DriverTypes, ActorTypes, drvVars, devVars, txVars,
     hostVars, fwVars
<1>27. ASSUME RemoveEnd PROVE DriverTypes'
  BY <1>27 DEF RemoveEnd, rmKeeps, Types, DriverTypes, ActorTypes, drvVars, devVars, txVars, hostVars,
     fwVars
<1>28. ASSUME Probe PROVE DriverTypes'
  BY <1>28 DEF Probe, rmKeeps, Types, DriverTypes, ActorTypes, drvVars, devVars, txVars, hostVars,
     fwVars
<1>29. ASSUME RxEvent PROVE DriverTypes'
  BY <1>29 DEF RxEvent, Types, DriverTypes, ActorTypes, drvVars, devVars, txVars, hostVars, fwVars
<1>30. ASSUME NotifyAssert PROVE DriverTypes'
  BY <1>30 DEF NotifyAssert, notifyKeeps, Listens, Types, DriverTypes, ActorTypes, drvVars, devVars,
     txVars, hostVars, fwVars
<1>31. ASSUME NotifyReady PROVE DriverTypes'
  BY <1>31 DEF NotifyReady, notifyKeeps, Listens, Types, DriverTypes, ActorTypes, drvVars, devVars,
     txVars, hostVars, fwVars
<1>32. ASSUME NotifyFlushed PROVE DriverTypes'
  BY <1>32 DEF NotifyFlushed, notifyKeeps, Types, DriverTypes, ActorTypes, drvVars, devVars, txVars,
     hostVars, fwVars
<1>33. ASSUME FwCrash PROVE DriverTypes'
  BY <1>33 DEF FwCrash, Dies, fwKeeps, Types, DriverTypes, ActorTypes, drvVars, devVars, txVars,
     hostVars, fwVars
<1>34. ASSUME FwRestart PROVE DriverTypes'
  BY <1>34 DEF FwRestart, fwKeeps, Types, DriverTypes, ActorTypes, drvVars, devVars, txVars, hostVars,
     fwVars
<1>35. ASSUME FwStray PROVE DriverTypes'
  BY <1>35 DEF FwStray, fwKeeps, Stray, Types, DriverTypes, ActorTypes, drvVars, devVars, txVars,
     hostVars, fwVars
<1>36. ASSUME UNCHANGED vars PROVE DriverTypes'
  BY <1>36 DEF vars, Types, DriverTypes, ActorTypes, drvVars, devVars, txVars, hostVars, fwVars
<1>. QED
  BY <1>1, <1>2, <1>3, <1>4, <1>5, <1>6, <1>7, <1>8, <1>9, <1>10, <1>11, <1>12, <1>13, <1>14, <1>15,
     <1>16, <1>17, <1>18, <1>19, <1>20, <1>21, <1>22, <1>23, <1>24, <1>25, <1>26, <1>27, <1>28, <1>29,
     <1>30, <1>31, <1>32, <1>33, <1>34, <1>35, <1>36 DEF Next, Host, Work, Flush, Remover, Rx

LEMMA QueueTypesStep == ASSUME Types, [Next]_vars PROVE QueueTypes'
<1>1. ASSUME OpenCall PROVE QueueTypes'
  BY <1>1 DEF OpenCall, Types, QueueTypes, Worker, Frames, NoFrame, Queues, ActorTypes, drvVars,
     devVars, txVars, hostVars, fwVars
<1>2. ASSUME OpenWaited PROVE QueueTypes'
  BY <1>2 DEF OpenWaited, Types, QueueTypes, Worker, Frames, NoFrame, Queues, ActorTypes, drvVars,
     devVars, txVars, hostVars, fwVars
<1>3. ASSUME OpenGaveUp PROVE QueueTypes'
  BY <1>3 DEF OpenGaveUp, Returns, Types, QueueTypes, Worker, Frames, NoFrame, Queues, ActorTypes,
     drvVars, devVars, txVars, hostVars, fwVars
<1>4. ASSUME OpenPorts PROVE QueueTypes'
  BY <1>4 DEF OpenPorts, Returns, Types, QueueTypes, Worker, Frames, NoFrame, Queues, ActorTypes,
     drvVars, devVars, txVars, hostVars, fwVars
<1>5. ASSUME OpenService PROVE QueueTypes'
  BY <1>5 DEF OpenService, Returns, Types, QueueTypes, Worker, Frames, NoFrame, Queues, ActorTypes,
     drvVars, devVars, txVars, hostVars, fwVars
<1>6. ASSUME SendCommand PROVE QueueTypes'
  BY <1>6 DEF SendCommand, Queue, Types, QueueTypes, Worker, Frames, NoFrame, Queues, ActorTypes,
     drvVars, devVars, txVars, hostVars, fwVars
<1>7. ASSUME CommandAnswered PROVE QueueTypes'
  BY <1>7 DEF CommandAnswered, CommandEnd, AfterCommand, Opened, Returns, commandKeeps, Types,
     QueueTypes, Worker, Frames, NoFrame, Queues, ActorTypes, drvVars, devVars, txVars, hostVars, fwVars
<1>8. ASSUME NvMissing PROVE QueueTypes'
  BY <1>8 DEF NvMissing, commandKeeps, Types, QueueTypes, Worker, Frames, NoFrame, Queues, ActorTypes,
     drvVars, devVars, txVars, hostVars, fwVars
<1>9. ASSUME CommandTimeout PROVE QueueTypes'
  BY <1>9 DEF CommandTimeout, CommandEnd, AfterCommand, Opened, Returns, Dies, commandKeeps, Types,
     QueueTypes, Worker, Frames, NoFrame, Queues, ActorTypes, drvVars, devVars, txVars, hostVars, fwVars
<1>10. ASSUME OpenUndo PROVE QueueTypes'
  BY <1>10 DEF OpenUndo, PortClose, Returns, closeKeeps, Types, QueueTypes, Worker, Frames, NoFrame,
     Queues, ActorTypes, drvVars, devVars, txVars, hostVars, fwVars
<1>11. ASSUME CloseCall PROVE QueueTypes'
  BY <1>11 DEF CloseCall, Types, QueueTypes, Worker, Frames, NoFrame, Queues, ActorTypes, drvVars,
     devVars, txVars, hostVars, fwVars
<1>12. ASSUME CloseFlushed PROVE QueueTypes'
  BY <1>12 DEF CloseFlushed, Types, QueueTypes, Worker, Frames, NoFrame, Queues, ActorTypes, drvVars,
     devVars, txVars, hostVars, fwVars
<1>13. ASSUME CloseWaited PROVE QueueTypes'
  BY <1>13 DEF CloseWaited, Types, QueueTypes, Worker, Frames, NoFrame, Queues, ActorTypes, drvVars,
     devVars, txVars, hostVars, fwVars
<1>14. ASSUME Close PROVE QueueTypes'
  BY <1>14 DEF Close, PortClose, Returns, closeKeeps, Types, QueueTypes, Worker, Frames, NoFrame,
     Queues, ActorTypes, drvVars, devVars, txVars, hostVars, fwVars
<1>15. ASSUME SendFrame PROVE QueueTypes'
  BY <1>15 DEF SendFrame, Queue, Types, QueueTypes, Worker, Frames, NoFrame, Queues, ActorTypes,
     drvVars, devVars, txVars, hostVars, fwVars
<1>16. ASSUME WakeupEnable PROVE QueueTypes'
  BY <1>16 DEF WakeupEnable, Queue, Types, QueueTypes, Worker, Frames, NoFrame, Queues, ActorTypes,
     drvVars, devVars, txVars, hostVars, fwVars
<1>17. ASSUME WorkStart PROVE QueueTypes'
  BY <1>17 DEF WorkStart, workKeeps, Types, QueueTypes, Worker, Frames, NoFrame, Queues, ActorTypes,
     drvVars, devVars, txVars, hostVars, fwVars
<1>18. ASSUME WorkTake PROVE QueueTypes'
  BY <1>18, QWorkTake
<1>19. ASSUME WorkTx PROVE QueueTypes'
  BY <1>19, QWorkTx
<1>20. ASSUME WorkBack PROVE QueueTypes'
  BY <1>20, QWorkBack
<1>21. ASSUME NEW a \in Actors, FlushCall(a) PROVE QueueTypes'
  BY <1>21, QFlush
<1>22. ASSUME NEW a \in Actors, FlushWait(a) PROVE QueueTypes'
  BY <1>22 DEF FlushWait, Purge, flushKeeps, Types, QueueTypes, Worker, Frames, NoFrame, Queues,
     ActorTypes, drvVars, devVars, txVars, hostVars, fwVars
<1>23. ASSUME RemoveCall PROVE QueueTypes'
  BY <1>23 DEF RemoveCall, rmKeeps, Types, QueueTypes, Worker, Frames, NoFrame, Queues, ActorTypes,
     drvVars, devVars, txVars, hostVars, fwVars
<1>24. ASSUME RemoveWaited PROVE QueueTypes'
  BY <1>24 DEF RemoveWaited, rmKeeps, Types, QueueTypes, Worker, Frames, NoFrame, Queues, ActorTypes,
     drvVars, devVars, txVars, hostVars, fwVars
<1>25. ASSUME RemoveTear PROVE QueueTypes'
  BY <1>25 DEF RemoveTear, rmKeeps, Types, QueueTypes, Worker, Frames, NoFrame, Queues, ActorTypes,
     drvVars, devVars, txVars, hostVars, fwVars
<1>26. ASSUME RemoveFlushed PROVE QueueTypes'
  BY <1>26 DEF RemoveFlushed, rmKeeps, Types, QueueTypes, Worker, Frames, NoFrame, Queues, ActorTypes,
     drvVars, devVars, txVars, hostVars, fwVars
<1>27. ASSUME RemoveEnd PROVE QueueTypes'
  BY <1>27 DEF RemoveEnd, rmKeeps, Types, QueueTypes, Worker, Frames, NoFrame, Queues, ActorTypes,
     drvVars, devVars, txVars, hostVars, fwVars
<1>28. ASSUME Probe PROVE QueueTypes'
  BY <1>28 DEF Probe, rmKeeps, Types, QueueTypes, Worker, Frames, NoFrame, Queues, ActorTypes, drvVars,
     devVars, txVars, hostVars, fwVars
<1>29. ASSUME RxEvent PROVE QueueTypes'
  BY <1>29 DEF RxEvent, Types, QueueTypes, Worker, Frames, NoFrame, Queues, ActorTypes, drvVars,
     devVars, txVars, hostVars, fwVars
<1>30. ASSUME NotifyAssert PROVE QueueTypes'
  BY <1>30 DEF NotifyAssert, notifyKeeps, Listens, Types, QueueTypes, Worker, Frames, NoFrame, Queues,
     ActorTypes, drvVars, devVars, txVars, hostVars, fwVars
<1>31. ASSUME NotifyReady PROVE QueueTypes'
  BY <1>31 DEF NotifyReady, notifyKeeps, Listens, Types, QueueTypes, Worker, Frames, NoFrame, Queues,
     ActorTypes, drvVars, devVars, txVars, hostVars, fwVars
<1>32. ASSUME NotifyFlushed PROVE QueueTypes'
  BY <1>32 DEF NotifyFlushed, notifyKeeps, Types, QueueTypes, Worker, Frames, NoFrame, Queues,
     ActorTypes, drvVars, devVars, txVars, hostVars, fwVars
<1>33. ASSUME FwCrash PROVE QueueTypes'
  BY <1>33 DEF FwCrash, Dies, fwKeeps, Types, QueueTypes, Worker, Frames, NoFrame, Queues, ActorTypes,
     drvVars, devVars, txVars, hostVars, fwVars
<1>34. ASSUME FwRestart PROVE QueueTypes'
  BY <1>34 DEF FwRestart, fwKeeps, Types, QueueTypes, Worker, Frames, NoFrame, Queues, ActorTypes,
     drvVars, devVars, txVars, hostVars, fwVars
<1>35. ASSUME FwStray PROVE QueueTypes'
  BY <1>35 DEF FwStray, fwKeeps, Stray, Types, QueueTypes, Worker, Frames, NoFrame, Queues, ActorTypes,
     drvVars, devVars, txVars, hostVars, fwVars
<1>36. ASSUME UNCHANGED vars PROVE QueueTypes'
  BY <1>36 DEF vars, Types, QueueTypes, Worker, Frames, NoFrame, Queues, ActorTypes, drvVars, devVars,
     txVars, hostVars, fwVars
<1>. QED
  BY <1>1, <1>2, <1>3, <1>4, <1>5, <1>6, <1>7, <1>8, <1>9, <1>10, <1>11, <1>12, <1>13, <1>14, <1>15,
     <1>16, <1>17, <1>18, <1>19, <1>20, <1>21, <1>22, <1>23, <1>24, <1>25, <1>26, <1>27, <1>28, <1>29,
     <1>30, <1>31, <1>32, <1>33, <1>34, <1>35, <1>36 DEF Next, Host, Work, Flush, Remover, Rx

LEMMA ActorTypesStep == ASSUME BtAssumption, Types, [Next]_vars PROVE ActorTypes'
<1>1. ASSUME OpenCall PROVE ActorTypes'
  BY <1>1, SpendKeeps DEF OpenCall, Types, ActorTypes, Hist, Actors, Past, drvVars, devVars, txVars,
     hostVars, fwVars
<1>2. ASSUME OpenWaited PROVE ActorTypes'
  BY <1>2 DEF OpenWaited, Types, ActorTypes, Hist, Actors, Past, drvVars, devVars, txVars, hostVars,
     fwVars
<1>3. ASSUME OpenGaveUp PROVE ActorTypes'
  BY <1>3 DEF OpenGaveUp, Returns, Types, ActorTypes, Hist, Actors, Past, drvVars, devVars, txVars,
     hostVars, fwVars
<1>4. ASSUME OpenPorts PROVE ActorTypes'
  BY <1>4, AOpenPorts
<1>5. ASSUME OpenService PROVE ActorTypes'
  BY <1>5, AOpenService, BtAssumption
<1>6. ASSUME SendCommand PROVE ActorTypes'
  BY <1>6 DEF SendCommand, Queue, Types, ActorTypes, Hist, Actors, Past, drvVars, devVars, txVars,
     hostVars, fwVars
<1>7. ASSUME CommandAnswered PROVE ActorTypes'
  BY <1>7, ACommandAnswered, BtAssumption
<1>8. ASSUME NvMissing PROVE ActorTypes'
  BY <1>8, SpendKeeps DEF NvMissing, commandKeeps, Types, ActorTypes, Hist, Actors, Past, drvVars,
     devVars, txVars, hostVars, fwVars
<1>9. ASSUME CommandTimeout PROVE ActorTypes'
  BY <1>9, ACommandTimeout, BtAssumption
<1>10. ASSUME OpenUndo PROVE ActorTypes'
  BY <1>10 DEF OpenUndo, PortClose, Returns, closeKeeps, Types, ActorTypes, Hist, Actors, Past, drvVars,
     devVars, txVars, hostVars, fwVars
<1>11. ASSUME CloseCall PROVE ActorTypes'
  BY <1>11 DEF CloseCall, Types, ActorTypes, Hist, Actors, Past, drvVars, devVars, txVars, hostVars,
     fwVars
<1>12. ASSUME CloseFlushed PROVE ActorTypes'
  BY <1>12 DEF CloseFlushed, Types, ActorTypes, Hist, Actors, Past, drvVars, devVars, txVars, hostVars,
     fwVars
<1>13. ASSUME CloseWaited PROVE ActorTypes'
  BY <1>13 DEF CloseWaited, Types, ActorTypes, Hist, Actors, Past, drvVars, devVars, txVars, hostVars,
     fwVars
<1>14. ASSUME Close PROVE ActorTypes'
  BY <1>14 DEF Close, PortClose, Returns, closeKeeps, Types, ActorTypes, Hist, Actors, Past, drvVars,
     devVars, txVars, hostVars, fwVars
<1>15. ASSUME SendFrame PROVE ActorTypes'
  BY <1>15, SpendKeeps DEF SendFrame, Queue, Types, ActorTypes, Hist, Actors, Past, drvVars, devVars,
     txVars, hostVars, fwVars
<1>16. ASSUME WakeupEnable PROVE ActorTypes'
  BY <1>16, SpendKeeps DEF WakeupEnable, Queue, Types, ActorTypes, Hist, Actors, Past, drvVars, devVars,
     txVars, hostVars, fwVars
<1>17. ASSUME WorkStart PROVE ActorTypes'
  BY <1>17 DEF WorkStart, workKeeps, Types, ActorTypes, Hist, Actors, Past, drvVars, devVars, txVars,
     hostVars, fwVars
<1>18. ASSUME WorkTake PROVE ActorTypes'
  BY <1>18 DEF WorkTake, workKeeps, Types, ActorTypes, Hist, Actors, Past, drvVars, devVars, txVars,
     hostVars, fwVars
<1>19. ASSUME WorkTx PROVE ActorTypes'
  BY <1>19, AWorkTx
<1>20. ASSUME WorkBack PROVE ActorTypes'
  BY <1>20 DEF WorkBack, workKeeps, Types, ActorTypes, Hist, Actors, Past, drvVars, devVars, txVars,
     hostVars, fwVars
<1>21. ASSUME NEW a \in Actors, FlushCall(a) PROVE ActorTypes'
  BY <1>21 DEF FlushCall, Purge, flushKeeps, Types, ActorTypes, Hist, Actors, Past, drvVars, devVars,
     txVars, hostVars, fwVars
<1>22. ASSUME NEW a \in Actors, FlushWait(a) PROVE ActorTypes'
  BY <1>22 DEF FlushWait, Purge, flushKeeps, Types, ActorTypes, Hist, Actors, Past, drvVars, devVars,
     txVars, hostVars, fwVars
<1>23. ASSUME RemoveCall PROVE ActorTypes'
  BY <1>23, SpendKeeps DEF RemoveCall, rmKeeps, Types, ActorTypes, Hist, Actors, Past, drvVars, devVars,
     txVars, hostVars, fwVars
<1>24. ASSUME RemoveWaited PROVE ActorTypes'
  BY <1>24 DEF RemoveWaited, rmKeeps, Types, ActorTypes, Hist, Actors, Past, drvVars, devVars, txVars,
     hostVars, fwVars
<1>25. ASSUME RemoveTear PROVE ActorTypes'
  BY <1>25 DEF RemoveTear, rmKeeps, Types, ActorTypes, Hist, Actors, Past, drvVars, devVars, txVars,
     hostVars, fwVars
<1>26. ASSUME RemoveFlushed PROVE ActorTypes'
  BY <1>26 DEF RemoveFlushed, rmKeeps, Types, ActorTypes, Hist, Actors, Past, drvVars, devVars, txVars,
     hostVars, fwVars
<1>27. ASSUME RemoveEnd PROVE ActorTypes'
  BY <1>27 DEF RemoveEnd, rmKeeps, Types, ActorTypes, Hist, Actors, Past, drvVars, devVars, txVars,
     hostVars, fwVars
<1>28. ASSUME Probe PROVE ActorTypes'
  BY <1>28 DEF Probe, rmKeeps, Types, ActorTypes, Hist, Actors, Past, drvVars, devVars, txVars,
     hostVars, fwVars
<1>29. ASSUME RxEvent PROVE ActorTypes'
  BY <1>29, ARxEvent
<1>30. ASSUME NotifyAssert PROVE ActorTypes'
  BY <1>30, ANotifyAssert
<1>31. ASSUME NotifyReady PROVE ActorTypes'
  BY <1>31 DEF NotifyReady, notifyKeeps, Listens, Types, ActorTypes, Hist, Actors, Past, drvVars,
     devVars, txVars, hostVars, fwVars
<1>32. ASSUME NotifyFlushed PROVE ActorTypes'
  BY <1>32 DEF NotifyFlushed, notifyKeeps, Types, ActorTypes, Hist, Actors, Past, drvVars, devVars,
     txVars, hostVars, fwVars
<1>33. ASSUME FwCrash PROVE ActorTypes'
  BY <1>33, AFwCrash
<1>34. ASSUME FwRestart PROVE ActorTypes'
  BY <1>34 DEF FwRestart, fwKeeps, Types, ActorTypes, Hist, Actors, Past, drvVars, devVars, txVars,
     hostVars, fwVars
<1>35. ASSUME FwStray PROVE ActorTypes'
  BY <1>35, SpendKeeps DEF FwStray, fwKeeps, Stray, Types, ActorTypes, Hist, Actors, Past, drvVars,
     devVars, txVars, hostVars, fwVars
<1>36. ASSUME UNCHANGED vars PROVE ActorTypes'
  BY <1>36 DEF vars, Types, ActorTypes, Hist, Actors, Past, drvVars, devVars, txVars, hostVars, fwVars
<1>. QED
  BY <1>1, <1>2, <1>3, <1>4, <1>5, <1>6, <1>7, <1>8, <1>9, <1>10, <1>11, <1>12, <1>13, <1>14, <1>15,
     <1>16, <1>17, <1>18, <1>19, <1>20, <1>21, <1>22, <1>23, <1>24, <1>25, <1>26, <1>27, <1>28, <1>29,
     <1>30, <1>31, <1>32, <1>33, <1>34, <1>35, <1>36 DEF Next, Host, Work, Flush, Remover, Rx

\* Where the host's call is says whether the device is up and whether its ports are open; a device
\* that is gone has no call.
Phase ==
  /\ host \in {"reject", "ports", "service", "send", "wait", "undo"} => ~up
  /\ host \in {"flush", "closewait", "close"} => up
  /\ host \in {"service", "send", "wait", "undo"} => ports
  /\ bt_is_open => ports
  /\ rm = "gone" => host = "idle" /\ ~up

\* What UpMeansOpen says, through the calls that end it.
Working == up /\ ~hist.gaveup /\ rm \in {"no", "wait"} => ports /\ plt_notifier_set /\ bt_is_open /\ ~is_init_mode

\* What DownFreesPorts says, up to the opening of the ports.
Freed == ~up /\ host \in {"idle", "reject", "ports"} /\ ~hist.nostart => ~ports

\* Events counted since the version command was sent were its answer.
Version ==
  ~hist.stray => /\ host \in {"send", "wait"} /\ step > 0 => chip_version = chip
                 /\ host = "wait" /\ evt_recv > 0 => chip_version = chip

HostInv == Phase /\ Working /\ Freed /\ Version

LEMMA InitHost == Init => HostInv
  BY DEF Init, HostInv, Phase, Working, Freed, Version, Past

LEMMA PhaseStep == ASSUME Types, HostInv, [Next]_vars PROVE Phase'
<1>1. ASSUME OpenCall PROVE Phase'
  BY <1>1 DEF OpenCall, HostInv, Phase, Types, DriverTypes, ActorTypes, drvVars, devVars, txVars,
     hostVars, fwVars
<1>2. ASSUME OpenWaited PROVE Phase'
  BY <1>2 DEF OpenWaited, HostInv, Phase, Types, DriverTypes, ActorTypes, drvVars, devVars, txVars,
     hostVars, fwVars
<1>3. ASSUME OpenGaveUp PROVE Phase'
  BY <1>3 DEF OpenGaveUp, Returns, HostInv, Phase, Types, DriverTypes, ActorTypes, drvVars, devVars,
     txVars, hostVars, fwVars
<1>4. ASSUME OpenPorts PROVE Phase'
  BY <1>4 DEF OpenPorts, Returns, HostInv, Phase, Types, DriverTypes, ActorTypes, drvVars, devVars,
     txVars, hostVars, fwVars
<1>5. ASSUME OpenService PROVE Phase'
  BY <1>5 DEF OpenService, Returns, HostInv, Phase, Types, DriverTypes, ActorTypes, drvVars, devVars,
     txVars, hostVars, fwVars
<1>6. ASSUME SendCommand PROVE Phase'
  BY <1>6 DEF SendCommand, Queue, HostInv, Phase, Types, DriverTypes, ActorTypes, drvVars, devVars,
     txVars, hostVars, fwVars
<1>7. ASSUME CommandAnswered PROVE Phase'
  BY <1>7 DEF CommandAnswered, CommandEnd, AfterCommand, Opened, Returns, commandKeeps, HostInv, Phase,
     Types, DriverTypes, ActorTypes, drvVars, devVars, txVars, hostVars, fwVars
<1>8. ASSUME NvMissing PROVE Phase'
  BY <1>8 DEF NvMissing, commandKeeps, HostInv, Phase, Types, DriverTypes, ActorTypes, drvVars, devVars,
     txVars, hostVars, fwVars
<1>9. ASSUME CommandTimeout PROVE Phase'
  BY <1>9 DEF CommandTimeout, CommandEnd, AfterCommand, Opened, Returns, Dies, commandKeeps, HostInv,
     Phase, Types, DriverTypes, ActorTypes, drvVars, devVars, txVars, hostVars, fwVars
<1>10. ASSUME OpenUndo PROVE Phase'
  BY <1>10 DEF OpenUndo, PortClose, Returns, closeKeeps, HostInv, Phase, Types, DriverTypes, ActorTypes,
     drvVars, devVars, txVars, hostVars, fwVars
<1>11. ASSUME CloseCall PROVE Phase'
  BY <1>11 DEF CloseCall, HostInv, Phase, Types, DriverTypes, ActorTypes, drvVars, devVars, txVars,
     hostVars, fwVars
<1>12. ASSUME CloseFlushed PROVE Phase'
  BY <1>12 DEF CloseFlushed, HostInv, Phase, Types, DriverTypes, ActorTypes, drvVars, devVars, txVars,
     hostVars, fwVars
<1>13. ASSUME CloseWaited PROVE Phase'
  BY <1>13 DEF CloseWaited, HostInv, Phase, Types, DriverTypes, ActorTypes, drvVars, devVars, txVars,
     hostVars, fwVars
<1>14. ASSUME Close PROVE Phase'
  BY <1>14 DEF Close, PortClose, Returns, closeKeeps, HostInv, Phase, Types, DriverTypes, ActorTypes,
     drvVars, devVars, txVars, hostVars, fwVars
<1>15. ASSUME SendFrame PROVE Phase'
  BY <1>15 DEF SendFrame, Queue, HostInv, Phase, Types, DriverTypes, ActorTypes, drvVars, devVars,
     txVars, hostVars, fwVars
<1>16. ASSUME WakeupEnable PROVE Phase'
  BY <1>16 DEF WakeupEnable, Queue, HostInv, Phase, Types, DriverTypes, ActorTypes, drvVars, devVars,
     txVars, hostVars, fwVars
<1>17. ASSUME WorkStart PROVE Phase'
  BY <1>17 DEF WorkStart, workKeeps, HostInv, Phase, Types, DriverTypes, ActorTypes, drvVars, devVars,
     txVars, hostVars, fwVars
<1>18. ASSUME WorkTake PROVE Phase'
  BY <1>18 DEF WorkTake, workKeeps, HostInv, Phase, Types, DriverTypes, ActorTypes, drvVars, devVars,
     txVars, hostVars, fwVars
<1>19. ASSUME WorkTx PROVE Phase'
  BY <1>19 DEF WorkTx, workKeeps, HostInv, Phase, Types, DriverTypes, ActorTypes, drvVars, devVars,
     txVars, hostVars, fwVars
<1>20. ASSUME WorkBack PROVE Phase'
  BY <1>20 DEF WorkBack, workKeeps, HostInv, Phase, Types, DriverTypes, ActorTypes, drvVars, devVars,
     txVars, hostVars, fwVars
<1>21. ASSUME NEW a \in Actors, FlushCall(a) PROVE Phase'
  BY <1>21 DEF FlushCall, Purge, flushKeeps, HostInv, Phase, Types, DriverTypes, ActorTypes, drvVars,
     devVars, txVars, hostVars, fwVars
<1>22. ASSUME NEW a \in Actors, FlushWait(a) PROVE Phase'
  BY <1>22 DEF FlushWait, Purge, flushKeeps, HostInv, Phase, Types, DriverTypes, ActorTypes, drvVars,
     devVars, txVars, hostVars, fwVars
<1>23. ASSUME RemoveCall PROVE Phase'
  BY <1>23 DEF RemoveCall, rmKeeps, HostInv, Phase, Types, DriverTypes, ActorTypes, drvVars, devVars,
     txVars, hostVars, fwVars
<1>24. ASSUME RemoveWaited PROVE Phase'
  BY <1>24 DEF RemoveWaited, rmKeeps, HostInv, Phase, Types, DriverTypes, ActorTypes, drvVars, devVars,
     txVars, hostVars, fwVars
<1>25. ASSUME RemoveTear PROVE Phase'
  BY <1>25 DEF RemoveTear, rmKeeps, HostInv, Phase, Types, DriverTypes, ActorTypes, drvVars, devVars,
     txVars, hostVars, fwVars
<1>26. ASSUME RemoveFlushed PROVE Phase'
  BY <1>26 DEF RemoveFlushed, rmKeeps, HostInv, Phase, Types, DriverTypes, ActorTypes, drvVars, devVars,
     txVars, hostVars, fwVars
<1>27. ASSUME RemoveEnd PROVE Phase'
  BY <1>27 DEF RemoveEnd, rmKeeps, HostInv, Phase, Types, DriverTypes, ActorTypes, drvVars, devVars,
     txVars, hostVars, fwVars
<1>28. ASSUME Probe PROVE Phase'
  BY <1>28 DEF Probe, rmKeeps, HostInv, Phase, Types, DriverTypes, ActorTypes, drvVars, devVars, txVars,
     hostVars, fwVars
<1>29. ASSUME RxEvent PROVE Phase'
  BY <1>29 DEF RxEvent, HostInv, Phase, Types, DriverTypes, ActorTypes, drvVars, devVars, txVars,
     hostVars, fwVars
<1>30. ASSUME NotifyAssert PROVE Phase'
  BY <1>30 DEF NotifyAssert, notifyKeeps, Listens, HostInv, Phase, Types, DriverTypes, ActorTypes,
     drvVars, devVars, txVars, hostVars, fwVars
<1>31. ASSUME NotifyReady PROVE Phase'
  BY <1>31 DEF NotifyReady, notifyKeeps, Listens, HostInv, Phase, Types, DriverTypes, ActorTypes,
     drvVars, devVars, txVars, hostVars, fwVars
<1>32. ASSUME NotifyFlushed PROVE Phase'
  BY <1>32 DEF NotifyFlushed, notifyKeeps, HostInv, Phase, Types, DriverTypes, ActorTypes, drvVars,
     devVars, txVars, hostVars, fwVars
<1>33. ASSUME FwCrash PROVE Phase'
  BY <1>33 DEF FwCrash, Dies, fwKeeps, HostInv, Phase, Types, DriverTypes, ActorTypes, drvVars, devVars,
     txVars, hostVars, fwVars
<1>34. ASSUME FwRestart PROVE Phase'
  BY <1>34 DEF FwRestart, fwKeeps, HostInv, Phase, Types, DriverTypes, ActorTypes, drvVars, devVars,
     txVars, hostVars, fwVars
<1>35. ASSUME FwStray PROVE Phase'
  BY <1>35 DEF FwStray, fwKeeps, Stray, HostInv, Phase, Types, DriverTypes, ActorTypes, drvVars,
     devVars, txVars, hostVars, fwVars
<1>36. ASSUME UNCHANGED vars PROVE Phase'
  BY <1>36 DEF vars, HostInv, Phase, Types, DriverTypes, ActorTypes, drvVars, devVars, txVars, hostVars,
     fwVars
<1>. QED
  BY <1>1, <1>2, <1>3, <1>4, <1>5, <1>6, <1>7, <1>8, <1>9, <1>10, <1>11, <1>12, <1>13, <1>14, <1>15,
     <1>16, <1>17, <1>18, <1>19, <1>20, <1>21, <1>22, <1>23, <1>24, <1>25, <1>26, <1>27, <1>28, <1>29,
     <1>30, <1>31, <1>32, <1>33, <1>34, <1>35, <1>36 DEF Next, Host, Work, Flush, Remover, Rx

LEMMA WorkingStep == ASSUME Types, HostInv, [Next]_vars PROVE Working'
<1>1. ASSUME OpenCall PROVE Working'
  BY <1>1 DEF OpenCall, HostInv, Phase, Working, Types, DriverTypes, ActorTypes, Hist, drvVars, devVars,
     txVars, hostVars, fwVars
<1>2. ASSUME OpenWaited PROVE Working'
  BY <1>2 DEF OpenWaited, HostInv, Phase, Working, Types, DriverTypes, ActorTypes, Hist, drvVars,
     devVars, txVars, hostVars, fwVars
<1>3. ASSUME OpenGaveUp PROVE Working'
  BY <1>3 DEF OpenGaveUp, Returns, HostInv, Phase, Working, Types, DriverTypes, ActorTypes, Hist,
     drvVars, devVars, txVars, hostVars, fwVars
<1>4. ASSUME OpenPorts PROVE Working'
  BY <1>4 DEF OpenPorts, Returns, HostInv, Phase, Working, Types, DriverTypes, ActorTypes, Hist,
     drvVars, devVars, txVars, hostVars, fwVars
<1>5. ASSUME OpenService PROVE Working'
  BY <1>5 DEF OpenService, Returns, HostInv, Phase, Working, Types, DriverTypes, ActorTypes, Hist,
     drvVars, devVars, txVars, hostVars, fwVars
<1>6. ASSUME SendCommand PROVE Working'
  BY <1>6 DEF SendCommand, Queue, HostInv, Phase, Working, Types, DriverTypes, ActorTypes, Hist,
     drvVars, devVars, txVars, hostVars, fwVars
<1>7. ASSUME CommandAnswered PROVE Working'
  BY <1>7 DEF CommandAnswered, CommandEnd, AfterCommand, Opened, Returns, commandKeeps, HostInv, Phase,
     Working, Types, DriverTypes, ActorTypes, Hist, drvVars, devVars, txVars, hostVars, fwVars
<1>8. ASSUME NvMissing PROVE Working'
  BY <1>8 DEF NvMissing, commandKeeps, HostInv, Phase, Working, Types, DriverTypes, ActorTypes, Hist,
     drvVars, devVars, txVars, hostVars, fwVars
<1>9. ASSUME CommandTimeout PROVE Working'
  BY <1>9 DEF CommandTimeout, CommandEnd, AfterCommand, Opened, Returns, Dies, commandKeeps, HostInv,
     Phase, Working, Types, DriverTypes, ActorTypes, Hist, drvVars, devVars, txVars, hostVars, fwVars
<1>10. ASSUME OpenUndo PROVE Working'
  BY <1>10 DEF OpenUndo, PortClose, Returns, closeKeeps, HostInv, Phase, Working, Types, DriverTypes,
     ActorTypes, Hist, drvVars, devVars, txVars, hostVars, fwVars
<1>11. ASSUME CloseCall PROVE Working'
  BY <1>11 DEF CloseCall, HostInv, Phase, Working, Types, DriverTypes, ActorTypes, Hist, drvVars,
     devVars, txVars, hostVars, fwVars
<1>12. ASSUME CloseFlushed PROVE Working'
  BY <1>12 DEF CloseFlushed, HostInv, Phase, Working, Types, DriverTypes, ActorTypes, Hist, drvVars,
     devVars, txVars, hostVars, fwVars
<1>13. ASSUME CloseWaited PROVE Working'
  BY <1>13 DEF CloseWaited, HostInv, Phase, Working, Types, DriverTypes, ActorTypes, Hist, drvVars,
     devVars, txVars, hostVars, fwVars
<1>14. ASSUME Close PROVE Working'
  BY <1>14 DEF Close, PortClose, Returns, closeKeeps, HostInv, Phase, Working, Types, DriverTypes,
     ActorTypes, Hist, drvVars, devVars, txVars, hostVars, fwVars
<1>15. ASSUME SendFrame PROVE Working'
  BY <1>15 DEF SendFrame, Queue, HostInv, Phase, Working, Types, DriverTypes, ActorTypes, Hist, drvVars,
     devVars, txVars, hostVars, fwVars
<1>16. ASSUME WakeupEnable PROVE Working'
  BY <1>16 DEF WakeupEnable, Queue, HostInv, Phase, Working, Types, DriverTypes, ActorTypes, Hist,
     drvVars, devVars, txVars, hostVars, fwVars
<1>17. ASSUME WorkStart PROVE Working'
  BY <1>17 DEF WorkStart, workKeeps, HostInv, Phase, Working, Types, DriverTypes, ActorTypes, Hist,
     drvVars, devVars, txVars, hostVars, fwVars
<1>18. ASSUME WorkTake PROVE Working'
  BY <1>18 DEF WorkTake, workKeeps, HostInv, Phase, Working, Types, DriverTypes, ActorTypes, Hist,
     drvVars, devVars, txVars, hostVars, fwVars
<1>19. ASSUME WorkTx PROVE Working'
  BY <1>19 DEF WorkTx, workKeeps, HostInv, Phase, Working, Types, DriverTypes, ActorTypes, Hist,
     drvVars, devVars, txVars, hostVars, fwVars
<1>20. ASSUME WorkBack PROVE Working'
  BY <1>20 DEF WorkBack, workKeeps, HostInv, Phase, Working, Types, DriverTypes, ActorTypes, Hist,
     drvVars, devVars, txVars, hostVars, fwVars
<1>21. ASSUME NEW a \in Actors, FlushCall(a) PROVE Working'
  BY <1>21 DEF FlushCall, Purge, flushKeeps, HostInv, Phase, Working, Types, DriverTypes, ActorTypes,
     Hist, drvVars, devVars, txVars, hostVars, fwVars
<1>22. ASSUME NEW a \in Actors, FlushWait(a) PROVE Working'
  BY <1>22 DEF FlushWait, Purge, flushKeeps, HostInv, Phase, Working, Types, DriverTypes, ActorTypes,
     Hist, drvVars, devVars, txVars, hostVars, fwVars
<1>23. ASSUME RemoveCall PROVE Working'
  BY <1>23 DEF RemoveCall, rmKeeps, HostInv, Phase, Working, Types, DriverTypes, ActorTypes, Hist,
     drvVars, devVars, txVars, hostVars, fwVars
<1>24. ASSUME RemoveWaited PROVE Working'
  BY <1>24 DEF RemoveWaited, rmKeeps, HostInv, Phase, Working, Types, DriverTypes, ActorTypes, Hist,
     drvVars, devVars, txVars, hostVars, fwVars
<1>25. ASSUME RemoveTear PROVE Working'
  BY <1>25 DEF RemoveTear, rmKeeps, HostInv, Phase, Working, Types, DriverTypes, ActorTypes, Hist,
     drvVars, devVars, txVars, hostVars, fwVars
<1>26. ASSUME RemoveFlushed PROVE Working'
  BY <1>26 DEF RemoveFlushed, rmKeeps, HostInv, Phase, Working, Types, DriverTypes, ActorTypes, Hist,
     drvVars, devVars, txVars, hostVars, fwVars
<1>27. ASSUME RemoveEnd PROVE Working'
  BY <1>27 DEF RemoveEnd, rmKeeps, HostInv, Phase, Working, Types, DriverTypes, ActorTypes, Hist,
     drvVars, devVars, txVars, hostVars, fwVars
<1>28. ASSUME Probe PROVE Working'
  BY <1>28 DEF Probe, rmKeeps, HostInv, Phase, Working, Types, DriverTypes, ActorTypes, Hist, drvVars,
     devVars, txVars, hostVars, fwVars
<1>29. ASSUME RxEvent PROVE Working'
  BY <1>29 DEF RxEvent, HostInv, Phase, Working, Types, DriverTypes, ActorTypes, Hist, drvVars, devVars,
     txVars, hostVars, fwVars
<1>30. ASSUME NotifyAssert PROVE Working'
  BY <1>30 DEF NotifyAssert, notifyKeeps, Listens, HostInv, Phase, Working, Types, DriverTypes,
     ActorTypes, Hist, drvVars, devVars, txVars, hostVars, fwVars
<1>31. ASSUME NotifyReady PROVE Working'
  BY <1>31 DEF NotifyReady, notifyKeeps, Listens, HostInv, Phase, Working, Types, DriverTypes,
     ActorTypes, Hist, drvVars, devVars, txVars, hostVars, fwVars
<1>32. ASSUME NotifyFlushed PROVE Working'
  BY <1>32 DEF NotifyFlushed, notifyKeeps, HostInv, Phase, Working, Types, DriverTypes, ActorTypes,
     Hist, drvVars, devVars, txVars, hostVars, fwVars
<1>33. ASSUME FwCrash PROVE Working'
  BY <1>33 DEF FwCrash, Dies, fwKeeps, HostInv, Phase, Working, Types, DriverTypes, ActorTypes, Hist,
     drvVars, devVars, txVars, hostVars, fwVars
<1>34. ASSUME FwRestart PROVE Working'
  BY <1>34 DEF FwRestart, fwKeeps, HostInv, Phase, Working, Types, DriverTypes, ActorTypes, Hist,
     drvVars, devVars, txVars, hostVars, fwVars
<1>35. ASSUME FwStray PROVE Working'
  BY <1>35 DEF FwStray, fwKeeps, Stray, HostInv, Phase, Working, Types, DriverTypes, ActorTypes, Hist,
     drvVars, devVars, txVars, hostVars, fwVars
<1>36. ASSUME UNCHANGED vars PROVE Working'
  BY <1>36 DEF vars, HostInv, Phase, Working, Types, DriverTypes, ActorTypes, Hist, drvVars, devVars,
     txVars, hostVars, fwVars
<1>. QED
  BY <1>1, <1>2, <1>3, <1>4, <1>5, <1>6, <1>7, <1>8, <1>9, <1>10, <1>11, <1>12, <1>13, <1>14, <1>15,
     <1>16, <1>17, <1>18, <1>19, <1>20, <1>21, <1>22, <1>23, <1>24, <1>25, <1>26, <1>27, <1>28, <1>29,
     <1>30, <1>31, <1>32, <1>33, <1>34, <1>35, <1>36 DEF Next, Host, Work, Flush, Remover, Rx

LEMMA FreedStep == ASSUME Types, HostInv, [Next]_vars PROVE Freed'
<1>1. ASSUME OpenCall PROVE Freed'
  BY <1>1 DEF OpenCall, HostInv, Phase, Freed, Types, DriverTypes, ActorTypes, Hist, drvVars, devVars,
     txVars, hostVars, fwVars
<1>2. ASSUME OpenWaited PROVE Freed'
  BY <1>2 DEF OpenWaited, HostInv, Phase, Freed, Types, DriverTypes, ActorTypes, Hist, drvVars, devVars,
     txVars, hostVars, fwVars
<1>3. ASSUME OpenGaveUp PROVE Freed'
  BY <1>3 DEF OpenGaveUp, Returns, HostInv, Phase, Freed, Types, DriverTypes, ActorTypes, Hist, drvVars,
     devVars, txVars, hostVars, fwVars
<1>4. ASSUME OpenPorts PROVE Freed'
  BY <1>4 DEF OpenPorts, Returns, HostInv, Phase, Freed, Types, DriverTypes, ActorTypes, Hist, drvVars,
     devVars, txVars, hostVars, fwVars
<1>5. ASSUME OpenService PROVE Freed'
  BY <1>5 DEF OpenService, Returns, HostInv, Phase, Freed, Types, DriverTypes, ActorTypes, Hist,
     drvVars, devVars, txVars, hostVars, fwVars
<1>6. ASSUME SendCommand PROVE Freed'
  BY <1>6 DEF SendCommand, Queue, HostInv, Phase, Freed, Types, DriverTypes, ActorTypes, Hist, drvVars,
     devVars, txVars, hostVars, fwVars
<1>7. ASSUME CommandAnswered PROVE Freed'
  BY <1>7 DEF CommandAnswered, CommandEnd, AfterCommand, Opened, Returns, commandKeeps, HostInv, Phase,
     Freed, Types, DriverTypes, ActorTypes, Hist, drvVars, devVars, txVars, hostVars, fwVars
<1>8. ASSUME NvMissing PROVE Freed'
  BY <1>8 DEF NvMissing, commandKeeps, HostInv, Phase, Freed, Types, DriverTypes, ActorTypes, Hist,
     drvVars, devVars, txVars, hostVars, fwVars
<1>9. ASSUME CommandTimeout PROVE Freed'
  BY <1>9 DEF CommandTimeout, CommandEnd, AfterCommand, Opened, Returns, Dies, commandKeeps, HostInv,
     Phase, Freed, Types, DriverTypes, ActorTypes, Hist, drvVars, devVars, txVars, hostVars, fwVars
<1>10. ASSUME OpenUndo PROVE Freed'
  BY <1>10 DEF OpenUndo, PortClose, Returns, closeKeeps, HostInv, Phase, Freed, Types, DriverTypes,
     ActorTypes, Hist, drvVars, devVars, txVars, hostVars, fwVars
<1>11. ASSUME CloseCall PROVE Freed'
  BY <1>11 DEF CloseCall, HostInv, Phase, Freed, Types, DriverTypes, ActorTypes, Hist, drvVars, devVars,
     txVars, hostVars, fwVars
<1>12. ASSUME CloseFlushed PROVE Freed'
  BY <1>12 DEF CloseFlushed, HostInv, Phase, Freed, Types, DriverTypes, ActorTypes, Hist, drvVars,
     devVars, txVars, hostVars, fwVars
<1>13. ASSUME CloseWaited PROVE Freed'
  BY <1>13 DEF CloseWaited, HostInv, Phase, Freed, Types, DriverTypes, ActorTypes, Hist, drvVars,
     devVars, txVars, hostVars, fwVars
<1>14. ASSUME Close PROVE Freed'
  BY <1>14 DEF Close, PortClose, Returns, closeKeeps, HostInv, Phase, Freed, Types, DriverTypes,
     ActorTypes, Hist, drvVars, devVars, txVars, hostVars, fwVars
<1>15. ASSUME SendFrame PROVE Freed'
  BY <1>15 DEF SendFrame, Queue, HostInv, Phase, Freed, Types, DriverTypes, ActorTypes, Hist, drvVars,
     devVars, txVars, hostVars, fwVars
<1>16. ASSUME WakeupEnable PROVE Freed'
  BY <1>16 DEF WakeupEnable, Queue, HostInv, Phase, Freed, Types, DriverTypes, ActorTypes, Hist,
     drvVars, devVars, txVars, hostVars, fwVars
<1>17. ASSUME WorkStart PROVE Freed'
  BY <1>17 DEF WorkStart, workKeeps, HostInv, Phase, Freed, Types, DriverTypes, ActorTypes, Hist,
     drvVars, devVars, txVars, hostVars, fwVars
<1>18. ASSUME WorkTake PROVE Freed'
  BY <1>18 DEF WorkTake, workKeeps, HostInv, Phase, Freed, Types, DriverTypes, ActorTypes, Hist,
     drvVars, devVars, txVars, hostVars, fwVars
<1>19. ASSUME WorkTx PROVE Freed'
  BY <1>19 DEF WorkTx, workKeeps, HostInv, Phase, Freed, Types, DriverTypes, ActorTypes, Hist, drvVars,
     devVars, txVars, hostVars, fwVars
<1>20. ASSUME WorkBack PROVE Freed'
  BY <1>20 DEF WorkBack, workKeeps, HostInv, Phase, Freed, Types, DriverTypes, ActorTypes, Hist,
     drvVars, devVars, txVars, hostVars, fwVars
<1>21. ASSUME NEW a \in Actors, FlushCall(a) PROVE Freed'
  BY <1>21 DEF FlushCall, Purge, flushKeeps, HostInv, Phase, Freed, Types, DriverTypes, ActorTypes,
     Hist, drvVars, devVars, txVars, hostVars, fwVars
<1>22. ASSUME NEW a \in Actors, FlushWait(a) PROVE Freed'
  BY <1>22 DEF FlushWait, Purge, flushKeeps, HostInv, Phase, Freed, Types, DriverTypes, ActorTypes,
     Hist, drvVars, devVars, txVars, hostVars, fwVars
<1>23. ASSUME RemoveCall PROVE Freed'
  BY <1>23 DEF RemoveCall, rmKeeps, HostInv, Phase, Freed, Types, DriverTypes, ActorTypes, Hist,
     drvVars, devVars, txVars, hostVars, fwVars
<1>24. ASSUME RemoveWaited PROVE Freed'
  BY <1>24 DEF RemoveWaited, rmKeeps, HostInv, Phase, Freed, Types, DriverTypes, ActorTypes, Hist,
     drvVars, devVars, txVars, hostVars, fwVars
<1>25. ASSUME RemoveTear PROVE Freed'
  BY <1>25 DEF RemoveTear, rmKeeps, HostInv, Phase, Freed, Types, DriverTypes, ActorTypes, Hist,
     drvVars, devVars, txVars, hostVars, fwVars
<1>26. ASSUME RemoveFlushed PROVE Freed'
  BY <1>26 DEF RemoveFlushed, rmKeeps, HostInv, Phase, Freed, Types, DriverTypes, ActorTypes, Hist,
     drvVars, devVars, txVars, hostVars, fwVars
<1>27. ASSUME RemoveEnd PROVE Freed'
  BY <1>27 DEF RemoveEnd, rmKeeps, HostInv, Phase, Freed, Types, DriverTypes, ActorTypes, Hist, drvVars,
     devVars, txVars, hostVars, fwVars
<1>28. ASSUME Probe PROVE Freed'
  BY <1>28 DEF Probe, rmKeeps, HostInv, Phase, Freed, Types, DriverTypes, ActorTypes, Hist, drvVars,
     devVars, txVars, hostVars, fwVars
<1>29. ASSUME RxEvent PROVE Freed'
  BY <1>29 DEF RxEvent, HostInv, Phase, Freed, Types, DriverTypes, ActorTypes, Hist, drvVars, devVars,
     txVars, hostVars, fwVars
<1>30. ASSUME NotifyAssert PROVE Freed'
  BY <1>30 DEF NotifyAssert, notifyKeeps, Listens, HostInv, Phase, Freed, Types, DriverTypes,
     ActorTypes, Hist, drvVars, devVars, txVars, hostVars, fwVars
<1>31. ASSUME NotifyReady PROVE Freed'
  BY <1>31 DEF NotifyReady, notifyKeeps, Listens, HostInv, Phase, Freed, Types, DriverTypes, ActorTypes,
     Hist, drvVars, devVars, txVars, hostVars, fwVars
<1>32. ASSUME NotifyFlushed PROVE Freed'
  BY <1>32 DEF NotifyFlushed, notifyKeeps, HostInv, Phase, Freed, Types, DriverTypes, ActorTypes, Hist,
     drvVars, devVars, txVars, hostVars, fwVars
<1>33. ASSUME FwCrash PROVE Freed'
  BY <1>33 DEF FwCrash, Dies, fwKeeps, HostInv, Phase, Freed, Types, DriverTypes, ActorTypes, Hist,
     drvVars, devVars, txVars, hostVars, fwVars
<1>34. ASSUME FwRestart PROVE Freed'
  BY <1>34 DEF FwRestart, fwKeeps, HostInv, Phase, Freed, Types, DriverTypes, ActorTypes, Hist, drvVars,
     devVars, txVars, hostVars, fwVars
<1>35. ASSUME FwStray PROVE Freed'
  BY <1>35 DEF FwStray, fwKeeps, Stray, HostInv, Phase, Freed, Types, DriverTypes, ActorTypes, Hist,
     drvVars, devVars, txVars, hostVars, fwVars
<1>36. ASSUME UNCHANGED vars PROVE Freed'
  BY <1>36 DEF vars, HostInv, Phase, Freed, Types, DriverTypes, ActorTypes, Hist, drvVars, devVars,
     txVars, hostVars, fwVars
<1>. QED
  BY <1>1, <1>2, <1>3, <1>4, <1>5, <1>6, <1>7, <1>8, <1>9, <1>10, <1>11, <1>12, <1>13, <1>14, <1>15,
     <1>16, <1>17, <1>18, <1>19, <1>20, <1>21, <1>22, <1>23, <1>24, <1>25, <1>26, <1>27, <1>28, <1>29,
     <1>30, <1>31, <1>32, <1>33, <1>34, <1>35, <1>36 DEF Next, Host, Work, Flush, Remover, Rx

LEMMA VersionStep == ASSUME BtAssumption, Types, HostInv, [Next]_vars PROVE Version'
<1>1. ASSUME OpenCall PROVE Version'
  BY <1>1 DEF OpenCall, HostInv, Version, Types, DriverTypes, ActorTypes, Hist, drvVars, devVars,
     txVars, hostVars, fwVars
<1>2. ASSUME OpenWaited PROVE Version'
  BY <1>2 DEF OpenWaited, HostInv, Version, Types, DriverTypes, ActorTypes, Hist, drvVars, devVars,
     txVars, hostVars, fwVars
<1>3. ASSUME OpenGaveUp PROVE Version'
  BY <1>3 DEF OpenGaveUp, Returns, HostInv, Version, Types, DriverTypes, ActorTypes, Hist, drvVars,
     devVars, txVars, hostVars, fwVars
<1>4. ASSUME OpenPorts PROVE Version'
  BY <1>4 DEF OpenPorts, Returns, HostInv, Version, Types, DriverTypes, ActorTypes, Hist, drvVars,
     devVars, txVars, hostVars, fwVars
<1>5. ASSUME OpenService PROVE Version'
  BY <1>5 DEF OpenService, Returns, HostInv, Version, Types, DriverTypes, ActorTypes, Hist, drvVars,
     devVars, txVars, hostVars, fwVars
<1>6. ASSUME SendCommand PROVE Version'
  BY <1>6 DEF SendCommand, Queue, HostInv, Version, Types, DriverTypes, ActorTypes, Hist, drvVars,
     devVars, txVars, hostVars, fwVars
<1>7. ASSUME CommandAnswered PROVE Version'
  BY <1>7 DEF CommandAnswered, CommandEnd, AfterCommand, Opened, Returns, commandKeeps, HostInv,
     Version, Types, DriverTypes, ActorTypes, Hist, drvVars, devVars, txVars, hostVars, fwVars
<1>8. ASSUME NvMissing PROVE Version'
  BY <1>8 DEF NvMissing, commandKeeps, HostInv, Version, Types, DriverTypes, ActorTypes, Hist, drvVars,
     devVars, txVars, hostVars, fwVars
<1>9. ASSUME CommandTimeout PROVE Version'
  BY <1>9 DEF CommandTimeout, CommandEnd, AfterCommand, Opened, Returns, Dies, commandKeeps, HostInv,
     Version, Types, DriverTypes, ActorTypes, Hist, drvVars, devVars, txVars, hostVars, fwVars
<1>10. ASSUME OpenUndo PROVE Version'
  BY <1>10 DEF OpenUndo, PortClose, Returns, closeKeeps, HostInv, Version, Types, DriverTypes,
     ActorTypes, Hist, drvVars, devVars, txVars, hostVars, fwVars
<1>11. ASSUME CloseCall PROVE Version'
  BY <1>11 DEF CloseCall, HostInv, Version, Types, DriverTypes, ActorTypes, Hist, drvVars, devVars,
     txVars, hostVars, fwVars
<1>12. ASSUME CloseFlushed PROVE Version'
  BY <1>12 DEF CloseFlushed, HostInv, Version, Types, DriverTypes, ActorTypes, Hist, drvVars, devVars,
     txVars, hostVars, fwVars
<1>13. ASSUME CloseWaited PROVE Version'
  BY <1>13 DEF CloseWaited, HostInv, Version, Types, DriverTypes, ActorTypes, Hist, drvVars, devVars,
     txVars, hostVars, fwVars
<1>14. ASSUME Close PROVE Version'
  BY <1>14 DEF Close, PortClose, Returns, closeKeeps, HostInv, Version, Types, DriverTypes, ActorTypes,
     Hist, drvVars, devVars, txVars, hostVars, fwVars
<1>15. ASSUME SendFrame PROVE Version'
  BY <1>15 DEF SendFrame, Queue, HostInv, Version, Types, DriverTypes, ActorTypes, Hist, drvVars,
     devVars, txVars, hostVars, fwVars
<1>16. ASSUME WakeupEnable PROVE Version'
  BY <1>16 DEF WakeupEnable, Queue, HostInv, Version, Types, DriverTypes, ActorTypes, Hist, drvVars,
     devVars, txVars, hostVars, fwVars
<1>17. ASSUME WorkStart PROVE Version'
  BY <1>17 DEF WorkStart, workKeeps, HostInv, Version, Types, DriverTypes, ActorTypes, Hist, drvVars,
     devVars, txVars, hostVars, fwVars
<1>18. ASSUME WorkTake PROVE Version'
  BY <1>18 DEF WorkTake, workKeeps, HostInv, Version, Types, DriverTypes, ActorTypes, Hist, drvVars,
     devVars, txVars, hostVars, fwVars
<1>19. ASSUME WorkTx PROVE Version'
  BY <1>19 DEF WorkTx, workKeeps, HostInv, Version, Types, DriverTypes, ActorTypes, Hist, drvVars,
     devVars, txVars, hostVars, fwVars
<1>20. ASSUME WorkBack PROVE Version'
  BY <1>20 DEF WorkBack, workKeeps, HostInv, Version, Types, DriverTypes, ActorTypes, Hist, drvVars,
     devVars, txVars, hostVars, fwVars
<1>21. ASSUME NEW a \in Actors, FlushCall(a) PROVE Version'
  BY <1>21 DEF FlushCall, Purge, flushKeeps, HostInv, Version, Types, DriverTypes, ActorTypes, Hist,
     drvVars, devVars, txVars, hostVars, fwVars
<1>22. ASSUME NEW a \in Actors, FlushWait(a) PROVE Version'
  BY <1>22 DEF FlushWait, Purge, flushKeeps, HostInv, Version, Types, DriverTypes, ActorTypes, Hist,
     drvVars, devVars, txVars, hostVars, fwVars
<1>23. ASSUME RemoveCall PROVE Version'
  BY <1>23 DEF RemoveCall, rmKeeps, HostInv, Version, Types, DriverTypes, ActorTypes, Hist, drvVars,
     devVars, txVars, hostVars, fwVars
<1>24. ASSUME RemoveWaited PROVE Version'
  BY <1>24 DEF RemoveWaited, rmKeeps, HostInv, Version, Types, DriverTypes, ActorTypes, Hist, drvVars,
     devVars, txVars, hostVars, fwVars
<1>25. ASSUME RemoveTear PROVE Version'
  BY <1>25 DEF RemoveTear, rmKeeps, HostInv, Version, Types, DriverTypes, ActorTypes, Hist, drvVars,
     devVars, txVars, hostVars, fwVars
<1>26. ASSUME RemoveFlushed PROVE Version'
  BY <1>26 DEF RemoveFlushed, rmKeeps, HostInv, Version, Types, DriverTypes, ActorTypes, Hist, drvVars,
     devVars, txVars, hostVars, fwVars
<1>27. ASSUME RemoveEnd PROVE Version'
  BY <1>27 DEF RemoveEnd, rmKeeps, HostInv, Version, Types, DriverTypes, ActorTypes, Hist, drvVars,
     devVars, txVars, hostVars, fwVars
<1>28. ASSUME Probe PROVE Version'
  BY <1>28 DEF Probe, rmKeeps, HostInv, Version, Types, DriverTypes, ActorTypes, Hist, drvVars, devVars,
     txVars, hostVars, fwVars
<1>29. ASSUME RxEvent PROVE Version'
  BY <1>29 DEF RxEvent, HostInv, Version, Types, DriverTypes, ActorTypes, Hist, drvVars, devVars,
     txVars, hostVars, fwVars
<1>30. ASSUME NotifyAssert PROVE Version'
  BY <1>30 DEF NotifyAssert, notifyKeeps, Listens, HostInv, Version, Types, DriverTypes, ActorTypes,
     Hist, drvVars, devVars, txVars, hostVars, fwVars
<1>31. ASSUME NotifyReady PROVE Version'
  BY <1>31 DEF NotifyReady, notifyKeeps, Listens, HostInv, Version, Types, DriverTypes, ActorTypes,
     Hist, drvVars, devVars, txVars, hostVars, fwVars
<1>32. ASSUME NotifyFlushed PROVE Version'
  BY <1>32 DEF NotifyFlushed, notifyKeeps, HostInv, Version, Types, DriverTypes, ActorTypes, Hist,
     drvVars, devVars, txVars, hostVars, fwVars
<1>33. ASSUME FwCrash PROVE Version'
  BY <1>33 DEF FwCrash, Dies, fwKeeps, HostInv, Version, Types, DriverTypes, ActorTypes, Hist, drvVars,
     devVars, txVars, hostVars, fwVars
<1>34. ASSUME FwRestart PROVE Version'
  BY <1>34 DEF FwRestart, fwKeeps, HostInv, Version, Types, DriverTypes, ActorTypes, Hist, drvVars,
     devVars, txVars, hostVars, fwVars
<1>35. ASSUME FwStray PROVE Version'
  BY <1>35 DEF FwStray, fwKeeps, Stray, HostInv, Version, Types, DriverTypes, ActorTypes, Hist, drvVars,
     devVars, txVars, hostVars, fwVars
<1>36. ASSUME UNCHANGED vars PROVE Version'
  BY <1>36 DEF vars, HostInv, Version, Types, DriverTypes, ActorTypes, Hist, drvVars, devVars, txVars,
     hostVars, fwVars
<1>. QED
  BY <1>1, <1>2, <1>3, <1>4, <1>5, <1>6, <1>7, <1>8, <1>9, <1>10, <1>11, <1>12, <1>13, <1>14, <1>15,
     <1>16, <1>17, <1>18, <1>19, <1>20, <1>21, <1>22, <1>23, <1>24, <1>25, <1>26, <1>27, <1>28, <1>29,
     <1>30, <1>31, <1>32, <1>33, <1>34, <1>35, <1>36 DEF Next, Host, Work, Flush, Remover, Rx

\* A frame of queue x that is still to be sent: it is younger than the last one sent, and no flush
\* has thrown it away unless the work held it then.
Waits(x, f) == last[x] < f.n /\ f.n < next /\ (f.n > purged \/ f.n \in held)

\* The queues are in the order of the frames' numbers, behind the frame the work holds.
Order ==
  /\ purged < next /\ \A x \in Queues : last[x] < next
  /\ \A x \in Queues : \A i \in 1 .. Len(q[x]) : Waits(x, q[x][i])
  /\ \A x \in Queues : \A i, j \in 1 .. Len(q[x]) : i < j => q[x][i].n < q[x][j].n
  /\ work.skb # NoFrame =>
       Waits(work.q, work.skb) /\ \A i \in 1 .. Len(q[work.q]) : work.skb.n < q[work.q][i].n

StillWaits(x, f) == last'[x] < f.n /\ f.n < next' /\ (f.n > purged' \/ f.n \in held')

LEMMA InitOrder == Init => Order
  BY DEF Init, Order

LEMMA OrderSame ==
  ASSUME Order, work'.skb = work.skb, work.skb = NoFrame \/ work'.q = work.q, UNCHANGED <<q, next, last, purged, held>>
  PROVE Order'
  BY DEF Order, Waits, StillWaits

\* The numbers the queues hold.
LEMMA FrameNumbers ==
  ASSUME QueueTypes
  PROVE /\ next \in Nat /\ purged \in Nat /\ \A x \in Queues : last[x] \in Nat
        /\ \A x \in Queues : q[x] \in Seq(Frames) /\ \A i \in 1 .. Len(q[x]) : q[x][i] \in Frames /\ q[x][i].n \in Nat
        /\ work.q \in Queues /\ (work.skb # NoFrame => work.skb \in Frames /\ work.skb.n \in Nat)
<1>1. \A x \in Queues : q[x] \in Seq(Frames)
  BY DEF QueueTypes
<1>2. \A f \in Frames : f.n \in Nat
  BY DEF Frames
<1>3. work.q \in Queues /\ (work.skb # NoFrame => work.skb \in Frames)
  BY DEF QueueTypes, Worker
<1>. QED
  BY <1>1, <1>2, <1>3 DEF QueueTypes

LEMMA OrderQueue ==
  ASSUME Types, Order, NEW x \in Queues, NEW c \in Int, Queue(x, c), UNCHANGED <<work, last, purged, held>>
  PROVE Order'
<1> DEFINE f == [n |-> next, c |-> c]
<1>1. f.n = next /\ f \in Frames
  BY DEF Types, QueueTypes, Frames
<1>2. q' = [q EXCEPT ![x] = Append(q[x], f)] /\ next' = next + 1 /\ q \in [Queues -> Seq(Frames)] /\ q[x] \in Seq(Frames)
  BY DEF Queue, Types, QueueTypes
<1> HIDE DEF f
<1>3. /\ \A y \in Queues \ {x} : q'[y] = q[y]
      /\ q'[x] = Append(q[x], f) /\ Len(q'[x]) = Len(q[x]) + 1 /\ q'[x][Len(q[x]) + 1] = f
      /\ \A i \in 1 .. Len(q[x]) : q'[x][i] = q[x][i]
      /\ Len(q[x]) \in Nat
  BY <1>1, <1>2
<1>4. purged' < next' /\ \A y \in Queues : last'[y] < next'
  BY <1>2, FrameNumbers DEF Order, Types
<1>5. \A y \in Queues : \A i \in 1 .. Len(q'[y]) :
        (y = x /\ i = Len(q[x]) + 1 /\ q'[y][i] = f) \/ (i \in 1 .. Len(q[y]) /\ q'[y][i] = q[y][i])
  BY <1>3
<1>6. \A y \in Queues : \A i \in 1 .. Len(q'[y]) : StillWaits(y, q'[y][i])
  <2>1. last[x] < next /\ purged < next /\ next \in Nat /\ purged \in Nat /\ last[x] \in Nat
    BY FrameNumbers DEF Order, Types
  <2>2. StillWaits(x, f)
    BY <1>1, <1>2, <2>1 DEF Waits, StillWaits
  <2>3. \A y \in Queues : \A i \in 1 .. Len(q[y]) : Waits(y, q[y][i]) /\ q[y][i].n \in Nat
    BY FrameNumbers DEF Order, Types
  <2>4. ASSUME NEW y \in Queues, NEW i \in 1 .. Len(q'[y]) PROVE StillWaits(y, q'[y][i])
    <3>1. CASE y = x /\ i = Len(q[x]) + 1 /\ q'[y][i] = f
      BY <2>2, <3>1 DEF Waits, StillWaits
    <3>2. CASE i \in 1 .. Len(q[y]) /\ q'[y][i] = q[y][i]
      BY <1>2, <2>1, <2>3, <3>2 DEF Waits, StillWaits
    <3>. QED
      BY <1>5, <3>1, <3>2
  <2>. QED
    BY <2>4
<1>7. \A y \in Queues : \A i, j \in 1 .. Len(q'[y]) : i < j => q'[y][i].n < q'[y][j].n
  <2>1. \A i \in 1 .. Len(q[x]) : q[x][i].n < f.n
    BY <1>1 DEF Order, Waits, StillWaits
  <2>2. ASSUME NEW i \in 1 .. Len(q'[x]), NEW j \in 1 .. Len(q'[x]), i < j PROVE q'[x][i].n < q'[x][j].n
    <3>1. i \in 1 .. Len(q[x]) /\ q'[x][i] = q[x][i]
      BY <1>3, <2>2
    <3>2. CASE j = Len(q[x]) + 1
      BY <1>3, <2>1, <3>1, <3>2
    <3>3. CASE j \in 1 .. Len(q[x])
      BY <1>3, <2>2, <3>1, <3>3 DEF Order
    <3>. QED
      BY <1>3, <3>2, <3>3
  <2>. QED
    BY <1>3, <2>2 DEF Order
<1>8. work'.skb # NoFrame =>
        StillWaits(work'.q, work'.skb) /\ \A i \in 1 .. Len(q'[work.q]) : work.skb.n < q'[work.q][i].n
  <2> SUFFICES ASSUME work.skb # NoFrame
               PROVE StillWaits(work'.q, work'.skb) /\ \A i \in 1 .. Len(q'[work.q]) : work.skb.n < q'[work.q][i].n
    OBVIOUS
  <2>1. Waits(work.q, work.skb) /\ work.q \in Queues /\ work.skb.n \in Nat /\ next \in Nat
    BY FrameNumbers DEF Order, Types
  <2>2. StillWaits(work'.q, work'.skb)
    BY <1>2, <2>1 DEF Waits, StillWaits
  <2>. QED
    BY <1>1, <1>5, <2>1, <2>2 DEF Order, Waits, StillWaits
<1>. QED
  BY <1>4, <1>6, <1>7, <1>8 DEF Order, Waits, StillWaits

LEMMA OrderTake == ASSUME Types, Order, WorkTake PROVE Order'
<1>1. CASE q[work.q] # <<>>
  <2> DEFINE w == work.q
  <2>1. w \in Queues /\ q[w] \in Seq(Frames) /\ q \in [Queues -> Seq(Frames)] /\ work \in Worker
    BY DEF Types, QueueTypes, Worker
  <2>2. work' = [work EXCEPT !.pc = "tx", !.skb = Head(q[w])] /\ q' = [q EXCEPT ![w] = Tail(q[w])]
    BY <1>1 DEF WorkTake
  <2>3. Head(q[w]) = q[w][1] /\ q[w][1] \in Frames /\ Len(q[w]) \in Nat /\ Len(q[w]) > 0
    BY <1>1, <2>1
  <2>4. work'.q = w /\ work'.skb = q[w][1]
    BY <2>1, <2>2, <2>3, WorkerSkb
  <2>5. /\ \A y \in Queues \ {w} : q'[y] = q[y]
        /\ Len(q'[w]) = Len(q[w]) - 1 /\ \A i \in 1 .. Len(q'[w]) : q'[w][i] = q[w][i + 1] /\ i + 1 \in 1 .. Len(q[w])
    BY <1>1, <2>1, <2>2
  <2> HIDE DEF w
  <2>6. UNCHANGED <<next, last, purged, held>>
    BY DEF WorkTake, workKeeps
  <2>7. \A y \in Queues : \A i \in 1 .. Len(q'[y]) : StillWaits(y, q'[y][i])
    BY <2>5, <2>6 DEF Order, Waits, StillWaits
  <2>8. \A y \in Queues : \A i, j \in 1 .. Len(q'[y]) : i < j => q'[y][i].n < q'[y][j].n
    <3>1. ASSUME NEW i \in 1 .. Len(q'[w]), NEW j \in 1 .. Len(q'[w]), i < j PROVE q'[w][i].n < q'[w][j].n
      <4>1. i + 1 \in 1 .. Len(q[w]) /\ j + 1 \in 1 .. Len(q[w]) /\ i + 1 < j + 1
        BY <2>5, <3>1
      <4>2. q'[w][i] = q[w][i + 1] /\ q'[w][j] = q[w][j + 1]
        BY <2>5
      <4>. QED
        BY <2>1, <4>1, <4>2 DEF Order
    <3>. QED
      BY <2>5, <3>1 DEF Order
  <2>9. StillWaits(w, q[w][1]) /\ \A i \in 1 .. Len(q'[w]) : q[w][1].n < q'[w][i].n
    <3>1. 1 \in 1 .. Len(q[w])
      BY <2>3
    <3>. QED
      BY <2>1, <2>5, <2>6, <3>1 DEF Order, Waits, StillWaits
  <2>. QED
    BY <2>4, <2>6, <2>7, <2>8, <2>9 DEF Order, Waits, StillWaits
<1>2. CASE q[work.q] = <<>>
  <2>1. work.skb = NoFrame
    BY DEF WorkTake, Types, QueueTypes
  <2>2. work'.skb = work.skb
    BY <1>2 DEF WorkTake, Types, QueueTypes, Worker, Queues
  <2>. QED
    BY <1>2, <2>1, <2>2, OrderSame DEF WorkTake, workKeeps
<1>. QED
  BY <1>1, <1>2

LEMMA OrderTx == ASSUME Types, Order, WorkTx PROVE Order'
<1>1. work \in Worker /\ work.skb # NoFrame /\ work.skb \in Frames /\ work.q \in Queues /\ NoFrame \in Frames \cup {NoFrame}
  BY DEF WorkTx, Types, QueueTypes, Worker
<1>2. CASE work' = [work EXCEPT !.pc = "run", !.skb = NoFrame] /\ last' = [last EXCEPT ![work.q] = work.skb.n]
  <2>1. work'.skb = NoFrame
    BY <1>1, <1>2, WorkerSkb
  <2>2. last'[work.q] = work.skb.n /\ \A y \in Queues \ {work.q} : last'[y] = last[y]
    BY <1>1, <1>2 DEF Types, QueueTypes
  <2>3. UNCHANGED <<q, next, purged, held>>
    BY DEF WorkTx, workKeeps
  <2>4. \A y \in Queues : \A i \in 1 .. Len(q[y]) : StillWaits(y, q[y][i])
    BY <1>1, <2>2, <2>3 DEF Order, Waits, StillWaits
  <2>5. \A y \in Queues : last'[y] < next
    BY <1>1, <2>2 DEF Order, Waits, StillWaits
  <2>. QED
    BY <2>1, <2>3, <2>4, <2>5 DEF Order, Waits, StillWaits
<1>3. CASE work' = [work EXCEPT !.pc = "back"] /\ UNCHANGED last
  <2>1. work'.skb = work.skb /\ work'.q = work.q
    BY <1>1, <1>3, WorkerPc
  <2>. QED
    BY <1>3, <2>1, OrderSame DEF WorkTx, workKeeps
<1>. QED
  BY <1>2, <1>3 DEF WorkTx

LEMMA OrderBack == ASSUME Types, Order, WorkBack PROVE Order'
<1> DEFINE w == work.q
           f == work.skb
<1>1. work \in Worker /\ f # NoFrame /\ f \in Frames /\ w \in Queues /\ NoFrame \in Frames \cup {NoFrame}
  BY DEF WorkBack, Types, QueueTypes, Worker
<1>2. work'.skb = NoFrame
  BY <1>1, WorkerSkb DEF WorkBack
<1>3. q' = [q EXCEPT ![w] = <<f>> \o q[w]] /\ q \in [Queues -> Seq(Frames)] /\ q[w] \in Seq(Frames)
  BY <1>1 DEF WorkBack, Types, QueueTypes
<1>4. Waits(w, f) /\ \A i \in 1 .. Len(q[w]) : f.n < q[w][i].n
  BY <1>1 DEF Order
<1> HIDE DEF w, f
<1>5. /\ \A y \in Queues \ {w} : q'[y] = q[y]
      /\ Len(q'[w]) = Len(q[w]) + 1 /\ q'[w][1] = f /\ Len(q[w]) \in Nat
      /\ \A i \in 1 .. Len(q'[w]) : i = 1 \/ (i - 1 \in 1 .. Len(q[w]) /\ q'[w][i] = q[w][i - 1])
  BY <1>1, <1>3
<1>6. UNCHANGED <<next, last, purged, held>>
  BY DEF WorkBack, workKeeps
<1>7. \A i \in 1 .. Len(q'[w]) : Waits(w, q'[w][i])
  BY <1>1, <1>4, <1>5 DEF Order
<1>8. \A y \in Queues : \A i \in 1 .. Len(q'[y]) : StillWaits(y, q'[y][i])
  BY <1>5, <1>6, <1>7 DEF Order, Waits, StillWaits
<1>9. \A y \in Queues : \A i, j \in 1 .. Len(q'[y]) : i < j => q'[y][i].n < q'[y][j].n
  <2>1. ASSUME NEW i \in 1 .. Len(q'[w]), NEW j \in 1 .. Len(q'[w]), i < j PROVE q'[w][i].n < q'[w][j].n
    <3>1. j - 1 \in 1 .. Len(q[w]) /\ q'[w][j] = q[w][j - 1]
      BY <1>5, <2>1
    <3>2. CASE i = 1
      BY <1>4, <1>5, <3>1, <3>2
    <3>3. CASE i # 1
      <4>1. i - 1 \in 1 .. Len(q[w]) /\ q'[w][i] = q[w][i - 1] /\ i - 1 < j - 1
        BY <1>5, <2>1, <3>3
      <4>. QED
        BY <1>1, <3>1, <4>1 DEF Order
    <3>. QED
      BY <3>2, <3>3
  <2>. QED
    BY <1>5, <2>1 DEF Order
<1>. QED
  BY <1>2, <1>6, <1>8, <1>9 DEF Order, Waits, StillWaits

LEMMA OrderPurge == ASSUME Types, Order, NEW a \in Actors, Purge(a), UNCHANGED <<work, next, last>> PROVE Order'
<1>1. \A x \in Queues : q'[x] = <<>> /\ Len(q'[x]) = 0
  BY DEF Purge
<1>2. purged' < next' /\ \A x \in Queues : last'[x] < next'
  BY FrameNumbers DEF Purge, Order, Types
<1>3. work'.skb # NoFrame => StillWaits(work'.q, work'.skb)
  BY DEF Purge, Order, Waits, StillWaits
<1>4. work.q \in Queues
  BY FrameNumbers DEF Types
<1>. QED
  BY <1>1, <1>2, <1>3, <1>4 DEF Order, Waits, StillWaits

LEMMA OrderStep == ASSUME Types, Order, [Next]_vars PROVE Order'
<1>1. ASSUME OpenCall PROVE Order'
  BY <1>1, OrderSame DEF OpenCall, txVars
<1>2. ASSUME OpenWaited PROVE Order'
  BY <1>2, OrderSame DEF OpenWaited, txVars
<1>3. ASSUME OpenGaveUp PROVE Order'
  BY <1>3, OrderSame DEF OpenGaveUp, Returns, txVars
<1>4. ASSUME OpenPorts PROVE Order'
  BY <1>4, OrderSame DEF OpenPorts, Returns, txVars
<1>5. ASSUME OpenService PROVE Order'
  BY <1>5, OrderSame DEF OpenService, Returns, txVars
<1>6. ASSUME SendCommand PROVE Order'
  <2>1. "cmd" \in Queues /\ Queue("cmd", step)
    BY <1>6 DEF SendCommand, Queues
  <2>2. step \in Int
    BY BtAssumption DEF Types, ActorTypes, BtAssumption
  <2>. QED
    BY <1>6, <2>1, <2>2, OrderQueue DEF SendCommand
<1>7. ASSUME CommandAnswered PROVE Order'
  BY <1>7, OrderSame DEF CommandAnswered, commandKeeps, txVars
<1>8. ASSUME NvMissing PROVE Order'
  BY <1>8, OrderSame DEF NvMissing, commandKeeps, txVars
<1>9. ASSUME CommandTimeout PROVE Order'
  BY <1>9, OrderSame DEF CommandTimeout, commandKeeps, txVars
<1>10. ASSUME OpenUndo PROVE Order'
  BY <1>10, OrderSame DEF OpenUndo, closeKeeps, txVars
<1>11. ASSUME CloseCall PROVE Order'
  BY <1>11, OrderSame DEF CloseCall, txVars
<1>12. ASSUME CloseFlushed PROVE Order'
  BY <1>12, OrderSame DEF CloseFlushed, txVars
<1>13. ASSUME CloseWaited PROVE Order'
  BY <1>13, OrderSame DEF CloseWaited, txVars
<1>14. ASSUME Close PROVE Order'
  BY <1>14, OrderSame DEF Close, closeKeeps, txVars
<1>15. ASSUME SendFrame PROVE Order'
  BY <1>15, OrderQueue DEF SendFrame
<1>16. ASSUME WakeupEnable PROVE Order'
  <2>1. "cmd" \in Queues /\ -1 \in Int /\ Queue("cmd", -1)
    BY <1>16 DEF WakeupEnable, Queues
  <2>. QED
    BY <1>16, <2>1, OrderQueue DEF WakeupEnable
<1>17. ASSUME WorkStart PROVE Order'
  BY <1>17, OrderSame DEF WorkStart, workKeeps, Types, QueueTypes, Worker
<1>18. ASSUME WorkTake PROVE Order'
  BY <1>18, OrderTake
<1>19. ASSUME WorkTx PROVE Order'
  BY <1>19, OrderTx
<1>20. ASSUME WorkBack PROVE Order'
  BY <1>20, OrderBack
<1>21. ASSUME NEW a \in Actors, FlushCall(a) PROVE Order'
  BY <1>21, OrderPurge, OrderSame DEF FlushCall, flushKeeps
<1>22. ASSUME NEW a \in Actors, FlushWait(a) PROVE Order'
  BY <1>22, OrderPurge DEF FlushWait, flushKeeps
<1>23. ASSUME RemoveCall PROVE Order'
  BY <1>23, OrderSame DEF RemoveCall, rmKeeps, txVars
<1>24. ASSUME RemoveWaited PROVE Order'
  BY <1>24, OrderSame DEF RemoveWaited, rmKeeps, txVars
<1>25. ASSUME RemoveTear PROVE Order'
  BY <1>25, OrderSame DEF RemoveTear, rmKeeps, txVars
<1>26. ASSUME RemoveFlushed PROVE Order'
  BY <1>26, OrderSame DEF RemoveFlushed, rmKeeps, txVars
<1>27. ASSUME RemoveEnd PROVE Order'
  BY <1>27, OrderSame DEF RemoveEnd, rmKeeps, txVars
<1>28. ASSUME Probe PROVE Order'
  BY <1>28, OrderSame DEF Probe, rmKeeps, txVars
<1>29. ASSUME RxEvent PROVE Order'
  BY <1>29, OrderSame DEF RxEvent, txVars
<1>30. ASSUME NotifyAssert PROVE Order'
  BY <1>30, OrderSame DEF NotifyAssert, notifyKeeps, Listens, txVars
<1>31. ASSUME NotifyReady PROVE Order'
  BY <1>31, OrderSame DEF NotifyReady, notifyKeeps, Listens, txVars
<1>32. ASSUME NotifyFlushed PROVE Order'
  BY <1>32, OrderSame DEF NotifyFlushed, notifyKeeps, txVars
<1>33. ASSUME FwCrash PROVE Order'
  BY <1>33, OrderSame DEF FwCrash, Dies, fwKeeps, txVars
<1>34. ASSUME FwRestart PROVE Order'
  BY <1>34, OrderSame DEF FwRestart, fwKeeps, txVars
<1>35. ASSUME FwStray PROVE Order'
  BY <1>35, OrderSame DEF FwStray, fwKeeps, Stray, txVars
<1>36. ASSUME UNCHANGED vars PROVE Order'
  BY <1>36, OrderSame DEF vars, txVars
<1>. QED
  BY <1>1, <1>2, <1>3, <1>4, <1>5, <1>6, <1>7, <1>8, <1>9, <1>10, <1>11, <1>12, <1>13, <1>14, <1>15,
     <1>16, <1>17, <1>18, <1>19, <1>20, <1>21, <1>22, <1>23, <1>24, <1>25, <1>26, <1>27, <1>28, <1>29,
     <1>30, <1>31, <1>32, <1>33, <1>34, <1>35, <1>36 DEF Next, Host, Work, Flush, Remover, Rx

\* A frame goes out only from the work's hands.
LEMMA SentByWork == ASSUME Types, [Next]_vars, last' # last PROVE WorkTx /\ last' = [last EXCEPT ![work.q] = work.skb.n]
<1>1. ASSUME OpenCall PROVE FALSE
  BY <1>1 DEF OpenCall, txVars
<1>2. ASSUME OpenWaited PROVE FALSE
  BY <1>2 DEF OpenWaited, txVars
<1>3. ASSUME OpenGaveUp PROVE FALSE
  BY <1>3 DEF OpenGaveUp, Returns, txVars
<1>4. ASSUME OpenPorts PROVE FALSE
  BY <1>4 DEF OpenPorts, Returns, txVars
<1>5. ASSUME OpenService PROVE FALSE
  BY <1>5 DEF OpenService, Returns, txVars
<1>6. ASSUME SendCommand PROVE FALSE
  BY <1>6 DEF SendCommand, Queue, txVars
<1>7. ASSUME CommandAnswered PROVE FALSE
  BY <1>7 DEF CommandAnswered, commandKeeps, txVars
<1>8. ASSUME NvMissing PROVE FALSE
  BY <1>8 DEF NvMissing, commandKeeps, txVars
<1>9. ASSUME CommandTimeout PROVE FALSE
  BY <1>9 DEF CommandTimeout, commandKeeps, txVars
<1>10. ASSUME OpenUndo PROVE FALSE
  BY <1>10 DEF OpenUndo, closeKeeps, txVars
<1>11. ASSUME CloseCall PROVE FALSE
  BY <1>11 DEF CloseCall, txVars
<1>12. ASSUME CloseFlushed PROVE FALSE
  BY <1>12 DEF CloseFlushed, txVars
<1>13. ASSUME CloseWaited PROVE FALSE
  BY <1>13 DEF CloseWaited, txVars
<1>14. ASSUME Close PROVE FALSE
  BY <1>14 DEF Close, closeKeeps, txVars
<1>15. ASSUME SendFrame PROVE FALSE
  BY <1>15 DEF SendFrame, Queue, txVars
<1>16. ASSUME WakeupEnable PROVE FALSE
  BY <1>16 DEF WakeupEnable, Queue, txVars
<1>17. ASSUME WorkStart PROVE FALSE
  BY <1>17 DEF WorkStart, workKeeps, txVars
<1>18. ASSUME WorkTake PROVE FALSE
  BY <1>18 DEF WorkTake, workKeeps, txVars
<1>19. ASSUME WorkTx PROVE last' = [last EXCEPT ![work.q] = work.skb.n]
  BY <1>19 DEF WorkTx
<1>20. ASSUME WorkBack PROVE FALSE
  BY <1>20 DEF WorkBack, workKeeps, txVars
<1>21. ASSUME NEW a \in Actors, FlushCall(a) PROVE FALSE
  BY <1>21 DEF FlushCall, Purge, flushKeeps, txVars
<1>22. ASSUME NEW a \in Actors, FlushWait(a) PROVE FALSE
  BY <1>22 DEF FlushWait, Purge, flushKeeps, txVars
<1>23. ASSUME RemoveCall PROVE FALSE
  BY <1>23 DEF RemoveCall, rmKeeps, txVars
<1>24. ASSUME RemoveWaited PROVE FALSE
  BY <1>24 DEF RemoveWaited, rmKeeps, txVars
<1>25. ASSUME RemoveTear PROVE FALSE
  BY <1>25 DEF RemoveTear, rmKeeps, txVars
<1>26. ASSUME RemoveFlushed PROVE FALSE
  BY <1>26 DEF RemoveFlushed, rmKeeps, txVars
<1>27. ASSUME RemoveEnd PROVE FALSE
  BY <1>27 DEF RemoveEnd, rmKeeps, txVars
<1>28. ASSUME Probe PROVE FALSE
  BY <1>28 DEF Probe, rmKeeps, txVars
<1>29. ASSUME RxEvent PROVE FALSE
  BY <1>29 DEF RxEvent, txVars
<1>30. ASSUME NotifyAssert PROVE FALSE
  BY <1>30 DEF NotifyAssert, notifyKeeps, Listens, txVars
<1>31. ASSUME NotifyReady PROVE FALSE
  BY <1>31 DEF NotifyReady, notifyKeeps, Listens, txVars
<1>32. ASSUME NotifyFlushed PROVE FALSE
  BY <1>32 DEF NotifyFlushed, notifyKeeps, txVars
<1>33. ASSUME FwCrash PROVE FALSE
  BY <1>33 DEF FwCrash, Dies, fwKeeps, txVars
<1>34. ASSUME FwRestart PROVE FALSE
  BY <1>34 DEF FwRestart, fwKeeps, txVars
<1>35. ASSUME FwStray PROVE FALSE
  BY <1>35 DEF FwStray, fwKeeps, Stray, txVars
<1>36. ASSUME UNCHANGED vars PROVE FALSE
  BY <1>36 DEF vars, txVars
<1>. QED
  BY <1>1, <1>2, <1>3, <1>4, <1>5, <1>6, <1>7, <1>8, <1>9, <1>10, <1>11, <1>12, <1>13, <1>14, <1>15,
     <1>16, <1>17, <1>18, <1>19, <1>20, <1>21, <1>22, <1>23, <1>24, <1>25, <1>26, <1>27, <1>28, <1>29,
     <1>30, <1>31, <1>32, <1>33, <1>34, <1>35, <1>36 DEF Next, Host, Work, Flush, Remover, Rx

LEMMA SeqMonotone == ASSUME NEW S, NEW T, S \subseteq T PROVE \A s \in Seq(S) : s \in Seq(T)
<1> SUFFICES ASSUME NEW s \in Seq(S) PROVE s \in Seq(T)
  OBVIOUS
<1>1. Len(s) \in Nat /\ s \in [1 .. Len(s) -> T]
  OBVIOUS
<1>. QED
  BY <1>1, SeqDef

\* The inductive invariant.
Inv == Types /\ HostInv /\ Order

LEMMA TypesStep == ASSUME Types, [Next]_vars PROVE Types'
  BY BtAssumption, DriverTypesStep, QueueTypesStep, ActorTypesStep DEF Types

LEMMA InvAlways == Spec => []Inv
<1>1. Init => Inv
  BY InitTypes, InitHost, InitOrder DEF Inv
<1>2. Inv /\ [Next]_vars => Inv'
  <2> SUFFICES ASSUME Inv, [Next]_vars PROVE Inv'
    OBVIOUS
  <2>1. Types'
    BY TypesStep DEF Inv
  <2>2. HostInv'
    BY BtAssumption, PhaseStep, WorkingStep, FreedStep, VersionStep DEF Inv, HostInv
  <2>3. Order'
    BY OrderStep DEF Inv
  <2>. QED
    BY <2>1, <2>2, <2>3 DEF Inv
<1>. QED
  BY <1>1, <1>2, PTL DEF Spec

\* An open device has its ports, a closed one has given them back and the NV blocks sent are of the
\* chip's own format, whatever crashes, removals, late and stray events do (btseekwave_open,
\* btseekwave_close, btseekwave_download_nv, btseekwave_remove).
THEOREM HciIsSound == Spec => []HciSound
<1>1. Inv => HciSound
  <2> SUFFICES ASSUME Inv PROVE HciSound
    OBVIOUS
  <2>1. TypeOK
    <3>1. q \in [Queues -> Seq([n : Nat, c : Int])]
      <4>1. Frames \subseteq [n : Nat, c : Int]
        BY DEF Frames
      <4>2. \A x \in Queues : q[x] \in Seq([n : Nat, c : Int])
        <5>1. \A s \in Seq(Frames) : s \in Seq([n : Nat, c : Int])
          BY <4>1, SeqMonotone
        <5>. QED
          BY <5>1 DEF Inv, Types, QueueTypes
      <4>. QED
        BY <4>2 DEF Inv, Types, QueueTypes
    <3>2. work.pc \in {"idle", "run", "tx", "back"}
      BY DEF Inv, Types, QueueTypes, Worker
    <3>. QED
      BY <3>1, <3>2 DEF TypeOK, Inv, Types, DriverTypes, QueueTypes, ActorTypes, HostInv, Phase
  <2>2. UpMeansOpen /\ DownFreesPorts /\ NvMatchesChip
    BY DEF Inv, HostInv, Working, Freed, Version, UpMeansOpen, DownFreesPorts, NvMatchesChip
  <2>. QED
    BY <2>1, <2>2 DEF HciSound
<1>. QED
  BY <1>1, InvAlways, PTL

\* Frames of a queue are sent in the order in which the host gave them, each once, through faults
\* that put them back and flushes that throw them away (btseekwave_send_frame, btseekwave_flush
\* and the transmit work).
THEOREM FramesGoInOrder == Spec => SentInOrder
<1>1. Inv /\ [Next]_vars => [\A x \in Queues : last'[x] # last[x]
                              => /\ last'[x] > last[x]
                                 /\ last'[x] > purged \/ last'[x] \in held]_vars
  <2> SUFFICES ASSUME Inv, [Next]_vars, NEW x \in Queues, last'[x] # last[x]
               PROVE last'[x] > last[x] /\ (last'[x] > purged \/ last'[x] \in held)
    OBVIOUS
  <2>1. WorkTx /\ last' = [last EXCEPT ![work.q] = work.skb.n]
    BY SentByWork DEF Inv
  <2>2. x = work.q /\ last'[x] = work.skb.n /\ work.skb # NoFrame
    BY <2>1 DEF Inv, Types, QueueTypes, WorkTx
  <2>3. last[x] \in Nat /\ work.skb.n \in Nat /\ purged \in Nat
    BY <2>2, FrameNumbers DEF Inv, Types
  <2>. QED
    BY <2>2, <2>3 DEF Inv, Order, Waits
<1>. QED
  BY <1>1, InvAlways, PTL DEF Spec, SentInOrder
-----------------------------------------------------------------------------
(* The log device. *)

Half == [n : Nat, half : {1, 2}]
LogReader == [pc : {"idle", "clear", "wait", "peek", "take"}, at : Half \cup {Log!Nothing}, whole : BOOLEAN]

\* The sets the log device's variables stay in.
LogFlagTypes ==
  /\ info \in {"none", "early", "ready"} /\ odd \subseteq Log!Flags /\ pdata \in BOOLEAN /\ recv \in BOOLEAN
  /\ open \in [log : BOOLEAN, bt : BOOLEAN, chip : BOOLEAN]
  /\ wr \in {"idle", "put", "inc"} /\ bt \in {"idle", "on", "off"}
  /\ file \in {"none", "tell", "idle", "drain", "quiet"}
LogQueueTypes ==
  /\ logq \in Seq(Half) /\ got \in [bytes : Seq(Half), queued : Nat, drained : SUBSET Nat]
  /\ Len(logq) <= LogLimit + 1 /\ (wr = "put" => Len(logq) <= LogLimit)
LogReaderTypes == rd \in [LogReaders -> LogReader]
LogTypes == LogFlagTypes /\ LogQueueTypes /\ LogReaderTypes

\* While the queue does not exist nothing is in it and nobody writes to it.
LogUsers ==
  /\ info # "ready" => logq = <<>>
  /\ info = "early" => wr = "idle"
  /\ file \in {"none", "drain", "quiet"} => ~open.log
  /\ Log!GoneOnlyIdle

\* What was told to the chip last is still right, or is about to be put right.
LogChip ==
  \/ odd \cap {"crossed", "nopdata", "gone"} # {}
  \/ bt = "idle" =>
       /\ file \in {"none", "idle"} => open.chip = (open.log /\ open.bt)
       /\ file = "tell" => open.chip = FALSE \/ open.chip = (open.log /\ open.bt)

\* The packets of the queue in their order, only the first one read in part.
LogOrder ==
  /\ \A j \in 1 .. Len(logq) : logq[j].n \in 1 .. got.queued /\ (j > 1 => logq[j].half = 1)
  /\ \A i, j \in 1 .. Len(logq) : i < j => logq[i].n < logq[j].n
  /\ \A r \in LogReaders : rd[r].pc = "take" /\ rd[r].at.half = 2 => rd[r].whole

LogStream ==
  "torn" \notin odd =>
    /\ \A i \in 1 .. Len(got.bytes) : got.bytes[i].n <= got.queued
    /\ Log!StreamKept

LEMMA LogMarks == ASSUME odd \subseteq Log!Flags, NEW c, NEW f \in Log!Flags, Log!Mark(c, f)
                  PROVE odd' \subseteq Log!Flags /\ odd \subseteq odd' /\ (c => f \in odd') /\ (~c => odd' = odd)
  BY DEF Log!Mark

LEMMA HalfMoves == ASSUME LogQueueTypes, logq # <<>>
                   PROVE /\ Head(logq) \in Half /\ Tail(logq) \in Seq(Half) /\ Len(Tail(logq)) = Len(logq) - 1 /\ Head(logq) = logq[1]
                         /\ Len(logq) \in Nat \ {0} /\ \A i \in 1 .. Len(Tail(logq)) : Tail(logq)[i] = logq[i + 1]
  BY DEF LogQueueTypes

LEMMA LogPeekTypes == ASSUME LogTypes, NEW r \in LogReaders, NEW w \in BOOLEAN, Log!ReadPeek(r, w) PROVE LogReaderTypes'
<1>1. CASE logq = <<>>
  BY <1>1 DEF Log!ReadPeek, Log!Goes, LogTypes, LogReaderTypes, LogReader, Log!Reading, Log!Nothing
<1>2. CASE logq # <<>>
  <2> DEFINE c == [pc |-> "take", at |-> Head(logq), whole |-> w \/ Head(logq).half = Log!Halves]
  <2>1. Head(logq) \in Half
    BY <1>2, HalfMoves DEF LogTypes
  <2>2. (w \/ Head(logq).half = Log!Halves) \in BOOLEAN
    OBVIOUS
  <2>3. c \in LogReader
    BY <2>1, <2>2 DEF LogReader
  <2>4. rd' = [rd EXCEPT ![r] = c]
    BY <1>2 DEF Log!ReadPeek
  <2> HIDE DEF c
  <2>. QED
    BY <2>3, <2>4 DEF LogTypes, LogReaderTypes
<1>. QED
  BY <1>1, <1>2

\* What a read hands over.
LEMMA RestIs ==
  ASSUME NEW p \in Half
  PROVE /\ p.half = 1 => Log!Rest(p) = <<p, [n |-> p.n, half |-> 2]>>
        /\ p.half = 2 => Log!Rest(p) = <<p>>
        /\ p.half \in {1, 2} /\ p.n \in Nat /\ p = [n |-> p.n, half |-> p.half]
<1>1. p.half \in {1, 2} /\ p.n \in Nat /\ p = [n |-> p.n, half |-> p.half]
  BY DEF Half
<1>2. ASSUME p.half = 1 PROVE Log!Rest(p) = <<p, [n |-> p.n, half |-> 2]>>
  <2>1. Log!Rest(p) = [i \in 1 .. 2 |-> [n |-> p.n, half |-> i]]
    BY <1>2 DEF Log!Rest, Log!Halves
  <2>2. <<p, [n |-> p.n, half |-> 2]>> = [i \in 1 .. 2 |-> IF i = 1 THEN p ELSE [n |-> p.n, half |-> 2]]
    OBVIOUS
  <2>. QED
    BY <1>1, <1>2, <2>1, <2>2
<1>3. ASSUME p.half = 2 PROVE Log!Rest(p) = <<p>>
  <2>1. Log!Rest(p) = [i \in 1 .. 1 |-> p]
    BY <1>1, <1>3 DEF Log!Rest, Log!Halves
  <2>. QED
    BY <2>1
<1>. QED
  BY <1>1, <1>2, <1>3

\* A packet that is given, whole or in part: the halves given, and what stays of the queue.
Handed(r) == IF rd[r].whole THEN Log!Rest(Head(logq)) ELSE <<Head(logq)>>
Left(r) == IF rd[r].whole THEN Tail(logq) ELSE <<[Head(logq) EXCEPT !.half = @ + 1]>> \o Tail(logq)

LEMMA HandedIs ==
  ASSUME LogTypes, LogOrder, NEW r \in LogReaders, rd[r].pc = "take", logq # <<>>, Head(logq) = rd[r].at
  PROVE /\ Handed(r) \in Seq(Half) /\ Left(r) \in Seq(Half) /\ Len(Left(r)) <= Len(logq)
        /\ \A i \in 1 .. Len(Handed(r)) : Handed(r)[i].n = logq[1].n /\ Handed(r)[i].half = logq[1].half + i - 1
        /\ Len(Handed(r)) \in 1 .. 2
        /\ \/ /\ Len(Left(r)) = Len(logq) - 1 /\ \A i \in 1 .. Len(Left(r)) : Left(r)[i] = logq[i + 1]
              /\ Len(Handed(r)) = 3 - logq[1].half
           \/ /\ Len(Left(r)) = Len(logq) /\ \A i \in 2 .. Len(logq) : Left(r)[i] = logq[i]
              /\ logq[1].half = 1 /\ Left(r)[1] = [n |-> logq[1].n, half |-> 2] /\ Len(Handed(r)) = 1
<1>1. /\ Head(logq) \in Half /\ Tail(logq) \in Seq(Half) /\ Len(Tail(logq)) = Len(logq) - 1 /\ Head(logq) = logq[1]
      /\ Len(logq) \in Nat \ {0} /\ \A i \in 1 .. Len(Tail(logq)) : Tail(logq)[i] = logq[i + 1]
  BY HalfMoves DEF LogTypes
<1>2. logq[1].half \in {1, 2} /\ logq[1].n \in Nat /\ logq[1] = [n |-> logq[1].n, half |-> logq[1].half]
  BY <1>1, RestIs
<1>3. [n |-> logq[1].n, half |-> 2] \in Half
  BY <1>2 DEF Half
<1>4. CASE rd[r].whole
  <2>1. Left(r) = Tail(logq) /\ Handed(r) = Log!Rest(logq[1])
    BY <1>1, <1>4 DEF Left, Handed
  <2>2. CASE logq[1].half = 1
    <3>1. Handed(r) = <<logq[1], [n |-> logq[1].n, half |-> 2]>>
      BY <1>1, <2>1, <2>2, RestIs
    <3>. QED
      BY <1>1, <1>2, <1>3, <2>1, <2>2, <3>1
  <2>3. CASE logq[1].half = 2
    <3>1. Handed(r) = <<logq[1]>>
      BY <1>1, <2>1, <2>3, RestIs
    <3>. QED
      BY <1>1, <1>2, <2>1, <2>3, <3>1
  <2>. QED
    BY <1>2, <2>2, <2>3
<1>5. CASE ~rd[r].whole
  <2>1. logq[1].half = 1
    BY <1>1, <1>2, <1>5 DEF LogOrder
  <2>2. [Head(logq) EXCEPT !.half = @ + 1] = [n |-> logq[1].n, half |-> 2]
    BY <1>1, <1>2, <2>1
  <2>3. Left(r) = <<[n |-> logq[1].n, half |-> 2]>> \o Tail(logq) /\ Handed(r) = <<logq[1]>>
    BY <1>1, <1>5, <2>2 DEF Left, Handed
  <2> DEFINE e == [n |-> logq[1].n, half |-> 2]
  <2>4. e \in Half /\ Left(r) = <<e>> \o Tail(logq)
    BY <1>3, <2>3
  <2> HIDE DEF e
  <2>5. Left(r) \in Seq(Half) /\ Len(Left(r)) = Len(logq) /\ Left(r)[1] = e /\ \A i \in 2 .. Len(logq) : Left(r)[i] = Tail(logq)[i - 1]
    BY <1>1, <2>4
  <2>6. \A i \in 2 .. Len(logq) : Left(r)[i] = logq[i]
    BY <1>1, <2>5
  <2>. QED
    BY <1>1, <1>2, <2>1, <2>3, <2>5, <2>6 DEF e
<1>. QED
  BY <1>4, <1>5

LEMMA GotMoves ==
  ASSUME NEW B, NEW D, got \in [bytes : B, queued : Nat, drained : D], NEW b \in B, NEW d \in D
  PROVE /\ [got EXCEPT !.bytes = b] \in [bytes : B, queued : Nat, drained : D]
        /\ [got EXCEPT !.queued = got.queued + 1] \in [bytes : B, queued : Nat, drained : D]
        /\ [got EXCEPT !.drained = d] \in [bytes : B, queued : Nat, drained : D]
  OBVIOUS

LEMMA LogTakeTypes == ASSUME LogTypes, LogOrder, LogLimit \in Nat, NEW r \in LogReaders, Log!ReadTake(r) PROVE LogQueueTypes'
<1>1. CASE logq = <<>> \/ Head(logq) # rd[r].at
  <2>1. logq \in Seq(Half) /\ Len(logq) \in Nat /\ (logq' = logq \/ (logq # <<>> /\ logq' = Tail(logq)))
    <3>1. logq' = (IF rd[r].whole /\ logq # <<>> THEN Tail(logq) ELSE logq)
      BY <1>1 DEF Log!ReadTake
    <3>. QED
      BY <3>1 DEF LogTypes, LogQueueTypes
  <2>2. logq' \in Seq(Half) /\ Len(logq') <= Len(logq) /\ got' = got
    <3>1. got' = got
      BY <1>1 DEF Log!ReadTake
    <3>2. CASE logq' = logq
      BY <2>1, <3>1, <3>2
    <3>3. CASE logq # <<>> /\ logq' = Tail(logq)
      BY <2>1, <3>1, <3>3
    <3>. QED
      BY <2>1, <3>2, <3>3
  <2>. QED
    BY <2>1, <2>2 DEF Log!ReadTake, LogTypes, LogQueueTypes
<1>2. CASE ~(logq = <<>> \/ Head(logq) # rd[r].at)
  <2>1. got' = [got EXCEPT !.bytes = got.bytes \o Handed(r)] /\ logq' = Left(r)
    BY <1>2 DEF Log!ReadTake, Handed, Left
  <2>2. Handed(r) \in Seq(Half) /\ Left(r) \in Seq(Half) /\ Len(Left(r)) <= Len(logq)
    BY <1>2, HandedIs DEF Log!ReadTake
  <2>3. got' \in [bytes : Seq(Half), queued : Nat, drained : SUBSET Nat]
    <3>1. got.bytes \o Handed(r) \in Seq(Half)
      BY <2>2 DEF LogTypes, LogQueueTypes
    <3>. QED
      BY <2>1, <3>1, GotMoves DEF LogTypes, LogQueueTypes
  <2>4. Len(logq) \in Nat /\ Len(logq') \in Nat /\ Len(logq') <= Len(logq) /\ logq' \in Seq(Half) /\ wr' = wr
    BY <2>1, <2>2 DEF Log!ReadTake, LogTypes, LogQueueTypes
  <2>. QED
    BY <2>3, <2>4 DEF LogTypes, LogQueueTypes
<1>. QED
  BY <1>1, <1>2

\* What a drain throws away are packets.
LEMMA LogDrains == ASSUME LogQueueTypes, LogLimit \in Nat
                   PROVE /\ {p.n : p \in Log!ToSet(logq)} \subseteq Nat /\ <<>> \in Seq(Half) /\ Len(<<>>) = 0 /\ 0 <= LogLimit
                         /\ [got EXCEPT !.drained = @ \cup {p.n : p \in Log!ToSet(logq)}] \in [bytes : Seq(Half), queued : Nat, drained : SUBSET Nat]
<1>1. {p.n : p \in Log!ToSet(logq)} \subseteq Nat
  <2>1. \A p \in Log!ToSet(logq) : p \in Half
    BY DEF LogQueueTypes, Log!ToSet
  <2>2. \A p \in Half : p.n \in Nat
    BY DEF Half
  <2>. QED
    BY <2>1, <2>2
<1> DEFINE s == {p.n : p \in Log!ToSet(logq)}
<1> HIDE DEF s
<1>2. s \subseteq Nat => [got EXCEPT !.drained = @ \cup s] \in [bytes : Seq(Half), queued : Nat, drained : SUBSET Nat]
  <2> SUFFICES ASSUME s \subseteq Nat PROVE [got EXCEPT !.drained = @ \cup s] \in [bytes : Seq(Half), queued : Nat, drained : SUBSET Nat]
    OBVIOUS
  <2> DEFINE d == got.drained \cup s
  <2>1. d \in SUBSET Nat /\ [got EXCEPT !.drained = @ \cup s] = [got EXCEPT !.drained = d]
    BY DEF LogQueueTypes
  <2> HIDE DEF d
  <2>. QED
    BY <2>1, GotMoves DEF LogQueueTypes
<1>3. <<>> \in Seq(Half) /\ Len(<<>>) = 0 /\ 0 <= LogLimit
  OBVIOUS
<1>. QED
  BY <1>1, <1>2, <1>3 DEF s

LEMMA LogPutTypes == ASSUME LogTypes, LogLimit \in Nat, Log!DataPut PROVE LogQueueTypes'
<1>1. [n |-> got.queued + 1, half |-> 1] \in Half
  BY DEF LogTypes, LogQueueTypes, Half
<1>2. logq' \in Seq(Half) /\ Len(logq') = Len(logq) + 1
  BY <1>1 DEF Log!DataPut, LogTypes, LogQueueTypes
<1>3. got' \in [bytes : Seq(Half), queued : Nat, drained : SUBSET Nat]
  <2>1. got' = [got EXCEPT !.queued = got.queued + 1]
    BY DEF Log!DataPut
  <2>. QED
    BY <2>1, GotMoves DEF LogTypes, LogQueueTypes
<1>4. wr = "put" /\ wr' = "inc" /\ Len(logq) <= LogLimit /\ Len(logq) \in Nat
  BY DEF Log!DataPut, LogTypes, LogQueueTypes
<1>5. Len(logq') <= LogLimit + 1
  BY <1>2, <1>4
<1>. QED
  BY <1>2, <1>3, <1>4, <1>5 DEF LogQueueTypes

LEMMA LogOrderSame ==
  ASSUME LogOrder, UNCHANGED <<logq, got>>, \A r \in LogReaders : rd'[r] = rd[r] \/ rd'[r].pc # "take"
  PROVE LogOrder'
  BY DEF LogOrder

LEMMA LogGoes == ASSUME LogTypes, NEW r \in LogReaders, NEW c \in {"idle", "wait", "peek", "clear"}, Log!Goes(r, c)
                 PROVE \A x \in LogReaders : rd'[x] = rd[x] \/ rd'[x].pc # "take"
  BY DEF Log!Goes, Log!Reading, LogTypes, LogReaderTypes

LEMMA LogOrderEmpty ==
  ASSUME LogOrder, logq' = <<>>, UNCHANGED rd
  PROVE LogOrder'
<1>1. Len(logq') = 0
  OBVIOUS
<1>. QED
  BY <1>1 DEF LogOrder

LEMMA LogOrderPut == ASSUME LogTypes, LogOrder, Log!DataPut PROVE LogOrder'
<1> DEFINE e == [n |-> got.queued + 1, half |-> 1]
<1>1. e \in Half /\ e.n = got.queued + 1 /\ e.half = 1 /\ got.queued \in Nat
  BY DEF LogTypes, LogQueueTypes, Half
<1>2. got'.queued = got.queued + 1
  BY DEF Log!DataPut, LogTypes, LogQueueTypes
<1>3. logq' = Append(logq, e) /\ logq \in Seq(Half)
  BY DEF Log!DataPut, LogTypes, LogQueueTypes
<1> HIDE DEF e
<1>4. Len(logq') = Len(logq) + 1 /\ Len(logq) \in Nat /\ logq'[Len(logq) + 1] = e /\ \A i \in 1 .. Len(logq) : logq'[i] = logq[i]
  BY <1>1, <1>3
<1>5. \A j \in 1 .. Len(logq) : logq[j].n \in 1 .. got.queued /\ (j > 1 => logq[j].half = 1)
  BY DEF LogOrder
<1>6. \A j \in 1 .. Len(logq') : logq'[j].n \in 1 .. got'.queued /\ (j > 1 => logq'[j].half = 1)
  BY <1>1, <1>2, <1>4, <1>5
<1>7. ASSUME NEW i \in 1 .. Len(logq'), NEW j \in 1 .. Len(logq'), i < j PROVE logq'[i].n < logq'[j].n
  <2>1. i \in 1 .. Len(logq) /\ logq'[i] = logq[i]
    BY <1>4, <1>7
  <2>2. CASE j = Len(logq) + 1
    BY <1>1, <1>4, <1>5, <2>1, <2>2
  <2>3. CASE j \in 1 .. Len(logq)
    BY <1>4, <1>7, <2>1, <2>3 DEF LogOrder
  <2>. QED
    BY <1>4, <2>2, <2>3
<1>8. UNCHANGED rd
  BY DEF Log!DataPut
<1>. QED
  BY <1>6, <1>7, <1>8 DEF LogOrder

LEMMA LogOrderPeek == ASSUME LogTypes, LogOrder, NEW r \in LogReaders, NEW w \in BOOLEAN, Log!ReadPeek(r, w) PROVE LogOrder'
<1>1. UNCHANGED <<logq, got>>
  BY DEF Log!ReadPeek
<1>2. \A x \in LogReaders : rd'[x].pc = "take" /\ rd'[x].at.half = 2 => rd'[x].whole
  <2>1. CASE logq = <<>>
    BY <2>1, LogGoes DEF Log!ReadPeek, LogOrder
  <2>2. CASE logq # <<>>
    <3> DEFINE c == [pc |-> "take", at |-> Head(logq), whole |-> w \/ Head(logq).half = Log!Halves]
    <3>1. c.at.half = 2 => c.whole
      BY DEF Log!Halves
    <3>2. rd' = [rd EXCEPT ![r] = c]
      BY <2>2 DEF Log!ReadPeek
    <3> HIDE DEF c
    <3>3. \A x \in LogReaders : rd'[x] = IF x = r THEN c ELSE rd[x]
      BY <3>2 DEF LogTypes, LogReaderTypes
    <3>. QED
      BY <3>1, <3>3 DEF LogOrder
  <2>. QED
    BY <2>1, <2>2
<1>. QED
  BY <1>1, <1>2 DEF LogOrder

\* The queue a reader leaves keeps its order.
LEMMA LogOrderTail == ASSUME LogTypes, LogOrder, logq # <<>>, logq' = Tail(logq), got'.queued = got.queued,
                             \A x \in LogReaders : rd'[x] = rd[x] \/ rd'[x].pc # "take"
                      PROVE LogOrder'
<1>1. Len(logq') = Len(logq) - 1 /\ Len(logq) \in Nat /\ \A i \in 1 .. Len(logq') : i + 1 \in 1 .. Len(logq) /\ logq'[i] = logq[i + 1]
  BY DEF LogTypes, LogQueueTypes
<1>2. ASSUME NEW i \in 1 .. Len(logq'), NEW j \in 1 .. Len(logq'), i < j PROVE logq'[i].n < logq'[j].n
  <2>1. i + 1 \in 1 .. Len(logq) /\ j + 1 \in 1 .. Len(logq) /\ i + 1 < j + 1 /\ logq'[i] = logq[i + 1] /\ logq'[j] = logq[j + 1]
    BY <1>1, <1>2
  <2>. QED
    BY <2>1 DEF LogOrder
<1>3. ASSUME NEW j \in 1 .. Len(logq') PROVE logq'[j].n \in 1 .. got'.queued /\ (j > 1 => logq'[j].half = 1)
  <2>1. j + 1 \in 1 .. Len(logq) /\ j + 1 > 1 /\ logq'[j] = logq[j + 1]
    BY <1>1
  <2>. QED
    BY <2>1 DEF LogOrder
<1>. QED
  BY <1>2, <1>3 DEF LogOrder

LEMMA LogOrderTake == ASSUME LogTypes, LogOrder, NEW r \in LogReaders, Log!ReadTake(r) PROVE LogOrder'
<1>1. \A x \in LogReaders : rd'[x] = rd[x] \/ rd'[x].pc # "take"
  BY LogGoes DEF Log!ReadTake
<1>2. CASE logq = <<>> \/ Head(logq) # rd[r].at
  <2>1. got' = got /\ logq' = (IF rd[r].whole /\ logq # <<>> THEN Tail(logq) ELSE logq)
    BY <1>2 DEF Log!ReadTake
  <2>2. logq' = logq \/ (logq # <<>> /\ logq' = Tail(logq))
    BY <2>1
  <2>. QED
    BY <1>1, <2>1, <2>2, LogOrderTail, LogOrderSame
<1>3. CASE ~(logq = <<>> \/ Head(logq) # rd[r].at)
  <2>1. got' = [got EXCEPT !.bytes = got.bytes \o Handed(r)] /\ logq' = Left(r)
    BY <1>3 DEF Log!ReadTake, Handed, Left
  <2>2. got'.queued = got.queued
    BY <2>1 DEF LogTypes, LogQueueTypes
  <2>3. CASE rd[r].whole
    BY <1>1, <1>3, <2>1, <2>2, <2>3, LogOrderTail DEF Left
  <2>4. CASE ~rd[r].whole
    <3>1. logq' = <<[Head(logq) EXCEPT !.half = @ + 1]>> \o Tail(logq) /\ logq[1] \in Half /\ logq \in Seq(Half) /\ Len(logq) \in Nat \ {0}
      BY <1>3, <2>1, <2>4, HalfMoves DEF Left, LogTypes
    <3>2. \/ Len(logq') = Len(logq) - 1 /\ Len(Handed(r)) = 3 - logq[1].half
          \/ /\ Len(logq') = Len(logq) /\ \A i \in 2 .. Len(logq) : logq'[i] = logq[i]
             /\ logq'[1] = [n |-> logq[1].n, half |-> 2]
      BY <1>3, <2>1, HandedIs DEF Log!ReadTake
    <3>3. Len(logq') = Len(logq)
      <4>1. Head(logq) = logq[1] /\ Tail(logq) \in Seq(Half) /\ Len(Tail(logq)) = Len(logq) - 1
        BY <3>1
      <4> DEFINE e == [Head(logq) EXCEPT !.half = @ + 1]
      <4>2. logq' = <<e>> \o Tail(logq)
        BY <3>1
      <4> HIDE DEF e
      <4>. QED
        BY <3>1, <4>1, <4>2
    <3>4. logq'[1].n = logq[1].n /\ \A i \in 1 .. Len(logq) : logq'[i].n = logq[i].n /\ (i > 1 => logq'[i] = logq[i])
      <4>1. logq'[1] = [n |-> logq[1].n, half |-> 2] /\ \A i \in 2 .. Len(logq) : logq'[i] = logq[i]
        <5>1. Len(logq) \in Nat
          BY <3>1
        <5>. QED
          BY <3>2, <3>3, <5>1
      <4>2. \A i \in 1 .. Len(logq) : i = 1 \/ i \in 2 .. Len(logq)
        BY <3>1
      <4>. QED
        BY <4>1, <4>2
    <3>. QED
      BY <1>1, <2>2, <3>3, <3>4 DEF LogOrder
  <2>. QED
    BY <2>3, <2>4
<1>. QED
  BY <1>2, <1>3

\* The arithmetic of positions.
LEMMA PositionOrder ==
  ASSUME NEW x, NEW y, x.n \in Nat, y.n \in Nat, x.half \in {1, 2}, y.half \in {1, 2}
  PROVE /\ Log!Position(x) \in Int /\ Log!Position(y) \in Int
        /\ x.n < y.n => Log!Position(x) < Log!Position(y)
        /\ x.n = y.n => Log!Position(y) = Log!Position(x) + (y.half - x.half)
        /\ x.n + 1 <= y.n /\ y.n \in Nat => Log!Position(y) >= (x.n * 2) + 1
        /\ Log!Position(x) = (x.n * 2) - 2 + x.half
<1> DEFINE n == x.n
           m == y.n
           g == x.half
           h == y.half
<1>1. Log!Position(x) = (n - 1) * 2 + g /\ Log!Position(y) = (m - 1) * 2 + h
  BY DEF Log!Position, Log!Halves
<1>2. n \in Nat /\ m \in Nat /\ g \in {1, 2} /\ h \in {1, 2}
  OBVIOUS
<1> HIDE DEF n, m, g, h
<1>3. /\ (n - 1) * 2 + g \in Int /\ (m - 1) * 2 + h \in Int
      /\ n < m => (n - 1) * 2 + g < (m - 1) * 2 + h
      /\ n = m => (m - 1) * 2 + h = (n - 1) * 2 + g + (h - g)
      /\ n + 1 <= m => (m - 1) * 2 + h >= (n * 2) + 1
      /\ (n - 1) * 2 + g = (n * 2) - 2 + g
  BY <1>2
<1>. QED
  BY <1>1, <1>3 DEF n, m, g, h

LEMMA LogStreamSame == ASSUME LogStream, UNCHANGED <<logq, got>>, odd \subseteq odd' PROVE LogStream'
  BY DEF LogStream, Log!StreamKept, Log!Given, Log!Kept

LEMMA LogHalves ==
  ASSUME LogTypes
  PROVE /\ got.bytes \in Seq(Half) /\ DOMAIN got.bytes = 1 .. Len(got.bytes) /\ Len(got.bytes) \in Nat
        /\ logq \in Seq(Half) /\ DOMAIN logq = 1 .. Len(logq) /\ Len(logq) \in Nat
        /\ \A i \in 1 .. Len(got.bytes) : got.bytes[i].n \in Nat /\ got.bytes[i].half \in {1, 2}
        /\ \A i \in 1 .. Len(logq) : logq[i].n \in Nat /\ logq[i].half \in {1, 2}
        /\ got.queued \in Nat
<1>1. got.bytes \in Seq(Half) /\ logq \in Seq(Half) /\ got.queued \in Nat
  BY DEF LogTypes, LogQueueTypes
<1>2. \A p \in Half : p.n \in Nat /\ p.half \in {1, 2}
  BY DEF Half
<1>. QED
  BY <1>1, <1>2

LEMMA LogStreamDrain ==
  ASSUME LogTypes, LogStream, logq' = <<>>, got' = [got EXCEPT !.drained = @ \cup {p.n : p \in Log!ToSet(logq)}], odd \subseteq odd'
  PROVE LogStream'
<1>1. DOMAIN logq' = {}
  OBVIOUS
<1>2. got'.bytes = got.bytes /\ got'.queued = got.queued /\ got'.drained = got.drained \cup {p.n : p \in Log!ToSet(logq)}
  BY DEF LogTypes, LogQueueTypes
<1>3. \A n, h : Log!Kept(n, h) => n \in got'.drained
  BY <1>2 DEF Log!Kept, Log!ToSet
<1>4. \A n, h : Log!Given(n, h) => Log!Given(n, h)'
  BY <1>2 DEF Log!Given
<1>. QED
  BY <1>1, <1>2, <1>3, <1>4 DEF LogStream, Log!StreamKept

LEMMA LogStreamPut == ASSUME LogTypes, LogOrder, LogStream, Log!DataPut PROVE LogStream'
<1> SUFFICES ASSUME "torn" \notin odd' PROVE LogStream'
  BY DEF LogStream
<1> DEFINE e == [n |-> got.queued + 1, half |-> 1]
<1>1. e \in Half /\ e.n = got.queued + 1 /\ e.half = 1 /\ got.queued \in Nat
  BY DEF LogTypes, LogQueueTypes, Half
<1>2. got'.queued = got.queued + 1 /\ got'.bytes = got.bytes /\ got'.drained = got.drained
  BY DEF Log!DataPut, LogTypes, LogQueueTypes
<1>3. logq' = Append(logq, e) /\ logq \in Seq(Half)
  BY DEF Log!DataPut, LogTypes, LogQueueTypes
<1> HIDE DEF e
<1>4. Len(logq') = Len(logq) + 1 /\ Len(logq) \in Nat /\ logq'[Len(logq) + 1] = e /\ (\A i \in 1 .. Len(logq) : logq'[i] = logq[i])
      /\ DOMAIN logq' = 1 .. Len(logq) + 1
  BY <1>1, <1>3
<1>5. \A i \in DOMAIN got.bytes : got.bytes[i].n \in Nat /\ got.bytes[i].half \in {1, 2}
  BY LogHalves
<1>6. "torn" \notin odd
  BY DEF Log!DataPut, Log!Mark
<1>7. \A i \in 1 .. Len(got'.bytes) : got'.bytes[i].n <= got'.queued
  BY <1>1, <1>2, <1>5, <1>6, LogHalves DEF LogStream
<1>8. \A i, j \in DOMAIN got'.bytes : i < j => Log!Position(got'.bytes[i]) < Log!Position(got'.bytes[j])
  BY <1>2, <1>6 DEF LogStream, Log!StreamKept
<1>9. ASSUME NEW i \in DOMAIN got'.bytes, NEW j \in DOMAIN logq' PROVE Log!Position(got'.bytes[i]) < Log!Position(logq'[j])
  <2>1. CASE j \in 1 .. Len(logq)
    BY <1>2, <1>4, <1>6, <2>1, LogHalves DEF LogStream, Log!StreamKept
  <2>2. CASE j = Len(logq) + 1
    <3>1. got.bytes[i].n <= got.queued
      BY <1>2, <1>6, <1>9, LogHalves DEF LogStream
    <3>2. got.bytes[i].n \in Nat /\ got.bytes[i].half \in {1, 2} /\ e.n \in Nat /\ e.half \in {1, 2} /\ got.bytes[i].n < e.n
      BY <1>1, <1>2, <1>5, <1>9, <3>1
    <3>. QED
      BY <1>2, <1>4, <2>2, <3>2, PositionOrder
  <2>. QED
    BY <1>4, <2>1, <2>2
<1>10. \A i, j \in DOMAIN logq' : i < j => logq'[i].n < logq'[j].n
  BY <1>4, LogOrderPut DEF LogOrder
<1>11. ASSUME NEW n \in 1 .. got'.queued
       PROVE n \in got'.drained \/ \A h \in 1 .. Log!Halves : Log!Given(n, h)' \/ Log!Kept(n, h)'
  <2>1. CASE n = got.queued + 1
    <3>1. \A h \in 1 .. Log!Halves : logq'[Len(logq) + 1].n = n /\ logq'[Len(logq) + 1].half <= h
      BY <1>1, <1>4, <2>1
    <3>. QED
      BY <1>4, <3>1 DEF Log!Kept
  <2>2. CASE n \in 1 .. got.queued
    <3>1. n \in got.drained \/ \A h \in 1 .. Log!Halves : Log!Given(n, h) \/ Log!Kept(n, h)
      BY <1>6, <2>2 DEF LogStream, Log!StreamKept
    <3>2. \A h \in 1 .. Log!Halves : (Log!Given(n, h) => Log!Given(n, h)') /\ (Log!Kept(n, h) => Log!Kept(n, h)')
      <4>1. DOMAIN logq = 1 .. Len(logq)
        BY LogHalves
      <4>. QED
        BY <1>2, <1>4, <4>1 DEF Log!Given, Log!Kept
    <3>. QED
      BY <1>2, <3>1, <3>2
  <2>. QED
    BY <1>1, <1>2, <2>1, <2>2
<1>. QED
  BY <1>7, <1>8, <1>9, <1>10, <1>11 DEF LogStream, Log!StreamKept

LEMMA LogStreamTake == ASSUME LogTypes, LogOrder, LogStream, NEW r \in LogReaders, Log!ReadTake(r) PROVE LogStream'
<1> SUFFICES ASSUME "torn" \notin odd' PROVE LogStream'
  BY DEF LogStream
<1>1. ~(logq = <<>> \/ Head(logq) # rd[r].at) /\ odd' = odd
  BY DEF Log!ReadTake, Log!Mark
<1> DEFINE b == got.bytes
           s == Handed(r)
           p == logq[1]
<1>2. got' = [got EXCEPT !.bytes = b \o s] /\ logq' = Left(r)
  BY <1>1 DEF Log!ReadTake, Handed, Left
<1>3. got'.bytes = b \o s /\ got'.queued = got.queued /\ got'.drained = got.drained
  BY <1>2 DEF LogTypes, LogQueueTypes
<1>4. /\ s \in Seq(Half) /\ logq' \in Seq(Half) /\ Len(logq) \in Nat \ {0} /\ b \in Seq(Half) /\ Len(s) \in 1 .. 2
      /\ \A i \in 1 .. Len(s) : s[i].n = p.n /\ s[i].half = p.half + i - 1
      /\ p.n \in 1 .. got.queued /\ p.half \in {1, 2} /\ p.n \in Nat /\ got.queued \in Nat
      /\ DOMAIN logq = 1 .. Len(logq)
  <2>1. Len(logq) \in Nat \ {0}
    BY <1>1, HalfMoves DEF LogTypes
  <2>2. p.n \in 1 .. got.queued /\ p.half \in {1, 2} /\ p.n \in Nat
    <3>1. 1 \in 1 .. Len(logq)
      BY <2>1
    <3>. QED
      BY <3>1, LogHalves DEF LogOrder
  <2>3. s \in Seq(Half) /\ Left(r) \in Seq(Half) /\ Len(s) \in 1 .. 2
        /\ \A i \in 1 .. Len(s) : s[i].n = p.n /\ s[i].half = p.half + i - 1
    BY <1>1, HandedIs DEF Log!ReadTake
  <2>. QED
    BY <1>2, <2>1, <2>2, <2>3, LogHalves
<1>5. \/ /\ Len(logq') = Len(logq) - 1 /\ \A i \in 1 .. Len(logq') : logq'[i] = logq[i + 1]
         /\ Len(s) = 3 - p.half
      \/ /\ Len(logq') = Len(logq) /\ \A i \in 2 .. Len(logq) : logq'[i] = logq[i]
         /\ p.half = 1 /\ logq'[1] = [n |-> p.n, half |-> 2] /\ Len(s) = 1
  BY <1>1, <1>2, HandedIs DEF Log!ReadTake
<1> HIDE DEF b, s, p
<1>6. /\ Len(b \o s) = Len(b) + Len(s) /\ Len(b) \in Nat /\ DOMAIN (b \o s) = 1 .. Len(b) + Len(s)
      /\ (\A i \in 1 .. Len(b) : (b \o s)[i] = b[i])
      /\ (\A i \in 1 .. Len(s) : (b \o s)[Len(b) + i] = s[i]) /\ DOMAIN b = 1 .. Len(b)
      /\ DOMAIN logq' = 1 .. Len(logq')
  BY <1>4
<1>7. \A i \in 1 .. Len(b) : b[i].n \in Nat /\ b[i].half \in {1, 2} /\ b[i].n <= got.queued /\ Log!Position(b[i]) < Log!Position(p)
  <2>1. 1 \in 1 .. Len(logq)
    BY <1>4
  <2>. QED
    BY <1>1, <2>1, LogHalves DEF LogStream, Log!StreamKept, b, p
<1>8. \A i \in 1 .. Len(s) : s[i].n = p.n /\ s[i].half = p.half + i - 1 /\ Log!Position(s[i]) = Log!Position(p) + i - 1
  <2> SUFFICES ASSUME NEW i \in 1 .. Len(s)
               PROVE s[i].n = p.n /\ s[i].half = p.half + i - 1 /\ Log!Position(s[i]) = Log!Position(p) + i - 1
    OBVIOUS
  <2>1. s[i].n = p.n /\ s[i].half = p.half + i - 1 /\ s[i] \in Half
    BY <1>4
  <2>2. s[i].half \in {1, 2}
    BY <2>1, RestIs
  <2>3. Log!Position(s[i]) = Log!Position(p) + (s[i].half - p.half)
    BY <1>4, <2>1, <2>2, PositionOrder
  <2>4. Log!Position(p) \in Int /\ i \in Int
    BY <1>4, PositionOrder
  <2>. QED
    BY <1>4, <2>1, <2>3, <2>4
<1>9. \A i \in 1 .. Len(b) + Len(s) : i \in 1 .. Len(b) \/ i - Len(b) \in 1 .. Len(s)
  BY <1>4, <1>6
<1>10. \A i \in 1 .. Len(b) : Log!Position(b[i]) \in Int
  BY <1>7 DEF Log!Position, Log!Halves
<1>11. Log!Position(p) \in Int
  BY <1>4 DEF Log!Position, Log!Halves
<1>12. \A i \in 1 .. Len(got'.bytes) : got'.bytes[i].n <= got'.queued
  <2>1. ASSUME NEW i \in 1 .. Len(b) + Len(s) PROVE (b \o s)[i].n <= got.queued
    <3>1. CASE i \in 1 .. Len(b)
      BY <1>6, <1>7, <3>1
    <3>2. CASE i - Len(b) \in 1 .. Len(s)
      <4>1. (b \o s)[i] = s[i - Len(b)]
        BY <1>6, <3>2
      <4>. QED
        BY <1>4, <3>2, <4>1
    <3>. QED
      BY <1>9, <3>1, <3>2
  <2>. QED
    BY <1>3, <1>6, <2>1
<1>13. ASSUME NEW i \in 1 .. Len(b) + Len(s), NEW j \in 1 .. Len(b) + Len(s), i < j
       PROVE Log!Position((b \o s)[i]) < Log!Position((b \o s)[j])
  <2>1. CASE j \in 1 .. Len(b)
    <3>1. i \in 1 .. Len(b)
      BY <1>6, <1>13, <2>1
    <3>2. Log!Position(b[i]) < Log!Position(b[j])
      BY <1>1, <1>6, <1>13, <2>1, <3>1 DEF LogStream, Log!StreamKept, b
    <3>. QED
      BY <1>6, <2>1, <3>1, <3>2
  <2>2. CASE j - Len(b) \in 1 .. Len(s)
    <3> DEFINE k == j - Len(b)
    <3>1. (b \o s)[j] = s[k] /\ k \in 1 .. Len(s)
      BY <1>6, <2>2
    <3> HIDE DEF k
    <3>2. Log!Position((b \o s)[j]) = Log!Position(p) + k - 1 /\ k >= 1
      BY <1>4, <1>8, <3>1
    <3>3. CASE i \in 1 .. Len(b)
      BY <1>4, <1>6, <1>7, <1>10, <1>11, <3>1, <3>2, <3>3
    <3>4. CASE i - Len(b) \in 1 .. Len(s)
      <4>1. (b \o s)[i] = s[i - Len(b)] /\ i - Len(b) < k
        BY <1>6, <1>13, <3>4 DEF k
      <4>2. Log!Position((b \o s)[i]) = Log!Position(p) + (i - Len(b)) - 1
        BY <1>8, <3>4, <4>1
      <4>. QED
        BY <1>4, <1>6, <1>11, <3>1, <3>2, <4>1, <4>2
    <3>. QED
      BY <1>9, <3>3, <3>4
  <2>. QED
    BY <1>9, <2>1, <2>2
\* What stays behind the packet is younger; what stays of it comes behind what was given.
<1>14. \A k \in 1 .. Len(logq') : logq'[k].n \in Nat /\ logq'[k].half \in {1, 2}
         /\ (logq'[k].n > p.n \/ (logq'[k].n = p.n /\ logq'[k].half > p.half + Len(s) - 1))
  <2>1. \A k \in 2 .. Len(logq) : logq[k].n > p.n /\ logq[k].n \in Nat /\ logq[k].half \in {1, 2}
    <3>1. \A k \in 1 .. Len(logq) : logq[k].n \in Nat /\ logq[k].half \in {1, 2}
      BY LogHalves
    <3>2. \A k \in 2 .. Len(logq) : 1 \in 1 .. Len(logq) /\ k \in 1 .. Len(logq) /\ 1 < k
      BY <1>4
    <3>. QED
      BY <1>4, <3>1, <3>2 DEF LogOrder, p
  <2>2. CASE Len(logq') = Len(logq) - 1 /\ \A i \in 1 .. Len(logq') : logq'[i] = logq[i + 1]
    <3>1. \A k \in 1 .. Len(logq') : k + 1 \in 2 .. Len(logq)
      BY <1>4, <2>2
    <3>. QED
      BY <2>1, <2>2, <3>1
  <2>3. CASE /\ Len(logq') = Len(logq) /\ \A i \in 2 .. Len(logq) : logq'[i] = logq[i]
             /\ p.half = 1 /\ logq'[1] = [n |-> p.n, half |-> 2] /\ Len(s) = 1
    <3>1. \A k \in 1 .. Len(logq') : k = 1 \/ k \in 2 .. Len(logq)
      BY <1>4, <2>3
    <3>2. logq'[1].n = p.n /\ logq'[1].half = 2
      BY <2>3
    <3>. QED
      BY <1>4, <2>1, <2>3, <3>1, <3>2
  <2>. QED
    BY <1>5, <2>2, <2>3
<1>15. ASSUME NEW i \in 1 .. Len(b) + Len(s), NEW k \in 1 .. Len(logq') PROVE Log!Position((b \o s)[i]) < Log!Position(logq'[k])
  <2>1. Log!Position(logq'[k]) > Log!Position(p) + Len(s) - 1 /\ Log!Position(logq'[k]) \in Int
    <3> DEFINE e == logq'[k]
    <3>1. e.n \in Nat /\ e.half \in {1, 2} /\ (e.n > p.n \/ (e.n = p.n /\ e.half > p.half + Len(s) - 1))
      BY <1>14
    <3> HIDE DEF e
    <3> DEFINE h == p.half
               l == Len(s)
               n == p.n
    <3>0. h \in 1 .. 2 /\ l \in 1 .. 2 /\ n \in Nat
      BY <1>4
    <3>4. l = 3 - h \/ (h = 1 /\ l = 1)
      BY <1>5
    <3>5. e.half \in {1, 2} /\ e.n \in Nat /\ (e.n > n \/ (e.n = n /\ e.half > h + l - 1))
      BY <3>1
    <3>6. e.n = n => Log!Position(e) = Log!Position(p) + (e.half - h) /\ Log!Position(p) \in Int /\ Log!Position(e) \in Int
      BY <1>4, <3>1, PositionOrder
    <3>7. n + 1 <= e.n => Log!Position(e) >= (n * 2) + 1 /\ Log!Position(p) = (n * 2) - 2 + h /\ Log!Position(e) \in Int
      BY <1>4, <3>1, PositionOrder
    <3> HIDE DEF h, l, n
    <3>8. Log!Position(e) > Log!Position(p) + l - 1 /\ Log!Position(e) \in Int
      <4>1. CASE e.n = n /\ e.half > h + l - 1
        BY <3>0, <3>5, <3>6, <4>1
      <4>2. CASE e.n > n
        <5>1. h + l - 1 <= 2 /\ n * 2 \in Int /\ n + 1 <= e.n
          BY <3>0, <3>4, <3>5, <4>2
        <5>. QED
          BY <3>0, <3>7, <5>1
      <4>. QED
        BY <3>5, <4>1, <4>2
    <3>. QED
      BY <3>8 DEF e, l
  <2>2. CASE i \in 1 .. Len(b)
    BY <1>4, <1>6, <1>7, <1>10, <1>11, <2>1, <2>2
  <2>3. CASE i - Len(b) \in 1 .. Len(s)
    <3>1. (b \o s)[i] = s[i - Len(b)]
      BY <1>6, <2>3
    <3>2. Log!Position((b \o s)[i]) = Log!Position(p) + (i - Len(b)) - 1
      BY <1>8, <2>3, <3>1
    <3>. QED
      BY <1>4, <1>6, <1>11, <2>1, <2>3, <3>2
  <2>. QED
    BY <1>9, <2>2, <2>3
<1>16. LogOrder'
  BY LogOrderTake
<1>17. \A n, h : Log!Given(n, h) => Log!Given(n, h)'
  BY <1>3, <1>6 DEF Log!Given, b
<1>18. ASSUME NEW n \in 1 .. got.queued, NEW h \in 1 .. Log!Halves, Log!Kept(n, h) PROVE Log!Given(n, h)' \/ Log!Kept(n, h)'
  <2>1. PICK k \in 1 .. Len(logq) : logq[k].n = n /\ logq[k].half <= h
    BY <1>4, <1>18 DEF Log!Kept
  <2>2. CASE k # 1
    <3>1. k - 1 \in 1 .. Len(logq) - 1 /\ k \in 2 .. Len(logq) /\ (k - 1) + 1 = k
      BY <1>4, <2>1, <2>2
    <3>2. \/ k - 1 \in DOMAIN logq' /\ logq'[k - 1] = logq[k]
          \/ k \in DOMAIN logq' /\ logq'[k] = logq[k]
      BY <1>5, <1>6, <3>1
    <3>. QED
      BY <2>1, <3>2 DEF Log!Kept
  <2>3. CASE k = 1
    <3>1. n = p.n /\ p.half <= h /\ h \in 1 .. 2
      BY <2>1, <2>3 DEF p, Log!Halves
    <3>2. ASSUME NEW i \in 1 .. Len(s), s[i].half = h PROVE Log!Given(n, h)'
      <4>1. s[i] = [n |-> n, half |-> h]
        <5>1. s[i] \in Half
          BY <1>4
        <5>2. s[i] = [n |-> s[i].n, half |-> s[i].half]
          BY <5>1, RestIs
        <5>. QED
          BY <1>8, <3>1, <3>2, <5>2
      <4>2. Len(b) + i \in DOMAIN (b \o s) /\ (b \o s)[Len(b) + i] = s[i]
        BY <1>4, <1>6
      <4>. QED
        BY <1>3, <4>1, <4>2 DEF Log!Given
    <3>3. CASE Len(s) = 3 - p.half
      <4>1. h - p.half + 1 \in 1 .. Len(s) /\ p.half + (h - p.half + 1) - 1 = h
        BY <1>4, <3>1, <3>3
      <4>2. s[h - p.half + 1].half = h
        BY <1>8, <4>1
      <4>. QED
        BY <3>2, <4>1, <4>2
    <3>4. CASE Len(logq') = Len(logq) /\ p.half = 1 /\ logq'[1] = [n |-> p.n, half |-> 2] /\ Len(s) = 1
      <4>1. CASE h = 1
        <5>1. 1 \in 1 .. Len(s) /\ s[1].half = h
          BY <1>8, <3>4, <4>1
        <5>. QED
          BY <3>2, <5>1
      <4>2. CASE h = 2
        <5>1. 1 \in DOMAIN logq' /\ logq'[1].n = n /\ logq'[1].half <= h
          BY <1>4, <1>6, <3>1, <3>4, <4>2
        <5>. QED
          BY <5>1 DEF Log!Kept
      <4>. QED
        BY <3>1, <4>1, <4>2
    <3>. QED
      BY <1>5, <3>3, <3>4
  <2>. QED
    BY <2>2, <2>3
<1>19. \A n \in 1 .. got.queued : n \in got.drained \/ \A h \in 1 .. Log!Halves : Log!Given(n, h)' \/ Log!Kept(n, h)'
  BY <1>1, <1>17, <1>18 DEF LogStream, Log!StreamKept
<1>. QED
  BY <1>3, <1>4, <1>6, <1>12, <1>13, <1>15, <1>16, <1>19 DEF LogStream, Log!StreamKept, LogOrder

LEMMA LogFlagTypesStep == ASSUME LogTypes, [Log!Next]_Log!vars PROVE LogFlagTypes'
<1>1. ASSUME Log!PortInit PROVE LogFlagTypes'
  BY <1>1 DEF Log!PortInit, LogTypes, LogFlagTypes, Log!Flags
<1>2. ASSUME NEW v \in BOOLEAN, Log!SetPdata(v) PROVE LogFlagTypes'
  BY <1>2 DEF Log!SetPdata, Log!Call, LogTypes, LogFlagTypes, Log!Flags
<1>3. ASSUME Log!PortExit PROVE LogFlagTypes'
  BY <1>3 DEF Log!PortExit, Log!Call, Log!Mark, LogTypes, LogFlagTypes, Log!Flags
<1>4. ASSUME Log!PortOpen PROVE LogFlagTypes'
  BY <1>4 DEF Log!PortOpen, Log!Call, LogTypes, LogFlagTypes, Log!Flags
<1>5. ASSUME Log!Alive, Log!PortOpenTell PROVE LogFlagTypes'
  BY <1>5 DEF Log!PortOpenTell, Log!Tell, LogTypes, LogFlagTypes, Log!Flags
<1>6. ASSUME Log!Alive, Log!PortFlush PROVE LogFlagTypes'
  BY <1>6 DEF Log!PortFlush, Log!Call, Log!Drain, LogTypes, LogFlagTypes, Log!Flags
<1>7. ASSUME Log!Alive, Log!PortRelease PROVE LogFlagTypes'
  BY <1>7 DEF Log!PortRelease, LogTypes, LogFlagTypes, Log!Flags
<1>8. ASSUME Log!Alive, Log!PortReleaseDrain PROVE LogFlagTypes'
  BY <1>8 DEF Log!PortReleaseDrain, Log!Drain, LogTypes, LogFlagTypes, Log!Flags
<1>9. ASSUME Log!Alive, Log!PortReleaseTell PROVE LogFlagTypes'
  BY <1>9 DEF Log!PortReleaseTell, Log!Tell, LogTypes, LogFlagTypes, Log!Flags
<1>10. ASSUME Log!SetBtOpen PROVE LogFlagTypes'
  BY <1>10 DEF Log!SetBtOpen, Log!Call, LogTypes, LogFlagTypes, Log!Flags
<1>11. ASSUME Log!Alive, Log!SetBtOpenTell PROVE LogFlagTypes'
  BY <1>11 DEF Log!SetBtOpenTell, Log!Tell, LogTypes, LogFlagTypes, Log!Flags
<1>12. ASSUME Log!DataWrite PROVE LogFlagTypes'
  BY <1>12 DEF Log!DataWrite, LogTypes, LogFlagTypes, Log!Flags
<1>13. ASSUME Log!Alive, Log!DataPut PROVE LogFlagTypes'
  BY <1>13 DEF Log!DataPut, Log!Mark, LogTypes, LogFlagTypes, Log!Flags
<1>14. ASSUME Log!Alive, Log!DataInc PROVE LogFlagTypes'
  BY <1>14 DEF Log!DataInc, LogTypes, LogFlagTypes, Log!Flags
<1>15. ASSUME NEW r \in LogReaders, Log!ReadStart(r) PROVE LogFlagTypes'
  BY <1>15 DEF Log!ReadStart, Log!Goes, LogTypes, LogFlagTypes, Log!Flags
<1>16. ASSUME NEW r \in LogReaders, Log!Alive, Log!ReadClear(r) PROVE LogFlagTypes'
  BY <1>16 DEF Log!ReadClear, Log!Goes, Log!Mark, LogTypes, LogFlagTypes, Log!Flags
<1>17. ASSUME NEW r \in LogReaders, Log!Alive, Log!ReadWake(r) PROVE LogFlagTypes'
  BY <1>17 DEF Log!ReadWake, Log!Goes, LogTypes, LogFlagTypes, Log!Flags
<1>18. ASSUME NEW r \in LogReaders, NEW w \in BOOLEAN, Log!Alive, Log!ReadPeek(r, w) PROVE LogFlagTypes'
  BY <1>18 DEF Log!ReadPeek, Log!Goes, LogTypes, LogFlagTypes, Log!Flags
<1>19. ASSUME NEW r \in LogReaders, Log!Alive, Log!ReadTake(r) PROVE LogFlagTypes'
  BY <1>19 DEF Log!ReadTake, Log!Goes, Log!Mark, LogTypes, LogFlagTypes, Log!Flags
<1>20. ASSUME UNCHANGED Log!vars PROVE LogFlagTypes'
  BY <1>20 DEF Log!vars, LogTypes, LogFlagTypes, Log!Flags
<1>. QED
  BY <1>1, <1>2, <1>3, <1>4, <1>5, <1>6, <1>7, <1>8, <1>9, <1>10, <1>11, <1>12, <1>13, <1>14, <1>15,
     <1>16, <1>17, <1>18, <1>19, <1>20 DEF Log!Next, Log!Reader, Log!Writer, Log!FileStep

LEMMA LogReaderTypesStep == ASSUME LogTypes, [Log!Next]_Log!vars PROVE LogReaderTypes'
<1>1. ASSUME Log!PortInit PROVE LogReaderTypes'
  BY <1>1 DEF Log!PortInit, LogTypes, LogReaderTypes, LogQueueTypes, LogReader, Log!Reading, Log!Nothing
<1>2. ASSUME NEW v \in BOOLEAN, Log!SetPdata(v) PROVE LogReaderTypes'
  BY <1>2 DEF Log!SetPdata, Log!Call, LogTypes, LogReaderTypes, LogQueueTypes, LogReader, Log!Reading,
     Log!Nothing
<1>3. ASSUME Log!PortExit PROVE LogReaderTypes'
  BY <1>3 DEF Log!PortExit, Log!Call, Log!Mark, LogTypes, LogReaderTypes, LogQueueTypes, LogReader,
     Log!Reading, Log!Nothing
<1>4. ASSUME Log!PortOpen PROVE LogReaderTypes'
  BY <1>4 DEF Log!PortOpen, Log!Call, LogTypes, LogReaderTypes, LogQueueTypes, LogReader, Log!Reading,
     Log!Nothing
<1>5. ASSUME Log!Alive, Log!PortOpenTell PROVE LogReaderTypes'
  BY <1>5 DEF Log!PortOpenTell, Log!Tell, LogTypes, LogReaderTypes, LogQueueTypes, LogReader,
     Log!Reading, Log!Nothing
<1>6. ASSUME Log!Alive, Log!PortFlush PROVE LogReaderTypes'
  BY <1>6 DEF Log!PortFlush, Log!Call, Log!Drain, LogTypes, LogReaderTypes, LogQueueTypes, LogReader,
     Log!Reading, Log!Nothing
<1>7. ASSUME Log!Alive, Log!PortRelease PROVE LogReaderTypes'
  BY <1>7 DEF Log!PortRelease, LogTypes, LogReaderTypes, LogQueueTypes, LogReader, Log!Reading,
     Log!Nothing
<1>8. ASSUME Log!Alive, Log!PortReleaseDrain PROVE LogReaderTypes'
  BY <1>8 DEF Log!PortReleaseDrain, Log!Drain, LogTypes, LogReaderTypes, LogQueueTypes, LogReader,
     Log!Reading, Log!Nothing
<1>9. ASSUME Log!Alive, Log!PortReleaseTell PROVE LogReaderTypes'
  BY <1>9 DEF Log!PortReleaseTell, Log!Tell, LogTypes, LogReaderTypes, LogQueueTypes, LogReader,
     Log!Reading, Log!Nothing
<1>10. ASSUME Log!SetBtOpen PROVE LogReaderTypes'
  BY <1>10 DEF Log!SetBtOpen, Log!Call, LogTypes, LogReaderTypes, LogQueueTypes, LogReader, Log!Reading,
     Log!Nothing
<1>11. ASSUME Log!Alive, Log!SetBtOpenTell PROVE LogReaderTypes'
  BY <1>11 DEF Log!SetBtOpenTell, Log!Tell, LogTypes, LogReaderTypes, LogQueueTypes, LogReader,
     Log!Reading, Log!Nothing
<1>12. ASSUME Log!DataWrite PROVE LogReaderTypes'
  BY <1>12 DEF Log!DataWrite, LogTypes, LogReaderTypes, LogQueueTypes, LogReader, Log!Reading,
     Log!Nothing
<1>13. ASSUME Log!Alive, Log!DataPut PROVE LogReaderTypes'
  BY <1>13 DEF Log!DataPut, Log!Mark, LogTypes, LogReaderTypes, LogQueueTypes, LogReader, Log!Reading,
     Log!Nothing
<1>14. ASSUME Log!Alive, Log!DataInc PROVE LogReaderTypes'
  BY <1>14 DEF Log!DataInc, LogTypes, LogReaderTypes, LogQueueTypes, LogReader, Log!Reading, Log!Nothing
<1>15. ASSUME NEW r \in LogReaders, Log!ReadStart(r) PROVE LogReaderTypes'
  BY <1>15 DEF Log!ReadStart, Log!Goes, LogTypes, LogReaderTypes, LogQueueTypes, LogReader, Log!Reading,
     Log!Nothing
<1>16. ASSUME NEW r \in LogReaders, Log!Alive, Log!ReadClear(r) PROVE LogReaderTypes'
  BY <1>16 DEF Log!ReadClear, Log!Goes, Log!Mark, LogTypes, LogReaderTypes, LogQueueTypes, LogReader,
     Log!Reading, Log!Nothing
<1>17. ASSUME NEW r \in LogReaders, Log!Alive, Log!ReadWake(r) PROVE LogReaderTypes'
  BY <1>17 DEF Log!ReadWake, Log!Goes, LogTypes, LogReaderTypes, LogQueueTypes, LogReader, Log!Reading,
     Log!Nothing
<1>18. ASSUME NEW r \in LogReaders, NEW w \in BOOLEAN, Log!Alive, Log!ReadPeek(r, w) PROVE LogReaderTypes'
  BY <1>18, LogPeekTypes
<1>19. ASSUME NEW r \in LogReaders, Log!Alive, Log!ReadTake(r) PROVE LogReaderTypes'
  BY <1>19 DEF Log!ReadTake, Log!Goes, Log!Mark, LogTypes, LogReaderTypes, LogQueueTypes, LogReader,
     Log!Reading, Log!Nothing
<1>20. ASSUME UNCHANGED Log!vars PROVE LogReaderTypes'
  BY <1>20 DEF Log!vars, LogTypes, LogReaderTypes, LogQueueTypes, LogReader, Log!Reading, Log!Nothing
<1>. QED
  BY <1>1, <1>2, <1>3, <1>4, <1>5, <1>6, <1>7, <1>8, <1>9, <1>10, <1>11, <1>12, <1>13, <1>14, <1>15,
     <1>16, <1>17, <1>18, <1>19, <1>20 DEF Log!Next, Log!Reader, Log!Writer, Log!FileStep

LEMMA LogQueueTypesStep == ASSUME LogTypes, LogOrder, LogLimit \in Nat, [Log!Next]_Log!vars PROVE LogQueueTypes'
<1>1. ASSUME Log!PortInit PROVE LogQueueTypes'
  BY <1>1, LogDrains DEF Log!PortInit, LogTypes, LogQueueTypes
<1>2. ASSUME NEW v \in BOOLEAN, Log!SetPdata(v) PROVE LogQueueTypes'
  BY <1>2 DEF Log!SetPdata, Log!Call, LogTypes, LogFlagTypes, LogQueueTypes
<1>3. ASSUME Log!PortExit PROVE LogQueueTypes'
  BY <1>3, LogDrains DEF Log!PortExit, LogTypes, LogQueueTypes
<1>4. ASSUME Log!PortOpen PROVE LogQueueTypes'
  BY <1>4 DEF Log!PortOpen, Log!Call, LogTypes, LogFlagTypes, LogQueueTypes
<1>5. ASSUME Log!Alive, Log!PortOpenTell PROVE LogQueueTypes'
  BY <1>5 DEF Log!PortOpenTell, Log!Tell, LogTypes, LogFlagTypes, LogQueueTypes
<1>6. ASSUME Log!Alive, Log!PortFlush PROVE LogQueueTypes'
  BY <1>6, LogDrains DEF Log!PortFlush, Log!Drain, LogTypes, LogQueueTypes
<1>7. ASSUME Log!Alive, Log!PortRelease PROVE LogQueueTypes'
  BY <1>7 DEF Log!PortRelease, LogTypes, LogFlagTypes, LogQueueTypes
<1>8. ASSUME Log!Alive, Log!PortReleaseDrain PROVE LogQueueTypes'
  BY <1>8, LogDrains DEF Log!PortReleaseDrain, Log!Drain, LogTypes, LogQueueTypes
<1>9. ASSUME Log!Alive, Log!PortReleaseTell PROVE LogQueueTypes'
  BY <1>9 DEF Log!PortReleaseTell, Log!Tell, LogTypes, LogFlagTypes, LogQueueTypes
<1>10. ASSUME Log!SetBtOpen PROVE LogQueueTypes'
  BY <1>10 DEF Log!SetBtOpen, Log!Call, LogTypes, LogFlagTypes, LogQueueTypes
<1>11. ASSUME Log!Alive, Log!SetBtOpenTell PROVE LogQueueTypes'
  BY <1>11 DEF Log!SetBtOpenTell, Log!Tell, LogTypes, LogFlagTypes, LogQueueTypes
<1>12. ASSUME Log!DataWrite PROVE LogQueueTypes'
  BY <1>12 DEF Log!DataWrite, LogTypes, LogFlagTypes, LogQueueTypes
<1>13. ASSUME Log!Alive, Log!DataPut PROVE LogQueueTypes'
  BY <1>13, LogPutTypes
<1>14. ASSUME Log!Alive, Log!DataInc PROVE LogQueueTypes'
  BY <1>14 DEF Log!DataInc, LogTypes, LogFlagTypes, LogQueueTypes
<1>15. ASSUME NEW r \in LogReaders, Log!ReadStart(r) PROVE LogQueueTypes'
  BY <1>15 DEF Log!ReadStart, Log!Goes, LogTypes, LogFlagTypes, LogQueueTypes
<1>16. ASSUME NEW r \in LogReaders, Log!Alive, Log!ReadClear(r) PROVE LogQueueTypes'
  BY <1>16 DEF Log!ReadClear, Log!Goes, Log!Mark, LogTypes, LogFlagTypes, LogQueueTypes
<1>17. ASSUME NEW r \in LogReaders, Log!Alive, Log!ReadWake(r) PROVE LogQueueTypes'
  BY <1>17 DEF Log!ReadWake, Log!Goes, LogTypes, LogFlagTypes, LogQueueTypes
<1>18. ASSUME NEW r \in LogReaders, NEW w \in BOOLEAN, Log!Alive, Log!ReadPeek(r, w) PROVE LogQueueTypes'
  BY <1>18 DEF Log!ReadPeek, Log!Goes, LogTypes, LogFlagTypes, LogQueueTypes
<1>19. ASSUME NEW r \in LogReaders, Log!Alive, Log!ReadTake(r) PROVE LogQueueTypes'
  BY <1>19, LogTakeTypes
<1>20. ASSUME UNCHANGED Log!vars PROVE LogQueueTypes'
  BY <1>20 DEF Log!vars, LogTypes, LogFlagTypes, LogQueueTypes
<1>. QED
  BY <1>1, <1>2, <1>3, <1>4, <1>5, <1>6, <1>7, <1>8, <1>9, <1>10, <1>11, <1>12, <1>13, <1>14, <1>15,
     <1>16, <1>17, <1>18, <1>19, <1>20 DEF Log!Next, Log!Reader, Log!Writer, Log!FileStep

LEMMA LogUsersStep == ASSUME LogTypes, LogUsers, [Log!Next]_Log!vars PROVE LogUsers'
<1>1. ASSUME Log!PortInit PROVE LogUsers'
  BY <1>1 DEF Log!PortInit, LogTypes, LogFlagTypes, LogQueueTypes, LogUsers, Log!GoneOnlyIdle, Log!Alive
<1>2. ASSUME NEW v \in BOOLEAN, Log!SetPdata(v) PROVE LogUsers'
  BY <1>2 DEF Log!SetPdata, Log!Call, LogTypes, LogFlagTypes, LogQueueTypes, LogUsers, Log!GoneOnlyIdle,
     Log!Alive
<1>3. ASSUME Log!PortExit PROVE LogUsers'
  BY <1>3 DEF Log!PortExit, Log!Call, Log!Mark, LogTypes, LogFlagTypes, LogQueueTypes, LogUsers,
     Log!GoneOnlyIdle, Log!Alive
<1>4. ASSUME Log!PortOpen PROVE LogUsers'
  BY <1>4 DEF Log!PortOpen, Log!Call, LogTypes, LogFlagTypes, LogQueueTypes, LogUsers, Log!GoneOnlyIdle,
     Log!Alive
<1>5. ASSUME Log!Alive, Log!PortOpenTell PROVE LogUsers'
  BY <1>5 DEF Log!PortOpenTell, Log!Tell, LogTypes, LogFlagTypes, LogQueueTypes, LogUsers,
     Log!GoneOnlyIdle, Log!Alive
<1>6. ASSUME Log!Alive, Log!PortFlush PROVE LogUsers'
  BY <1>6 DEF Log!PortFlush, Log!Call, Log!Drain, LogTypes, LogFlagTypes, LogQueueTypes, LogUsers,
     Log!GoneOnlyIdle, Log!Alive
<1>7. ASSUME Log!Alive, Log!PortRelease PROVE LogUsers'
  BY <1>7 DEF Log!PortRelease, LogTypes, LogFlagTypes, LogQueueTypes, LogUsers, Log!GoneOnlyIdle,
     Log!Alive
<1>8. ASSUME Log!Alive, Log!PortReleaseDrain PROVE LogUsers'
  BY <1>8 DEF Log!PortReleaseDrain, Log!Drain, LogTypes, LogFlagTypes, LogQueueTypes, LogUsers,
     Log!GoneOnlyIdle, Log!Alive
<1>9. ASSUME Log!Alive, Log!PortReleaseTell PROVE LogUsers'
  BY <1>9 DEF Log!PortReleaseTell, Log!Tell, LogTypes, LogFlagTypes, LogQueueTypes, LogUsers,
     Log!GoneOnlyIdle, Log!Alive
<1>10. ASSUME Log!SetBtOpen PROVE LogUsers'
  BY <1>10 DEF Log!SetBtOpen, Log!Call, LogTypes, LogFlagTypes, LogQueueTypes, LogUsers,
     Log!GoneOnlyIdle, Log!Alive
<1>11. ASSUME Log!Alive, Log!SetBtOpenTell PROVE LogUsers'
  BY <1>11 DEF Log!SetBtOpenTell, Log!Tell, LogTypes, LogFlagTypes, LogQueueTypes, LogUsers,
     Log!GoneOnlyIdle, Log!Alive
<1>12. ASSUME Log!DataWrite PROVE LogUsers'
  BY <1>12 DEF Log!DataWrite, LogTypes, LogFlagTypes, LogQueueTypes, LogUsers, Log!GoneOnlyIdle,
     Log!Alive
<1>13. ASSUME Log!Alive, Log!DataPut PROVE LogUsers'
  BY <1>13 DEF Log!DataPut, Log!Mark, LogTypes, LogFlagTypes, LogQueueTypes, LogUsers, Log!GoneOnlyIdle,
     Log!Alive
<1>14. ASSUME Log!Alive, Log!DataInc PROVE LogUsers'
  BY <1>14 DEF Log!DataInc, LogTypes, LogFlagTypes, LogQueueTypes, LogUsers, Log!GoneOnlyIdle, Log!Alive
<1>15. ASSUME NEW r \in LogReaders, Log!ReadStart(r) PROVE LogUsers'
  BY <1>15 DEF Log!ReadStart, Log!Goes, LogTypes, LogFlagTypes, LogQueueTypes, LogUsers,
     Log!GoneOnlyIdle, Log!Alive
<1>16. ASSUME NEW r \in LogReaders, Log!Alive, Log!ReadClear(r) PROVE LogUsers'
  BY <1>16 DEF Log!ReadClear, Log!Goes, Log!Mark, LogTypes, LogFlagTypes, LogQueueTypes, LogUsers,
     Log!GoneOnlyIdle, Log!Alive
<1>17. ASSUME NEW r \in LogReaders, Log!Alive, Log!ReadWake(r) PROVE LogUsers'
  BY <1>17 DEF Log!ReadWake, Log!Goes, LogTypes, LogFlagTypes, LogQueueTypes, LogUsers,
     Log!GoneOnlyIdle, Log!Alive
<1>18. ASSUME NEW r \in LogReaders, NEW w \in BOOLEAN, Log!Alive, Log!ReadPeek(r, w) PROVE LogUsers'
  BY <1>18 DEF Log!ReadPeek, Log!Goes, LogTypes, LogFlagTypes, LogQueueTypes, LogUsers,
     Log!GoneOnlyIdle, Log!Alive
<1>19. ASSUME NEW r \in LogReaders, Log!Alive, Log!ReadTake(r) PROVE LogUsers'
  BY <1>19 DEF Log!ReadTake, Log!Goes, Log!Mark, LogTypes, LogFlagTypes, LogQueueTypes, LogUsers,
     Log!GoneOnlyIdle, Log!Alive
<1>20. ASSUME UNCHANGED Log!vars PROVE LogUsers'
  BY <1>20 DEF Log!vars, LogTypes, LogFlagTypes, LogQueueTypes, LogUsers, Log!GoneOnlyIdle, Log!Alive
<1>. QED
  BY <1>1, <1>2, <1>3, <1>4, <1>5, <1>6, <1>7, <1>8, <1>9, <1>10, <1>11, <1>12, <1>13, <1>14, <1>15,
     <1>16, <1>17, <1>18, <1>19, <1>20 DEF Log!Next, Log!Reader, Log!Writer, Log!FileStep

LEMMA LogChipStep == ASSUME LogTypes, LogUsers, LogChip, [Log!Next]_Log!vars PROVE LogChip'
<1>1. ASSUME Log!PortInit PROVE LogChip'
  BY <1>1 DEF Log!PortInit, LogTypes, LogFlagTypes, LogUsers, LogChip
<1>2. ASSUME NEW v \in BOOLEAN, Log!SetPdata(v) PROVE LogChip'
  BY <1>2 DEF Log!SetPdata, Log!Call, LogTypes, LogFlagTypes, LogUsers, LogChip
<1>3. ASSUME Log!PortExit PROVE LogChip'
  BY <1>3 DEF Log!PortExit, Log!Call, Log!Mark, LogTypes, LogFlagTypes, LogUsers, LogChip
<1>4. ASSUME Log!PortOpen PROVE LogChip'
  BY <1>4 DEF Log!PortOpen, Log!Call, LogTypes, LogFlagTypes, LogUsers, LogChip
<1>5. ASSUME Log!Alive, Log!PortOpenTell PROVE LogChip'
  BY <1>5 DEF Log!PortOpenTell, Log!Tell, LogTypes, LogFlagTypes, LogUsers, LogChip
<1>6. ASSUME Log!Alive, Log!PortFlush PROVE LogChip'
  BY <1>6 DEF Log!PortFlush, Log!Call, Log!Drain, LogTypes, LogFlagTypes, LogUsers, LogChip
<1>7. ASSUME Log!Alive, Log!PortRelease PROVE LogChip'
  BY <1>7 DEF Log!PortRelease, LogTypes, LogFlagTypes, LogUsers, LogChip
<1>8. ASSUME Log!Alive, Log!PortReleaseDrain PROVE LogChip'
  BY <1>8 DEF Log!PortReleaseDrain, Log!Drain, LogTypes, LogFlagTypes, LogUsers, LogChip
<1>9. ASSUME Log!Alive, Log!PortReleaseTell PROVE LogChip'
  BY <1>9 DEF Log!PortReleaseTell, Log!Tell, LogTypes, LogFlagTypes, LogUsers, LogChip
<1>10. ASSUME Log!SetBtOpen PROVE LogChip'
  BY <1>10 DEF Log!SetBtOpen, Log!Call, LogTypes, LogFlagTypes, LogUsers, LogChip
<1>11. ASSUME Log!Alive, Log!SetBtOpenTell PROVE LogChip'
  BY <1>11 DEF Log!SetBtOpenTell, Log!Tell, LogTypes, LogFlagTypes, LogUsers, LogChip
<1>12. ASSUME Log!DataWrite PROVE LogChip'
  BY <1>12 DEF Log!DataWrite, LogTypes, LogFlagTypes, LogUsers, LogChip
<1>13. ASSUME Log!Alive, Log!DataPut PROVE LogChip'
  BY <1>13 DEF Log!DataPut, Log!Mark, LogTypes, LogFlagTypes, LogUsers, LogChip
<1>14. ASSUME Log!Alive, Log!DataInc PROVE LogChip'
  BY <1>14 DEF Log!DataInc, LogTypes, LogFlagTypes, LogUsers, LogChip
<1>15. ASSUME NEW r \in LogReaders, Log!ReadStart(r) PROVE LogChip'
  BY <1>15 DEF Log!ReadStart, Log!Goes, LogTypes, LogFlagTypes, LogUsers, LogChip
<1>16. ASSUME NEW r \in LogReaders, Log!Alive, Log!ReadClear(r) PROVE LogChip'
  BY <1>16 DEF Log!ReadClear, Log!Goes, Log!Mark, LogTypes, LogFlagTypes, LogUsers, LogChip
<1>17. ASSUME NEW r \in LogReaders, Log!Alive, Log!ReadWake(r) PROVE LogChip'
  BY <1>17 DEF Log!ReadWake, Log!Goes, LogTypes, LogFlagTypes, LogUsers, LogChip
<1>18. ASSUME NEW r \in LogReaders, NEW w \in BOOLEAN, Log!Alive, Log!ReadPeek(r, w) PROVE LogChip'
  BY <1>18 DEF Log!ReadPeek, Log!Goes, LogTypes, LogFlagTypes, LogUsers, LogChip
<1>19. ASSUME NEW r \in LogReaders, Log!Alive, Log!ReadTake(r) PROVE LogChip'
  BY <1>19 DEF Log!ReadTake, Log!Goes, Log!Mark, LogTypes, LogFlagTypes, LogUsers, LogChip
<1>20. ASSUME UNCHANGED Log!vars PROVE LogChip'
  BY <1>20 DEF Log!vars, LogTypes, LogFlagTypes, LogUsers, LogChip
<1>. QED
  BY <1>1, <1>2, <1>3, <1>4, <1>5, <1>6, <1>7, <1>8, <1>9, <1>10, <1>11, <1>12, <1>13, <1>14, <1>15,
     <1>16, <1>17, <1>18, <1>19, <1>20 DEF Log!Next, Log!Reader, Log!Writer, Log!FileStep

LEMMA LogSessionsStep == ASSUME LogTypes, Log!SessionsApart, [Log!Next]_Log!vars PROVE Log!SessionsApart'
<1>1. ASSUME Log!PortInit PROVE Log!SessionsApart'
  BY <1>1 DEF Log!PortInit, LogTypes, LogFlagTypes, LogQueueTypes, Log!SessionsApart
<1>2. ASSUME NEW v \in BOOLEAN, Log!SetPdata(v) PROVE Log!SessionsApart'
  BY <1>2 DEF Log!SetPdata, Log!Call, LogTypes, LogFlagTypes, LogQueueTypes, Log!SessionsApart
<1>3. ASSUME Log!PortExit PROVE Log!SessionsApart'
  BY <1>3 DEF Log!PortExit, Log!Call, Log!Mark, LogTypes, LogFlagTypes, LogQueueTypes, Log!SessionsApart
<1>4. ASSUME Log!PortOpen PROVE Log!SessionsApart'
  BY <1>4 DEF Log!PortOpen, Log!Call, LogTypes, LogFlagTypes, LogQueueTypes, Log!SessionsApart
<1>5. ASSUME Log!Alive, Log!PortOpenTell PROVE Log!SessionsApart'
  BY <1>5 DEF Log!PortOpenTell, Log!Tell, LogTypes, LogFlagTypes, LogQueueTypes, Log!SessionsApart
<1>6. ASSUME Log!Alive, Log!PortFlush PROVE Log!SessionsApart'
  BY <1>6 DEF Log!PortFlush, Log!Call, Log!Drain, LogTypes, LogFlagTypes, LogQueueTypes,
     Log!SessionsApart
<1>7. ASSUME Log!Alive, Log!PortRelease PROVE Log!SessionsApart'
  BY <1>7 DEF Log!PortRelease, LogTypes, LogFlagTypes, LogQueueTypes, Log!SessionsApart
<1>8. ASSUME Log!Alive, Log!PortReleaseDrain PROVE Log!SessionsApart'
  BY <1>8 DEF Log!PortReleaseDrain, Log!Drain, LogTypes, LogFlagTypes, LogQueueTypes, Log!SessionsApart
<1>9. ASSUME Log!Alive, Log!PortReleaseTell PROVE Log!SessionsApart'
  BY <1>9 DEF Log!PortReleaseTell, Log!Tell, LogTypes, LogFlagTypes, LogQueueTypes, Log!SessionsApart
<1>10. ASSUME Log!SetBtOpen PROVE Log!SessionsApart'
  BY <1>10 DEF Log!SetBtOpen, Log!Call, LogTypes, LogFlagTypes, LogQueueTypes, Log!SessionsApart
<1>11. ASSUME Log!Alive, Log!SetBtOpenTell PROVE Log!SessionsApart'
  BY <1>11 DEF Log!SetBtOpenTell, Log!Tell, LogTypes, LogFlagTypes, LogQueueTypes, Log!SessionsApart
<1>12. ASSUME Log!DataWrite PROVE Log!SessionsApart'
  BY <1>12 DEF Log!DataWrite, LogTypes, LogFlagTypes, LogQueueTypes, Log!SessionsApart
<1>13. ASSUME Log!Alive, Log!DataPut PROVE Log!SessionsApart'
  BY <1>13 DEF Log!DataPut, Log!Mark, LogTypes, LogFlagTypes, LogQueueTypes, Log!SessionsApart
<1>14. ASSUME Log!Alive, Log!DataInc PROVE Log!SessionsApart'
  BY <1>14 DEF Log!DataInc, LogTypes, LogFlagTypes, LogQueueTypes, Log!SessionsApart
<1>15. ASSUME NEW r \in LogReaders, Log!ReadStart(r) PROVE Log!SessionsApart'
  BY <1>15 DEF Log!ReadStart, Log!Goes, LogTypes, LogFlagTypes, LogQueueTypes, Log!SessionsApart
<1>16. ASSUME NEW r \in LogReaders, Log!Alive, Log!ReadClear(r) PROVE Log!SessionsApart'
  BY <1>16 DEF Log!ReadClear, Log!Goes, Log!Mark, LogTypes, LogFlagTypes, LogQueueTypes,
     Log!SessionsApart
<1>17. ASSUME NEW r \in LogReaders, Log!Alive, Log!ReadWake(r) PROVE Log!SessionsApart'
  BY <1>17 DEF Log!ReadWake, Log!Goes, LogTypes, LogFlagTypes, LogQueueTypes, Log!SessionsApart
<1>18. ASSUME NEW r \in LogReaders, NEW w \in BOOLEAN, Log!Alive, Log!ReadPeek(r, w) PROVE Log!SessionsApart'
  BY <1>18 DEF Log!ReadPeek, Log!Goes, LogTypes, LogFlagTypes, LogQueueTypes, Log!SessionsApart
<1>19. ASSUME NEW r \in LogReaders, Log!Alive, Log!ReadTake(r) PROVE Log!SessionsApart'
  BY <1>19 DEF Log!ReadTake, Log!Goes, Log!Mark, LogTypes, LogFlagTypes, LogQueueTypes,
     Log!SessionsApart
<1>20. ASSUME UNCHANGED Log!vars PROVE Log!SessionsApart'
  BY <1>20 DEF Log!vars, LogTypes, LogFlagTypes, LogQueueTypes, Log!SessionsApart
<1>. QED
  BY <1>1, <1>2, <1>3, <1>4, <1>5, <1>6, <1>7, <1>8, <1>9, <1>10, <1>11, <1>12, <1>13, <1>14, <1>15,
     <1>16, <1>17, <1>18, <1>19, <1>20 DEF Log!Next, Log!Reader, Log!Writer, Log!FileStep

LEMMA LogOrderStep == ASSUME LogTypes, LogOrder, [Log!Next]_Log!vars PROVE LogOrder'
<1>1. ASSUME Log!PortInit PROVE LogOrder'
  BY <1>1, LogOrderEmpty, LogOrderSame DEF Log!PortInit
<1>2. ASSUME NEW v \in BOOLEAN, Log!SetPdata(v) PROVE LogOrder'
  BY <1>2, LogOrderSame DEF Log!SetPdata
<1>3. ASSUME Log!PortExit PROVE LogOrder'
  BY <1>3, LogOrderEmpty DEF Log!PortExit, Log!Drain
<1>4. ASSUME Log!PortOpen PROVE LogOrder'
  BY <1>4, LogOrderSame DEF Log!PortOpen
<1>5. ASSUME Log!Alive, Log!PortOpenTell PROVE LogOrder'
  BY <1>5, LogOrderSame DEF Log!PortOpenTell
<1>6. ASSUME Log!Alive, Log!PortFlush PROVE LogOrder'
  BY <1>6, LogOrderEmpty DEF Log!PortFlush, Log!Drain
<1>7. ASSUME Log!Alive, Log!PortRelease PROVE LogOrder'
  BY <1>7, LogOrderSame DEF Log!PortRelease
<1>8. ASSUME Log!Alive, Log!PortReleaseDrain PROVE LogOrder'
  BY <1>8, LogOrderEmpty DEF Log!PortReleaseDrain, Log!Drain
<1>9. ASSUME Log!Alive, Log!PortReleaseTell PROVE LogOrder'
  BY <1>9, LogOrderSame DEF Log!PortReleaseTell
<1>10. ASSUME Log!SetBtOpen PROVE LogOrder'
  BY <1>10, LogOrderSame DEF Log!SetBtOpen
<1>11. ASSUME Log!Alive, Log!SetBtOpenTell PROVE LogOrder'
  BY <1>11, LogOrderSame DEF Log!SetBtOpenTell
<1>12. ASSUME Log!DataWrite PROVE LogOrder'
  BY <1>12, LogOrderSame DEF Log!DataWrite
<1>13. ASSUME Log!Alive, Log!DataPut PROVE LogOrder'
  BY <1>13, LogOrderPut
<1>14. ASSUME Log!Alive, Log!DataInc PROVE LogOrder'
  BY <1>14, LogOrderSame DEF Log!DataInc
<1>15. ASSUME NEW r \in LogReaders, Log!ReadStart(r) PROVE LogOrder'
  BY <1>15, LogOrderSame, LogGoes DEF Log!ReadStart
<1>16. ASSUME NEW r \in LogReaders, Log!Alive, Log!ReadClear(r) PROVE LogOrder'
  BY <1>16, LogOrderSame, LogGoes DEF Log!ReadClear
<1>17. ASSUME NEW r \in LogReaders, Log!Alive, Log!ReadWake(r) PROVE LogOrder'
  BY <1>17, LogOrderSame, LogGoes DEF Log!ReadWake
<1>18. ASSUME NEW r \in LogReaders, NEW w \in BOOLEAN, Log!Alive, Log!ReadPeek(r, w) PROVE LogOrder'
  BY <1>18, LogOrderPeek
<1>19. ASSUME NEW r \in LogReaders, Log!Alive, Log!ReadTake(r) PROVE LogOrder'
  BY <1>19, LogOrderTake
<1>20. ASSUME UNCHANGED Log!vars PROVE LogOrder'
  BY <1>20 DEF Log!vars, LogOrder
<1>. QED
  BY <1>1, <1>2, <1>3, <1>4, <1>5, <1>6, <1>7, <1>8, <1>9, <1>10, <1>11, <1>12, <1>13, <1>14, <1>15,
     <1>16, <1>17, <1>18, <1>19, <1>20 DEF Log!Next, Log!Reader, Log!Writer, Log!FileStep

LEMMA LogStreamStep == ASSUME LogTypes, LogUsers, LogOrder, LogStream, [Log!Next]_Log!vars PROVE LogStream'
<1>1. ASSUME Log!PortInit PROVE LogStream'
  BY <1>1, LogStreamSame DEF Log!PortInit, LogUsers
<1>2. ASSUME NEW v \in BOOLEAN, Log!SetPdata(v) PROVE LogStream'
  BY <1>2, LogStreamSame DEF Log!SetPdata, Log!Call
<1>3. ASSUME Log!PortExit PROVE LogStream'
  BY <1>3, LogStreamDrain DEF Log!PortExit, Log!Drain, Log!Mark
<1>4. ASSUME Log!PortOpen PROVE LogStream'
  BY <1>4, LogStreamSame DEF Log!PortOpen, Log!Call
<1>5. ASSUME Log!Alive, Log!PortOpenTell PROVE LogStream'
  BY <1>5, LogStreamSame DEF Log!PortOpenTell, Log!Tell
<1>6. ASSUME Log!Alive, Log!PortFlush PROVE LogStream'
  BY <1>6, LogStreamDrain DEF Log!PortFlush, Log!Drain, Log!Mark
<1>7. ASSUME Log!Alive, Log!PortRelease PROVE LogStream'
  BY <1>7, LogStreamSame DEF Log!PortRelease
<1>8. ASSUME Log!Alive, Log!PortReleaseDrain PROVE LogStream'
  BY <1>8, LogStreamDrain DEF Log!PortReleaseDrain, Log!Drain, Log!Mark
<1>9. ASSUME Log!Alive, Log!PortReleaseTell PROVE LogStream'
  BY <1>9, LogStreamSame DEF Log!PortReleaseTell, Log!Tell
<1>10. ASSUME Log!SetBtOpen PROVE LogStream'
  BY <1>10, LogStreamSame DEF Log!SetBtOpen, Log!Call
<1>11. ASSUME Log!Alive, Log!SetBtOpenTell PROVE LogStream'
  BY <1>11, LogStreamSame DEF Log!SetBtOpenTell, Log!Tell
<1>12. ASSUME Log!DataWrite PROVE LogStream'
  BY <1>12, LogStreamSame DEF Log!DataWrite
<1>13. ASSUME Log!Alive, Log!DataPut PROVE LogStream'
  BY <1>13, LogStreamPut
<1>14. ASSUME Log!Alive, Log!DataInc PROVE LogStream'
  BY <1>14, LogStreamSame DEF Log!DataInc
<1>15. ASSUME NEW r \in LogReaders, Log!ReadStart(r) PROVE LogStream'
  BY <1>15, LogStreamSame DEF Log!ReadStart, Log!Goes
<1>16. ASSUME NEW r \in LogReaders, Log!Alive, Log!ReadClear(r) PROVE LogStream'
  BY <1>16, LogStreamSame DEF Log!ReadClear, Log!Goes, Log!Mark
<1>17. ASSUME NEW r \in LogReaders, Log!Alive, Log!ReadWake(r) PROVE LogStream'
  BY <1>17, LogStreamSame DEF Log!ReadWake, Log!Goes
<1>18. ASSUME NEW r \in LogReaders, NEW w \in BOOLEAN, Log!Alive, Log!ReadPeek(r, w) PROVE LogStream'
  BY <1>18, LogStreamSame DEF Log!ReadPeek, Log!Goes
<1>19. ASSUME NEW r \in LogReaders, Log!Alive, Log!ReadTake(r) PROVE LogStream'
  BY <1>19, LogStreamTake
<1>20. ASSUME UNCHANGED Log!vars PROVE LogStream'
  BY <1>20, LogStreamSame DEF Log!vars
<1>. QED
  BY <1>1, <1>2, <1>3, <1>4, <1>5, <1>6, <1>7, <1>8, <1>9, <1>10, <1>11, <1>12, <1>13, <1>14, <1>15,
     <1>16, <1>17, <1>18, <1>19, <1>20 DEF Log!Next, Log!Reader, Log!Writer, Log!FileStep

\* The log device's inductive invariant.
LogInv == LogTypes /\ LogUsers /\ LogChip /\ Log!SessionsApart /\ LogOrder /\ LogStream

LEMMA LogInit == ASSUME LogLimit \in Nat, Log!Init PROVE LogInv
<1>1. LogFlagTypes
  BY DEF Log!Init, LogFlagTypes
<1>2. LogQueueTypes
  <2>1. got \in [bytes : Seq(Half), queued : Nat, drained : SUBSET Nat]
    BY DEF Log!Init
  <2>2. Len(logq) = 0 /\ logq \in Seq(Half) /\ wr = "idle"
    BY DEF Log!Init
  <2>. QED
    BY <2>1, <2>2 DEF LogQueueTypes
<1>3. LogReaderTypes
  BY DEF Log!Init, LogReaderTypes, LogReader, Log!Reading
<1>4. Len(logq) = 0 /\ DOMAIN logq = {} /\ Len(got.bytes) = 0 /\ DOMAIN got.bytes = {} /\ got.queued = 0
  BY DEF Log!Init
<1>5. LogUsers /\ LogChip /\ Log!SessionsApart
  BY DEF Log!Init, LogUsers, LogChip, Log!SessionsApart, Log!GoneOnlyIdle
<1>6. LogOrder
  BY <1>4 DEF LogOrder, Log!Init, Log!Reading
<1>7. LogStream
  BY <1>4 DEF LogStream, Log!StreamKept
<1>. QED
  BY <1>1, <1>2, <1>3, <1>5, <1>6, <1>7 DEF LogInv, LogTypes

\* The log of Bluetooth packets is read in its order, each half once, and nothing of it is lost but
\* what a close threw away; packets of one session do not reach the next, the chip logs exactly while
\* both devices are open, and the device goes away under nobody, outside the named races
\* (skwbt_log_port_read, skwbt_log_port_data_write, skwbt_log_port_release, skwbt_log_port_exit).
THEOREM BtLogIsSound == Log!Spec => []BtLogSound
<1>1. Log!Init => LogInv
  BY LogInit, LogAssumption
<1>2. LogInv /\ [Log!Next]_Log!vars => LogInv'
  <2> SUFFICES ASSUME LogInv, [Log!Next]_Log!vars PROVE LogInv'
    OBVIOUS
  <2>1. LogTypes'
    BY LogFlagTypesStep, LogQueueTypesStep, LogReaderTypesStep, LogAssumption DEF LogInv, LogTypes
  <2>2. LogUsers' /\ LogChip' /\ Log!SessionsApart'
    BY LogUsersStep, LogChipStep, LogSessionsStep DEF LogInv
  <2>3. LogOrder' /\ LogStream'
    BY LogOrderStep, LogStreamStep DEF LogInv
  <2>. QED
    BY <2>1, <2>2, <2>3 DEF LogInv
<1>3. LogInv => BtLogSound
  <2> SUFFICES ASSUME LogInv PROVE BtLogSound
    OBVIOUS
  <2>1. Log!TypeOK
    BY DEF LogInv, LogTypes, LogFlagTypes, LogQueueTypes, LogReaderTypes, LogReader, Log!TypeOK
  <2>2. Log!ChipAgrees
    BY DEF LogInv, LogChip, Log!ChipAgrees
  <2>. QED
    BY <2>1, <2>2 DEF LogInv, LogUsers, LogStream, Log!StreamKept, Log!BtLogSound, BtLogSound
<1>. QED
  BY <1>1, <1>2, <1>3, PTL DEF Log!Spec
=============================================================================
