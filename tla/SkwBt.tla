------------------------------- MODULE SkwBt -------------------------------
(***************************************************************************)
(* The Bluetooth driver (swtbt4l/skw_btdriver.c): an HCI device over the   *)
(* platform's BT ports.  Opening it starts the firmware's BT service and   *)
(* downloads the NV settings with HCI commands whose answers the driver    *)
(* keeps from the host; frames of the host wait in three queues for a      *)
(* work; a notifier tells the driver that the firmware crashed and that it *)
(* runs again.                                                             *)
(*                                                                         *)
(* The actors are the host ("host": the HCI core, one call at a time), the *)
(* transmit work, the receive thread ("rx"), which delivers events and     *)
(* runs the notifier, and the platform removing the device ("rm").         *)
(***************************************************************************)
EXTENDS Integers, Sequences, FiniteSets

CONSTANTS Chips,         \* kinds of chip, by their NV format: "page" or "tagged"
          NvBlocks,      \* blocks of the NV file
          Extras,        \* commands behind the NV blocks: address, wakeup advertisement
          Loads          \* bound: how often things happen, as records
                         \* [opens, frames, crashes, timeouts, faults, strays, removes]

Queues == {"cmd", "data", "audio"}
Actors == {"host", "rx", "rm"}

ASSUME BtAssumption ==
  /\ Chips \subseteq {"page", "tagged"} /\ NvBlocks \in Nat \ {0} /\ Extras \in Nat
  /\ Loads \subseteq [opens : Nat, frames : Nat, crashes : Nat, timeouts : Nat,
                      faults : Nat, strays : Nat, removes : Nat]

VARIABLES
  chip,                  \* the chip's kind; it never changes
  cmd_reject,            \* the firmware crashed and does not run yet
  close_sync,            \* atomic_close_sync: "default", "remove" or "close"
  is_init_mode, evt_recv,
  chip_version,          \* the NV format taken for the chip
  bt_is_open, plt_notifier_set, skw_data,
  ports,                 \* the BT ports are open
  q,                     \* cmd_txq, data_txq and audio_txq
  pending,               \* the work is scheduled
  work,                  \* [pc, q, skb]: the running work
  host,                  \* where the host's call is
  step,                  \* command of the download: 0 version, 1 .. NvBlocks, then the extras
  up,                    \* the host has the device open
  rm,                    \* where the removal is
  flush,                 \* where each actor is in btseekwave_flush
  news,                  \* what the platform has to tell its users: "assert", "ready"
  nt,                    \* the notifier runs: "no" or "flush"
  fw,                    \* [run, service]: the firmware
  evts,                  \* its events: the number of the command answered, or Stray
  told,                  \* a hardware error the host has not acted upon
  next, last,            \* frames are numbered; the last one sent of each queue
  purged, held,          \* frames thrown away, and those in the work's hands then
  hist,                  \* what the promises except, see Past
  left                   \* what the bounds still allow

drvVars == <<cmd_reject, close_sync, is_init_mode, evt_recv, chip_version>>
devVars == <<bt_is_open, plt_notifier_set, skw_data, ports>>
txVars == <<q, pending, work, next, last, purged, held>>
hostVars == <<host, step, up>>
fwVars == <<news, fw, evts>>
vars == <<chip, drvVars, devVars, txVars, hostVars, rm, flush, fwVars, nt, told, hist, left>>

NoFrame == [n |-> 0, c |-> 0]
Stray == -1

TypeOK ==
  /\ chip \in Chips /\ chip_version \in {"page", "tagged"}
  /\ cmd_reject \in BOOLEAN /\ is_init_mode \in BOOLEAN /\ evt_recv \in Nat
  /\ close_sync \in {"default", "remove", "close"}
  /\ bt_is_open \in BOOLEAN /\ plt_notifier_set \in BOOLEAN /\ skw_data \in BOOLEAN
  /\ q \in [Queues -> Seq([n : Nat, c : Int])]
  /\ work.pc \in {"idle", "run", "tx", "back"} /\ work.pc \in {"tx", "back"} <=> work.skb # NoFrame
  /\ host \in {"idle", "reject", "ports", "service", "send", "wait", "undo", "flush", "closewait", "close"}
  /\ step \in 0 .. NvBlocks + Extras /\ (bt_is_open => ports)
  /\ rm \in {"no", "wait", "tear", "flush", "unregister", "gone"}
  /\ flush \in [Actors -> {"no", "call", "wait", "done"}]
  /\ nt \in {"no", "flush"} /\ news \in Seq({"assert", "ready"})
-----------------------------------------------------------------------------
\* btseekwave_probe has run; nothing happened yet.
Past == [gaveup |-> FALSE, nostart |-> FALSE, stray |-> FALSE, silent |-> FALSE]

Init ==
  /\ chip \in Chips /\ chip_version = "page"
  /\ cmd_reject = FALSE /\ close_sync = "default" /\ is_init_mode = FALSE /\ evt_recv = 0
  /\ bt_is_open = FALSE /\ plt_notifier_set = FALSE /\ skw_data = TRUE /\ ports = FALSE
  /\ q = [x \in Queues |-> <<>>] /\ pending = FALSE
  /\ work = [pc |-> "idle", q |-> "cmd", skb |-> NoFrame]
  /\ host = "idle" /\ step = 0 /\ up = FALSE /\ rm = "no" /\ flush = [a \in Actors |-> "no"]
  /\ nt = "no" /\ news = <<>> /\ fw = [run |-> TRUE, service |-> FALSE] /\ evts = <<>> /\ told = FALSE
  /\ next = 1 /\ last = [x \in Queues |-> 0] /\ purged = 0 /\ held = {}
  /\ hist = Past /\ left \in Loads

Spend(f) == left[f] > 0 /\ left' = [left EXCEPT ![f] = @ - 1]
-----------------------------------------------------------------------------
(* Sending: btseekwave_send_frame and the work. *)

\* A frame of queue x; c is the command of the download it is, or -1.
Queue(x, c) == /\ q' = [q EXCEPT ![x] = Append(@, [n |-> next, c |-> c])]
               /\ pending' = TRUE /\ next' = next + 1

SendFrame == /\ up /\ host = "idle" /\ Spend("frames")
             /\ \E x \in Queues : Queue(x, -1)
             /\ UNCHANGED <<chip, drvVars, devVars, work, last, purged, held, hostVars, rm, flush,
                            fwVars, nt, told, hist>>

\* btseekwave_write_ble_wakeup_adv_enable, called when the system suspends and resumes
WakeupEnable == /\ bt_is_open /\ skw_data /\ Spend("frames")
                /\ Queue("cmd", -1)
                /\ UNCHANGED <<chip, drvVars, devVars, work, last, purged, held, hostVars, rm, flush,
                               fwVars, nt, told, hist>>

workKeeps == <<chip, drvVars, devVars, next, purged, held, hostVars, rm, flush, nt, news, fw, told, hist>>

WorkStart == /\ pending /\ work.pc = "idle"
             /\ pending' = FALSE
             /\ work' = [work EXCEPT !.pc = IF cmd_reject THEN "idle" ELSE "run", !.q = "cmd"]
             /\ UNCHANGED <<workKeeps, q, last, evts, left>>

WorkTake == /\ work.pc = "run"
            /\ \/ /\ q[work.q] # <<>>
                  /\ work' = [work EXCEPT !.pc = "tx", !.skb = Head(q[work.q])]
                  /\ q' = [q EXCEPT ![work.q] = Tail(@)]
               \/ /\ q[work.q] = <<>>
                  /\ work' = CASE work.q = "cmd" -> [work EXCEPT !.q = "data"]
                               [] work.q = "data" -> [work EXCEPT !.q = "audio"]
                               [] work.q = "audio" -> [work EXCEPT !.pc = "idle"]
                  /\ UNCHANGED q
            /\ UNCHANGED <<workKeeps, pending, last, evts, left>>

\* hw_sdma_tx: a frame for a dead firmware or a closed port fails, any other may.
WorkTx ==
  /\ work.pc = "tx"
  /\ \/ /\ fw.run /\ ports
        /\ work' = [work EXCEPT !.pc = "run", !.skb = NoFrame]
        /\ last' = [last EXCEPT ![work.q] = work.skb.n]
        /\ evts' = IF work.skb.c >= 0 /\ fw.service THEN Append(evts, work.skb.c) ELSE evts
        /\ UNCHANGED left
     \/ /\ IF fw.run /\ ports THEN Spend("faults") ELSE UNCHANGED left
        /\ work' = [work EXCEPT !.pc = "back"]
        /\ UNCHANGED <<last, evts>>
  /\ UNCHANGED <<workKeeps, q, pending>>

\* mutant: the frame is put back at the tail
WorkBackTail == /\ work.pc = "back"
                /\ q' = [q EXCEPT ![work.q] = Append(@, work.skb)]
                /\ work' = [work EXCEPT !.pc = "idle", !.skb = NoFrame]
                /\ UNCHANGED <<workKeeps, pending, last, evts, left>>

\* The frame is put back and the work ends; only the next frame schedules it again.
WorkBack == /\ work.pc = "back"
            /\ q' = [q EXCEPT ![work.q] = <<work.skb>> \o @]
            /\ work' = [work EXCEPT !.pc = "idle", !.skb = NoFrame]
            /\ UNCHANGED <<workKeeps, pending, last, evts, left>>

\* btseekwave_flush, for actor a: only a scheduled work is cancelled and waited for.
flushKeeps == <<chip, drvVars, devVars, work, next, last, hostVars, rm, fwVars, nt, told, hist, left>>

Purge(a) == /\ q' = [x \in Queues |-> <<>>]
            /\ purged' = next - 1
            /\ held' = IF work.skb = NoFrame THEN held ELSE held \cup {work.skb.n}
            /\ flush' = [flush EXCEPT ![a] = "done"]

FlushCall(a) == /\ flush[a] = "call"
                /\ \/ /\ pending /\ pending' = FALSE
                      /\ flush' = [flush EXCEPT ![a] = "wait"] /\ UNCHANGED <<q, purged, held>>
                   \/ ~pending /\ Purge(a) /\ UNCHANGED pending
                /\ UNCHANGED flushKeeps

FlushWait(a) == /\ flush[a] = "wait" /\ work.pc = "idle"
                /\ Purge(a)
                /\ UNCHANGED <<flushKeeps, pending>>
-----------------------------------------------------------------------------
(* btseekwave_open *)

Returns(ok) == host' = "idle" /\ up' = ok

OpenCall == /\ host = "idle" /\ ~up /\ rm = "no"
            /\ \/ told /\ UNCHANGED left              \* the HCI core resets the device
               \/ ~told /\ Spend("opens")
            /\ told' = FALSE
            /\ host' = IF cmd_reject THEN "reject" ELSE "ports"
            /\ UNCHANGED <<chip, drvVars, devVars, txVars, step, up, rm, flush, fwVars, nt, hist>>

OpenWaited == /\ host = "reject" /\ ~cmd_reject /\ host' = "ports"
              /\ UNCHANGED <<chip, drvVars, devVars, txVars, step, up, rm, flush, fwVars, nt, told, hist, left>>

\* The wait for the recovery times out: the function returns 0 and has opened nothing.
OpenGaveUp == /\ host = "reject" /\ cmd_reject
              /\ Returns(TRUE) /\ hist' = [hist EXCEPT !.gaveup = TRUE]
              /\ UNCHANGED <<chip, drvVars, devVars, txVars, step, rm, flush, fwVars, nt, told, left>>

\* A port that is still open is busy.
OpenPorts == /\ host = "ports"
             /\ \/ ports /\ Returns(FALSE) /\ UNCHANGED ports
                \/ ~ports /\ ports' = TRUE /\ host' = "service" /\ UNCHANGED up
             /\ UNCHANGED <<chip, drvVars, bt_is_open, plt_notifier_set, skw_data, txVars, step, rm,
                            flush, fwVars, nt, told, hist, left>>

\* service_start and the first lines of btseekwave_download_nv.  A failure leaves the ports open.
OpenService ==
  /\ host = "service"
  /\ \/ /\ fw.run
        /\ fw' = [fw EXCEPT !.service = TRUE]
        /\ is_init_mode' = TRUE /\ chip_version' = "page" /\ step' = 0 /\ host' = "send"
        /\ hist' = [hist EXCEPT !.silent = FALSE] /\ UNCHANGED <<up, left>>
     \/ /\ IF fw.run THEN Spend("faults") ELSE UNCHANGED left
        /\ Returns(FALSE) /\ hist' = [hist EXCEPT !.nostart = TRUE]
        /\ UNCHANGED <<fw, is_init_mode, chip_version, step>>
  /\ UNCHANGED <<chip, cmd_reject, close_sync, evt_recv, devVars, txVars, rm, flush, nt, news, evts, told>>

\* mutant: events of an earlier command are not forgotten
SendCommandKeeps ==
  /\ host = "send" /\ Queue("cmd", step) /\ host' = "wait"
  /\ UNCHANGED <<chip, drvVars, devVars, work, last, purged, held, step, up, rm, flush, fwVars, nt, told, hist, left>>

\* btseekwave_send_hci_command, up to its wait
SendCommand ==
  /\ host = "send" /\ Queue("cmd", step) /\ evt_recv' = 0 /\ host' = "wait"
  /\ UNCHANGED <<chip, cmd_reject, close_sync, is_init_mode, chip_version, devVars, work, last, purged,
                 held, step, up, rm, flush, fwVars, nt, told, hist, left>>

\* What the download does when a command ended: "fail" closes the ports again.
AfterCommand(ok) ==
  IF step = 0 THEN (IF ok THEN "next" ELSE "fail")
  ELSE IF step <= NvBlocks /\ ~ok
       THEN (IF chip_version = "tagged" /\ step < NvBlocks THEN "fail" ELSE "extras")
       ELSE "next"

\* mutant: the driver goes on keeping the events to itself
OpenedInit == /\ bt_is_open' = TRUE /\ plt_notifier_set' = TRUE
              /\ close_sync' = "default" /\ hist' = [hist EXCEPT !.gaveup = FALSE]
              /\ Returns(TRUE) /\ UNCHANGED <<is_init_mode, step>>

Opened == /\ is_init_mode' = FALSE /\ bt_is_open' = TRUE /\ plt_notifier_set' = TRUE
          /\ close_sync' = "default" /\ hist' = [hist EXCEPT !.gaveup = FALSE]
          /\ Returns(TRUE) /\ UNCHANGED step

\* mutant: the failed download leaves without closing the ports
CommandEndKeeps(ok) ==
  LET after == AfterCommand(ok)
      to == IF after = "extras" THEN NvBlocks + 1 ELSE step + 1
  IN IF after = "fail"
     THEN /\ Returns(FALSE) /\ is_init_mode' = (is_init_mode /\ step = 0)
          /\ UNCHANGED <<bt_is_open, plt_notifier_set, close_sync, step, hist>>
     ELSE IF to > NvBlocks + Extras THEN Opened
     ELSE /\ step' = to /\ host' = "send"
          /\ UNCHANGED <<up, bt_is_open, plt_notifier_set, close_sync, is_init_mode, hist>>

CommandEnd(ok) ==
  LET after == AfterCommand(ok)
      to == IF after = "extras" THEN NvBlocks + 1 ELSE step + 1
  IN IF after = "fail"
     THEN /\ host' = "undo" /\ is_init_mode' = (is_init_mode /\ step = 0)
          /\ UNCHANGED <<up, bt_is_open, plt_notifier_set, close_sync, step, hist>>
     ELSE IF to > NvBlocks + Extras THEN Opened
     ELSE /\ step' = to /\ host' = "send"
          /\ UNCHANGED <<up, bt_is_open, plt_notifier_set, close_sync, is_init_mode, hist>>

commandKeeps == <<chip, cmd_reject, evt_recv, chip_version, skw_data, ports, txVars, rm, flush, nt, told>>

CommandAnswered == /\ host = "wait" /\ evt_recv > 0
                   /\ CommandEnd(TRUE)
                   /\ UNCHANGED <<commandKeeps, fwVars, left>>

\* The NV file is missing: is_init_mode stays set.
NvMissing == /\ host = "wait" /\ evt_recv > 0 /\ step = 0 /\ Spend("faults")
             /\ host' = "undo"
             /\ UNCHANGED <<commandKeeps, is_init_mode, close_sync, bt_is_open, plt_notifier_set, step, up,
                            fwVars, hist>>

\* The firmware dies; it may say so or fall silent.
Dies == /\ fw' = [run |-> FALSE, service |-> FALSE] /\ evts' = <<>>
        /\ news' \in {news, Append(news, "assert")}

\* After one second without any event; without the version the driver asserts the firmware.
CommandTimeout == /\ host = "wait" /\ evt_recv = 0
                  /\ IF fw.run THEN Spend("timeouts") ELSE UNCHANGED left
                  /\ CommandEnd(FALSE)
                  /\ IF step = 0 /\ skw_data /\ fw.run
                     THEN Dies ELSE UNCHANGED fwVars
                  /\ UNCHANGED commandKeeps
-----------------------------------------------------------------------------
(* btseekwave_port_close, btseekwave_close *)

\* mutant: the device still counts as open
PortCloseKeeps ==
  /\ plt_notifier_set => nt = "no"
  /\ plt_notifier_set' = FALSE /\ ports' = FALSE /\ fw' = [fw EXCEPT !.service = FALSE]
  /\ UNCHANGED <<bt_is_open, news, evts>>

\* The notifier chain lets nobody leave while it runs.
PortClose ==
  /\ plt_notifier_set => nt = "no"
  /\ bt_is_open' = FALSE /\ plt_notifier_set' = FALSE /\ ports' = FALSE
  /\ fw' = [fw EXCEPT !.service = FALSE]
  /\ UNCHANGED <<news, evts>>

closeKeeps == <<chip, cmd_reject, is_init_mode, evt_recv, chip_version, skw_data, txVars, step, rm, nt, told, left>>

OpenUndo == /\ host = "undo" /\ PortClose
            /\ Returns(FALSE) /\ close_sync' = "default"
            /\ UNCHANGED <<closeKeeps, flush, hist>>

\* The HCI core flushes before it closes; a removal makes it close.
CloseCall == /\ host = "idle" /\ up
             /\ host' = "flush" /\ flush' = [flush EXCEPT !["host"] = "call"]
             /\ UNCHANGED <<chip, drvVars, devVars, txVars, step, up, rm, fwVars, nt, told, hist, left>>

CloseFlushed == /\ host = "flush" /\ flush["host"] = "done"
                /\ flush' = [flush EXCEPT !["host"] = "no"]
                /\ host' = IF cmd_reject THEN "closewait" ELSE "close"
                /\ UNCHANGED <<chip, drvVars, devVars, txVars, step, up, rm, fwVars, nt, told, hist, left>>

\* The recovery ended, or took longer than two seconds.
CloseWaited == /\ host = "closewait" /\ host' = "close"
               /\ UNCHANGED <<chip, drvVars, devVars, txVars, step, up, rm, flush, fwVars, nt, told, hist, left>>

Close == /\ host = "close" /\ PortClose
         /\ Returns(FALSE) /\ close_sync' = "close"
         /\ UNCHANGED <<closeKeeps, flush, hist>>
-----------------------------------------------------------------------------
(* btseekwave_remove and btseekwave_probe *)

rmKeeps == <<chip, is_init_mode, evt_recv, chip_version, txVars, hostVars, fwVars, nt, hist>>

RemoveCall == /\ rm = "no" /\ Spend("removes")
              /\ cmd_reject' = FALSE
              /\ \/ /\ close_sync = "default" /\ close_sync' = "remove" /\ rm' = "wait"
                 \/ /\ close_sync # "default" /\ rm' = "tear" /\ UNCHANGED close_sync
              /\ UNCHANGED <<rmKeeps, devVars, flush, told>>

\* After 500 ms it goes on without a close.
RemoveWaited == /\ rm = "wait" /\ rm' = "tear"
                /\ UNCHANGED <<rmKeeps, cmd_reject, close_sync, devVars, flush, told, left>>

RemoveTear == /\ rm = "tear" /\ (plt_notifier_set => nt = "no")
              /\ close_sync' = "default" /\ skw_data' = FALSE /\ bt_is_open' = FALSE
              /\ plt_notifier_set' = FALSE
              /\ rm' = "flush" /\ flush' = [flush EXCEPT !["rm"] = "call"]
              /\ UNCHANGED <<rmKeeps, cmd_reject, ports, told, left>>

RemoveFlushed == /\ rm = "flush" /\ flush["rm"] = "done"
                 /\ flush' = [flush EXCEPT !["rm"] = "no"] /\ rm' = "unregister"
                 /\ UNCHANGED <<rmKeeps, cmd_reject, close_sync, devVars, told, left>>

\* hci_unregister_dev: no call of the host runs and the device is closed.
RemoveEnd == /\ rm = "unregister" /\ host = "idle" /\ ~up /\ rm' = "gone"
             /\ told' = FALSE
             /\ UNCHANGED <<rmKeeps, cmd_reject, close_sync, devVars, flush, left>>

Probe == /\ rm = "gone" /\ work.pc = "idle" /\ ~pending
         /\ rm' = "no" /\ skw_data' = TRUE /\ plt_notifier_set' = FALSE /\ bt_is_open' = FALSE
         /\ cmd_reject' = FALSE /\ close_sync' = "default"
         /\ UNCHANGED <<rmKeeps, ports, flush, told, left>>
-----------------------------------------------------------------------------
(* The receive thread: btseekwave_rx_complete and the notifier. *)

RxEvent ==
  /\ nt = "no" /\ evts # <<>>
  /\ evts' = Tail(evts)
  /\ IF ports /\ is_init_mode
     THEN /\ evt_recv' = evt_recv + 1
          /\ chip_version' = IF Head(evts) = 0 THEN chip ELSE chip_version
          /\ hist' = [hist EXCEPT !.stray = @ \/ Head(evts) # step]
     ELSE UNCHANGED <<evt_recv, chip_version, hist>>
  /\ UNCHANGED <<chip, cmd_reject, close_sync, is_init_mode, devVars, txVars, hostVars, rm, flush,
                 news, fw, nt, told, left>>

notifyKeeps == <<chip, close_sync, is_init_mode, evt_recv, chip_version, devVars, txVars, hostVars, rm,
                 evts, left>>

Listens == plt_notifier_set /\ skw_data

NotifyAssert == /\ nt = "no" /\ news # <<>> /\ Head(news) = "assert"
                /\ news' = Tail(news)
                /\ cmd_reject' = (cmd_reject \/ Listens)
                /\ fw' = [fw EXCEPT !.service = @ /\ ~Listens]
                /\ hist' = [hist EXCEPT !.silent = @ \/ ~Listens]
                /\ UNCHANGED <<notifyKeeps, nt, flush, told>>

NotifyReady == /\ nt = "no" /\ news # <<>> /\ Head(news) = "ready"
               /\ news' = Tail(news)
               /\ IF Listens /\ cmd_reject
                  THEN /\ cmd_reject' = FALSE /\ nt' = "flush"
                       /\ flush' = [flush EXCEPT !["rx"] = "call"]
                  ELSE UNCHANGED <<cmd_reject, nt, flush>>
               /\ UNCHANGED <<notifyKeeps, fw, told, hist>>

\* mutant: the host is not told
NotifyFlushedSilent == /\ nt = "flush" /\ flush["rx"] = "done"
                       /\ nt' = "no" /\ flush' = [flush EXCEPT !["rx"] = "no"]
                       /\ UNCHANGED <<notifyKeeps, cmd_reject, news, fw, told, hist>>

\* btseekwave_hci_hardware_error: the HCI core ignores it for a device that is down.
NotifyFlushed == /\ nt = "flush" /\ flush["rx"] = "done"
                 /\ nt' = "no" /\ flush' = [flush EXCEPT !["rx"] = "no"]
                 /\ told' = (told \/ up)
                 /\ UNCHANGED <<notifyKeeps, cmd_reject, news, fw, hist>>
-----------------------------------------------------------------------------
(* The firmware and its platform (external). *)

fwKeeps == <<chip, drvVars, devVars, txVars, hostVars, rm, flush, nt, told>>

FwCrash == /\ fw.run /\ Spend("crashes")
           /\ Dies
           /\ hist' = [hist EXCEPT !.silent = @ \/ news' = news]
           /\ UNCHANGED fwKeeps

\* The platform has recovered it.
FwRestart == /\ ~fw.run /\ \A i \in 1 .. Len(news) : news[i] # "assert"
             /\ fw' = [run |-> TRUE, service |-> FALSE] /\ news' = Append(news, "ready")
             /\ UNCHANGED <<fwKeeps, evts, hist, left>>

FwStray == /\ fw.run /\ fw.service /\ Spend("strays")
           /\ evts' = Append(evts, Stray)
           /\ UNCHANGED <<fwKeeps, news, fw, hist>>
-----------------------------------------------------------------------------
Host == \/ OpenCall \/ OpenWaited \/ OpenGaveUp \/ OpenPorts \/ OpenService \/ SendCommand
        \/ CommandAnswered \/ NvMissing \/ CommandTimeout \/ OpenUndo
        \/ CloseCall \/ CloseFlushed \/ CloseWaited \/ Close
Work == WorkStart \/ WorkTake \/ WorkTx \/ WorkBack
Flush(a) == FlushCall(a) \/ FlushWait(a)
Remover == RemoveCall \/ RemoveWaited \/ RemoveTear \/ RemoveFlushed \/ RemoveEnd \/ Probe
Rx == RxEvent \/ NotifyAssert \/ NotifyReady \/ NotifyFlushed

Next == \/ Host \/ SendFrame \/ WakeupEnable \/ Work \/ (\E a \in Actors : Flush(a)) \/ Remover \/ Rx
        \/ FwCrash \/ FwRestart \/ FwStray

\* Threads and works run; the platform recovers a dead firmware (SkwPlat) and the HCI core
\* resets a device that reports a hardware error and closes one that is unregistered.
Fairness ==
  /\ WF_vars(OpenWaited \/ OpenGaveUp \/ OpenPorts \/ OpenService \/ SendCommand \/ OpenUndo)
  /\ WF_vars(CommandAnswered) /\ WF_vars(CommandTimeout) /\ WF_vars(CloseFlushed \/ CloseWaited \/ Close)
  /\ WF_vars((told \/ rm = "unregister") /\ CloseCall) /\ WF_vars(told /\ OpenCall)
  /\ WF_vars(Work) /\ (\A a \in Actors : WF_vars(Flush(a))) /\ WF_vars(Rx) /\ WF_vars(FwRestart)
  /\ WF_vars(RemoveWaited \/ RemoveTear \/ RemoveFlushed \/ RemoveEnd)

Spec == Init /\ [][Next]_vars /\ Fairness
-----------------------------------------------------------------------------
\* Once btseekwave_open has returned 0 the ports are open, the notifier listens and events
\* reach the host, except where the wait for a recovery had timed out and in a removal.
UpMeansOpen ==
  up /\ host = "idle" /\ ~hist.gaveup /\ rm \in {"no", "wait"}
    => ports /\ plt_notifier_set /\ bt_is_open /\ ~is_init_mode

\* A device that is down holds no port, so that it can be opened again; only a service that
\* failed to start breaks this (btseekwave_open returns with the ports open).
DownFreesPorts == ~up /\ host = "idle" /\ ~hist.nostart => ~ports

\* The NV blocks sent are of the chip's own format: the answer to the version command was
\* awaited, unless another event was taken for an answer (btseekwave_rx_complete counts any).
NvMatchesChip == host \in {"send", "wait"} /\ step > 0 /\ ~hist.stray => chip_version = chip

\* An open device has its ports, a closed one has given them back, and the NV file sent is the
\* one of the chip (btseekwave_open, btseekwave_close, btseekwave_download_nv).
HciSound == TypeOK /\ UpMeansOpen /\ DownFreesPorts /\ NvMatchesChip

\* Frames of a queue go out in the order in which the host gave them, each once, whatever
\* fails, and none after it was flushed, except the one the work had in its hands.
SentInOrder ==
  [][\A x \in Queues : last'[x] # last[x]
       => /\ last'[x] > last[x]
          /\ last'[x] > purged \/ last'[x] \in held]_vars

\* An open device whose BT service died with the firmware is reset: it does not stay up on a
\* running firmware that knows nothing of it, unless nobody heard of the crash (DEVICE_BLOCKED_EVENT
\* is ignored, and the notifier listens only behind the NV download) or the open had given up.
Healed == ~up \/ fw.service \/ ~fw.run \/ hist.silent \/ hist.gaveup
LostServiceHealed == []<>Healed
=============================================================================
