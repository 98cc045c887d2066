------------------------------ MODULE SkwPlat ------------------------------
(***************************************************************************)
(* The SDIO platform driver around the ports (sdio/skw_sdio_main.c,        *)
(* sdio/skw_sdio_rx.c, skwutil/skw_boot.c): booting the firmware, starting *)
(* and stopping its Wi-Fi and BT services, noticing that it crashed,       *)
(* resetting it and loading it again, and system suspend.                  *)
(*                                                                         *)
(* The actors are the receive thread ("rx"), which handles the firmware's  *)
(* messages and after DUMPDONE recovers the chip itself, the delayed       *)
(* exception work ("exc"), which recovers it when no dump comes, a caller  *)
(* of the service functions ("svc", one at a time under boot_mutex), which *)
(* recovers it when it finds it powered off, and power management.         *)
(* except_mutex orders them only in places.                                *)
(***************************************************************************)
EXTENDS Integers, Sequences, FiniteSets

CONSTANTS IrqTypes,      \* "external": a GPIO interrupt; "inband": the bus interrupt
          Loads          \* bound: how often things happen, as records
                         \* [calls, crashes, errors, faults, sleeps]

Services == {"wifi", "bt"}
Actors == {"rx", "exc", "svc"}

ASSUME PlatAssumption ==
  /\ IrqTypes \subseteq {"external", "inband"}
  /\ Loads \subseteq [calls : Nat, crashes : Nat, errors : Nat, faults : Nat, sleeps : Nat]

VARIABLES
  irq_type,              \* how the chip interrupts; it never changes
  cp_state,              \* 0 alive, 1 crashed, 2 dump done, 3 blocked
  cp_exception_sts,      \* what the notifier last told the users of the ports, likewise
  power_off,
  service_state_map,     \* services the firmware said are ready
  download_done,         \* completion of boot and of service starts
  irq_depth,             \* disable_irq calls not yet undone
  kick,                  \* skw_sdio_rx_up woke the receive thread without an interrupt
  except_mutex,          \* its holder, or "none"
  except_work,           \* the delayed exception work is armed
  resume_flag,           \* FALSE while the system sleeps
  log_open,              \* the log port is open
  rx, exc,               \* where the receive thread and the exception work are
  rec,                   \* where each actor is in skw_recovery_mode
  svc,                   \* [pc, op, s, ok]: the service call in progress and its result
  fw,                    \* [st, pend, dump]: the chip, the starts it owes an answer, a dump to come
  wire,                  \* its messages
  late,                  \* an earlier answer was still to come when the start was sent
  spoilt,                \* a reset or a download failed, the chip failed while it was booting or
                         \* the driver had not recovered it, or a recovery began beside another
                         \* or beside the handling of a crash
  cold,                  \* a chip that had not crashed was recovered
  left                   \* what the bounds still allow

cpVars == <<cp_state, cp_exception_sts, power_off, service_state_map, download_done>>
irqVars == <<irq_depth, kick>>
pcVars == <<rx, exc, rec, svc>>
fwVars == <<fw, wire>>
histVars == <<late, spoilt, cold, left>>
vars == <<irq_type, cpVars, irqVars, except_mutex, except_work, resume_flag, log_open, pcVars,
          fwVars, histVars>>

TypeOK ==
  /\ irq_type \in IrqTypes /\ cp_state \in 0 .. 3 /\ cp_exception_sts \in 0 .. 3
  /\ power_off \in BOOLEAN /\ service_state_map \subseteq Services
  /\ download_done \in Nat /\ irq_depth \in Nat /\ kick \in BOOLEAN
  /\ except_mutex \in Actors \cup {"none"} /\ except_work \in BOOLEAN
  /\ resume_flag \in BOOLEAN /\ log_open \in BOOLEAN
  /\ rx \in {"idle", "assert", "dump", "cancel", "recover"}
  /\ exc \in {"idle", "lock", "block", "recover"}
  /\ rec \in [Actors -> {"no", "begin", "reset", "load", "start", "ready"}]
  /\ svc.pc \in {"idle", "boot", "recover", "wait", "lock", "locked", "send", "ready", "first", "failed"}
  /\ fw.st \in {"off", "boot", "run", "dead"} /\ fw.pend \subseteq Services
-----------------------------------------------------------------------------
Call(pc, op, s, ok) == [pc |-> pc, op |-> op, s |-> s, ok |-> ok]

\* skw_sdio_probe and skw_first_boot have run up to skw_boot_loader.
Init ==
  /\ irq_type \in IrqTypes /\ log_open \in BOOLEAN
  /\ cp_state = 0 /\ cp_exception_sts = 0 /\ power_off = FALSE /\ service_state_map = {}
  /\ download_done = 0 /\ irq_depth = 0 /\ kick = FALSE /\ except_mutex = "none"
  /\ except_work = FALSE /\ resume_flag = TRUE
  /\ rx = "idle" /\ exc = "idle" /\ rec = [a \in Actors |-> IF a = "svc" THEN "load" ELSE "no"]
  /\ svc = Call("first", "boot", "wifi", FALSE)
  /\ fw = [st |-> "off", pend |-> {}, dump |-> FALSE] /\ wire = <<>>
  /\ late = FALSE /\ spoilt = FALSE /\ cold = FALSE
  /\ left \in Loads

Spend(f) == left[f] > 0 /\ left' = [left EXCEPT ![f] = @ - 1]
-----------------------------------------------------------------------------
(* The chip (external). *)

fwKeeps == <<irq_type, cpVars, irqVars, except_mutex, except_work, resume_flag, log_open, pcVars, late, cold>>

FwBoot == /\ fw.st = "boot"
          /\ fw' = [fw EXCEPT !.st = "run"] /\ wire' = Append(wire, "trunk_W")
          /\ UNCHANGED <<fwKeeps, spoilt, left>>

FwReady == /\ fw.st = "run"
           /\ \E s \in fw.pend : /\ fw' = [fw EXCEPT !.pend = @ \ {s}]
                                 /\ wire' = Append(wire, s)
           /\ UNCHANGED <<fwKeeps, spoilt, left>>

\* A crash the firmware reports.
FwCrash == /\ fw.st \in {"run", "boot"} /\ Spend("crashes")
           /\ fw' = [st |-> "dead", pend |-> {}, dump |-> TRUE]
           /\ wire' = Append(wire, "BSPASSERT")
           /\ spoilt' = (spoilt \/ cp_state # 0)
           /\ UNCHANGED fwKeeps

\* The end of its dump; it may never come.
FwDump == /\ fw.st = "dead" /\ fw.dump
          /\ fw' = [fw EXCEPT !.dump = FALSE] /\ wire' = Append(wire, "DUMPDONE")
          /\ UNCHANGED <<fwKeeps, spoilt, left>>
-----------------------------------------------------------------------------
(* skw_recovery_mode, for actor a. *)

\* The firmware was started and the receive thread has not heard of it yet.
Booting == fw.st = "boot" \/ \E i \in DOMAIN wire : wire[i] = "trunk_W"

Recovering == {a \in Actors : rec[a] # "no"}
recKeeps == <<irq_type, cp_state, cp_exception_sts, service_state_map, except_mutex, except_work,
              resume_flag, log_open, rx, exc, svc, late>>

\* The receive thread or the exception work is at a crash.
CrashHandled == except_work \/ exc # "idle" \/ rx # "idle"

RecBegin(a) == /\ rec[a] = "begin"
               /\ power_off' = TRUE
               /\ irq_depth' = IF irq_type = "external" THEN irq_depth + 1 ELSE irq_depth
               /\ rec' = [rec EXCEPT ![a] = "reset"]
               /\ spoilt' = (spoilt \/ Recovering # {a} \/ (a = "svc" /\ CrashHandled))
               /\ cold' = (cold \/ cp_state = 0)
               /\ UNCHANGED <<recKeeps, download_done, kick, fwVars, left>>

\* skw_sdio_cp_reset: a failure leaves power_off set.
RecReset(a) ==
  /\ rec[a] = "reset"
  /\ \/ /\ power_off' = FALSE /\ rec' = [rec EXCEPT ![a] = "load"]
        /\ fw' = [st |-> "off", pend |-> {}, dump |-> FALSE] /\ wire' = <<>>
        /\ UNCHANGED <<spoilt, left>>
     \/ /\ Spend("faults") /\ spoilt' = TRUE
        /\ rec' = [rec EXCEPT ![a] = "no"]
        /\ UNCHANGED <<power_off, fwVars>>
  /\ UNCHANGED <<recKeeps, download_done, irqVars, cold>>

\* mutant: the interrupt is enabled for every chip
RecLoadEnables(a) ==
  /\ rec[a] = "load"
  /\ \/ /\ rec' = [rec EXCEPT ![a] = "start"]
        /\ irq_depth' = IF irq_type = "external"
                        THEN irq_depth - 1 ELSE irq_depth
        /\ UNCHANGED <<spoilt, left>>
     \/ /\ Spend("faults") /\ spoilt' = TRUE
        /\ rec' = [rec EXCEPT ![a] = "no"] /\ UNCHANGED irq_depth
  /\ UNCHANGED <<recKeeps, power_off, download_done, kick, fwVars, cold>>

\* mutant: the interrupt is not enabled again
RecLoadDeaf(a) ==
  /\ rec[a] = "load"
  /\ \/ /\ rec' = [rec EXCEPT ![a] = "start"]
        /\ UNCHANGED irq_depth
        /\ UNCHANGED <<spoilt, left>>
     \/ /\ Spend("faults") /\ spoilt' = TRUE
        /\ rec' = [rec EXCEPT ![a] = "no"] /\ UNCHANGED irq_depth
  /\ UNCHANGED <<recKeeps, power_off, download_done, kick, fwVars, cold>>

\* skw_sdio_boot_cp: the download, and the interrupt for a chip that crashed.
RecLoad(a) ==
  /\ rec[a] = "load"
  /\ \/ /\ rec' = [rec EXCEPT ![a] = "start"]
        /\ irq_depth' = IF irq_type = "external" /\ cp_state # 0 /\ irq_depth > 0
                        THEN irq_depth - 1 ELSE irq_depth
        /\ UNCHANGED <<spoilt, left>>
     \/ /\ Spend("faults") /\ spoilt' = TRUE
        /\ rec' = [rec EXCEPT ![a] = "no"] /\ UNCHANGED irq_depth
  /\ UNCHANGED <<recKeeps, power_off, download_done, kick, fwVars, cold>>

\* The firmware is started; a chip that had not crashed is waited for.
RecStart(a) == /\ rec[a] = "start"
               /\ fw' = IF fw.st = "off" THEN [fw EXCEPT !.st = "boot"] ELSE fw
               /\ rec' = [rec EXCEPT ![a] = IF cp_state = 0 THEN "ready" ELSE "no"]
               /\ UNCHANGED <<recKeeps, power_off, download_done, irqVars, wire, spoilt, left, cold>>

\* skw_check_cp_ready
RecReady(a) == /\ rec[a] = "ready"
               /\ rec' = [rec EXCEPT ![a] = "no"]
               /\ \/ download_done > 0 /\ download_done' = download_done - 1 /\ UNCHANGED <<kick, spoilt>>
                  \/ download_done = 0 /\ kick' = TRUE /\ spoilt' = TRUE /\ UNCHANGED download_done
               /\ UNCHANGED <<recKeeps, power_off, irq_depth, fwVars, left, cold>>

Recover(a) == RecBegin(a) \/ RecReset(a) \/ RecLoad(a) \/ RecStart(a) \/ RecReady(a)
-----------------------------------------------------------------------------
(* The receive thread: the messages of the control port. *)

rxKeeps == <<irq_type, power_off, irq_depth, resume_flag, log_open, exc, svc, fw, late, spoilt, cold, left>>

\* Woken by the interrupt or by skw_sdio_rx_up, with the bus usable.
RxTake(m) == /\ rx = "idle" /\ resume_flag /\ ~power_off /\ (irq_depth = 0 \/ kick)
             /\ wire # <<>> /\ Head(wire) = m /\ wire' = Tail(wire)
             /\ kick' = (kick /\ Tail(wire) # <<>>)

\* BTREADY, WIFIREADY
RxServiceReady(s) ==
  /\ RxTake(s)
  /\ service_state_map' = service_state_map \cup {s} /\ download_done' = download_done + 1
  /\ UNCHANGED <<rxKeeps, cp_state, cp_exception_sts, except_mutex, except_work, rx, rec>>

\* mutant: the users are not told
RxTrunkSilent ==
  /\ RxTake("trunk_W")
  /\ download_done' = IF cp_state = 0 THEN download_done + 1 ELSE download_done
  /\ UNCHANGED cp_exception_sts
  /\ cp_state' = 0
  /\ UNCHANGED <<rxKeeps, service_state_map, except_mutex, except_work, rx, rec>>

\* trunk_W: the firmware is up.
RxTrunk ==
  /\ RxTake("trunk_W")
  /\ download_done' = IF cp_state = 0 THEN download_done + 1 ELSE download_done
  /\ cp_exception_sts' = IF cp_state # 0 THEN 0 ELSE cp_exception_sts
  /\ cp_state' = 0
  /\ UNCHANGED <<rxKeeps, service_state_map, except_mutex, except_work, rx, rec>>

\* mutant: the exception work is left to DUMPDONE
RxAssertUnarmed == /\ RxTake("BSPASSERT")
            /\ rx' = "assert" /\ UNCHANGED except_work
            /\ UNCHANGED <<rxKeeps, cp_state, cp_exception_sts, service_state_map, download_done, except_mutex, rec>>

\* BSPASSERT: the exception work is armed before the mutex is taken.
RxAssert == /\ RxTake("BSPASSERT")
            /\ except_work' = (except_work \/ cp_state = 0) /\ rx' = "assert"
            /\ UNCHANGED <<rxKeeps, cp_state, cp_exception_sts, service_state_map, download_done, except_mutex, rec>>

rxLockKeeps == <<rxKeeps, download_done, kick, except_mutex, wire>>

RxAssertLocked ==
  /\ rx = "assert" /\ except_mutex = "none" /\ rx' = "idle"
  /\ IF cp_state = 3 THEN UNCHANGED <<cp_state, service_state_map, cp_exception_sts>>
     ELSE cp_state' = 1 /\ service_state_map' = {} /\ cp_exception_sts' = 1
  /\ UNCHANGED <<rxLockKeeps, except_work, rec>>

RxDump == /\ RxTake("DUMPDONE") /\ rx' = "dump"
          /\ UNCHANGED <<rxKeeps, cp_state, cp_exception_sts, service_state_map, download_done,
                         except_mutex, except_work, rec>>

RxDumpLocked ==
  /\ rx = "dump" /\ except_mutex = "none"
  /\ IF cp_state = 3 THEN rx' = "idle" /\ UNCHANGED cp_state
                     ELSE rx' = "cancel" /\ cp_state' = 2
  /\ UNCHANGED <<rxLockKeeps, cp_exception_sts, service_state_map, except_work, rec>>

\* cancel_delayed_work_sync waits for a work that runs; then the users are
\* told and the chip is recovered.
RxCancel == /\ rx = "cancel" /\ exc = "idle"
            /\ except_work' = FALSE
            /\ cp_exception_sts' = IF log_open THEN 2 ELSE cp_exception_sts
            /\ rx' = "recover" /\ rec' = [rec EXCEPT !["rx"] = "begin"]
            /\ UNCHANGED <<rxLockKeeps, cp_state, service_state_map>>

RxRecovered == /\ rx = "recover" /\ rec["rx"] = "no" /\ rx' = "idle"
               /\ UNCHANGED <<rxLockKeeps, cp_state, cp_exception_sts, service_state_map, except_work, rec>>
-----------------------------------------------------------------------------
(* skw_sdio_exception_work, and who arms it. *)

excKeeps == <<irq_type, power_off, download_done, irqVars, except_mutex, resume_flag, log_open, rx, svc,
              fwVars, late, spoilt, cold, left>>

ExcFire == /\ except_work /\ exc = "idle"
           /\ except_work' = FALSE /\ exc' = "lock"
           /\ UNCHANGED <<excKeeps, cp_state, cp_exception_sts, service_state_map, rec>>

\* The work fires 0.8 s or more after the receive thread armed it on its way
\* to the mutex, so it comes to the mutex behind that thread.
ExcBehindRx == rx = "assert" /\ cp_state = 0

\* mutant: a crash that DUMPDONE handles already is recovered again
ExcLockedAnyway == /\ exc = "lock" /\ except_mutex = "none" /\ ~ExcBehindRx
                   /\ IF cp_state \in {1, 2} THEN cp_state' = 3 /\ exc' = "block"
                                              ELSE exc' = "idle" /\ UNCHANGED cp_state
                   /\ UNCHANGED <<excKeeps, cp_exception_sts, service_state_map, except_work, rec>>

ExcLocked == /\ exc = "lock" /\ except_mutex = "none" /\ ~ExcBehindRx
             /\ IF cp_state = 1 THEN cp_state' = 3 /\ exc' = "block"
                                ELSE exc' = "idle" /\ UNCHANGED cp_state
             /\ UNCHANGED <<excKeeps, cp_exception_sts, service_state_map, except_work, rec>>

ExcBlock == /\ exc = "block"
            /\ cp_exception_sts' = 3 /\ service_state_map' = {}
            /\ exc' = "recover" /\ rec' = [rec EXCEPT !["exc"] = "begin"]
            /\ UNCHANGED <<excKeeps, cp_state, except_work>>

ExcRecovered == /\ exc = "recover" /\ rec["exc"] = "no" /\ exc' = "idle"
                /\ UNCHANGED <<excKeeps, cp_state, cp_exception_sts, service_state_map, except_work, rec>>

armKeeps == <<irq_type, cp_exception_sts, power_off, service_state_map, download_done, irqVars,
              except_mutex, resume_flag, log_open, pcVars, late, cold>>

\* skw_sdio_abort after a transfer failed.
Abort == /\ cp_state = 0 /\ resume_flag /\ ~power_off /\ Spend("errors")
         /\ cp_state' = 1 /\ except_work' = TRUE
         /\ spoilt' = (spoilt \/ Recovering # {} \/ Booting)
         /\ UNCHANGED <<armKeeps, fwVars>>

\* send_modem_assert_command: the host makes the firmware crash.
AssertCommand == /\ cp_state = 0 /\ resume_flag /\ fw.st = "run" /\ Spend("crashes")
                 /\ cp_state' = 1 /\ except_work' = TRUE
                 /\ fw' = [st |-> "dead", pend |-> {}, dump |-> TRUE]
                 /\ wire' = Append(wire, "BSPASSERT")
                 /\ spoilt' = (spoilt \/ Recovering # {} \/ Booting)
                 /\ UNCHANGED armKeeps
-----------------------------------------------------------------------------
(* Service calls. *)

svcKeeps == <<irq_type, cp_state, cp_exception_sts, power_off, irq_depth, except_work, resume_flag,
              log_open, rx, exc, wire, cold>>
svcRest == <<svcKeeps, service_state_map, download_done, kick, except_mutex, fw, late, spoilt>>

\* The end of the first boot.
FirstBooted == /\ svc.pc = "first" /\ rec["svc"] = "no"
               /\ svc' = [svc EXCEPT !.pc = IF fw.st = "run" THEN "idle" ELSE "failed"]
               /\ UNCHANGED <<svcRest, rec, left>>

\* wifi_service_start, bt_service_start, bt_start_service and the stops.  A
\* service known to run is not started; the BT device refuses while the users
\* know of a crash.
SvcCall == /\ svc.pc = "idle" /\ resume_flag /\ Spend("calls")
           /\ \E op \in {"start", "stop"}, s \in Services :
                svc' = IF op = "start" /\ s \in service_state_map THEN Call("idle", op, s, TRUE)
                       ELSE IF s = "bt" /\ cp_exception_sts # 0 THEN Call("idle", op, s, FALSE)
                       ELSE Call("boot", op, s, FALSE)
           /\ UNCHANGED <<svcRest, rec>>

\* skw_boot_loader: a chip without power is recovered first.
SvcBoot == /\ svc.pc = "boot"
           /\ IF power_off THEN svc' = [svc EXCEPT !.pc = "recover"] /\ rec' = [rec EXCEPT !["svc"] = "begin"]
              ELSE svc' = [svc EXCEPT !.pc = "wait"] /\ UNCHANGED rec
           /\ UNCHANGED <<svcRest, left>>
SvcBooted == /\ svc.pc = "recover" /\ rec["svc"] = "no"
             /\ svc' = [svc EXCEPT !.pc = "wait"]
             /\ UNCHANGED <<svcRest, rec, left>>

\* skw_sdio_cp_service_ops: a start waits at most 2 s for cp_state = 0 and
\* goes on without it; a service that runs by now is not started.
SvcWait == /\ svc.pc = "wait"
           /\ svc' = IF svc.op = "start" /\ svc.s \in service_state_map
                     THEN Call("idle", svc.op, svc.s, TRUE) ELSE [svc EXCEPT !.pc = "lock"]
           /\ UNCHANGED <<svcRest, rec, left>>

SvcLock == /\ svc.pc = "lock" /\ except_mutex = "none" /\ except_mutex' = "svc"
           /\ IF svc.op = "start" /\ service_state_map = {} /\ power_off
              THEN /\ download_done' = 0 /\ svc' = [svc EXCEPT !.pc = "locked"]
                   /\ rec' = [rec EXCEPT !["svc"] = "begin"]
              ELSE svc' = [svc EXCEPT !.pc = "send"] /\ UNCHANGED <<download_done, rec>>
           /\ UNCHANGED <<svcKeeps, service_state_map, kick, fw, late, spoilt, left>>
SvcLocked == /\ svc.pc = "locked" /\ rec["svc"] = "no"
             /\ svc' = [svc EXCEPT !.pc = "send"]
             /\ UNCHANGED <<svcRest, rec, left>>

\* Completions of something else that are still under way.
AnswersOwed == Booting \/ fw.pend # {} \/ \E i \in DOMAIN wire : wire[i] \in Services

\* mutant: a completion of an earlier answer is not reset
SvcStartKeeps ==
  /\ svc.pc = "send" /\ svc.op = "start"
  /\ UNCHANGED download_done
  /\ IF cp_state # 0
     THEN /\ svc' = Call("idle", svc.op, svc.s, FALSE) /\ except_mutex' = "none"
          /\ UNCHANGED <<fw, late>>
     ELSE /\ fw' = IF fw.st = "run" THEN [fw EXCEPT !.pend = @ \cup {svc.s}] ELSE fw
          /\ svc' = [svc EXCEPT !.pc = "ready"]
          /\ late' = AnswersOwed /\ UNCHANGED except_mutex
  /\ UNCHANGED <<svcKeeps, service_state_map, kick, rec, spoilt, left>>

\* skw_WIFI_service_start and skw_BT_service_start: send_modem_service_command
\* and skw_check_cp_ready, all under except_mutex.
SvcStart ==
  /\ svc.pc = "send" /\ svc.op = "start"
  /\ download_done' = 0
  /\ IF cp_state # 0
     THEN /\ svc' = Call("idle", svc.op, svc.s, FALSE) /\ except_mutex' = "none"
          /\ UNCHANGED <<fw, late>>
     ELSE /\ fw' = IF fw.st = "run" THEN [fw EXCEPT !.pend = @ \cup {svc.s}] ELSE fw
          /\ svc' = [svc EXCEPT !.pc = "ready"]
          /\ late' = AnswersOwed /\ UNCHANGED except_mutex
  /\ UNCHANGED <<svcKeeps, service_state_map, kick, rec, spoilt, left>>

SvcReady ==
  /\ svc.pc = "ready" /\ except_mutex' = "none"
  /\ \/ /\ download_done > 0 /\ download_done' = download_done - 1
        /\ svc' = Call("idle", svc.op, svc.s, TRUE) /\ UNCHANGED kick
     \/ /\ download_done = 0 /\ kick' = TRUE
        /\ svc' = Call("idle", svc.op, svc.s, FALSE) /\ UNCHANGED download_done
  /\ UNCHANGED <<svcKeeps, service_state_map, fw, rec, late, spoilt, left>>

\* skw_WIFI_service_stop and skw_BT_service_stop: the bit is cleared before
\* cp_state is looked at.
SvcStop ==
  /\ svc.pc = "send" /\ svc.op = "stop"
  /\ LET sends == svc.s \in service_state_map /\ (svc.s = "wifi" \/ cp_state = 0) IN
     /\ service_state_map' = IF sends THEN service_state_map \ {svc.s} ELSE service_state_map
     /\ download_done' = IF sends /\ svc.s = "bt" THEN 0 ELSE download_done
     /\ svc' = Call("idle", svc.op, svc.s, ~sends \/ cp_state = 0)
  /\ except_mutex' = "none"
  /\ UNCHANGED <<svcKeeps, kick, fw, rec, late, spoilt, left>>
-----------------------------------------------------------------------------
(* skw_sdio_suspend and skw_sdio_resume; user processes are frozen first. *)

pmKeeps == <<irq_type, cp_state, cp_exception_sts, service_state_map, download_done, irqVars,
             except_mutex, except_work, log_open, pcVars, fwVars, late, spoilt, cold>>

Suspend == /\ resume_flag /\ cp_state = 0 /\ svc.pc = "idle" /\ Spend("sleeps")
           /\ resume_flag' = FALSE
           /\ power_off' = (power_off \/ service_state_map = {})
           /\ UNCHANGED pmKeeps
Resume == /\ ~resume_flag /\ resume_flag' = TRUE
          /\ UNCHANGED <<pmKeeps, power_off, left>>
-----------------------------------------------------------------------------
RxThread == \/ \E s \in Services : RxServiceReady(s)
            \/ RxTrunk \/ RxAssert \/ RxAssertLocked \/ RxDump \/ RxDumpLocked \/ RxCancel \/ RxRecovered
ExcWork == ExcFire \/ ExcLocked \/ ExcBlock \/ ExcRecovered
Caller == FirstBooted \/ SvcBoot \/ SvcBooted \/ SvcWait \/ SvcLock \/ SvcLocked \/ SvcStart \/ SvcReady \/ SvcStop
Chip == FwReady \/ FwCrash \/ FwDump
Recovery == \E a \in Actors : Recover(a)
Power == Suspend \/ Resume

Next == RxThread \/ ExcWork \/ Abort \/ AssertCommand \/ Caller \/ SvcCall \/ Chip \/ FwBoot \/ Recovery \/ Power

\* Threads, works and calls go on, timers fire, a started chip boots and the
\* system wakes up; nothing makes the chip answer or dump.
Fairness == /\ WF_vars(RxThread) /\ WF_vars(ExcWork) /\ WF_vars(Caller) /\ WF_vars(FwBoot)
            /\ WF_vars(Recovery) /\ WF_vars(Resume)

Spec == Init /\ [][Next]_vars /\ Fairness
-----------------------------------------------------------------------------
(* A service start that reports success has had its service's answer: the  *)
(* completion is shared by the boot, both services and the answers to      *)
(* starts given up, which only the reset before the command keeps apart,   *)
(* and a crash clears the map meanwhile.                                   *)
StartMeansReady ==
  [][svc.pc = "ready" /\ svc'.pc = "idle" /\ svc'.ok
       => svc.s \in service_state_map' \/ late \/ spoilt]_vars

(* DUMPDONE in the receive thread and the exception work race to recover a *)
(* crash: neither resets a chip that was started and has not reported yet. *)
RecoveredOnce ==
  [][\A a \in {"rx", "exc"} : rec[a] = "begin" /\ rec'[a] = "reset"
       => ~Booting \/ spoilt']_vars

(* The GPIO interrupt, disabled for a reset, is enabled again: a chip that *)
(* is alive with nobody recovering it is heard.  skw_sdio_boot_cp enables  *)
(* it only for a chip that had crashed; one recovered because a suspend    *)
(* took its power stays unheard.                                           *)
HeardWhenAlive ==
  cp_state = 0 /\ Recovering = {} /\ exc = "idle" => irq_depth = 0 \/ spoilt \/ cold

(* The users of the ports are told of a recovery after they were told of   *)
(* the crash: while the chip is alive nobody is refused for a crash.  A    *)
(* service call that recovers a chip whose crash the exception work has    *)
(* taken up is set apart: skw_sdio_exception_work tells them of the crash  *)
(* after it gave up except_mutex, and by then trunk_W may have been heard. *)
ToldOfRecovery == cp_state = 0 => cp_exception_sts = 0 \/ spoilt

\* The safety of the recovery: a chip that is alive is heard again after a reset
\* (skw_sdio_boot_cp, skw_sdio_dev_irq) and the users of its ports were told of the
\* recovery after the crash.
PlatSound == TypeOK /\ HeardWhenAlive /\ ToldOfRecovery

(* A crash is recovered, whether the firmware reports it, a transfer fails *)
(* or the host causes it, with a dump or without, and with service calls   *)
(* waiting on the mutex; unless the reset fails or the chip crashes again. *)
Recovered == cp_state = 0 \/ spoilt
CrashRecovered == []<>Recovered
=============================================================================
