------------------------------ MODULE SkwUsbCtl ------------------------------
(***************************************************************************)
(* Boot, services and recovery over USB (usb/skw_usb_io.c, usb_boot.c).    *)
(* The chip enumerates as a boot device, takes its image from dloader_work *)
(* and enumerates again with the ports of its firmware.  The LOOP port's   *)
(* thread hears what the firmware says; the exception work and the control *)
(* work (modem_assert) handle a crash.  skw_recovery_mode does nothing in  *)
(* this build: the chip's own watchdog has to restart it.                  *)
(*                                                                         *)
(* Actors: the hub's thread (probe and disconnect), dloader_work, the LOOP *)
(* thread, the exception work, the control work, one caller per service,   *)
(* suspend; the chip is external.                                          *)
(***************************************************************************)
EXTENDS Integers, FiniteSets, Sequences

CONSTANTS
    Loads,      \* budgets a behaviour starts from
    Services    \* "wifi" and "bt"

VARIABLES
    load,   \* budget left: crash, hang, dlfail, start, stop, abort, sleep, unplug; en: the chip has an enable pin
    chip,   \* st: "off", "rom", "app"; fw: "none", "boot", "up", "dead"; req, svc: services asked for and running; pin
    usb,    \* dev: the device the ports belong to; n: interfaces probed (0, WIFIDATA, LOOP)
    wire,   \* what the firmware has said on the LOOP port
    loop,   \* the LOOP thread: "none", "start", "read", "assert", "locked", "dump", "end"
    exc,    \* skw_except_work: "off", "armed", "run"
    mctl,   \* usb_control_worker: "idle", "queued", "sent"
    dl,     \* dloader_work: "idle", "queued", "dram", "iram", "boot", "exec", "fail"
    host,   \* status: modem_status; cp: cp_state; map: service_state_map; flag, done; data: port 1 is up; wdev; add
    call,   \* per service: "idle", "start", "stop"
    told,   \* what the drivers heard last, and how often of one crash
    odd     \* what went wrong

vars == <<load, chip, usb, wire, loop, exc, mctl, dl, host, call, told, odd>>

BLOCKED == 2    \* DEVICE_BLOCKED_EVENT

Init ==
    /\ load \in Loads
    /\ chip = [st |-> "rom", fw |-> "none", req |-> {}, svc |-> {}, pin |-> TRUE]
    /\ usb = [dev |-> "none", n |-> 0]
    /\ wire = <<>> /\ loop = "none" /\ exc = "off" /\ mctl = "idle" /\ dl = "idle"
    /\ host = [status |-> "OFF", cp |-> 0, map |-> {}, flag |-> FALSE, done |-> FALSE,
               data |-> FALSE, wdev |-> FALSE, add |-> FALSE]
    /\ call = [s \in Services |-> "idle"] /\ told = [ev |-> "none", n |-> 0] /\ odd = {}

Spend(what) == load[what] > 0 /\ load' = [load EXCEPT ![what] = @ - 1]

\* modem_notify_event; a crash is told by ASSERT or BLOCKED
Tell(ev) == told' = [ev |-> ev, n |-> IF ev \in {"assert", "blocked"} THEN told.n + 1
                                      ELSE IF ev = "ready" THEN 0 ELSE told.n]

-----------------------------------------------------------------------------
(* The chip                                                                *)

Dead(c) == [c EXCEPT !.fw = "dead", !.req = {}, !.svc = {}]

ChipUp ==
    /\ chip.st = "off" /\ chip.pin /\ usb.n = 0
    /\ chip' = [chip EXCEPT !.st = "rom"]
    /\ UNCHANGED <<load, usb, wire, loop, exc, mctl, dl, host, call, told, odd>>

FwSays ==
    /\ chip.st = "app" /\ usb.dev = "app" /\ usb.n = 3
    /\ \/ /\ chip.fw = "boot" /\ chip' = [chip EXCEPT !.fw = "up"]
          /\ wire' = Append(wire, "trunk") /\ UNCHANGED load
       \/ /\ chip.fw = "up" /\ UNCHANGED load
          /\ \E s \in chip.req :
              IF s \in chip.svc
              THEN /\ chip' = [chip EXCEPT !.req = @ \ {s}, !.svc = @ \ {s}]
                   /\ wire' = IF s = "bt" THEN Append(wire, "exit") ELSE wire
              ELSE /\ chip' = [chip EXCEPT !.req = @ \ {s}, !.svc = @ \cup {s}]
                   /\ wire' = Append(wire, s)
       \/ /\ chip.fw = "up" /\ chip' = Dead(chip)
          /\ \/ Spend("crash") /\ wire' = Append(wire, "assert")
             \/ Spend("hang") /\ UNCHANGED wire
    /\ UNCHANGED <<usb, loop, exc, mctl, dl, host, call, told, odd>>

\* the watchdog of a dead firmware, or an unplug
ChipGone ==
    /\ \/ chip.fw = "dead" /\ UNCHANGED load
       \/ chip.st # "off" /\ Spend("unplug")
    /\ chip' = [Dead(chip) EXCEPT !.st = "off", !.fw = "none"] /\ wire' = <<>>
    /\ UNCHANGED <<usb, loop, exc, mctl, dl, host, call, told, odd>>

-----------------------------------------------------------------------------
(* skw_usb_io_probe and skw_usb_io_disconnect, one interface at a time     *)

Probe ==
    /\ chip.st # "off" /\ usb.dev \in {"none", chip.st}
    /\ usb' = [dev |-> chip.st, n |-> usb.n + 1]
    /\ \/ /\ chip.st = "rom" /\ usb.n = 0 /\ dl' = "queued"
          /\ host' = [host EXCEPT !.status = "ON"] /\ UNCHANGED <<loop, exc>>
       \/ /\ chip.st = "app" /\ usb.n = 0 /\ UNCHANGED <<dl, host, loop, exc>>
       \/ /\ chip.st = "app" /\ usb.n = 1
          /\ host' = [host EXCEPT !.data = TRUE, !.status = IF host.wdev THEN @ ELSE "ON"]
          /\ UNCHANGED <<dl, loop, exc>>
       \/ /\ chip.st = "app" /\ usb.n = 2
          /\ loop' = "start" /\ UNCHANGED <<dl, host, exc>>
    /\ UNCHANGED <<load, chip, wire, mctl, call, told, odd>>

\* the ports of a device that is gone; disconnect waits for the work and the thread
Unplugged == usb.dev # "none" /\ usb.dev # chip.st
Vacated == IF usb.n = 1 THEN [dev |-> "none", n |-> 0] ELSE [usb EXCEPT !.n = @ - 1]

\* mutant: the enable pin is left low behind a failed download
DisconnectRomLow ==
    /\ usb.dev = "rom" /\ Unplugged /\ dl = "idle"
    /\ usb' = Vacated
    /\ UNCHANGED <<load, chip, wire, loop, exc, mctl, dl, host, call, told, odd>>

DisconnectRom ==
    /\ usb.dev = "rom" /\ Unplugged /\ dl = "idle"
    /\ usb' = Vacated
    /\ IF load.en /\ host.status = "FAILED"
       THEN host' = [host EXCEPT !.status = "HALT"] /\ chip' = [chip EXCEPT !.pin = TRUE]
       ELSE UNCHANGED <<host, chip>>
    /\ UNCHANGED <<load, wire, loop, exc, mctl, dl, call, told, odd>>

\* interface 0 tells the drivers, unless a crash is being handled
DisconnectApp ==
    /\ usb.dev = "app" /\ Unplugged
    /\ usb' = Vacated
    /\ \/ /\ host.data
          /\ IF host.cp = 0 THEN Tell("gone") ELSE UNCHANGED told
          /\ host' = [host EXCEPT !.data = FALSE]
       \/ /\ ~host.data /\ (usb.n # 1 \/ loop \in {"none", "end"})
          /\ UNCHANGED <<host, told>>
    /\ loop' = IF usb.n = 1 THEN "none" ELSE loop
    /\ UNCHANGED <<load, chip, wire, exc, mctl, dl, call, odd>>

Hub == Probe \/ DisconnectRom \/ DisconnectApp

-----------------------------------------------------------------------------
(* dloader_work: the images, BOOTUP, and the jump into the firmware        *)

DlStep ==
    /\ dl # "idle"
    /\ \/ dl = "queued" /\ dl' = "dram" /\ UNCHANGED <<load, chip, host, told>>
       \/ /\ dl \in {"dram", "iram"} /\ chip.st = "rom" /\ UNCHANGED <<load, chip, host, told>>
          /\ dl' = (IF dl = "dram" THEN "iram" ELSE "boot")
       \/ /\ dl \in {"dram", "iram"} /\ UNCHANGED <<chip, host>>
          /\ (chip.st # "rom" /\ UNCHANGED load) \/ Spend("dlfail")
          /\ Tell("bootup") /\ dl' = "fail"
       \/ dl = "boot" /\ Tell("bootup") /\ dl' = "exec" /\ UNCHANGED <<load, chip, host>>
       \/ /\ dl = "exec" /\ UNCHANGED <<load, told, host>>
          /\ IF chip.st = "rom"
             THEN chip' = [chip EXCEPT !.st = "app", !.fw = "boot"] /\ dl' = "idle"
             ELSE UNCHANGED chip /\ dl' = "fail"
       \/ /\ dl = "fail" /\ dl' = "idle" /\ UNCHANGED <<load, told>>
          /\ IF load.en
             THEN /\ host' = [host EXCEPT !.status = "FAILED"]
                  /\ chip' = [chip EXCEPT !.pin = FALSE, !.st = "off"]
             ELSE UNCHANGED <<chip, host>>
    /\ odd' = IF dl = "fail" /\ ~load.en THEN odd \cup {"stuck"} ELSE odd
    /\ UNCHANGED <<usb, wire, loop, exc, mctl, call>>

-----------------------------------------------------------------------------
(* usb_loopcheck_entry                                                     *)

Alive == usb.dev = "app" /\ chip.st = "app" /\ usb.n = 3

LoopStart ==
    /\ loop = "start" /\ loop' = "read"
    /\ exc' = IF exc = "off" THEN "armed" ELSE exc
    /\ UNCHANGED <<load, chip, usb, wire, mctl, dl, host, call, told, odd>>

\* the read fails when the device is gone
LoopEnds ==
    /\ loop = "read" /\ ~Alive /\ loop' = "end"
    /\ UNCHANGED <<load, chip, usb, wire, exc, mctl, dl, host, call, told, odd>>

\* WIFIREADY, BTREADY and BTEXIT
LoopService ==
    /\ loop = "read" /\ wire # <<>> /\ Head(wire) \in Services \cup {"exit"} /\ wire' = Tail(wire)
    /\ host' = IF Head(wire) = "exit" THEN [host EXCEPT !.done = TRUE]
               ELSE [host EXCEPT !.flag = FALSE, !.done = TRUE, !.map = @ \cup {Head(wire)}]
    /\ UNCHANGED <<load, chip, usb, loop, exc, mctl, dl, call, told, odd>>

Calling == \E s \in Services : call[s] # "idle"

\* mutant: the state of the last crash is kept
LoopTrunkKeeps ==
    /\ loop = "read" /\ wire # <<>> /\ Head(wire) = "trunk" /\ exc # "run" /\ wire' = Tail(wire)
    /\ exc' = "off" /\ Tell("ready")
    /\ host' = [host EXCEPT !.status = "ON", !.add = TRUE]
    /\ odd' = IF host.map # {} \/ Calling THEN odd \cup {"kept"} ELSE odd
    /\ UNCHANGED <<load, chip, usb, loop, mctl, dl, call>>

\* trunk_W: the firmware is up; cancel_delayed_work_sync waits for a running work
LoopTrunk ==
    /\ loop = "read" /\ wire # <<>> /\ Head(wire) = "trunk" /\ exc # "run" /\ wire' = Tail(wire)
    /\ exc' = "off" /\ Tell("ready")
    /\ host' = [host EXCEPT !.cp = 0, !.status = "ON", !.add = TRUE]
    /\ odd' = IF host.map # {} \/ Calling THEN odd \cup {"kept"} ELSE odd
    /\ UNCHANGED <<load, chip, usb, loop, mctl, dl, call>>

\* BSPASSERT: a work armed for this crash is cancelled ...
LoopAssert ==
    /\ loop = "read" /\ wire # <<>> /\ Head(wire) = "assert" /\ wire' = Tail(wire)
    /\ (host.cp = 1 => exc # "run") /\ loop' = "assert"
    /\ exc' = IF host.cp = 1 THEN "off" ELSE exc
    /\ UNCHANGED <<load, chip, usb, mctl, dl, host, call, told, odd>>

\* ... and the thread handles the crash, unless the work was first
LoopLocked ==
    /\ loop = "assert"
    /\ IF host.cp = BLOCKED THEN loop' = "end" /\ UNCHANGED <<host, told>>
       ELSE /\ loop' = "dump" /\ Tell("assert")
            /\ host' = [host EXCEPT !.cp = 1, !.status = "HALT", !.data = FALSE]
    /\ UNCHANGED <<load, chip, usb, wire, exc, mctl, dl, call, odd>>

\* what follows is read and DUMPDONE told; skw_recovery_mode is empty
LoopDump ==
    /\ loop = "dump" /\ loop' = "end" /\ host' = [host EXCEPT !.map = {}] /\ Tell("dumped")
    /\ UNCHANGED <<load, chip, usb, wire, exc, mctl, dl, call, odd>>

Loop == LoopStart \/ LoopEnds \/ LoopService \/ LoopTrunk \/ LoopAssert \/ LoopLocked \/ LoopDump

-----------------------------------------------------------------------------
(* skw_usb_exception_work and modem_assert                                 *)

ExcFire ==
    /\ exc = "armed"
    /\ IF host.cp = 1
       THEN exc' = "run" /\ host' = [host EXCEPT !.cp = BLOCKED] /\ Tell("blocked")
       ELSE exc' = "off" /\ UNCHANGED <<host, told>>
    /\ odd' = IF chip.fw # "dead" \/ (\E i \in DOMAIN wire : wire[i] = "trunk") THEN odd \cup {"slow"} ELSE odd
    /\ UNCHANGED <<load, chip, usb, wire, loop, mctl, dl, call>>

ExcEnd ==
    /\ exc = "run" /\ exc' = "off" /\ host' = [host EXCEPT !.map = {}]
    /\ UNCHANGED <<load, chip, usb, wire, loop, mctl, dl, call, told, odd>>

\* a driver misses an answer, of a dead firmware or of a slow one
ModemAssert ==
    /\ mctl = "idle" /\ usb.n > 0 /\ host.wdev /\ mctl' = "queued"
    /\ Spend("abort")
    /\ UNCHANGED <<chip, usb, wire, loop, exc, dl, host, call, told, odd>>

\* the control message blocks, and only then is the modem halted and the work armed
MctlSend ==
    /\ mctl = "queued"
    /\ IF host.status = "HALT" \/ usb.n = 0 THEN mctl' = "idle" /\ UNCHANGED <<host, chip, wire>>
       ELSE /\ mctl' = "sent" /\ host' = [host EXCEPT !.cp = 1]
            /\ IF Alive /\ chip.fw = "up"
               THEN chip' = Dead(chip) /\ wire' = Append(wire, "assert")
               ELSE UNCHANGED <<chip, wire>>
    /\ UNCHANGED <<load, usb, loop, exc, dl, call, told, odd>>

MctlArm ==
    /\ mctl = "sent" /\ mctl' = "idle" /\ host' = [host EXCEPT !.status = "HALT"]
    /\ exc' = IF exc = "off" THEN "armed" ELSE exc
    /\ odd' = IF told.n > 0 \/ loop = "assert" \/ host.cp = 0 \/ host.status = "FAILED" THEN odd \cup {"rearmed"} ELSE odd
    /\ UNCHANGED <<load, chip, usb, wire, loop, dl, call, told>>

Recovery == ExcFire \/ ExcEnd \/ MctlSend \/ MctlArm

-----------------------------------------------------------------------------
(* Services: send_modem_service_command                                    *)

AddDevices ==
    /\ host.add /\ host' = [host EXCEPT !.add = FALSE, !.wdev = @ \/ usb.n > 0]
    /\ UNCHANGED <<load, chip, usb, wire, loop, exc, mctl, dl, call, told, odd>>

Ask(s) == IF Alive /\ host.data /\ chip.fw = "up" THEN [chip EXCEPT !.req = @ \cup {s}] ELSE chip

\* trunk_W was said and the LOOP thread did not hear it yet
Unheard == \E i \in DOMAIN wire : wire[i] = "trunk"

ServiceStart(s) ==
    /\ call[s] = "idle" /\ host.wdev /\ s \notin host.map /\ host.cp = 0 /\ Spend("start")
    /\ host' = [host EXCEPT !.flag = TRUE, !.done = IF host.data THEN FALSE ELSE @]
    /\ chip' = Ask(s) /\ call' = [call EXCEPT ![s] = "start"]
    /\ odd' = odd \cup (IF Calling THEN {"crossed"} ELSE {})
    /\ UNCHANGED <<usb, wire, loop, exc, mctl, dl, told>>

\* a WiFi stop of a halted modem only forgets the service
ServiceStop(s) ==
    /\ call[s] = "idle" /\ host.wdev /\ s \in host.map /\ Spend("stop")
    /\ \/ /\ s = "wifi" /\ host.status = "HALT"
          /\ host' = [host EXCEPT !.map = @ \ {s}] /\ UNCHANGED <<chip, call, odd>>
       \/ /\ host.cp = 0 /\ ~(s = "wifi" /\ host.status = "HALT")
          /\ host' = [host EXCEPT !.done = IF host.data THEN FALSE ELSE @]
          /\ chip' = Ask(s) /\ call' = [call EXCEPT ![s] = "stop"]
          /\ odd' = odd \cup (IF Calling THEN {"crossed"} ELSE {}) \cup (IF Unheard THEN {"unheard"} ELSE {})
    /\ UNCHANGED <<usb, wire, loop, exc, mctl, dl, told>>

\* download_done, whoever completed it, or the timeout; the bit is set either way
ServiceEnd(s) ==
    /\ call[s] # "idle" /\ call' = [call EXCEPT ![s] = "idle"]
    /\ host' = [host EXCEPT !.done = FALSE, !.map = IF call[s] = "start" THEN @ \cup {s} ELSE @ \ {s}]
    /\ odd' = odd \cup (IF ~host.done /\ (call[s] = "start" \/ s = "bt") THEN {"unready"} ELSE {})
    /\ UNCHANGED <<load, chip, usb, wire, loop, exc, mctl, dl, told>>

ServiceDone == \E s \in Services : ServiceEnd(s)

\* skw_usb_io_suspend of interface 0 forgets a crash
Suspend ==
    /\ usb.n > 0 /\ exc # "run" /\ Spend("sleep")
    /\ IF host.cp # 0 THEN host' = [host EXCEPT !.cp = 0] /\ exc' = "off" /\ odd' = odd \cup {"slept"}
       ELSE UNCHANGED <<host, exc, odd>>
    /\ UNCHANGED <<chip, usb, wire, loop, mctl, dl, call, told>>

Next ==
    \/ ChipUp \/ FwSays \/ ChipGone \/ Hub \/ DlStep \/ Loop \/ Recovery \/ ModemAssert
    \/ AddDevices \/ ServiceDone \/ Suspend
    \/ \E s \in Services : ServiceStart(s) \/ ServiceStop(s)

Fairness ==
    /\ WF_vars(ChipUp) /\ WF_vars(chip.fw \in {"boot", "up"} /\ FwSays) /\ WF_vars(chip.fw = "dead" /\ ChipGone)
    /\ WF_vars(Hub) /\ WF_vars(DlStep) /\ WF_vars(Loop) /\ WF_vars(ExcFire \/ ExcEnd)
    /\ WF_vars(MctlSend \/ MctlArm) /\ WF_vars(AddDevices) /\ WF_vars(ServiceDone)

Spec == Init /\ [][Next]_vars /\ Fairness

-----------------------------------------------------------------------------
(* Properties *)

TypeOK ==
    /\ chip.st \in {"off", "rom", "app"} /\ chip.fw \in {"none", "boot", "up", "dead"}
    /\ usb.dev \in {"none", "rom", "app"} /\ usb.n \in 0 .. 3 /\ (usb.n = 0 <=> usb.dev = "none")
    /\ loop \in {"none", "start", "read", "assert", "dump", "end"} /\ exc \in {"off", "armed", "run"}
    /\ mctl \in {"idle", "queued", "sent"} /\ host.status \in {"OFF", "ON", "HALT", "FAILED"}
    /\ host.cp \in {0, 1, BLOCKED} /\ host.map \subseteq Services /\ told.n \in Nat

\* Once the firmware that runs has been heard and nothing is under way, the services
\* the driver takes for started are those that run.  A call that timed out
\* (unready), two calls on one completion (crossed), a restart that found services
\* started or a call under way (kept), a stop that is sent to a firmware which is up
\* but was not heard yet (unheard), and an abort whose control work ends behind the
\* recovery (rearmed), break that.
Settled ==
    /\ chip.fw = "up" /\ Alive /\ wire = <<>> /\ chip.req = {} /\ loop = "read" /\ told.ev = "ready"
    /\ ~Calling

ServicesHonest ==
    Settled => host.map = chip.svc \/ {"unready", "crossed", "kept", "rearmed", "unheard"} \cap odd # {}

\* A crash is told once, by its BSPASSERT or by the exception work, unless the control
\* work arms the exception work behind the LOOP thread (rearmed), a suspend makes the
\* driver forget that the crash is known (slept), or the firmware is slower than the work.
ToldOnce == told.n <= 1 \/ {"rearmed", "slept", "slow"} \cap odd # {}

\* A firmware that runs and was heard is not taken for a crashed one, unless the
\* control work comes behind (rearmed).
OnWhenUp ==
    Settled /\ mctl = "idle" => (host.status = "ON" /\ host.cp = 0) \/ "rearmed" \in odd

\* Boot, services and recovery over USB: the drivers are told the truth.
CtlSound == TypeOK /\ ServicesHonest /\ ToldOnce /\ OnWhenUp

\* A chip that boots or crashed ends up with firmware that the drivers were told of,
\* unless a download fails and there is no pin to restart the chip (stuck),
\* or the control work overwrites the state that asks for the pin (rearmed).
Back == Settled \/ {"stuck", "rearmed"} \cap odd # {}
CtlRecovers == []<>Back
=============================================================================
