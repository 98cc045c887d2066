------------------------------- MODULE SkwCmd -------------------------------
(***************************************************************************)
(* The command channel of the Wi-Fi driver (skw_msg.c, skw_tx.c,           *)
(* skw_work.c): one command slot skw->cmd shared by every caller, a        *)
(* counting semaphore cmd.lock that guards it, the tx worker that puts the *)
(* slot on the bus, the rx thread that matches acknowledgements, and the   *)
(* firmware assert / reboot / recovery cycle around it.                    *)
(*                                                                         *)
(* Synchronous callers go through skw_msg_xmit_timeout: they sleep on the  *)
(* semaphore and release it themselves.  Try-senders (ndo_start_xmit, in   *)
(* atomic context) go through skw_msg_try_send: they leave with the        *)
(* semaphore taken, and the ack callback's work item or the command timer  *)
(* releases it later.                                                      *)
(***************************************************************************)
EXTENDS Integers, Sequences, FiniteSets

CONSTANTS
    Callers,      \* threads that use skw_msg_xmit_timeout
    Suspenders,   \* those of them that run skw_suspend (a NO_ACK command)
    TrySenders,   \* contexts that use skw_msg_try_send
    Ids,          \* command identifiers
    FwModes,      \* mode events the firmware may send: MP_MODE, FW_MAC_RECOVERY
    MaxCmds,      \* bound: commands started
    MaxCrashes    \* bound: spontaneous firmware crashes

ASSUME SuspendersAssumption == Suspenders \subseteq Callers
ASSUME DisjointAssumption == Callers \cap TrySenders = {}
ASSUME BoundsAssumption == MaxCmds \in Nat /\ MaxCrashes \in Nat
ASSUME IdsAssumption == Ids # {}
ASSUME FwModesAssumption == FwModes \subseteq {"MP_MODE", "FW_MAC_RECOVERY"}

VARIABLES
    sem,        \* cmd.lock.count
    waitq,      \* tasks sleeping in down(), oldest first
    pc,         \* where each caller and each try-sender is
    cmd,        \* the slot: id, seq, seq in the message header (hdr), flags,
                \* callback, status; ghosts: tok (serial number), by
    result,     \* what each caller's last finished call returned
    skwFlags,   \* bits of skw->flags that stop commands
    timer,      \* command timer: "armed" on the shared list, "firing" taken off it
    works,      \* scheduled work items: work_unlock, work (ASSERT flag)
    txPc,       \* skw_tx_worker
    fw,         \* life cycle of the firmware as the BSP notifier sees it
    wire,       \* commands handed to the bus, not yet answered
    acks,       \* acknowledgements on their way to the host
    rx,         \* ack the rx thread is delivering, or none
    nCmds, nCrashes,
    hit         \* ghost: callers whose current call overlapped a tx block

lockVars == <<sem, waitq>>
fwVars   == <<fw, wire, acks, nCrashes>>
vars == <<sem, waitq, pc, cmd, result, skwFlags, timer, works, txPc, fw, wire,
          acks, rx, nCmds, nCrashes, hit>>

NoTok == 0
Toks  == Nat                     \* ghost serial numbers, one per command built
NoRx  == [id |-> CHOOSE i \in Ids : TRUE, seq |-> 0, tok |-> NoTok, status |-> 0]
Acks  == [id : Ids, seq : Toks, tok : Toks, status : {0, 1}]

CmdFlags == {"XMIT", "DONE", "ACKED", "NO_ACK", "IGNORE_BLOCK_TX"}
SkwFlags == {"FW_ASSERT", "BLOCK_TX", "MP_MODE", "FW_MAC_RECOVERY"}
CallPcs  == {"idle", "down", "queued", "set", "arm", "wait1", "wait2", "unlock"}
\* program points at which a caller owns the slot
Owning   == {"set", "arm", "wait1", "wait2", "unlock"}

Slots   == [id : Ids, seq : Toks, hdr : Toks, tok : Toks, flags : SUBSET CmdFlags,
            cb : {"none", "sync", "try"}, status : {0, 1}, by : Toks]
Results == [code : {"none", "ok", "fail", "EIO", "ETIMEDOUT"}, own : BOOLEAN]

Owners == {c \in Callers \cup TrySenders : pc[c] \in Owning}

TypeOK ==
    /\ sem \in Nat
    /\ waitq \in Seq(Callers)
    /\ pc \in [Callers \cup TrySenders -> CallPcs]
    /\ cmd \in Slots
    /\ result \in [Callers -> Results]
    /\ skwFlags \in SUBSET SkwFlags
    /\ timer \in SUBSET {"armed", "firing"}
    /\ works \in SUBSET {"tx", "unlock", "assert", "recovery"}
    /\ txPc \in {"idle", "loop", "xmit", "sent"}
    /\ fw \in {"up", "dead", "down", "ready", "prepared"}
    /\ wire \in SUBSET Acks /\ acks \in SUBSET Acks /\ rx \in Acks
    /\ nCmds \in 0 .. MaxCmds /\ nCrashes \in 0 .. MaxCrashes
    /\ hit \in SUBSET Callers

-----------------------------------------------------------------------------
Init ==
    /\ sem = 1 /\ waitq = <<>>
    /\ pc = [c \in Callers \cup TrySenders |-> "idle"]
    /\ cmd = [id |-> NoRx.id, seq |-> 0, hdr |-> 0, tok |-> NoTok, flags |-> {},
              cb |-> "none", status |-> 0, by |-> NoTok]
    /\ result = [c \in Callers |-> [code |-> "none", own |-> FALSE]]
    /\ skwFlags = {} /\ timer = {} /\ works = {} /\ txPc = "idle"
    /\ fw = "up" /\ wire = {} /\ acks = {} /\ rx = NoRx
    /\ nCmds = 0 /\ nCrashes = 0 /\ hit = {}

\* skw_cmd_tx_allowed, after the caller's IGNORE_BLOCK_TX has been applied
CmdTxAllowed(extra) ==
    skwFlags \subseteq (IF "IGNORE_BLOCK_TX" \in extra THEN {"BLOCK_TX"} ELSE {})

\* flags a caller passes down: SKW_CMD_SUSPEND is sent unacknowledged
ExtraFlags(c) == IF c \in Suspenders THEN {"NO_ACK", "IGNORE_BLOCK_TX"} ELSE {}

\* mutant: a release that counts but leaves the sleepers asleep
UpNoHandOver(pcs) == pc' = pcs /\ sem' = sem + 1 /\ UNCHANGED waitq

\* mutant: a release that hands over and counts as well
UpTwice(pcs) ==
    /\ sem' = sem + 1
    /\ pc' = IF waitq = <<>> THEN pcs ELSE [pcs EXCEPT ![Head(waitq)] = "set"]
    /\ waitq' = IF waitq = <<>> THEN waitq ELSE Tail(waitq)

\* up(): the kernel hands the permit to the oldest sleeper, if there is one
Up(pcs) ==
    IF waitq = <<>>
    THEN sem' = sem + 1 /\ pc' = pcs /\ UNCHANGED waitq
    ELSE /\ pc' = [pcs EXCEPT ![Head(waitq)] = "set"]
         /\ waitq' = Tail(waitq)
         /\ UNCHANGED sem

\* set bits of skw->flags that stop transmission; every running call is affected
Block(bits) == skwFlags' = skwFlags \cup bits /\ hit' = Callers

\* cmd.callback(skw): set DONE for the sleeper, or schedule work_unlock.  The
\* ghost by records which command's acknowledgement completed the slot
CallBack(f, by) ==
    /\ cmd' = [cmd EXCEPT !.flags = IF cmd.cb = "sync" THEN f \cup {"DONE"} ELSE f,
                          !.by = by]
    /\ works' = IF cmd.cb = "try" THEN works \cup {"unlock"} ELSE works

\* skw_abort_cmd: complete the slot without an answer
AbortCmd ==
    IF sem = 0 /\ "ACKED" \notin cmd.flags
    THEN CallBack(cmd.flags \cup {"ACKED"}, NoTok)
    ELSE UNCHANGED <<cmd, works>>

\* skw_set_cmd: fill the slot; the flags word is overwritten, not merged
SetCmd(id, extra) ==
    cmd' = [id |-> id, seq |-> cmd.seq + 1, hdr |-> cmd.seq + 1, tok |-> cmd.tok + 1,
            flags |-> extra, cb |-> cmd.cb, status |-> 0, by |-> NoTok]

\* skw_hw_assert: only the first caller reaches the modem, whose firmware stops
HwAssert ==
    /\ Block({"FW_ASSERT"})
    /\ IF "FW_ASSERT" \notin skwFlags /\ fw = "up"
       THEN fw' = "dead" /\ wire' = {} /\ acks' = {} /\ UNCHANGED nCrashes
       ELSE UNCHANGED fwVars

-----------------------------------------------------------------------------
(* Synchronous callers: skw_msg_xmit_timeout and skw_cmd_xmit_timeout      *)

Return(c, code, own) == result' = [result EXCEPT ![c] = [code |-> code, own |-> own]]

\* skw_cmd_allowed passed.  skw_suspend sets BLOCK_TX before it calls.
Call(c) ==
    /\ pc[c] = "idle" /\ nCmds < MaxCmds
    /\ CmdTxAllowed(ExtraFlags(c))
    /\ pc' = [pc EXCEPT ![c] = "down"]
    /\ nCmds' = nCmds + 1
    /\ IF c \in Suspenders THEN Block({"BLOCK_TX"})
       ELSE hit' = hit \ {c} /\ UNCHANGED skwFlags
    /\ UNCHANGED <<lockVars, cmd, result, timer, works, txPc, fwVars, rx>>

\* skw_cmd_allowed failed: the flags word, or the interface is missing or closed.
\* skw_suspend then clears BLOCK_TX again.
Refuse(c) ==
    /\ pc[c] = "idle"
    /\ Return(c, "EIO", FALSE)
    /\ skwFlags' = IF c \in Suspenders THEN skwFlags \ {"BLOCK_TX"} ELSE skwFlags
    /\ UNCHANGED <<lockVars, pc, cmd, timer, works, txPc, fwVars, rx, nCmds, hit>>

\* mutant: down() that does not look at the count
DownUnchecked(c) ==
    /\ pc[c] = "down"
    /\ sem' = sem - 1 /\ pc' = [pc EXCEPT ![c] = "set"]
    /\ UNCHANGED <<waitq, cmd, result, skwFlags, timer, works, txPc, fwVars, rx, nCmds, hit>>

Down(c) ==
    /\ pc[c] = "down"
    /\ IF sem > 0
       THEN sem' = sem - 1 /\ pc' = [pc EXCEPT ![c] = "set"] /\ UNCHANGED waitq
       ELSE /\ waitq' = Append(waitq, c) /\ pc' = [pc EXCEPT ![c] = "queued"]
            /\ UNCHANGED sem
    /\ UNCHANGED <<cmd, result, skwFlags, timer, works, txPc, fwVars, rx, nCmds, hit>>

CallSetCmd(c) ==
    /\ pc[c] = "set"
    /\ \E id \in Ids : SetCmd(id, ExtraFlags(c))
    /\ pc' = [pc EXCEPT ![c] = "arm"]
    /\ UNCHANGED <<lockVars, result, skwFlags, timer, works, txPc, fwVars, rx, nCmds, hit>>

\* mutant: the worker is not woken
CallArmNoWakeup(c) ==
    /\ pc[c] = "arm"
    /\ cmd' = [cmd EXCEPT !.cb = "sync", !.flags = @ \cup {"XMIT"}]
    /\ pc' = [pc EXCEPT ![c] = "wait1"]
    /\ UNCHANGED <<lockVars, result, skwFlags, timer, works, txPc, fwVars, rx, nCmds, hit>>

CallArm(c) ==
    /\ pc[c] = "arm"
    /\ cmd' = [cmd EXCEPT !.cb = "sync", !.flags = @ \cup {"XMIT"}]
    /\ works' = works \cup {"tx"}
    /\ pc' = [pc EXCEPT ![c] = "wait1"]
    /\ UNCHANGED <<lockVars, result, skwFlags, timer, txPc, fwVars, rx, nCmds, hit>>

\* DONE seen by either wait_event_timeout: return 0 - cmd.status
CallDone(c) ==
    /\ pc[c] \in {"wait1", "wait2"} /\ "DONE" \in cmd.flags
    /\ Return(c, IF cmd.status = 0 THEN "ok" ELSE "fail", cmd.by = cmd.tok)
    /\ pc' = [pc EXCEPT ![c] = "unlock"]
    /\ skwFlags' = IF c \in Suspenders /\ cmd.status # 0
                   THEN skwFlags \ {"BLOCK_TX"} ELSE skwFlags
    /\ UNCHANGED <<lockVars, cmd, timer, works, txPc, fwVars, rx, nCmds, hit>>

\* the first 100 ms passed: kick the worker again, ask the rx thread to look
CallNudge(c) ==
    /\ pc[c] = "wait1" /\ "DONE" \notin cmd.flags
    /\ works' = works \cup (IF "XMIT" \in cmd.flags THEN {"tx"} ELSE {})
    /\ pc' = [pc EXCEPT ![c] = "wait2"]
    /\ UNCHANGED <<lockVars, cmd, result, skwFlags, timer, txPc, fwVars, rx, nCmds, hit>>

\* mutant: a call that timed out returns without giving the semaphore back
CallTimeoutKeeps(c) ==
    /\ pc[c] = "wait2" /\ "DONE" \notin cmd.flags
    /\ cmd' = [cmd EXCEPT !.flags = @ \cup {"ACKED"}]
    /\ HwAssert
    /\ Return(c, "ETIMEDOUT", FALSE)
    /\ pc' = [pc EXCEPT ![c] = "idle"]
    /\ UNCHANGED <<lockVars, timer, works, txPc, rx, nCmds>>

CallTimeout(c) ==
    /\ pc[c] = "wait2" /\ "DONE" \notin cmd.flags
    /\ cmd' = [cmd EXCEPT !.flags = @ \cup {"ACKED"}]
    /\ HwAssert
    /\ Return(c, "ETIMEDOUT", FALSE)
    /\ pc' = [pc EXCEPT ![c] = "unlock"]
    /\ UNCHANGED <<lockVars, timer, works, txPc, rx, nCmds>>

CallUnlock(c) ==
    /\ pc[c] = "unlock"
    /\ Up([pc EXCEPT ![c] = "idle"])
    /\ UNCHANGED <<cmd, result, skwFlags, timer, works, txPc, fwVars, rx, nCmds, hit>>

-----------------------------------------------------------------------------
(* Try-senders: skw_msg_try_send and the two ways their permit comes back  *)

\* down_trylock succeeded and skw_cmd_allowed passed; a refused try-sender
\* gives the permit back at once and leaves no trace
TryLock(t) ==
    /\ pc[t] = "idle" /\ nCmds < MaxCmds
    /\ sem > 0 /\ CmdTxAllowed({})
    /\ sem' = sem - 1
    /\ nCmds' = nCmds + 1
    /\ pc' = [pc EXCEPT ![t] = "set"]
    /\ UNCHANGED <<waitq, cmd, result, skwFlags, timer, works, txPc, fwVars, rx, hit>>

TrySetCmd(t) ==
    /\ pc[t] = "set"
    /\ \E id \in Ids : SetCmd(id, {})
    /\ pc' = [pc EXCEPT ![t] = "arm"]
    /\ UNCHANGED <<lockVars, result, skwFlags, timer, works, txPc, fwVars, rx, nCmds, hit>>

\* skw_add_timer_work refuses a second timer with the same id, and the refusal
\* is ignored: either way one is armed
TryArm(t) ==
    /\ pc[t] = "arm"
    /\ timer' = timer \cup {"armed"}
    /\ cmd' = [cmd EXCEPT !.cb = "try", !.flags = @ \cup {"XMIT"}]
    /\ works' = works \cup {"tx"}
    /\ pc' = [pc EXCEPT ![t] = "idle"]
    /\ UNCHANGED <<lockVars, result, skwFlags, txPc, fwVars, rx, nCmds, hit>>

\* skw_timer_work moves the expired timer to its private list ...
TimerExpire ==
    /\ "armed" \in timer /\ "firing" \notin timer
    /\ timer' = {"firing"}
    /\ UNCHANGED <<lockVars, pc, cmd, result, skwFlags, works, txPc, fwVars, rx, nCmds, hit>>

\* mutant: the timeout asserts but forgets skw_cmd_unlock
CmdTimeoutFnNoUnlock ==
    /\ "firing" \in timer
    /\ timer' = timer \ {"firing"}
    /\ Block({"BLOCK_TX"})
    /\ works' = works \cup {"assert"}
    /\ UNCHANGED <<lockVars, pc, cmd, result, txPc, fwVars, rx, nCmds>>

\* ... and runs skw_cmd_timeout_fn, which leaves ACKED alone
CmdTimeoutFn ==
    /\ "firing" \in timer
    /\ timer' = timer \ {"firing"}
    /\ Block({"BLOCK_TX"})
    /\ Up(pc)
    /\ works' = works \cup {"assert"}
    /\ UNCHANGED <<cmd, result, txPc, fwVars, rx, nCmds>>

\* skw_work_unlock: skw_del_timer_work finds a timer only on the shared list
WorkUnlock ==
    /\ "unlock" \in works
    /\ works' = works \ {"unlock"}
    /\ timer' = timer \ {"armed"}
    /\ Up(pc)
    /\ UNCHANGED <<cmd, result, skwFlags, txPc, fwVars, rx, nCmds, hit>>

\* skw_work with SKW_WORK_FLAG_ASSERT
WorkAssert ==
    /\ "assert" \in works
    /\ works' = works \ {"assert"}
    /\ HwAssert
    /\ UNCHANGED <<lockVars, pc, cmd, result, timer, txPc, rx, nCmds>>

-----------------------------------------------------------------------------
(* skw_tx_worker, as far as commands go: skw_cmd_do and skw_bus_cmd_xmit   *)

TxStart ==
    /\ "tx" \in works /\ txPc = "idle"
    /\ works' = works \ {"tx"} /\ txPc' = "loop"
    /\ UNCHANGED <<lockVars, pc, cmd, result, skwFlags, timer, fwVars, rx, nCmds, hit>>

TxTake ==
    /\ txPc = "loop"
    /\ cmd' = [cmd EXCEPT !.flags = @ \ {"XMIT"}]
    /\ txPc' = IF "XMIT" \in cmd.flags THEN "xmit" ELSE "idle"
    /\ UNCHANGED <<lockVars, pc, result, skwFlags, timer, works, fwVars, rx, nCmds, hit>>

\* the slot's buffer as it is now goes out, or the slot is aborted
TxXmit ==
    /\ txPc = "xmit" /\ txPc' = "sent"
    /\ IF CmdTxAllowed(cmd.flags)
       THEN /\ wire' = IF fw = "up" /\ "NO_ACK" \notin cmd.flags
                       THEN wire \cup {[id |-> cmd.id, seq |-> cmd.hdr,
                                        tok |-> cmd.tok, status |-> 0]}
                       ELSE wire
            /\ UNCHANGED <<cmd, works>>
       ELSE AbortCmd /\ UNCHANGED wire
    /\ UNCHANGED <<lockVars, pc, result, skwFlags, timer, fw, acks, nCrashes, rx, nCmds, hit>>

\* mutant: every command is completed as if it carried NO_ACK
TxSentAlwaysDone ==
    /\ txPc = "sent" /\ txPc' = "loop"
    /\ CallBack(cmd.flags \cup {"DONE"}, NoTok)
    /\ UNCHANGED <<lockVars, pc, result, skwFlags, timer, fwVars, rx, nCmds, hit>>

\* the NO_ACK bit is read from whatever command the slot holds by now
TxSent ==
    /\ txPc = "sent" /\ txPc' = "loop"
    /\ IF "NO_ACK" \in cmd.flags
       THEN CallBack(cmd.flags \cup {"DONE"}, NoTok)
       ELSE UNCHANGED <<cmd, works>>
    /\ UNCHANGED <<lockVars, pc, result, skwFlags, timer, fwVars, rx, nCmds, hit>>

-----------------------------------------------------------------------------
(* Acknowledgements: skw_cmd_ack_handler, run by the rx thread             *)

\* mutant: the sequence number is not compared
AckMatchesAnySeq(a) == a.id = cmd.id /\ "ACKED" \notin cmd.flags

AckMatches(a) ==
    a.id = cmd.id /\ a.seq = cmd.seq /\ "ACKED" \notin cmd.flags

\* an ack that does not match is dropped; one that matches but is too short
\* leaves ACKED behind and completes nothing
RxAck(a, short) ==
    /\ a \in acks /\ rx = NoRx
    /\ acks' = acks \ {a}
    /\ cmd' = IF AckMatches(a) THEN [cmd EXCEPT !.flags = @ \cup {"ACKED"}] ELSE cmd
    /\ rx' = IF AckMatches(a) /\ ~short THEN a ELSE NoRx
    /\ UNCHANGED <<lockVars, pc, result, skwFlags, timer, works, txPc, fw, wire,
                   nCrashes, nCmds, hit>>

\* status, then the callback of the command the slot holds by now
RxDeliver ==
    /\ rx # NoRx /\ rx' = NoRx
    /\ cmd' = [cmd EXCEPT !.flags = IF cmd.cb = "sync" THEN @ \cup {"DONE"} ELSE @,
                          !.status = rx.status, !.by = rx.tok]
    /\ works' = IF cmd.cb = "try" THEN works \cup {"unlock"} ELSE works
    /\ UNCHANGED <<lockVars, pc, result, skwFlags, timer, txPc, fwVars, nCmds, hit>>

-----------------------------------------------------------------------------
(* The firmware (external), the BSP notifier and the recovery work         *)

FwAnswer(m, status) ==
    /\ fw = "up" /\ m \in wire
    /\ wire' = wire \ {m}
    /\ acks' = acks \cup {[m EXCEPT !.status = status]}
    /\ UNCHANGED <<lockVars, pc, cmd, result, skwFlags, timer, works, txPc, fw,
                   nCrashes, rx, nCmds, hit>>

FwCrash ==
    /\ fw = "up" /\ nCrashes < MaxCrashes
    /\ fw' = "dead" /\ wire' = {} /\ acks' = {} /\ nCrashes' = nCrashes + 1
    /\ UNCHANGED <<lockVars, pc, cmd, result, skwFlags, timer, works, txPc, rx, nCmds, hit>>

\* skw_bsp_notifier, SKW_BSP_NF_ASSERT / BLOCKED / FW_REBOOT
BspAssert ==
    /\ fw = "dead" /\ fw' = "down"
    /\ Block({"FW_ASSERT"})
    /\ AbortCmd
    /\ UNCHANGED <<lockVars, pc, result, timer, txPc, wire, acks, nCrashes, rx, nCmds>>

\* skw_bsp_notifier, SKW_BSP_NF_READY after an assert
BspReady ==
    /\ fw = "down" /\ fw' = "ready"
    /\ works' = works \cup {"recovery"}
    /\ UNCHANGED <<lockVars, pc, cmd, result, skwFlags, timer, txPc, wire, acks,
                   nCrashes, rx, nCmds, hit>>

\* skw_recovery_prepare restarts the sequence numbers without taking cmd.lock
RecoveryPrepare ==
    /\ "recovery" \in works /\ fw = "ready" /\ fw' = "prepared"
    /\ cmd' = [cmd EXCEPT !.seq = 0]
    /\ UNCHANGED <<lockVars, pc, result, skwFlags, timer, works, txPc, wire, acks,
                   nCrashes, rx, nCmds, hit>>

\* Timing assumption: between the assert and the end of service_start() the image
\* is downloaded again, which takes seconds; the tx worker, the rx thread and a
\* caller that is filling the slot get the CPU in that time and finish the step
\* they had started.
Quiesced ==
    /\ rx = NoRx /\ txPc = "idle" /\ "tx" \notin works
    /\ \A c \in Callers \cup TrySenders : pc[c] # "arm"

\* the rest of skw_recovery_work talks to the firmware as one of the Callers
RecoveryClear ==
    /\ "recovery" \in works /\ fw = "prepared" /\ fw' = "up" /\ Quiesced
    /\ works' = works \ {"recovery"}
    /\ skwFlags' = skwFlags \ {"FW_ASSERT", "BLOCK_TX", "FW_MAC_RECOVERY"}
    /\ UNCHANGED <<lockVars, pc, cmd, result, timer, txPc, wire, acks, nCrashes,
                   rx, nCmds, hit>>

\* skw_event_mp_mode_handler and skw_event_fw_recovery
ModeOn(m) ==
    /\ fw = "up" /\ m \in FwModes \ skwFlags
    /\ Block({m})
    /\ IF m = "MP_MODE" THEN AbortCmd ELSE UNCHANGED <<cmd, works>>
    /\ UNCHANGED <<lockVars, pc, result, timer, txPc, fwVars, rx, nCmds>>

ModeOff(m) ==
    /\ fw = "up" /\ m \in FwModes \cap skwFlags
    /\ skwFlags' = skwFlags \ {m}
    /\ UNCHANGED <<lockVars, pc, cmd, result, timer, works, txPc, fwVars, rx, nCmds, hit>>

\* skw_resume, after a suspend command went through
Resume ==
    /\ \E c \in Suspenders : pc[c] = "idle" /\ result[c].code = "ok"
    /\ "BLOCK_TX" \in skwFlags
    /\ skwFlags' = skwFlags \ {"BLOCK_TX"}
    /\ UNCHANGED <<lockVars, pc, cmd, result, timer, works, txPc, fwVars, rx, nCmds, hit>>

-----------------------------------------------------------------------------
CallerStep(c) == \/ Down(c) \/ CallSetCmd(c) \/ CallArm(c) \/ CallDone(c)
                 \/ CallNudge(c) \/ CallTimeout(c) \/ CallUnlock(c)
TryStep(t)    == TrySetCmd(t) \/ TryArm(t)
TimerStep     == TimerExpire \/ CmdTimeoutFn
TxStep        == TxStart \/ TxTake \/ TxXmit \/ TxSent
RxStep        == \/ \E a \in acks, short \in BOOLEAN : RxAck(a, short)
                 \/ RxDeliver
FwStep        == \/ \E m \in wire, status \in {0, 1} : FwAnswer(m, status)
                 \/ FwCrash \/ BspAssert \/ BspReady
                 \/ RecoveryPrepare \/ RecoveryClear
                 \/ \E m \in FwModes : ModeOn(m) \/ ModeOff(m)

Next ==
    \/ \E c \in Callers : Call(c) \/ Refuse(c) \/ CallerStep(c)
    \/ \E t \in TrySenders : TryLock(t) \/ TryStep(t)
    \/ TimerStep \/ WorkUnlock \/ WorkAssert
    \/ TxStep \/ RxStep \/ FwStep \/ Resume

Spec == Init /\ [][Next]_vars

\* Threads inside a call are scheduled and their timeouts expire; the timer and
\* the work queue run.  Nothing is assumed of the firmware, of the tx worker or
\* of the rx thread.
FairSpec ==
    /\ Spec
    /\ \A c \in Callers : WF_vars(CallerStep(c))
    /\ \A t \in TrySenders : WF_vars(TryStep(t))
    /\ WF_vars(TimerStep) /\ WF_vars(WorkUnlock)

-----------------------------------------------------------------------------
(* Properties                                                              *)

\* Whoever is between down() and up() of the command lock is alone there and the
\* lock is taken: skw_set_cmd writes the one shared slot, so its callers must
\* hold skw->cmd.lock.
CmdLockHeld ==
    \A c \in Callers \cup TrySenders : pc[c] \in Owning =>
        /\ sem = 0
        /\ \A d \in Callers \cup TrySenders : pc[d] \in Owning => d = c

\* skw_msg_xmit_timeout returns 0 only if the firmware answered this very command
\* with status 0, unless transmission was blocked (assert, suspend, mode change)
\* while the call ran: then skw_abort_cmd completed it, or may have.
SuccessMeansAnswered ==
    \A c \in Callers \ Suspenders :
        result[c].code = "ok" /\ pc[c] = "unlock" /\ c \notin hit => result[c].own

\* The permit of the command lock is never lost: when the count is zero somebody
\* is bound to give it back (a caller inside its call, a try-sender on its way to
\* arm the timer, the armed or firing timer, or a scheduled work_unlock).
PermitNotLost ==
    sem = 0 => \/ Owners # {}
               \/ timer # {}
               \/ "unlock" \in works

\* A command the slot still has to transmit is never forgotten: XMIT set means the
\* tx worker is scheduled or is about to look at the flag again.
XmitNotForgotten ==
    "XMIT" \in cmd.flags => "tx" \in works \/ txPc # "idle"

\* A blocking sender is told success only for an answer to its own command (or an
\* abort), and a command handed to the tx worker is not forgotten (skw_cmd_tx,
\* skw_rx_ack).
CmdsAnswered == SuccessMeansAnswered /\ XmitNotForgotten

\* Every call of skw_msg_xmit_timeout returns, whatever the firmware, the tx
\* worker and the rx thread do or fail to do.
EveryCallReturns ==
    []<>(\A c \in Callers : pc[c] = "idle")
=============================================================================
