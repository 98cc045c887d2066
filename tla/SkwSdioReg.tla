----------------------------- MODULE SkwSdioReg -----------------------------
(***************************************************************************)
(* Access to the chip's memory over SDIO (skw_sdio_main.c): the address is *)
(* written into a register of the card, then the data go through a window. *)
(* transfer_mutex is to keep the two together; skw_sdio_dt_read takes it   *)
(* only after it has set the address.  Threads run the driver's sequences  *)
(* of accesses: download of the images, pin configuration under the        *)
(* download flag, memory dumps that power the shared memory on first, and  *)
(* packet transfers.  skw_resume_check only delays a call, and what an     *)
(* abort does is in SkwPlat.                                               *)
(***************************************************************************)
EXTENDS Integers, FiniteSets, Sequences

CONSTANTS
    Threads, \* threads that use the bus
    Chunks,  \* blocks of an image
    Faults   \* transfers that may fail

None == 0
NoOne == "nobody"
Access(op, at) == [op |-> op, at |-> at]

(* the accesses of the jobs: dt_write, dt_read, a byte register, a packet *)
BootCp == <<Access("w", "dram"), Access("w", "iram"), Access("b", "setup")>>
UpdateDownloadFlag == <<Access("r", "flag"), Access("w", "flag")>>
PinConfig == UpdateDownloadFlag \o <<Access("w", "pin")>> \o UpdateDownloadFlag
ServiceEnable == <<Access("r", "svc"), Access("w", "svc")>>
SmemPoweron == ServiceEnable \o <<Access("r", "power"), Access("w", "power")>>
SdioDump == SmemPoweron \o <<Access("r", "data")>>
Jobs == [boot |-> BootCp, pins |-> PinConfig, dump |-> SdioDump, data |-> <<Access("p", "fifo")>>]
Cells == {"dram", "iram", "setup", "flag", "pin", "svc", "power", "data", "fifo"}

VARIABLES
    job,   \* what each thread runs
    th,    \* each thread: the access it is at, pc, tries, the value read, its result
    areg,  \* the address register (SKW_SDIO_FBR_REG)
    mutex, \* holder of transfer_mutex
    cell,  \* chip memory: whose data a cell holds and how much of it
    host,  \* smem_poweron is noted and power_off
    faults,
    odd

vars == <<job, th, areg, mutex, cell, host, faults, odd>>

Start(j) == [i |-> 1, pc |-> "call", tries |-> 0, val |-> None, res |-> "none"]

Init ==
    /\ job \in {f \in [Threads -> DOMAIN Jobs] : \A t, u \in Threads : f[t] = f[u] /\ t # u => f[t] \in {"dump", "data"}}
    /\ th = [t \in Threads |-> Start(job[t])]
    /\ areg = "dram" /\ mutex = NoOne
    /\ cell = [c \in Cells |-> [of |-> c, n |-> None]]
    /\ host = [noted |-> FALSE, off |-> FALSE] /\ faults = Faults /\ odd = {}

Acc(t) == Jobs[job[t]][th[t].i]
Live(t) == th[t].i <= Len(Jobs[job[t]])
At(t, pc) == Live(t) /\ th[t].pc = pc
Fault == faults > 0 /\ faults' = faults - 1
Goes(t, pc) == th' = [th EXCEPT ![t].pc = pc]

Ends(t, r) == [th EXCEPT ![t].i = Len(Jobs[job[t]]) + 1, ![t].pc = "done", ![t].res = r]
Moves(t, i) == [th EXCEPT ![t].i = i, ![t].pc = IF i > Len(Jobs[job[t]]) THEN "done" ELSE "call", ![t].tries = 0,
                          ![t].res = IF i > Len(Jobs[job[t]]) THEN "ok" ELSE @]

\* what the caller does after an access: the dump goes on when service_enable failed, the download flag is tried twice
\* behind force_cp_wakeup, and everything else gives up
After(t, ok, v) ==
    LET i == th[t].i IN
    IF ok THEN IF job[t] = "dump" /\ i = 3 /\ v = 1 THEN Moves(t, 5) ELSE [Moves(t, i + 1) EXCEPT ![t].val = v]
    ELSE IF job[t] = "dump" /\ i \in {1, 2} THEN Moves(t, 3)
    ELSE IF (Acc(t).at = "flag" \/ Acc(t).op = "b") /\ th[t].tries = 0 THEN [th EXCEPT ![t].pc = "call", ![t].tries = 1]
    ELSE Ends(t, "failed")

\* skw_sdio_smem_poweron notes the power before it is on: a second caller, or one after a failure, skips it
Noted(t) == job[t] = "dump" /\ (th[t].i = 3)
CallStart(t) ==
    /\ At(t, "call")
    /\ IF job[t] = "dump" /\ th[t].i = 1 /\ host.noted
       THEN th' = Moves(t, 5) /\ UNCHANGED host
       ELSE /\ Goes(t, CASE Acc(t).op = "r" -> "addr" [] Acc(t).op = "b" -> "xfer" [] OTHER -> "lock")
            /\ host' = [host EXCEPT !.noted = @ \/ Noted(t)]
    /\ UNCHANGED <<job, areg, mutex, cell, faults, odd>>

Lock(t) ==
    /\ At(t, "lock") /\ mutex = NoOne /\ mutex' = t
    /\ Goes(t, IF Acc(t).op = "w" THEN "addr" ELSE "xfer")
    /\ UNCHANGED <<job, areg, cell, host, faults, odd>>

\* threads between their address and their transfer
Exposed == {t \in Threads : Live(t) /\ Acc(t).op \in {"r", "w"} /\ (th[t].pc = "xfer" \/ (th[t].pc = "lock" /\ Acc(t).op = "r"))}

SetAddressKeeps(t) ==                                  \* mutant: a failed address leaves the mutex locked
    /\ At(t, "addr")
    /\ \/ areg' = Acc(t).at /\ Goes(t, IF Acc(t).op = "w" THEN "xfer" ELSE "lock") /\ UNCHANGED <<mutex, faults>>
       \/ Fault /\ th' = After(t, FALSE, None) /\ UNCHANGED <<areg, mutex>>
    /\ odd' = odd \cup (IF Exposed \ {t} # {} THEN {"moved"} ELSE {})
    /\ UNCHANGED <<job, cell, host>>

\* skw_sdio_dt_set_address, under the mutex for a write and before it for a read; it may fail half way
SetAddress(t) ==
    /\ At(t, "addr")
    /\ \/ /\ areg' = Acc(t).at /\ Goes(t, IF Acc(t).op = "w" THEN "xfer" ELSE "lock") /\ UNCHANGED <<mutex, faults>>
       \/ /\ Fault /\ th' = After(t, FALSE, None) /\ areg' \in {areg, "nowhere"}
          /\ mutex' = (IF mutex = t THEN NoOne ELSE mutex)
    /\ odd' = odd \cup (IF Exposed \ {t} # {} THEN {"moved"} ELSE {})
    /\ UNCHANGED <<job, cell, host>>

Full(c) == IF c \in {"dram", "iram"} THEN Chunks ELSE 1
Bit(t) == IF job[t] = "pins" /\ th[t].i = 5 THEN 0 ELSE 1          \* the download flag is set, then cleared

XferWriteUnchecked(t) ==                               \* mutant: an error in the loop is not returned
    /\ At(t, "xfer") /\ Acc(t).op = "w" /\ mutex' = NoOne
    /\ \E n \in 0 .. Full(Acc(t).at) :
       /\ (n = Full(Acc(t).at) /\ UNCHANGED faults) \/ (n < Full(Acc(t).at) /\ Fault)
       /\ cell' = (IF areg \notin Cells \/ n = 0 THEN cell ELSE [cell EXCEPT ![areg] = [of |-> Acc(t).at, n |-> n]])
    /\ th' = After(t, TRUE, None) /\ UNCHANGED <<job, areg, host, odd>>

\* the loop of skw_sdio_dt_write: all blocks, or those before the error
XferWrite(t) ==
    /\ At(t, "xfer") /\ Acc(t).op = "w" /\ mutex' = NoOne
    /\ \E n \in 0 .. Full(Acc(t).at) :
       LET ok == n = Full(Acc(t).at) IN
       /\ (ok /\ UNCHANGED faults) \/ (~ok /\ Fault)
       /\ cell' = (IF areg \notin Cells THEN cell ELSE
                   [cell EXCEPT ![areg] = IF n = 0 THEN @ ELSE [of |-> Acc(t).at, n |-> IF Full(Acc(t).at) = 1 THEN Bit(t) ELSE n]])
       /\ th' = After(t, ok, None)
    /\ UNCHANGED <<job, areg, host, odd>>

Value(c) == IF c \in Cells THEN cell[c].n ELSE None

XferRead(t) ==
    /\ At(t, "xfer") /\ Acc(t).op = "r" /\ mutex' = NoOne
    /\ \/ /\ th' = After(t, TRUE, Value(areg)) /\ UNCHANGED faults
          /\ odd' = odd \cup (IF Acc(t).at = "data" /\ cell["power"].n = None THEN {"unpowered"} ELSE {})
       \/ Fault /\ th' = After(t, FALSE, None) /\ UNCHANGED odd
    /\ UNCHANGED <<job, areg, cell, host>>

\* skw_sdio_writeb: no mutex, two tries
XferByte(t) ==
    /\ At(t, "xfer") /\ Acc(t).op = "b"
    /\ \/ th' = After(t, TRUE, None) /\ cell' = [cell EXCEPT !["setup"].n = 1] /\ UNCHANGED faults
       \/ Fault /\ th' = After(t, FALSE, None) /\ UNCHANGED cell
    /\ UNCHANGED <<job, areg, mutex, host, odd>>

\* skw_sdio_adma_write: a bus that is powered off reports success
XferPacket(t) ==
    /\ At(t, "xfer") /\ Acc(t).op = "p" /\ mutex' = NoOne
    /\ \/ /\ th' = After(t, TRUE, None) /\ UNCHANGED faults
          /\ cell' = (IF host.off THEN cell ELSE [cell EXCEPT !["fifo"].n = 1])
          /\ odd' = odd \cup (IF host.off THEN {"unsent"} ELSE {})
       \/ Fault /\ th' = After(t, FALSE, None) /\ UNCHANGED <<cell, odd>>
    /\ UNCHANGED <<job, areg, host>>

PowerOff == ~host.off /\ (\E t \in Threads : job[t] = "data") /\ host' = [host EXCEPT !.off = TRUE] /\ UNCHANGED <<job, th, areg, mutex, cell, faults, odd>>

Step(t) ==
    \/ CallStart(t) \/ Lock(t) \/ SetAddress(t)
    \/ XferWrite(t) \/ XferRead(t) \/ XferByte(t) \/ XferPacket(t)
Next == (\E t \in Threads : Step(t)) \/ PowerOff

\* every thread runs; the other's accesses end, so the mutex comes free
Fairness == \A t \in Threads : WF_vars(Step(t))
Spec == Init /\ [][Next]_vars /\ Fairness

Flags == {"moved", "unpowered", "unsent"}

(* Properties *)
TypeOK ==
    /\ areg \in Cells \cup {"nowhere"} /\ mutex \in Threads \cup {NoOne} /\ odd \subseteq Flags /\ faults \in 0 .. Faults
    /\ \A t \in Threads : th[t].res \in {"none", "ok", "failed"} /\ th[t].tries \in 0 .. 1

\* Data land at the address they were sent to, unless a dt_read moved the address register between address and data
DataAtTheirAddress == \A c \in Cells : cell[c].of = c \/ "moved" \in odd

\* The chip is told to start only with both images complete, and pins end with the download flag taken back
SequencesKept ==
    /\ \A t \in Threads : job[t] = "boot" /\ th[t].res = "ok" => cell["setup"].n = 1
    /\ cell["setup"].n = 1 => (cell["dram"].n = Chunks /\ cell["iram"].n = Chunks) \/ "moved" \in odd
    /\ \A t \in Threads : job[t] = "pins" /\ th[t].res = "ok" => (cell["flag"].n = 0 /\ cell["pin"].n = 1) \/ "moved" \in odd

\* A dump reads the shared memory only once it is powered, unless another caller noted the power too early
DumpPowered == \A t \in Threads :
    job[t] = "dump" /\ th[t].res = "ok" => cell["power"].n = 1 \/ odd \cap {"unpowered", "moved"} # {}

\* A frame is reported as sent only if it went out, unless the bus is off
SentMeansOut == \A t \in Threads : job[t] = "data" /\ th[t].res = "ok" => cell["fifo"].n = 1 \/ "unsent" \in odd

\* Two writes never have an address and data under way at once: transfer_mutex keeps them apart
Writing(t) == Live(t) /\ Acc(t).op = "w" /\ th[t].pc \in {"addr", "xfer"}
WritesApart == \A t, u \in Threads : Writing(t) /\ Writing(u) => t = u

RegSound == TypeOK /\ WritesApart /\ DataAtTheirAddress /\ SequencesKept /\ DumpPowered /\ SentMeansOut

\* Every sequence of accesses ends, whatever fails on its way
Returned == \A t \in Threads : th[t].res # "none"
JobsEnd == []<>Returned
=============================================================================
