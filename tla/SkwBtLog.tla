------------------------------ MODULE SkwBtLog ------------------------------
(***************************************************************************)
(* The Bluetooth log device of the platform driver (skw_btlog.c): what the *)
(* Bluetooth ports carry is copied into a queue that threads of one        *)
(* program read, and the chip's own log is switched on while both the log  *)
(* device and the Bluetooth port are open.  Only the queue has a lock.     *)
(***************************************************************************)
EXTENDS Integers, FiniteSets, SequencesExt

CONSTANTS
    Readers, \* threads that share the open file
    Packets, \* packets the Bluetooth ports carry
    Limit,   \* a longer queue takes no packet (40)
    Calls    \* opens, closes and flushes in all

Halves == 2  \* a packet is read whole or by halves

VARIABLES
    info,  \* skwbt_log_port_info: none, early (the device exists, the queue does not), ready
    pdata, \* skwbt_log_pdata is set
    open,  \* is_open of the log device, skwbt_is_open of the Bluetooth port, and the chip logs
    file,  \* the file operation under way (idle, tell, drain, quiet, none: not open)
    bt,    \* skwbt_log_port_set_bt_open: idle, on, off
    q,     \* the queue: packets with the half that is to be read next
    recv,  \* rx_recv is not 0
    wr,    \* the writer: idle, put, inc
    rd,    \* each reader: pc and the packet it peeked at
    got,   \* halves handed to readers, packets queued, packets drained
    left,  \* calls still to come
    odd    \* what went wrong

vars == <<info, pdata, open, file, bt, q, recv, wr, rd, got, left, odd>>
Nothing == [n |-> 0, half |-> 0]
Reading == [pc |-> "idle", at |-> Nothing, whole |-> FALSE]

Init ==
    /\ info = "none" /\ pdata = TRUE /\ open = [log |-> FALSE, bt |-> FALSE, chip |-> FALSE]
    /\ file = "none" /\ bt = "idle" /\ q = <<>> /\ recv = FALSE /\ wr = "idle"
    /\ rd = [r \in Readers |-> Reading] /\ got = [bytes |-> <<>>, queued |-> 0, drained |-> {}]
    /\ left = Calls /\ odd = {}

Call == left > 0 /\ left' = left - 1
Mark(c, f) == odd' = odd \cup (IF c THEN {f} ELSE {})

(* skwbt_log_port_init makes the device before the queue; skwbt_log_port_set_pdata *)
PortInit ==
    /\ info \in {"none", "early"} /\ "gone" \notin odd
    /\ info' = (IF info = "none" THEN "early" ELSE "ready")
    /\ q' = (IF info = "early" THEN <<>> ELSE q)
    /\ UNCHANGED <<pdata, open, file, bt, recv, wr, rd, got, left, odd>>

SetPdata(v) ==
    /\ Call /\ pdata # v /\ pdata' = v
    /\ UNCHANGED <<info, open, file, bt, q, recv, wr, rd, got, odd>>

\* skwbt_log_port_exit frees all of it, whether or not the device is open
PortExit ==
    /\ Call /\ info = "ready" /\ info' = "none"
    /\ pdata' = FALSE /\ q' = <<>> /\ open' = [open EXCEPT !.log = FALSE, !.bt = FALSE]
    /\ got' = [got EXCEPT !.drained = @ \cup {p.n : p \in ToSet(q)}]
    /\ Mark(file # "none" \/ wr # "idle" \/ bt # "idle", "gone")      \* what they do next is on freed memory
    /\ recv' = FALSE /\ UNCHANGED <<file, rd, wr, bt>>

\* skwbt_log_open: the chip is told, if the platform data is there
Tell(v) ==
    /\ open' = [open EXCEPT !.chip = IF pdata THEN v ELSE @]
    /\ odd' = odd \cup (IF ~pdata /\ v # open.chip THEN {"nopdata"} ELSE {})
                  \cup (IF v # (open.log /\ open.bt) THEN {"crossed"} ELSE {})

(* the file operations *)
PortOpen ==
    /\ Call /\ info # "none" /\ file = "none" /\ ~open.log
    /\ recv' = FALSE /\ open' = [open EXCEPT !.log = TRUE] /\ file' = "tell"
    /\ UNCHANGED <<info, pdata, bt, q, wr, rd, got, odd>>

PortOpenTell ==
    /\ file = "tell" /\ file' = "idle"
    /\ IF open.bt THEN Tell(TRUE) ELSE UNCHANGED <<open, odd>>
    /\ UNCHANGED <<info, pdata, bt, q, recv, wr, rd, got, left>>

Drain == q' = <<>> /\ got' = [got EXCEPT !.drained = @ \cup {p.n : p \in ToSet(q)}]     \* skwbt_log_port_release_queue

\* skwbt_log_port_flush runs at every close of a shared descriptor
PortFlush ==
    /\ Call /\ file = "idle" /\ Drain
    /\ UNCHANGED <<info, pdata, open, file, bt, recv, wr, rd, odd>>

\* skwbt_log_port_release, once no thread is in a read
PortRelease ==
    /\ file = "idle" /\ \A r \in Readers : rd[r].pc = "idle"
    /\ open' = [open EXCEPT !.log = FALSE] /\ recv' = TRUE /\ file' = "drain"
    /\ UNCHANGED <<info, pdata, bt, q, wr, rd, got, left, odd>>

PortReleaseDrain ==
    /\ file = "drain" /\ Drain /\ file' = "quiet"
    /\ UNCHANGED <<info, pdata, open, bt, recv, wr, rd, left, odd>>

PortReleaseTell ==
    /\ file = "quiet" /\ Tell(FALSE) /\ file' = "none"
    /\ UNCHANGED <<info, pdata, bt, q, recv, wr, rd, got, left>>

\* skwbt_log_port_set_bt_open when the Bluetooth port is opened or closed
SetBtOpen ==
    /\ Call /\ bt = "idle" /\ info # "none"
    /\ open' = [open EXCEPT !.bt = ~@]
    /\ bt' = (IF ~open.log THEN "idle" ELSE IF open.bt THEN "off" ELSE "on")
    /\ UNCHANGED <<info, pdata, file, q, recv, wr, rd, got, odd>>

SetBtOpenTell ==
    /\ bt # "idle" /\ bt' = "idle" /\ Tell(bt = "on")
    /\ UNCHANGED <<info, pdata, file, q, recv, wr, rd, got, left>>

(* skwbt_log_port_data_write from the Bluetooth ports *)
DataWrite ==
    /\ wr = "idle" /\ info = "ready" /\ open.log /\ got.queued < Packets /\ Len(q) <= Limit
    /\ wr' = "put" /\ UNCHANGED <<info, pdata, open, file, bt, q, recv, rd, got, left, odd>>

DataPut ==
    /\ wr = "put" /\ wr' = "inc"
    /\ q' = Append(q, [n |-> got.queued + 1, half |-> 1]) /\ got' = [got EXCEPT !.queued = @ + 1]
    /\ Mark(~open.log, "late")
    /\ UNCHANGED <<info, pdata, open, file, bt, recv, rd, left>>

DataInc ==
    /\ wr = "inc" /\ wr' = "idle" /\ recv' = TRUE
    /\ UNCHANGED <<info, pdata, open, file, bt, q, rd, got, left, odd>>

(* skwbt_log_port_read and skwbt_log_port_data_dequeue *)
Goes(r, pc) == rd' = [rd EXCEPT ![r] = [Reading EXCEPT !.pc = pc]]

ReadStart(r) ==
    /\ rd[r].pc = "idle" /\ file = "idle" /\ info = "ready" /\ open.log
    /\ Goes(r, IF q # <<>> THEN "peek" ELSE "clear")
    /\ UNCHANGED <<info, pdata, open, file, bt, q, recv, wr, got, left, odd>>

ReadClear(r) ==
    /\ rd[r].pc = "clear" /\ recv' = FALSE /\ Goes(r, "wait")
    /\ Mark(q # <<>> /\ wr # "inc", "slept")
    /\ UNCHANGED <<info, pdata, open, file, bt, q, wr, got, left>>

ReadClearEarly(r) ==                                   \* mutant: rx_recv is cleared again when the reader wakes
    /\ rd[r].pc = "wait" /\ recv /\ recv' = FALSE /\ Goes(r, "wait")
    /\ UNCHANGED <<info, pdata, open, file, bt, q, wr, got, left, odd>>

ReadWake(r) ==
    /\ rd[r].pc = "wait" /\ recv /\ Goes(r, "peek")
    /\ UNCHANGED <<info, pdata, open, file, bt, q, recv, wr, got, left, odd>>

\* the packet is peeked at and taken in two steps
ReadPeek(r, whole) ==
    /\ rd[r].pc = "peek"
    /\ IF q = <<>> THEN Goes(r, "idle")
       ELSE rd' = [rd EXCEPT ![r] = [pc |-> "take", at |-> Head(q), whole |-> whole \/ Head(q).half = Halves]]
    /\ UNCHANGED <<info, pdata, open, file, bt, q, recv, wr, got, left, odd>>

Rest(p) == [i \in 1 .. Halves - p.half + 1 |-> [n |-> p.n, half |-> p.half + i - 1]]

ReadTakeAll(r) ==                                      \* mutant: a packet read in part is thrown away
    /\ rd[r].pc = "take" /\ Goes(r, "idle")
    /\ IF q = <<>> \/ Head(q) # rd[r].at THEN q' = Tail(q) /\ Mark(TRUE, "torn") /\ UNCHANGED got
       ELSE /\ q' = Tail(q) /\ got' = [got EXCEPT !.bytes = @ \o (IF rd[r].whole THEN Rest(Head(q)) ELSE <<Head(q)>>)]
            /\ UNCHANGED odd
    /\ UNCHANGED <<info, pdata, open, file, bt, recv, wr, left>>

ReadTake(r) ==
    /\ rd[r].pc = "take" /\ Goes(r, "idle")
    /\ IF q = <<>> \/ Head(q) # rd[r].at
       THEN /\ Mark(TRUE, "torn") /\ UNCHANGED got     \* the packet is gone: another one, or none, is taken
            /\ q' = (IF rd[r].whole /\ q # <<>> THEN Tail(q) ELSE q)
       ELSE /\ got' = [got EXCEPT !.bytes = @ \o (IF rd[r].whole THEN Rest(Head(q)) ELSE <<Head(q)>>)]
            /\ q' = (IF rd[r].whole THEN Tail(q) ELSE <<[Head(q) EXCEPT !.half = @ + 1]>> \o Tail(q))
            /\ UNCHANGED odd
    /\ UNCHANGED <<info, pdata, open, file, bt, recv, wr, left>>

Alive == info # "none"
Reader(r) == Alive /\ (ReadClear(r) \/ ReadWake(r) \/ (\E w \in BOOLEAN : ReadPeek(r, w)) \/ ReadTake(r))
Writer == Alive /\ (DataPut \/ DataInc)
FileStep == Alive /\ (PortOpenTell \/ PortReleaseDrain \/ PortReleaseTell \/ SetBtOpenTell)

Next ==
    \/ PortInit \/ (\E v \in BOOLEAN : SetPdata(v)) \/ PortExit \/ PortOpen \/ (Alive /\ (PortFlush \/ PortRelease)) \/ SetBtOpen
    \/ FileStep \/ DataWrite \/ Writer \/ \E r \in Readers : ReadStart(r) \/ Reader(r)

\* a thread that is inside a call goes on
Fairness == WF_vars(Writer) /\ WF_vars(FileStep) /\ \A r \in Readers : WF_vars(Reader(r))
Spec == Init /\ [][Next]_vars /\ Fairness

Flags == {"gone", "nopdata", "crossed", "late", "slept", "torn"}

(* Properties *)
TypeOK ==
    /\ info \in {"none", "early", "ready"} /\ odd \subseteq Flags /\ wr \in {"idle", "put", "inc"}
    /\ file \in {"none", "tell", "idle", "drain", "quiet"} /\ bt \in {"idle", "on", "off"}
    /\ Len(q) <= Limit + 1 /\ \A r \in Readers : rd[r].pc \in {"idle", "clear", "wait", "peek", "take"}

\* Readers get what was queued in its order, each half once, and all of it but for what was drained
Position(h) == (h.n - 1) * Halves + h.half
Given(n, h) == \E i \in DOMAIN got.bytes : got.bytes[i] = [n |-> n, half |-> h]
Kept(n, h) == \E i \in DOMAIN q : q[i].n = n /\ q[i].half <= h
StreamKept ==
    "torn" \notin odd =>
        /\ \A i, j \in DOMAIN got.bytes : i < j => Position(got.bytes[i]) < Position(got.bytes[j])
        /\ \A i \in DOMAIN got.bytes, j \in DOMAIN q : Position(got.bytes[i]) < Position(q[j])
        /\ \A i, j \in DOMAIN q : i < j => q[i].n < q[j].n
        /\ \A n \in 1 .. got.queued : n \in got.drained \/ \A h \in 1 .. Halves : Given(n, h) \/ Kept(n, h)

\* A packet of an earlier session is in the queue only if its writer was overtaken by the close
SessionsApart == q # <<>> /\ ~open.log => odd \cap {"late", "gone"} # {} \/ file = "drain"

\* At rest the chip logs exactly while the log device and the Bluetooth port are both open
ChipAgrees ==
    info = "ready" /\ file \in {"none", "idle"} /\ bt = "idle" =>
        open.chip = (open.log /\ open.bt) \/ odd \cap {"crossed", "nopdata", "gone"} # {}

\* The device goes away only when nobody uses it
GoneOnlyIdle == info = "none" /\ (file # "none" \/ wr # "idle") => "gone" \in odd

BtLogSound == TypeOK /\ StreamKept /\ SessionsApart /\ ChipAgrees /\ GoneOnlyIdle

\* A reader does not sleep on a queue with packets, unless it cleared rx_recv after a packet had come
Awake == q = <<>> \/ "slept" \in odd \/ \A r \in Readers : rd[r].pc # "wait"
ReadersWake == []<>Awake
=============================================================================
