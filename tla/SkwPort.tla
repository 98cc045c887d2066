------------------------------ MODULE SkwPort ------------------------------
(***************************************************************************)
(* One port of the SDIO platform driver (sdio/skw_sdio_rx.c): the receive  *)
(* thread that fetches the firmware's packets, the ring a reader empties,  *)
(* the flow control of the firmware, the sender that waits for the         *)
(* firmware's acknowledgement, opening and closing, and what a firmware    *)
(* crash and its recovery do to a port.                                    *)
(*                                                                         *)
(* The actors are the receive thread (one packet at a time, since readers, *)
(* senders and users run between two packets), one reader in sdio_read,    *)
(* one sender in send_data, the user who opens and closes the port, and    *)
(* the exception work.  struct completion is a counter: complete adds one, *)
(* a wait takes one, reinit_completion sets it to 0.                       *)
(***************************************************************************)
EXTENDS Integers, Sequences, FiniteSets

CONSTANTS Length,        \* port->length, the size of the ring in bytes
          MaxPacket,     \* the largest payload the firmware sends
          Channels,      \* which ports: "atc", "log", "bt"
          Versions,      \* "V10" (SV6160) and "V20" (every other chip)
          MaxBytes,      \* bound: bytes the firmware sends
          Loads          \* bound: how often the rest happens, as records
                         \* [bytes, sends, opens, closes, crashes, errors]

ASSUME PortAssumption ==
  /\ Length \in Nat /\ Length > 3
  /\ MaxPacket \in 1 .. (Length - 1)
  /\ Channels \subseteq {"atc", "log", "bt"} /\ Versions \subseteq {"V10", "V20"}
  /\ MaxBytes \in Nat
  /\ Loads \subseteq [bytes : 0 .. MaxBytes, sends : Nat, opens : Nat, closes : Nat,
                      crashes : Nat, errors : Nat]

VARIABLES
  channel, version,      \* which port of which chip; they never change
  state,                 \* port->state
  rx_submit,             \* a callback takes the payloads instead of the ring
  rx_rp, rx_wp,          \* read and write position
  read_buffer,           \* the ring
  next_seqno,            \* the sequence number expected next
  tx_flow_ctrl,          \* writes not acknowledged, as the driver counts them
  rx_flow_ctrl,          \* the driver has told the firmware to pause
  rx_done, tx_done,      \* completions
  cp_state,              \* 0 alive, 1 crashed, 2 dump done, 3 given up
  bt_service,            \* the BT bit of service_state_map
  ftl,                   \* the chip's flow control register
  wire,                  \* packets the firmware has queued for the host
  fw,                    \* [seq, bytes, owed]: the firmware's counters
  rd,                    \* [pc, size]: the reader
  sd,                    \* [pc, try, tries, ok]: the sender, and what the last send returned
  opened,                \* ucom->open, the files open on the port
  out,                   \* the bytes the last read returned
  acked,                 \* an acknowledgement came since the send began
  slip,                  \* acknowledgements no longer match writes: one was given up
                         \* since the port was opened, or a crash woke the sender
  stale,                 \* the port was opened while the firmware was paused
  left                   \* what the bounds still allow

portVars == <<state, rx_submit, rx_rp, rx_wp, read_buffer, next_seqno>>
flowVars == <<tx_flow_ctrl, rx_flow_ctrl, ftl, stale>>
doneVars == <<rx_done, tx_done>>
cpVars == <<cp_state, bt_service>>
fwVars == <<wire, fw>>
userVars == <<rd, sd, opened, out, acked, slip>>
fixed == <<channel, version>>
vars == <<fixed, portVars, flowVars, doneVars, cpVars, fwVars, userVars, left>>

Byte == 1 .. MaxBytes
Data(s, b) == [kind |-> "data", seq |-> s, bytes |-> b]
Ack == [kind |-> "ack", seq |-> 0, bytes |-> <<>>]

TypeOK ==
  /\ channel \in Channels /\ version \in Versions
  /\ state \in {"IDLE", "OPEN", "CLSE", "ASST"} /\ rx_submit \in BOOLEAN
  /\ rx_rp \in 0 .. (Length - 1) /\ rx_wp \in 0 .. (Length - 1)
  /\ read_buffer \in [0 .. (Length - 1) -> 0 .. MaxBytes]
  /\ next_seqno \in Nat /\ tx_flow_ctrl \in Int /\ rx_flow_ctrl \in BOOLEAN
  /\ rx_done \in Nat /\ tx_done \in Nat
  /\ cp_state \in 0 .. 3 /\ bt_service \in BOOLEAN /\ ftl \in BOOLEAN
  /\ rd.pc \in {"idle", "again", "test", "wait", "woken", "copy"}
  /\ sd.pc \in {"idle", "write", "count", "wait"} /\ sd.try \in 0 .. sd.tries /\ opened \in 0 .. 2
  /\ acked \in BOOLEAN /\ slip \in BOOLEAN /\ stale \in BOOLEAN
-----------------------------------------------------------------------------
(* The ring. *)

\* Bytes in the ring and bytes that may still be put into it.
DataSize == (Length + rx_wp - rx_rp) % Length
BufSize == Length - 1 - DataSize

\* mutant: the second part starts with the payload's first byte again
StoredTwice(b) ==
  LET first == IF Length - rx_wp > Len(b) THEN Len(b) ELSE Length - rx_wp
  IN  [i \in 0 .. (Length - 1) |->
         IF i >= rx_wp /\ i < rx_wp + first THEN b[i - rx_wp + 1]
         ELSE IF i < Len(b) - first THEN b[i + 1] ELSE read_buffer[i]]

\* The ring with payload b copied in behind rx_wp, in two parts at its end.
Stored(b) ==
  LET first == IF Length - rx_wp > Len(b) THEN Len(b) ELSE Length - rx_wp
  IN  [i \in 0 .. (Length - 1) |->
         IF i >= rx_wp /\ i < rx_wp + first THEN b[i - rx_wp + 1]
         ELSE IF i < Len(b) - first THEN b[first + i + 1] ELSE read_buffer[i]]

\* mutant: a payload that ends at the end of the ring does not wrap
NextWpLate(b) == IF Length - rx_wp >= Len(b) THEN rx_wp + Len(b)
                                             ELSE Len(b) - Length + rx_wp
NextWp(b) == IF Length - rx_wp > Len(b) THEN rx_wp + Len(b)
                                        ELSE Len(b) - Length + rx_wp

\* The bytes a reader of n bytes copies out, and where it stops.
Copied(n) == [i \in 1 .. n |->
                IF i <= Length - rx_rp THEN read_buffer[rx_rp + i - 1]
                                       ELSE read_buffer[i - (Length - rx_rp) - 1]]
NextRp(n) == LET r == IF n > Length - rx_rp THEN n - (Length - rx_rp) ELSE rx_rp + n
             IN  IF r = Length THEN 0 ELSE r

\* What the ring holds, in order.
Content == [i \in 1 .. DataSize |-> read_buffer[(rx_rp + i - 1) % Length]]

FlowOnBelow == Length \div 3
\* mutant: the firmware resumes only above the ring's capacity
FlowOffAboveAll == Length - 1
FlowOffAbove == (Length * 2) \div 3
-----------------------------------------------------------------------------
Init ==
  /\ channel \in Channels /\ version \in Versions
  /\ state = "IDLE" /\ rx_submit = FALSE /\ rx_rp = 0 /\ rx_wp = 0
  /\ read_buffer = [i \in 0 .. (Length - 1) |-> 0] /\ next_seqno = 1
  /\ tx_flow_ctrl = 0 /\ rx_flow_ctrl = FALSE /\ ftl = FALSE /\ stale = FALSE
  /\ rx_done = 0 /\ tx_done = 0 /\ opened = 0 /\ cp_state = 0 /\ bt_service = TRUE
  /\ wire = <<>> /\ fw = [seq |-> 1, bytes |-> 0, owed |-> 0]
  /\ rd = [pc |-> "idle", size |-> 0] /\ sd = [pc |-> "idle", try |-> 0, tries |-> 0, ok |-> FALSE]
  /\ out = <<>> /\ acked = FALSE /\ slip = FALSE
  /\ left \in Loads
-----------------------------------------------------------------------------
(* The firmware (external): it numbers its data packets from 1, pauses     *)
(* while the flow control bit is set, acknowledges what it got early, late *)
(* or never.                                                               *)

FwPut(p) == wire' = Append(wire, p)

FwData == /\ cp_state = 0 /\ ~ftl
          /\ \E n \in 1 .. MaxPacket :
               /\ fw.bytes + n <= left.bytes
               /\ FwPut(Data(fw.seq, [i \in 1 .. n |-> fw.bytes + i]))
               /\ fw' = [fw EXCEPT !.seq = @ + 1, !.bytes = @ + n]
          /\ UNCHANGED <<fixed, portVars, flowVars, doneVars, cpVars, userVars, left>>

FwAck == /\ cp_state = 0 /\ fw.owed > 0
         /\ FwPut(Ack)
         /\ fw' = [fw EXCEPT !.owed = @ - 1]
         /\ UNCHANGED <<fixed, portVars, flowVars, doneVars, cpVars, userVars, left>>
-----------------------------------------------------------------------------
(* The receive thread. *)

\* The packet parsed next (SkwRxThread has the fetching of packets).
Fetched == IF wire # <<>> THEN {Head(wire)} ELSE {}
Parsed(p) == /\ wire' = Tail(wire)
             /\ UNCHANGED <<fixed, fw, cpVars, rd, sd, opened, out, slip, stale, left>>

\* V10 refuses a number it does not expect, except on the log port; V20
\* continues from the number it got.
InSequence(p) == p.seq = next_seqno \/ version = "V20" \/ channel = "log"
SeqAfter(p) == IF version = "V20" THEN p.seq + 1 ELSE next_seqno + 1

\* A closed or never opened port (state 0), or a refused number: dropped.
HandleDrop == /\ \E p \in Fetched :
                   /\ Parsed(p)
                   /\ \/ state = "IDLE"
                      \/ p.kind = "data" /\ ~InSequence(p)
              /\ UNCHANGED <<portVars, tx_flow_ctrl, rx_flow_ctrl, ftl, doneVars, acked>>

\* A packet of 12 bytes acknowledges a write.
HandleAck == /\ \E p \in Fetched : Parsed(p) /\ p.kind = "ack"
             /\ state # "IDLE"
             /\ tx_flow_ctrl' = tx_flow_ctrl - 1
             /\ tx_done' = tx_done + 1
             /\ acked' = TRUE
             /\ UNCHANGED <<portVars, rx_flow_ctrl, ftl, rx_done>>

\* A payload goes to the callback, is dropped when the ring has no room, or
\* is copied into the ring; below a third of room the firmware is paused.
HandleData ==
  /\ state # "IDLE"
  /\ \E p \in Fetched :
       /\ Parsed(p) /\ p.kind = "data" /\ InSequence(p)
       /\ next_seqno' = SeqAfter(p)
       /\ \/ /\ rx_submit \/ BufSize < Len(p.bytes)
             /\ UNCHANGED <<rx_rp, rx_wp, read_buffer, rx_flow_ctrl, ftl, rx_done>>
          \/ /\ ~rx_submit /\ BufSize >= Len(p.bytes)
             /\ read_buffer' = Stored(p.bytes) /\ rx_wp' = NextWp(p.bytes)
             /\ UNCHANGED rx_rp
             /\ IF ~rx_flow_ctrl /\ BufSize - Len(p.bytes) < FlowOnBelow
                THEN rx_flow_ctrl' = TRUE /\ ftl' = TRUE
                ELSE UNCHANGED <<rx_flow_ctrl, ftl>>
             /\ rx_done' = rx_done + 1
  /\ UNCHANGED <<state, rx_submit, tx_flow_ctrl, tx_done, acked>>
-----------------------------------------------------------------------------
(* ucom_read: recv_data, recv_data_timeout and sdio_read, one at a time    *)
(* (rx_busy). *)

\* The firmware crashed: the caller is told, the log port stays usable.
NotConnected == state = "ASST" /\ cp_state # 0
AfterAssert == IF channel = "log" THEN "OPEN" ELSE state

ReadEnter == /\ rd.pc = "idle" /\ opened > 0
             /\ \/ /\ state = "CLSE" /\ state' = "IDLE" /\ rd' = rd
                \/ /\ NotConnected /\ channel = "log" /\ state' = AfterAssert /\ rd' = rd
                \/ /\ state \in {"OPEN", "ASST"} /\ ~NotConnected
                   /\ \E n \in 1 .. 2 : rd' = [pc |-> "again", size |-> n]
                   /\ UNCHANGED state
             /\ UNCHANGED <<fixed, rx_submit, rx_rp, rx_wp, read_buffer, next_seqno, flowVars,
                            doneVars, cpVars, fwVars, sd, opened, out, acked, slip, left>>

readKeeps == <<fixed, rx_submit, next_seqno, tx_flow_ctrl, stale, tx_done, cpVars, fwVars,
               sd, opened, acked, slip, left>>

\* rx_done is reset before the ring is tested, so no wakeup is lost.
ReadAgain == /\ rd.pc = "again" /\ rx_done' = 0 /\ rd' = [rd EXCEPT !.pc = "test"]
             /\ UNCHANGED <<readKeeps, state, rx_rp, rx_wp, read_buffer, rx_flow_ctrl, ftl, out>>

\* An empty ring: leave when the port is closed or its service has stopped.
ReadTest == /\ rd.pc = "test"
            /\ rd' = [rd EXCEPT !.pc =
                 IF rx_wp # rx_rp THEN "copy"
                 ELSE IF state = "CLSE" \/ (channel = "bt" /\ ~bt_service) THEN "idle"
                 ELSE "wait"]
            /\ UNCHANGED <<readKeeps, state, rx_rp, rx_wp, read_buffer, rx_flow_ctrl, ftl, rx_done, out>>

ReadWake == /\ rd.pc = "wait" /\ rx_done > 0
            /\ rx_done' = rx_done - 1 /\ rd' = [rd EXCEPT !.pc = "woken"]
            /\ UNCHANGED <<readKeeps, state, rx_rp, rx_wp, read_buffer, rx_flow_ctrl, ftl, out>>

\* recv_data_timeout gives up.
ReadTimeout == /\ rd.pc = "wait" /\ rx_done = 0 /\ rd' = [rd EXCEPT !.pc = "idle"]
               /\ UNCHANGED <<readKeeps, state, rx_rp, rx_wp, read_buffer, rx_flow_ctrl, ftl, rx_done, out>>

\* A port found closed becomes idle.
ReadWoken == /\ rd.pc = "woken"
             /\ rd' = [rd EXCEPT !.pc = IF state = "CLSE" \/ NotConnected THEN "idle" ELSE "copy"]
             /\ state' = IF state = "CLSE" THEN "IDLE" ELSE IF NotConnected THEN AfterAssert ELSE state
             /\ UNCHANGED <<readKeeps, rx_rp, rx_wp, read_buffer, rx_flow_ctrl, ftl, rx_done, out>>

\* The copy, under rx_mutex.  An emptied ring starts again at 0; above two
\* thirds of room the firmware may go on.
ReadCopy ==
  /\ rd.pc = "copy"
  /\ IF DataSize = 0
     THEN /\ rd' = [rd EXCEPT !.pc = "again"]
          /\ UNCHANGED <<rx_rp, rx_wp, rx_flow_ctrl, ftl, out>>
     ELSE LET n == IF rd.size > DataSize THEN DataSize ELSE rd.size
              empty == NextRp(n) = rx_wp
              room == Length - 1 - (DataSize - n)
          IN  /\ out' = Copied(n)
              /\ rx_rp' = IF empty THEN 0 ELSE NextRp(n)
              /\ rx_wp' = IF empty THEN 0 ELSE rx_wp
              /\ IF rx_flow_ctrl /\ room > FlowOffAbove
                 THEN rx_flow_ctrl' = FALSE /\ ftl' = FALSE
                 ELSE UNCHANGED <<rx_flow_ctrl, ftl>>
              /\ rd' = [rd EXCEPT !.pc = "idle"]
  /\ UNCHANGED <<readKeeps, state, read_buffer, rx_done>>
-----------------------------------------------------------------------------
(* ucom_write: send_data (two tries), one at a time (tx_busy), and the     *)
(* variant for suspend (one try).  A 0 makes ucom_write send again. *)

sendKeeps == <<fixed, rx_submit, rx_rp, rx_wp, read_buffer, next_seqno, rx_flow_ctrl, ftl, stale,
               rx_done, cpVars, rd, opened, out>>

SendEnter == /\ sd.pc = "idle" /\ opened > 0 /\ left.sends > 0 /\ cp_state = 0
             /\ left' = [left EXCEPT !.sends = @ - 1]
             /\ \/ /\ state = "CLSE" /\ state' = "IDLE"
                   /\ UNCHANGED <<sd, tx_done, acked>>
                \/ /\ state \in {"OPEN", "ASST"}
                   /\ tx_done' = 0 /\ acked' = FALSE
                   /\ \E t \in 1 .. 2 : sd' = [pc |-> "write", try |-> 0, tries |-> t, ok |-> FALSE]
                   /\ UNCHANGED state
             /\ UNCHANGED <<sendKeeps, tx_flow_ctrl, fwVars, slip>>

\* send_data returns the size (ok), or an error or 0.
Returned(ok) == [pc |-> "idle", try |-> 0, tries |-> 0, ok |-> ok]

\* Behind a try that brought nothing: the next one, or the end.
NextTry == IF sd.try + 1 < sd.tries THEN [sd EXCEPT !.try = @ + 1, !.pc = "write"]
                                    ELSE Returned(FALSE)

\* The write may fail; a crash seen here ends the send.
SendWrite == /\ sd.pc = "write"
             /\ \/ /\ cp_state # 0 /\ sd' = Returned(FALSE) /\ UNCHANGED <<fw, left>>
                \/ /\ cp_state = 0 /\ fw' = [fw EXCEPT !.owed = @ + 1]
                   /\ sd' = [sd EXCEPT !.pc = "count"] /\ UNCHANGED left
                \/ /\ cp_state = 0 /\ left.errors > 0
                   /\ left' = [left EXCEPT !.errors = @ - 1]
                   /\ sd' = NextTry /\ UNCHANGED fw
             /\ UNCHANGED <<sendKeeps, state, tx_flow_ctrl, tx_done, wire, acked, slip>>

\* mutant: the write is not counted
SendCountNot == /\ sd.pc = "count"
                /\ sd' = IF state = "ASST" THEN Returned(TRUE) ELSE [sd EXCEPT !.pc = "wait"]
                /\ UNCHANGED <<sendKeeps, state, tx_flow_ctrl, tx_done, fwVars, acked, slip, left>>

\* The write is counted after the transfer, when its answer may be there.
SendCount == /\ sd.pc = "count" /\ tx_flow_ctrl' = tx_flow_ctrl + 1
             /\ sd' = IF state = "ASST" THEN Returned(TRUE) ELSE [sd EXCEPT !.pc = "wait"]
             /\ UNCHANGED <<sendKeeps, state, tx_done, fwVars, acked, slip, left>>

SendAnswered == /\ sd.pc = "wait" /\ tx_done > 0
                /\ tx_done' = tx_done - 1 /\ sd' = Returned(TRUE)
                /\ UNCHANGED <<sendKeeps, state, tx_flow_ctrl, fwVars, acked, slip, left>>

\* 100 ms without an answer: try again when the count says one is missing;
\* the variant for suspend takes the message for sent.
SendTimeout == /\ sd.pc = "wait" /\ tx_done = 0
               /\ IF tx_flow_ctrl # 0
                  THEN /\ tx_flow_ctrl' = tx_flow_ctrl - 1 /\ slip' = TRUE
                       /\ sd' = IF sd.tries = 1 THEN Returned(TRUE) ELSE NextTry
                  ELSE sd' = Returned(TRUE) /\ UNCHANGED <<tx_flow_ctrl, slip>>
               /\ UNCHANGED <<sendKeeps, state, tx_done, fwVars, acked, left>>
-----------------------------------------------------------------------------
(* The users: the device file of the port (skw_user_com.c), which two may   *)
(* have open at a time, and a driver that takes the payloads by callback.  *)

userKeeps == <<fixed, read_buffer, ftl, cpVars, fwVars, rd, sd, out, acked>>

\* open_sdio_port; it clears the count of pauses but not the chip's register.
OpenPort(callback) ==
  /\ rx_submit' = callback
  /\ rx_done' = 0 /\ tx_done' = 0 /\ state' = "OPEN"
  /\ tx_flow_ctrl' = 0 /\ rx_flow_ctrl' = FALSE
  /\ stale' = ftl /\ slip' = (fw.owed > 0 \/ \E i \in DOMAIN wire : wire[i].kind = "ack")
  /\ IF channel = "bt" THEN next_seqno' = 1 /\ rx_wp' = 0 /\ rx_rp' = 0
                       ELSE UNCHANGED <<next_seqno, rx_wp, rx_rp>>
Openable == state # "OPEN" /\ ~rx_submit

\* mutant: a reader that waits is not woken
ClosePortQuiet == /\ state # "IDLE" /\ state' = "CLSE" /\ rx_submit' = FALSE /\ rx_done' = rx_done
                  /\ UNCHANGED <<rx_rp, rx_wp, next_seqno, tx_flow_ctrl, rx_flow_ctrl, stale, tx_done, slip>>

\* close_sdio_port
ClosePort == /\ state # "IDLE" /\ state' = "CLSE" /\ rx_submit' = FALSE /\ rx_done' = rx_done + 1
             /\ UNCHANGED <<rx_rp, rx_wp, next_seqno, tx_flow_ctrl, rx_flow_ctrl, stale, tx_done, slip>>

\* The first of two opens opens the port; that it was open already is ignored.
UcomOpen == /\ left.opens > 0 /\ left' = [left EXCEPT !.opens = @ - 1]
            /\ (cp_state = 0 \/ channel = "log") /\ opened <= 1
            /\ opened' = opened + 1
            /\ IF opened = 0 /\ Openable THEN OpenPort(FALSE)
               ELSE UNCHANGED <<state, rx_submit, rx_rp, rx_wp, next_seqno, tx_flow_ctrl,
                                rx_flow_ctrl, stale, doneVars, slip>>
            /\ UNCHANGED userKeeps

\* The release of either file closes the port, unless it is the AT or the
\* log port.  A file with a call in progress is not released.
UcomRelease == /\ opened > 0 /\ (opened = 2 \/ (rd.pc = "idle" /\ sd.pc = "idle"))
               /\ opened' = opened - 1
               /\ IF channel = "bt" /\ state # "IDLE" THEN ClosePort
                  ELSE UNCHANGED <<state, rx_submit, rx_rp, rx_wp, next_seqno, tx_flow_ctrl,
                                   rx_flow_ctrl, stale, doneVars, slip>>
               /\ UNCHANGED <<userKeeps, left>>

\* An ioctl closes the port under a reader, and so does the end of the BT
\* service for every BT port (kill_BT_rx_transfer).
UcomClose == /\ left.closes > 0 /\ left' = [left EXCEPT !.closes = @ - 1]
             /\ (opened > 0 /\ rd.pc # "idle") \/ channel = "bt"
             /\ ClosePort /\ UNCHANGED <<userKeeps, opened>>

ClientOpen == /\ left.opens > 0 /\ left' = [left EXCEPT !.opens = @ - 1]
              /\ opened = 0 /\ Openable /\ OpenPort(TRUE)
              /\ UNCHANGED <<userKeeps, opened>>
ClientClose == /\ rx_submit /\ ClosePort /\ UNCHANGED <<userKeeps, opened, left>>
-----------------------------------------------------------------------------
(* A crash and its recovery. *)

Crash == /\ cp_state = 0 /\ left.crashes > 0
         /\ left' = [left EXCEPT !.crashes = @ - 1] /\ cp_state' = 1
         /\ UNCHANGED <<fixed, portVars, flowVars, doneVars, bt_service, fwVars, userVars>>

\* skw_sdio_exception_work, or the firmware's DUMPDONE in the receive
\* thread: waiting readers and senders are woken, then the services are
\* marked stopped.
Asserted(s) == s # "IDLE" /\ s # "CLSE"
Except == /\ cp_state = 1
          /\ \E c \in {2, 3} :
               /\ cp_state' = c
               /\ IF Asserted(state)
                  THEN /\ state' = "ASST" /\ rx_done' = rx_done + 1
                       /\ tx_done' = tx_done + 1
                       /\ next_seqno' = IF c = 3 /\ channel \in {"atc", "log"} THEN 1 ELSE next_seqno
                  ELSE UNCHANGED <<state, doneVars, next_seqno>>
          /\ slip' = TRUE
          /\ UNCHANGED <<fixed, rx_submit, rx_rp, rx_wp, read_buffer, flowVars, bt_service, fwVars,
                         rd, sd, opened, out, acked, left>>

ServiceDown == /\ cp_state \in {2, 3} /\ bt_service /\ bt_service' = FALSE
               /\ UNCHANGED <<fixed, portVars, flowVars, doneVars, cp_state, fwVars, userVars, left>>

\* The chip is reset and boots: its packets are gone, its numbers and its
\* registers start again; "trunk_W" clears cp_state and opens port 0.
Recover == /\ cp_state \in {2, 3} /\ ~bt_service
           /\ cp_state' = 0
           /\ state' = IF channel = "atc" /\ state = "ASST" THEN "OPEN" ELSE state
           /\ wire' = <<>> /\ fw' = [fw EXCEPT !.seq = 1, !.owed = 0]
           /\ ftl' = FALSE /\ stale' = FALSE
           /\ UNCHANGED <<fixed, rx_submit, rx_rp, rx_wp, read_buffer, next_seqno, tx_flow_ctrl,
                          rx_flow_ctrl, doneVars, bt_service, userVars, left>>

\* The BT service is started again (SkwPlat has the details).
ServiceUp == /\ cp_state = 0 /\ ~bt_service /\ bt_service' = TRUE
             /\ UNCHANGED <<fixed, portVars, flowVars, doneVars, cp_state, fwVars, userVars, left>>
-----------------------------------------------------------------------------
Firmware == FwData \/ FwAck \/ Crash
RxThread == HandleDrop \/ HandleAck \/ HandleData
Reader == ReadEnter \/ ReadAgain \/ ReadTest \/ ReadWake \/ ReadTimeout \/ ReadWoken \/ ReadCopy
Sender == SendEnter \/ SendWrite \/ SendCount \/ SendAnswered \/ SendTimeout
User == UcomOpen \/ UcomRelease \/ UcomClose \/ ClientOpen \/ ClientClose
Exception == Except \/ ServiceDown \/ Recover \/ ServiceUp

Next == Firmware \/ RxThread \/ Reader \/ Sender \/ User \/ Exception

Spec == Init /\ [][Next]_vars
-----------------------------------------------------------------------------
(* The port is a bounded byte queue (SkwByteFifo): although rx_wp wraps at *)
(* the end of the ring, rx_rp too, both restart at 0 when the ring is      *)
(* empty and a payload may be split, a reader gets the accepted bytes in   *)
(* order, each once, and a payload is accepted as a whole or dropped.      *)
Fifo == INSTANCE SkwByteFifo WITH Capacity <- Length - 1, queue <- Content
IsFifo == Fifo!FifoSpec

(* sdio_read resets rx_done, tests the ring and waits, while the receive   *)
(* thread fills the ring and completes and a user closes: a reader that    *)
(* waits with nothing completed has no data to read on a port still open.  *)
ReaderNotForgotten ==
  rd.pc = "wait" /\ rx_done = 0 => rx_wp = rx_rp /\ state # "CLSE"

(* A firmware that was told to pause is told to go on once the reader has  *)
(* read enough: while it pauses there is data to read and the driver knows *)
(* of the pause, unless the port was reopened meanwhile (open_sdio_port    *)
(* forgets the pause and leaves the register).                             *)
PauseEnds == ftl => (rx_flow_ctrl /\ rx_wp # rx_rp) \/ stale

(* A reader that waits has nothing to read, and a firmware told to pause   *)
(* is told to go on, whatever the user and a crash do meanwhile.           *)
PortSound == TypeOK /\ ReaderNotForgotten /\ PauseEnds

(* send_data reports a message as sent only when the firmware acknowledged *)
(* a write of it, though the answer may come before the write is counted   *)
(* and while the timeout fires; once a write was given up, its late answer *)
(* or the count it leaves behind may vouch for a later message.            *)
SentMeansAcked == [][sd.pc # "idle" /\ sd'.ok => acked' \/ slip']_vars
=============================================================================
