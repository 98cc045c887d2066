--------------------------- MODULE SkwPortProofs ---------------------------
(***************************************************************************)
(* Theorems about a port of the SDIO platform driver, for every size of    *)
(* its ring and every bound: its three promises (PortSound,                *)
(* SentMeansAcked, IsFifo).                                                *)
(***************************************************************************)
EXTENDS SkwPort, FiniteSetTheorems, FunctionTheorems, SequenceTheorems, TLAPS

Cells == 0 .. (Length - 1)
Packets == [kind : {"data", "ack"}, seq : Nat, bytes : Seq(Byte)]
IsData(i) == i \in 1 .. Len(wire) /\ wire[i].kind = "data"

\* The types the proofs need, by group of variables; they include TypeOK.
PortT == /\ channel \in Channels /\ version \in Versions
         /\ state \in {"IDLE", "OPEN", "CLSE", "ASST"}
RingT == /\ rx_rp \in Cells /\ rx_wp \in Cells /\ read_buffer \in [Cells -> 0 .. MaxBytes]
FlowT == /\ rx_submit \in BOOLEAN /\ rx_flow_ctrl \in BOOLEAN /\ ftl \in BOOLEAN
         /\ stale \in BOOLEAN /\ bt_service \in BOOLEAN /\ acked \in BOOLEAN /\ slip \in BOOLEAN
DoneT == /\ next_seqno \in Nat /\ tx_flow_ctrl \in Int /\ rx_done \in Nat /\ tx_done \in Nat
         /\ cp_state \in 0 .. 3 /\ opened \in 0 .. 2
WireT == /\ wire \in Seq(Packets)
         /\ \A i \in 1 .. Len(wire) :
              wire[i].kind = "data" => Len(wire[i].bytes) \in 1 .. MaxPacket
FwT   == fw \in [seq : Nat, bytes : 0 .. MaxBytes, owed : Nat]
ReadT == /\ rd \in [pc : {"idle", "again", "test", "wait", "woken", "copy"}, size : 0 .. 2]
         /\ rd.pc # "idle" => rd.size \in 1 .. 2
SendT == /\ sd \in [pc : {"idle", "write", "count", "wait"}, try : 0 .. 2, tries : 0 .. 2,
                    ok : BOOLEAN]
         /\ sd.try <= sd.tries /\ (sd.pc # "idle" => sd.try < sd.tries /\ ~sd.ok)
LeftT == left \in [bytes : 0 .. MaxBytes, sends : Nat, opens : Nat, closes : Nat,
                   crashes : Nat, errors : Nat]
TypeInv == PortT /\ RingT /\ FlowT /\ DoneT /\ WireT /\ FwT /\ ReadT /\ SendT /\ LeftT

\* A call in progress keeps the port's file open.
CallsOpen == (rd.pc # "idle" => opened > 0) /\ (sd.pc # "idle" => opened > 0)

SoundInv == CallsOpen /\ ReaderNotForgotten /\ PauseEnds

\* The acknowledgements on their way.
AckCount(w) == Cardinality({i \in 1 .. Len(w) : w[i].kind = "ack"})
InCount == IF sd.pc = "count" THEN 1 ELSE 0

\* While no write was given up, the driver counts at least as many writes as
\* there are answers to come; a write that was not answered yet is among them.
AckInv ==
  /\ state = "ASST" => slip
  /\ tx_done > 0 => acked \/ slip
  /\ ~slip => tx_flow_ctrl + InCount >= fw.owed + AckCount(wire)
  /\ ~slip /\ ~acked /\ sd.pc = "count" => tx_flow_ctrl >= 0
  /\ ~slip /\ ~acked /\ sd.pc = "wait" => tx_flow_ctrl >= 1

\* Payloads on their way are runs of numbers, in the order they were sent, and
\* above every number in the ring and in the reader's hands.
FirstOf(i) == wire[i].bytes[1]
LastOf(i) == FirstOf(i) + Len(wire[i].bytes) - 1
Held == {Content[i] : i \in 1 .. DataSize} \cup {out[i] : i \in 1 .. Len(out)}
Above(x) == \A i \in 1 .. Len(wire) : IsData(i) => x < FirstOf(i)
WireRuns == \A i \in 1 .. Len(wire) : IsData(i) =>
              /\ \A k \in 1 .. Len(wire[i].bytes) : wire[i].bytes[k] = FirstOf(i) + k - 1
              /\ LastOf(i) <= fw.bytes
WireOrdered == \A i, j \in 1 .. Len(wire) :
                 IsData(i) /\ IsData(j) /\ i < j => LastOf(i) < FirstOf(j)
OrderInv == /\ out \in Seq(Nat) /\ WireRuns /\ WireOrdered
            /\ \A x \in Held : x <= fw.bytes /\ Above(x)
-----------------------------------------------------------------------------
(* Arithmetic of the ring. *)

\* An index that ran over the end of the ring, by less than its length.
LEMMA WrapIndex ==
    ASSUME NEW x \in 0 .. (2 * Length - 1)
    PROVE  x % Length = IF x < Length THEN x ELSE x - Length
BY PortAssumption

LEMMA DataSizeValue ==
    ASSUME rx_rp \in Cells, rx_wp \in Cells
    PROVE  /\ DataSize = IF rx_wp >= rx_rp THEN rx_wp - rx_rp ELSE Length + rx_wp - rx_rp
           /\ DataSize \in Cells
BY PortAssumption DEF DataSize, Cells

\* The thresholds of the flow control: an empty ring lets the firmware go on.
LEMMA EmptyRingResumes == Length - 1 > FlowOffAbove
BY PortAssumption DEF FlowOffAbove

\* Where a payload that fits ends, and what it leaves of the room.
LEMMA NextWpValue ==
    ASSUME rx_rp \in Cells, rx_wp \in Cells, NEW n \in 1 .. BufSize,
           NEW b, Len(b) = n
    PROVE  /\ NextWp(b) \in Cells
           /\ NextWp(b) = IF rx_wp + n < Length THEN rx_wp + n ELSE rx_wp + n - Length
           /\ NextWp(b) # rx_rp
BY DataSizeValue, PortAssumption DEF NextWp, BufSize, Cells

LEMMA NextRpValue ==
    ASSUME rx_rp \in Cells, rx_wp \in Cells, NEW n \in 1 .. DataSize
    PROVE  /\ NextRp(n) \in Cells
           /\ NextRp(n) = IF rx_rp + n < Length THEN rx_rp + n ELSE rx_rp + n - Length
           /\ NextRp(n) = rx_wp <=> n = DataSize
BY DataSizeValue, PortAssumption DEF NextRp, Cells

LEMMA StoredType ==
    ASSUME rx_wp \in Cells, read_buffer \in [Cells -> 0 .. MaxBytes],
           NEW b \in Seq(Byte), Len(b) < Length
    PROVE  Stored(b) \in [Cells -> 0 .. MaxBytes]
<1> DEFINE first == IF Length - rx_wp > Len(b) THEN Len(b) ELSE Length - rx_wp
<1>0. Len(b) \in Nat /\ Length \in Nat
  BY PortAssumption
<1>1. first \in 0 .. Len(b)
  BY <1>0 DEF Cells
<1>2. ASSUME NEW i \in Cells
      PROVE  (IF i >= rx_wp /\ i < rx_wp + first THEN b[i - rx_wp + 1]
              ELSE IF i < Len(b) - first THEN b[first + i + 1] ELSE read_buffer[i]) \in 0 .. MaxBytes
  <2>1. \A k \in 1 .. Len(b) : b[k] \in 0 .. MaxBytes
    BY PortAssumption DEF Byte
  <2>2. CASE i >= rx_wp /\ i < rx_wp + first
    <3>1. i - rx_wp + 1 \in 1 .. Len(b)
      BY <1>0, <1>1, <2>2 DEF Cells
    <3> QED
      BY <2>1, <2>2, <3>1
  <2>3. CASE ~(i >= rx_wp /\ i < rx_wp + first) /\ i < Len(b) - first
    <3>1. first + i + 1 \in 1 .. Len(b)
      BY <1>0, <1>1, <2>3 DEF Cells
    <3> QED
      BY <2>1, <2>3, <3>1
  <2>4. CASE ~(i >= rx_wp /\ i < rx_wp + first) /\ ~(i < Len(b) - first)
    BY <2>4
  <2> QED
    BY <2>2, <2>3, <2>4
<1> QED
  BY <1>2 DEF Stored, Cells
-----------------------------------------------------------------------------
(* Types. *)

USE DEF fixed, portVars, flowVars, doneVars, cpVars, fwVars, userVars,
        readKeeps, sendKeeps, userKeeps

\* What the firmware queues, and what is left when a packet is parsed.
LEMMA TypesInclude == TypeInv => TypeOK
<1> SUFFICES ASSUME TypeInv PROVE TypeOK
  OBVIOUS
<1>1. rd.pc \in {"idle", "again", "test", "wait", "woken", "copy"}
  BY DEF TypeInv, ReadT
<1>2. sd.pc \in {"idle", "write", "count", "wait"} /\ sd.try \in 0 .. sd.tries
  BY DEF TypeInv, SendT
<1> QED
  BY <1>1, <1>2 DEF TypeOK, TypeInv, PortT, RingT, FlowT, DoneT, Cells

\* What the firmware queues, and what is left when a packet is parsed.
LEMMA PutType ==
    ASSUME WireT, NEW p \in Packets, p.kind = "data" => Len(p.bytes) \in 1 .. MaxPacket,
           FwPut(p)
    PROVE  WireT'
BY AppendProperties DEF WireT, FwPut

LEMMA ParsedType ==
    ASSUME WireT, NEW p \in Fetched, Parsed(p)
    PROVE  /\ p = wire[1] /\ 1 \in 1 .. Len(wire) /\ p \in Packets
           /\ p.kind = "data" => Len(p.bytes) \in 1 .. MaxPacket
           /\ Len(wire) \in Nat /\ Len(wire') = Len(wire) - 1
           /\ \A i \in 1 .. Len(wire') : wire'[i] = wire[i + 1] /\ i + 1 \in 1 .. Len(wire)
           /\ WireT'
<1>1. wire # <<>> /\ p = Head(wire)
  BY DEF Fetched
<1>2. /\ wire' \in Seq(Packets) /\ Len(wire') = Len(wire) - 1
      /\ \A i \in 1 .. Len(wire') : wire'[i] = wire[i + 1]
  BY <1>1, HeadTailProperties DEF Parsed, WireT
<1>3. wire \in Seq(Packets) /\ Len(wire) \in Nat \ {0}
  BY <1>1, EmptySeq DEF WireT
<1>4. p = wire[1] /\ p \in Packets
  BY <1>1, <1>3
<1>5. \A i \in 1 .. Len(wire') : wire'[i] = wire[i + 1] /\ i + 1 \in 1 .. Len(wire)
  BY <1>2, <1>3
<1>6. \A i \in 1 .. Len(wire) :
        wire[i].kind = "data" => Len(wire[i].bytes) \in 1 .. MaxPacket
  BY DEF WireT
<1>7. 1 \in 1 .. Len(wire)
  BY <1>3
<1>8. WireT'
  BY <1>2, <1>5, <1>6 DEF WireT
<1> QED
  BY <1>2, <1>3, <1>4, <1>5, <1>6, <1>7, <1>8

LEMMA InitTypes == Init => TypeInv
<1> SUFFICES ASSUME Init PROVE TypeInv
  OBVIOUS
<1>1. LeftT
  BY PortAssumption DEF Init, LeftT
<1>2. 0 \in Cells /\ 0 \in 0 .. MaxBytes
  BY PortAssumption DEF Cells
<1>3. RingT
  BY <1>2 DEF Init, RingT, Cells
<1>4. WireT
  BY DEF Init, WireT
<1>5. PortT /\ FlowT /\ DoneT
  <2>1. PortT
    BY DEF Init, PortT
  <2>2. FlowT
    BY DEF Init, FlowT
  <2>3. DoneT
    BY DEF Init, DoneT
  <2> QED
    BY <2>1, <2>2, <2>3
<1>6. FwT /\ ReadT /\ SendT
  BY <1>2 DEF Init, FwT, ReadT, SendT
<1> QED
  BY <1>1, <1>3, <1>4, <1>5, <1>6 DEF TypeInv

\* The two outcomes of a payload, and of a copy.
StoresPayload(p) ==
  /\ Len(p.bytes) \in 1 .. BufSize
  /\ read_buffer' = Stored(p.bytes) /\ rx_wp' = NextWp(p.bytes) /\ rx_rp' = rx_rp
  /\ rx_done' = rx_done + 1
  /\ \/ rx_flow_ctrl' = TRUE /\ ftl' = TRUE
     \/ UNCHANGED <<rx_flow_ctrl, ftl>>

LEMMA HandleDataCases ==
    ASSUME TypeInv, HandleData
    PROVE  \E p \in Fetched :
             /\ Parsed(p) /\ p.kind = "data" /\ p \in Packets
             /\ next_seqno' = SeqAfter(p)
             /\ \/ UNCHANGED <<rx_rp, rx_wp, read_buffer, rx_flow_ctrl, ftl, rx_done>>
                \/ StoresPayload(p)
<1>1. PICK p \in Fetched :
        /\ Parsed(p) /\ p.kind = "data" /\ next_seqno' = SeqAfter(p)
        /\ \/ UNCHANGED <<rx_rp, rx_wp, read_buffer, rx_flow_ctrl, ftl, rx_done>>
           \/ /\ BufSize >= Len(p.bytes)
              /\ read_buffer' = Stored(p.bytes) /\ rx_wp' = NextWp(p.bytes) /\ rx_rp' = rx_rp
              /\ rx_done' = rx_done + 1
              /\ \/ rx_flow_ctrl' = TRUE /\ ftl' = TRUE
                 \/ UNCHANGED <<rx_flow_ctrl, ftl>>
  BY DEF HandleData
<1>2. p \in Packets /\ Len(p.bytes) \in 1 .. MaxPacket
  BY <1>1, ParsedType DEF TypeInv
<1>3. BufSize \in Nat
  BY DataSizeValue, PortAssumption DEF BufSize, Cells, TypeInv, RingT
<1>4. BufSize >= Len(p.bytes) => Len(p.bytes) \in 1 .. BufSize
  BY <1>2, <1>3, PortAssumption
<1> QED
  BY <1>1, <1>2, <1>4 DEF StoresPayload

CopyLen == IF rd.size > DataSize THEN DataSize ELSE rd.size
CopiesOut(n) ==
  /\ n \in 1 .. DataSize /\ out' = Copied(n)
  /\ rx_rp' = (IF n = DataSize THEN 0 ELSE NextRp(n))
  /\ rx_wp' = (IF n = DataSize THEN 0 ELSE rx_wp)
  /\ IF rx_flow_ctrl /\ Length - 1 - (DataSize - n) > FlowOffAbove
     THEN rx_flow_ctrl' = FALSE /\ ftl' = FALSE
     ELSE UNCHANGED <<rx_flow_ctrl, ftl>>

LEMMA ReadCopyCases ==
    ASSUME TypeInv, ReadCopy
    PROVE  UNCHANGED <<rx_rp, rx_wp, rx_flow_ctrl, ftl, out>> \/ CopiesOut(CopyLen)
<1>1. CASE DataSize = 0
  BY <1>1 DEF ReadCopy
<1>2. CASE DataSize # 0
  <2>1. rx_rp \in Cells /\ rx_wp \in Cells
    BY DEF TypeInv, RingT
  <2>2. rd.size \in 1 .. 2 /\ DataSize \in Nat
    BY <2>1, DataSizeValue, PortAssumption DEF ReadCopy, TypeInv, ReadT, Cells
  <2>3. CopyLen \in 1 .. DataSize
    BY <1>2, <2>2 DEF CopyLen
  <2>4. NextRp(CopyLen) = rx_wp <=> CopyLen = DataSize
    BY <2>1, <2>3, NextRpValue
  <2> QED
    BY <1>2, <2>3, <2>4 DEF ReadCopy, CopiesOut, CopyLen
<1> QED
  BY <1>1, <1>2

LEMMA FirmwareTypes == ASSUME TypeInv, Firmware PROVE TypeInv'
<1>1. CASE FwData
  <2>1. WireT' /\ FwT'
    <3>0. PICK n \in 1 .. MaxPacket :
            /\ fw.bytes + n <= left.bytes
            /\ FwPut(Data(fw.seq, [i \in 1 .. n |-> fw.bytes + i]))
            /\ fw' = [fw EXCEPT !.seq = @ + 1, !.bytes = @ + n]
      BY <1>1 DEF FwData
    <3> DEFINE b == [i \in 1 .. n |-> fw.bytes + i]
    <3>1. fw.bytes \in 0 .. MaxBytes /\ left.bytes \in 0 .. MaxBytes /\ fw.seq \in Nat
      BY DEF TypeInv, FwT, LeftT
    <3>2. n \in Nat /\ \A i \in 1 .. n : fw.bytes + i \in Byte
      BY <3>0, <3>1, PortAssumption DEF Byte
    <3>3. b \in Seq(Byte) /\ Len(b) = n
      BY <3>2, IsASeq
    <3>4. Data(fw.seq, b) \in Packets /\ Data(fw.seq, b).bytes = b
      BY <3>1, <3>3 DEF Data, Packets
    <3>5. WireT'
      BY <3>0, <3>3, <3>4, PutType DEF TypeInv
    <3>6. fw.seq + 1 \in Nat /\ fw.bytes + n \in 0 .. MaxBytes
      BY <3>0, <3>1, <3>2, PortAssumption
    <3> QED
      BY <3>0, <3>5, <3>6 DEF TypeInv, FwT
  <2>2. PortT' /\ RingT' /\ FlowT' /\ DoneT' /\ ReadT' /\ SendT' /\ LeftT'
    BY <1>1 DEF FwData, PortT, RingT, FlowT, DoneT, ReadT, SendT, LeftT, TypeInv
  <2> QED
    BY <2>1, <2>2 DEF TypeInv
<1>2. CASE FwAck
  <2>1. WireT' /\ FwT'
    <3>1. Ack \in Packets /\ Ack.kind = "ack"
      BY DEF Ack, Packets
    <3>2. WireT'
      BY <1>2, <3>1, PutType DEF FwAck, TypeInv
    <3>3. fw.owed \in Nat /\ fw.owed > 0 /\ fw' = [fw EXCEPT !.owed = fw.owed - 1]
      BY <1>2 DEF FwAck, TypeInv, FwT
    <3>4. fw.owed - 1 \in Nat
      BY <3>3
    <3> QED
      BY <3>2, <3>3, <3>4 DEF TypeInv, FwT
  <2>2. PortT' /\ RingT' /\ FlowT' /\ DoneT' /\ ReadT' /\ SendT' /\ LeftT'
    BY <1>2 DEF FwAck, PortT, RingT, FlowT, DoneT, ReadT, SendT, LeftT, TypeInv
  <2> QED
    BY <2>1, <2>2 DEF TypeInv
<1>3. CASE Crash
  <2>1. DoneT'
    BY <1>3 DEF Crash, DoneT, TypeInv
  <2>2. LeftT'
    BY <1>3 DEF Crash, LeftT, TypeInv
  <2>3. PortT' /\ RingT' /\ FlowT' /\ WireT' /\ FwT' /\ ReadT' /\ SendT'
    BY <1>3 DEF Crash, PortT, RingT, FlowT, WireT, FwT, ReadT, SendT, TypeInv
  <2> QED
    BY <2>1, <2>2, <2>3 DEF TypeInv
<1> QED
  BY <1>1, <1>2, <1>3 DEF Firmware

LEMMA RxThreadTypes == ASSUME TypeInv, RxThread PROVE TypeInv'
<1>1. CASE HandleDrop
  <2>1. WireT'
    BY <1>1, ParsedType DEF HandleDrop, TypeInv
  <2>2. PortT' /\ RingT' /\ FlowT' /\ DoneT' /\ FwT' /\ ReadT' /\ SendT' /\ LeftT'
    BY <1>1 DEF HandleDrop, Parsed, PortT, RingT, FlowT, DoneT, FwT, ReadT, SendT, LeftT, TypeInv
  <2> QED
    BY <2>1, <2>2 DEF TypeInv
<1>2. CASE HandleAck
  <2>1. WireT'
    BY <1>2, ParsedType DEF HandleAck, TypeInv
  <2>2. FlowT'
    BY <1>2 DEF HandleAck, Parsed, FlowT, TypeInv
  <2>3. DoneT'
    BY <1>2 DEF HandleAck, Parsed, DoneT, TypeInv
  <2>4. PortT' /\ RingT' /\ FwT' /\ ReadT' /\ SendT' /\ LeftT'
    BY <1>2 DEF HandleAck, Parsed, PortT, RingT, FwT, ReadT, SendT, LeftT, TypeInv
  <2> QED
    BY <2>1, <2>2, <2>3, <2>4 DEF TypeInv
<1>3. CASE HandleData
  <2>1. WireT'
    BY <1>3, ParsedType DEF HandleData, TypeInv
  <2>2. RingT'
    <3>1. PICK p \in Fetched :
            /\ p \in Packets
            /\ UNCHANGED <<rx_rp, rx_wp, read_buffer>> \/ StoresPayload(p)
      BY <1>3, HandleDataCases
    <3>2. rx_rp \in Cells /\ rx_wp \in Cells /\ read_buffer \in [Cells -> 0 .. MaxBytes]
      BY DEF TypeInv, RingT
    <3>3. CASE StoresPayload(p)
      <4>1. p.bytes \in Seq(Byte) /\ Len(p.bytes) < Length
        BY <3>1, <3>2, <3>3, DataSizeValue, PortAssumption DEF StoresPayload, BufSize, Cells, Packets
      <4> QED
        BY <3>2, <3>3, <4>1, NextWpValue, StoredType DEF StoresPayload, RingT
    <3> QED
      BY <3>1, <3>2, <3>3 DEF RingT
  <2>3. DoneT'
    <3>1. PICK p \in Fetched : Parsed(p) /\ next_seqno' = SeqAfter(p)
      BY <1>3 DEF HandleData
    <3>2. p.seq \in Nat
      BY <3>1, ParsedType DEF Packets, TypeInv
    <3>3. next_seqno' \in Nat
      BY <3>1, <3>2 DEF SeqAfter, TypeInv, DoneT
    <3>4. rx_done' \in Nat
      BY <1>3 DEF HandleData, TypeInv, DoneT
    <3> QED
      BY <1>3, <3>1, <3>3, <3>4 DEF HandleData, Parsed, TypeInv, DoneT
  <2>4. FlowT'
    BY <1>3 DEF HandleData, Parsed, FlowT, TypeInv
  <2>5. PortT' /\ FwT' /\ ReadT' /\ SendT' /\ LeftT'
    BY <1>3 DEF HandleData, Parsed, PortT, FwT, ReadT, SendT, LeftT, TypeInv
  <2> QED
    BY <2>1, <2>2, <2>3, <2>4, <2>5 DEF TypeInv
<1> QED
  BY <1>1, <1>2, <1>3 DEF RxThread

LEMMA ReaderTypes == ASSUME TypeInv, Reader PROVE TypeInv'
<1>1. CASE ReadEnter
  <2>1. PortT'
    BY <1>1 DEF ReadEnter, AfterAssert, PortT, TypeInv
  <2>2. ReadT'
    BY <1>1 DEF ReadEnter, AfterAssert, ReadT, TypeInv
  <2>3. RingT' /\ FlowT' /\ DoneT' /\ WireT' /\ FwT' /\ SendT' /\ LeftT'
    BY <1>1 DEF ReadEnter, AfterAssert, RingT, FlowT, DoneT, WireT, FwT, SendT, LeftT, TypeInv
  <2> QED
    BY <2>1, <2>2, <2>3 DEF TypeInv
<1>2. CASE ReadAgain
  <2>1. DoneT'
    BY <1>2 DEF ReadAgain, DoneT, TypeInv
  <2>2. ReadT'
    BY <1>2 DEF ReadAgain, ReadT, TypeInv
  <2>3. PortT' /\ RingT' /\ FlowT' /\ WireT' /\ FwT' /\ SendT' /\ LeftT'
    BY <1>2 DEF ReadAgain, PortT, RingT, FlowT, WireT, FwT, SendT, LeftT, TypeInv
  <2> QED
    BY <2>1, <2>2, <2>3 DEF TypeInv
<1>3. CASE ReadTest
  <2>1. ReadT'
    BY <1>3 DEF ReadTest, ReadT, TypeInv
  <2>2. PortT' /\ RingT' /\ FlowT' /\ DoneT' /\ WireT' /\ FwT' /\ SendT' /\ LeftT'
    BY <1>3 DEF ReadTest, PortT, RingT, FlowT, DoneT, WireT, FwT, SendT, LeftT, TypeInv
  <2> QED
    BY <2>1, <2>2 DEF TypeInv
<1>4. CASE ReadWake
  <2>1. DoneT'
    BY <1>4 DEF ReadWake, DoneT, TypeInv
  <2>2. ReadT'
    BY <1>4 DEF ReadWake, ReadT, TypeInv
  <2>3. PortT' /\ RingT' /\ FlowT' /\ WireT' /\ FwT' /\ SendT' /\ LeftT'
    BY <1>4 DEF ReadWake, PortT, RingT, FlowT, WireT, FwT, SendT, LeftT, TypeInv
  <2> QED
    BY <2>1, <2>2, <2>3 DEF TypeInv
<1>5. CASE ReadTimeout
  <2>1. ReadT'
    BY <1>5 DEF ReadTimeout, ReadT, TypeInv
  <2>2. PortT' /\ RingT' /\ FlowT' /\ DoneT' /\ WireT' /\ FwT' /\ SendT' /\ LeftT'
    BY <1>5 DEF ReadTimeout, PortT, RingT, FlowT, DoneT, WireT, FwT, SendT, LeftT, TypeInv
  <2> QED
    BY <2>1, <2>2 DEF TypeInv
<1>6. CASE ReadWoken
  <2>1. PortT'
    BY <1>6 DEF ReadWoken, AfterAssert, PortT, TypeInv
  <2>2. ReadT'
    BY <1>6 DEF ReadWoken, AfterAssert, ReadT, TypeInv
  <2>3. RingT' /\ FlowT' /\ DoneT' /\ WireT' /\ FwT' /\ SendT' /\ LeftT'
    BY <1>6 DEF ReadWoken, AfterAssert, RingT, FlowT, DoneT, WireT, FwT, SendT, LeftT, TypeInv
  <2> QED
    BY <2>1, <2>2, <2>3 DEF TypeInv
<1>7. CASE ReadCopy
  <2>1. RingT'
    <3>1. rx_rp \in Cells /\ rx_wp \in Cells /\ 0 \in Cells
      BY PortAssumption DEF TypeInv, RingT, Cells
    <3>2. CASE CopiesOut(CopyLen)
      <4>1. NextRp(CopyLen) \in Cells
        BY <3>1, <3>2, NextRpValue DEF CopiesOut
      <4> QED
        BY <1>7, <3>1, <3>2, <4>1 DEF CopiesOut, ReadCopy, TypeInv, RingT
    <3> QED
      BY <1>7, <3>2, ReadCopyCases DEF ReadCopy, TypeInv, RingT
  <2>2. ReadT'
    BY <1>7 DEF ReadCopy, ReadT, TypeInv
  <2>3. FlowT'
    BY <1>7 DEF ReadCopy, FlowT, TypeInv
  <2>4. PortT' /\ DoneT' /\ WireT' /\ FwT' /\ SendT' /\ LeftT'
    BY <1>7 DEF ReadCopy, PortT, DoneT, WireT, FwT, SendT, LeftT, TypeInv
  <2> QED
    BY <2>1, <2>2, <2>3, <2>4 DEF TypeInv
<1> QED
  BY <1>1, <1>2, <1>3, <1>4, <1>5, <1>6, <1>7 DEF Reader

\* Where a try that brought nothing leads.
LEMMA NextTryType ==
    ASSUME SendT, sd.pc # "idle", sd' = NextTry \/ sd' = Returned(TRUE) \/ sd' = Returned(FALSE)
    PROVE  SendT'
<1>1. sd.try \in 0 .. 2 /\ sd.tries \in 0 .. 2 /\ sd.try < sd.tries /\ sd.ok = FALSE
  BY DEF SendT
<1>2. CASE sd' = NextTry /\ sd.try + 1 < sd.tries
  <2>1. sd.try + 1 \in 0 .. 2
    BY <1>1, <1>2
  <2>2. sd' = [sd EXCEPT !.try = sd.try + 1, !.pc = "write"]
    BY <1>2 DEF NextTry
  <2>3. /\ sd' \in [pc : {"idle", "write", "count", "wait"}, try : 0 .. 2, tries : 0 .. 2,
                    ok : BOOLEAN]
        /\ sd'.try = sd.try + 1 /\ sd'.tries = sd.tries /\ sd'.ok = sd.ok
    BY <2>1, <2>2 DEF SendT
  <2> QED
    BY <1>1, <1>2, <2>3 DEF SendT
<1>3. CASE ~(sd' = NextTry /\ sd.try + 1 < sd.tries)
  <2>1. \/ sd' = [pc |-> "idle", try |-> 0, tries |-> 0, ok |-> TRUE]
        \/ sd' = [pc |-> "idle", try |-> 0, tries |-> 0, ok |-> FALSE]
    BY <1>3 DEF NextTry, Returned
  <2>2. CASE sd' = [pc |-> "idle", try |-> 0, tries |-> 0, ok |-> TRUE]
    BY <2>2 DEF SendT
  <2>3. CASE sd' = [pc |-> "idle", try |-> 0, tries |-> 0, ok |-> FALSE]
    BY <2>3 DEF SendT
  <2> QED
    BY <2>1, <2>2, <2>3
<1> QED
  BY <1>2, <1>3

LEMMA SenderTypes == ASSUME TypeInv, Sender PROVE TypeInv'
<1>1. CASE SendEnter
  <2>1. PortT'
    BY <1>1 DEF SendEnter, PortT, TypeInv
  <2>2. SendT'
    <3>1. CASE UNCHANGED sd
      BY <3>1 DEF SendT, TypeInv
    <3>2. CASE ~UNCHANGED sd
      <4>1. PICK t \in 1 .. 2 : sd' = [pc |-> "write", try |-> 0, tries |-> t, ok |-> FALSE]
        BY <1>1, <3>2 DEF SendEnter
      <4> QED
        BY <4>1 DEF SendT
    <3> QED
      BY <3>1, <3>2
  <2>3. FlowT'
    BY <1>1 DEF SendEnter, FlowT, TypeInv
  <2>4. DoneT'
    BY <1>1 DEF SendEnter, DoneT, TypeInv
  <2>5. LeftT'
    BY <1>1 DEF SendEnter, LeftT, TypeInv
  <2>6. RingT' /\ WireT' /\ FwT' /\ ReadT'
    BY <1>1 DEF SendEnter, RingT, WireT, FwT, ReadT, TypeInv
  <2> QED
    BY <2>1, <2>2, <2>3, <2>4, <2>5, <2>6 DEF TypeInv
<1>2. CASE SendWrite
  <2>1. SendT'
    <3>1. CASE sd' = [sd EXCEPT !.pc = "count"]
      BY <1>2, <3>1 DEF SendWrite, SendT, TypeInv
    <3> QED
      BY <1>2, <3>1, NextTryType DEF SendWrite, TypeInv
  <2>2. FwT'
    BY <1>2 DEF SendWrite, NextTry, Returned, FwT, TypeInv
  <2>3. LeftT'
    BY <1>2 DEF SendWrite, NextTry, Returned, LeftT, TypeInv
  <2>4. PortT' /\ RingT' /\ FlowT' /\ DoneT' /\ WireT' /\ ReadT'
    BY <1>2 DEF SendWrite, NextTry, Returned, PortT, RingT, FlowT, DoneT, WireT, ReadT, TypeInv
  <2> QED
    BY <2>1, <2>2, <2>3, <2>4 DEF TypeInv
<1>3. CASE SendCount
  <2>1. SendT'
    BY <1>3 DEF SendCount, Returned, SendT, TypeInv
  <2>2. FlowT'
    BY <1>3 DEF SendCount, Returned, FlowT, TypeInv
  <2>3. PortT' /\ RingT' /\ DoneT' /\ WireT' /\ FwT' /\ ReadT' /\ LeftT'
    BY <1>3 DEF SendCount, Returned, PortT, RingT, DoneT, WireT, FwT, ReadT, LeftT, TypeInv
  <2> QED
    BY <2>1, <2>2, <2>3 DEF TypeInv
<1>4. CASE SendAnswered
  <2>1. SendT'
    BY <1>4 DEF SendAnswered, Returned, SendT, TypeInv
  <2>2. DoneT'
    BY <1>4 DEF SendAnswered, Returned, DoneT, TypeInv
  <2>3. PortT' /\ RingT' /\ FlowT' /\ WireT' /\ FwT' /\ ReadT' /\ LeftT'
    BY <1>4 DEF SendAnswered, Returned, PortT, RingT, FlowT, WireT, FwT, ReadT, LeftT, TypeInv
  <2> QED
    BY <2>1, <2>2, <2>3 DEF TypeInv
<1>5. CASE SendTimeout
  <2>1. SendT'
    BY <1>5, NextTryType DEF SendTimeout, TypeInv
  <2>2. FlowT'
    BY <1>5 DEF SendTimeout, NextTry, Returned, FlowT, TypeInv
  <2>3. DoneT'
    BY <1>5 DEF SendTimeout, NextTry, Returned, DoneT, TypeInv
  <2>4. PortT' /\ RingT' /\ WireT' /\ FwT' /\ ReadT' /\ LeftT'
    BY <1>5 DEF SendTimeout, NextTry, Returned, PortT, RingT, WireT, FwT, ReadT, LeftT, TypeInv
  <2> QED
    BY <2>1, <2>2, <2>3, <2>4 DEF TypeInv
<1> QED
  BY <1>1, <1>2, <1>3, <1>4, <1>5 DEF Sender

LEMMA UserTypes == ASSUME TypeInv, User PROVE TypeInv'
<1>1. CASE UcomOpen
  <2>1. PortT'
    BY <1>1 DEF UcomOpen, OpenPort, PortT, TypeInv
  <2>2. RingT'
    BY <1>1, PortAssumption DEF UcomOpen, OpenPort, RingT, TypeInv, Cells
  <2>3. FlowT'
    BY <1>1 DEF UcomOpen, OpenPort, FlowT, TypeInv
  <2>4. DoneT'
    BY <1>1 DEF UcomOpen, OpenPort, DoneT, TypeInv
  <2>5. LeftT'
    BY <1>1 DEF UcomOpen, OpenPort, LeftT, TypeInv
  <2>6. WireT' /\ FwT' /\ ReadT' /\ SendT'
    BY <1>1 DEF UcomOpen, OpenPort, WireT, FwT, ReadT, SendT, TypeInv
  <2> QED
    BY <2>1, <2>2, <2>3, <2>4, <2>5, <2>6 DEF TypeInv
<1>2. CASE UcomRelease
  <2>1. PortT'
    BY <1>2 DEF UcomRelease, ClosePort, PortT, TypeInv
  <2>2. FlowT'
    BY <1>2 DEF UcomRelease, ClosePort, FlowT, TypeInv
  <2>3. DoneT'
    BY <1>2 DEF UcomRelease, ClosePort, DoneT, TypeInv
  <2>4. RingT' /\ WireT' /\ FwT' /\ ReadT' /\ SendT' /\ LeftT'
    BY <1>2 DEF UcomRelease, ClosePort, RingT, WireT, FwT, ReadT, SendT, LeftT, TypeInv
  <2> QED
    BY <2>1, <2>2, <2>3, <2>4 DEF TypeInv
<1>3. CASE UcomClose
  <2>1. PortT'
    BY <1>3 DEF UcomClose, ClosePort, PortT, TypeInv
  <2>2. FlowT'
    BY <1>3 DEF UcomClose, ClosePort, FlowT, TypeInv
  <2>3. DoneT'
    BY <1>3 DEF UcomClose, ClosePort, DoneT, TypeInv
  <2>4. LeftT'
    BY <1>3 DEF UcomClose, ClosePort, LeftT, TypeInv
  <2>5. RingT' /\ WireT' /\ FwT' /\ ReadT' /\ SendT'
    BY <1>3 DEF UcomClose, ClosePort, RingT, WireT, FwT, ReadT, SendT, TypeInv
  <2> QED
    BY <2>1, <2>2, <2>3, <2>4, <2>5 DEF TypeInv
<1>4. CASE ClientOpen
  <2>1. PortT'
    BY <1>4 DEF ClientOpen, OpenPort, PortT, TypeInv
  <2>2. RingT'
    BY <1>4, PortAssumption DEF ClientOpen, OpenPort, RingT, TypeInv, Cells
  <2>3. FlowT'
    BY <1>4 DEF ClientOpen, OpenPort, FlowT, TypeInv
  <2>4. DoneT'
    BY <1>4 DEF ClientOpen, OpenPort, DoneT, TypeInv
  <2>5. LeftT'
    BY <1>4 DEF ClientOpen, OpenPort, LeftT, TypeInv
  <2>6. WireT' /\ FwT' /\ ReadT' /\ SendT'
    BY <1>4 DEF ClientOpen, OpenPort, WireT, FwT, ReadT, SendT, TypeInv
  <2> QED
    BY <2>1, <2>2, <2>3, <2>4, <2>5, <2>6 DEF TypeInv
<1>5. CASE ClientClose
  <2>1. PortT'
    BY <1>5 DEF ClientClose, ClosePort, PortT, TypeInv
  <2>2. FlowT'
    BY <1>5 DEF ClientClose, ClosePort, FlowT, TypeInv
  <2>3. DoneT'
    BY <1>5 DEF ClientClose, ClosePort, DoneT, TypeInv
  <2>4. RingT' /\ WireT' /\ FwT' /\ ReadT' /\ SendT' /\ LeftT'
    BY <1>5 DEF ClientClose, ClosePort, RingT, WireT, FwT, ReadT, SendT, LeftT, TypeInv
  <2> QED
    BY <2>1, <2>2, <2>3, <2>4 DEF TypeInv
<1> QED
  BY <1>1, <1>2, <1>3, <1>4, <1>5 DEF User

LEMMA ExceptionTypes == ASSUME TypeInv, Exception PROVE TypeInv'
<1>1. CASE Except
  <2>1. PortT'
    BY <1>1 DEF Except, PortT, TypeInv
  <2>2. FlowT'
    BY <1>1 DEF Except, FlowT, TypeInv
  <2>3. DoneT'
    BY <1>1 DEF Except, DoneT, TypeInv
  <2>4. RingT' /\ WireT' /\ FwT' /\ ReadT' /\ SendT' /\ LeftT'
    BY <1>1 DEF Except, RingT, WireT, FwT, ReadT, SendT, LeftT, TypeInv
  <2> QED
    BY <2>1, <2>2, <2>3, <2>4 DEF TypeInv
<1>2. CASE ServiceDown
  <2>1. FlowT'
    BY <1>2 DEF ServiceDown, FlowT, TypeInv
  <2>2. PortT' /\ RingT' /\ DoneT' /\ WireT' /\ FwT' /\ ReadT' /\ SendT' /\ LeftT'
    BY <1>2 DEF ServiceDown, PortT, RingT, DoneT, WireT, FwT, ReadT, SendT, LeftT, TypeInv
  <2> QED
    BY <2>1, <2>2 DEF TypeInv
<1>3. CASE Recover
  <2>1. PortT'
    BY <1>3 DEF Recover, PortT, TypeInv
  <2>2. WireT'
    BY <1>3 DEF Recover, WireT
  <2>3. FwT'
    BY <1>3 DEF Recover, FwT, TypeInv
  <2>4. FlowT'
    BY <1>3 DEF Recover, FlowT, TypeInv
  <2>5. DoneT'
    BY <1>3 DEF Recover, DoneT, TypeInv
  <2>6. RingT' /\ ReadT' /\ SendT' /\ LeftT'
    BY <1>3 DEF Recover, RingT, ReadT, SendT, LeftT, TypeInv
  <2> QED
    BY <2>1, <2>2, <2>3, <2>4, <2>5, <2>6 DEF TypeInv
<1>4. CASE ServiceUp
  <2>1. FlowT'
    BY <1>4 DEF ServiceUp, FlowT, TypeInv
  <2>2. PortT' /\ RingT' /\ DoneT' /\ WireT' /\ FwT' /\ ReadT' /\ SendT' /\ LeftT'
    BY <1>4 DEF ServiceUp, PortT, RingT, DoneT, WireT, FwT, ReadT, SendT, LeftT, TypeInv
  <2> QED
    BY <2>1, <2>2 DEF TypeInv
<1> QED
  BY <1>1, <1>2, <1>3, <1>4 DEF Exception

LEMMA StepTypes == TypeInv /\ [Next]_vars => TypeInv'
<1> SUFFICES ASSUME TypeInv, [Next]_vars PROVE TypeInv'
  OBVIOUS
<1>1. CASE UNCHANGED vars
  BY <1>1 DEF vars, TypeInv, PortT, RingT, FlowT, DoneT, WireT, FwT, ReadT, SendT, LeftT
<1> QED
  BY <1>1, FirmwareTypes, RxThreadTypes, ReaderTypes, SenderTypes, UserTypes, ExceptionTypes
     DEF Next
-----------------------------------------------------------------------------
(* Readers and the flow control. *)

LEMMA InitSound == Init => SoundInv
BY DEF Init, SoundInv, CallsOpen, ReaderNotForgotten, PauseEnds

LEMMA StepCallsOpen == TypeInv /\ CallsOpen /\ [Next]_vars => CallsOpen'
<1> SUFFICES ASSUME TypeInv, CallsOpen, [Next]_vars PROVE CallsOpen'
  OBVIOUS
<1>1. opened \in 0 .. 2
  BY DEF TypeInv, DoneT
<1> USE DEF CallsOpen
<1>2. CASE UNCHANGED vars
  BY <1>2 DEF vars
<1>3. CASE Firmware
  BY <1>3 DEF Firmware, FwData, FwAck, Crash
<1>4. CASE RxThread
  BY <1>4 DEF RxThread, HandleDrop, HandleAck, HandleData, Parsed
<1>5. CASE Reader
  BY <1>1, <1>5 DEF Reader, ReadEnter, ReadAgain, ReadTest, ReadWake, ReadTimeout, ReadWoken, ReadCopy
<1>6. CASE Sender
  BY <1>1, <1>6 DEF Sender, SendEnter, SendWrite, SendCount, SendAnswered, SendTimeout
<1>7. CASE User
  <2>1. CASE UcomOpen
    BY <1>1, <2>1 DEF UcomOpen
  <2>2. CASE UcomRelease
    BY <1>1, <2>2 DEF UcomRelease
  <2>3. CASE UcomClose
    BY <1>1, <2>3 DEF UcomClose
  <2>4. CASE ClientOpen
    BY <1>1, <2>4 DEF ClientOpen
  <2>5. CASE ClientClose
    BY <1>1, <2>5 DEF ClientClose
  <2> QED
    BY <1>7, <2>1, <2>2, <2>3, <2>4, <2>5 DEF User
<1>8. CASE Exception
  BY <1>8 DEF Exception, Except, ServiceDown, Recover, ServiceUp
<1> QED
  BY <1>2, <1>3, <1>4, <1>5, <1>6, <1>7, <1>8 DEF Next

LEMMA StepReader == TypeInv /\ CallsOpen /\ ReaderNotForgotten /\ [Next]_vars => ReaderNotForgotten'
<1> SUFFICES ASSUME TypeInv, CallsOpen, ReaderNotForgotten, [Next]_vars PROVE ReaderNotForgotten'
  OBVIOUS
<1>1. rx_done \in Nat /\ opened \in 0 .. 2
  BY DEF TypeInv, DoneT
<1> USE DEF ReaderNotForgotten
<1>2. CASE UNCHANGED vars
  BY <1>2 DEF vars
<1>3. CASE Firmware
  BY <1>3 DEF Firmware, FwData, FwAck, Crash
<1>4. CASE RxThread
  <2>1. CASE HandleDrop \/ HandleAck
    BY <2>1 DEF HandleDrop, HandleAck, Parsed
  <2>2. CASE HandleData
    BY <1>1, <2>2, HandleDataCases DEF HandleData, Parsed, StoresPayload
  <2> QED
    BY <1>4, <2>1, <2>2 DEF RxThread
<1>5. CASE Reader
  <2>1. CASE ReadEnter
    BY <2>1 DEF ReadEnter
  <2>2. CASE ReadTest
    BY <2>2 DEF ReadTest, TypeInv, ReadT
  <2>3. CASE ReadAgain \/ ReadWake \/ ReadTimeout \/ ReadWoken \/ ReadCopy
    <3>1. rd'.pc # "wait"
      BY <2>3 DEF ReadAgain, ReadWake, ReadTimeout, ReadWoken, ReadCopy, TypeInv, ReadT
    <3> QED
      BY <3>1
  <2> QED
    BY <1>5, <2>1, <2>2, <2>3 DEF Reader
<1>6. CASE Sender
  BY <1>6 DEF Sender, SendEnter, SendWrite, SendCount, SendAnswered, SendTimeout
<1>7. CASE User
  <2>1. CASE UcomOpen
    BY <1>1, <2>1 DEF UcomOpen, OpenPort, CallsOpen
  <2>2. CASE UcomRelease
    BY <1>1, <2>2 DEF UcomRelease, ClosePort
  <2>3. CASE UcomClose
    BY <1>1, <2>3 DEF UcomClose, ClosePort
  <2>4. CASE ClientOpen
    BY <1>1, <2>4 DEF ClientOpen, OpenPort, CallsOpen
  <2>5. CASE ClientClose
    BY <1>1, <2>5 DEF ClientClose, ClosePort
  <2> QED
    BY <1>7, <2>1, <2>2, <2>3, <2>4, <2>5 DEF User
<1>8. CASE Exception
  BY <1>1, <1>8 DEF Exception, Except, ServiceDown, Recover, ServiceUp
<1> QED
  BY <1>2, <1>3, <1>4, <1>5, <1>6, <1>7, <1>8 DEF Next

LEMMA StepPause == TypeInv /\ PauseEnds /\ [Next]_vars => PauseEnds'
<1> SUFFICES ASSUME TypeInv, PauseEnds, [Next]_vars PROVE PauseEnds'
  OBVIOUS
<1>1. rx_rp \in Cells /\ rx_wp \in Cells
  BY DEF TypeInv, RingT
<1>0. rx_flow_ctrl \in BOOLEAN /\ ftl \in BOOLEAN /\ stale \in BOOLEAN
  BY DEF TypeInv, FlowT
<1> USE DEF PauseEnds
<1>2. CASE UNCHANGED vars
  BY <1>2 DEF vars
<1>3. CASE Firmware
  BY <1>3 DEF Firmware, FwData, FwAck, Crash
<1>4. CASE RxThread
  <2>1. CASE HandleDrop \/ HandleAck
    BY <2>1 DEF HandleDrop, HandleAck, Parsed
  <2>2. CASE HandleData
    <3>1. PICK p \in Fetched :
            /\ Parsed(p) /\ p \in Packets
            /\ \/ UNCHANGED <<rx_rp, rx_wp, read_buffer, rx_flow_ctrl, ftl, rx_done>>
               \/ StoresPayload(p)
      BY <2>2, HandleDataCases
    <3>2. CASE StoresPayload(p)
      <4>1. NextWp(p.bytes) # rx_rp
        BY <1>1, <3>2, NextWpValue DEF StoresPayload
      <4>2. rx_wp' # rx_rp' /\ stale' = stale
        BY <3>1, <3>2, <4>1 DEF StoresPayload, Parsed
      <4>3. CASE rx_flow_ctrl' = TRUE /\ ftl' = TRUE
        BY <4>2, <4>3
      <4>4. CASE UNCHANGED <<rx_flow_ctrl, ftl>>
        BY <1>0, <4>2, <4>4
      <4> QED
        BY <3>2, <4>3, <4>4 DEF StoresPayload
    <3>3. CASE UNCHANGED <<rx_rp, rx_wp, read_buffer, rx_flow_ctrl, ftl, rx_done>>
      BY <1>0, <3>1, <3>3 DEF Parsed
    <3> QED
      BY <3>1, <3>2, <3>3
  <2> QED
    BY <1>4, <2>1, <2>2 DEF RxThread
<1>5. CASE Reader
  <2>1. CASE ReadCopy
    <3>1. CASE CopiesOut(CopyLen)
      <4>1. CASE CopyLen = DataSize
        <5>1. DataSize \in Nat /\ FlowOffAbove \in Nat
          BY <1>1, DataSizeValue, PortAssumption DEF Cells, FlowOffAbove
        <5>2. Length - 1 - (DataSize - CopyLen) > FlowOffAbove
          BY <4>1, <5>1, EmptyRingResumes, PortAssumption
        <5>3. rx_flow_ctrl => ~ftl'
          BY <3>1, <5>2 DEF CopiesOut
        <5>4. ~rx_flow_ctrl => ftl' = ftl
          BY <3>1 DEF CopiesOut
        <5> QED
          BY <2>1, <5>3, <5>4 DEF ReadCopy
      <4>2. CASE CopyLen # DataSize
        <5>1. NextRp(CopyLen) # rx_wp
          BY <1>1, <3>1, <4>2, NextRpValue DEF CopiesOut
        <5>2. rx_rp' # rx_wp'
          BY <3>1, <4>2, <5>1 DEF CopiesOut
        <5>3. ~ftl' \/ UNCHANGED <<rx_flow_ctrl, ftl>>
          BY <3>1 DEF CopiesOut
        <5> QED
          BY <2>1, <5>2, <5>3 DEF ReadCopy
      <4> QED
        BY <4>1, <4>2
    <3> QED
      BY <2>1, <3>1, ReadCopyCases DEF ReadCopy
  <2>2. CASE ReadEnter \/ ReadAgain \/ ReadTest \/ ReadWake \/ ReadTimeout \/ ReadWoken
    BY <2>2 DEF ReadEnter, ReadAgain, ReadTest, ReadWake, ReadTimeout, ReadWoken
  <2> QED
    BY <1>5, <2>1, <2>2 DEF Reader
<1>6. CASE Sender
  BY <1>6 DEF Sender, SendEnter, SendWrite, SendCount, SendAnswered, SendTimeout
<1>7. CASE User
  <2>1. CASE UcomOpen \/ ClientOpen
    <3>1. \/ UNCHANGED <<rx_rp, rx_wp, rx_flow_ctrl, stale>> /\ ftl' = ftl
          \/ stale' = ftl /\ ftl' = ftl
      BY <2>1 DEF UcomOpen, ClientOpen, OpenPort
    <3> QED
      BY <1>0, <3>1
  <2>2. CASE UcomRelease \/ UcomClose \/ ClientClose
    BY <2>2 DEF UcomRelease, UcomClose, ClientClose, ClosePort
  <2> QED
    BY <1>7, <2>1, <2>2 DEF User
<1>8. CASE Exception
  <2>1. CASE Except
    BY <2>1 DEF Except
  <2>2. CASE ServiceDown
    BY <2>2 DEF ServiceDown
  <2>3. CASE Recover
    BY <2>3 DEF Recover
  <2>4. CASE ServiceUp
    BY <2>4 DEF ServiceUp
  <2> QED
    BY <1>8, <2>1, <2>2, <2>3, <2>4 DEF Exception
<1> QED
  BY <1>2, <1>3, <1>4, <1>5, <1>6, <1>7, <1>8 DEF Next

(* A reader that waits has nothing to read and a firmware told to pause is *)
(* told to go on, in every ring (sdio_read, skw_sdio_handle_packet).       *)
THEOREM PortIsSound == Spec => []PortSound
<1>1. Init => TypeInv /\ SoundInv
  BY InitTypes, InitSound
<1>2. TypeInv /\ SoundInv /\ [Next]_vars => (TypeInv /\ SoundInv)'
  BY StepTypes, StepCallsOpen, StepReader, StepPause DEF SoundInv
<1>3. TypeInv /\ SoundInv => PortSound
  BY TypesInclude DEF SoundInv, PortSound
<1> QED
  BY <1>1, <1>2, <1>3, PTL DEF Spec
-----------------------------------------------------------------------------
(* Acknowledgements. *)

AckPlaces(w) == {i \in 1 .. Len(w) : w[i].kind = "ack"}

LEMMA AckCountType ==
    ASSUME NEW w \in Seq(Packets)
    PROVE  IsFiniteSet(AckPlaces(w)) /\ AckCount(w) = Cardinality(AckPlaces(w)) /\ AckCount(w) \in Nat
<1>1. IsFiniteSet(1 .. Len(w)) /\ AckPlaces(w) \subseteq 1 .. Len(w)
  BY FS_Interval DEF AckPlaces
<1> QED
  BY <1>1, FS_Subset, FS_CardinalityType DEF AckPlaces, AckCount

\* A packet queued adds one acknowledgement if it is one.
LEMMA AckCountAppend ==
    ASSUME NEW w \in Seq(Packets), NEW p \in Packets
    PROVE  AckCount(Append(w, p)) = AckCount(w) + IF p.kind = "ack" THEN 1 ELSE 0
<1> DEFINE n == Len(w) + 1
           v == Append(w, p)
<1>1. /\ v \in Seq(Packets) /\ Len(v) = n /\ v[n] = p
      /\ \A i \in 1 .. Len(w) : v[i] = w[i]
  BY AppendProperties
<1>2. Len(w) \in Nat /\ n \notin AckPlaces(w)
  BY DEF AckPlaces
<1>3. AckPlaces(v) = AckPlaces(w) \cup (IF p.kind = "ack" THEN {n} ELSE {})
  <2>1. \A i \in 1 .. n : i = n \/ i \in 1 .. Len(w)
    BY <1>2
  <2>2. \A i \in 1 .. Len(w) : i \in 1 .. n
    BY <1>2
  <2>3. n \in 1 .. n
    BY <1>2
  <2> HIDE DEF n, v
  <2> QED
    BY <1>1, <2>1, <2>2, <2>3 DEF AckPlaces
<1>4. CASE p.kind = "ack"
  <2>1. Cardinality(AckPlaces(w) \cup {n}) = Cardinality(AckPlaces(w)) + 1
    BY <1>2, AckCountType, FS_AddElement
  <2>2. AckPlaces(v) = AckPlaces(w) \cup {n}
    BY <1>3, <1>4
  <2>3. AckCount(v) = AckCount(w) + 1
    BY <1>1, <2>1, <2>2, AckCountType
  <2> QED
    BY <1>4, <2>3
<1>5. CASE p.kind # "ack"
  <2>1. AckPlaces(v) = AckPlaces(w)
    BY <1>3, <1>5
  <2>2. AckCount(v) = AckCount(w) /\ AckCount(w) \in Nat
    BY <1>1, <2>1, AckCountType
  <2> QED
    BY <1>5, <2>2
<1> QED
  BY <1>4, <1>5

\* A packet taken away takes one acknowledgement with it if it is one.
LEMMA AckCountTail ==
    ASSUME NEW w \in Seq(Packets), w # <<>>
    PROVE  AckCount(Tail(w)) = AckCount(w) - IF w[1].kind = "ack" THEN 1 ELSE 0
<1> DEFINE v == Tail(w)
           S == AckPlaces(v)
           T == AckPlaces(w) \ {1}
           f == [i \in S |-> i + 1]
<1>1. v \in Seq(Packets) /\ Len(v) = Len(w) - 1 /\ \A i \in 1 .. Len(v) : v[i] = w[i + 1]
  BY HeadTailProperties
<1>2. Len(w) \in Nat \ {0} /\ IsFiniteSet(S)
  BY <1>1, EmptySeq, AckCountType
<1>3. \A i \in S : i \in Int /\ i + 1 \in T
  BY <1>1, <1>2 DEF AckPlaces
<1>4. \A j \in T : j - 1 \in S /\ j = (j - 1) + 1
  BY <1>1, <1>2 DEF AckPlaces
<1>5. f \in Bijection(S, T)
  <2> HIDE DEF S, T
  <2>1. f \in [S -> T] /\ \A a, b \in S : f[a] = f[b] => a = b
    BY <1>3
  <2>2. \A t \in T : \E i \in S : f[i] = t
    BY <1>4
  <2> QED
    BY <2>1, <2>2, Fun_IsBij
<1>6. Cardinality(T) = Cardinality(S)
  BY <1>2, <1>5, FS_Bijection DEF ExistsBijection
<1>7. Cardinality(T) = IF 1 \in AckPlaces(w) THEN Cardinality(AckPlaces(w)) - 1
                                             ELSE Cardinality(AckPlaces(w))
  <2>1. IsFiniteSet(AckPlaces(w))
    BY AckCountType
  <2> QED
    BY <2>1, FS_RemoveElement
<1>8. 1 \in AckPlaces(w) <=> w[1].kind = "ack"
  BY <1>2 DEF AckPlaces
<1>9. AckCount(v) = Cardinality(S) /\ AckCount(w) = Cardinality(AckPlaces(w)) /\ AckCount(w) \in Nat
  BY <1>1, AckCountType
<1> HIDE DEF v, S, T
<1>10. AckCount(v) = IF w[1].kind = "ack" THEN AckCount(w) - 1 ELSE AckCount(w)
  BY <1>6, <1>7, <1>8, <1>9
<1> QED
  BY <1>9, <1>10 DEF v

LEMMA AckCountEmpty == AckCount(<<>>) = 0
<1>1. AckPlaces(<<>>) = {}
  BY DEF AckPlaces
<1>2. AckCount(<<>>) = Cardinality(AckPlaces(<<>>))
  BY DEF AckCount, AckPlaces
<1> QED
  BY <1>1, <1>2, FS_EmptySet

LEMMA NoAckCounted ==
    ASSUME NEW w \in Seq(Packets), \A i \in DOMAIN w : w[i].kind # "ack"
    PROVE  AckCount(w) = 0
<1>1. AckPlaces(w) = {}
  BY LenProperties DEF AckPlaces
<1> QED
  BY <1>1, AckCountType, FS_EmptySet

\* What a step that parses a packet does to the count.
LEMMA ParsedCount ==
    ASSUME TypeInv, NEW p \in Fetched, Parsed(p)
    PROVE  /\ AckCount(wire) \in Nat /\ AckCount(wire') \in Nat
           /\ p.kind = "ack" => AckCount(wire') = AckCount(wire) - 1
           /\ p.kind # "ack" => AckCount(wire') = AckCount(wire)
<1>1. wire # <<>> /\ wire' = Tail(wire) /\ p = wire[1]
  BY ParsedType DEF Fetched, Parsed, TypeInv
<1>2. wire \in Seq(Packets) /\ wire' \in Seq(Packets)
  BY <1>1, HeadTailProperties DEF TypeInv, WireT
<1>3. AckCount(wire) \in Nat /\ AckCount(wire') \in Nat
  BY <1>2, AckCountType
<1> QED
  BY <1>1, <1>2, <1>3, AckCountTail

\* Where a try leaves the sender.
LEMMA TryEnds ==
    ASSUME SendT, sd.pc # "idle"
    PROVE  /\ NextTry.pc \in {"write", "idle"} /\ NextTry.ok = FALSE
           /\ \A ok \in BOOLEAN : Returned(ok).pc = "idle" /\ Returned(ok).ok = ok
<1>1. Returned(FALSE).pc = "idle" /\ Returned(FALSE).ok = FALSE
  BY DEF Returned
<1>2. /\ [sd EXCEPT !.try = @ + 1, !.pc = "write"].pc = "write"
      /\ [sd EXCEPT !.try = @ + 1, !.pc = "write"].ok = sd.ok /\ sd.ok = FALSE
  BY DEF SendT
<1>3. NextTry \in {[sd EXCEPT !.try = @ + 1, !.pc = "write"], Returned(FALSE)}
  BY DEF NextTry
<1> QED
  BY <1>1, <1>2, <1>3 DEF Returned

LEMMA InitAck == Init => AckInv
BY AckCountEmpty DEF Init, AckInv, InCount

\* The numbers AckInv speaks of.
LEMMA AckNumbers ==
    ASSUME TypeInv
    PROVE  /\ tx_flow_ctrl \in Int /\ tx_done \in Nat /\ fw.owed \in Nat
           /\ AckCount(wire) \in Nat /\ InCount \in {0, 1}
           /\ slip \in BOOLEAN /\ acked \in BOOLEAN
BY AckCountType DEF TypeInv, DoneT, FlowT, FwT, WireT, InCount

LEMMA StepAck == TypeInv /\ TypeInv' /\ CallsOpen /\ AckInv /\ [Next]_vars => AckInv'
<1> SUFFICES ASSUME TypeInv, TypeInv', CallsOpen, AckInv, [Next]_vars PROVE AckInv'
  OBVIOUS
<1>0. /\ tx_flow_ctrl \in Int /\ tx_done \in Nat /\ fw.owed \in Nat
      /\ AckCount(wire) \in Nat /\ InCount \in {0, 1}
      /\ slip \in BOOLEAN /\ acked \in BOOLEAN
  BY AckNumbers
<1>t. /\ tx_flow_ctrl' \in Int /\ tx_done' \in Nat /\ fw'.owed \in Nat
      /\ AckCount(wire') \in Nat /\ InCount' \in {0, 1}
      /\ slip' \in BOOLEAN /\ acked' \in BOOLEAN
  BY AckCountType DEF TypeInv, DoneT, FlowT, FwT, WireT, InCount
<1>1. CASE UNCHANGED vars
  BY <1>1 DEF vars, AckInv, InCount
<1>2. CASE Firmware
  <2>1. UNCHANGED <<state, slip, tx_done, acked, tx_flow_ctrl, sd>>
    BY <1>2 DEF Firmware, FwData, FwAck, Crash
  <2>2. fw'.owed + AckCount(wire') = fw.owed + AckCount(wire)
    <3>1. CASE FwData
      <4>1. PICK s, b : wire' = Append(wire, Data(s, b)) /\ fw'.owed = fw.owed
        BY <3>1 DEF FwData, FwPut, TypeInv, FwT
      <4>2. wire' \in Seq(Packets) /\ wire \in Seq(Packets)
        BY DEF TypeInv, WireT
      <4>3. wire'[Len(wire) + 1] = Data(s, b) /\ Len(wire') = Len(wire) + 1
        BY <4>1, <4>2
      <4>4. Data(s, b) \in Packets
        BY <4>2, <4>3
      <4>5. Data(s, b).kind # "ack"
        BY DEF Data
      <4>6. AckCount(wire') = AckCount(wire)
        BY <1>0, <4>1, <4>2, <4>4, <4>5, AckCountAppend
      <4> QED
        BY <4>1, <4>6
    <3>2. CASE FwAck
      <4>1. wire' = Append(wire, Ack) /\ fw'.owed = fw.owed - 1
        BY <3>2 DEF FwAck, FwPut, TypeInv, FwT
      <4>2. Ack \in Packets /\ Ack.kind = "ack" /\ wire \in Seq(Packets)
        BY DEF Ack, Packets, TypeInv, WireT
      <4>3. AckCount(wire') = AckCount(wire) + 1
        BY <4>1, <4>2, AckCountAppend
      <4> QED
        BY <1>0, <4>1, <4>3
    <3>3. CASE Crash
      BY <3>3 DEF Crash
    <3> QED
      BY <1>2, <3>1, <3>2, <3>3 DEF Firmware
  <2>3. InCount' = InCount
    BY <2>1 DEF InCount
  <2> QED
    BY <1>0, <1>t, <2>1, <2>2, <2>3 DEF AckInv
<1>3. CASE RxThread
  <2>1. PICK p \in Fetched : Parsed(p)
    BY <1>3 DEF RxThread, HandleDrop, HandleAck, HandleData
  <2>2. /\ p.kind = "ack" => AckCount(wire') = AckCount(wire) - 1
        /\ p.kind # "ack" => AckCount(wire') = AckCount(wire)
    BY <2>1, ParsedCount
  <2>3. UNCHANGED <<fw, sd, slip, InCount>>
    BY <2>1 DEF Parsed, InCount
  <2>4. CASE HandleDrop \/ HandleData
    <3>1. UNCHANGED <<state, tx_flow_ctrl, tx_done, acked>>
      BY <2>4 DEF HandleDrop, HandleData
    <3> QED
      BY <1>0, <1>t, <2>2, <2>3, <3>1 DEF AckInv
  <2>5. CASE HandleAck
    <3>1. /\ tx_flow_ctrl' = tx_flow_ctrl - 1 /\ acked' = TRUE /\ state' = state
          /\ tx_done' = tx_done + 1
      BY <2>5 DEF HandleAck
    <3>2. p.kind = "ack"
      BY <2>1, <2>5 DEF HandleAck, Fetched
    <3> QED
      BY <1>0, <1>t, <2>2, <2>3, <3>1, <3>2 DEF AckInv
  <2> QED
    BY <1>3, <2>4, <2>5 DEF RxThread
<1>4. CASE Reader
  <2>1. /\ UNCHANGED <<slip, tx_done, acked, tx_flow_ctrl, sd, fw, wire, InCount>>
        /\ state' = "ASST" => state = "ASST"
    BY <1>4 DEF Reader, ReadEnter, ReadAgain, ReadTest, ReadWake, ReadTimeout, ReadWoken, ReadCopy,
                AfterAssert, InCount
  <2> QED
    BY <2>1 DEF AckInv
<1>5. CASE Sender
  <2>1. CASE SendEnter
    <3>1. UNCHANGED <<tx_flow_ctrl, fw, wire, slip>> /\ (state' = "ASST" => state = "ASST")
      BY <2>1 DEF SendEnter
    <3>2. /\ sd'.pc \notin {"count", "wait"} /\ InCount' = InCount
          /\ tx_done' = 0 \/ UNCHANGED <<tx_done, acked>>
      BY <2>1 DEF SendEnter, InCount
    <3> QED
      BY <1>0, <1>t, <3>1, <3>2 DEF AckInv
  <2>2. CASE SendWrite
    <3>1. UNCHANGED <<tx_flow_ctrl, wire, slip, state, tx_done, acked>>
      BY <2>2 DEF SendWrite
    <3>2. /\ InCount = 0 /\ sd'.pc # "wait"
          /\ \/ fw'.owed = fw.owed /\ InCount' = 0 /\ sd'.pc # "count"
             \/ fw'.owed = fw.owed + 1 /\ InCount' = 1
      <4>1. CASE sd' \in {NextTry, Returned(FALSE)} /\ fw' = fw
        BY <2>2, <4>1, TryEnds DEF SendWrite, InCount, TypeInv
      <4>2. CASE sd' = [sd EXCEPT !.pc = "count"] /\ fw' = [fw EXCEPT !.owed = @ + 1]
        BY <2>2, <4>2 DEF SendWrite, InCount, TypeInv, SendT, FwT
      <4> QED
        BY <2>2, <4>1, <4>2 DEF SendWrite
    <3> QED
      BY <1>0, <1>t, <3>1, <3>2 DEF AckInv
  <2>3. CASE SendCount
    <3>1. /\ UNCHANGED <<fw, wire, slip, state, tx_done, acked>>
          /\ tx_flow_ctrl' = tx_flow_ctrl + 1
      BY <2>3 DEF SendCount
    <3>2. InCount = 1 /\ InCount' = 0 /\ sd'.pc # "count" /\ sd.pc = "count"
      BY <2>3 DEF SendCount, InCount, Returned, TypeInv, SendT
    <3> QED
      BY <1>0, <1>t, <3>1, <3>2 DEF AckInv
  <2>4. CASE SendAnswered
    <3>1. /\ UNCHANGED <<fw, wire, slip, state, tx_flow_ctrl, acked>> /\ tx_done > 0
          /\ InCount = 0 /\ InCount' = 0 /\ sd'.pc \notin {"count", "wait"}
      BY <2>4 DEF SendAnswered, InCount, Returned
    <3> QED
      BY <1>0, <1>t, <3>1 DEF AckInv
  <2>5. CASE SendTimeout
    <3>1. /\ UNCHANGED <<fw, wire, state, tx_done, acked>>
          /\ slip' = TRUE \/ UNCHANGED <<tx_flow_ctrl, slip>>
      BY <2>5 DEF SendTimeout
    <3>2. InCount = 0 /\ InCount' = 0 /\ sd'.pc \notin {"count", "wait"}
      BY <2>5, TryEnds DEF SendTimeout, InCount, TypeInv
    <3> QED
      BY <1>0, <1>t, <3>1, <3>2 DEF AckInv
  <2> QED
    BY <1>5, <2>1, <2>2, <2>3, <2>4, <2>5 DEF Sender
<1>6. CASE User
  <2>1. UNCHANGED <<fw, wire, sd, acked, InCount>>
    BY <1>6 DEF User, UcomOpen, UcomRelease, UcomClose, ClientOpen, ClientClose, InCount
  <2>2. CASE \E b \in BOOLEAN : OpenPort(b) /\ opened = 0
    <3>1. /\ tx_done' = 0 /\ state' = "OPEN" /\ tx_flow_ctrl' = 0
          /\ ~slip' => fw.owed = 0 /\ \A i \in DOMAIN wire : wire[i].kind # "ack"
      <4>1. slip' = (fw.owed > 0 \/ \E i \in DOMAIN wire : wire[i].kind = "ack")
        BY <2>2 DEF OpenPort
      <4>2. tx_done' = 0 /\ state' = "OPEN" /\ tx_flow_ctrl' = 0
        BY <2>2 DEF OpenPort
      <4>3. ~slip' => ~(fw.owed > 0) /\ \A i \in DOMAIN wire : wire[i].kind # "ack"
        BY <4>1, Zenon
      <4> QED
        BY <1>0, <4>2, <4>3
    <3>2. sd.pc = "idle"
      BY <2>2 DEF CallsOpen, TypeInv, DoneT
    <3>3. ~slip' => AckCount(wire) = 0
      BY <3>1, NoAckCounted DEF TypeInv, WireT
    <3> QED
      BY <1>0, <1>t, <2>1, <3>1, <3>2, <3>3 DEF AckInv
  <2>3. CASE UNCHANGED <<tx_flow_ctrl, tx_done, slip>> /\ state' \in {state, "CLSE"}
    BY <2>1, <2>3 DEF AckInv
  <2>4. \/ \E b \in BOOLEAN : OpenPort(b) /\ opened = 0
        \/ UNCHANGED <<tx_flow_ctrl, tx_done, slip>> /\ state' \in {state, "CLSE"}
    <3>1. CASE UcomOpen
      BY <3>1 DEF UcomOpen
    <3>2. CASE ClientOpen
      BY <3>2 DEF ClientOpen
    <3>3. CASE UcomRelease
      BY <3>3 DEF UcomRelease, ClosePort
    <3>4. CASE UcomClose \/ ClientClose
      BY <3>4 DEF UcomClose, ClientClose, ClosePort
    <3> QED
      BY <1>6, <3>1, <3>2, <3>3, <3>4 DEF User
  <2> QED
    BY <2>2, <2>3, <2>4
<1>7. CASE Exception
  <2>1. CASE Except
    <3>1. slip' = TRUE
      BY <2>1 DEF Except
    <3> QED
      BY <3>1 DEF AckInv
  <2>2. CASE ServiceDown \/ ServiceUp
    BY <2>2 DEF ServiceDown, ServiceUp, AckInv, InCount
  <2>3. CASE Recover
    <3>1. /\ UNCHANGED <<tx_flow_ctrl, slip, tx_done, acked, sd, InCount>>
          /\ wire' = <<>> /\ fw'.owed = 0 /\ (state' = "ASST" => state = "ASST")
      BY <2>3 DEF Recover, TypeInv, FwT, InCount
    <3>2. AckCount(wire') = 0
      BY <3>1, AckCountEmpty
    <3>3. ~slip => tx_flow_ctrl + InCount >= 0
      BY <1>0 DEF AckInv
    <3>4. fw'.owed + AckCount(wire') = 0
      BY <3>1, <3>2
    <3> QED
      BY <3>1, <3>3, <3>4 DEF AckInv
  <2> QED
    BY <1>7, <2>1, <2>2, <2>3 DEF Exception
<1> QED
  BY <1>1, <1>2, <1>3, <1>4, <1>5, <1>6, <1>7 DEF Next

\* No step of a send in progress reports success without an acknowledgement.
LEMMA StepMeansAcked ==
    ASSUME TypeInv, AckInv, Next, sd.pc # "idle", sd'.ok
    PROVE  acked' \/ slip'
<1>1. sd.ok = FALSE
  BY DEF TypeInv, SendT
<1>2. sd' # sd
  BY <1>1
<1>3. CASE SendEnter
  BY <1>3 DEF SendEnter
<1>4. CASE SendWrite
  <2>1. sd' \in {NextTry, Returned(FALSE)} \/ sd' = [sd EXCEPT !.pc = "count"]
    BY <1>4 DEF SendWrite
  <2> QED
    BY <1>1, <2>1, TryEnds DEF TypeInv, SendT
<1>5. CASE SendCount
  <2>1. UNCHANGED <<slip, state>> /\ (state = "ASST" \/ sd'.ok = sd.ok)
    BY <1>5 DEF SendCount, TypeInv, SendT
  <2> QED
    BY <1>1, <2>1 DEF AckInv
<1>6. CASE SendAnswered
  BY <1>6 DEF SendAnswered, AckInv
<1>7. CASE SendTimeout
  <2>1. CASE tx_flow_ctrl # 0
    BY <1>7, <2>1 DEF SendTimeout
  <2>2. CASE tx_flow_ctrl = 0
    <3>1. acked' = acked /\ slip' = slip /\ sd.pc = "wait"
      BY <1>7, <2>2 DEF SendTimeout
    <3> QED
      BY <2>2, <3>1 DEF AckInv
  <2> QED
    BY <2>1, <2>2
<1>8. Firmware \/ RxThread \/ Reader \/ User \/ Exception => sd' = sd
  BY DEF Firmware, FwData, FwAck, Crash, RxThread, HandleDrop, HandleAck, HandleData, Parsed,
         Reader, ReadEnter, ReadAgain, ReadTest, ReadWake, ReadTimeout, ReadWoken, ReadCopy,
         User, UcomOpen, UcomRelease, UcomClose, ClientOpen, ClientClose,
         Exception, Except, ServiceDown, Recover, ServiceUp
<1> QED
  BY <1>2, <1>3, <1>4, <1>5, <1>6, <1>7, <1>8 DEF Next, Sender

(* send_data reports a message as sent only when a write of it was         *)
(* acknowledged, whatever order the answer, the count of the write and the *)
(* timeout come in.                                                        *)
THEOREM SentIsAcked == Spec => SentMeansAcked
<1>1. Init => TypeInv /\ CallsOpen /\ AckInv
  BY InitTypes, InitSound, InitAck DEF SoundInv
<1>2. TypeInv /\ CallsOpen /\ AckInv /\ [Next]_vars => (TypeInv /\ CallsOpen /\ AckInv)'
  BY StepTypes, StepCallsOpen, StepAck
<1>3. TypeInv /\ AckInv /\ [Next]_vars => [sd.pc # "idle" /\ sd'.ok => acked' \/ slip']_vars
  BY StepMeansAcked
<1> QED
  BY <1>1, <1>2, <1>3, PTL DEF Spec, SentMeansAcked
-----------------------------------------------------------------------------
(* The queue. *)

\* The cell i places behind the read position.
At(rp, i) == IF rp + i - 1 < Length THEN rp + i - 1 ELSE rp + i - 1 - Length

LEMMA RingIndex ==
    ASSUME NEW rp \in Cells, NEW i \in 1 .. (Length - 1)
    PROVE  (rp + i - 1) % Length = At(rp, i) /\ At(rp, i) \in Cells
BY PortAssumption DEF At, Cells

LEMMA ContentValue ==
    ASSUME RingT
    PROVE  /\ Content \in Seq(0 .. MaxBytes) /\ Len(Content) = DataSize /\ DataSize \in Cells
           /\ \A i \in 1 .. DataSize : Content[i] = read_buffer[At(rx_rp, i)]
                                       /\ At(rx_rp, i) \in Cells
<1>1. DataSize \in Cells /\ DataSize \in Nat /\ rx_rp \in Cells
  BY DataSizeValue, PortAssumption DEF RingT, Cells
<1>2. ASSUME NEW i \in 1 .. DataSize
      PROVE  (rx_rp + i - 1) % Length = At(rx_rp, i) /\ At(rx_rp, i) \in Cells
  <2>1. i \in 1 .. (Length - 1)
    BY <1>1, PortAssumption DEF Cells
  <2> QED
    BY <1>1, <2>1, RingIndex
<1>3. \A i \in 1 .. DataSize : read_buffer[(rx_rp + i - 1) % Length] \in 0 .. MaxBytes
  BY <1>2 DEF RingT
<1>4. Content \in Seq(0 .. MaxBytes) /\ Len(Content) = DataSize
  BY <1>1, <1>3, IsASeq DEF Content
<1>5. \A i \in 1 .. DataSize : Content[i] = read_buffer[At(rx_rp, i)]
  BY <1>2 DEF Content
<1> QED
  BY <1>1, <1>2, <1>4, <1>5

LEMMA FunctionIsSeq ==
    ASSUME NEW S, NEW n \in Nat, NEW f \in [1 .. n -> S]
    PROVE  f \in Seq(S) /\ Len(f) = n
OBVIOUS

LEMMA SizeOf ==
    ASSUME NEW rp \in Cells, NEW wp \in Cells
    PROVE  (Length + wp - rp) % Length = IF wp >= rp THEN wp - rp ELSE Length + wp - rp
BY PortAssumption DEF Cells

\* The same of the next state.
ContentFacts == /\ Content \in Seq(0 .. MaxBytes) /\ Len(Content) = DataSize /\ DataSize \in Cells
                /\ \A i \in 1 .. DataSize : Content[i] = read_buffer[At(rx_rp, i)]

LEMMA ContentPrimed == RingT' => ContentFacts'
<1>1. RingT => ContentFacts
  BY ContentValue DEF ContentFacts
<1> QED
  BY <1>1, PTL

\* A payload stored joins the content at its end.
LEMMA StoreAppends ==
    ASSUME RingT, RingT', NEW p, StoresPayload(p), p.bytes \in Seq(Byte)
    PROVE  /\ DataSize' = DataSize + Len(p.bytes)
           /\ Content' = Content \o p.bytes
<1> DEFINE b == p.bytes
           n == Len(b)
<1>0. /\ rx_rp \in Cells /\ rx_wp \in Cells /\ rx_wp' \in Cells /\ rx_rp' = rx_rp
      /\ n \in 1 .. BufSize /\ rx_wp' = NextWp(b)
  BY DEF RingT, StoresPayload
<1>1. rx_wp' = IF rx_wp + n < Length THEN rx_wp + n ELSE rx_wp + n - Length
  BY <1>0, NextWpValue
<1>2. /\ DataSize = IF rx_wp >= rx_rp THEN rx_wp - rx_rp ELSE Length + rx_wp - rx_rp
      /\ DataSize \in 0 .. (Length - 1) /\ DataSize \in Nat
  BY <1>0, DataSizeValue, PortAssumption DEF Cells
<1>3. DataSize' = IF rx_wp' >= rx_rp THEN rx_wp' - rx_rp ELSE Length + rx_wp' - rx_rp
  BY <1>0, SizeOf DEF DataSize
<1>n. n \in Nat \ {0} /\ DataSize + n < Length
  BY <1>0, <1>2, PortAssumption DEF BufSize
<1> HIDE DEF b, n
<1>4. DataSize' = DataSize + n
  BY <1>0, <1>1, <1>2, <1>3, <1>n, PortAssumption DEF Cells
<1>5. /\ Content \in Seq(0 .. MaxBytes) /\ Len(Content) = DataSize
      /\ \A i \in 1 .. DataSize : Content[i] = read_buffer[At(rx_rp, i)]
  BY ContentValue
<1>6. /\ Content' \in Seq(0 .. MaxBytes) /\ Len(Content') = DataSize'
      /\ \A i \in 1 .. DataSize' : Content'[i] = read_buffer'[At(rx_rp, i)]
  BY <1>0, ContentPrimed DEF ContentFacts
<1> DEFINE first == IF Length - rx_wp > n THEN n ELSE Length - rx_wp
<1>s. ASSUME NEW i \in Cells
      PROVE  read_buffer'[i] = IF i >= rx_wp /\ i < rx_wp + first THEN b[i - rx_wp + 1]
                               ELSE IF i < n - first THEN b[first + i + 1] ELSE read_buffer[i]
  BY DEF StoresPayload, Stored, Cells, b, n
<1>7. ASSUME NEW i \in 1 .. DataSize PROVE read_buffer'[At(rx_rp, i)] = read_buffer[At(rx_rp, i)]
  <2> DEFINE c == At(rx_rp, i)
  <2>1. c \in Cells /\ ~(c >= rx_wp /\ c < rx_wp + first) /\ ~(c < n - first)
    BY <1>0, <1>2, <1>n, PortAssumption DEF At, Cells
  <2> QED
    BY <1>s, <2>1
<1>8. ASSUME NEW k \in 1 .. n PROVE read_buffer'[At(rx_rp, DataSize + k)] = b[k]
  <2> DEFINE c == At(rx_rp, DataSize + k)
  <2>1. c \in Cells
    BY <1>0, <1>2, <1>n, PortAssumption DEF At, Cells
  <2>2. CASE k <= first
    <3>1. c >= rx_wp /\ c < rx_wp + first /\ c - rx_wp + 1 = k
      BY <1>0, <1>2, <1>n, <2>2, PortAssumption DEF At, Cells
    <3> QED
      BY <1>s, <2>1, <3>1
  <2>3. CASE k > first
    <3>1. ~(c >= rx_wp /\ c < rx_wp + first) /\ c < n - first /\ first + c + 1 = k
      BY <1>0, <1>2, <1>n, <2>3, PortAssumption DEF At, Cells
    <3> QED
      BY <1>s, <2>1, <3>1
  <2> QED
    BY <1>0, <1>n, <2>2, <2>3, PortAssumption DEF Cells
<1>9. b \in Seq(0 .. MaxBytes)
  BY PortAssumption, SeqMonotonic DEF Byte, b
<1>10. /\ Content \o b \in Seq(0 .. MaxBytes) /\ Len(Content \o b) = DataSize + n
       /\ \A i \in 1 .. (DataSize + n) :
            (Content \o b)[i] = IF i <= DataSize THEN Content[i] ELSE b[i - DataSize]
  BY <1>5, <1>9, ConcatProperties DEF n
<1>11. DataSize \in Nat /\ n \in Nat
  BY <1>2, <1>n
<1>12. \A i \in 1 .. (DataSize + n) : Content'[i] = (Content \o b)[i]
  <2> SUFFICES ASSUME NEW i \in 1 .. (DataSize + n) PROVE Content'[i] = (Content \o b)[i]
    OBVIOUS
  <2>1. CASE i <= DataSize
    <3>1. i \in 1 .. DataSize
      BY <1>11, <2>1
    <3> QED
      BY <1>4, <1>5, <1>6, <1>7, <1>10, <2>1, <3>1
  <2>2. CASE ~(i <= DataSize)
    <3>1. i - DataSize \in 1 .. n /\ i = DataSize + (i - DataSize)
      BY <1>11, <2>2
    <3> QED
      BY <1>4, <1>6, <1>8, <1>10, <2>2, <3>1
  <2> QED
    BY <2>1, <2>2
<1>13. Content' = Content \o b
  BY <1>4, <1>6, <1>10, <1>12, SeqEqual
<1> QED
  BY <1>4, <1>13 DEF b, n

\* A read of n bytes takes the first n bytes of the content.
LEMMA CopyTakes ==
    ASSUME RingT, RingT', NEW n, CopiesOut(n), read_buffer' = read_buffer
    PROVE  /\ n \in 1 .. Len(Content)
           /\ out' = SubSeq(Content, 1, n)
           /\ Content' = SubSeq(Content, n + 1, Len(Content))
<1>0. /\ rx_rp \in Cells /\ rx_wp \in Cells /\ n \in 1 .. DataSize
      /\ out' = Copied(n)
      /\ rx_rp' = (IF n = DataSize THEN 0 ELSE NextRp(n))
      /\ rx_wp' = (IF n = DataSize THEN 0 ELSE rx_wp)
  BY DEF RingT, CopiesOut
<1>1. /\ Content \in Seq(0 .. MaxBytes) /\ Len(Content) = DataSize
      /\ \A i \in 1 .. DataSize : Content[i] = read_buffer[At(rx_rp, i)]
  BY ContentValue
<1>2. /\ DataSize = IF rx_wp >= rx_rp THEN rx_wp - rx_rp ELSE Length + rx_wp - rx_rp
      /\ DataSize \in 0 .. (Length - 1) /\ DataSize \in Nat /\ n \in Nat \ {0}
  BY <1>0, DataSizeValue, PortAssumption DEF Cells
<1>e. \A i \in 1 .. DataSize : Content[i] \in 0 .. MaxBytes
  BY <1>1, ElementOfSeq
<1>3. NextRp(n) = IF rx_rp + n < Length THEN rx_rp + n ELSE rx_rp + n - Length
  BY <1>0, NextRpValue
<1>4. /\ SubSeq(Content, 1, n) \in Seq(0 .. MaxBytes) /\ Len(SubSeq(Content, 1, n)) = n
      /\ \A i \in 1 .. n : SubSeq(Content, 1, n)[i] = Content[i]
  <2>1. \A i \in 1 .. n : Content[i] \in 0 .. MaxBytes
    BY <1>0, <1>2, <1>e
  <2>2. /\ SubSeq(Content, 1, n) \in Seq(0 .. MaxBytes)
        /\ Len(SubSeq(Content, 1, n)) = IF 1 <= n THEN n - 1 + 1 ELSE 0
        /\ \A i \in 1 .. n - 1 + 1 : SubSeq(Content, 1, n)[i] = Content[1 + i - 1]
    BY <1>2, <2>1, SubSeqProperties
  <2> QED
    BY <1>2, <2>2
<1>5. out' = SubSeq(Content, 1, n)
  <2>1. \A i \in 1 .. n : Copied(n)[i] = read_buffer[At(rx_rp, i)]
    <3> SUFFICES ASSUME NEW i \in 1 .. n PROVE Copied(n)[i] = read_buffer[At(rx_rp, i)]
      OBVIOUS
    <3>1. CASE i <= Length - rx_rp
      <4>1. At(rx_rp, i) = rx_rp + i - 1
        BY <1>0, <1>2, <3>1, PortAssumption DEF At, Cells
      <4> QED
        BY <3>1, <4>1 DEF Copied
    <3>2. CASE ~(i <= Length - rx_rp)
      <4>1. At(rx_rp, i) = i - (Length - rx_rp) - 1
        BY <1>0, <1>2, <3>2, PortAssumption DEF At, Cells
      <4> QED
        BY <3>2, <4>1 DEF Copied
    <3> QED
      BY <3>1, <3>2
  <2>2. \A i \in 1 .. n : i \in 1 .. DataSize
    BY <1>0, <1>2
  <2>3. \A i \in 1 .. n : Copied(n)[i] = SubSeq(Content, 1, n)[i]
    BY <1>1, <1>4, <2>1, <2>2
  <2>4. Copied(n) \in Seq(0 .. MaxBytes) /\ Len(Copied(n)) = n
    <3>1. DOMAIN Copied(n) = 1 .. n /\ Copied(n) = [i \in 1 .. n |-> Copied(n)[i]]
      BY DEF Copied
    <3>2. \A i \in 1 .. n : Copied(n)[i] \in 0 .. MaxBytes
      BY <1>1, <1>e, <2>1, <2>2
    <3>3. Copied(n) \in [1 .. n -> 0 .. MaxBytes]
      BY <3>1, <3>2
    <3> QED
      BY <1>2, <3>3, FunctionIsSeq
  <2> QED
    BY <1>0, <1>4, <2>3, <2>4, SeqEqual
<1>6. CASE n = DataSize
  <2>1. rx_rp' = 0 /\ rx_wp' = 0
    BY <1>0, <1>6
  <2>2. DataSize' = 0
    BY <2>1, PortAssumption DEF DataSize
  <2>3. Content' = <<>>
    BY <2>2 DEF Content
  <2>4. SubSeq(Content, n + 1, DataSize) = <<>>
    BY <1>2, <1>6, SubSeqEmpty
  <2> QED
    BY <1>0, <1>1, <1>5, <2>3, <2>4
<1>7. CASE n # DataSize
  <2>1. rx_rp' = NextRp(n) /\ rx_wp' = rx_wp /\ rx_rp' \in Cells
    BY <1>0, <1>7 DEF RingT
  <2>2. DataSize' = IF rx_wp >= rx_rp' THEN rx_wp - rx_rp' ELSE Length + rx_wp - rx_rp'
    BY <1>0, <2>1, SizeOf DEF DataSize
  <2>3. DataSize' = DataSize - n /\ DataSize - n \in 1 .. (Length - 1)
    BY <1>0, <1>2, <1>3, <1>7, <2>1, <2>2, PortAssumption DEF Cells
  <2> DEFINE rest == SubSeq(Content, n + 1, DataSize)
             m == DataSize - n
  <2>4. m \in Nat /\ \A i \in 1 .. m : i \in 1 .. (Length - 1) /\ n + i \in 1 .. DataSize
    <3>1. m \in Nat /\ m <= Length - 1 /\ m + n = DataSize
      BY <1>2, <2>3, PortAssumption
    <3> HIDE DEF m
    <3> QED
      BY <1>2, <3>1, PortAssumption
  <2>5. /\ rest \in Seq(0 .. MaxBytes) /\ Len(rest) = m
        /\ \A i \in 1 .. m : rest[i] = Content[n + i]
    <3>1. \A i \in (n + 1) .. DataSize : Content[i] \in 0 .. MaxBytes
      BY <1>2, <1>e
    <3>2. /\ rest \in Seq(0 .. MaxBytes)
          /\ Len(rest) = IF n + 1 <= DataSize THEN DataSize - (n + 1) + 1 ELSE 0
          /\ \A i \in 1 .. DataSize - (n + 1) + 1 : rest[i] = Content[(n + 1) + i - 1]
      BY <1>2, <3>1, SubSeqProperties
    <3>3. DataSize - (n + 1) + 1 = m /\ n + 1 <= DataSize
      BY <1>2, <2>3
    <3>4. \A i \in 1 .. m : (n + 1) + i - 1 = n + i
      BY <1>2, <2>4
    <3> HIDE DEF rest, m
    <3> QED
      BY <3>2, <3>3, <3>4
  <2>6. \A i \in 1 .. m : Content'[i] = read_buffer[At(rx_rp', i)]
                          /\ read_buffer[At(rx_rp', i)] \in 0 .. MaxBytes
    <3>1. Content' = [i \in 1 .. m |-> read_buffer[(rx_rp' + i - 1) % Length]]
      BY <2>3 DEF Content
    <3>2. \A i \in 1 .. m : (rx_rp' + i - 1) % Length = At(rx_rp', i) /\ At(rx_rp', i) \in Cells
      BY <2>1, <2>4, RingIndex
    <3> QED
      BY <3>1, <3>2 DEF RingT
  <2>7. Content' \in Seq(0 .. MaxBytes) /\ Len(Content') = m
    <3>1. Content' = [i \in 1 .. m |-> read_buffer[(rx_rp' + i - 1) % Length]]
      BY <2>3 DEF Content
    <3>2. Content' \in [1 .. m -> 0 .. MaxBytes]
      BY <2>6, <3>1
    <3> QED
      BY <2>4, <3>2, FunctionIsSeq
  <2>8. \A i \in 1 .. m : At(rx_rp', i) = At(rx_rp, n + i)
    BY <1>0, <1>2, <1>3, <2>1, <2>4, PortAssumption DEF At, Cells
  <2>9. \A i \in 1 .. m : Content'[i] = rest[i]
    BY <1>1, <2>4, <2>5, <2>6, <2>8
  <2>10. Content' = rest
    BY <2>5, <2>7, <2>9, SeqEqual
  <2> QED
    BY <1>0, <1>1, <1>5, <2>10
<1> QED
  BY <1>6, <1>7
-----------------------------------------------------------------------------
(* The order of the bytes. *)

ringVars == <<rx_rp, rx_wp, read_buffer, out>>

\* What a step may do to the ring: nothing, store a payload, hand bytes to the
\* reader, or start again empty.
LEMMA RingSteps ==
    ASSUME TypeInv, [Next]_vars
    PROVE  \/ UNCHANGED ringVars
           \/ HandleData
           \/ ReadCopy /\ wire' = wire /\ fw' = fw
           \/ /\ rx_rp' = 0 /\ rx_wp' = 0
              /\ UNCHANGED <<read_buffer, out, wire, fw>>
<1> USE DEF ringVars
<1>1. CASE UNCHANGED vars
  BY <1>1 DEF vars
<1>2. CASE Firmware
  BY <1>2 DEF Firmware, FwData, FwAck, Crash
<1>3. CASE HandleDrop \/ HandleAck
  BY <1>3 DEF HandleDrop, HandleAck, Parsed
<1>4. CASE Reader
  <2>1. CASE ReadCopy
    BY <2>1 DEF ReadCopy
  <2>2. CASE ~ReadCopy
    BY <1>4, <2>2 DEF Reader, ReadEnter, ReadAgain, ReadTest, ReadWake, ReadTimeout, ReadWoken
  <2> QED
    BY <2>1, <2>2
<1>5. CASE Sender
  BY <1>5 DEF Sender, SendEnter, SendWrite, SendCount, SendAnswered, SendTimeout
<1>6. CASE UcomOpen \/ ClientOpen
  BY <1>6 DEF UcomOpen, ClientOpen, OpenPort
<1>7. CASE UcomRelease \/ UcomClose \/ ClientClose
  BY <1>7 DEF UcomRelease, UcomClose, ClientClose, ClosePort
<1>8. CASE Exception
  BY <1>8 DEF Exception, Except, ServiceDown, Recover, ServiceUp
<1> QED
  BY <1>1, <1>2, <1>3, <1>4, <1>5, <1>6, <1>7, <1>8 DEF Next, RxThread, User

\* What a step may do to the packets on their way.
LEMMA WireSteps ==
    ASSUME TypeInv, [Next]_vars
    PROVE  \/ wire' = wire /\ fw'.bytes = fw.bytes
           \/ FwData
           \/ wire' = Append(wire, Ack) /\ fw'.bytes = fw.bytes
           \/ (\E p \in Fetched : Parsed(p)) /\ fw' = fw
           \/ wire' = <<>> /\ fw'.bytes = fw.bytes
<1>1. CASE UNCHANGED vars
  BY <1>1 DEF vars
<1>2. CASE FwAck
  BY <1>2 DEF FwAck, FwPut, TypeInv, FwT
<1>3. CASE Crash
  BY <1>3 DEF Crash
<1>4. CASE RxThread
  BY <1>4 DEF RxThread, HandleDrop, HandleAck, HandleData, Parsed
<1>5. CASE Reader
  BY <1>5 DEF Reader, ReadEnter, ReadAgain, ReadTest, ReadWake, ReadTimeout, ReadWoken, ReadCopy
<1>6. CASE Sender
  <2>1. CASE SendWrite
    BY <2>1 DEF SendWrite, TypeInv, FwT
  <2>2. CASE ~SendWrite
    BY <1>6, <2>2 DEF Sender, SendEnter, SendCount, SendAnswered, SendTimeout
  <2> QED
    BY <2>1, <2>2
<1>7. CASE User
  BY <1>7 DEF User, UcomOpen, UcomRelease, UcomClose, ClientOpen, ClientClose
<1>8. CASE Exception
  BY <1>8 DEF Exception, Except, ServiceDown, Recover, ServiceUp, TypeInv, FwT
<1> QED
  BY <1>1, <1>2, <1>3, <1>4, <1>5, <1>6, <1>7, <1>8 DEF Next, Firmware

\* Packets on their way stay runs in order, above what was above them.
LEMMA WireKept ==
    ASSUME TypeInv, WireRuns, WireOrdered, [Next]_vars
    PROVE  /\ WireRuns' /\ WireOrdered' /\ fw'.bytes >= fw.bytes
           /\ \A x \in Nat : x <= fw.bytes /\ Above(x) => Above(x)'
<1>0. wire \in Seq(Packets) /\ fw.bytes \in Nat /\ Len(wire) \in Nat
  BY PortAssumption DEF TypeInv, WireT, FwT
<1>n. ASSUME NEW i \in 1 .. Len(wire), wire[i].kind = "data"
      PROVE  Len(wire[i].bytes) \in Nat \ {0} /\ wire[i].bytes[1] \in Nat
  <2>1. wire[i] \in Packets /\ Len(wire[i].bytes) \in 1 .. MaxPacket
    BY <1>0, <1>n DEF TypeInv, WireT
  <2>2. wire[i].bytes \in Seq(Byte) /\ Len(wire[i].bytes) \in Nat \ {0}
    BY <2>1, PortAssumption DEF Packets
  <2>3. wire[i].bytes[1] \in Byte
    BY <2>2, ElementOfSeq
  <2> QED
    BY <2>2, <2>3, PortAssumption DEF Byte
<1>1. CASE wire' = wire /\ fw'.bytes = fw.bytes
  BY <1>0, <1>1 DEF WireRuns, WireOrdered, Above, IsData, FirstOf, LastOf
<1>2. CASE FwData
  <2>0. PICK n \in 1 .. MaxPacket :
          /\ FwPut(Data(fw.seq, [i \in 1 .. n |-> fw.bytes + i]))
          /\ fw' = [fw EXCEPT !.seq = @ + 1, !.bytes = @ + n]
    BY <1>2 DEF FwData
  <2> DEFINE b == [i \in 1 .. n |-> fw.bytes + i]
             l == Len(wire) + 1
             p == Data(fw.seq, b)
  <2>1. n \in Nat \ {0} /\ fw'.bytes = fw.bytes + n
    BY <1>0, <2>0, PortAssumption DEF TypeInv, FwT
  <2>2. p.bytes = b /\ Len(b) = n /\ b[1] = fw.bytes + 1 /\ \A k \in 1 .. n : b[k] = b[1] + k - 1
    BY <1>0, <2>1 DEF Data
  <2>3. /\ wire' = Append(wire, p) /\ Len(wire') = l /\ wire'[l] = p
        /\ \A i \in 1 .. Len(wire) : wire'[i] = wire[i]
    BY <1>0, <2>0 DEF FwPut
  <2> HIDE DEF b, p
  <2>4. \A i \in 1 .. l : i = l \/ i \in 1 .. Len(wire)
    BY <1>0
  <2>5. WireRuns'
    <3> SUFFICES ASSUME NEW i \in 1 .. l, wire'[i].kind = "data"
                 PROVE  /\ \A k \in 1 .. Len(wire'[i].bytes) :
                             wire'[i].bytes[k] = wire'[i].bytes[1] + k - 1
                        /\ wire'[i].bytes[1] + Len(wire'[i].bytes) - 1 <= fw'.bytes
      BY <2>3 DEF WireRuns, IsData, FirstOf, LastOf
    <3>1. CASE i = l
      <4>1. wire'[i].bytes = b
        BY <2>2, <2>3, <3>1
      <4> QED
        BY <1>0, <2>1, <2>2, <4>1
    <3>2. CASE i \in 1 .. Len(wire)
      <4>1. wire'[i] = wire[i] /\ LastOf(i) <= fw.bytes
        BY <2>3, <3>2 DEF WireRuns, IsData
      <4>2. Len(wire[i].bytes) \in Nat /\ wire[i].bytes[1] \in Nat
        BY <1>n, <3>2, <4>1
      <4> QED
        BY <1>0, <2>1, <2>3, <3>2, <4>1, <4>2 DEF WireRuns, IsData, FirstOf, LastOf
    <3> QED
      BY <2>4, <3>1, <3>2
  <2>6. WireOrdered'
    <3> SUFFICES ASSUME NEW i \in 1 .. l, NEW j \in 1 .. l, i < j,
                        wire'[i].kind = "data", wire'[j].kind = "data"
                 PROVE  wire'[i].bytes[1] + Len(wire'[i].bytes) - 1 < wire'[j].bytes[1]
      BY <2>3 DEF WireOrdered, IsData, FirstOf, LastOf
    <3>1. i \in 1 .. Len(wire) /\ wire'[i] = wire[i]
      BY <1>0, <2>3
    <3>2. CASE j = l
      <4>1. LastOf(i) <= fw.bytes /\ wire'[j].bytes[1] = fw.bytes + 1
        BY <2>2, <2>3, <3>1, <3>2 DEF WireRuns, IsData
      <4>2. Len(wire[i].bytes) \in Nat /\ wire[i].bytes[1] \in Nat
        BY <1>n, <3>1
      <4> QED
        BY <1>0, <3>1, <4>1, <4>2 DEF FirstOf, LastOf
    <3>3. CASE j \in 1 .. Len(wire)
      BY <2>3, <3>1, <3>3 DEF WireOrdered, IsData, FirstOf, LastOf
    <3> QED
      BY <2>4, <3>2, <3>3
  <2>7. ASSUME NEW x \in Nat, x <= fw.bytes, Above(x), NEW i \in 1 .. l, wire'[i].kind = "data"
        PROVE  x < wire'[i].bytes[1]
    <3>1. CASE i = l
      BY <1>0, <2>2, <2>3, <2>7, <3>1
    <3>2. CASE i \in 1 .. Len(wire)
      BY <2>3, <2>7, <3>2 DEF Above, IsData, FirstOf
    <3> QED
      BY <2>4, <3>1, <3>2
  <2>8. \A x \in Nat : x <= fw.bytes /\ Above(x) => Above(x)'
    BY <2>3, <2>7 DEF Above, IsData, FirstOf
  <2>9. fw'.bytes >= fw.bytes
    BY <1>0, <2>1
  <2> QED
    BY <2>5, <2>6, <2>8, <2>9
<1>3. CASE wire' = Append(wire, Ack) /\ fw'.bytes = fw.bytes
  <2>1. /\ Len(wire') = Len(wire) + 1 /\ wire'[Len(wire) + 1] = Ack
        /\ \A i \in 1 .. Len(wire) : wire'[i] = wire[i]
    BY <1>0, <1>3
  <2>2. \A i \in 1 .. Len(wire') : wire'[i].kind = "data" => i \in 1 .. Len(wire) /\ wire'[i] = wire[i]
    BY <1>0, <2>1 DEF Ack
  <2> QED
    BY <1>0, <1>3, <2>2 DEF WireRuns, WireOrdered, Above, IsData, FirstOf, LastOf
<1>4. CASE (\E p \in Fetched : Parsed(p)) /\ fw' = fw
  <2>1. \A i \in 1 .. Len(wire') : wire'[i] = wire[i + 1] /\ i + 1 \in 1 .. Len(wire)
    BY <1>4, ParsedType DEF TypeInv
  <2>2. \A i, j \in 1 .. Len(wire') : i < j => i + 1 < j + 1
    OBVIOUS
  <2>3. WireRuns' /\ fw'.bytes >= fw.bytes
    <3>1. fw'.bytes = fw.bytes
      BY <1>4
    <3> SUFFICES ASSUME NEW i \in 1 .. Len(wire'), wire'[i].kind = "data"
                 PROVE  /\ \A k \in 1 .. Len(wire'[i].bytes) :
                             wire'[i].bytes[k] = wire'[i].bytes[1] + k - 1
                        /\ wire'[i].bytes[1] + Len(wire'[i].bytes) - 1 <= fw.bytes
      BY <1>0, <3>1 DEF WireRuns, IsData, FirstOf, LastOf
    <3>2. wire'[i] = wire[i + 1] /\ IsData(i + 1) /\ i + 1 \in 1 .. Len(wire)
      BY <2>1 DEF IsData
    <3> QED
      BY <3>2 DEF WireRuns, FirstOf, LastOf
  <2>4. WireOrdered'
    BY <1>0, <2>1, <2>2 DEF WireOrdered, IsData, FirstOf, LastOf
  <2>5. \A x \in Nat : Above(x) => Above(x)'
    BY <2>1 DEF Above, IsData, FirstOf
  <2> QED
    BY <2>3, <2>4, <2>5
<1>5. CASE wire' = <<>> /\ fw'.bytes = fw.bytes
  BY <1>0, <1>5 DEF WireRuns, WireOrdered, Above, IsData, FirstOf, LastOf
<1> QED
  BY <1>1, <1>2, <1>3, <1>4, <1>5, WireSteps

\* The numbers a payload brings, and those a step adds to what is held.
Payload(p) == {p.bytes[k] : k \in 1 .. Len(p.bytes)}

LEMMA SameRing ==
    ASSUME UNCHANGED ringVars
    PROVE  Content' = Content /\ DataSize' = DataSize /\ out' = out /\ Held' = Held
BY DEF ringVars, Content, DataSize, Held

LEMMA HeldStore ==
    ASSUME RingT, RingT', NEW p, StoresPayload(p), p.bytes \in Seq(Byte), out' = out
    PROVE  Held' \subseteq Held \cup Payload(p)
<1>1. DataSize' = DataSize + Len(p.bytes) /\ Content' = Content \o p.bytes
  BY StoreAppends
<1>2. Content \in Seq(0 .. MaxBytes) /\ Len(Content) = DataSize /\ DataSize \in Nat
  BY ContentValue, PortAssumption DEF Cells
<1>3. p.bytes \in Seq(0 .. MaxBytes) /\ Len(p.bytes) \in Nat
  BY PortAssumption, SeqMonotonic DEF Byte
<1>4. \A i \in 1 .. (DataSize + Len(p.bytes)) :
        Content'[i] = IF i <= DataSize THEN Content[i] ELSE p.bytes[i - DataSize]
  BY <1>1, <1>2, <1>3, ConcatProperties
<1>5. ASSUME NEW i \in 1 .. DataSize' PROVE Content'[i] \in Held \cup Payload(p)
  <2>1. CASE i <= DataSize
    <3>1. i \in 1 .. DataSize /\ Content'[i] = Content[i]
      BY <1>1, <1>2, <1>3, <1>4, <2>1
    <3> QED
      BY <3>1 DEF Held
  <2>2. CASE ~(i <= DataSize)
    <3>1. i - DataSize \in 1 .. Len(p.bytes) /\ Content'[i] = p.bytes[i - DataSize]
      BY <1>1, <1>2, <1>3, <1>4, <2>2
    <3> QED
      BY <3>1 DEF Payload
  <2> QED
    BY <2>1, <2>2
<1>6. \A i \in 1 .. Len(out') : out'[i] \in Held
  BY DEF Held
<1>7. Held' = {Content'[i] : i \in 1 .. DataSize'} \cup {out'[i] : i \in 1 .. Len(out')}
  BY DEF Held
<1> QED
  BY <1>5, <1>6, <1>7

LEMMA HeldCopy ==
    ASSUME RingT, RingT', NEW n, CopiesOut(n), read_buffer' = read_buffer
    PROVE  Held' \subseteq Held /\ out' \in Seq(Nat)
<1>1. /\ n \in 1 .. Len(Content) /\ out' = SubSeq(Content, 1, n)
      /\ Content' = SubSeq(Content, n + 1, Len(Content))
  BY CopyTakes
<1>2. /\ Content \in Seq(0 .. MaxBytes) /\ Len(Content) = DataSize /\ DataSize \in Nat
      /\ \A i \in 1 .. DataSize : Content[i] \in 0 .. MaxBytes
  BY ContentValue, ElementOfSeq, PortAssumption DEF Cells
<1>3. /\ out' \in Seq(0 .. MaxBytes) /\ Len(out') = n
      /\ \A i \in 1 .. n : out'[i] = Content[i]
  <2>1. \A i \in 1 .. n : Content[i] \in 0 .. MaxBytes
    BY <1>1, <1>2
  <2>2. /\ SubSeq(Content, 1, n) \in Seq(0 .. MaxBytes)
        /\ Len(SubSeq(Content, 1, n)) = IF 1 <= n THEN n - 1 + 1 ELSE 0
        /\ \A i \in 1 .. n - 1 + 1 : SubSeq(Content, 1, n)[i] = Content[1 + i - 1]
    BY <1>1, <1>2, <2>1, SubSeqProperties
  <2> QED
    BY <1>1, <1>2, <2>2
<1>4. \A i \in 1 .. DataSize' : \E k \in 1 .. DataSize : Content'[i] = Content[k]
  <2>1. Len(Content') = DataSize'
    BY ContentPrimed DEF ContentFacts
  <2>2. \A i \in (n + 1) .. DataSize : Content[i] \in 0 .. MaxBytes
    BY <1>1, <1>2
  <2>3. /\ Len(Content') = IF n + 1 <= DataSize THEN DataSize - (n + 1) + 1 ELSE 0
        /\ \A i \in 1 .. DataSize - (n + 1) + 1 : Content'[i] = Content[(n + 1) + i - 1]
    BY <1>1, <1>2, <2>2, SubSeqProperties
  <2> SUFFICES ASSUME NEW i \in 1 .. DataSize'
               PROVE  \E k \in 1 .. DataSize : Content'[i] = Content[k]
    OBVIOUS
  <2>4. n \in Nat /\ n + i \in 1 .. DataSize /\ i \in 1 .. DataSize - (n + 1) + 1
        /\ (n + 1) + i - 1 = n + i
    BY <1>1, <1>2, <2>1, <2>3
  <2> QED
    BY <2>3, <2>4
<1>5. Held' = {Content'[i] : i \in 1 .. DataSize'} \cup {out'[i] : i \in 1 .. Len(out')}
  BY DEF Held
<1>6. \A i \in 1 .. Len(out') : i \in 1 .. DataSize
  BY <1>1, <1>2, <1>3
<1> QED
  BY <1>2, <1>3, <1>4, <1>5, <1>6, PortAssumption, SeqMonotonic DEF Held

\* The payload of the packet parsed next: a run that belongs behind all that is
\* held and before all that stays on its way.
LEMMA ParsedPayload ==
    ASSUME TypeInv, OrderInv, NEW p \in Fetched, Parsed(p), p.kind = "data"
    PROVE  /\ p.bytes \in Seq(Byte) /\ Len(p.bytes) \in Nat \ {0} /\ p.bytes[1] \in Byte
           /\ \A k \in 1 .. Len(p.bytes) : p.bytes[k] = p.bytes[1] + k - 1
           /\ \A x \in Held : x < p.bytes[1]
           /\ \A x \in Payload(p) : x \in Nat /\ x <= fw.bytes /\ Above(x)'
<1>1. /\ p = wire[1] /\ 1 \in 1 .. Len(wire) /\ p \in Packets /\ Len(p.bytes) \in 1 .. MaxPacket
      /\ \A i \in 1 .. Len(wire') : wire'[i] = wire[i + 1] /\ i + 1 \in 1 .. Len(wire)
  BY ParsedType DEF TypeInv
<1>2. p.bytes \in Seq(Byte) /\ Len(p.bytes) \in Nat \ {0}
  BY <1>1, PortAssumption DEF Packets
<1>3. p.bytes[1] \in Byte /\ p.bytes[1] \in Nat /\ \A k \in 1 .. Len(p.bytes) : p.bytes[k] \in Nat
  BY <1>2, ElementOfSeq, PortAssumption DEF Byte
<1>4. IsData(1) /\ p.bytes[1] = FirstOf(1)
  BY <1>1 DEF IsData, FirstOf
<1>5. /\ \A k \in 1 .. Len(p.bytes) : p.bytes[k] = p.bytes[1] + k - 1
      /\ p.bytes[1] + Len(p.bytes) - 1 <= fw.bytes /\ LastOf(1) = p.bytes[1] + Len(p.bytes) - 1
  BY <1>1, <1>4 DEF OrderInv, WireRuns, FirstOf, LastOf
<1>6. \A x \in Held : x < p.bytes[1]
  BY <1>1, <1>4 DEF OrderInv, Above
<1>7. fw.bytes \in Nat
  BY PortAssumption DEF TypeInv, FwT
<1>8. ASSUME NEW k \in 1 .. Len(p.bytes)
      PROVE  p.bytes[k] <= fw.bytes /\ Above(p.bytes[k])'
  <2>1. p.bytes[k] <= LastOf(1) /\ p.bytes[k] <= fw.bytes
    BY <1>2, <1>3, <1>5, <1>7
  <2>2. ASSUME NEW i \in 1 .. Len(wire'), wire'[i].kind = "data"
        PROVE  p.bytes[k] < wire'[i].bytes[1]
    <3>1. i + 1 \in 1 .. Len(wire) /\ wire'[i] = wire[i + 1] /\ IsData(i + 1) /\ 1 < i + 1
      BY <1>1, <2>2 DEF IsData
    <3>2. LastOf(1) < FirstOf(i + 1) /\ FirstOf(i + 1) = wire'[i].bytes[1]
      BY <1>1, <1>4, <3>1 DEF OrderInv, WireOrdered, FirstOf
    <3>3. FirstOf(i + 1) \in Nat
      <4>1. wire[i + 1] \in Packets /\ Len(wire[i + 1].bytes) \in 1 .. MaxPacket
        BY <3>1 DEF TypeInv, WireT, IsData
      <4>2. wire[i + 1].bytes \in Seq(Byte) /\ Len(wire[i + 1].bytes) \in Nat \ {0}
        BY <4>1, PortAssumption DEF Packets
      <4>3. wire[i + 1].bytes[1] \in Byte
        BY <4>2, ElementOfSeq
      <4> QED
        BY <4>3, PortAssumption DEF Byte, FirstOf
    <3> QED
      BY <1>2, <1>3, <1>5, <2>1, <3>2, <3>3
  <2> QED
    BY <2>1, <2>2 DEF Above, IsData, FirstOf
<1> QED
  BY <1>2, <1>3, <1>5, <1>6, <1>8 DEF Payload

LEMMA ContentInNat == RingT => \A i \in 1 .. DataSize : Content[i] \in Nat
<1> SUFFICES ASSUME RingT PROVE \A i \in 1 .. DataSize : Content[i] \in Nat
  OBVIOUS
<1>1. read_buffer \in [Cells -> 0 .. MaxBytes]
  BY DEF RingT, Cells
<1>2. \A i \in 1 .. DataSize : Content[i] = read_buffer[At(rx_rp, i)] /\ At(rx_rp, i) \in Cells
  BY ContentValue
<1>3. \A i \in 1 .. DataSize : Content[i] \in 0 .. MaxBytes
  BY <1>1, <1>2
<1> QED
  BY <1>3, PortAssumption

LEMMA InitOrder == Init => OrderInv
<1> SUFFICES ASSUME Init PROVE OrderInv
  OBVIOUS
<1>1. wire = <<>> /\ out = <<>> /\ DataSize = 0
  BY PortAssumption DEF Init, DataSize
<1>2. Held = {}
  BY <1>1 DEF Held
<1> QED
  BY <1>1, <1>2 DEF OrderInv, WireRuns, WireOrdered

LEMMA StepOrder == TypeInv /\ TypeInv' /\ OrderInv /\ [Next]_vars => OrderInv'
<1> SUFFICES ASSUME TypeInv, TypeInv', OrderInv, [Next]_vars PROVE OrderInv'
  OBVIOUS
<1>0. RingT /\ RingT' /\ out \in Seq(Nat) /\ fw.bytes \in Nat /\ fw'.bytes \in Nat
  BY PortAssumption DEF TypeInv, OrderInv, FwT
<1>1. /\ WireRuns' /\ WireOrdered' /\ fw'.bytes >= fw.bytes
      /\ \A x \in Nat : x <= fw.bytes /\ Above(x) => Above(x)'
  BY WireKept DEF OrderInv
<1>2. Held \subseteq Nat
  <2>1. \A i \in 1 .. DataSize : Content[i] \in Nat
    BY <1>0, ContentInNat
  <2>2. \A i \in 1 .. Len(out) : out[i] \in Nat
    BY <1>0, ElementOfSeq
  <2> QED
    BY <2>1, <2>2 DEF Held
<1>3. \A x \in Held : x <= fw'.bytes /\ Above(x)'
  BY <1>0, <1>1, <1>2 DEF OrderInv
<1>4. CASE out' \in Seq(Nat) /\ Held' \subseteq Held
  BY <1>1, <1>3, <1>4 DEF OrderInv
<1>5. CASE HandleData
  <2>1. PICK p \in Fetched :
          /\ Parsed(p) /\ p.kind = "data"
          /\ UNCHANGED <<rx_rp, rx_wp, read_buffer>> \/ StoresPayload(p)
    BY <1>5, HandleDataCases
  <2>2. out' = out /\ fw' = fw
    BY <2>1 DEF Parsed
  <2>3. CASE StoresPayload(p)
    <3>1. /\ p.bytes \in Seq(Byte)
          /\ \A x \in Payload(p) : x \in Nat /\ x <= fw.bytes /\ Above(x)'
      BY <2>1, ParsedPayload
    <3>2. Held' \subseteq Held \cup Payload(p)
      BY <1>0, <2>2, <2>3, <3>1, HeldStore
    <3>3. \A x \in Held' : x <= fw'.bytes /\ Above(x)'
      BY <1>3, <2>2, <3>1, <3>2
    <3> QED
      BY <1>0, <1>1, <2>2, <3>3 DEF OrderInv
  <2>4. CASE UNCHANGED <<rx_rp, rx_wp, read_buffer>>
    BY <1>0, <1>4, <2>2, <2>4, SameRing DEF ringVars
  <2> QED
    BY <2>1, <2>3, <2>4
<1>6. CASE ReadCopy
  <2>1. read_buffer' = read_buffer
    BY <1>6 DEF ReadCopy
  <2>2. CASE CopiesOut(CopyLen)
    BY <1>0, <1>4, <2>1, <2>2, HeldCopy
  <2>3. CASE UNCHANGED <<rx_rp, rx_wp, rx_flow_ctrl, ftl, out>>
    BY <1>0, <1>4, <2>1, <2>3, SameRing DEF ringVars
  <2> QED
    BY <1>6, <2>2, <2>3, ReadCopyCases
<1>7. CASE rx_rp' = 0 /\ rx_wp' = 0 /\ UNCHANGED <<read_buffer, out, wire, fw>>
  <2>1. DataSize' = 0
    BY <1>7, PortAssumption DEF DataSize
  <2>2. Held' = {Content'[i] : i \in 1 .. DataSize'} \cup {out'[i] : i \in 1 .. Len(out')}
    BY DEF Held
  <2>3. Held' \subseteq Held
    BY <1>7, <2>1, <2>2 DEF Held
  <2> QED
    BY <1>0, <1>4, <1>7, <2>3
<1>8. CASE UNCHANGED ringVars
  BY <1>0, <1>4, <1>8, SameRing
<1> QED
  BY <1>5, <1>6, <1>7, <1>8, RingSteps

\* Each step of the port is a step of the queue, or leaves queue and reader alone.
LEMMA StepFifo ==
    ASSUME TypeInv, TypeInv', OrderInv, [Next]_vars
    PROVE  [Fifo!FifoNext]_(Fifo!fifoVars)
<1>0. RingT /\ RingT' /\ Content \in Seq(0 .. MaxBytes) /\ Len(Content) = DataSize
      /\ DataSize \in Nat /\ out \in Seq(Nat)
  BY ContentValue, PortAssumption DEF TypeInv, OrderInv, Cells
<1>1. CASE UNCHANGED ringVars
  BY <1>1, SameRing DEF Fifo!fifoVars
<1>2. CASE HandleData
  <2>1. PICK p \in Fetched :
          /\ Parsed(p) /\ p.kind = "data"
          /\ UNCHANGED <<rx_rp, rx_wp, read_buffer>> \/ StoresPayload(p)
    BY <1>2, HandleDataCases
  <2>2. out' = out
    BY <2>1 DEF Parsed
  <2>3. CASE StoresPayload(p)
    <3> DEFINE b == p.bytes[1]
               n == Len(p.bytes)
    <3>1. /\ p.bytes \in Seq(Byte) /\ n \in Nat \ {0} /\ b \in Byte
          /\ \A k \in 1 .. n : p.bytes[k] = b + k - 1
          /\ \A x \in Held : x < b
      BY <2>1, ParsedPayload
    <3>2. Content' = Content \o p.bytes
      BY <1>0, <2>3, <3>1, StoreAppends
    <3>3. p.bytes = [i \in 1 .. n |-> b + i - 1]
      BY <3>1
    <3>4. n \in 1 .. (Length - 1 - Len(Content))
      BY <1>0, <2>3 DEF StoresPayload, BufSize
    <3>5. \A x \in Fifo!Range(Content) \cup Fifo!Range(out) : x < b
      BY <1>0, <3>1 DEF Fifo!Range, Held
    <3> HIDE DEF b, n
    <3>6. Content' = Content \o [i \in 1 .. n |-> b + i - 1]
      BY <3>2, <3>3
    <3>7. Fifo!Accept
      BY <2>2, <3>1, <3>4, <3>5, <3>6 DEF Fifo!Accept
    <3> QED
      BY <3>7 DEF Fifo!FifoNext
  <2>4. CASE UNCHANGED <<rx_rp, rx_wp, read_buffer>>
    BY <2>2, <2>4, SameRing DEF ringVars, Fifo!fifoVars
  <2> QED
    BY <2>1, <2>3, <2>4
<1>3. CASE ReadCopy
  <2>1. read_buffer' = read_buffer
    BY <1>3 DEF ReadCopy
  <2>2. CASE CopiesOut(CopyLen)
    <3>1. /\ CopyLen \in 1 .. Len(Content) /\ out' = SubSeq(Content, 1, CopyLen)
          /\ Content' = SubSeq(Content, CopyLen + 1, Len(Content))
      BY <1>0, <2>1, <2>2, CopyTakes
    <3>2. Fifo!Take
      BY <3>1 DEF Fifo!Take
    <3> QED
      BY <3>2 DEF Fifo!FifoNext
  <2>3. CASE UNCHANGED <<rx_rp, rx_wp, rx_flow_ctrl, ftl, out>>
    BY <2>1, <2>3, SameRing DEF ringVars, Fifo!fifoVars
  <2> QED
    BY <1>3, <2>2, <2>3, ReadCopyCases
<1>4. CASE rx_rp' = 0 /\ rx_wp' = 0 /\ UNCHANGED <<read_buffer, out, wire, fw>>
  <2>1. DataSize' = 0
    BY <1>4, PortAssumption DEF DataSize
  <2>2. Content' = <<>>
    BY <2>1 DEF Content
  <2> QED
    BY <1>4, <2>2 DEF Fifo!FifoNext, Fifo!Clear
<1> QED
  BY <1>1, <1>2, <1>3, <1>4, RingSteps

(* The port is a bounded queue of bytes: sdio_read returns what            *)
(* skw_sdio_handle_packet accepted, in order and each byte once, however   *)
(* the two wrap around a ring of any size.                                 *)
THEOREM PortIsFifo == Spec => IsFifo
<1>1. Init => TypeInv /\ OrderInv
  BY InitTypes, InitOrder
<1>2. TypeInv /\ OrderInv /\ [Next]_vars => (TypeInv /\ OrderInv)'
  BY StepTypes, StepOrder
<1>3. Init => Fifo!FifoInit
  <2> SUFFICES ASSUME Init PROVE Fifo!FifoInit
    OBVIOUS
  <2>1. DataSize = 0
    BY PortAssumption DEF Init, DataSize
  <2> QED
    BY <2>1 DEF Init, Content, Fifo!FifoInit
<1>4. TypeInv /\ TypeInv' /\ OrderInv /\ [Next]_vars => [Fifo!FifoNext]_(Fifo!fifoVars)
  BY StepFifo
<1> QED
  BY <1>1, <1>2, <1>3, <1>4, PTL DEF Spec, IsFifo, Fifo!FifoSpec
=============================================================================
