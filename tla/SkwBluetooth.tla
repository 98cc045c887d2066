---------------------------- MODULE SkwBluetooth ----------------------------
(***************************************************************************)
(* Bluetooth: the HCI driver (SkwBt) and the log device beside it          *)
(* (SkwBtLog), which share no state but the ports the platform gives them. *)
(***************************************************************************)
EXTENDS SkwBt

CONSTANTS
    LogReaders, LogPackets, LogLimit, LogCalls  \* Readers, Packets, Limit and Calls of SkwBtLog

ASSUME LogAssumption == LogLimit \in Nat

VARIABLES
    info, pdata, open, file, bt, logq, recv, wr, rd, got, logleft, odd

Log == INSTANCE SkwBtLog WITH
    Readers <- LogReaders, Packets <- LogPackets, Limit <- LogLimit, Calls <- LogCalls,
    q <- logq, left <- logleft

logVars ==
    <<info, pdata, open, file, bt, logq, recv, wr, rd, got, logleft, odd>>

-----------------------------------------------------------------------------
\* The properties of the HCI driver are those of SkwBt: HciSound and SentInOrder.

\* The log device: the stream of packets is kept whole, sessions are kept apart and the chip
\* logs when both devices are open (skw_btlog.c).
BtLogSound == Log!BtLogSound
=============================================================================
