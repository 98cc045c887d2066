----------------------------- MODULE SkwTxPath -----------------------------
(***************************************************************************)
(* The transmit path over SDIO: queues, ring and credit (SkwTx), the       *)
(* ownership of the buffers from skw_ndo_xmit on (SkwXmit), and the bus    *)
(* accesses that share the address register of the chip (SkwSdioReg).      *)
(* They are three views of one path and share no state: a frame of SkwTx   *)
(* is an index, of SkwXmit a buffer, of SkwSdioReg an access to the FIFO.  *)
(***************************************************************************)
EXTENDS SkwTx

CONSTANTS
    BufLoads, BufGrant,             \* Loads and Grant of SkwXmit
    RegThreads, RegChunks, RegFaults  \* Threads, Chunks and Faults of SkwSdioReg

\* An image has blocks; "nobody" is no thread.
ASSUME RegAssumption ==
    RegChunks \in Nat \ {0} /\ RegFaults \in Nat /\ "nobody" \notin RegThreads

VARIABLES
    load, stack, live, retry, b_xmit, b_txq, tl, bus, kfree, work, ba, link, sgl, b_credit, b_owed,
    fate, left, odd,
    job, th, areg, mutex, cell, host, faults, r_odd

Buf == INSTANCE SkwXmit WITH
    Loads <- BufLoads, Grant <- BufGrant, xmit <- b_xmit, txq <- b_txq, credit <- b_credit, owed <- b_owed

Reg == INSTANCE SkwSdioReg WITH
    Threads <- RegThreads, Chunks <- RegChunks, Faults <- RegFaults, odd <- r_odd

bufVars ==
    <<load, stack, live, retry, b_xmit, b_txq, tl, bus, kfree, work, ba, link, sgl, b_credit,
      b_owed, fate, left, odd>>
regVars ==
    <<job, th, areg, mutex, cell, host, faults, r_odd>>

-----------------------------------------------------------------------------
\* Every buffer has one owner between the stack, the queues and the bus, and is freed once.
BuffersOwned == Buf!BuffersOwned

\* Images, pins, dumps and frames reach the chip at the address meant for them, though the address
\* register and the window behind it are two accesses (skw_sdio_dt_write, skw_sdio_dt_read).
RegSound == Reg!RegSound
=============================================================================
