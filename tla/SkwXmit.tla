------------------------------ MODULE SkwXmit -------------------------------
(***************************************************************************)
(* Who owns a frame's buffer on the way out (skw_core.c, skw_tx.c,         *)
(* skw_work.c): skw_ndo_xmit gets a buffer from the network stack, may     *)
(* replace it, send it as a command, hand it back or queue it; the bus     *)
(* functions give it to a DMA engine, and a completion callback, a work or *)
(* the sender frees it.                                                    *)
(*                                                                         *)
(* A buffer is <<f, 0>>, the one the stack made for frame f, or <<f, 1>>,  *)
(* the copy the driver made of it.  The load of a behaviour says which     *)
(* DMA mode the platform selected, which frames come, and which            *)
(* allocations, commands and transfers may fail.  The ring of the SDIO     *)
(* mode and the order of frames are SkwTx's; here it is a mode that copies.*)
(***************************************************************************)
EXTENDS Integers, Sequences, FiniteSets

CONSTANTS Loads,     \* what may happen in a behaviour, see MC
          Grant      \* credit the firmware starts with

Modes == {"ring", "sync_sdma", "async_sdma", "sync_adma", "async_adma"}
Kinds == {"short", "data", "mcast", "eapol", "arp"}
Flags == {"arpback", "unfreed", "enomem", "nosgl", "status", "lostba"}

VARIABLES
    load,     \* [mode, frames, align, rptr, arpf, cb, busy] chosen once
    stack,    \* the buffers the stack has still to hand over, the next one first
    live,     \* the buffers not yet freed
    retry,    \* SKW_SKB_TXCB(skb)->tx_retry of each buffer
    xmit,     \* skw_ndo_xmit: pc, the buffer in hand
    txq,      \* the buffers queued for the worker
    tl,       \* txlp->tx_list, what the worker has taken and not given to the bus
    bus,      \* asynchronous transfers, oldest first: [n, bufs]
    kfree,    \* kfree_skb_qlist
    work,     \* the works queued for skw_work: "ba" or <<"tx", f>>
    ba,       \* the peer's txba bit, and whether the firmware knows
    link,     \* "none": no peer, "half": not COMPLETED, "up"
    sgl,      \* skw->sgl_dat is allocated
    credit, owed,  \* fw_credit, and credit the firmware has to return
    fate,     \* ghost: what became of each frame
    left,     \* budgets
    odd       \* ghost: the known departures that happened

vars == <<load, stack, live, retry, xmit, txq, tl, bus, kfree, work, ba, link, sgl, credit,
          owed, fate, left, odd>>
txside == <<tl, bus, kfree, sgl, credit, owed>>

Frames  == DOMAIN load.frames
Buffers == Frames \X {0, 1}
Copy(b) == <<b[1], 1>>
Kind(f) == load.frames[f]
Idle    == [pc |-> "idle", b |-> <<0, 0>>]

TypeOK ==
    /\ load \in Loads /\ load.mode \in Modes /\ \A f \in Frames : Kind(f) \in Kinds
    /\ {stack, txq, tl, kfree} \subseteq Seq(Buffers) /\ live \subseteq Buffers
    /\ retry \in [Buffers -> Nat]
    /\ xmit.pc \in {"idle", "ba", "send"}
    /\ ba \in [bit : BOOLEAN, fw : BOOLEAN] /\ link \in {"none", "half", "up"}
    /\ credit \in Int /\ owed \in Nat /\ sgl \in BOOLEAN
    /\ fate \in [Frames -> {"no", "given", "dropped", "queued", "sent", "error"}]
    /\ odd \subseteq Flags

Init ==
    /\ load \in Loads
    /\ stack = [f \in Frames |-> <<f, 0>>]
    /\ live = {<<f, 0>> : f \in Frames}
    /\ retry = [b \in Buffers |-> IF b[2] = 0 THEN load.cb ELSE 0]
    /\ xmit = Idle /\ txq = <<>> /\ tl = <<>> /\ bus = <<>> /\ kfree = <<>> /\ work = <<>>
    /\ ba = [bit |-> FALSE, fw |-> FALSE] /\ link = "up" /\ sgl = TRUE
    /\ credit = Grant /\ owed = 0
    /\ fate = [f \in Frames |-> "no"] /\ left = load.left /\ odd = {}

Spend(k)   == left[k] > 0 /\ left' = [left EXCEPT ![k] = @ - 1]
\* an allocation that may fail
Alloc(ok)  == IF ok THEN UNCHANGED left ELSE Spend("oom")
Fate(f, x) == fate' = [fate EXCEPT ![f] = x]
Note(c, x) == odd' = IF c THEN odd \cup {x} ELSE odd

-----------------------------------------------------------------------------
(* skw_ndo_xmit: filters and the peer, down to the rcu_read_unlock         *)

\* no peer context, a multicast frame before the station is COMPLETED, or a frame
\* that is too short
Refused(k) == k = "short" \/ link = "none" \/ (k = "mcast" /\ link # "up")

XmitDrop ==
    /\ xmit.pc = "idle" /\ stack # <<>>
    /\ LET b == Head(stack) IN
       /\ \/ Refused(Kind(b[1])) /\ ~(Kind(b[1]) = "arp" /\ load.rptr) /\ UNCHANGED left
          \/ ~Refused(Kind(b[1])) /\ Spend("oom")              \* skb_linearize fails
       /\ live' = live \ {b} /\ Fate(b[1], "dropped")
    /\ stack' = Tail(stack)
    /\ UNCHANGED <<load, retry, xmit, txq, work, ba, link, odd, txside>>

\* skw_setup_txba queues the request here and sets the bit in XmitBa
TxBa(k) == k # "mcast" /\ link = "up" /\ ~ba.bit

XmitLookup ==
    /\ xmit.pc = "idle" /\ stack # <<>>
    /\ LET b == Head(stack)  k == Kind(b[1]) IN
       /\ ~Refused(k) /\ ~(k = "arp" /\ load.rptr)
       /\ \E ok \in IF TxBa(k) THEN BOOLEAN ELSE {TRUE} :
            /\ Alloc(ok)
            /\ work' = IF TxBa(k) /\ ok THEN Append(work, "ba") ELSE work
            /\ xmit' = [pc |-> IF TxBa(k) /\ ok THEN "ba" ELSE "send", b |-> b]
    /\ stack' = Tail(stack)
    /\ UNCHANGED <<load, live, retry, txq, ba, link, fate, odd, txside>>

\* a bridged station in repeater mode: the ARP frame is freed and one made anew
XmitArp ==
    /\ xmit.pc = "idle" /\ stack # <<>>
    /\ LET b == Head(stack)  c == Copy(b) IN
       /\ Kind(b[1]) = "arp" /\ load.rptr
       /\ \/ /\ Spend("oom") /\ live' = live \ {b} /\ Fate(b[1], "dropped") /\ UNCHANGED <<retry, xmit>>
          \/ /\ link = "none" /\ live' = live \ {b} /\ Fate(b[1], "dropped") /\ UNCHANGED <<retry, xmit, left>>
          \/ /\ link # "none"
             /\ live' = (live \ {b}) \cup {c} /\ retry' = [retry EXCEPT ![c] = 0]
             /\ xmit' = [pc |-> "send", b |-> c] /\ UNCHANGED <<left, fate>>
    /\ stack' = Tail(stack)
    /\ UNCHANGED <<load, txq, work, ba, link, odd, txside>>

XmitBa ==
    /\ xmit.pc = "ba"
    /\ xmit' = [xmit EXCEPT !.pc = "send"] /\ ba' = [ba EXCEPT !.bit = TRUE]
    /\ Note("ba" \notin {work[i] : i \in DOMAIN work} /\ ~ba.fw, "lostba")
    /\ UNCHANGED <<load, stack, live, retry, txq, work, link, fate, left, txside>>

-----------------------------------------------------------------------------
(* skw_ndo_xmit: descriptor, command or queue                              *)

IsFilter(f) == Kind(f) = "eapol" \/ (Kind(f) = "arp" /\ load.arpf)
\* the buffer the frame is sent from: with dma_addr_align an aligned copy, unless
\* the ARP frame was made anew and its copy is in hand already
Aligned(b) == load.align /\ b[2] = 0
Sent(b)    == IF Aligned(b) THEN Copy(b) ELSE b
\* how often the buffer that is to be sent was refused; a new copy never was
Tries      == IF load.align THEN 0 ELSE retry[xmit.b]

\* netdev_alloc_skb or pskb_expand_head fails
XmitOom ==
    /\ xmit.pc = "send" /\ Spend("oom")
    /\ live' = live \ {xmit.b} /\ Fate(xmit.b[1], "dropped") /\ xmit' = Idle
    /\ UNCHANGED <<load, stack, retry, txq, work, ba, link, odd, txside>>

XmitQueue ==
    /\ xmit.pc = "send" /\ ~IsFilter(xmit.b[1])
    /\ txq' = Append(txq, Sent(xmit.b))
    /\ live' = (live \ {xmit.b}) \cup {Sent(xmit.b)}
    /\ Fate(xmit.b[1], "queued") /\ xmit' = Idle
    /\ UNCHANGED <<load, stack, retry, work, ba, link, left, odd, txside>>

\* skw_msg_try_send took the frame: both buffers are freed
XmitCommand ==
    /\ xmit.pc = "send" /\ IsFilter(xmit.b[1]) /\ ~load.busy
    /\ live' = live \ {xmit.b, Sent(xmit.b)} /\ Fate(xmit.b[1], "given") /\ xmit' = Idle
    /\ UNCHANGED <<load, stack, retry, txq, work, ba, link, left, odd, txside>>

\* it was refused more than the allowed number of times: a work sends a copy
XmitDefer ==
    /\ xmit.pc = "send" /\ IsFilter(xmit.b[1]) /\ load.busy /\ Tries > 3
    /\ \E ok \in BOOLEAN :
         /\ Alloc(ok)
         /\ work' = IF ok THEN Append(work, <<"tx", xmit.b[1]>>) ELSE work
         /\ Fate(xmit.b[1], IF ok THEN "queued" ELSE "dropped")
    /\ live' = live \ {xmit.b, Sent(xmit.b)} /\ xmit' = Idle
    /\ UNCHANGED <<load, stack, retry, txq, ba, link, odd, txside>>

\* mutant: the aligned copy is not freed when the frame is handed back
XmitBusyKeep ==
    /\ xmit.pc = "send" /\ IsFilter(xmit.b[1]) /\ load.busy /\ Tries <= 3
    /\ live' = live \cup {Sent(xmit.b)}
    /\ retry' = [retry EXCEPT ![xmit.b] = IF load.align THEN @ ELSE @ + 1]
    /\ stack' = <<<<xmit.b[1], 0>>>> \o stack /\ xmit' = Idle
    /\ UNCHANGED <<load, txq, work, ba, link, fate, left, odd, txside>>

\* mutant: the tries are not counted
XmitBusyUncounted ==
    /\ xmit.pc = "send" /\ IsFilter(xmit.b[1]) /\ load.busy /\ Tries <= 3
    /\ stack' = <<<<xmit.b[1], 0>>>> \o stack /\ xmit' = Idle
    /\ Note(xmit.b[2] = 1, "arpback")
    /\ UNCHANGED <<load, live, retry, txq, work, ba, link, fate, left, txside>>

\* NETDEV_TX_BUSY: the stack keeps its buffer and tries again.  The count of tries
\* is in the buffer that was to be sent, and is lost with an aligned copy
XmitBusy ==
    /\ xmit.pc = "send" /\ IsFilter(xmit.b[1]) /\ load.busy /\ Tries <= 3
    /\ retry' = [retry EXCEPT ![xmit.b] = IF load.align THEN @ ELSE @ + 1]
    /\ stack' = <<<<xmit.b[1], 0>>>> \o stack /\ xmit' = Idle
    /\ Note(xmit.b[2] = 1, "arpback")
    /\ UNCHANGED <<load, live, txq, work, ba, link, fate, left, txside>>

-----------------------------------------------------------------------------
(* The worker and the bus functions                                        *)

Range(s) == {s[i] : i \in DOMAIN s}
Outcome(bs, x) == fate' = [f \in Frames |-> IF \E b \in Range(bs) : b[1] = f THEN x ELSE fate[f]]

TxTake ==
    /\ txq # <<>> /\ tl = <<>> /\ credit > 0 /\ sgl
    /\ \E n \in 1 .. Len(txq) :
         /\ n <= credit
         /\ tl' = SubSeq(txq, 1, n) /\ txq' = SubSeq(txq, n + 1, Len(txq))
    /\ UNCHANGED <<load, stack, live, retry, xmit, bus, kfree, work, ba, link, sgl, credit, owed,
                   fate, left, odd>>

\* skw_sdio_xmit on a ring, and skw_sync_sdma_tx: freed at once, copied or sent
SendSync ==
    /\ tl # <<>> /\ load.mode \in {"ring", "sync_sdma"}
    /\ live' = live \ Range(tl) /\ tl' = <<>>
    /\ \/ /\ Outcome(tl, "sent") /\ UNCHANGED left
          /\ IF load.mode = "ring" THEN UNCHANGED <<credit, owed>>
             ELSE credit' = credit - Len(tl) /\ owed' = owed + Len(tl)
       \/ /\ load.mode # "ring" /\ Spend("err")
          /\ Outcome(tl, "error") /\ UNCHANGED <<credit, owed>>
    /\ UNCHANGED <<load, stack, retry, xmit, txq, bus, kfree, work, ba, link, sgl, odd>>

\* skw_async_sdma_tx: a copy travels, the buffers are freed at once
SendAsyncSdma ==
    /\ tl # <<>> /\ load.mode = "async_sdma"
    /\ \/ /\ bus' = Append(bus, [n |-> Len(tl), bufs |-> {}])
          /\ credit' = credit - Len(tl) /\ Outcome(tl, "sent")
          /\ live' = live \ Range(tl) /\ tl' = <<>> /\ UNCHANGED <<left, odd>>
       \/ /\ Spend("err") /\ Outcome(tl, "error") /\ live' = live \ Range(tl) /\ tl' = <<>>
          /\ UNCHANGED <<bus, credit, odd>>
       \/ \* no memory for the copy: the frames stay on the worker's list, which dies with it
          /\ Spend("oom") /\ Note(TRUE, "enomem") /\ tl' = <<>>
          /\ UNCHANGED <<bus, credit, live, fate>>
    /\ UNCHANGED <<load, stack, retry, xmit, txq, kfree, work, ba, link, sgl, owed>>

\* skw_sync_adma_tx: sent or not, the buffers go to skw_kfree_skb_worker
SendSyncAdma ==
    /\ tl # <<>> /\ load.mode = "sync_adma"
    /\ \/ /\ credit' = credit - Len(tl) /\ owed' = owed + Len(tl) /\ Outcome(tl, "sent") /\ UNCHANGED left
       \/ /\ Spend("err") /\ Outcome(tl, "error") /\ UNCHANGED <<credit, owed>>
    /\ kfree' = kfree \o tl /\ tl' = <<>>
    /\ UNCHANGED <<load, stack, live, retry, xmit, txq, bus, work, ba, link, sgl, odd>>

\* skw_async_adma_tx: the engine gets the buffers; a new table is allocated
SendAsyncAdma ==
    /\ tl # <<>> /\ load.mode = "async_adma"
    /\ \E ok \in BOOLEAN, mem \in BOOLEAN :
         /\ IF ok THEN bus' = Append(bus, [n |-> Len(tl), bufs |-> Range(tl)])
                       /\ credit' = credit - Len(tl) /\ Outcome(tl, "sent") /\ UNCHANGED live
                  ELSE /\ UNCHANGED <<bus, credit>> /\ Outcome(tl, "error") /\ live' = live \ Range(tl)
         /\ sgl' = mem /\ Note(~mem, "nosgl")
         /\ (ok \/ left.err > 0) /\ (mem \/ left.oom > 0)
         /\ left' = [left EXCEPT !.err = IF ok THEN @ ELSE @ - 1, !.oom = IF mem THEN @ ELSE @ - 1]
    /\ tl' = <<>>
    /\ UNCHANGED <<load, stack, retry, xmit, txq, kfree, work, ba, link, owed>>

\* skw_async_sdma_tx_free returns the credit of a failed transfer.
\* skw_async_adma_tx_free queues SKW_WORK_TX_FREE for no interface, which
\* skw_work_process refuses before it looks at the work: nothing is freed
Complete ==
    /\ bus # <<>>
    /\ LET t == Head(bus)  adma == t.bufs # {} IN
       /\ \/ owed' = owed + t.n /\ odd' = odd \cup (IF adma THEN {"unfreed"} ELSE {})
             /\ UNCHANGED <<credit, left>>
          \/ /\ Spend("err") /\ UNCHANGED owed
             /\ credit' = IF adma THEN credit ELSE credit + t.n
             /\ odd' = odd \cup (IF adma THEN {"unfreed", "status"} ELSE {})
    /\ bus' = Tail(bus)
    /\ UNCHANGED <<load, stack, live, retry, xmit, txq, tl, kfree, work, ba, link, sgl, fate>>

KfreeWorker ==
    /\ kfree # <<>> /\ live' = live \ Range(kfree) /\ kfree' = <<>>
    /\ UNCHANGED <<load, stack, retry, xmit, txq, tl, bus, work, ba, link, sgl, credit, owed, fate,
                   left, odd>>

-----------------------------------------------------------------------------
(* skw_work_process, the firmware's credit and the link                    *)

Work ==
    /\ work # <<>> /\ work' = Tail(work)
    /\ \/ /\ Head(work) = "ba" /\ Spend("refuse") /\ ba' = [ba EXCEPT !.bit = FALSE] /\ UNCHANGED fate
       \/ /\ Head(work) = "ba" /\ ba' = [ba EXCEPT !.fw = link # "none"] /\ UNCHANGED <<fate, left>>
       \/ /\ Head(work) # "ba" /\ Spend("refuse") /\ Fate(Head(work)[2], "error") /\ UNCHANGED ba
       \/ /\ Head(work) # "ba" /\ Fate(Head(work)[2], "given") /\ UNCHANGED <<ba, left>>
    /\ UNCHANGED <<load, stack, live, retry, xmit, txq, link, odd, txside>>

Return ==
    /\ owed > 0 /\ owed' = owed - 1 /\ credit' = credit + 1
    /\ UNCHANGED <<load, stack, live, retry, xmit, txq, tl, bus, kfree, work, ba, link, sgl, fate,
                   left, odd>>

\* the peer is removed, or bound anew with a clear txba, or completes
Link(l) ==
    /\ l # link /\ Spend("link") /\ link' = l /\ xmit.pc # "ba"
    /\ ba' = IF "none" \in {l, link} THEN [bit |-> FALSE, fw |-> FALSE] ELSE ba
    /\ UNCHANGED <<load, stack, live, retry, xmit, txq, work, fate, odd, txside>>

-----------------------------------------------------------------------------
Xmit == XmitDrop \/ XmitLookup \/ XmitArp \/ XmitBa \/ XmitOom \/ XmitQueue \/ XmitCommand
        \/ XmitDefer \/ XmitBusy
Send == TxTake \/ SendSync \/ SendAsyncSdma \/ SendSyncAdma \/ SendAsyncAdma

Done == stack = <<>> /\ xmit.pc = "idle" /\ txq = <<>> /\ tl = <<>> /\ bus = <<>> /\ kfree = <<>>
        /\ work = <<>> /\ owed = 0
\* nothing left to do, or the credit that a failed ADMA transfer took never comes back
Rest == (Done \/ ~sgl \/ "status" \in odd) /\ UNCHANGED vars

Next == Xmit \/ Send \/ Complete \/ KfreeWorker \/ Work \/ Return \/ Rest
        \/ \E l \in {"none", "half", "up"} : Link(l)

Fairness == WF_vars(Xmit) /\ WF_vars(Send) /\ WF_vars(Complete) /\ WF_vars(KfreeWorker)
            /\ WF_vars(Work) /\ WF_vars(Return)
Spec == Init /\ [][Next]_vars /\ Fairness

-----------------------------------------------------------------------------
(* Properties *)

InHand == IF xmit.pc = "idle" THEN {} ELSE {xmit.b}
\* the places that refer to buffer b
Holders(b) ==
    Cardinality({i \in DOMAIN stack : stack[i] = b}) + Cardinality({i \in DOMAIN txq : txq[i] = b})
    + Cardinality({i \in DOMAIN tl : tl[i] = b}) + Cardinality({i \in DOMAIN kfree : kfree[i] = b})
    + Cardinality({i \in DOMAIN bus : b \in bus[i].bufs}) + Cardinality(InHand \cap {b})

\* Every buffer that is not freed is referred to from exactly one place, and none that is
\* freed is referred to at all: skw_ndo_xmit, the bus functions and their callbacks free
\* every buffer once and use none after it.  The excepted cases: "arpback", a repeater
\* whose ARP command is refused hands the stack a buffer it has freed; "enomem", frames
\* on the worker's own list when the copy for an asynchronous transfer cannot be
\* allocated; "unfreed", the buffers of an asynchronous ADMA transfer.
Owned ==
    \/ odd \cap {"arpback", "enomem", "unfreed"} # {}
    \/ \A b \in Buffers : Holders(b) = IF b \in live THEN 1 ELSE 0

InFlight[i \in 0 .. Len(bus)] == IF i = 0 THEN 0 ELSE bus[i].n + InFlight[i - 1]
\* What is taken from the credit is exactly what the firmware has or will have to
\* return; a failed transfer returns its own share ("status": an ADMA transfer does not).
CreditKept == credit + owed + InFlight[Len(bus)] = Grant \/ "status" \in odd

\* A peer whose txba bit says a block-ack agreement was asked for has it, or the request
\* is queued ("lostba": the request failed before the bit was set; it is never asked again).
BaAsked == ba.bit => ba.fw \/ "ba" \in Range(work) \/ "lostba" \in odd \/ link # "up"

BuffersOwned == TypeOK /\ Owned /\ CreditKept /\ BaAsked

\* Every frame the stack hands over is sent, given to the firmware as a command, or
\* dropped, and its buffers are freed, however long the command channel refuses it: a
\* work takes over after a few tries.  Not so with aligned buffers, where the count of
\* tries starts anew with every copy, nor in the cases of Owned, nor when the table for
\* the next transfer could not be allocated ("nosgl").
AllEnded ==
    \/ Done /\ live = {}
    \/ odd \cap {"arpback", "enomem", "unfreed", "nosgl"} # {}
    \/ load.align /\ load.busy
FramesEnd == []<>AllEnded
=============================================================================
