------------------------------ MODULE SkwEdma ------------------------------
(***************************************************************************)
(* The PCIe descriptor rings (skw_edma.c), for one LMAC: the event ring    *)
(* served by skw_edma_rx_node_isr; the ring of received buffers with the   *)
(* ring that hands empty ones out, served by the receive poll; frames sent *)
(* and returned, served by the transmit poll.  A ring of N nodes is given  *)
(* to the device as a whole and again when all N were processed.           *)
(***************************************************************************)
EXTENDS Integers, FiniteSets, SequencesExt

CONSTANTS
    Loads,  \* budgets a behaviour starts from
    N,      \* nodes of a ring (2, 8, 16, 32 in the code)
    Cnt,    \* buffer addresses per node handed out (RX_FREE_BUF_ADDR_CNT, 32)
    Budget  \* the weight of a poll (64)

VARIABLES
    load,   \* budget left: events, oom, pkts, bad, stop, frames, nosend, check
    ev,     \* event ring: dev, given, data, irq; cur, cnt (rx_node_count), left, seen, sent
    rx,     \* avail, num (avail_skb_num), pend, posted, ring, given, next, cnt, pc, quota, q, refill
    tx,     \* list (edma_free_list), dev, ring, hold (the poll's own list), pc, freed
    odd     \* what went wrong

vars == <<load, ev, rx, tx, odd>>

Total == Cnt * N    \* RX_FREE_BUF_ADDR_CNT * SKW_EDMA_RX_FREE_CHN_NODE_NUM

\* skw_edma_init_data_chan has submitted the rings and handed out the first buffers
Init ==
    /\ load \in Loads
    /\ ev = [dev |-> 0, given |-> N, data |-> [n \in 0 .. N - 1 |-> 0], irq |-> 0, cur |-> 0, cnt |-> 0,
             left |-> 0, count |-> 0, seen |-> <<>>, sent |-> 0]
    /\ rx = [avail |-> 1 .. Total, num |-> Total, pend |-> <<>>, posted |-> [i \in 1 .. Total |-> i],
             ring |-> <<>>, given |-> N, next |-> Total + 1, cnt |-> 0, tail |-> 0, pc |-> "idle",
             quota |-> 0, count |-> 0, q |-> <<>>, lost |-> {}, refill |-> TRUE]
    /\ tx = [list |-> {}, dev |-> {}, ring |-> <<>>, hold |-> {}, pc |-> "idle", freed |-> {}, next |-> 1]
    /\ odd = {}

Spend(what) == load[what] > 0 /\ load' = [load EXCEPT ![what] = @ - 1]

-----------------------------------------------------------------------------
(* Events                                                                  *)

\* the device fills its next node; one that was not processed yet is overwritten
DevEvent ==
    /\ ev.given > 0 /\ Spend("events")
    /\ ev' = [ev EXCEPT !.dev = (@ + 1) % N, !.given = @ - 1, !.irq = @ + 1, !.sent = @ + 1,
                        !.data[ev.dev] = ev.sent + 1]
    /\ UNCHANGED <<rx, tx, odd>>

\* skw_edma_rx_node_isr for all nodes of the interrupt, under edma_chan_lock
IsrStart ==
    /\ ev.left = 0 /\ ev.irq > 0 /\ "held" \notin odd
    /\ ev' = [ev EXCEPT !.cnt = @ + ev.irq, !.left = ev.irq, !.count = ev.irq, !.irq = 0]
    /\ UNCHANGED <<load, rx, tx, odd>>

\* mutant: the ring is given back one node too early
GivenBackSoon == ev.cnt >= N - 1

\* the whole ring is given back once rx_node_count says that it is used up; for an
\* interrupt of several nodes that is before the last of them is processed
GivenBack == ev.cnt = N

IsrNode ==
    /\ ev.left > 0
    /\ LET seen == [ev EXCEPT !.seen = Append(@, ev.data[ev.cur]), !.data[ev.cur] = 0] IN
       \/ /\ "held" \notin odd
          /\ ev' = [seen EXCEPT !.cur = (@ + 1) % N, !.left = @ - 1,
                                !.cnt = IF GivenBack THEN 0 ELSE @,
                                !.given = IF GivenBack THEN @ + N ELSE @]
          /\ odd' = IF GivenBack /\ ev.left > 1 THEN odd \cup {"early"} ELSE odd
          /\ UNCHANGED load
       \/ \* no buffer for the node: the function returns with the lock held
          /\ "held" \notin odd /\ Spend("oom") /\ ev' = seen /\ odd' = odd \cup {"held"}
    /\ UNCHANGED <<rx, tx>>

Events == IsrStart \/ IsrNode

-----------------------------------------------------------------------------
(* Received buffers                                                        *)

\* skw_edma_alloc_skb of k buffers, of which the first ok are allocated: each is
\* written into the current node, and the nodes this call has filled are submitted.
\* Failing leaves what was written to a later call.
Handed(r, k, ok, sub) ==
    LET new == [i \in 1 .. ok |-> r.next + i - 1]
        w == r.pend \o new
        c == ((Len(r.pend) % Cnt) + k) \div Cnt
        q == [r EXCEPT !.avail = @ \cup ToSet(new), !.next = @ + ok] IN
    IF ok < k \/ ~sub THEN [q EXCEPT !.pend = w]
    ELSE [q EXCEPT !.pend = SubSeq(w, c * Cnt + 1, Len(w)), !.posted = @ \o SubSeq(w, 1, c * Cnt), !.num = @ + k]

\* skw_edma_refill_skb
Wanted(r) == IF r.refill /\ Total - r.num >= Cnt THEN ((Total - r.num) \div Cnt) * Cnt ELSE 0

\* the device writes packets into buffers it was given and lists them in a node
DevRx ==
    /\ rx.given > 0 /\ \E n \in 1 .. Cnt :
        /\ n <= Len(rx.posted) /\ n <= load.pkts
        /\ load' = [load EXCEPT !.pkts = @ - n]
        /\ rx' = [rx EXCEPT !.given = @ - 1, !.ring = Append(@, SubSeq(rx.posted, 1, n)),
                            !.posted = SubSeq(@, n + 1, Len(@))]
    /\ UNCHANGED <<ev, tx, odd>>

\* mutant: the poll is scheduled for a full ring only
PollStartFull ==
    /\ rx.pc = "idle" /\ Len(rx.ring) = N
    /\ rx' = [rx EXCEPT !.pc = "poll", !.quota = Budget, !.count = 0]
    /\ UNCHANGED <<load, ev, tx, odd>>

\* napi_schedule from skw_edma_txrx_isr, or again behind the unmasked interrupt
PollStart ==
    /\ rx.pc = "idle" /\ rx.ring # <<>>
    /\ rx' = [rx EXCEPT !.pc = "poll", !.quota = Budget, !.count = 0]
    /\ UNCHANGED <<load, ev, tx, odd>>

\* skw_pci_edma_rx_data: a buffer that is not known stops the firmware, an empty one is
\* freed, one with an impossible length is forgotten
Taken(r, us, bad) ==
    [r EXCEPT !.avail = @ \ ToSet(us), !.num = @ - Len(us),
              !.q = @ \o SelectSeq(us, LAMBDA u : u \notin bad), !.lost = @ \cup bad]

\* one node of skw_edma_napi_txrx_compl_task; count adds up over the nodes and is taken
\* from the quota each time, and the last node of the ring ends the loop
PollNode ==
    /\ rx.pc = "poll" /\ rx.ring # <<>> /\ rx.quota > 0
    /\ \E bad \in {{}} \cup {{u} : u \in ToSet(rx.ring[1])}, short \in BOOLEAN, sub \in BOOLEAN :
        LET r == Taken(rx, rx.ring[1], bad)
            k == Wanted(r)
            count == rx.count + Len(rx.ring[1])
            h == Handed(r, k, IF short /\ k > 0 THEN k - 1 ELSE k, sub) IN
        /\ (k = 0 => ~short /\ sub)
        /\ LET cost == [bad |-> IF bad = {} THEN 0 ELSE 1, oom |-> IF short THEN 1 ELSE 0, nosub |-> IF sub THEN 0 ELSE 1] IN
           /\ \A x \in DOMAIN cost : load[x] >= cost[x]
           /\ load' = [x \in DOMAIN load |-> IF x \in DOMAIN cost THEN load[x] - cost[x] ELSE load[x]]
        /\ rx' = [h EXCEPT !.ring = Tail(@), !.count = count, !.quota = IF @ >= count THEN @ - count ELSE 0,
                           !.tail = (@ + 1) % N, !.pc = IF (rx.tail + 1) % N = 0 THEN "end" ELSE "poll",
                           !.cnt = IF @ + 1 = N THEN 0 ELSE @ + 1,
                           !.given = IF rx.cnt + 1 = N THEN @ + N ELSE @]
        /\ odd' = odd \cup (IF bad # {} THEN {"leaked"} ELSE {}) \cup (IF short \/ ~sub THEN {"behind"} ELSE {})
    /\ UNCHANGED <<ev, tx>>

\* skw_rx_process, and napi_complete unless the quota is used up
PollEnd ==
    /\ rx.pc = "end" \/ (rx.pc = "poll" /\ (rx.ring = <<>> \/ rx.quota = 0))
    /\ rx' = [rx EXCEPT !.pc = IF rx.quota = 0 THEN "poll" ELSE "idle", !.quota = Budget, !.count = 0, !.q = <<>>]
    /\ UNCHANGED <<load, ev, tx, odd>>

\* skw_edma_dec_refill: the last interface of the LMAC is closed
RefillOff ==
    /\ rx.refill /\ Spend("stop") /\ rx' = [rx EXCEPT !.refill = FALSE]
    /\ UNCHANGED <<ev, tx, odd>>

RxPoll == PollStart \/ PollNode \/ PollEnd

-----------------------------------------------------------------------------
(* Frames sent                                                             *)

\* skw_pcie_xmit: the frames are on edma_free_list before the device is told; when
\* that fails they stay there
PcieXmit ==
    /\ Spend("frames")
    /\ \/ /\ tx' = [tx EXCEPT !.list = @ \cup {tx.next}, !.dev = @ \cup {tx.next}, !.next = @ + 1]
          /\ UNCHANGED odd
       \/ /\ load.nosend > 0 /\ odd' = odd \cup {"unsent"}
          /\ tx' = [tx EXCEPT !.list = @ \cup {tx.next}, !.next = @ + 1]
    /\ UNCHANGED <<ev, rx>>

DevTxDone ==
    /\ Len(tx.ring) < N /\ \E s \in (SUBSET tx.dev) \ {{}} :
        tx' = [tx EXCEPT !.dev = @ \ s, !.ring = Append(@, s)]
    /\ UNCHANGED <<load, ev, rx, odd>>

\* skw_pci_edma_tx_free: the whole list is taken, the returned frames are unlinked
\* from it and freed, and the rest is put back
TxFree ==
    /\ \/ /\ tx.pc = "idle" /\ tx.ring # <<>>
          /\ tx' = [tx EXCEPT !.pc = "free", !.hold = tx.list, !.list = {}] /\ UNCHANGED odd
       \/ /\ tx.pc = "free"
          /\ tx' = [tx EXCEPT !.pc = "back", !.hold = @ \ tx.ring[1], !.freed = @ \cup tx.ring[1], !.ring = Tail(@)]
          /\ odd' = IF tx.ring[1] \subseteq tx.hold THEN odd ELSE odd \cup {"unlinked"}
       \/ /\ tx.pc = "back"
          /\ tx' = [tx EXCEPT !.pc = "idle", !.list = @ \cup tx.hold, !.hold = {}] /\ UNCHANGED odd
    /\ UNCHANGED <<load, ev, rx>>

\* skw_edma_is_txc_completed, asked before the LMAC goes to sleep, looks at the list only
TxcCheck ==
    /\ Spend("check") /\ tx.list = {}
    /\ odd' = odd \cup (IF tx.dev = {} THEN {} ELSE IF tx.hold = {} THEN {"lied"} ELSE {"spliced"})
    /\ UNCHANGED <<ev, rx, tx>>

Next ==
    \/ DevEvent \/ Events \/ DevRx \/ RxPoll \/ RefillOff \/ PcieXmit \/ DevTxDone \/ TxFree \/ TxcCheck

Fairness ==
    /\ WF_vars(Events) /\ WF_vars(RxPoll) /\ WF_vars(TxFree) /\ WF_vars(DevTxDone)

Spec == Init /\ [][Next]_vars /\ Fairness

-----------------------------------------------------------------------------
(* Properties *)

TypeOK ==
    /\ ev.cur \in 0 .. N - 1 /\ ev.given \in 0 .. N /\ ev.cnt \in 0 .. N
    /\ rx.pc \in {"idle", "poll", "end"} /\ rx.given \in 0 .. N /\ rx.num \in 0 .. Total
    /\ tx.pc \in {"idle", "free", "back"}

\* Events reach the driver once and in the order in which the device wrote them, unless
\* the ring was given back with nodes of it unprocessed (early).
EventsInOrder == ev.seen = [i \in 1 .. Len(ev.seen) |-> i] \/ "early" \in odd

\* No buffer is twice with the device, in what was posted or in done nodes;
\* avail_skb_num is their number, and avail_skb holds them and what could not be
\* submitted yet (behind).
BuffersCounted ==
    LET nodes == <<rx.posted>> \o rx.ring
        out == UNION {ToSet(nodes[n]) : n \in DOMAIN nodes} IN
    /\ \A m, n \in DOMAIN nodes : \A i \in DOMAIN nodes[m], j \in DOMAIN nodes[n] :
            nodes[m][i] = nodes[n][j] => m = n /\ i = j
    /\ rx.num = Cardinality(out)
    /\ rx.avail = out \cup ToSet(rx.pend)
    /\ (rx.pend # <<>> => "behind" \in odd)

\* No buffer is lost but one with an impossible length.
BuffersKept == rx.lost = {} \/ "leaked" \in odd

\* Frames of the device are on edma_free_list or with the poll, are unlinked from the
\* list they are on, and are freed once.
FramesListed ==
    /\ (tx.dev \cup UNION ToSet(tx.ring)) \subseteq (tx.list \cup tx.hold)
    /\ tx.freed \cap (tx.list \cup tx.hold) = {} /\ "unlinked" \notin odd

\* skw_edma_is_txc_completed says so only when the device has no frame of the LMAC,
\* unless the transmit poll has the list (spliced).
TxcHonest == "lied" \notin odd

\* The rings lose and repeat nothing, and the counters are right.
EdmaSound == TypeOK /\ EventsInOrder /\ BuffersCounted /\ BuffersKept /\ FramesListed /\ TxcHonest

\* Events are handled, unless an allocation failed under the lock (held) or an event was
\* overwritten (early); received packets are processed; frames the device took are freed.
Drained ==
    /\ Len(ev.seen) >= ev.sent \/ {"held", "early"} \cap odd # {}
    /\ rx.ring = <<>> /\ rx.q = <<>>
    /\ tx.list = {} \/ "unsent" \in odd
EdmaMoves == []<>Drained
=============================================================================
