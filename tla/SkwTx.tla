------------------------------- MODULE SkwTx --------------------------------
(***************************************************************************)
(* The data transmit path on SDIO (skw_core.c, skw_tx.c): ndo_start_xmit   *)
(* queues frames per access category, skw_tx_worker moves them into a ring *)
(* of DMA buffers, skw_dy_worker writes the ring to the bus in bursts, as  *)
(* far as the firmware's credit goes, and skw_add_credit wakes both.       *)
(*                                                                         *)
(* One LMAC and one interface.  A frame is a pair <<ac, k>>: the k-th      *)
(* frame the stack gave to category ac.  The airtime quota of a category   *)
(* is abstracted to "at least one frame per turn".                         *)
(***************************************************************************)
EXTENDS Integers, SequencesExt

CONSTANTS
    NAcs,        \* access categories, 1 is served first
    MaxFrames,   \* bound: frames per category
    RingSize,    \* SKW_TX_VRING_SIZE, a power of two
    IdxMod,      \* the ring's 16-bit indices wrap here, a multiple of RingSize
    PktLimit,    \* hw.pkt_limit: buffers one SDIO transfer may carry
    FwBufs,      \* buffers of the firmware: the credit it grants in all
    High, Low,   \* SKW_TXQ_HIGH_THRESHOLD, SKW_TXQ_LOW_THRESHOLD
    MaxTrips,    \* bound: thermal warnings
    MaxGone,     \* bound: disconnections while frames are queued
    MaxErrors,   \* bound: transfers the bus refuses
    MaxResets    \* bound: credit resets (firmware recovery, last interface closed)

ASSUME RingAssumption ==
    /\ RingSize \in Nat /\ RingSize > 1
    /\ IdxMod \in Nat \ {0} /\ IdxMod % RingSize = 0
ASSUME LimitAssumption ==
    /\ {NAcs, MaxFrames, FwBufs, High, Low, MaxTrips, MaxGone, MaxErrors, MaxResets} \subseteq Nat
    /\ NAcs > 0 /\ PktLimit \in Nat /\ PktLimit > 1

VARIABLES
    txq, cache,  \* iface->txq and iface->tx_cache, per category
    stopped,     \* netdev queues that are stopped
    xmit,        \* ndo_start_xmit: where it is, and for which category
    sched,       \* work items queued: tx_worker, dy_work
    tx,          \* skw_tx_worker: pc, category, credit left, tx_list, pending_qlen
    ring,        \* avail->idx, used->idx and the buffers
    dy,          \* skw_dy_worker: pc, credit read, limit, used_idx reached, result
    credit,      \* lmac.fw_credit
    thermal,     \* SKW_FLAG_FW_THERMAL
    gone,        \* "peer": the peer is deauthenticated, "iface": the interface is
    owed,        \* credit the firmware has still to return
    acc,         \* frames accepted so far, per category
    sent, lost,  \* ghost: frames the bus took; frames dropped on purpose or by the bus
    raced,       \* ghost: credit was reset while a burst was being written
    spent        \* budget counters

vars == <<txq, cache, stopped, xmit, sched, tx, ring, dy, credit, thermal, gone, owed,
          acc, sent, lost, raced, spent>>

Acs    == 1 .. NAcs
Frames == Acs \X (1 .. MaxFrames)
NoFrame == <<0, 0>>

TypeOK ==
    /\ txq \in [Acs -> Seq(Frames)] /\ cache \in [Acs -> Seq(Frames)]
    /\ stopped \subseteq Acs
    /\ xmit \in [pc : {"idle", "measure", "stop"}, ac : Acs]
    /\ sched \subseteq {"tx", "dy"}
    /\ tx \in [pc : {"idle", "check", "ac", "put", "exit"}, ac : 1 .. NAcs + 1, cred : Int,
               list : Seq(Frames), pend : Nat]
    /\ ring \in [avail : 0 .. IdxMod - 1, used : 0 .. IdxMod - 1,
                 buf : [0 .. RingSize - 1 -> Frames \cup {NoFrame}]]
    /\ dy \in [pc : {"idle", "credit", "write", "dma", "used", "sub"}, credit : Int,
               limit : Int, end : 0 .. IdxMod - 1, ok : BOOLEAN]
    /\ credit \in Int /\ thermal \in BOOLEAN /\ gone \in {"no", "peer", "iface"}
    /\ owed \in Nat
    /\ acc \in [Acs -> 0 .. MaxFrames]
    /\ sent \subseteq Frames /\ lost \subseteq Frames /\ raced \in BOOLEAN
    /\ spent \in [trips : 0 .. MaxTrips, gone : 0 .. MaxGone, errors : 0 .. MaxErrors,
                  resets : 0 .. MaxResets]

TxIdle == [pc |-> "idle", ac |-> 1, cred |-> 0, list |-> <<>>, pend |-> 0]
DyIdle == [pc |-> "idle", credit |-> 0, limit |-> 0, end |-> 0, ok |-> TRUE]

Init ==
    /\ txq = [a \in Acs |-> <<>>] /\ cache = [a \in Acs |-> <<>>] /\ stopped = {}
    /\ xmit = [pc |-> "idle", ac |-> 1] /\ sched = {"tx"} /\ tx = TxIdle
    /\ ring = [avail |-> 0, used |-> 0, buf |-> [i \in 0 .. RingSize - 1 |-> NoFrame]]
    /\ dy = DyIdle /\ credit = 0 /\ thermal = FALSE /\ gone = "no" /\ owed = FwBufs
    /\ acc = [a \in Acs |-> 0] /\ sent = {} /\ lost = {} /\ raced = FALSE
    /\ spent = [trips |-> 0, gone |-> 0, errors |-> 0, resets |-> 0]

-----------------------------------------------------------------------------
(* The ring: skw_vring_pending_count, available_count, tx_vring_is_full    *)

Pending   == (ring.avail - ring.used) % RingSize
Available == RingSize - Pending
Full      == Pending >= RingSize - 1

-----------------------------------------------------------------------------
(* skw_ndo_xmit, past its filters: queue, wake the worker, stop the queue  *)

XmitQueue(a) ==
    /\ xmit.pc = "idle" /\ a \notin stopped /\ acc[a] < MaxFrames
    /\ txq' = [txq EXCEPT ![a] = Append(@, <<a, acc[a] + 1>>)]
    /\ acc' = [acc EXCEPT ![a] = @ + 1]
    /\ sched' = IF credit = 0 THEN sched ELSE sched \cup {"tx"}
    /\ xmit' = [pc |-> "measure", ac |-> a]
    /\ UNCHANGED <<cache, stopped, tx, ring, dy, credit, thermal, gone, owed, sent, lost, raced, spent>>

XmitMeasure ==
    /\ xmit.pc = "measure"
    /\ xmit' = [xmit EXCEPT !.pc = IF Len(txq[xmit.ac]) + Len(cache[xmit.ac]) >= High
                                   THEN "stop" ELSE "idle"]
    /\ UNCHANGED <<txq, cache, stopped, sched, tx, ring, dy, credit, thermal, gone, owed,
                   acc, sent, lost, raced, spent>>

XmitStop ==
    /\ xmit.pc = "stop"
    /\ stopped' = stopped \cup {xmit.ac}
    /\ xmit' = [xmit EXCEPT !.pc = "idle"]
    /\ UNCHANGED <<txq, cache, sched, tx, ring, dy, credit, thermal, gone, owed,
                   acc, sent, lost, raced, spent>>

-----------------------------------------------------------------------------
(* skw_tx_worker                                                           *)

TxStart ==
    /\ "tx" \in sched /\ tx.pc = "idle"
    /\ sched' = sched \ {"tx"}
    /\ tx' = [TxIdle EXCEPT !.pc = "check"]
    /\ UNCHANGED <<txq, cache, stopped, xmit, ring, dy, credit, thermal, gone, owed,
                   acc, sent, lost, raced, spent>>

\* skw_tx_running_check: without credit the worker spins for tx_wait_time turns,
\* each of which starts from a cleared state, and then leaves
TxCheck ==
    /\ tx.pc = "check"
    /\ \/ thermal /\ tx' = TxIdle
       \/ ~thermal /\ credit = 0 /\ tx' \in {TxIdle, [TxIdle EXCEPT !.pc = "check"]}
       \/ ~thermal /\ credit # 0 /\ tx' = [tx EXCEPT !.pc = "ac", !.ac = 1]
    /\ UNCHANGED <<txq, cache, stopped, xmit, sched, ring, dy, credit, thermal, gone, owed,
                   acc, sent, lost, raced, spent>>

\* what skw_txq_prepare leaves in tx_cache[a]
Prepared(a) == IF gone = "iface" THEN <<>> ELSE cache[a] \o txq[a]

\* mutant: the slot the ring keeps free is not reserved by skw_vring_check
TakenNoReserve(a) == 0 .. Min({Len(Prepared(a)), Available, PktLimit - 1})

\* how many frames of category a may join tx_list: bounded by the ring's space
\* (skw_vring_check), the transfer limit less one, the credit and the quota, which
\* a negative credit may leave at 0; none when the peer is gone
Taken(a) ==
    LET most == Min({Len(Prepared(a)), Available - 1, PktLimit - 1}
                    \cup (IF credit > 0 THEN {credit} ELSE {}))
    IN  IF gone = "peer" THEN {0}
        ELSE IF credit > 0 THEN Min({1, most}) .. most ELSE 0 .. most

\* the selection loop drops frames for a peer that is gone, while it runs at all
Dropped(a) == IF gone = "peer" /\ Available > 1 THEN Prepared(a) ELSE <<>>

\* mutant: the whole credit is subtracted, not the part of it that was used
PendingQlenNoCred(q, n) == Len(q) - credit

\* mutant: the frames that left are not subtracted
PendingQlenAll(q, n) == Len(q)

\* txlp->pending_qlen after n frames left a queue that held q; frames dropped for a
\* peer that is gone still count
PendingQlen(q, n) == Len(q) - n

\* one category: skw_txq_prepare, then the selection loop, up to skw_bus_data_xmit
TxAc ==
    /\ tx.pc = "ac" /\ tx.ac \in Acs
    /\ LET a == tx.ac
           q == Prepared(a)
       IN  /\ txq' = [txq EXCEPT ![a] = <<>>]
           /\ stopped' = IF Len(q) < Low THEN stopped \ {a} ELSE stopped
           /\ \/ /\ q = <<>>
                 /\ cache' = [cache EXCEPT ![a] = <<>>]
                 /\ lost' = lost \cup ToSet(cache[a] \o txq[a])
                 /\ tx' = [tx EXCEPT !.ac = @ + 1]
              \/ /\ q # <<>> /\ credit = 0
                 /\ cache' = [cache EXCEPT ![a] = q]
                 /\ tx' = [tx EXCEPT !.pc = "exit"]
                 /\ UNCHANGED lost
              \/ /\ q # <<>> /\ credit # 0
                 /\ lost' = lost \cup ToSet(Dropped(a))
                 /\ \E n \in Taken(a) :
                       /\ cache' = [cache EXCEPT ![a] = SubSeq(q, n + Len(Dropped(a)) + 1, Len(q))]
                       /\ tx' = [tx EXCEPT !.pc = IF n = 0 THEN "ac" ELSE "put",
                                           !.ac = IF n = 0 THEN @ + 1 ELSE @,
                                           !.list = SubSeq(q, 1, n),
                                           !.pend = PendingQlen(q, n), !.cred = credit - n]
    /\ UNCHANGED <<xmit, sched, ring, dy, credit, thermal, gone, owed, acc, sent, raced, spent>>

\* all categories served: leave the loop over them
TxAcsDone ==
    /\ tx.pc = "ac" /\ tx.ac \notin Acs
    /\ tx' = [tx EXCEPT !.pc = "exit"]
    /\ UNCHANGED <<txq, cache, stopped, xmit, sched, ring, dy, credit, thermal, gone, owed,
                   acc, sent, lost, raced, spent>>

\* mutant: the index is advanced before it is looked at
TxPutShifted ==
    /\ tx.pc = "put" /\ tx.list # <<>>
    /\ ring' = IF Full THEN ring
               ELSE [ring EXCEPT !.buf[(ring.avail + 1) % RingSize] = Head(tx.list),
                                 !.avail = (@ + 1) % IdxMod]
    /\ tx' = [tx EXCEPT !.list = Tail(@)]
    /\ UNCHANGED <<txq, cache, stopped, xmit, sched, dy, credit, thermal, gone, owed,
                   acc, sent, lost, raced, spent>>

\* skw_vring_set for the head of tx_list; a full ring refuses, and skw_sdio_xmit
\* frees the frame all the same
TxPut ==
    /\ tx.pc = "put" /\ tx.list # <<>>
    /\ ring' = IF Full THEN ring
               ELSE [ring EXCEPT !.buf[ring.avail % RingSize] = Head(tx.list),
                                 !.avail = (@ + 1) % IdxMod]
    /\ tx' = [tx EXCEPT !.list = Tail(@)]
    /\ UNCHANGED <<txq, cache, stopped, xmit, sched, dy, credit, thermal, gone, owed,
                   acc, sent, lost, raced, spent>>

\* tx_list is through: queue dy_work; without credit left the categories that
\* follow wait for the next turn
TxKick ==
    /\ tx.pc = "put" /\ tx.list = <<>>
    /\ sched' = sched \cup {"dy"}
    /\ tx' = IF tx.cred = 0 THEN [tx EXCEPT !.pc = "exit"]
             ELSE [tx EXCEPT !.pc = "ac", !.ac = @ + 1]
    /\ UNCHANGED <<txq, cache, stopped, xmit, ring, dy, credit, thermal, gone, owed,
                   acc, sent, lost, raced, spent>>

\* skw_tx_exit_check: another turn, or restart the netdev queues and leave
TxExit ==
    /\ tx.pc = "exit"
    /\ IF tx.pend > 0 /\ Available > 1
       THEN tx' = [tx EXCEPT !.pc = "check"] /\ UNCHANGED stopped
       ELSE tx' = TxIdle /\ stopped' = {}
    /\ UNCHANGED <<txq, cache, xmit, sched, ring, dy, credit, thermal, gone, owed,
                   acc, sent, lost, raced, spent>>

-----------------------------------------------------------------------------
(* skw_dy_worker and skw_sdio_write                                        *)

DyStart ==
    /\ "dy" \in sched /\ dy.pc = "idle"
    /\ sched' = sched \ {"dy"}
    /\ dy' = [DyIdle EXCEPT !.pc = "credit"]
    /\ UNCHANGED <<txq, cache, stopped, xmit, tx, ring, credit, thermal, gone, owed,
                   acc, sent, lost, raced, spent>>

DyCredit ==
    /\ dy.pc = "credit"
    /\ dy' = IF credit = 0 THEN DyIdle ELSE [DyIdle EXCEPT !.pc = "write", !.credit = credit]
    /\ UNCHANGED <<txq, cache, stopped, xmit, sched, tx, ring, credit, thermal, gone, owed,
                   acc, sent, lost, raced, spent>>

\* mutant: the credit does not bound the burst
LimitNoCredit == Min({Pending, PktLimit})

\* how many frames the next burst carries
Limit == Min({Pending, dy.credit, PktLimit})

\* a negative limit becomes a large u16: everything pending is taken
DyWrite ==
    /\ dy.pc = "write"
    /\ dy' = IF Pending = 0 THEN DyIdle
             ELSE [dy EXCEPT !.pc = "dma", !.limit = Limit,
                             !.end = (ring.used + (IF Limit < 0 THEN Pending ELSE Limit)) % IdxMod]
    /\ UNCHANGED <<txq, cache, stopped, xmit, sched, tx, ring, credit, thermal, gone, owed,
                   acc, sent, lost, raced, spent>>

\* the frames of the burst, as their buffers read now
Burst == [i \in 1 .. (dy.end - ring.used) % IdxMod |-> ring.buf[(ring.used + i - 1) % RingSize]]

\* hw_adma_tx, without a lock
DyDma ==
    /\ dy.pc = "dma"
    /\ \/ /\ sent' = sent \cup ToSet(Burst) /\ owed' = owed + Len(Burst)
          /\ dy' = [dy EXCEPT !.pc = "used", !.ok = TRUE]
          /\ UNCHANGED <<lost, spent>>
       \/ /\ spent.errors < MaxErrors
          /\ spent' = [spent EXCEPT !.errors = @ + 1]
          /\ lost' = lost \cup ToSet(Burst)
          /\ dy' = [dy EXCEPT !.pc = "used", !.ok = FALSE]
          /\ UNCHANGED <<sent, owed>>
    /\ UNCHANGED <<txq, cache, stopped, xmit, sched, tx, ring, credit, thermal, gone, acc, raced>>

DyUsed ==
    /\ dy.pc = "used"
    /\ ring' = [ring EXCEPT !.used = dy.end]
    /\ dy' = [dy EXCEPT !.pc = IF dy.ok THEN "sub" ELSE "credit"]
    /\ UNCHANGED <<txq, cache, stopped, xmit, sched, tx, credit, thermal, gone, owed,
                   acc, sent, lost, raced, spent>>

\* mutant: the credit is not taken
DySubNothing ==
    /\ dy.pc = "sub" /\ dy' = [dy EXCEPT !.pc = "credit"]
    /\ UNCHANGED <<txq, cache, stopped, xmit, sched, tx, ring, credit, thermal, gone, owed,
                   acc, sent, lost, raced, spent>>

\* skw_sub_credit; a negative limit gives credit back
DySub ==
    /\ dy.pc = "sub"
    /\ credit' = credit - dy.limit
    /\ dy' = [dy EXCEPT !.pc = "credit"]
    /\ UNCHANGED <<txq, cache, stopped, xmit, sched, tx, ring, thermal, gone, owed,
                   acc, sent, lost, raced, spent>>

-----------------------------------------------------------------------------
(* Credit, thermal warnings, disconnection                                 *)

\* mutant: skw_add_credit forgets dy_work
AddCreditNoDy ==
    /\ owed > 0 /\ owed' = owed - 1
    /\ credit' = credit + 1
    /\ sched' = sched \cup {"tx"}
    /\ UNCHANGED <<txq, cache, stopped, xmit, tx, ring, dy, thermal, gone, acc, sent, lost, raced, spent>>

\* skw_add_credit, when the firmware has freed a buffer
AddCredit ==
    /\ owed > 0 /\ owed' = owed - 1
    /\ credit' = credit + 1
    /\ sched' = sched \cup {"tx", "dy"}
    /\ UNCHANGED <<txq, cache, stopped, xmit, tx, ring, dy, thermal, gone, acc, sent, lost, raced, spent>>

\* skw_recovery_prepare sets fw_credit to 0; the firmware that comes up grants anew
CreditReset ==
    /\ spent.resets < MaxResets /\ spent' = [spent EXCEPT !.resets = @ + 1]
    /\ credit' = 0 /\ owed' = FwBufs
    /\ raced' = (raced \/ dy.pc \notin {"idle", "credit"})
    /\ UNCHANGED <<txq, cache, stopped, xmit, sched, tx, ring, dy, thermal, gone, acc, sent, lost>>

\* skw_event_thermal_warn
ThermalTrip ==
    /\ ~thermal /\ spent.trips < MaxTrips /\ spent' = [spent EXCEPT !.trips = @ + 1]
    /\ thermal' = TRUE /\ stopped' = Acs
    /\ UNCHANGED <<txq, cache, xmit, sched, tx, ring, dy, credit, gone, owed, acc, sent, lost, raced>>

ThermalClear ==
    /\ thermal
    /\ thermal' = FALSE /\ stopped' = {}
    /\ UNCHANGED <<txq, cache, xmit, sched, tx, ring, dy, credit, gone, owed, acc, sent, lost, raced, spent>>

\* SKW_PEER_FLAG_DEAUTHED, SKW_IFACE_FLAG_DEAUTH
Disconnect(g) ==
    /\ gone = "no" /\ spent.gone < MaxGone /\ spent' = [spent EXCEPT !.gone = @ + 1]
    /\ gone' = g
    /\ UNCHANGED <<txq, cache, stopped, xmit, sched, tx, ring, dy, credit, thermal, owed,
                   acc, sent, lost, raced>>

Reconnect ==
    /\ gone # "no" /\ gone' = "no"
    /\ UNCHANGED <<txq, cache, stopped, xmit, sched, tx, ring, dy, credit, thermal, owed,
                   acc, sent, lost, raced, spent>>

-----------------------------------------------------------------------------
XmitStep == XmitMeasure \/ XmitStop
TxStep   == TxStart \/ TxCheck \/ TxAc \/ TxAcsDone \/ TxPut \/ TxKick \/ TxExit
DyStep   == DyStart \/ DyCredit \/ DyWrite \/ DyDma \/ DyUsed \/ DySub

Next ==
    \/ \E a \in Acs : XmitQueue(a)
    \/ XmitStep \/ TxStep \/ DyStep \/ AddCredit \/ CreditReset
    \/ ThermalTrip \/ ThermalClear \/ Reconnect
    \/ \E g \in {"peer", "iface"} : Disconnect(g)

Spec == Init /\ [][Next]_vars

\* The transmit context, both workers and the event path that delivers credit are
\* scheduled; a firmware that is alive returns the credit of every frame it took,
\* and a thermal warning is lifted.
FairSpec ==
    /\ Spec
    /\ WF_vars(XmitStep) /\ WF_vars(TxStep) /\ WF_vars(DyStep)
    /\ WF_vars(AddCredit) /\ WF_vars(ThermalClear)

-----------------------------------------------------------------------------
(* Properties                                                              *)

RingFrames ==
    LET from == IF dy.pc = "used" THEN dy.end ELSE ring.used
    IN  [i \in 1 .. (ring.avail - from) % IdxMod |-> ring.buf[(from + i - 1) % RingSize]]

Way       == RingFrames \o tx.list
Queued(a) == cache[a] \o txq[a]

\* No frame is lost, duplicated or overtaken on its way through the queues, the list
\* of the worker and the ring: the frames of a category that are under way are, in
\* order, exactly those accepted and neither on the bus nor dropped.  In particular
\* skw_vring_set, whose refusal skw_sdio_xmit ignores, never refuses, and a buffer
\* is never overwritten before the bus has taken it.
NoFrameLost ==
    \A a \in Acs :
        LET p    == Way \o Queued(a)
            mine == {i \in 1 .. Len(p) : p[i][1] = a}
        IN  /\ {p[i] : i \in mine} = ({a} \X (1 .. acc[a])) \ (sent \cup lost)
            /\ \A i, j \in mine : i < j => p[i][2] < p[j][2]
            /\ \A i \in 1 .. Len(Queued(a)) : Queued(a)[i][1] = a

\* The firmware never gets more frames than it granted credit for, though the credit
\* is read, spent and returned by three contexts without a lock; excepted are bursts
\* during which the credit was reset.
CreditHonoured == ~raced => owed <= FwBufs /\ credit >= 0

\* Every frame the stack handed over reaches the bus or is dropped for a reason, and the worker
\* does not spin: it comes back to its idle state.
AllSent == tx.pc = "idle" /\ \A a \in Acs : \A k \in 1 .. acc[a] : <<a, k>> \in sent \cup lost
EveryFrameSent == []<>AllSent
=============================================================================
