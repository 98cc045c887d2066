------------------------------ MODULE SkwRxSec ------------------------------
(***************************************************************************)
(* What the bus hands to skw_rx_cb, until it reaches the network stack     *)
(* (skw_rx.c): acknowledgements and events are told from data, data waits  *)
(* in rx_dat_q for the rx thread, and skw_rx_handler rejects replays and   *)
(* puts fragments together under rx_lock.  A second caller of              *)
(* skw_rx_handler is the RCU callback skw_free_tid_rx, with the frames an  *)
(* old block-ack session still held.  Meanwhile a user may install a new   *)
(* key or disconnect.  Reordering itself is SkwReorder.                    *)
(*                                                                         *)
(* A load is what the air brings: the MSDUs and the order of the entries.  *)
(* An entry is one fragment of one MSDU, an event or an acknowledgement.   *)
(***************************************************************************)
EXTENDS Integers, FiniteSets, SequencesExt

CONSTANTS
    Loads,     \* the loads a behaviour starts from
    Entries,   \* SKW_MAX_DEFRAG_ENTRY
    PnMod      \* 2^32: what SKW_PN_U32 keeps of a packet number

VARIABLES
    load,   \* the load, chosen once
    feed,   \* entries the bus has yet to hand over
    q,      \* rx_dat_q
    held,   \* frames of the block-ack session skw_free_tid_rx is freeing
    tab,    \* iface->frag
    clock,  \* jiffies, as far as frag entries see it
    key,    \* per peer: the pairwise key and its receive packet numbers
    dl,     \* deliver_list of the rx thread and of the RCU callback
    out,    \* ghost: what was delivered, in order
    freed,  \* ghost: why an entry was freed
    ev,     \* skw_event_sn; ghost: the events accepted, whether the driver asserted
    left    \* budget for losses, failed allocations, new keys, disconnects

vars == <<load, feed, q, held, tab, clock, key, dl, out, freed, ev, left>>

Threads == {"rx", "rcu"}
Peers   == {"p1", "p2", "p3"}
Ms      == DOMAIN load.msdu
Of(x)   == load.msdu[x.m]
Data(x) == x.kind \in {"data", "noiface", "badtid", "monitor", "badport"}
NoEntry == [tid |-> -1, sn |-> -1, act |-> FALSE, chk |-> FALSE, pn |-> 0, num |-> 0,
            start |-> 0, list |-> <<>>]

\* the packet number as the driver compares it
V(pn) == IF load.reuse THEN pn % PnMod ELSE pn

Init ==
    /\ load \in Loads
    /\ feed = load.feed /\ held = load.held /\ left = load.left
    /\ q = <<>> /\ clock = 0 /\ tab = [i \in 1 .. Entries |-> NoEntry]
    /\ key = [p \in Peers |-> [gen |-> 1, n |-> 1, pn |-> [t \in 0 .. 1 |-> 0], by |-> 0, up |-> TRUE]]
    /\ dl = [t \in Threads |-> <<>>] /\ out = <<>> /\ freed = <<>>
    /\ ev = [sn |-> 0, got |-> <<>>, assert |-> FALSE]

Free(ids, why) == freed' = [i \in DOMAIN freed \cup ids |-> IF i \in ids THEN why ELSE freed[i]]
Spend(what)    == left[what] > 0 /\ left' = [left EXCEPT ![what] = @ - 1]

-----------------------------------------------------------------------------
(* skw_rx_cb                                                               *)

\* the frame is lost before it reaches the bus
Lose ==
    /\ feed # <<>> /\ Spend("lose")
    /\ feed' = Tail(feed) /\ Free({feed[1].id}, "lost")
    /\ UNCHANGED <<load, q, held, tab, clock, key, dl, out, ev>>

\* no memory for the skb: the entry is given back and the next one is looked at
RxCbOom ==
    /\ feed # <<>> /\ Spend("oom")
    /\ feed' = Tail(feed) /\ Free({feed[1].id}, "oom")
    /\ UNCHANGED <<load, q, held, tab, clock, key, dl, out, ev>>

\* ++skw_event_sn must be the event's own number, or the driver asserts and drops it
EventOk(seq) ==
    IF ev.sn + 1 = seq THEN ev' = [ev EXCEPT !.sn = @ + 1, !.got = Append(@, seq)]
    ELSE ev' = [ev EXCEPT !.sn = @ + 1, !.assert = TRUE]

\* acknowledgements and credit are handled on the spot, an event is copied to the
\* interface's event queue (or freed when that is closed), anything else is freed
RxCbMsg ==
    /\ feed # <<>> /\ ~Data(feed[1])
    /\ IF feed[1].kind = "event" THEN EventOk(feed[1].m) ELSE UNCHANGED ev
    /\ feed' = Tail(feed) /\ Free({feed[1].id}, "message")
    /\ UNCHANGED <<load, q, held, tab, clock, key, dl, out, left>>

\* a data frame needs a port that belongs to an lmac; the firmware has the key it uses
RxCbData ==
    /\ feed # <<>> /\ Data(feed[1])
    /\ feed[1].kind = "data" => LET k == key[Of(feed[1]).peer] IN k.up => Of(feed[1]).gen <= k.gen
    /\ feed' = Tail(feed)
    /\ IF feed[1].kind = "badport" THEN Free({feed[1].id}, "badport") /\ UNCHANGED q
       ELSE q' = Append(q, feed[1]) /\ UNCHANGED freed
    /\ UNCHANGED <<load, held, tab, clock, key, dl, out, ev, left>>

-----------------------------------------------------------------------------
(* skw_rx_handler, under rx_lock                                           *)

Checked(x) ==
    /\ ~Of(x).mc /\ ~Of(x).skip
    /\ key[Of(x).peer].n = 1 /\ load.cipher \in {"ccmp", "tkip"}

\* skw_pn_allowed: the number grows; an A-MSDU's subframes share one, and 0 is let through
PnAllowed(x) ==
    LET last == V(key[Of(x).peer].pn[Of(x).tid])
    IN  \/ V(x.pn) > last
        \/ V(x.pn) = last /\ (Of(x).amsdu \/ V(x.pn) = 0)

\* ghost: why a fresh frame was taken for a replay
ReplayCause(x) ==
    LET k == key[Of(x).peer]
    IN  CASE k.by # 0 /\ k.by # Of(x).gen -> "stalekey"
          [] x.pn > k.pn[Of(x).tid] -> "wrap"
          [] x.pn = k.pn[Of(x).tid] -> "replay"
          [] OTHER -> "late"

Match(x) == {i \in 1 .. Entries : tab[i].tid = Of(x).tid /\ tab[i].sn = Of(x).sn}

\* skw_frag_get_entry for a first fragment: the entry of that frame, else the last
\* unused one, else the oldest
FragEntry(x) ==
    LET free == {i \in 1 .. Entries : ~tab[i].act}
    IN  IF Match(x) # {} THEN Min(Match(x))
        ELSE IF free # {} THEN Max(free)
        ELSE CHOOSE i \in 1 .. Entries : \A j \in 1 .. Entries : tab[i].start <= tab[j].start

Ids(s) == {s[i].id : i \in DOMAIN s}

\* skw_frag_init_entry; whether packet numbers are checked depends on the group cipher
FragInit(x) ==
    LET i == FragEntry(x)
        old == tab[i].list
        why == IF old = <<>> THEN "none"
               ELSE IF old[1].m = x.m THEN "again"
               ELSE IF i \in Match(x) THEN "collide" ELSE "evicted"
    IN  /\ tab' = [tab EXCEPT ![i] = [tid |-> Of(x).tid, sn |-> Of(x).sn, act |-> TRUE,
                                      chk |-> load.group = "ccmp", pn |-> x.pn, num |-> 0,
                                      start |-> clock, list |-> <<x>>]]
        /\ clock' = clock + 1 /\ Free(Ids(old), why)

\* mutant: the number of the fragment is not looked at
FragNextAny(e, x) == e.chk => V(e.pn) + 1 = V(x.pn)

\* the fragment continues what the entry holds
FragNext(e, x) == e.num + 1 = x.f /\ (e.chk => V(e.pn) + 1 = V(x.pn))

\* mutant: last_pn is not moved along
FragPnOld(e, x) == e.pn

FragPn(e, x) == IF e.chk THEN x.pn ELSE e.pn

Done(e) == [e EXCEPT !.act = FALSE, !.tid = -1, !.list = <<>>, !.chk = FALSE]

\* skw_rx_defragment, for the fragments behind the first
FragMore(t, x) ==
    IF Match(x) = {} \/ ~FragNext(tab[Min(Match(x))], x)
    THEN Free({x.id}, "nofirst") /\ UNCHANGED <<tab, dl, left>>
    ELSE LET i == Min(Match(x))
             e == [tab[i] EXCEPT !.num = @ + 1, !.pn = FragPn(tab[i], x),
                                 !.list = Append(@, x)]
         IN  \/ /\ x.more /\ tab' = [tab EXCEPT ![i] = e] /\ UNCHANGED <<dl, freed, left>>
             \/ /\ ~x.more /\ tab' = [tab EXCEPT ![i] = Done(e)]
                /\ dl' = [dl EXCEPT ![t] = Append(@, e.list)] /\ UNCHANGED <<freed, left>>
             \/ /\ ~x.more /\ Spend("oom") /\ tab' = [tab EXCEPT ![i] = Done(e)]
                /\ Free(Ids(e.list), "oom") /\ UNCHANGED dl

\* one frame through skw_replay_detect and skw_rx_defragment
HandleOne(t, x) ==
    LET p == Of(x).peer IN
    \/ x.kind = "noiface" /\ Free({x.id}, "noiface") /\ UNCHANGED <<tab, clock, key, dl, left>>
    \/ /\ x.kind = "data" /\ ~key[p].up
       /\ Free({x.id}, "gone") /\ UNCHANGED <<tab, clock, key, dl, left>>
    \/ /\ x.kind = "data" /\ key[p].up /\ Checked(x) /\ ~PnAllowed(x)
       /\ Free({x.id}, ReplayCause(x)) /\ UNCHANGED <<tab, clock, key, dl, left>>
    \/ /\ x.kind = "data" /\ key[p].up /\ (Checked(x) => PnAllowed(x))
       /\ key' = IF Checked(x) THEN [key EXCEPT ![p].pn[Of(x).tid] = x.pn, ![p].by = Of(x).gen]
                 ELSE key
       /\ IF ~x.more /\ x.f = 0
          THEN dl' = [dl EXCEPT ![t] = Append(@, <<x>>)] /\ UNCHANGED <<tab, clock, freed, left>>
          ELSE IF x.f = 0 THEN FragInit(x) /\ UNCHANGED <<dl, left>>
          ELSE FragMore(t, x) /\ UNCHANGED clock

\* skw_rx_data_handler: a sniffed frame goes to the monitor interface, a bad tid is
\* freed, the drop report behind a frame turns into placeholders that are freed again
RxThread ==
    /\ q # <<>> /\ dl["rx"] = <<>>
    /\ held \in {<<>>, load.held}       \* rx_lock
    /\ q' = Tail(q)
    /\ \/ q[1].kind = "badtid" /\ Free({q[1].id}, "badtid") /\ UNCHANGED <<tab, clock, key, dl, left>>
       \/ /\ q[1].kind = "monitor" /\ UNCHANGED <<tab, clock, key, left>>
          /\ \/ load.sniffer /\ dl' = [dl EXCEPT !["rx"] = <<<<q[1]>>>>] /\ UNCHANGED freed
             \/ ~load.sniffer /\ Free({q[1].id}, "badtid") /\ UNCHANGED dl
       \/ q[1].kind \in {"data", "noiface"} /\ HandleOne("rx", q[1])
    /\ UNCHANGED <<load, feed, held, out, ev>>

\* skw_free_tid_rx hands what the old session held to skw_rx_handler
RcuFree ==
    /\ held # <<>>
    /\ HandleOne("rcu", held[1]) /\ held' = Tail(held)
    /\ UNCHANGED <<load, feed, q, out, ev>>

-----------------------------------------------------------------------------
(* skw_deliver_skb, outside the lock                                       *)

\* skw_csum_verify: only a good IPv6 checksum spares the stack the work
CsumVerify(m) ==
    IF m.csum = "none" THEN "none"
    ELSE IF m.v6 /\ m.csum = "good" THEN "unnecessary" ELSE "complete"

\* an access point forwards to its stations, a copy when the frame is for all of them
Forward(m) == m.fwd /\ load.ap /\ (m.mc \/ m.known)
DeliverTo(m) == IF Forward(m) THEN (IF m.mc THEN {"stack", "air"} ELSE {"air"}) ELSE {"stack"}

Deliver(t) ==
    /\ dl[t] # <<>> /\ (t = "rcu" => held = <<>>)
    /\ LET b == dl[t][1] IN
       /\ dl' = [dl EXCEPT ![t] = Tail(@)]
       /\ IF b[1].kind = "data" /\ Of(b[1]).own
          THEN Free(Ids(b), "own") /\ UNCHANGED <<out, left>>
          ELSE \E to \in IF b[1].kind = "monitor" THEN {{"stack"}}
                         ELSE IF DeliverTo(Of(b[1])) = {"stack", "air"} /\ left.oom > 0
                         THEN {{"stack", "air"}, {"stack"}} ELSE {DeliverTo(Of(b[1]))} :
                  /\ out' = Append(out, [frags |-> b, to |-> to, sum |->
                                IF b[1].kind = "monitor" \/ Len(b) > 1 THEN "none" ELSE CsumVerify(Of(b[1]))])
                  /\ UNCHANGED <<freed, left>>
    /\ UNCHANGED <<load, feed, q, held, tab, clock, key, ev>>

-----------------------------------------------------------------------------
(* The user: skw_add_key for the pairwise key, skw_disconnect              *)

\* the new key starts at 0; under another index both stay installed
SetKey(p) ==
    /\ Spend("key") /\ key[p].up
    /\ \E m \in Ms : load.msdu[m].peer = p /\ load.msdu[m].gen > key[p].gen
    /\ key' = [key EXCEPT ![p].gen = @ + 1, ![p].by = 0, ![p].pn = [t \in 0 .. 1 |-> 0],
                          ![p].n = IF load.otheridx THEN @ + 1 ELSE 1]
    /\ UNCHANGED <<load, feed, q, held, tab, clock, dl, out, freed, ev>>

Disconnect ==
    /\ Spend("gone")
    /\ key' = [p \in Peers |-> [key[p] EXCEPT !.up = FALSE]]
    /\ Free(UNION {Ids(tab[i].list) : i \in 1 .. Entries}, "gone")
    /\ tab' = [i \in 1 .. Entries |-> [tab[i] EXCEPT !.list = <<>>, !.tid = -1]]
    /\ UNCHANGED <<load, feed, q, held, clock, dl, out, ev>>

RxCb == Lose \/ RxCbOom \/ RxCbMsg \/ RxCbData
User == (\E p \in Peers : SetKey(p)) \/ Disconnect

Quiet == feed = <<>> /\ q = <<>> /\ held = <<>> /\ dl = [t \in Threads |-> <<>>]

Next == RxCb \/ RxThread \/ RcuFree \/ (\E t \in Threads : Deliver(t)) \/ User
        \/ (Quiet /\ UNCHANGED vars)

Spec == Init /\ [][Next]_vars
        /\ WF_vars(RxCbMsg \/ RxCbData) /\ WF_vars(RxThread) /\ WF_vars(RcuFree)
        /\ \A t \in Threads : WF_vars(Deliver(t))
        /\ \A p \in Peers : WF_vars(SetKey(p))

-----------------------------------------------------------------------------
(* Properties *)

TypeOK ==
    /\ DOMAIN freed \subseteq 1 .. (Len(load.feed) + Len(load.held))
    /\ \A i \in 1 .. Entries : tab[i].act => tab[i].tid \in 0 .. 1 \/ tab[i].list = <<>>
    /\ key \in [Peers -> [gen : 1 .. 3, n : 0 .. 2, pn : [0 .. 1 -> Nat], by : 0 .. 3, up : BOOLEAN]]
    /\ left.oom >= 0

OutFrags == FlattenSeq([i \in DOMAIN out |-> out[i].frags])
Places == <<feed, q, held, FlattenSeq(dl["rx"]), FlattenSeq(dl["rcu"]), OutFrags>>
          \o [i \in 1 .. Entries |-> tab[i].list]

\* Every buffer the bus hands over is in one place only, until it is delivered
\* whole or freed (skw_rx_cb, skw_rx_data_handler, skw_rx_defragment).
OneOwner ==
    LET all == FlattenSeq(Places)
    IN  /\ Cardinality(Ids(all)) = Len(all)
        /\ Ids(all) \cap DOMAIN freed = {}
        /\ Ids(all) \cup DOMAIN freed = 1 .. (Len(load.feed) + Len(load.held))

\* A delivered frame is all the fragments of one MSDU, in order.  The exceptions
\* are skw_frag_get_entry's: it does not look at the peer, and without a packet
\* number check a fragment of 4096 frames earlier passes for this frame's.
WholeFrames ==
    \A o \in {out[i].frags : i \in DOMAIN out} :
        \/ \A k \in DOMAIN o : o[k].m = o[1].m /\ o[k].f = k - 1 /\ (o[k].more <=> k < Len(o))
        \/ \E j, k \in DOMAIN o :
              /\ Of(o[j]).tid = Of(o[k]).tid /\ Of(o[j]).sn = Of(o[k]).sn
              /\ \/ Of(o[j]).peer # Of(o[k]).peer
                 \/ load.group # "ccmp" /\ o[j].m # o[k].m

\* No fragment is delivered twice, while one pairwise key is installed and no
\* frame slipped past the check because the reorder window had moved on.
NoReplay ==
    load.cipher \in {"ccmp", "tkip"} =>
    \A i, j \in DOMAIN OutFrags : i < j =>
        LET a == OutFrags[i] b == OutFrags[j] IN
        (a.kind = "data" /\ b.kind = "data") =>
          (a.m # b.m \/ a.f # b.f \/ Of(a).mc \/ Of(a).skip \/ Of(a).amsdu \/ V(a.pn) = 0
           \/ key[Of(a).peer].n # 1 \/ key[Of(a).peer].gen > 1)

\* The events the driver acts on are a gapless run, and a lost one is noticed.
EventsGapless ==
    /\ \A i \in DOMAIN ev.got : ev.got[i] = i
    /\ (ev.sn > Len(ev.got)) => ev.assert

\* What the stack is told not to check was checked.
ChecksumHonest ==
    \A i \in DOMAIN out : out[i].sum = "unnecessary" => Of(out[i].frags[1]).csum = "good"

\* The receive path is sound: one owner for each buffer, frames delivered whole
\* and once, events without a gap, checksums only vouched for when good.
RxSound == TypeOK /\ OneOwner /\ WholeFrames /\ NoReplay /\ EventsGapless /\ ChecksumHonest

\* the reasons for which a frame that arrived completely may still be missing
Excuses == {"gone", "own", "oom", "late", "stalekey", "wrap", "evicted", "collide", "again"}

AllItems == load.feed \o load.held
Copies(m, f) == {i \in DOMAIN AllItems :
                    AllItems[i].kind = "data" /\ AllItems[i].m = m /\ AllItems[i].f = f}
Arrived(m) ==       \* the first copy of every fragment, so that they come in order
    \A f \in 0 .. load.msdu[m].n - 1 :
        LET i == AllItems[Min(Copies(m, f))].id
        IN  i \in DOMAIN freed => freed[i] \notin {"lost", "oom"}
Delivered(m) == \E i \in DOMAIN out : \A k \in DOMAIN out[i].frags :
                    out[i].frags[k].kind = "data" /\ out[i].frags[k].m = m
MixedUp(m) == \E i \in DOMAIN out : LET o == out[i].frags IN
                    Len(o) > 1 /\ \E j, k \in DOMAIN o : o[j].m = m /\ o[k].m # m
Excused(m) == \E i \in DOMAIN AllItems :
    /\ AllItems[i].kind = "data" /\ AllItems[i].m = m
    /\ AllItems[i].id \in DOMAIN freed /\ freed[AllItems[i].id] \in Excuses

\* Every frame that arrived completely is delivered in the end, unless it was
\* overtaken (late), judged by a key it was not sent under (stalekey), met the
\* wrap of the 32-bit packet number, or its fragments were pushed out of the table
\* (evicted, collide, again) or went into another frame (MixedUp).
AllHandled == Quiet /\ \A m \in Ms : Arrived(m) => Delivered(m) \/ MixedUp(m) \/ Excused(m)
FramesArrive == []<>AllHandled
=============================================================================
