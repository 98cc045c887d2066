---------------------------- MODULE MCSkwRx ----------------------------
(* The receive path for TLC: the reorder buffer of one block-ack session   *)
(* (SkwReorder), the same with a tainted A-MSDU and fair threads (Live),   *)
(* and defragmentation, replay protection and delivery (SkwRxSec).         *)
EXTENDS SkwReorder

M(peer, sn, n, gen) == [peer |-> peer, tid |-> 0, sn |-> sn, n |-> n, gen |-> gen, amsdu |-> FALSE,
    mc |-> FALSE, skip |-> FALSE, own |-> FALSE, fwd |-> FALSE, known |-> FALSE, v6 |-> TRUE, csum |-> "good"]
Item(m, f, more, pn) == [kind |-> "data", m |-> m, f |-> f, more |-> more, pn |-> pn]
One(m, pn) == Item(m, 0, FALSE, pn)
Msg(kind, n) == [kind |-> kind, m |-> n, f |-> 0, more |-> FALSE, pn |-> 0]
Numbered(s, from) == [i \in DOMAIN s |-> s[i] @@ [id |-> from + i]]

Load(msdu, fd, hd) == [msdu |-> msdu, feed |-> Numbered(fd, 0), held |-> Numbered(hd, Len(fd)),
    reuse |-> FALSE, cipher |-> "ccmp", group |-> "ccmp", ap |-> FALSE, sniffer |-> FALSE,
    otheridx |-> FALSE, left |-> [lose |-> 1, oom |-> 1, key |-> 0, gone |-> 0]]

\* three stations send fragments, the table has two entries
Frags == Load(<<M("p1", 1, 2, 1), M("p2", 2, 3, 1), M("p3", 3, 2, 1)>>,
    <<Item(1, 0, TRUE, 1), Item(2, 0, TRUE, 1), Item(2, 1, TRUE, 2), Item(3, 0, TRUE, 5),
      Item(3, 1, FALSE, 6), Item(1, 1, FALSE, 2), Item(2, 2, FALSE, 3)>>, <<>>)
\* a fragment that comes twice
Again == Load(<<M("p1", 1, 3, 1), M("p1", 2, 1, 1)>>,
    <<Item(1, 0, TRUE, 1), Item(1, 1, TRUE, 2), Item(1, 0, TRUE, 1), Item(1, 2, FALSE, 3), One(2, 4), One(2, 4)>>, <<>>)
\* the sequence number comes round while the entry still waits
Round == Load(<<M("p1", 1, 2, 1), M("p1", 1, 2, 1)>>,
    <<Item(1, 0, TRUE, 1), Item(1, 1, FALSE, 2), Item(2, 0, TRUE, 3), Item(2, 1, FALSE, 4)>>, <<>>)
\* two stations that use the same sequence number
Pair == Load(<<M("p1", 1, 2, 1), M("p2", 1, 2, 1)>>,
    <<Item(1, 0, TRUE, 1), Item(2, 0, TRUE, 1), Item(1, 1, FALSE, 2), Item(2, 1, FALSE, 2)>>, <<>>)
Apart == [Pair EXCEPT !.feed = Numbered(<<Item(1, 0, TRUE, 1), Item(2, 0, TRUE, 1), Item(2, 1, FALSE, 2), Item(1, 1, FALSE, 2)>>, 0)]
\* a new key between the frames; frames an old session held
Rekey == [Load(<<M("p1", 1, 1, 1), M("p1", 2, 1, 1), M("p1", 3, 1, 2), M("p1", 4, 1, 2), M("p1", 0, 1, 1)>>,
    <<One(1, 5), One(2, 6), One(3, 1), One(4, 2)>>, <<One(5, 4)>>)
    EXCEPT !.left.key = 1, !.left.gone = 1]
\* the 32-bit packet number
Wrap == [Load(<<M("p1", 1, 1, 1), M("p1", 2, 2, 1), M("p1", 3, 1, 1)>>,
    <<One(1, 8 - 2), Item(2, 0, TRUE, 8 - 1), Item(2, 1, FALSE, 8), One(3, 8 + 1)>>, <<>>)
    EXCEPT !.reuse = TRUE]
\* messages, and the other ways of skw_rx_cb and skw_deliver_skb
Mixed == [Load(<<[M("p1", 1, 1, 1) EXCEPT !.mc = TRUE, !.fwd = TRUE], [M("p1", 2, 1, 1) EXCEPT !.fwd = TRUE, !.known = TRUE],
                 [M("p2", 3, 1, 1) EXCEPT !.own = TRUE], [M("p2", 4, 1, 1) EXCEPT !.csum = "bad"]>>,
    <<Msg("event", 1), One(1, 1), Msg("ack", 0), Msg("event", 2), One(2, 2), Msg("event", 3), One(3, 1), One(4, 2),
      Msg("event", 4)>>, <<>>) EXCEPT !.ap = TRUE, !.left.lose = 2]
Odds == [Load(<<[M("p1", 1, 1, 1) EXCEPT !.amsdu = TRUE, !.v6 = FALSE], [M("p1", 2, 1, 1) EXCEPT !.csum = "none"]>>,
    <<Msg("monitor", 0), Msg("noiface", 0), Msg("badtid", 0), Msg("badport", 0), Msg("junk", 0), One(1, 1), One(1, 1),
      One(2, 2), One(2, 2)>>, <<>>) EXCEPT !.left.oom = 1]

SecLoads == {Frags, Again, Round, Pair, Apart, Rekey, Wrap, Mixed, Odds}
    \cup {[l EXCEPT !.group = g, !.cipher = c] : l \in {Frags, Again, Round}, g \in {"tkip"}, c \in {"tkip", "wep"}}
    \cup {[Odds EXCEPT !.sniffer = TRUE], [Rekey EXCEPT !.otheridx = TRUE]}

VARIABLES
    which,  \* the component that runs in this behaviour; the others stay as they begin
    load, feed, q, held, tab, clock, key, dl, out, freed, ev, left

Live == INSTANCE SkwReorder WITH
    MaxN <- 16, MaxLost <- 1, MaxBars <- 0, Tainted <- {15}

Sec == INSTANCE SkwRxSec WITH
    Loads <- SecLoads, Entries <- 2, PnMod <- 8

secVars ==
    <<load, feed, q, held, tab, clock, key, dl, out, freed, ev, left>>

all == <<which, vars, secVars>>

\* a component that does not run is in one of its initial states, always the same one
MCInit ==
    /\ which \in {"window", "live", "sec"}
    /\ IF which = "live" THEN Live!Init ELSE Init
    /\ Sec!Init
    /\ (which # "sec" => load = CHOOSE l \in SecLoads : TRUE)

MCNext ==
    /\ UNCHANGED which
    /\ \/ which = "window" /\ Next /\ UNCHANGED <<secVars>>
       \/ which = "live" /\ Live!Next /\ UNCHANGED <<secVars>>
       \/ which = "sec" /\ Sec!Next /\ UNCHANGED <<vars>>

\* each component's own fairness, for the behaviours in which it runs
MCFairness ==
    /\ WF_vars(which = "live" /\ Live!Tick)
    /\ WF_vars(which = "live" /\ Live!TimerFire)
    /\ WF_vars(which = "live" /\ Live!RxThread)
    /\ WF_vars(which = "live" /\ Live!DelTidRxDetach)
    /\ WF_secVars(which = "sec" /\ (Sec!RxCbMsg \/ Sec!RxCbData))
    /\ WF_secVars(which = "sec" /\ Sec!RxThread)
    /\ WF_secVars(which = "sec" /\ Sec!RcuFree)
    /\ \A t \in {"rx", "rcu"} : WF_secVars(which = "sec" /\ Sec!Deliver(t))
    /\ \A p \in {"p1", "p2", "p3"} : WF_secVars(which = "sec" /\ Sec!SetKey(p))

MCSpec == MCInit /\ [][MCNext]_all /\ MCFairness

-----------------------------------------------------------------------------
\* The counter of stored frames, the window and the timer agree with the buffer, whatever order
\* frames, bars and timeouts come in (skw_rx_reorder, skw_reorder_release).
ReorderSound == which = "window" => TypeOK /\ StoredCount /\ InWindow /\ StoredHasTimer

\* Frames of a session go up in order, each at most once (skw_rx_reorder).
RxInOrder == InOrder

\* No fragment or MSDU is leaked, mixed, replayed or delivered under a key it was not sent under.
RxSound == Sec!RxSound

\* The window passes over a missing frame only once a stored one behind it has expired.
SkipsExpired == [][which = "window" => SkipStep]_vars

\* Every frame stored for a session with an A-MSDU that is dropped leaves the buffer, and every
\* frame that arrived completely is delivered.
FramesArrive == []<>(/\ which = "live" => Live!Emptied
                     /\ which = "sec" => Sec!AllHandled)
=============================================================================
