----------------------------- MODULE SkwReorder -----------------------------
(***************************************************************************)
(* Receive reordering of one peer and TID (skw_rx.c, skw_iface.c).  The rx *)
(* thread stores frames in a window of reorder_buf slots and releases them *)
(* in sequence; a kernel timer gives up on a hole; the event worker opens, *)
(* moves and closes block-ack sessions.  The three meet in reorder->todo   *)
(* and in ref_cnt, which tells the timers of an old session from new ones. *)
(*                                                                         *)
(* Frames carry a logical number n (a ghost); the code sees n % SnMod.     *)
(* Time is discrete: a slot ages at every Tick, up to Timeout + 1.         *)
(***************************************************************************)
EXTENDS Integers, FiniteSets, SequencesExt

CONSTANTS
    SnMod,       \* sequence numbers are taken modulo SnMod (4096 in the code)
    BufSize,     \* negotiated block-ack buffer size; the window is twice that
    Start,       \* logical number of the first frame
    MaxN,        \* bound: logical number of the last frame
    MaxLost,     \* bound: frames the sender abandons without delivering them
    MaxBars,     \* bound: block-ack requests (SKW_REQ_RX_BA)
    MaxSessions, \* bound: block-ack sessions opened
    Timeout,     \* config.global.reorder_timeout, in ticks
    Amsdus,      \* logical numbers of A-MSDUs (two subframes each)
    Tainted      \* those of them that start with an LLC/SNAP header

ASSUME SizeAssumption ==
    /\ SnMod \in Nat \ {0} /\ BufSize \in Nat \ {0}
    /\ SnMod % (2 * BufSize) = 0 /\ 2 * BufSize <= SnMod \div 2
ASSUME BoundAssumption ==
    /\ {Start, MaxN, MaxLost, MaxBars, MaxSessions} \subseteq Nat
    /\ Timeout \in Nat \ {0}
ASSUME AmsduAssumption == Tainted \subseteq Amsdus /\ Amsdus \subseteq Nat

VARIABLES
    tid,      \* reorder->tid_rx, or NoTid
    zombie,   \* a detached tid_rx on its way to skw_free_tid_rx, or NoTid
    refCnt,   \* reorder->ref_cnt
    timer,    \* reorder->timer and reorder->expired
    todo,     \* reorder->todo; queued: it is linked on rx_todo_list
    rx,       \* the rx thread: pc, and the sequence number it is about to arm
    evt,      \* the event worker inside skw_del_tid_rx
    sender,   \* the peer: base of its window, numbers lost, arrived, budgets
    dlv,      \* ghost: numbers delivered by the last step, in order
    hi        \* ghost: highest number delivered before it

vars == <<tid, zombie, refCnt, timer, todo, rx, evt, sender, dlv, hi>>

WinSize == 2 * BufSize
SubFrames(n) == IF n \in Amsdus THEN 1 .. 2 ELSE {0}
Empty == [n |-> -1]
NoTid == [ws |-> -1]
NoSn  == -1
RxIdle == [pc |-> "idle", sn |-> NoSn, ref |-> 0]

SnLess(a, b) == (a - b) % SnMod > SnMod \div 2
SnIncUnmasked(a) == a + 1         \* mutant: the mask of ieee80211_sn_inc is missing
SnInc(a)     == (a + 1) % SnMod

Index == 0 .. WinSize - 1
Slot  == [n : Start .. MaxN, bm : SUBSET (0 .. 2), mask : SUBSET (0 .. 2),
          taint : BOOLEAN, age : 0 .. Timeout + 1]
Tid   == [ws : 0 .. SnMod - 1, stored : Nat, ref : Nat,
          buf : [Index -> Slot \cup {Empty}]]

Occupied(t) == {i \in Index : t.buf[i] # Empty}
Numbers(t)  == {t.buf[i].n : i \in Occupied(t)}

TypeOK ==
    /\ tid \in Tid \cup {NoTid} /\ zombie \in Tid \cup {NoTid}
    /\ refCnt \in Nat
    /\ timer \in [on : BOOLEAN, left : 0 .. Timeout, sn : 0 .. SnMod + WinSize, ref : Nat]
    /\ todo \in [actived : BOOLEAN, queued : BOOLEAN, seq : 0 .. SnMod + WinSize,
                 bar : BOOLEAN]
    /\ rx \in [pc : {"idle", "todo", "arm"}, sn : NoSn .. SnMod + WinSize, ref : Nat]
    /\ evt \in {"idle", "del"}
    /\ sender \in [base : Start .. MaxN, lost : 0 .. MaxLost, bars : 0 .. MaxBars,
                   sessions : 0 .. MaxSessions, arrived : SUBSET (Start .. MaxN)]
    /\ dlv \in Seq(Start .. MaxN) /\ hi \in -1 .. MaxN

NewTid(ssn) == [ws |-> ssn, stored |-> 0, ref |-> refCnt, buf |-> [i \in Index |-> Empty]]

Init ==
    /\ tid = NoTid /\ zombie = NoTid /\ refCnt = 0
    /\ timer = [on |-> FALSE, left |-> 0, sn |-> 0, ref |-> 0]
    /\ todo = [actived |-> FALSE, queued |-> FALSE, seq |-> 0, bar |-> FALSE]
    /\ rx = RxIdle /\ evt = "idle"
    /\ sender = [base |-> Start, lost |-> 0, bars |-> 0, sessions |-> 0, arrived |-> {}]
    /\ dlv = <<>> /\ hi = -1

-----------------------------------------------------------------------------
(* Releasing.  A pass is a record: the window t, the timer tm, the numbers *)
(* put on release_list so far (out), and what skw_reorder_release tracks.  *)

Pass(t, tm, out) == [t |-> t, tm |-> tm, out |-> out, rel |-> TRUE, stop |-> FALSE, arm |-> NoSn]

\* is_skw_release_ready, and is_skw_msdu_timeout
Ready(s)   == s.bm = s.mask
ExpiredAlways(s) == TRUE          \* mutant: the clock is not looked at
Expired(s) == s.age > Timeout

\* mutant: the frame counts stay behind
ForceReleaseNoCount(p, to) ==
    LET target == SnInc(to)
        R == {i \in 0 .. WinSize - 1 : i < (target - p.t.ws) % SnMod
                                       /\ p.t.buf[(p.t.ws + i) % WinSize] # Empty}
        at(i) == p.t.buf[(p.t.ws + i) % WinSize]
        good  == SetToSortSeq({i \in R : ~at(i).taint}, <)
    IN  IF SnLess(p.t.ws, target)
        THEN [p EXCEPT !.t.ws = target,
                       !.t.buf = [j \in Index |-> IF \E i \in R : (p.t.ws + i) % WinSize = j
                                                  THEN Empty ELSE @[j]],
                       !.out = @ \o [k \in DOMAIN good |-> at(good[k]).n]]
        ELSE p

\* skw_reorder_force_release: walk the window up to and including to.  When the
\* last stored frame has gone before the walk is over, the window is put at to
\* itself, otherwise just behind it.
ForceRelease(p, to) ==
    LET t      == p.t
        target == SnInc(to)
        len    == (target - t.ws) % SnMod
        at(i)  == t.buf[(t.ws + i) % WinSize]
        R      == {i \in 0 .. WinSize - 1 : i < len /\ at(i) # Empty}
        good   == SetToSortSeq({i \in R : ~at(i).taint}, <)
        stale  == p.tm.on /\ refCnt = t.ref
                  /\ (SnLess(p.tm.sn, to) \/ SnLess(to, t.ws))
        q      == IF stale THEN [p EXCEPT !.tm.on = FALSE] ELSE p
    IN  IF SnLess(t.ws, target)
        THEN [q EXCEPT !.t.ws = IF t.stored = Cardinality(R) /\ len - 1 \notin R
                                THEN to ELSE target,
                       !.t.stored = @ - Cardinality(R),
                       !.t.buf = [j \in Index |-> IF \E i \in R : (t.ws + i) % WinSize = j
                                                  THEN Empty ELSE @[j]],
                       !.out = @ \o [k \in DOMAIN good |-> at(good[k]).n]]
        ELSE q

\* skw_reorder_release, one turn of its loop: slot ws0 + i
ReleaseSlot(p, ws0, i) ==
    LET j     == (ws0 + i) % WinSize
        s     == p.t.buf[j]
        halt  == [p EXCEPT !.stop = TRUE]
        clear == [p EXCEPT !.tm.on = @ /\ p.tm.sn # p.t.ws]
    IN  CASE p.stop -> p
          [] ~p.stop /\ p.t.stored = 0 -> [halt EXCEPT !.tm.on = FALSE]
          [] ~p.stop /\ p.t.stored # 0 /\ s = Empty ->
                IF p.tm.on THEN halt ELSE [p EXCEPT !.rel = FALSE]
          [] ~p.stop /\ p.t.stored # 0 /\ s # Empty /\ ~p.rel ->
                IF Expired(s) THEN [ForceRelease(p, ws0 + i) EXCEPT !.rel = TRUE]
                ELSE [halt EXCEPT !.arm = ws0 + i]
          [] OTHER ->
                IF s.taint THEN [clear EXCEPT !.t.buf[j] = Empty, !.rel = FALSE]
                ELSE IF Ready(s) \/ Expired(s)
                THEN [clear EXCEPT !.t.buf[j] = Empty, !.t.ws = SnInc(@),
                                   !.t.stored = @ - 1, !.out = Append(@, s.n)]
                ELSE [clear EXCEPT !.stop = TRUE,
                                   !.arm = IF clear.tm.on THEN NoSn ELSE ws0 + i]

ReorderRelease(p) ==
    FoldLeft(LAMBDA q, i : ReleaseSlot(q, p.t.ws, i), p, [i \in 1 .. WinSize |-> i - 1])

\* the guards of skw_set_reorder_timer; the arming itself is RxArm
WillArm(p) ==
    /\ p.arm # NoSn /\ ~p.tm.on /\ refCnt = p.t.ref
    /\ p.t.buf[p.arm % WinSize] # Empty

Deliver(out) == dlv' = out /\ hi' = IF dlv = <<>> THEN hi ELSE Max({hi} \cup ToSet(dlv))
DeliverNothing == Deliver(<<>>)

\* a pass of the rx thread is over
EndPass(p) ==
    /\ tid' = p.t /\ timer' = p.tm /\ Deliver(p.out)
    /\ rx' = IF WillArm(p) THEN [pc |-> "arm", sn |-> p.arm, ref |-> p.t.ref] ELSE RxIdle

-----------------------------------------------------------------------------
(* skw_ampdu_reorder                                                       *)

PushNever(p, sn) == p             \* mutant: the window does not move

\* A frame that is ahead of the window pushes it forward
Push(p, sn) ==
    IF SnLess(sn, p.t.ws + WinSize) THEN p
    ELSE [ForceRelease(p, (sn - WinSize) % SnMod) EXCEPT !.rel = TRUE]

\* the slot after subframe k of frame n was merged into it
Merge(s, n, k) ==
    LET old  == IF s = Empty
                THEN [n |-> n, bm |-> {}, mask |-> {}, taint |-> FALSE, age |-> 0] ELSE s
        last == n \in Amsdus /\ k = 2
    IN  [old EXCEPT !.bm   = IF n \in Amsdus THEN @ \cup {k} \cup (IF last THEN {0} ELSE {}) ELSE @,
                    !.mask = IF last THEN 0 .. k ELSE @,
                    !.taint = @ \/ (n \in Tainted /\ k = 1)]

\* is the frame already there?
Duplicate(s, n, k) == s # Empty /\ (n \in Amsdus => k \in s.bm)

\* the last lines of skw_ampdu_reorder: release what is ready, or start a timer
Finish(p, sn, kept) ==
    IF p.t.stored = 0 THEN [p EXCEPT !.tm.on = FALSE]
    ELSE IF p.rel THEN ReorderRelease(p)
    ELSE [p EXCEPT !.arm = IF kept THEN sn ELSE NoSn]

\* mutant: the window does not advance
PassOnStay(p, j) ==
    [p EXCEPT !.t.buf[j] = Empty, !.rel = TRUE, !.out = Append(@, p.t.buf[j].n),
              !.tm.on = @ /\ p.tm.sn # p.t.ws]

\* the frame the window waits for has come: pass it on, move the window
PassOn(p, j) ==
    [p EXCEPT !.t.buf[j] = Empty, !.t.ws = SnInc(@), !.rel = TRUE,
              !.out = Append(@, p.t.buf[j].n), !.tm.on = @ /\ p.tm.sn # p.t.ws]

StoreFrame(p, n, k) ==
    LET sn   == n % SnMod
        j    == sn % WinSize
        s    == p.t.buf[j]
        m    == Merge(s, n, k)
        add  == IF s = Empty THEN 1 ELSE 0
        kept == [p EXCEPT !.t.buf[j] = m]
    IN  CASE Duplicate(s, n, k) -> Finish(p, sn, FALSE)
          [] ~Duplicate(s, n, k) /\ ~Ready(m) ->
                Finish([kept EXCEPT !.t.stored = @ + add], sn, TRUE)
          [] ~Duplicate(s, n, k) /\ Ready(m) /\ m.taint ->
                Finish([kept EXCEPT !.t.buf[j] = Empty, !.t.ws = SnInc(@),
                                   !.t.stored = @ + add - 1], sn, FALSE)
          [] ~Duplicate(s, n, k) /\ Ready(m) /\ ~m.taint /\ sn = p.t.ws ->
                Finish(PassOn([kept EXCEPT !.t.stored = @ - (1 - add)], j), sn, TRUE)
          [] OTHER -> Finish([kept EXCEPT !.t.stored = @ + add], sn, TRUE)

Arrives(n, k) ==
    /\ rx.pc = "idle"
    /\ n \in sender.base .. sender.base + BufSize - 1 /\ n <= MaxN /\ k \in SubFrames(n)
    /\ sender' = [sender EXCEPT !.arrived = @ \cup {n}]

RxFrame(n, k) ==
    /\ Arrives(n, k) /\ tid # NoTid
    /\ LET sn == n % SnMod
           p  == [Pass(tid, timer, <<>>) EXCEPT !.rel = FALSE]
       IN  EndPass(IF SnLess(sn, tid.ws) THEN Finish(p, sn, FALSE)
                   ELSE StoreFrame(Push(p, sn), n, k))
    /\ UNCHANGED <<zombie, refCnt, todo, evt>>

\* no session: the frame goes straight up
RxDirect(n, k) ==
    /\ Arrives(n, k) /\ tid = NoTid
    /\ DeliverNothing
    /\ UNCHANGED <<tid, zombie, refCnt, timer, todo, rx, evt>>

\* skw_set_reorder_timer past its guards: mod_timer, or the frame has waited
\* long enough and the window is put on the todo list at once
RxArm ==
    /\ rx.pc = "arm" /\ rx' = RxIdle
    /\ LET t == IF tid # NoTid /\ tid.ref = rx.ref THEN tid ELSE zombie
           s == t.buf[rx.sn % WinSize]
       IN  IF s.age < Timeout
           THEN /\ timer' = [on |-> TRUE, left |-> Timeout - s.age, sn |-> rx.sn, ref |-> t.ref]
                /\ UNCHANGED todo
           ELSE /\ todo' = IF todo.actived THEN todo
                           ELSE [actived |-> TRUE, queued |-> TRUE, seq |-> rx.sn, bar |-> FALSE]
                /\ UNCHANGED timer
    /\ DeliverNothing
    /\ UNCHANGED <<tid, zombie, refCnt, evt, sender>>

\* skw_rx_todo, first half: under todo.lock and rcu_read_lock
RxTodo ==
    /\ rx.pc = "idle" /\ todo.queued
    /\ todo' = [todo EXCEPT !.queued = FALSE, !.actived = FALSE]
    /\ rx' = [rx EXCEPT !.pc = "todo"]
    /\ IF tid = NoTid THEN UNCHANGED <<tid, timer>> /\ DeliverNothing
       ELSE \E p \in {ForceRelease(Pass(tid, timer, <<>>), todo.seq)} :
                tid' = p.t /\ timer' = p.tm /\ Deliver(p.out)
    /\ UNCHANGED <<zombie, refCnt, evt, sender>>

\* mutant: the second half does not look for further frames
RxTodoReleaseNothing ==
    /\ rx.pc = "todo" /\ rx' = RxIdle /\ DeliverNothing
    /\ UNCHANGED <<tid, timer, zombie, refCnt, todo, evt, sender>>

\* second half, after the locks were dropped: skw_reorder_release
RxTodoRelease ==
    /\ rx.pc = "todo"
    /\ IF tid = NoTid
       THEN rx' = RxIdle /\ DeliverNothing /\ UNCHANGED <<tid, timer>>
       ELSE \E p \in {ReorderRelease(Pass(tid, timer, <<>>))} : EndPass(p)
    /\ UNCHANGED <<zombie, refCnt, todo, evt, sender>>

-----------------------------------------------------------------------------
(* The kernel timer, and time itself                                       *)

Older(t) == IF t = NoTid THEN t
            ELSE [t EXCEPT !.buf = [i \in Index |-> IF @[i] = Empty \/ @[i].age > Timeout THEN @[i]
                                                   ELSE [@[i] EXCEPT !.age = @ + 1]]]

Tick ==
    /\ tid' = Older(tid) /\ zombie' = Older(zombie)
    /\ timer' = IF timer.on /\ timer.left > 0 THEN [timer EXCEPT !.left = @ - 1] ELSE timer
    /\ <<tid', zombie', timer'>> # <<tid, zombie, timer>>
    /\ DeliverNothing
    /\ UNCHANGED <<refCnt, todo, rx, evt, sender>>

\* mutant: the timer callback forgets to link the todo entry
TimerFireNoQueue ==
    /\ timer.on /\ timer.left = 0
    /\ timer' = [timer EXCEPT !.on = FALSE]
    /\ DeliverNothing
    /\ UNCHANGED <<tid, zombie, refCnt, todo, rx, evt, sender>>

\* skw_reorder_timeout
TimerFire ==
    /\ timer.on /\ timer.left = 0
    /\ timer' = [timer EXCEPT !.on = FALSE]
    /\ todo' = IF timer.ref # refCnt \/ todo.actived THEN todo
               ELSE [actived |-> TRUE, queued |-> TRUE, seq |-> timer.sn, bar |-> FALSE]
    /\ DeliverNothing
    /\ UNCHANGED <<tid, zombie, refCnt, rx, evt, sender>>

-----------------------------------------------------------------------------
(* Block-ack sessions: skw_event_ba_action in the event worker            *)

\* skw_add_tid_rx; the peer proposes the number of the next frame it will send
AddTidRx ==
    /\ evt = "idle" /\ tid = NoTid /\ sender.sessions < MaxSessions
    /\ sender.arrived = {}
    /\ tid' = NewTid(sender.base % SnMod)
    /\ todo' = [todo EXCEPT !.seq = 0, !.actived = FALSE, !.bar = FALSE]
    /\ sender' = [sender EXCEPT !.sessions = @ + 1]
    /\ DeliverNothing
    /\ UNCHANGED <<zombie, refCnt, timer, rx, evt>>

\* skw_update_tid_rx: the sequence number of a pending todo is overwritten
UpdateTidRx ==
    /\ evt = "idle" /\ tid # NoTid /\ sender.bars < MaxBars
    /\ todo' = [actived |-> TRUE, queued |-> todo.queued \/ ~todo.actived,
                seq |-> sender.base % SnMod, bar |-> TRUE]
    /\ sender' = [sender EXCEPT !.bars = @ + 1]
    /\ DeliverNothing
    /\ UNCHANGED <<tid, zombie, refCnt, timer, rx, evt>>

\* skw_del_tid_rx takes the todo entry off the list ...
DelTidRxUnlink ==
    /\ evt = "idle" /\ tid # NoTid /\ zombie = NoTid /\ evt' = "del"
    /\ todo' = [todo EXCEPT !.queued = FALSE]
    /\ DeliverNothing
    /\ UNCHANGED <<tid, zombie, refCnt, timer, rx, sender>>

\* ... and then detaches the window and stops the timer
DelTidRxDetach ==
    /\ evt = "del" /\ evt' = "idle"
    /\ tid' = NoTid /\ zombie' = tid
    /\ refCnt' = refCnt + 1
    /\ timer' = [timer EXCEPT !.on = FALSE]
    /\ DeliverNothing
    /\ UNCHANGED <<todo, rx, sender>>

\* skw_free_tid_rx, after a grace period: what is still stored is delivered
FreeTidRx ==
    /\ zombie # NoTid /\ rx.pc = "idle"
    /\ LET p == ForceRelease(Pass(zombie, timer, <<>>), (zombie.ws + WinSize - 1) % SnMod)
       IN  Deliver(p.out) /\ timer' = p.tm
    /\ zombie' = NoTid
    /\ UNCHANGED <<tid, refCnt, todo, rx, evt, sender>>

\* the peer gives up on, or has an acknowledgement for, its oldest frame
SenderAdvance ==
    /\ sender.base < MaxN
    /\ sender.base \in sender.arrived \/ sender.lost < MaxLost
    /\ sender' = [sender EXCEPT !.base = @ + 1,
                                !.lost = IF sender.base \in sender.arrived THEN @ ELSE @ + 1,
                                !.arrived = @ \ {sender.base}]
    /\ DeliverNothing
    /\ UNCHANGED <<tid, zombie, refCnt, timer, todo, rx, evt>>

-----------------------------------------------------------------------------
RxThread == RxArm \/ RxTodo \/ RxTodoRelease
EventWorker == AddTidRx \/ UpdateTidRx \/ DelTidRxUnlink \/ DelTidRxDetach

Next ==
    \/ \E n \in Start .. MaxN : \E k \in SubFrames(n) : RxFrame(n, k) \/ RxDirect(n, k)
    \/ RxThread \/ Tick \/ TimerFire \/ EventWorker \/ FreeTidRx \/ SenderAdvance

Spec == Init /\ [][Next]_vars

\* Time passes, the timer softirq runs, the rx thread is scheduled and a
\* teardown that has begun is finished; the peer and the firmware owe nothing.
FairSpec ==
    Spec /\ WF_vars(Tick) /\ WF_vars(TimerFire) /\ WF_vars(RxThread) /\ WF_vars(DelTidRxDetach)

-----------------------------------------------------------------------------
(* Properties                                                              *)

\* Frames of a session go up the stack in strictly increasing sequence order, hence
\* each at most once, across losses, retransmissions, timeouts, block-ack requests
\* and the teardown of the session.
InOrder ==
    /\ \A i \in 1 .. Len(dlv) : dlv[i] > hi
    /\ \A i, j \in 1 .. Len(dlv) : i < j => dlv[i] < dlv[j]

\* stored_num counts the occupied slots: the release loops stop, and the timer is
\* deleted, on stored_num = 0.
StoredCount ==
    \A t \in {tid, zombie} \ {NoTid} : t.stored = Cardinality(Occupied(t))

\* A stored frame sits in the slot of its own sequence number, inside the window.
InWindow ==
    tid # NoTid =>
        \A i \in Occupied(tid) :
            LET sn == tid.buf[i].n % SnMod
            IN  i = sn % WinSize /\ (sn - tid.ws) % SnMod < WinSize

\* While frames wait in the window of a live session somebody will come back for
\* them: a pending timer that this session will honour, the todo list, or the rx
\* thread itself ("else reset timer" above skw_reorder_release).
StoredHasTimer ==
    tid # NoTid /\ evt = "idle" /\ Occupied(tid) # {} =>
        \/ timer.on /\ timer.ref = refCnt
        \/ todo.queued
        \/ rx.pc # "idle"

\* The window moves past a number the peer may still send, and which has not come,
\* only when some stored frame has waited for the reorder timeout or on a block-ack
\* request: a frame that is merely late is not thrown away.
SkipStep ==
    \A n \in sender.base .. sender.base + BufSize - 1 :
        /\ tid # NoTid /\ tid' # NoTid /\ n \notin Numbers(tid)
        /\ ~SnLess(n % SnMod, tid.ws) /\ SnLess(n % SnMod, tid'.ws)
        => \/ n \in ToSet(dlv')
           \/ \E i \in Occupied(tid) : tid.buf[i].age >= Timeout
           \/ rx.pc = "idle" /\ todo.queued /\ todo.bar

\* Every stored frame leaves the window sooner or later, though the hole in front of
\* it is never filled and nothing else arrives.
Emptied == tid = NoTid \/ Numbers(tid) = {}
StoredReleased == []<>Emptied
=============================================================================
