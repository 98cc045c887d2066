------------------------------ MODULE SkwOffch ------------------------------
(***************************************************************************)
(* What one interface is asked to do beside its connection: stay on a      *)
(* channel, send management frames (a long one goes to the firmware in     *)
(* pieces), scheduled scans, background scans after a weak signal, channel *)
(* switches and channel surveys.  The user's operations run one at a time  *)
(* (cfg80211 holds the wiphy lock); the event work, the timer and the      *)
(* interface worker run beside them, and the driver's own replies to       *)
(* stations (skw_mlme.c) are sent without mgmt_cmd_lock.                   *)
(***************************************************************************)
EXTENDS Integers, FiniteSets, SequencesExt

CONSTANTS
    Loads,   \* records: user (operations in order), fw (events the firmware may raise by itself), mlme (replies), fails
    Pieces   \* commands a frame longer than one command is sent in

VARIABLES
    load,    \* what happens in this behaviour
    cookie,  \* skw_cookie, counted by skw_tx_cookie
    user,    \* the user's operation: at (its number), pc, piece, own (cookie so far)
    asked,   \* operations the user was told succeeded: op and cookie
    told,    \* what cfg80211 was told, in order: t, c and more
    wire,    \* frames handed to the firmware: f (which), k (piece) and of (pieces)
    air,     \* firmware: cookies of frames whose status is owed
    roc,     \* firmware: cookie it stays on a channel for, or 0
    evq,     \* events on their way to the event work, in order
    ev,      \* event work: pc, and the survey list head it saw
    work,    \* SKW_WORK_SPLIT_MGMT_TX_STATUS items of the interface worker
    sched,   \* scheduled scan: req (sched_scan_req or 0), cfg (what cfg80211 keeps), fw (what runs), last
    cqm,     \* CQM_LOW flag, its timer in the list, its callback taken by skw_timer_work
    link,    \* carrier, chan (driver), fw (firmware), phase of a switch, off (channels now disabled)
    survey,  \* survey_list, newest first, and what dump_survey returned
    odd      \* what the code gives up or gets wrong, see OffchSound

vars == <<load, cookie, user, asked, told, wire, air, roc, evq, ev, work, sched, cqm, link, survey, odd>>

Init ==
    /\ load \in Loads /\ cookie = 0 /\ user = [at |-> 1, pc |-> "idle", piece |-> 1, own |-> 0]
    /\ asked = {} /\ told = <<>> /\ wire = <<>> /\ air = {} /\ roc = 0 /\ evq = <<>> /\ ev = [pc |-> "idle", head |-> 0]
    /\ work = <<>> /\ sched = [req |-> 0, cfg |-> 0, fw |-> 0, last |-> 0] /\ cqm = [flag |-> FALSE, timer |-> FALSE, cb |-> FALSE]
    /\ link = [carrier |-> TRUE, chan |-> 1, fw |-> 1, phase |-> "none", off |-> {}]
    /\ survey = [list |-> <<>>, dumped |-> <<>>, made |-> 0] /\ odd = {}

Ops == user.at <= Len(load.user)
Op == load.user[user.at]
Return == user' = [at |-> user.at + 1, pc |-> "idle", piece |-> 1, own |-> 0]
Starts(op) == user.pc = "idle" /\ Ops /\ Op = op
Raised(s) == odd' = odd \cup s
If(c, flag) == IF c THEN {flag} ELSE {}

\* skw_msg_xmit: the firmware acts and answers, never hears of it, or acts while the host gives up
Results == {"ok"} \cup (IF load.fails > 0 THEN {"lost", "late"} ELSE {})
Used(r) == load' = IF r = "ok" THEN load ELSE [load EXCEPT !.fails = @ - 1]
Acts(r) == r # "lost"

(* Remain on channel *)

\* skw_remain_on_channel; a firmware that is on a channel already leaves it
RemainOnChannel(r) ==
    /\ Starts("roc") /\ Used(r) /\ cookie' = cookie + 1
    /\ IF Acts(r)
       THEN /\ roc' = cookie + 1
            /\ evq' = evq \o (IF roc # 0 THEN <<[t |-> "expired", c |-> roc]>> ELSE <<>>) \o <<[t |-> "ready", c |-> cookie + 1]>>
       ELSE UNCHANGED <<roc, evq>>
    /\ asked' = asked \cup (IF r = "ok" THEN {[op |-> "roc", c |-> cookie + 1]} ELSE {})
    /\ Return /\ Raised(If(Acts(r) /\ roc # 0, "replaced") \cup If(r = "late", "late"))
    /\ UNCHANGED <<told, wire, air, ev, work, sched, cqm, link, survey>>

\* skw_cancel_roc does not look at the cookie: whatever is current ends
CancelRoc(c, r) ==
    /\ Starts("cancel") /\ [op |-> "roc", c |-> c] \in asked /\ Used(r)
    /\ IF Acts(r) /\ roc # 0
       THEN roc' = 0 /\ evq' = Append(evq, [t |-> "expired", c |-> roc]) /\ Raised(If(roc # c, "other"))
       ELSE UNCHANGED <<roc, evq, odd>>
    /\ asked' = asked \cup {[op |-> "cancel", c |-> c]}
    /\ Return /\ UNCHANGED <<cookie, told, wire, air, ev, work, sched, cqm, link, survey>>

\* the firmware's time on the channel is over
RocOver ==
    /\ roc # 0 /\ roc' = 0 /\ evq' = Append(evq, [t |-> "expired", c |-> roc])
    /\ asked' = asked \cup {[op |-> "over", c |-> roc]}
    /\ UNCHANGED <<load, cookie, user, told, wire, air, ev, work, sched, cqm, link, survey, odd>>

(* Management frames *)

\* skw_mgmt_tx: every call has a cookie of its own; a status follows unless the frame is sent without waiting for it
MgmtTx(r, piece, wait) ==
    /\ Used(r) /\ cookie' = cookie + 1
    /\ wire' = IF Acts(r) THEN Append(wire, piece) ELSE wire
    /\ air' = IF Acts(r) /\ wait THEN air \cup {cookie + 1} ELSE air

\* __skw_cfg80211_mgmt_tx of a frame that fits one command
MgmtShort(r) ==
    /\ Starts("short") /\ MgmtTx(r, [f |-> user.at, k |-> 1, of |-> 1], TRUE)
    /\ asked' = asked \cup (IF r = "ok" THEN {[op |-> "frame", c |-> cookie + 1]} ELSE {})
    /\ Return /\ Raised(If(r = "late", "late"))
    /\ UNCHANGED <<told, roc, evq, ev, work, sched, cqm, link, survey>>

\* a longer frame: pieces without waiting, given up at the first that fails
MgmtLong(r) ==
    /\ Ops /\ Op = "long" /\ user.pc \in {"idle", "pieces"} /\ MgmtTx(r, [f |-> user.at, k |-> user.piece, of |-> Pieces], FALSE)
    /\ IF r # "ok" THEN Return
       ELSE user' = [user EXCEPT !.piece = @ + 1, !.own = cookie + 1, !.pc = IF user.piece = Pieces THEN "status" ELSE "pieces"]
    /\ Raised(If(r # "ok" /\ (user.piece > 1 \/ Acts(r)), "partial"))
    /\ UNCHANGED <<asked, told, roc, evq, ev, work, sched, cqm, link, survey>>

\* mutant: the caller is answered, its status is not queued
MgmtLongNoStatus(ok) ==
    /\ user.pc = "status" /\ ok
    /\ asked' = asked \cup {[op |-> "frame", c |-> user.own]} /\ UNCHANGED <<work, odd, load>>
    /\ Return /\ UNCHANGED <<cookie, told, wire, air, roc, evq, ev, sched, cqm, link, survey>>

\* its status is made up: queued for the worker, which says the frame was acknowledged
MgmtLongStatus(ok) ==
    /\ user.pc = "status" /\ (ok \/ load.fails > 0)
    /\ \/ ok /\ work' = Append(work, user.own) /\ asked' = asked \cup {[op |-> "frame", c |-> user.own]} /\ UNCHANGED <<odd, load>>
       \/ ~ok /\ load' = [load EXCEPT !.fails = @ - 1] /\ UNCHANGED work
          /\ \/ Raised({"denied"}) /\ UNCHANGED asked                                           \* no memory: sent, and refused
             \/ Raised({"nostatus"}) /\ asked' = asked \cup {[op |-> "frame", c |-> user.own]}   \* skw_queue_work failed
    /\ Return /\ UNCHANGED <<cookie, told, wire, air, roc, evq, ev, sched, cqm, link, survey>>

\* a radio measurement report: cut between its elements into frames of their own; the result the caller sees is 0
MgmtRrm(r) ==
    /\ Ops /\ Op = "rrm" /\ user.pc \in {"idle", "pieces"} /\ MgmtTx(r, [f |-> user.at, k |-> 1, of |-> 1], TRUE)
    /\ IF user.piece = Pieces
       THEN Return /\ asked' = asked \cup {[op |-> "frame", c |-> cookie + 1]}
       ELSE user' = [user EXCEPT !.piece = @ + 1, !.pc = "pieces"] /\ UNCHANGED asked
    /\ Raised(If(user.piece < Pieces, "unasked") \cup If(r # "ok", "claimed"))
    /\ UNCHANGED <<told, roc, evq, ev, work, sched, cqm, link, survey>>

\* the same without memory for its copy: nothing is sent, the result is 0 and the cookie is not set
MgmtRrmNoMem ==
    /\ Starts("rrm") /\ load.fails > 0 /\ load' = [load EXCEPT !.fails = @ - 1]
    /\ asked' = asked \cup {[op |-> "frame", c |-> 0]} /\ Raised({"claimed"}) /\ Return
    /\ UNCHANGED <<cookie, told, wire, air, roc, evq, ev, work, sched, cqm, link, survey>>

\* a reply of skw_mlme.c, which does not take mgmt_cmd_lock
MlmeReply ==
    /\ load.mlme > 0 /\ load' = [load EXCEPT !.mlme = @ - 1] /\ cookie' = cookie + 1
    /\ wire' = Append(wire, [f |-> 0, k |-> 1, of |-> 1])
    /\ Raised(If(user.pc = "pieces", "between"))
    /\ UNCHANGED <<user, asked, told, air, roc, evq, ev, work, sched, cqm, link, survey>>

\* the firmware has sent a frame, or has given it up
FwStatus(c, ack) ==
    /\ c \in air /\ air' = air \ {c} /\ evq' = Append(evq, [t |-> "status", c |-> c, ack |-> ack])
    /\ UNCHANGED <<load, cookie, user, asked, told, wire, roc, ev, work, sched, cqm, link, survey, odd>>

\* skw_work_process of a split frame's status
SplitStatus ==
    /\ work # <<>> /\ work' = Tail(work)
    /\ told' = Append(told, [t |-> "status", c |-> work[1], ack |-> TRUE])
    /\ UNCHANGED <<load, cookie, user, asked, wire, air, roc, evq, ev, sched, cqm, link, survey, odd>>

(* Scheduled scan *)

\* skw_cfg80211_sched_scan_start: the request is published before the command; cfg80211 keeps one at a time
SchedStart ==
    /\ Starts("start") /\ sched.cfg = 0
    /\ sched' = [sched EXCEPT !.req = sched.last + 1, !.last = @ + 1]
    /\ user' = [user EXCEPT !.pc = "start"]
    /\ Raised(If(sched.fw # 0 \/ \E i \in DOMAIN evq : evq[i].t = "sched", "requeued"))
    /\ UNCHANGED <<load, cookie, asked, told, wire, air, roc, evq, ev, work, cqm, link, survey>>

SchedStarted(r) ==
    /\ user.pc = "start" /\ Used(r)
    /\ sched' = [sched EXCEPT !.req = IF r = "ok" THEN @ ELSE 0, !.cfg = IF r = "ok" THEN sched.req ELSE 0,
                              !.fw = IF Acts(r) THEN sched.req ELSE @]
    /\ Raised(If(r # "ok" /\ ev.pc = "sched", "raced") \cup If(r = "late", "ghost"))
    /\ Return /\ UNCHANGED <<cookie, asked, told, wire, air, roc, evq, ev, work, cqm, link, survey>>

\* skw_sched_scan_stop: without a request nothing is sent; cfg80211 keeps a request whose stop failed
SchedStop(r) ==
    /\ Starts("stop") /\ sched.cfg # 0
    /\ IF sched.req = 0 THEN sched' = [sched EXCEPT !.cfg = 0] /\ UNCHANGED <<load, odd>>
       ELSE /\ Used(r)
            /\ sched' = [sched EXCEPT !.req = 0, !.cfg = IF r = "ok" THEN 0 ELSE @, !.fw = IF Acts(r) THEN 0 ELSE @]
            /\ Raised(If(ev.pc = "sched", "raced") \cup If(r = "lost", "orphan") \cup If(r = "late", "kept"))
    /\ Return /\ UNCHANGED <<cookie, asked, told, wire, air, roc, evq, ev, work, cqm, link, survey>>

FwSched ==
    /\ "sched" \in load.fw /\ sched.fw # 0 /\ load' = [load EXCEPT !.fw = @ \ {"sched"}]
    /\ evq' = Append(evq, [t |-> "sched", c |-> sched.fw])
    /\ UNCHANGED <<cookie, user, asked, told, wire, air, roc, ev, work, sched, cqm, link, survey, odd>>

(* Weak signal *)

\* mutant: the timer of a served warning stays in the list
CqmBgScanTimer ==
    /\ Starts("scan") /\ Return
    /\ IF cqm.flag THEN cqm' = [cqm EXCEPT !.flag = FALSE] /\ Raised(If(cqm.cb, "crossed"))
       ELSE UNCHANGED <<cqm, odd>>
    /\ UNCHANGED <<load, cookie, asked, told, wire, air, roc, evq, ev, work, sched, link, survey>>

\* skw_cqm_bg_scan: the first scan after the warning looks at the announced channel only
CqmBgScan ==
    /\ Starts("scan") /\ Return
    /\ IF cqm.flag THEN cqm' = [cqm EXCEPT !.flag = FALSE, !.timer = FALSE] /\ Raised(If(cqm.cb, "crossed"))
       ELSE UNCHANGED <<cqm, odd>>
    /\ UNCHANGED <<load, cookie, asked, told, wire, air, roc, evq, ev, work, sched, link, survey>>

\* skw_timer_work takes the timer off the list, later skw_cqm_scan_timeout runs
CqmTimeout ==
    /\ \/ cqm.timer /\ ~cqm.cb /\ cqm' = [cqm EXCEPT !.timer = FALSE, !.cb = TRUE]
       \/ cqm.cb /\ cqm' = [cqm EXCEPT !.cb = FALSE, !.flag = FALSE]
    /\ UNCHANGED <<load, cookie, user, asked, told, wire, air, roc, evq, ev, work, sched, link, survey, odd>>

\* the firmware warns of a weak signal, whether or not set_cqm asked for a threshold
FwCqm(e) ==
    /\ e \in load.fw \cap {"low1", "low2", "low3"} /\ load' = [load EXCEPT !.fw = @ \ {e}]
    /\ evq' = Append(evq, [t |-> "low", c |-> 0])
    /\ UNCHANGED <<cookie, user, asked, told, wire, air, roc, ev, work, sched, cqm, link, survey, odd>>

(* Channel switch *)

\* skw_channel_switch: only a request
ChannelSwitch(r) ==
    /\ Starts("csa") /\ Used(r) /\ Return
    /\ IF Acts(r) /\ link.phase = "none" THEN link' = [link EXCEPT !.phase = "asked"] ELSE UNCHANGED link
    /\ UNCHANGED <<cookie, asked, told, wire, air, roc, evq, ev, work, sched, cqm, survey, odd>>

\* the firmware announces the switch and reports its end, for a request or for its access point
FwCsa ==
    /\ \/ /\ link.phase = "asked" \/ (link.phase = "none" /\ "csa" \in load.fw)
          /\ load' = IF link.phase = "none" THEN [load EXCEPT !.fw = @ \ {"csa"}] ELSE load
          /\ link' = [link EXCEPT !.phase = "switching"] /\ evq' = Append(evq, [t |-> "csa", c |-> 3 - link.fw])
       \/ /\ link.phase = "switching" /\ UNCHANGED load
          /\ link' = [link EXCEPT !.phase = "none", !.fw = 3 - @] /\ evq' = Append(evq, [t |-> "csadone", c |-> 3 - link.fw])
    /\ UNCHANGED <<cookie, user, asked, told, wire, air, roc, ev, work, sched, cqm, survey, odd>>

\* another regulatory domain disables the second channel
RegdChange ==
    /\ Starts("regd") /\ link' = [link EXCEPT !.off = {2}] /\ Return
    /\ UNCHANGED <<load, cookie, asked, told, wire, air, roc, evq, ev, work, sched, cqm, survey, odd>>

(* Survey *)

FwAcs(e) ==
    /\ e \in load.fw \cap {"acs1", "acs2"} /\ load' = [load EXCEPT !.fw = @ \ {e}]
    /\ survey' = [survey EXCEPT !.made = @ + 1] /\ evq' = Append(evq, [t |-> "acs", c |-> survey.made + 1])
    /\ UNCHANGED <<cookie, user, asked, told, wire, air, roc, ev, work, sched, cqm, link, odd>>

\* skw_dump_survey takes the newest entry, without a lock
DumpSurvey ==
    /\ Starts("survey") /\ Return
    /\ IF survey.list = <<>> THEN UNCHANGED <<survey, odd>>
       ELSE /\ survey' = [survey EXCEPT !.list = Tail(@), !.dumped = Append(@, survey.list[1])]
            /\ Raised(If(ev.pc = "acs", "torn"))
    /\ UNCHANGED <<load, cookie, asked, told, wire, air, roc, evq, ev, work, sched, cqm, link>>

(* Events *)

Head1 == evq[1]
Taken == evq' = Tail(evq)
Event(t) == ev.pc = "idle" /\ evq # <<>> /\ Head1.t = t

\* skw_event_enter_roc, skw_event_cancel_roc, skw_event_mgmt_tx_status: passed on as they are
EvPassed ==
    /\ \E t \in {"ready", "expired", "status"} : Event(t)
    /\ told' = Append(told, Head1) /\ Taken
    /\ UNCHANGED <<load, cookie, user, asked, wire, air, roc, ev, work, sched, cqm, link, survey, odd>>

\* skw_event_sched_scan_done looks at the request and then reads its id
EvSchedCheck ==
    /\ Event("sched")
    /\ IF sched.req = 0 THEN Taken /\ UNCHANGED ev ELSE ev' = [ev EXCEPT !.pc = "sched"] /\ UNCHANGED evq
    /\ UNCHANGED <<load, cookie, user, asked, told, wire, air, roc, work, sched, cqm, link, survey, odd>>

EvSchedRead ==
    /\ ev.pc = "sched" /\ ev' = [ev EXCEPT !.pc = "idle"] /\ Taken
    /\ told' = Append(told, [t |-> "sched", c |-> sched.req, of |-> Head1.c])      \* 0: the request is gone
    /\ UNCHANGED <<load, cookie, user, asked, wire, air, roc, work, sched, cqm, link, survey, odd>>

\* skw_event_cqm: a pending id is a bug, a timer that cannot be added is not noticed
EvCqm(ok) ==
    /\ Event("low") /\ Taken
    /\ IF cqm.flag THEN UNCHANGED <<cqm, odd, load>>
       ELSE \/ /\ ok /\ cqm' = [cqm EXCEPT !.flag = TRUE, !.timer = TRUE]
               /\ Raised(If(cqm.timer, "twice")) /\ UNCHANGED load
            \/ /\ ~ok /\ load.fails > 0 /\ load' = [load EXCEPT !.fails = @ - 1]
               /\ cqm' = [cqm EXCEPT !.flag = TRUE] /\ Raised({"notimer"})
    /\ UNCHANGED <<cookie, user, asked, told, wire, air, roc, ev, work, sched, link, survey>>

\* skw_chbw_to_cfg80211_chan_def
ChanKnown(c) == c \notin link.off

\* skw_event_chan_switch
EvChanSwitch ==
    /\ \E t \in {"csa", "csadone"} : Event(t)
    /\ Taken
    /\ IF ~ChanKnown(Head1.c) THEN Raised({"dropped"}) /\ UNCHANGED link
       ELSE /\ link' = IF Head1.t = "csa" THEN [link EXCEPT !.carrier = FALSE] ELSE [link EXCEPT !.carrier = TRUE, !.chan = Head1.c]
            /\ UNCHANGED odd
    /\ UNCHANGED <<load, cookie, user, asked, told, wire, air, roc, ev, work, sched, cqm, survey>>

\* skw_event_acs_report: list_add sees the first entry, then links the new one in front of it
EvAcs ==
    /\ \/ /\ Event("acs") /\ ev' = [pc |-> "acs", head |-> Len(survey.list)] /\ UNCHANGED <<evq, survey>>
       \/ /\ ev.pc = "acs" /\ ev' = [pc |-> "idle", head |-> 0] /\ Taken
          /\ \E l \in {<<Head1.c>> \o survey.list} \cup (IF ev.head = Len(survey.list) THEN {} ELSE {survey.list, <<Head1.c>>}) :
                survey' = [survey EXCEPT !.list = l]                     \* the entry it links to may be gone
    /\ UNCHANGED <<load, cookie, user, asked, told, wire, air, roc, work, sched, cqm, link, odd>>

EventWork == EvPassed \/ EvSchedCheck \/ EvSchedRead \/ (\E ok \in BOOLEAN : EvCqm(ok)) \/ EvChanSwitch \/ EvAcs

UserStep ==
    \/ \E r \in Results :
          \/ RemainOnChannel(r) \/ (\E c \in 1 .. cookie : CancelRoc(c, r)) \/ MgmtShort(r) \/ MgmtLong(r) \/ MgmtRrm(r)
          \/ SchedStarted(r) \/ SchedStop(r) \/ ChannelSwitch(r)
    \/ \E ok \in BOOLEAN : MgmtLongStatus(ok)
    \/ MgmtRrmNoMem \/ SchedStart \/ CqmBgScan \/ RegdChange \/ DumpSurvey

Firmware == (\E c \in air, ack \in BOOLEAN : FwStatus(c, ack)) \/ FwCsa

Next ==
    \/ UserStep \/ EventWork \/ Firmware \/ RocOver \/ MlmeReply \/ SplitStatus \/ CqmTimeout \/ FwSched
    \/ \E e \in load.fw : FwCqm(e) \/ FwAcs(e)

\* operations run to their end; the works and the timer run; the firmware reports each frame and ends each switch
Fairness ==
    /\ WF_vars(UserStep) /\ WF_vars(EventWork) /\ WF_vars(SplitStatus) /\ WF_vars(CqmTimeout) /\ WF_vars(Firmware)
Spec == Init /\ [][Next]_vars /\ Fairness

Flags == {"replaced", "late", "other", "partial", "denied", "nostatus", "unasked", "claimed", "between", "requeued", "raced",
          "ghost", "orphan", "kept", "crossed", "twice", "notimer", "dropped", "torn"}

(* Properties *)
TypeOK ==
    /\ cookie \in Nat /\ user.at \in 1 .. Len(load.user) + 1 /\ user.pc \in {"idle", "pieces", "status", "start"}
    /\ roc \in 0 .. cookie /\ air \subseteq 1 .. cookie /\ ev.pc \in {"idle", "sched", "acs"} /\ odd \subseteq Flags
    /\ cqm \in [flag : BOOLEAN, timer : BOOLEAN, cb : BOOLEAN] /\ link.chan \in 1 .. 2 /\ link.fw \in 1 .. 2

ToldOf(t, c) == {i \in DOMAIN told : told[i].t = t /\ told[i].c = c}

\* Each stay on a channel is announced once and ended once, after that, for a reason of its own
RocOrdered == \A c \in 1 .. cookie :
    /\ Cardinality(ToldOf("ready", c)) <= 1 /\ Cardinality(ToldOf("expired", c)) <= 1
    /\ \A i \in ToldOf("expired", c) : (\E j \in ToldOf("ready", c) : j < i)
        /\ ((\E a \in asked : a.c = c /\ a.op \in {"cancel", "over"}) \/ odd \cap {"replaced", "other"} # {})

\* The firmware gets the pieces of a long frame one behind the other
PiecesTogether == \A i \in DOMAIN wire :
    wire[i].k < wire[i].of /\ i < Len(wire) =>
        wire[i + 1] = [wire[i] EXCEPT !.k = @ + 1] \/ odd \cap {"partial", "between"} # {}

\* A frame has one status at most, and only frames the user was promised one for have any
StatusesAsked == \A i \in DOMAIN told : told[i].t = "status" =>
    /\ Cardinality(ToldOf("status", told[i].c)) = 1
    /\ [op |-> "frame", c |-> told[i].c] \in asked \/ odd \cap {"late", "unasked"} # {}

\* Results are reported for a request that exists, the one the firmware scanned for
SchedHonest ==
    /\ \A i \in DOMAIN told : told[i].t = "sched" =>
        (told[i].c = told[i].of) \/ (told[i].c = 0 /\ "raced" \in odd) \/ odd \cap {"requeued", "ghost"} # {}
    /\ user.pc # "start" => (sched.req = sched.cfg \/ odd \cap {"orphan", "kept"} # {}) /\ (sched.fw = sched.cfg \/ odd \cap {"orphan", "ghost", "kept"} # {})

\* The warning is remembered exactly as long as its timer is to run out
CqmAgrees ==
    /\ cqm.flag => cqm.timer \/ cqm.cb \/ "notimer" \in odd
    /\ cqm.timer => cqm.flag \/ "crossed" \in odd
    /\ "twice" \in odd => "crossed" \in odd

\* With no switch under way the carrier is on and driver and firmware are on one channel
SwitchAgrees ==
    link.phase = "none" /\ (\A i \in DOMAIN evq : evq[i].t \notin {"csa", "csadone"}) =>
        (link.carrier /\ link.chan = link.fw) \/ "dropped" \in odd

\* No survey entry is returned twice or lost
SurveyKept ==
    LET had == ToSet(survey.list) \cup ToSet(survey.dumped) \cup {evq[i].c : i \in {i \in DOMAIN evq : evq[i].t = "acs"}} IN
    "torn" \in odd \/ (had = 1 .. survey.made /\ IsInjective(survey.list \o survey.dumped))

OffchSound ==
    TypeOK /\ RocOrdered /\ PiecesTogether /\ StatusesAsked /\ SchedHonest /\ CqmAgrees /\ SwitchAgrees /\ SurveyKept

\* A frame the user was told is sent has its status; a warning is forgotten; a switch ends with the carrier on
Ended ==
    /\ (\A a \in asked : a.op = "frame" => ToldOf("status", a.c) # {}) \/ odd \cap {"nostatus", "claimed"} # {}
    /\ ~cqm.flag \/ "notimer" \in odd
    /\ link.carrier \/ "dropped" \in odd
OffchEnds == []<>Ended
=============================================================================
