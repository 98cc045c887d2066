------------------------------- MODULE SkwAp -------------------------------
(***************************************************************************)
(* An access point and its stations: starting and stopping it, its group   *)
(* key, the stations' peers (skw_cfg80211.c, skw_iface.c), the management  *)
(* frames the firmware hands up (skw_msg.c) and, where hostapd does not do *)
(* it itself (`load.ext`), the state machine of skw_mlme.c that answers    *)
(* them.                                                                   *)
(*                                                                         *)
(* Two threads work on the same peers: `user`, hostapd's requests under    *)
(* rtnl, and `evw`, the event work of the interface, which takes no rtnl.  *)
(* A thread carries out a list of calls (`todo`); a call that sends a      *)
(* command has two stages: up to the firmware's answer, and what follows   *)
(* the answer.  A third, the timer of the internal state      *)
(* machine, only queues an event.                                          *)
(***************************************************************************)
EXTENDS Integers, Sequences, FiniteSets, FiniteSetsExt, SequencesExt

CONSTANTS Macs,        \* stations
          NoMac,
          Idx,         \* peer contexts of the LMAC
          MaxBuf,      \* SKW_MAX_BUF_KEYS
          Loads        \* bound: [ext, q, aid, max, macs, ops, auth, assoc, gone, dups, fails,
                       \* nacks]; ext is sap.sme_external, max is sap.max_sta_allowed,
                       \* macs the stations in reach, q the frames waiting at once,
                       \* aid the last number skw_mlme_ap_new_aid tries (63)

Keys == 0 .. 9      \* 0: none

\* What hostapd can be asked for: a key of its number, the deauthentication of a station.
Requests == [op : {"start", "stop", "delkey"}, m : {NoMac}, i : {0}]
            \cup [op : {"key"}, m : {NoMac}, i : Keys] \cup [op : {"kick"}, m : Macs, i : {0}]

LoadType == [ext : BOOLEAN, q : Nat, aid : Nat, max : Nat, macs : SUBSET Macs, ops : Seq(Requests),
             auth : Nat, assoc : Nat, gone : Nat, dups : Nat, fails : Nat, nacks : Nat]

ASSUME ApAssumption == /\ NoMac \notin Macs /\ IsFiniteSet(Idx) /\ Idx \subseteq Nat
                       /\ MaxBuf \in Nat /\ Loads \subseteq LoadType

VARIABLES
  ap,       \* [started, carrier, par, kc, buf]: AP_STARTED, carrier, START_AP kept for the
            \* recovery, group key of key_conf, keys buffered before the start
  fw,       \* [ap, sta, key, tx]: the firmware's view, and frames it still has to report
  ctx,      \* ctx[i]: the peer bound to context i
  client,   \* client[m]: entry of mlme_client_list
  aids,     \* sap.aid_map
  cookie,   \* the static counter of skw_tx_cookie
  evq,      \* event_work.qlist
  notes,    \* what cfg80211 has queued for hostapd
  hs,       \* hostapd's stations: none, auth or assoc
  th,       \* th[t] = [todo, at, ok, i]: calls left, stage and answer of the first
  odd,      \* exceptional cases met so far
  left      \* what the bounds still allow

vars == <<ap, fw, ctx, client, aids, cookie, evq, notes, hs, th, odd, left>>

NoPeer == [mac |-> NoMac, st |-> "none", deauthed |-> FALSE, active |-> FALSE]
NoClient == [in |-> FALSE, st |-> "none", ck |-> 0, aid |-> 0, timer |-> FALSE, last |-> 0]
Idle == [todo |-> <<>>, at |-> 0, ok |-> FALSE, i |-> 0]

TypeOK ==
  /\ ap.kc \in Keys /\ ap.buf \in Seq(Keys) /\ Len(ap.buf) <= MaxBuf
  /\ {ap.started, ap.carrier, ap.par, fw.ap} \subseteq BOOLEAN
  /\ \A i \in Idx : ctx[i].mac \in Macs \cup {NoMac} /\ fw.sta[i] \in Macs \cup {NoMac}
  /\ \A m \in Macs : /\ client[m].st \in {"none", "authed", "assoced"}
                     /\ hs[m] \in {"none", "auth", "assoc"}
  /\ aids \subseteq 1 .. left.aid + 1

\* skw_mode_init for an access point.
Init ==
  /\ ap = [started |-> FALSE, carrier |-> FALSE, par |-> FALSE, kc |-> 0, buf |-> <<>>]
  /\ fw = [ap |-> FALSE, sta |-> [i \in Idx |-> NoMac], key |-> 0, tx |-> {}]
  /\ ctx = [i \in Idx |-> NoPeer] /\ client = [m \in Macs |-> NoClient]
  /\ aids = {} /\ cookie = 0 /\ evq = <<>> /\ notes = <<>>
  /\ hs = [m \in Macs |-> "none"] /\ th = [t \in {"user", "evw"} |-> Idle]
  /\ odd = {} /\ left \in Loads

Spend(f) == left[f] > 0 /\ left' = [left EXCEPT ![f] = @ - 1]
Mark(c, x) == IF c THEN {x} ELSE {}

\* skw_peer_ctx: the context of a station, if any.
CtxOf(m) == {i \in Idx : ctx[i].mac = m}
Bound == {i \in Idx : ctx[i].mac # NoMac}
-----------------------------------------------------------------------------
(* Calls.  A thread's first call is Now(t); Advance ends it and puts `more` in front. *)

Call(op, m) == [op |-> op, m |-> m, i |-> 0, k |-> "-"]
Now(t, ops, at) == th[t].todo # <<>> /\ Head(th[t].todo).op \in ops /\ th[t].at = at
Cur(t) == Head(th[t].todo)
Advance(t, more) == th' = [th EXCEPT ![t] = [Idle EXCEPT !.todo = more \o Tail(th[t].todo)]]

\* A command is sent, and the firmware carries it out or refuses it; i is kept meanwhile.
Send(t, i, ok) ==
  /\ th' = [th EXCEPT ![t] = [@ EXCEPT !.at = 1, !.i = i, !.ok = ok]]
  /\ IF ok THEN UNCHANGED left ELSE Spend("fails")
Skip(t, ok) == ok /\ Advance(t, <<>>) /\ UNCHANGED left

\* skw_mlme_ap_remove_client, skw_mlme_ap_del_client: the aid of the client is free again.
Removed(m) ==
  IF left.ext THEN UNCHANGED <<client, aids>>
  ELSE /\ client' = [client EXCEPT ![m] = NoClient]
       /\ aids' = aids \ {client[m].aid}

Forget(m) == [fw EXCEPT !.sta = [i \in Idx |-> IF @[i] = m THEN NoMac ELSE @[i]]]
Expects(m) == hs[m] # "none" \/ \E j \in 1 .. Len(notes) : notes[j] = [k |-> "new", m |-> m]

\* skw_sap_del_sta, for skw_del_station by address and for skw_sap_flush_sta by context: the
\* peer is marked and no longer transmits, the client goes, DEL_STA is sent.
DelBegin(t, ok) ==
  /\ Now(t, {"del", "delctx"}, 0)
  /\ LET is == IF Cur(t).op = "del" THEN CtxOf(Cur(t).m) ELSE {Cur(t).i} \cap Bound
         i == Min(is)
         m == ctx[i].mac
     IN IF is = {} THEN Skip(t, ok) /\ UNCHANGED <<fw, ctx, client, aids, odd>>
        ELSE /\ ctx' = [ctx EXCEPT ![i].active = FALSE, ![i].st = "none", ![i].deauthed = TRUE]
             /\ Removed(m) /\ Send(t, i, ok)
             /\ fw' = IF ok THEN Forget(m) ELSE fw
             /\ odd' = odd \cup Mark(t = "evw" /\ Expects(m), "silent")
                           \cup Mark(~left.ext /\ \E u \in DOMAIN th \ {t} : th[u].todo # <<>>, "both")
  /\ UNCHANGED <<ap, cookie, evq, notes, hs>>

\* Only a DEL_STA that succeeded frees the peer.
DelReturn(t) ==
  /\ Now(t, {"del", "delctx"}, 1) /\ Advance(t, <<>>)
  /\ ctx' = IF th[t].ok THEN [ctx EXCEPT ![th[t].i] = NoPeer] ELSE ctx
  /\ odd' = odd \cup Mark(~th[t].ok, "undeleted")
  /\ UNCHANGED <<ap, fw, client, aids, cookie, evq, notes, hs, left>>

\* skw_add_station: a station that still has a context is not added again.  That context, or
\* the one the firmware gives, may be of a peer the other thread deleted and has not unbound
\* yet ("both").
AddBegin(t, ok) ==
  /\ Now(t, {"add"}, 0)
  /\ LET is == CtxOf(Cur(t).m)
         free == {i \in Idx : fw.sta[i] = NoMac}
     IN /\ IF is # {}
           THEN /\ ctx' = [ctx EXCEPT ![Min(is)].active = FALSE, ![Min(is)].st = "authed"]
                /\ Skip(t, ok) /\ UNCHANGED fw
                /\ hs' = IF t = "user" THEN [hs EXCEPT ![Cur(t).m] = "auth"] ELSE hs
           ELSE /\ free # {} /\ UNCHANGED <<ctx, hs>>
                /\ Send(t, Min(free), ok)
                /\ fw' = IF ok THEN [fw EXCEPT !.sta[Min(free)] = Cur(t).m] ELSE fw
        /\ odd' = odd \cup Mark(\E u \in DOMAIN th \ {t} : Now(u, {"del", "delctx"}, 1) /\
                                  th[u].i \in is \cup (IF is = {} /\ ok THEN {Min(free)} ELSE {}), "both")
  /\ UNCHANGED <<ap, client, aids, cookie, evq, notes>>

\* Mutant: success is returned also when ADD_STA failed.
AddReturnBlind(t) ==
  /\ Now(t, {"add"}, 1) /\ Advance(t, <<>>)
  /\ ctx' = IF th[t].ok THEN [ctx EXCEPT ![th[t].i] = [NoPeer EXCEPT !.mac = Cur(t).m,
                                                                     !.st = "authed"]] ELSE ctx
  /\ hs' = IF t = "user" THEN [hs EXCEPT ![Cur(t).m] = "auth"] ELSE hs
  /\ odd' = odd \cup Mark(t = "evw" /\ ~th[t].ok, "nopeer")
  /\ UNCHANGED <<ap, fw, client, aids, cookie, evq, notes, left>>

\* skw_peer_init, skw_peer_ctx_bind: what was bound to the context is freed.  The internal
\* state machine does not look at the result.
AddReturn(t) ==
  /\ Now(t, {"add"}, 1) /\ Advance(t, <<>>)
  /\ ctx' = IF th[t].ok THEN [ctx EXCEPT ![th[t].i] = [NoPeer EXCEPT !.mac = Cur(t).m,
                                                                     !.st = "authed"]] ELSE ctx
  /\ hs' = IF t = "user" /\ th[t].ok THEN [hs EXCEPT ![Cur(t).m] = "auth"] ELSE hs
  /\ odd' = odd \cup Mark(t = "evw" /\ ~th[t].ok, "nopeer")
  /\ UNCHANGED <<ap, fw, client, aids, cookie, evq, notes, left>>

\* skw_mgmt_tx with a frame for station m: the caller's cookie is replaced before the command
\* is sent, whether or not it succeeds.
TxBegin(t, ok) ==
  /\ Now(t, {"tx"}, 0) /\ Send(t, cookie + 1, ok)
  /\ cookie' = cookie + 1
  /\ client' = IF t = "evw" /\ client[Cur(t).m].in
               THEN [client EXCEPT ![Cur(t).m].ck = cookie + 1] ELSE client
  /\ fw' = IF ok /\ t = "evw" /\ Cur(t).k # "deauth"
           THEN [fw EXCEPT !.tx = @ \cup {[m |-> Cur(t).m, k |-> Cur(t).k, ck |-> cookie + 1]}]
           ELSE fw
  /\ UNCHANGED <<ap, ctx, aids, evq, notes, hs, odd>>

\* A deauthentication that was sent marks the peer.  A reply to an authentication that was
\* not sent removes the station; nobody looks at the result of the others.
TxReturn(t) ==
  /\ Now(t, {"tx"}, 1)
  /\ ctx' = IF th[t].ok /\ Cur(t).k = "deauth"
            THEN [i \in Idx |-> IF ctx[i].mac = Cur(t).m
                                THEN [ctx[i] EXCEPT !.deauthed = TRUE] ELSE ctx[i]] ELSE ctx
  /\ LET refused == ~th[t].ok /\ Cur(t).k = "auth"
     IN /\ client' = IF refused THEN [client EXCEPT ![Cur(t).m].st = "none"] ELSE client
        /\ Advance(t, IF refused THEN <<Call("del", Cur(t).m)>> ELSE <<>>)
  /\ odd' = odd \cup Mark(~th[t].ok /\ Cur(t).k = "assoc", "lostcookie")
  /\ UNCHANGED <<ap, fw, aids, cookie, evq, notes, hs, left>>

\* A station that is not admitted: DEL_STA, without a peer of the driver; when the driver has
\* one (several were admitted at once), the firmware alone forgets it ("denied").
Refuse(ok) ==
  /\ Now("evw", {"refuse"}, 0)
  /\ IF ok THEN UNCHANGED left ELSE Spend("fails")
  /\ fw' = IF ok THEN Forget(Cur("evw").m) ELSE fw
  /\ Advance("evw", <<>>)
  /\ odd' = odd \cup Mark(ok /\ \E i \in Idx : fw.sta[i] = Cur("evw").m, "denied")
  /\ UNCHANGED <<ap, ctx, client, aids, cookie, evq, notes, hs>>

\* skw_change_station with ASSOCIATED.  __skw_peer_ctx_transmit refuses a peer with any flag
\* (it also stands for the later AUTHORIZED, which changes only the state).
Associated(m) ==
  [i \in Idx |-> IF ctx[i].mac # m THEN ctx[i]
                 ELSE [ctx[i] EXCEPT !.st = "assoced", !.active = @ \/ ~ctx[i].deauthed]]

-----------------------------------------------------------------------------
(* The access point and its group key: calls of `user`. *)

\* skw_add_key, skw_set_key, skw_cmd_add_key: before the start keys are kept for it, as many
\* as fit.
KeyBegin(ok) ==
  LET k == Cur("user").i IN
  /\ Now("user", {"key"}, 0)
  /\ IF ~ap.started /\ Len(ap.buf) < MaxBuf
     THEN /\ ap' = [ap EXCEPT !.kc = k, !.buf = Append(@, k)]
          /\ Skip("user", ok) /\ UNCHANGED <<fw, odd>>
     ELSE /\ ap' = [ap EXCEPT !.kc = k] /\ Send("user", 0, ok)
          /\ fw' = IF ok THEN [fw EXCEPT !.key = k] ELSE fw
          /\ odd' = odd \cup Mark(~ap.started, "overflow")
  /\ UNCHANGED <<ctx, client, aids, cookie, evq, notes, hs>>

\* A key the firmware refused is taken back.
KeyReturn ==
  /\ Now("user", {"key"}, 1) /\ Advance("user", <<>>)
  /\ ap' = IF th["user"].ok THEN ap ELSE [ap EXCEPT !.kc = 0]
  /\ odd' = odd \cup Mark(~th["user"].ok, "keyfail")
  /\ UNCHANGED <<fw, ctx, client, aids, cookie, evq, notes, hs, left>>

\* skw_del_key, skw_remove_key: the driver forgets the key whatever the firmware says; a key
\* that waits for the start stays where it is.
DelKeyBegin(ok) ==
  /\ Now("user", {"delkey"}, 0)
  /\ IF ap.kc = 0 THEN Skip("user", ok) /\ UNCHANGED fw
     ELSE Send("user", 0, ok) /\ fw' = IF ok THEN [fw EXCEPT !.key = 0] ELSE fw
  /\ UNCHANGED <<ap, ctx, client, aids, cookie, evq, notes, hs, odd>>

DelKeyReturn ==
  /\ Now("user", {"delkey"}, 1) /\ Advance("user", <<>>)
  /\ ap' = [ap EXCEPT !.kc = 0]
  /\ odd' = odd \cup Mark(ap.buf # <<>>, "buffered") \cup Mark(~th["user"].ok, "keyfail")
  /\ UNCHANGED <<fw, ctx, client, aids, cookie, evq, notes, hs, left>>

\* skw_cfg80211_start_ap: the parameters are kept for the recovery, START_AP is sent.
StartBegin(ok) ==
  /\ Now("user", {"start"}, 0) /\ Send("user", 0, ok)
  /\ ap' = [ap EXCEPT !.par = TRUE]
  /\ fw' = IF ok THEN [fw EXCEPT !.ap = TRUE] ELSE fw
  /\ UNCHANGED <<ctx, client, aids, cookie, evq, notes, hs, odd>>

BufferedKeys == [j \in 1 .. Len(ap.buf) |-> [Call("bufkey", NoMac) EXCEPT !.i = ap.buf[j]]]

\* Mutant: the buffered keys are dropped instead of sent.
StartReturnKeyless ==
  /\ Now("user", {"start"}, 1)
  /\ IF th["user"].ok
     THEN /\ ap' = [ap EXCEPT !.carrier = TRUE] /\ Advance("user", <<Call("started", NoMac)>>)
     ELSE /\ ap' = [ap EXCEPT !.par = FALSE] /\ Advance("user", <<>>)
  /\ UNCHANGED <<fw, ctx, client, aids, cookie, evq, notes, hs, odd, left>>

StartReturn ==
  /\ Now("user", {"start"}, 1)
  /\ IF th["user"].ok
     THEN /\ ap' = [ap EXCEPT !.carrier = TRUE]
          /\ Advance("user", Append(BufferedKeys, Call("started", NoMac)))
     ELSE /\ ap' = [ap EXCEPT !.par = FALSE] /\ Advance("user", <<>>)
  /\ UNCHANGED <<fw, ctx, client, aids, cookie, evq, notes, hs, odd, left>>

\* The buffered keys, one after the other; nobody looks at the answers.
BufKey(ok) ==
  /\ Now("user", {"bufkey"}, 0) /\ Advance("user", <<>>)
  /\ IF ok THEN UNCHANGED left ELSE Spend("fails")
  /\ fw' = IF ok THEN [fw EXCEPT !.key = Cur("user").i] ELSE fw
  /\ odd' = odd \cup Mark(~ok, "keyfail")
  /\ UNCHANGED <<ap, ctx, client, aids, cookie, evq, notes, hs>>

Started ==
  /\ Now("user", {"started"}, 0) /\ Advance("user", <<>>)
  /\ ap' = [ap EXCEPT !.buf = <<>>, !.started = TRUE]
  /\ UNCHANGED <<fw, ctx, client, aids, cookie, evq, notes, hs, odd, left>>

\* skw_stop_ap: skw_sap_flush_sta takes the contexts that are bound now, then the key, the
\* parameters and the access point go.
InOrder(B) == SetToSortSeq(B, <)
FlushCalls == [j \in 1 .. Cardinality(Bound) |->
                 [Call("delctx", NoMac) EXCEPT !.i = InOrder(Bound)[j]]]

StopBegin ==
  /\ Now("user", {"stop"}, 0)
  /\ ap' = [ap EXCEPT !.carrier = FALSE]
  /\ Advance("user", Append(FlushCalls, Call("stopcmd", NoMac)))
  /\ UNCHANGED <<fw, ctx, client, aids, cookie, evq, notes, hs, odd, left>>

\* The firmware forgets the stations and keys of an access point it stops.
StopCommand(ok) ==
  /\ Now("user", {"stopcmd"}, 0) /\ Send("user", 0, ok)
  /\ ap' = [ap EXCEPT !.kc = 0, !.par = FALSE]
  /\ fw' = IF ok THEN [fw EXCEPT !.ap = FALSE, !.key = 0, !.sta = [i \in Idx |-> NoMac]] ELSE fw
  /\ UNCHANGED <<ctx, client, aids, cookie, evq, notes, hs, odd>>

\* hostapd has no stations any more, whatever the driver returns.
StopReturn ==
  /\ Now("user", {"stopcmd"}, 1) /\ Advance("user", <<>>)
  /\ ap' = IF th["user"].ok THEN [ap EXCEPT !.started = FALSE] ELSE ap
  /\ hs' = [m \in Macs |-> "none"]
  /\ odd' = odd \cup Mark(~th["user"].ok, "unstopped")
                \cup Mark(Bound # {} \/ \E m \in Macs : client[m].in, "left")
  /\ UNCHANGED <<fw, ctx, client, aids, cookie, evq, notes, left>>
-----------------------------------------------------------------------------
(* hostapd: what it is asked to do (left.ops) and what it answers to notifications. *)

\* One request: keys are numbered, "kick" deauthenticates a station and deletes it.
Calls(o) ==
  CASE o.op = "key"  -> <<[Call("key", NoMac) EXCEPT !.i = o.i]>>
    [] o.op = "kick" -> <<[Call("tx", o.m) EXCEPT !.k = "deauth"], Call("del", o.m)>>
    [] OTHER -> <<Call(o.op, o.m)>>

Request ==
  /\ th["user"].todo = <<>> /\ left.ops # <<>>
  /\ LET o == Head(left.ops)
     IN /\ o.op = "start" => ~ap.started
        /\ o.op = "stop" => ap.started
        /\ o.op = "kick" => hs[o.m] = "assoc"
        /\ th' = [th EXCEPT !["user"] = [Idle EXCEPT !.todo = Calls(o)]]
        /\ hs' = IF o.op = "kick" THEN [hs EXCEPT ![o.m] = "none"] ELSE hs
  /\ left' = [left EXCEPT !.ops = Tail(@)]
  /\ UNCHANGED <<ap, fw, ctx, client, aids, cookie, evq, notes, odd>>

\* An optional request that hostapd never gets round to.
Forgo ==
  /\ th["user"].todo = <<>> /\ left.ops # <<>> /\ Head(left.ops).op \in {"kick", "stop"}
  /\ ~Head(left.ops).op = "stop" \/ ~ap.started
  /\ left' = [left EXCEPT !.ops = Tail(@)]
  /\ UNCHANGED <<ap, fw, ctx, client, aids, cookie, evq, notes, hs, th, odd>>

\* hostapd's answer to a frame, or to the new or deleted station it is told of; an
\* association is answered by skw_change_station, which is one step.  Its word that a station
\* is associated can be overtaken ("stale").
Notified ==
  /\ th["user"].todo = <<>> /\ notes # <<>>
  /\ notes' = Tail(notes)
  /\ LET n == Head(notes)
         add == n.k = "auth" /\ hs[n.m] = "none" /\ ap.started
         del == n.k = "deauth" /\ hs[n.m] # "none"
         assoc == n.k = "assoc" /\ hs[n.m] = "auth"
     IN /\ th' = [th EXCEPT !["user"] = [Idle EXCEPT !.todo =
                    IF add THEN <<Call("add", n.m)>> ELSE IF del THEN <<Call("del", n.m)>> ELSE <<>>]]
        /\ ctx' = IF assoc THEN Associated(n.m) ELSE ctx
        /\ hs' = CASE assoc \/ (n.k = "new" /\ ap.started) -> [hs EXCEPT ![n.m] = "assoc"]
                   [] del -> [hs EXCEPT ![n.m] = "none"]
                   [] OTHER -> hs
        /\ odd' = odd \cup Mark(n.k = "new" /\ ~\E i \in CtxOf(n.m) : ctx[i].active, "stale")
  /\ UNCHANGED <<ap, fw, client, aids, cookie, evq, left>>
-----------------------------------------------------------------------------
(* The event work. *)

Tell(k, m) == <<[k |-> k, m |-> m]>>

\* skw_sta_access_allowed: the station is known, or fewer than left.max contexts are taken
\* before the end of the list.
Allowed(m) == \/ Cardinality(Bound) < left.max
              \/ \E i \in CtxOf(m) : Cardinality({j \in Bound : j < i}) < left.max

evKeeps == <<ap, fw, cookie, hs, left>>
Work(calls) == th' = [th EXCEPT !["evw"] = [Idle EXCEPT !.todo = calls]]
Takes(f) == /\ th["evw"].todo = <<>> /\ evq # <<>> /\ Head(evq).f = f
            /\ evq' = Tail(evq)
Ev == Head(evq)

\* skw_sap_rx_mgmt on an authentication: an associated station is marked as deauthenticated.
Refused ==
  /\ Takes("auth") /\ ~Allowed(Ev.m)
  /\ Work(<<Call("refuse", Ev.m)>>)
  /\ UNCHANGED <<ctx, client, aids, notes, odd, evKeeps>>

Again(m) == {i \in CtxOf(m) : ctx[i].st = "assoced"}
Reauth(m) == [i \in Idx |-> IF i \in Again(m) THEN [ctx[i] EXCEPT !.deauthed = TRUE] ELSE ctx[i]]

AuthUp ==
  /\ left.ext /\ Takes("auth") /\ Allowed(Ev.m)
  /\ ctx' = Reauth(Ev.m)
  /\ notes' = notes \o (IF Again(Ev.m) # {} THEN Tell("deauth", Ev.m) ELSE <<>>) \o Tell("auth", Ev.m)
  /\ UNCHANGED <<client, aids, th, odd, evKeeps>>

\* skw_mlme_ap_auth_handler: a new station gets a client and a peer, a repeated frame is
\* dropped, any other is answered.
Auth ==
  /\ ~left.ext /\ Takes("auth") /\ Allowed(Ev.m)
  /\ ctx' = Reauth(Ev.m)
  /\ LET c == client[Ev.m]
         new == [NoClient EXCEPT !.in = TRUE, !.st = "authed", !.last = Ev.sn]
         answer == [Call("tx", Ev.m) EXCEPT !.k = "auth"]
     IN IF ~c.in THEN /\ client' = [client EXCEPT ![Ev.m] = new]
                      /\ Work(<<Call("add", Ev.m), answer>>)
        ELSE IF Ev.retry /\ c.last = Ev.sn THEN Work(<<>>) /\ UNCHANGED client
        ELSE /\ client' = [client EXCEPT ![Ev.m].st = "authed", ![Ev.m].last = Ev.sn]
             /\ Work(<<answer>>)
  /\ UNCHANGED <<aids, notes, odd, evKeeps>>

\* Mutant: the bit is tested and not set.
NewAidUnset == 1

\* skw_mlme_ap_new_aid: the lowest free one; when none is free, the number behind the last.
NewAid == IF 1 .. left.aid \subseteq aids THEN left.aid + 1 ELSE Min(1 .. left.aid \ aids)

\* skw_mlme_ap_assoc_handler: every association takes an aid, also the second of a client.
Assoc ==
  /\ Takes("assoc")
  /\ LET c == client[Ev.m]
         reply(k) == [Call("tx", Ev.m) EXCEPT !.k = k]
     IN CASE left.ext -> /\ notes' = notes \o Tell("assoc", Ev.m)
                         /\ Work(<<>>) /\ UNCHANGED <<client, aids, odd>>
          [] ~left.ext /\ (~c.in \/ (c.st # "none" /\ Ev.retry /\ c.last = Ev.sn)) ->
               Work(<<>>) /\ UNCHANGED <<client, aids, notes, odd>>
          [] ~left.ext /\ c.in /\ c.st = "none" ->
               Work(<<reply("deauth")>>) /\ UNCHANGED <<client, aids, notes, odd>>
          [] OTHER -> /\ client' = [client EXCEPT ![Ev.m].last = Ev.sn, ![Ev.m].aid = NewAid]
                      /\ aids' = IF NewAid <= left.aid THEN aids \cup {NewAid} ELSE aids
                      /\ odd' = odd \cup Mark(NewAid > left.aid, "aidfull")
                      /\ Work(<<reply("assoc")>>) /\ UNCHANGED notes
  /\ UNCHANGED <<ctx, evKeeps>>

\* A deauthentication from the station, or the firmware's word that it is gone
\* (skw_event_del_sta does not mark the peer).
Deauth ==
  /\ \E f \in {"deauth", "delsta"} :
       /\ Takes(f)
       /\ ctx' = IF f = "delsta" THEN ctx
                 ELSE [i \in Idx |-> IF ctx[i].mac = Ev.m THEN [ctx[i] EXCEPT !.deauthed = TRUE]
                                     ELSE ctx[i]]
       /\ LET told == CASE f = "delsta" -> CtxOf(Ev.m) # {}
                        [] left.ext -> TRUE
                        [] OTHER -> client[Ev.m].st = "assoced"
              drop == f = "deauth" /\ ~left.ext /\ client[Ev.m].st = "authed"
          IN /\ notes' = IF told THEN notes \o Tell("deauth", Ev.m) ELSE notes
             /\ Work(IF drop THEN <<Call("del", Ev.m)>> ELSE <<>>)
  /\ UNCHANGED <<client, aids, odd, evKeeps>>

\* skw_mlme_ap_tx_status: the status of the last frame sent to the client.
TxStatus ==
  /\ Takes("status")
  /\ LET c == client[Ev.m]
         mine == c.in /\ c.ck = Ev.ck
         good == mine /\ Ev.ack
         bad == mine /\ ~Ev.ack
     IN /\ client' = CASE bad -> [client EXCEPT ![Ev.m].st = "none"]
                       [] good /\ Ev.k = "auth" -> [client EXCEPT ![Ev.m].timer = TRUE]
                       [] good /\ Ev.k = "assoc" -> [client EXCEPT ![Ev.m].timer = FALSE,
                                                                   ![Ev.m].st = "assoced"]
                       [] OTHER -> client
        /\ ctx' = IF good /\ Ev.k = "assoc" THEN Associated(Ev.m) ELSE ctx
        /\ notes' = IF good /\ Ev.k = "assoc" THEN notes \o Tell("new", Ev.m) ELSE notes
        /\ Work(IF bad THEN <<Call("del", Ev.m)>> ELSE <<>>)
        /\ odd' = odd \cup Mark(good /\ Ev.k = "assoc" /\ CtxOf(Ev.m) = {}, "nopeer")
  /\ UNCHANGED <<aids, evKeeps>>

\* skw_local_ap_auth_timeout.
LateEvent ==
  /\ Takes("late") /\ Work(<<Call("del", Ev.m)>>)
  /\ UNCHANGED <<ctx, client, aids, notes, odd, evKeeps>>

\* Mutant: a client that never got beyond its authentication is left alone.
AuthTimeoutIdle(m) ==
  /\ client[m].timer
  /\ client' = [client EXCEPT ![m].timer = FALSE]
  /\ UNCHANGED <<ap, fw, ctx, aids, cookie, evq, notes, hs, th, odd, left>>

\* skw_mlme_ap_auth_timeout: runs from the timer list and queues the event.
AuthTimeout(m) ==
  /\ client[m].timer
  /\ client' = [client EXCEPT ![m].timer = FALSE]
  /\ evq' = IF client[m].st = "assoced" THEN evq
            ELSE Append(evq, [f |-> "late", m |-> m])
  /\ UNCHANGED <<ap, fw, ctx, aids, cookie, notes, hs, th, odd, left>>
-----------------------------------------------------------------------------
(* The firmware and the stations. *)

\* A station's frame, perhaps followed by its repetition; `gone` is its deauthentication or
\* the firmware's word that it is gone.
Frame(f, m, twice) ==
  LET kind == IF f \in {"auth", "assoc"} THEN f ELSE "gone"
      e == [f |-> f, m |-> m, sn |-> 10 * left.auth + left.assoc, retry |-> FALSE]
  IN /\ fw.ap /\ left[kind] > 0 /\ Len(evq) < left.q
     /\ twice => kind # "gone" /\ left.dups > 0
     /\ left' = [left EXCEPT ![kind] = @ - 1, !.dups = IF twice THEN @ - 1 ELSE @]
     /\ evq' = evq \o (IF twice THEN <<e, [e EXCEPT !.retry = TRUE]>> ELSE <<e>>)
     /\ UNCHANGED <<ap, fw, ctx, client, aids, cookie, notes, hs, th, odd>>

Status(x, ack) ==
  /\ x \in fw.tx
  /\ IF ack THEN UNCHANGED left ELSE Spend("nacks")
  /\ fw' = [fw EXCEPT !.tx = @ \ {x}]
  /\ evq' = Append(evq, [f |-> "status", m |-> x.m, k |-> x.k, ck |-> x.ck, ack |-> ack])
  /\ UNCHANGED <<ap, ctx, client, aids, cookie, notes, hs, th, odd>>
-----------------------------------------------------------------------------
Threads == {"user", "evw"}
Frames == {"auth", "assoc", "deauth", "delsta"}

Step(t) == \/ \E ok \in BOOLEAN : DelBegin(t, ok) \/ AddBegin(t, ok) \/ TxBegin(t, ok)
           \/ DelReturn(t) \/ AddReturn(t) \/ TxReturn(t)

UserStep == \/ Step("user")
            \/ \E ok \in BOOLEAN : \/ KeyBegin(ok) \/ DelKeyBegin(ok) \/ StartBegin(ok)
                                   \/ BufKey(ok) \/ StopCommand(ok)
            \/ KeyReturn \/ DelKeyReturn \/ StartReturn \/ Started \/ StopBegin \/ StopReturn
            \/ Notified
EventStep == \/ Step("evw") \/ \E ok \in BOOLEAN : Refuse(ok)
             \/ Refused \/ AuthUp \/ Auth \/ Assoc \/ Deauth \/ TxStatus \/ LateEvent
TimerStep == \E m \in Macs : AuthTimeout(m)
FwStatus == \E x \in fw.tx, ack \in BOOLEAN : Status(x, ack)
Air == \E f \in Frames, m \in left.macs, twice \in BOOLEAN : Frame(f, m, twice)

Next == UserStep \/ EventStep \/ TimerStep \/ FwStatus \/ Air \/ Request \/ Forgo

Spec == Init /\ [][Next]_vars
\* Both threads run on, an armed timer fires, and the firmware reports every frame it sent.
FairSpec == /\ Spec /\ WF_vars(UserStep) /\ WF_vars(EventStep)
            /\ WF_vars(TimerStep) /\ WF_vars(FwStatus)
-----------------------------------------------------------------------------
(* Properties *)

Quiet == /\ \A t \in Threads : th[t].todo = <<>>
         /\ evq = <<>> /\ notes = <<>> /\ fw.tx = {}

\* When nothing is under way, hostapd, the driver and the firmware have the same stations,
\* and the driver transmits to every station hostapd takes for associated (skw_add_station,
\* skw_sap_del_sta, skw_change_station).  Exceptions: a DEL_STA the firmware refused
\* ("undeleted") or was sent for a station the driver has a peer of ("denied"), and in the
\* internal state machine a station deleted or added behind hostapd's back ("silent",
\* "nopeer"), by both threads at once ("both"), announced when it was already gone ("stale"),
\* or left over when the access point stops ("left").
TablesAgree ==
  Quiet /\ odd \cap {"undeleted", "silent", "nopeer", "both", "stale", "left", "denied"} = {} =>
    /\ \A i \in Idx : ctx[i].mac = fw.sta[i]
    /\ \A m \in Macs : Cardinality(CtxOf(m)) <= 1
    /\ \A m \in Macs : hs[m] # "none" => CtxOf(m) # {}
    /\ \A m \in Macs : hs[m] = "assoc" => \E i \in CtxOf(m) : ctx[i].active
    /\ left.ext => \A m \in Macs : CtxOf(m) # {} => hs[m] # "none"

\* Two stations that are associated at once have different aids (skw_mlme_ap_new_aid), as
\* long as it had one to give.
AidsDistinct ==
  "aidfull" \notin odd =>
    \A m, n \in Macs : m # n /\ client[m].aid # 0 => client[m].aid # client[n].aid

\* The stations of hostapd, driver and firmware are the same, each with an aid of its own.
StationsAgree == TablesAgree /\ AidsDistinct

\* When nothing is under way, a started access point's group key is the same in driver and
\* firmware, and the parameters kept for a recovery are there exactly while the firmware has
\* the access point (skw_cmd_add_key, skw_cfg80211_start_ap, skw_stop_ap).
KeysAgree ==
  /\ TypeOK
  /\ Quiet /\ ap.started /\ odd \cap {"buffered", "overflow", "keyfail", "unstopped"} = {} =>
       fw.key = ap.kc
  /\ Quiet /\ "unstopped" \notin odd => ap.par = fw.ap

\* A station that authenticates and never associates does not stay: its client associates or
\* goes (skw_mlme_ap_auth_timeout), unless a later reply that could not be sent has taken the
\* cookie its authentication is recognised by ("lostcookie").
HalfOpenEnds ==
  []<>(\/ \A m \in Macs : client[m].st # "authed"
       \/ odd \cap {"lostcookie", "nopeer", "both", "left"} # {})
=============================================================================
