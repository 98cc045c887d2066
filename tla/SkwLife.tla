------------------------------ MODULE SkwLife ------------------------------
(***************************************************************************)
(* The interfaces of the Wi-Fi driver through their lives: created,        *)
(* changed and deleted by the user (skw_iface.c, skw_cfg80211.c), opened   *)
(* again by the recovery of a crashed firmware (skw_recovery.c, which the  *)
(* notifier of the platform in skw_core.c starts and stops), and taken     *)
(* away with the driver (skw_drv_remove).                                  *)
(*                                                                         *)
(* Four threads: the user under rtnl (`user`), the notifier (`nf`), the    *)
(* recovery work (`rec`) and the removal (`rm`).  They share the table of  *)
(* interfaces, the peer contexts, the flags and the lock of the recovery   *)
(* data (`rdlock`); the recovery takes rtnl only to set the regulatory     *)
(* domain, so it walks the table while the user changes it.                *)
(***************************************************************************)
EXTENDS Integers, Sequences, FiniteSets, FiniteSetsExt

CONSTANTS Ids,              \* 0 .. SKW_NR_IFACE - 1
          Loads             \* bound: how often things happen, as records
                            \* [adds, dels, changes, conns, leaves, crashes, faults, remove]

ASSUME LifeAssumption == IsFiniteSet(Ids) /\ Ids # {} /\ Ids = 0 .. Cardinality(Ids) - 1

VARIABLES
  vif,        \* vif[i] = [used, in, type, opened, ev]: bitmap, table, OPENED, event work on
  opened,     \* skw->vif.opened_dev
  link,       \* link[i] = [ctx, rd, told, heap]: the peer of interface i, see PeersKept
  host,       \* host[i] = [conn, ap, par]: connected, access point up, START_AP kept
  fw,         \* [up, open, peers, ap]: what the firmware knows
  flag,       \* [assert, chiprec, nf]: FW_ASSERT, FW_CHIP_RECOVERY, the notifier's bit
  user,       \* [pc, i, type]
  rec,        \* [q, pc, k]: recovery_work queued, its step, its place in the two loops
  nf,         \* the notifier: idle, cancel or booting
  rm,         \* the removal: no, unreg, del, lock, cancel or gone
  rdlock,     \* recovery_data.lock: free, rec or rm
  odd,        \* the exceptional cases met so far
  left        \* what the bounds still allow

vars == <<vif, opened, link, host, fw, flag, user, rec, nf, rm, rdlock, odd, left>>

NoVif == [used |-> FALSE, in |-> FALSE, type |-> "sta", opened |-> FALSE, ev |-> FALSE]
Types == {"sta", "ap"}
Idle == [pc |-> "idle", i |-> 0, type |-> "sta"]

TypeOK ==
  /\ \A i \in Ids : /\ {vif[i].used, vif[i].in, vif[i].opened, vif[i].ev} \subseteq BOOLEAN
                    /\ vif[i].type \in Types /\ link[i].heap \in Nat
                    /\ {link[i].ctx, link[i].rd, link[i].told} \subseteq BOOLEAN
  /\ opened \in Nat
  /\ fw.open \cup fw.peers \cup fw.ap \subseteq Ids
  /\ user.pc \in {"idle", "open", "mark", "reg", "close", "chg", "back", "free"}
  /\ rec.pc \in {"idle", "prep", "clear", "sync", "open", "lock", "body"}
  /\ nf \in {"idle", "cancel", "booting"} /\ rdlock \in {"free", "rec", "rm"}
  /\ rm \in {"no", "unreg", "del", "lock", "cancel", "gone"}

\* skw_drv_probe and skw_add_default_iface have made the first interface.
Init ==
  /\ vif = [i \in Ids |-> IF i = 0 THEN [used |-> TRUE, in |-> TRUE, type |-> "sta",
                                          opened |-> TRUE, ev |-> TRUE] ELSE NoVif]
  /\ opened = 1
  /\ link = [i \in Ids |-> [ctx |-> FALSE, rd |-> FALSE, told |-> FALSE, heap |-> 0]]
  /\ host = [i \in Ids |-> [conn |-> FALSE, ap |-> FALSE, par |-> FALSE]]
  /\ fw = [up |-> TRUE, open |-> {0}, peers |-> {}, ap |-> {}]
  /\ flag = [assert |-> FALSE, chiprec |-> FALSE, nf |-> FALSE]
  /\ user = Idle /\ rec = [q |-> FALSE, pc |-> "idle", k |-> 0] /\ nf = "idle" /\ rm = "no"
  /\ rdlock = "free" /\ odd = {} /\ left \in Loads

Spend(f) == left[f] > 0 /\ left' = [left EXCEPT ![f] = @ - 1]
Mark(c, x) == IF c THEN {x} ELSE {}

\* A command is carried out, refused by the firmware, or fails because the firmware is down.
Live == fw.up /\ ~flag.assert
Outcome(ok) == IF ok THEN Live /\ UNCHANGED left
               ELSE \/ ~Live /\ UNCHANGED left
                    \/ Live /\ Spend("faults")

\* skw_cmd_allowed: a command of an interface needs it in the table and OPENED.
CanSend(i) == vif[i].in /\ vif[i].opened
IfOutcome(i, ok) == IF CanSend(i) THEN Outcome(ok) ELSE ~ok /\ UNCHANGED left

\* An operation of the user on interface i: it costs one of f, and a fault when refused.
Costs(f, i, ok) ==
  LET sent == Live /\ CanSend(i) IN
  /\ left[f] > 0 /\ (ok => sent) /\ (~ok /\ sent => left.faults > 0)
  /\ left' = [left EXCEPT ![f] = @ - 1, !.faults = IF ~ok /\ sent THEN @ - 1 ELSE @]
-----------------------------------------------------------------------------
(* Peers.  link[i].heap counts the peers allocated for interface i and not freed. *)

\* __skw_peer_ctx_bind: the peer that was bound is freed.
BindPeer(l) == [l EXCEPT !.ctx = TRUE, !.heap = IF l.ctx THEN @ ELSE @ + 1]
Unbind(l) == [l EXCEPT !.ctx = FALSE, !.heap = IF l.ctx THEN @ - 1 ELSE @]

\* skw_peer_free of the peers kept by the recovery.
FreeSaved(l) == [l EXCEPT !.rd = FALSE, !.told = FALSE, !.heap = IF l.rd THEN @ - 1 ELSE @]

FwForget(f, i) == [f EXCEPT !.peers = @ \ {i}, !.ap = @ \ {i}]
-----------------------------------------------------------------------------
(* The user: connections and access points.  Both are single steps here (SkwSme has the
   steps of a connection), because each is one command as far as this module goes. *)

userKeeps == <<opened, flag, rec, nf, rm, rdlock>>
Rtnl == user.pc = "idle" /\ rm \notin {"del", "gone"}

\* skw_cfg80211_start_ap: the parameters are kept before the command.
StartAp(i, ok) ==
  /\ Rtnl /\ vif[i].in /\ vif[i].type = "ap" /\ ~host[i].ap /\ rdlock = "free"
  /\ Costs("conns", i, ok)
  /\ host' = [host EXCEPT ![i].ap = ok, ![i].par = ok]
  /\ fw' = IF ok THEN [fw EXCEPT !.ap = @ \cup {i}] ELSE fw
  /\ UNCHANGED <<vif, link, user, odd, userKeeps>>

\* A station associates with its access point, or one associates with ours.
Connect(i) ==
  /\ Rtnl /\ CanSend(i) /\ Live /\ vif[i].ev /\ ~host[i].conn /\ Spend("conns")
  /\ vif[i].type = "ap" => host[i].ap /\ i \in fw.ap
  /\ link' = [link EXCEPT ![i] = BindPeer(@)]
  /\ host' = [host EXCEPT ![i].conn = TRUE] /\ fw' = [fw EXCEPT !.peers = @ \cup {i}]
  /\ UNCHANGED <<vif, user, odd, userKeeps>>

\* Leaving: skw_sta_leave, or skw_stop_ap with skw_sap_flush_sta; a command that fails
\* leaves the peer bound.  cfg80211 takes the connection for ended in any case.
Left(i, ok) ==
  /\ link' = IF ok THEN [link EXCEPT ![i] = Unbind(@)] ELSE link
  /\ host' = [host EXCEPT ![i] = [conn |-> FALSE, ap |-> FALSE, par |-> FALSE]]
  /\ fw' = IF ok THEN FwForget(fw, i) ELSE fw

Leave(i, ok) ==
  /\ Rtnl /\ vif[i].in /\ (host[i].conn \/ host[i].ap) /\ rdlock = "free"
  /\ Costs("leaves", i, ok)
  /\ Left(i, ok)
  /\ UNCHANGED <<vif, user, odd, userKeeps>>
-----------------------------------------------------------------------------
(* The user: interfaces, under rtnl. *)

\* skw_alloc_inst takes the lowest free number.
AddBegin(type) ==
  /\ Rtnl /\ rm = "no" /\ (\E i \in Ids : ~vif[i].used) /\ Spend("adds")
  /\ LET i == Min({j \in Ids : ~vif[j].used})
     IN /\ vif' = [vif EXCEPT ![i].used = TRUE]
        /\ user' = [pc |-> "open", i |-> i, type |-> type]
  /\ UNCHANGED <<link, host, fw, odd, userKeeps>>

\* skw_iface_setup up to OPEN_DEV; skw_add_iface gives the number back when it fails.
AddOpen(ok) ==
  /\ user.pc = "open" /\ Outcome(ok)
  /\ LET i == user.i IN
     IF ok THEN /\ fw' = [fw EXCEPT !.open = @ \cup {i}]
                /\ user' = [user EXCEPT !.pc = "mark"] /\ UNCHANGED vif
           ELSE vif' = [vif EXCEPT ![i] = NoVif] /\ user' = Idle /\ UNCHANGED fw
  /\ UNCHANGED <<link, host, odd, userKeeps>>

\* ... and behind it: OPENED and opened_dev, then skw_add_vif.  A recovery that cleared
\* OPENED meanwhile has missed this interface.
AddMark ==
  /\ user.pc = "mark"
  /\ opened' = opened + 1
  /\ vif' = [vif EXCEPT ![user.i] = [used |-> TRUE, in |-> TRUE, type |-> user.type,
                                      opened |-> TRUE, ev |-> TRUE]]
  /\ user' = [user EXCEPT !.pc = "reg"]
  /\ odd' = odd \cup Mark(user.i \notin fw.open, "missed")
  /\ UNCHANGED <<flag, rec, nf, rm, rdlock, link, host, fw, left>>

\* Registering the net device; a failure tears the interface down again.
AddReg(ok) ==
  /\ user.pc = "reg"
  /\ IF ok THEN user' = Idle /\ UNCHANGED left
           ELSE user' = [user EXCEPT !.pc = "close"] /\ Spend("faults")
  /\ UNCHANGED <<vif, link, host, fw, odd, userKeeps>>

\* skw_iface_teardown of interface i with the result of CLOSE_DEV.  The event work is
\* switched off and the mode taken down before the command, OPENED and the count only
\* behind it.  skw_mode_deinit unbinds the peer of a station, not those of an access point.
Teardown(i, ok) ==
  /\ vif' = [vif EXCEPT ![i].ev = FALSE, ![i].opened = @ /\ ~ok]
  /\ opened' = IF ok THEN opened - 1 ELSE opened
  /\ link' = IF vif[i].type = "sta" THEN [link EXCEPT ![i] = Unbind(@)] ELSE link
  /\ fw' = IF ok THEN [FwForget(fw, i) EXCEPT !.open = @ \ {i}] ELSE fw

\* skw_cfg80211_del_virtual_intf: cfg80211 closes the device, which leaves, first.
DelBegin(i) ==
  /\ Rtnl /\ rm = "no" /\ vif[i].in /\ rdlock = "free" /\ Spend("dels")
  /\ \E ok \in {Live /\ CanSend(i)} : Left(i, ok)
  /\ user' = [pc |-> "close", i |-> i, type |-> vif[i].type]
  /\ UNCHANGED <<vif, odd, userKeeps>>

\* skw_del_iface ignores the result of the teardown: the table forgets an OPENED interface,
\* the count does not.
DelClose(ok) ==
  /\ user.pc = "close" /\ IfOutcome(user.i, ok) /\ Teardown(user.i, ok)
  /\ user' = [user EXCEPT !.pc = "free"]
  /\ UNCHANGED <<flag, rec, nf, rm, rdlock, host, odd>>

\* skw_del_vif, skw_release_inst, also of an interface that the recovery has opened again or
\* is at work on: what it does there from now on concerns nothing the driver still has.
DelFree ==
  /\ user.pc = "free"
  /\ vif' = [vif EXCEPT ![user.i] = NoVif] /\ user' = Idle
  /\ odd' = odd \cup Mark(vif[user.i].opened, "close")
  /\ UNCHANGED <<userKeeps, link, host, fw, left>>

\* skw_change_intf after cfg80211 has left: teardown, then setup with the new type, then,
\* if that fails, with the old one.  A teardown that fails leaves the interface as it is.
ChangeBegin(i, ok) ==
  /\ Rtnl /\ rm = "no" /\ vif[i].in /\ ~host[i].conn /\ ~host[i].ap
  /\ Costs("changes", i, ok)
  /\ Teardown(i, ok)
  /\ user' = IF ok THEN [pc |-> "chg", i |-> i, type |-> CHOOSE t \in Types : t # vif[i].type] ELSE Idle
  /\ odd' = odd \cup Mark(~ok, "deaf")
  /\ UNCHANGED <<flag, rec, nf, rm, rdlock, host>>

ChangeOpen(ok) ==
  /\ user.pc \in {"chg", "back"} /\ Outcome(ok)
  /\ LET i == user.i IN
     IF ok THEN /\ fw' = [fw EXCEPT !.open = @ \cup {i}] /\ opened' = opened + 1
                /\ vif' = [vif EXCEPT ![i].type = user.type, ![i].opened = TRUE, ![i].ev = TRUE]
                /\ user' = Idle
           ELSE /\ vif' = [vif EXCEPT ![i].ev = TRUE] /\ UNCHANGED <<fw, opened>>
                /\ user' = IF user.pc = "chg" THEN [user EXCEPT !.pc = "back", !.type = vif[i].type] ELSE Idle
  /\ odd' = odd \cup Mark(ok /\ vif[user.i].opened, "twice")
  /\ UNCHANGED <<flag, rec, nf, rm, rdlock, link, host>>
-----------------------------------------------------------------------------
(* The firmware (external) crashes; the platform tells the driver (skw_bsp_notifier). *)

fwKeeps == <<vif, opened, link, host, user, rm, rdlock>>
DeadFw == [up |-> FALSE, open |-> {}, peers |-> {}, ap |-> {}]

Crash == /\ fw.up /\ nf = "idle" /\ Spend("crashes")
         /\ fw' = DeadFw
         /\ UNCHANGED <<fwKeeps, flag, rec, nf, odd>>

\* SKW_BSP_NF_ASSERT up to cancel_work_sync, which takes a queued work back.
NfAssert == /\ ~fw.up /\ nf = "idle" /\ rm = "no"
            /\ flag' = [flag EXCEPT !.assert = TRUE, !.nf = TRUE]
            /\ rec' = [rec EXCEPT !.q = FALSE] /\ nf' = "cancel"
            /\ UNCHANGED <<fwKeeps, fw, odd, left>>

NfCancel == /\ nf = "cancel" /\ rec.pc = "idle"
            /\ nf' = "booting" /\ rec' = [rec EXCEPT !.q = FALSE]
            /\ UNCHANGED <<fwKeeps, fw, flag, odd, left>>

\* The firmware is back: SKW_BSP_NF_READY.
NfReady == /\ nf = "booting"
           /\ fw' = [fw EXCEPT !.up = TRUE] /\ nf' = "idle"
           /\ flag' = [flag EXCEPT !.nf = FALSE]
           /\ rec' = IF flag.nf THEN [rec EXCEPT !.q = TRUE] ELSE rec
           /\ UNCHANGED <<fwKeeps, odd, left>>
-----------------------------------------------------------------------------
(* skw_recovery_work *)

recKeeps == <<user, nf, rm>>

RecStart == /\ rec.q /\ rec.pc = "idle"
            /\ rec' = [q |-> FALSE, pc |-> "prep", k |-> 0]
            /\ UNCHANGED <<vif, opened, link, host, fw, flag, user, nf, rm, rdlock, odd, left>>

\* mutant: the peers of the first crash are replaced although they are still kept
RecPrepareAgain ==
  /\ rec.pc = "prep" /\ rdlock = "free"
  /\ flag' = [flag EXCEPT !.chiprec = TRUE] /\ rec' = [rec EXCEPT !.pc = "clear"]
  /\ link' = [i \in Ids |-> [link[i] EXCEPT !.ctx = FALSE, !.rd = link[i].ctx, !.told = FALSE]]
  /\ UNCHANGED <<vif, opened, host, fw, rdlock, odd, left, recKeeps>>

\* skw_recovery_prepare: the bound peers are kept for the end of the recovery; when an
\* earlier recovery has not ended, the peers bound since are dropped and never freed.
RecPrepare ==
  /\ rec.pc = "prep" /\ rdlock = "free"
  /\ flag' = [flag EXCEPT !.chiprec = TRUE] /\ rec' = [rec EXCEPT !.pc = "clear"]
  /\ IF flag.chiprec
     THEN /\ link' = [i \in Ids |-> [link[i] EXCEPT !.ctx = FALSE]]
          /\ odd' = odd \cup Mark(\E i \in Ids : link[i].ctx, "second")
     ELSE /\ link' = [i \in Ids |-> [link[i] EXCEPT !.ctx = FALSE, !.rd = link[i].ctx, !.told = FALSE]]
          /\ odd' = odd
  /\ UNCHANGED <<vif, opened, host, fw, rdlock, left, recKeeps>>

\* OPENED and the count are cleared, the port opened and FW_ASSERT cleared, also when the
\* notifier has set it for a second crash meanwhile.
RecClear ==
  /\ rec.pc = "clear"
  /\ opened' = 0 /\ vif' = [i \in Ids |-> [vif[i] EXCEPT !.opened = @ /\ ~vif[i].in]]
  /\ flag' = [flag EXCEPT !.assert = FALSE] /\ rec' = [rec EXCEPT !.pc = "sync"]
  /\ odd' = odd \ {"twice", "close", "missed"}
  /\ UNCHANGED <<link, host, fw, rdlock, left, recKeeps>>

\* mutant: the recovery tries again until the firmware answers
RecSyncRetry(ok) ==
  /\ rec.pc = "sync" /\ Outcome(ok) /\ (ok => user.pc = "idle" /\ rm # "del")
  /\ rec' = [rec EXCEPT !.pc = IF ok THEN "open" ELSE "sync"]
  /\ UNCHANGED <<vif, opened, link, host, fw, flag, rdlock, odd, recKeeps>>

\* SYN_VERSION, GET_INFO, the calibration and, under rtnl, the regulatory domain; a failure
\* ends the recovery without another word.
RecSync(ok) ==
  /\ rec.pc = "sync" /\ Outcome(ok) /\ (ok => user.pc = "idle" /\ rm # "del")
  /\ rec' = [rec EXCEPT !.pc = IF ok THEN "open" ELSE "idle"]
  /\ odd' = odd \cup Mark(~ok /\ fw.up, "silent")
  /\ UNCHANGED <<vif, opened, link, host, fw, flag, rdlock, recKeeps>>

\* The two loops: stations first, the other interfaces behind them.
N == Cardinality(Ids)
Due(k) == vif[k % N].in /\ (vif[k % N].type = "sta" <=> k < N)
Visits == {k \in rec.k .. 2 * N - 1 : Due(k)}

\* skw_recovery_iface up to the lock.  A refused OPEN_DEV asserts the firmware.
RecOpen(ok) ==
  /\ rec.pc = "open" /\ Visits # {}
  /\ LET k == Min(Visits) i == k % N IN
     IF flag.assert
     THEN ~ok /\ rec' = [rec EXCEPT !.pc = "idle"] /\ UNCHANGED <<vif, opened, fw, flag, odd, left>>
     ELSE /\ Outcome(ok)
          /\ IF ok
             THEN /\ vif' = [vif EXCEPT ![i].opened = TRUE] /\ opened' = opened + 1
                  /\ fw' = [fw EXCEPT !.open = @ \cup {i}]
                  /\ rec' = [rec EXCEPT !.pc = "lock", !.k = k]
                  /\ odd' = odd \cup Mark(vif[i].opened, "twice") /\ UNCHANGED flag
             ELSE /\ flag' = [flag EXCEPT !.assert = TRUE] /\ fw' = DeadFw
                  /\ rec' = [rec EXCEPT !.pc = "idle"] /\ UNCHANGED <<vif, opened, odd>>
  /\ UNCHANGED <<link, host, rdlock, recKeeps>>

RecLock == /\ rec.pc = "lock" /\ rdlock = "free"
           /\ rdlock' = "rec" /\ rec' = [rec EXCEPT !.pc = "body"]
           /\ UNCHANGED <<vif, opened, link, host, fw, flag, odd, left, recKeeps>>

\* mutant: the station is left without telling cfg80211
RecStaQuiet(ok, same) ==
  LET i == rec.k % N IN
  /\ rec.pc = "body" /\ (vif[i].type = "sta" \/ ~vif[i].in)
  /\ rdlock' = "free" /\ rec' = [rec EXCEPT !.pc = "open", !.k = @ + 1]
  /\ IF link[i].rd /\ ~link[i].told /\ vif[i].in
     THEN /\ IfOutcome(i, ok) /\ link' = [link EXCEPT ![i].told = TRUE]
          /\ UNCHANGED host
          /\ fw' = IF ok THEN [fw EXCEPT !.peers = @ \ {i}] ELSE fw
     ELSE ok /\ UNCHANGED <<link, host, fw, left>>
  /\ UNCHANGED <<vif, opened, flag, odd, recKeeps>>

\* skw_recovery_sta: the peer kept from before the crash is reported as gone, whatever
\* DISCONNECT returns.  No wdev lock is held: a connection made since to the same BSS is
\* taken down with it and its peer stays bound; one to another BSS is left alone.
RecSta(ok, same) ==
  LET i == rec.k % N IN
  /\ rec.pc = "body" /\ (vif[i].type = "sta" \/ ~vif[i].in)
  /\ rdlock' = "free" /\ rec' = [rec EXCEPT !.pc = "open", !.k = @ + 1]
  /\ IF link[i].rd /\ ~link[i].told /\ vif[i].in /\ (link[i].ctx => same)
     THEN /\ IfOutcome(i, ok) /\ link' = [link EXCEPT ![i].told = TRUE]
          /\ host' = [host EXCEPT ![i].conn = FALSE]
          /\ fw' = IF ok THEN [fw EXCEPT !.peers = @ \ {i}] ELSE fw
     ELSE ok /\ UNCHANGED <<link, host, fw, left>>
  /\ UNCHANGED <<vif, opened, flag, odd, recKeeps>>

\* skw_recovery_sap: the access point is started again with the parameters kept, then its
\* stations are reported as gone and the firmware drops all it has, also those that came
\* since ("raced").
RecSap(ok) ==
  LET i == rec.k % N IN
  /\ rec.pc = "body" /\ vif[i].in /\ vif[i].type = "ap"
  /\ rdlock' = "free" /\ rec' = [rec EXCEPT !.pc = "open", !.k = @ + 1]
  /\ IF host[i].par
     THEN /\ IfOutcome(i, ok)
          /\ fw' = IF ok THEN [fw EXCEPT !.ap = @ \cup {i}, !.peers = @ \ {i}] ELSE fw
          /\ odd' = odd \cup Mark(~ok /\ fw.up, "apdead") \cup Mark(ok /\ link[i].ctx, "raced")
          /\ IF ok /\ link[i].rd /\ ~link[i].told
             THEN link' = [link EXCEPT ![i].told = TRUE] /\ host' = [host EXCEPT ![i].conn = FALSE]
             ELSE UNCHANGED <<link, host>>
     ELSE ok /\ UNCHANGED <<link, host, fw, odd, left>>
  /\ UNCHANGED <<vif, opened, flag, recKeeps>>

\* The peers kept are freed, the flag falls; also when the body of the last interface failed
\* for a new crash, and its stations were not reported ("untold").
RecDone ==
  /\ rec.pc = "open" /\ Visits = {}
  /\ odd' = odd \cup Mark(\E i \in Ids : host[i].conn /\ link[i].rd /\ ~link[i].told, "untold")
  /\ link' = [i \in Ids |-> FreeSaved(link[i])]
  /\ flag' = [flag EXCEPT !.chiprec = FALSE] /\ rec' = [rec EXCEPT !.pc = "idle"]
  /\ UNCHANGED <<vif, opened, host, fw, rdlock, left, recKeeps>>
-----------------------------------------------------------------------------
(* skw_drv_remove *)

\* The notifier is unregistered first: no crash is heard of any more.
Remove == /\ rm = "no" /\ Spend("remove")
          /\ rm' = "unreg"
          /\ UNCHANGED <<vif, opened, link, host, fw, flag, user, rec, nf, rdlock, odd>>

RmUnregister == /\ rm = "unreg" /\ nf # "cancel" /\ user.pc = "idle"
                /\ rm' = "del" /\ nf' = "idle"
                /\ UNCHANGED <<vif, opened, link, host, fw, flag, user, rec, rdlock, odd, left>>

\* Under rtnl: every device is closed and deleted, one step each.
RmDelete(i) ==
  /\ rm = "del" /\ vif[i].in /\ (host[i].ap => rdlock = "free")
  /\ LET ok == Live /\ CanSend(i) IN
     /\ host' = [host EXCEPT ![i] = [conn |-> FALSE, ap |-> FALSE, par |-> FALSE]]
     /\ vif' = [vif EXCEPT ![i] = NoVif]
     /\ opened' = IF ok THEN opened - 1 ELSE opened
     /\ link' = IF ok \/ vif[i].type = "sta" THEN [link EXCEPT ![i] = Unbind(@)] ELSE link
     /\ fw' = IF ok THEN [FwForget(fw, i) EXCEPT !.open = @ \ {i}] ELSE fw
     /\ odd' = odd \cup Mark(~ok /\ vif[i].opened, "close")
  /\ UNCHANGED <<flag, user, rec, nf, rm, rdlock, left>>

RmDeleted == /\ rm = "del" /\ \A i \in Ids : ~vif[i].in
             /\ rm' = "lock"
             /\ UNCHANGED <<vif, opened, link, host, fw, flag, user, rec, nf, rdlock, odd, left>>

\* skw_recovery_deinit waits for the work with its lock held.
RmLock == /\ rm = "lock" /\ rdlock = "free"
          /\ rdlock' = "rm" /\ rm' = "cancel"
          /\ UNCHANGED <<vif, opened, link, host, fw, flag, user, rec, nf, odd, left>>

\* The rest of the driver is taken down; a peer bound to a context is not freed.
RmCancel == /\ rm = "cancel" /\ rec.pc = "idle"
            /\ link' = [i \in Ids |-> FreeSaved(link[i])]
            /\ rdlock' = "free" /\ rm' = "gone" /\ rec' = [rec EXCEPT !.q = FALSE]
            /\ UNCHANGED <<vif, opened, host, fw, flag, user, nf, odd, left>>
-----------------------------------------------------------------------------
User == \/ \E i \in Ids, ok \in BOOLEAN : StartAp(i, ok) \/ Leave(i, ok) \/ ChangeBegin(i, ok)
        \/ \E i \in Ids : Connect(i) \/ DelBegin(i)
        \/ \E t \in Types : AddBegin(t)

UserStep == \/ \E ok \in BOOLEAN : AddOpen(ok) \/ AddReg(ok) \/ DelClose(ok) \/ ChangeOpen(ok)
            \/ AddMark \/ DelFree

Notifier == NfAssert \/ NfCancel \/ NfReady

Recovery == \/ RecStart \/ RecPrepare \/ RecClear \/ RecLock \/ RecDone
            \/ \E ok \in BOOLEAN : RecSync(ok) \/ RecOpen(ok) \/ RecSap(ok)
            \/ \E ok, same \in BOOLEAN : RecSta(ok, same)

Removal == RmUnregister \/ (\E i \in Ids : RmDelete(i)) \/ RmDeleted \/ RmLock \/ RmCancel

Next == User \/ UserStep \/ Crash \/ Notifier \/ Recovery \/ Remove \/ Removal

Spec == Init /\ [][Next]_vars

\* Works and locks make progress and the platform brings a crashed chip back; nothing is
\* assumed of the user, of crashes or of the removal being asked for.
FairSpec == /\ Spec /\ WF_vars(UserStep) /\ WF_vars(Notifier)
            /\ WF_vars(Recovery) /\ WF_vars(Removal)
-----------------------------------------------------------------------------
(* Properties *)

\* An instance number is taken exactly for the interfaces of the table and the one the user
\* is adding (skw_alloc_inst, skw_release_inst, skw_add_vif, skw_del_vif).
NumbersHeld == \A i \in Ids : vif[i].used <=> vif[i].in \/ (user.pc \in {"open", "mark"} /\ user.i = i)

\* opened_dev counts the OPENED interfaces, over crashes, failures and interfaces that come
\* and go during a recovery.  It is wrong, until the next recovery, after an interface was
\* deleted OPENED ("close"), opened by the user and by a recovery ("twice"), or missed by a
\* recovery because it was not yet in the table ("missed").
CountRight == odd \cap {"twice", "close", "missed"} = {} =>
                opened = Cardinality({i \in Ids : vif[i].in /\ vif[i].opened})

\* An OPENED interface is open in the firmware and its events are handled, whenever the
\* firmware is up and not being recovered; not after a failed skw_change_intf ("deaf"),
\* whose interface stays OPENED with its event work switched off.
OpenIsOpen ==
  \A i \in Ids :
    /\ vif[i].in /\ vif[i].opened /\ fw.up /\ ~flag.assert /\ "missed" \notin odd => i \in fw.open
    /\ vif[i].in /\ vif[i].opened /\ "deaf" \notin odd => vif[i].ev \/ (user.i = i /\ user.pc \in {"chg", "back", "free"})

\* Every peer allocated is bound to its context or kept by the recovery, and none is freed
\* twice; the peers bound between two crashes of one recovery are lost ("second").
PeersKept ==
  /\ "second" \notin odd => \A i \in Ids : link[i].heap = Cardinality({x \in {"ctx", "rd"} : link[i][x]})
  /\ (\E i \in Ids : link[i].rd) => flag.chiprec

\* Numbers, the count, the firmware's open interfaces and the peers stay consistent through
\* additions, removals, mode changes and firmware recovery (skw_add_vif, skw_recovery_work).
Sound == TypeOK /\ NumbersHeld /\ CountRight /\ OpenIsOpen /\ PeersKept

\* What cfg80211 believes and the firmware has forgotten.
Stale(i) == rm = "no" /\ vif[i].in /\ ((host[i].conn /\ i \notin fw.peers) \/ (host[i].ap /\ i \notin fw.ap))

\* After a crash every connection is reported as gone and every access point is started
\* again, over further crashes during the recovery; not when the recovery gives up silently,
\* START_AP is refused or cut short, or a peer was dropped by a second crash.
Known == (\A i \in Ids : ~Stale(i)) \/ odd \cap {"silent", "apdead", "untold", "raced", "second"} # {}
Healed == []<>Known

\* Removing the driver ends, whatever the firmware does, unless it takes the lock of the
\* recovery data while the recovery is about to (skw_recovery_deinit).
Stuck == rm = "cancel" /\ rec.pc \in {"prep", "lock"}
RemoveEnds == []<>(rm \in {"no", "gone"} \/ Stuck)
=============================================================================
