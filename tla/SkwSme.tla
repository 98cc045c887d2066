------------------------------- MODULE SkwSme -------------------------------
(***************************************************************************)
(* The station side of the Wi-Fi driver as the kernel's cfg80211 drives it *)
(* (skw_cfg80211.c, skw_msg.c, skw_iface.c; the build keeps the state      *)
(* machine in the host, STA_SME_EXT): scanning, joining a BSS,             *)
(* authentication and association with their retries, the frames and       *)
(* events that the firmware sends up, and leaving.                         *)
(*                                                                         *)
(* cfg80211 calls one operation at a time (`op`) and holds the wdev lock.  *)
(* Frames and the retry work run one at a time on event_wq and take that   *)
(* lock too, so each of them is one step.  The disconnect event takes no   *)
(* lock: it is two steps (`disc`), between which an operation goes on.     *)
(***************************************************************************)
EXTENDS Integers, Sequences, FiniteSets

CONSTANTS Bss,              \* access points
          None,
          MaxAuthRetry,     \* SKW_MAX_AUTH_RETRY_NUM
          MaxAssocRetry,    \* SKW_MAX_ASSOC_RETRY_NUM
          MaxRedo,          \* SKW_MAX_REAUTH_REDO_NUM
          Loads             \* bound: how often things happen, as records
                            \* [auths, assocs, leaves, faults, kicks, refusals, scans, kinds]

Ifaces == {"sta", "p2p"}    \* the interfaces that may scan
Kinds == {"open", "ft", "commit", "confirm"}  \* authentication: open, another of one round, SAE

ASSUME SmeAssumption ==
  /\ None \notin Bss
  /\ {MaxAuthRetry, MaxAssocRetry, MaxRedo} \subseteq Nat \ {0}

VARIABLES
  sta,        \* iface->sta: the fields of the station core, see TypeOK
  op,         \* [pc, b, k]: the cfg80211 operation in progress
  disc,       \* [pc, b, ctx]: the disconnect event in progress
  evq,        \* the events queued for event_work
  fw,         \* [joined, auth, assoc]: the BSS the firmware is joined to and the answers due
  host,       \* what cfg80211 and the supplicant were told
  scan,       \* [req, timer, due, fw, rdev, n]: see TypeOK
  epoch,      \* counts auth_start, to compare it with the time a frame came
  odd,        \* the exceptional cases met so far
  left        \* what the bounds still allow

vars == <<sta, op, disc, evq, fw, host, scan, epoch, odd, left>>

States == {"NONE", "AUTHING", "AUTHED", "ASSOCING", "ASSOCED", "COMPLETED"}
MaybeBss == Bss \cup {None}

TypeOK ==
  /\ sta.sm \in States /\ {sta.bss, sta.peer, sta.cbss} \subseteq MaybeBss
  /\ sta.rty \in {"none", "auth", "assoc"} /\ sta.kind \in Kinds
  /\ sta.retry \in 0 .. MaxAuthRetry + MaxAssocRetry /\ sta.redo \in 0 .. MaxRedo
  /\ {sta.act, sta.confirm, sta.report, sta.timer, sta.fresh, sta.work} \subseteq BOOLEAN
  /\ fw.joined \in MaybeBss /\ fw.auth \in Nat /\ fw.assoc \in Nat
  /\ {host.conn, host.assoc, host.authed, host.req} \subseteq MaybeBss /\ host.authz \in BOOLEAN
  /\ scan.timer \in BOOLEAN /\ scan.fw \in Ifaces \cup {None}
  /\ op.pc \in {"idle", "unjoin", "join", "send", "auth", "rejoin", "assoc", "scan"}
  /\ disc.pc \in {"idle", "leave"}

Idle == [pc |-> "idle", b |-> None, k |-> "open"]

Init ==
  /\ sta = [sm |-> "NONE", bss |-> None, peer |-> None, act |-> FALSE, cbss |-> None,
            rty |-> "none", retry |-> 0, redo |-> 0, kind |-> "open", confirm |-> FALSE,
            report |-> FALSE, timer |-> FALSE, fresh |-> FALSE, work |-> FALSE]
  /\ op = Idle /\ disc = [pc |-> "idle", b |-> None, ctx |-> FALSE] /\ evq = <<>>
  /\ fw = [joined |-> None, auth |-> 0, assoc |-> 0]
  /\ host = [conn |-> None, authz |-> FALSE, assoc |-> None, authed |-> None, ak |-> "open", req |-> None]
  /\ scan = [req |-> None, timer |-> FALSE, due |-> <<>>, fw |-> None, rdev |-> None, n |-> 0]
  /\ epoch = 0 /\ odd = {} /\ left \in Loads

Quiet == op.pc = "idle" /\ disc.pc = "idle"
Spend(f) == left[f] > 0 /\ left' = [left EXCEPT ![f] = @ - 1]

\* The outcome of a command: it fails at the cost of a fault.
Outcome(ok) == IF ok THEN UNCHANGED left ELSE Spend("faults")
Mark(c, x) == IF c THEN {x} ELSE {}
-----------------------------------------------------------------------------
(* What cfg80211 and the supplicant (external) make of a report. *)

TellAuth(h, b, ok, k) == [h EXCEPT !.authed = IF ok THEN b ELSE None, !.ak = k]

TellDeauth(h, b) ==
  [h EXCEPT !.conn = IF @ = b THEN None ELSE @, !.authz = @ /\ h.conn # b,
            !.authed = IF @ = b THEN None ELSE @, !.assoc = IF @ = b THEN None ELSE @]

TellAssoc(h, b, ok) ==
  [h EXCEPT !.assoc = None, !.conn = IF ok THEN b ELSE None, !.authz = FALSE, !.authed = None]

TellAssocFailure(h, b) == [h EXCEPT !.assoc = IF @ = b THEN None ELSE @]
-----------------------------------------------------------------------------
(* The peer slot and leaving a BSS. *)

HasPeer(s, b) == b # None /\ s.peer = b
Bind(s, b) == [s EXCEPT !.peer = b]

\* __skw_peer_ctx_transmit: a second enable is refused with a warning.
Transmit(s, on) == [s EXCEPT !.act = on]

\* mutant: a peer that was left stays bound
UnjoinKeeps(s, b, ok) ==
  IF ~HasPeer(s, b) THEN s
  ELSE IF ok THEN [Transmit(s, FALSE) EXCEPT !.bss = None] ELSE Transmit(s, FALSE)

\* skw_unjoin: without a peer for b nothing changes; a failed command leaves all but the
\* transmit path.
Unjoin(s, b, ok) ==
  IF ~HasPeer(s, b) THEN s
  ELSE IF ok THEN Bind([Transmit(s, FALSE) EXCEPT !.bss = None], None)
  ELSE Transmit(s, FALSE)

\* skw_sta_leave
Leave(s, b, ok) ==
  Unjoin([s EXCEPT !.sm = "NONE", !.timer = FALSE, !.confirm = FALSE], b, ok)

\* The DISCONNECT command, sent only when there is a peer; it names no BSS.  A command that
\* failed may have been carried out.
CmdJoin(b) == [joined |-> b, auth |-> 0, assoc |-> 0]
CmdAuth(f) == IF f.joined = None THEN f ELSE [f EXCEPT !.auth = @ + 1]
CmdAssoc(f) == IF f.joined = None THEN f ELSE [f EXCEPT !.assoc = @ + 1]
Gone == [joined |-> None, auth |-> 0, assoc |-> 0]
Disconnects(sent, ok) ==
  IF ~sent THEN fw' = fw /\ ok
  ELSE IF ok THEN fw' = Gone ELSE fw' \in {fw, Gone}
-----------------------------------------------------------------------------
(* Scanning.  scan.req is skw->scan_req, scan.rdev the request cfg80211 waits for, scan.due
   the SCAN_TIMEOUT works queued, scan.fw the interface the firmware scans for. *)

\* skw_scan_done for interface w, under skw->lock
ScanDone(s, w, aborted) ==
  IF s.req = None \/ s.req.w # w THEN s
  ELSE [s EXCEPT !.req = None, !.timer = FALSE,
                 !.fw = IF aborted THEN None ELSE @,
                 !.rdev = IF @ = s.req THEN None ELSE @]

\* skw_abort_scan
AbortScan(s, w) == IF s.req = None THEN s ELSE ScanDone([s EXCEPT !.fw = IF @ = w THEN None ELSE @], w, FALSE)

\* skw_scan up to the command.
ScanBegin(w) ==
  /\ op.pc = "idle" /\ scan.rdev = None /\ Spend("scans")
  /\ LET r == [w |-> w, n |-> scan.n + 1]
     IN scan' = [scan EXCEPT !.req = r, !.rdev = r, !.timer = TRUE, !.n = @ + 1]
  /\ op' = [Idle EXCEPT !.pc = "scan", !.k = w]
  /\ UNCHANGED <<sta, disc, evq, fw, host, epoch, odd>>

\* ... and behind it; cfg80211 drops a request that failed.
ScanEnd(w, ok) ==
  /\ op.pc = "scan" /\ op.k = w /\ Outcome(ok)
  /\ op' = Idle
  /\ \/ ok /\ scan' = [scan EXCEPT !.fw = w]
     \/ ~ok /\ \E f \in {scan.fw, w} :
               scan' = [scan EXCEPT !.req = None, !.timer = FALSE, !.rdev = None, !.fw = f]
  /\ UNCHANGED <<sta, disc, evq, fw, host, epoch, odd>>

\* cfg80211 aborts a scan.
ScanAbort(w) == /\ op.pc = "idle" /\ scan.rdev # None /\ scan.rdev.w = w /\ Spend("leaves")
                /\ scan' = AbortScan(scan, w)
                /\ UNCHANGED <<sta, op, disc, evq, fw, host, epoch, odd>>

\* mutant: the timer list forgets to queue the work
ScanTimerLost == /\ scan.timer
                 /\ scan' = [scan EXCEPT !.timer = FALSE]
                 /\ UNCHANGED <<sta, op, disc, evq, fw, host, epoch, odd, left>>

\* skw_scan_timeout: the timer of the request queues a work for its interface.
ScanTimer == /\ scan.timer /\ scan.req # None
             /\ scan' = [scan EXCEPT !.timer = FALSE, !.due = Append(@, scan.req.w)]
             /\ UNCHANGED <<sta, op, disc, evq, fw, host, epoch, odd, left>>

\* SKW_WORK_SCAN_TIMEOUT: the work knows only the interface.
ScanTimeout == /\ scan.due # <<>>
               /\ scan' = ScanDone([scan EXCEPT !.due = Tail(@)], Head(scan.due), TRUE)
               /\ UNCHANGED <<sta, op, disc, evq, fw, host, epoch, odd, left>>
-----------------------------------------------------------------------------
(* cfg80211's authenticate (skw_auth). *)

opKeeps == <<disc, evq, scan, epoch>>

\* Up to the first command.  An answer is promised to nobody when the station is busy or
\* already associated with b.
AuthBegin(b, k) ==
  /\ op.pc = "idle" /\ Spend("auths")
  /\ k \in left.kinds
  /\ k = "confirm" => host.authed = b /\ host.ak = "commit"
  /\ scan' = AbortScan(scan, "sta")
  /\ LET next(pc) == op' = [pc |-> pc, b |-> b, k |-> k]
         s == [sta EXCEPT !.report = FALSE]
     IN \/ /\ \/ sta.sm \in {"AUTHING", "ASSOCING"}
              \/ sta.sm \in {"ASSOCED", "COMPLETED"} /\ sta.bss = b
           /\ sta' = s /\ UNCHANGED <<op, host>>
        \/ /\ sta.sm \in {"ASSOCED", "COMPLETED"} /\ sta.bss # b
           /\ sta' = [s EXCEPT !.sm = "NONE"] /\ next("unjoin")
           /\ host' = [TellDeauth(host, sta.bss) EXCEPT !.req = b]
        \/ /\ sta.sm = "NONE"
           /\ sta' = s /\ next(IF sta.bss # None THEN "unjoin" ELSE "join")
           /\ host' = [host EXCEPT !.req = b]
        \/ /\ sta.sm = "AUTHED"
           /\ sta' = s /\ next("send")
           /\ host' = [host EXCEPT !.req = b]
  /\ odd' = odd \cup Mark(disc.pc # "idle", "stray")
  /\ UNCHANGED <<disc, evq, fw, epoch>>

AuthUnjoin(ok) ==
  /\ op.pc = "unjoin" /\ Outcome(ok) /\ Disconnects(HasPeer(sta, sta.bss), ok)
  /\ sta' = Unjoin(sta, sta.bss, ok)
  /\ op' = IF ok THEN [op EXCEPT !.pc = "join"] ELSE Idle
  /\ odd' = odd \cup Mark(fw' # fw /\ ~ok, "lostcmd")
  /\ UNCHANGED <<opKeeps, host>>

\* skw_assoc behind its checks: the attempt is recorded before its command goes out, and cfg80211
\* waits for an answer.
Associating(s, b) == [s EXCEPT !.cbss = b, !.retry = 0, !.sm = "ASSOCING"]
Awaiting(b) == [host EXCEPT !.assoc = b, !.req = b]

\* skw_join; a channel that is not allowed ends the operation like a failed command.
Join(pc, ok) ==
  /\ Outcome(ok)
  /\ LET s == [Bind(Transmit(sta, FALSE), op.b) EXCEPT !.bss = op.b]
     IN IF ok THEN /\ fw' = CmdJoin(op.b)
                   /\ sta' = IF pc = "assoc" THEN Associating(s, op.b) ELSE s
                   /\ host' = IF pc = "assoc" THEN Awaiting(op.b) ELSE host
                   /\ op' = [op EXCEPT !.pc = pc]
                   /\ odd' = odd
              ELSE /\ fw' \in {fw, CmdJoin(op.b)}
                   /\ odd' = odd \cup Mark(fw' # fw, "lostcmd")
                   /\ op' = Idle /\ UNCHANGED <<sta, host>>
  /\ UNCHANGED opKeeps

AuthJoin(ok) == op.pc = "join" /\ Join("send", ok)

AuthSend ==
  /\ op.pc = "send"
  /\ sta' = [sta EXCEPT !.retry = 0, !.redo = 0, !.kind = op.k, !.rty = "none", !.sm = "AUTHING",
                        !.fresh = sta.timer \/ sta.work]
  /\ epoch' = epoch + 1
  /\ op' = [op EXCEPT !.pc = "auth"]
  /\ UNCHANGED <<disc, evq, scan, fw, host, odd, left>>

\* mutant: the timer that drives the retries is not armed
AuthEndIdle(ok) ==
  /\ op.pc = "auth" /\ ok /\ op' = Idle
  /\ sta' = [sta EXCEPT !.report = TRUE]
  /\ fw' = CmdAuth(fw)
  /\ UNCHANGED <<opKeeps, host, odd, left>>

\* The AUTH command (or the WEP key before it) failed: the BSS is left again.  With the
\* peer's SAE confirm already here, the station is authenticated at once.
AuthEnd(ok) ==
  /\ op.pc = "auth" /\ op' = Idle
  /\ \/ /\ ok /\ UNCHANGED <<odd, left>>
        /\ fw' = CmdAuth(fw)
        /\ sta' = [sta EXCEPT !.timer = TRUE, !.report = TRUE,
                              !.sm = IF op.k = "confirm" /\ sta.confirm THEN "AUTHED" ELSE @]
     \/ /\ ~ok /\ Spend("faults")
        /\ Disconnects(HasPeer(sta, op.b), TRUE)
        /\ sta' = [Unjoin(sta, op.b, TRUE) EXCEPT !.sm = "NONE"] /\ UNCHANGED odd
  /\ UNCHANGED <<opKeeps, host>>
-----------------------------------------------------------------------------
(* cfg80211's associate (skw_assoc); a connected station that moves to another BSS without
   authenticating (802.11r) leaves and joins here.  cfg80211 is not told of the old BSS. *)

AssocBegin(b) ==
  /\ op.pc = "idle" /\ host.assoc = None /\ Spend("assocs")
  /\ \/ host.authed = b /\ host.ak # "commit"
     \/ host.conn \notin {None, b}
  /\ LET next(pc) == op' = [pc |-> pc, b |-> b, k |-> "assoc"]
     IN \/ /\ sta.sm = "AUTHED"
           /\ next("assoc") /\ sta' = Associating(sta, b) /\ host' = Awaiting(b)
           /\ odd' = odd \cup Mark(disc.pc # "idle", "stray") \cup Mark(sta.bss # b, "elsewhere")
        \/ /\ sta.sm \in {"ASSOCED", "COMPLETED"} /\ sta.bss # b
           /\ sta' = [sta EXCEPT !.sm = "NONE"] /\ next("rejoin") /\ odd' = odd \cup {"moved"} \cup Mark(disc.pc # "idle", "stray")
           /\ UNCHANGED host
        \/ /\ sta.sm \notin {"AUTHED", "ASSOCED", "COMPLETED"} \/ (sta.sm # "AUTHED" /\ sta.bss = b)
           /\ UNCHANGED <<sta, host, op, odd>>
  /\ UNCHANGED <<disc, evq, scan, epoch, fw>>

\* skw_unjoin and skw_join
AssocMove(ok) ==
  /\ op.pc = "rejoin"
  /\ \/ /\ HasPeer(sta, sta.bss) /\ Outcome(ok) /\ Disconnects(TRUE, ok)
        /\ sta' = Unjoin(sta, sta.bss, ok)
        /\ op' = IF ok THEN op ELSE Idle
        /\ odd' = odd \cup Mark(fw' # fw /\ ~ok, "lostcmd")
        /\ UNCHANGED <<opKeeps, host>>
     \/ /\ ~HasPeer(sta, sta.bss) /\ Join("assoc", ok)

\* The ASSOC command; step_start keeps the time of the last authentication frame.
AssocEnd(ok) ==
  /\ op.pc = "assoc" /\ op' = Idle
  /\ \/ /\ ok /\ UNCHANGED <<left, host>>
        /\ fw' = CmdAssoc(fw)
        /\ sta' = [sta EXCEPT !.timer = TRUE]
     \/ /\ ~ok /\ Spend("faults")
        /\ Disconnects(HasPeer(sta, op.b), TRUE)
        /\ sta' = [Unjoin(sta, op.b, TRUE) EXCEPT !.sm = "NONE", !.cbss = None, !.timer = FALSE]
        /\ host' = [host EXCEPT !.assoc = None]
  /\ UNCHANGED <<opKeeps, odd>>

\* skw_change_station with the authorized flag: the key exchange is over, and the supplicant
\* does not associate anew.
Authorize ==
  /\ op.pc = "idle" /\ host.conn # None /\ ~host.authz /\ sta.peer = host.conn
  /\ host.assoc = None
  /\ sta' = [sta EXCEPT !.sm = "COMPLETED"] /\ host' = [host EXCEPT !.authz = TRUE]
  /\ odd' = odd \cup Mark(disc.pc # "idle", "stray")
  /\ UNCHANGED <<op, disc, evq, fw, scan, epoch, left>>

LeaveCall(b, ok, told) ==
  /\ op.pc = "idle" /\ b # None
  /\ left.leaves > 0 /\ (~ok => left.faults > 0)
  /\ left' = [left EXCEPT !.leaves = @ - 1, !.faults = IF ok THEN @ ELSE @ - 1]
  /\ Disconnects(HasPeer(sta, b), ok)
  /\ sta' = Leave(sta, b, ok)
  /\ host' = IF told THEN TellDeauth(host, b) ELSE host
  /\ odd' = odd \cup Mark(fw' # fw /\ ~ok, "lostcmd") \cup Mark(~told, "mute")
                \cup Mark(disc.pc # "idle", "stray") \cup Mark(sta.act /\ sta.peer # b, "other")
                \cup Mark(host.assoc \notin {None, b}, "elsewhere")
  /\ UNCHANGED <<op, disc, evq, scan, epoch>>

\* skw_cfg80211_deauth and skw_disassoc, which always reports.
Deauth(b, ok) == b \in {host.conn, host.req} /\ LeaveCall(b, ok, sta.report)
Disassoc(b, ok) == b = host.conn /\ LeaveCall(b, ok, TRUE)
-----------------------------------------------------------------------------
(* The firmware (external): answers, frames of the access point, and events. *)

Event(t, ok) == [t |-> t, b |-> fw.joined, ok |-> ok, k |-> sta.kind, n |-> epoch]
fwKeeps == <<sta, op, disc, host, scan, epoch, odd>>

\* An answer to AUTH; an access point may send its SAE confirm right behind its commit.
FwAuth(ok) ==
  /\ fw.joined # None /\ fw.auth > 0 /\ (IF ok THEN UNCHANGED left ELSE Spend("refusals"))
  /\ fw' = [fw EXCEPT !.auth = @ - 1]
  /\ LET e == Event("auth", ok)
     IN \/ evq' = Append(evq, e)
        \/ /\ ok /\ sta.kind = "commit"
           /\ evq' = Append(evq, e) \o <<[e EXCEPT !.k = "confirm"]>>
  /\ UNCHANGED fwKeeps

FwAssoc(ok) ==
  /\ fw.joined # None /\ fw.assoc > 0 /\ (IF ok THEN UNCHANGED left ELSE Spend("refusals"))
  /\ fw' = [fw EXCEPT !.assoc = @ - 1] /\ evq' = Append(evq, Event("assoc", ok))
  /\ UNCHANGED fwKeeps

\* The access point deauthenticates the station, or the firmware gives it up.
FwKick(t) ==
  /\ fw.joined # None /\ t \in {"deauth", "disconnect"} /\ Spend("kicks")
  /\ evq' = Append(evq, Event(t, TRUE))
  /\ UNCHANGED <<fwKeeps, fw>>

FwScan == /\ scan.fw # None
          /\ evq' = Append(evq, [t |-> "scan", b |-> None, ok |-> TRUE, k |-> scan.fw, n |-> epoch])
          /\ scan' = [scan EXCEPT !.fw = None]
          /\ UNCHANGED <<sta, op, disc, host, epoch, odd, left, fw>>
-----------------------------------------------------------------------------
(* skw_iface_event_work.  A retransmission that has the number of the frame before is
   dropped, as if it had not been sent. *)

Take(t) == disc.pc = "idle" /\ evq # <<>> /\ Head(evq).t = t /\ evq' = Tail(evq)
rxKeeps == <<op, disc, scan, epoch>>

\* skw_event_scan_complete: the event does not say which scan of the interface it ends.
EvScan == /\ Take("scan")
          /\ scan' = ScanDone(scan, Head(evq).k, FALSE)
          /\ UNCHANGED <<sta, op, disc, fw, host, epoch, odd, left>>

\* skw_event_rx_mgmt and skw_sta_rx_deauth
EvDeauth(ok) ==
  /\ Take("deauth") /\ op.pc = "idle"
  /\ LET b == Head(evq).b IN
     IF Head(evq).n < epoch \/ sta.peer # b
     THEN ok /\ UNCHANGED <<sta, fw, host, odd, left>>
     ELSE /\ Outcome(ok) /\ Disconnects(TRUE, ok)
          /\ sta' = Leave(sta, b, ok) /\ host' = TellDeauth(host, b)
          /\ odd' = odd \cup Mark(fw' # fw /\ ~ok, "lostcmd")
  /\ UNCHANGED rxKeeps

\* skw_sta_rx_auth: whatever the state is, a frame of the current BSS makes it AUTHED.  A
\* refusal leaves the BSS; the answer to a retry of the association is not passed on.
EvAuth(ok) ==
  /\ Take("auth") /\ op.pc = "idle"
  /\ LET e == Head(evq)
         s == [sta EXCEPT !.sm = "AUTHED", !.retry = 0, !.fresh = sta.timer \/ sta.work,
                          !.confirm = @ \/ e.k = "confirm"]
         l == IF e.ok THEN s ELSE Leave([s EXCEPT !.report = FALSE], e.b, ok)
     IN IF sta.bss # e.b
        THEN ok /\ UNCHANGED <<sta, fw, host, odd, left>>
        ELSE /\ IF e.ok THEN ok /\ UNCHANGED <<fw, left>>
                ELSE Outcome(ok) /\ Disconnects(HasPeer(sta, e.b), ok)
             /\ sta' = IF sta.rty = "assoc" THEN [l EXCEPT !.sm = "ASSOCING"] ELSE l
             /\ host' = IF sta.rty = "assoc" THEN host ELSE TellAuth(host, e.b, e.ok, e.k)
             /\ odd' = odd \cup Mark(fw' # fw /\ ~ok, "lostcmd")
                           \cup Mark(sta.sm # "AUTHING" /\ ~(sta.sm = "AUTHED" /\ sta.kind \in {"commit", "confirm"}), "late")
                           \cup Mark(sta.rty = "assoc" /\ ~e.ok, "refused")
  /\ UNCHANGED rxKeeps

\* mutant: the transmit path is not opened
EvAssocShut ==
  /\ Take("assoc") /\ op.pc = "idle" /\ sta.peer = Head(evq).b /\ sta.peer # None
  /\ sta' = [sta EXCEPT !.sm = IF Head(evq).ok THEN "ASSOCED" ELSE "NONE", !.cbss = None]
  /\ host' = IF sta.cbss # None THEN TellAssoc(host, sta.cbss, Head(evq).ok) ELSE host
  /\ odd' = odd \cup Mark(sta.sm # "ASSOCING", "late")
  /\ UNCHANGED <<rxKeeps, fw, left>>

\* skw_sta_rx_assoc: a refusal ends in NONE but stays joined.
EvAssoc ==
  /\ Take("assoc") /\ op.pc = "idle"
  /\ LET e == Head(evq) IN
     IF sta.bss = None \/ sta.peer # e.b
     THEN UNCHANGED <<sta, host, odd>>
     ELSE /\ sta' = [sta EXCEPT !.sm = IF e.ok THEN "ASSOCED" ELSE "NONE",
                                !.act = @ \/ e.ok, !.cbss = None,
                                !.report = @ /\ e.ok]
          /\ host' = IF sta.cbss # None THEN TellAssoc(host, sta.cbss, e.ok) ELSE host
          /\ odd' = odd \cup Mark(sta.sm # "ASSOCING", "late")
  /\ UNCHANGED <<rxKeeps, fw, left>>

\* skw_event_disconnect, without the wdev lock, up to the command: skw_sta_leave has reset
\* the state machine and found the peer of the event's BSS, if there is one.
DiscBegin ==
  /\ Take("disconnect")
  /\ LET b == Head(evq).b
     IN /\ disc' = [pc |-> "leave", b |-> b, ctx |-> sta.peer = b]
        /\ sta' = [sta EXCEPT !.sm = "NONE", !.timer = FALSE, !.confirm = FALSE,
                              !.act = @ /\ sta.peer # b]
        /\ odd' = odd \cup Mark(sta.peer # b \/ op.pc \notin {"idle", "scan"}, "stray")
                      \cup Mark(sta.act /\ sta.peer # b, "other")
  /\ UNCHANGED <<op, scan, epoch, fw, host, left>>

\* ... and behind it: the slot of that peer is emptied, whoever is in it now.
DiscEnd(ok) ==
  /\ disc.pc = "leave" /\ Outcome(ok) /\ Disconnects(disc.ctx, ok)
  /\ disc' = [disc EXCEPT !.pc = "idle", !.b = None, !.ctx = FALSE]
  /\ LET gone == disc.ctx /\ ok
     IN sta' = [sta EXCEPT !.bss = IF gone THEN None ELSE @, !.peer = IF gone THEN None ELSE @,
                           !.act = @ /\ ~gone, !.cbss = None]
  /\ host' = IF sta.cbss # None THEN TellAssocFailure(host, sta.cbss) ELSE TellDeauth(host, disc.b)
  /\ odd' = odd \cup Mark(fw' # fw /\ ~ok, "lostcmd") \cup Mark(op.pc \notin {"idle", "scan"}, "stray")
  /\ UNCHANGED <<op, scan, epoch, evq>>
-----------------------------------------------------------------------------
(* skw_sta_timer and skw_sta_work.  `fresh`: step_start is younger than the timer, so the
   step need not be over when the work runs; it may be, since the work can wait. *)

StaTimer == /\ sta.timer
            /\ sta' = [sta EXCEPT !.timer = FALSE, !.work = TRUE]
            /\ UNCHANGED <<op, disc, evq, fw, host, scan, epoch, odd, left>>

workKeeps == <<op, disc, evq, scan, epoch>>
Running(s) == [s EXCEPT !.work = FALSE, !.fresh = FALSE]
Runs == sta.work /\ op.pc = "idle" /\ disc.pc = "idle"

\* The work has nothing to do, or the step is not over yet.
WorkIdle ==
  /\ Runs
  /\ sta' = [Running(sta) EXCEPT !.timer = @ \/ sta.sm \in {"AUTHED", "AUTHING", "ASSOCING"}]
  /\ sta.sm \in {"AUTHED", "AUTHING", "ASSOCING"} => sta.fresh
  /\ UNCHANGED <<workKeeps, fw, host, odd, left>>

\* The last command goes out again, before the limit of retries.
WorkRetry ==
  /\ Runs
  /\ \/ /\ sta.sm = "AUTHING" /\ sta.retry + 1 < MaxAuthRetry
        /\ fw' = CmdAuth(fw)
     \/ /\ sta.sm = "ASSOCING" /\ sta.retry + 1 < MaxAssocRetry
        /\ fw' = CmdAssoc(fw)
  /\ sta' = [Running(sta) EXCEPT !.retry = @ + 1, !.timer = TRUE]
  /\ UNCHANGED <<workKeeps, host, odd, left>>

\* At that limit open authentication starts over, from a deauthentication frame.
WorkRedo ==
  /\ Runs /\ sta.kind = "open" /\ sta.redo < MaxRedo
  /\ \/ sta.sm = "AUTHING" /\ sta.retry + 1 >= MaxAuthRetry
     \/ sta.sm = "ASSOCING" /\ sta.retry + 1 >= MaxAssocRetry
  /\ sta' = [Running(sta) EXCEPT !.sm = "AUTHING", !.retry = 0, !.redo = @ + 1,
                                 !.fresh = sta.timer, !.timer = TRUE,
                                 !.rty = IF sta.sm = "ASSOCING" THEN "assoc"
                                         ELSE IF @ = "none" THEN "auth" ELSE @]
  /\ fw' = CmdAuth(fw)
  /\ UNCHANGED <<workKeeps, host, odd, left>>

\* mutant: the host is not told that its association failed
WorkFailSilent(ok) ==
  /\ Runs /\ sta.sm \in {"AUTHED", "AUTHING", "ASSOCING"} /\ Outcome(ok)
  /\ Disconnects(HasPeer(sta, sta.bss), ok)
  /\ sta' = Leave([Running(sta) EXCEPT !.report = FALSE], sta.bss, ok)
  /\ odd' = odd \cup Mark(fw' # fw /\ ~ok, "lostcmd")
                \cup Mark(sta.sm = "AUTHING" /\ host.assoc # None, "untold")
  /\ UNCHANGED <<workKeeps, host>>

\* The station gives up: no assoc request in time, a command failed, no retry left, or the
\* whole attempt took too long.  The timeout of an authentication is reported for the address
\* skw_sta_leave has just cleared, and nothing else is reported for an association that had
\* fallen back to authentication; cbss stays set.
WorkFail(ok) ==
  /\ Runs /\ sta.sm \in {"AUTHED", "AUTHING", "ASSOCING"} /\ Outcome(ok)
  /\ Disconnects(HasPeer(sta, sta.bss), ok)
  /\ sta' = Leave([Running(sta) EXCEPT !.report = FALSE], sta.bss, ok)
  /\ host' = IF sta.sm = "ASSOCING" THEN TellAssocFailure(host, sta.cbss) ELSE host
  /\ odd' = odd \cup Mark(fw' # fw /\ ~ok, "lostcmd")
                \cup Mark(sta.sm = "AUTHING" /\ host.assoc # None, "untold")
  /\ UNCHANGED workKeeps
-----------------------------------------------------------------------------
Operation == \/ \E ok \in BOOLEAN : \/ AuthUnjoin(ok) \/ AuthJoin(ok) \/ AuthEnd(ok)
                                    \/ AssocMove(ok) \/ AssocEnd(ok)
                                    \/ \E w \in Ifaces : ScanEnd(w, ok)
             \/ AuthSend
Host == \/ \E b \in Bss, k \in Kinds : AuthBegin(b, k)
        \/ \E b \in Bss : AssocBegin(b)
        \/ \E b \in Bss, ok \in BOOLEAN : Deauth(b, ok) \/ Disassoc(b, ok)
        \/ \E w \in Ifaces : ScanBegin(w) \/ ScanAbort(w)
        \/ Authorize
Firmware == \E ok \in BOOLEAN, t \in {"deauth", "disconnect"} :
              FwAuth(ok) \/ FwAssoc(ok) \/ FwKick(t) \/ FwScan
Events == \/ \E ok \in BOOLEAN : EvDeauth(ok) \/ EvAuth(ok) \/ DiscEnd(ok)
          \/ EvScan \/ EvAssoc \/ DiscBegin
Work == WorkIdle \/ WorkRetry \/ WorkRedo \/ \E ok \in BOOLEAN : WorkFail(ok)
ScanClock == ScanTimer \/ ScanTimeout

Next == Operation \/ Host \/ Firmware \/ Events \/ Work \/ StaTimer \/ ScanClock

\* Commands end, workqueues run what is queued, and timers fire.
Fairness == /\ WF_vars(Operation) /\ WF_vars(Events) /\ WF_vars(Work) /\ WF_vars(StaTimer)
            /\ WF_vars(ScanTimer) /\ WF_vars(ScanTimeout)

Spec == Init /\ [][Next]_vars /\ Fairness
-----------------------------------------------------------------------------
(* Properties.  `odd` names the cases in which the code is known to go wrong:
   "late"    an answer comes in a state that does not wait for it (skw_sta_rx_auth and
             skw_sta_rx_assoc do not look at the state), after a retry was sent;
   "stray"   a disconnect event for another BSS than the current one, or during an operation;
   "other"   the station is told to leave a BSS that is not its peer while it is associated:
             skw_sta_leave resets the state machine before it looks for the peer;
   "elsewhere" the host asks to associate with another BSS than the one the driver is
             authenticated with, which skw_assoc does not notice, or to leave another one than
             the one it associates with: the state machine is reset all the same;
   "moved"   an 802.11r move, whose failure cfg80211 is not told;
   "mute"    skw_cfg80211_auth cleared report_deauth, and the station was then told to leave;
   "refused" the repeated authentication of an association is refused: ASSOCING for ever;
   "untold"  that repeated authentication times out: reported as an authentication timeout;
   "lostcmd" the firmware carried out a command whose answer was lost. *)

Without(x) == odd \cap x = {}

\* The driver, its peer slot and the firmware are joined to the same BSS.
JoinAgrees == Quiet /\ Without({"lostcmd"}) => sta.peer = sta.bss /\ fw.joined = sta.peer

\* Frames are only sent on an association.
SendsWhenAssociated ==
  sta.act /\ Without({"late", "other"}) =>
    sta.sm \in {"ASSOCED", "COMPLETED"} \/ op.pc \in {"unjoin", "rejoin"}

\* The driver's scan is the one cfg80211 waits for.
ScanIsCurrent == scan.req # None => scan.req = scan.rdev

\* The station's records fit together through every failing command and every interleaving of
\* the unlocked disconnect event: driver, peer slot and firmware are joined to the same BSS
\* (skw_join, skw_unjoin, skw_sta_leave), the transmit path is open on an association only, and
\* the scan request handed back to cfg80211, which frees it, is the current one (skw_scan_done).
Consistent == TypeOK /\ JoinAgrees /\ SendsWhenAssociated /\ ScanIsCurrent

\* The driver and cfg80211 agree on the connection: one that cfg80211 knows of is one the
\* driver is associated with, can send on and, when authorized, lets data pass
\* (skw_sta_rx_assoc, skw_sta_leave, skw_event_disconnect against cfg80211's reports).
ViewsAgree ==
  Quiet /\ Without({"late", "stray", "moved", "mute"}) =>
    /\ (sta.sm \in {"ASSOCED", "COMPLETED"}) <=> (host.conn # None)
    /\ host.conn # None => /\ sta.bss = host.conn /\ sta.peer = host.conn /\ sta.act
                           /\ host.authz <=> sta.sm = "COMPLETED"

\* An association the host asked for is answered or still pursued (cbss in skw_assoc,
\* skw_sta_rx_assoc, skw_sta_work, skw_event_disconnect).
AssocPursued ==
  Quiet /\ host.assoc # None /\ Without({"late", "mute", "untold", "elsewhere"}) =>
    /\ sta.cbss = host.assoc
    /\ sta.sm = "ASSOCING" \/ (sta.sm = "AUTHING" /\ sta.rty = "assoc")

\* cfg80211 and the driver agree on the connection, and an association the host asked for is
\* answered or still pursued (skw_sta_rx_assoc, skw_sta_leave, skw_assoc).
HostAgrees == ViewsAgree /\ AssocPursued

\* A connection attempt ends: the retry timer never gets lost (skw_set_sta_timer, skw_sta_work).
Attempted == sta.sm \notin {"AUTHING", "AUTHED", "ASSOCING"} \/ ~Without({"late", "stray", "refused"})
Settles == []<>Attempted

\* Every scan ends, even when the firmware never reports it (skw_scan_timeout).
ScanEnds == []<>(scan.rdev = None)
=============================================================================
