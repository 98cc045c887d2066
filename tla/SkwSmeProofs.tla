---------------------------- MODULE SkwSmeProofs ----------------------------
(***************************************************************************)
(* Theorems about the station (SkwSme), for every set of access points,    *)
(* every limit on the retries and every load.                              *)
(***************************************************************************)
EXTENDS SkwSme, TLAPS

OpPcs == {"idle", "unjoin", "join", "send", "auth", "rejoin", "assoc", "scan"}
MaybeIface == Ifaces \cup {None}

Stas == [sm : States, bss : MaybeBss, peer : MaybeBss, act : BOOLEAN, cbss : MaybeBss,
         rty : {"none", "auth", "assoc"}, retry : 0 .. MaxAuthRetry + MaxAssocRetry,
         redo : 0 .. MaxRedo, kind : Kinds, confirm : BOOLEAN, report : BOOLEAN,
         timer : BOOLEAN, fresh : BOOLEAN, work : BOOLEAN]
Ops == [pc : OpPcs, b : MaybeBss, k : Kinds \cup Ifaces \cup {"assoc"}]
Discs == [pc : {"idle", "leave"}, b : MaybeBss, ctx : BOOLEAN]
EvTypes == {"auth", "assoc", "deauth", "disconnect", "scan"}
EvKinds == Kinds \cup Ifaces
Reports == [t : EvTypes, b : MaybeBss, ok : BOOLEAN, k : EvKinds, n : Nat]
Fws == [joined : MaybeBss, auth : Nat, assoc : Nat]
Hosts == [conn : MaybeBss, authz : BOOLEAN, assoc : MaybeBss, authed : MaybeBss,
          ak : EvKinds, req : MaybeBss]
Reqs == [w : Ifaces, n : Nat]
Scans == [req : Reqs \cup {None}, timer : BOOLEAN, due : Seq(Ifaces), fw : MaybeIface,
          rdev : Reqs \cup {None}, n : Nat]

\* The sets the variables stay in.  An authentication in progress keeps its kind.
TypeInv ==
  /\ sta \in Stas /\ op \in Ops /\ disc \in Discs /\ evq \in Seq(Reports)
  /\ fw \in Fws /\ host \in Hosts /\ scan \in Scans /\ epoch \in Nat
  /\ op.pc \in {"unjoin", "join", "send"} => op.k \in Kinds

\* The driver's record of the BSS and its peer slot change together.
SamePeer == sta.peer = sta.bss

\* The firmware follows unless it carried out a command that seemed to fail.
FwFollows == Without({"lostcmd"}) => fw.joined = sta.peer

\* An open transmit path belongs to a peer, and is shut before an operation or the disconnect
\* event goes on to the next BSS.
ShutInTime ==
  sta.act /\ Without({"late", "other"}) =>
    /\ sta.peer # None /\ disc.pc = "idle"
    /\ \/ op.pc \in {"idle", "scan"} /\ sta.sm \in {"ASSOCED", "COMPLETED"}
       \/ op.pc \in {"unjoin", "rejoin"}

SmeInv == TypeInv /\ SamePeer /\ FwFollows /\ ShutInTime /\ ScanIsCurrent
-----------------------------------------------------------------------------
(* The peer slot. *)

\* skw_unjoin on the station's record: with a peer the transmit path is shut, and the slot and
\* the record are emptied when the command succeeds; without one nothing changes.
LEMMA UnjoinRecord ==
  ASSUME NEW s \in Stas, NEW b \in MaybeBss, NEW ok \in BOOLEAN
  PROVE  /\ Unjoin(s, b, ok) \in Stas
         /\ Unjoin(s, b, ok).sm = s.sm
         /\ ~HasPeer(s, b) => Unjoin(s, b, ok) = s
         /\ HasPeer(s, b) => Unjoin(s, b, ok).act = FALSE
         /\ HasPeer(s, b) /\ ok => Unjoin(s, b, ok).peer = None /\ Unjoin(s, b, ok).bss = None
         /\ HasPeer(s, b) /\ ~ok => Unjoin(s, b, ok).peer = s.peer /\ Unjoin(s, b, ok).bss = s.bss
<1>1. CASE ~HasPeer(s, b)
  BY <1>1 DEF Unjoin
<1>2. CASE HasPeer(s, b) /\ ok
  BY <1>2 DEF Unjoin, Bind, Transmit, Stas, MaybeBss
<1>3. CASE HasPeer(s, b) /\ ~ok
  BY <1>3 DEF Unjoin, Transmit, Stas
<1> QED
  BY <1>1, <1>2, <1>3

\* skw_sta_leave: the same, and the state machine is reset whether there is a peer or not.
LEMMA LeaveRecord ==
  ASSUME NEW s \in Stas, NEW b \in MaybeBss, NEW ok \in BOOLEAN
  PROVE  /\ Leave(s, b, ok) \in Stas
         /\ Leave(s, b, ok).sm = "NONE"
         /\ ~HasPeer(s, b) => /\ Leave(s, b, ok).act = s.act
                              /\ Leave(s, b, ok).peer = s.peer /\ Leave(s, b, ok).bss = s.bss
         /\ HasPeer(s, b) => Leave(s, b, ok).act = FALSE
         /\ HasPeer(s, b) /\ ok => Leave(s, b, ok).peer = None /\ Leave(s, b, ok).bss = None
         /\ HasPeer(s, b) /\ ~ok => Leave(s, b, ok).peer = s.peer /\ Leave(s, b, ok).bss = s.bss
<1> DEFINE r == [s EXCEPT !.sm = "NONE", !.timer = FALSE, !.confirm = FALSE]
<1>1. r \in Stas /\ r.sm = "NONE" /\ r.act = s.act /\ r.peer = s.peer /\ r.bss = s.bss
  BY DEF Stas, States
<1>2. HasPeer(r, b) <=> HasPeer(s, b)
  BY <1>1 DEF HasPeer
<1>3. Leave(s, b, ok) = Unjoin(r, b, ok)
  BY DEF Leave
<1> HIDE DEF r
<1>4. Unjoin(r, b, ok) \in Stas /\ Unjoin(r, b, ok).sm = "NONE"
  BY <1>1, UnjoinRecord
<1>5. CASE ~HasPeer(s, b)
  <2>1. Leave(s, b, ok) = r
    BY <1>1, <1>2, <1>3, <1>5, UnjoinRecord
  <2> QED
    BY <1>1, <1>5, <2>1
<1>6. CASE HasPeer(s, b) /\ ok
  <2>1. /\ Unjoin(r, b, ok).act = FALSE
        /\ Unjoin(r, b, ok).peer = None /\ Unjoin(r, b, ok).bss = None
    BY <1>1, <1>2, <1>6, UnjoinRecord
  <2> QED
    BY <1>3, <1>4, <1>6, <2>1
<1>7. CASE HasPeer(s, b) /\ ~ok
  <2>1. /\ Unjoin(r, b, ok).act = FALSE
        /\ Unjoin(r, b, ok).peer = s.peer /\ Unjoin(r, b, ok).bss = s.bss
    BY <1>1, <1>2, <1>7, UnjoinRecord
  <2> QED
    BY <1>3, <1>4, <1>7, <2>1
<1> QED
  BY <1>5, <1>6, <1>7

\* The DISCONNECT command: it empties the firmware's BSS when it succeeds; when it seems to fail
\* the firmware is as before or has been emptied all the same.
LEMMA DisconnectsFw ==
  ASSUME fw \in Fws, NEW sent \in BOOLEAN, NEW ok \in BOOLEAN, Disconnects(sent, ok)
  PROVE  /\ fw' \in Fws
         /\ ~sent => fw' = fw /\ ok
         /\ sent /\ ok => fw'.joined = None
         /\ sent /\ ~ok => fw' = fw \/ fw'.joined = None
BY DEF Disconnects, Gone, Fws, MaybeBss

\* What cfg80211 is told keeps its record one of a host.
LEMMA HostRecord ==
  ASSUME NEW h \in Hosts, NEW b \in MaybeBss, NEW ok \in BOOLEAN, NEW k \in EvKinds
  PROVE  /\ TellAuth(h, b, ok, k) \in Hosts
         /\ TellDeauth(h, b) \in Hosts
         /\ TellAssoc(h, b, ok) \in Hosts
         /\ TellAssocFailure(h, b) \in Hosts
<1>1. TellAuth(h, b, ok, k) \in Hosts
  BY DEF TellAuth, Hosts, MaybeBss
<1>2. TellDeauth(h, b) \in Hosts
  BY DEF TellDeauth, Hosts, MaybeBss
<1>3. TellAssoc(h, b, ok) \in Hosts
  BY DEF TellAssoc, Hosts, MaybeBss
<1>4. TellAssocFailure(h, b) \in Hosts
  BY DEF TellAssocFailure, Hosts, MaybeBss
<1> QED
  BY <1>1, <1>2, <1>3, <1>4

LEMMA FwRecord ==
  ASSUME NEW f \in Fws, NEW b \in MaybeBss
  PROVE  /\ CmdJoin(b) \in Fws /\ CmdJoin(b).joined = b
         /\ CmdAuth(f) \in Fws /\ CmdAuth(f).joined = f.joined
         /\ CmdAssoc(f) \in Fws /\ CmdAssoc(f).joined = f.joined
BY DEF CmdJoin, CmdAuth, CmdAssoc, Fws

\* skw_scan_done: the request handed back is the one cfg80211 waits for.
LEMMA ScanDoneRecord ==
  ASSUME NEW s \in Scans, NEW w, NEW aborted \in BOOLEAN,
         s.req # None => s.req = s.rdev
  PROVE  /\ ScanDone(s, w, aborted) \in Scans
         /\ ScanDone(s, w, aborted).req # None =>
               ScanDone(s, w, aborted).req = ScanDone(s, w, aborted).rdev
<1>1. CASE s.req = None \/ s.req.w # w
  BY <1>1 DEF ScanDone
<1>2. CASE ~(s.req = None \/ s.req.w # w)
  <2>1. ScanDone(s, w, aborted) =
          [s EXCEPT !.req = None, !.timer = FALSE, !.fw = IF aborted THEN None ELSE s.fw,
                    !.rdev = IF s.rdev = s.req THEN None ELSE s.rdev]
    BY <1>2 DEF ScanDone
  <2>2. (IF aborted THEN None ELSE s.fw) \in MaybeIface
    BY DEF Scans, MaybeIface
  <2>3. (IF s.rdev = s.req THEN None ELSE s.rdev) \in Reqs \cup {None}
    BY DEF Scans
  <2> QED
    BY <2>1, <2>2, <2>3 DEF Scans
<1> QED
  BY <1>1, <1>2

LEMMA AbortScanRecord ==
  ASSUME NEW s \in Scans, NEW w \in Ifaces, s.req # None => s.req = s.rdev
  PROVE  /\ AbortScan(s, w) \in Scans
         /\ AbortScan(s, w).req # None => AbortScan(s, w).req = AbortScan(s, w).rdev
<1> DEFINE q == [s EXCEPT !.fw = IF @ = w THEN None ELSE @]
<1>1. q \in Scans /\ q.req = s.req /\ q.rdev = s.rdev
  BY DEF Scans, MaybeIface
<1>2. AbortScan(s, w) = IF s.req = None THEN s ELSE ScanDone(q, w, FALSE)
  BY DEF AbortScan
<1> HIDE DEF q
<1> QED
  BY <1>1, <1>2, ScanDoneRecord
-----------------------------------------------------------------------------
(* Leaving a BSS keeps the peer slot and the firmware together. *)

USE DEF Mark

\* What LeaveFits proves of the step that leaves BSS b from the record s.
Fits == SamePeer' /\ FwFollows'

\* A command to leave, whatever becomes of it, is marked when the firmware and the driver
\* part: the slot, the record and the firmware stay together otherwise.
LEMMA LeaveFits ==
  ASSUME SamePeer, FwFollows, fw \in Fws, NEW b \in MaybeBss, NEW ok \in BOOLEAN,
         NEW sent \in BOOLEAN,
         Disconnects(sent, ok),
         ~sent => sta'.peer = sta.peer /\ sta'.bss = sta.bss,
         sent /\ ok => sta'.peer = None /\ sta'.bss = None,
         sent /\ ~ok => sta'.peer = sta.peer /\ sta'.bss = sta.bss,
         odd \subseteq odd', fw' # fw /\ ~ok => "lostcmd" \in odd'
  PROVE  Fits
<1>1. SamePeer'
  BY DEF SamePeer
<1>2. ASSUME Without({"lostcmd"})' PROVE fw'.joined = sta'.peer
  <2>1. "lostcmd" \notin odd /\ "lostcmd" \notin odd'
    BY <1>2 DEF Without
  <2>2. fw.joined = sta.peer
    BY <2>1 DEF FwFollows, Without
  <2>3. fw' = fw \/ ok
    BY <2>1
  <2>4. (~sent => fw' = fw) /\ (sent /\ ok => fw'.joined = None)
    BY DisconnectsFw
  <2> QED
    BY <2>2, <2>3, <2>4
<1> QED
  BY <1>1, <1>2 DEF FwFollows, Fits

\* A step that touches neither the slot, nor the record, nor the firmware's BSS.
LEMMA SameFits ==
  ASSUME SamePeer, FwFollows, sta'.peer = sta.peer, sta'.bss = sta.bss,
         fw'.joined = fw.joined, odd \subseteq odd'
  PROVE  Fits
BY DEF SamePeer, FwFollows, Fits, Without

\* A step after which nothing can be sent.
LEMMA ShutHolds ==
  ASSUME ~sta'.act
  PROVE  ShutInTime'
BY DEF ShutInTime

\* A step that leaves the slot, the path, the state machine and the threads alone.
LEMMA SameShut ==
  ASSUME ShutInTime, sta'.peer = sta.peer, sta'.act = sta.act, sta'.sm = sta.sm,
         op'.pc = op.pc, disc'.pc = disc.pc, odd \subseteq odd'
  PROVE  ShutInTime'
BY DEF ShutInTime, Without
-----------------------------------------------------------------------------
(* The initial state, and the operations of the scan. *)

Consequences == Fits /\ ShutInTime' /\ ScanIsCurrent'

LEMMA InitInv == Init => SmeInv
<1> SUFFICES ASSUME Init PROVE SmeInv
  OBVIOUS
<1>1. sta \in Stas /\ op \in Ops /\ disc \in Discs
  BY SmeAssumption DEF Init, Stas, Ops, Discs, Idle, States, MaybeBss, Kinds, OpPcs
<1>2. evq \in Seq(Reports) /\ fw \in Fws /\ epoch \in Nat
  BY DEF Init, Fws, MaybeBss
<1>3. host \in Hosts /\ scan \in Scans
  BY DEF Init, Hosts, Scans, MaybeBss, MaybeIface, EvKinds, Kinds
<1>4. op.pc = "idle" /\ sta.act = FALSE
  BY DEF Init, Idle
<1> QED
  BY <1>1, <1>2, <1>3, <1>4
     DEF Init, SmeInv, TypeInv, SamePeer, FwFollows, ShutInTime, ScanIsCurrent

\* A step of the scan leaves the station alone.
LEMMA ScanLeavesStation ==
  ASSUME SmeInv, sta' = sta, fw' = fw, disc' = disc, odd' = odd,
         op'.pc = op.pc \/ (op.pc \in {"idle", "scan"} /\ op'.pc \in {"idle", "scan"})
  PROVE  Fits /\ ShutInTime'
<1>1. Fits
  BY SameFits DEF SmeInv
<1>2. ShutInTime'
  BY DEF SmeInv, ShutInTime, Without
<1> QED
  BY <1>1, <1>2

LEMMA ScanBeginInv ==
  ASSUME SmeInv, NEW w \in Ifaces, ScanBegin(w)
  PROVE  TypeInv' /\ Consequences
<1> DEFINE r == [w |-> w, n |-> scan.n + 1]
<1>1. r \in Reqs
  BY DEF SmeInv, TypeInv, Scans, Reqs
<1>2. /\ scan' = [scan EXCEPT !.req = r, !.rdev = r, !.timer = TRUE, !.n = scan.n + 1]
      /\ op' = [Idle EXCEPT !.pc = "scan", !.k = w] /\ op.pc = "idle"
      /\ UNCHANGED <<sta, disc, evq, fw, host, epoch, odd>>
  BY DEF ScanBegin
<1> HIDE DEF r
<1>3. scan \in Scans /\ scan.n + 1 \in Nat
  BY DEF SmeInv, TypeInv, Scans
<1>4. scan' \in Scans
  BY <1>1, <1>2, <1>3 DEF Scans
<1>5. scan'.req = scan'.rdev
  BY <1>2, <1>3 DEF Scans
<1>6. op' \in Ops /\ op'.pc = "scan"
  BY <1>2 DEF Idle, Ops, OpPcs, MaybeBss
<1> QED
  BY <1>2, <1>4, <1>5, <1>6, ScanLeavesStation DEF SmeInv, TypeInv, Consequences, ScanIsCurrent

LEMMA IdleType == Idle \in Ops /\ Idle.pc = "idle"
BY DEF Idle, Ops, OpPcs, MaybeBss, Kinds

LEMMA ScanEndInv ==
  ASSUME SmeInv, NEW w \in Ifaces, NEW ok \in BOOLEAN, ScanEnd(w, ok)
  PROVE  TypeInv' /\ Consequences
<1>1. op.pc = "scan" /\ op' = Idle /\ UNCHANGED <<sta, disc, evq, fw, host, epoch, odd>>
  BY DEF ScanEnd
<1>2. scan' \in Scans /\ ScanIsCurrent'
  <2>1. CASE scan' = [scan EXCEPT !.fw = w]
    BY <2>1 DEF SmeInv, TypeInv, Scans, MaybeIface, ScanIsCurrent
  <2>2. ASSUME NEW f \in {scan.fw, w},
               scan' = [scan EXCEPT !.req = None, !.timer = FALSE, !.rdev = None, !.fw = f]
        PROVE  scan' \in Scans /\ ScanIsCurrent'
    BY <2>2 DEF SmeInv, TypeInv, Scans, MaybeIface, ScanIsCurrent
  <2> QED
    BY <2>1, <2>2 DEF ScanEnd
<1> QED
  BY <1>1, <1>2, IdleType, ScanLeavesStation DEF SmeInv, TypeInv, Consequences

LEMMA ScanAbortInv ==
  ASSUME SmeInv, NEW w \in Ifaces, ScanAbort(w)
  PROVE  TypeInv' /\ Consequences
<1>1. scan' = AbortScan(scan, w) /\ UNCHANGED <<sta, op, disc, evq, fw, host, epoch, odd>>
  BY DEF ScanAbort
<1>2. scan' \in Scans /\ ScanIsCurrent'
  BY <1>1, AbortScanRecord DEF SmeInv, TypeInv, ScanIsCurrent
<1> QED
  BY <1>1, <1>2, ScanLeavesStation DEF SmeInv, TypeInv, Consequences

LEMMA ScanTimerInv ==
  ASSUME SmeInv, ScanTimer
  PROVE  TypeInv' /\ Consequences
<1>1. /\ scan.req # None /\ scan' = [scan EXCEPT !.timer = FALSE, !.due = Append(scan.due, scan.req.w)]
      /\ UNCHANGED <<sta, op, disc, evq, fw, host, epoch, odd>>
  BY DEF ScanTimer
<1>2. scan.due \in Seq(Ifaces) /\ scan.req.w \in Ifaces
  BY <1>1 DEF SmeInv, TypeInv, Scans, Reqs
<1>3. Append(scan.due, scan.req.w) \in Seq(Ifaces)
  BY <1>2
<1>4. scan' \in Scans /\ ScanIsCurrent'
  BY <1>1, <1>3 DEF SmeInv, TypeInv, Scans, ScanIsCurrent
<1> QED
  BY <1>1, <1>4, ScanLeavesStation DEF SmeInv, TypeInv, Consequences

LEMMA ScanTimeoutInv ==
  ASSUME SmeInv, ScanTimeout
  PROVE  TypeInv' /\ Consequences
<1> DEFINE q == [scan EXCEPT !.due = Tail(scan.due)]
<1>1. /\ scan.due # <<>> /\ scan' = ScanDone(q, Head(scan.due), TRUE)
      /\ UNCHANGED <<sta, op, disc, evq, fw, host, epoch, odd>>
  BY DEF ScanTimeout
<1>2. scan.due \in Seq(Ifaces)
  BY DEF SmeInv, TypeInv, Scans
<1>3. Head(scan.due) \in Ifaces /\ Tail(scan.due) \in Seq(Ifaces)
  BY <1>1, <1>2
<1>4. q \in Scans /\ q.req = scan.req /\ q.rdev = scan.rdev
  BY <1>3 DEF SmeInv, TypeInv, Scans
<1> HIDE DEF q
<1>5. scan' \in Scans /\ ScanIsCurrent'
  BY <1>1, <1>3, <1>4, ScanDoneRecord DEF SmeInv, ScanIsCurrent
<1> QED
  BY <1>1, <1>5, ScanLeavesStation DEF SmeInv, TypeInv, Consequences

LEMMA FwScanInv ==
  ASSUME SmeInv, FwScan
  PROVE  TypeInv' /\ Consequences
<1> DEFINE e == [t |-> "scan", b |-> None, ok |-> TRUE, k |-> scan.fw, n |-> epoch]
<1>1. /\ scan.fw # None /\ evq' = Append(evq, e) /\ scan' = [scan EXCEPT !.fw = None]
      /\ UNCHANGED <<sta, op, disc, host, epoch, odd, fw>>
  BY DEF FwScan
<1>2. e \in Reports
  BY <1>1 DEF SmeInv, TypeInv, Reports, EvTypes, EvKinds, MaybeBss, Scans, MaybeIface
<1> HIDE DEF e
<1>3. evq' \in Seq(Reports)
  BY <1>1, <1>2 DEF SmeInv, TypeInv
<1>4. scan' \in Scans /\ ScanIsCurrent'
  BY <1>1 DEF SmeInv, TypeInv, Scans, MaybeIface, ScanIsCurrent
<1> QED
  BY <1>1, <1>3, <1>4, ScanLeavesStation DEF SmeInv, TypeInv, Consequences

\* The event that event_work takes is one of those queued.
LEMMA TakeType ==
  ASSUME TypeInv, NEW t \in EvTypes, Take(t)
  PROVE  /\ Head(evq) \in Reports /\ Head(evq).t = t /\ evq' \in Seq(Reports)
         /\ disc.pc = "idle"
BY DEF TypeInv, Take

LEMMA EvScanInv ==
  ASSUME SmeInv, EvScan
  PROVE  TypeInv' /\ Consequences
<1>1. /\ scan' = ScanDone(scan, Head(evq).k, FALSE) /\ evq' \in Seq(Reports)
      /\ UNCHANGED <<sta, op, disc, fw, host, epoch, odd>>
  BY TakeType DEF EvScan, SmeInv, EvTypes
<1>2. scan' \in Scans /\ ScanIsCurrent'
  BY <1>1, ScanDoneRecord DEF SmeInv, TypeInv, ScanIsCurrent
<1> QED
  BY <1>1, <1>2, ScanLeavesStation DEF SmeInv, TypeInv, Consequences
-----------------------------------------------------------------------------
(* Authentication. *)

LEMMA AuthBeginInv ==
  ASSUME SmeInv, NEW b \in Bss, NEW k \in Kinds, AuthBegin(b, k)
  PROVE  TypeInv' /\ Consequences
<1> DEFINE s == [sta EXCEPT !.report = FALSE]
           nextOp(p) == [pc |-> p, b |-> b, k |-> k]
<1>1. /\ op.pc = "idle" /\ scan' = AbortScan(scan, "sta")
      /\ odd \subseteq odd' /\ UNCHANGED <<disc, evq, fw, epoch>>
  BY DEF AuthBegin
<1>2. s \in Stas /\ s.sm = sta.sm /\ s.act = sta.act /\ s.peer = sta.peer /\ s.bss = sta.bss
  BY DEF Stas, SmeInv, TypeInv
<1>3. scan' \in Scans /\ ScanIsCurrent'
  BY <1>1, AbortScanRecord DEF SmeInv, TypeInv, ScanIsCurrent, Ifaces
<1>4. /\ nextOp("unjoin") \in Ops /\ nextOp("join") \in Ops /\ nextOp("send") \in Ops
      /\ nextOp("unjoin").k \in Kinds /\ nextOp("join").k \in Kinds /\ nextOp("send").k \in Kinds
      /\ nextOp("unjoin").pc = "unjoin" /\ nextOp("join").pc = "join" /\ nextOp("send").pc = "send"
  BY DEF Ops, OpPcs, MaybeBss
<1>5. \/ /\ sta' = s /\ UNCHANGED <<op, host>>
      \/ /\ sta.sm \in {"ASSOCED", "COMPLETED"}
         /\ sta' = [s EXCEPT !.sm = "NONE"] /\ op' = nextOp("unjoin")
         /\ host' = [TellDeauth(host, sta.bss) EXCEPT !.req = b]
      \/ /\ sta.sm = "NONE" /\ sta' = s /\ host' = [host EXCEPT !.req = b]
         /\ \/ sta.bss # None /\ op' = nextOp("unjoin")
            \/ sta.bss = None /\ op' = nextOp("join")
      \/ /\ sta.sm = "AUTHED" /\ sta' = s /\ op' = nextOp("send") /\ host' = [host EXCEPT !.req = b]
  BY DEF AuthBegin
<1> HIDE DEF s, nextOp
<1>6. sta.bss \in MaybeBss /\ host \in Hosts /\ b \in MaybeBss
  BY DEF SmeInv, TypeInv, Stas, MaybeBss
<1>7. TellDeauth(host, sta.bss) \in Hosts
  BY <1>6, HostRecord DEF EvKinds, Kinds
<1>8. host' \in Hosts
  BY <1>5, <1>6, <1>7 DEF Hosts
<1>9. /\ sta' \in Stas /\ sta'.act = sta.act /\ sta'.peer = sta.peer /\ sta'.bss = sta.bss
      /\ sta'.sm = sta.sm \/ (sta'.sm = "NONE" /\ op' = nextOp("unjoin"))
  BY <1>2, <1>5 DEF Stas, States
<1>10. op' \in Ops /\ (op'.pc \in {"unjoin", "join", "send"} => op'.k \in Kinds)
  BY <1>1, <1>4, <1>5 DEF SmeInv, TypeInv
<1>11. Fits
  BY <1>1, <1>9, SameFits DEF SmeInv
<1>12. ShutInTime'
  <2> SUFFICES ASSUME sta'.act, Without({"late", "other"})' PROVE ShutInTime'
    BY DEF ShutInTime
  <2>1. /\ sta.peer # None /\ disc.pc = "idle" /\ sta.sm \in {"ASSOCED", "COMPLETED"}
    BY <1>1, <1>9 DEF SmeInv, ShutInTime, Without
  <2>2. op' = nextOp("unjoin") \/ (op' = op /\ sta'.sm = sta.sm)
    BY <1>5, <1>9, <2>1 DEF SmeInv, SamePeer
  <2> QED
    BY <1>1, <1>4, <1>9, <2>1, <2>2 DEF ShutInTime
<1> QED
  BY <1>1, <1>3, <1>8, <1>9, <1>10, <1>11, <1>12 DEF TypeInv, SmeInv, Consequences

LEMMA AuthUnjoinInv ==
  ASSUME SmeInv, NEW ok \in BOOLEAN, AuthUnjoin(ok)
  PROVE  TypeInv' /\ Consequences
<1>1. /\ op.pc = "unjoin" /\ Disconnects(HasPeer(sta, sta.bss), ok)
      /\ sta' = Unjoin(sta, sta.bss, ok)
      /\ op' = IF ok THEN [op EXCEPT !.pc = "join"] ELSE Idle
      /\ odd \subseteq odd' /\ (fw' # fw /\ ~ok => "lostcmd" \in odd')
      /\ UNCHANGED <<disc, evq, scan, epoch, host>>
  BY DEF AuthUnjoin, opKeeps
<1>2. sta \in Stas /\ sta.bss \in MaybeBss /\ fw \in Fws /\ HasPeer(sta, sta.bss) \in BOOLEAN
  BY DEF SmeInv, TypeInv, Stas, HasPeer
<1>3. /\ sta' \in Stas
      /\ ~HasPeer(sta, sta.bss) => sta' = sta
      /\ HasPeer(sta, sta.bss) => sta'.act = FALSE
      /\ HasPeer(sta, sta.bss) /\ ok => sta'.peer = None /\ sta'.bss = None
      /\ HasPeer(sta, sta.bss) /\ ~ok => sta'.peer = sta.peer /\ sta'.bss = sta.bss
  BY <1>1, <1>2, UnjoinRecord
<1>4. Fits
  BY <1>1, <1>2, <1>3, LeaveFits DEF SmeInv
<1>5. op' \in Ops /\ (op'.pc \in {"unjoin", "join", "send"} => op'.k \in Kinds)
  BY <1>1, IdleType DEF SmeInv, TypeInv, Ops, OpPcs
<1>6. fw' \in Fws
  BY <1>1, <1>2, DisconnectsFw
<1>7. ShutInTime'
  <2>1. CASE HasPeer(sta, sta.bss)
    BY <1>3, <2>1, ShutHolds
  <2>2. CASE ~HasPeer(sta, sta.bss)
    <3>1. sta' = sta /\ sta.peer = None
      BY <1>3, <2>2 DEF SmeInv, SamePeer, HasPeer
    <3> QED
      BY <1>1, <3>1 DEF SmeInv, ShutInTime, Without
  <2> QED
    BY <2>1, <2>2
<1> QED
  BY <1>1, <1>3, <1>4, <1>5, <1>6, <1>7 DEF TypeInv, SmeInv, Consequences, ScanIsCurrent

\* skw_assoc's record of an attempt: nothing of the join changes.
LEMMA AssociatingRecord ==
  ASSUME host \in Hosts, NEW s \in Stas, NEW b \in MaybeBss
  PROVE  /\ Associating(s, b) \in Stas /\ Awaiting(b) \in Hosts
         /\ Associating(s, b).act = s.act /\ Associating(s, b).peer = s.peer
         /\ Associating(s, b).bss = s.bss
<1>1. 0 \in 0 .. MaxAuthRetry + MaxAssocRetry
  BY SmeAssumption
<1> QED
  BY <1>1 DEF Associating, Awaiting, Stas, States, Hosts

\* skw_join binds the peer to the BSS it records, with the path shut; one that seems to fail
\* changes nothing here.
LEMMA JoinInv ==
  ASSUME SmeInv, NEW pc \in {"send", "assoc"}, NEW ok \in BOOLEAN, Join(pc, ok),
         op.pc \in {"join", "rejoin"}, pc = "send" => op.k \in Kinds,
         sta.act /\ Without({"late", "other"}) => op.pc = "rejoin" /\ sta.peer = None
  PROVE  TypeInv' /\ Consequences
<1>1. sta \in Stas /\ op \in Ops /\ fw \in Fws /\ op.b \in MaybeBss /\ host \in Hosts
  BY DEF SmeInv, TypeInv, Ops
<1>2. CmdJoin(op.b) \in Fws /\ CmdJoin(op.b).joined = op.b
  BY <1>1, FwRecord
<1>3. UNCHANGED <<disc, evq, scan, epoch>> /\ odd \subseteq odd'
  BY DEF Join, opKeeps
<1>4. CASE ok
  <2> DEFINE s == [Bind(Transmit(sta, FALSE), op.b) EXCEPT !.bss = op.b]
  <2>1. /\ fw' = CmdJoin(op.b) /\ op' = [op EXCEPT !.pc = pc]
        /\ \/ sta' = s /\ host' = host
           \/ sta' = Associating(s, op.b) /\ host' = Awaiting(op.b)
    BY <1>4 DEF Join
  <2>2. s \in Stas /\ s.act = FALSE /\ s.peer = op.b /\ s.bss = op.b
    BY <1>1 DEF Bind, Transmit, Stas
  <2> HIDE DEF s
  <2>3. sta' \in Stas /\ sta'.act = FALSE /\ sta'.peer = op.b /\ sta'.bss = op.b
    BY <1>1, <2>1, <2>2, AssociatingRecord
  <2>4. host' \in Hosts
    BY <1>1, <2>1, <2>2, AssociatingRecord
  <2>5. op' \in Ops /\ (op'.pc \in {"unjoin", "join", "send"} => op'.k \in Kinds)
    BY <1>1, <2>1 DEF Ops, OpPcs
  <2>6. Fits
    BY <1>2, <2>1, <2>3 DEF Fits, SamePeer, FwFollows
  <2> QED
    BY <1>2, <1>3, <2>1, <2>3, <2>4, <2>5, <2>6, ShutHolds
       DEF SmeInv, TypeInv, Consequences, ScanIsCurrent
<1>5. CASE ~ok
  <2>1. /\ fw' \in {fw, CmdJoin(op.b)} /\ (fw' # fw => "lostcmd" \in odd')
        /\ op' = Idle /\ sta' = sta /\ host' = host
    BY <1>5 DEF Join
  <2>2. Fits
    BY <1>3, <2>1 DEF SmeInv, Fits, SamePeer, FwFollows, Without
  <2>3. ShutInTime'
    BY <1>3, <2>1 DEF SmeInv, ShutInTime, Without
  <2> QED
    BY <1>1, <1>2, <1>3, <2>1, <2>2, <2>3, IdleType
       DEF SmeInv, TypeInv, Consequences, ScanIsCurrent
<1> QED
  BY <1>4, <1>5

LEMMA AuthJoinInv ==
  ASSUME SmeInv, NEW ok \in BOOLEAN, AuthJoin(ok)
  PROVE  TypeInv' /\ Consequences
<1>1. op.pc = "join" /\ op.k \in Kinds /\ Join("send", ok)
  BY DEF SmeInv, TypeInv, AuthJoin
<1>2. ~(sta.act /\ Without({"late", "other"}))
  BY <1>1 DEF SmeInv, ShutInTime
<1> QED
  BY <1>1, <1>2, JoinInv

LEMMA AuthSendInv ==
  ASSUME SmeInv, AuthSend
  PROVE  TypeInv' /\ Consequences
<1>1. /\ op.pc = "send" /\ epoch' = epoch + 1 /\ op' = [op EXCEPT !.pc = "auth"]
      /\ sta' = [sta EXCEPT !.retry = 0, !.redo = 0, !.kind = op.k, !.rty = "none",
                            !.sm = "AUTHING", !.fresh = sta.timer \/ sta.work]
      /\ UNCHANGED <<disc, evq, scan, fw, host, odd>>
  BY DEF AuthSend
<1>2. /\ op.k \in Kinds /\ (sta.timer \/ sta.work) \in BOOLEAN
      /\ 0 \in 0 .. MaxAuthRetry + MaxAssocRetry /\ 0 \in 0 .. MaxRedo
  BY <1>1, SmeAssumption DEF SmeInv, TypeInv
<1>3. /\ sta' \in Stas /\ sta'.act = sta.act /\ sta'.peer = sta.peer /\ sta'.bss = sta.bss
  BY <1>1, <1>2 DEF Stas, SmeInv, TypeInv, States
<1>4. op' \in Ops /\ op'.pc = "auth"
  BY <1>1 DEF Ops, OpPcs, SmeInv, TypeInv
<1>5. Fits
  BY <1>1, <1>3, SameFits DEF SmeInv
<1>6. ShutInTime'
  BY <1>1, <1>3 DEF ShutInTime, SmeInv, Without
<1> QED
  BY <1>1, <1>3, <1>4, <1>5, <1>6 DEF SmeInv, TypeInv, Consequences, ScanIsCurrent

LEMMA AuthEndInv ==
  ASSUME SmeInv, NEW ok \in BOOLEAN, AuthEnd(ok)
  PROVE  TypeInv' /\ Consequences
<1>1. op.pc = "auth" /\ op' = Idle /\ UNCHANGED <<disc, evq, scan, epoch, host, odd>>
  BY DEF AuthEnd, opKeeps
<1>2. sta \in Stas /\ fw \in Fws /\ op.b \in MaybeBss /\ HasPeer(sta, op.b) \in BOOLEAN
  BY DEF SmeInv, TypeInv, Ops, HasPeer
<1>3. CASE /\ fw' = CmdAuth(fw)
           /\ sta' = [sta EXCEPT !.timer = TRUE, !.report = TRUE,
                              !.sm = IF op.k = "confirm" /\ sta.confirm THEN "AUTHED" ELSE @]
  <2>1. /\ sta' \in Stas /\ sta'.act = sta.act /\ sta'.peer = sta.peer /\ sta'.bss = sta.bss
    BY <1>2, <1>3 DEF Stas, States
  <2>2. fw' \in Fws /\ fw'.joined = fw.joined
    BY <1>2, <1>3, FwRecord
  <2>3. Fits
    BY <1>1, <2>1, <2>2, SameFits DEF SmeInv
  <2>4. ShutInTime'
    BY <1>1, <2>1 DEF SmeInv, ShutInTime, Without
  <2> QED
    BY <1>1, <2>1, <2>2, <2>3, <2>4, IdleType DEF SmeInv, TypeInv, Consequences, ScanIsCurrent
<1>4. CASE /\ Disconnects(HasPeer(sta, op.b), TRUE)
           /\ sta' = [Unjoin(sta, op.b, TRUE) EXCEPT !.sm = "NONE"]
  <2> DEFINE u == Unjoin(sta, op.b, TRUE)
  <2>1. /\ u \in Stas
        /\ ~HasPeer(sta, op.b) => u = sta
        /\ HasPeer(sta, op.b) => u.act = FALSE /\ u.peer = None /\ u.bss = None
    BY <1>2, UnjoinRecord
  <2>2. sta' = [u EXCEPT !.sm = "NONE"]
    BY <1>4
  <2> HIDE DEF u
  <2>3. /\ sta' \in Stas /\ sta'.act = u.act /\ sta'.peer = u.peer /\ sta'.bss = u.bss
    BY <2>1, <2>2 DEF Stas, States
  <2>4. Fits
    BY <1>1, <1>2, <1>4, <2>1, <2>3, LeaveFits DEF SmeInv
  <2>5. fw' \in Fws
    BY <1>2, <1>4, DisconnectsFw
  <2>6. ShutInTime'
    BY <1>1, <2>1, <2>3 DEF SmeInv, ShutInTime, Without
  <2> QED
    BY <1>1, <2>3, <2>4, <2>5, <2>6, IdleType DEF SmeInv, TypeInv, Consequences, ScanIsCurrent
<1> QED
  BY <1>3, <1>4 DEF AuthEnd
-----------------------------------------------------------------------------
(* Association. *)

LEMMA AssocBeginInv ==
  ASSUME SmeInv, NEW b \in Bss, AssocBegin(b)
  PROVE  TypeInv' /\ Consequences
<1> DEFINE nextOp(p) == [pc |-> p, b |-> b, k |-> "assoc"]
<1>1. op.pc = "idle" /\ odd \subseteq odd' /\ UNCHANGED <<disc, evq, scan, epoch, fw>>
  BY DEF AssocBegin
<1>2. \/ /\ sta.sm = "AUTHED" /\ op' = nextOp("assoc")
         /\ sta' = Associating(sta, b) /\ host' = Awaiting(b)
      \/ /\ sta.sm \in {"ASSOCED", "COMPLETED"} /\ op' = nextOp("rejoin")
         /\ sta' = [sta EXCEPT !.sm = "NONE"] /\ host' = host
      \/ UNCHANGED <<sta, op, host>>
  BY DEF AssocBegin
<1>3. /\ nextOp("assoc") \in Ops /\ nextOp("assoc").pc = "assoc"
      /\ nextOp("rejoin") \in Ops /\ nextOp("rejoin").pc = "rejoin"
  BY DEF Ops, OpPcs, MaybeBss
<1> HIDE DEF nextOp
<1>4. sta \in Stas /\ host \in Hosts /\ b \in MaybeBss
  BY DEF SmeInv, TypeInv, MaybeBss
<1>5. /\ sta' \in Stas /\ sta'.act = sta.act /\ sta'.peer = sta.peer /\ sta'.bss = sta.bss
  <2>1. CASE sta' = Associating(sta, b)
    BY <1>4, <2>1, AssociatingRecord
  <2>2. CASE sta' # Associating(sta, b)
    BY <1>2, <1>4, <2>2 DEF Stas, States
  <2> QED
    BY <2>1, <2>2
<1>6. host' \in Hosts
  BY <1>2, <1>4, AssociatingRecord
<1>7. op' \in Ops /\ (op'.pc \in {"unjoin", "join", "send"} => op'.k \in Kinds)
  BY <1>2, <1>3 DEF SmeInv, TypeInv
<1>8. Fits
  BY <1>1, <1>5, SameFits DEF SmeInv
<1>9. ShutInTime'
  BY <1>1, <1>2, <1>3, <1>5 DEF SmeInv, ShutInTime, Without
<1> QED
  BY <1>1, <1>5, <1>6, <1>7, <1>8, <1>9 DEF SmeInv, TypeInv, Consequences, ScanIsCurrent

LEMMA AssocMoveInv ==
  ASSUME SmeInv, NEW ok \in BOOLEAN, AssocMove(ok)
  PROVE  TypeInv' /\ Consequences
<1>1. op.pc = "rejoin"
  BY DEF AssocMove
<1>2. sta \in Stas /\ sta.bss \in MaybeBss /\ fw \in Fws /\ HasPeer(sta, sta.bss) \in BOOLEAN
  BY DEF SmeInv, TypeInv, Stas, HasPeer
<1>3. CASE HasPeer(sta, sta.bss)
  <2>1. /\ Disconnects(TRUE, ok) /\ sta' = Unjoin(sta, sta.bss, ok)
        /\ op' = IF ok THEN op ELSE Idle
        /\ odd \subseteq odd' /\ (fw' # fw /\ ~ok => "lostcmd" \in odd')
        /\ UNCHANGED <<disc, evq, scan, epoch, host>>
    BY <1>3 DEF AssocMove, opKeeps
  <2>2. /\ sta' \in Stas /\ sta'.act = FALSE
        /\ ok => sta'.peer = None /\ sta'.bss = None
        /\ ~ok => sta'.peer = sta.peer /\ sta'.bss = sta.bss
    BY <1>2, <1>3, <2>1, UnjoinRecord
  <2>3. Fits
    BY <1>2, <2>1, <2>2, LeaveFits DEF SmeInv
  <2>4. fw' \in Fws
    BY <1>2, <2>1, DisconnectsFw
  <2>5. op' \in Ops /\ (op'.pc \in {"unjoin", "join", "send"} => op'.k \in Kinds)
    BY <1>1, <2>1, IdleType DEF SmeInv, TypeInv
  <2> QED
    BY <2>1, <2>2, <2>3, <2>4, <2>5, ShutHolds
       DEF SmeInv, TypeInv, Consequences, ScanIsCurrent
<1>4. CASE ~HasPeer(sta, sta.bss)
  <2>1. sta.peer = None
    BY <1>4 DEF SmeInv, SamePeer, HasPeer
  <2>2. Join("assoc", ok)
    BY <1>4 DEF AssocMove
  <2> QED
    BY <1>1, <2>1, <2>2, JoinInv
<1> QED
  BY <1>3, <1>4

LEMMA AssocEndInv ==
  ASSUME SmeInv, NEW ok \in BOOLEAN, AssocEnd(ok)
  PROVE  TypeInv' /\ Consequences
<1>1. op.pc = "assoc" /\ op' = Idle /\ UNCHANGED <<disc, evq, scan, epoch, odd>>
  BY DEF AssocEnd, opKeeps
<1>2. /\ sta \in Stas /\ fw \in Fws /\ op.b \in MaybeBss /\ HasPeer(sta, op.b) \in BOOLEAN
      /\ host \in Hosts
  BY DEF SmeInv, TypeInv, Ops, HasPeer
<1>3. CASE fw' = CmdAssoc(fw) /\ sta' = [sta EXCEPT !.timer = TRUE] /\ host' = host
  <2>1. /\ sta' \in Stas /\ sta'.act = sta.act /\ sta'.peer = sta.peer /\ sta'.bss = sta.bss
    BY <1>2, <1>3 DEF Stas, States
  <2>2. fw' \in Fws /\ fw'.joined = fw.joined
    BY <1>2, <1>3, FwRecord
  <2>3. Fits
    BY <1>1, <2>1, <2>2, SameFits DEF SmeInv
  <2>4. ShutInTime'
    BY <1>1, <2>1 DEF SmeInv, ShutInTime, Without
  <2> QED
    BY <1>1, <1>3, <2>1, <2>2, <2>3, <2>4, IdleType
       DEF SmeInv, TypeInv, Consequences, ScanIsCurrent
<1>4. CASE /\ Disconnects(HasPeer(sta, op.b), TRUE) /\ host' = [host EXCEPT !.assoc = None]
           /\ sta' = [Unjoin(sta, op.b, TRUE) EXCEPT !.sm = "NONE", !.cbss = None, !.timer = FALSE]
  <2> DEFINE u == Unjoin(sta, op.b, TRUE)
  <2>1. /\ u \in Stas
        /\ ~HasPeer(sta, op.b) => u = sta
        /\ HasPeer(sta, op.b) => u.act = FALSE /\ u.peer = None /\ u.bss = None
    BY <1>2, UnjoinRecord
  <2>2. sta' = [u EXCEPT !.sm = "NONE", !.cbss = None, !.timer = FALSE]
    BY <1>4
  <2> HIDE DEF u
  <2>3. /\ sta' \in Stas /\ sta'.act = u.act /\ sta'.peer = u.peer /\ sta'.bss = u.bss
    BY <1>2, <2>1, <2>2 DEF Stas, States, MaybeBss
  <2>4. Fits
    BY <1>1, <1>2, <1>4, <2>1, <2>3, LeaveFits DEF SmeInv
  <2>5. fw' \in Fws
    BY <1>2, <1>4, DisconnectsFw
  <2>6. ShutInTime'
    BY <1>1, <2>1, <2>3 DEF SmeInv, ShutInTime, Without
  <2>7. host' \in Hosts
    BY <1>2, <1>4 DEF Hosts, MaybeBss
  <2> QED
    BY <1>1, <2>3, <2>4, <2>5, <2>6, <2>7, IdleType
       DEF SmeInv, TypeInv, Consequences, ScanIsCurrent
<1> QED
  BY <1>3, <1>4 DEF AssocEnd

LEMMA AuthorizeInv ==
  ASSUME SmeInv, Authorize
  PROVE  TypeInv' /\ Consequences
<1>1. /\ sta' = [sta EXCEPT !.sm = "COMPLETED"] /\ host' = [host EXCEPT !.authz = TRUE]
      /\ op.pc = "idle" /\ odd \subseteq odd' /\ UNCHANGED <<op, disc, evq, fw, scan, epoch>>
  BY DEF Authorize
<1>2. /\ sta' \in Stas /\ sta'.act = sta.act /\ sta'.peer = sta.peer /\ sta'.bss = sta.bss
      /\ sta'.sm = "COMPLETED"
  BY <1>1 DEF Stas, States, SmeInv, TypeInv
<1>3. host' \in Hosts
  BY <1>1 DEF Hosts, SmeInv, TypeInv
<1>4. Fits
  BY <1>1, <1>2, SameFits DEF SmeInv
<1>5. ShutInTime'
  BY <1>1, <1>2 DEF SmeInv, ShutInTime, Without
<1> QED
  BY <1>1, <1>2, <1>3, <1>4, <1>5 DEF SmeInv, TypeInv, Consequences, ScanIsCurrent

\* skw_cfg80211_deauth and skw_disassoc.
LEMMA LeaveCallInv ==
  ASSUME SmeInv, NEW b \in Bss, NEW ok \in BOOLEAN, NEW told \in BOOLEAN, LeaveCall(b, ok, told)
  PROVE  TypeInv' /\ Consequences
<1>1. /\ op.pc = "idle" /\ Disconnects(HasPeer(sta, b), ok) /\ sta' = Leave(sta, b, ok)
      /\ host' = IF told THEN TellDeauth(host, b) ELSE host
      /\ odd \subseteq odd' /\ (fw' # fw /\ ~ok => "lostcmd" \in odd')
      /\ sta.act /\ sta.peer # b => "other" \in odd'
      /\ UNCHANGED <<op, disc, evq, scan, epoch>>
  BY DEF LeaveCall
<1>2. /\ sta \in Stas /\ fw \in Fws /\ b \in MaybeBss /\ HasPeer(sta, b) \in BOOLEAN
      /\ host \in Hosts /\ b # None
  BY SmeAssumption DEF SmeInv, TypeInv, HasPeer, MaybeBss
<1>3. /\ sta' \in Stas
      /\ ~HasPeer(sta, b) => sta'.act = sta.act /\ sta'.peer = sta.peer /\ sta'.bss = sta.bss
      /\ HasPeer(sta, b) => sta'.act = FALSE
      /\ HasPeer(sta, b) /\ ok => sta'.peer = None /\ sta'.bss = None
      /\ HasPeer(sta, b) /\ ~ok => sta'.peer = sta.peer /\ sta'.bss = sta.bss
  BY <1>1, <1>2, LeaveRecord
<1>4. Fits
  BY <1>1, <1>2, <1>3, LeaveFits DEF SmeInv
<1>5. fw' \in Fws
  BY <1>1, <1>2, DisconnectsFw
<1>6. TellDeauth(host, b) \in Hosts
  BY <1>2, HostRecord DEF EvKinds, Kinds
<1>7. ShutInTime'
  <2>1. CASE HasPeer(sta, b)
    BY <1>3, <2>1, ShutHolds
  <2>2. CASE ~HasPeer(sta, b)
    <3>1. sta.act => "other" \in odd'
      BY <1>1, <1>2, <2>2 DEF HasPeer
    <3> QED
      BY <1>3, <2>2, <3>1 DEF ShutInTime, Without
  <2> QED
    BY <2>1, <2>2
<1> QED
  BY <1>1, <1>2, <1>3, <1>4, <1>5, <1>6, <1>7
     DEF SmeInv, TypeInv, Consequences, ScanIsCurrent
-----------------------------------------------------------------------------
(* The firmware, and the events it sends. *)

\* An event of the firmware leaves all of the driver alone but the queue.
LEMMA FirmwareStep ==
  ASSUME SmeInv, UNCHANGED fwKeeps, fw' \in Fws, fw'.joined = fw.joined, evq' \in Seq(Reports)
  PROVE  TypeInv' /\ Consequences
<1>1. UNCHANGED <<sta, op, disc, host, scan, epoch, odd>>
  BY DEF fwKeeps
<1>2. Fits
  BY <1>1, SameFits DEF SmeInv
<1>3. ShutInTime'
  BY <1>1 DEF SmeInv, ShutInTime, Without
<1> QED
  BY <1>1, <1>2, <1>3 DEF SmeInv, TypeInv, Consequences, ScanIsCurrent

LEMMA EventType ==
  ASSUME TypeInv, NEW t \in EvTypes, NEW ok \in BOOLEAN
  PROVE  Event(t, ok) \in Reports /\ Event(t, ok).ok = ok
BY DEF TypeInv, Event, Reports, Fws, Stas, EvKinds

LEMMA QueueType ==
  ASSUME NEW q \in Seq(Reports), NEW e \in Reports
  PROVE  Append(q, e) \in Seq(Reports)
OBVIOUS

LEMMA QueueTwoType ==
  ASSUME NEW q \in Seq(Reports), NEW e \in Reports
  PROVE  q \o <<e>> \in Seq(Reports)
OBVIOUS

LEMMA FwAuthInv ==
  ASSUME SmeInv, NEW ok \in BOOLEAN, FwAuth(ok)
  PROVE  TypeInv' /\ Consequences
<1> DEFINE e == Event("auth", ok)
           f == [e EXCEPT !.k = "confirm"]
<1>1. /\ fw' = [fw EXCEPT !.auth = fw.auth - 1] /\ fw.auth > 0 /\ UNCHANGED fwKeeps
      /\ evq' = Append(evq, e) \/ evq' = Append(evq, e) \o <<f>>
  BY DEF FwAuth
<1>2. fw' \in Fws /\ fw'.joined = fw.joined
  BY <1>1 DEF Fws, SmeInv, TypeInv
<1>3. e \in Reports /\ evq \in Seq(Reports)
  BY EventType DEF SmeInv, TypeInv, EvTypes
<1> HIDE DEF e
<1>4. f \in Reports
  BY <1>3 DEF Reports, EvKinds, Kinds
<1> HIDE DEF f
<1>5. Append(evq, e) \in Seq(Reports)
  BY <1>3, QueueType
<1>6. Append(evq, e) \o <<f>> \in Seq(Reports)
  BY <1>4, <1>5, QueueTwoType
<1>7. evq' \in Seq(Reports)
  BY <1>1, <1>5, <1>6
<1> QED
  BY <1>1, <1>2, <1>7, FirmwareStep

LEMMA FwAssocInv ==
  ASSUME SmeInv, NEW ok \in BOOLEAN, FwAssoc(ok)
  PROVE  TypeInv' /\ Consequences
<1>1. /\ fw' = [fw EXCEPT !.assoc = fw.assoc - 1] /\ fw.assoc > 0 /\ UNCHANGED fwKeeps
      /\ evq' = Append(evq, Event("assoc", ok))
  BY DEF FwAssoc
<1>2. fw' \in Fws /\ fw'.joined = fw.joined
  BY <1>1 DEF Fws, SmeInv, TypeInv
<1>3. Event("assoc", ok) \in Reports /\ evq \in Seq(Reports)
  BY EventType DEF SmeInv, TypeInv, EvTypes
<1>4. evq' \in Seq(Reports)
  BY <1>1, <1>3, QueueType
<1> QED
  BY <1>1, <1>2, <1>4, FirmwareStep

LEMMA FwKickInv ==
  ASSUME SmeInv, NEW t \in {"deauth", "disconnect"}, FwKick(t)
  PROVE  TypeInv' /\ Consequences
<1>1. fw' = fw /\ UNCHANGED fwKeeps /\ evq' = Append(evq, Event(t, TRUE))
  BY DEF FwKick
<1>2. Event(t, TRUE) \in Reports /\ evq \in Seq(Reports) /\ fw \in Fws
  BY EventType DEF SmeInv, TypeInv, EvTypes
<1>3. evq' \in Seq(Reports)
  BY <1>1, <1>2, QueueType
<1> QED
  BY <1>1, <1>2, <1>3, FirmwareStep

\* A deauthentication frame of the current peer.
LEMMA EvDeauthInv ==
  ASSUME SmeInv, NEW ok \in BOOLEAN, EvDeauth(ok)
  PROVE  TypeInv' /\ Consequences
<1> DEFINE b == Head(evq).b
<1>1. /\ b \in MaybeBss /\ evq' \in Seq(Reports) /\ UNCHANGED <<op, disc, scan, epoch>>
  BY TakeType DEF EvDeauth, SmeInv, EvTypes, Reports, rxKeeps
<1>2. \/ UNCHANGED <<sta, fw, host, odd>>
      \/ /\ sta.peer = b /\ Disconnects(TRUE, ok) /\ sta' = Leave(sta, b, ok)
         /\ host' = TellDeauth(host, b)
         /\ odd \subseteq odd' /\ (fw' # fw /\ ~ok => "lostcmd" \in odd')
  BY DEF EvDeauth
<1> HIDE DEF b
<1>3. CASE UNCHANGED <<sta, fw, host, odd>>
  <2>1. Fits
    BY <1>3, SameFits DEF SmeInv
  <2>2. ShutInTime'
    BY <1>1, <1>3 DEF SmeInv, ShutInTime, Without
  <2> QED
    BY <1>1, <1>3, <2>1, <2>2 DEF SmeInv, TypeInv, Consequences, ScanIsCurrent
<1>4. CASE /\ sta.peer = b /\ Disconnects(TRUE, ok) /\ sta' = Leave(sta, b, ok)
           /\ host' = TellDeauth(host, b)
           /\ odd \subseteq odd' /\ (fw' # fw /\ ~ok => "lostcmd" \in odd')
  <2>1. sta \in Stas /\ fw \in Fws /\ host \in Hosts
    BY DEF SmeInv, TypeInv
  <2>2. host' \in Hosts
    BY <1>1, <1>4, <2>1, HostRecord DEF EvKinds, Kinds
  <2>3. fw' \in Fws
    BY <1>4, <2>1, DisconnectsFw
  <2>4. /\ sta' \in Stas
        /\ ~HasPeer(sta, b) => sta'.act = sta.act /\ sta'.peer = sta.peer /\ sta'.bss = sta.bss
        /\ HasPeer(sta, b) => sta'.act = FALSE
        /\ HasPeer(sta, b) /\ ok => sta'.peer = None /\ sta'.bss = None
        /\ HasPeer(sta, b) /\ ~ok => sta'.peer = sta.peer /\ sta'.bss = sta.bss
    BY <1>1, <1>4, <2>1, LeaveRecord
  <2>5. /\ ok => sta'.peer = None /\ sta'.bss = None
        /\ ~ok => sta'.peer = sta.peer /\ sta'.bss = sta.bss
    BY <1>4, <2>4 DEF HasPeer, SmeInv, SamePeer
  <2>6. Fits
    BY <1>1, <1>4, <2>1, <2>5, LeaveFits DEF SmeInv
  <2>7. ShutInTime'
    <3>1. CASE b = None
      BY <1>4, <2>4, <3>1 DEF SmeInv, ShutInTime, Without, HasPeer
    <3>2. CASE b # None
      BY <1>4, <2>4, <3>2, ShutHolds DEF HasPeer
    <3> QED
      BY <3>1, <3>2
  <2> QED
    BY <1>1, <2>2, <2>3, <2>4, <2>6, <2>7 DEF SmeInv, TypeInv, Consequences, ScanIsCurrent
<1> QED
  BY <1>2, <1>3, <1>4

LEMMA EvAssocInv ==
  ASSUME SmeInv, EvAssoc
  PROVE  TypeInv' /\ Consequences
<1> DEFINE e == Head(evq)
<1>1. /\ e \in Reports /\ evq' \in Seq(Reports) /\ disc.pc = "idle" /\ op.pc = "idle"
      /\ UNCHANGED <<op, disc, scan, epoch, fw>>
  BY TakeType DEF EvAssoc, SmeInv, EvTypes, rxKeeps
<1>2. \/ UNCHANGED <<sta, host, odd>>
      \/ /\ sta.bss # None /\ odd \subseteq odd' /\ (sta.sm # "ASSOCING" => "late" \in odd')
         /\ sta' = [sta EXCEPT !.sm = IF e.ok THEN "ASSOCED" ELSE "NONE",
                               !.act = sta.act \/ e.ok, !.cbss = None,
                               !.report = sta.report /\ e.ok]
         /\ host' = IF sta.cbss # None THEN TellAssoc(host, sta.cbss, e.ok) ELSE host
  BY DEF EvAssoc
<1> HIDE DEF e
<1>3. CASE UNCHANGED <<sta, host, odd>>
  <2>1. Fits
    BY <1>1, <1>3, SameFits DEF SmeInv
  <2>2. ShutInTime'
    BY <1>1, <1>3 DEF SmeInv, ShutInTime, Without
  <2> QED
    BY <1>1, <1>3, <2>1, <2>2 DEF SmeInv, TypeInv, Consequences, ScanIsCurrent
<1>4. CASE /\ sta.bss # None /\ odd \subseteq odd' /\ (sta.sm # "ASSOCING" => "late" \in odd')
           /\ sta' = [sta EXCEPT !.sm = IF e.ok THEN "ASSOCED" ELSE "NONE",
                               !.act = sta.act \/ e.ok, !.cbss = None,
                               !.report = sta.report /\ e.ok]
           /\ host' = IF sta.cbss # None THEN TellAssoc(host, sta.cbss, e.ok) ELSE host
  <2>1. /\ sta \in Stas /\ host \in Hosts /\ sta.cbss \in MaybeBss /\ e.ok \in BOOLEAN
        /\ sta.act \in BOOLEAN /\ sta.report \in BOOLEAN
    BY <1>1 DEF SmeInv, TypeInv, Stas, Reports
  <2>2. host' \in Hosts
    BY <1>4, <2>1, HostRecord DEF EvKinds, Kinds
  <2>3. (sta.act \/ e.ok) \in BOOLEAN /\ (sta.report /\ e.ok) \in BOOLEAN /\ None \in MaybeBss
        /\ (IF e.ok THEN "ASSOCED" ELSE "NONE") \in States
    BY <2>1 DEF MaybeBss, States
  <2>4. sta' \in Stas
    BY <1>4, <2>1, <2>3 DEF Stas
  <2>5. /\ sta'.sm = IF e.ok THEN "ASSOCED" ELSE "NONE"
        /\ sta'.act = (sta.act \/ e.ok) /\ sta'.peer = sta.peer /\ sta'.bss = sta.bss
    BY <1>4, <2>1 DEF Stas
  <2>6. Fits
    BY <1>1, <1>4, <2>5, SameFits DEF SmeInv
  <2>7. ShutInTime'
    <3> SUFFICES ASSUME sta'.act, Without({"late", "other"})' PROVE ShutInTime'
      BY DEF ShutInTime
    <3>1. sta.sm = "ASSOCING" /\ Without({"late", "other"})
      BY <1>4 DEF Without
    <3>2. ~sta.act
      BY <1>1, <3>1 DEF SmeInv, ShutInTime
    <3>3. e.ok /\ sta'.sm = "ASSOCED"
      BY <2>5, <3>2
    <3> QED
      BY <1>1, <1>4, <2>5, <3>3 DEF SmeInv, SamePeer, ShutInTime
  <2> QED
    BY <1>1, <2>2, <2>4, <2>6, <2>7 DEF SmeInv, TypeInv, Consequences, ScanIsCurrent
<1> QED
  BY <1>2, <1>3, <1>4

\* An answer to an authentication: when the path is open the station is associated, and the
\* answer is late.
LEMMA EvAuthInv ==
  ASSUME SmeInv, NEW ok \in BOOLEAN, EvAuth(ok)
  PROVE  TypeInv' /\ Consequences
<1> DEFINE e == Head(evq)
           s == [sta EXCEPT !.sm = "AUTHED", !.retry = 0, !.fresh = sta.timer \/ sta.work,
                            !.confirm = sta.confirm \/ e.k = "confirm"]
           r == [s EXCEPT !.report = FALSE]
           l == IF e.ok THEN s ELSE Leave(r, e.b, ok)
<1>1. /\ e \in Reports /\ evq' \in Seq(Reports) /\ op.pc = "idle"
      /\ UNCHANGED <<op, disc, scan, epoch>>
  BY TakeType DEF EvAuth, SmeInv, EvTypes, rxKeeps
<1>2. \/ UNCHANGED <<sta, fw, host, odd>>
      \/ /\ sta.bss = e.b
         /\ \/ e.ok /\ ok /\ fw' = fw
            \/ ~e.ok /\ Disconnects(HasPeer(sta, e.b), ok)
         /\ sta' = IF sta.rty = "assoc" THEN [l EXCEPT !.sm = "ASSOCING"] ELSE l
         /\ host' = IF sta.rty = "assoc" THEN host ELSE TellAuth(host, e.b, e.ok, e.k)
         /\ odd \subseteq odd' /\ (fw' # fw /\ ~ok => "lostcmd" \in odd')
         /\ sta.sm \notin {"AUTHING", "AUTHED"} => "late" \in odd'
  <2>1. CASE sta.bss # e.b
    BY <2>1 DEF EvAuth
  <2>2. CASE sta.bss = e.b
    <3>1. e.ok \/ ~e.ok
      OBVIOUS
    <3> QED
      BY <2>2, <3>1 DEF EvAuth
  <2> QED
    BY <2>1, <2>2
<1>3. CASE UNCHANGED <<sta, fw, host, odd>>
  <2>1. Fits
    BY <1>3, SameFits DEF SmeInv
  <2>2. ShutInTime'
    BY <1>1, <1>3 DEF SmeInv, ShutInTime, Without
  <2> QED
    BY <1>1, <1>3, <2>1, <2>2 DEF SmeInv, TypeInv, Consequences, ScanIsCurrent
<1>4. CASE /\ sta.bss = e.b
           /\ \/ e.ok /\ ok /\ fw' = fw
              \/ ~e.ok /\ Disconnects(HasPeer(sta, e.b), ok)
           /\ sta' = IF sta.rty = "assoc" THEN [l EXCEPT !.sm = "ASSOCING"] ELSE l
           /\ host' = IF sta.rty = "assoc" THEN host ELSE TellAuth(host, e.b, e.ok, e.k)
           /\ odd \subseteq odd' /\ (fw' # fw /\ ~ok => "lostcmd" \in odd')
           /\ sta.sm \notin {"AUTHING", "AUTHED"} => "late" \in odd'
  <2>1. /\ sta \in Stas /\ host \in Hosts /\ fw \in Fws /\ e.b \in MaybeBss
        /\ e.ok \in BOOLEAN /\ e.k \in EvKinds /\ (sta.timer \/ sta.work) \in BOOLEAN
        /\ (sta.confirm \/ e.k = "confirm") \in BOOLEAN
        /\ 0 \in 0 .. MaxAuthRetry + MaxAssocRetry /\ HasPeer(sta, e.b) \in BOOLEAN
    BY <1>1, SmeAssumption DEF SmeInv, TypeInv, Reports, HasPeer
  <2>2. host' \in Hosts
    BY <1>4, <2>1, HostRecord
  <2>3. /\ s \in Stas /\ s.act = sta.act /\ s.peer = sta.peer /\ s.bss = sta.bss
    BY <2>1 DEF Stas, States
  <2> HIDE DEF s
  <2>4. /\ r \in Stas /\ r.act = sta.act /\ r.peer = sta.peer /\ r.bss = sta.bss
    BY <2>3 DEF Stas
  <2> HIDE DEF r
  <2>5. /\ l \in Stas
        /\ e.ok => l.act = sta.act /\ l.peer = sta.peer /\ l.bss = sta.bss
        /\ ~e.ok /\ ~HasPeer(sta, e.b) =>
              l.act = sta.act /\ l.peer = sta.peer /\ l.bss = sta.bss
        /\ ~e.ok /\ HasPeer(sta, e.b) /\ ok => l.peer = None /\ l.bss = None
        /\ ~e.ok /\ HasPeer(sta, e.b) /\ ~ok => l.peer = sta.peer /\ l.bss = sta.bss
        /\ l.act => sta.act
    <3>1. CASE e.ok
      BY <2>3, <3>1
    <3>2. CASE ~e.ok
      <4>1. l = Leave(r, e.b, ok) /\ (HasPeer(r, e.b) <=> HasPeer(sta, e.b))
        BY <2>4, <3>2 DEF HasPeer
      <4>2. /\ Leave(r, e.b, ok) \in Stas
            /\ ~HasPeer(r, e.b) => /\ Leave(r, e.b, ok).act = r.act
                                   /\ Leave(r, e.b, ok).peer = r.peer
                                   /\ Leave(r, e.b, ok).bss = r.bss
            /\ HasPeer(r, e.b) => Leave(r, e.b, ok).act = FALSE
            /\ HasPeer(r, e.b) /\ ok =>
                  Leave(r, e.b, ok).peer = None /\ Leave(r, e.b, ok).bss = None
            /\ HasPeer(r, e.b) /\ ~ok =>
                  Leave(r, e.b, ok).peer = r.peer /\ Leave(r, e.b, ok).bss = r.bss
        BY <2>1, <2>4, LeaveRecord
      <4> HIDE DEF l
      <4> QED
        BY <2>4, <3>2, <4>1, <4>2
    <3> QED
      BY <2>1, <3>1, <3>2
  <2> HIDE DEF l
  <2>6. /\ sta' \in Stas /\ sta'.act = l.act /\ sta'.peer = l.peer /\ sta'.bss = l.bss
    BY <1>4, <2>5 DEF Stas, States
  <2>7. fw' \in Fws /\ Fits
    <3>1. CASE e.ok
      BY <1>4, <2>1, <2>5, <2>6, <3>1, SameFits DEF SmeInv
    <3>2. CASE ~e.ok
      <4>1. Disconnects(HasPeer(sta, e.b), ok)
        BY <1>4, <3>2
      <4> QED
        BY <1>4, <2>1, <2>5, <2>6, <3>2, <4>1, LeaveFits, DisconnectsFw DEF SmeInv
    <3> QED
      BY <3>1, <3>2
  <2>8. ShutInTime'
    BY <1>1, <1>4, <2>5, <2>6 DEF SmeInv, ShutInTime, Without
  <2> QED
    BY <1>1, <2>2, <2>6, <2>7, <2>8 DEF SmeInv, TypeInv, Consequences, ScanIsCurrent
<1> QED
  BY <1>2, <1>3, <1>4

LEMMA DiscBeginInv ==
  ASSUME SmeInv, DiscBegin
  PROVE  TypeInv' /\ Consequences
<1> DEFINE b == Head(evq).b
<1>1. /\ b \in MaybeBss /\ evq' \in Seq(Reports)
  BY TakeType DEF DiscBegin, SmeInv, EvTypes, Reports
<1>2. /\ disc' = [pc |-> "leave", b |-> b, ctx |-> sta.peer = b]
      /\ sta' = [sta EXCEPT !.sm = "NONE", !.timer = FALSE, !.confirm = FALSE,
                            !.act = sta.act /\ sta.peer # b]
      /\ odd \subseteq odd' /\ (sta.act /\ sta.peer # b => "other" \in odd')
      /\ UNCHANGED <<op, scan, epoch, fw, host>>
  BY DEF DiscBegin
<1> HIDE DEF b
<1>3. (sta.act /\ sta.peer # b) \in BOOLEAN /\ (sta.peer = b) \in BOOLEAN
  OBVIOUS
<1>4. disc' \in Discs
  BY <1>1, <1>2, <1>3 DEF Discs
<1>5. /\ sta' \in Stas /\ sta'.act = (sta.act /\ sta.peer # b)
      /\ sta'.peer = sta.peer /\ sta'.bss = sta.bss
  BY <1>2, <1>3 DEF Stas, States, SmeInv, TypeInv
<1>6. Fits
  BY <1>2, <1>5, SameFits DEF SmeInv
<1>7. ShutInTime'
  BY <1>2, <1>5 DEF ShutInTime, Without
<1> QED
  BY <1>1, <1>2, <1>4, <1>5, <1>6, <1>7 DEF SmeInv, TypeInv, Consequences, ScanIsCurrent

\* The slot of the event's peer is emptied together with the record; the path is shut since
\* DiscBegin.
LEMMA DiscEndInv ==
  ASSUME SmeInv, NEW ok \in BOOLEAN, DiscEnd(ok)
  PROVE  TypeInv' /\ Consequences
<1> DEFINE gone == disc.ctx /\ ok
<1>1. /\ disc.pc = "leave" /\ Disconnects(disc.ctx, ok)
      /\ disc' = [disc EXCEPT !.pc = "idle", !.b = None, !.ctx = FALSE]
      /\ sta' = [sta EXCEPT !.bss = IF gone THEN None ELSE sta.bss,
                            !.peer = IF gone THEN None ELSE sta.peer,
                            !.act = sta.act /\ ~gone, !.cbss = None]
      /\ host' = IF sta.cbss # None THEN TellAssocFailure(host, sta.cbss)
                                    ELSE TellDeauth(host, disc.b)
      /\ odd \subseteq odd' /\ (fw' # fw /\ ~ok => "lostcmd" \in odd')
      /\ UNCHANGED <<op, scan, epoch, evq>>
  BY DEF DiscEnd
<1>2. /\ sta \in Stas /\ fw \in Fws /\ host \in Hosts /\ disc \in Discs
      /\ disc.ctx \in BOOLEAN /\ disc.b \in MaybeBss /\ sta.cbss \in MaybeBss
      /\ sta.bss \in MaybeBss /\ sta.peer \in MaybeBss /\ None \in MaybeBss
  BY DEF SmeInv, TypeInv, Discs, Stas, MaybeBss
<1>3. gone \in BOOLEAN /\ (sta.act /\ ~gone) \in BOOLEAN
  BY <1>2
<1>4. gone => disc.ctx /\ ok
  OBVIOUS
<1>5. disc.ctx /\ ok => gone
  OBVIOUS
<1> HIDE DEF gone
<1>6. /\ sta' \in Stas /\ sta'.act = (sta.act /\ ~gone)
      /\ sta'.peer = (IF gone THEN None ELSE sta.peer)
      /\ sta'.bss = (IF gone THEN None ELSE sta.bss)
  BY <1>1, <1>2, <1>3 DEF Stas
<1>7. disc' \in Discs
  BY <1>1, <1>2 DEF Discs
<1>8. host' \in Hosts
  BY <1>1, <1>2, HostRecord DEF EvKinds, Kinds
<1>9. fw' \in Fws
  BY <1>1, <1>2, DisconnectsFw
<1>10. Fits
  BY <1>1, <1>2, <1>4, <1>5, <1>6, LeaveFits DEF SmeInv
<1>11. ShutInTime'
  BY <1>1, <1>6 DEF SmeInv, ShutInTime, Without
<1> QED
  BY <1>1, <1>6, <1>7, <1>8, <1>9, <1>10, <1>11
     DEF SmeInv, TypeInv, Consequences, ScanIsCurrent
-----------------------------------------------------------------------------
(* skw_sta_timer and skw_sta_work. *)

LEMMA StaTimerInv ==
  ASSUME SmeInv, StaTimer
  PROVE  TypeInv' /\ Consequences
<1>1. /\ sta' = [sta EXCEPT !.timer = FALSE, !.work = TRUE]
      /\ UNCHANGED <<op, disc, evq, fw, host, scan, epoch, odd>>
  BY DEF StaTimer
<1>2. /\ sta' \in Stas /\ sta'.act = sta.act /\ sta'.peer = sta.peer /\ sta'.bss = sta.bss
      /\ sta'.sm = sta.sm
  BY <1>1 DEF Stas, SmeInv, TypeInv
<1>3. Fits /\ ShutInTime'
  BY <1>1, <1>2, SameFits, SameShut DEF SmeInv
<1> QED
  BY <1>1, <1>2, <1>3 DEF SmeInv, TypeInv, Consequences, ScanIsCurrent

LEMMA RunningRecord ==
  ASSUME NEW s \in Stas
  PROVE  /\ Running(s) \in Stas /\ Running(s).act = s.act /\ Running(s).peer = s.peer
         /\ Running(s).bss = s.bss /\ Running(s).sm = s.sm /\ Running(s).timer = s.timer
         /\ Running(s).retry = s.retry /\ Running(s).redo = s.redo /\ Running(s).rty = s.rty
BY DEF Running, Stas

LEMMA WorkIdleInv ==
  ASSUME SmeInv, WorkIdle
  PROVE  TypeInv' /\ Consequences
<1> DEFINE s == Running(sta)
<1>1. /\ sta' = [s EXCEPT !.timer = s.timer \/ sta.sm \in {"AUTHED", "AUTHING", "ASSOCING"}]
      /\ UNCHANGED <<op, disc, evq, fw, host, scan, epoch, odd>>
  BY DEF WorkIdle, workKeeps
<1>2. s \in Stas /\ s.act = sta.act /\ s.peer = sta.peer /\ s.bss = sta.bss /\ s.sm = sta.sm
  BY RunningRecord DEF SmeInv, TypeInv
<1> HIDE DEF s
<1>3. (s.timer \/ sta.sm \in {"AUTHED", "AUTHING", "ASSOCING"}) \in BOOLEAN
  OBVIOUS
<1>4. /\ sta' \in Stas /\ sta'.act = sta.act /\ sta'.peer = sta.peer /\ sta'.bss = sta.bss
      /\ sta'.sm = sta.sm
  BY <1>1, <1>2, <1>3 DEF Stas
<1>5. Fits /\ ShutInTime'
  BY <1>1, <1>4, SameFits, SameShut DEF SmeInv
<1> QED
  BY <1>1, <1>4, <1>5 DEF SmeInv, TypeInv, Consequences, ScanIsCurrent

LEMMA WorkRetryInv ==
  ASSUME SmeInv, WorkRetry
  PROVE  TypeInv' /\ Consequences
<1> DEFINE s == Running(sta)
<1>1. /\ sta' = [s EXCEPT !.retry = s.retry + 1, !.timer = TRUE]
      /\ sta.retry + 1 < MaxAuthRetry \/ sta.retry + 1 < MaxAssocRetry
      /\ fw' = CmdAuth(fw) \/ fw' = CmdAssoc(fw)
      /\ UNCHANGED <<op, disc, evq, host, scan, epoch, odd>>
  BY DEF WorkRetry, workKeeps
<1>2. /\ s \in Stas /\ s.act = sta.act /\ s.peer = sta.peer /\ s.bss = sta.bss /\ s.sm = sta.sm
      /\ s.retry = sta.retry
  BY RunningRecord DEF SmeInv, TypeInv
<1> HIDE DEF s
<1>3. s.retry + 1 \in 0 .. MaxAuthRetry + MaxAssocRetry
  <2>1. s.retry \in Nat
    BY <1>2, SmeAssumption DEF Stas
  <2>2. MaxAuthRetry \in Nat /\ MaxAssocRetry \in Nat
    BY SmeAssumption
  <2> QED
    BY <1>1, <1>2, <2>1, <2>2
<1>4. /\ sta' \in Stas /\ sta'.act = sta.act /\ sta'.peer = sta.peer /\ sta'.bss = sta.bss
      /\ sta'.sm = sta.sm
  BY <1>1, <1>2, <1>3 DEF Stas
<1>5. fw' \in Fws /\ fw'.joined = fw.joined
  <2>1. fw \in Fws
    BY DEF SmeInv, TypeInv
  <2>2. None \in MaybeBss
    BY DEF MaybeBss
  <2> QED
    BY <1>1, <2>1, <2>2, FwRecord
<1>6. Fits /\ ShutInTime'
  BY <1>1, <1>4, <1>5, SameFits, SameShut DEF SmeInv
<1> QED
  BY <1>1, <1>4, <1>5, <1>6 DEF SmeInv, TypeInv, Consequences, ScanIsCurrent

LEMMA WorkRedoInv ==
  ASSUME SmeInv, WorkRedo
  PROVE  TypeInv' /\ Consequences
<1> DEFINE s == Running(sta)
           y == IF sta.sm = "ASSOCING" THEN "assoc" ELSE IF s.rty = "none" THEN "auth" ELSE s.rty
<1>1. /\ sta' = [s EXCEPT !.sm = "AUTHING", !.retry = 0, !.redo = s.redo + 1,
                          !.fresh = sta.timer, !.timer = TRUE, !.rty = y]
      /\ sta.redo < MaxRedo /\ sta.sm \in {"AUTHING", "ASSOCING"}
      /\ op.pc = "idle" /\ fw' = CmdAuth(fw)
      /\ UNCHANGED <<op, disc, evq, host, scan, epoch, odd>>
  BY DEF WorkRedo, workKeeps, Runs
<1>2. /\ s \in Stas /\ s.act = sta.act /\ s.peer = sta.peer /\ s.bss = sta.bss /\ s.sm = sta.sm
      /\ s.redo = sta.redo
  BY RunningRecord DEF SmeInv, TypeInv
<1>3. y \in {"none", "auth", "assoc"}
  BY <1>2 DEF Stas
<1> HIDE DEF s, y
<1>4. s.redo + 1 \in 0 .. MaxRedo /\ 0 \in 0 .. MaxAuthRetry + MaxAssocRetry
      /\ sta.timer \in BOOLEAN
  BY <1>1, <1>2, SmeAssumption DEF Stas, SmeInv, TypeInv
<1>5. /\ sta' \in Stas /\ sta'.act = sta.act /\ sta'.peer = sta.peer /\ sta'.bss = sta.bss
  BY <1>1, <1>2, <1>3, <1>4 DEF Stas, States
<1>6. fw' \in Fws /\ fw'.joined = fw.joined
  <2>1. fw \in Fws /\ None \in MaybeBss
    BY DEF SmeInv, TypeInv, MaybeBss
  <2> QED
    BY <1>1, <2>1, FwRecord
<1>7. Fits
  BY <1>1, <1>5, <1>6, SameFits DEF SmeInv
<1>8. ShutInTime'
  BY <1>1, <1>5 DEF SmeInv, ShutInTime, Without
<1> QED
  BY <1>1, <1>5, <1>6, <1>7, <1>8 DEF SmeInv, TypeInv, Consequences, ScanIsCurrent

LEMMA WorkFailInv ==
  ASSUME SmeInv, NEW ok \in BOOLEAN, WorkFail(ok)
  PROVE  TypeInv' /\ Consequences
<1> DEFINE s == [Running(sta) EXCEPT !.report = FALSE]
<1>1. /\ Disconnects(HasPeer(sta, sta.bss), ok) /\ sta' = Leave(s, sta.bss, ok)
      /\ host' = IF sta.sm = "ASSOCING" THEN TellAssocFailure(host, sta.cbss) ELSE host
      /\ odd \subseteq odd' /\ (fw' # fw /\ ~ok => "lostcmd" \in odd')
      /\ UNCHANGED <<op, disc, evq, scan, epoch>>
  BY DEF WorkFail, workKeeps
<1>2. /\ sta \in Stas /\ fw \in Fws /\ host \in Hosts /\ sta.bss \in MaybeBss
      /\ sta.cbss \in MaybeBss /\ HasPeer(sta, sta.bss) \in BOOLEAN
  BY DEF SmeInv, TypeInv, Stas, HasPeer
<1>3. s \in Stas /\ s.act = sta.act /\ s.peer = sta.peer /\ s.bss = sta.bss
  <2> DEFINE q == Running(sta)
  <2>1. q \in Stas /\ q.act = sta.act /\ q.peer = sta.peer /\ q.bss = sta.bss
    BY <1>2, RunningRecord
  <2>2. s = [q EXCEPT !.report = FALSE]
    OBVIOUS
  <2> HIDE DEF q, s
  <2> QED
    BY <2>1, <2>2 DEF Stas
<1> HIDE DEF s
<1>4. HasPeer(s, sta.bss) <=> HasPeer(sta, sta.bss)
  BY <1>3 DEF HasPeer
<1>5. /\ sta' \in Stas
      /\ ~HasPeer(s, sta.bss) => sta'.act = s.act /\ sta'.peer = s.peer /\ sta'.bss = s.bss
      /\ HasPeer(s, sta.bss) => sta'.act = FALSE
      /\ HasPeer(s, sta.bss) /\ ok => sta'.peer = None /\ sta'.bss = None
      /\ HasPeer(s, sta.bss) /\ ~ok => sta'.peer = s.peer /\ sta'.bss = s.bss
  BY <1>1, <1>2, <1>3, LeaveRecord
<1>6. Fits
  BY <1>1, <1>2, <1>3, <1>4, <1>5, LeaveFits DEF SmeInv
<1>7. fw' \in Fws
  BY <1>1, <1>2, DisconnectsFw
<1>8. host' \in Hosts
  BY <1>1, <1>2, HostRecord DEF EvKinds, Kinds
<1>9. ShutInTime'
  <2>1. CASE HasPeer(sta, sta.bss)
    BY <1>4, <1>5, <2>1, ShutHolds
  <2>2. CASE ~HasPeer(sta, sta.bss)
    <3>1. sta.peer = None /\ sta'.act = sta.act
      BY <1>3, <1>4, <1>5, <2>2 DEF SmeInv, SamePeer, HasPeer
    <3> QED
      BY <1>1, <3>1 DEF SmeInv, ShutInTime, Without
  <2> QED
    BY <2>1, <2>2
<1> QED
  BY <1>1, <1>5, <1>6, <1>7, <1>8, <1>9 DEF SmeInv, TypeInv, Consequences, ScanIsCurrent
-----------------------------------------------------------------------------
(* The invariant holds, and with it the property. *)

LEMMA OperationInv == ASSUME SmeInv, Operation PROVE TypeInv' /\ Consequences
<1>1. CASE AuthSend
  BY <1>1, AuthSendInv
<1>2. ASSUME NEW ok \in BOOLEAN,
             AuthUnjoin(ok) \/ AuthJoin(ok) \/ AuthEnd(ok) \/ AssocMove(ok) \/ AssocEnd(ok)
      PROVE  TypeInv' /\ Consequences
  BY <1>2, AuthUnjoinInv, AuthJoinInv, AuthEndInv, AssocMoveInv, AssocEndInv
<1>3. ASSUME NEW ok \in BOOLEAN, NEW w \in Ifaces, ScanEnd(w, ok)
      PROVE  TypeInv' /\ Consequences
  BY <1>3, ScanEndInv
<1> QED
  BY <1>1, <1>2, <1>3 DEF Operation

LEMMA HostInv == ASSUME SmeInv, Host PROVE TypeInv' /\ Consequences
<1>1. ASSUME NEW b \in Bss, NEW k \in Kinds, AuthBegin(b, k)
      PROVE  TypeInv' /\ Consequences
  BY <1>1, AuthBeginInv
<1>2. ASSUME NEW b \in Bss, AssocBegin(b)
      PROVE  TypeInv' /\ Consequences
  BY <1>2, AssocBeginInv
<1>3. ASSUME NEW b \in Bss, NEW ok \in BOOLEAN, Deauth(b, ok) \/ Disassoc(b, ok)
      PROVE  TypeInv' /\ Consequences
  <2>1. sta.report \in BOOLEAN
    BY DEF SmeInv, TypeInv, Stas
  <2>2. LeaveCall(b, ok, sta.report) \/ LeaveCall(b, ok, TRUE)
    BY <1>3 DEF Deauth, Disassoc
  <2> QED
    BY <2>1, <2>2, LeaveCallInv
<1>4. ASSUME NEW w \in Ifaces, ScanBegin(w) \/ ScanAbort(w)
      PROVE  TypeInv' /\ Consequences
  BY <1>4, ScanBeginInv, ScanAbortInv
<1>5. CASE Authorize
  BY <1>5, AuthorizeInv
<1> QED
  BY <1>1, <1>2, <1>3, <1>4, <1>5 DEF Host

LEMMA FirmwareInv == ASSUME SmeInv, Firmware PROVE TypeInv' /\ Consequences
BY FwAuthInv, FwAssocInv, FwKickInv, FwScanInv DEF Firmware

LEMMA EventsInv == ASSUME SmeInv, Events PROVE TypeInv' /\ Consequences
BY EvDeauthInv, EvAuthInv, DiscEndInv, EvScanInv, EvAssocInv, DiscBeginInv DEF Events

LEMMA WorkInv == ASSUME SmeInv, Work PROVE TypeInv' /\ Consequences
BY WorkIdleInv, WorkRetryInv, WorkRedoInv, WorkFailInv DEF Work

LEMMA StepInv == ASSUME SmeInv, [Next]_vars PROVE SmeInv'
<1>1. CASE UNCHANGED vars
  BY <1>1 DEF vars, SmeInv, TypeInv, SamePeer, FwFollows, ShutInTime, ScanIsCurrent, Without
<1>2. CASE Next
  <2>1. TypeInv' /\ Consequences
    BY <1>2, OperationInv, HostInv, FirmwareInv, EventsInv, WorkInv, StaTimerInv, ScanTimerInv,
       ScanTimeoutInv DEF Next, ScanClock
  <2> QED
    BY <2>1 DEF SmeInv, Consequences, Fits
<1> QED
  BY <1>1, <1>2

LEMMA InvConsistent == SmeInv => Consistent
<1> SUFFICES ASSUME SmeInv PROVE Consistent
  OBVIOUS
<1>1. TypeOK
  BY DEF SmeInv, TypeInv, TypeOK, Stas, Ops, OpPcs, Discs, Fws, Hosts, Scans, MaybeIface
<1>2. JoinAgrees
  BY DEF SmeInv, SamePeer, FwFollows, JoinAgrees
<1>3. SendsWhenAssociated
  BY DEF SmeInv, ShutInTime, SendsWhenAssociated
<1> QED
  BY <1>1, <1>2, <1>3 DEF SmeInv, Consistent

\* For every set of access points, every limit on the retries and every load: the driver, its
\* peer slot and the firmware are joined to the same BSS unless a command was carried out and
\* its answer lost, frames are only sent on an association, and the scan the driver keeps is
\* the one cfg80211 waits for (skw_join, skw_unjoin, skw_sta_leave, skw_event_disconnect,
\* skw_scan_done).
THEOREM StationConsistent == Spec => []Consistent
<1>1. Spec => []SmeInv
  BY InitInv, StepInv, PTL DEF Spec
<1> QED
  BY <1>1, InvConsistent, PTL
-----------------------------------------------------------------------------
(* What cfg80211 knows of the station.  An operation and the disconnect event leave both      *)
(* views half changed for a while; the two invariants say how far each of them has got.       *)

\* An event but the end of a scan is of a BSS.
EventsNamed == \A i \in DOMAIN evq : evq[i].t # "scan" => evq[i].b # None

Associated == sta.sm \in {"ASSOCED", "COMPLETED"}
Pursuing == sta.sm = "ASSOCING" \/ (sta.sm = "AUTHING" /\ sta.rty = "assoc")
Connecting == {"unjoin", "join", "send", "auth"}

\* The attempt that cfg80211 waits for is the one the driver keeps in cbss; unless a disconnect
\* event is half done the driver is at it, on that BSS.
AttemptKept ==
  Without({"late", "mute", "untold", "elsewhere"}) =>
    /\ host.assoc # None => sta.cbss = host.assoc
    /\ disc.pc = "idle" /\ host.assoc # None =>
          Pursuing /\ op.pc \in {"idle", "scan", "assoc"} /\ sta.bss \in {host.assoc, None}
    /\ op.pc = "rejoin" => host.assoc = None
    /\ op.pc = "assoc" => host.assoc \in {op.b, None} /\ sta.bss \in {op.b, None}

\* The connection that cfg80211 knows of, the disconnect event that is going to end it, and the
\* operation that is going to make one.
ConnKnown ==
  /\ disc.pc = "idle" => (Associated <=> host.conn # None)
  /\ host.conn # None => /\ op.pc \in {"idle", "scan"} /\ sta.bss = host.conn
                         /\ sta.cbss = None /\ host.req = host.conn
                         /\ disc.pc = "idle" => sta.act /\ (host.authz <=> sta.sm = "COMPLETED")
DiscKnown ==
  disc.pc = "leave" =>
    op.pc \in {"idle", "scan"} /\ sta.sm = "NONE" /\ sta.bss = disc.b /\ disc.b # None
AttemptKnown ==
  /\ Pursuing => /\ op.pc \in {"idle", "scan", "assoc"} /\ sta.cbss # None
                 /\ host.req = sta.cbss /\ sta.bss \in {sta.cbss, None}
  /\ sta.sm = "AUTHED" => sta.rty # "assoc" /\ host.authed \in {None, sta.bss}
OpKnown ==
  /\ op.pc # "rejoin"
  /\ op.pc \in Connecting /\ op.k = "confirm" => host.authed = op.b
  /\ op.pc \in {"send", "auth"} /\ op.k = "confirm" => sta.bss = op.b
  /\ op.pc = "assoc" => sta.sm = "ASSOCING" /\ op.b = sta.cbss
  /\ op.pc \in {"unjoin", "join"} => sta.sm = "NONE"
  /\ op.pc = "send" => sta.sm \in {"NONE", "AUTHED"}
  /\ op.pc = "auth" => sta.sm = "AUTHING" /\ sta.rty = "none"
ViewsKept ==
  Without({"late", "stray", "moved", "mute"}) => ConnKnown /\ DiscKnown /\ AttemptKnown /\ OpKnown

HostInvariant == SmeInv /\ EventsNamed /\ AttemptKept /\ ViewsKept
ViewDefs == AttemptKept' /\ ViewsKept'

\* A step that leaves alone what the two views are made of; a scan may begin or end.
LEMMA SameViews ==
  ASSUME HostInvariant,
         sta'.sm = sta.sm, sta'.bss = sta.bss, sta'.cbss = sta.cbss, sta'.rty = sta.rty,
         sta'.act = sta.act, host' = host, disc' = disc, odd \subseteq odd',
         op' = op \/ (op.pc \in {"idle", "scan"} /\ op'.pc \in {"idle", "scan"})
  PROVE  ViewDefs
<1>1. AttemptKept'
  <2>1. CASE op' = op
    BY <2>1 DEF HostInvariant, AttemptKept, Pursuing, Without
  <2>2. CASE op.pc \in {"idle", "scan"} /\ op'.pc \in {"idle", "scan"}
    BY <2>2 DEF HostInvariant, AttemptKept, Pursuing, Without
  <2> QED
    BY <2>1, <2>2
<1>2. ViewsKept'
  <2> SUFFICES ASSUME Without({"late", "stray", "moved", "mute"})'
               PROVE  (ConnKnown /\ DiscKnown /\ AttemptKnown /\ OpKnown)'
    BY DEF ViewsKept
  <2>1. ConnKnown /\ DiscKnown /\ AttemptKnown /\ OpKnown
    BY DEF HostInvariant, ViewsKept, Without
  <2>2. CASE op' = op
    BY <2>1, <2>2 DEF ConnKnown, DiscKnown, AttemptKnown, OpKnown, Pursuing, Associated
  <2>3. CASE op.pc \in {"idle", "scan"} /\ op'.pc \in {"idle", "scan"}
    BY <2>1, <2>3
       DEF ConnKnown, DiscKnown, AttemptKnown, OpKnown, Pursuing, Associated, Connecting
  <2> QED
    BY <2>2, <2>3
<1> QED
  BY <1>1, <1>2 DEF ViewDefs

LEMMA ScanKeepsViews ==
  ASSUME HostInvariant, NEW w \in Ifaces, NEW ok \in BOOLEAN,
         ScanBegin(w) \/ ScanEnd(w, ok) \/ ScanAbort(w)
  PROVE  ViewDefs
<1>1. /\ UNCHANGED <<sta, host, disc, odd>>
      /\ op' = op \/ (op.pc \in {"idle", "scan"} /\ op'.pc \in {"idle", "scan"})
  <2>1. CASE ScanBegin(w)
    BY <2>1 DEF ScanBegin, Idle
  <2>2. CASE ScanEnd(w, ok)
    BY <2>2 DEF ScanEnd, Idle
  <2>3. CASE ScanAbort(w)
    BY <2>3 DEF ScanAbort
  <2> QED
    BY <2>1, <2>2, <2>3
<1> QED
  BY <1>1, SameViews

LEMMA FirmwareKeepsViews ==
  ASSUME HostInvariant, Firmware \/ ScanClock \/ EvScan
  PROVE  ViewDefs
<1>1. UNCHANGED <<sta, host, disc, odd, op>>
  <2>1. CASE Firmware
    BY <2>1 DEF Firmware, FwAuth, FwAssoc, FwKick, FwScan, fwKeeps
  <2>2. CASE ScanClock
    BY <2>2 DEF ScanClock, ScanTimer, ScanTimeout
  <2>3. CASE EvScan
    BY <2>3 DEF EvScan
  <2> QED
    BY <2>1, <2>2, <2>3
<1> QED
  BY <1>1, SameViews

\* The work of the state machine that only rearms its timer or sends a command again.
LEMMA TimersKeepViews ==
  ASSUME HostInvariant, StaTimer \/ WorkIdle \/ WorkRetry
  PROVE  ViewDefs
<1>1. sta \in Stas
  BY DEF HostInvariant, SmeInv, TypeInv
<1>2. /\ UNCHANGED <<host, disc, odd, op>>
      /\ sta'.sm = sta.sm /\ sta'.bss = sta.bss /\ sta'.cbss = sta.cbss /\ sta'.rty = sta.rty
      /\ sta'.act = sta.act
  <2>1. CASE StaTimer
    BY <1>1, <2>1 DEF StaTimer, Stas
  <2>2. CASE WorkIdle
    BY <1>1, <2>2 DEF WorkIdle, workKeeps, Running, Stas
  <2>3. CASE WorkRetry
    BY <1>1, <2>3 DEF WorkRetry, workKeeps, Running, Stas
  <2> QED
    BY <2>1, <2>2, <2>3
<1> QED
  BY <1>1, <1>2, SameViews

\* An event joins the queue with the BSS the firmware is joined to.
LEMMA NamedAppend ==
  ASSUME NEW q \in Seq(Reports), NEW e \in Reports,
         \A i \in DOMAIN q : q[i].t # "scan" => q[i].b # None,
         e.t # "scan" => e.b # None
  PROVE  \A i \in DOMAIN Append(q, e) : Append(q, e)[i].t # "scan" => Append(q, e)[i].b # None
<1> SUFFICES ASSUME NEW i \in DOMAIN Append(q, e), Append(q, e)[i].t # "scan"
             PROVE  Append(q, e)[i].b # None
  OBVIOUS
<1>1. i \in 1 .. Len(q) + 1 /\ Len(q) \in Nat /\ DOMAIN q = 1 .. Len(q)
  OBVIOUS
<1>2. CASE i = Len(q) + 1
  BY <1>2
<1>3. CASE i # Len(q) + 1
  <2>1. i \in DOMAIN q /\ Append(q, e)[i] = q[i]
    BY <1>1, <1>3
  <2> QED
    BY <2>1
<1> QED
  BY <1>2, <1>3

LEMMA NamedTail ==
  ASSUME NEW q \in Seq(Reports), q # <<>>,
         \A i \in DOMAIN q : q[i].t # "scan" => q[i].b # None
  PROVE  /\ \A i \in DOMAIN Tail(q) : Tail(q)[i].t # "scan" => Tail(q)[i].b # None
         /\ Head(q).t # "scan" => Head(q).b # None
<1>1. Len(q) \in Nat /\ Len(q) > 0 /\ DOMAIN q = 1 .. Len(q) /\ Head(q) = q[1]
  OBVIOUS
<1>2. ASSUME NEW i \in DOMAIN Tail(q) PROVE i + 1 \in DOMAIN q /\ Tail(q)[i] = q[i + 1]
  BY <1>1
<1>3. 1 \in DOMAIN q
  BY <1>1
<1> QED
  BY <1>1, <1>2, <1>3

LEMMA EventStaysNamed ==
  ASSUME SmeInv, EventsNamed, NEW e \in Reports, e.t # "scan" => e.b # None,
         evq' = Append(evq, e)
  PROVE  EventsNamed'
<1>1. evq \in Seq(Reports)
  BY DEF SmeInv, TypeInv
<1> QED
  BY <1>1, NamedAppend DEF EventsNamed

LEMMA EventIsNamed ==
  ASSUME SmeInv, fw.joined # None, NEW t \in EvTypes, NEW ok \in BOOLEAN
  PROVE  Event(t, ok) \in Reports /\ Event(t, ok).b # None
BY EventType DEF SmeInv, Event

LEMMA FwAuthNames ==
  ASSUME SmeInv, EventsNamed, NEW ok \in BOOLEAN, FwAuth(ok)
  PROVE  EventsNamed'
<1> DEFINE e == Event("auth", ok)
           f == [e EXCEPT !.k = "confirm"]
<1>1. fw.joined # None /\ (evq' = Append(evq, e) \/ evq' = Append(evq, e) \o <<f>>)
  BY DEF FwAuth
<1>2. e \in Reports /\ e.b # None
  BY <1>1, EventIsNamed DEF EvTypes
<1> HIDE DEF e
<1>3. f \in Reports /\ f.b # None
  BY <1>2 DEF Reports, EvKinds, Kinds
<1> HIDE DEF f
<1>4. CASE evq' = Append(evq, e)
  BY <1>2, <1>4, EventStaysNamed
<1>5. CASE evq' = Append(evq, e) \o <<f>>
  <2> DEFINE q == Append(evq, e)
  <2>1. evq \in Seq(Reports)
    BY DEF SmeInv, TypeInv
  <2>2. q \in Seq(Reports) /\ \A i \in DOMAIN q : q[i].t # "scan" => q[i].b # None
    BY <1>2, <2>1, QueueType, NamedAppend DEF EventsNamed
  <2> HIDE DEF q
  <2>3. q \o <<f>> = Append(q, f)
    BY <1>3, <2>2
  <2>4. evq' = Append(q, f)
    BY <1>5, <2>3 DEF q
  <2> QED
    BY <1>3, <2>2, <2>4, NamedAppend DEF EventsNamed
<1> QED
  BY <1>1, <1>4, <1>5

LEMMA FirmwareNames ==
  ASSUME SmeInv, EventsNamed, Firmware
  PROVE  EventsNamed'
<1>1. ASSUME NEW ok \in BOOLEAN, FwAuth(ok) PROVE EventsNamed'
  BY <1>1, FwAuthNames
<1>2. ASSUME NEW ok \in BOOLEAN, FwAssoc(ok) PROVE EventsNamed'
  <2>1. fw.joined # None /\ evq' = Append(evq, Event("assoc", ok))
    BY <1>2 DEF FwAssoc
  <2> QED
    BY <2>1, EventIsNamed, EventStaysNamed DEF EvTypes
<1>3. ASSUME NEW t \in {"deauth", "disconnect"}, FwKick(t) PROVE EventsNamed'
  <2>1. fw.joined # None /\ evq' = Append(evq, Event(t, TRUE)) /\ t \in EvTypes
    BY <1>3 DEF FwKick, EvTypes
  <2> QED
    BY <2>1, EventIsNamed, EventStaysNamed
<1>4. CASE FwScan
  <2> DEFINE e == [t |-> "scan", b |-> None, ok |-> TRUE, k |-> scan.fw, n |-> epoch]
  <2>1. scan.fw # None /\ evq' = Append(evq, e)
    BY <1>4 DEF FwScan
  <2>2. e \in Reports /\ e.t = "scan"
    BY <2>1 DEF SmeInv, TypeInv, Reports, EvTypes, EvKinds, MaybeBss, Scans, MaybeIface
  <2> HIDE DEF e
  <2> QED
    BY <2>1, <2>2, EventStaysNamed
<1> QED
  BY <1>1, <1>2, <1>3, <1>4 DEF Firmware

LEMMA TakeNames ==
  ASSUME SmeInv, EventsNamed, NEW t \in EvTypes, Take(t)
  PROVE  EventsNamed' /\ (t # "scan" => Head(evq).b # None)
<1>1. evq \in Seq(Reports) /\ evq # <<>> /\ evq' = Tail(evq) /\ Head(evq).t = t
  BY DEF Take, SmeInv, TypeInv
<1> QED
  BY <1>1, NamedTail DEF EventsNamed

LEMMA EventsStayNamed ==
  ASSUME SmeInv, EventsNamed, [Next]_vars
  PROVE  EventsNamed'
<1>1. CASE UNCHANGED evq
  BY <1>1 DEF EventsNamed
<1>2. CASE Firmware
  BY <1>2, FirmwareNames
<1>3. ASSUME NEW t \in EvTypes, Take(t) PROVE EventsNamed'
  BY <1>3, TakeNames
<1>4. CASE Operation
  <2>1. UNCHANGED evq
    BY <1>4 DEF Operation, AuthUnjoin, AuthJoin, AuthEnd, AssocMove, AssocEnd, Join, ScanEnd,
                AuthSend, opKeeps
  <2> QED
    BY <1>1, <2>1
<1>5. CASE Host
  <2>1. UNCHANGED evq
    BY <1>5 DEF Host, AuthBegin, AssocBegin, Deauth, Disassoc, LeaveCall, ScanBegin, ScanAbort,
                Authorize
  <2> QED
    BY <1>1, <2>1
<1>6. CASE Events
  <2>1. UNCHANGED evq \/ \E t \in EvTypes : Take(t)
    BY <1>6 DEF Events, EvDeauth, EvAuth, DiscEnd, EvScan, EvAssoc, DiscBegin, EvTypes
  <2> QED
    BY <1>1, <1>3, <2>1
<1>7. CASE Work \/ StaTimer \/ ScanClock \/ UNCHANGED vars
  <2>1. UNCHANGED evq
    BY <1>7 DEF Work, WorkIdle, WorkRetry, WorkRedo, WorkFail, workKeeps, StaTimer, ScanClock,
                ScanTimer, ScanTimeout, vars
  <2> QED
    BY <1>1, <2>1
<1> QED
  BY <1>2, <1>4, <1>5, <1>6, <1>7 DEF Next

\* What leaving a BSS keeps of the attempt.
LEMMA UnjoinRest ==
  ASSUME NEW s \in Stas, NEW b, NEW ok \in BOOLEAN
  PROVE  /\ Unjoin(s, b, ok).sm = s.sm /\ Unjoin(s, b, ok).cbss = s.cbss
         /\ Unjoin(s, b, ok).rty = s.rty /\ Unjoin(s, b, ok).bss \in {s.bss, None}
BY DEF Unjoin, Bind, Transmit, Stas

LEMMA LeaveRest ==
  ASSUME NEW s \in Stas, NEW b, NEW ok \in BOOLEAN
  PROVE  /\ Leave(s, b, ok).sm = "NONE" /\ Leave(s, b, ok).cbss = s.cbss
         /\ Leave(s, b, ok).rty = s.rty /\ Leave(s, b, ok).bss \in {s.bss, None}
<1> DEFINE r == [s EXCEPT !.sm = "NONE", !.timer = FALSE, !.confirm = FALSE]
<1>1. r \in Stas /\ r.sm = "NONE" /\ r.cbss = s.cbss /\ r.rty = s.rty /\ r.bss = s.bss
  BY DEF Stas, States
<1>2. Leave(s, b, ok) = Unjoin(r, b, ok)
  BY DEF Leave
<1> HIDE DEF r
<1> QED
  BY <1>1, <1>2, UnjoinRest

LEMMA DeauthFields ==
  ASSUME NEW h \in Hosts, NEW b
  PROVE  /\ TellDeauth(h, b).conn = (IF h.conn = b THEN None ELSE h.conn)
         /\ TellDeauth(h, b).authed = (IF h.authed = b THEN None ELSE h.authed)
         /\ TellDeauth(h, b).assoc = (IF h.assoc = b THEN None ELSE h.assoc)
         /\ TellDeauth(h, b).req = h.req
         /\ TellDeauth(h, b).authz = (h.authz /\ h.conn # b)
BY DEF TellDeauth, Hosts

LEMMA AnswerFields ==
  ASSUME NEW h \in Hosts, NEW b, NEW ok \in BOOLEAN
  PROVE  /\ TellAssoc(h, b, ok).assoc = None /\ TellAssoc(h, b, ok).authz = FALSE
         /\ TellAssoc(h, b, ok).conn = (IF ok THEN b ELSE None)
         /\ TellAssoc(h, b, ok).authed = None /\ TellAssoc(h, b, ok).req = h.req
BY DEF TellAssoc, Hosts

LEMMA FailureFields ==
  ASSUME NEW h \in Hosts, NEW b
  PROVE  /\ TellAssocFailure(h, b).assoc = (IF h.assoc = b THEN None ELSE h.assoc)
         /\ TellAssocFailure(h, b).conn = h.conn /\ TellAssocFailure(h, b).authed = h.authed
         /\ TellAssocFailure(h, b).req = h.req /\ TellAssocFailure(h, b).authz = h.authz
BY DEF TellAssocFailure, Hosts

LEMMA AuthFields ==
  ASSUME NEW h \in Hosts, NEW b, NEW ok \in BOOLEAN, NEW k
  PROVE  /\ TellAuth(h, b, ok, k).authed = (IF ok THEN b ELSE None)
         /\ TellAuth(h, b, ok, k).conn = h.conn /\ TellAuth(h, b, ok, k).assoc = h.assoc
         /\ TellAuth(h, b, ok, k).req = h.req /\ TellAuth(h, b, ok, k).authz = h.authz
BY DEF TellAuth, Hosts

\* The state an operation, an event or the work begins in.
LEMMA ViewTypes ==
  ASSUME HostInvariant
  PROVE  /\ sta \in Stas /\ host \in Hosts /\ op \in Ops /\ disc \in Discs
         /\ sta.bss \in MaybeBss /\ sta.cbss \in MaybeBss /\ sta.peer = sta.bss
         /\ None \in MaybeBss /\ None \notin Bss
BY SmeAssumption DEF HostInvariant, SmeInv, TypeInv, SamePeer, Stas, MaybeBss

\* Steps that end with no attempt, no connection and the state machine at NONE.
LEMMA NothingLeft ==
  ASSUME sta'.sm = "NONE", host'.assoc = None, host'.conn = None, disc'.pc = "idle",
         op'.pc \in {"idle", "scan"}
  PROVE  ViewDefs
<1>1. AttemptKept'
  BY DEF AttemptKept
<1>2. (ConnKnown /\ DiscKnown /\ AttemptKnown /\ OpKnown)'
  BY DEF ConnKnown, DiscKnown, AttemptKnown, OpKnown, Associated, Pursuing, Connecting
<1> QED
  BY <1>1, <1>2 DEF ViewDefs, ViewsKept
-----------------------------------------------------------------------------
(* Authentication, as cfg80211 and the driver see it. *)

LEMMA AuthBeginViews ==
  ASSUME HostInvariant, NEW b \in Bss, NEW k \in Kinds, AuthBegin(b, k)
  PROVE  ViewDefs
<1> DEFINE s == [sta EXCEPT !.report = FALSE]
           nextOp(p) == [pc |-> p, b |-> b, k |-> k]
           h == TellDeauth(host, sta.bss)
<1>1. /\ sta \in Stas /\ host \in Hosts /\ op.pc = "idle" /\ disc' = disc /\ odd \subseteq odd'
      /\ disc.pc # "idle" => "stray" \in odd'
      /\ k = "confirm" => host.authed = b
      /\ b # None
  BY SmeAssumption DEF AuthBegin, HostInvariant, SmeInv, TypeInv
<1>2. s.sm = sta.sm /\ s.bss = sta.bss /\ s.cbss = sta.cbss /\ s.rty = sta.rty /\ s.act = sta.act
      /\ s \in Stas
  BY <1>1 DEF Stas
<1>3. \A p \in {"unjoin", "join", "send"} :
         nextOp(p).pc = p /\ nextOp(p).b = b /\ nextOp(p).k = k
  OBVIOUS
<1>4. \/ sta' = s /\ op' = op /\ host' = host
      \/ /\ Associated /\ sta.bss # b
         /\ sta' = [s EXCEPT !.sm = "NONE"] /\ op' = nextOp("unjoin")
         /\ host' = [h EXCEPT !.req = b]
      \/ /\ sta.sm = "NONE" /\ sta' = s /\ host' = [host EXCEPT !.req = b]
         /\ op' = nextOp("unjoin") \/ op' = nextOp("join")
      \/ /\ sta.sm = "AUTHED" /\ sta' = s /\ op' = nextOp("send")
         /\ host' = [host EXCEPT !.req = b]
  BY DEF AuthBegin, Associated
<1>5. h \in Hosts
  BY <1>1, HostRecord, ViewTypes DEF EvKinds, Kinds
<1>6. /\ h.conn = (IF host.conn = sta.bss THEN None ELSE host.conn)
      /\ h.authed = (IF host.authed = sta.bss THEN None ELSE host.authed)
      /\ h.assoc = (IF host.assoc = sta.bss THEN None ELSE host.assoc)
  BY <1>1, DeauthFields
<1> HIDE DEF s, nextOp, h
<1>7. CASE sta' = s /\ op' = op /\ host' = host
  BY <1>1, <1>2, <1>7, SameViews
<1>8. CASE /\ Associated /\ sta.bss # b
           /\ sta' = [s EXCEPT !.sm = "NONE"] /\ op' = nextOp("unjoin")
           /\ host' = [h EXCEPT !.req = b]
  <2>1. /\ sta'.sm = "NONE" /\ sta'.bss = sta.bss /\ sta'.cbss = sta.cbss
        /\ op'.pc = "unjoin" /\ op'.b = b /\ op'.k = k
        /\ host'.conn = h.conn /\ host'.authed = h.authed /\ host'.assoc = h.assoc
    BY <1>2, <1>3, <1>5, <1>8 DEF Stas, Hosts
  <2>2. AttemptKept'
    BY <1>1, <1>6, <1>8, <2>1
       DEF HostInvariant, AttemptKept, Associated, Pursuing, Without
  <2>3. ViewsKept'
    <3> SUFFICES ASSUME Without({"late", "stray", "moved", "mute"})'
                 PROVE  (ConnKnown /\ DiscKnown /\ AttemptKnown /\ OpKnown)'
      BY DEF ViewsKept
    <3>1. disc.pc = "idle" /\ ConnKnown
      BY <1>1 DEF HostInvariant, ViewsKept, Without
    <3>2. host.conn # None /\ sta.bss = host.conn
      BY <1>8, <3>1 DEF ConnKnown
    <3>3. host'.conn = None /\ (k = "confirm" => host'.authed = b)
      BY <1>1, <1>6, <1>8, <2>1, <3>2
    <3> QED
      BY <1>1, <2>1, <3>1, <3>3
         DEF ConnKnown, DiscKnown, AttemptKnown, OpKnown, Associated, Pursuing, Connecting
  <2> QED
    BY <2>2, <2>3 DEF ViewDefs
<1>9. CASE /\ sta.sm = "NONE" /\ sta' = s /\ host' = [host EXCEPT !.req = b]
           /\ op' = nextOp("unjoin") \/ op' = nextOp("join")
  <2>1. /\ sta'.sm = "NONE" /\ sta'.bss = sta.bss /\ sta'.cbss = sta.cbss
        /\ op'.pc \in {"unjoin", "join"} /\ op'.b = b /\ op'.k = k
        /\ host'.conn = host.conn /\ host'.authed = host.authed /\ host'.assoc = host.assoc
    BY <1>1, <1>2, <1>3, <1>9 DEF Hosts
  <2>2. AttemptKept'
    BY <1>1, <1>9, <2>1 DEF HostInvariant, AttemptKept, Pursuing, Without
  <2>3. ViewsKept'
    <3> SUFFICES ASSUME Without({"late", "stray", "moved", "mute"})'
                 PROVE  (ConnKnown /\ DiscKnown /\ AttemptKnown /\ OpKnown)'
      BY DEF ViewsKept
    <3>1. disc.pc = "idle" /\ ConnKnown
      BY <1>1 DEF HostInvariant, ViewsKept, Without
    <3>2. host.conn = None
      BY <1>9, <3>1 DEF ConnKnown, Associated
    <3> QED
      BY <1>1, <2>1, <3>1, <3>2
         DEF ConnKnown, DiscKnown, AttemptKnown, OpKnown, Associated, Pursuing, Connecting
  <2> QED
    BY <2>2, <2>3 DEF ViewDefs
<1>10. CASE /\ sta.sm = "AUTHED" /\ sta' = s /\ op' = nextOp("send")
            /\ host' = [host EXCEPT !.req = b]
  <2>1. /\ sta'.sm = "AUTHED" /\ sta'.bss = sta.bss /\ sta'.cbss = sta.cbss /\ sta'.rty = sta.rty
        /\ op'.pc = "send" /\ op'.b = b /\ op'.k = k
        /\ host'.conn = host.conn /\ host'.authed = host.authed /\ host'.assoc = host.assoc
    BY <1>1, <1>2, <1>3, <1>10 DEF Hosts
  <2>2. AttemptKept'
    BY <1>1, <1>10, <2>1 DEF HostInvariant, AttemptKept, Pursuing, Without
  <2>3. ViewsKept'
    <3> SUFFICES ASSUME Without({"late", "stray", "moved", "mute"})'
                 PROVE  (ConnKnown /\ DiscKnown /\ AttemptKnown /\ OpKnown)'
      BY DEF ViewsKept
    <3>1. disc.pc = "idle" /\ ConnKnown /\ AttemptKnown
      BY <1>1 DEF HostInvariant, ViewsKept, Without
    <3>2. host.conn = None /\ sta.rty # "assoc" /\ host.authed \in {None, sta.bss}
      BY <1>10, <3>1 DEF ConnKnown, AttemptKnown, Associated
    <3>3. k = "confirm" => sta'.bss = b /\ host'.authed = b
      BY <1>1, <2>1, <3>2
    <3> QED
      BY <1>1, <2>1, <3>1, <3>2, <3>3
         DEF ConnKnown, DiscKnown, AttemptKnown, OpKnown, Associated, Pursuing, Connecting
  <2> QED
    BY <2>2, <2>3 DEF ViewDefs
<1> QED
  BY <1>4, <1>7, <1>8, <1>9, <1>10

\* A step of an authentication that is going on: nothing is being associated or connected.
LEMMA Connects ==
  ASSUME HostInvariant, op.pc \in Connecting
  PROVE  /\ Without({"late", "mute", "untold", "elsewhere"}) =>
              /\ host.assoc # None => sta.cbss = host.assoc
              /\ disc.pc = "idle" => host.assoc = None
         /\ Without({"late", "stray", "moved", "mute"}) =>
              disc.pc = "idle" /\ host.conn = None /\ ~Associated /\ OpKnown /\ AttemptKnown
<1>1. op.pc \notin {"idle", "scan", "assoc"}
  BY DEF Connecting
<1>2. Without({"late", "mute", "untold", "elsewhere"}) =>
        /\ host.assoc # None => sta.cbss = host.assoc
        /\ disc.pc = "idle" => host.assoc = None
  BY <1>1 DEF HostInvariant, AttemptKept
<1>3. disc.pc \in {"idle", "leave"}
  BY ViewTypes DEF Discs
<1>4. Without({"late", "stray", "moved", "mute"}) =>
        disc.pc = "idle" /\ host.conn = None /\ ~Associated /\ OpKnown /\ AttemptKnown
  BY <1>1, <1>3 DEF HostInvariant, ViewsKept, ConnKnown, DiscKnown
<1> QED
  BY <1>2, <1>4

\* ... and it goes on or ends with the host's view as it is.
LEMMA StillConnects ==
  ASSUME HostInvariant, op.pc \in Connecting, host' = host, disc' = disc, odd \subseteq odd',
         sta'.cbss = sta.cbss, op'.pc \in Connecting \cup {"idle"},
         Without({"late", "stray", "moved", "mute"}) =>
            /\ sta'.sm \notin {"ASSOCED", "COMPLETED", "ASSOCING"}
            /\ sta'.sm \in {"AUTHING", "AUTHED"} => sta'.rty # "assoc"
            /\ sta'.sm = "AUTHED" => host.authed \in {None, sta'.bss}
            /\ op'.pc \in Connecting /\ op'.k = "confirm" => host.authed = op'.b
            /\ op'.pc \in {"send", "auth"} /\ op'.k = "confirm" => sta'.bss = op'.b
            /\ op'.pc \in {"unjoin", "join"} => sta'.sm = "NONE"
            /\ op'.pc = "send" => sta'.sm \in {"NONE", "AUTHED"}
            /\ op'.pc = "auth" => sta'.sm = "AUTHING" /\ sta'.rty = "none"
  PROVE  ViewDefs
<1>1. AttemptKept'
  BY Connects DEF AttemptKept, Without, Connecting
<1>2. ViewsKept'
  <2> SUFFICES ASSUME Without({"late", "stray", "moved", "mute"})'
               PROVE  (ConnKnown /\ DiscKnown /\ AttemptKnown /\ OpKnown)'
    BY DEF ViewsKept
  <2>1. Without({"late", "stray", "moved", "mute"})
    BY DEF Without
  <2>2. disc.pc = "idle" /\ host.conn = None
    BY <2>1, Connects
  <2>3. (ConnKnown /\ DiscKnown)'
    BY <2>1, <2>2 DEF ConnKnown, DiscKnown, Associated
  <2>4. ~Pursuing'
    BY <2>1 DEF Pursuing
  <2>5. AttemptKnown'
    BY <2>1, <2>4 DEF AttemptKnown
  <2>6. OpKnown'
    BY <2>1 DEF OpKnown, Connecting
  <2> QED
    BY <2>3, <2>5, <2>6
<1> QED
  BY <1>1, <1>2 DEF ViewDefs

LEMMA AuthUnjoinViews ==
  ASSUME HostInvariant, NEW ok \in BOOLEAN, AuthUnjoin(ok)
  PROVE  ViewDefs
<1>1. /\ op.pc = "unjoin" /\ sta' = Unjoin(sta, sta.bss, ok)
      /\ op' = (IF ok THEN [op EXCEPT !.pc = "join"] ELSE Idle)
      /\ odd \subseteq odd' /\ disc' = disc /\ host' = host
  BY DEF AuthUnjoin, opKeeps
<1>2. sta'.sm = sta.sm /\ sta'.cbss = sta.cbss
  BY <1>1, ViewTypes, UnjoinRest
<1>3. op'.pc = "idle" \/ (op'.pc = "join" /\ op'.b = op.b /\ op'.k = op.k)
  BY <1>1, ViewTypes DEF Ops, Idle
<1>4. Without({"late", "stray", "moved", "mute"}) =>
        sta.sm = "NONE" /\ (op.k = "confirm" => host.authed = op.b)
  BY <1>1, Connects DEF OpKnown, Connecting
<1> QED
  BY <1>1, <1>2, <1>3, <1>4, StillConnects DEF Connecting

LEMMA AuthJoinViews ==
  ASSUME HostInvariant, NEW ok \in BOOLEAN, AuthJoin(ok)
  PROVE  ViewDefs
<1> DEFINE s == [Bind(Transmit(sta, FALSE), op.b) EXCEPT !.bss = op.b]
<1>1. /\ op.pc = "join" /\ odd \subseteq odd' /\ disc' = disc /\ host' = host
      /\ \/ sta' = s /\ op' = [op EXCEPT !.pc = "send"]
         \/ sta' = sta /\ op' = Idle
  BY DEF AuthJoin, Join, opKeeps
<1>2. s.sm = sta.sm /\ s.cbss = sta.cbss /\ s.bss = op.b
  BY ViewTypes DEF Bind, Transmit, Stas
<1> HIDE DEF s
<1>3. /\ sta'.sm = sta.sm /\ sta'.cbss = sta.cbss
      /\ \/ op'.pc = "idle"
         \/ op'.pc = "send" /\ op'.b = op.b /\ op'.k = op.k /\ sta'.bss = op.b
  BY <1>1, <1>2, ViewTypes DEF Ops, Idle
<1>4. Without({"late", "stray", "moved", "mute"}) =>
        sta.sm = "NONE" /\ (op.k = "confirm" => host.authed = op.b)
  BY <1>1, Connects DEF OpKnown, Connecting
<1> QED
  BY <1>1, <1>3, <1>4, StillConnects DEF Connecting

LEMMA AuthSendViews ==
  ASSUME HostInvariant, AuthSend
  PROVE  ViewDefs
<1>1. /\ op.pc = "send" /\ op' = [op EXCEPT !.pc = "auth"]
      /\ sta' = [sta EXCEPT !.retry = 0, !.redo = 0, !.kind = op.k, !.rty = "none",
                            !.sm = "AUTHING", !.fresh = sta.timer \/ sta.work]
      /\ disc' = disc /\ host' = host /\ odd' = odd
  BY DEF AuthSend
<1>2. /\ sta'.sm = "AUTHING" /\ sta'.rty = "none" /\ sta'.bss = sta.bss /\ sta'.cbss = sta.cbss
  BY <1>1, ViewTypes DEF Stas
<1>3. op'.pc = "auth" /\ op'.b = op.b /\ op'.k = op.k
  BY <1>1, ViewTypes DEF Ops
<1>4. Without({"late", "stray", "moved", "mute"}) =>
        (op.k = "confirm" => host.authed = op.b /\ sta.bss = op.b)
  BY <1>1, Connects DEF OpKnown, Connecting
<1> QED
  BY <1>1, <1>2, <1>3, <1>4, StillConnects DEF Connecting

LEMMA AuthEndViews ==
  ASSUME HostInvariant, NEW ok \in BOOLEAN, AuthEnd(ok)
  PROVE  ViewDefs
<1> DEFINE u == Unjoin(sta, op.b, TRUE)
           m == IF op.k = "confirm" /\ sta.confirm THEN "AUTHED" ELSE sta.sm
<1>1. /\ op.pc = "auth" /\ op' = Idle /\ UNCHANGED <<disc, host, odd>>
      /\ \/ sta' = [sta EXCEPT !.timer = TRUE, !.report = TRUE, !.sm = m]
         \/ sta' = [u EXCEPT !.sm = "NONE"]
  BY DEF AuthEnd, opKeeps
<1>2. u \in Stas /\ u.cbss = sta.cbss
  BY ViewTypes, UnjoinRecord, UnjoinRest DEF Ops
<1>3. /\ sta'.cbss = sta.cbss
      /\ sta'.sm = "NONE" \/ (sta'.sm = m /\ sta'.rty = sta.rty /\ sta'.bss = sta.bss)
  <2> HIDE DEF u, m
  <2> QED
    BY <1>1, <1>2, ViewTypes DEF Stas
<1>4. m = sta.sm \/ (m = "AUTHED" /\ op.k = "confirm")
  OBVIOUS
<1>5. op'.pc = "idle"
  BY <1>1 DEF Idle
<1>6. Without({"late", "stray", "moved", "mute"}) =>
        /\ sta.sm = "AUTHING" /\ sta.rty = "none"
        /\ op.k = "confirm" => host.authed = op.b /\ sta.bss = op.b
  BY <1>1, Connects DEF OpKnown, Connecting
<1> HIDE DEF u, m
<1> QED
  BY <1>1, <1>3, <1>4, <1>5, <1>6, StillConnects DEF Connecting
-----------------------------------------------------------------------------
(* Association and leaving, as cfg80211 and the driver see it. *)

LEMMA AssocFields ==
  ASSUME HostInvariant, NEW s \in Stas, NEW b \in MaybeBss
  PROVE  /\ Associating(s, b).sm = "ASSOCING" /\ Associating(s, b).cbss = b
         /\ Associating(s, b).bss = s.bss /\ Associating(s, b).act = s.act
         /\ Awaiting(b).assoc = b /\ Awaiting(b).req = b /\ Awaiting(b).conn = host.conn
         /\ Awaiting(b).authed = host.authed
BY ViewTypes DEF Associating, Awaiting, Stas, Hosts

LEMMA AssocBeginViews ==
  ASSUME HostInvariant, NEW b \in Bss, AssocBegin(b)
  PROVE  ViewDefs
<1> DEFINE nextOp(p) == [pc |-> p, b |-> b, k |-> "assoc"]
<1>1. /\ op.pc = "idle" /\ odd \subseteq odd' /\ disc' = disc /\ host.assoc = None
      /\ host.authed = b \/ host.conn # None
      /\ b # None /\ b \in MaybeBss
  BY SmeAssumption DEF AssocBegin, MaybeBss
<1>2. nextOp("assoc").pc = "assoc" /\ nextOp("assoc").b = b /\ nextOp("rejoin").pc = "rejoin"
  OBVIOUS
<1>3. \/ /\ sta.sm = "AUTHED" /\ op' = nextOp("assoc")
         /\ sta' = Associating(sta, b) /\ host' = Awaiting(b)
         /\ sta.bss # b => "elsewhere" \in odd'
         /\ disc.pc # "idle" => "stray" \in odd'
      \/ /\ op' = nextOp("rejoin") /\ host' = host /\ "moved" \in odd'
         /\ sta' = [sta EXCEPT !.sm = "NONE"]
      \/ UNCHANGED <<sta, op, host>>
  BY DEF AssocBegin
<1> HIDE DEF nextOp
<1>4. CASE /\ sta.sm = "AUTHED" /\ op' = nextOp("assoc")
           /\ sta' = Associating(sta, b) /\ host' = Awaiting(b)
           /\ sta.bss # b => "elsewhere" \in odd'
           /\ disc.pc # "idle" => "stray" \in odd'
  <2>1. /\ sta'.sm = "ASSOCING" /\ sta'.cbss = b /\ sta'.bss = sta.bss
        /\ host'.assoc = b /\ host'.req = b /\ host'.conn = host.conn
        /\ op'.pc = "assoc" /\ op'.b = b
    BY <1>1, <1>2, <1>4, ViewTypes, AssocFields
  <2>2. AttemptKept'
    BY <1>1, <1>4, <2>1 DEF AttemptKept, Pursuing, Without
  <2>3. ViewsKept'
    <3> SUFFICES ASSUME Without({"late", "stray", "moved", "mute"})'
                 PROVE  (ConnKnown /\ DiscKnown /\ AttemptKnown /\ OpKnown)'
      BY DEF ViewsKept
    <3>1. disc.pc = "idle" /\ ConnKnown /\ AttemptKnown
      BY <1>1, <1>4 DEF HostInvariant, ViewsKept, Without
    <3>2. host.conn = None /\ sta.bss = b
      BY <1>1, <1>4, <3>1 DEF ConnKnown, AttemptKnown, Associated
    <3> QED
      BY <1>1, <2>1, <3>1, <3>2
         DEF ConnKnown, DiscKnown, AttemptKnown, OpKnown, Associated, Pursuing, Connecting
  <2> QED
    BY <2>2, <2>3 DEF ViewDefs
<1>5. CASE /\ op' = nextOp("rejoin") /\ host' = host /\ "moved" \in odd'
           /\ sta' = [sta EXCEPT !.sm = "NONE"]
  <2>1. op'.pc = "rejoin" /\ host'.assoc = None
    BY <1>1, <1>2, <1>5
  <2>2. AttemptKept'
    BY <2>1 DEF AttemptKept
  <2>3. ViewsKept'
    BY <1>5 DEF ViewsKept, Without
  <2> QED
    BY <2>2, <2>3 DEF ViewDefs
<1>6. CASE UNCHANGED <<sta, op, host>>
  BY <1>1, <1>6, SameViews
<1> QED
  BY <1>3, <1>4, <1>5, <1>6

\* The connection was marked as moved when the move began.
LEMMA AssocMoveViews ==
  ASSUME HostInvariant, NEW ok \in BOOLEAN, AssocMove(ok)
  PROVE  ViewDefs
<1> DEFINE s == [Bind(Transmit(sta, FALSE), op.b) EXCEPT !.bss = op.b]
<1>1. /\ op.pc = "rejoin" /\ odd \subseteq odd' /\ disc' = disc
      /\ \/ host' = host /\ (op' = op \/ op' = Idle)
         \/ /\ sta' = Associating(s, op.b) /\ host' = Awaiting(op.b)
            /\ op' = [op EXCEPT !.pc = "assoc"]
  BY DEF AssocMove, Join, opKeeps
<1>2. op.b \in MaybeBss
  BY ViewTypes DEF Ops
<1>3. s \in Stas /\ s.bss = op.b
  BY <1>2, ViewTypes DEF Bind, Transmit, Stas
<1> HIDE DEF s
<1>4. AttemptKept'
  <2> SUFFICES ASSUME Without({"late", "mute", "untold", "elsewhere"})' PROVE AttemptKept'
    BY DEF AttemptKept
  <2>1. host.assoc = None
    BY <1>1 DEF HostInvariant, AttemptKept, Without
  <2>2. CASE host' = host /\ (op' = op \/ op' = Idle)
    BY <1>1, <2>1, <2>2 DEF AttemptKept, Idle
  <2>3. CASE /\ sta' = Associating(s, op.b) /\ host' = Awaiting(op.b)
             /\ op' = [op EXCEPT !.pc = "assoc"]
    <3>1. /\ sta'.sm = "ASSOCING" /\ sta'.cbss = op.b /\ sta'.bss = op.b /\ host'.assoc = op.b
      BY <1>2, <1>3, <2>3, AssocFields
    <3>2. op'.pc = "assoc" /\ op'.b = op.b
      BY <2>3, ViewTypes DEF Ops
    <3> QED
      BY <3>1, <3>2 DEF AttemptKept, Pursuing
  <2> QED
    BY <1>1, <2>2, <2>3
<1>5. ViewsKept'
  BY <1>1 DEF HostInvariant, ViewsKept, OpKnown, Without
<1> QED
  BY <1>4, <1>5 DEF ViewDefs

LEMMA AssocEndViews ==
  ASSUME HostInvariant, NEW ok \in BOOLEAN, AssocEnd(ok)
  PROVE  ViewDefs
<1> DEFINE u == Unjoin(sta, op.b, TRUE)
<1>1. /\ op.pc = "assoc" /\ op' = Idle /\ UNCHANGED <<disc, odd>>
      /\ \/ sta' = [sta EXCEPT !.timer = TRUE] /\ host' = host
         \/ /\ sta' = [u EXCEPT !.sm = "NONE", !.cbss = None, !.timer = FALSE]
            /\ host' = [host EXCEPT !.assoc = None]
  BY DEF AssocEnd, opKeeps
<1>2. op'.pc = "idle" /\ u \in Stas
  BY <1>1, ViewTypes, UnjoinRecord DEF Idle, Ops
<1> HIDE DEF u
<1>3. CASE sta' = [sta EXCEPT !.timer = TRUE] /\ host' = host
  <2>1. /\ sta'.sm = sta.sm /\ sta'.cbss = sta.cbss /\ sta'.bss = sta.bss /\ sta'.rty = sta.rty
        /\ sta'.act = sta.act
    BY <1>3, ViewTypes DEF Stas
  <2>2. AttemptKept'
    BY <1>1, <1>2, <1>3, <2>1 DEF HostInvariant, AttemptKept, Pursuing, Without
  <2>3. ViewsKept'
    BY <1>1, <1>2, <1>3, <2>1
       DEF HostInvariant, ViewsKept, ConnKnown, DiscKnown, AttemptKnown, OpKnown, Associated,
           Pursuing, Connecting, Without
  <2> QED
    BY <2>2, <2>3 DEF ViewDefs
<1>4. CASE /\ sta' = [u EXCEPT !.sm = "NONE", !.cbss = None, !.timer = FALSE]
           /\ host' = [host EXCEPT !.assoc = None]
  <2>1. sta'.sm = "NONE" /\ host'.assoc = None /\ host'.conn = host.conn
    BY <1>2, <1>4, ViewTypes DEF Stas, Hosts
  <2>2. AttemptKept'
    BY <1>2, <2>1 DEF AttemptKept
  <2>3. ViewsKept'
    <3> SUFFICES ASSUME Without({"late", "stray", "moved", "mute"})'
                 PROVE  (ConnKnown /\ DiscKnown /\ AttemptKnown /\ OpKnown)'
      BY DEF ViewsKept
    <3>1. ConnKnown /\ DiscKnown
      BY <1>1 DEF HostInvariant, ViewsKept, Without
    <3>2. host.conn = None /\ disc.pc # "leave"
      BY <1>1, <3>1 DEF ConnKnown, DiscKnown
    <3> QED
      BY <1>1, <1>2, <2>1, <3>2
         DEF ConnKnown, DiscKnown, AttemptKnown, OpKnown, Associated, Pursuing, Connecting
  <2> QED
    BY <2>2, <2>3 DEF ViewDefs
<1> QED
  BY <1>1, <1>3, <1>4

LEMMA AuthorizeViews ==
  ASSUME HostInvariant, Authorize
  PROVE  ViewDefs
<1>1. /\ op.pc = "idle" /\ host.conn # None /\ host.assoc = None /\ odd \subseteq odd'
      /\ sta' = [sta EXCEPT !.sm = "COMPLETED"] /\ host' = [host EXCEPT !.authz = TRUE]
      /\ op' = op /\ disc' = disc /\ (disc.pc # "idle" => "stray" \in odd')
  BY DEF Authorize
<1>2. /\ sta'.sm = "COMPLETED" /\ sta'.bss = sta.bss /\ sta'.cbss = sta.cbss
      /\ sta'.act = sta.act
      /\ host'.authz = TRUE /\ host'.conn = host.conn /\ host'.assoc = host.assoc
      /\ host'.req = host.req
  BY <1>1, ViewTypes DEF Stas, Hosts
<1>3. AttemptKept'
  BY <1>1, <1>2 DEF AttemptKept
<1>4. ViewsKept'
  <2> SUFFICES ASSUME Without({"late", "stray", "moved", "mute"})'
               PROVE  (ConnKnown /\ DiscKnown /\ AttemptKnown /\ OpKnown)'
    BY DEF ViewsKept
  <2>1. ConnKnown /\ disc.pc = "idle"
    BY <1>1 DEF HostInvariant, ViewsKept, Without
  <2>2. (ConnKnown /\ DiscKnown)'
    BY <1>1, <1>2, <2>1 DEF ConnKnown, DiscKnown, Associated
  <2> QED
    BY <1>1, <1>2, <2>1, <2>2 DEF AttemptKnown, OpKnown, Pursuing, Connecting
<1> QED
  BY <1>3, <1>4 DEF ViewDefs

\* The host leaves the BSS it is connected to or asked for last.
LEMMA LeaveCallViews ==
  ASSUME HostInvariant, NEW b \in Bss, NEW ok \in BOOLEAN, NEW told \in BOOLEAN,
         LeaveCall(b, ok, told), b \in {host.conn, host.req}
  PROVE  ViewDefs
<1>1. /\ op.pc = "idle" /\ op' = op /\ disc' = disc /\ odd \subseteq odd'
      /\ sta' = Leave(sta, b, ok) /\ host' = (IF told THEN TellDeauth(host, b) ELSE host)
      /\ ~told => "mute" \in odd'
      /\ disc.pc # "idle" => "stray" \in odd'
      /\ host.assoc \notin {None, b} => "elsewhere" \in odd'
  BY DEF LeaveCall
<1>2. sta'.sm = "NONE" /\ sta'.cbss = sta.cbss
  BY <1>1, ViewTypes, LeaveRest
<1>3. /\ TellDeauth(host, b).conn = (IF host.conn = b THEN None ELSE host.conn)
      /\ TellDeauth(host, b).assoc = (IF host.assoc = b THEN None ELSE host.assoc)
  BY ViewTypes, DeauthFields
<1>4. AttemptKept'
  <2> SUFFICES ASSUME Without({"late", "mute", "untold", "elsewhere"})' PROVE AttemptKept'
    BY DEF AttemptKept
  <2>1. host'.assoc = None
    BY <1>1, <1>3 DEF Without
  <2> QED
    BY <1>1, <2>1 DEF AttemptKept
<1>5. ViewsKept'
  <2> SUFFICES ASSUME Without({"late", "stray", "moved", "mute"})'
               PROVE  (ConnKnown /\ DiscKnown /\ AttemptKnown /\ OpKnown)'
    BY DEF ViewsKept
  <2>1. ConnKnown /\ disc.pc = "idle" /\ told
    BY <1>1 DEF HostInvariant, ViewsKept, Without
  <2>2. host'.conn = None
    BY <1>1, <1>3, <2>1 DEF ConnKnown
  <2> QED
    BY <1>1, <1>2, <2>1, <2>2
       DEF ConnKnown, DiscKnown, AttemptKnown, OpKnown, Associated, Pursuing, Connecting
<1> QED
  BY <1>4, <1>5 DEF ViewDefs
-----------------------------------------------------------------------------
(* Events and the work of the state machine, as cfg80211 and the driver see them. *)

LEMMA EvDeauthViews ==
  ASSUME HostInvariant, NEW ok \in BOOLEAN, EvDeauth(ok)
  PROVE  ViewDefs
<1> DEFINE b == Head(evq).b
<1>1. /\ op.pc = "idle" /\ disc.pc = "idle" /\ b # None /\ op' = op /\ disc' = disc
      /\ odd \subseteq odd'
  BY TakeNames, TakeType DEF EvDeauth, rxKeeps, HostInvariant, SmeInv, EvTypes
<1>2. \/ UNCHANGED <<sta, host>>
      \/ sta.peer = b /\ sta' = Leave(sta, b, ok) /\ host' = TellDeauth(host, b)
  BY DEF EvDeauth
<1> HIDE DEF b
<1>3. CASE UNCHANGED <<sta, host>>
  BY <1>1, <1>3, SameViews
<1>4. CASE sta.peer = b /\ sta' = Leave(sta, b, ok) /\ host' = TellDeauth(host, b)
  <2>1. sta'.sm = "NONE" /\ sta'.cbss = sta.cbss /\ sta.bss = b
    BY <1>4, ViewTypes, LeaveRest
  <2>2. /\ host'.conn = (IF host.conn = b THEN None ELSE host.conn)
        /\ host'.assoc = (IF host.assoc = b THEN None ELSE host.assoc)
    BY <1>4, ViewTypes, DeauthFields
  <2>3. AttemptKept'
    BY <1>1, <2>1, <2>2 DEF HostInvariant, AttemptKept, Without
  <2>4. ViewsKept'
    <3> SUFFICES ASSUME Without({"late", "stray", "moved", "mute"})'
                 PROVE  (ConnKnown /\ DiscKnown /\ AttemptKnown /\ OpKnown)'
      BY DEF ViewsKept
    <3>1. ConnKnown
      BY <1>1 DEF HostInvariant, ViewsKept, Without
    <3>2. host'.conn = None
      BY <2>1, <2>2, <3>1 DEF ConnKnown
    <3> QED
      BY <1>1, <2>1, <3>2
         DEF ConnKnown, DiscKnown, AttemptKnown, OpKnown, Associated, Pursuing, Connecting
  <2> QED
    BY <2>3, <2>4 DEF ViewDefs
<1> QED
  BY <1>2, <1>3, <1>4

\* An answer that is not late is one to AUTHING, or the peer's confirm behind its commit.
LEMMA EvAuthViews ==
  ASSUME HostInvariant, NEW ok \in BOOLEAN, EvAuth(ok)
  PROVE  ViewDefs
<1> DEFINE e == Head(evq)
           s == [sta EXCEPT !.sm = "AUTHED", !.retry = 0, !.fresh = sta.timer \/ sta.work,
                            !.confirm = sta.confirm \/ e.k = "confirm"]
           r == [s EXCEPT !.report = FALSE]
           l == IF e.ok THEN s ELSE Leave(r, e.b, ok)
<1>1. /\ e \in Reports /\ op.pc = "idle" /\ disc.pc = "idle" /\ e.ok \in BOOLEAN
      /\ op' = op /\ disc' = disc /\ odd \subseteq odd'
  BY TakeType DEF EvAuth, HostInvariant, SmeInv, EvTypes, rxKeeps, Reports
<1>2. \/ UNCHANGED <<sta, host>>
      \/ /\ sta.bss = e.b
         /\ sta' = IF sta.rty = "assoc" THEN [l EXCEPT !.sm = "ASSOCING"] ELSE l
         /\ host' = IF sta.rty = "assoc" THEN host ELSE TellAuth(host, e.b, e.ok, e.k)
         /\ sta.sm \notin {"AUTHING", "AUTHED"} => "late" \in odd'
  BY DEF EvAuth
<1>3. CASE UNCHANGED <<sta, host>>
  BY <1>1, <1>3, SameViews
<1>4. CASE /\ sta.bss = e.b
           /\ sta' = IF sta.rty = "assoc" THEN [l EXCEPT !.sm = "ASSOCING"] ELSE l
           /\ host' = IF sta.rty = "assoc" THEN host ELSE TellAuth(host, e.b, e.ok, e.k)
           /\ sta.sm \notin {"AUTHING", "AUTHED"} => "late" \in odd'
  <2>1. sta \in Stas /\ host \in Hosts /\ sta.rty \in {"none", "auth", "assoc"}
    BY ViewTypes DEF Stas
  <2>2. /\ s \in Stas /\ s.sm = "AUTHED" /\ s.cbss = sta.cbss /\ s.rty = sta.rty /\ s.bss = sta.bss
    <3>1. /\ (sta.timer \/ sta.work) \in BOOLEAN /\ (sta.confirm \/ e.k = "confirm") \in BOOLEAN
          /\ 0 \in 0 .. MaxAuthRetry + MaxAssocRetry
      BY SmeAssumption
    <3> QED
      BY <2>1, <3>1 DEF Stas, States
  <2> HIDE DEF s
  <2>3. r \in Stas /\ r.cbss = sta.cbss /\ r.rty = sta.rty /\ r.bss = sta.bss
    BY <2>2 DEF Stas
  <2> HIDE DEF r
  <2>4. /\ l \in Stas /\ l.cbss = sta.cbss /\ l.rty = sta.rty /\ l.bss \in {sta.bss, None}
        /\ e.ok => l.sm = "AUTHED" /\ l.bss = sta.bss
        /\ ~e.ok => l.sm = "NONE"
    <3>1. e.b \in MaybeBss
      BY <1>1 DEF Reports
    <3>2. CASE e.ok
      BY <2>2, <3>2
    <3>3. CASE ~e.ok
      <4>1. l = Leave(r, e.b, ok)
        BY <3>3
      <4> HIDE DEF l
      <4>2. Leave(r, e.b, ok) \in Stas
        BY <2>3, <3>1, LeaveRecord
      <4>3. /\ Leave(r, e.b, ok).sm = "NONE" /\ Leave(r, e.b, ok).cbss = r.cbss
            /\ Leave(r, e.b, ok).rty = r.rty /\ Leave(r, e.b, ok).bss \in {r.bss, None}
        BY <2>3, LeaveRest
      <4> QED
        BY <2>3, <3>3, <4>1, <4>2, <4>3
    <3> QED
      BY <1>1, <3>2, <3>3
  <2> HIDE DEF l
  <2>5. CASE sta.rty = "assoc"
    <3>1. /\ sta'.sm = "ASSOCING" /\ sta'.cbss = sta.cbss /\ sta'.bss \in {sta.bss, None}
          /\ host' = host
      BY <1>4, <2>4, <2>5 DEF Stas
    <3>2. AttemptKept'
      BY <1>1, <1>4, <3>1 DEF HostInvariant, AttemptKept, Pursuing, Without
    <3>3. ViewsKept'
      <4> SUFFICES ASSUME Without({"late", "stray", "moved", "mute"})'
                   PROVE  (ConnKnown /\ DiscKnown /\ AttemptKnown /\ OpKnown)'
        BY DEF ViewsKept
      <4>1. ConnKnown /\ AttemptKnown /\ sta.sm \in {"AUTHING", "AUTHED"}
        BY <1>1, <1>4 DEF HostInvariant, ViewsKept, Without
      <4>2. Pursuing /\ host.conn = None
        BY <1>1, <2>5, <4>1 DEF ConnKnown, AttemptKnown, Pursuing, Associated
      <4> QED
        BY <1>1, <3>1, <4>1, <4>2
           DEF ConnKnown, DiscKnown, AttemptKnown, OpKnown, Associated, Pursuing, Connecting
    <3> QED
      BY <3>2, <3>3 DEF ViewDefs
  <2>6. CASE sta.rty # "assoc"
    <3>1. /\ sta' = l
          /\ host'.authed = (IF e.ok THEN e.b ELSE None) /\ host'.conn = host.conn
          /\ host'.assoc = host.assoc /\ host'.req = host.req /\ host'.authz = host.authz
      BY <1>1, <1>4, <2>1, <2>6, AuthFields
    <3>2. AttemptKept'
      BY <1>1, <1>4, <2>4, <2>6, <3>1 DEF HostInvariant, AttemptKept, Pursuing, Without
    <3>3. ViewsKept'
      <4> SUFFICES ASSUME Without({"late", "stray", "moved", "mute"})'
                   PROVE  (ConnKnown /\ DiscKnown /\ AttemptKnown /\ OpKnown)'
        BY DEF ViewsKept
      <4>1. ConnKnown /\ sta.sm \in {"AUTHING", "AUTHED"}
        BY <1>1, <1>4 DEF HostInvariant, ViewsKept, Without
      <4>2. host.conn = None
        BY <1>1, <4>1 DEF ConnKnown, Associated
      <4>3. sta'.sm = "NONE" \/ (sta'.sm = "AUTHED" /\ host'.authed = sta'.bss)
        BY <1>1, <1>4, <2>4, <3>1
      <4> QED
        BY <1>1, <2>4, <2>6, <3>1, <4>2, <4>3
           DEF ConnKnown, DiscKnown, AttemptKnown, OpKnown, Associated, Pursuing, Connecting
    <3> QED
      BY <3>2, <3>3 DEF ViewDefs
  <2> QED
    BY <2>5, <2>6
<1> QED
  BY <1>2, <1>3, <1>4

LEMMA EvAssocViews ==
  ASSUME HostInvariant, EvAssoc
  PROVE  ViewDefs
<1> DEFINE e == Head(evq)
<1>1. /\ op.pc = "idle" /\ disc.pc = "idle" /\ e.ok \in BOOLEAN
      /\ op' = op /\ disc' = disc /\ odd \subseteq odd'
  BY TakeType DEF EvAssoc, HostInvariant, SmeInv, EvTypes, rxKeeps, Reports
<1>2. \/ UNCHANGED <<sta, host>>
      \/ /\ sta.bss # None /\ (sta.sm # "ASSOCING" => "late" \in odd')
         /\ sta' = [sta EXCEPT !.sm = IF e.ok THEN "ASSOCED" ELSE "NONE",
                               !.act = sta.act \/ e.ok, !.cbss = None,
                               !.report = sta.report /\ e.ok]
         /\ host' = IF sta.cbss # None THEN TellAssoc(host, sta.cbss, e.ok) ELSE host
  BY DEF EvAssoc
<1> HIDE DEF e
<1>3. CASE UNCHANGED <<sta, host>>
  BY <1>1, <1>3, SameViews
<1>4. CASE /\ sta.bss # None /\ (sta.sm # "ASSOCING" => "late" \in odd')
           /\ sta' = [sta EXCEPT !.sm = IF e.ok THEN "ASSOCED" ELSE "NONE",
                               !.act = sta.act \/ e.ok, !.cbss = None,
                               !.report = sta.report /\ e.ok]
           /\ host' = IF sta.cbss # None THEN TellAssoc(host, sta.cbss, e.ok) ELSE host
  <2>1. /\ sta'.sm = (IF e.ok THEN "ASSOCED" ELSE "NONE") /\ sta'.act = (sta.act \/ e.ok)
        /\ sta'.cbss = None /\ sta'.bss = sta.bss
    BY <1>4, ViewTypes DEF Stas
  <2>2. /\ sta.cbss = None => host' = host
        /\ sta.cbss # None =>
              /\ host'.assoc = None /\ host'.authz = FALSE /\ host'.req = host.req
              /\ host'.conn = (IF e.ok THEN sta.cbss ELSE None)
    BY <1>1, <1>4, ViewTypes, AnswerFields
  <2>3. AttemptKept'
    <3> SUFFICES ASSUME Without({"late", "mute", "untold", "elsewhere"})' PROVE AttemptKept'
      BY DEF AttemptKept
    <3>1. host.assoc # None => sta.cbss = host.assoc
      BY <1>1 DEF HostInvariant, AttemptKept, Without
    <3>2. host'.assoc = None
      BY <2>2, <3>1
    <3> QED
      BY <1>1, <3>2 DEF AttemptKept
  <2>4. ViewsKept'
    <3> SUFFICES ASSUME Without({"late", "stray", "moved", "mute"})'
                 PROVE  (ConnKnown /\ DiscKnown /\ AttemptKnown /\ OpKnown)'
      BY DEF ViewsKept
    <3>1. AttemptKnown /\ sta.sm = "ASSOCING"
      BY <1>1, <1>4 DEF HostInvariant, ViewsKept, Without
    <3>2. sta.cbss # None /\ sta.bss = sta.cbss /\ host.req = sta.cbss
      BY <1>4, <3>1 DEF AttemptKnown, Pursuing
    <3>3. /\ host'.req = sta'.bss /\ host'.authz = FALSE
          /\ e.ok => sta'.sm = "ASSOCED" /\ sta'.act /\ host'.conn = sta'.bss /\ sta'.bss # None
          /\ ~e.ok => sta'.sm = "NONE" /\ host'.conn = None
      BY <2>1, <2>2, <3>2
    <3> QED
      BY <1>1, <2>1, <3>3
         DEF ConnKnown, DiscKnown, AttemptKnown, OpKnown, Associated, Pursuing, Connecting
  <2> QED
    BY <2>3, <2>4 DEF ViewDefs
<1> QED
  BY <1>2, <1>3, <1>4

LEMMA DiscBeginViews ==
  ASSUME HostInvariant, DiscBegin
  PROVE  ViewDefs
<1> DEFINE b == Head(evq).b
<1>1. b # None /\ disc.pc = "idle"
  BY TakeNames, TakeType DEF DiscBegin, HostInvariant, SmeInv, EvTypes
<1>2. /\ disc' = [pc |-> "leave", b |-> b, ctx |-> sta.peer = b]
      /\ sta' = [sta EXCEPT !.sm = "NONE", !.timer = FALSE, !.confirm = FALSE,
                            !.act = sta.act /\ sta.peer # b]
      /\ odd \subseteq odd' /\ UNCHANGED <<op, host>>
      /\ sta.peer # b \/ op.pc \notin {"idle", "scan"} => "stray" \in odd'
  BY DEF DiscBegin
<1>3. disc'.pc = "leave" /\ disc'.b = b
  BY <1>2
<1> HIDE DEF b
<1>4. sta'.sm = "NONE" /\ sta'.bss = sta.bss /\ sta'.cbss = sta.cbss
  BY <1>2, ViewTypes DEF Stas
<1>5. AttemptKept'
  BY <1>1, <1>2, <1>3, <1>4 DEF HostInvariant, AttemptKept, Without
<1>6. ViewsKept'
  <2> SUFFICES ASSUME Without({"late", "stray", "moved", "mute"})'
               PROVE  (ConnKnown /\ DiscKnown /\ AttemptKnown /\ OpKnown)'
    BY DEF ViewsKept
  <2>1. ConnKnown /\ sta.peer = b /\ op.pc \in {"idle", "scan"}
    BY <1>2 DEF HostInvariant, ViewsKept, Without
  <2>2. sta.bss = b
    BY <2>1, ViewTypes
  <2> QED
    BY <1>1, <1>2, <1>3, <1>4, <2>1, <2>2
       DEF ConnKnown, DiscKnown, AttemptKnown, OpKnown, Associated, Pursuing, Connecting
<1> QED
  BY <1>5, <1>6 DEF ViewDefs

LEMMA DiscEndViews ==
  ASSUME HostInvariant, NEW ok \in BOOLEAN, DiscEnd(ok)
  PROVE  ViewDefs
<1> DEFINE gone == disc.ctx /\ ok
<1>1. /\ disc.pc = "leave" /\ disc' = [disc EXCEPT !.pc = "idle", !.b = None, !.ctx = FALSE]
      /\ sta' = [sta EXCEPT !.bss = IF gone THEN None ELSE sta.bss,
                            !.peer = IF gone THEN None ELSE sta.peer,
                            !.act = sta.act /\ ~gone, !.cbss = None]
      /\ host' = IF sta.cbss # None THEN TellAssocFailure(host, sta.cbss)
                                    ELSE TellDeauth(host, disc.b)
      /\ odd \subseteq odd' /\ op' = op
  BY DEF DiscEnd
<1> HIDE DEF gone
<1>2. disc'.pc = "idle"
  BY <1>1, ViewTypes DEF Discs
<1>3. /\ sta'.sm = sta.sm /\ sta'.bss \in {sta.bss, None}
  BY <1>1, ViewTypes DEF Stas
<1>4. /\ sta.cbss # None => /\ host'.conn = host.conn
                            /\ host'.assoc = (IF host.assoc = sta.cbss THEN None ELSE host.assoc)
      /\ sta.cbss = None =>
            /\ host'.conn = (IF host.conn = disc.b THEN None ELSE host.conn)
            /\ host'.assoc = (IF host.assoc = disc.b THEN None ELSE host.assoc)
  BY <1>1, ViewTypes, FailureFields, DeauthFields
<1>5. AttemptKept'
  <2> SUFFICES ASSUME Without({"late", "mute", "untold", "elsewhere"})' PROVE AttemptKept'
    BY DEF AttemptKept
  <2>1. /\ host.assoc # None => sta.cbss = host.assoc
        /\ op.pc = "assoc" => sta.bss \in {op.b, None}
    BY <1>1 DEF HostInvariant, AttemptKept, Without
  <2>2. host'.assoc = None
    BY <1>4, <2>1
  <2> QED
    BY <1>1, <1>3, <2>1, <2>2 DEF AttemptKept
<1>6. ViewsKept'
  <2> SUFFICES ASSUME Without({"late", "stray", "moved", "mute"})'
               PROVE  (ConnKnown /\ DiscKnown /\ AttemptKnown /\ OpKnown)'
    BY DEF ViewsKept
  <2>1. ConnKnown /\ DiscKnown
    BY <1>1 DEF HostInvariant, ViewsKept, Without
  <2>2. op.pc \in {"idle", "scan"} /\ sta.sm = "NONE" /\ sta.bss = disc.b
    BY <1>1, <2>1 DEF DiscKnown
  <2>3. host'.conn = None
    BY <1>4, <2>1, <2>2 DEF ConnKnown
  <2> QED
    BY <1>1, <1>2, <1>3, <2>2, <2>3
       DEF ConnKnown, DiscKnown, AttemptKnown, OpKnown, Associated, Pursuing, Connecting
<1> QED
  BY <1>5, <1>6 DEF ViewDefs

LEMMA WorkRedoViews ==
  ASSUME HostInvariant, WorkRedo
  PROVE  ViewDefs
<1> DEFINE s == Running(sta)
           y == IF sta.sm = "ASSOCING" THEN "assoc" ELSE IF s.rty = "none" THEN "auth" ELSE s.rty
<1>1. /\ sta' = [s EXCEPT !.sm = "AUTHING", !.retry = 0, !.redo = s.redo + 1,
                          !.fresh = sta.timer, !.timer = TRUE, !.rty = y]
      /\ sta.sm \in {"AUTHING", "ASSOCING"} /\ op.pc = "idle" /\ disc.pc = "idle"
      /\ UNCHANGED <<op, disc, host, odd>>
  BY DEF WorkRedo, workKeeps, Runs
<1>2. /\ s \in Stas /\ s.rty = sta.rty /\ s.bss = sta.bss /\ s.cbss = sta.cbss
  BY ViewTypes, RunningRecord DEF Running, Stas
<1>3. y = "assoc" <=> Pursuing
  BY <1>1, <1>2 DEF Pursuing
<1> HIDE DEF s, y
<1>4. sta'.sm = "AUTHING" /\ sta'.rty = y /\ sta'.bss = sta.bss /\ sta'.cbss = sta.cbss
  BY <1>1, <1>2 DEF Stas
<1>5. Pursuing' <=> Pursuing
  BY <1>3, <1>4 DEF Pursuing
<1>6. AttemptKept'
  BY <1>1, <1>4, <1>5 DEF HostInvariant, AttemptKept, Without
<1>7. ViewsKept'
  <2> SUFFICES ASSUME Without({"late", "stray", "moved", "mute"})'
               PROVE  (ConnKnown /\ DiscKnown /\ AttemptKnown /\ OpKnown)'
    BY DEF ViewsKept
  <2>1. ConnKnown /\ AttemptKnown
    BY <1>1 DEF HostInvariant, ViewsKept, Without
  <2>2. host.conn = None
    BY <1>1, <2>1 DEF ConnKnown, Associated
  <2>3. (ConnKnown /\ DiscKnown /\ OpKnown)'
    BY <1>1, <1>4, <2>2 DEF ConnKnown, DiscKnown, OpKnown, Associated, Connecting
  <2>4. AttemptKnown'
    BY <1>1, <1>4, <1>5, <2>1 DEF AttemptKnown
  <2> QED
    BY <2>3, <2>4
<1> QED
  BY <1>6, <1>7 DEF ViewDefs

LEMMA WorkFailViews ==
  ASSUME HostInvariant, NEW ok \in BOOLEAN, WorkFail(ok)
  PROVE  ViewDefs
<1> DEFINE s == [Running(sta) EXCEPT !.report = FALSE]
<1>1. /\ sta' = Leave(s, sta.bss, ok) /\ op.pc = "idle" /\ disc.pc = "idle"
      /\ sta.sm \in {"AUTHED", "AUTHING", "ASSOCING"}
      /\ host' = IF sta.sm = "ASSOCING" THEN TellAssocFailure(host, sta.cbss) ELSE host
      /\ odd \subseteq odd' /\ op' = op /\ disc' = disc
      /\ sta.sm = "AUTHING" /\ host.assoc # None => "untold" \in odd'
  BY DEF WorkFail, workKeeps, Runs
<1>2. s \in Stas
  <2> DEFINE q == Running(sta)
  <2>1. q \in Stas /\ s = [q EXCEPT !.report = FALSE]
    BY ViewTypes, RunningRecord
  <2> HIDE DEF q, s
  <2> QED
    BY <2>1 DEF Stas
<1> HIDE DEF s
<1>3. sta'.sm = "NONE"
  BY <1>1, <1>2, LeaveRest
<1>4. /\ host'.conn = host.conn
      /\ sta.sm = "ASSOCING" =>
            host'.assoc = (IF host.assoc = sta.cbss THEN None ELSE host.assoc)
      /\ sta.sm # "ASSOCING" => host'.assoc = host.assoc
  BY <1>1, ViewTypes, FailureFields
<1>5. AttemptKept'
  <2> SUFFICES ASSUME Without({"late", "mute", "untold", "elsewhere"})' PROVE AttemptKept'
    BY DEF AttemptKept
  <2>1. /\ host.assoc # None => sta.cbss = host.assoc /\ Pursuing
        /\ sta.sm = "AUTHING" => host.assoc = None
    BY <1>1 DEF HostInvariant, AttemptKept, Without
  <2>2. host'.assoc = None
    BY <1>1, <1>4, <2>1 DEF Pursuing
  <2> QED
    BY <1>1, <2>2 DEF AttemptKept
<1>6. ViewsKept'
  <2> SUFFICES ASSUME Without({"late", "stray", "moved", "mute"})'
               PROVE  (ConnKnown /\ DiscKnown /\ AttemptKnown /\ OpKnown)'
    BY DEF ViewsKept
  <2>1. ConnKnown
    BY <1>1 DEF HostInvariant, ViewsKept, Without
  <2>2. host'.conn = None
    BY <1>1, <1>4, <2>1 DEF ConnKnown, Associated
  <2> QED
    BY <1>1, <1>3, <2>2
       DEF ConnKnown, DiscKnown, AttemptKnown, OpKnown, Associated, Pursuing, Connecting
<1> QED
  BY <1>5, <1>6 DEF ViewDefs
-----------------------------------------------------------------------------
(* The invariant of both views holds, and with it the property. *)

LEMMA HostInitInv == Init => HostInvariant
<1> SUFFICES ASSUME Init PROVE HostInvariant
  OBVIOUS
<1>1. SmeInv
  BY InitInv
<1>2. EventsNamed
  <2>1. evq = <<>>
    BY DEF Init
  <2>2. DOMAIN evq = {}
    BY <2>1
  <2> QED
    BY <2>2 DEF EventsNamed
<1>3. /\ sta.sm = "NONE" /\ host.conn = None /\ host.assoc = None /\ op.pc = "idle"
      /\ disc.pc = "idle"
  BY DEF Init, Idle
<1>4. AttemptKept
  BY <1>3 DEF AttemptKept
<1>5. ConnKnown /\ DiscKnown /\ AttemptKnown /\ OpKnown
  BY <1>3 DEF ConnKnown, DiscKnown, AttemptKnown, OpKnown, Associated, Pursuing, Connecting
<1> QED
  BY <1>1, <1>2, <1>4, <1>5 DEF HostInvariant, ViewsKept

LEMMA ViewsStep == ASSUME HostInvariant, Next PROVE ViewDefs
<1>1. CASE Operation
  <2>1. ASSUME NEW ok \in BOOLEAN, AuthUnjoin(ok) \/ AuthJoin(ok) \/ AuthEnd(ok) PROVE ViewDefs
    BY <2>1, AuthUnjoinViews, AuthJoinViews, AuthEndViews
  <2>2. ASSUME NEW ok \in BOOLEAN, AssocMove(ok) \/ AssocEnd(ok) PROVE ViewDefs
    BY <2>2, AssocMoveViews, AssocEndViews
  <2>3. ASSUME NEW ok \in BOOLEAN, NEW w \in Ifaces, ScanEnd(w, ok) PROVE ViewDefs
    BY <2>3, ScanKeepsViews
  <2>4. CASE AuthSend
    BY <2>4, AuthSendViews
  <2> QED
    BY <1>1, <2>1, <2>2, <2>3, <2>4 DEF Operation
<1>2. CASE Host
  <2>1. ASSUME NEW b \in Bss, NEW k \in Kinds, AuthBegin(b, k) PROVE ViewDefs
    BY <2>1, AuthBeginViews
  <2>2. ASSUME NEW b \in Bss, AssocBegin(b) PROVE ViewDefs
    BY <2>2, AssocBeginViews
  <2>3. ASSUME NEW b \in Bss, NEW ok \in BOOLEAN, Deauth(b, ok) PROVE ViewDefs
    <3>1. sta.report \in BOOLEAN
      BY ViewTypes DEF Stas
    <3> QED
      BY <2>3, <3>1, LeaveCallViews DEF Deauth
  <2>4. ASSUME NEW b \in Bss, NEW ok \in BOOLEAN, Disassoc(b, ok) PROVE ViewDefs
    BY <2>4, LeaveCallViews DEF Disassoc
  <2>5. ASSUME NEW w \in Ifaces, ScanBegin(w) \/ ScanAbort(w) PROVE ViewDefs
    BY <2>5, ScanKeepsViews
  <2>6. CASE Authorize
    BY <2>6, AuthorizeViews
  <2> QED
    BY <1>2, <2>1, <2>2, <2>3, <2>4, <2>5, <2>6 DEF Host
<1>3. CASE Firmware \/ ScanClock
  BY <1>3, FirmwareKeepsViews
<1>4. CASE Events
  <2>1. ASSUME NEW ok \in BOOLEAN, EvDeauth(ok) \/ EvAuth(ok) \/ DiscEnd(ok) PROVE ViewDefs
    BY <2>1, EvDeauthViews, EvAuthViews, DiscEndViews
  <2>2. CASE EvScan
    BY <2>2, FirmwareKeepsViews
  <2>3. CASE EvAssoc
    BY <2>3, EvAssocViews
  <2>4. CASE DiscBegin
    BY <2>4, DiscBeginViews
  <2> QED
    BY <1>4, <2>1, <2>2, <2>3, <2>4 DEF Events
<1>5. CASE Work
  BY <1>5, TimersKeepViews, WorkRedoViews, WorkFailViews DEF Work
<1>6. CASE StaTimer
  BY <1>6, TimersKeepViews
<1> QED
  BY <1>1, <1>2, <1>3, <1>4, <1>5, <1>6 DEF Next

LEMMA HostStepInv == ASSUME HostInvariant, [Next]_vars PROVE HostInvariant'
<1>1. SmeInv'
  BY StepInv DEF HostInvariant
<1>2. EventsNamed'
  BY EventsStayNamed DEF HostInvariant
<1>3. CASE Next
  BY <1>1, <1>2, <1>3, ViewsStep DEF HostInvariant, ViewDefs
<1>4. CASE UNCHANGED vars
  <2>1. ViewDefs
    BY <1>4, SameViews DEF vars
  <2> QED
    BY <1>1, <1>2, <2>1 DEF HostInvariant, ViewDefs
<1> QED
  BY <1>3, <1>4

LEMMA InvAgrees == HostInvariant => HostAgrees
<1> SUFFICES ASSUME HostInvariant PROVE HostAgrees
  OBVIOUS
<1>1. ViewsAgree
  BY ViewTypes DEF HostInvariant, ViewsKept, ConnKnown, Associated, ViewsAgree, Quiet
<1>2. AssocPursued
  BY DEF HostInvariant, AttemptKept, Pursuing, AssocPursued, Quiet
<1> QED
  BY <1>1, <1>2 DEF HostAgrees

\* For every set of access points, every limit on the retries and every load, whenever neither
\* an operation nor a disconnect event is half done: cfg80211 knows of a connection exactly when
\* the driver is associated with that BSS, with an open path and the port as cfg80211 set it,
\* and an association it waits for is one the driver is still at (skw_cfg80211_auth, skw_assoc,
\* skw_sta_rx_auth, skw_sta_rx_assoc, skw_sta_work, skw_sta_leave, skw_event_disconnect).
THEOREM HostAlwaysAgrees == Spec => []HostAgrees
<1>1. Spec => []HostInvariant
  BY HostInitInv, HostStepInv, PTL DEF Spec
<1> QED
  BY <1>1, InvAgrees, PTL
=============================================================================
