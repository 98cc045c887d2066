--------------------------- MODULE SkwLifeProofs ---------------------------
(***************************************************************************)
(* Theorems about the lives of the interfaces (SkwLife), for every number  *)
(* of interfaces and every load; about the timer list (SkwTimer), for      *)
(* every number of timers and every delay; and about the log recorder      *)
(* (SkwLog), for every size of its buffer and files.                       *)
(***************************************************************************)
EXTENDS SkwLifecycle, SequenceTheorems, FiniteSetTheorems, TLAPS

Vifs == [used : BOOLEAN, in : BOOLEAN, type : Types, opened : BOOLEAN, ev : BOOLEAN]
Links == [ctx : BOOLEAN, rd : BOOLEAN, told : BOOLEAN, heap : Nat]
UserPcs == {"idle", "open", "mark", "reg", "close", "chg", "back", "free"}
Users == [pc : UserPcs, i : Ids, type : Types]
RecPcs == {"idle", "prep", "clear", "sync", "open", "lock", "body"}
Recs == [q : BOOLEAN, pc : RecPcs, k : Nat]
Fws == [up : BOOLEAN, open : SUBSET Ids, peers : SUBSET Ids, ap : SUBSET Ids]
Flags == [assert : BOOLEAN, chiprec : BOOLEAN, nf : BOOLEAN]
RmPcs == {"no", "unreg", "del", "lock", "cancel", "gone"}

TypeInv ==
  /\ vif \in [Ids -> Vifs] /\ opened \in Nat /\ link \in [Ids -> Links]
  /\ fw \in Fws /\ flag \in Flags /\ user \in Users /\ rec \in Recs
  /\ nf \in {"idle", "cancel", "booting"} /\ rm \in RmPcs /\ rdlock \in {"free", "rec", "rm"}

\* Who holds a number: the interfaces of the table, and the one the user is adding, which is not
\* in the table yet.  While the removal deletes, the user is out of the driver.
NumberInv ==
  /\ NumbersHeld
  /\ user.pc \in {"open", "mark"} => ~vif[user.i].in
  /\ user.pc \in {"reg", "close", "chg", "back", "free"} => vif[user.i].in
  /\ rm = "del" => user.pc = "idle"
  /\ \A i \in Ids : vif[i].opened => vif[i].in

\* opened_dev never falls below the number of OPENED interfaces.
OpenSet(v) == {i \in Ids : v[i].in /\ v[i].opened}
CountInv ==
  /\ Cardinality(OpenSet(vif)) <= opened
  /\ CountRight

\* A firmware that is down has nothing open; from the notification of a crash until it is back
\* only FW_ASSERT, or the recovery that cleared it, keeps an OPENED interface out of it.
FwInv ==
  /\ ~fw.up => fw.open = {}
  /\ nf # "idle" => ~fw.up
  /\ nf # "idle" /\ ~flag.assert /\ "missed" \notin odd => \A i \in Ids : ~vif[i].opened
  /\ \A i \in Ids : vif[i].opened /\ fw.up /\ ~flag.assert /\ "missed" \notin odd => i \in fw.open

\* Event works are on but in the operation that switched one off.
EventInv ==
  "deaf" \notin odd =>
    \A i \in Ids : vif[i].in => vif[i].ev \/ (user.i = i /\ user.pc \in {"chg", "back", "free"})

\* Peers are allocated at least as long as they are bound or kept.
Bit(b) == IF b THEN 1 ELSE 0
Held(l) == Bit(l.ctx) + Bit(l.rd)
PeerInv ==
  /\ \A i \in Ids : Held(link[i]) <= link[i].heap
  /\ "second" \notin odd => \A i \in Ids : link[i].heap = Held(link[i])
  /\ ~flag.chiprec => \A i \in Ids : ~link[i].rd

LifeInv == TypeInv /\ NumberInv /\ CountInv /\ FwInv /\ EventInv /\ PeerInv
-----------------------------------------------------------------------------
(* The number of OPENED interfaces. *)

LEMMA FiniteIds == ASSUME NEW S \in SUBSET Ids PROVE IsFiniteSet(S) /\ Cardinality(S) \in Nat
BY LifeAssumption, FS_Subset, FS_CardinalityType

LEMMA CountSame ==
  ASSUME CountInv, OpenSet(vif') = OpenSet(vif), opened' = opened,
         odd \subseteq odd'
  PROVE  CountInv'
BY DEF CountInv, CountRight, OpenSet

LEMMA CountUp ==
  ASSUME CountInv, NEW i \in Ids, i \notin OpenSet(vif), OpenSet(vif') = OpenSet(vif) \cup {i},
         opened \in Nat, opened' = opened + 1, odd \subseteq odd'
  PROVE  CountInv'
<1> DEFINE S == OpenSet(vif)
<1>1. IsFiniteSet(S) /\ Cardinality(S) \in Nat
  BY FiniteIds DEF OpenSet
<1>2. Cardinality(S \cup {i}) = Cardinality(S) + 1
  BY <1>1, FS_AddElement
<1>3. Cardinality(OpenSet(vif)') = Cardinality(S) + 1
  BY <1>2 DEF OpenSet
<1> QED
  BY <1>1, <1>3 DEF CountInv, CountRight, OpenSet

LEMMA CountTwice ==
  ASSUME CountInv, OpenSet(vif') = OpenSet(vif), opened \in Nat, opened' = opened + 1,
         "twice" \in odd'
  PROVE  CountInv'
<1> DEFINE S == OpenSet(vif)
<1>1. Cardinality(S) \in Nat
  BY FiniteIds DEF OpenSet
<1>2. Cardinality(OpenSet(vif)') = Cardinality(S)
  BY DEF OpenSet
<1>3. Cardinality(S) <= opened
  BY DEF CountInv
<1> QED
  BY <1>1, <1>2, <1>3 DEF CountInv, CountRight

LEMMA CountDown ==
  ASSUME CountInv, NEW i \in Ids, i \in OpenSet(vif), OpenSet(vif') = OpenSet(vif) \ {i},
         opened \in Nat, opened' = opened - 1, odd \subseteq odd'
  PROVE  CountInv' /\ opened' \in Nat
<1> DEFINE S == OpenSet(vif)
<1>1. IsFiniteSet(S) /\ Cardinality(S) \in Nat
  BY FiniteIds DEF OpenSet
<1>2. Cardinality(S \ {i}) = Cardinality(S) - 1 /\ Cardinality(S) # 0
  BY <1>1, FS_RemoveElement, FS_EmptySet
<1>3. Cardinality(OpenSet(vif)') = Cardinality(S) - 1
  BY <1>2 DEF OpenSet
<1> QED
  BY <1>1, <1>2, <1>3 DEF CountInv, CountRight, OpenSet

LEMMA CountLose ==
  ASSUME CountInv, NEW i \in Ids, i \in OpenSet(vif), OpenSet(vif') = OpenSet(vif) \ {i},
         opened \in Nat, opened' = opened, "close" \in odd'
  PROVE  CountInv'
<1> DEFINE S == OpenSet(vif)
<1>1. IsFiniteSet(S) /\ Cardinality(S) \in Nat
  BY FiniteIds DEF OpenSet
<1>2. Cardinality(S \ {i}) = Cardinality(S) - 1
  BY <1>1, FS_RemoveElement
<1>3. Cardinality(OpenSet(vif)') = Cardinality(S) - 1
  BY <1>2 DEF OpenSet
<1> QED
  BY <1>1, <1>3 DEF CountInv, CountRight, OpenSet

LEMMA CountNone ==
  ASSUME OpenSet(vif') = {}, opened' = 0
  PROVE  CountInv'
<1>1. Cardinality(OpenSet(vif)') = 0
  BY FS_EmptySet DEF OpenSet
<1> QED
  BY <1>1 DEF CountInv, CountRight, OpenSet

\* An element of the table that changes alone.
LEMMA OneVif ==
  ASSUME vif \in [Ids -> Vifs], NEW i \in Ids, NEW r \in Vifs, vif' = [vif EXCEPT ![i] = r]
  PROVE  /\ vif' \in [Ids -> Vifs] /\ vif'[i] = r /\ \A j \in Ids \ {i} : vif'[j] = vif[j]
         /\ r.in /\ r.opened => OpenSet(vif') = OpenSet(vif) \cup {i}
         /\ ~(r.in /\ r.opened) => OpenSet(vif') = OpenSet(vif) \ {i}
         /\ i \in OpenSet(vif) <=> vif[i].in /\ vif[i].opened
<1>1. vif' \in [Ids -> Vifs] /\ vif'[i] = r /\ \A j \in Ids \ {i} : vif'[j] = vif[j]
  OBVIOUS
<1>2. i \in OpenSet(vif) <=> vif[i].in /\ vif[i].opened
  BY DEF OpenSet
<1>3. ASSUME r.in /\ r.opened PROVE OpenSet(vif') = OpenSet(vif) \cup {i}
  BY <1>1, <1>3 DEF OpenSet
<1>4. ASSUME ~(r.in /\ r.opened) PROVE OpenSet(vif') = OpenSet(vif) \ {i}
  BY <1>1, <1>4 DEF OpenSet
<1> QED
  BY <1>1, <1>2, <1>3, <1>4
-----------------------------------------------------------------------------
(* Peers. *)

LEMMA BindRecord ==
  ASSUME NEW l \in Links, Held(l) <= l.heap
  PROVE  /\ BindPeer(l) \in Links /\ BindPeer(l).rd = l.rd
         /\ Held(BindPeer(l)) <= BindPeer(l).heap
         /\ l.heap = Held(l) => BindPeer(l).heap = Held(BindPeer(l))
<1>1. l.ctx \in BOOLEAN /\ l.rd \in BOOLEAN /\ l.heap \in Nat /\ Bit(l.rd) \in {0, 1}
  BY DEF Links, Bit
<1>2. (IF l.ctx THEN l.heap ELSE l.heap + 1) \in Nat
  BY <1>1
<1>3. /\ BindPeer(l) \in Links /\ BindPeer(l).rd = l.rd /\ BindPeer(l).ctx = TRUE
      /\ BindPeer(l).heap = IF l.ctx THEN l.heap ELSE l.heap + 1
  BY <1>1, <1>2 DEF BindPeer, Links
<1>4. Held(BindPeer(l)) = 1 + Bit(l.rd)
  BY <1>3 DEF Held, Bit
<1>5. Held(l) = IF l.ctx THEN 1 + Bit(l.rd) ELSE Bit(l.rd)
  BY <1>1 DEF Held, Bit
<1> QED
  BY <1>1, <1>3, <1>4, <1>5

LEMMA UnbindRecord ==
  ASSUME NEW l \in Links, Held(l) <= l.heap
  PROVE  /\ Unbind(l) \in Links /\ Unbind(l).rd = l.rd
         /\ Held(Unbind(l)) <= Unbind(l).heap
         /\ l.heap = Held(l) => Unbind(l).heap = Held(Unbind(l))
<1>1. l.ctx \in BOOLEAN /\ l.rd \in BOOLEAN /\ l.heap \in Nat /\ Bit(l.rd) \in {0, 1}
  BY DEF Links, Bit
<1>2. Held(l) = IF l.ctx THEN 1 + Bit(l.rd) ELSE Bit(l.rd)
  BY <1>1 DEF Held, Bit
<1>3. (IF l.ctx THEN l.heap - 1 ELSE l.heap) \in Nat
  BY <1>1, <1>2
<1>4. /\ Unbind(l) \in Links /\ Unbind(l).rd = l.rd /\ Unbind(l).ctx = FALSE
      /\ Unbind(l).heap = IF l.ctx THEN l.heap - 1 ELSE l.heap
  BY <1>1, <1>3 DEF Unbind, Links
<1>5. Held(Unbind(l)) = Bit(l.rd)
  BY <1>1, <1>4 DEF Held, Bit
<1> QED
  BY <1>1, <1>2, <1>4, <1>5

LEMMA FreeRecord ==
  ASSUME NEW l \in Links, Held(l) <= l.heap
  PROVE  /\ FreeSaved(l) \in Links /\ FreeSaved(l).rd = FALSE
         /\ Held(FreeSaved(l)) <= FreeSaved(l).heap
         /\ l.heap = Held(l) => FreeSaved(l).heap = Held(FreeSaved(l))
<1>1. l.ctx \in BOOLEAN /\ l.rd \in BOOLEAN /\ l.heap \in Nat /\ Bit(l.ctx) \in {0, 1}
  BY DEF Links, Bit
<1>2. Held(l) = IF l.rd THEN Bit(l.ctx) + 1 ELSE Bit(l.ctx)
  BY <1>1 DEF Held, Bit
<1>3. (IF l.rd THEN l.heap - 1 ELSE l.heap) \in Nat
  BY <1>1, <1>2
<1>4. /\ FreeSaved(l) \in Links /\ FreeSaved(l).rd = FALSE /\ FreeSaved(l).ctx = l.ctx
      /\ FreeSaved(l).heap = IF l.rd THEN l.heap - 1 ELSE l.heap
  BY <1>1, <1>3 DEF FreeSaved, Links
<1>5. Held(FreeSaved(l)) = Bit(l.ctx)
  BY <1>1, <1>4 DEF Held, Bit
<1> QED
  BY <1>1, <1>2, <1>4, <1>5

\* The peers of one interface change, by one of these operations.
LEMMA OneLink ==
  ASSUME PeerInv, link \in [Ids -> Links], NEW i \in Ids, NEW l \in Links,
         link' = [link EXCEPT ![i] = l], l.rd = link[i].rd, Held(l) <= l.heap,
         link[i].heap = Held(link[i]) => l.heap = Held(l),
         odd \subseteq odd', flag'.chiprec = flag.chiprec
  PROVE  PeerInv' /\ link' \in [Ids -> Links]
<1>1. link' \in [Ids -> Links] /\ link'[i] = l /\ \A j \in Ids \ {i} : link'[j] = link[j]
  OBVIOUS
<1>2. \A j \in Ids : Held(link'[j]) <= link'[j].heap
  BY <1>1 DEF PeerInv
<1>3. ASSUME "second" \notin odd' PROVE \A j \in Ids : link'[j].heap = Held(link'[j])
  BY <1>1, <1>3 DEF PeerInv
<1>4. ~flag'.chiprec => \A j \in Ids : ~link'[j].rd
  BY <1>1 DEF PeerInv
<1> QED
  BY <1>1, <1>2, <1>3, <1>4 DEF PeerInv, Held, Bit

LEMMA SameLinks ==
  ASSUME PeerInv, link' = link, odd \subseteq odd', flag'.chiprec = flag.chiprec
  PROVE  PeerInv'
BY DEF PeerInv, Held, Bit
-----------------------------------------------------------------------------
(* What a step leaves alone. *)

LEMMA KeepNumber ==
  ASSUME NumberInv, vif' = vif, user' = user, rm' = rm
  PROVE  NumberInv'
BY DEF NumberInv, NumbersHeld

LEMMA KeepCount ==
  ASSUME CountInv, vif' = vif, opened' = opened, odd \subseteq odd'
  PROVE  CountInv'
<1>1. OpenSet(vif') = OpenSet(vif)
  BY DEF OpenSet
<1> QED
  BY <1>1, CountSame

LEMMA KeepFw ==
  ASSUME FwInv, vif' = vif, fw'.up = fw.up, fw'.open = fw.open, nf' = nf,
         flag'.assert = flag.assert, odd \subseteq odd'
  PROVE  FwInv'
BY DEF FwInv

LEMMA KeepEvent ==
  ASSUME EventInv, vif' = vif, user' = user \/ user.pc \notin {"chg", "back", "free"}, odd \subseteq odd'
  PROVE  EventInv'
BY DEF EventInv

LEMMA InitInv == Init => LifeInv
<1> SUFFICES ASSUME Init PROVE LifeInv
  OBVIOUS
<1>1. Cardinality(Ids) \in Nat /\ 0 \in Ids
  <2>1. Cardinality(Ids) \in Nat /\ Cardinality(Ids) # 0
    BY LifeAssumption, FS_CardinalityType, FS_EmptySet
  <2> QED
    BY <2>1, LifeAssumption
<1> DEFINE first == [used |-> TRUE, in |-> TRUE, type |-> "sta", opened |-> TRUE, ev |-> TRUE]
<1>2. first \in Vifs /\ NoVif \in Vifs
  BY DEF Vifs, NoVif, Types
<1>3. \A i \in Ids : vif[i] = IF i = 0 THEN first ELSE NoVif
  BY DEF Init
<1>4. vif \in [Ids -> Vifs]
  <2>1. vif = [i \in Ids |-> IF i = 0 THEN first ELSE NoVif]
    BY DEF Init
  <2> HIDE DEF first
  <2> QED
    BY <1>2, <2>1
<1>5. /\ first.used /\ first.in /\ first.opened /\ first.ev
      /\ ~NoVif.used /\ ~NoVif.in /\ ~NoVif.opened
  BY DEF NoVif
<1> HIDE DEF first
<1>6. link \in [Ids -> Links] /\ (\A i \in Ids : link[i].heap = 0 /\ ~link[i].ctx /\ ~link[i].rd)
  BY DEF Init, Links
<1>7. fw \in Fws /\ fw.open = {0} /\ fw.up
  BY <1>1 DEF Init, Fws
<1>8. user \in Users /\ user.pc = "idle"
  BY <1>1 DEF Init, Idle, Users, UserPcs, Types
<1>9. TypeInv
  BY <1>4, <1>6, <1>7, <1>8 DEF Init, TypeInv, Flags, Recs, RecPcs, RmPcs
<1>10. NumberInv
  BY <1>3, <1>5, <1>8 DEF Init, NumberInv, NumbersHeld
<1>11. CountInv
  <2>1. OpenSet(vif) = {0}
    BY <1>1, <1>3, <1>5 DEF OpenSet
  <2>2. Cardinality(OpenSet(vif)) = 1
    BY <2>1, FS_Singleton
  <2> QED
    BY <2>2 DEF Init, CountInv, CountRight, OpenSet
<1>12. FwInv
  BY <1>3, <1>5, <1>7 DEF Init, FwInv
<1>13. EventInv
  BY <1>3, <1>5 DEF Init, EventInv
<1>14. PeerInv
  BY <1>6 DEF PeerInv, Held, Bit
<1> QED
  BY <1>9, <1>10, <1>11, <1>12, <1>13, <1>14 DEF LifeInv
-----------------------------------------------------------------------------
(* Connections and access points. *)

LEMMA StartApInv ==
  ASSUME LifeInv, NEW i \in Ids, NEW ok \in BOOLEAN, StartAp(i, ok)
  PROVE  LifeInv'
<1>1. /\ fw' = IF ok THEN [fw EXCEPT !.ap = fw.ap \cup {i}] ELSE fw
      /\ UNCHANGED <<vif, link, user, odd, opened, flag, rec, nf, rm, rdlock>>
  BY DEF StartAp, userKeeps
<1>2. fw' \in Fws /\ fw'.up = fw.up /\ fw'.open = fw.open
  BY <1>1 DEF Fws, LifeInv, TypeInv
<1> QED
  BY <1>1, <1>2, KeepNumber, KeepCount, KeepFw, KeepEvent, SameLinks DEF LifeInv, TypeInv

LEMMA ConnectInv ==
  ASSUME LifeInv, NEW i \in Ids, Connect(i)
  PROVE  LifeInv'
<1>1. /\ link' = [link EXCEPT ![i] = BindPeer(link[i])] /\ fw' = [fw EXCEPT !.peers = fw.peers \cup {i}]
      /\ UNCHANGED <<vif, user, odd, opened, flag, rec, nf, rm, rdlock>>
  BY DEF Connect, userKeeps
<1>2. fw' \in Fws /\ fw'.up = fw.up /\ fw'.open = fw.open
  BY <1>1 DEF Fws, LifeInv, TypeInv
<1>3. link[i] \in Links /\ Held(link[i]) <= link[i].heap
  BY DEF LifeInv, TypeInv, PeerInv
<1>4. PeerInv' /\ link' \in [Ids -> Links]
  BY <1>1, <1>3, BindRecord, OneLink DEF LifeInv, TypeInv
<1> QED
  BY <1>1, <1>2, <1>4, KeepNumber, KeepCount, KeepFw, KeepEvent DEF LifeInv, TypeInv

LEMMA ForgetRecord ==
  ASSUME NEW f \in Fws, NEW i \in Ids
  PROVE  FwForget(f, i) \in Fws /\ FwForget(f, i).up = f.up /\ FwForget(f, i).open = f.open
BY DEF FwForget, Fws

\* Leaving: whatever the command returns, the peers stay accounted for.
LEMMA LeftFits ==
  ASSUME LifeInv, NEW i \in Ids, NEW ok \in BOOLEAN, Left(i, ok), odd' = odd, flag' = flag
  PROVE  /\ PeerInv' /\ link' \in [Ids -> Links]
         /\ fw' \in Fws /\ fw'.up = fw.up /\ fw'.open = fw.open
<1>1. /\ link' = IF ok THEN [link EXCEPT ![i] = Unbind(link[i])] ELSE link
      /\ fw' = IF ok THEN FwForget(fw, i) ELSE fw
  BY DEF Left
<1>2. link[i] \in Links /\ Held(link[i]) <= link[i].heap
  BY DEF LifeInv, TypeInv, PeerInv
<1>3. PeerInv' /\ link' \in [Ids -> Links]
  <2>1. CASE ok
    BY <1>1, <1>2, <2>1, UnbindRecord, OneLink DEF LifeInv, TypeInv
  <2>2. CASE ~ok
    BY <1>1, <2>2, SameLinks DEF LifeInv, TypeInv
  <2> QED
    BY <2>1, <2>2
<1> QED
  BY <1>1, <1>3, ForgetRecord DEF LifeInv, TypeInv

LEMMA LeaveInv ==
  ASSUME LifeInv, NEW i \in Ids, NEW ok \in BOOLEAN, Leave(i, ok)
  PROVE  LifeInv'
<1>1. Left(i, ok) /\ UNCHANGED <<vif, user, odd, opened, flag, rec, nf, rm, rdlock>>
  BY DEF Leave, userKeeps
<1> QED
  BY <1>1, LeftFits, KeepNumber, KeepCount, KeepFw, KeepEvent DEF LifeInv, TypeInv
-----------------------------------------------------------------------------
(* Adding an interface. *)

\* A nonempty set of naturals has a minimum: the intervals below its elements, ordered by
\* inclusion, have a minimal one.
\* inclusion, have a minimal one.
LEMMA LeastExists ==
  ASSUME NEW S \in SUBSET Nat, S # {}
  PROVE  \E x \in S : \A y \in S : x <= y
<1> DEFINE T == {0 .. n : n \in S}
           R == StrictSubsetOrdering(Nat)
<1>1. T \subseteq FiniteSubsetsOf(Nat) /\ T # {}
  <2>1. ASSUME NEW n \in S PROVE 0 .. n \in FiniteSubsetsOf(Nat)
    <3>1. IsFiniteSet(0 .. n) /\ 0 .. n \subseteq Nat
      BY FS_Interval
    <3> QED
      BY <3>1 DEF FiniteSubsetsOf
  <2> QED
    BY <2>1
<1>2. \E t \in T : \A u \in T : <<u, t>> \notin R
  BY <1>1, WFMin, FS_StrictSubsetOrderingWellFounded
<1>3. PICK x \in S : \A y \in S : <<0 .. y, 0 .. x>> \notin R
  BY <1>2
<1>4. ASSUME NEW y \in S, y < x PROVE FALSE
  <2>1. 0 .. y \subseteq 0 .. x /\ 0 .. y # 0 .. x /\ 0 .. y \subseteq Nat /\ 0 .. x \subseteq Nat
    BY <1>4
  <2>2. <<0 .. y, 0 .. x>> \in R
    BY <2>1 DEF StrictSubsetOrdering
  <2> QED
    BY <1>3, <2>2
<1>5. \A y \in S : x <= y
  BY <1>4
<1> QED
  BY <1>5

LEMMA MinimumExists ==
  ASSUME NEW S \in SUBSET Nat, S # {}
  PROVE  Min(S) \in S
<1>1. PICK x \in S : \A y \in S : x <= y
  BY LeastExists
<1> QED
  BY <1>1 DEF Min

LEMMA IdsNat == Ids \subseteq Nat /\ 0 \in Ids /\ N \in Nat \ {0}
<1>1. N \in Nat /\ N # 0
  BY LifeAssumption, FS_CardinalityType, FS_EmptySet DEF N
<1>2. Ids = 0 .. N - 1
  BY LifeAssumption DEF N
<1> QED
  BY <1>1, <1>2

LEMMA IdleUser == Idle \in Users /\ Idle.pc = "idle"
BY IdsNat DEF Idle, Users, UserPcs, Types

LEMMA OneSame ==
  ASSUME vif \in [Ids -> Vifs], NEW i \in Ids, NEW r \in Vifs, vif' = [vif EXCEPT ![i] = r],
         r.in /\ r.opened <=> vif[i].in /\ vif[i].opened
  PROVE  OpenSet(vif') = OpenSet(vif)
<1>1. vif'[i] = r /\ \A j \in Ids \ {i} : vif'[j] = vif[j]
  OBVIOUS
<1> QED
  BY <1>1 DEF OpenSet

\* The numbers after a change of one interface and of the user's operation.
LEMMA OneNumber ==
  ASSUME NumberInv, NEW i \in Ids, NEW r \in Vifs, vif' = [vif EXCEPT ![i] = r],
         vif \in [Ids -> Vifs], user \in Users, user' \in Users,
         r.opened => r.in,
         r.used <=> r.in \/ (user'.pc \in {"open", "mark"} /\ user'.i = i),
         user.pc \in {"open", "mark"} => user.i = i,
         user'.pc \in {"open", "mark"} => user'.i = i /\ ~r.in,
         user'.pc \in {"reg", "close", "chg", "back", "free"} => user'.i = i /\ r.in,
         rm' = "del" => user'.pc = "idle"
  PROVE  NumberInv'
<1>1. vif'[i] = r /\ \A j \in Ids \ {i} : vif'[j] = vif[j]
  BY OneVif
<1>2. \A j \in Ids : vif'[j].used <=> vif'[j].in \/ (user'.pc \in {"open", "mark"} /\ user'.i = j)
  BY <1>1 DEF NumberInv, NumbersHeld
<1>3. \A j \in Ids : vif'[j].opened => vif'[j].in
  BY <1>1 DEF NumberInv
<1> QED
  BY <1>1, <1>2, <1>3 DEF NumberInv, NumbersHeld

\* ... and of the user's operation alone.
LEMMA SameNumber ==
  ASSUME NumberInv, vif' = vif, user \in Users, user' \in Users, rm' = rm,
         user.pc # "idle" \/ rm # "del", 
         user'.pc \in {"open", "mark"} <=> user.pc \in {"open", "mark"},
         user'.pc # "idle" => user'.i = user.i,
         user'.pc \in {"reg", "close", "chg", "back", "free"} => vif[user'.i].in
  PROVE  NumberInv'
BY DEF NumberInv, NumbersHeld, Users, UserPcs

LEMMA UsedRecord ==
  ASSUME NEW v \in Vifs
  PROVE  LET r == [v EXCEPT !.used = TRUE] IN
         /\ r \in Vifs /\ r.used /\ r.in = v.in /\ r.opened = v.opened /\ r.ev = v.ev
BY DEF Vifs

LEMMA NoRecord == NoVif \in Vifs /\ ~NoVif.used /\ ~NoVif.in /\ ~NoVif.opened /\ ~NoVif.ev
BY DEF NoVif, Vifs, Types

LEMMA AddBeginInv ==
  ASSUME LifeInv, NEW t \in Types, AddBegin(t)
  PROVE  LifeInv'
<1> DEFINE F == {j \in Ids : ~vif[j].used}
           i == Min(F)
           r == [vif[i] EXCEPT !.used = TRUE]
<1>1. /\ vif' = [vif EXCEPT ![i] = r] /\ user' = [pc |-> "open", i |-> i, type |-> t]
      /\ Rtnl /\ rm = "no" /\ F # {}
      /\ UNCHANGED <<link, host, fw, odd, opened, flag, rec, nf, rm, rdlock>>
  BY DEF AddBegin, userKeeps
<1>2. i \in F
  <2>1. F \in SUBSET Nat
    BY IdsNat
  <2> QED
    BY <1>1, <2>1, MinimumExists
<1>3. i \in Ids /\ ~vif[i].used /\ vif[i] \in Vifs
  BY <1>2 DEF LifeInv, TypeInv
<1> HIDE DEF i, F
<1>4. ~vif[i].in /\ ~vif[i].opened
  BY <1>3 DEF LifeInv, NumberInv, NumbersHeld
<1>5. r \in Vifs /\ r.used /\ r.in = vif[i].in /\ r.opened = vif[i].opened
  BY <1>3, UsedRecord
<1> HIDE DEF r
<1>6. /\ vif' \in [Ids -> Vifs] /\ (\A j \in Ids \ {i} : vif'[j] = vif[j]) /\ vif'[i] = r
      /\ OpenSet(vif') = OpenSet(vif)
  BY <1>1, <1>3, <1>4, <1>5, OneVif, OneSame DEF LifeInv, TypeInv
<1>7. user.pc = "idle" /\ user' \in Users /\ user'.pc = "open" /\ user'.i = i
  BY <1>1, <1>3 DEF Rtnl, Users, UserPcs
<1>8. TypeInv'
  BY <1>1, <1>6, <1>7 DEF LifeInv, TypeInv
<1>9. NumberInv'
  BY <1>1, <1>3, <1>4, <1>5, <1>7, OneNumber DEF LifeInv, TypeInv
<1>10. CountInv'
  BY <1>1, <1>6, CountSame DEF LifeInv
<1>11. FwInv'
  BY <1>1, <1>4, <1>5, <1>6 DEF LifeInv, FwInv
<1>12. EventInv'
  BY <1>1, <1>4, <1>5, <1>6, <1>7 DEF LifeInv, EventInv
<1> QED
  BY <1>1, <1>8, <1>9, <1>10, <1>11, <1>12, SameLinks DEF LifeInv

LEMMA AddOpenInv ==
  ASSUME LifeInv, NEW ok \in BOOLEAN, AddOpen(ok)
  PROVE  LifeInv'
<1> DEFINE i == user.i
<1>1. /\ user.pc = "open" /\ Outcome(ok)
      /\ UNCHANGED <<link, host, odd, opened, flag, rec, nf, rm, rdlock>>
  BY DEF AddOpen, userKeeps
<1>2. i \in Ids /\ user.type \in Types /\ rm # "del" /\ ~vif[i].in /\ ~vif[i].opened
  BY <1>1 DEF LifeInv, TypeInv, Users, NumberInv
<1>3. CASE ok
  <2>1. /\ fw' = [fw EXCEPT !.open = fw.open \cup {i}] /\ user' = [user EXCEPT !.pc = "mark"]
        /\ vif' = vif /\ fw.up
    BY <1>1, <1>3 DEF AddOpen, Outcome, Live
  <2>2. fw' \in Fws /\ fw'.up = fw.up /\ fw'.open = fw.open \cup {i}
    BY <1>2, <2>1 DEF LifeInv, TypeInv, Fws
  <2>3. user' \in Users /\ user'.pc = "mark" /\ user'.i = i
    BY <1>2, <2>1 DEF LifeInv, TypeInv, Users, UserPcs
  <2>4. TypeInv'
    BY <1>1, <2>1, <2>2, <2>3 DEF LifeInv, TypeInv
  <2>5. NumberInv'
    BY <1>1, <1>2, <2>1, <2>3, SameNumber DEF LifeInv, TypeInv
  <2>6. FwInv'
    BY <1>1, <2>1, <2>2 DEF LifeInv, FwInv
  <2> QED
    BY <1>1, <2>1, <2>4, <2>5, <2>6, KeepCount, KeepEvent, SameLinks DEF LifeInv
<1>4. CASE ~ok
  <2>1. vif' = [vif EXCEPT ![i] = NoVif] /\ user' = Idle /\ fw' = fw
    BY <1>1, <1>4 DEF AddOpen
  <2>2. /\ vif' \in [Ids -> Vifs] /\ (\A j \in Ids \ {i} : vif'[j] = vif[j]) /\ vif'[i] = NoVif
        /\ OpenSet(vif') = OpenSet(vif)
    BY <1>2, <2>1, NoRecord, OneVif, OneSame DEF LifeInv, TypeInv
  <2>3. user' \in Users /\ user'.pc = "idle"
    BY <2>1, IdleUser
  <2>4. TypeInv'
    BY <1>1, <2>1, <2>2, <2>3 DEF LifeInv, TypeInv
  <2>5. NumberInv'
    BY <1>1, <1>2, <2>1, <2>3, NoRecord, OneNumber DEF LifeInv, TypeInv
  <2>6. CountInv'
    BY <1>1, <2>2, CountSame DEF LifeInv
  <2>7. FwInv'
    BY <1>1, <1>2, <2>1, <2>2, NoRecord DEF LifeInv, FwInv
  <2>8. EventInv'
    BY <1>1, <2>2, <2>3, NoRecord DEF LifeInv, EventInv
  <2> QED
    BY <1>1, <2>4, <2>5, <2>6, <2>7, <2>8, SameLinks DEF LifeInv
<1> QED
  BY <1>3, <1>4

LEMMA AddMarkInv ==
  ASSUME LifeInv, AddMark
  PROVE  LifeInv'
<1> DEFINE i == user.i
           r == [used |-> TRUE, in |-> TRUE, type |-> user.type, opened |-> TRUE, ev |-> TRUE]
<1>1. /\ user.pc = "mark" /\ opened' = opened + 1 /\ vif' = [vif EXCEPT ![i] = r]
      /\ user' = [user EXCEPT !.pc = "reg"] /\ odd' = odd \cup Mark(i \notin fw.open, "missed")
      /\ UNCHANGED <<flag, rec, nf, rm, rdlock, link, host, fw, left>>
  BY DEF AddMark
<1>2. i \in Ids /\ user.type \in Types /\ rm # "del" /\ ~vif[i].in
  BY <1>1 DEF LifeInv, TypeInv, Users, NumberInv
<1>3. r \in Vifs /\ r.used /\ r.in /\ r.opened /\ r.ev
  BY <1>2 DEF Vifs
<1> HIDE DEF r
<1>4. /\ vif' \in [Ids -> Vifs] /\ (\A j \in Ids \ {i} : vif'[j] = vif[j]) /\ vif'[i] = r
      /\ OpenSet(vif') = OpenSet(vif) \cup {i} /\ i \notin OpenSet(vif)
  BY <1>1, <1>2, <1>3, OneVif DEF LifeInv, TypeInv
<1>5. user' \in Users /\ user'.pc = "reg" /\ user'.i = i
  BY <1>1, <1>2 DEF LifeInv, TypeInv, Users, UserPcs
<1>6. odd \subseteq odd' /\ (i \notin fw.open => "missed" \in odd')
  BY <1>1 DEF Mark
<1>7. TypeInv'
  BY <1>1, <1>4, <1>5 DEF LifeInv, TypeInv
<1>8. NumberInv'
  BY <1>1, <1>2, <1>3, <1>5, OneNumber DEF LifeInv, TypeInv
<1>9. CountInv'
  BY <1>1, <1>2, <1>4, <1>6, CountUp DEF LifeInv, TypeInv
<1>10. FwInv'
  BY <1>1, <1>4, <1>6 DEF LifeInv, FwInv
<1>11. EventInv'
  BY <1>1, <1>3, <1>4, <1>5, <1>6 DEF LifeInv, EventInv
<1> QED
  BY <1>1, <1>6, <1>7, <1>8, <1>9, <1>10, <1>11, SameLinks DEF LifeInv

LEMMA AddRegInv ==
  ASSUME LifeInv, NEW ok \in BOOLEAN, AddReg(ok)
  PROVE  LifeInv'
<1>1. /\ user.pc = "reg" /\ user' = IF ok THEN Idle ELSE [user EXCEPT !.pc = "close"]
      /\ UNCHANGED <<vif, link, host, fw, odd, opened, flag, rec, nf, rm, rdlock>>
  BY DEF AddReg, userKeeps
<1>2. user.i \in Ids /\ user.type \in Types /\ vif[user.i].in
  BY <1>1 DEF LifeInv, TypeInv, Users, NumberInv
<1>3. user' \in Users /\ user'.pc \in {"idle", "close"} /\ (user'.pc # "idle" => user'.i = user.i)
  <2>1. CASE ok
    BY <1>1, <2>1, IdleUser
  <2>2. CASE ~ok
    BY <1>1, <1>2, <2>2 DEF LifeInv, TypeInv, Users, UserPcs
  <2> QED
    BY <2>1, <2>2
<1>4. NumberInv'
  BY <1>1, <1>2, <1>3, SameNumber DEF LifeInv, TypeInv
<1>5. EventInv'
  BY <1>1, KeepEvent DEF LifeInv
<1>6. TypeInv'
  BY <1>1, <1>3 DEF LifeInv, TypeInv
<1> QED
  BY <1>1, <1>4, <1>5, <1>6, KeepCount, KeepFw, SameLinks DEF LifeInv
-----------------------------------------------------------------------------
(* Closing and opening an interface. *)

LEMMA CloseRecord ==
  ASSUME NEW v \in Vifs, NEW b \in BOOLEAN
  PROVE  LET r == [v EXCEPT !.ev = FALSE, !.opened = b] IN
         r \in Vifs /\ r.used = v.used /\ r.in = v.in /\ r.opened = b
BY DEF Vifs

LEMMA OpenRecord ==
  ASSUME NEW v \in Vifs, NEW t \in Types
  PROVE  LET r == [v EXCEPT !.type = t, !.opened = TRUE, !.ev = TRUE] IN
         r \in Vifs /\ r.used = v.used /\ r.in = v.in /\ r.opened /\ r.ev
BY DEF Vifs

LEMMA EventRecord ==
  ASSUME NEW v \in Vifs
  PROVE  LET r == [v EXCEPT !.ev = TRUE] IN
         r \in Vifs /\ r.used = v.used /\ r.in = v.in /\ r.opened = v.opened /\ r.ev
BY DEF Vifs

\* The facts about one interface that do not change with an operation that keeps the numbers.
LEMMA TeardownFits ==
  ASSUME LifeInv, NEW i \in Ids, NEW ok \in BOOLEAN, Teardown(i, ok),
         ok => Live /\ CanSend(i), flag' = flag, nf' = nf, odd \subseteq odd'
  PROVE  /\ vif' \in [Ids -> Vifs] /\ opened' \in Nat /\ link' \in [Ids -> Links] /\ fw' \in Fws
         /\ CountInv' /\ FwInv' /\ PeerInv'
         /\ \E r \in Vifs : /\ vif' = [vif EXCEPT ![i] = r] /\ r.used = vif[i].used /\ r.in = vif[i].in
                            /\ (r.opened <=> vif[i].opened /\ ~ok)
<1> DEFINE b == vif[i].opened /\ ~ok
           r == [vif[i] EXCEPT !.ev = FALSE, !.opened = b]
<1>1. /\ vif' = [vif EXCEPT ![i] = r] /\ opened' = IF ok THEN opened - 1 ELSE opened
      /\ link' = IF vif[i].type = "sta" THEN [link EXCEPT ![i] = Unbind(link[i])] ELSE link
      /\ fw' = IF ok THEN [FwForget(fw, i) EXCEPT !.open = fw.open \ {i}] ELSE fw
  <2>1. FwForget(fw, i).open = fw.open
    BY ForgetRecord DEF LifeInv, TypeInv
  <2> QED
    BY <2>1 DEF Teardown
<1>2. vif[i] \in Vifs /\ b \in BOOLEAN
  BY DEF LifeInv, TypeInv
<1>3. r \in Vifs /\ r.used = vif[i].used /\ r.in = vif[i].in /\ (r.opened <=> vif[i].opened /\ ~ok)
  <2> HIDE DEF b
  <2>1. r \in Vifs /\ r.used = vif[i].used /\ r.in = vif[i].in /\ r.opened = b
    BY <1>2, CloseRecord
  <2> QED
    BY <2>1 DEF b
<1> HIDE DEF r
<1>4. vif' \in [Ids -> Vifs] /\ (\A j \in Ids \ {i} : vif'[j] = vif[j]) /\ vif'[i] = r
  BY <1>1, <1>3, OneVif DEF LifeInv, TypeInv
<1>5. CountInv' /\ opened' \in Nat
  <2>1. CASE ok
    <3>1. i \in OpenSet(vif) /\ OpenSet(vif') = OpenSet(vif) \ {i}
      BY <1>1, <1>3, <2>1, OneVif DEF CanSend, LifeInv, TypeInv
    <3> QED
      BY <1>1, <2>1, <3>1, CountDown DEF LifeInv, TypeInv
  <2>2. CASE ~ok
    <3>1. OpenSet(vif') = OpenSet(vif)
      BY <1>1, <1>3, <2>2, OneSame DEF LifeInv, TypeInv
    <3> QED
      BY <1>1, <2>2, <3>1, CountSame DEF LifeInv, TypeInv
  <2> QED
    BY <2>1, <2>2
<1>6. fw' \in Fws /\ fw'.up = fw.up /\ (ok => fw'.open = fw.open \ {i}) /\ (~ok => fw' = fw)
  <2>1. FwForget(fw, i) \in Fws /\ FwForget(fw, i).up = fw.up /\ FwForget(fw, i).open = fw.open
    BY ForgetRecord DEF LifeInv, TypeInv
  <2> DEFINE f == FwForget(fw, i)
  <2> HIDE DEF f
  <2>2. ASSUME f \in Fws, f.up = fw.up
        PROVE  LET g == [f EXCEPT !.open = fw.open \ {i}] IN g \in Fws /\ g.up = fw.up /\ g.open = fw.open \ {i}
    BY <2>2 DEF Fws, LifeInv, TypeInv
  <2> QED
    BY <1>1, <2>1, <2>2 DEF f, LifeInv, TypeInv
<1>7. FwInv'
  BY <1>3, <1>4, <1>6 DEF LifeInv, FwInv
<1>8. PeerInv' /\ link' \in [Ids -> Links]
  <2>1. link[i] \in Links /\ Held(link[i]) <= link[i].heap
    BY DEF LifeInv, TypeInv, PeerInv
  <2>2. CASE vif[i].type = "sta"
    BY <1>1, <2>1, <2>2, UnbindRecord, OneLink DEF LifeInv, TypeInv
  <2>3. CASE vif[i].type # "sta"
    BY <1>1, <2>3, SameLinks DEF LifeInv, TypeInv
  <2> QED
    BY <2>2, <2>3
<1> QED
  BY <1>1, <1>3, <1>4, <1>5, <1>6, <1>7, <1>8

LEMMA DelBeginInv ==
  ASSUME LifeInv, NEW i \in Ids, DelBegin(i)
  PROVE  LifeInv'
<1>1. /\ Rtnl /\ rm = "no" /\ vif[i].in /\ user' = [pc |-> "close", i |-> i, type |-> vif[i].type]
      /\ UNCHANGED <<vif, odd, opened, flag, rec, nf, rm, rdlock>>
  BY DEF DelBegin, userKeeps
<1>2. PICK ok \in BOOLEAN : Left(i, ok)
  BY DEF DelBegin, Live
<1>3. /\ PeerInv' /\ link' \in [Ids -> Links] /\ fw' \in Fws /\ fw'.up = fw.up /\ fw'.open = fw.open
  BY <1>1, <1>2, LeftFits
<1>4. user.pc = "idle" /\ user' \in Users /\ user'.pc = "close" /\ user'.i = i
  BY <1>1 DEF Rtnl, LifeInv, TypeInv, Users, UserPcs, Vifs
<1>5. TypeInv'
  BY <1>1, <1>3, <1>4 DEF LifeInv, TypeInv
<1>6. NumberInv'
  BY <1>1, <1>4 DEF LifeInv, NumberInv, NumbersHeld
<1> QED
  BY <1>1, <1>3, <1>4, <1>5, <1>6, KeepCount, KeepFw, KeepEvent DEF LifeInv

LEMMA DelCloseInv ==
  ASSUME LifeInv, NEW ok \in BOOLEAN, DelClose(ok)
  PROVE  LifeInv'
<1> DEFINE i == user.i
<1>1. /\ user.pc = "close" /\ IfOutcome(i, ok) /\ Teardown(i, ok) /\ user' = [user EXCEPT !.pc = "free"]
      /\ UNCHANGED <<flag, rec, nf, rm, rdlock, host, odd>>
  BY DEF DelClose
<1>2. ok => Live /\ CanSend(i)
  BY <1>1 DEF IfOutcome, Outcome
<1>3. i \in Ids /\ vif[i].in /\ rm # "del"
  BY <1>1 DEF LifeInv, TypeInv, Users, NumberInv
<1>4. /\ vif' \in [Ids -> Vifs] /\ opened' \in Nat /\ link' \in [Ids -> Links] /\ fw' \in Fws
      /\ CountInv' /\ FwInv' /\ PeerInv'
  BY <1>1, <1>2, <1>3, TeardownFits
<1>5. PICK r \in Vifs : /\ vif' = [vif EXCEPT ![i] = r] /\ r.used = vif[i].used /\ r.in = vif[i].in
                        /\ (r.opened <=> vif[i].opened /\ ~ok)
  BY <1>1, <1>2, <1>3, TeardownFits
<1>6. user' \in Users /\ user'.pc = "free" /\ user'.i = i
  BY <1>1, <1>3 DEF LifeInv, TypeInv, Users, UserPcs
<1>7. TypeInv'
  BY <1>1, <1>4, <1>6 DEF LifeInv, TypeInv
<1>8. vif[i].used <=> vif[i].in
  BY <1>1, <1>3 DEF LifeInv, NumberInv, NumbersHeld
<1>9. NumberInv'
  BY <1>1, <1>3, <1>5, <1>6, <1>8, OneNumber DEF LifeInv, TypeInv, NumberInv
<1>10. \A j \in Ids \ {i} : vif'[j] = vif[j]
  BY <1>3, <1>5, OneVif DEF LifeInv, TypeInv
<1>11. EventInv'
  BY <1>1, <1>6, <1>10 DEF LifeInv, EventInv
<1> QED
  BY <1>4, <1>7, <1>9, <1>11 DEF LifeInv

LEMMA DelFreeInv ==
  ASSUME LifeInv, DelFree
  PROVE  LifeInv'
<1> DEFINE i == user.i
<1>1. /\ user.pc = "free" /\ vif' = [vif EXCEPT ![i] = NoVif] /\ user' = Idle
      /\ odd' = odd \cup Mark(vif[i].opened, "close")
      /\ UNCHANGED <<opened, flag, rec, nf, rm, rdlock, link, host, fw, left>>
  BY DEF DelFree, userKeeps
<1>2. i \in Ids /\ vif[i].in
  BY <1>1 DEF LifeInv, TypeInv, Users, NumberInv
<1>3. /\ vif' \in [Ids -> Vifs] /\ (\A j \in Ids \ {i} : vif'[j] = vif[j]) /\ vif'[i] = NoVif
      /\ OpenSet(vif') = OpenSet(vif) \ {i}
      /\ (i \in OpenSet(vif) <=> vif[i].opened)
  BY <1>1, <1>2, NoRecord, OneVif DEF LifeInv, TypeInv
<1>4. user' \in Users /\ user'.pc = "idle"
  BY <1>1, IdleUser
<1>5. odd \subseteq odd' /\ (vif[i].opened => "close" \in odd')
  BY <1>1 DEF Mark
<1>6. TypeInv'
  BY <1>1, <1>3, <1>4 DEF LifeInv, TypeInv
<1>7. NumberInv'
  BY <1>1, <1>2, <1>4, NoRecord, OneNumber DEF LifeInv, TypeInv
<1>8. CountInv'
  <2>1. CASE vif[i].opened
    BY <1>1, <1>2, <1>3, <1>5, <2>1, CountLose DEF LifeInv, TypeInv
  <2>2. CASE ~vif[i].opened
    <3>1. OpenSet(vif') = OpenSet(vif)
      BY <1>3, <2>2
    <3> QED
      BY <1>1, <1>5, <3>1, CountSame DEF LifeInv
  <2> QED
    BY <2>1, <2>2
<1>9. FwInv'
  BY <1>1, <1>3, <1>5, NoRecord DEF LifeInv, FwInv
<1>10. EventInv'
  BY <1>1, <1>3, <1>4, <1>5, NoRecord DEF LifeInv, EventInv
<1> QED
  BY <1>1, <1>5, <1>6, <1>7, <1>8, <1>9, <1>10, SameLinks DEF LifeInv

LEMMA ChangeBeginInv ==
  ASSUME LifeInv, NEW i \in Ids, NEW ok \in BOOLEAN, ChangeBegin(i, ok)
  PROVE  LifeInv'
<1> DEFINE t == CHOOSE t \in Types : t # vif[i].type
<1>1. /\ Rtnl /\ rm = "no" /\ vif[i].in /\ Costs("changes", i, ok) /\ Teardown(i, ok)
      /\ user' = IF ok THEN [pc |-> "chg", i |-> i, type |-> t] ELSE Idle
      /\ odd' = odd \cup Mark(~ok, "deaf")
      /\ UNCHANGED <<flag, rec, nf, rm, rdlock, host>>
  BY DEF ChangeBegin
<1>2. ok => Live /\ CanSend(i)
  BY <1>1 DEF Costs
<1>3. t \in Types
  BY DEF Types
<1> HIDE DEF t
<1>4. odd \subseteq odd' /\ (~ok => "deaf" \in odd')
  BY <1>1 DEF Mark
<1>5. /\ vif' \in [Ids -> Vifs] /\ opened' \in Nat /\ link' \in [Ids -> Links] /\ fw' \in Fws
      /\ CountInv' /\ FwInv' /\ PeerInv'
  BY <1>1, <1>2, <1>4, TeardownFits
<1>6. PICK r \in Vifs : /\ vif' = [vif EXCEPT ![i] = r] /\ r.used = vif[i].used /\ r.in = vif[i].in
                        /\ (r.opened <=> vif[i].opened /\ ~ok)
  BY <1>1, <1>2, <1>4, TeardownFits
<1>7. /\ user.pc = "idle" /\ user' \in Users
      /\ (ok => user'.pc = "chg" /\ user'.i = i) /\ (~ok => user'.pc = "idle")
  <2>1. CASE ok
    BY <1>1, <1>3, <2>1 DEF Rtnl, Users, UserPcs
  <2>2. CASE ~ok
    BY <1>1, <2>2, IdleUser DEF Rtnl
  <2> QED
    BY <2>1, <2>2
<1>8. TypeInv'
  BY <1>1, <1>5, <1>7 DEF LifeInv, TypeInv
<1>9. vif[i].used <=> vif[i].in
  BY <1>1, <1>7 DEF LifeInv, NumberInv, NumbersHeld
<1>10. NumberInv'
  BY <1>1, <1>6, <1>7, <1>9, OneNumber DEF LifeInv, TypeInv, NumberInv
<1>11. \A j \in Ids \ {i} : vif'[j] = vif[j]
  BY <1>6, OneVif DEF LifeInv, TypeInv
<1>12. EventInv'
  BY <1>4, <1>7, <1>11 DEF LifeInv, EventInv
<1> QED
  BY <1>5, <1>8, <1>10, <1>12 DEF LifeInv

LEMMA ChangeOpenInv ==
  ASSUME LifeInv, NEW ok \in BOOLEAN, ChangeOpen(ok)
  PROVE  LifeInv'
<1> DEFINE i == user.i
<1>1. /\ user.pc \in {"chg", "back"} /\ Outcome(ok)
      /\ odd' = odd \cup Mark(ok /\ vif[i].opened, "twice")
      /\ UNCHANGED <<flag, rec, nf, rm, rdlock, link, host>>
  BY DEF ChangeOpen
<1>2. i \in Ids /\ user.type \in Types /\ vif[i].in /\ rm # "del" /\ vif[i] \in Vifs
  BY <1>1 DEF LifeInv, TypeInv, Users, NumberInv
<1>3. vif[i].used <=> vif[i].in
  BY <1>1, <1>2 DEF LifeInv, NumberInv, NumbersHeld
<1>4. odd \subseteq odd' /\ (ok /\ vif[i].opened => "twice" \in odd')
  BY <1>1 DEF Mark
<1>5. CASE ok
  <2> DEFINE r == [vif[i] EXCEPT !.type = user.type, !.opened = TRUE, !.ev = TRUE]
  <2>1. /\ fw' = [fw EXCEPT !.open = fw.open \cup {i}] /\ opened' = opened + 1
        /\ vif' = [vif EXCEPT ![i] = r] /\ user' = Idle /\ fw.up
    BY <1>1, <1>5 DEF ChangeOpen, Outcome, Live
  <2>2. r \in Vifs /\ r.used = vif[i].used /\ r.in = vif[i].in /\ r.opened /\ r.ev
    BY <1>2, OpenRecord
  <2> HIDE DEF r
  <2>3. /\ vif' \in [Ids -> Vifs] /\ (\A j \in Ids \ {i} : vif'[j] = vif[j]) /\ vif'[i] = r
        /\ OpenSet(vif') = OpenSet(vif) \cup {i} /\ (i \in OpenSet(vif) <=> vif[i].opened)
    BY <1>2, <2>1, <2>2, OneVif DEF LifeInv, TypeInv
  <2>4. fw' \in Fws /\ fw'.up = fw.up /\ fw'.open = fw.open \cup {i}
    BY <1>2, <2>1 DEF LifeInv, TypeInv, Fws
  <2>5. user' \in Users /\ user'.pc = "idle"
    BY <2>1, IdleUser
  <2>6. TypeInv'
    BY <1>1, <2>1, <2>3, <2>4, <2>5 DEF LifeInv, TypeInv
  <2>7. NumberInv'
    BY <1>1, <1>2, <1>3, <2>1, <2>2, <2>5, OneNumber DEF LifeInv, TypeInv
  <2>8. CountInv'
    <3>1. CASE vif[i].opened
      <4>1. OpenSet(vif') = OpenSet(vif)
        BY <2>3, <3>1
      <4> QED
        BY <1>4, <1>5, <2>1, <3>1, <4>1, CountTwice DEF LifeInv, TypeInv
    <3>2. CASE ~vif[i].opened
      BY <1>2, <1>4, <2>1, <2>3, <3>2, CountUp DEF LifeInv, TypeInv
    <3> QED
      BY <3>1, <3>2
  <2>9. FwInv'
    BY <1>1, <1>4, <2>1, <2>3, <2>4 DEF LifeInv, FwInv
  <2>10. EventInv'
    BY <1>4, <2>2, <2>3 DEF LifeInv, EventInv
  <2> QED
    BY <1>1, <1>4, <2>6, <2>7, <2>8, <2>9, <2>10, SameLinks DEF LifeInv
<1>6. CASE ~ok
  <2> DEFINE r == [vif[i] EXCEPT !.ev = TRUE]
  <2>1. /\ vif' = [vif EXCEPT ![i] = r] /\ fw' = fw /\ opened' = opened
        /\ user' = IF user.pc = "chg" THEN [user EXCEPT !.pc = "back", !.type = vif[i].type] ELSE Idle
    BY <1>1, <1>6 DEF ChangeOpen
  <2>2. r \in Vifs /\ r.used = vif[i].used /\ r.in = vif[i].in /\ r.opened = vif[i].opened /\ r.ev
    BY <1>2, EventRecord
  <2> HIDE DEF r
  <2>3. /\ vif' \in [Ids -> Vifs] /\ (\A j \in Ids \ {i} : vif'[j] = vif[j]) /\ vif'[i] = r
        /\ OpenSet(vif') = OpenSet(vif)
    BY <1>2, <2>1, <2>2, OneVif, OneSame DEF LifeInv, TypeInv
  <2>4. user' \in Users /\ user'.pc \in {"idle", "back"} /\ (user'.pc = "back" => user'.i = i)
    <3>1. vif[i].type \in Types
      BY <1>2 DEF Vifs
    <3>2. CASE user.pc = "chg"
      BY <1>2, <2>1, <3>1, <3>2 DEF LifeInv, TypeInv, Users, UserPcs
    <3>3. CASE user.pc # "chg"
      BY <2>1, <3>3, IdleUser
    <3> QED
      BY <3>2, <3>3
  <2>5. TypeInv'
    BY <1>1, <2>1, <2>3, <2>4 DEF LifeInv, TypeInv
  <2>6. NumberInv'
    BY <1>1, <1>2, <1>3, <2>1, <2>2, <2>4, OneNumber DEF LifeInv, TypeInv, NumberInv
  <2>7. CountInv'
    BY <1>4, <2>1, <2>3, CountSame DEF LifeInv
  <2>8. FwInv'
    BY <1>1, <1>4, <2>1, <2>2, <2>3 DEF LifeInv, FwInv
  <2>9. EventInv'
    BY <1>4, <2>2, <2>3 DEF LifeInv, EventInv
  <2> QED
    BY <1>1, <1>4, <2>5, <2>6, <2>7, <2>8, <2>9, SameLinks DEF LifeInv
<1> QED
  BY <1>5, <1>6
-----------------------------------------------------------------------------
(* The firmware and the notifier. *)

LEMMA CrashInv ==
  ASSUME LifeInv, Crash
  PROVE  LifeInv'
<1>1. /\ nf = "idle" /\ fw' = DeadFw
      /\ UNCHANGED <<vif, opened, link, host, user, rm, rdlock, flag, rec, nf, odd>>
  BY DEF Crash, fwKeeps
<1>2. fw' \in Fws /\ ~fw'.up /\ fw'.open = {}
  BY <1>1 DEF DeadFw, Fws
<1>3. FwInv'
  BY <1>1, <1>2 DEF LifeInv, FwInv
<1> QED
  BY <1>1, <1>2, <1>3, KeepNumber, KeepCount, KeepEvent, SameLinks DEF LifeInv, TypeInv

LEMMA NotifierInv ==
  ASSUME LifeInv, Notifier
  PROVE  LifeInv'
<1>1. CASE NfAssert
  <2>1. /\ ~fw.up /\ flag' = [flag EXCEPT !.assert = TRUE, !.nf = TRUE]
        /\ rec' = [rec EXCEPT !.q = FALSE] /\ nf' = "cancel"
        /\ UNCHANGED <<vif, opened, link, host, user, rm, rdlock, fw, odd>>
    BY <1>1 DEF NfAssert, fwKeeps
  <2>2. flag' \in Flags /\ flag'.assert /\ flag'.chiprec = flag.chiprec /\ rec' \in Recs
    BY <2>1 DEF LifeInv, TypeInv, Flags, Recs
  <2>3. FwInv'
    BY <2>1, <2>2 DEF LifeInv, FwInv
  <2> QED
    BY <2>1, <2>2, <2>3, KeepNumber, KeepCount, KeepEvent, SameLinks DEF LifeInv, TypeInv
<1>2. CASE NfCancel
  <2>1. /\ nf = "cancel" /\ nf' = "booting" /\ rec' = [rec EXCEPT !.q = FALSE]
        /\ UNCHANGED <<vif, opened, link, host, user, rm, rdlock, fw, flag, odd>>
    BY <1>2 DEF NfCancel, fwKeeps
  <2>2. rec' \in Recs
    BY <2>1 DEF LifeInv, TypeInv, Recs
  <2>3. FwInv'
    BY <2>1 DEF LifeInv, FwInv
  <2> QED
    BY <2>1, <2>2, <2>3, KeepNumber, KeepCount, KeepEvent, SameLinks DEF LifeInv, TypeInv
<1>3. CASE NfReady
  <2>1. /\ nf = "booting" /\ fw' = [fw EXCEPT !.up = TRUE] /\ nf' = "idle"
        /\ flag' = [flag EXCEPT !.nf = FALSE] /\ (rec' = rec \/ rec' = [rec EXCEPT !.q = TRUE])
        /\ UNCHANGED <<vif, opened, link, host, user, rm, rdlock, odd>>
    BY <1>3 DEF NfReady, fwKeeps
  <2>2. /\ flag' \in Flags /\ flag'.assert = flag.assert /\ flag'.chiprec = flag.chiprec
        /\ fw' \in Fws /\ fw'.up /\ fw'.open = fw.open
    BY <2>1 DEF LifeInv, TypeInv, Flags, Fws
  <2>3. rec' \in Recs
    BY <2>1 DEF LifeInv, TypeInv, Recs
  <2>4. FwInv'
    BY <2>1, <2>2 DEF LifeInv, FwInv
  <2> QED
    BY <2>1, <2>2, <2>3, <2>4, KeepNumber, KeepCount, KeepEvent, SameLinks DEF LifeInv, TypeInv
<1> QED
  BY <1>1, <1>2, <1>3 DEF Notifier
-----------------------------------------------------------------------------
(* The recovery. *)

\* A step of the recovery that leaves the table alone and the firmware open.
LEMMA RecKeeps ==
  ASSUME LifeInv, PeerInv', vif' = vif, opened' = opened, link' \in [Ids -> Links],
         fw' \in Fws, fw'.up = fw.up, fw'.open = fw.open,
         flag' \in Flags, flag'.assert = flag.assert, user' = user, rec' \in Recs,
         nf' = nf, rm' = rm, rdlock' \in {"free", "rec", "rm"}, odd \subseteq odd'
  PROVE  LifeInv'
BY KeepNumber, KeepCount, KeepFw, KeepEvent DEF LifeInv, TypeInv

LEMMA RecStartInv ==
  ASSUME LifeInv, RecStart
  PROVE  LifeInv'
<1>1. /\ rec' = [q |-> FALSE, pc |-> "prep", k |-> 0]
      /\ UNCHANGED <<vif, opened, link, host, fw, flag, user, nf, rm, rdlock, odd, left>>
  BY DEF RecStart
<1>2. rec' \in Recs
  BY <1>1 DEF Recs, RecPcs
<1> QED
  BY <1>1, <1>2, SameLinks, RecKeeps DEF LifeInv, TypeInv

\* A peer kept, or dropped, by the recovery.
LEMMA KeptRecord ==
  ASSUME NEW l \in Links, Held(l) <= l.heap
  PROVE  /\ LET d == [l EXCEPT !.ctx = FALSE] IN
            /\ d \in Links /\ Held(d) <= d.heap
            /\ ~l.ctx /\ l.heap = Held(l) => d.heap = Held(d)
         /\ LET s == [l EXCEPT !.ctx = FALSE, !.rd = l.ctx, !.told = FALSE] IN
            /\ s \in Links
            /\ ~l.rd => Held(s) <= s.heap
            /\ ~l.rd /\ l.heap = Held(l) => s.heap = Held(s)
<1>1. l.ctx \in BOOLEAN /\ l.rd \in BOOLEAN /\ l.heap \in Nat /\ Bit(l.rd) \in {0, 1} /\ Bit(l.ctx) \in {0, 1}
  BY DEF Links, Bit
<1> DEFINE d == [l EXCEPT !.ctx = FALSE]
           s == [l EXCEPT !.ctx = FALSE, !.rd = l.ctx, !.told = FALSE]
<1>2. d \in Links /\ d.ctx = FALSE /\ d.rd = l.rd /\ d.heap = l.heap
  BY DEF Links
<1>3. s \in Links /\ s.ctx = FALSE /\ s.rd = l.ctx /\ s.heap = l.heap
  BY DEF Links
<1> HIDE DEF d, s
<1>4. Held(d) = Bit(l.rd) /\ Held(s) = Bit(l.ctx)
  BY <1>1, <1>2, <1>3 DEF Held, Bit
<1>5. Held(l) = Bit(l.ctx) + Bit(l.rd) /\ (~l.ctx => Bit(l.ctx) = 0) /\ (~l.rd => Bit(l.rd) = 0)
  BY DEF Held, Bit
<1> QED
  BY <1>1, <1>2, <1>3, <1>4, <1>5 DEF d, s

LEMMA RecPrepareInv ==
  ASSUME LifeInv, RecPrepare
  PROVE  LifeInv'
<1>1. /\ flag' = [flag EXCEPT !.chiprec = TRUE] /\ rec' = [rec EXCEPT !.pc = "clear"]
      /\ UNCHANGED <<vif, opened, host, fw, rdlock, left, user, nf, rm>>
  BY DEF RecPrepare, recKeeps
<1>2. /\ flag' \in Flags /\ flag'.chiprec = TRUE /\ flag'.assert = flag.assert /\ rec' \in Recs
  BY <1>1 DEF LifeInv, TypeInv, Flags, Recs, RecPcs
<1>3. \A i \in Ids : link[i] \in Links /\ Held(link[i]) <= link[i].heap
  BY DEF LifeInv, TypeInv, PeerInv
<1>4. CASE flag.chiprec
  <2>1. /\ link' = [i \in Ids |-> [link[i] EXCEPT !.ctx = FALSE]]
        /\ odd' = odd \cup Mark(\E i \in Ids : link[i].ctx, "second")
    BY <1>4 DEF RecPrepare
  <2>2. odd \subseteq odd' /\ ("second" \notin odd' => \A i \in Ids : ~link[i].ctx)
    BY <2>1 DEF Mark
  <2>3. link' \in [Ids -> Links] /\ \A i \in Ids : Held(link'[i]) <= link'[i].heap
    BY <1>3, <2>1, KeptRecord
  <2>4. "second" \notin odd' => \A i \in Ids : link'[i].heap = Held(link'[i])
    BY <1>3, <2>1, <2>2, KeptRecord DEF LifeInv, PeerInv
  <2>5. PeerInv'
    BY <1>2, <2>3, <2>4 DEF PeerInv, Held, Bit
  <2> QED
    BY <1>1, <1>2, <2>2, <2>3, <2>5, RecKeeps DEF LifeInv, TypeInv
<1>5. CASE ~flag.chiprec
  <2>1. /\ link' = [i \in Ids |-> [link[i] EXCEPT !.ctx = FALSE, !.rd = link[i].ctx, !.told = FALSE]]
        /\ odd' = odd
    BY <1>5 DEF RecPrepare
  <2>2. \A i \in Ids : ~link[i].rd
    BY <1>5 DEF LifeInv, PeerInv
  <2>3. link' \in [Ids -> Links] /\ \A i \in Ids : Held(link'[i]) <= link'[i].heap
    BY <1>3, <2>1, <2>2, KeptRecord
  <2>4. "second" \notin odd' => \A i \in Ids : link'[i].heap = Held(link'[i])
    BY <1>3, <2>1, <2>2, KeptRecord DEF LifeInv, PeerInv
  <2>5. PeerInv'
    BY <1>2, <2>3, <2>4 DEF PeerInv, Held, Bit
  <2> QED
    BY <1>1, <1>2, <2>1, <2>3, <2>5, RecKeeps DEF LifeInv, TypeInv
<1> QED
  BY <1>4, <1>5

LEMMA RecClearInv ==
  ASSUME LifeInv, RecClear
  PROVE  LifeInv'
<1>1. /\ opened' = 0 /\ vif' = [i \in Ids |-> [vif[i] EXCEPT !.opened = vif[i].opened /\ ~vif[i].in]]
      /\ flag' = [flag EXCEPT !.assert = FALSE] /\ rec' = [rec EXCEPT !.pc = "sync"]
      /\ odd' = odd \ {"twice", "close", "missed"}
      /\ UNCHANGED <<link, host, fw, rdlock, left, user, nf, rm>>
  BY DEF RecClear, recKeeps
<1>2. ASSUME NEW v \in Vifs, NEW b \in BOOLEAN
      PROVE  LET r == [v EXCEPT !.opened = b] IN
             r \in Vifs /\ r.opened = b /\ r.used = v.used /\ r.in = v.in /\ r.ev = v.ev
  BY DEF Vifs
<1>3. \A i \in Ids : vif[i] \in Vifs /\ (vif[i].opened /\ ~vif[i].in) = FALSE
  BY DEF LifeInv, TypeInv, NumberInv
<1>4. vif' \in [Ids -> Vifs]
  BY <1>1, <1>2, <1>3
<1>5. \A i \in Ids : /\ ~vif'[i].opened /\ vif'[i].used = vif[i].used /\ vif'[i].in = vif[i].in
                     /\ vif'[i].ev = vif[i].ev
  BY <1>1, <1>2, <1>3
<1>6. /\ flag' \in Flags /\ flag'.chiprec = flag.chiprec /\ rec' \in Recs
  BY <1>1 DEF LifeInv, TypeInv, Flags, Recs, RecPcs
<1>7. TypeInv'
  BY <1>1, <1>4, <1>6 DEF LifeInv, TypeInv
<1>8. NumberInv'
  <2>1. NumbersHeld'
    BY <1>1, <1>5 DEF LifeInv, NumberInv, NumbersHeld
  <2>2. user.i \in Ids
    BY DEF LifeInv, TypeInv, Users
  <2> QED
    BY <1>1, <1>5, <2>1, <2>2 DEF LifeInv, NumberInv
<1>9. CountInv'
  <2>1. OpenSet(vif') = {}
    BY <1>5 DEF OpenSet
  <2> QED
    BY <1>1, <2>1, CountNone
<1>10. FwInv'
  BY <1>1, <1>5 DEF LifeInv, FwInv
<1>11. EventInv'
  BY <1>1, <1>5 DEF LifeInv, EventInv
<1>12. PeerInv'
  BY <1>1, <1>6 DEF LifeInv, PeerInv, Held, Bit
<1> QED
  BY <1>7, <1>8, <1>9, <1>10, <1>11, <1>12 DEF LifeInv

LEMMA RecSyncInv ==
  ASSUME LifeInv, NEW ok \in BOOLEAN, RecSync(ok)
  PROVE  LifeInv'
<1>1. /\ rec' = [rec EXCEPT !.pc = IF ok THEN "open" ELSE "idle"]
      /\ odd' = odd \cup Mark(~ok /\ fw.up, "silent")
      /\ UNCHANGED <<vif, opened, link, host, fw, flag, rdlock, user, nf, rm>>
  BY DEF RecSync, recKeeps
<1>2. rec' \in Recs /\ odd \subseteq odd'
  BY <1>1 DEF LifeInv, TypeInv, Recs, RecPcs
<1> QED
  BY <1>1, <1>2, SameLinks, RecKeeps DEF LifeInv, TypeInv

\* The interface the loops are at.
LEMMA AnInterface == ASSUME NEW k \in Nat PROVE k % N \in Ids
<1> DEFINE n == N
<1>1. n \in Nat \ {0} /\ Ids = 0 .. n - 1
  BY IdsNat, LifeAssumption DEF N
<1> HIDE DEF n
<1>2. k % n \in 0 .. n - 1
  BY <1>1
<1> QED
  BY <1>1, <1>2 DEF n

LEMMA RecOpenInv ==
  ASSUME LifeInv, NEW ok \in BOOLEAN, RecOpen(ok)
  PROVE  LifeInv'
<1> DEFINE k == Min(Visits)
           i == k % N
<1>1. UNCHANGED <<link, host, rdlock, user, nf, rm>> /\ Visits # {}
  BY DEF RecOpen, recKeeps
<1>2. k \in Nat /\ Due(k)
  <2>1. Visits \in SUBSET Nat
    BY DEF LifeInv, TypeInv, Recs, Visits
  <2>2. k \in Visits
    BY <1>1, <2>1, MinimumExists
  <2> QED
    BY <2>1, <2>2 DEF Visits
<1>3. i \in Ids /\ vif[i].in /\ vif[i] \in Vifs
  BY <1>2, AnInterface DEF Due, LifeInv, TypeInv
<1>4. CASE flag.assert
  <2>1. rec' = [rec EXCEPT !.pc = "idle"] /\ UNCHANGED <<vif, opened, fw, flag, odd, left>>
    BY <1>4 DEF RecOpen
  <2>2. rec' \in Recs
    BY <2>1 DEF LifeInv, TypeInv, Recs, RecPcs
  <2> QED
    BY <1>1, <2>1, <2>2, SameLinks, RecKeeps DEF LifeInv, TypeInv
<1>5. CASE ~flag.assert /\ ok
  <2> DEFINE r == [vif[i] EXCEPT !.opened = TRUE]
  <2>1. /\ vif' = [vif EXCEPT ![i] = r] /\ opened' = opened + 1
        /\ fw' = [fw EXCEPT !.open = fw.open \cup {i}] /\ rec' = [rec EXCEPT !.pc = "lock", !.k = k]
        /\ odd' = odd \cup Mark(vif[i].opened, "twice") /\ flag' = flag /\ fw.up
    BY <1>5 DEF RecOpen, Outcome, Live
  <2> HIDE DEF k, i
  <2>2. r \in Vifs /\ r.used = vif[i].used /\ r.in = vif[i].in /\ r.opened /\ r.ev = vif[i].ev
    BY <1>3 DEF Vifs
  <2> HIDE DEF r
  <2>3. /\ vif' \in [Ids -> Vifs] /\ (\A j \in Ids \ {i} : vif'[j] = vif[j]) /\ vif'[i] = r
        /\ OpenSet(vif') = OpenSet(vif) \cup {i} /\ (i \in OpenSet(vif) <=> vif[i].opened)
    BY <1>3, <2>1, <2>2, OneVif DEF LifeInv, TypeInv
  <2>4. fw' \in Fws /\ fw'.up = fw.up /\ fw'.open = fw.open \cup {i}
    BY <1>3, <2>1 DEF LifeInv, TypeInv, Fws
  <2>5. rec' \in Recs
    BY <1>2, <2>1 DEF LifeInv, TypeInv, Recs, RecPcs
  <2>6. odd \subseteq odd' /\ (vif[i].opened => "twice" \in odd')
    BY <2>1 DEF Mark
  <2>7. TypeInv'
    BY <1>1, <2>1, <2>3, <2>4, <2>5 DEF LifeInv, TypeInv
  <2>8. NumberInv'
    <3>1. \A j \in Ids : vif'[j].used = vif[j].used /\ vif'[j].in = vif[j].in
      BY <2>2, <2>3
    <3>2. NumbersHeld'
      BY <1>1, <3>1 DEF LifeInv, NumberInv, NumbersHeld
    <3>3. user.i \in Ids
      BY DEF LifeInv, TypeInv, Users
    <3>4. \A j \in Ids : vif'[j].opened => vif'[j].in
      BY <1>3, <2>2, <2>3 DEF LifeInv, NumberInv
    <3> QED
      BY <1>1, <3>1, <3>2, <3>3, <3>4 DEF LifeInv, NumberInv
  <2>9. CountInv'
    <3>1. CASE vif[i].opened
      <4>1. OpenSet(vif') = OpenSet(vif)
        BY <2>3, <3>1
      <4> QED
        BY <2>1, <2>6, <3>1, <4>1, CountTwice DEF LifeInv, TypeInv
    <3>2. CASE ~vif[i].opened
      BY <1>3, <2>1, <2>3, <2>6, <3>2, CountUp DEF LifeInv, TypeInv
    <3> QED
      BY <3>1, <3>2
  <2>10. FwInv'
    BY <1>1, <2>1, <2>3, <2>4, <2>6 DEF LifeInv, FwInv
  <2>11. EventInv'
    BY <1>1, <2>2, <2>3, <2>6 DEF LifeInv, EventInv
  <2> QED
    BY <1>1, <2>1, <2>6, <2>7, <2>8, <2>9, <2>10, <2>11, SameLinks DEF LifeInv
<1>6. CASE ~flag.assert /\ ~ok
  <2>1. /\ flag' = [flag EXCEPT !.assert = TRUE] /\ fw' = DeadFw /\ rec' = [rec EXCEPT !.pc = "idle"]
        /\ UNCHANGED <<vif, opened, odd>>
    BY <1>6 DEF RecOpen
  <2>2. /\ flag' \in Flags /\ flag'.assert /\ flag'.chiprec = flag.chiprec /\ rec' \in Recs
        /\ fw' \in Fws /\ ~fw'.up /\ fw'.open = {}
    BY <2>1 DEF LifeInv, TypeInv, Flags, Recs, RecPcs, DeadFw, Fws
  <2>3. FwInv'
    BY <1>1, <2>1, <2>2 DEF LifeInv, FwInv
  <2> QED
    BY <1>1, <2>1, <2>2, <2>3, KeepNumber, KeepCount, KeepEvent, SameLinks DEF LifeInv, TypeInv
<1> QED
  BY <1>4, <1>5, <1>6

LEMMA RecLockInv ==
  ASSUME LifeInv, RecLock
  PROVE  LifeInv'
<1>1. /\ rdlock' = "rec" /\ rec' = [rec EXCEPT !.pc = "body"]
      /\ UNCHANGED <<vif, opened, link, host, fw, flag, odd, left, user, nf, rm>>
  BY DEF RecLock, recKeeps
<1>2. rec' \in Recs
  BY <1>1 DEF LifeInv, TypeInv, Recs, RecPcs
<1> QED
  BY <1>1, <1>2, SameLinks, RecKeeps DEF LifeInv, TypeInv

\* The interface of the loops is told, or not, that its peer is gone.
LEMMA ToldRecord ==
  ASSUME NEW l \in Links
  PROVE  LET t == [l EXCEPT !.told = TRUE] IN
         t \in Links /\ t.rd = l.rd /\ t.heap = l.heap /\ Held(t) = Held(l)
BY DEF Links, Held, Bit

LEMMA ToldFits ==
  ASSUME LifeInv, NEW i \in Ids, link' = link \/ link' = [link EXCEPT ![i] = [link[i] EXCEPT !.told = TRUE]],
         odd \subseteq odd', flag' = flag
  PROVE  PeerInv' /\ link' \in [Ids -> Links]
<1>1. link[i] \in Links /\ Held(link[i]) <= link[i].heap
  BY DEF LifeInv, TypeInv, PeerInv
<1>2. CASE link' = link
  BY <1>2, SameLinks DEF LifeInv, TypeInv
<1>3. CASE link' = [link EXCEPT ![i] = [link[i] EXCEPT !.told = TRUE]]
  BY <1>1, <1>3, ToldRecord, OneLink DEF LifeInv, TypeInv
<1> QED
  BY <1>2, <1>3

LEMMA RecStaInv ==
  ASSUME LifeInv, NEW ok \in BOOLEAN, NEW same \in BOOLEAN, RecSta(ok, same)
  PROVE  LifeInv'
<1> DEFINE i == rec.k % N
<1>1. /\ rdlock' = "free" /\ rec' = [rec EXCEPT !.pc = "open", !.k = rec.k + 1]
      /\ UNCHANGED <<vif, opened, flag, odd, user, nf, rm>>
  BY DEF RecSta, recKeeps
<1>2. rec.k \in Nat /\ rec' \in Recs
  <2>1. rec.k \in Nat /\ rec.k + 1 \in Nat /\ rec \in Recs
    BY DEF LifeInv, TypeInv, Recs
  <2> QED
    BY <1>1, <2>1 DEF Recs, RecPcs
<1>3. i \in Ids
  BY <1>2, AnInterface
<1>4. /\ link' = link \/ link' = [link EXCEPT ![i] = [link[i] EXCEPT !.told = TRUE]]
      /\ fw' = fw \/ fw' = [fw EXCEPT !.peers = fw.peers \ {i}]
  BY DEF RecSta
<1> HIDE DEF i
<1>5. PeerInv' /\ link' \in [Ids -> Links]
  BY <1>1, <1>3, <1>4, ToldFits
<1>6. fw' \in Fws /\ fw'.up = fw.up /\ fw'.open = fw.open
  BY <1>4 DEF LifeInv, TypeInv, Fws
<1> QED
  BY <1>1, <1>2, <1>5, <1>6, RecKeeps DEF LifeInv, TypeInv

LEMMA RecSapInv ==
  ASSUME LifeInv, NEW ok \in BOOLEAN, RecSap(ok)
  PROVE  LifeInv'
<1> DEFINE i == rec.k % N
<1>1. /\ rdlock' = "free" /\ rec' = [rec EXCEPT !.pc = "open", !.k = rec.k + 1]
      /\ UNCHANGED <<vif, opened, flag, user, nf, rm>>
  BY DEF RecSap, recKeeps
<1>2. rec.k \in Nat /\ rec' \in Recs
  <2>1. rec.k \in Nat /\ rec.k + 1 \in Nat /\ rec \in Recs
    BY DEF LifeInv, TypeInv, Recs
  <2> QED
    BY <1>1, <2>1 DEF Recs, RecPcs
<1>3. i \in Ids
  BY <1>2, AnInterface
<1>4. /\ link' = link \/ link' = [link EXCEPT ![i] = [link[i] EXCEPT !.told = TRUE]]
      /\ fw' = fw \/ fw' = [fw EXCEPT !.ap = fw.ap \cup {i}, !.peers = fw.peers \ {i}]
      /\ odd \subseteq odd'
  BY DEF RecSap
<1> HIDE DEF i
<1>5. PeerInv' /\ link' \in [Ids -> Links]
  BY <1>1, <1>3, <1>4, ToldFits
<1>6. fw' \in Fws /\ fw'.up = fw.up /\ fw'.open = fw.open
  <2>1. fw \in Fws /\ fw.ap \cup {i} \in SUBSET Ids /\ fw.peers \ {i} \in SUBSET Ids
    BY <1>3 DEF LifeInv, TypeInv, Fws
  <2>2. CASE fw' = [fw EXCEPT !.ap = fw.ap \cup {i}, !.peers = fw.peers \ {i}]
    BY <2>1, <2>2 DEF Fws
  <2> QED
    BY <1>4, <2>1, <2>2
<1> QED
  BY <1>1, <1>2, <1>4, <1>5, <1>6, RecKeeps DEF LifeInv, TypeInv

\* The peers kept by the recovery are freed, by it or by the removal.
LEMMA FreeAll ==
  ASSUME LifeInv, link' = [i \in Ids |-> FreeSaved(link[i])], odd \subseteq odd'
  PROVE  PeerInv' /\ link' \in [Ids -> Links]
<1>1. \A i \in Ids : link[i] \in Links /\ Held(link[i]) <= link[i].heap
  BY DEF LifeInv, TypeInv, PeerInv
<1>2. link' \in [Ids -> Links] /\ \A i \in Ids : Held(link'[i]) <= link'[i].heap /\ ~link'[i].rd
  BY <1>1, FreeRecord
<1>3. "second" \notin odd' => \A i \in Ids : link'[i].heap = Held(link'[i])
  BY <1>1, FreeRecord DEF LifeInv, PeerInv
<1> QED
  BY <1>2, <1>3 DEF PeerInv, Held, Bit

LEMMA RecDoneInv ==
  ASSUME LifeInv, RecDone
  PROVE  LifeInv'
<1>1. /\ link' = [i \in Ids |-> FreeSaved(link[i])] /\ odd \subseteq odd'
      /\ flag' = [flag EXCEPT !.chiprec = FALSE] /\ rec' = [rec EXCEPT !.pc = "idle"]
      /\ UNCHANGED <<vif, opened, host, fw, rdlock, left, user, nf, rm>>
  BY DEF RecDone, recKeeps
<1>2. flag' \in Flags /\ flag'.assert = flag.assert /\ rec' \in Recs
  BY <1>1 DEF LifeInv, TypeInv, Flags, Recs, RecPcs
<1> QED
  BY <1>1, <1>2, FreeAll, RecKeeps DEF LifeInv, TypeInv
-----------------------------------------------------------------------------
(* The removal. *)

LEMMA RmDeleteInv ==
  ASSUME LifeInv, NEW i \in Ids, RmDelete(i)
  PROVE  LifeInv'
<1> DEFINE ok == Live /\ CanSend(i)
<1>1. /\ rm = "del" /\ vif[i].in /\ vif' = [vif EXCEPT ![i] = NoVif]
      /\ opened' = IF ok THEN opened - 1 ELSE opened
      /\ link' = IF ok \/ vif[i].type = "sta" THEN [link EXCEPT ![i] = Unbind(link[i])] ELSE link
      /\ odd' = odd \cup Mark(~ok /\ vif[i].opened, "close")
      /\ UNCHANGED <<flag, user, rec, nf, rm, rdlock, left>>
  BY DEF RmDelete
<1>2. fw' = IF ok THEN [FwForget(fw, i) EXCEPT !.open = fw.open \ {i}] ELSE fw
  <2>1. FwForget(fw, i).open = fw.open
    BY ForgetRecord DEF LifeInv, TypeInv
  <2> QED
    BY <2>1 DEF RmDelete
<1>3. odd \subseteq odd' /\ (~ok /\ vif[i].opened => "close" \in odd') /\ (ok => vif[i].opened)
  BY <1>1 DEF Mark, CanSend
<1> HIDE DEF ok
<1>4. /\ vif' \in [Ids -> Vifs] /\ (\A j \in Ids \ {i} : vif'[j] = vif[j]) /\ vif'[i] = NoVif
      /\ OpenSet(vif') = OpenSet(vif) \ {i} /\ (i \in OpenSet(vif) <=> vif[i].opened)
  BY <1>1, NoRecord, OneVif DEF LifeInv, TypeInv
<1>5. user.pc = "idle" /\ user \in Users
  BY <1>1 DEF LifeInv, TypeInv, NumberInv
<1>6. NumberInv'
  BY <1>1, <1>5, NoRecord, OneNumber DEF LifeInv, TypeInv
<1>7. CountInv' /\ opened' \in Nat
  <2>1. CASE ok
    BY <1>1, <1>3, <1>4, <2>1, CountDown DEF LifeInv, TypeInv
  <2>2. CASE ~ok /\ vif[i].opened
    BY <1>1, <1>3, <1>4, <2>2, CountLose DEF LifeInv, TypeInv
  <2>3. CASE ~ok /\ ~vif[i].opened
    <3>1. OpenSet(vif') = OpenSet(vif)
      BY <1>4, <2>3
    <3> QED
      BY <1>1, <1>3, <2>3, <3>1, CountSame DEF LifeInv, TypeInv
  <2> QED
    BY <2>1, <2>2, <2>3
<1>8. fw' \in Fws /\ fw'.up = fw.up /\ (fw' = fw \/ fw'.open = fw.open \ {i})
  <2> DEFINE f == FwForget(fw, i)
  <2>1. f \in Fws /\ f.up = fw.up
    BY ForgetRecord DEF LifeInv, TypeInv
  <2> HIDE DEF f
  <2>2. LET g == [f EXCEPT !.open = fw.open \ {i}] IN g \in Fws /\ g.up = fw.up /\ g.open = fw.open \ {i}
    BY <2>1 DEF Fws, LifeInv, TypeInv
  <2> QED
    BY <1>2, <2>2 DEF f, LifeInv, TypeInv
<1>9. FwInv'
  BY <1>1, <1>3, <1>4, <1>8, NoRecord DEF LifeInv, FwInv
<1>10. EventInv'
  BY <1>1, <1>3, <1>4, NoRecord DEF LifeInv, EventInv
<1>11. PeerInv' /\ link' \in [Ids -> Links]
  <2>1. link[i] \in Links /\ Held(link[i]) <= link[i].heap
    BY DEF LifeInv, TypeInv, PeerInv
  <2>2. CASE link' = link
    BY <1>1, <1>3, <2>2, SameLinks DEF LifeInv, TypeInv
  <2>3. CASE link' = [link EXCEPT ![i] = Unbind(link[i])]
    BY <1>1, <1>3, <2>1, <2>3, UnbindRecord, OneLink DEF LifeInv, TypeInv
  <2> QED
    BY <1>1, <2>2, <2>3
<1>12. TypeInv'
  BY <1>1, <1>4, <1>7, <1>8, <1>11 DEF LifeInv, TypeInv
<1> QED
  BY <1>6, <1>7, <1>9, <1>10, <1>11, <1>12 DEF LifeInv

LEMMA RemovalInv ==
  ASSUME LifeInv, Remove \/ Removal
  PROVE  LifeInv'
<1>1. CASE Remove
  <2>1. /\ rm' = "unreg"
        /\ UNCHANGED <<vif, opened, link, host, fw, flag, user, rec, nf, rdlock, odd>>
    BY <1>1 DEF Remove
  <2>2. NumberInv'
    BY <2>1 DEF LifeInv, NumberInv, NumbersHeld
  <2> QED
    BY <2>1, <2>2, KeepCount, KeepFw, KeepEvent, SameLinks DEF LifeInv, TypeInv, RmPcs
<1>2. CASE RmUnregister
  <2>1. /\ rm' = "del" /\ nf' = "idle" /\ user.pc = "idle"
        /\ UNCHANGED <<vif, opened, link, host, fw, flag, user, rec, rdlock, odd, left>>
    BY <1>2 DEF RmUnregister
  <2>2. NumberInv'
    BY <2>1 DEF LifeInv, NumberInv, NumbersHeld
  <2>3. FwInv'
    BY <2>1 DEF LifeInv, FwInv
  <2> QED
    BY <2>1, <2>2, <2>3, KeepCount, KeepEvent, SameLinks DEF LifeInv, TypeInv, RmPcs
<1>3. CASE \E i \in Ids : RmDelete(i)
  BY <1>3, RmDeleteInv
<1>4. CASE RmDeleted
  <2>1. /\ rm' = "lock"
        /\ UNCHANGED <<vif, opened, link, host, fw, flag, user, rec, nf, rdlock, odd, left>>
    BY <1>4 DEF RmDeleted
  <2>2. NumberInv'
    BY <2>1 DEF LifeInv, NumberInv, NumbersHeld
  <2> QED
    BY <2>1, <2>2, KeepCount, KeepFw, KeepEvent, SameLinks DEF LifeInv, TypeInv, RmPcs
<1>5. CASE RmLock
  <2>1. /\ rdlock' = "rm" /\ rm' = "cancel"
        /\ UNCHANGED <<vif, opened, link, host, fw, flag, user, rec, nf, odd, left>>
    BY <1>5 DEF RmLock
  <2>2. NumberInv'
    BY <2>1 DEF LifeInv, NumberInv, NumbersHeld
  <2> QED
    BY <2>1, <2>2, KeepCount, KeepFw, KeepEvent, SameLinks DEF LifeInv, TypeInv, RmPcs
<1>6. CASE RmCancel
  <2>1. /\ link' = [i \in Ids |-> FreeSaved(link[i])]
        /\ rdlock' = "free" /\ rm' = "gone" /\ rec' = [rec EXCEPT !.q = FALSE]
        /\ UNCHANGED <<vif, opened, host, fw, flag, user, nf, odd, left>>
    BY <1>6 DEF RmCancel
  <2>2. rec' \in Recs
    BY <2>1 DEF LifeInv, TypeInv, Recs
  <2>3. NumberInv'
    BY <2>1 DEF LifeInv, NumberInv, NumbersHeld
  <2> QED
    BY <2>1, <2>2, <2>3, FreeAll, KeepCount, KeepFw, KeepEvent DEF LifeInv, TypeInv, RmPcs
<1> QED
  BY <1>1, <1>2, <1>3, <1>4, <1>5, <1>6 DEF Removal
-----------------------------------------------------------------------------
(* Every step, and the theorem. *)

LEMMA UserInv ==
  ASSUME LifeInv, User \/ UserStep
  PROVE  LifeInv'
<1>1. ASSUME NEW i \in Ids, NEW ok \in BOOLEAN, StartAp(i, ok) \/ Leave(i, ok) \/ ChangeBegin(i, ok)
      PROVE  LifeInv'
  BY <1>1, StartApInv, LeaveInv, ChangeBeginInv
<1>2. ASSUME NEW i \in Ids, Connect(i) \/ DelBegin(i) PROVE LifeInv'
  BY <1>2, ConnectInv, DelBeginInv
<1>3. ASSUME NEW t \in Types, AddBegin(t) PROVE LifeInv'
  BY <1>3, AddBeginInv
<1>4. ASSUME NEW ok \in BOOLEAN, AddOpen(ok) \/ AddReg(ok) \/ DelClose(ok) \/ ChangeOpen(ok)
      PROVE  LifeInv'
  BY <1>4, AddOpenInv, AddRegInv, DelCloseInv, ChangeOpenInv
<1>5. CASE AddMark \/ DelFree
  BY <1>5, AddMarkInv, DelFreeInv
<1> QED
  BY <1>1, <1>2, <1>3, <1>4, <1>5 DEF User, UserStep

LEMMA RecoveryInv ==
  ASSUME LifeInv, Recovery
  PROVE  LifeInv'
<1>1. CASE RecStart \/ RecPrepare \/ RecClear \/ RecLock \/ RecDone
  BY <1>1, RecStartInv, RecPrepareInv, RecClearInv, RecLockInv, RecDoneInv
<1>2. ASSUME NEW ok \in BOOLEAN, RecSync(ok) \/ RecOpen(ok) \/ RecSap(ok) PROVE LifeInv'
  BY <1>2, RecSyncInv, RecOpenInv, RecSapInv
<1>3. ASSUME NEW ok \in BOOLEAN, NEW same \in BOOLEAN, RecSta(ok, same) PROVE LifeInv'
  BY <1>3, RecStaInv
<1> QED
  BY <1>1, <1>2, <1>3 DEF Recovery

LEMMA NextInv == LifeInv /\ [Next]_vars => LifeInv'
<1> SUFFICES ASSUME LifeInv, [Next]_vars PROVE LifeInv'
  OBVIOUS
<1>1. CASE User \/ UserStep
  BY <1>1, UserInv
<1>2. CASE Crash
  BY <1>2, CrashInv
<1>3. CASE Notifier
  BY <1>3, NotifierInv
<1>4. CASE Recovery
  BY <1>4, RecoveryInv
<1>5. CASE Remove \/ Removal
  BY <1>5, RemovalInv
<1>6. CASE UNCHANGED vars
  BY <1>6, SameLinks, RecKeeps DEF vars, LifeInv, TypeInv
<1> QED
  BY <1>1, <1>2, <1>3, <1>4, <1>5, <1>6 DEF Next

\* What Held counts is the number of the two places that hold the peer.
LEMMA HeldPlaces ==
  ASSUME NEW l \in Links
  PROVE  Cardinality({x \in {"ctx", "rd"} : l[x]}) = Held(l)
<1> DEFINE P == {x \in {"ctx", "rd"} : l[x]}
<1>1. l.ctx \in BOOLEAN /\ l.rd \in BOOLEAN
  BY DEF Links
<1> HIDE DEF P
<1>2. ASSUME l.ctx /\ l.rd PROVE Cardinality(P) = Held(l)
  <2>1. P = {"ctx", "rd"}
    BY <1>2 DEF P
  <2>2. Cardinality({"ctx"}) = 1 /\ IsFiniteSet({"ctx"})
    BY FS_Singleton
  <2>3. {"ctx", "rd"} = {"ctx"} \cup {"rd"} /\ "rd" \notin {"ctx"}
    OBVIOUS
  <2>4. Cardinality({"ctx", "rd"}) = 2
    BY <2>2, <2>3, FS_AddElement
  <2>5. Held(l) = 2
    BY <1>2 DEF Held, Bit
  <2> QED
    BY <2>1, <2>4, <2>5
<1>3. ASSUME l.ctx /\ ~l.rd PROVE Cardinality(P) = Held(l)
  <2>1. P = {"ctx"}
    BY <1>3 DEF P
  <2>2. Held(l) = 1
    BY <1>3 DEF Held, Bit
  <2> QED
    BY <2>1, <2>2, FS_Singleton
<1>4. ASSUME ~l.ctx /\ l.rd PROVE Cardinality(P) = Held(l)
  <2>1. P = {"rd"}
    BY <1>4 DEF P
  <2>2. Held(l) = 1
    BY <1>4 DEF Held, Bit
  <2> QED
    BY <2>1, <2>2, FS_Singleton
<1>5. ASSUME ~l.ctx /\ ~l.rd PROVE Cardinality(P) = Held(l)
  <2>1. P = {}
    BY <1>5 DEF P
  <2>2. Held(l) = 0
    BY <1>5 DEF Held, Bit
  <2> QED
    BY <2>1, <2>2, FS_EmptySet
<1>6. Cardinality(P) = Held(l)
  BY <1>1, <1>2, <1>3, <1>4, <1>5
<1> QED
  BY <1>6 DEF P

LEMMA LifeIsSound == LifeInv => Sound
<1> SUFFICES ASSUME LifeInv PROVE Sound
  OBVIOUS
<1>1. TypeOK
  <2>1. ASSUME NEW i \in Ids
        PROVE  /\ {vif[i].used, vif[i].in, vif[i].opened, vif[i].ev} \subseteq BOOLEAN
               /\ vif[i].type \in Types /\ link[i].heap \in Nat
               /\ {link[i].ctx, link[i].rd, link[i].told} \subseteq BOOLEAN
    <3>1. vif[i] \in Vifs /\ link[i] \in Links
      BY DEF LifeInv, TypeInv
    <3> QED
      BY <3>1 DEF Vifs, Links
  <2>2. fw.open \cup fw.peers \cup fw.ap \subseteq Ids
    BY DEF LifeInv, TypeInv, Fws
  <2> QED
    BY <2>1, <2>2 DEF TypeOK, LifeInv, TypeInv, Users, UserPcs, Recs, RecPcs, RmPcs
<1>2. NumbersHeld
  BY DEF LifeInv, NumberInv
<1>3. CountRight
  BY DEF LifeInv, CountInv
<1>4. OpenIsOpen
  BY DEF LifeInv, FwInv, EventInv, OpenIsOpen
<1>5. PeersKept
  <2>1. ASSUME NEW i \in Ids
        PROVE  Cardinality({x \in {"ctx", "rd"} : link[i][x]}) = Held(link[i])
    BY HeldPlaces DEF LifeInv, TypeInv
  <2> QED
    BY <2>1 DEF LifeInv, PeerInv, PeersKept
<1> QED
  BY <1>1, <1>2, <1>3, <1>4, <1>5 DEF Sound

\* However the user, the crashes, the recovery and the removal interleave: numbers, opened_dev,
\* the open interfaces of the firmware and the peers agree with the table, but in the cases `odd`
\* names (skw_iface.c, skw_recovery.c).
THEOREM LivesAreSound == Spec => []Sound
<1>1. Init => LifeInv
  BY InitInv
<1>2. LifeInv /\ [Next]_vars => LifeInv'
  BY NextInv
<1>3. LifeInv => Sound
  BY LifeIsSound
<1> QED
  BY <1>1, <1>2, <1>3, PTL DEF Spec
-----------------------------------------------------------------------------
(* The timer list. *)

Timer == [id : TimerIds, due : Nat, gen : Nat]
Call == [gen : Nat, at : Nat, due : Nat]

\* What is removed, put in front or behind, or taken keeps its entries, index by index.
LEMMA RemovedAt ==
  ASSUME NEW S, NEW s \in Seq(S), NEW k \in 1 .. Len(s)
  PROVE  /\ Timers!RemoveAt(s, k) \in Seq(S) /\ Len(Timers!RemoveAt(s, k)) = Len(s) - 1
         /\ \A i \in 1 .. Len(s) - 1 : Timers!RemoveAt(s, k)[i] = s[IF i < k THEN i ELSE i + 1]
<1>1. /\ SubSeq(s, 1, k - 1) \in Seq(S) /\ Len(SubSeq(s, 1, k - 1)) = k - 1
      /\ \A i \in 1 .. k - 1 : SubSeq(s, 1, k - 1)[i] = s[i]
  OBVIOUS
<1>2. /\ SubSeq(s, k + 1, Len(s)) \in Seq(S) /\ Len(SubSeq(s, k + 1, Len(s))) = Len(s) - k
      /\ \A i \in 1 .. Len(s) - k : SubSeq(s, k + 1, Len(s))[i] = s[k + i]
  OBVIOUS
<1> DEFINE a == SubSeq(s, 1, k - 1)
           b == SubSeq(s, k + 1, Len(s))
<1>3. Timers!RemoveAt(s, k) = a \o b
  BY DEF Timers!RemoveAt
<1>n. Len(s) \in Nat /\ k \in Nat
  OBVIOUS
<1> HIDE DEF a, b
<1>4. a \o b \in Seq(S) /\ Len(a \o b) = Len(s) - 1
  <2>1. a \in Seq(S) /\ b \in Seq(S) /\ Len(a) = k - 1 /\ Len(b) = Len(s) - k
    BY <1>1, <1>2 DEF a, b
  <2>2. a \o b \in Seq(S) /\ Len(a \o b) = Len(a) + Len(b)
    BY <2>1
  <2> QED
    BY <2>1, <2>2, <1>n
<1>5. ASSUME NEW i \in 1 .. Len(s) - 1 PROVE (a \o b)[i] = s[IF i < k THEN i ELSE i + 1]
  <2>1. a \in Seq(S) /\ b \in Seq(S) /\ Len(a) = k - 1 /\ Len(b) = Len(s) - k
    BY <1>1, <1>2 DEF a, b
  <2>2. CASE i < k
    <3>1. (a \o b)[i] = a[i]
      BY <2>1, <2>2, <1>n
    <3> QED
      BY <3>1, <2>2, <1>1, <1>n DEF a
  <2>3. CASE ~(i < k)
    <3>1. (a \o b)[i] = b[i - (k - 1)]
      BY <2>1, <2>3, <1>n
    <3>2. i - (k - 1) \in 1 .. Len(s) - k /\ k + (i - (k - 1)) = i + 1
      BY <2>3, <1>n
    <3>3. b[i - (k - 1)] = s[k + (i - (k - 1))]
      BY <3>2, <1>2 DEF b
    <3> QED
      BY <3>1, <3>2, <3>3, <2>3
  <2> QED
    BY <2>2, <2>3
<1> QED
  BY <1>3, <1>4, <1>5

Insert(s, k, t) == SubSeq(s, 1, k) \o <<t>> \o SubSeq(s, k + 1, Len(s))

LEMMA InsertedAt ==
  ASSUME NEW S, NEW s \in Seq(S), NEW k \in 0 .. Len(s), NEW t \in S
  PROVE  /\ Insert(s, k, t) \in Seq(S) /\ Len(Insert(s, k, t)) = Len(s) + 1
         /\ \A i \in 1 .. Len(s) + 1 : Insert(s, k, t)[i] = IF i <= k THEN s[i] ELSE IF i = k + 1 THEN t ELSE s[i - 1]
<1>n. Len(s) \in Nat /\ k \in Nat
  OBVIOUS
<1>1. /\ SubSeq(s, 1, k) \in Seq(S) /\ Len(SubSeq(s, 1, k)) = k
      /\ \A i \in 1 .. k : SubSeq(s, 1, k)[i] = s[i]
  OBVIOUS
<1>2. /\ SubSeq(s, k + 1, Len(s)) \in Seq(S) /\ Len(SubSeq(s, k + 1, Len(s))) = Len(s) - k
      /\ \A i \in 1 .. Len(s) - k : SubSeq(s, k + 1, Len(s))[i] = s[k + i]
  OBVIOUS
<1> DEFINE a == SubSeq(s, 1, k)
           b == SubSeq(s, k + 1, Len(s))
           c == a \o <<t>>
           r == c \o b
<1> HIDE DEF a, b
<1>4. c \in Seq(S) /\ Len(c) = k + 1 /\ (\A i \in 1 .. k : c[i] = a[i]) /\ c[k + 1] = t
  BY <1>1, <1>n DEF a
<1> HIDE DEF c
<1>5. c \o b \in Seq(S) /\ Len(c \o b) = Len(s) + 1
  BY <1>4, <1>2, <1>n DEF b
<1>6. ASSUME NEW i \in 1 .. Len(s) + 1
      PROVE  (c \o b)[i] = IF i <= k THEN s[i] ELSE IF i = k + 1 THEN t ELSE s[i - 1]
  <2>1. b \in Seq(S) /\ Len(b) = Len(s) - k
    BY <1>2 DEF b
  <2>2. CASE i <= k + 1
    <3>1. (c \o b)[i] = c[i]
      BY <2>1, <2>2, <1>4, <1>n
    <3>2. CASE i <= k
      BY <3>1, <3>2, <1>4, <1>1, <1>n DEF a
    <3>3. CASE i = k + 1
      BY <3>1, <3>3, <1>4, <1>n
    <3>4. i <= k \/ i = k + 1
      BY <2>2, <1>n
    <3> QED
      BY <3>2, <3>3, <3>4
  <2>3. CASE ~(i <= k + 1)
    <3>1. (c \o b)[i] = b[i - (k + 1)]
      BY <2>1, <2>3, <1>4, <1>n
    <3>2. i - (k + 1) \in 1 .. Len(s) - k /\ k + (i - (k + 1)) = i - 1 /\ ~(i <= k) /\ i # k + 1
      BY <2>3, <1>n
    <3>3. b[i - (k + 1)] = s[k + (i - (k + 1))]
      BY <3>2, <1>2 DEF b
    <3> QED
      BY <3>1, <3>2, <3>3
  <2> QED
    BY <2>2, <2>3
<1>7. /\ r \in Seq(S) /\ Len(r) = Len(s) + 1
      /\ \A i \in 1 .. Len(s) + 1 : r[i] = IF i <= k THEN s[i] ELSE IF i = k + 1 THEN t ELSE s[i - 1]
  BY <1>5, <1>6
<1> QED
  BY <1>7 DEF Insert, a, b, c

LEMMA TakenFirst ==
  ASSUME NEW S, NEW s \in Seq(S), NEW k \in 0 .. Len(s)
  PROVE  LET r == Timers!Reverse(SubSeq(s, 1, k)) IN
         r \in Seq(S) /\ Len(r) = k /\ \A i \in 1 .. k : r[i] = s[k + 1 - i]
<1> DEFINE a == SubSeq(s, 1, k)
<1>n. Len(s) \in Nat /\ k \in Nat
  OBVIOUS
<1>1. a \in Seq(S) /\ Len(a) = k /\ \A i \in 1 .. k : a[i] = s[i]
  OBVIOUS
<1> HIDE DEF a
<1>2. Timers!Reverse(a) = [i \in 1 .. k |-> a[(k - i) + 1]]
  BY <1>1 DEF Timers!Reverse
<1>3. ASSUME NEW i \in 1 .. k PROVE Timers!Reverse(a)[i] = s[k + 1 - i] /\ s[k + 1 - i] \in S
  <2>1. (k - i) + 1 \in 1 .. k /\ (k - i) + 1 = k + 1 - i /\ k + 1 - i \in 1 .. Len(s)
    BY <1>n
  <2>2. Timers!Reverse(a)[i] = a[(k - i) + 1]
    BY <1>2
  <2>3. s[k + 1 - i] \in S
    BY <2>1
  <2> QED
    BY <1>1, <2>1, <2>2, <2>3
<1>4. Timers!Reverse(a) \in Seq(S) /\ Len(Timers!Reverse(a)) = k
  <2>1. Timers!Reverse(a) = [i \in 1 .. k |-> s[k + 1 - i]]
    BY <1>2, <1>3
  <2> QED
    BY <1>3, <1>n, <2>1
<1> QED
  BY <1>3, <1>4 DEF a

LEMMA LeftBehind ==
  ASSUME NEW S, NEW s \in Seq(S), NEW k \in 0 .. Len(s)
  PROVE  LET r == SubSeq(s, k + 1, Len(s)) IN
         r \in Seq(S) /\ Len(r) = Len(s) - k /\ \A i \in 1 .. Len(s) - k : r[i] = s[k + i]
  OBVIOUS

-----------------------------------------------------------------------------
\* The invariant: where each timer is.
GensOf(s) == {s[i].gen : i \in DOMAIN s}
OnlyOnce(s) == \A i, j \in DOMAIN s : i # j => s[i].gen # s[j].gen
Apart(s, r) == \A i \in DOMAIN s, j \in DOMAIN r : s[i].gen # r[j].gen

TimerTypes ==
  /\ now \in 0 .. TimerHorizon /\ made \in 0 .. TimerAdds /\ open \in BOOLEAN /\ armed \in {Timers!None} \cup Nat
  /\ t_odd \subseteq {"raced", "unsync"}
  /\ list \in Seq(Timer)
  /\ fire \in [pc : {"idle", "loop"}, q : Seq(Timer)]
  /\ gone \in [deleted : SUBSET Nat, fired : Seq(Call), freed : SUBSET Nat]

EachOnce ==
  /\ OnlyOnce(list) /\ OnlyOnce(fire.q) /\ OnlyOnce(gone.fired)
  /\ Apart(list, fire.q) /\ Apart(list, gone.fired) /\ Apart(fire.q, gone.fired)
  /\ \A i, j \in DOMAIN list : i # j => list[i].id # list[j].id

DeletedKept ==
  /\ \A i \in DOMAIN list : list[i].gen \notin gone.deleted
  /\ \A i \in DOMAIN fire.q : fire.q[i].gen \in gone.deleted => "raced" \in t_odd
  /\ \A i \in DOMAIN gone.fired : gone.fired[i].gen \in gone.deleted => "raced" \in t_odd

NotEarly ==
  /\ \A i \in DOMAIN fire.q : fire.q[i].due <= now
  /\ \A i \in DOMAIN gone.fired : gone.fired[i].at >= gone.fired[i].due

NoneLost ==
  /\ 1 .. made = GensOf(list) \cup GensOf(fire.q) \cup GensOf(gone.fired) \cup gone.deleted \cup gone.freed
  /\ open => gone.freed = {}

HeadArmed ==
  /\ fire.pc = "idle" => fire.q = <<>> /\ (list # <<>> => armed = list[1].due)
  /\ ~open => list = <<>> /\ armed = Timers!None /\ (fire.pc = "loop" => "unsync" \in t_odd)

TimerInv == TimerTypes /\ EachOnce /\ DeletedKept /\ NotEarly /\ NoneLost /\ HeadArmed

LEMMA FirstOf ==
  ASSUME NEW l \in Seq(Timer), NEW A, A \subseteq DOMAIN l, A # {}
  PROVE  LET k == CHOOSE i \in A : \A j \in A : i <= j IN k \in 1 .. Len(l) /\ k \in A
<1>1. A \in SUBSET Nat
  OBVIOUS
<1>2. \E i \in A : \A j \in A : i <= j
  BY <1>1, LeastExists
<1> QED
  BY <1>2

LEMMA Placed ==
  ASSUME NEW l \in Seq(Timer), NEW t \in Timer
  PROVE  \E k \in 0 .. Len(l) : Timers!Linked(l, t) = Insert(l, k, t)
<1> DEFINE later == {i \in DOMAIN l : t.due <= l[i].due}
           place == IF later = {} THEN 0 ELSE CHOOSE i \in later : \A j \in later : i <= j
<1>1. place \in 0 .. Len(l)
  <2>1. CASE later = {}
    BY <2>1
  <2>2. CASE later # {}
    <3>1. later \subseteq DOMAIN l
      OBVIOUS
    <3> HIDE DEF later
    <3>2. (CHOOSE i \in later : \A j \in later : i <= j) \in 1 .. Len(l)
      BY <2>2, <3>1, FirstOf
    <3> QED
      BY <2>2, <3>2
  <2> QED
    BY <2>1, <2>2
<1>2. Timers!Linked(l, t) = Insert(l, place, t)
  BY DEF Timers!Linked, Insert
<1> HIDE DEF place
<1> QED
  BY <1>1, <1>2

LEMMA DueRange == ASSUME NEW l \in Seq(Timer), now \in Nat
                  PROVE  /\ Timers!Due(l) \in 0 .. Len(l)
                         /\ \A i \in 1 .. Timers!Due(l) : l[i].due <= now
<1> DEFINE early == {i \in DOMAIN l : now < l[i].due}
           k == CHOOSE i \in early : \A j \in early : i <= j
<1>0. Len(l) \in Nat /\ DOMAIN l = 1 .. Len(l) /\ \A i \in 1 .. Len(l) : l[i].due \in Nat
  <2>1. \A i \in 1 .. Len(l) : l[i] \in Timer
    OBVIOUS
  <2> QED
    BY <2>1 DEF Timer
<1>1. CASE early = {}
  <2>1. Timers!Due(l) = Len(l)
    BY <1>1 DEF Timers!Due
  <2>2. ASSUME NEW i \in 1 .. Len(l) PROVE l[i].due <= now
    BY <1>1, <1>0
  <2> QED
    BY <2>1, <2>2, <1>0
<1>2. CASE early # {}
  <2>1. Timers!Due(l) = k - 1
    BY <1>2 DEF Timers!Due
  <2>2. early \subseteq DOMAIN l
    OBVIOUS
  <2>3. early \in SUBSET Nat
    BY <1>0
  <2>4. \E x \in early : \A y \in early : x <= y
    <3> HIDE DEF early
    <3> QED
      BY <1>2, <2>3, LeastExists
  <2>5. k \in early /\ \A j \in early : k <= j
    <3> HIDE DEF early
    <3> QED
      BY <2>4
  <2>6. k \in 1 .. Len(l)
    BY <2>5, <1>0
  <2>7. ASSUME NEW i \in 1 .. k - 1 PROVE l[i].due <= now
    <3>1. i \in 1 .. Len(l) /\ ~(k <= i)
      BY <2>6, <1>0
    <3>2. i \notin early
      BY <3>1, <2>5
    <3> QED
      BY <3>1, <3>2, <1>0
  <2> HIDE DEF k
  <2> QED
    BY <2>1, <2>6, <2>7, <1>0
<1> QED
  BY <1>1, <1>2
-----------------------------------------------------------------------------
LEMMA InitTimers == Timers!Init => TimerInv
<1> SUFFICES ASSUME Timers!Init PROVE TimerInv
  OBVIOUS
<1> USE DEF Timers!Init
<1>1. TimerTypes
  <2>1. <<>> \in Seq(Timer) /\ <<>> \in Seq(Call) /\ 0 \in 0 .. TimerHorizon /\ 0 \in 0 .. TimerAdds
    BY TimerAssumption
  <2> QED
    BY <2>1 DEF TimerTypes
<1>2. DOMAIN list = {} /\ DOMAIN fire.q = {} /\ DOMAIN gone.fired = {}
  OBVIOUS
<1>3. NoneLost
  BY <1>2 DEF NoneLost, GensOf
<1>4. EachOnce /\ DeletedKept /\ NotEarly
  BY <1>2 DEF EachOnce, DeletedKept, NotEarly, OnlyOnce, Apart
<1>5. HeadArmed
  BY DEF HeadArmed
<1> QED
  BY <1>1, <1>2, <1>3, <1>4, <1>5 DEF TimerInv

\* What a state that keeps its types allows to say of entries.
LEMMA TimerFacts ==
  ASSUME TimerTypes
  PROVE  /\ now \in Nat /\ made \in Nat
         /\ list \in Seq(Timer) /\ fire.q \in Seq(Timer) /\ gone.fired \in Seq(Call)
         /\ fire.pc \in {"idle", "loop"}
         /\ DOMAIN list = 1 .. Len(list) /\ DOMAIN fire.q = 1 .. Len(fire.q) /\ DOMAIN gone.fired = 1 .. Len(gone.fired)
         /\ Len(list) \in Nat /\ Len(fire.q) \in Nat /\ Len(gone.fired) \in Nat
         /\ \A i \in DOMAIN list : list[i] \in Timer
         /\ \A i \in DOMAIN fire.q : fire.q[i] \in Timer
         /\ \A i \in DOMAIN gone.fired : gone.fired[i] \in Call
         /\ gone.deleted \subseteq Nat /\ gone.freed \subseteq Nat
<1>1. list \in Seq(Timer) /\ fire.q \in Seq(Timer) /\ gone.fired \in Seq(Call)
  BY DEF TimerTypes
<1>2. now \in Nat /\ made \in Nat
  BY TimerAssumption DEF TimerTypes
<1>3. fire.pc \in {"idle", "loop"} /\ gone.deleted \subseteq Nat /\ gone.freed \subseteq Nat
  BY DEF TimerTypes
<1> QED
  BY <1>1, <1>2, <1>3

LEMMA TickTimers == TimerInv /\ Timers!Tick => TimerInv'
<1> SUFFICES ASSUME TimerInv, Timers!Tick PROVE TimerInv'
  OBVIOUS
<1>0. TimerTypes
  BY DEF TimerInv
<1>1. TimerTypes'
  <2>1. now' \in 0 .. TimerHorizon
    BY <1>0, TimerAssumption DEF Timers!Tick, TimerTypes
  <2> QED
    BY <1>0, <2>1 DEF Timers!Tick, TimerTypes
<1>2. EachOnce' /\ DeletedKept' /\ NoneLost' /\ HeadArmed'
  BY DEF TimerInv, Timers!Tick, EachOnce, DeletedKept, NoneLost, HeadArmed, OnlyOnce, Apart, GensOf
<1>3. NotEarly'
  <2>1. fire.q = <<>>
    BY DEF TimerInv, HeadArmed, Timers!Tick
  <2>2. DOMAIN fire.q' = {}
    BY <2>1 DEF Timers!Tick
  <2> QED
    BY <2>2 DEF TimerInv, NotEarly, Timers!Tick
<1> QED
  BY <1>1, <1>2, <1>3 DEF TimerInv

LEMMA EndTimers == TimerInv /\ Timers!WorkEnd => TimerInv'
<1> SUFFICES ASSUME TimerInv, Timers!WorkEnd PROVE TimerInv'
  OBVIOUS
<1>0. TimerTypes
  BY DEF TimerInv
<1>1. fire'.pc = "idle" /\ fire'.q = fire.q /\ fire' \in [pc : {"idle", "loop"}, q : Seq(Timer)]
  BY <1>0 DEF Timers!WorkEnd, TimerTypes
<1>2. armed' \in {Timers!None} \cup Nat
  <2>1. CASE list = <<>>
    BY <2>1, <1>0 DEF Timers!WorkEnd, Timers!FirstDue, TimerTypes
  <2>2. CASE list # <<>>
    <3>1. list[1] \in Timer
      BY <2>2, <1>0, TimerFacts
    <3> QED
      BY <2>2, <3>1 DEF Timers!WorkEnd, Timers!FirstDue, Timer
  <2> QED
    BY <2>1, <2>2
<1>3. TimerTypes'
  BY <1>0, <1>1, <1>2 DEF TimerTypes, Timers!WorkEnd
<1>4. EachOnce' /\ DeletedKept' /\ NoneLost' /\ NotEarly'
  BY <1>1 DEF TimerInv, Timers!WorkEnd, EachOnce, DeletedKept, NoneLost, NotEarly, OnlyOnce, Apart, GensOf
<1>5. HeadArmed'
  BY <1>1 DEF TimerInv, Timers!WorkEnd, HeadArmed, Timers!FirstDue
<1> QED
  BY <1>3, <1>4, <1>5 DEF TimerInv

LEMMA CallbackTimers == TimerInv /\ Timers!WorkCallback => TimerInv'
<1> SUFFICES ASSUME TimerInv, Timers!WorkCallback PROVE TimerInv'
  OBVIOUS
<1> DEFINE q == fire.q
           f == gone.fired
           call == [gen |-> q[1].gen, at |-> now, due |-> q[1].due]
<1>0. TimerTypes
  BY DEF TimerInv
<1>t. q \in Seq(Timer) /\ f \in Seq(Call) /\ now \in Nat /\ q # <<>>
  BY <1>0, TimerFacts DEF Timers!WorkCallback
<1>1. /\ fire'.pc = fire.pc /\ fire'.q = Tail(q) /\ fire' \in [pc : {"idle", "loop"}, q : Seq(Timer)]
  <2>1. Tail(q) \in Seq(Timer)
    BY <1>t
  <2>2. fire \in [pc : {"idle", "loop"}, q : Seq(Timer)]
    BY <1>0 DEF TimerTypes
  <2>3. fire' = [fire EXCEPT !.q = Tail(q)]
    BY DEF Timers!WorkCallback
  <2> HIDE DEF q
  <2> QED
    BY <2>1, <2>2, <2>3
<1>2. q[1] \in Timer /\ call \in Call /\ 1 \in DOMAIN q
  <2>1. q[1] \in Timer /\ 1 \in DOMAIN q
    <3> HIDE DEF q
    <3> QED
      BY <1>t
  <2> QED
    BY <2>1, <1>t DEF Timer, Call
<1>3. gone'.fired = Append(f, call) /\ gone'.deleted = gone.deleted /\ gone'.freed = gone.freed
      /\ gone' \in [deleted : SUBSET Nat, fired : Seq(Call), freed : SUBSET Nat]
  <2>1. Append(f, call) \in Seq(Call)
    BY <1>t, <1>2
  <2>2. gone \in [deleted : SUBSET Nat, fired : Seq(Call), freed : SUBSET Nat]
    BY <1>0 DEF TimerTypes
  <2>3. gone' = [gone EXCEPT !.fired = Append(f, call)]
    BY DEF Timers!WorkCallback
  <2> HIDE DEF f, call
  <2> QED
    BY <2>1, <2>2, <2>3
<1>4. TimerTypes'
  BY <1>0, <1>1, <1>3 DEF TimerTypes, Timers!WorkCallback
<1>5. /\ DOMAIN fire'.q = 1 .. Len(q) - 1 /\ \A i \in DOMAIN fire'.q : fire'.q[i] = q[i + 1] /\ i + 1 \in DOMAIN q
      /\ DOMAIN q = 1 .. Len(q) /\ Len(q) \in Nat
  BY <1>1, <1>t
<1>6. /\ DOMAIN gone'.fired = 1 .. Len(f) + 1 /\ DOMAIN f = 1 .. Len(f) /\ Len(f) \in Nat
      /\ \A i \in 1 .. Len(f) : gone'.fired[i] = f[i]
      /\ gone'.fired[Len(f) + 1] = call
  BY <1>3, <1>t, <1>2
<1>g. call.gen = q[1].gen /\ call.at = now /\ call.due = q[1].due
  OBVIOUS
<1>l. list' = list /\ made' = made /\ now' = now /\ open' = open /\ t_odd' = t_odd /\ armed' = armed
  BY DEF Timers!WorkCallback
<1>7. EachOnce'
  <2>1. EachOnce
    BY DEF TimerInv
  <2> HIDE DEF call
  <2>2. OnlyOnce(fire.q)' /\ Apart(list, fire.q)'
    <3> HIDE DEF q, f
    <3>1. OnlyOnce(q) /\ Apart(list, q)
      BY <2>1 DEF EachOnce, q
    <3>2. ASSUME NEW i \in DOMAIN fire'.q, NEW j \in DOMAIN fire'.q, i # j
          PROVE  fire'.q[i].gen # fire'.q[j].gen
      <4>1. i + 1 # j + 1
        BY <1>5, <3>2
      <4> QED
        BY <3>1, <4>1, <1>5 DEF OnlyOnce
    <3>3. Apart(list, fire.q)'
      BY <3>1, <1>5, <1>l DEF Apart
    <3> QED
      BY <3>2, <3>3 DEF OnlyOnce
  <2>3. \A i \in DOMAIN f : f[i].gen # q[1].gen
    BY <2>1, <1>2 DEF EachOnce, Apart
  <2>4. \A i \in DOMAIN list : list[i].gen # q[1].gen
    BY <2>1, <1>2 DEF EachOnce, Apart
  <2>5. \A i \in DOMAIN fire'.q : fire'.q[i].gen # q[1].gen
    BY <2>1, <1>2, <1>5 DEF EachOnce, OnlyOnce
  <2>6. OnlyOnce(gone.fired)'
    <3> HIDE DEF f
    <3>1. OnlyOnce(f)
      BY <2>1 DEF EachOnce, f
    <3>2. ASSUME NEW i \in DOMAIN gone'.fired, NEW j \in DOMAIN gone'.fired, i # j
          PROVE  gone'.fired[i].gen # gone'.fired[j].gen
      <4>1. CASE i \in 1 .. Len(f) /\ j \in 1 .. Len(f)
        BY <4>1, <3>1, <3>2, <1>6 DEF OnlyOnce
      <4>2. CASE i = Len(f) + 1 /\ j \in 1 .. Len(f)
        BY <4>2, <2>3, <1>6, <1>g
      <4>3. CASE j = Len(f) + 1 /\ i \in 1 .. Len(f)
        BY <4>3, <2>3, <1>6, <1>g
      <4> QED
        BY <4>1, <4>2, <4>3, <3>2, <1>6
    <3> QED
      BY <3>2 DEF OnlyOnce
  <2>7. Apart(list, gone.fired)'
    BY <2>1, <2>4, <1>6, <1>g, <1>l DEF EachOnce, Apart
  <2>8. Apart(fire.q, gone.fired)'
    <3> SUFFICES ASSUME NEW i \in DOMAIN fire'.q, NEW j \in DOMAIN gone'.fired PROVE fire'.q[i].gen # gone'.fired[j].gen
      BY DEF Apart
    <3>1. fire'.q[i] = q[i + 1] /\ i + 1 \in DOMAIN q
      BY <1>5
    <3>2. CASE j = Len(f) + 1
      BY <3>2, <1>6, <1>g, <2>5
    <3>3. CASE j # Len(f) + 1
      <4>1. j \in DOMAIN f /\ gone'.fired[j] = f[j]
        BY <3>3, <1>6
      <4> QED
        BY <3>1, <4>1, <2>1 DEF EachOnce, Apart
    <3> QED
      BY <3>2, <3>3
  <2> QED
    BY <2>1, <2>2, <2>6, <2>7, <2>8, <1>l DEF EachOnce
<1>8. DeletedKept'
  <2> HIDE DEF call
  <2> QED
    <3>1. DeletedKept
      BY DEF TimerInv
    <3>2. \A i \in DOMAIN list' : list'[i].gen \notin gone'.deleted
      BY <3>1, <1>3, <1>l DEF DeletedKept
    <3>3. \A i \in DOMAIN fire'.q : fire'.q[i].gen \in gone'.deleted => "raced" \in t_odd'
      BY <3>1, <1>3, <1>5, <1>l DEF DeletedKept
    <3>4. ASSUME NEW i \in DOMAIN gone'.fired, gone'.fired[i].gen \in gone'.deleted
          PROVE  "raced" \in t_odd'
      <4>1. CASE i \in DOMAIN f
        <5>1. gone'.fired[i] = f[i] /\ f[i].gen \in gone.deleted
          BY <1>6, <1>3, <4>1, <3>4
        <5> QED
          BY <3>1, <5>1, <4>1, <1>l DEF DeletedKept
      <4>2. CASE i \notin DOMAIN f
        <5>1. i = Len(f) + 1
          BY <4>2, <1>6
        <5>2. q[1].gen \in gone.deleted
          BY <1>6, <1>3, <1>g, <5>1, <3>4
        <5> QED
          BY <3>1, <5>2, <1>2, <1>l DEF DeletedKept
      <4> QED
        BY <4>1, <4>2
    <3> QED
      BY <3>2, <3>3, <3>4 DEF DeletedKept
<1>9. NotEarly'
  <2>1. NotEarly
    BY DEF TimerInv
  <2>2. \A i \in DOMAIN fire'.q : fire'.q[i].due <= now'
    BY <2>1, <1>5, <1>l DEF NotEarly
  <2>3. call.at >= call.due
    BY <2>1, <1>2, <1>g, <1>t DEF NotEarly, Timer
  <2> HIDE DEF call
  <2> QED
    BY <2>1, <2>2, <2>3, <1>6 DEF NotEarly
<1>10. NoneLost'
  <2> HIDE DEF call
  <2>1. GensOf(fire.q) = GensOf(fire.q)' \cup {q[1].gen}
    <3>1. GensOf(fire.q) \subseteq GensOf(fire.q)' \cup {q[1].gen}
      <4> SUFFICES ASSUME NEW i \in DOMAIN q, i # 1 PROVE q[i].gen \in GensOf(fire.q)'
        BY DEF GensOf
      <4>1. i - 1 \in DOMAIN fire'.q /\ (i - 1) + 1 = i
        BY <1>5
      <4>2. fire'.q[i - 1] = q[i]
        BY <4>1, <1>5
      <4> QED
        BY <4>1, <4>2 DEF GensOf
    <3>2. GensOf(fire.q)' \cup {q[1].gen} \subseteq GensOf(fire.q)
      BY <1>5, <1>2 DEF GensOf
    <3> QED
      BY <3>1, <3>2
  <2>2. GensOf(gone.fired)' = GensOf(gone.fired) \cup {q[1].gen}
    <3>1. GensOf(gone.fired)' \subseteq GensOf(gone.fired) \cup {q[1].gen}
      <4> SUFFICES ASSUME NEW i \in DOMAIN gone'.fired PROVE gone'.fired[i].gen \in GensOf(gone.fired) \cup {q[1].gen}
        BY DEF GensOf
      <4> QED
        BY <1>6, <1>g DEF GensOf
    <3>2. GensOf(gone.fired) \cup {q[1].gen} \subseteq GensOf(gone.fired)'
      <4>1. Len(f) + 1 \in DOMAIN gone'.fired /\ \A i \in DOMAIN f : i \in DOMAIN gone'.fired
        BY <1>6
      <4>2. q[1].gen \in GensOf(gone.fired)'
        BY <4>1, <1>6, <1>g DEF GensOf
      <4>3. GensOf(gone.fired) \subseteq GensOf(gone.fired)'
        BY <4>1, <1>6 DEF GensOf
      <4> QED
        BY <4>2, <4>3
    <3> QED
      BY <3>1, <3>2
  <2>3. GensOf(list)' = GensOf(list)
    BY <1>l DEF GensOf
  <2>4. NoneLost
    BY DEF TimerInv
  <2> QED
    BY <2>1, <2>2, <2>3, <2>4, <1>3, <1>l DEF NoneLost
<1>11. HeadArmed'
  BY <1>1, <1>l DEF TimerInv, HeadArmed, Timers!WorkCallback
<1> QED
  BY <1>4, <1>7, <1>8, <1>9, <1>10, <1>11 DEF TimerInv

LEMMA TakeTimers == TimerInv /\ Timers!WorkTake => TimerInv'
<1> SUFFICES ASSUME TimerInv, Timers!WorkTake PROVE TimerInv'
  OBVIOUS
<1> DEFINE n == Timers!Due(list)
           s == list
<1>0. TimerTypes
  BY DEF TimerInv
<1>t. s \in Seq(Timer) /\ Len(s) \in Nat /\ DOMAIN s = 1 .. Len(s) /\ now \in Nat
  BY <1>0, TimerFacts
<1>1. n \in 0 .. Len(s) /\ \A i \in 1 .. n : s[i].due <= now
  BY <1>t, DueRange
<1>2. fire' = [pc |-> "loop", q |-> Timers!Reverse(SubSeq(s, 1, n))] /\ list' = SubSeq(s, n + 1, Len(s)) /\ armed' = Timers!None
  BY DEF Timers!WorkTake
<1>l. now' = now /\ gone' = gone /\ open' = open /\ made' = made /\ t_odd' = t_odd
  BY DEF Timers!WorkTake
<1> HIDE DEF n, s
<1>3. fire'.q \in Seq(Timer) /\ Len(fire'.q) = n /\ \A i \in 1 .. n : fire'.q[i] = s[n + 1 - i]
  BY <1>1, <1>2, <1>t, TakenFirst
<1>4. list' \in Seq(Timer) /\ Len(list') = Len(s) - n /\ \A i \in 1 .. Len(s) - n : list'[i] = s[n + i]
  BY <1>1, <1>2, <1>t, LeftBehind
<1>5. DOMAIN fire'.q = 1 .. n /\ DOMAIN list' = 1 .. Len(s) - n
  BY <1>3, <1>4
<1>6. /\ \A i \in DOMAIN fire'.q : n + 1 - i \in 1 .. n /\ n + 1 - i \in DOMAIN s /\ fire'.q[i] = s[n + 1 - i]
      /\ \A i \in DOMAIN list' : n + i \in DOMAIN s /\ ~(n + i <= n) /\ list'[i] = s[n + i]
  <2>1. ASSUME NEW i \in DOMAIN fire'.q PROVE n + 1 - i \in 1 .. n /\ n + 1 - i \in DOMAIN s /\ fire'.q[i] = s[n + 1 - i]
    <3>1. i \in 1 .. n
      BY <1>5
    <3>2. fire'.q[i] = s[n + 1 - i]
      BY <3>1, <1>3
    <3> QED
      BY <3>1, <3>2, <1>1, <1>t
  <2>2. ASSUME NEW i \in DOMAIN list' PROVE n + i \in DOMAIN s /\ ~(n + i <= n) /\ list'[i] = s[n + i]
    <3>1. i \in 1 .. Len(s) - n
      BY <1>5
    <3>2. list'[i] = s[n + i]
      BY <3>1, <1>4
    <3> QED
      BY <3>1, <3>2, <1>1, <1>t
  <2> QED
    BY <2>1, <2>2
<1>7. TimerTypes'
  <2>1. fire' \in [pc : {"idle", "loop"}, q : Seq(Timer)]
    BY <1>2, <1>3
  <2> QED
    BY <1>0, <1>2, <1>4, <1>l, <2>1 DEF TimerTypes
<1>q. fire.q = <<>> /\ fire.pc = "idle" /\ open
  <2>1. armed # Timers!None /\ fire.pc = "idle"
    BY DEF Timers!WorkTake
  <2> QED
    BY <1>0, <2>1 DEF TimerInv, HeadArmed, TimerTypes
<1>8. EachOnce'
  <2>1. OnlyOnce(s) /\ Apart(s, gone.fired) /\ OnlyOnce(gone.fired)
        /\ \A i, j \in DOMAIN s : i # j => s[i].id # s[j].id
    BY DEF TimerInv, EachOnce, s
  <2>2. ASSUME NEW i \in DOMAIN list', NEW j \in DOMAIN list', i # j
        PROVE  list'[i].gen # list'[j].gen /\ list'[i].id # list'[j].id
    <3>1. n + i # n + j
      BY <2>2, <1>5, <1>1, <1>t
    <3> QED
      BY <3>1, <2>1, <1>6 DEF OnlyOnce
  <2>3. ASSUME NEW i \in DOMAIN fire'.q, NEW j \in DOMAIN fire'.q, i # j
        PROVE  fire'.q[i].gen # fire'.q[j].gen
    <3>1. n + 1 - i # n + 1 - j
      BY <2>3, <1>5, <1>1, <1>t
    <3> QED
      BY <3>1, <2>1, <1>6 DEF OnlyOnce
  <2>4. Apart(list, fire.q)'
    <3>1. ASSUME NEW i \in DOMAIN list', NEW j \in DOMAIN fire'.q PROVE list'[i].gen # fire'.q[j].gen
      <4>1. n + i # n + 1 - j
        BY <1>6
      <4> QED
        BY <4>1, <2>1, <1>6 DEF OnlyOnce
    <3> QED
      BY <3>1 DEF Apart
  <2>5. Apart(list, gone.fired)' /\ Apart(fire.q, gone.fired)'
    BY <2>1, <1>6, <1>l DEF Apart
  <2> QED
    BY <2>1, <2>2, <2>3, <2>4, <2>5, <1>l DEF EachOnce, OnlyOnce
<1>9. DeletedKept'
  <2>1. DeletedKept
    BY DEF TimerInv
  <2> QED
    BY <2>1, <1>6, <1>l DEF DeletedKept, s
<1>10. NotEarly'
  <2>1. \A i \in DOMAIN fire'.q : fire'.q[i].due <= now
    BY <1>1, <1>6
  <2> QED
    BY <2>1, <1>l DEF TimerInv, NotEarly
<1>11. NoneLost'
  <2>1. GensOf(s) = GensOf(list)' \cup GensOf(fire.q)'
    <3>1. GensOf(s) \subseteq GensOf(list)' \cup GensOf(fire.q)'
      <4> SUFFICES ASSUME NEW i \in DOMAIN s PROVE s[i].gen \in GensOf(list)' \cup GensOf(fire.q)'
        BY DEF GensOf
      <4>1. CASE i <= n
        <5>1. n + 1 - i \in DOMAIN fire'.q /\ n + 1 - (n + 1 - i) = i
          BY <4>1, <1>5, <1>1, <1>t
        <5>2. fire'.q[n + 1 - i] = s[i]
          BY <5>1, <1>6
        <5> QED
          BY <5>1, <5>2 DEF GensOf
      <4>2. CASE ~(i <= n)
        <5>1. i - n \in DOMAIN list' /\ n + (i - n) = i
          BY <4>2, <1>5, <1>1, <1>t
        <5>2. list'[i - n] = s[i]
          BY <5>1, <1>6
        <5> QED
          BY <5>1, <5>2 DEF GensOf
      <4> QED
        BY <4>1, <4>2
    <3>2. GensOf(list)' \cup GensOf(fire.q)' \subseteq GensOf(s)
      BY <1>6 DEF GensOf
    <3> QED
      BY <3>1, <3>2
  <2>2. GensOf(fire.q) = {}
    BY <1>q DEF GensOf
  <2>3. GensOf(gone.fired)' = GensOf(gone.fired)
    BY <1>l DEF GensOf
  <2> QED
    BY <2>1, <2>2, <2>3, <1>l DEF TimerInv, NoneLost, s
<1>12. HeadArmed'
  BY <1>2, <1>q, <1>l DEF HeadArmed
<1> QED
  BY <1>7, <1>8, <1>9, <1>10, <1>11, <1>12 DEF TimerInv

LEMMA DeinitTimers == TimerInv /\ Timers!TimerDeinit => TimerInv'
<1> SUFFICES ASSUME TimerInv, Timers!TimerDeinit PROVE TimerInv'
  OBVIOUS
<1> DEFINE F == {t.gen : t \in Timers!ToSet(list)}
<1>0. TimerTypes
  BY DEF TimerInv
<1>t. list \in Seq(Timer) /\ \A i \in DOMAIN list : list[i] \in Timer
  BY <1>0, TimerFacts
<1>1. F = GensOf(list) /\ F \subseteq Nat
  <2>1. F = GensOf(list)
    BY DEF GensOf, Timers!ToSet
  <2> QED
    BY <2>1, <1>t DEF GensOf, Timer
<1>2. gone' = [gone EXCEPT !.freed = F] /\ open /\ ~open'
      /\ open' = FALSE /\ armed' = Timers!None /\ list' = <<>> /\ now' = now /\ fire' = fire /\ made' = made
      /\ t_odd' = t_odd \cup (IF fire.pc = "loop" THEN {"unsync"} ELSE {})
  BY DEF Timers!TimerDeinit
<1> HIDE DEF F
<1>3. /\ gone' \in [deleted : SUBSET Nat, fired : Seq(Call), freed : SUBSET Nat]
      /\ gone'.deleted = gone.deleted /\ gone'.fired = gone.fired /\ gone'.freed = F
  BY <1>0, <1>1, <1>2 DEF TimerTypes
<1>4. DOMAIN list' = {} /\ list' \in Seq(Timer)
  BY <1>2
<1>5. TimerTypes'
  BY <1>0, <1>2, <1>3, <1>4 DEF TimerTypes
<1>6. EachOnce' /\ NotEarly'
  BY <1>2, <1>3, <1>4 DEF TimerInv, EachOnce, NotEarly, OnlyOnce, Apart
<1>7. DeletedKept'
  <2>1. DeletedKept /\ ("raced" \in t_odd => "raced" \in t_odd')
    BY <1>2 DEF TimerInv
  <2> QED
    BY <2>1, <1>2, <1>3, <1>4 DEF DeletedKept
<1>8. NoneLost'
  <2>1. NoneLost
    BY DEF TimerInv
  <2>2. GensOf(list)' = {} /\ GensOf(fire.q)' = GensOf(fire.q) /\ GensOf(gone.fired)' = GensOf(gone.fired)
    BY <1>2, <1>3, <1>4 DEF GensOf
  <2> QED
    BY <2>1, <2>2, <1>1, <1>2, <1>3 DEF NoneLost
<1>9. HeadArmed'
  BY <1>2 DEF TimerInv, HeadArmed
<1> QED
  BY <1>5, <1>6, <1>7, <1>8, <1>9 DEF TimerInv

\* The timer that is added has a generation no timer had.
LEMMA FreshGen ==
  ASSUME TimerInv
  PROVE  /\ \A i \in DOMAIN list : list[i].gen # made + 1
         /\ \A i \in DOMAIN fire.q : fire.q[i].gen # made + 1
         /\ \A i \in DOMAIN gone.fired : gone.fired[i].gen # made + 1
         /\ made + 1 \notin gone.deleted
<1>1. made \in Nat /\ ~(made + 1 \in 1 .. made)
  BY TimerFacts DEF TimerInv
<1>2. GensOf(list) \cup GensOf(fire.q) \cup GensOf(gone.fired) \cup gone.deleted \subseteq 1 .. made
  BY DEF TimerInv, NoneLost
<1> QED
  BY <1>1, <1>2 DEF GensOf

LEMMA AddTimers == ASSUME NEW id \in TimerIds, NEW d \in TimerDelays, TimerInv, Timers!AddTimerWork(id, d) PROVE TimerInv'
<1> DEFINE t == [id |-> id, due |-> now + d + 1, gen |-> made + 1]
           s == list
<1>0. TimerTypes
  BY DEF TimerInv
<1>t. s \in Seq(Timer) /\ Len(s) \in Nat /\ DOMAIN s = 1 .. Len(s) /\ now \in Nat /\ made \in Nat
  BY <1>0, TimerFacts
<1>1. t \in Timer /\ t.gen = made + 1 /\ t.id = id
  BY <1>t, TimerAssumption DEF Timer
<1>2. list' = Timers!Linked(s, t) /\ armed' = Timers!FirstDue(list') /\ open /\ ~Timers!Known(id) /\ made' = made + 1 /\ made < TimerAdds
  BY DEF Timers!AddTimerWork
<1>l. now' = now /\ fire' = fire /\ gone' = gone /\ open' = open /\ t_odd' = t_odd
  BY DEF Timers!AddTimerWork
<1>k. \A i \in DOMAIN s : s[i].id # id
  BY <1>2 DEF Timers!Known
<1> HIDE DEF t, s
<1>3. PICK k \in 0 .. Len(s) : list' = Insert(s, k, t)
  BY <1>1, <1>2, <1>t, Placed
<1>4. /\ list' \in Seq(Timer) /\ Len(list') = Len(s) + 1
      /\ \A i \in 1 .. Len(s) + 1 : list'[i] = IF i <= k THEN s[i] ELSE IF i = k + 1 THEN t ELSE s[i - 1]
  <2> DEFINE r == Insert(s, k, t)
  <2>1. s \in Seq(Timer) /\ t \in Timer /\ k \in 0 .. Len(s)
    BY <1>1, <1>t
  <2>2. r \in Seq(Timer)
    BY <2>1, InsertedAt
  <2>3. Len(r) = Len(s) + 1
    BY <2>1, InsertedAt
  <2>4. ASSUME NEW i \in 1 .. Len(s) + 1 PROVE r[i] = IF i <= k THEN s[i] ELSE IF i = k + 1 THEN t ELSE s[i - 1]
    BY <2>1, InsertedAt
  <2> HIDE DEF r
  <2> QED
    BY <2>2, <2>3, <2>4, <1>3 DEF r
<1> DEFINE from(i) == IF i <= k THEN i ELSE i - 1
<1>5. /\ DOMAIN list' = 1 .. Len(s) + 1 /\ k + 1 \in DOMAIN list' /\ list'[k + 1] = t
      /\ \A i \in DOMAIN list' : i # k + 1 => from(i) \in DOMAIN s /\ list'[i] = s[from(i)]
      /\ \A i, j \in DOMAIN list' : i # j /\ i # k + 1 /\ j # k + 1 => from(i) # from(j)
  <2>1. DOMAIN list' = 1 .. Len(s) + 1 /\ k + 1 \in 1 .. Len(s) + 1 /\ ~(k + 1 <= k)
    BY <1>4, <1>t
  <2>2. list'[k + 1] = t
    BY <2>1, <1>4
  <2>3. ASSUME NEW i \in DOMAIN list', i # k + 1 PROVE from(i) \in DOMAIN s /\ list'[i] = s[from(i)]
    <3>1. CASE i <= k
      BY <3>1, <2>1, <1>4, <1>t
    <3>2. CASE ~(i <= k)
      BY <3>2, <2>1, <2>3, <1>4, <1>t
    <3> QED
      BY <3>1, <3>2
  <2>4. \A i, j \in DOMAIN list' : i # j /\ i # k + 1 /\ j # k + 1 => from(i) # from(j)
    BY <2>1, <1>t
  <2> HIDE DEF from
  <2> QED
    BY <2>1, <2>2, <2>3, <2>4
<1> HIDE DEF from
<1>6. TimerTypes'
  <2>1. list' # <<>> /\ list'[1] \in Timer
    BY <1>4, <1>t
  <2>2. armed' \in Nat
    BY <2>1, <1>2 DEF Timers!FirstDue, Timer
  <2>3. made' \in 0 .. TimerAdds
    BY <1>2, <1>t, TimerAssumption
  <2> QED
    BY <1>0, <1>4, <1>l, <2>2, <2>3 DEF TimerTypes
<1>f. /\ \A i \in DOMAIN s : s[i].gen # t.gen
      /\ \A i \in DOMAIN fire.q : fire.q[i].gen # t.gen
      /\ \A i \in DOMAIN gone.fired : gone.fired[i].gen # t.gen
      /\ t.gen \notin gone.deleted
  BY <1>1, FreshGen DEF s
<1>7. EachOnce'
  <2>1. OnlyOnce(s) /\ Apart(s, fire.q) /\ Apart(s, gone.fired)
        /\ \A i, j \in DOMAIN s : i # j => s[i].id # s[j].id
    BY DEF TimerInv, EachOnce, s
  <2>2. ASSUME NEW i \in DOMAIN list', NEW j \in DOMAIN list', i # j
        PROVE  list'[i].gen # list'[j].gen /\ list'[i].id # list'[j].id
    <3>1. CASE i = k + 1
      BY <3>1, <2>2, <1>5, <1>f, <1>k, <1>1
    <3>2. CASE j = k + 1
      BY <3>2, <2>2, <1>5, <1>f, <1>k, <1>1
    <3>3. CASE i # k + 1 /\ j # k + 1
      <4>1. /\ from(i) \in DOMAIN s /\ list'[i] = s[from(i)] /\ from(j) \in DOMAIN s /\ list'[j] = s[from(j)]
            /\ from(i) # from(j)
        BY <3>3, <2>2, <1>5
      <4> QED
        BY <4>1, <2>1 DEF OnlyOnce
    <3> QED
      BY <3>1, <3>2, <3>3
  <2>3. Apart(list, fire.q)'
    <3>1. ASSUME NEW i \in DOMAIN list', NEW j \in DOMAIN fire.q PROVE list'[i].gen # fire.q[j].gen
      <4>1. CASE i = k + 1
        BY <4>1, <1>5, <1>f
      <4>2. CASE i # k + 1
        BY <4>2, <1>5, <2>1 DEF Apart
      <4> QED
        BY <4>1, <4>2
    <3> QED
      BY <3>1, <1>l DEF Apart
  <2>4. Apart(list, gone.fired)'
    <3>1. ASSUME NEW i \in DOMAIN list', NEW j \in DOMAIN gone.fired PROVE list'[i].gen # gone.fired[j].gen
      <4>1. CASE i = k + 1
        BY <4>1, <1>5, <1>f
      <4>2. CASE i # k + 1
        BY <4>2, <1>5, <2>1 DEF Apart
      <4> QED
        BY <4>1, <4>2
    <3> QED
      BY <3>1, <1>l DEF Apart
  <2>5. OnlyOnce(fire.q) /\ OnlyOnce(gone.fired) /\ Apart(fire.q, gone.fired)
    BY DEF TimerInv, EachOnce
  <2> QED
    BY <2>2, <2>3, <2>4, <2>5, <1>l DEF EachOnce, OnlyOnce, Apart
<1>8. DeletedKept'
  <2>1. DeletedKept
    BY DEF TimerInv
  <2>2. ASSUME NEW i \in DOMAIN list' PROVE list'[i].gen \notin gone.deleted
    <3>1. CASE i = k + 1
      BY <3>1, <1>5, <1>f
    <3>2. CASE i # k + 1
      BY <3>2, <1>5, <2>1 DEF DeletedKept, s
    <3> QED
      BY <3>1, <3>2
  <2> QED
    BY <2>1, <2>2, <1>l DEF DeletedKept
<1>9. NotEarly'
  BY <1>l DEF TimerInv, NotEarly
<1>10. NoneLost'
  <2>1. GensOf(list)' = GensOf(list) \cup {made + 1}
    <3>1. GensOf(list)' \subseteq GensOf(list) \cup {made + 1}
      <4> SUFFICES ASSUME NEW i \in DOMAIN list' PROVE list'[i].gen \in GensOf(list) \cup {made + 1}
        BY DEF GensOf
      <4>1. CASE i = k + 1
        BY <4>1, <1>5, <1>1
      <4>2. CASE i # k + 1
        BY <4>2, <1>5 DEF GensOf, s
      <4> QED
        BY <4>1, <4>2
    <3>2. GensOf(list) \subseteq GensOf(list)'
      <4> SUFFICES ASSUME NEW i \in DOMAIN s PROVE s[i].gen \in GensOf(list)'
        BY DEF GensOf, s
      <4>1. CASE i <= k
        <5>1. i \in DOMAIN list' /\ i # k + 1 /\ from(i) = i
          BY <4>1, <1>5, <1>t DEF from
        <5> QED
          BY <5>1, <1>5 DEF GensOf
      <4>2. CASE ~(i <= k)
        <5>1. i + 1 \in DOMAIN list' /\ i + 1 # k + 1 /\ from(i + 1) = i
          BY <4>2, <1>5, <1>t DEF from
        <5> QED
          BY <5>1, <1>5 DEF GensOf
      <4> QED
        BY <4>1, <4>2
    <3>3. made + 1 \in GensOf(list)'
      BY <1>5, <1>1 DEF GensOf
    <3> QED
      BY <3>1, <3>2, <3>3
  <2>2. 1 .. made' = (1 .. made) \cup {made + 1}
    BY <1>2, <1>t
  <2>3. GensOf(fire.q)' = GensOf(fire.q) /\ GensOf(gone.fired)' = GensOf(gone.fired)
    BY <1>l DEF GensOf
  <2> QED
    BY <2>1, <2>2, <2>3, <1>l DEF TimerInv, NoneLost
<1>11. HeadArmed'
  <2>1. list' # <<>>
    BY <1>4, <1>t
  <2> QED
    BY <2>1, <1>2, <1>l DEF TimerInv, HeadArmed, Timers!FirstDue
<1> QED
  BY <1>6, <1>7, <1>8, <1>9, <1>10, <1>11 DEF TimerInv

\* What skw_del_timer_work cuts out: one entry of that id, when there is one.
LEMMA CutOut ==
  ASSUME NEW l \in Seq(Timer), NEW id, \E i \in DOMAIN l : l[i].id = id
  PROVE  \E k \in 1 .. Len(l) : l[k].id = id /\ Timers!Cut(l, id) = Timers!RemoveAt(l, k)
<1> DEFINE A == {i \in DOMAIN l : l[i].id = id}
           First(i) == l[i].id = id /\ \A j \in 1 .. i - 1 : l[j].id # id
<1>1. DOMAIN l = 1 .. Len(l) /\ Len(l) \in Nat
  OBVIOUS
<1>2. A \in SUBSET Nat /\ A # {}
  BY <1>1
<1>3. PICK m \in A : \A j \in A : m <= j
  <2> HIDE DEF A
  <2> QED
    BY <1>2, LeastExists
<1>4. m \in DOMAIN l /\ First(m)
  <2>1. ASSUME NEW j \in 1 .. m - 1 PROVE l[j].id # id
    <3>1. j \in DOMAIN l /\ ~(m <= j)
      BY <1>1, <1>3
    <3> QED
      BY <3>1, <1>3
  <2> QED
    BY <2>1, <1>3
<1> DEFINE k == CHOOSE i \in DOMAIN l : First(i)
<1>5. k \in DOMAIN l /\ First(k)
  <2> HIDE DEF First
  <2> QED
    BY <1>4
<1>6. Timers!Cut(l, id) = Timers!RemoveAt(l, k)
  BY DEF Timers!Cut
<1>7. k \in 1 .. Len(l) /\ l[k].id = id
  BY <1>5, <1>1
<1> HIDE DEF k
<1> QED
  BY <1>6, <1>7

LEMMA DelTimers == ASSUME NEW id \in TimerIds, TimerInv, Timers!DelTimerWork(id) PROVE TimerInv'
<1> DEFINE s == list
           q == fire.q
           D == {t.gen : t \in {t \in Timers!ToSet(list) \cup Timers!ToSet(fire.q) : t.id = id}}
<1>0. TimerTypes
  BY DEF TimerInv
<1>t. /\ s \in Seq(Timer) /\ Len(s) \in Nat /\ DOMAIN s = 1 .. Len(s)
      /\ \A i \in DOMAIN s : s[i] \in Timer
      /\ \A i \in DOMAIN q : q[i] \in Timer
      /\ gone.deleted \subseteq Nat
  BY <1>0, TimerFacts
<1>1. /\ gone' = [gone EXCEPT !.deleted = @ \cup D] /\ armed' = Timers!FirstDue(list')
      /\ open /\ t_odd' = t_odd \cup (IF \E t \in Timers!ToSet(fire.q) : t.id = id /\ t.gen \notin gone.deleted THEN {"raced"} ELSE {})
      /\ list' = (IF Timers!Known(id) THEN Timers!Cut(s, id) ELSE s)
  BY DEF Timers!DelTimerWork
<1>l. now' = now /\ fire' = fire /\ open' = open /\ made' = made
  BY DEF Timers!DelTimerWork
<1>2. /\ \A i \in DOMAIN s : s[i].id = id => s[i].gen \in D
      /\ \A i \in DOMAIN q : q[i].id = id => q[i].gen \in D
      /\ \A g \in D : \/ \E i \in DOMAIN s : s[i].id = id /\ s[i].gen = g
                      \/ \E i \in DOMAIN q : q[i].id = id /\ q[i].gen = g
  BY DEF Timers!ToSet
<1>3. "raced" \in t_odd => "raced" \in t_odd'
  BY <1>1
<1>4. \A i \in DOMAIN q : q[i].id = id /\ q[i].gen \notin gone.deleted => "raced" \in t_odd'
  BY <1>1 DEF Timers!ToSet
<1>5. t_odd' \subseteq {"raced", "unsync"}
  BY <1>0, <1>1 DEF TimerTypes
<1> HIDE DEF D, s
<1>6. D \subseteq Nat
  BY <1>2, <1>t DEF Timer
<1>7. /\ gone' \in [deleted : SUBSET Nat, fired : Seq(Call), freed : SUBSET Nat]
      /\ gone'.deleted = gone.deleted \cup D /\ gone'.fired = gone.fired /\ gone'.freed = gone.freed
  BY <1>0, <1>1, <1>6, <1>t DEF TimerTypes
<1>8. \E from \in [DOMAIN list' -> DOMAIN s] :
         /\ list' \in Seq(Timer) /\ DOMAIN list' = 1 .. Len(list') /\ Len(list') \in Nat
         /\ \A i \in DOMAIN list' : list'[i] = s[from[i]] /\ s[from[i]].id # id
         /\ \A i, j \in DOMAIN list' : i # j => from[i] # from[j]
         /\ \A i \in DOMAIN s : s[i].id # id => \E j \in DOMAIN list' : from[j] = i
  <2>1. CASE ~Timers!Known(id)
    <3>1. list' = s /\ \A i \in DOMAIN s : s[i].id # id
      BY <2>1, <1>1 DEF Timers!Known, s
    <3> DEFINE from == [i \in DOMAIN list' |-> i]
    <3>2. /\ from \in [DOMAIN list' -> DOMAIN s]
          /\ list' \in Seq(Timer) /\ DOMAIN list' = 1 .. Len(list') /\ Len(list') \in Nat
          /\ \A i \in DOMAIN list' : list'[i] = s[from[i]] /\ s[from[i]].id # id
          /\ \A i, j \in DOMAIN list' : i # j => from[i] # from[j]
          /\ \A i \in DOMAIN s : s[i].id # id => \E j \in DOMAIN list' : from[j] = i
      BY <3>1, <1>t
    <3> QED
      BY <3>2
  <2>2. CASE Timers!Known(id)
    <3>1. \E i \in DOMAIN s : s[i].id = id
      BY <2>2 DEF Timers!Known, s
    <3>2. PICK k \in 1 .. Len(s) : s[k].id = id /\ list' = Timers!RemoveAt(s, k)
      <4>1. list' = Timers!Cut(s, id)
        BY <1>1, <2>2
      <4> QED
        BY <3>1, <4>1, <1>t, CutOut
    <3>3. /\ list' \in Seq(Timer) /\ Len(list') = Len(s) - 1
          /\ \A i \in 1 .. Len(s) - 1 : list'[i] = s[IF i < k THEN i ELSE i + 1]
      BY <3>2, <1>t, RemovedAt
    <3>4. DOMAIN list' = 1 .. Len(s) - 1 /\ Len(list') \in Nat
      BY <3>3, <1>t
    <3> DEFINE from == [i \in DOMAIN list' |-> IF i < k THEN i ELSE i + 1]
    <3>5. from \in [DOMAIN list' -> DOMAIN s] /\ \A i \in DOMAIN list' : from[i] # k
      BY <3>4, <1>t
    <3>6. \A i \in DOMAIN list' : list'[i] = s[from[i]]
      BY <3>3, <3>4
    <3>7. \A i, j \in DOMAIN list' : i # j => from[i] # from[j]
      BY <3>4, <1>t
    <3>8. ASSUME NEW i \in DOMAIN s, i # k PROVE \E j \in DOMAIN list' : from[j] = i
      <4>1. CASE i < k
        BY <4>1, <3>4, <1>t
      <4>2. CASE ~(i < k)
        <5>1. i - 1 \in DOMAIN list' /\ ~(i - 1 < k) /\ (i - 1) + 1 = i
          BY <4>2, <3>8, <3>4, <1>t
        <5> QED
          BY <5>1
      <4> QED
        BY <4>1, <4>2
    <3>9. \A i \in DOMAIN s : i # k => s[i].id # id
      BY <3>2, <1>t DEF TimerInv, EachOnce, s
    <3> HIDE DEF from
    <3>10. \A i \in DOMAIN list' : s[from[i]].id # id
      BY <3>5, <3>9
    <3>11. /\ list' \in Seq(Timer) /\ DOMAIN list' = 1 .. Len(list') /\ Len(list') \in Nat
           /\ \A i \in DOMAIN list' : list'[i] = s[from[i]] /\ s[from[i]].id # id
           /\ \A i, j \in DOMAIN list' : i # j => from[i] # from[j]
      BY <3>3, <3>4, <3>6, <3>7, <3>10
    <3>12. \A i \in DOMAIN s : s[i].id # id => \E j \in DOMAIN list' : from[j] = i
      BY <3>2, <3>8
    <3> QED
      BY <3>5, <3>11, <3>12
  <2> QED
    BY <2>1, <2>2
<1>9. PICK from \in [DOMAIN list' -> DOMAIN s] :
         /\ list' \in Seq(Timer) /\ DOMAIN list' = 1 .. Len(list') /\ Len(list') \in Nat
         /\ \A i \in DOMAIN list' : list'[i] = s[from[i]] /\ s[from[i]].id # id
         /\ \A i, j \in DOMAIN list' : i # j => from[i] # from[j]
         /\ \A i \in DOMAIN s : s[i].id # id => \E j \in DOMAIN list' : from[j] = i
  BY <1>8
<1>10. TimerTypes'
  <2>1. armed' \in {Timers!None} \cup Nat
    <3>1. CASE list' = <<>>
      BY <3>1, <1>0, <1>1 DEF Timers!FirstDue, TimerTypes
    <3>2. CASE list' # <<>>
      <4>1. list'[1] \in Timer
        BY <3>2, <1>9
      <4> QED
        BY <3>2, <4>1, <1>1 DEF Timers!FirstDue, Timer
    <3> QED
      BY <3>1, <3>2
  <2> QED
    BY <1>0, <1>5, <1>7, <1>9, <1>l, <2>1 DEF TimerTypes
<1>e. OnlyOnce(s) /\ Apart(s, q) /\ Apart(s, gone.fired) /\ Apart(q, gone.fired) /\ OnlyOnce(q) /\ OnlyOnce(gone.fired)
      /\ \A i, j \in DOMAIN s : i # j => s[i].id # s[j].id
  BY DEF TimerInv, EachOnce, s
<1>11. EachOnce'
  <2>1. OnlyOnce(list)' /\ (\A i, j \in DOMAIN list : i # j => list[i].id # list[j].id)'
    BY <1>e, <1>9 DEF OnlyOnce
  <2>2. Apart(list, fire.q)' /\ Apart(list, gone.fired)'
    BY <1>e, <1>9, <1>7, <1>l DEF Apart
  <2> QED
    BY <2>1, <2>2, <1>e, <1>7, <1>l DEF EachOnce
<1>12. DeletedKept'
  <2>0. DeletedKept
    BY DEF TimerInv
  <2>1. ASSUME NEW i \in DOMAIN list' PROVE list'[i].gen \notin gone'.deleted
    <3>1. from[i] \in DOMAIN s /\ list'[i] = s[from[i]] /\ s[from[i]].id # id
      BY <1>9
    <3>2. s[from[i]].gen \notin gone.deleted
      BY <3>1, <2>0 DEF DeletedKept, s
    <3>3. ASSUME s[from[i]].gen \in D PROVE FALSE
      <4>1. CASE \E j \in DOMAIN s : s[j].id = id /\ s[j].gen = s[from[i]].gen
        BY <4>1, <3>1, <1>e DEF OnlyOnce
      <4>2. CASE \E j \in DOMAIN q : q[j].id = id /\ q[j].gen = s[from[i]].gen
        BY <4>2, <3>1, <1>e DEF Apart
      <4> QED
        BY <4>1, <4>2, <3>3, <1>2
    <3> QED
      BY <3>1, <3>2, <3>3, <1>7
  <2>2. ASSUME NEW i \in DOMAIN fire'.q, fire'.q[i].gen \in gone'.deleted PROVE "raced" \in t_odd'
    <3>1. i \in DOMAIN q /\ fire'.q[i] = q[i]
      BY <1>l
    <3>2. CASE q[i].gen \in gone.deleted
      BY <3>1, <3>2, <2>0, <1>3 DEF DeletedKept
    <3>3. CASE q[i].gen \notin gone.deleted
      <4>1. q[i].gen \in D
        BY <3>1, <3>3, <2>2, <1>7
      <4>2. q[i].id = id
        BY <3>1, <4>1, <1>2, <1>e DEF Apart, OnlyOnce
      <4> QED
        BY <3>1, <3>3, <4>2, <1>4
    <3> QED
      BY <3>2, <3>3
  <2>3. ASSUME NEW i \in DOMAIN gone'.fired, gone'.fired[i].gen \in gone'.deleted PROVE "raced" \in t_odd'
    <3>1. i \in DOMAIN gone.fired /\ gone'.fired[i] = gone.fired[i]
      BY <1>7
    <3>2. gone.fired[i].gen \notin D
      BY <3>1, <1>2, <1>e DEF Apart
    <3> QED
      BY <3>1, <3>2, <2>0, <2>3, <1>3, <1>7 DEF DeletedKept
  <2> QED
    BY <2>1, <2>2, <2>3 DEF DeletedKept
<1>13. NotEarly'
  BY <1>7, <1>l DEF TimerInv, NotEarly
<1>14. NoneLost'
  <2>1. GensOf(list) \cup GensOf(fire.q) \cup D = GensOf(list)' \cup GensOf(fire.q) \cup D
    <3>1. GensOf(list) \subseteq GensOf(list)' \cup D
      <4> SUFFICES ASSUME NEW i \in DOMAIN s PROVE s[i].gen \in GensOf(list)' \cup D
        BY DEF GensOf, s
      <4>1. CASE s[i].id = id
        BY <4>1, <1>2
      <4>2. CASE s[i].id # id
        BY <4>2, <1>9 DEF GensOf
      <4> QED
        BY <4>1, <4>2
    <3>2. GensOf(list)' \subseteq GensOf(list)
      BY <1>9 DEF GensOf, s
    <3> QED
      BY <3>1, <3>2
  <2>2. D \subseteq GensOf(list) \cup GensOf(fire.q)
    BY <1>2 DEF GensOf, s
  <2>3. GensOf(fire.q)' = GensOf(fire.q) /\ GensOf(gone.fired)' = GensOf(gone.fired)
    BY <1>7, <1>l DEF GensOf
  <2>4. NoneLost
    BY DEF TimerInv
  <2> QED
    BY <2>1, <2>2, <2>3, <2>4, <1>7, <1>l DEF NoneLost
<1>15. HeadArmed'
  BY <1>1, <1>l DEF TimerInv, HeadArmed, Timers!FirstDue
<1> QED
  BY <1>10, <1>11, <1>12, <1>13, <1>14, <1>15 DEF TimerInv

LEMMA TimersStep == TimerInv /\ [Timers!Next]_Timers!vars => TimerInv'
<1> SUFFICES ASSUME TimerInv, [Timers!Next]_Timers!vars PROVE TimerInv'
  OBVIOUS
<1>1. ASSUME NEW id \in TimerIds, Timers!DelTimerWork(id) PROVE TimerInv'
  BY <1>1, DelTimers
<1>2. ASSUME NEW id \in TimerIds, NEW d \in TimerDelays, Timers!AddTimerWork(id, d) PROVE TimerInv'
  BY <1>2, AddTimers
<1>3. CASE Timers!TimerWork
  BY <1>3, TakeTimers, CallbackTimers, EndTimers DEF Timers!TimerWork
<1>4. CASE Timers!TimerDeinit
  BY <1>4, DeinitTimers
<1>5. CASE Timers!Tick
  BY <1>5, TickTimers
<1>6. CASE UNCHANGED Timers!vars
  <2>1. TimerTypes' /\ HeadArmed'
    BY <1>6 DEF Timers!vars, TimerInv, TimerTypes, HeadArmed
  <2>2. EachOnce'
    BY <1>6 DEF Timers!vars, TimerInv, EachOnce, OnlyOnce, Apart
  <2>3. DeletedKept' /\ NotEarly'
    BY <1>6 DEF Timers!vars, TimerInv, DeletedKept, NotEarly
  <2>4. NoneLost'
    BY <1>6 DEF Timers!vars, TimerInv, NoneLost, GensOf
  <2> QED
    BY <2>1, <2>2, <2>3, <2>4 DEF TimerInv
<1> QED
  BY <1>1, <1>2, <1>3, <1>4, <1>5, <1>6 DEF Timers!Next

LEMMA TimersAre == TimerInv => TimersSound
<1> SUFFICES ASSUME TimerInv PROVE TimersSound
  OBVIOUS
<1>0. TimerTypes
  BY DEF TimerInv
<1>t. /\ now \in Nat /\ list \in Seq(Timer) /\ fire.pc \in {"idle", "loop"}
      /\ DOMAIN list = 1 .. Len(list) /\ Len(list) \in Nat
      /\ \A i \in DOMAIN list : list[i] \in Timer
      /\ \A i \in DOMAIN fire.q : fire.q[i] \in Timer
  BY <1>0, TimerFacts
<1>1. Timers!TypeOK
  <2>1. \A t \in Timers!ToSet(list) \cup Timers!ToSet(fire.q) : t \in Timer
    BY <1>t DEF Timers!ToSet
  <2> QED
    BY <1>0, <1>t, <2>1 DEF Timers!TypeOK, TimerTypes, Timer
<1>2. Timers!OnceAndNotEarly
  <2>1. /\ {t.gen : t \in Timers!ToSet(list)} = GensOf(list) /\ {t.gen : t \in Timers!ToSet(fire.q)} = GensOf(fire.q)
        /\ {t.gen : t \in Timers!ToSet(gone.fired)} = GensOf(gone.fired)
    BY DEF Timers!ToSet, GensOf
  <2>2. \A i, j \in DOMAIN gone.fired : gone.fired[i].at >= gone.fired[i].due /\ (i # j => gone.fired[i].gen # gone.fired[j].gen)
    BY DEF TimerInv, NotEarly, EachOnce, OnlyOnce
  <2>3. \A t \in Timers!ToSet(gone.fired) : t.gen \in gone.deleted => "raced" \in t_odd
    BY DEF TimerInv, DeletedKept, Timers!ToSet
  <2>4. 1 .. made = Timers!Gens \cup gone.deleted \cup gone.freed
    BY <2>1 DEF TimerInv, NoneLost, Timers!Gens
  <2> QED
    BY <2>2, <2>3, <2>4 DEF Timers!OnceAndNotEarly
<1>3. Timers!LateOnlyBehindLater
  <2> SUFFICES ASSUME fire.pc = "idle", armed > now, NEW i \in DOMAIN list, list[i].due <= now
               PROVE  \E j \in 1 .. i - 1 : list[j].due > now
    BY DEF Timers!LateOnlyBehindLater
  <2>1. list # <<>> /\ 1 \in DOMAIN list
    BY <1>t
  <2>2. list[1].due = armed
    BY <2>1 DEF TimerInv, HeadArmed
  <2>3. list[i].due \in Nat /\ list[1].due \in Nat
    BY <1>t, <2>1 DEF Timer
  <2>4. i # 1
    BY <2>2, <2>3, <1>t
  <2>5. 1 \in 1 .. i - 1
    BY <2>4, <1>t
  <2> QED
    BY <2>2, <2>5
<1>4. Timers!QuietAfterDeinit
  BY DEF TimerInv, HeadArmed, Timers!QuietAfterDeinit
<1> QED
  BY <1>1, <1>2, <1>3, <1>4 DEF TimersSound, Timers!TimersSound

\* No timer fires early, twice or after it was deleted but in the case `raced`, none is lost, and
\* one is late only behind one that is due later (skw_timer.c).
THEOREM TimersAreSound == Timers!Spec => []TimersSound
<1>1. Timers!Init => TimerInv
  BY InitTimers
<1>2. TimerInv /\ [Timers!Next]_Timers!vars => TimerInv'
  BY TimersStep
<1>3. TimerInv => TimersSound
  BY TimersAre
<1> QED
  BY <1>1, <1>2, <1>3, PTL DEF Timers!Spec

-----------------------------------------------------------------------------
(* The log recorder. *)

LogPcs == {"idle", "begin", "file", "port", "loop", "rx", "wait", "got", "end"}
LogDevs == [log : {"none", "ready", "freed"}, com : BOOLEAN, start : BOOLEAN, known : BOOLEAN, told : BOOLEAN]
LogFlags == [record : BOOLEAN, asrt : BOOLEAN, busy : BOOLEAN]
LogPorts == [state : {"close", "idle", "open", "asst"}, n : 0 .. LogRoom, made : Nat, opens : Nat, user : BOOLEAN]
LogWorks == [pc : LogPcs, queued : BOOLEAN, buf : Seq(Nat), offset : Nat, num : 0 .. LogFiles, errs : Nat,
             store : BOOLEAN, file : BOOLEAN]
LogOuts == [read : Nat, written : Seq(Nat), lost : SUBSET Nat]

LogTypes ==
  /\ dev \in LogDevs /\ flags \in LogFlags /\ port \in LogPorts /\ work \in LogWorks /\ out \in LogOuts
  /\ exit \in {"idle", "cancel"} /\ l_odd \subseteq Log!Flags

\* The work has the port open; works that will open it.
Recorder == work.pc \in {"loop", "rx", "wait", "got", "end"}
AsOne(b) == IF b THEN 1 ELSE 0
Coming == AsOne(work.queued) + AsOne(work.pc \in {"begin", "file", "port"})

\* record_flag stands for a work, the notifier for a recorder, and a recorder that is taken down has no work.
LogTold ==
  /\ flags.record => work.pc \in {"file", "port", "loop", "rx", "wait", "got"} \/ "stuck" \in l_odd
  /\ dev.log = "ready" /\ exit = "idle" /\ ~dev.told => "deaf" \in l_odd
  /\ exit = "cancel" => dev.log = "ready" /\ ~dev.told /\ ~work.queued
  /\ dev.log # "ready" => work.pc = "idle" /\ ~work.queued

LogHandles ==
  /\ work.pc \in {"idle", "begin"} /\ work.store => "storeleft" \in l_odd
  /\ work.pc \in {"idle", "begin", "file"} /\ work.file => "fileleft" \in l_odd
  /\ port.user /\ port.state # "open" => l_odd \cap {"pulled", "opensleft"} # {} \/ port.state = "asst"

\* Who may still open the port is counted, so the open count stays small.
LogOpens ==
  /\ port.opens >= AsOne(port.user) + AsOne(Recorder)
  /\ port.opens = AsOne(port.user) + AsOne(Recorder) \/ "opensleft" \in l_odd
  /\ port.opens + Coming <= 4

LogFilled ==
  /\ work.pc \in {"idle", "begin", "file", "port"} => work.buf = <<>>
  /\ work.pc \in {"loop", "rx", "wait"} => Len(work.buf) <= LogRoom - 1
  /\ Len(work.buf) <= LogRoom

\* Every piece that was read has one place: a file, the buffer, or what was dropped.
Rising(s) == \A i, j \in DOMAIN s : i < j => s[i] < s[j]
Has(s, x) == \E i \in DOMAIN s : s[i] = x
LogPlaced ==
  /\ Rising(out.written) /\ Rising(work.buf)
  /\ \A i \in DOMAIN out.written, j \in DOMAIN work.buf : out.written[i] < work.buf[j]
  /\ \A i \in DOMAIN out.written : out.written[i] \in 1 .. out.read /\ out.written[i] \notin out.lost
  /\ \A i \in DOMAIN work.buf : work.buf[i] \in 1 .. out.read /\ work.buf[i] \notin out.lost
  /\ out.lost \subseteq 1 .. out.read
  /\ \A x \in 1 .. out.read : Has(out.written, x) \/ Has(work.buf, x) \/ x \in out.lost
  /\ out.lost # {} => l_odd \cap {"unwritten", "tail"} # {}

LogInv == LogTypes /\ LogTold /\ LogHandles /\ LogOpens /\ LogFilled /\ LogPlaced

-----------------------------------------------------------------------------
\* Sequences: what an appended or a joined sequence holds.
LEMMA JoinedPlaces ==
  ASSUME NEW s \in Seq(Nat), NEW t \in Seq(Nat)
  PROVE  /\ s \o t \in Seq(Nat)
         /\ DOMAIN (s \o t) = 1 .. Len(s) + Len(t) /\ DOMAIN s = 1 .. Len(s) /\ DOMAIN t = 1 .. Len(t)
         /\ \A i \in 1 .. Len(s) : (s \o t)[i] = s[i]
         /\ \A i \in 1 .. Len(t) : (s \o t)[Len(s) + i] = t[i]
         /\ \A i \in (1 .. Len(s) + Len(t)) \ (1 .. Len(s)) : i - Len(s) \in 1 .. Len(t) /\ (s \o t)[i] = t[i - Len(s)]
  OBVIOUS

LEMMA AddedPlaces ==
  ASSUME NEW s \in Seq(Nat), NEW x \in Nat
  PROVE  /\ Append(s, x) \in Seq(Nat) /\ Len(Append(s, x)) = Len(s) + 1
         /\ DOMAIN Append(s, x) = 1 .. Len(s) + 1 /\ DOMAIN s = 1 .. Len(s)
         /\ \A i \in 1 .. Len(s) : Append(s, x)[i] = s[i]
         /\ Append(s, x)[Len(s) + 1] = x
  OBVIOUS

LEMMA NoPlaces == <<>> \in Seq(Nat) /\ Len(<<>>) = 0 /\ DOMAIN <<>> = {}
  OBVIOUS

\* The work gives up or ends.
LEMMA ReturnRecord ==
  ASSUME NEW w \in LogWorks, NEW z, z = [w EXCEPT !.pc = "idle", !.buf = <<>>]
  PROVE  /\ z \in LogWorks
         /\ z.pc = "idle"
         /\ z.queued = w.queued
         /\ z.buf = <<>>
         /\ z.offset = w.offset
         /\ z.num = w.num
         /\ z.errs = w.errs
         /\ z.store = w.store
         /\ z.file = w.file
<1>1. z = [pc |-> z.pc, queued |-> z.queued, buf |-> z.buf, offset |-> z.offset, num |-> z.num, errs |-> z.errs, store |-> z.store, file |-> z.file]
  BY DEF LogWorks
<1>2. z.pc = "idle" /\ z.queued = w.queued /\ z.buf = <<>> /\ z.offset = w.offset /\ z.num = w.num /\ z.errs = w.errs /\ z.store = w.store /\ z.file = w.file
  BY DEF LogWorks
<1>3. z.pc \in LogPcs /\ z.queued \in BOOLEAN /\ z.buf \in Seq(Nat) /\ z.offset \in Nat /\ z.num \in 0 .. LogFiles /\ z.errs \in Nat /\ z.store \in BOOLEAN /\ z.file \in BOOLEAN
  BY <1>2, NoPlaces, LogAssumption DEF LogWorks, LogPcs
<1> QED
  BY <1>1, <1>2, <1>3 DEF LogWorks

\* The store of the file number is opened.
LEMMA StoreRecord ==
  ASSUME NEW w \in LogWorks, NEW z, z = [w EXCEPT !.pc = "file", !.store = TRUE]
  PROVE  /\ z \in LogWorks
         /\ z.pc = "file"
         /\ z.queued = w.queued
         /\ z.buf = w.buf
         /\ z.offset = w.offset
         /\ z.num = w.num
         /\ z.errs = w.errs
         /\ z.store = TRUE
         /\ z.file = w.file
<1>1. z = [pc |-> z.pc, queued |-> z.queued, buf |-> z.buf, offset |-> z.offset, num |-> z.num, errs |-> z.errs, store |-> z.store, file |-> z.file]
  BY DEF LogWorks
<1>2. z.pc = "file" /\ z.queued = w.queued /\ z.buf = w.buf /\ z.offset = w.offset /\ z.num = w.num /\ z.errs = w.errs /\ z.store = TRUE /\ z.file = w.file
  BY DEF LogWorks
<1>3. z.pc \in LogPcs /\ z.queued \in BOOLEAN /\ z.buf \in Seq(Nat) /\ z.offset \in Nat /\ z.num \in 0 .. LogFiles /\ z.errs \in Nat /\ z.store \in BOOLEAN /\ z.file \in BOOLEAN
  BY <1>2, NoPlaces, LogAssumption DEF LogWorks, LogPcs
<1> QED
  BY <1>1, <1>2, <1>3 DEF LogWorks

\* The next number is taken.
LEMMA NumRecord ==
  ASSUME NEW w \in LogWorks, NEW n \in 0 .. LogFiles, NEW z, z = [w EXCEPT !.num = n]
  PROVE  /\ z \in LogWorks
         /\ z.pc = w.pc
         /\ z.queued = w.queued
         /\ z.buf = w.buf
         /\ z.offset = w.offset
         /\ z.num = n
         /\ z.errs = w.errs
         /\ z.store = w.store
         /\ z.file = w.file
<1>1. z = [pc |-> z.pc, queued |-> z.queued, buf |-> z.buf, offset |-> z.offset, num |-> z.num, errs |-> z.errs, store |-> z.store, file |-> z.file]
  BY DEF LogWorks
<1>2. z.pc = w.pc /\ z.queued = w.queued /\ z.buf = w.buf /\ z.offset = w.offset /\ z.num = n /\ z.errs = w.errs /\ z.store = w.store /\ z.file = w.file
  BY DEF LogWorks
<1>3. z.pc \in LogPcs /\ z.queued \in BOOLEAN /\ z.buf \in Seq(Nat) /\ z.offset \in Nat /\ z.num \in 0 .. LogFiles /\ z.errs \in Nat /\ z.store \in BOOLEAN /\ z.file \in BOOLEAN
  BY <1>2, NoPlaces, LogAssumption DEF LogWorks, LogPcs
<1> QED
  BY <1>1, <1>2, <1>3 DEF LogWorks

\* The file is opened.
LEMMA FileRecord ==
  ASSUME NEW w \in LogWorks, NEW z, z = [w EXCEPT !.pc = "port", !.file = TRUE, !.offset = 0, !.errs = 0]
  PROVE  /\ z \in LogWorks
         /\ z.pc = "port"
         /\ z.queued = w.queued
         /\ z.buf = w.buf
         /\ z.offset = 0
         /\ z.num = w.num
         /\ z.errs = 0
         /\ z.store = w.store
         /\ z.file = TRUE
<1>1. z = [pc |-> z.pc, queued |-> z.queued, buf |-> z.buf, offset |-> z.offset, num |-> z.num, errs |-> z.errs, store |-> z.store, file |-> z.file]
  BY DEF LogWorks
<1>2. z.pc = "port" /\ z.queued = w.queued /\ z.buf = w.buf /\ z.offset = 0 /\ z.num = w.num /\ z.errs = 0 /\ z.store = w.store /\ z.file = TRUE
  BY DEF LogWorks
<1>3. z.pc \in LogPcs /\ z.queued \in BOOLEAN /\ z.buf \in Seq(Nat) /\ z.offset \in Nat /\ z.num \in 0 .. LogFiles /\ z.errs \in Nat /\ z.store \in BOOLEAN /\ z.file \in BOOLEAN
  BY <1>2, NoPlaces, LogAssumption DEF LogWorks, LogPcs
<1> QED
  BY <1>1, <1>2, <1>3 DEF LogWorks

\* The port is open and the buffer empty.
LEMMA LoopRecord ==
  ASSUME NEW w \in LogWorks, NEW z, z = [w EXCEPT !.pc = "loop", !.buf = <<>>]
  PROVE  /\ z \in LogWorks
         /\ z.pc = "loop"
         /\ z.queued = w.queued
         /\ z.buf = <<>>
         /\ z.offset = w.offset
         /\ z.num = w.num
         /\ z.errs = w.errs
         /\ z.store = w.store
         /\ z.file = w.file
<1>1. z = [pc |-> z.pc, queued |-> z.queued, buf |-> z.buf, offset |-> z.offset, num |-> z.num, errs |-> z.errs, store |-> z.store, file |-> z.file]
  BY DEF LogWorks
<1>2. z.pc = "loop" /\ z.queued = w.queued /\ z.buf = <<>> /\ z.offset = w.offset /\ z.num = w.num /\ z.errs = w.errs /\ z.store = w.store /\ z.file = w.file
  BY DEF LogWorks
<1>3. z.pc \in LogPcs /\ z.queued \in BOOLEAN /\ z.buf \in Seq(Nat) /\ z.offset \in Nat /\ z.num \in 0 .. LogFiles /\ z.errs \in Nat /\ z.store \in BOOLEAN /\ z.file \in BOOLEAN
  BY <1>2, NoPlaces, LogAssumption DEF LogWorks, LogPcs
<1> QED
  BY <1>1, <1>2, <1>3 DEF LogWorks

\* The files are closed.
LEMMA EndRecord ==
  ASSUME NEW w \in LogWorks, NEW z, z = [w EXCEPT !.store = FALSE, !.file = FALSE]
  PROVE  /\ z \in LogWorks
         /\ z.pc = w.pc
         /\ z.queued = w.queued
         /\ z.buf = w.buf
         /\ z.offset = w.offset
         /\ z.num = w.num
         /\ z.errs = w.errs
         /\ z.store = FALSE
         /\ z.file = FALSE
<1>1. z = [pc |-> z.pc, queued |-> z.queued, buf |-> z.buf, offset |-> z.offset, num |-> z.num, errs |-> z.errs, store |-> z.store, file |-> z.file]
  BY DEF LogWorks
<1>2. z.pc = w.pc /\ z.queued = w.queued /\ z.buf = w.buf /\ z.offset = w.offset /\ z.num = w.num /\ z.errs = w.errs /\ z.store = FALSE /\ z.file = FALSE
  BY DEF LogWorks
<1>3. z.pc \in LogPcs /\ z.queued \in BOOLEAN /\ z.buf \in Seq(Nat) /\ z.offset \in Nat /\ z.num \in 0 .. LogFiles /\ z.errs \in Nat /\ z.store \in BOOLEAN /\ z.file \in BOOLEAN
  BY <1>2, NoPlaces, LogAssumption DEF LogWorks, LogPcs
<1> QED
  BY <1>1, <1>2, <1>3 DEF LogWorks

\* A read failed.
LEMMA FailRecord ==
  ASSUME NEW w \in LogWorks, NEW e \in Nat
  PROVE  /\ [w EXCEPT !.pc = "got", !.errs = e] \in LogWorks
         /\ [w EXCEPT !.pc = "got", !.errs = e].pc = "got"
         /\ [w EXCEPT !.pc = "got", !.errs = e].queued = w.queued
         /\ [w EXCEPT !.pc = "got", !.errs = e].buf = w.buf
         /\ [w EXCEPT !.pc = "got", !.errs = e].offset = w.offset
         /\ [w EXCEPT !.pc = "got", !.errs = e].num = w.num
         /\ [w EXCEPT !.pc = "got", !.errs = e].errs = e
         /\ [w EXCEPT !.pc = "got", !.errs = e].store = w.store
         /\ [w EXCEPT !.pc = "got", !.errs = e].file = w.file
<1> DEFINE z == [w EXCEPT !.pc = "got", !.errs = e]
<1>0. z = [w EXCEPT !.pc = "got", !.errs = e]
  OBVIOUS
<1> HIDE DEF z
<1>1. z = [pc |-> z.pc, queued |-> z.queued, buf |-> z.buf, offset |-> z.offset, num |-> z.num, errs |-> z.errs, store |-> z.store, file |-> z.file]
  BY <1>0 DEF LogWorks
<1>2. z.pc = "got" /\ z.queued = w.queued /\ z.buf = w.buf /\ z.offset = w.offset /\ z.num = w.num /\ z.errs = e /\ z.store = w.store /\ z.file = w.file
  BY <1>0 DEF LogWorks
<1>3. z.pc \in LogPcs /\ z.queued \in BOOLEAN /\ z.buf \in Seq(Nat) /\ z.offset \in Nat /\ z.num \in 0 .. LogFiles /\ z.errs \in Nat /\ z.store \in BOOLEAN /\ z.file \in BOOLEAN
  BY <1>2, NoPlaces, LogAssumption DEF LogWorks, LogPcs
<1>4. z \in LogWorks
  BY <1>1, <1>2, <1>3 DEF LogWorks
<1> QED
  BY <1>2, <1>4 DEF z

\* A piece was read.
LEMMA ReadRecord ==
  ASSUME NEW w \in LogWorks, NEW b \in Seq(Nat)
  PROVE  /\ [w EXCEPT !.pc = "got", !.buf = b, !.errs = 0] \in LogWorks
         /\ [w EXCEPT !.pc = "got", !.buf = b, !.errs = 0].pc = "got"
         /\ [w EXCEPT !.pc = "got", !.buf = b, !.errs = 0].queued = w.queued
         /\ [w EXCEPT !.pc = "got", !.buf = b, !.errs = 0].buf = b
         /\ [w EXCEPT !.pc = "got", !.buf = b, !.errs = 0].offset = w.offset
         /\ [w EXCEPT !.pc = "got", !.buf = b, !.errs = 0].num = w.num
         /\ [w EXCEPT !.pc = "got", !.buf = b, !.errs = 0].errs = 0
         /\ [w EXCEPT !.pc = "got", !.buf = b, !.errs = 0].store = w.store
         /\ [w EXCEPT !.pc = "got", !.buf = b, !.errs = 0].file = w.file
<1> DEFINE z == [w EXCEPT !.pc = "got", !.buf = b, !.errs = 0]
<1>0. z = [w EXCEPT !.pc = "got", !.buf = b, !.errs = 0]
  OBVIOUS
<1> HIDE DEF z
<1>1. z = [pc |-> z.pc, queued |-> z.queued, buf |-> z.buf, offset |-> z.offset, num |-> z.num, errs |-> z.errs, store |-> z.store, file |-> z.file]
  BY <1>0 DEF LogWorks
<1>2. z.pc = "got" /\ z.queued = w.queued /\ z.buf = b /\ z.offset = w.offset /\ z.num = w.num /\ z.errs = 0 /\ z.store = w.store /\ z.file = w.file
  BY <1>0 DEF LogWorks
<1>3. z.pc \in LogPcs /\ z.queued \in BOOLEAN /\ z.buf \in Seq(Nat) /\ z.offset \in Nat /\ z.num \in 0 .. LogFiles /\ z.errs \in Nat /\ z.store \in BOOLEAN /\ z.file \in BOOLEAN
  BY <1>2, NoPlaces, LogAssumption DEF LogWorks, LogPcs
<1>4. z \in LogWorks
  BY <1>1, <1>2, <1>3 DEF LogWorks
<1> QED
  BY <1>2, <1>4 DEF z

\* The work takes a piece.
LEMMA TakenRecord ==
  ASSUME NEW p \in LogPorts, p.n > 0
  PROVE  /\ [p EXCEPT !.n = p.n - 1] \in LogPorts
         /\ [p EXCEPT !.n = p.n - 1].state = p.state
         /\ [p EXCEPT !.n = p.n - 1].n = p.n - 1
         /\ [p EXCEPT !.n = p.n - 1].made = p.made
         /\ [p EXCEPT !.n = p.n - 1].opens = p.opens
         /\ [p EXCEPT !.n = p.n - 1].user = p.user
<1> DEFINE z == [p EXCEPT !.n = p.n - 1]
<1>0. z = [p EXCEPT !.n = p.n - 1]
  OBVIOUS
<1> HIDE DEF z
<1>1. z = [state |-> z.state, n |-> z.n, made |-> z.made, opens |-> z.opens, user |-> z.user]
  BY <1>0 DEF LogPorts
<1>2. z.state = p.state /\ z.n = p.n - 1 /\ z.made = p.made /\ z.opens = p.opens /\ z.user = p.user
  BY <1>0 DEF LogPorts
<1>3. z.state \in {"close", "idle", "open", "asst"} /\ z.n \in 0 .. LogRoom /\ z.made \in Nat /\ z.opens \in Nat /\ z.user \in BOOLEAN
  BY <1>2, NoPlaces, LogAssumption DEF LogPorts, LogPcs
<1>4. z \in LogPorts
  BY <1>1, <1>2, <1>3 DEF LogPorts
<1> QED
  BY <1>2, <1>4 DEF z

\* The chip logs.
LEMMA MadeRecord ==
  ASSUME NEW p \in LogPorts, p.n < LogRoom, NEW z, z = [p EXCEPT !.n = p.n + 1, !.made = p.made + 1]
  PROVE  /\ z \in LogPorts
         /\ z.state = p.state
         /\ z.n = p.n + 1
         /\ z.made = p.made + 1
         /\ z.opens = p.opens
         /\ z.user = p.user
<1>1. z = [state |-> z.state, n |-> z.n, made |-> z.made, opens |-> z.opens, user |-> z.user]
  BY DEF LogPorts
<1>2. z.state = p.state /\ z.n = p.n + 1 /\ z.made = p.made + 1 /\ z.opens = p.opens /\ z.user = p.user
  BY DEF LogPorts
<1>3. z.state \in {"close", "idle", "open", "asst"} /\ z.n \in 0 .. LogRoom /\ z.made \in Nat /\ z.opens \in Nat /\ z.user \in BOOLEAN
  BY <1>2, NoPlaces, LogAssumption DEF LogPorts, LogPcs
<1> QED
  BY <1>1, <1>2, <1>3 DEF LogPorts

\* A user opens the port.
LEMMA OpenedRecord ==
  ASSUME NEW p \in LogPorts, NEW s \in {"open", p.state}, NEW z, z = [p EXCEPT !.opens = p.opens + 1, !.user = TRUE, !.state = s]
  PROVE  /\ z \in LogPorts
         /\ z.state = s
         /\ z.n = p.n
         /\ z.made = p.made
         /\ z.opens = p.opens + 1
         /\ z.user = TRUE
<1>1. z = [state |-> z.state, n |-> z.n, made |-> z.made, opens |-> z.opens, user |-> z.user]
  BY DEF LogPorts
<1>2. z.state = s /\ z.n = p.n /\ z.made = p.made /\ z.opens = p.opens + 1 /\ z.user = TRUE
  BY DEF LogPorts
<1>3. z.state \in {"close", "idle", "open", "asst"} /\ z.n \in 0 .. LogRoom /\ z.made \in Nat /\ z.opens \in Nat /\ z.user \in BOOLEAN
  BY <1>2, NoPlaces, LogAssumption DEF LogPorts, LogPcs
<1> QED
  BY <1>1, <1>2, <1>3 DEF LogPorts

\* The work opens the port.
LEMMA WorkOpened ==
  ASSUME NEW p \in LogPorts, NEW s \in {"open", p.state}, NEW z, z = [p EXCEPT !.opens = p.opens + 1, !.state = s]
  PROVE  /\ z \in LogPorts
         /\ z.state = s
         /\ z.n = p.n
         /\ z.made = p.made
         /\ z.opens = p.opens + 1
         /\ z.user = p.user
<1>1. z = [state |-> z.state, n |-> z.n, made |-> z.made, opens |-> z.opens, user |-> z.user]
  BY DEF LogPorts
<1>2. z.state = s /\ z.n = p.n /\ z.made = p.made /\ z.opens = p.opens + 1 /\ z.user = p.user
  BY DEF LogPorts
<1>3. z.state \in {"close", "idle", "open", "asst"} /\ z.n \in 0 .. LogRoom /\ z.made \in Nat /\ z.opens \in Nat /\ z.user \in BOOLEAN
  BY <1>2, NoPlaces, LogAssumption DEF LogPorts, LogPcs
<1> QED
  BY <1>1, <1>2, <1>3 DEF LogPorts

\* A user closes the port.
LEMMA ClosedRecord ==
  ASSUME NEW p \in LogPorts, p.opens > 0, NEW z, z = [p EXCEPT !.opens = p.opens - 1, !.user = FALSE]
  PROVE  /\ z \in LogPorts
         /\ z.state = p.state
         /\ z.n = p.n
         /\ z.made = p.made
         /\ z.opens = p.opens - 1
         /\ z.user = FALSE
<1>1. z = [state |-> z.state, n |-> z.n, made |-> z.made, opens |-> z.opens, user |-> z.user]
  BY DEF LogPorts
<1>2. z.state = p.state /\ z.n = p.n /\ z.made = p.made /\ z.opens = p.opens - 1 /\ z.user = FALSE
  BY DEF LogPorts
<1>3. z.state \in {"close", "idle", "open", "asst"} /\ z.n \in 0 .. LogRoom /\ z.made \in Nat /\ z.opens \in Nat /\ z.user \in BOOLEAN
  BY <1>2, NoPlaces, LogAssumption DEF LogPorts, LogPcs
<1> QED
  BY <1>1, <1>2, <1>3 DEF LogPorts

\* The work closes the port.
LEMMA WorkClosed ==
  ASSUME NEW p \in LogPorts, p.opens > 0, NEW z, z = [p EXCEPT !.opens = p.opens - 1]
  PROVE  /\ z \in LogPorts
         /\ z.state = p.state
         /\ z.n = p.n
         /\ z.made = p.made
         /\ z.opens = p.opens - 1
         /\ z.user = p.user
<1>1. z = [state |-> z.state, n |-> z.n, made |-> z.made, opens |-> z.opens, user |-> z.user]
  BY DEF LogPorts
<1>2. z.state = p.state /\ z.n = p.n /\ z.made = p.made /\ z.opens = p.opens - 1 /\ z.user = p.user
  BY DEF LogPorts
<1>3. z.state \in {"close", "idle", "open", "asst"} /\ z.n \in 0 .. LogRoom /\ z.made \in Nat /\ z.opens \in Nat /\ z.user \in BOOLEAN
  BY <1>2, NoPlaces, LogAssumption DEF LogPorts, LogPcs
<1> QED
  BY <1>1, <1>2, <1>3 DEF LogPorts

\* Nothing moves.
LEMMA PlacedFrame ==
  ASSUME LogPlaced, out' = out, work'.buf = work.buf, l_odd \subseteq l_odd'
  PROVE  LogPlaced'
  BY DEF LogPlaced, Rising, Has

\* A piece is read into the buffer.
LEMMA PlacedRead ==
  ASSUME LogTypes, LogPlaced, work'.buf = Append(work.buf, out.read + 1), l_odd \subseteq l_odd',
         out'.read = out.read + 1, out'.written = out.written, out'.lost = out.lost
  PROVE  LogPlaced'
<1>1. out.read \in Nat /\ work.buf \in Seq(Nat) /\ out.written \in Seq(Nat)
  BY DEF LogTypes, LogOuts, LogWorks
<1> DEFINE s == work.buf
           w == out.written
           r == out.read
           n == Len(s)
<1>2. s \in Seq(Nat) /\ w \in Seq(Nat) /\ r \in Nat /\ n \in Nat /\ DOMAIN s = 1 .. n
  BY <1>1
<1>3. /\ DOMAIN work'.buf = 1 .. n + 1 /\ work'.buf[n + 1] = r + 1
      /\ \A i \in 1 .. n : work'.buf[i] = s[i]
  BY <1>1, AddedPlaces
<1>4. \A i \in DOMAIN s : s[i] \in 1 .. r
  BY DEF LogPlaced
<1>5. \A i \in DOMAIN w : w[i] \in 1 .. r
  BY DEF LogPlaced
<1>6. \A i \in 1 .. n + 1 : i \in 1 .. n \/ i = n + 1
  BY <1>2
<1>7. Rising(work.buf)'
  <2> SUFFICES ASSUME NEW i \in 1 .. n + 1, NEW j \in 1 .. n + 1, i < j PROVE work'.buf[i] < work'.buf[j]
    BY <1>3 DEF Rising
  <2>1. i \in 1 .. n
    BY <1>2
  <2>2. CASE j \in 1 .. n
    BY <2>1, <2>2, <1>2, <1>3 DEF LogPlaced, Rising
  <2>3. CASE j = n + 1
    <3>1. s[i] \in 1 .. r
      BY <2>1, <1>2, <1>4
    <3> QED
      BY <3>1, <2>1, <2>3, <1>3, <1>2
  <2> QED
    BY <1>6, <2>2, <2>3
<1>8. Rising(out.written)'
  BY DEF LogPlaced, Rising
<1>9. \A i \in DOMAIN out'.written, j \in DOMAIN work'.buf : out'.written[i] < work'.buf[j]
  <2> SUFFICES ASSUME NEW i \in DOMAIN w, NEW j \in 1 .. n + 1 PROVE w[i] < work'.buf[j]
    BY <1>3
  <2>1. CASE j \in 1 .. n
    BY <2>1, <1>2, <1>3 DEF LogPlaced
  <2>2. CASE j = n + 1
    BY <2>2, <1>2, <1>3, <1>5
  <2> QED
    BY <1>6, <2>1, <2>2
<1>10. \A x \in out.lost : x \in 1 .. r
  BY DEF LogPlaced
<1>11. r + 1 \notin out.lost
  BY <1>10, <1>2
<1>12. \A i \in DOMAIN out'.written : out'.written[i] \in 1 .. out'.read /\ out'.written[i] \notin out'.lost
  BY <1>5, <1>2 DEF LogPlaced
<1>13. \A i \in DOMAIN work'.buf : work'.buf[i] \in 1 .. out'.read /\ work'.buf[i] \notin out'.lost
  <2> SUFFICES ASSUME NEW i \in 1 .. n + 1 PROVE work'.buf[i] \in 1 .. r + 1 /\ work'.buf[i] \notin out.lost
    BY <1>3
  <2>1. CASE i \in 1 .. n
    <3>1. s[i] \in 1 .. r /\ s[i] \notin out.lost /\ work'.buf[i] = s[i]
      BY <2>1, <1>2, <1>3 DEF LogPlaced
    <3> QED
      BY <3>1, <1>2
  <2>2. CASE i = n + 1
    BY <2>2, <1>2, <1>3, <1>11
  <2> QED
    BY <1>6, <2>1, <2>2
<1>14. out'.lost \subseteq 1 .. out'.read
  BY <1>10, <1>2
<1>15. \A x \in 1 .. out'.read : Has(out.written, x)' \/ Has(work.buf, x)' \/ x \in out'.lost
  <2> SUFFICES ASSUME NEW x \in 1 .. r + 1 PROVE Has(out.written, x)' \/ Has(work.buf, x)' \/ x \in out'.lost
    OBVIOUS
  <2>1. CASE x \in 1 .. r
    <3>1. CASE Has(s, x)
      <4>1. PICK i \in 1 .. n : s[i] = x
        BY <3>1, <1>2 DEF Has
      <4>2. i \in DOMAIN work'.buf /\ work'.buf[i] = x
        BY <4>1, <1>2, <1>3
      <4> QED
        BY <4>2 DEF Has
    <3>2. CASE Has(w, x)
      BY <3>2 DEF Has
    <3> QED
      BY <2>1, <3>1, <3>2 DEF LogPlaced
  <2>2. CASE x = r + 1
    <3>1. n + 1 \in DOMAIN work'.buf /\ work'.buf[n + 1] = x
      BY <2>2, <1>2, <1>3
    <3> QED
      BY <3>1 DEF Has
  <2> QED
    BY <2>1, <2>2, <1>2
<1>16. out'.lost # {} => l_odd' \cap {"unwritten", "tail"} # {}
  BY DEF LogPlaced
<1> QED
  BY <1>7, <1>8, <1>9, <1>12, <1>13, <1>14, <1>15, <1>16 DEF LogPlaced

\* The buffer goes to the file.
LEMMA PlacedWrite ==
  ASSUME LogTypes, LogPlaced, work'.buf = <<>>, l_odd \subseteq l_odd',
         out'.read = out.read, out'.written = out.written \o work.buf, out'.lost = out.lost
  PROVE  LogPlaced'
<1> DEFINE s == work.buf
           w == out.written
           n == Len(s)
           m == Len(w)
           z == out'.written
<1>1. out.read \in Nat /\ s \in Seq(Nat) /\ w \in Seq(Nat) /\ n \in Nat /\ m \in Nat /\ DOMAIN s = 1 .. n /\ DOMAIN w = 1 .. m
  BY DEF LogTypes, LogOuts, LogWorks
<1>2. /\ DOMAIN z = 1 .. m + n
      /\ \A i \in 1 .. m : z[i] = w[i]
      /\ \A i \in 1 .. n : z[m + i] = s[i]
      /\ \A i \in (1 .. m + n) \ (1 .. m) : i - m \in 1 .. n /\ z[i] = s[i - m]
  <2> HIDE DEF s, w, n, m, z
  <2>1. z = w \o s /\ n = Len(s) /\ m = Len(w)
    BY DEF s, w, n, m, z
  <2>2. DOMAIN (w \o s) = 1 .. m + n /\ (\A i \in 1 .. m : (w \o s)[i] = w[i]) /\ (\A i \in 1 .. n : (w \o s)[m + i] = s[i])
    BY <1>1, <2>1, JoinedPlaces
  <2>3. \A i \in (1 .. m + n) \ (1 .. m) : i - m \in 1 .. n /\ (w \o s)[i] = s[i - m]
    BY <1>1, <2>1, JoinedPlaces
  <2> QED
    BY <2>1, <2>2, <2>3
<1>3. DOMAIN work'.buf = {}
  BY NoPlaces
<1>4. /\ \A i, j \in 1 .. m : i < j => w[i] < w[j]
      /\ \A i, j \in 1 .. n : i < j => s[i] < s[j]
      /\ \A i \in 1 .. m, j \in 1 .. n : w[i] < s[j]
  BY <1>1 DEF LogPlaced, Rising
<1>5. \A i \in 1 .. m + n : i \in 1 .. m \/ i \in (1 .. m + n) \ (1 .. m)
  OBVIOUS
<1> HIDE DEF s, w, n, m, z
<1>6. Rising(out.written)'
  <2> SUFFICES ASSUME NEW i \in 1 .. m + n, NEW j \in 1 .. m + n, i < j PROVE z[i] < z[j]
    BY <1>2 DEF Rising, z
  <2>1. CASE j \in 1 .. m
    <3>1. i \in 1 .. m
      BY <2>1, <1>1
    <3> QED
      BY <3>1, <2>1, <1>2, <1>4
  <2>2. CASE i \in 1 .. m /\ j \in (1 .. m + n) \ (1 .. m)
    BY <2>2, <1>2, <1>4
  <2>3. CASE i \in (1 .. m + n) \ (1 .. m) /\ j \in (1 .. m + n) \ (1 .. m)
    <3>1. i - m \in 1 .. n /\ j - m \in 1 .. n /\ i - m < j - m
      BY <2>3, <1>1, <1>2
    <3>2. s[i - m] < s[j - m]
      BY <3>1, <1>4
    <3> QED
      BY <3>2, <2>3, <1>2
  <2>4. i \in 1 .. m \/ j \notin 1 .. m
    BY <1>1
  <2> QED
    BY <1>5, <2>1, <2>2, <2>3, <2>4
<1>7. Rising(work.buf)'
  BY <1>3 DEF Rising
<1>8. \A i \in DOMAIN out'.written : out'.written[i] \in 1 .. out'.read /\ out'.written[i] \notin out'.lost
  <2> SUFFICES ASSUME NEW i \in 1 .. m + n PROVE z[i] \in 1 .. out.read /\ z[i] \notin out.lost
    BY <1>2 DEF z
  <2>1. CASE i \in 1 .. m
    BY <2>1, <1>1, <1>2 DEF LogPlaced, w
  <2>2. CASE i \in (1 .. m + n) \ (1 .. m)
    BY <2>2, <1>1, <1>2 DEF LogPlaced, s
  <2> QED
    BY <1>5, <2>1, <2>2
<1>9. \A x \in 1 .. out'.read : Has(out.written, x)' \/ Has(work.buf, x)' \/ x \in out'.lost
  <2> SUFFICES ASSUME NEW x \in 1 .. out.read, x \notin out.lost PROVE \E i \in 1 .. m + n : z[i] = x
    BY <1>2 DEF Has, z
  <2>1. Has(w, x) \/ Has(s, x)
    BY DEF LogPlaced, w, s
  <2>2. CASE Has(w, x)
    <3>1. PICK i \in 1 .. m : w[i] = x
      BY <2>2, <1>1 DEF Has
    <3>2. i \in 1 .. m + n /\ z[i] = x
      BY <3>1, <1>1, <1>2
    <3> QED
      BY <3>2
  <2>3. CASE Has(s, x)
    <3>1. PICK i \in 1 .. n : s[i] = x
      BY <2>3, <1>1 DEF Has
    <3>2. m + i \in 1 .. m + n /\ z[m + i] = x
      BY <3>1, <1>1, <1>2
    <3> QED
      BY <3>2
  <2> QED
    BY <2>1, <2>2, <2>3
<1>10. out'.lost \subseteq 1 .. out'.read /\ (out'.lost # {} => l_odd' \cap {"unwritten", "tail"} # {})
  BY DEF LogPlaced
<1> QED
  BY <1>3, <1>6, <1>7, <1>8, <1>9, <1>10 DEF LogPlaced

\* The buffer is dropped.
LEMMA PlacedDrop ==
  ASSUME LogTypes, LogPlaced, work'.buf = <<>>, l_odd \subseteq l_odd', work.buf = <<>> \/ l_odd' \cap {"unwritten", "tail"} # {},
         out'.read = out.read, out'.written = out.written, out'.lost = out.lost \cup Log!ToSet(work.buf)
  PROVE  LogPlaced'
<1>1. DOMAIN work'.buf = {}
  BY NoPlaces
<1>2. \A x : x \in Log!ToSet(work.buf) <=> Has(work.buf, x)
  BY DEF Log!ToSet, Has
<1>3. work.buf = <<>> => Log!ToSet(work.buf) = {}
  BY NoPlaces DEF Log!ToSet
<1>4. \A i \in DOMAIN out.written : out.written[i] \notin Log!ToSet(work.buf)
  <2> SUFFICES ASSUME NEW i \in DOMAIN out.written, NEW j \in DOMAIN work.buf, out.written[i] = work.buf[j] PROVE FALSE
    BY <1>2 DEF Has
  <2>1. out.written[i] < work.buf[j] /\ out.written[i] \in 1 .. out.read /\ out.read \in Nat
    BY DEF LogPlaced, LogTypes, LogOuts
  <2> QED
    BY <2>1
<1>5. Log!ToSet(work.buf) \subseteq 1 .. out.read
  BY <1>2 DEF LogPlaced, Has
<1>6. Rising(work.buf)' /\ Rising(out.written)'
  BY <1>1 DEF Rising, LogPlaced
<1>7. \A x \in 1 .. out'.read : Has(out.written, x)' \/ x \in out'.lost
  BY <1>2 DEF LogPlaced, Has
<1>8. out'.lost # {} => l_odd' \cap {"unwritten", "tail"} # {}
  BY <1>3 DEF LogPlaced
<1> QED
  BY <1>1, <1>4, <1>5, <1>6, <1>7, <1>8 DEF LogPlaced

\* What the first steps of the work change.
LEMMA WorkBeginDoes ==
  ASSUME LogInv, NEW ok \in BOOLEAN, Log!WorkBegin(ok)
  PROVE  /\ work \in LogWorks /\ work.pc = "begin" /\ dev' = dev /\ port' = port /\ exit' = exit /\ l_odd \subseteq l_odd'
         /\ \/ work'.pc = "idle" /\ ((flags' = flags /\ flags.record) \/ "stuck" \in l_odd') /\ work'.store = work.store
            \/ work'.pc = "file"
         /\ work'.queued = work.queued /\ work'.buf = <<>> /\ work'.file = work.file
<1>1. work \in LogWorks /\ work.pc = "begin" /\ dev' = dev /\ port' = port /\ exit' = exit /\ l_odd \subseteq l_odd' /\ work.buf = <<>>
  BY DEF LogInv, LogTypes, LogFilled, Log!WorkBegin, Log!Return
<1>2. CASE work' = [work EXCEPT !.pc = "idle", !.buf = <<>>] /\ ((flags' = flags /\ flags.record) \/ "stuck" \in l_odd')
  <2>1. work'.pc = "idle" /\ work'.queued = work.queued /\ work'.buf = <<>> /\ work'.file = work.file /\ work'.store = work.store
    BY <1>1, <1>2, ReturnRecord
  <2> QED
    BY <1>1, <1>2, <2>1
<1>3. CASE work' = [work EXCEPT !.pc = "file", !.store = TRUE]
  <2>1. work'.pc = "file" /\ work'.queued = work.queued /\ work'.buf = work.buf /\ work'.file = work.file
    BY <1>1, <1>3, StoreRecord
  <2> QED
    BY <1>1, <2>1
<1> QED
  BY <1>2, <1>3 DEF Log!WorkBegin, Log!Return

LEMMA WorkFileDoes ==
  ASSUME LogInv, NEW ok \in BOOLEAN, Log!WorkFile(ok)
  PROVE  /\ work \in LogWorks /\ work.pc = "file" /\ dev' = dev /\ port' = port /\ exit' = exit /\ flags' = flags /\ l_odd \subseteq l_odd'
         /\ work' \in LogWorks
         /\ \/ work'.pc = "idle" /\ {"stuck", "storeleft"} \subseteq l_odd' /\ work'.file = work.file
            \/ work'.pc = "port"
         /\ work'.queued = work.queued /\ work'.buf = <<>>
<1>1. work \in LogWorks /\ work.pc = "file" /\ dev' = dev /\ port' = port /\ exit' = exit /\ flags' = flags /\ l_odd \subseteq l_odd' /\ work.buf = <<>>
  BY DEF LogInv, LogTypes, LogFilled, Log!WorkFile, Log!Return
<1> DEFINE w == [work EXCEPT !.num = Log!NextNum(work.num)]
<1>2. \/ work' = [w EXCEPT !.pc = "idle", !.buf = <<>>] /\ {"stuck", "storeleft"} \subseteq l_odd'
      \/ work' = [w EXCEPT !.pc = "port", !.file = TRUE, !.offset = 0, !.errs = 0]
  BY DEF Log!WorkFile, Log!Return
<1>3. Log!NextNum(work.num) \in 0 .. LogFiles
  BY <1>1, LogAssumption DEF Log!NextNum, LogWorks
<1>4. w \in LogWorks /\ w.queued = work.queued /\ w.buf = work.buf /\ w.file = work.file
  BY <1>1, <1>3, NumRecord
<1> HIDE DEF w
<1>5. CASE work' = [w EXCEPT !.pc = "idle", !.buf = <<>>] /\ {"stuck", "storeleft"} \subseteq l_odd'
  <2>1. work' \in LogWorks /\ work'.pc = "idle" /\ work'.queued = w.queued /\ work'.buf = <<>> /\ work'.file = w.file
    BY <1>4, <1>5, ReturnRecord
  <2> QED
    BY <1>1, <1>4, <1>5, <2>1
<1>6. CASE work' = [w EXCEPT !.pc = "port", !.file = TRUE, !.offset = 0, !.errs = 0]
  <2>1. work' \in LogWorks /\ work'.pc = "port" /\ work'.queued = w.queued /\ work'.buf = w.buf
    BY <1>4, <1>6, FileRecord
  <2> QED
    BY <1>1, <1>4, <2>1
<1> QED
  BY <1>2, <1>5, <1>6

LEMMA WorkPortDoes ==
  ASSUME LogInv, NEW ok \in BOOLEAN, Log!WorkPort(ok)
  PROVE  /\ work \in LogWorks /\ work.pc = "port" /\ port \in LogPorts /\ dev' = dev /\ exit' = exit /\ flags' = flags /\ l_odd \subseteq l_odd'
         /\ port' \in LogPorts /\ port'.opens = port.opens + 1 /\ port'.user = port.user /\ port'.state \in {"open", port.state}
         /\ \/ work'.pc = "idle" /\ {"stuck", "storeleft", "fileleft", "opensleft"} \subseteq l_odd'
            \/ work'.pc = "loop"
         /\ work'.queued = work.queued /\ work'.buf = <<>>
<1>1. work \in LogWorks /\ work.pc = "port" /\ port \in LogPorts /\ dev' = dev /\ exit' = exit /\ flags' = flags /\ l_odd \subseteq l_odd'
  BY DEF LogInv, LogTypes, Log!WorkPort, Log!Return
<1> DEFINE s == IF port.opens = 0 THEN "open" ELSE port.state
<1>2. port' = [port EXCEPT !.opens = port.opens + 1, !.state = s] /\ s \in {"open", port.state}
  BY DEF Log!WorkPort
<1> HIDE DEF s
<1>3. port' \in LogPorts /\ port'.opens = port.opens + 1 /\ port'.user = port.user /\ port'.state = s
  BY <1>1, <1>2, WorkOpened
<1>4. CASE work' = [work EXCEPT !.pc = "idle", !.buf = <<>>] /\ {"stuck", "storeleft", "fileleft", "opensleft"} \subseteq l_odd'
  <2>1. work'.pc = "idle" /\ work'.queued = work.queued /\ work'.buf = <<>>
    BY <1>1, <1>4, ReturnRecord
  <2> QED
    BY <1>1, <1>2, <1>3, <1>4, <2>1
<1>5. CASE work' = [work EXCEPT !.pc = "loop", !.buf = <<>>]
  <2>1. work'.pc = "loop" /\ work'.queued = work.queued /\ work'.buf = <<>>
    BY <1>1, <1>5, LoopRecord
  <2> QED
    BY <1>1, <1>2, <1>3, <2>1
<1> QED
  BY <1>4, <1>5 DEF Log!WorkPort, Log!Return

LEMMA LogInitLog ==
  ASSUME LogInv, NEW ok \in BOOLEAN, Log!LogInit(ok)
  PROVE  LogInv'
<1>1. LogTypes'
  <2>1. dev' \in LogDevs
    <3>1. CASE dev' = [dev EXCEPT !.start = FALSE]
      BY <3>1 DEF LogInv, LogTypes, LogDevs
    <3>2. CASE dev' = [log |-> "ready", com |-> TRUE, start |-> TRUE, known |-> TRUE, told |-> ~dev.known]
      BY <3>2 DEF LogInv, LogTypes, LogDevs
    <3>3. CASE dev' = [dev EXCEPT !.log = "freed", !.com = TRUE]
      <4>1. dev' = [log |-> dev'.log, com |-> dev'.com, start |-> dev'.start, known |-> dev'.known, told |-> dev'.told]
        BY <3>3 DEF LogInv, LogTypes, LogDevs
      <4>2. dev'.log = "freed" /\ dev'.com = TRUE /\ dev'.start = dev.start /\ dev'.known = dev.known /\ dev'.told = dev.told
        BY <3>3 DEF LogInv, LogTypes, LogDevs
      <4> QED
        BY <4>1, <4>2 DEF LogInv, LogTypes, LogDevs
    <3> QED
      BY <3>1, <3>2, <3>3 DEF Log!LogInit
  <2>2. flags' \in LogFlags
    BY LogAssumption, NoPlaces DEF LogInv, LogTypes, Log!LogInit, Log!Event, Log!Mark, Log!Started, Log!Starts, Log!Queue, LogFlags
  <2>3. port' \in LogPorts
    BY LogAssumption, NoPlaces DEF LogInv, LogTypes, Log!LogInit, Log!Event, Log!Mark, Log!Started, Log!Starts, Log!Queue, LogPorts
  <2>4. work' \in LogWorks
    BY LogAssumption, NoPlaces DEF LogInv, LogTypes, Log!LogInit, Log!Event, Log!Mark, Log!Started, Log!Starts, Log!Queue, LogWorks, LogPcs
  <2>5. out' \in LogOuts
    BY LogAssumption, NoPlaces DEF LogInv, LogTypes, Log!LogInit, Log!Event, Log!Mark, Log!Started, Log!Starts, Log!Queue, LogOuts
  <2>6. exit' \in {"idle", "cancel"} /\ l_odd' \subseteq Log!Flags
    BY LogAssumption, NoPlaces DEF LogInv, LogTypes, Log!LogInit, Log!Event, Log!Mark, Log!Started, Log!Starts, Log!Queue, Log!Flags
  <2> QED
    BY <2>1, <2>2, <2>3, <2>4, <2>5, <2>6 DEF LogTypes
<1>2. LogTold'
  <2>1. exit' = exit /\ exit = "idle" /\ l_odd \subseteq l_odd' /\ port' = port
    BY DEF Log!LogInit, Log!Mark
  <2>2. CASE dev.log # "none" /\ dev' = [dev EXCEPT !.start = FALSE] /\ flags' = flags /\ work' = work
    BY <2>1, <2>2 DEF LogInv, LogTypes, LogTold, LogDevs
  <2>3. CASE dev.log = "none" /\ dev' = [log |-> "ready", com |-> TRUE, start |-> TRUE, known |-> TRUE, told |-> ~dev.known]
             /\ Log!Mark(dev.known, "deaf") /\ flags' = Log!Started("ready", flags) /\ work' = Log!Queue("ready", work)
    <3>1. work'.pc = "idle" /\ work.pc = "idle" /\ flags'.record = flags.record
      BY <2>3 DEF LogInv, LogTypes, LogTold, LogWorks, LogFlags, Log!Queue, Log!Started
    <3>2. dev'.log = "ready" /\ dev'.told = ~dev.known
      BY <2>3
    <3> QED
      BY <2>1, <2>3, <3>1, <3>2 DEF LogInv, LogTypes, LogDevs, LogTold, Log!Mark
  <2>4. CASE dev.log = "none" /\ dev' = [dev EXCEPT !.log = "freed", !.com = TRUE] /\ flags' = flags /\ work' = work
    <3>1. dev'.log = "freed"
      BY <2>4 DEF LogInv, LogTypes, LogDevs
    <3> QED
      BY <2>1, <2>4, <3>1 DEF LogInv, LogTypes, LogTold, LogDevs
  <2> QED
    BY <2>2, <2>3, <2>4 DEF Log!LogInit
<1>3. LogHandles'
  BY NoPlaces DEF LogInv, LogTypes, LogFilled, Log!LogInit, Log!Event, Log!Mark, Log!Started, Log!Starts, Log!Queue, LogDevs, LogFlags, LogPorts, LogWorks, LogOuts, LogPcs, LogHandles
<1>4. LogOpens'
  <2>1. port' = port /\ l_odd \subseteq l_odd'
    BY DEF Log!LogInit, Log!Mark
  <2>2. work' = work \/ (work' = [work EXCEPT !.queued = TRUE] /\ port.opens <= 1)
    BY DEF LogInv, LogTypes, LogWorks, Log!LogInit, Log!Queue, Log!Starts
  <2>3. CASE work' = work
    BY <2>1, <2>3 DEF LogInv, LogOpens, AsOne, Coming, Recorder
  <2>4. CASE work' = [work EXCEPT !.queued = TRUE] /\ port.opens <= 1
    <3>1. work'.pc = work.pc
      BY <2>4 DEF LogInv, LogTypes, LogWorks
    <3>2. Coming' \in 0 .. 2 /\ port.opens \in Nat
      BY DEF AsOne, Coming, LogInv, LogTypes, LogPorts
    <3>3. Recorder' <=> Recorder
      BY <3>1 DEF Recorder
    <3> QED
      BY <2>1, <2>4, <3>2, <3>3 DEF LogInv, LogOpens, AsOne
  <2> QED
    BY <2>2, <2>3, <2>4
<1>5. LogFilled'
  BY NoPlaces DEF LogInv, LogTypes, Log!LogInit, Log!Event, Log!Mark, Log!Started, Log!Starts, Log!Queue, LogDevs, LogFlags, LogPorts, LogWorks, LogOuts, LogPcs, LogFilled
<1>6. LogPlaced'
  <2>1. out' = out /\ work'.buf = work.buf /\ l_odd \subseteq l_odd'
    BY DEF LogInv, LogTypes, LogFilled, Log!LogInit, Log!Event, Log!Mark, Log!Started, Log!Starts, Log!Queue, LogWorks
  <2> QED
    BY <2>1, PlacedFrame DEF LogInv
<1> QED
  BY <1>1, <1>2, <1>3, <1>4, <1>5, <1>6 DEF LogInv

LEMMA AssertEventLog ==
  ASSUME LogInv, Log!AssertEvent
  PROVE  LogInv'
<1>1. LogTypes'
  <2>1. dev' \in LogDevs
    BY LogAssumption, NoPlaces DEF LogInv, LogTypes, Log!AssertEvent, Log!Event, Log!Mark, Log!Started, Log!Starts, Log!Queue, LogDevs
  <2>2. flags' \in LogFlags
    BY LogAssumption, NoPlaces DEF LogInv, LogTypes, Log!AssertEvent, Log!Event, Log!Mark, Log!Started, Log!Starts, Log!Queue, LogFlags
  <2>3. port' \in LogPorts
    BY LogAssumption, NoPlaces DEF LogInv, LogTypes, Log!AssertEvent, Log!Event, Log!Mark, Log!Started, Log!Starts, Log!Queue, LogPorts
  <2>4. work' \in LogWorks
    BY LogAssumption, NoPlaces DEF LogInv, LogTypes, Log!AssertEvent, Log!Event, Log!Mark, Log!Started, Log!Starts, Log!Queue, LogWorks, LogPcs
  <2>5. out' \in LogOuts
    BY LogAssumption, NoPlaces DEF LogInv, LogTypes, Log!AssertEvent, Log!Event, Log!Mark, Log!Started, Log!Starts, Log!Queue, LogOuts
  <2>6. exit' \in {"idle", "cancel"} /\ l_odd' \subseteq Log!Flags
    BY LogAssumption, NoPlaces DEF LogInv, LogTypes, Log!AssertEvent, Log!Event, Log!Mark, Log!Started, Log!Starts, Log!Queue, Log!Flags
  <2> QED
    BY <2>1, <2>2, <2>3, <2>4, <2>5, <2>6 DEF LogTypes
<1>2. LogTold'
  BY NoPlaces DEF LogInv, LogTypes, LogFilled, Log!AssertEvent, Log!Event, Log!Mark, Log!Started, Log!Starts, Log!Queue, LogDevs, LogFlags, LogPorts, LogWorks, LogOuts, LogPcs, LogTold
<1>3. LogHandles'
  BY NoPlaces DEF LogInv, LogTypes, LogFilled, Log!AssertEvent, Log!Event, Log!Mark, Log!Started, Log!Starts, Log!Queue, LogDevs, LogFlags, LogPorts, LogWorks, LogOuts, LogPcs, LogHandles
<1>4. LogOpens'
  BY NoPlaces DEF LogInv, LogTypes, LogFilled, Log!AssertEvent, Log!Event, Log!Mark, Log!Started, Log!Starts, Log!Queue, LogDevs, LogFlags, LogPorts, LogWorks, LogOuts, LogPcs, LogOpens, AsOne, Coming, Recorder
<1>5. LogFilled'
  BY NoPlaces DEF LogInv, LogTypes, Log!AssertEvent, Log!Event, Log!Mark, Log!Started, Log!Starts, Log!Queue, LogDevs, LogFlags, LogPorts, LogWorks, LogOuts, LogPcs, LogFilled
<1>6. LogPlaced'
  <2>1. out' = out /\ work'.buf = work.buf /\ l_odd \subseteq l_odd'
    BY DEF LogInv, LogTypes, LogFilled, Log!AssertEvent, Log!Event, Log!Mark, Log!Started, Log!Starts, Log!Queue, LogWorks
  <2> QED
    BY <2>1, PlacedFrame DEF LogInv
<1> QED
  BY <1>1, <1>2, <1>3, <1>4, <1>5, <1>6 DEF LogInv

LEMMA BspReadyEventLog ==
  ASSUME LogInv, Log!BspReadyEvent
  PROVE  LogInv'
<1>1. LogTypes'
  <2>1. dev' \in LogDevs
    BY LogAssumption, NoPlaces DEF LogInv, LogTypes, Log!BspReadyEvent, Log!Event, Log!Mark, Log!Started, Log!Starts, Log!Queue, LogDevs
  <2>2. flags' \in LogFlags
    BY LogAssumption, NoPlaces DEF LogInv, LogTypes, Log!BspReadyEvent, Log!Event, Log!Mark, Log!Started, Log!Starts, Log!Queue, LogFlags
  <2>3. port' \in LogPorts
    BY LogAssumption, NoPlaces DEF LogInv, LogTypes, Log!BspReadyEvent, Log!Event, Log!Mark, Log!Started, Log!Starts, Log!Queue, LogPorts
  <2>4. work' \in LogWorks
    BY LogAssumption, NoPlaces DEF LogInv, LogTypes, Log!BspReadyEvent, Log!Event, Log!Mark, Log!Started, Log!Starts, Log!Queue, LogWorks, LogPcs
  <2>5. out' \in LogOuts
    BY LogAssumption, NoPlaces DEF LogInv, LogTypes, Log!BspReadyEvent, Log!Event, Log!Mark, Log!Started, Log!Starts, Log!Queue, LogOuts
  <2>6. exit' \in {"idle", "cancel"} /\ l_odd' \subseteq Log!Flags
    BY LogAssumption, NoPlaces DEF LogInv, LogTypes, Log!BspReadyEvent, Log!Event, Log!Mark, Log!Started, Log!Starts, Log!Queue, Log!Flags
  <2> QED
    BY <2>1, <2>2, <2>3, <2>4, <2>5, <2>6 DEF LogTypes
<1>2. LogTold'
  BY NoPlaces DEF LogInv, LogTypes, LogFilled, Log!BspReadyEvent, Log!Event, Log!Mark, Log!Started, Log!Starts, Log!Queue, LogDevs, LogFlags, LogPorts, LogWorks, LogOuts, LogPcs, LogTold
<1>3. LogHandles'
  BY NoPlaces DEF LogInv, LogTypes, LogFilled, Log!BspReadyEvent, Log!Event, Log!Mark, Log!Started, Log!Starts, Log!Queue, LogDevs, LogFlags, LogPorts, LogWorks, LogOuts, LogPcs, LogHandles
<1>4. LogOpens'
  BY NoPlaces DEF LogInv, LogTypes, LogFilled, Log!BspReadyEvent, Log!Event, Log!Mark, Log!Started, Log!Starts, Log!Queue, LogDevs, LogFlags, LogPorts, LogWorks, LogOuts, LogPcs, LogOpens, AsOne, Coming, Recorder
<1>5. LogFilled'
  BY NoPlaces DEF LogInv, LogTypes, Log!BspReadyEvent, Log!Event, Log!Mark, Log!Started, Log!Starts, Log!Queue, LogDevs, LogFlags, LogPorts, LogWorks, LogOuts, LogPcs, LogFilled
<1>6. LogPlaced'
  <2>1. out' = out /\ work'.buf = work.buf /\ l_odd \subseteq l_odd'
    BY DEF LogInv, LogTypes, LogFilled, Log!BspReadyEvent, Log!Event, Log!Mark, Log!Started, Log!Starts, Log!Queue, LogWorks
  <2> QED
    BY <2>1, PlacedFrame DEF LogInv
<1> QED
  BY <1>1, <1>2, <1>3, <1>4, <1>5, <1>6 DEF LogInv

LEMMA DumpDoneEventLog ==
  ASSUME LogInv, Log!DumpDoneEvent
  PROVE  LogInv'
<1>1. LogTypes'
  <2>1. dev' \in LogDevs
    BY LogAssumption, NoPlaces DEF LogInv, LogTypes, Log!DumpDoneEvent, Log!Event, Log!Mark, Log!Stopped, Log!StopRecPort, LogDevs
  <2>2. flags' \in LogFlags
    BY LogAssumption, NoPlaces DEF LogInv, LogTypes, Log!DumpDoneEvent, Log!Event, Log!Mark, Log!Stopped, Log!StopRecPort, LogFlags
  <2>3. port' \in LogPorts
    BY LogAssumption, NoPlaces DEF LogInv, LogTypes, Log!DumpDoneEvent, Log!Event, Log!Mark, Log!Stopped, Log!StopRecPort, LogPorts
  <2>4. work' \in LogWorks
    BY LogAssumption, NoPlaces DEF LogInv, LogTypes, Log!DumpDoneEvent, Log!Event, Log!Mark, Log!Stopped, Log!StopRecPort, LogWorks, LogPcs
  <2>5. out' \in LogOuts
    BY LogAssumption, NoPlaces DEF LogInv, LogTypes, Log!DumpDoneEvent, Log!Event, Log!Mark, Log!Stopped, Log!StopRecPort, LogOuts
  <2>6. exit' \in {"idle", "cancel"} /\ l_odd' \subseteq Log!Flags
    BY LogAssumption, NoPlaces DEF LogInv, LogTypes, Log!DumpDoneEvent, Log!Event, Log!Mark, Log!Stopped, Log!StopRecPort, Log!Flags
  <2> QED
    BY <2>1, <2>2, <2>3, <2>4, <2>5, <2>6 DEF LogTypes
<1>2. LogTold'
  BY NoPlaces DEF LogInv, LogTypes, LogFilled, Log!DumpDoneEvent, Log!Event, Log!Mark, Log!Stopped, Log!StopRecPort, LogDevs, LogFlags, LogPorts, LogWorks, LogOuts, LogPcs, LogTold
<1>3. LogHandles'
  BY NoPlaces DEF LogInv, LogTypes, LogFilled, Log!DumpDoneEvent, Log!Event, Log!Mark, Log!Stopped, Log!StopRecPort, LogDevs, LogFlags, LogPorts, LogWorks, LogOuts, LogPcs, LogHandles
<1>4. LogOpens'
  BY NoPlaces DEF LogInv, LogTypes, LogFilled, Log!DumpDoneEvent, Log!Event, Log!Mark, Log!Stopped, Log!StopRecPort, LogDevs, LogFlags, LogPorts, LogWorks, LogOuts, LogPcs, LogOpens, AsOne, Coming, Recorder
<1>5. LogFilled'
  BY NoPlaces DEF LogInv, LogTypes, Log!DumpDoneEvent, Log!Event, Log!Mark, Log!Stopped, Log!StopRecPort, LogDevs, LogFlags, LogPorts, LogWorks, LogOuts, LogPcs, LogFilled
<1>6. LogPlaced'
  <2>1. out' = out /\ work'.buf = work.buf /\ l_odd \subseteq l_odd'
    BY DEF LogInv, LogTypes, LogFilled, Log!DumpDoneEvent, Log!Event, Log!Mark, Log!Stopped, Log!StopRecPort, LogWorks
  <2> QED
    BY <2>1, PlacedFrame DEF LogInv
<1> QED
  BY <1>1, <1>2, <1>3, <1>4, <1>5, <1>6 DEF LogInv

LEMMA UserOpenLog ==
  ASSUME LogInv, Log!UserOpen
  PROVE  LogInv'
<1>1. LogTypes'
  <2>1. dev' \in LogDevs
    BY LogAssumption, NoPlaces DEF LogInv, LogTypes, Log!UserOpen, Log!Event, Log!Mark, LogDevs
  <2>2. flags' \in LogFlags
    BY LogAssumption, NoPlaces DEF LogInv, LogTypes, Log!UserOpen, Log!Event, Log!Mark, LogFlags
  <2>3. port' \in LogPorts
    <3> DEFINE s == IF port.opens = 0 THEN "open" ELSE port.state
    <3>1. port' = [port EXCEPT !.opens = port.opens + 1, !.user = TRUE, !.state = s] /\ s \in {"open", port.state} /\ port \in LogPorts
      BY DEF LogInv, LogTypes, Log!UserOpen
    <3> HIDE DEF s
    <3> QED
      BY <3>1, OpenedRecord
  <2>4. work' \in LogWorks
    BY LogAssumption, NoPlaces DEF LogInv, LogTypes, Log!UserOpen, Log!Event, Log!Mark, LogWorks, LogPcs
  <2>5. out' \in LogOuts
    BY LogAssumption, NoPlaces DEF LogInv, LogTypes, Log!UserOpen, Log!Event, Log!Mark, LogOuts
  <2>6. exit' \in {"idle", "cancel"} /\ l_odd' \subseteq Log!Flags
    BY LogAssumption, NoPlaces DEF LogInv, LogTypes, Log!UserOpen, Log!Event, Log!Mark, Log!Flags
  <2> QED
    BY <2>1, <2>2, <2>3, <2>4, <2>5, <2>6 DEF LogTypes
<1>2. LogTold'
  BY NoPlaces DEF LogInv, LogTypes, LogFilled, Log!UserOpen, Log!Event, Log!Mark, LogDevs, LogFlags, LogPorts, LogWorks, LogOuts, LogPcs, LogTold
<1>3. LogHandles'
  <2>1. port'.opens = port.opens + 1 /\ port'.user = TRUE /\ port'.state = (IF port.opens = 0 THEN "open" ELSE port.state)
    <3> DEFINE s == IF port.opens = 0 THEN "open" ELSE port.state
    <3>1. port' = [port EXCEPT !.opens = port.opens + 1, !.user = TRUE, !.state = s] /\ s \in {"open", port.state} /\ port \in LogPorts
      BY DEF LogInv, LogTypes, Log!UserOpen
    <3> HIDE DEF s
    <3>2. port'.opens = port.opens + 1 /\ port'.user = TRUE /\ port'.state = s
      BY <3>1, OpenedRecord
    <3> QED
      BY <3>2 DEF s
  <2>2. port.opens \in Nat /\ port.opens <= 1 /\ ~port.user /\ work' = work /\ l_odd \subseteq l_odd'
    BY DEF LogInv, LogTypes, LogPorts, Log!UserOpen, Log!Mark
  <2>3. port.opens > 0 /\ port.state # "open" => "pulled" \in l_odd'
    BY DEF Log!UserOpen, Log!Mark
  <2> QED
    BY <2>1, <2>2, <2>3 DEF LogInv, LogHandles
<1>4. LogOpens'
  <2>1. port'.opens = port.opens + 1 /\ port'.user = TRUE /\ port'.state = (IF port.opens = 0 THEN "open" ELSE port.state)
    <3> DEFINE s == IF port.opens = 0 THEN "open" ELSE port.state
    <3>1. port' = [port EXCEPT !.opens = port.opens + 1, !.user = TRUE, !.state = s] /\ s \in {"open", port.state} /\ port \in LogPorts
      BY DEF LogInv, LogTypes, Log!UserOpen
    <3> HIDE DEF s
    <3>2. port'.opens = port.opens + 1 /\ port'.user = TRUE /\ port'.state = s
      BY <3>1, OpenedRecord
    <3> QED
      BY <3>2 DEF s
  <2>2. port.opens \in Nat /\ port.opens <= 1 /\ ~port.user /\ work' = work /\ l_odd \subseteq l_odd'
    BY DEF LogInv, LogTypes, LogPorts, Log!UserOpen, Log!Mark
  <2>3. Coming \in 0 .. 2 /\ AsOne(Recorder) \in 0 .. 1 /\ AsOne(port.user) = 0 /\ AsOne(port'.user) = 1
    BY <2>1, <2>2 DEF AsOne, Coming
  <2>4. Coming' = Coming /\ Recorder' = Recorder
    BY <2>2 DEF Coming, Recorder, AsOne
  <2> QED
    BY <2>1, <2>2, <2>3, <2>4 DEF LogInv, LogOpens
<1>5. LogFilled'
  BY NoPlaces DEF LogInv, LogTypes, Log!UserOpen, Log!Event, Log!Mark, LogDevs, LogFlags, LogPorts, LogWorks, LogOuts, LogPcs, LogFilled
<1>6. LogPlaced'
  <2>1. out' = out /\ work'.buf = work.buf /\ l_odd \subseteq l_odd'
    BY DEF LogInv, LogTypes, LogFilled, Log!UserOpen, Log!Event, Log!Mark, LogWorks
  <2> QED
    BY <2>1, PlacedFrame DEF LogInv
<1> QED
  BY <1>1, <1>2, <1>3, <1>4, <1>5, <1>6 DEF LogInv

LEMMA UserReleaseLog ==
  ASSUME LogInv, Log!UserRelease
  PROVE  LogInv'
<1>1. LogTypes'
  <2>1. dev' \in LogDevs
    BY LogAssumption, NoPlaces DEF LogInv, LogTypes, Log!UserRelease, Log!Mark, Log!StopRecPort, LogDevs
  <2>2. flags' \in LogFlags
    BY LogAssumption, NoPlaces DEF LogInv, LogTypes, Log!UserRelease, Log!Mark, Log!StopRecPort, LogFlags
  <2>3. port' \in LogPorts
    <3> DEFINE p == IF dev.start THEN port ELSE Log!StopRecPort(port)
    <3>1. p \in LogPorts /\ p.opens = port.opens /\ port \in LogPorts
      BY DEF LogInv, LogTypes, LogPorts, Log!StopRecPort
    <3>2. port.opens > 0
      BY <3>1 DEF Log!UserRelease, LogInv, LogOpens, AsOne, LogPorts
    <3>3. port' = [p EXCEPT !.opens = p.opens - 1, !.user = FALSE]
      BY <3>1 DEF Log!UserRelease
    <3> HIDE DEF p
    <3> QED
      BY <3>1, <3>2, <3>3, ClosedRecord
  <2>4. work' \in LogWorks
    BY LogAssumption, NoPlaces DEF LogInv, LogTypes, Log!UserRelease, Log!Mark, Log!StopRecPort, LogWorks, LogPcs
  <2>5. out' \in LogOuts
    BY LogAssumption, NoPlaces DEF LogInv, LogTypes, Log!UserRelease, Log!Mark, Log!StopRecPort, LogOuts
  <2>6. exit' \in {"idle", "cancel"} /\ l_odd' \subseteq Log!Flags
    BY LogAssumption, NoPlaces DEF LogInv, LogTypes, Log!UserRelease, Log!Mark, Log!StopRecPort, Log!Flags
  <2> QED
    BY <2>1, <2>2, <2>3, <2>4, <2>5, <2>6 DEF LogTypes
<1>2. LogTold'
  BY NoPlaces DEF LogInv, LogTypes, LogFilled, Log!UserRelease, Log!Mark, Log!StopRecPort, LogDevs, LogFlags, LogPorts, LogWorks, LogOuts, LogPcs, LogTold
<1>3. LogHandles'
  BY NoPlaces DEF LogInv, LogTypes, LogFilled, Log!UserRelease, Log!Mark, Log!StopRecPort, LogDevs, LogFlags, LogPorts, LogWorks, LogOuts, LogPcs, LogHandles
<1>4. LogOpens'
  BY NoPlaces DEF LogInv, LogTypes, LogFilled, Log!UserRelease, Log!Mark, Log!StopRecPort, LogDevs, LogFlags, LogPorts, LogWorks, LogOuts, LogPcs, LogOpens, AsOne, Coming, Recorder
<1>5. LogFilled'
  BY NoPlaces DEF LogInv, LogTypes, Log!UserRelease, Log!Mark, Log!StopRecPort, LogDevs, LogFlags, LogPorts, LogWorks, LogOuts, LogPcs, LogFilled
<1>6. LogPlaced'
  <2>1. out' = out /\ work'.buf = work.buf /\ l_odd \subseteq l_odd'
    BY DEF LogInv, LogTypes, LogFilled, Log!UserRelease, Log!Mark, Log!StopRecPort, LogWorks
  <2> QED
    BY <2>1, PlacedFrame DEF LogInv
<1> QED
  BY <1>1, <1>2, <1>3, <1>4, <1>5, <1>6 DEF LogInv

LEMMA LogExitLog ==
  ASSUME LogInv, Log!LogExit
  PROVE  LogInv'
<1>1. LogTypes'
  <2>1. dev' \in LogDevs
    BY LogAssumption, NoPlaces DEF LogInv, LogTypes, Log!LogExit, Log!Event, Log!Stopped, Log!StopRecPort, LogDevs
  <2>2. flags' \in LogFlags
    BY LogAssumption, NoPlaces DEF LogInv, LogTypes, Log!LogExit, Log!Event, Log!Stopped, Log!StopRecPort, LogFlags
  <2>3. port' \in LogPorts
    BY LogAssumption, NoPlaces DEF LogInv, LogTypes, Log!LogExit, Log!Event, Log!Stopped, Log!StopRecPort, LogPorts
  <2>4. work' \in LogWorks
    BY LogAssumption, NoPlaces DEF LogInv, LogTypes, Log!LogExit, Log!Event, Log!Stopped, Log!StopRecPort, LogWorks, LogPcs
  <2>5. out' \in LogOuts
    BY LogAssumption, NoPlaces DEF LogInv, LogTypes, Log!LogExit, Log!Event, Log!Stopped, Log!StopRecPort, LogOuts
  <2>6. exit' \in {"idle", "cancel"} /\ l_odd' \subseteq Log!Flags
    BY LogAssumption, NoPlaces DEF LogInv, LogTypes, Log!LogExit, Log!Event, Log!Stopped, Log!StopRecPort, Log!Flags
  <2> QED
    BY <2>1, <2>2, <2>3, <2>4, <2>5, <2>6 DEF LogTypes
<1>2. LogTold'
  BY NoPlaces DEF LogInv, LogTypes, LogFilled, Log!LogExit, Log!Event, Log!Stopped, Log!StopRecPort, LogDevs, LogFlags, LogPorts, LogWorks, LogOuts, LogPcs, LogTold
<1>3. LogHandles'
  BY NoPlaces DEF LogInv, LogTypes, LogFilled, Log!LogExit, Log!Event, Log!Stopped, Log!StopRecPort, LogDevs, LogFlags, LogPorts, LogWorks, LogOuts, LogPcs, LogHandles
<1>4. LogOpens'
  BY NoPlaces DEF LogInv, LogTypes, LogFilled, Log!LogExit, Log!Event, Log!Stopped, Log!StopRecPort, LogDevs, LogFlags, LogPorts, LogWorks, LogOuts, LogPcs, LogOpens, AsOne, Coming, Recorder
<1>5. LogFilled'
  BY NoPlaces DEF LogInv, LogTypes, Log!LogExit, Log!Event, Log!Stopped, Log!StopRecPort, LogDevs, LogFlags, LogPorts, LogWorks, LogOuts, LogPcs, LogFilled
<1>6. LogPlaced'
  <2>1. out' = out /\ work'.buf = work.buf /\ l_odd \subseteq l_odd'
    BY DEF LogInv, LogTypes, LogFilled, Log!LogExit, Log!Event, Log!Stopped, Log!StopRecPort, LogWorks
  <2> QED
    BY <2>1, PlacedFrame DEF LogInv
<1> QED
  BY <1>1, <1>2, <1>3, <1>4, <1>5, <1>6 DEF LogInv

LEMMA LogExitEndLog ==
  ASSUME LogInv, Log!LogExitEnd
  PROVE  LogInv'
<1>1. LogTypes'
  <2>1. dev' \in LogDevs
    BY LogAssumption, NoPlaces DEF LogInv, LogTypes, Log!LogExitEnd, LogDevs
  <2>2. flags' \in LogFlags
    BY LogAssumption, NoPlaces DEF LogInv, LogTypes, Log!LogExitEnd, LogFlags
  <2>3. port' \in LogPorts
    BY LogAssumption, NoPlaces DEF LogInv, LogTypes, Log!LogExitEnd, LogPorts
  <2>4. work' \in LogWorks
    BY LogAssumption, NoPlaces DEF LogInv, LogTypes, Log!LogExitEnd, LogWorks, LogPcs
  <2>5. out' \in LogOuts
    BY LogAssumption, NoPlaces DEF LogInv, LogTypes, Log!LogExitEnd, LogOuts
  <2>6. exit' \in {"idle", "cancel"} /\ l_odd' \subseteq Log!Flags
    BY LogAssumption, NoPlaces DEF LogInv, LogTypes, Log!LogExitEnd, Log!Flags
  <2> QED
    BY <2>1, <2>2, <2>3, <2>4, <2>5, <2>6 DEF LogTypes
<1>2. LogTold'
  BY NoPlaces DEF LogInv, LogTypes, LogFilled, Log!LogExitEnd, LogDevs, LogFlags, LogPorts, LogWorks, LogOuts, LogPcs, LogTold
<1>3. LogHandles'
  BY NoPlaces DEF LogInv, LogTypes, LogFilled, Log!LogExitEnd, LogDevs, LogFlags, LogPorts, LogWorks, LogOuts, LogPcs, LogHandles
<1>4. LogOpens'
  <2>1. port' = port /\ l_odd' = l_odd /\ work' = work
    BY DEF Log!LogExitEnd
  <2> QED
    BY <2>1 DEF LogInv, LogOpens, AsOne, Coming, Recorder
<1>5. LogFilled'
  BY NoPlaces DEF LogInv, LogTypes, Log!LogExitEnd, LogDevs, LogFlags, LogPorts, LogWorks, LogOuts, LogPcs, LogFilled
<1>6. LogPlaced'
  <2>1. out' = out /\ work'.buf = work.buf /\ l_odd \subseteq l_odd'
    BY DEF LogInv, LogTypes, LogFilled, Log!LogExitEnd, LogWorks
  <2> QED
    BY <2>1, PlacedFrame DEF LogInv
<1> QED
  BY <1>1, <1>2, <1>3, <1>4, <1>5, <1>6 DEF LogInv

LEMMA WorkStartLog ==
  ASSUME LogInv, Log!WorkStart
  PROVE  LogInv'
<1>1. LogTypes'
  <2>1. dev' \in LogDevs
    BY LogAssumption, NoPlaces DEF LogInv, LogTypes, Log!WorkStart, LogDevs
  <2>2. flags' \in LogFlags
    BY LogAssumption, NoPlaces DEF LogInv, LogTypes, Log!WorkStart, LogFlags
  <2>3. port' \in LogPorts
    BY LogAssumption, NoPlaces DEF LogInv, LogTypes, Log!WorkStart, LogPorts
  <2>4. work' \in LogWorks
    BY LogAssumption, NoPlaces DEF LogInv, LogTypes, Log!WorkStart, LogWorks, LogPcs
  <2>5. out' \in LogOuts
    BY LogAssumption, NoPlaces DEF LogInv, LogTypes, Log!WorkStart, LogOuts
  <2>6. exit' \in {"idle", "cancel"} /\ l_odd' \subseteq Log!Flags
    BY LogAssumption, NoPlaces DEF LogInv, LogTypes, Log!WorkStart, Log!Flags
  <2> QED
    BY <2>1, <2>2, <2>3, <2>4, <2>5, <2>6 DEF LogTypes
<1>2. LogTold'
  BY NoPlaces DEF LogInv, LogTypes, LogFilled, Log!WorkStart, LogDevs, LogFlags, LogPorts, LogWorks, LogOuts, LogPcs, LogTold
<1>3. LogHandles'
  BY NoPlaces DEF LogInv, LogTypes, LogFilled, Log!WorkStart, LogDevs, LogFlags, LogPorts, LogWorks, LogOuts, LogPcs, LogHandles
<1>4. LogOpens'
  BY NoPlaces DEF LogInv, LogTypes, LogFilled, Log!WorkStart, LogDevs, LogFlags, LogPorts, LogWorks, LogOuts, LogPcs, LogOpens, AsOne, Coming, Recorder
<1>5. LogFilled'
  BY NoPlaces DEF LogInv, LogTypes, Log!WorkStart, LogDevs, LogFlags, LogPorts, LogWorks, LogOuts, LogPcs, LogFilled
<1>6. LogPlaced'
  <2>1. out' = out /\ work'.buf = work.buf /\ l_odd \subseteq l_odd'
    BY DEF LogInv, LogTypes, LogFilled, Log!WorkStart, LogWorks
  <2> QED
    BY <2>1, PlacedFrame DEF LogInv
<1> QED
  BY <1>1, <1>2, <1>3, <1>4, <1>5, <1>6 DEF LogInv

LEMMA WorkBeginLog ==
  ASSUME LogInv, NEW ok \in BOOLEAN, Log!WorkBegin(ok)
  PROVE  LogInv'
<1>1. LogTypes'
  <2>1. dev' \in LogDevs
    BY LogAssumption, NoPlaces DEF LogInv, LogTypes, Log!WorkBegin, Log!Return, LogDevs
  <2>2. flags' \in LogFlags
    BY LogAssumption, NoPlaces DEF LogInv, LogTypes, Log!WorkBegin, Log!Return, LogFlags
  <2>3. port' \in LogPorts
    BY LogAssumption, NoPlaces DEF LogInv, LogTypes, Log!WorkBegin, Log!Return, LogPorts
  <2>4. work' \in LogWorks
    BY LogAssumption, NoPlaces DEF LogInv, LogTypes, Log!WorkBegin, Log!Return, LogWorks, LogPcs
  <2>5. out' \in LogOuts
    BY LogAssumption, NoPlaces DEF LogInv, LogTypes, Log!WorkBegin, Log!Return, LogOuts
  <2>6. exit' \in {"idle", "cancel"} /\ l_odd' \subseteq Log!Flags
    BY LogAssumption, NoPlaces DEF LogInv, LogTypes, Log!WorkBegin, Log!Return, Log!Flags
  <2> QED
    BY <2>1, <2>2, <2>3, <2>4, <2>5, <2>6 DEF LogTypes
<1>2. LogTold'
  BY WorkBeginDoes DEF LogInv, LogTypes, LogWorks, LogTold
<1>3. LogHandles'
  BY WorkBeginDoes DEF LogInv, LogTypes, LogWorks, LogPorts, LogHandles
<1>4. LogOpens'
  <2>1. ~Recorder /\ ~Recorder' /\ Coming \in Nat /\ Coming' \in Nat /\ Coming' <= Coming /\ port.opens \in Nat
    BY WorkBeginDoes DEF Recorder, Coming, AsOne, LogInv, LogTypes, LogPorts
  <2>2. AsOne(Recorder) = 0 /\ AsOne(Recorder)' = 0 /\ AsOne(port.user)' = AsOne(port.user)
    BY WorkBeginDoes, <2>1 DEF AsOne
  <2> QED
    BY WorkBeginDoes, <2>1, <2>2 DEF LogInv, LogOpens
<1>5. LogFilled'
  BY WorkBeginDoes, NoPlaces, LogAssumption DEF LogInv, LogFilled
<1>6. LogPlaced'
  <2>1. out' = out /\ work'.buf = work.buf /\ l_odd \subseteq l_odd'
    BY DEF LogInv, LogTypes, LogFilled, Log!WorkBegin, Log!Return, LogWorks
  <2> QED
    BY <2>1, PlacedFrame DEF LogInv
<1> QED
  BY <1>1, <1>2, <1>3, <1>4, <1>5, <1>6 DEF LogInv

LEMMA WorkFileLog ==
  ASSUME LogInv, NEW ok \in BOOLEAN, Log!WorkFile(ok)
  PROVE  LogInv'
<1>1. LogTypes'
  <2>1. dev' \in LogDevs
    BY LogAssumption, NoPlaces DEF LogInv, LogTypes, Log!WorkFile, Log!Return, Log!NextNum, LogDevs
  <2>2. flags' \in LogFlags
    BY LogAssumption, NoPlaces DEF LogInv, LogTypes, Log!WorkFile, Log!Return, Log!NextNum, LogFlags
  <2>3. port' \in LogPorts
    BY LogAssumption, NoPlaces DEF LogInv, LogTypes, Log!WorkFile, Log!Return, Log!NextNum, LogPorts
  <2>4. work' \in LogWorks
    BY WorkFileDoes
  <2>5. out' \in LogOuts
    BY LogAssumption, NoPlaces DEF LogInv, LogTypes, Log!WorkFile, Log!Return, Log!NextNum, LogOuts
  <2>6. exit' \in {"idle", "cancel"} /\ l_odd' \subseteq Log!Flags
    BY LogAssumption, NoPlaces DEF LogInv, LogTypes, Log!WorkFile, Log!Return, Log!NextNum, Log!Flags
  <2> QED
    BY <2>1, <2>2, <2>3, <2>4, <2>5, <2>6 DEF LogTypes
<1>2. LogTold'
  BY WorkFileDoes DEF LogInv, LogTypes, LogWorks, LogTold
<1>3. LogHandles'
  BY WorkFileDoes DEF LogInv, LogTypes, LogWorks, LogPorts, LogHandles
<1>4. LogOpens'
  <2>1. ~Recorder /\ ~Recorder' /\ Coming \in Nat /\ Coming' \in Nat /\ Coming' <= Coming /\ port.opens \in Nat
    BY WorkFileDoes DEF Recorder, Coming, AsOne, LogInv, LogTypes, LogPorts
  <2>2. AsOne(Recorder) = 0 /\ AsOne(Recorder)' = 0 /\ AsOne(port.user)' = AsOne(port.user)
    BY WorkFileDoes, <2>1 DEF AsOne
  <2> QED
    BY WorkFileDoes, <2>1, <2>2 DEF LogInv, LogOpens
<1>5. LogFilled'
  BY WorkFileDoes, NoPlaces, LogAssumption DEF LogInv, LogFilled
<1>6. LogPlaced'
  <2>1. out' = out /\ work'.buf = work.buf /\ l_odd \subseteq l_odd'
    BY DEF LogInv, LogTypes, LogFilled, Log!WorkFile, Log!Return, Log!NextNum, LogWorks
  <2> QED
    BY <2>1, PlacedFrame DEF LogInv
<1> QED
  BY <1>1, <1>2, <1>3, <1>4, <1>5, <1>6 DEF LogInv

LEMMA WorkPortLog ==
  ASSUME LogInv, NEW ok \in BOOLEAN, Log!WorkPort(ok)
  PROVE  LogInv'
<1>1. LogTypes'
  <2>1. dev' \in LogDevs
    BY LogAssumption, NoPlaces DEF LogInv, LogTypes, Log!WorkPort, Log!Return, LogDevs
  <2>2. flags' \in LogFlags
    BY LogAssumption, NoPlaces DEF LogInv, LogTypes, Log!WorkPort, Log!Return, LogFlags
  <2>3. port' \in LogPorts
    BY WorkPortDoes
  <2>4. work' \in LogWorks
    BY LogAssumption, NoPlaces DEF LogInv, LogTypes, Log!WorkPort, Log!Return, LogWorks, LogPcs
  <2>5. out' \in LogOuts
    BY LogAssumption, NoPlaces DEF LogInv, LogTypes, Log!WorkPort, Log!Return, LogOuts
  <2>6. exit' \in {"idle", "cancel"} /\ l_odd' \subseteq Log!Flags
    BY LogAssumption, NoPlaces DEF LogInv, LogTypes, Log!WorkPort, Log!Return, Log!Flags
  <2> QED
    BY <2>1, <2>2, <2>3, <2>4, <2>5, <2>6 DEF LogTypes
<1>2. LogTold'
  BY WorkPortDoes DEF LogInv, LogTypes, LogWorks, LogTold
<1>3. LogHandles'
  BY WorkPortDoes DEF LogInv, LogTypes, LogWorks, LogPorts, LogHandles
<1>4. LogOpens'
  <2>1. AsOne(Recorder) = 0 /\ AsOne(Recorder)' = (IF work'.pc = "loop" THEN 1 ELSE 0)
    BY WorkPortDoes DEF AsOne, Recorder
  <2>2. Coming = AsOne(work.queued) + 1 /\ Coming' = AsOne(work.queued) /\ AsOne(work.queued) \in Nat
    BY WorkPortDoes DEF AsOne, Coming
  <2>3. AsOne(port.user)' = AsOne(port.user) /\ AsOne(port.user) \in 0 .. 1 /\ port.opens \in Nat
    BY WorkPortDoes DEF AsOne, LogPorts
  <2>4. port.opens >= AsOne(port.user) /\ (port.opens = AsOne(port.user) \/ "opensleft" \in l_odd) /\ port.opens + AsOne(work.queued) + 1 <= 4
    BY <2>1, <2>2, <2>3 DEF LogInv, LogOpens
  <2> QED
    BY WorkPortDoes, <2>1, <2>2, <2>3, <2>4 DEF LogOpens
<1>5. LogFilled'
  BY WorkPortDoes, NoPlaces, LogAssumption DEF LogInv, LogFilled
<1>6. LogPlaced'
  <2>1. out' = out /\ work'.buf = work.buf /\ l_odd \subseteq l_odd'
    BY DEF LogInv, LogTypes, LogFilled, Log!WorkPort, Log!Return, LogWorks
  <2> QED
    BY <2>1, PlacedFrame DEF LogInv
<1> QED
  BY <1>1, <1>2, <1>3, <1>4, <1>5, <1>6 DEF LogInv

LEMMA WorkLoopLog ==
  ASSUME LogInv, Log!WorkLoop
  PROVE  LogInv'
<1>1. LogTypes'
  <2>1. dev' \in LogDevs
    BY LogAssumption, NoPlaces DEF LogInv, LogTypes, Log!WorkLoop, LogDevs
  <2>2. flags' \in LogFlags
    BY LogAssumption, NoPlaces DEF LogInv, LogTypes, Log!WorkLoop, LogFlags
  <2>3. port' \in LogPorts
    BY LogAssumption, NoPlaces DEF LogInv, LogTypes, Log!WorkLoop, LogPorts
  <2>4. work' \in LogWorks
    BY LogAssumption, NoPlaces DEF LogInv, LogTypes, Log!WorkLoop, LogWorks, LogPcs
  <2>5. out' \in LogOuts
    BY LogAssumption, NoPlaces DEF LogInv, LogTypes, Log!WorkLoop, LogOuts
  <2>6. exit' \in {"idle", "cancel"} /\ l_odd' \subseteq Log!Flags
    BY LogAssumption, NoPlaces DEF LogInv, LogTypes, Log!WorkLoop, Log!Flags
  <2> QED
    BY <2>1, <2>2, <2>3, <2>4, <2>5, <2>6 DEF LogTypes
<1>2. LogTold'
  BY NoPlaces DEF LogInv, LogTypes, LogFilled, Log!WorkLoop, LogDevs, LogFlags, LogPorts, LogWorks, LogOuts, LogPcs, LogTold
<1>3. LogHandles'
  BY NoPlaces DEF LogInv, LogTypes, LogFilled, Log!WorkLoop, LogDevs, LogFlags, LogPorts, LogWorks, LogOuts, LogPcs, LogHandles
<1>4. LogOpens'
  BY NoPlaces DEF LogInv, LogTypes, LogFilled, Log!WorkLoop, LogDevs, LogFlags, LogPorts, LogWorks, LogOuts, LogPcs, LogOpens, AsOne, Coming, Recorder
<1>5. LogFilled'
  BY NoPlaces DEF LogInv, LogTypes, Log!WorkLoop, LogDevs, LogFlags, LogPorts, LogWorks, LogOuts, LogPcs, LogFilled
<1>6. LogPlaced'
  <2>1. out' = out /\ work'.buf = work.buf /\ l_odd \subseteq l_odd'
    BY DEF LogInv, LogTypes, LogFilled, Log!WorkLoop, LogWorks
  <2> QED
    BY <2>1, PlacedFrame DEF LogInv
<1> QED
  BY <1>1, <1>2, <1>3, <1>4, <1>5, <1>6 DEF LogInv

LEMMA ChipLogsLog ==
  ASSUME LogInv, Log!ChipLogs
  PROVE  LogInv'
<1>1. LogTypes'
  <2>1. dev' \in LogDevs
    BY LogAssumption, NoPlaces DEF LogInv, LogTypes, Log!ChipLogs, LogDevs
  <2>2. flags' \in LogFlags
    BY LogAssumption, NoPlaces DEF LogInv, LogTypes, Log!ChipLogs, LogFlags
  <2>3. port' \in LogPorts
    BY MadeRecord DEF LogInv, LogTypes, Log!ChipLogs
  <2>4. work' \in LogWorks
    BY LogAssumption, NoPlaces DEF LogInv, LogTypes, Log!ChipLogs, LogWorks, LogPcs
  <2>5. out' \in LogOuts
    BY LogAssumption, NoPlaces DEF LogInv, LogTypes, Log!ChipLogs, LogOuts
  <2>6. exit' \in {"idle", "cancel"} /\ l_odd' \subseteq Log!Flags
    BY LogAssumption, NoPlaces DEF LogInv, LogTypes, Log!ChipLogs, Log!Flags
  <2> QED
    BY <2>1, <2>2, <2>3, <2>4, <2>5, <2>6 DEF LogTypes
<1>2. LogTold'
  BY NoPlaces DEF LogInv, LogTypes, LogFilled, Log!ChipLogs, LogDevs, LogFlags, LogPorts, LogWorks, LogOuts, LogPcs, LogTold
<1>3. LogHandles'
  BY NoPlaces DEF LogInv, LogTypes, LogFilled, Log!ChipLogs, LogDevs, LogFlags, LogPorts, LogWorks, LogOuts, LogPcs, LogHandles
<1>4. LogOpens'
  BY NoPlaces DEF LogInv, LogTypes, LogFilled, Log!ChipLogs, LogDevs, LogFlags, LogPorts, LogWorks, LogOuts, LogPcs, LogOpens, AsOne, Coming, Recorder
<1>5. LogFilled'
  BY NoPlaces DEF LogInv, LogTypes, Log!ChipLogs, LogDevs, LogFlags, LogPorts, LogWorks, LogOuts, LogPcs, LogFilled
<1>6. LogPlaced'
  <2>1. out' = out /\ work'.buf = work.buf /\ l_odd \subseteq l_odd'
    BY DEF LogInv, LogTypes, LogFilled, Log!ChipLogs, LogWorks
  <2> QED
    BY <2>1, PlacedFrame DEF LogInv
<1> QED
  BY <1>1, <1>2, <1>3, <1>4, <1>5, <1>6 DEF LogInv

\* A read that fails: the work goes on, or stops the recorder.
LEMMA FailedDoes ==
  ASSUME LogInv, NEW state \in {"open", "idle", "close"}, NEW conn \in BOOLEAN, Log!Failed(state, conn), work.pc \in {"rx", "wait"},
         dev' = dev, exit' = exit, state = "open" => port.state = "asst", state = "close" => port.state = "close",
         state = "idle" => port.state = "close"
  PROVE  LogInv'
<1> DEFINE over == conn \/ work.errs + 1 > LogErrors
           e == IF work.errs > LogErrors THEN work.errs ELSE work.errs + 1
<1>1. /\ work \in LogWorks /\ port \in LogPorts /\ flags \in LogFlags /\ dev \in LogDevs /\ out \in LogOuts /\ out' = out
      /\ l_odd \subseteq l_odd' /\ l_odd' \subseteq Log!Flags /\ exit \in {"idle", "cancel"}
  BY DEF LogInv, LogTypes, Log!Failed, Log!Mark, Log!Flags
<1>2. e \in Nat /\ work' = [work EXCEPT !.pc = "got", !.errs = e]
  BY <1>1, LogAssumption DEF Log!Failed, LogWorks
<1>3. flags' = (IF over THEN [[flags EXCEPT !.record = FALSE] EXCEPT !.asrt = FALSE] ELSE flags)
  BY DEF Log!Failed, Log!Stopped
<1>4. port' = (IF over THEN [port EXCEPT !.state = IF port.state = "idle" THEN "idle" ELSE "close"] ELSE [port EXCEPT !.state = state])
  BY <1>1 DEF Log!Failed, Log!StopRecPort
<1>5. over /\ port.user => "pulled" \in l_odd'
  BY DEF Log!Failed, Log!Mark
<1> HIDE DEF over, e
<1>6. /\ work' \in LogWorks /\ work'.pc = "got" /\ work'.buf = work.buf /\ work'.queued = work.queued
      /\ work'.store = work.store /\ work'.file = work.file
  BY <1>1, <1>2, FailRecord
<1>7. /\ port' \in LogPorts /\ port'.opens = port.opens /\ port'.user = port.user
      /\ over \/ port'.state = state
  BY <1>1, <1>4 DEF LogPorts
<1>8. flags' \in LogFlags /\ (flags'.record => flags.record)
  BY <1>1, <1>3 DEF LogFlags
<1>9. LogTypes'
  BY <1>1, <1>6, <1>7, <1>8 DEF LogTypes
<1>10. LogTold'
  BY <1>1, <1>6, <1>8 DEF LogInv, LogTold
<1>11. LogHandles'
  BY <1>1, <1>5, <1>6, <1>7 DEF LogInv, LogHandles
<1>12. LogOpens'
  <2>1. Recorder /\ Recorder' /\ Coming' = Coming /\ AsOne(port.user)' = AsOne(port.user)
    BY <1>6, <1>7 DEF Recorder, Coming, AsOne
  <2> QED
    BY <1>1, <1>7, <2>1 DEF LogInv, LogOpens, AsOne
<1>13. LogFilled'
  BY <1>6 DEF LogInv, LogFilled
<1>14. LogPlaced'
  BY <1>1, <1>6, PlacedFrame DEF LogInv
<1> QED
  BY <1>9, <1>10, <1>11, <1>12, <1>13, <1>14 DEF LogInv

LEMMA WorkRxLog ==
  ASSUME LogInv, Log!WorkRx
  PROVE  LogInv'
<1>1. work.pc \in {"rx", "wait"} /\ dev' = dev /\ exit' = exit
  BY DEF Log!WorkRx
<1>2. CASE port.state = "asst" /\ Log!Failed("open", TRUE)
  BY <1>1, <1>2, FailedDoes
<1>3. CASE port.state = "close" /\ Log!Failed(IF work.pc = "wait" THEN "idle" ELSE "close", FALSE)
  <2>1. CASE work.pc = "wait"
    BY <1>1, <1>3, <2>1, FailedDoes
  <2>2. CASE work.pc # "wait"
    BY <1>1, <1>3, <2>2, FailedDoes
  <2> QED
    BY <2>1, <2>2
<1>4. CASE /\ port.state # "asst" /\ port.n > 0 /\ port' = [port EXCEPT !.n = port.n - 1]
           /\ out' = [out EXCEPT !.read = out.read + 1]
           /\ work' = [work EXCEPT !.pc = "got", !.buf = Append(work.buf, out.read + 1), !.errs = 0]
           /\ flags' = flags /\ l_odd' = l_odd
  <2>1. /\ work \in LogWorks /\ port \in LogPorts /\ out \in LogOuts
        /\ port' \in LogPorts /\ port'.opens = port.opens /\ port'.user = port.user /\ port'.state = port.state
    <3>1. work \in LogWorks /\ port \in LogPorts /\ out \in LogOuts
      BY DEF LogInv, LogTypes
    <3>2. port.n > 0 /\ port' = [port EXCEPT !.n = port.n - 1]
      BY <1>4
    <3> QED
      BY <3>1, <3>2, TakenRecord
  <2>2. out' \in LogOuts /\ out'.read = out.read + 1 /\ out'.written = out.written /\ out'.lost = out.lost
    <3>1. out' = [out EXCEPT !.read = out.read + 1]
      BY <1>4
    <3> QED
      BY <2>1, <3>1 DEF LogOuts
  <2>3. work.buf \in Seq(Nat) /\ out.read + 1 \in Nat
    BY <2>1 DEF LogWorks, LogOuts
  <2>4. Append(work.buf, out.read + 1) \in Seq(Nat) /\ Len(Append(work.buf, out.read + 1)) = Len(work.buf) + 1 /\ Len(work.buf) \in Nat
    BY <2>3, AddedPlaces
  <2>5. /\ work' \in LogWorks /\ work'.pc = "got" /\ work'.buf = Append(work.buf, out.read + 1) /\ work'.queued = work.queued
        /\ work'.store = work.store /\ work'.file = work.file
    BY <1>4, <2>1, <2>4, ReadRecord
  <2>6. LogTypes'
    BY <1>1, <1>4, <2>1, <2>2, <2>5 DEF LogInv, LogTypes
  <2>7. LogTold'
    BY <1>1, <1>4, <2>5 DEF LogInv, LogTold
  <2>8. LogHandles'
    BY <1>1, <1>4, <2>1, <2>5 DEF LogInv, LogHandles
  <2>9. LogOpens'
    <3>1. Recorder /\ Recorder' /\ Coming' = Coming /\ AsOne(port.user)' = AsOne(port.user)
      BY <1>1, <2>1, <2>5 DEF Recorder, Coming, AsOne
    <3> QED
      BY <1>4, <2>1, <3>1 DEF LogInv, LogOpens, AsOne
  <2>10. LogFilled'
    BY <1>1, <2>4, <2>5, LogAssumption DEF LogInv, LogFilled
  <2>11. LogPlaced'
    BY <1>4, <2>2, <2>5, PlacedRead DEF LogInv
  <2> QED
    BY <2>6, <2>7, <2>8, <2>9, <2>10, <2>11 DEF LogInv
<1>5. CASE work' = [work EXCEPT !.pc = "wait"] /\ work.pc = "rx" /\ UNCHANGED <<flags, port, out, l_odd>>
  <2>1. /\ work \in LogWorks /\ work' \in LogWorks /\ work'.pc = "wait" /\ work'.buf = work.buf /\ work'.queued = work.queued
        /\ work'.store = work.store /\ work'.file = work.file
    BY <1>5 DEF LogInv, LogTypes, LogWorks, LogPcs
  <2>2. LogTypes'
    BY <1>1, <1>5, <2>1 DEF LogInv, LogTypes
  <2>3. LogTold'
    BY <1>1, <1>5, <2>1 DEF LogInv, LogTold
  <2>4. LogHandles'
    BY <1>1, <1>5, <2>1 DEF LogInv, LogHandles
  <2>5. LogOpens'
    <3>1. Recorder /\ Recorder' /\ Coming' = Coming
      BY <1>5, <2>1 DEF Recorder, Coming, AsOne
    <3> QED
      BY <1>5, <3>1 DEF LogInv, LogOpens, AsOne
  <2>6. LogFilled'
    BY <1>5, <2>1 DEF LogInv, LogFilled
  <2>7. LogPlaced'
    BY <1>5, <2>1, PlacedFrame DEF LogInv
  <2> QED
    BY <2>2, <2>3, <2>4, <2>5, <2>6, <2>7 DEF LogInv
<1> QED
  BY <1>2, <1>3, <1>4, <1>5 DEF Log!WorkRx

\* What is read is given to the file, or dropped, or stays.
LEMMA GotPlaced ==
  ASSUME LogInv, NEW res \in {"ok", "error", "nospace"}, Log!WorkGot(res)
  PROVE  /\ LogPlaced' /\ out' \in LogOuts
         /\ work' \in LogWorks /\ work'.queued = work.queued /\ work'.store = work.store
         /\ \/ work'.pc = "loop" /\ work'.file = work.file /\ Len(work'.buf) <= LogRoom - 1
            \/ work'.pc = "idle" /\ work'.buf = <<>>
         /\ work'.pc = "idle" => ~work'.file /\ {"stuck", "storeleft", "opensleft"} \subseteq l_odd'
         /\ l_odd \subseteq l_odd' /\ l_odd' \subseteq Log!Flags /\ (res = "nospace" /\ port.user => "pulled" \in l_odd')
<1> DEFINE n == work.offset + (IF res = "ok" /\ Log!Flush THEN Len(work.buf) ELSE 0)
           turn == Log!Flush /\ n > LogFileMax /\ ~flags.asrt
           b == IF Log!Flush THEN <<>> ELSE work.buf
           o == IF turn THEN 0 ELSE n
           m == IF turn THEN Log!NextNum(work.num) ELSE work.num
           harm == (IF res # "ok" THEN {"unwritten"} ELSE {}) \cup (IF res = "nospace" /\ port.user THEN {"pulled"} ELSE {})
           w == [work EXCEPT !.pc = "loop", !.buf = b, !.offset = o, !.num = m]
<1>1. work \in LogWorks /\ out \in LogOuts /\ l_odd \subseteq Log!Flags /\ work.buf \in Seq(Nat) /\ Len(work.buf) \in Nat /\ work.offset \in Nat
      /\ work.num \in 0 .. LogFiles /\ out.written \in Seq(Nat)
  BY DEF LogInv, LogTypes, LogWorks, LogOuts
<1>2. b \in Seq(Nat) /\ n \in Nat /\ Len(b) <= LogRoom - 1
  BY <1>1, NoPlaces, LogAssumption DEF Log!Flush
<1>3. o \in Nat
  BY <1>2
<1>4. m \in 0 .. LogFiles
  BY <1>1, LogAssumption DEF Log!NextNum
<1>5. /\ res # "ok" => Log!Flush
      /\ out' = (IF ~Log!Flush THEN out ELSE IF res = "ok" THEN [out EXCEPT !.written = out.written \o work.buf]
                 ELSE [out EXCEPT !.lost = out.lost \cup Log!ToSet(work.buf)])
      /\ \/ work' = w /\ l_odd' = l_odd \cup harm
         \/ turn /\ Log!Return([w EXCEPT !.file = FALSE], harm \cup {"stuck", "storeleft", "opensleft"})
  BY DEF Log!WorkGot
<1>6. l_odd \subseteq l_odd' /\ harm \subseteq l_odd' /\ l_odd' \subseteq Log!Flags
  BY <1>1, <1>5 DEF Log!Return, Log!Flags
<1>7. (res # "ok" => "unwritten" \in l_odd') /\ (res = "nospace" /\ port.user => "pulled" \in l_odd')
  BY <1>6
<1>8. turn => Log!Flush
  OBVIOUS
<1> HIDE DEF n, turn, o, m, harm
<1>9. w \in LogWorks /\ w.pc = "loop" /\ w.queued = work.queued /\ w.store = work.store /\ w.file = work.file /\ w.buf = b
  <2> HIDE DEF b
  <2>1. w = [work EXCEPT !.pc = "loop", !.buf = b, !.offset = o, !.num = m]
    OBVIOUS
  <2> HIDE DEF w
  <2>2. w = [pc |-> w.pc, queued |-> w.queued, buf |-> w.buf, offset |-> w.offset, num |-> w.num, errs |-> w.errs, store |-> w.store, file |-> w.file]
    BY <1>1, <2>1 DEF LogWorks
  <2>3. w.pc = "loop" /\ w.queued = work.queued /\ w.buf = b /\ w.offset = o /\ w.num = m /\ w.errs = work.errs /\ w.store = work.store /\ w.file = work.file
    BY <1>1, <2>1 DEF LogWorks
  <2>4. w.pc \in LogPcs /\ w.queued \in BOOLEAN /\ w.buf \in Seq(Nat) /\ w.offset \in Nat /\ w.num \in 0 .. LogFiles /\ w.errs \in Nat /\ w.store \in BOOLEAN /\ w.file \in BOOLEAN
    BY <1>1, <1>2, <1>3, <1>4, <2>3 DEF LogWorks, LogPcs
  <2> QED
    BY <2>2, <2>3, <2>4 DEF LogWorks
<1> HIDE DEF w
<1>10. /\ work' \in LogWorks /\ work'.queued = work.queued /\ work'.store = work.store
       /\ \/ work'.pc = "loop" /\ work'.file = work.file /\ Len(work'.buf) <= LogRoom - 1 /\ work'.buf = b
          \/ work'.pc = "idle" /\ work'.buf = <<>> /\ Log!Flush
       /\ work'.pc = "idle" => ~work'.file /\ {"stuck", "storeleft", "opensleft"} \subseteq l_odd'
  <2>1. CASE work' = w /\ l_odd' = l_odd \cup harm
    <3> HIDE DEF b
    <3>1. work'.buf = b /\ Len(work'.buf) <= LogRoom - 1
      BY <2>1, <1>2, <1>9
    <3>2. work' \in LogWorks /\ work'.queued = work.queued /\ work'.store = work.store /\ work'.pc = "loop" /\ work'.file = work.file
      BY <2>1, <1>9
    <3> QED
      BY <3>1, <3>2
  <2>2. CASE turn /\ Log!Return([w EXCEPT !.file = FALSE], harm \cup {"stuck", "storeleft", "opensleft"})
    <3> DEFINE v == [w EXCEPT !.file = FALSE]
    <3>1. v \in LogWorks /\ v.queued = w.queued /\ v.store = w.store /\ v.file = FALSE
      BY <1>9 DEF LogWorks
    <3>2. work' = [v EXCEPT !.pc = "idle", !.buf = <<>>] /\ {"stuck", "storeleft", "opensleft"} \subseteq l_odd'
      BY <2>2 DEF Log!Return
    <3> HIDE DEF v
    <3>3. work' \in LogWorks /\ work'.pc = "idle" /\ work'.buf = <<>> /\ work'.queued = v.queued /\ work'.store = v.store /\ work'.file = v.file
      BY <3>1, <3>2, ReturnRecord
    <3> QED
      BY <1>8, <1>9, <2>2, <3>1, <3>2, <3>3
  <2> QED
    BY <2>1, <2>2, <1>5
<1>11. work'.buf = b
  BY <1>10
<1>12. LogPlaced' /\ out' \in LogOuts
  <2>1. CASE ~Log!Flush
    <3>1. out' = out /\ work'.buf = work.buf
      BY <2>1, <1>5, <1>11
    <3> QED
      BY <1>1, <1>6, <3>1, PlacedFrame DEF LogInv
  <2>2. CASE Log!Flush /\ res = "ok"
    <3>1. out' = [out EXCEPT !.written = out.written \o work.buf] /\ work'.buf = <<>>
      BY <2>2, <1>5, <1>11
    <3>2. out.written \o work.buf \in Seq(Nat)
      BY <1>1, JoinedPlaces
    <3>3. out' \in LogOuts /\ out'.read = out.read /\ out'.written = out.written \o work.buf /\ out'.lost = out.lost
      BY <1>1, <3>1, <3>2 DEF LogOuts
    <3> QED
      BY <1>6, <3>1, <3>3, PlacedWrite DEF LogInv
  <2>3. CASE Log!Flush /\ res # "ok"
    <3>1. out' = [out EXCEPT !.lost = out.lost \cup Log!ToSet(work.buf)] /\ work'.buf = <<>>
      BY <2>3, <1>5, <1>11
    <3>2. Log!ToSet(work.buf) \subseteq Nat
      BY <1>1 DEF Log!ToSet
    <3>3. out' \in LogOuts /\ out'.read = out.read /\ out'.written = out.written /\ out'.lost = out.lost \cup Log!ToSet(work.buf)
      BY <1>1, <3>1, <3>2 DEF LogOuts
    <3>4. l_odd' \cap {"unwritten", "tail"} # {}
      BY <2>3, <1>7
    <3> QED
      BY <1>6, <3>1, <3>3, <3>4, PlacedDrop DEF LogInv
  <2> QED
    BY <2>1, <2>2, <2>3
<1> QED
  BY <1>6, <1>7, <1>10, <1>12

LEMMA WorkGotLog ==
  ASSUME LogInv, NEW res \in {"ok", "error", "nospace"}, Log!WorkGot(res)
  PROVE  LogInv'
<1> DEFINE Same == flags' = flags /\ port' = port
           Off == res = "nospace" /\ flags' = Log!Stopped(flags) /\ port' = Log!StopRecPort(port)
<1>1. /\ work.pc = "got" /\ dev' = dev /\ exit' = exit /\ (Same \/ Off)
      /\ work \in LogWorks /\ port \in LogPorts /\ flags \in LogFlags
  BY DEF Log!WorkGot, LogInv, LogTypes
<1>2. /\ flags' \in LogFlags /\ (flags'.record => flags.record)
      /\ port' \in LogPorts /\ port'.opens = port.opens /\ port'.user = port.user
      /\ port'.state = port.state \/ res = "nospace"
  <2>1. CASE Same
    BY <1>1, <2>1
  <2>2. CASE Off
    BY <1>1, <2>2 DEF LogFlags, LogPorts, Log!Stopped, Log!StopRecPort
  <2> QED
    BY <1>1, <2>1, <2>2
<1>3. LogTypes'
  BY <1>1, <1>2, GotPlaced DEF LogInv, LogTypes
<1>4. LogTold'
  BY <1>1, <1>2, GotPlaced DEF LogInv, LogTold
<1>5. LogHandles'
  BY <1>1, <1>2, GotPlaced DEF LogInv, LogHandles
<1>6. LogOpens'
  <2>1. Recorder /\ Coming' = Coming /\ AsOne(port.user)' = AsOne(port.user) /\ AsOne(Recorder) = 1
    BY <1>1, <1>2, GotPlaced DEF Recorder, Coming, AsOne
  <2>2. CASE work'.pc = "loop"
    <3>1. AsOne(Recorder)' = 1
      BY <2>2 DEF Recorder, AsOne
    <3> QED
      BY <1>2, <2>1, <3>1, GotPlaced DEF LogInv, LogOpens
  <2>3. CASE work'.pc = "idle" /\ "opensleft" \in l_odd'
    <3>1. AsOne(Recorder)' = 0 /\ AsOne(port.user) \in 0 .. 1 /\ port.opens \in Nat
      BY <2>3, <1>1 DEF Recorder, AsOne, LogPorts
    <3>2. port.opens >= AsOne(port.user) + 1 /\ port.opens + Coming <= 4
      BY <2>1 DEF LogInv, LogOpens
    <3> QED
      BY <1>2, <2>1, <2>3, <3>1, <3>2 DEF LogOpens
  <2> QED
    BY <2>2, <2>3, GotPlaced
<1>7. LogFilled'
  BY GotPlaced, NoPlaces, LogAssumption DEF LogFilled, LogWorks
<1>8. LogPlaced'
  BY GotPlaced
<1> QED
  BY <1>3, <1>4, <1>5, <1>6, <1>7, <1>8 DEF LogInv

LEMMA WorkEndLog ==
  ASSUME LogInv, Log!WorkEnd
  PROVE  LogInv'
<1> DEFINE p == Log!StopRecPort(port)
           w == [work EXCEPT !.store = FALSE, !.file = FALSE]
<1>1. /\ work.pc = "end" /\ dev' = dev /\ exit' = exit /\ flags' = flags
      /\ work \in LogWorks /\ port \in LogPorts /\ out \in LogOuts /\ work.buf \in Seq(Nat)
  BY DEF Log!WorkEnd, LogInv, LogTypes, LogWorks
<1>2. p \in LogPorts /\ p.opens = port.opens /\ p.user = port.user
  BY <1>1 DEF LogPorts, Log!StopRecPort
<1>3. Recorder /\ AsOne(Recorder) = 1 /\ AsOne(port.user) \in 0 .. 1 /\ port.opens \in Nat
  BY <1>1 DEF Recorder, AsOne, LogPorts
<1>4. p.opens > 0
  <2>1. port.opens >= AsOne(port.user) + 1
    BY <1>3 DEF LogInv, LogOpens
  <2> HIDE DEF p
  <2> QED
    BY <1>2, <1>3, <2>1
<1>5. port' = [p EXCEPT !.opens = p.opens - 1]
  BY <1>1 DEF Log!WorkEnd
<1>6. w \in LogWorks /\ w.queued = work.queued /\ w.store = FALSE /\ w.file = FALSE
  BY <1>1, EndRecord
<1>7. work' = [w EXCEPT !.pc = "idle", !.buf = <<>>]
  BY DEF Log!WorkEnd, Log!Return
<1>8. /\ l_odd \subseteq l_odd' /\ l_odd' \subseteq Log!Flags /\ (port.user => "pulled" \in l_odd')
      /\ work.buf = <<>> \/ l_odd' \cap {"unwritten", "tail"} # {}
  BY DEF Log!WorkEnd, Log!Return, Log!Flags, LogInv, LogTypes
<1>9. out' = [out EXCEPT !.lost = out.lost \cup Log!ToSet(work.buf)]
  BY <1>1 DEF Log!WorkEnd
<1> HIDE DEF p, w
<1>10. port' \in LogPorts /\ port'.opens = port.opens - 1 /\ port'.user = port.user
  BY <1>2, <1>4, <1>5, WorkClosed
<1>11. work' \in LogWorks /\ work'.pc = "idle" /\ work'.buf = <<>> /\ work'.queued = work.queued /\ ~work'.store /\ ~work'.file
  BY <1>6, <1>7, ReturnRecord
<1>12. out' \in LogOuts /\ out'.read = out.read /\ out'.written = out.written /\ out'.lost = out.lost \cup Log!ToSet(work.buf)
  <2>1. Log!ToSet(work.buf) \subseteq Nat
    BY <1>1 DEF Log!ToSet
  <2> QED
    BY <1>1, <1>9, <2>1 DEF LogOuts
<1>13. LogTypes'
  BY <1>1, <1>8, <1>10, <1>11, <1>12 DEF LogInv, LogTypes
<1>14. LogTold'
  BY <1>1, <1>8, <1>11 DEF LogInv, LogTold
<1>15. LogHandles'
  BY <1>8, <1>10, <1>11 DEF LogHandles
<1>16. LogOpens'
  <2>1. AsOne(Recorder)' = 0 /\ Coming' = Coming /\ AsOne(port.user)' = AsOne(port.user) /\ Coming \in Nat
    BY <1>1, <1>10, <1>11 DEF Recorder, Coming, AsOne
  <2>2. port.opens >= AsOne(port.user) + 1 /\ (port.opens = AsOne(port.user) + 1 \/ "opensleft" \in l_odd) /\ port.opens + Coming <= 4
    BY <1>3 DEF LogInv, LogOpens
  <2> QED
    BY <1>3, <1>8, <1>10, <2>1, <2>2 DEF LogOpens
<1>17. LogFilled'
  BY <1>11, NoPlaces, LogAssumption DEF LogFilled
<1>18. LogPlaced'
  BY <1>8, <1>11, <1>12, PlacedDrop DEF LogInv
<1> QED
  BY <1>13, <1>14, <1>15, <1>16, <1>17, <1>18 DEF LogInv

LEMMA InitLog == Log!Init => LogInv
<1> SUFFICES ASSUME Log!Init PROVE LogInv
  OBVIOUS
<1>1. LogTypes
  BY LogAssumption, NoPlaces DEF Log!Init, Log!Idle, LogTypes, LogDevs, LogFlags, LogPorts, LogWorks, LogOuts, LogPcs
<1>2. LogTold /\ LogHandles
  BY DEF Log!Init, Log!Idle, LogTold, LogHandles
<1>3. LogOpens
  BY DEF Log!Init, Log!Idle, LogOpens, AsOne, Coming, Recorder
<1>4. LogFilled
  BY LogAssumption, NoPlaces DEF Log!Init, Log!Idle, LogFilled
<1>5. LogPlaced
  BY NoPlaces DEF Log!Init, Log!Idle, LogPlaced, Rising, Has
<1> QED
  BY <1>1, <1>2, <1>3, <1>4, <1>5 DEF LogInv

\* Two rising sequences, the second above the first.
LEMMA JoinedOrdered ==
  ASSUME NEW w \in Seq(Nat), NEW s \in Seq(Nat), Rising(w), Rising(s), \A i \in DOMAIN w, j \in DOMAIN s : w[i] < s[j]
  PROVE  Log!Ordered(w \o s)
<1> DEFINE n == Len(s)
           m == Len(w)
           z == w \o s
<1>1. n \in Nat /\ m \in Nat /\ DOMAIN s = 1 .. n /\ DOMAIN w = 1 .. m
  OBVIOUS
<1>2. /\ \A i, j \in 1 .. m : i < j => w[i] < w[j]
      /\ \A i, j \in 1 .. n : i < j => s[i] < s[j]
      /\ \A i \in 1 .. m, j \in 1 .. n : w[i] < s[j]
  BY <1>1 DEF Rising
<1>3. Len(z) = m + n
  OBVIOUS
<1>4. \A i \in 1 .. m : z[i] = w[i]
  BY JoinedPlaces
<1>5. \A i \in 1 .. n : z[m + i] = s[i]
  BY JoinedPlaces
<1> SUFFICES ASSUME NEW i \in 1 .. Len(z) - 1 PROVE z[i] < z[i + 1]
  BY DEF Log!Ordered
<1>9. i \in 1 .. m + n - 1
  BY <1>3
<1> HIDE DEF n, m, z
<1>6. CASE i + 1 \in 1 .. m
  <2>1. i \in 1 .. m /\ i < i + 1
    BY <1>6, <1>9, <1>1
  <2> QED
    BY <1>2, <1>4, <1>6, <2>1
<1>7. CASE i = m
  <2>1. i \in 1 .. m /\ 1 \in 1 .. n
    BY <1>7, <1>9, <1>1
  <2>2. z[i + 1] = s[1]
    BY <1>5, <1>7, <2>1
  <2> QED
    BY <1>2, <1>4, <2>1, <2>2
<1>8. CASE i > m
  <2>1. i - m \in 1 .. n /\ i + 1 - m \in 1 .. n /\ i - m < i + 1 - m
    BY <1>8, <1>9, <1>1
  <2>2. z[m + (i - m)] = s[i - m] /\ z[m + (i + 1 - m)] = s[i + 1 - m]
    BY <1>5, <2>1
  <2>3. m + (i - m) = i /\ m + (i + 1 - m) = i + 1
    BY <1>1
  <2>4. s[i - m] < s[i + 1 - m]
    BY <1>2, <2>1
  <2> QED
    BY <2>2, <2>3, <2>4
<1> QED
  BY <1>6, <1>7, <1>8, <1>9, <1>1

LEMMA NextLog == LogInv /\ [Log!Next]_Log!vars => LogInv'
<1> SUFFICES ASSUME LogInv, [Log!Next]_Log!vars PROVE LogInv'
  OBVIOUS
<1>1. ASSUME NEW ok \in BOOLEAN, Log!LogInit(ok) PROVE LogInv'
  BY <1>1, LogInitLog
<1>2. CASE Log!AssertEvent
  BY <1>2, AssertEventLog
<1>3. CASE Log!BspReadyEvent
  BY <1>3, BspReadyEventLog
<1>4. CASE Log!DumpDoneEvent
  BY <1>4, DumpDoneEventLog
<1>5. CASE Log!UserOpen
  BY <1>5, UserOpenLog
<1>6. CASE Log!UserRelease
  BY <1>6, UserReleaseLog
<1>7. CASE Log!LogExit
  BY <1>7, LogExitLog
<1>8. CASE Log!LogExitEnd
  BY <1>8, LogExitEndLog
<1>9. CASE Log!Work
  <2>1. CASE Log!WorkStart
    BY <2>1, WorkStartLog
  <2>2. CASE Log!WorkLoop
    BY <2>2, WorkLoopLog
  <2>3. CASE Log!WorkRx
    BY <2>3, WorkRxLog
  <2>4. CASE Log!WorkEnd
    BY <2>4, WorkEndLog
  <2>5. ASSUME NEW ok \in BOOLEAN, Log!WorkBegin(ok) PROVE LogInv'
    BY <2>5, WorkBeginLog
  <2>6. ASSUME NEW ok \in BOOLEAN, Log!WorkFile(ok) PROVE LogInv'
    BY <2>6, WorkFileLog
  <2>7. ASSUME NEW ok \in BOOLEAN, Log!WorkPort(ok) PROVE LogInv'
    BY <2>7, WorkPortLog
  <2>8. ASSUME NEW res \in {"ok", "error", "nospace"}, Log!WorkGot(res) PROVE LogInv'
    BY <2>8, WorkGotLog
  <2> QED
    BY <1>9, <2>1, <2>2, <2>3, <2>4, <2>5, <2>6, <2>7, <2>8 DEF Log!Work
<1>10. CASE Log!ChipLogs
  BY <1>10, ChipLogsLog
<1>11. CASE UNCHANGED Log!vars
  <2>1. LogTypes' /\ LogTold'
    BY <1>11 DEF Log!vars, LogInv, LogTypes, LogTold
  <2>2. LogHandles' /\ LogFilled'
    BY <1>11 DEF Log!vars, LogInv, LogHandles, LogFilled
  <2>3. LogOpens'
    BY <1>11 DEF Log!vars, LogInv, LogOpens, AsOne, Coming, Recorder
  <2>4. LogPlaced'
    BY <1>11, PlacedFrame DEF Log!vars, LogInv
  <2> QED
    BY <2>1, <2>2, <2>3, <2>4 DEF LogInv
<1> QED
  BY <1>1, <1>2, <1>3, <1>4, <1>5, <1>6, <1>7, <1>8, <1>9, <1>10, <1>11 DEF Log!Next

\* The property follows from the invariant.
LEMMA LogMeans == ASSUME LogInv PROVE LogSound
<1>1. Log!TypeOK
  <2>1. port.opens \in 0 .. 4
    <3>1. Coming \in Nat /\ port.opens \in Nat
      BY DEF Coming, AsOne, LogInv, LogTypes, LogPorts
    <3> QED
      BY <3>1 DEF LogInv, LogOpens
  <2> QED
    BY <2>1 DEF LogInv, LogTypes, LogFilled, Log!TypeOK, LogDevs, LogPorts, LogWorks, LogPcs
<1>2. Log!RecordHonest /\ Log!TellsRecorder
  BY DEF LogInv, LogTold, Log!RecordHonest, Log!TellsRecorder
<1>3. Log!LogKept
  <2> DEFINE s == work.buf
             w == out.written
             z == w \o s
             n == Len(s)
             m == Len(w)
  <2>1. s \in Seq(Nat) /\ w \in Seq(Nat) /\ n \in Nat /\ m \in Nat /\ DOMAIN s = 1 .. n /\ DOMAIN w = 1 .. m /\ out.read \in Nat
    BY DEF LogInv, LogTypes, LogOuts, LogWorks
  <2>2. LogPlaced
    BY DEF LogInv
  <2>3. Log!Ordered(z)
    BY <2>1, <2>2, JoinedOrdered DEF LogPlaced
  <2>4. \A x : (x \in Log!ToSet(w) <=> Has(w, x)) /\ (x \in Log!ToSet(s) <=> Has(s, x))
    BY DEF Log!ToSet, Has
  <2>5. out.lost \cap Log!ToSet(w) = {}
    BY <2>2, <2>4 DEF LogPlaced, Has
  <2>6. 1 .. out.read = Log!ToSet(w) \cup Log!ToSet(s) \cup out.lost
    <3>1. \A x \in Log!ToSet(w) \cup Log!ToSet(s) \cup out.lost : x \in 1 .. out.read
      BY <2>2, <2>4 DEF LogPlaced, Has
    <3>2. \A x \in 1 .. out.read : x \in Log!ToSet(w) \cup Log!ToSet(s) \cup out.lost
      BY <2>2, <2>4 DEF LogPlaced
    <3> QED
      BY <3>1, <3>2
  <2> QED
    BY <2>2, <2>3, <2>5, <2>6 DEF Log!LogKept, LogPlaced
<1>4. Log!HandlesBalanced
  BY DEF LogInv, LogHandles, LogOpens, Log!HandlesBalanced, AsOne, Recorder
<1>5. Log!QuietAfterExit
  BY DEF LogInv, LogTold, Log!QuietAfterExit
<1> QED
  BY <1>1, <1>2, <1>3, <1>4, <1>5 DEF LogSound, Log!LogSound

THEOREM LogIsSound == Log!Spec => []LogSound
<1>1. Log!Init => LogInv
  BY InitLog
<1>2. LogInv /\ [Log!Next]_Log!vars => LogInv'
  BY NextLog
<1>3. LogInv => LogSound
  BY LogMeans
<1> QED
  BY <1>1, <1>2, <1>3, PTL DEF Log!Spec
=============================================================================
