---------------------------- MODULE SkwTxProofs ----------------------------
(***************************************************************************)
(* Theorems about the data transmit path, for every number of categories,  *)
(* every size of the ring and of its indices, every credit and every       *)
(* bound: types (TypesTx), the firmware never gets more frames than it     *)
(* granted credit for (CreditIsHonoured), and no frame is lost, duplicated *)
(* or overtaken on its way to the bus (FramesKeepOrder); and about the bus *)
(* accesses that share an address register (SkwSdioReg), for every number  *)
(* of threads, blocks and failing transfers (RegIsSound).                  *)
(*                                                                         *)
(* TypeInv carries what the ring needs: it is never overfilled, the list   *)
(* the worker has still to put into it always fits, and a burst is part of *)
(* what it holds.  CreditInv is the sum of credit held, owed and spent.    *)
(* OrderInv orders the frames piece by piece: those under way (the ring    *)
(* and the worker's list) before those queued, each piece ascending.       *)
(***************************************************************************)
EXTENDS SkwTxPath, SequenceTheorems, TLAPS

Idx == 0 .. (IdxMod - 1)

\* The types by group of variables; they include TypeOK.
QueueT == txq \in [Acs -> Seq(Frames)] /\ cache \in [Acs -> Seq(Frames)]
StopT  == /\ stopped \subseteq Acs /\ sched \subseteq {"tx", "dy"}
          /\ xmit \in [pc : {"idle", "measure", "stop"}, ac : Acs]
TxT    == tx \in [pc : {"idle", "check", "ac", "put", "exit"}, ac : 1 .. NAcs + 1, cred : Int,
                  list : Seq(Frames), pend : Nat]
RingT  == ring \in [avail : Idx, used : Idx, buf : [0 .. RingSize - 1 -> Frames \cup {NoFrame}]]
DyT    == dy \in [pc : {"idle", "credit", "write", "dma", "used", "sub"}, credit : Int,
                  limit : Int, end : Idx, ok : BOOLEAN]
CreditT == credit \in Int /\ owed \in Nat
FlagT  == thermal \in BOOLEAN /\ gone \in {"no", "peer", "iface"} /\ raced \in BOOLEAN
CountT == acc \in [Acs -> 0 .. MaxFrames] /\ sent \subseteq Frames /\ lost \subseteq Frames
SpentT == spent \in [trips : 0 .. MaxTrips, gone : 0 .. MaxGone, errors : 0 .. MaxErrors,
                     resets : 0 .. MaxResets]

\* How far index x is ahead of index y, and the slot of the i-th buffer behind index x.
Ahead(x, y) == IF x >= y THEN x - y ELSE x - y + IdxMod
Slot(x, i) == (x + i - 1) % RingSize

Fill == Ahead(ring.avail, ring.used)
Taking == Ahead(dy.end, ring.used)
InBurst == dy.pc \in {"dma", "used"}

\* The ring never holds more than it has room for, a burst is part of what it holds,
\* and every buffer that is under way holds a frame.
RingInv == /\ Fill < RingSize
           /\ InBurst => Taking <= Fill
           /\ \A i \in 1 .. Fill : ring.buf[Slot(ring.used, i)] \in Frames

\* The worker's list is empty but while it is being put into the ring, and then the
\* ring has room for all of it.
ListInv == IF tx.pc = "put" THEN tx.ac \in Acs /\ Len(tx.list) + Fill < RingSize
           ELSE tx.list = <<>>

\* Credit spent but not yet subtracted.
Unpaid == IF dy.pc = "sub" \/ (dy.pc = "used" /\ dy.ok) THEN dy.limit ELSE 0

\* Unless credit was reset under a burst, the burst is within the credit that was read,
\* which can only have grown since, and credit, owed and unpaid credit add up.
CreditInv ==
  ~raced => /\ credit >= 0 /\ credit + owed = FwBufs + Unpaid
            /\ dy.pc \in {"write", "dma", "used", "sub"} =>
                 0 < dy.credit /\ dy.credit <= credit /\ 0 <= dy.limit /\ dy.limit <= dy.credit
            /\ InBurst => dy.limit = Taking

TypeInv == /\ QueueT /\ StopT /\ TxT /\ RingT /\ DyT /\ CreditT /\ FlagT /\ CountT /\ SpentT
           /\ RingInv /\ ListInv
-----------------------------------------------------------------------------
(* Arithmetic of the ring.                                                 *)

LEMMA Sizes == /\ RingSize \in Nat \ {0} /\ RingSize > 1 /\ IdxMod \in Nat \ {0}
               /\ IdxMod >= RingSize /\ IdxMod % RingSize = 0 /\ PktLimit \in Nat /\ PktLimit > 1
               /\ NAcs \in Nat \ {0} /\ MaxFrames \in Nat /\ FwBufs \in Nat
BY RingAssumption, LimitAssumption

\* A sum of two indices wraps at most once.
LEMMA ModWrap ==
    ASSUME NEW x \in Idx, NEW n \in Idx
    PROVE  (x + n) % IdxMod = IF x + n < IdxMod THEN x + n ELSE x + n - IdxMod
<1>1. /\ IdxMod \in Nat \ {0} /\ x \in Nat /\ n \in Nat /\ x < IdxMod /\ n < IdxMod
  BY Sizes DEF Idx
<1> QED
  BY <1>1

LEMMA ModDiff ==
    ASSUME NEW n \in Nat \ {0}, NEW a \in 0 .. n - 1, NEW b \in 0 .. n - 1
    PROVE  (a - b) % n = IF a >= b THEN a - b ELSE a - b + n
OBVIOUS

LEMMA ModMultiple ==
    ASSUME NEW n \in Nat \ {0}, NEW k \in Int, NEW r \in 0 .. n - 1
    PROVE  (r + k * n) % n = r
OBVIOUS

\* Indices that differ by the modulus of the index name the same slot.
LEMMA ModIdx ==
    ASSUME NEW x \in Int
    PROVE  (x + IdxMod) % RingSize = x % RingSize /\ (x - IdxMod) % RingSize = x % RingSize
<1> DEFINE r == x % RingSize
           q == x \div RingSize
           k == IdxMod \div RingSize
<1>1. r \in 0 .. RingSize - 1 /\ q \in Int /\ x = q * RingSize + r
  BY Sizes
<1>2. k \in Int /\ IdxMod = k * RingSize
  BY Sizes
<1> HIDE DEF r, q, k
<1>3. (r + (q + k) * RingSize) % RingSize = r /\ (r + (q - k) * RingSize) % RingSize = r
  <2>1. q + k \in Int /\ q - k \in Int
    BY <1>1, <1>2
  <2> QED
    BY <1>1, <2>1, ModMultiple, Sizes
<1>4. r + (q + k) * RingSize = x + IdxMod /\ r + (q - k) * RingSize = x - IdxMod
  BY <1>1, <1>2, Sizes
<1> QED
  BY <1>3, <1>4 DEF r

LEMMA AheadRange ==
    ASSUME NEW x \in Idx, NEW y \in Idx
    PROVE  Ahead(x, y) \in Idx /\ (x - y) % IdxMod = Ahead(x, y)
BY ModDiff, Sizes DEF Ahead, Idx

LEMMA AheadAdd ==
    ASSUME NEW y \in Idx, NEW n \in Idx
    PROVE  (y + n) % IdxMod \in Idx /\ Ahead((y + n) % IdxMod, y) = n
<1>1. (y + n) % IdxMod = IF y + n < IdxMod THEN y + n ELSE y + n - IdxMod
  BY ModWrap
<1> QED
  BY <1>1, Sizes DEF Idx, Ahead

\* skw_vring_pending_count: the difference of the indices, whichever has wrapped.
LEMMA PendingValue ==
    ASSUME ring.avail \in Idx, ring.used \in Idx, Fill < RingSize
    PROVE  Pending = Fill /\ Fill \in 0 .. RingSize - 1 /\ Available = RingSize - Fill
<1>0. Fill \in Idx
  BY AheadRange DEF Fill
<1>1. Fill \in 0 .. RingSize - 1
  BY <1>0, Sizes DEF Idx
<1>2. Fill % RingSize = Fill
  BY <1>1, Sizes
<1>3. ring.avail - ring.used = Fill \/ ring.avail - ring.used = Fill - IdxMod
  BY Sizes DEF Fill, Ahead, Idx
<1>4. (Fill - IdxMod) % RingSize = Fill
  BY <1>1, <1>2, ModIdx
<1> QED
  BY <1>1, <1>2, <1>3, <1>4 DEF Pending, Available

LEMMA SlotRange ==
    ASSUME NEW x \in Idx, NEW i \in Int
    PROVE  Slot(x, i) \in 0 .. RingSize - 1
BY Sizes DEF Slot, Idx

\* Behind an index that was advanced by n, counting goes on from n.
LEMMA SlotShift ==
    ASSUME NEW x \in Idx, NEW n \in Idx, NEW i \in Int
    PROVE  Slot((x + n) % IdxMod, i) = Slot(x, n + i)
<1> DEFINE z == x + n + i - 1
<1>0. z \in Int
  BY Sizes DEF Idx
<1>1. (x + n) % IdxMod = x + n \/ (x + n) % IdxMod = x + n - IdxMod
  BY ModWrap
<1>2. x + n - IdxMod + i - 1 = z - IdxMod /\ x + (n + i) - 1 = z
  BY Sizes DEF Idx
<1> HIDE DEF z
<1>3. (z - IdxMod) % RingSize = z % RingSize
  BY <1>0, ModIdx
<1> QED
  BY <1>1, <1>2, <1>3 DEF Slot, z

\* Different buffers of one turn around the ring are in different slots.
LEMMA SlotInjective ==
    ASSUME NEW x \in Idx, NEW i \in 1 .. RingSize, NEW j \in 1 .. RingSize, Slot(x, i) = Slot(x, j)
    PROVE  i = j
<1> DEFINE m == (x + i - 1) % RingSize
           p == (x + i - 1) \div RingSize
           q == (x + j - 1) \div RingSize
<1>1. /\ p \in Int /\ q \in Int /\ m \in 0 .. RingSize - 1
      /\ x + i - 1 = p * RingSize + m /\ x + j - 1 = q * RingSize + m
  BY Sizes DEF Slot, Idx
<1> HIDE DEF m, p, q
<1>2. i - j = (p - q) * RingSize
  BY <1>1, Sizes DEF Idx
<1>3. i - j < RingSize /\ j - i < RingSize
  BY Sizes
<1>4. p - q = 0
  <2>1. p - q \in Int
    BY <1>1
  <2>2. p - q >= 1 => (p - q) * RingSize >= RingSize
    BY <2>1, Sizes
  <2>3. p - q <= -1 => (p - q) * RingSize <= -RingSize
    BY <2>1, Sizes
  <2> QED
    BY <1>2, <1>3, <2>1, <2>2, <2>3, Sizes
<1> QED
  BY <1>1, <1>2, <1>4, Sizes

LEMMA AheadInverse ==
    ASSUME NEW x \in Idx, NEW y \in Idx
    PROVE  (y + Ahead(x, y)) % IdxMod = x
<1>1. Ahead(x, y) \in Idx
  BY AheadRange
<1>2. (y + Ahead(x, y)) % IdxMod = IF y + Ahead(x, y) < IdxMod THEN y + Ahead(x, y)
                                   ELSE y + Ahead(x, y) - IdxMod
  BY <1>1, ModWrap
<1> QED
  BY <1>2, Sizes DEF Ahead, Idx

\* The slot skw_vring_set writes is the one behind the last buffer.
LEMMA AvailSlot ==
    ASSUME RingT
    PROVE  ring.avail % RingSize = Slot(ring.used, Fill + 1)
<1>1. ring.avail \in Idx /\ ring.used \in Idx /\ Fill \in Idx
  BY AheadRange DEF RingT, Fill
<1>2. (ring.used + Fill) % IdxMod = ring.avail
  BY <1>1, AheadInverse DEF Fill
<1>3. Slot(ring.avail, 1) = Slot(ring.used, Fill + 1)
  BY <1>1, <1>2, SlotShift
<1> QED
  BY <1>1, <1>3 DEF Slot, Idx

\* skw_vring_set into a ring that is not full adds one buffer behind the others.
LEMMA PutRing ==
    ASSUME RingT, RingInv, ~Full, NEW f \in Frames,
           ring' = [ring EXCEPT !.buf[ring.avail % RingSize] = f, !.avail = (@ + 1) % IdxMod]
    PROVE  /\ RingT' /\ ring'.used = ring.used /\ Fill' = Fill + 1 /\ Fill + 1 < RingSize
           /\ \A i \in 1 .. Fill : ring'.buf[Slot(ring.used, i)] = ring.buf[Slot(ring.used, i)]
           /\ ring'.buf[Slot(ring.used, Fill + 1)] = f
<1>1. /\ ring.avail \in Idx /\ ring.used \in Idx /\ Fill \in 0 .. RingSize - 1 /\ Pending = Fill
      /\ ring.buf \in [0 .. RingSize - 1 -> Frames \cup {NoFrame}]
  BY PendingValue DEF RingT, RingInv
<1>2. Fill + 1 < RingSize
  BY <1>1, Sizes DEF Full
<1> DEFINE s == Slot(ring.used, Fill + 1)
           v == (ring.avail + 1) % IdxMod
<1>0. v = (IF ring.avail + 1 < IdxMod THEN ring.avail + 1 ELSE ring.avail + 1 - IdxMod)
  <2>1. 1 \in Idx
    BY Sizes DEF Idx
  <2> QED
    BY <1>1, <2>1, ModWrap
<1>a. s \in 0 .. RingSize - 1 /\ ring.avail % RingSize = s
  <2>1. Fill + 1 \in Int
    BY <1>1
  <2> QED
    BY <1>1, <2>1, AvailSlot, SlotRange
<1>3. ring' = [ring EXCEPT !.buf[s] = f, !.avail = v]
  BY <1>a
<1>4. \A i \in 1 .. Fill : Slot(ring.used, i) # s /\ Slot(ring.used, i) \in 0 .. RingSize - 1
  <2> SUFFICES ASSUME NEW i \in 1 .. Fill
               PROVE  Slot(ring.used, i) # s /\ Slot(ring.used, i) \in 0 .. RingSize - 1
    OBVIOUS
  <2>1. i \in 1 .. RingSize /\ Fill + 1 \in 1 .. RingSize /\ i # Fill + 1
    BY <1>1, <1>2, Sizes
  <2> QED
    BY <1>1, <2>1, SlotInjective, SlotRange
<1> HIDE DEF s, v
<1>5. ring'.buf = [ring.buf EXCEPT ![s] = f] /\ ring'.used = ring.used /\ ring'.avail = v
  BY <1>3 DEF RingT
<1>6. v \in Idx /\ Ahead(v, ring.used) = Fill + 1
  <2>1. Fill + 1 < IdxMod
    BY <1>2, Sizes, <1>1
  <2>2. ring.avail \in Nat /\ ring.used \in Nat /\ ring.avail < IdxMod /\ ring.used < IdxMod
    BY <1>1, Sizes DEF Idx
  <2>3. v \in Idx
    BY <1>0, <2>2, Sizes DEF Idx
  <2> QED
    BY <1>0, <2>1, <2>2, <2>3, Sizes DEF Fill, Ahead
<1>7. RingT'
  <2>1. ring'.buf \in [0 .. RingSize - 1 -> Frames \cup {NoFrame}]
    BY <1>1, <1>a, <1>5
  <2>2. ring' = [avail |-> v, used |-> ring.used, buf |-> ring'.buf]
    BY <1>3, <1>5 DEF RingT
  <2> QED
    BY <1>1, <1>6, <2>1, <2>2 DEF RingT
<1>8. Fill' = Fill + 1
  BY <1>5, <1>6 DEF Fill
<1> QED
  BY <1>1, <1>2, <1>a, <1>4, <1>5, <1>7, <1>8 DEF s

\* skw_dy_worker moves used_idx to the end of the burst.
LEMMA UsedRing ==
    ASSUME RingT, DyT, RingInv, InBurst, ring' = [ring EXCEPT !.used = dy.end]
    PROVE  /\ RingT' /\ ring'.buf = ring.buf /\ Taking \in 0 .. Fill
           /\ Fill' = Fill - Taking
           /\ \A i \in Int : Slot(ring'.used, i) = Slot(ring.used, Taking + i)
<1>1. ring.avail \in Idx /\ ring.used \in Idx /\ dy.end \in Idx
  BY DEF RingT, DyT
<1>2. Taking \in Idx /\ Fill \in Idx
  BY <1>1, AheadRange DEF Taking, Fill
<1>3. Taking \in 0 .. Fill
  BY <1>2 DEF RingInv, Idx
<1>4. ring'.avail = ring.avail /\ ring'.used = dy.end /\ ring'.buf = ring.buf
  BY DEF RingT
<1>5. Fill' = Fill - Taking
  BY <1>1, <1>3, <1>4, Sizes DEF Fill, Taking, Ahead, Idx
<1>6. dy.end = (ring.used + Taking) % IdxMod
  BY <1>1, AheadInverse DEF Taking
<1>7. \A i \in Int : Slot(dy.end, i) = Slot(ring.used, Taking + i)
  BY <1>1, <1>2, <1>6, SlotShift
<1> QED
  BY <1>1, <1>3, <1>4, <1>5, <1>7 DEF RingT

\* The burst is the first buffers of the ring.
LEMMA BurstValue ==
    ASSUME RingT, DyT, RingInv, InBurst
    PROVE  /\ Burst \in Seq(Frames) /\ Len(Burst) = Taking /\ Taking \in 0 .. Fill
           /\ \A i \in 1 .. Taking : Burst[i] = ring.buf[Slot(ring.used, i)]
<1>1. ring.used \in Idx /\ dy.end \in Idx /\ ring.avail \in Idx
  BY DEF RingT, DyT
<1>2. Taking \in Idx /\ Fill \in Idx /\ (dy.end - ring.used) % IdxMod = Taking
  BY <1>1, AheadRange DEF Taking, Fill
<1>3. Taking \in 0 .. Fill
  BY <1>2 DEF RingInv, Idx
<1>4. Burst = [i \in 1 .. Taking |-> ring.buf[Slot(ring.used, i)]]
  BY <1>2 DEF Burst, Slot
<1>5. \A i \in 1 .. Taking : ring.buf[Slot(ring.used, i)] \in Frames
  BY <1>2, <1>3 DEF RingInv, Idx
<1> QED
  BY <1>3, <1>4, <1>5
-----------------------------------------------------------------------------
(* Types.                                                                  *)

LEMMA Min2 ==
    ASSUME NEW a \in Int, NEW b \in Int
    PROVE  Min({a, b}) \in {a, b} /\ Min({a, b}) <= a /\ Min({a, b}) <= b
<1>1. \E x \in {a, b} : \A y \in {a, b} : x <= y
  OBVIOUS
<1> QED
  BY <1>1 DEF Min

LEMMA Min3 ==
    ASSUME NEW a \in Int, NEW b \in Int, NEW c \in Int
    PROVE  /\ Min({a, b, c}) \in {a, b, c}
           /\ Min({a, b, c}) <= a /\ Min({a, b, c}) <= b /\ Min({a, b, c}) <= c
<1>1. \E x \in {a, b, c} : \A y \in {a, b, c} : x <= y
  OBVIOUS
<1> QED
  BY <1>1 DEF Min

LEMMA ToSetType ==
    ASSUME NEW S, NEW s \in Seq(S)
    PROVE  ToSet(s) \subseteq S
BY DEF ToSet

LEMMA PreparedType ==
    ASSUME QueueT, NEW a \in Acs
    PROVE  Prepared(a) \in Seq(Frames)
BY DEF QueueT, Prepared

\* What the selection loop takes is there, fits into the ring and into one transfer,
\* and is within the credit.
LEMMA TakenValue ==
    ASSUME QueueT, RingT, RingInv, CreditT, NEW a \in Acs, NEW n \in Taken(a)
    PROVE  /\ n \in 0 .. Len(Prepared(a)) /\ n <= RingSize - 1 - Fill /\ n <= PktLimit - 1
           /\ gone = "peer" => n = 0
<1>1. /\ Len(Prepared(a)) \in Nat /\ Fill \in 0 .. RingSize - 1 /\ Available - 1 = RingSize - 1 - Fill
      /\ credit \in Int
  BY PreparedType, PendingValue, Sizes DEF RingT, RingInv, CreditT
<1>2. CASE gone = "peer"
  BY <1>1, <1>2, Sizes DEF Taken
<1> DEFINE p == Len(Prepared(a))
           v == Available - 1
           k == PktLimit - 1
<1>5. p \in Nat /\ v \in Nat /\ k \in Nat /\ v = RingSize - 1 - Fill
  BY <1>1, Sizes
<1>6. \E c \in {{}, {credit}} :
        /\ c # {} <=> credit > 0
        /\ gone # "peer" => n \in IF credit > 0 THEN Min({1, Min({p, v, k} \cup c)}) .. Min({p, v, k} \cup c)
                                                ELSE 0 .. Min({p, v, k} \cup c)
  BY DEF Taken
<1> HIDE DEF p, v, k
<1>3. CASE gone # "peer" /\ credit > 0
  <2> DEFINE m == Min({p, v, k, credit})
  <2>1. {p, v, k} \cup {credit} = {p, v, k, credit}
    OBVIOUS
  <2>2. n \in Min({1, m}) .. m
    BY <1>3, <1>6, <2>1
  <2>3. m \in Nat /\ m <= p /\ m <= v /\ m <= k
    <3>1. \E x \in {p, v, k, credit} : \A y \in {p, v, k, credit} : x <= y
      BY <1>1, <1>5
    <3>2. m \in {p, v, k, credit} /\ \A y \in {p, v, k, credit} : m <= y
      BY <3>1 DEF Min
    <3> QED
      BY <1>1, <1>3, <1>5, <3>2
  <2> HIDE DEF m
  <2>4. Min({1, m}) \in {1, m}
    BY <2>3, Min2
  <2>5. n \in 0 .. p /\ n <= v /\ n <= k
    BY <1>5, <2>2, <2>3, <2>4
  <2> QED
    BY <1>3, <1>5, <2>5 DEF p, k
<1>4. CASE gone # "peer" /\ ~(credit > 0)
  <2> DEFINE m == Min({p, v, k})
  <2>1. {p, v, k} \cup {} = {p, v, k}
    OBVIOUS
  <2>2. n \in 0 .. m
    BY <1>4, <1>6, <2>1
  <2>3. m \in Int /\ m <= p /\ m <= v /\ m <= k
    <3>1. \E x \in {p, v, k} : \A y \in {p, v, k} : x <= y
      BY <1>5
    <3>2. m \in {p, v, k} /\ \A y \in {p, v, k} : m <= y
      BY <3>1 DEF Min
    <3> QED
      BY <1>5, <3>2
  <2> HIDE DEF m
  <2>4. n \in 0 .. p /\ n <= v /\ n <= k
    BY <1>5, <2>2, <2>3
  <2> QED
    BY <1>4, <1>5, <2>4 DEF p, k
<1> QED
  BY <1>2, <1>3, <1>4

\* The states the workers start from.
LEMMA TxStarts == [TxIdle EXCEPT !.pc = "check"] = [pc |-> "check", ac |-> 1, cred |-> 0, list |-> <<>>, pend |-> 0]
BY DEF TxIdle

LEMMA DyStarts ==
    ASSUME NEW d, NEW c
    PROVE  /\ d = DyIdle => d.pc = "idle" /\ d.credit = 0 /\ d.limit = 0
           /\ d = [DyIdle EXCEPT !.pc = "credit"] => d.pc = "credit" /\ d.credit = 0 /\ d.limit = 0
           /\ d = [DyIdle EXCEPT !.pc = "write", !.credit = c] =>
                d.pc = "write" /\ d.credit = c /\ d.limit = 0
<1>1. d = DyIdle => d.pc = "idle" /\ d.credit = 0 /\ d.limit = 0
  BY DEF DyIdle
<1>2. d = [DyIdle EXCEPT !.pc = "credit"] => d.pc = "credit" /\ d.credit = 0 /\ d.limit = 0
  BY DEF DyIdle
<1>3. [DyIdle EXCEPT !.pc = "write", !.credit = c].pc = "write"
  BY DEF DyIdle
<1>4. [DyIdle EXCEPT !.pc = "write", !.credit = c].credit = c
  BY DEF DyIdle
<1>5. [DyIdle EXCEPT !.pc = "write", !.credit = c].limit = 0
  BY DEF DyIdle
<1> QED
  BY <1>1, <1>2, <1>3, <1>4, <1>5

LEMMA InitTypes == Init => TypeInv
<1> SUFFICES ASSUME Init
             PROVE  TypeInv
  OBVIOUS
<1>1. QueueT /\ FlagT /\ CountT /\ CreditT /\ StopT
  <2>1. QueueT
    BY DEF Init, QueueT
  <2>2. 1 \in Acs /\ 0 \in 0 .. MaxFrames
    BY Sizes DEF Acs
  <2>3. FlagT
    BY DEF Init, FlagT
  <2>6. CreditT
    BY Sizes DEF Init, CreditT
  <2>4. CountT
    BY <2>2 DEF Init, CountT
  <2>5. StopT
    BY <2>2 DEF Init, StopT
  <2> QED
    BY <2>1, <2>3, <2>4, <2>5, <2>6
<1>2. TxT /\ DyT /\ SpentT
  BY Sizes, LimitAssumption DEF Init, TxT, DyT, SpentT, TxIdle, DyIdle, Acs, Idx
<1>3. ring.avail = 0 /\ ring.used = 0 /\ RingT /\ dy.pc = "idle"
  BY Sizes DEF Init, RingT, Idx, DyIdle
<1>4. RingInv
  BY <1>3, Sizes DEF RingInv, Fill, InBurst, Ahead
<1>5. ListInv
  BY DEF Init, TxIdle, ListInv
<1> QED
  BY <1>1, <1>2, <1>3, <1>4, <1>5 DEF TypeInv

\* A step that leaves the ring and the burst alone.
LEMMA RingKept ==
    ASSUME RingInv, RingT, UNCHANGED ring, InBurst' => InBurst /\ dy'.end = dy.end
    PROVE  RingInv' /\ RingT' /\ Fill' = Fill
<1>1. Fill' = Fill /\ (InBurst' => Taking' = Taking)
  BY DEF Fill, Taking, Ahead
<1> QED
  BY <1>1 DEF RingInv, RingT

\* skw_dy_worker: the burst skw_dy_worker decides on is no more than the ring holds.
LEMMA WriteBurst ==
    ASSUME TypeInv, DyWrite, Pending # 0
    PROVE  /\ dy' = [dy EXCEPT !.pc = "dma", !.limit = Limit, !.end = dy'.end]
           /\ dy'.end \in Idx /\ Limit \in Int /\ Limit <= dy.credit
           /\ Taking' = IF Limit < 0 THEN Fill ELSE Limit
           /\ Taking' \in 0 .. Fill /\ (dy.credit > 0 => Limit > 0)
<1>1. /\ ring.avail \in Idx /\ ring.used \in Idx /\ Pending = Fill /\ Fill \in 1 .. RingSize - 1
      /\ dy.credit \in Int
  BY PendingValue DEF TypeInv, RingT, RingInv, DyT, DyWrite
<1>2. /\ Limit \in {Pending, dy.credit, PktLimit}
      /\ Limit <= Pending /\ Limit <= dy.credit /\ Limit <= PktLimit
  <2>1. Pending \in Int /\ dy.credit \in Int /\ PktLimit \in Int
    BY <1>1, Sizes
  <2> HIDE DEF Pending
  <2> QED
    BY <2>1, Min3 DEF Limit
<1> DEFINE n == IF Limit < 0 THEN Fill ELSE Limit
<1>3. n \in 0 .. Fill /\ n \in Idx /\ Limit \in Int /\ (dy.credit > 0 => Limit > 0)
  BY <1>1, <1>2, Sizes DEF Idx
<1>4. dy' = [dy EXCEPT !.pc = "dma", !.limit = Limit, !.end = (ring.used + n) % IdxMod] /\ ring' = ring
  BY <1>1 DEF DyWrite
<1> HIDE DEF n
<1>5. (ring.used + n) % IdxMod \in Idx /\ Ahead((ring.used + n) % IdxMod, ring.used) = n
  BY <1>1, <1>3, AheadAdd
<1>6. dy'.end = (ring.used + n) % IdxMod
  BY <1>4 DEF TypeInv, DyT
<1>7. Taking' = n
  BY <1>4, <1>5, <1>6 DEF Taking
<1> QED
  BY <1>2, <1>3, <1>4, <1>5, <1>6, <1>7 DEF n

\* One category's turn: what it prepares is split between the list and the cache.
LEMMA AcTypes ==
    ASSUME TypeInv, TxAc
    PROVE  /\ QueueT' /\ stopped' \subseteq Acs /\ lost' \subseteq Frames /\ TxT' /\ ListInv'
<1> DEFINE a == tx.ac
           q == Prepared(a)
<1>1. a \in Acs /\ tx.pc = "ac" /\ q \in Seq(Frames) /\ txq[a] \in Seq(Frames) /\ cache[a] \in Seq(Frames)
  BY PreparedType DEF TypeInv, TxAc, QueueT
<1>2. /\ txq' = [txq EXCEPT ![a] = <<>>]
      /\ stopped' = IF Len(q) < Low THEN stopped \ {a} ELSE stopped
  BY DEF TxAc
<1>3. stopped' \subseteq Acs
  BY <1>2 DEF TypeInv, StopT
<1>4. txq' \in [Acs -> Seq(Frames)]
  <2>1. <<>> \in Seq(Frames)
    OBVIOUS
  <2> QED
    BY <1>2, <2>1 DEF TypeInv, QueueT
<1>5. a + 1 \in 1 .. NAcs + 1 /\ a \in 1 .. NAcs + 1
  BY <1>1, Sizes DEF Acs
<1>f. Fill' = Fill
  BY DEF TxAc, Fill
<1>6. CASE q = <<>> /\ cache' = [cache EXCEPT ![a] = <<>>]
            /\ lost' = lost \cup ToSet(cache[a] \o txq[a]) /\ tx' = [tx EXCEPT !.ac = @ + 1]
  <2>1. cache' \in [Acs -> Seq(Frames)]
    BY <1>1, <1>6 DEF TypeInv, QueueT
  <2>2. lost' \subseteq Frames
    <3>1. cache[a] \o txq[a] \in Seq(Frames)
      BY <1>1
    <3>2. ToSet(cache[a] \o txq[a]) \subseteq Frames
      BY <3>1, ToSetType
    <3> QED
      BY <1>6, <3>2 DEF TypeInv, CountT
  <2>3. TxT' /\ ListInv'
    BY <1>1, <1>5, <1>6 DEF TypeInv, TxT, ListInv
  <2> QED
    BY <1>3, <1>4, <2>1, <2>2, <2>3 DEF QueueT
<1>7. CASE q # <<>> /\ credit = 0 /\ cache' = [cache EXCEPT ![a] = q]
            /\ tx' = [tx EXCEPT !.pc = "exit"] /\ lost' = lost
  <2>1. cache' \in [Acs -> Seq(Frames)]
    BY <1>1, <1>7 DEF TypeInv, QueueT
  <2>2. TxT' /\ lost' \subseteq Frames /\ ListInv'
    BY <1>1, <1>7 DEF TypeInv, TxT, CountT, ListInv
  <2> QED
    BY <1>3, <1>4, <2>1, <2>2 DEF QueueT
<1>8. ASSUME q # <<>>, credit # 0, lost' = lost \cup ToSet(Dropped(a)),
             NEW n \in Taken(a),
             cache' = [cache EXCEPT ![a] = SubSeq(q, n + Len(Dropped(a)) + 1, Len(q))],
             tx' = [tx EXCEPT !.pc = IF n = 0 THEN "ac" ELSE "put",
                              !.ac = IF n = 0 THEN @ + 1 ELSE @,
                              !.list = SubSeq(q, 1, n),
                              !.pend = PendingQlen(q, n), !.cred = credit - n]
      PROVE  cache' \in [Acs -> Seq(Frames)] /\ lost' \subseteq Frames /\ TxT' /\ ListInv'
  <2>1. n \in 0 .. Len(q) /\ n <= RingSize - 1 - Fill
    BY <1>1, TakenValue DEF TypeInv
  <2>2. Dropped(a) \in Seq(Frames) /\ Len(Dropped(a)) \in Nat /\ Len(q) \in Nat
    BY <1>1 DEF Dropped
  <2>3. cache' \in [Acs -> Seq(Frames)]
    <3>1. SubSeq(q, n + Len(Dropped(a)) + 1, Len(q)) \in Seq(Frames)
      BY <1>1, <2>1, <2>2, SubSeqProperties
    <3> QED
      BY <1>1, <1>8, <3>1 DEF TypeInv, QueueT
  <2>4. lost' \subseteq Frames
    <3>1. ToSet(Dropped(a)) \subseteq Frames
      BY <2>2 DEF ToSet
    <3> QED
      BY <1>8, <3>1 DEF TypeInv, CountT
  <2>5. TxT'
    <3>1. SubSeq(q, 1, n) \in Seq(Frames) /\ PendingQlen(q, n) \in Nat /\ credit - n \in Int
      BY <1>1, <2>1, <2>2, SubSeqProperties DEF PendingQlen, TypeInv, CreditT
    <3> HIDE DEF q, a
    <3> QED
      BY <1>5, <1>8, <3>1 DEF TypeInv, TxT, a
  <2>6. ListInv'
    <3>1. SubSeq(q, 1, n) \in Seq(Frames) /\ Len(SubSeq(q, 1, n)) = n
      BY <1>1, <2>1, <2>2, SubSeqProperties
    <3>2. n = 0 => SubSeq(q, 1, n) = <<>>
      BY <3>1
    <3>3. Fill \in Int
      BY PendingValue DEF TypeInv, RingT, RingInv
    <3> HIDE DEF q, a
    <3>4. tx'.pc = (IF n = 0 THEN "ac" ELSE "put") /\ tx'.list = SubSeq(q, 1, n)
          /\ (n # 0 => tx'.ac = tx.ac)
      BY <1>8 DEF TypeInv, TxT
    <3> QED
      BY <1>1, <1>f, <2>1, <3>1, <3>2, <3>3, <3>4, Sizes DEF ListInv, a
  <2> QED
    BY <2>3, <2>4, <2>5, <2>6
<1> QED
  BY <1>1, <1>3, <1>4, <1>6, <1>7, <1>8 DEF TxAc, QueueT

\* Every step keeps the types; the ring changes only in TxPut and DyUsed.
LEMMA StepTypes == TypeInv /\ [Next]_vars => TypeInv'
<1> SUFFICES ASSUME TypeInv, [Next]_vars
             PROVE  TypeInv'
  OBVIOUS
<1> USE DEF TypeInv
<1>1. ASSUME NEW a \in Acs, XmitQueue(a)
      PROVE  TypeInv'
  <2>1. acc[a] + 1 \in 1 .. MaxFrames /\ <<a, acc[a] + 1>> \in Frames
    BY <1>1, Sizes DEF XmitQueue, CountT, Frames
  <2>2. QueueT'
    BY <1>1, <2>1 DEF XmitQueue, QueueT
  <2>3. CountT'
    BY <1>1, <2>1 DEF XmitQueue, CountT
  <2>4. StopT'
    BY <1>1 DEF XmitQueue, StopT
  <2>5. (TxT /\ DyT /\ CreditT /\ FlagT /\ SpentT)'
    BY <1>1 DEF XmitQueue, TxT, DyT, CreditT, FlagT, SpentT
  <2>6. RingT' /\ RingInv' /\ ListInv'
    BY <1>1, RingKept DEF XmitQueue, InBurst, ListInv
  <2> QED
    BY <2>2, <2>3, <2>4, <2>5, <2>6
<1>2. CASE XmitMeasure \/ XmitStop
  <2>1. StopT'
    BY <1>2 DEF XmitMeasure, XmitStop, StopT
  <2>2. (QueueT /\ TxT /\ DyT /\ CreditT /\ FlagT /\ CountT /\ SpentT)'
    BY <1>2 DEF XmitMeasure, XmitStop, QueueT, TxT, DyT, CreditT, FlagT, CountT, SpentT
  <2>3. RingT' /\ RingInv' /\ ListInv'
    BY <1>2, RingKept DEF XmitMeasure, XmitStop, InBurst, ListInv
  <2> QED
    BY <2>1, <2>2, <2>3
<1>3. CASE TxStart \/ TxCheck \/ TxAcsDone \/ TxKick \/ TxExit
  <2>1. StopT'
    BY <1>3 DEF TxStart, TxCheck, TxAcsDone, TxKick, TxExit, StopT
  <2>2. TxT'
    <3>1. <<>> \in Seq(Frames) /\ 1 \in 1 .. NAcs + 1
      BY Sizes
    <3>2. TxIdle \in [pc : {"idle", "check", "ac", "put", "exit"}, ac : 1 .. NAcs + 1, cred : Int,
                      list : Seq(Frames), pend : Nat]
      BY <3>1 DEF TxIdle
    <3>3. CASE TxStart \/ TxCheck
      BY <3>1, <3>2, <3>3 DEF TxStart, TxCheck, TxT
    <3>4. CASE TxAcsDone \/ TxExit
      BY <3>2, <3>4 DEF TxAcsDone, TxExit, TxT
    <3>5. CASE TxKick
      <4>1. tx.ac \in 1 .. NAcs
        BY <3>5 DEF ListInv, TxKick, Acs
      <4>2. tx.ac + 1 \in 1 .. NAcs + 1
        BY <4>1, Sizes
      <4> QED
        BY <3>5, <4>2 DEF TxKick, TxT
    <3> QED
      BY <1>3, <3>3, <3>4, <3>5
  <2>3. (QueueT /\ DyT /\ CreditT /\ FlagT /\ CountT /\ SpentT)'
    BY <1>3 DEF TxStart, TxCheck, TxAcsDone, TxKick, TxExit, QueueT, DyT, CreditT, FlagT, CountT, SpentT
  <2>4. RingT' /\ RingInv' /\ Fill' = Fill
    BY <1>3, RingKept DEF TxStart, TxCheck, TxAcsDone, TxKick, TxExit, InBurst
  <2>5. ListInv'
    <3>1. tx.list = <<>>
      BY <1>3 DEF TxStart, TxCheck, TxAcsDone, TxKick, TxExit, ListInv
    <3>2. tx'.pc # "put" /\ tx'.list = <<>>
      <4>1. CASE TxStart \/ tx' = TxIdle \/ (TxCheck /\ tx' \in {TxIdle, [TxIdle EXCEPT !.pc = "check"]})
        BY <4>1, TxStarts DEF TxStart, TxIdle
      <4>2. CASE TxCheck /\ tx' = [tx EXCEPT !.pc = "ac", !.ac = 1]
        BY <3>1, <4>2 DEF TxT
      <4>3. CASE TxAcsDone \/ TxKick
        BY <3>1, <4>3 DEF TxAcsDone, TxKick, TxT
      <4>4. CASE TxExit /\ tx' = [tx EXCEPT !.pc = "check"]
        BY <3>1, <4>4 DEF TxT
      <4>5. TxExit => tx' = [tx EXCEPT !.pc = "check"] \/ tx' = TxIdle
        BY DEF TxExit
      <4>6. TxCheck => tx' = TxIdle \/ tx' \in {TxIdle, [TxIdle EXCEPT !.pc = "check"]}
                       \/ tx' = [tx EXCEPT !.pc = "ac", !.ac = 1]
        BY DEF TxCheck
      <4> QED
        BY <1>3, <4>1, <4>2, <4>3, <4>4, <4>5, <4>6
    <3> QED
      BY <3>1, <3>2 DEF ListInv
  <2> QED
    BY <2>1, <2>2, <2>3, <2>4, <2>5
<1>4. CASE TxAc
  <2>1. QueueT' /\ TxT' /\ ListInv'
    BY <1>4, AcTypes
  <2>2. CountT' /\ StopT'
    BY <1>4, AcTypes DEF TxAc, CountT, StopT
  <2>3. (DyT /\ CreditT /\ FlagT /\ SpentT)'
    BY <1>4 DEF TxAc, DyT, CreditT, FlagT, SpentT
  <2>4. RingT' /\ RingInv'
    BY <1>4, RingKept DEF TxAc, InBurst
  <2> QED
    BY <2>1, <2>2, <2>3, <2>4
<1>5. CASE TxPut
  <2>1. Head(tx.list) \in Frames /\ Tail(tx.list) \in Seq(Frames) /\ Len(tx.list) \in Nat \ {0}
        /\ Len(Tail(tx.list)) = Len(tx.list) - 1
    BY <1>5 DEF TxPut, TxT
  <2>2. ~Full
    <3>1. Pending = Fill /\ Fill \in Nat
      BY PendingValue DEF RingT, RingInv
    <3> QED
      BY <1>5, <2>1, <3>1, Sizes DEF Full, ListInv, TxPut
  <2>3. /\ RingT' /\ ring'.used = ring.used /\ Fill' = Fill + 1 /\ Fill + 1 < RingSize
        /\ \A i \in 1 .. Fill : ring'.buf[Slot(ring.used, i)] = ring.buf[Slot(ring.used, i)]
        /\ ring'.buf[Slot(ring.used, Fill + 1)] \in Frames
    <3>1. ring' = [ring EXCEPT !.buf[ring.avail % RingSize] = Head(tx.list), !.avail = (@ + 1) % IdxMod]
      BY <1>5, <2>2 DEF TxPut
    <3> QED
      BY <2>1, <2>2, <3>1, PutRing
  <2>f. Fill \in Nat
    BY PendingValue DEF RingT, RingInv
  <2>4. RingInv'
    <3>1. Taking' = Taking /\ (InBurst' <=> InBurst)
      BY <1>5, <2>3 DEF TxPut, Taking, InBurst
    <3>2. Taking \in Int
      <4>1. dy.end \in Idx /\ ring.used \in Idx
        BY DEF RingT, DyT
      <4>2. Taking \in Idx
        BY <4>1, AheadRange DEF Taking
      <4> QED
        BY <4>2, Sizes DEF Idx
    <3> QED
      BY <2>3, <2>f, <3>1, <3>2 DEF RingInv
  <2>5. tx' = [tx EXCEPT !.list = Tail(tx.list)]
    BY <1>5 DEF TxPut
  <2>6. TxT' /\ ListInv'
    <3>1. TxT' /\ tx'.pc = tx.pc /\ tx'.ac = tx.ac /\ tx'.list = Tail(tx.list)
      BY <2>1, <2>5 DEF TxT
    <3> QED
      BY <1>5, <2>1, <2>3, <2>f, <3>1, Sizes DEF ListInv, TxPut
  <2>7. (QueueT /\ StopT /\ DyT /\ CreditT /\ FlagT /\ CountT /\ SpentT)'
    BY <1>5 DEF TxPut, QueueT, StopT, DyT, CreditT, FlagT, CountT, SpentT
  <2> QED
    BY <2>3, <2>4, <2>6, <2>7
<1>6. CASE DyStart \/ DyCredit \/ DySub
  <2>1. DyT'
    <3>1. DyIdle \in [pc : {"idle", "credit", "write", "dma", "used", "sub"}, credit : Int,
                      limit : Int, end : Idx, ok : BOOLEAN]
      BY Sizes DEF DyIdle, Idx
    <3> QED
      BY <1>6, <3>1 DEF DyStart, DyCredit, DySub, DyT, CreditT
  <2>2. CreditT' /\ StopT'
    BY <1>6 DEF DyStart, DyCredit, DySub, CreditT, StopT, DyT
  <2>3. (QueueT /\ TxT /\ FlagT /\ CountT /\ SpentT)'
    BY <1>6 DEF DyStart, DyCredit, DySub, QueueT, TxT, FlagT, CountT, SpentT
  <2>4. RingT' /\ RingInv' /\ ListInv'
    <3>a. \/ dy' = [DyIdle EXCEPT !.pc = "credit"] \/ dy' = DyIdle
          \/ dy' = [DyIdle EXCEPT !.pc = "write", !.credit = credit]
          \/ dy' = [dy EXCEPT !.pc = "credit"]
      BY <1>6 DEF DyStart, DyCredit, DySub
    <3>b. dy'.pc \in {"idle", "credit", "write"}
      <4>1. CASE dy' = [dy EXCEPT !.pc = "credit"]
        BY <4>1 DEF DyT
      <4>2. CASE dy' # [dy EXCEPT !.pc = "credit"]
        BY <3>a, <4>2, DyStarts
      <4> QED
        BY <4>1, <4>2
    <3>1. InBurst' => InBurst /\ dy'.end = dy.end
      BY <3>b DEF InBurst
    <3>2. UNCHANGED ring /\ UNCHANGED tx
      BY <1>6 DEF DyStart, DyCredit, DySub
    <3> QED
      BY <3>1, <3>2, RingKept DEF ListInv
  <2> QED
    BY <2>1, <2>2, <2>3, <2>4
<1>7. CASE DyWrite
  <2>1. UNCHANGED ring /\ UNCHANGED tx
    BY <1>7 DEF DyWrite
  <2>2. DyT' /\ RingT' /\ RingInv' /\ ListInv'
    <3>1. CASE Pending = 0
      <4>1. dy' = DyIdle
        BY <1>7, <3>1 DEF DyWrite
      <4>2. DyT' /\ ~InBurst'
        BY <4>1, Sizes DEF DyT, DyIdle, Idx, InBurst
      <4> QED
        BY <2>1, <4>2, RingKept DEF ListInv
    <3>2. CASE Pending # 0
      <4>1. /\ dy' = [dy EXCEPT !.pc = "dma", !.limit = Limit, !.end = dy'.end]
            /\ dy'.end \in Idx /\ Limit \in Int /\ Taking' \in 0 .. Fill
        BY <1>7, <3>2, WriteBurst
      <4>2. DyT'
        BY <4>1 DEF DyT
      <4>3. Fill' = Fill /\ Fill \in Nat
        BY <2>1, PendingValue DEF Fill, RingT, RingInv
      <4>4. RingT' /\ RingInv' /\ ListInv'
        BY <2>1, <4>1, <4>3 DEF RingT, RingInv, ListInv
      <4> QED
        BY <4>2, <4>4
    <3> QED
      BY <3>1, <3>2
  <2>3. (QueueT /\ StopT /\ TxT /\ CreditT /\ FlagT /\ CountT /\ SpentT)'
    BY <1>7 DEF DyWrite, QueueT, StopT, TxT, CreditT, FlagT, CountT, SpentT
  <2> QED
    BY <2>2, <2>3
<1>8. CASE DyDma
  <2>1. /\ Burst \in Seq(Frames) /\ Len(Burst) \in Nat /\ ToSet(Burst) \subseteq Frames
    BY <1>8, BurstValue, ToSetType DEF DyDma, InBurst
  <2>2. DyT' /\ CreditT'
    <3>1. PICK b \in BOOLEAN : /\ dy' = [dy EXCEPT !.pc = "used", !.ok = b]
                               /\ owed' = IF b THEN owed + Len(Burst) ELSE owed
      BY <1>8 DEF DyDma
    <3>2. DyT'
      BY <3>1 DEF DyT
    <3>3. CreditT'
      BY <1>8, <2>1, <3>1 DEF CreditT, DyDma
    <3> QED
      BY <3>2, <3>3
  <2>3. CountT'
    BY <1>8, <2>1 DEF DyDma, CountT
  <2>4. SpentT'
    <3>1. spent.errors < MaxErrors => spent.errors + 1 \in 0 .. MaxErrors
      BY LimitAssumption DEF SpentT
    <3> QED
      BY <1>8, <3>1 DEF DyDma, SpentT
  <2>5. (QueueT /\ StopT /\ TxT /\ FlagT)'
    BY <1>8 DEF DyDma, QueueT, StopT, TxT, FlagT
  <2>6. RingT' /\ RingInv' /\ ListInv'
    <3>1. dy'.end = dy.end /\ InBurst /\ UNCHANGED ring /\ UNCHANGED tx
      BY <1>8 DEF DyDma, InBurst, DyT
    <3> QED
      BY <3>1, RingKept DEF ListInv
  <2> QED
    BY <2>2, <2>3, <2>4, <2>5, <2>6
<1>9. CASE DyUsed
  <2>1. InBurst /\ ring' = [ring EXCEPT !.used = dy.end] /\ UNCHANGED tx
    BY <1>9 DEF DyUsed, InBurst
  <2>2. /\ RingT' /\ ring'.buf = ring.buf /\ Taking \in 0 .. Fill /\ Fill' = Fill - Taking
        /\ \A i \in Int : Slot(ring'.used, i) = Slot(ring.used, Taking + i)
    BY <2>1, UsedRing
  <2>f. Fill \in Nat /\ Fill < RingSize
    BY PendingValue DEF RingT, RingInv
  <2>3. dy'.pc \in {"sub", "credit"} /\ DyT'
    BY <1>9 DEF DyUsed, DyT
  <2>4. RingInv'
    <3>1. \A i \in 1 .. Fill' : Taking + i \in 1 .. Fill
      BY <2>2, <2>f
    <3>2. \A i \in 1 .. Fill' : ring'.buf[Slot(ring'.used, i)] \in Frames
      BY <2>2, <2>f, <3>1 DEF RingInv
    <3> QED
      BY <2>2, <2>3, <2>f, <3>2, Sizes DEF RingInv, InBurst
  <2>5. ListInv'
    <3>1. Len(tx.list) \in Nat /\ Fill' <= Fill /\ Fill' \in Int
      BY <2>2, <2>f DEF TxT
    <3>2. CASE tx.pc = "put"
      <4>1. tx'.pc = "put" /\ tx'.ac = tx.ac /\ Len(tx'.list) = Len(tx.list)
        BY <2>1, <3>2
      <4>2. tx.ac \in Acs /\ Len(tx.list) + Fill < RingSize
        BY <3>2 DEF ListInv
      <4>3. Len(tx.list) + Fill' < RingSize
        BY <2>f, <3>1, <4>2, Sizes
      <4> QED
        BY <4>1, <4>2, <4>3 DEF ListInv
    <3>3. CASE tx.pc # "put"
      BY <2>1, <3>3 DEF ListInv
    <3> QED
      BY <3>2, <3>3
  <2>6. (QueueT /\ StopT /\ TxT /\ CreditT /\ FlagT /\ CountT /\ SpentT)'
    BY <1>9 DEF DyUsed, QueueT, StopT, TxT, CreditT, FlagT, CountT, SpentT
  <2> QED
    BY <2>2, <2>3, <2>4, <2>5, <2>6
<1>10. CASE AddCredit \/ CreditReset \/ ThermalTrip \/ ThermalClear \/ Reconnect
            \/ \E g \in {"peer", "iface"} : Disconnect(g)
  <2>1. UNCHANGED <<ring, dy, tx, txq, cache, xmit, acc, sent, lost>>
    BY <1>10 DEF AddCredit, CreditReset, ThermalTrip, ThermalClear, Reconnect, Disconnect
  <2>2. RingT' /\ RingInv' /\ ListInv'
    BY <2>1, RingKept DEF InBurst, ListInv
  <2>3. (QueueT /\ TxT /\ DyT /\ CountT)'
    BY <2>1 DEF QueueT, TxT, DyT, CountT
  <2>4. StopT'
    BY <1>10, <2>1 DEF AddCredit, CreditReset, ThermalTrip, ThermalClear, Reconnect, Disconnect, StopT
  <2>5. CreditT'
    BY <1>10, Sizes DEF AddCredit, CreditReset, ThermalTrip, ThermalClear, Reconnect, Disconnect, CreditT
  <2>6. FlagT'
    BY <1>10 DEF AddCredit, CreditReset, ThermalTrip, ThermalClear, Reconnect, Disconnect, FlagT
  <2>7. SpentT'
    BY <1>10, LimitAssumption DEF AddCredit, CreditReset, ThermalTrip, ThermalClear, Reconnect,
                                  Disconnect, SpentT
  <2> QED
    BY <2>2, <2>3, <2>4, <2>5, <2>6, <2>7
<1>11. CASE UNCHANGED vars
  <2>1. (QueueT /\ StopT /\ TxT /\ DyT /\ CreditT /\ FlagT /\ CountT /\ SpentT)'
    BY <1>11 DEF vars, QueueT, StopT, TxT, DyT, CreditT, FlagT, CountT, SpentT
  <2>2. RingT' /\ RingInv' /\ ListInv'
    BY <1>11, RingKept DEF vars, InBurst, ListInv
  <2> QED
    BY <2>1, <2>2
<1> QED
  BY <1>1, <1>2, <1>3, <1>4, <1>5, <1>6, <1>7, <1>8, <1>9, <1>10, <1>11
     DEF Next, XmitStep, TxStep, DyStep

\* Every reachable state has the declared types: in particular the counters of
\* skw_tx_worker and the indices skw_dy_worker moves stay in range, and what the ring and the
\* queues hold are frames.
THEOREM TypesTx == Spec => []TypeOK
<1>1. TypeInv => TypeOK
  BY DEF TypeInv, TypeOK, QueueT, StopT, TxT, RingT, DyT, CreditT, FlagT, CountT, SpentT, Idx
<1> QED
  BY <1>1, InitTypes, StepTypes, PTL DEF Spec
-----------------------------------------------------------------------------
(* Credit.                                                                 *)

LEMMA InitCredit == Init => CreditInv
BY Sizes DEF Init, CreditInv, Unpaid, InBurst, DyIdle

LEMMA StepCredit == TypeInv /\ CreditInv /\ [Next]_vars => CreditInv'
<1> SUFFICES ASSUME TypeInv, CreditInv, [Next]_vars
             PROVE  CreditInv'
  OBVIOUS
<1>0. CreditT /\ DyT /\ RingT /\ RingInv
  BY DEF TypeInv
<1>a. raced' = raced \/ CreditReset
  BY DEF Next, XmitQueue, XmitStep, XmitMeasure, XmitStop, TxStep, TxStart, TxCheck, TxAc, TxAcsDone,
         TxPut, TxKick, TxExit, DyStep, DyStart, DyCredit, DyWrite, DyDma, DyUsed, DySub, AddCredit,
         ThermalTrip, ThermalClear, Reconnect, Disconnect, vars
<1>1. CASE UNCHANGED <<ring, dy, credit, owed, raced>>
  BY <1>1 DEF CreditInv, Unpaid, InBurst, Taking, Ahead
<1>2. CASE TxPut
  <2>1. ring'.used = ring.used /\ UNCHANGED <<dy, credit, owed, raced>>
    BY <1>0, <1>2 DEF TxPut, RingT
  <2> QED
    BY <2>1 DEF CreditInv, Unpaid, InBurst, Taking, Ahead
<1>3. CASE DyStart \/ DyCredit
  <2>1. UNCHANGED <<credit, owed, raced>> /\ Unpaid = 0 /\ Unpaid' = 0 /\ ~InBurst' /\ dy'.limit = 0
        /\ (dy'.pc \in {"write", "dma", "used", "sub"} => dy'.credit = credit /\ credit # 0)
    <3>1. UNCHANGED <<credit, owed, raced>> /\ Unpaid = 0
      BY <1>3 DEF DyStart, DyCredit, Unpaid
    <3>2. \/ dy' = [DyIdle EXCEPT !.pc = "credit"] \/ dy' = DyIdle
          \/ dy' = [DyIdle EXCEPT !.pc = "write", !.credit = credit] /\ credit # 0
      BY <1>3 DEF DyStart, DyCredit
    <3>3. dy'.limit = 0 /\ \/ dy'.pc \in {"idle", "credit"}
                           \/ dy'.pc = "write" /\ dy'.credit = credit /\ credit # 0
      BY <3>2, DyStarts
    <3>4. Unpaid' = 0 /\ ~InBurst'
      BY <3>3 DEF Unpaid, InBurst
    <3> QED
      BY <3>1, <3>3, <3>4
  <2> QED
    BY <1>0, <2>1 DEF CreditInv, CreditT
<1>4. CASE DyWrite
  <2>1. UNCHANGED <<credit, owed, raced>> /\ dy.pc = "write" /\ Unpaid = 0
    BY <1>4 DEF DyWrite, Unpaid
  <2>2. CASE Pending = 0
    <3>1. dy' = DyIdle
      BY <1>4, <2>2 DEF DyWrite
    <3>2. dy'.pc = "idle" /\ Unpaid' = 0 /\ ~InBurst'
      BY <3>1 DEF DyIdle, Unpaid, InBurst
    <3> QED
      BY <2>1, <3>2 DEF CreditInv
  <2>3. CASE Pending # 0
    <3>1. /\ dy' = [dy EXCEPT !.pc = "dma", !.limit = Limit, !.end = dy'.end]
          /\ Limit \in Int /\ Limit <= dy.credit
          /\ Taking' = IF Limit < 0 THEN Fill ELSE Limit
          /\ (dy.credit > 0 => Limit > 0)
      BY <1>4, <2>3, WriteBurst
    <3>2. dy'.pc = "dma" /\ dy'.limit = Limit /\ dy'.credit = dy.credit /\ Unpaid' = 0
      BY <1>0, <3>1 DEF DyT, Unpaid
    <3> HIDE DEF Limit
    <3>3. dy.credit \in Int
      BY <1>0 DEF DyT
    <3> QED
      BY <2>1, <3>1, <3>2, <3>3 DEF CreditInv
  <2> QED
    BY <2>2, <2>3
<1>5. CASE DyDma
  <2>1. InBurst /\ dy.pc = "dma" /\ Unpaid = 0 /\ UNCHANGED <<ring, credit, raced>>
    BY <1>5 DEF DyDma, InBurst, Unpaid
  <2>2. Len(Burst) = Taking /\ Taking \in Nat
    <3>1. Fill \in Nat
      BY <1>0, PendingValue DEF RingT, RingInv
    <3> QED
      BY <1>0, <2>1, <3>1, BurstValue
  <2>3. /\ dy'.pc = "used" /\ dy'.limit = dy.limit /\ dy'.credit = dy.credit /\ Taking' = Taking
        /\ owed' = IF dy'.ok THEN owed + Taking ELSE owed
    <3>1. PICK b \in BOOLEAN : /\ dy' = [dy EXCEPT !.pc = "used", !.ok = b]
                               /\ owed' = IF b THEN owed + Len(Burst) ELSE owed
      BY <1>5 DEF DyDma
    <3>2. dy'.pc = "used" /\ dy'.limit = dy.limit /\ dy'.credit = dy.credit /\ dy'.end = dy.end
          /\ dy'.ok = b
      BY <1>0, <3>1 DEF DyT
    <3> QED
      BY <2>1, <2>2, <3>1, <3>2 DEF Taking
  <2>4. Unpaid' = IF dy'.ok THEN dy.limit ELSE 0
    BY <2>3 DEF Unpaid
  <2>5. dy.limit \in Int /\ dy.credit \in Int /\ credit \in Int /\ owed \in Nat
    BY <1>0 DEF DyT, CreditT
  <2> QED
    BY <2>1, <2>2, <2>3, <2>4, <2>5, Sizes DEF CreditInv
<1>6. CASE DyUsed
  <2>1. /\ UNCHANGED <<credit, owed, raced>> /\ dy.pc = "used" /\ ~InBurst'
        /\ dy' = [dy EXCEPT !.pc = IF dy.ok THEN "sub" ELSE "credit"]
    BY <1>6, <1>0 DEF DyUsed, InBurst, DyT
  <2>2. Unpaid' = Unpaid /\ dy'.credit = dy.credit /\ dy'.limit = dy.limit
    BY <1>0, <2>1 DEF Unpaid, DyT
  <2> QED
    BY <2>1, <2>2 DEF CreditInv
<1>7. CASE DySub
  <2>1. /\ credit' = credit - dy.limit /\ UNCHANGED <<owed, raced>> /\ dy.pc = "sub"
        /\ dy'.pc = "credit"
    BY <1>0, <1>7 DEF DySub, DyT
  <2>2. Unpaid = dy.limit /\ Unpaid' = 0 /\ ~InBurst'
    BY <2>1 DEF Unpaid, InBurst
  <2> QED
    BY <1>0, <2>1, <2>2, Sizes DEF CreditInv, CreditT, DyT
<1>8. CASE AddCredit
  <2>1. UNCHANGED <<ring, dy, raced>> /\ credit' = credit + 1 /\ owed' = owed - 1
    BY <1>8 DEF AddCredit
  <2>2. Unpaid' = Unpaid /\ Taking' = Taking /\ (InBurst' <=> InBurst)
    BY <2>1 DEF Unpaid, InBurst, Taking
  <2>3. Unpaid \in Int /\ dy.credit \in Int
    BY <1>0 DEF Unpaid, DyT
  <2> QED
    BY <1>0, <2>1, <2>2, <2>3, Sizes DEF CreditInv, CreditT
<1>9. CASE CreditReset
  <2>1. UNCHANGED <<ring, dy>> /\ credit' = 0 /\ owed' = FwBufs
        /\ (~raced' => dy.pc \in {"idle", "credit"})
    BY <1>9 DEF CreditReset
  <2>2. ~raced' => Unpaid' = 0 /\ ~InBurst'
    BY <2>1 DEF Unpaid, InBurst
  <2> QED
    BY <2>1, <2>2, Sizes DEF CreditInv
<1>10. CASE (\E a \in Acs : XmitQueue(a)) \/ XmitStep \/ TxStart \/ TxCheck \/ TxAc \/ TxAcsDone \/ TxKick
            \/ TxExit \/ ThermalTrip \/ ThermalClear \/ Reconnect \/ (\E g \in {"peer", "iface"} : Disconnect(g))
            \/ UNCHANGED vars
  <2>1. UNCHANGED <<ring, dy, credit, owed, raced>>
    BY <1>10 DEF XmitQueue, XmitStep, XmitMeasure, XmitStop, TxStart, TxCheck, TxAc, TxAcsDone, TxKick,
                 TxExit, ThermalTrip, ThermalClear, Reconnect, Disconnect, vars
  <2> QED
    BY <1>1, <2>1
<1> QED
  BY <1>2, <1>3, <1>4, <1>5, <1>6, <1>7, <1>8, <1>9, <1>10 DEF Next, TxStep, DyStep

\* The firmware never gets more frames than it granted credit for, though the credit is
\* read, spent and returned by three contexts without a lock, whatever the sizes of the
\* ring and of the grant; excepted are bursts during which the credit was reset.
THEOREM CreditIsHonoured == Spec => []CreditHonoured
<1>1. TypeInv /\ CreditInv => CreditHonoured
  <2>1. TypeInv /\ CreditInv /\ ~raced => Unpaid <= credit /\ Unpaid \in Int /\ credit \in Int /\ owed \in Int
    BY DEF TypeInv, CreditInv, Unpaid, CreditT, DyT
  <2> QED
    BY <2>1, Sizes DEF CreditInv, CreditHonoured
<1> QED
  BY <1>1, InitTypes, StepTypes, InitCredit, StepCredit, PTL DEF Spec
-----------------------------------------------------------------------------
(* The order of the frames: what one step does to those under way (W) and  *)
(* to those queued (Q).                                                    *)

\* W: the frames in the ring and in the worker's list; Q[a]: those queued for category a;
\* A: how many were accepted; G: those on the bus or dropped.
WayOrder(W)      == \A i, j \in 1 .. Len(W) : i < j /\ W[i][1] = W[j][1] => W[i][2] < W[j][2]
QueueOrder(Q)    == \A a \in Acs : \A i, j \in 1 .. Len(Q[a]) : i < j => Q[a][i][2] < Q[a][j][2]
WayFirst(W, Q)   == \A a \in Acs : \A i \in 1 .. Len(W), j \in 1 .. Len(Q[a]) :
                      W[i][1] = a => W[i][2] < Q[a][j][2]
QueueOwn(Q)      == \A a \in Acs : \A j \in 1 .. Len(Q[a]) : Q[a][j][1] = a
GoneBefore(A, G) == \A f \in G : f[2] <= A[f[1]]
InWay(W, f)      == \E i \in 1 .. Len(W) : W[i] = f
InQueue(Q, f)    == \E j \in 1 .. Len(Q[f[1]]) : Q[f[1]][j] = f
AllThere(W, Q, A, G) ==
  \A f \in Frames : f \notin G /\ f[2] <= A[f[1]] <=> InWay(W, f) \/ InQueue(Q, f)

Order(W, Q, A, G) == /\ WayOrder(W) /\ QueueOrder(Q) /\ WayFirst(W, Q) /\ QueueOwn(Q)
                     /\ GoneBefore(A, G) /\ AllThere(W, Q, A, G)

LEMMA FramePair ==
    /\ \A f \in Frames : f[1] \in Acs /\ f[2] \in 1 .. MaxFrames /\ f = <<f[1], f[2]>>
    /\ \A a \in Acs, k \in 1 .. MaxFrames : <<a, k>> \in Frames /\ <<a, k>>[1] = a /\ <<a, k>>[2] = k
BY DEF Frames

\* A frame is accepted: the last of its category so far.
LEMMA OrderAccept ==
    ASSUME NEW W \in Seq(Frames), NEW Q \in [Acs -> Seq(Frames)], NEW A \in [Acs -> 0 .. MaxFrames],
           NEW G \in SUBSET Frames, Order(W, Q, A, G), NEW a \in Acs, A[a] < MaxFrames,
           NEW Q2, Q2 = [Q EXCEPT ![a] = Append(Q[a], <<a, A[a] + 1>>)],
           NEW A2, A2 = [A EXCEPT ![a] = A[a] + 1]
    PROVE  Order(W, Q2, A2, G)
<1> DEFINE g == <<a, A[a] + 1>>
<1>m. MaxFrames \in Nat
  BY LimitAssumption
<1>1. g \in Frames /\ g[1] = a /\ g[2] = A[a] + 1
  <2>1. A[a] + 1 \in 1 .. MaxFrames
    BY <1>m
  <2> QED
    BY <2>1, FramePair
<1>2. /\ Q[a] \in Seq(Frames) /\ Len(Q[a]) \in Nat /\ Len(Q2[a]) = Len(Q[a]) + 1
      /\ \A i \in 1 .. Len(Q[a]) : Q2[a][i] = Q[a][i]
      /\ Q2[a][Len(Q[a]) + 1] = g
      /\ \A b \in Acs : b # a => Q2[b] = Q[b]
  BY <1>1
<1>3. A2[a] = A[a] + 1 /\ \A b \in Acs : b # a => A2[b] = A[b]
  OBVIOUS
<1>4. \A f \in Frames : f[2] <= A2[f[1]] <=> f[2] <= A[f[1]] \/ f = g
  <2> SUFFICES ASSUME NEW f \in Frames
               PROVE  f[2] <= A2[f[1]] <=> f[2] <= A[f[1]] \/ f = g
    OBVIOUS
  <2>1. f[1] \in Acs /\ f[2] \in Nat /\ f = <<f[1], f[2]>> /\ A[f[1]] \in Nat
    BY FramePair, <1>m
  <2>2. CASE f[1] = a
    BY <1>1, <1>3, <2>1, <2>2
  <2>3. CASE f[1] # a
    BY <1>1, <1>3, <2>1, <2>3
  <2> QED
    BY <2>2, <2>3
<1>5. \A i \in 1 .. Len(W) : W[i] \in Frames /\ W[i][2] <= A[W[i][1]]
  <2> SUFFICES ASSUME NEW i \in 1 .. Len(W)
               PROVE  W[i] \in Frames /\ W[i][2] <= A[W[i][1]]
    OBVIOUS
  <2>1. W[i] \in Frames /\ InWay(W, W[i])
    BY DEF InWay
  <2> QED
    BY <2>1 DEF Order, AllThere
<1>6. \A i \in 1 .. Len(Q[a]) : Q[a][i] \in Frames /\ Q[a][i][1] = a /\ Q[a][i][2] <= A[a]
  <2> SUFFICES ASSUME NEW i \in 1 .. Len(Q[a])
               PROVE  Q[a][i] \in Frames /\ Q[a][i][1] = a /\ Q[a][i][2] <= A[a]
    OBVIOUS
  <2>1. Q[a][i] \in Frames /\ Q[a][i][1] = a
    BY <1>2 DEF Order, QueueOwn
  <2>2. InQueue(Q, Q[a][i])
    BY <2>1 DEF InQueue
  <2> QED
    BY <2>1, <2>2 DEF Order, AllThere
<1>7. QueueOrder(Q2)
  <2> SUFFICES ASSUME NEW b \in Acs, NEW i \in 1 .. Len(Q2[b]), NEW j \in 1 .. Len(Q2[b]), i < j
               PROVE  Q2[b][i][2] < Q2[b][j][2]
    BY DEF QueueOrder
  <2>1. CASE b # a
    BY <1>2, <2>1 DEF Order, QueueOrder
  <2>2. CASE b = a /\ j = Len(Q[a]) + 1
    <3>1. i \in 1 .. Len(Q[a]) /\ Q2[a][j] = g /\ Q2[a][i] = Q[a][i]
      BY <1>2, <2>2
    <3>2. Q[a][i][2] <= A[a]
      BY <1>6, <3>1
    <3>3. Q[a][i] \in Frames /\ A[a] \in Nat
      BY <1>6, <3>1, <1>m
    <3>4. Q[a][i][2] \in Nat
      BY <3>3, FramePair, <1>m
    <3> QED
      BY <1>1, <2>2, <3>1, <3>2, <3>3, <3>4
  <2>3. CASE b = a /\ j # Len(Q[a]) + 1
    <3>0. i \in 1 .. Len(Q[a]) + 1 /\ j \in 1 .. Len(Q[a]) + 1
      BY <1>2, <2>3
    <3>1. i \in 1 .. Len(Q[a]) /\ j \in 1 .. Len(Q[a])
      <4>1. \A L \in Nat : \A x, y \in 1 .. L + 1 : x < y /\ y # L + 1 => x \in 1 .. L /\ y \in 1 .. L
        OBVIOUS
      <4> QED
        BY <1>2, <2>3, <3>0, <4>1
    <3>2. Q2[a][j] = Q[a][j] /\ Q2[a][i] = Q[a][i]
      BY <1>2, <3>1
    <3> QED
      BY <2>3, <3>1, <3>2 DEF Order, QueueOrder
  <2> QED
    BY <2>1, <2>2, <2>3
<1>8. WayFirst(W, Q2)
  <2> SUFFICES ASSUME NEW b \in Acs, NEW i \in 1 .. Len(W), NEW j \in 1 .. Len(Q2[b]), W[i][1] = b
               PROVE  W[i][2] < Q2[b][j][2]
    BY DEF WayFirst
  <2>1. CASE b # a
    BY <1>2, <2>1 DEF Order, WayFirst
  <2>2. CASE b = a /\ j = Len(Q[a]) + 1
    <3>1. W[i][2] <= A[a] /\ W[i][2] \in Nat /\ A[a] \in Nat
      BY <1>5, <2>2, FramePair, <1>m
    <3> QED
      BY <1>1, <1>2, <2>2, <3>1
  <2>3. CASE b = a /\ j # Len(Q[a]) + 1
    <3>1. j \in 1 .. Len(Q[a]) /\ Q2[a][j] = Q[a][j]
      BY <1>2, <2>3
    <3> QED
      BY <2>3, <3>1 DEF Order, WayFirst
  <2> QED
    BY <2>1, <2>2, <2>3
<1>9. QueueOwn(Q2)
  <2> SUFFICES ASSUME NEW b \in Acs, NEW j \in 1 .. Len(Q2[b])
               PROVE  Q2[b][j][1] = b
    BY DEF QueueOwn
  <2>1. CASE b # a
    BY <1>2, <2>1 DEF Order, QueueOwn
  <2>2. CASE b = a
    <3>1. j = Len(Q[a]) + 1 \/ j \in 1 .. Len(Q[a])
      BY <1>2, <2>2
    <3> QED
      BY <1>1, <1>2, <1>6, <2>2, <3>1
  <2> QED
    BY <2>1, <2>2
<1>10. GoneBefore(A2, G)
  BY <1>4 DEF Order, GoneBefore
<1>11. AllThere(W, Q2, A2, G)
  <2> SUFFICES ASSUME NEW f \in Frames
               PROVE  f \notin G /\ f[2] <= A2[f[1]] <=> InWay(W, f) \/ InQueue(Q2, f)
    BY DEF AllThere
  <2>1. f \notin G /\ f[2] <= A[f[1]] <=> InWay(W, f) \/ InQueue(Q, f)
    BY DEF Order, AllThere
  <2>2. InQueue(Q2, f) <=> InQueue(Q, f) \/ f = g
    <3>1. CASE f[1] # a
      BY <1>1, <1>2, <3>1, FramePair DEF InQueue
    <3>2. CASE f[1] = a
      <4>1. InQueue(Q2, f) <=> \E j \in 1 .. Len(Q[a]) + 1 : Q2[a][j] = f
        BY <1>2, <3>2 DEF InQueue
      <4>2. (\E j \in 1 .. Len(Q[a]) + 1 : Q2[a][j] = f) <=> (\E j \in 1 .. Len(Q[a]) : Q[a][j] = f) \/ f = g
        BY <1>2
      <4> QED
        BY <3>2, <4>1, <4>2 DEF InQueue
    <3> QED
      BY <3>1, <3>2
  <2>3. g \notin G /\ ~(g[2] <= A[g[1]])
    <3>1. ~(g[2] <= A[g[1]])
      BY <1>1, <1>m
    <3> QED
      BY <3>1 DEF Order, GoneBefore
  <2> HIDE DEF g
  <2> QED
    BY <1>4, <2>1, <2>2, <2>3
<1> QED
  BY <1>7, <1>8, <1>9, <1>10, <1>11 DEF Order

\* The first n frames queued for a category follow those under way.
LEMMA OrderTake ==
    ASSUME NEW W \in Seq(Frames), NEW Q \in [Acs -> Seq(Frames)], NEW A \in [Acs -> 0 .. MaxFrames],
           NEW G \in SUBSET Frames, Order(W, Q, A, G), NEW a \in Acs, NEW n \in 0 .. Len(Q[a]),
           NEW W2, W2 = W \o SubSeq(Q[a], 1, n),
           NEW Q2, Q2 = [Q EXCEPT ![a] = SubSeq(Q[a], n + 1, Len(Q[a]))]
    PROVE  Order(W2, Q2, A, G)
<1> DEFINE q == Q[a]
           m == Len(W)
<1>1. q \in Seq(Frames) /\ Len(q) \in Nat /\ m \in Nat /\ n \in Nat /\ n <= Len(q)
  OBVIOUS
<1>2. /\ W2 \in Seq(Frames) /\ Len(W2) = m + n
      /\ \A i \in 1 .. m : W2[i] = W[i]
      /\ \A i \in 1 .. n : W2[m + i] = q[i]
  <2>1. /\ SubSeq(q, 1, n) \in Seq(Frames) /\ Len(SubSeq(q, 1, n)) = n
        /\ \A i \in 1 .. n : SubSeq(q, 1, n)[i] = q[i]
    BY <1>1, SubSeqProperties
  <2> DEFINE h == SubSeq(q, 1, n)
  <2>2. W2 = W \o h
    OBVIOUS
  <2>3. h \in Seq(Frames) /\ Len(h) = n /\ \A i \in 1 .. n : h[i] = q[i]
    BY <2>1
  <2> HIDE DEF h
  <2> QED
    BY <1>1, <2>2, <2>3
<1>3. /\ Len(Q2[a]) = Len(q) - n
      /\ \A i \in 1 .. Len(q) - n : Q2[a][i] = q[n + i]
      /\ \A b \in Acs : b # a => Q2[b] = Q[b]
  <2>1. Q2[a] = SubSeq(q, n + 1, Len(q)) /\ \A b \in Acs : b # a => Q2[b] = Q[b]
    OBVIOUS
  <2>2. Len(SubSeq(q, n + 1, Len(q))) = Len(q) - n
    BY <1>1, SubSeqProperties
  <2>3. \A i \in 1 .. Len(q) - n : SubSeq(q, n + 1, Len(q))[i] = q[n + i]
    <3> SUFFICES ASSUME NEW i \in 1 .. Len(q) - n
                 PROVE  SubSeq(q, n + 1, Len(q))[i] = q[n + i]
      OBVIOUS
    <3>1. i \in 1 .. Len(q) - (n + 1) + 1 /\ (n + 1) + i - 1 = n + i
      BY <1>1
    <3> QED
      BY <1>1, <3>1, SubSeqProperties
  <2> QED
    BY <2>1, <2>2, <2>3
<1>4. \A i \in 1 .. Len(q) : q[i] \in Frames /\ q[i][1] = a
  BY <1>1 DEF Order, QueueOwn
<1>5. \A i, j \in 1 .. Len(q) : i < j => q[i][2] < q[j][2]
  BY DEF Order, QueueOrder
<1> HIDE DEF m, q
<1>6. WayOrder(W2)
  <2> SUFFICES ASSUME NEW i \in 1 .. m + n, NEW j \in 1 .. m + n, i < j, W2[i][1] = W2[j][1]
               PROVE  W2[i][2] < W2[j][2]
    BY <1>2 DEF WayOrder
  <2>1. CASE j <= m
    <3>1. i \in 1 .. m /\ j \in 1 .. m
      BY <1>1, <2>1
    <3>2. W2[i] = W[i] /\ W2[j] = W[j]
      BY <1>2, <3>1
    <3> QED
      BY <3>1, <3>2 DEF Order, WayOrder, m
  <2>2. CASE j > m /\ i <= m
    <3>1. i \in 1 .. m /\ j - m \in 1 .. n /\ j = m + (j - m)
      BY <1>1, <2>2
    <3>2. W2[i] = W[i] /\ W2[j] = q[j - m] /\ j - m \in 1 .. Len(q)
      <4>1. W2[i] = W[i]
        BY <1>2, <3>1
      <4>2. PICK k \in 1 .. n : k = j - m
        BY <3>1
      <4>3. j = m + k /\ W2[m + k] = q[k]
        BY <1>2, <3>1, <4>2
      <4>4. k \in 1 .. Len(q)
        BY <1>1, <4>2
      <4> QED
        BY <4>1, <4>2, <4>3, <4>4
    <3>3. W[i][1] = a
      BY <1>4, <3>2
    <3> QED
      BY <3>1, <3>2, <3>3 DEF Order, WayFirst, m, q
  <2>3. CASE i > m
    <3>0. i - m \in 1 .. n /\ i = m + (i - m) /\ j - m \in 1 .. n /\ j = m + (j - m)
      BY <1>1, <2>3
    <3>1. PICK x \in 1 .. n, y \in 1 .. n : i = m + x /\ j = m + y
      BY <3>0
    <3>2. x < y /\ x \in 1 .. Len(q) /\ y \in 1 .. Len(q)
      BY <1>1, <3>1
    <3>3. W2[i] = q[x] /\ W2[j] = q[y]
      BY <1>2, <3>1
    <3> QED
      BY <1>5, <3>2, <3>3
  <2>4. j <= m \/ (j > m /\ i <= m) \/ i > m
    BY <1>1
  <2> QED
    BY <2>1, <2>2, <2>3, <2>4
<1>7. \A i \in 1 .. Len(q) - n : n + i \in 1 .. Len(q)
  BY <1>1
<1>8. QueueOrder(Q2)
  <2> SUFFICES ASSUME NEW b \in Acs, NEW i \in 1 .. Len(Q2[b]), NEW j \in 1 .. Len(Q2[b]), i < j
               PROVE  Q2[b][i][2] < Q2[b][j][2]
    BY DEF QueueOrder
  <2>1. CASE b # a
    BY <1>3, <2>1 DEF Order, QueueOrder
  <2>2. CASE b = a
    <3>1. n + i \in 1 .. Len(q) /\ n + j \in 1 .. Len(q) /\ n + i < n + j
      BY <1>1, <1>3, <1>7, <2>2
    <3>2. Q2[b][i] = q[n + i] /\ Q2[b][j] = q[n + j]
      BY <1>3, <2>2
    <3> QED
      BY <1>5, <3>1, <3>2
  <2> QED
    BY <2>1, <2>2
<1>9. WayFirst(W2, Q2)
  <2> SUFFICES ASSUME NEW b \in Acs, NEW i \in 1 .. m + n, NEW j \in 1 .. Len(Q2[b]), W2[i][1] = b
               PROVE  W2[i][2] < Q2[b][j][2]
    BY <1>2 DEF WayFirst
  <2>1. CASE i <= m /\ b # a
    <3>1. i \in 1 .. m /\ W2[i] = W[i] /\ Q2[b] = Q[b]
      BY <1>1, <1>2, <1>3, <2>1
    <3> QED
      BY <3>1 DEF Order, WayFirst, m
  <2>2. CASE i <= m /\ b = a
    <3>1. i \in 1 .. m /\ j \in 1 .. Len(q) - n
      BY <1>1, <1>3, <2>2
    <3>2. W2[i] = W[i] /\ n + j \in 1 .. Len(q) /\ Q2[b][j] = q[n + j]
      BY <1>2, <1>3, <1>7, <2>2, <3>1
    <3> QED
      BY <2>2, <3>1, <3>2 DEF Order, WayFirst, m, q
  <2>3. CASE i > m
    <3>0. i - m \in 1 .. n /\ i = m + (i - m)
      BY <1>1, <2>3
    <3>1. PICK x \in 1 .. n : i = m + x
      BY <3>0
    <3>2. W2[i] = q[x] /\ x \in 1 .. Len(q)
      BY <1>1, <1>2, <3>1
    <3>3. b = a
      BY <1>4, <3>2
    <3>4. j \in 1 .. Len(q) - n
      BY <1>3, <3>3
    <3>5. n + j \in 1 .. Len(q) /\ Q2[b][j] = q[n + j]
      BY <1>3, <1>7, <3>3, <3>4
    <3>6. x < n + j
      BY <1>1, <3>4
    <3> QED
      BY <1>5, <3>2, <3>5, <3>6
  <2>4. (i <= m /\ b # a) \/ (i <= m /\ b = a) \/ i > m
    BY <1>1
  <2> QED
    BY <2>1, <2>2, <2>3, <2>4
<1>10. QueueOwn(Q2)
  <2> SUFFICES ASSUME NEW b \in Acs, NEW j \in 1 .. Len(Q2[b])
               PROVE  Q2[b][j][1] = b
    BY DEF QueueOwn
  <2>1. CASE b # a
    BY <1>3, <2>1 DEF Order, QueueOwn
  <2>2. CASE b = a
    BY <1>3, <1>4, <1>7, <2>2
  <2> QED
    BY <2>1, <2>2
<1>11. AllThere(W2, Q2, A, G)
  <2> SUFFICES ASSUME NEW f \in Frames
               PROVE  InWay(W2, f) \/ InQueue(Q2, f) <=> InWay(W, f) \/ InQueue(Q, f)
    BY DEF Order, AllThere
  <2>1. InWay(W2, f) <=> InWay(W, f) \/ \E i \in 1 .. n : q[i] = f
    <3>1. InWay(W2, f) <=> \E i \in 1 .. m + n : W2[i] = f
      BY <1>2 DEF InWay
    <3>2. (\E i \in 1 .. m : W2[i] = f) <=> InWay(W, f)
      BY <1>2 DEF InWay, m
    <3>3. (\E i \in 1 .. m + n : W2[i] = f) <=> ((\E i \in 1 .. m : W2[i] = f) \/ (\E i \in 1 .. n : W2[m + i] = f))
      <4>1. \A i \in 1 .. m + n : i \in 1 .. m \/ (i - m \in 1 .. n /\ m + (i - m) = i)
        BY <1>1
      <4>2. \A i \in 1 .. n : m + i \in 1 .. m + n
        BY <1>1
      <4>3. \A i \in 1 .. m : i \in 1 .. m + n
        BY <1>1
      <4> QED
        BY <4>1, <4>2, <4>3
    <3> QED
      BY <1>2, <3>1, <3>2, <3>3
  <2>2. CASE f[1] # a
    <3>1. ~ \E i \in 1 .. n : q[i] = f
      BY <1>1, <1>4, <2>2
    <3>2. InQueue(Q2, f) <=> InQueue(Q, f)
      BY <1>3, <2>2, FramePair DEF InQueue
    <3> QED
      BY <2>1, <3>1, <3>2
  <2>3. CASE f[1] = a
    <3>1. InQueue(Q, f) <=> \E i \in 1 .. Len(q) : q[i] = f
      BY <2>3 DEF InQueue, q
    <3>2. InQueue(Q2, f) <=> \E i \in 1 .. Len(q) - n : q[n + i] = f
      <4>1. InQueue(Q2, f) <=> \E i \in 1 .. Len(Q2[a]) : Q2[a][i] = f
        BY <2>3 DEF InQueue
      <4>2. \A i \in 1 .. Len(Q2[a]) : Q2[a][i] = q[n + i]
        BY <1>3
      <4>3. (\E i \in 1 .. Len(Q2[a]) : Q2[a][i] = f) <=> \E i \in 1 .. Len(Q2[a]) : q[n + i] = f
        BY <4>2
      <4>4. Len(Q2[a]) = Len(q) - n
        BY <1>3
      <4> QED
        BY <4>1, <4>3, <4>4
    <3>3. (\E i \in 1 .. Len(q) : q[i] = f) <=> (\E i \in 1 .. n : q[i] = f) \/ \E i \in 1 .. Len(q) - n : q[n + i] = f
      <4>1. \A i \in 1 .. Len(q) : i \in 1 .. n \/ (i - n \in 1 .. Len(q) - n /\ n + (i - n) = i)
        BY <1>1
      <4>2. \A i \in 1 .. n : i \in 1 .. Len(q)
        BY <1>1
      <4> QED
        BY <1>7, <4>1, <4>2
    <3> QED
      BY <2>1, <3>1, <3>2, <3>3
  <2> QED
    BY <2>2, <2>3
<1> QED
  BY <1>6, <1>8, <1>9, <1>10, <1>11 DEF Order

\* What is queued for a category is dropped.
LEMMA OrderDrop ==
    ASSUME NEW W \in Seq(Frames), NEW Q \in [Acs -> Seq(Frames)], NEW A \in [Acs -> 0 .. MaxFrames],
           NEW G \in SUBSET Frames, Order(W, Q, A, G), NEW a \in Acs,
           NEW Q2, Q2 = [Q EXCEPT ![a] = <<>>],
           NEW G2, G2 = G \cup ToSet(Q[a])
    PROVE  Order(W, Q2, A, G2)
<1>1. /\ Len(Q2[a]) = 0 /\ 1 .. Len(Q2[a]) = {} /\ \A b \in Acs : b # a => Q2[b] = Q[b]
  <2>1. Q2[a] = <<>> /\ \A b \in Acs : b # a => Q2[b] = Q[b]
    OBVIOUS
  <2>2. Len(Q2[a]) = 0
    BY ONLY <2>1
  <2> QED
    BY <2>1, <2>2
<1>2. /\ Q[a] \in Seq(Frames)
      /\ \A f : f \in G2 <=> f \in G \/ \E j \in 1 .. Len(Q[a]) : Q[a][j] = f
  BY DEF ToSet
<1>3. \A j \in 1 .. Len(Q[a]) : Q[a][j] \in Frames /\ Q[a][j][1] = a /\ InQueue(Q, Q[a][j])
  <2> SUFFICES ASSUME NEW j \in 1 .. Len(Q[a])
               PROVE  Q[a][j] \in Frames /\ Q[a][j][1] = a /\ InQueue(Q, Q[a][j])
    OBVIOUS
  <2>1. Q[a][j] \in Frames
    BY <1>2
  <2>2. Q[a][j][1] = a
    BY DEF Order, QueueOwn
  <2>3. InQueue(Q, Q[a][j])
    BY <2>2 DEF InQueue
  <2> QED
    BY <2>1, <2>2, <2>3
<1>4. QueueOrder(Q2) /\ WayFirst(W, Q2) /\ QueueOwn(Q2)
  <2>1. \A b \in Acs : \A j \in 1 .. Len(Q2[b]) : b # a /\ Q2[b] = Q[b]
    BY <1>1
  <2>2. QueueOrder(Q2)
    BY <2>1 DEF Order, QueueOrder
  <2>3. WayFirst(W, Q2)
    BY <2>1 DEF Order, WayFirst
  <2>4. QueueOwn(Q2)
    BY <2>1 DEF Order, QueueOwn
  <2> QED
    BY <2>2, <2>3, <2>4
<1>5. GoneBefore(A, G2)
  BY <1>2, <1>3 DEF Order, GoneBefore, AllThere
<1>6. AllThere(W, Q2, A, G2)
  <2> SUFFICES ASSUME NEW f \in Frames
               PROVE  f \notin G2 /\ f[2] <= A[f[1]] <=> InWay(W, f) \/ InQueue(Q2, f)
    BY DEF AllThere
  <2>1. f \notin G /\ f[2] <= A[f[1]] <=> InWay(W, f) \/ InQueue(Q, f)
    BY DEF Order, AllThere
  <2>2. CASE f[1] # a
    <3>1. f \in G2 <=> f \in G
      BY <1>2, <1>3, <2>2
    <3>2. InQueue(Q2, f) <=> InQueue(Q, f)
      BY <1>1, <2>2, FramePair DEF InQueue
    <3> QED
      BY <2>1, <3>1, <3>2
  <2>3. CASE f[1] = a
    <3>1. f \in G2 <=> f \in G \/ InQueue(Q, f)
      BY <1>2, <2>3 DEF InQueue
    <3>2. ~InQueue(Q2, f)
      BY <1>1, <2>3 DEF InQueue
    <3>3. ~(InWay(W, f) /\ InQueue(Q, f))
      <4> SUFFICES ASSUME InWay(W, f), InQueue(Q, f)
                   PROVE  FALSE
        OBVIOUS
      <4>1. PICK i \in 1 .. Len(W) : W[i] = f
        BY DEF InWay
      <4>2. PICK j \in 1 .. Len(Q[a]) : Q[a][j] = f
        BY <2>3 DEF InQueue
      <4>3. f[2] < f[2]
        BY <2>3, <4>1, <4>2 DEF Order, WayFirst
      <4>4. f[2] \in Int
        BY FramePair, LimitAssumption
      <4> QED
        BY <4>3, <4>4
    <3> QED
      BY <2>1, <3>1, <3>2, <3>3
  <2> QED
    BY <2>2, <2>3
<1> QED
  BY <1>4, <1>5, <1>6 DEF Order

\* The first n frames under way reach the bus, or are lost on it.
LEMMA OrderBurst ==
    ASSUME NEW W \in Seq(Frames), NEW Q \in [Acs -> Seq(Frames)], NEW A \in [Acs -> 0 .. MaxFrames],
           NEW G \in SUBSET Frames, Order(W, Q, A, G), NEW n \in 0 .. Len(W),
           NEW W2, Len(W2) = Len(W) - n, \A i \in 1 .. Len(W) - n : W2[i] = W[n + i],
           NEW G2, G2 = G \cup {W[i] : i \in 1 .. n}
    PROVE  Order(W2, Q, A, G2)
<1> DEFINE m == Len(W)
<1>1. m \in Nat /\ n \in Nat /\ n <= m /\ Len(W2) = m - n
  OBVIOUS
<1>2. \A i \in 1 .. m : W[i] \in Frames /\ InWay(W, W[i])
  BY DEF InWay
<1>3. \A i \in 1 .. m - n : W2[i] = W[n + i]
  OBVIOUS
<1> HIDE DEF m
<1>4. \A i \in 1 .. m - n : n + i \in 1 .. m
  BY <1>1
<1>5. WayOrder(W2)
  <2> SUFFICES ASSUME NEW i \in 1 .. m - n, NEW j \in 1 .. m - n, i < j, W2[i][1] = W2[j][1]
               PROVE  W2[i][2] < W2[j][2]
    BY <1>1 DEF WayOrder
  <2>1. n + i \in 1 .. m /\ n + j \in 1 .. m /\ n + i < n + j
    BY <1>1
  <2>2. W2[i] = W[n + i] /\ W2[j] = W[n + j]
    BY <1>3
  <2> QED
    BY <2>1, <2>2 DEF Order, WayOrder, m
<1>6. WayFirst(W2, Q)
  <2> SUFFICES ASSUME NEW b \in Acs, NEW i \in 1 .. m - n, NEW j \in 1 .. Len(Q[b]), W2[i][1] = b
               PROVE  W2[i][2] < Q[b][j][2]
    BY <1>1 DEF WayFirst
  <2> QED
    BY <1>3, <1>4 DEF Order, WayFirst, m
<1>7. GoneBefore(A, G2)
  <2>1. \A i \in 1 .. n : i \in 1 .. m
    BY <1>1
  <2> QED
    BY <1>2, <2>1 DEF Order, GoneBefore, AllThere
<1>8. AllThere(W2, Q, A, G2)
  <2> SUFFICES ASSUME NEW f \in Frames
               PROVE  f \notin G2 /\ f[2] <= A[f[1]] <=> InWay(W2, f) \/ InQueue(Q, f)
    BY DEF AllThere
  <2> DEFINE out == \E i \in 1 .. n : W[i] = f
  <2>1. f \notin G /\ f[2] <= A[f[1]] <=> InWay(W, f) \/ InQueue(Q, f)
    BY DEF Order, AllThere
  <2>2. InWay(W, f) <=> out \/ InWay(W2, f)
    <3>1. \A i \in 1 .. m : i \in 1 .. n \/ (i - n \in 1 .. m - n /\ n + (i - n) = i)
      BY <1>1
    <3>2. \A i \in 1 .. n : i \in 1 .. m
      BY <1>1
    <3>3. InWay(W2, f) <=> \E i \in 1 .. m - n : W[n + i] = f
      BY <1>1, <1>3 DEF InWay
    <3>4. InWay(W, f) <=> \E i \in 1 .. m : W[i] = f
      BY DEF InWay, m
    <3> QED
      BY <1>4, <3>1, <3>2, <3>3, <3>4
  <2>n. f[1] \in Acs /\ f[2] \in Int
    BY FramePair, LimitAssumption
  <2>3. ~(out /\ InWay(W2, f))
    <3> SUFFICES ASSUME NEW i \in 1 .. n, W[i] = f, NEW j \in 1 .. m - n, W2[j] = f
                 PROVE  FALSE
      BY <1>1 DEF InWay
    <3>1. i \in 1 .. m /\ n + j \in 1 .. m /\ i < n + j /\ W[n + j] = f
      BY <1>1, <1>3
    <3>2. f[2] < f[2]
      BY <3>1 DEF Order, WayOrder, m
    <3> QED
      BY <2>n, <3>2
  <2>4. ~(out /\ InQueue(Q, f))
    <3> SUFFICES ASSUME NEW i \in 1 .. n, W[i] = f, NEW j \in 1 .. Len(Q[f[1]]), Q[f[1]][j] = f
                 PROVE  FALSE
      BY DEF InQueue
    <3>1. i \in 1 .. m
      BY <1>1
    <3>2. f[2] < f[2]
      BY <2>n, <3>1 DEF Order, WayFirst, m
    <3> QED
      BY <2>n, <3>2
  <2>5. f \in G2 <=> f \in G \/ out
    OBVIOUS
  <2> HIDE DEF out
  <2> QED
    BY <2>1, <2>2, <2>3, <2>4, <2>5
<1> QED
  BY <1>5, <1>6, <1>7, <1>8 DEF Order
-----------------------------------------------------------------------------
(* The frames of the transmit path.                                        *)

Queues == [a \in Acs |-> Queued(a)]
Gone   == sent \cup lost

OrderInv == Order(Way, Queues, acc, Gone)

\* How much of the ring the bus has taken already.
Gap == IF dy.pc = "used" THEN Taking ELSE 0

LEMMA RingFramesValue ==
    ASSUME TypeInv
    PROVE  /\ RingFrames \in Seq(Frames) /\ Len(RingFrames) = Fill - Gap
           /\ Fill \in Nat /\ Gap \in 0 .. Fill
           /\ \A i \in 1 .. Fill - Gap : RingFrames[i] = ring.buf[Slot(ring.used, Gap + i)]
<1>1. ring.avail \in Idx /\ ring.used \in Idx /\ dy.end \in Idx /\ Fill \in 0 .. RingSize - 1
  BY PendingValue DEF TypeInv, RingT, DyT, RingInv
<1>2. dy.pc = "used" => Taking \in Idx /\ Taking \in 0 .. Fill
  <2>1. Taking \in Idx
    BY <1>1, AheadRange DEF Taking
  <2> QED
    BY <1>1, <2>1 DEF TypeInv, RingInv, InBurst, Idx
<1> DEFINE from == IF dy.pc = "used" THEN dy.end ELSE ring.used
           n == Fill - Gap
<1>3. Gap \in 0 .. Fill /\ n \in Nat
  BY <1>1, <1>2 DEF Gap
<1>4. (ring.avail - from) % IdxMod = n
  <2>1. (ring.avail - from) % IdxMod = Ahead(ring.avail, from)
    BY <1>1, AheadRange
  <2>2. CASE dy.pc # "used"
    BY <1>1, <2>1, <2>2 DEF Gap, Fill
  <2>3. CASE dy.pc = "used"
    <3>1. Ahead(ring.avail, dy.end) = Fill - Taking
      BY <1>1, <1>2, <2>3, Sizes DEF Fill, Taking, Ahead, Idx
    <3> QED
      BY <2>1, <2>3, <3>1 DEF Gap
  <2> QED
    BY <2>2, <2>3
<1>5. \A i \in Int : Slot(from, i) = Slot(ring.used, Gap + i)
  <2>1. CASE dy.pc # "used"
    BY <2>1 DEF Gap
  <2>2. CASE dy.pc = "used"
    <3>1. dy.end = (ring.used + Taking) % IdxMod
      BY <1>1, AheadInverse DEF Taking
    <3>2. \A i \in Int : Slot(dy.end, i) = Slot(ring.used, Taking + i)
      BY <1>1, <1>2, <2>2, <3>1, SlotShift
    <3> QED
      BY <2>2, <3>2 DEF Gap
  <2> QED
    BY <2>1, <2>2
<1> HIDE DEF n
<1>6. RingFrames = [i \in 1 .. n |-> ring.buf[Slot(from, i)]]
  BY <1>4 DEF RingFrames, Slot
<1>7. \A i \in 1 .. n : Slot(from, i) = Slot(ring.used, Gap + i)
  BY <1>3, <1>5
<1>8. \A i \in 1 .. n : ring.buf[Slot(ring.used, Gap + i)] \in Frames
  <2>1. \A i \in 1 .. n : Gap + i \in 1 .. Fill
    BY <1>1, <1>3 DEF n
  <2> QED
    BY <2>1 DEF TypeInv, RingInv
<1> HIDE DEF from
<1>9. \A i \in 1 .. n : RingFrames[i] = ring.buf[Slot(ring.used, Gap + i)]
  BY <1>6, <1>7
<1>10. RingFrames \in Seq(Frames) /\ Len(RingFrames) = n
  <2>1. \A i \in 1 .. n : ring.buf[Slot(from, i)] \in Frames
    BY <1>7, <1>8
  <2> DEFINE v(i) == ring.buf[Slot(from, i)]
  <2>2. RingFrames = [i \in 1 .. n |-> v(i)] /\ \A i \in 1 .. n : v(i) \in Frames
    BY <1>6, <2>1
  <2> HIDE DEF v
  <2> QED
    BY <1>3, <2>2
<1> QED
  BY <1>1, <1>3, <1>9, <1>10 DEF n

RingFramesIs ==
  /\ RingFrames \in Seq(Frames) /\ Len(RingFrames) = Fill - Gap
  /\ \A i \in 1 .. Fill - Gap : RingFrames[i] = ring.buf[Slot(ring.used, Gap + i)]

LEMMA RingFramesAre == TypeInv => RingFramesIs
BY RingFramesValue DEF RingFramesIs

LEMMA PathTypes ==
    ASSUME TypeInv
    PROVE  /\ Way \in Seq(Frames) /\ Queues \in [Acs -> Seq(Frames)]
           /\ acc \in [Acs -> 0 .. MaxFrames] /\ Gone \in SUBSET Frames
           /\ \A a \in Acs : /\ Queues[a] = cache[a] \o txq[a] /\ cache[a] \in Seq(Frames)
                             /\ txq[a] \in Seq(Frames)
<1>1. Way \in Seq(Frames)
  BY RingFramesValue DEF TypeInv, TxT, Way
<1>2. \A a \in Acs : cache[a] \in Seq(Frames) /\ txq[a] \in Seq(Frames) /\ Queues[a] = cache[a] \o txq[a]
  BY DEF TypeInv, QueueT, Queues, Queued
<1>3. Queues \in [Acs -> Seq(Frames)]
  <2>0. \A c, d \in Seq(Frames) : c \o d \in Seq(Frames)
    OBVIOUS
  <2>1. \A a \in Acs : cache[a] \o txq[a] \in Seq(Frames)
    BY <1>2, <2>0
  <2> QED
    BY <2>1 DEF Queues, Queued
<1> QED
  BY <1>1, <1>2, <1>3 DEF TypeInv, CountT, Gone

LEMMA InitOrder == Init => OrderInv
<1> SUFFICES ASSUME Init
             PROVE  OrderInv
  OBVIOUS
<1>1. TypeInv
  BY InitTypes
<1>2. Way = <<>>
  <2>1. Fill = 0 /\ Gap = 0
    BY Sizes DEF Init, Fill, Ahead, Gap, DyIdle
  <2>2. Len(RingFrames) = 0 /\ RingFrames \in Seq(Frames)
    BY <1>1, <2>1, RingFramesValue
  <2>3. tx.list = <<>>
    BY DEF Init, TxIdle
  <2> QED
    BY <2>2, <2>3 DEF Way
<1>3. \A a \in Acs : Queues[a] = <<>>
  BY DEF Init, Queues, Queued
<1>4. Gone = {} /\ \A a \in Acs : acc[a] = 0
  BY DEF Init, Gone
<1>5. \A f \in Frames : ~(f[2] <= acc[f[1]]) /\ Queues[f[1]] = <<>>
  BY <1>3, <1>4, FramePair, LimitAssumption
<1>6. 1 .. Len(<<>>) = {}
  OBVIOUS
<1>7. WayOrder(Way) /\ WayFirst(Way, Queues)
  BY <1>2, <1>6 DEF WayOrder, WayFirst
<1>8. QueueOrder(Queues) /\ QueueOwn(Queues)
  BY <1>3, <1>6 DEF QueueOrder, QueueOwn
<1>9. GoneBefore(acc, Gone)
  BY <1>4 DEF GoneBefore
<1>10. AllThere(Way, Queues, acc, Gone)
  BY <1>2, <1>5, <1>6 DEF AllThere, InWay, InQueue
<1> QED
  BY <1>7, <1>8, <1>9, <1>10 DEF OrderInv, Order

\* Steps that move no frame.
LEMMA OrderKept ==
    ASSUME OrderInv, txq' = txq, cache' = cache, acc' = acc, sent' = sent, lost' = lost, Way' = Way
    PROVE  OrderInv'
BY DEF OrderInv, Queues, Queued, Gone

LEMMA WayKept ==
    ASSUME ring' = ring, tx'.list = tx.list, dy' = dy \/ (dy.pc # "used" /\ dy'.pc # "used")
    PROVE  Way' = Way
BY DEF Way, RingFrames

LEMMA JoinAt ==
    ASSUME NEW A, NEW s \in Seq(A), NEW u \in Seq(A), NEW i \in 1 .. Len(u)
    PROVE  (s \o u)[Len(s) + i] = u[i]
  OBVIOUS

LEMMA JoinLen ==
    ASSUME NEW c \in Seq(Frames), NEW d \in Seq(Frames)
    PROVE  Len(c \o d) = Len(c) + Len(d) /\ Len(d) \in Nat
OBVIOUS

LEMMA JoinAppend ==
    ASSUME NEW c \in Seq(Frames), NEW d \in Seq(Frames), NEW x \in Frames
    PROVE  c \o Append(d, x) = Append(c \o d, x)
OBVIOUS

LEMMA Passed ==
    ASSUME NEW S, NEW R \in Seq(S), NEW L \in Seq(S), L # <<>>
    PROVE  Append(R, Head(L)) \o Tail(L) = R \o L
OBVIOUS

\* One category's turn: what it takes follows the frames under way, and what is dropped is
\* counted as lost.
LEMMA OrderAc ==
    ASSUME TypeInv, OrderInv, TxAc
    PROVE  OrderInv'
<1> DEFINE a == tx.ac
           q == Prepared(a)
<1>1. /\ a \in Acs /\ q \in Seq(Frames) /\ txq[a] \in Seq(Frames) /\ cache[a] \in Seq(Frames)
      /\ tx.list = <<>> /\ txq' = [txq EXCEPT ![a] = <<>>]
      /\ UNCHANGED <<ring, dy, acc, sent>>
  BY PreparedType DEF TypeInv, TxAc, QueueT, ListInv
<1>2. /\ Way \in Seq(Frames) /\ Queues \in [Acs -> Seq(Frames)] /\ acc \in [Acs -> 0 .. MaxFrames]
      /\ Gone \in SUBSET Frames /\ Queues[a] = cache[a] \o txq[a]
  BY <1>1, PathTypes
<1>3. RingFrames \in Seq(Frames) /\ Way = RingFrames /\ RingFrames' = RingFrames
  <2>1. RingFrames \in Seq(Frames)
    BY RingFramesValue
  <2>2. RingFrames \o <<>> = RingFrames
    BY <2>1
  <2>3. RingFrames' = RingFrames
    BY <1>1 DEF RingFrames
  <2> QED
    BY <1>1, <2>1, <2>2, <2>3 DEF Way
<1>4. \A c \in Seq(Frames) : cache' = [cache EXCEPT ![a] = c] => Queues' = [Queues EXCEPT ![a] = c]
  <2> SUFFICES ASSUME NEW c \in Seq(Frames), cache' = [cache EXCEPT ![a] = c]
               PROVE  Queues' = [Queues EXCEPT ![a] = c]
    OBVIOUS
  <2>1. cache'[a] = c /\ txq'[a] = <<>> /\ c \o <<>> = c
    BY <1>1 DEF TypeInv, QueueT
  <2>2. \A b \in Acs : b # a => cache'[b] = cache[b] /\ txq'[b] = txq[b]
    BY <1>1 DEF TypeInv, QueueT
  <2>3. \A b \in Acs : cache'[b] \o txq'[b] = IF b = a THEN c ELSE cache[b] \o txq[b]
    <3> SUFFICES ASSUME NEW b \in Acs
                 PROVE  cache'[b] \o txq'[b] = IF b = a THEN c ELSE cache[b] \o txq[b]
      OBVIOUS
    <3>1. CASE b = a
      BY <2>1, <3>1
    <3>2. CASE b # a
      <4>1. cache'[b] = cache[b] /\ txq'[b] = txq[b]
        BY <2>2, <3>2
      <4>2. (IF b = a THEN c ELSE cache[b] \o txq[b]) = cache[b] \o txq[b]
        BY <3>2
      <4>3. cache'[b] \o txq'[b] = cache[b] \o txq[b]
        BY <4>1
      <4> QED
        BY <4>2, <4>3
    <3> QED
      BY <3>1, <3>2
  <2> QED
    BY <2>3 DEF Queues, Queued
<1>5. Way' = RingFrames \o tx'.list
  BY <1>3 DEF Way
<1>6. CASE q = <<>> /\ cache' = [cache EXCEPT ![a] = <<>>]
            /\ lost' = lost \cup ToSet(cache[a] \o txq[a]) /\ tx' = [tx EXCEPT !.ac = @ + 1]
  <2>1. Queues' = [Queues EXCEPT ![a] = <<>>]
    <3>1. <<>> \in Seq(Frames)
      OBVIOUS
    <3> QED
      BY <1>4, <1>6, <3>1
  <2>2. Gone' = Gone \cup ToSet(Queues[a])
    BY <1>1, <1>2, <1>6 DEF Gone
  <2>3. Way' = Way
    BY <1>1, <1>3, <1>5, <1>6 DEF TypeInv, TxT, Way
  <2>4. Order(Way, Queues', acc, Gone')
    BY <1>1, <1>2, <2>1, <2>2, OrderDrop DEF OrderInv
  <2> QED
    BY <1>1, <2>3, <2>4 DEF OrderInv
<1>7. ASSUME q # <<>>, cache' = [cache EXCEPT ![a] = q], tx'.list = <<>>, lost' = lost
      PROVE  OrderInv'
  <2>1. q = Queues[a]
    BY <1>2, <1>7 DEF Prepared
  <2>2. Queues' = Queues
    <3>1. Queues' = [Queues EXCEPT ![a] = q]
      BY <1>1, <1>4, <1>7
    <3> QED
      BY <1>1, <1>2, <2>1, <3>1
  <2>3. Way' = Way /\ Gone' = Gone
    BY <1>1, <1>3, <1>5, <1>7 DEF Gone, Way
  <2> QED
    BY <1>1, <2>2, <2>3 DEF OrderInv
<1>8. ASSUME q # <<>>, lost' = lost \cup ToSet(Dropped(a)), NEW n \in Taken(a),
             cache' = [cache EXCEPT ![a] = SubSeq(q, n + Len(Dropped(a)) + 1, Len(q))],
             tx'.list = SubSeq(q, 1, n)
      PROVE  OrderInv'
  <2>1. n \in 0 .. Len(q) /\ (gone = "peer" => n = 0)
    BY <1>1, TakenValue DEF TypeInv
  <2>2. q = Queues[a]
    BY <1>2, <1>8 DEF Prepared
  <2>3. CASE Dropped(a) = <<>>
    <3>1. SubSeq(q, n + 1, Len(q)) \in Seq(Frames)
      BY <1>1, <2>1, SubSeqProperties
    <3>2. cache' = [cache EXCEPT ![a] = SubSeq(q, n + 1, Len(q))]
      <4>1. n + Len(<<>>) + 1 = n + 1
        BY <2>1
      <4> QED
        BY <1>8, <2>3, <4>1
    <3>3. Queues' = [Queues EXCEPT ![a] = SubSeq(Queues[a], n + 1, Len(Queues[a]))]
      BY <1>4, <2>2, <3>1, <3>2
    <3>4. Gone' = Gone
      <4>1. ToSet(<<>>) = {}
        BY DEF ToSet
      <4> QED
        BY <1>1, <1>8, <2>3, <4>1 DEF Gone
    <3>5. Way' = Way \o SubSeq(Queues[a], 1, n)
      BY <1>3, <1>5, <1>8, <2>2
    <3>6. Order(Way', Queues', acc, Gone)
      <4>1. n \in 0 .. Len(Queues[a])
        BY <2>1, <2>2
      <4> HIDE DEF a, q
      <4> QED
        BY <1>1, <1>2, <3>3, <3>5, <4>1, OrderTake DEF OrderInv
    <3> QED
      BY <1>1, <3>4, <3>6 DEF OrderInv
  <2>4. CASE Dropped(a) # <<>>
    <3>1. Dropped(a) = q /\ n = 0
      BY <2>1, <2>4 DEF Dropped
    <3>2. SubSeq(q, n + Len(q) + 1, Len(q)) = <<>> /\ SubSeq(q, 1, n) = <<>>
      <4>1. Len(q) \in Nat /\ n + Len(q) + 1 = Len(q) + 1
        BY <1>1, <3>1
      <4>2. SubSeq(q, Len(q) + 1, Len(q)) = <<>> /\ SubSeq(q, 1, 0) = <<>>
        BY <1>1, <4>1, SubSeqProperties
      <4> QED
        BY <3>1, <4>1, <4>2
    <3>3. Queues' = [Queues EXCEPT ![a] = <<>>]
      <4>1. <<>> \in Seq(Frames)
        OBVIOUS
      <4> QED
        BY <1>4, <1>8, <3>1, <3>2, <4>1
    <3>4. Gone' = Gone \cup ToSet(Queues[a])
      BY <1>1, <1>8, <2>2, <3>1 DEF Gone
    <3>5. Way' = Way
      <4>1. RingFrames \o <<>> = RingFrames
        BY <1>3
      <4> QED
        BY <1>3, <1>5, <1>8, <3>2, <4>1
    <3>6. Order(Way, Queues', acc, Gone')
      BY <1>1, <1>2, <3>3, <3>4, OrderDrop DEF OrderInv
    <3> QED
      BY <1>1, <3>5, <3>6 DEF OrderInv
  <2> QED
    BY <2>3, <2>4
<1>9. CASE q # <<>> /\ credit = 0 /\ cache' = [cache EXCEPT ![a] = q]
           /\ tx' = [tx EXCEPT !.pc = "exit"] /\ lost' = lost
  <2>1. tx'.list = <<>>
    BY <1>1, <1>9 DEF TypeInv, TxT
  <2> QED
    BY <1>7, <1>9, <2>1
<1>10. CASE q # <<>> /\ credit # 0 /\ lost' = lost \cup ToSet(Dropped(a))
            /\ \E n \in Taken(a) :
                  /\ cache' = [cache EXCEPT ![a] = SubSeq(q, n + Len(Dropped(a)) + 1, Len(q))]
                  /\ tx' = [tx EXCEPT !.pc = IF n = 0 THEN "ac" ELSE "put",
                                      !.ac = IF n = 0 THEN @ + 1 ELSE @,
                                      !.list = SubSeq(q, 1, n),
                                      !.pend = PendingQlen(q, n), !.cred = credit - n]
  <2>1. PICK n \in Taken(a) :
                  /\ cache' = [cache EXCEPT ![a] = SubSeq(q, n + Len(Dropped(a)) + 1, Len(q))]
                  /\ tx' = [tx EXCEPT !.pc = IF n = 0 THEN "ac" ELSE "put",
                                      !.ac = IF n = 0 THEN @ + 1 ELSE @,
                                      !.list = SubSeq(q, 1, n),
                                      !.pend = PendingQlen(q, n), !.cred = credit - n]
    BY <1>10
  <2> HIDE DEF q
  <2>2. tx'.list = SubSeq(q, 1, n)
    BY <2>1 DEF TypeInv, TxT
  <2> QED
    BY <1>8, <1>10, <2>1, <2>2
<1> QED
  BY <1>6, <1>9, <1>10 DEF TxAc

\* skw_vring_set moves the head of the list behind the buffers of the ring.
LEMMA OrderPut ==
    ASSUME TypeInv, OrderInv, TxPut
    PROVE  OrderInv'
<1>1. /\ Head(tx.list) \in Frames /\ tx.list \in Seq(Frames) /\ tx.list # <<>>
      /\ Len(tx.list) \in Nat \ {0} /\ tx'.list = Tail(tx.list)
      /\ UNCHANGED <<txq, cache, acc, sent, lost, dy>>
  BY DEF TypeInv, TxPut, TxT
<1>2. ~Full
  <2>1. Pending = Fill /\ Fill \in Nat
    BY PendingValue DEF TypeInv, RingT, RingInv
  <2> QED
    BY <1>1, <2>1, Sizes DEF Full, TypeInv, ListInv, TxPut
<1>3. /\ ring'.used = ring.used /\ Fill' = Fill + 1
      /\ \A i \in 1 .. Fill : ring'.buf[Slot(ring.used, i)] = ring.buf[Slot(ring.used, i)]
      /\ ring'.buf[Slot(ring.used, Fill + 1)] = Head(tx.list)
  <2>1. ring' = [ring EXCEPT !.buf[ring.avail % RingSize] = Head(tx.list), !.avail = (@ + 1) % IdxMod]
    BY <1>2 DEF TxPut
  <2> QED
    BY <1>1, <1>2, <2>1, PutRing DEF TypeInv
<1>4. Gap' = Gap
  BY <1>1, <1>3 DEF Gap, Taking
<1>5. TypeInv'
  BY StepTypes DEF Next, TxStep
<1>6. /\ RingFrames \in Seq(Frames) /\ Len(RingFrames) = Fill - Gap /\ Fill \in Nat /\ Gap \in 0 .. Fill
      /\ \A i \in 1 .. Fill - Gap : RingFrames[i] = ring.buf[Slot(ring.used, Gap + i)]
  BY RingFramesValue
<1>7. /\ RingFrames' \in Seq(Frames) /\ Len(RingFrames') = Fill + 1 - Gap
      /\ \A i \in 1 .. Fill + 1 - Gap : RingFrames'[i] = ring'.buf[Slot(ring.used, Gap + i)]
  <2>1. /\ RingFrames' \in Seq(Frames) /\ Len(RingFrames') = Fill' - Gap'
        /\ \A i \in 1 .. Fill' - Gap' : RingFrames'[i] = ring'.buf[Slot(ring'.used, Gap' + i)]
    <3>1. RingFramesIs'
      BY <1>5, RingFramesAre, PTL
    <3> QED
      BY <3>1 DEF RingFramesIs
  <2>a. Fill' = Fill + 1 /\ ring'.used = ring.used
    BY <1>3
  <2>b. Fill' - Gap' = (Fill + 1) - Gap
    BY <1>4, <2>a
  <2>2. Fill' - Gap' = Fill + 1 - Gap /\ ring'.used = ring.used
    BY <1>6, <2>a, <2>b
  <2>3. \A i \in 1 .. Fill + 1 - Gap : RingFrames'[i] = ring'.buf[Slot(ring.used, Gap + i)]
    BY <1>4, <2>1, <2>2
  <2> QED
    BY <2>1, <2>2, <2>3
<1>8. RingFrames' = Append(RingFrames, Head(tx.list))
  <2> DEFINE n == Fill - Gap
             h == Head(tx.list)
             R == RingFrames
             S == RingFrames'
  <2>1. n \in Nat /\ R \in Seq(Frames) /\ S \in Seq(Frames) /\ Len(R) = n /\ Len(S) = n + 1 /\ h \in Frames
    BY <1>1, <1>6, <1>7
  <2>2. \A i \in 1 .. n : S[i] = R[i]
    <3> SUFFICES ASSUME NEW i \in 1 .. n
                 PROVE  S[i] = R[i]
      OBVIOUS
    <3>1. Gap + i \in 1 .. Fill /\ i \in 1 .. Fill + 1 - Gap
      BY <1>6
    <3> QED
      BY <1>3, <1>6, <1>7, <3>1
  <2>3. S[n + 1] = h
    <3>1. n + 1 \in 1 .. Fill + 1 - Gap /\ Gap + (n + 1) = Fill + 1
      BY <1>6
    <3> QED
      BY <1>3, <1>7, <3>1
  <2> HIDE DEF n, h, R, S
  <2>4. Append(R, h) \in Seq(Frames) /\ Len(Append(R, h)) = n + 1
        /\ \A i \in 1 .. n : Append(R, h)[i] = R[i] /\ Append(R, h)[n + 1] = h
    BY <2>1
  <2>5. \A i \in 1 .. n + 1 : S[i] = Append(R, h)[i]
    <3>1. \A i \in 1 .. n + 1 : i \in 1 .. n \/ i = n + 1
      BY <2>1
    <3>2. Append(R, h)[n + 1] = h
      BY <2>1
    <3> QED
      BY <2>2, <2>3, <2>4, <3>1, <3>2
  <2>6. S = Append(R, h)
    BY <2>1, <2>4, <2>5, SeqEqual
  <2> QED
    BY <2>6 DEF S, R, h
<1>9. Way' = Way
  <2>1. Way' = Append(RingFrames, Head(tx.list)) \o Tail(tx.list)
    BY <1>1, <1>8 DEF Way
  <2> QED
    BY <1>1, <1>6, <2>1, Passed DEF Way
<1> QED
  BY <1>1, <1>9, OrderKept

\* The bus takes, or loses, the burst: the first frames under way.
LEMMA OrderDma ==
    ASSUME TypeInv, OrderInv, DyDma
    PROVE  OrderInv'
<1>1. /\ UNCHANGED <<ring, tx, txq, cache, acc>> /\ dy.pc = "dma" /\ dy'.pc = "used" /\ dy'.end = dy.end
      /\ Gone' = Gone \cup ToSet(Burst)
  BY DEF TypeInv, DyT, DyDma, Gone
<1>2. /\ Burst \in Seq(Frames) /\ Len(Burst) = Taking /\ Taking \in 0 .. Fill
      /\ \A i \in 1 .. Taking : Burst[i] = ring.buf[Slot(ring.used, i)]
  BY <1>1, BurstValue DEF TypeInv, InBurst
<1>3. TypeInv'
  BY StepTypes DEF Next, DyStep
<1>4. Gap = 0 /\ Gap' = Taking /\ Fill' = Fill
  BY <1>1 DEF Gap, Taking, Fill
<1>5. /\ RingFrames \in Seq(Frames) /\ Len(RingFrames) = Fill /\ Fill \in Nat
      /\ \A i \in 1 .. Fill : RingFrames[i] = ring.buf[Slot(ring.used, i)]
  <2>1. /\ RingFrames \in Seq(Frames) /\ Len(RingFrames) = Fill - 0 /\ Fill \in Nat
        /\ \A i \in 1 .. Fill - 0 : RingFrames[i] = ring.buf[Slot(ring.used, 0 + i)]
    BY <1>4, RingFramesValue
  <2>2. Fill - 0 = Fill /\ \A i \in 1 .. Fill : 0 + i = i
    BY <2>1
  <2> QED
    BY <2>1, <2>2
<1>6. /\ RingFrames' \in Seq(Frames) /\ Len(RingFrames') = Fill - Taking
      /\ \A i \in 1 .. Fill - Taking : RingFrames'[i] = ring.buf[Slot(ring.used, Taking + i)]
  <2>1. /\ RingFrames' \in Seq(Frames) /\ Len(RingFrames') = Fill' - Gap'
        /\ \A i \in 1 .. Fill' - Gap' : RingFrames'[i] = ring'.buf[Slot(ring'.used, Gap' + i)]
    <3>1. RingFramesIs'
      BY <1>3, RingFramesAre, PTL
    <3> QED
      BY <3>1 DEF RingFramesIs
  <2> QED
    BY <1>1, <1>4, <2>1
<1> DEFINE R == RingFrames
           S == RingFrames'
           L == tx.list
           t == Taking
           n == Fill
<1>7. /\ R \in Seq(Frames) /\ S \in Seq(Frames) /\ L \in Seq(Frames) /\ t \in 0 .. n /\ n \in Nat
      /\ Len(R) = n /\ Len(S) = n - t /\ Way = R \o L /\ Way' = S \o L
  BY <1>1, <1>2, <1>5, <1>6 DEF TypeInv, TxT, Way
<1>8. \A i \in 1 .. n - t : S[i] = R[t + i]
  <2>1. \A i \in 1 .. n - t : t + i \in 1 .. n
    BY <1>2, <1>5
  <2> QED
    BY <1>5, <1>6, <2>1
<1>9. \A f : f \in Gone' <=> f \in Gone \/ \E i \in 1 .. t : R[i] = f
  <2>1. \A f : f \in ToSet(Burst) <=> \E i \in 1 .. t : Burst[i] = f
    BY <1>2 DEF ToSet
  <2>2. \A i \in 1 .. t : Burst[i] = R[i]
    <3>1. \A i \in 1 .. t : i \in 1 .. n
      BY <1>2, <1>5
    <3> QED
      BY <1>2, <1>5, <3>1
  <2> QED
    BY <1>1, <2>1, <2>2
<1> HIDE DEF R, S, L, t, n
<1>10. Len(Way) = n + Len(L) /\ t \in 0 .. Len(Way) /\ Len(Way') = Len(Way) - t /\ Len(L) \in Nat
  <2>1. Len(R \o L) = Len(R) + Len(L) /\ Len(S \o L) = Len(S) + Len(L) /\ Len(L) \in Nat
    BY <1>7, JoinLen
  <2>2. Len(Way) = n + Len(L) /\ Len(Way') = (n - t) + Len(L)
    BY <1>7, <2>1
  <2> QED
    BY <1>7, <2>1, <2>2
<1>11. \A i \in 1 .. Len(Way) - t : Way'[i] = Way[t + i]
  <2> SUFFICES ASSUME NEW i \in 1 .. Len(Way) - t
               PROVE  Way'[i] = Way[t + i]
    OBVIOUS
  <2>1. CASE i <= n - t
    <3>1. i \in 1 .. n - t /\ t + i \in 1 .. n
      BY <1>7, <1>10, <2>1
    <3>2. Way'[i] = S[i] /\ Way[t + i] = R[t + i]
      BY <1>7, <3>1
    <3> QED
      BY <1>8, <3>1, <3>2
  <2>2. CASE i > n - t
    <3>0. i - (n - t) \in 1 .. Len(L) /\ i = (n - t) + (i - (n - t))
      BY <1>7, <1>10, <2>2
    <3>1. PICK x \in 1 .. Len(L) : i = (n - t) + x
      BY <3>0
    <3>2. t + i = n + x
      BY <1>7, <3>1
    <3>3. (S \o L)[(n - t) + x] = L[x] /\ (R \o L)[n + x] = L[x]
      <4>1. S \in Seq(Frames) /\ R \in Seq(Frames) /\ L \in Seq(Frames) /\ Len(S) = n - t /\ Len(R) = n
        BY <1>7
      <4>2. (S \o L)[Len(S) + x] = L[x]
        BY <4>1, JoinAt
      <4>3. (R \o L)[Len(R) + x] = L[x]
        BY <4>1, JoinAt
      <4> QED
        BY <4>1, <4>2, <4>3
    <3>4. Way = R \o L /\ Way' = S \o L
      BY <1>7
    <3>5. Way'[i] = L[x]
      BY <3>1, <3>3, <3>4
    <3>6. Way[t + i] = L[x]
      BY <3>2, <3>3, <3>4
    <3> QED
      BY <3>5, <3>6
  <2> QED
    BY <1>7, <1>10, <2>1, <2>2
<1>12. \A f : f \in Gone' <=> f \in Gone \/ \E i \in 1 .. t : Way[i] = f
  <2>1. \A i \in 1 .. t : Way[i] = R[i]
    <3>1. \A i \in 1 .. t : i \in 1 .. n
      BY <1>7
    <3> QED
      BY <1>7, <3>1
  <2> QED
    BY <1>9, <2>1
<1>13. Order(Way', Queues, acc, Gone')
  <2>1. /\ Way \in Seq(Frames) /\ Queues \in [Acs -> Seq(Frames)]
        /\ acc \in [Acs -> 0 .. MaxFrames] /\ Gone \in SUBSET Frames
    BY PathTypes
  <2>2. Order(Way, Queues, acc, Gone)
    BY DEF OrderInv
  <2> DEFINE W2 == Way'
             G2 == Gone'
  <2>3. Len(W2) = Len(Way) - t /\ (\A i \in 1 .. Len(Way) - t : W2[i] = Way[t + i]) /\ t \in 0 .. Len(Way)
        /\ G2 = Gone \cup {Way[i] : i \in 1 .. t}
    BY <1>10, <1>11, <1>12
  <2> HIDE DEF W2, G2
  <2>4. Order(W2, Queues, acc, G2)
    BY <2>1, <2>2, <2>3, OrderBurst
  <2> QED
    BY <2>4 DEF W2, G2
<1>14. Queues' = Queues /\ acc' = acc
  BY <1>1 DEF Queues, Queued
<1> QED
  BY <1>13, <1>14 DEF OrderInv

LEMMA StepOrder == TypeInv /\ OrderInv /\ [Next]_vars => OrderInv'
<1> SUFFICES ASSUME TypeInv, OrderInv, [Next]_vars
             PROVE  OrderInv'
  OBVIOUS
<1>1. ASSUME NEW a \in Acs, XmitQueue(a)
      PROVE  OrderInv'
  <2>1. /\ txq' = [txq EXCEPT ![a] = Append(txq[a], <<a, acc[a] + 1>>)]
        /\ acc' = [acc EXCEPT ![a] = acc[a] + 1] /\ acc[a] < MaxFrames
        /\ UNCHANGED <<cache, ring, tx, dy, sent, lost>>
    BY <1>1 DEF XmitQueue
  <2>2. /\ Way \in Seq(Frames) /\ Queues \in [Acs -> Seq(Frames)] /\ acc \in [Acs -> 0 .. MaxFrames]
        /\ Gone \in SUBSET Frames
        /\ \A b \in Acs : Queues[b] = cache[b] \o txq[b] /\ cache[b] \in Seq(Frames) /\ txq[b] \in Seq(Frames)
    BY PathTypes
  <2> DEFINE g == <<a, acc[a] + 1>>
  <2>3. g \in Frames
    <3>1. acc[a] + 1 \in 1 .. MaxFrames
      BY <2>1, <2>2, LimitAssumption
    <3> QED
      BY <3>1, FramePair
  <2> HIDE DEF g
  <2>4. Queues' = [Queues EXCEPT ![a] = Append(Queues[a], g)]
    <3>1. txq' = [txq EXCEPT ![a] = Append(txq[a], g)]
      BY <2>1 DEF g
    <3>2. \A b \in Acs : b # a => txq'[b] = txq[b]
      BY <3>1 DEF TypeInv, QueueT
    <3>3. txq'[a] = Append(txq[a], g)
      BY <3>1 DEF TypeInv, QueueT
    <3>4. cache[a] \o Append(txq[a], g) = Append(cache[a] \o txq[a], g)
      <4>1. cache[a] \in Seq(Frames) /\ txq[a] \in Seq(Frames)
        BY <2>2
      <4> QED
        BY <2>3, <4>1, JoinAppend
    <3>5. \A b \in Acs : cache'[b] \o txq'[b] = IF b = a THEN Append(Queues[a], g) ELSE Queues[b]
      <4> SUFFICES ASSUME NEW b \in Acs
                   PROVE  cache'[b] \o txq'[b] = IF b = a THEN Append(Queues[a], g) ELSE Queues[b]
        OBVIOUS
      <4>1. CASE b = a
        BY <2>1, <2>2, <3>3, <3>4, <4>1
      <4>2. CASE b # a
        <5>1. txq'[b] = txq[b] /\ cache'[b] = cache[b]
          BY <2>1, <3>2, <4>2
        <5> QED
          BY <2>2, <4>2, <5>1
      <4> QED
        BY <4>1, <4>2
    <3>6. Queues' = [b \in Acs |-> cache'[b] \o txq'[b]]
      BY DEF Queues, Queued
    <3> QED
      BY <2>2, <3>5, <3>6
  <2>5. Order(Way, Queues', acc', Gone)
    BY <2>1, <2>2, <2>4, OrderAccept DEF OrderInv, g
  <2>6. Way' = Way /\ Gone' = Gone
    BY <2>1, WayKept DEF Gone
  <2> QED
    BY <2>5, <2>6 DEF OrderInv
<1>2. CASE TxAc
  BY <1>2, OrderAc
<1>3. CASE TxPut
  BY <1>3, OrderPut
<1>4. CASE DyDma
  BY <1>4, OrderDma
<1>5. CASE DyUsed
  <2>1. /\ UNCHANGED <<txq, cache, acc, sent, lost, tx>> /\ dy.pc = "used" /\ dy'.pc # "used"
        /\ ring'.used = dy.end /\ ring'.avail = ring.avail /\ ring'.buf = ring.buf
    BY <1>5 DEF DyUsed, TypeInv, RingT, DyT
  <2>2. RingFrames' = RingFrames
    BY <2>1 DEF RingFrames
  <2> QED
    BY <2>1, <2>2, OrderKept DEF Way
<1>6. CASE TxStart \/ TxCheck \/ TxAcsDone \/ TxKick \/ TxExit
  <2>1. UNCHANGED <<txq, cache, acc, sent, lost, dy, ring>>
    BY <1>6 DEF TxStart, TxCheck, TxAcsDone, TxKick, TxExit
  <2>2. tx.list = <<>> /\ tx'.list = <<>>
    <3>1. tx.list = <<>>
      BY <1>6 DEF TxStart, TxCheck, TxAcsDone, TxKick, TxExit, TypeInv, ListInv
    <3>2. TypeInv'
      BY StepTypes
    <3>3. CASE TxStart \/ TxCheck \/ TxExit
      <4>1. \/ tx' = TxIdle \/ tx' = [TxIdle EXCEPT !.pc = "check"]
            \/ tx' = [tx EXCEPT !.pc = "ac", !.ac = 1] \/ tx' = [tx EXCEPT !.pc = "check"]
        BY <3>3 DEF TxStart, TxCheck, TxExit
      <4>2. CASE tx' = TxIdle \/ tx' = [TxIdle EXCEPT !.pc = "check"]
        BY <3>1, <4>2, TxStarts DEF TxIdle
      <4>3. CASE tx' = [tx EXCEPT !.pc = "ac", !.ac = 1] \/ tx' = [tx EXCEPT !.pc = "check"]
        BY <3>1, <4>3 DEF TypeInv, TxT
      <4> QED
        BY <3>1, <4>1, <4>2, <4>3
    <3>4. CASE TxAcsDone \/ TxKick
      BY <3>1, <3>4 DEF TxAcsDone, TxKick, TypeInv, TxT
    <3> QED
      BY <1>6, <3>1, <3>3, <3>4
  <2> QED
    BY <2>1, <2>2, WayKept, OrderKept
<1>7. CASE DyStart \/ DyCredit \/ DyWrite \/ DySub
  <2>1. UNCHANGED <<txq, cache, acc, sent, lost, tx, ring>> /\ dy.pc # "used"
    BY <1>7 DEF DyStart, DyCredit, DyWrite, DySub
  <2>2. dy'.pc # "used"
    <3>1. \/ dy' = [DyIdle EXCEPT !.pc = "credit"] \/ dy' = DyIdle
          \/ dy' = [DyIdle EXCEPT !.pc = "write", !.credit = credit]
          \/ dy' = [dy EXCEPT !.pc = "credit"]
          \/ DyWrite /\ Pending # 0
      BY <1>7 DEF DyStart, DyCredit, DyWrite, DySub
    <3>2. CASE dy' = [dy EXCEPT !.pc = "credit"]
      BY <3>2 DEF TypeInv, DyT
    <3>3. CASE DyWrite /\ Pending # 0
      BY <3>3, WriteBurst DEF TypeInv, DyT
    <3>4. CASE \/ dy' = [DyIdle EXCEPT !.pc = "credit"] \/ dy' = DyIdle
               \/ dy' = [DyIdle EXCEPT !.pc = "write", !.credit = credit]
      BY <3>4, DyStarts
    <3> QED
      BY <3>1, <3>2, <3>3, <3>4
  <2> QED
    BY <2>1, <2>2, WayKept, OrderKept
<1>8. CASE XmitStep \/ AddCredit \/ CreditReset \/ ThermalTrip \/ ThermalClear \/ Reconnect
           \/ (\E g \in {"peer", "iface"} : Disconnect(g)) \/ UNCHANGED vars
  <2>1. UNCHANGED <<txq, cache, acc, sent, lost, tx, ring, dy>>
    BY <1>8 DEF XmitStep, XmitMeasure, XmitStop, AddCredit, CreditReset, ThermalTrip, ThermalClear,
                Reconnect, Disconnect, vars
  <2> QED
    BY <2>1, WayKept, OrderKept
<1> QED
  BY <1>1, <1>2, <1>3, <1>4, <1>5, <1>6, <1>7, <1>8 DEF Next, TxStep, DyStep

\* What the order of the pieces says of the whole.
LEMMA OrderMeans == TypeInv /\ OrderInv => NoFrameLost
<1> SUFFICES ASSUME TypeInv, OrderInv, NEW a \in Acs
             PROVE  LET p    == Way \o Queued(a)
                        mine == {i \in 1 .. Len(p) : p[i][1] = a}
                    IN  /\ {p[i] : i \in mine} = ({a} \X (1 .. acc[a])) \ (sent \cup lost)
                        /\ \A i, j \in mine : i < j => p[i][2] < p[j][2]
                        /\ \A i \in 1 .. Len(Queued(a)) : Queued(a)[i][1] = a
  BY DEF NoFrameLost
<1> DEFINE w == Way
           q == Queued(a)
           p == w \o q
           m == Len(w)
           n == Len(q)
           mine == {i \in 1 .. Len(p) : p[i][1] = a}
<1>1. /\ w \in Seq(Frames) /\ q \in Seq(Frames) /\ m \in Nat /\ n \in Nat /\ q = Queues[a]
      /\ acc[a] \in 0 .. MaxFrames
  <2>1. w \in Seq(Frames) /\ Queues \in [Acs -> Seq(Frames)] /\ acc \in [Acs -> 0 .. MaxFrames]
    BY PathTypes
  <2>2. q = Queues[a]
    BY DEF Queues
  <2>3. q \in Seq(Frames)
    BY <2>1, <2>2
  <2> HIDE DEF w, q
  <2> QED
    BY <2>1, <2>2, <2>3
<1>2. /\ p \in Seq(Frames) /\ Len(p) = m + n
      /\ \A i \in 1 .. m : p[i] = w[i]
      /\ \A i \in 1 .. n : p[m + i] = q[i]
  BY <1>1
<1>3. \A i, j \in 1 .. m : i < j /\ w[i][1] = w[j][1] => w[i][2] < w[j][2]
  BY DEF OrderInv, Order, WayOrder
<1>4. \A i, j \in 1 .. n : i < j => q[i][2] < q[j][2]
  BY <1>1 DEF OrderInv, Order, QueueOrder
<1>5. \A i \in 1 .. m, j \in 1 .. n : w[i][1] = a => w[i][2] < q[j][2]
  BY <1>1 DEF OrderInv, Order, WayFirst
<1>6. \A j \in 1 .. n : q[j][1] = a
  BY <1>1 DEF OrderInv, Order, QueueOwn
<1>7. \A f \in Frames : f[1] = a =>
        (f \notin Gone /\ f[2] <= acc[a] <=> (\E i \in 1 .. m : w[i] = f) \/ (\E j \in 1 .. n : q[j] = f))
  BY <1>1 DEF OrderInv, Order, AllThere, InWay, InQueue
<1> HIDE DEF w, q, p, m, n
<1>8. \A i \in 1 .. m + n : i \in 1 .. m \/ \E x \in 1 .. n : i = m + x
  <2>1. \A i \in 1 .. m + n : i \in 1 .. m \/ (i - m \in 1 .. n /\ i = m + (i - m))
    BY <1>1
  <2> QED
    BY <2>1
<1>9. \A i \in 1 .. m : i \in 1 .. m + n
  BY <1>1
<1>10. \A i \in 1 .. n : m + i \in 1 .. m + n
  BY <1>1
<1>11. \A f : f \in {p[i] : i \in mine} <=> f \in Frames /\ f[1] = a /\
              ((\E i \in 1 .. m : w[i] = f) \/ (\E j \in 1 .. n : q[j] = f))
  <2>1. \A f : f \in {p[i] : i \in mine} <=> \E i \in 1 .. m + n : p[i] = f /\ f[1] = a
    BY <1>2
  <2>2. \A f : (\E i \in 1 .. m + n : p[i] = f) <=> (\E i \in 1 .. m : w[i] = f) \/ (\E j \in 1 .. n : q[j] = f)
    BY <1>2, <1>8, <1>9, <1>10
  <2>3. \A i \in 1 .. m + n : p[i] \in Frames
    BY <1>2
  <2> QED
    BY <2>1, <2>2, <2>3
<1>12. \A f : f \in ({a} \X (1 .. acc[a])) <=> f \in Frames /\ f[1] = a /\ f[2] <= acc[a]
  <2>1. \A f \in {a} \X (1 .. acc[a]) : f \in Frames /\ f[1] = a /\ f[2] <= acc[a]
    BY <1>1, LimitAssumption DEF Frames
  <2>2. \A f \in Frames : f[1] = a /\ f[2] <= acc[a] => f \in {a} \X (1 .. acc[a])
    BY <1>1, FramePair, LimitAssumption DEF Frames
  <2> QED
    BY <2>1, <2>2
<1>13. {p[i] : i \in mine} = ({a} \X (1 .. acc[a])) \ (sent \cup lost)
  BY <1>7, <1>11, <1>12 DEF Gone
<1>14. \A i, j \in mine : i < j => p[i][2] < p[j][2]
  <2> SUFFICES ASSUME NEW i \in 1 .. m + n, NEW j \in 1 .. m + n, p[i][1] = a, p[j][1] = a, i < j
               PROVE  p[i][2] < p[j][2]
    BY <1>2
  <2>1. CASE j \in 1 .. m
    <3>1. i \in 1 .. m
      BY <1>1, <2>1
    <3> QED
      BY <1>2, <1>3, <2>1, <3>1
  <2>2. ASSUME NEW x \in 1 .. n, j = m + x, i \in 1 .. m
        PROVE  p[i][2] < p[j][2]
    BY <1>2, <1>5, <2>2
  <2>3. ASSUME NEW x \in 1 .. n, j = m + x, NEW y \in 1 .. n, i = m + y
        PROVE  p[i][2] < p[j][2]
    <3>1. y < x
      BY <1>1, <2>3
    <3> QED
      BY <1>2, <1>4, <2>3, <3>1
  <2> QED
    BY <1>8, <2>1, <2>2, <2>3
<1> QED
  BY <1>6, <1>13, <1>14 DEF p, w, q, n

\* No frame is lost, duplicated or overtaken between skw_ndo_xmit and the bus, whatever the
\* number of categories, the size of the ring, the index arithmetic that wraps around it, the
\* credit and the thermal stops, disconnections, refused transfers and credit resets.
THEOREM FramesKeepOrder == Spec => []NoFrameLost
BY InitTypes, StepTypes, InitOrder, StepOrder, OrderMeans, PTL DEF Spec

-----------------------------------------------------------------------------
(* The address register.  RegInv says where every thread is, who holds the *)
(* mutex, which address each thread counts on and what its accesses have   *)
(* left in the cells so far.                                               *)

AccIs(t, i, op, at) == Len(Reg!Jobs[job[t]]) >= i /\ Reg!Jobs[job[t]][i] = Reg!Access(op, at)
Pcs == {"call", "addr", "lock", "xfer", "done"}
ThRec == [i : 1 .. 6, pc : Pcs, tries : 0 .. 1, val : Nat, res : {"none", "ok", "failed"}]
Regs == {"dram", "iram", "flag", "pin", "svc", "power", "data", "nowhere"}
JobNames == {"boot", "pins", "dump", "data"}

RegTypes ==
    /\ job \in [RegThreads -> JobNames] /\ th \in [RegThreads -> ThRec]
    /\ areg \in Regs /\ mutex \in RegThreads \cup {Reg!NoOne}
    /\ cell \in [Reg!Cells -> [of : Reg!Cells, n : Nat]]
    /\ host \in [noted : BOOLEAN, off : BOOLEAN]
    /\ r_odd \in SUBSET Reg!Flags /\ faults \in 0 .. RegFaults
    /\ \A t, u \in RegThreads : t # u /\ job[t] = job[u] => job[t] \in {"dump", "data"}

JobLen(j) == CASE j = "boot" -> 3 [] j = "data" -> 1 [] OTHER -> 5

\* where a thread may be
Placed(t) ==
    /\ th[t].i <= JobLen(job[t]) + 1
    /\ th[t].pc = "done" <=> th[t].i = JobLen(job[t]) + 1
    /\ th[t].res = "none" <=> th[t].pc # "done"
    /\ th[t].pc \in {"addr", "lock", "xfer"} /\ Reg!Acc(t).op = "b" => th[t].pc = "xfer"
    /\ th[t].pc = "addr" => Reg!Acc(t).op # "p"

\* who holds the mutex
Holding(t) == Reg!Live(t) /\ Reg!Acc(t).op # "b" /\ (th[t].pc = "xfer" \/ (th[t].pc = "addr" /\ Reg!Acc(t).op = "w"))
HolderInv == \A t \in RegThreads : Holding(t) <=> mutex = t

\* the address register is the one of every thread between its address and its data
AddrInv == "moved" \notin r_odd => \A t \in Reg!Exposed : areg = Reg!Acc(t).at

\* what the cells hold when a thread is at access i of job j, or ended with res
JobAt(j, i, res, c, o) ==
    /\ j = "boot" /\ i \in {1, 2} => c["setup"].n = 0
    /\ j = "boot" /\ res = "ok" => c["setup"].n = 1
    /\ j = "boot" /\ i \in {2, 3} /\ "moved" \notin o => c["dram"].n = RegChunks
    /\ j = "boot" /\ i = 3 /\ "moved" \notin o => c["iram"].n = RegChunks
    /\ j = "pins" /\ i \in {4, 5} /\ "moved" \notin o => c["pin"].n = 1
    /\ j = "pins" /\ res = "ok" /\ "moved" \notin o => c["flag"].n = 0 /\ c["pin"].n = 1
    /\ j = "dump" /\ "moved" \notin o /\ res = "ok" => c["power"].n = 1 \/ "unpowered" \in o
    /\ j = "data" /\ res = "ok" => c["fifo"].n = 1 \/ "unsent" \in o

JobsAt == \A t \in RegThreads : JobAt(job[t], th[t].i, th[t].res, cell, r_odd)

CellsAt(c, o) ==
    /\ c["setup"].n \in {0, 1}
    /\ "moved" \notin o => (\A x \in Reg!Cells : c[x].of = x) /\ c["power"].n \in {0, 1}
    /\ "moved" \notin o /\ c["setup"].n = 1 => c["dram"].n = RegChunks /\ c["iram"].n = RegChunks

RegInv == RegTypes /\ (\A t \in RegThreads : Placed(t)) /\ HolderInv /\ AddrInv /\ JobsAt /\ CellsAt(cell, r_odd)
-----------------------------------------------------------------------------
(* The jobs *)

LEMMA RegSizes == RegChunks \in Nat \ {0} /\ RegFaults \in Nat /\ Reg!NoOne \notin RegThreads
  BY RegAssumption DEF Reg!NoOne

\* x is s and t put together
Joint(x, s, t, S) ==
    /\ x \in Seq(S) /\ Len(x) = Len(s) + Len(t)
    /\ \A i \in 1 .. Len(s) : x[i] = s[i]
    /\ \A i \in 1 .. Len(t) : x[Len(s) + i] = t[i]

LEMMA Joined ==
  ASSUME NEW S, NEW s \in Seq(S), NEW t \in Seq(S)
  PROVE  Joint(s \o t, s, t, S)
BY DEF Joint

\* the length of a job, and its accesses
LEMMA PinsAre ==
  /\ Len(Reg!PinConfig) = 5
  /\ Reg!PinConfig[1] = Reg!Access("r", "flag") /\ Reg!PinConfig[2] = Reg!Access("w", "flag") /\ Reg!PinConfig[3] = Reg!Access("w", "pin")
  /\ Reg!PinConfig[4] = Reg!Access("r", "flag") /\ Reg!PinConfig[5] = Reg!Access("w", "flag")
<1> DEFINE S == {Reg!Access("r", "flag"), Reg!Access("w", "flag"), Reg!Access("w", "pin")}
           d == Reg!UpdateDownloadFlag
           u == <<Reg!Access("w", "pin")>>
           e == d \o u
           x == e \o d
<1>1. d \in Seq(S) /\ Len(d) = 2 /\ d[1] = Reg!Access("r", "flag") /\ d[2] = Reg!Access("w", "flag")
  BY DEF Reg!UpdateDownloadFlag
<1>2. u \in Seq(S) /\ Len(u) = 1 /\ u[1] = Reg!Access("w", "pin")
  OBVIOUS
<1>3. Reg!PinConfig = x
  BY DEF Reg!PinConfig
<1> HIDE DEF S, d, u
<1>4. Joint(e, d, u, S)
  BY <1>1, <1>2, Joined
<1> HIDE DEF e
<1>5. e \in Seq(S) /\ Len(e) = 3 /\ e[1] = Reg!Access("r", "flag") /\ e[2] = Reg!Access("w", "flag") /\ e[3] = Reg!Access("w", "pin")
  BY <1>1, <1>2, <1>4 DEF Joint
<1>6. Joint(x, e, d, S)
  BY <1>1, <1>5, Joined
<1> HIDE DEF x
<1>7. /\ Len(x) = 5 /\ x[1] = Reg!Access("r", "flag") /\ x[2] = Reg!Access("w", "flag") /\ x[3] = Reg!Access("w", "pin")
      /\ x[3 + 1] = Reg!Access("r", "flag") /\ x[3 + 2] = Reg!Access("w", "flag")
  BY <1>1, <1>5, <1>6 DEF Joint
<1> QED
  BY <1>3, <1>7

LEMMA DumpIs ==
  /\ Len(Reg!SdioDump) = 5
  /\ Reg!SdioDump[1] = Reg!Access("r", "svc") /\ Reg!SdioDump[2] = Reg!Access("w", "svc") /\ Reg!SdioDump[3] = Reg!Access("r", "power")
  /\ Reg!SdioDump[4] = Reg!Access("w", "power") /\ Reg!SdioDump[5] = Reg!Access("r", "data")
<1> DEFINE S == {Reg!Access("r", "svc"), Reg!Access("w", "svc"), Reg!Access("r", "power"), Reg!Access("w", "power"), Reg!Access("r", "data")}
           d == Reg!ServiceEnable
           u == <<Reg!Access("r", "power"), Reg!Access("w", "power")>>
           v == <<Reg!Access("r", "data")>>
           e == d \o u
           x == e \o v
<1>1. d \in Seq(S) /\ Len(d) = 2 /\ d[1] = Reg!Access("r", "svc") /\ d[2] = Reg!Access("w", "svc")
  BY DEF Reg!ServiceEnable
<1>2. u \in Seq(S) /\ Len(u) = 2 /\ u[1] = Reg!Access("r", "power") /\ u[2] = Reg!Access("w", "power")
  OBVIOUS
<1>3. v \in Seq(S) /\ Len(v) = 1 /\ v[1] = Reg!Access("r", "data")
  OBVIOUS
<1>4. Reg!SdioDump = x
  BY DEF Reg!SdioDump, Reg!SmemPoweron
<1> HIDE DEF S, d, u, v
<1>5. Joint(e, d, u, S)
  BY <1>1, <1>2, Joined
<1> HIDE DEF e
<1>6. /\ e \in Seq(S) /\ Len(e) = 4 /\ e[1] = Reg!Access("r", "svc") /\ e[2] = Reg!Access("w", "svc")
      /\ e[2 + 1] = Reg!Access("r", "power") /\ e[2 + 2] = Reg!Access("w", "power")
  BY <1>1, <1>2, <1>5 DEF Joint
<1>7. Joint(x, e, v, S)
  BY <1>3, <1>6, Joined
<1> HIDE DEF x
<1>8. /\ Len(x) = 5 /\ x[1] = Reg!Access("r", "svc") /\ x[2] = Reg!Access("w", "svc") /\ x[3] = Reg!Access("r", "power")
      /\ x[4] = Reg!Access("w", "power") /\ x[4 + 1] = Reg!Access("r", "data")
  BY <1>3, <1>6, <1>7 DEF Joint
<1> QED
  BY <1>4, <1>8

LEMMA JobLens == \A j \in JobNames : Len(Reg!Jobs[j]) = JobLen(j)
<1>1. Len(Reg!BootCp) = 3 /\ Len(<<Reg!Access("p", "fifo")>>) = 1
  BY DEF Reg!BootCp
<1>2. Reg!Jobs["boot"] = Reg!BootCp /\ Reg!Jobs["pins"] = Reg!PinConfig /\ Reg!Jobs["dump"] = Reg!SdioDump /\ Reg!Jobs["data"] = <<Reg!Access("p", "fifo")>>
  BY DEF Reg!Jobs
<1> QED
  BY <1>1, <1>2, PinsAre, DumpIs DEF JobNames, JobLen

LEMMA JobAccess ==
  /\ Reg!Jobs["boot"][1] = Reg!Access("w", "dram") /\ Reg!Jobs["boot"][2] = Reg!Access("w", "iram") /\ Reg!Jobs["boot"][3] = Reg!Access("b", "setup")
  /\ Reg!Jobs["pins"][1] = Reg!Access("r", "flag") /\ Reg!Jobs["pins"][2] = Reg!Access("w", "flag") /\ Reg!Jobs["pins"][3] = Reg!Access("w", "pin")
  /\ Reg!Jobs["pins"][4] = Reg!Access("r", "flag") /\ Reg!Jobs["pins"][5] = Reg!Access("w", "flag")
  /\ Reg!Jobs["dump"][1] = Reg!Access("r", "svc") /\ Reg!Jobs["dump"][2] = Reg!Access("w", "svc") /\ Reg!Jobs["dump"][3] = Reg!Access("r", "power")
  /\ Reg!Jobs["dump"][4] = Reg!Access("w", "power") /\ Reg!Jobs["dump"][5] = Reg!Access("r", "data")
  /\ Reg!Jobs["data"][1] = Reg!Access("p", "fifo")
<1>1. Reg!BootCp[1] = Reg!Access("w", "dram") /\ Reg!BootCp[2] = Reg!Access("w", "iram") /\ Reg!BootCp[3] = Reg!Access("b", "setup")
  BY DEF Reg!BootCp
<1>2. <<Reg!Access("p", "fifo")>>[1] = Reg!Access("p", "fifo")
  OBVIOUS
<1>3. Reg!Jobs["boot"] = Reg!BootCp /\ Reg!Jobs["pins"] = Reg!PinConfig /\ Reg!Jobs["dump"] = Reg!SdioDump /\ Reg!Jobs["data"] = <<Reg!Access("p", "fifo")>>
  BY DEF Reg!Jobs
<1> QED
  BY <1>1, <1>2, <1>3, PinsAre, DumpIs

\* what each thread's access may be
Accesses(t) ==
    \/ job[t] = "boot" /\ th[t].i = 1 /\ Reg!Acc(t).op = "w" /\ Reg!Acc(t).at = "dram"
    \/ job[t] = "boot" /\ th[t].i = 2 /\ Reg!Acc(t).op = "w" /\ Reg!Acc(t).at = "iram"
    \/ job[t] = "boot" /\ th[t].i = 3 /\ Reg!Acc(t).op = "b" /\ Reg!Acc(t).at = "setup"
    \/ job[t] = "pins" /\ th[t].i \in {1, 4} /\ Reg!Acc(t).op = "r" /\ Reg!Acc(t).at = "flag"
    \/ job[t] = "pins" /\ th[t].i \in {2, 5} /\ Reg!Acc(t).op = "w" /\ Reg!Acc(t).at = "flag"
    \/ job[t] = "pins" /\ th[t].i = 3 /\ Reg!Acc(t).op = "w" /\ Reg!Acc(t).at = "pin"
    \/ job[t] = "dump" /\ th[t].i = 1 /\ Reg!Acc(t).op = "r" /\ Reg!Acc(t).at = "svc"
    \/ job[t] = "dump" /\ th[t].i = 2 /\ Reg!Acc(t).op = "w" /\ Reg!Acc(t).at = "svc"
    \/ job[t] = "dump" /\ th[t].i = 3 /\ Reg!Acc(t).op = "r" /\ Reg!Acc(t).at = "power"
    \/ job[t] = "dump" /\ th[t].i = 4 /\ Reg!Acc(t).op = "w" /\ Reg!Acc(t).at = "power"
    \/ job[t] = "dump" /\ th[t].i = 5 /\ Reg!Acc(t).op = "r" /\ Reg!Acc(t).at = "data"
    \/ job[t] = "data" /\ th[t].i = 1 /\ Reg!Acc(t).op = "p" /\ Reg!Acc(t).at = "fifo"

LEMMA AccessIs ==
  ASSUME RegTypes, NEW t \in RegThreads, Reg!Live(t)
  PROVE  Accesses(t)
<1>1. job[t] \in JobNames /\ th[t].i \in 1 .. 6 /\ th[t].i <= JobLen(job[t])
  BY JobLens DEF RegTypes, ThRec, Reg!Live
<1>2. Reg!Acc(t) = Reg!Jobs[job[t]][th[t].i]
  BY DEF Reg!Acc
<1>3. CASE job[t] = "boot"
  <2>1. th[t].i \in {1, 2, 3}
    BY <1>1, <1>3 DEF JobLen
  <2> QED
    BY <1>2, <1>3, <2>1, JobAccess DEF Accesses, Reg!Access
<1>4. CASE job[t] = "pins"
  <2>1. th[t].i \in {1, 2, 3, 4, 5}
    BY <1>1, <1>4 DEF JobLen
  <2> QED
    BY <1>2, <1>4, <2>1, JobAccess DEF Accesses, Reg!Access
<1>5. CASE job[t] = "dump"
  <2>1. th[t].i \in {1, 2, 3, 4, 5}
    BY <1>1, <1>5 DEF JobLen
  <2> QED
    BY <1>2, <1>5, <2>1, JobAccess DEF Accesses, Reg!Access
<1>6. CASE job[t] = "data"
  <2>1. th[t].i = 1
    BY <1>1, <1>6 DEF JobLen
  <2> QED
    BY <1>2, <1>6, <2>1, JobAccess DEF Accesses, Reg!Access
<1> QED
  BY <1>1, <1>3, <1>4, <1>5, <1>6 DEF JobNames

LEMMA LiveIs ==
  ASSUME RegTypes, NEW t \in RegThreads
  PROVE  Reg!Live(t) <=> th[t].i <= JobLen(job[t])
BY JobLens DEF RegTypes, Reg!Live

-----------------------------------------------------------------------------
(* What an access leaves behind *)

\* th' differs from th in t only, which is at access i, at pc, with result res
Left(new, t, i, pc, res) ==
    /\ new \in [RegThreads -> ThRec] /\ (\A u \in RegThreads : u # t => new[u] = th[u])
    /\ new[t].i = i /\ new[t].pc = pc /\ new[t].res = res

LEMMA GoneBy ==
  ASSUME th \in [RegThreads -> ThRec], NEW t \in RegThreads, NEW r \in ThRec
  PROVE  Left([th EXCEPT ![t] = r], t, r.i, r.pc, r.res)
BY DEF Left

LEMMA ThFields ==
  ASSUME th \in [RegThreads -> ThRec], NEW t \in RegThreads
  PROVE  /\ th[t] = [i |-> th[t].i, pc |-> th[t].pc, tries |-> th[t].tries, val |-> th[t].val, res |-> th[t].res]
         /\ th[t].i \in 1 .. 6 /\ th[t].pc \in Pcs /\ th[t].tries \in 0 .. 1 /\ th[t].val \in Nat /\ th[t].res \in {"none", "ok", "failed"}
BY DEF ThRec

LEMMA GoesIs ==
  ASSUME th \in [RegThreads -> ThRec], NEW t \in RegThreads, NEW pc \in Pcs, Reg!Goes(t, pc)
  PROVE  Left(th', t, th[t].i, pc, th[t].res)
<1> DEFINE r == [i |-> th[t].i, pc |-> pc, tries |-> th[t].tries, val |-> th[t].val, res |-> th[t].res]
<1>1. r \in ThRec
  BY ThFields DEF ThRec
<1>2. [th EXCEPT ![t].pc = pc] = [th EXCEPT ![t] = r]
  <2>1. [th[t] EXCEPT !.pc = pc] = r
    BY ThFields
  <2>2. [th EXCEPT ![t].pc = pc] = [th EXCEPT ![t] = [th[t] EXCEPT !.pc = pc]]
    OBVIOUS
  <2> QED
    BY <2>1, <2>2
<1>3. r.i = th[t].i /\ r.pc = pc /\ r.res = th[t].res
  OBVIOUS
<1> HIDE DEF r
<1> QED
  BY <1>1, <1>2, <1>3, GoneBy DEF Reg!Goes

LEMMA EndsIs ==
  ASSUME RegTypes, NEW t \in RegThreads, NEW x \in {"ok", "failed"}
  PROVE  Left(Reg!Ends(t, x), t, JobLen(job[t]) + 1, "done", x)
<1> DEFINE n == JobLen(job[t]) + 1
           r == [i |-> n, pc |-> "done", tries |-> th[t].tries, val |-> th[t].val, res |-> x]
<1>0. th \in [RegThreads -> ThRec] /\ job[t] \in JobNames
  BY DEF RegTypes
<1>1. Len(Reg!Jobs[job[t]]) = JobLen(job[t])
  BY <1>0, JobLens
<1>2. n \in 1 .. 6
  BY <1>0 DEF JobLen, JobNames
<1>3. Reg!Ends(t, x) = [th EXCEPT ![t].i = n, ![t].pc = "done", ![t].res = x]
  BY <1>1 DEF Reg!Ends
<1> HIDE DEF n
<1>4. r \in ThRec
  BY <1>0, <1>2, ThFields DEF ThRec, Pcs
<1>5. Reg!Ends(t, x) = [th EXCEPT ![t] = r]
  BY <1>0, <1>3, ThFields DEF ThRec
<1>6. r.i = n /\ r.pc = "done" /\ r.res = x
  OBVIOUS
<1> HIDE DEF r
<1>7. Left(Reg!Ends(t, x), t, n, "done", x)
  BY <1>0, <1>4, <1>5, <1>6, GoneBy
<1> QED
  BY <1>7 DEF n

LEMMA MovesIs ==
  ASSUME RegTypes, NEW t \in RegThreads, NEW i \in 1 .. 6
  PROVE  Left(Reg!Moves(t, i), t, i, IF i > JobLen(job[t]) THEN "done" ELSE "call", IF i > JobLen(job[t]) THEN "ok" ELSE th[t].res)
<1> DEFINE pc == IF i > JobLen(job[t]) THEN "done" ELSE "call"
           res == IF i > JobLen(job[t]) THEN "ok" ELSE th[t].res
           r == [i |-> i, pc |-> pc, tries |-> 0, val |-> th[t].val, res |-> res]
<1>0. th \in [RegThreads -> ThRec] /\ job[t] \in JobNames
  BY DEF RegTypes
<1>1. Len(Reg!Jobs[job[t]]) = JobLen(job[t])
  BY <1>0, JobLens
<1>2. pc \in Pcs /\ res \in {"none", "ok", "failed"}
  BY <1>0, ThFields DEF Pcs
<1>3. Reg!Moves(t, i) = [th EXCEPT ![t].i = i, ![t].pc = pc, ![t].tries = 0, ![t].res = res]
  BY <1>1 DEF Reg!Moves
<1> HIDE DEF pc, res
<1>4. r \in ThRec
  BY <1>0, <1>2, ThFields DEF ThRec
<1>5. Reg!Moves(t, i) = [th EXCEPT ![t] = r]
  BY <1>0, <1>3, ThFields DEF ThRec
<1>6. r.i = i /\ r.pc = pc /\ r.res = res
  OBVIOUS
<1> HIDE DEF r
<1>7. Left(Reg!Moves(t, i), t, i, pc, res)
  BY <1>0, <1>4, <1>5, <1>6, GoneBy
<1> QED
  BY <1>7 DEF pc, res

\* a value noted does not change where a thread is
LEMMA NotedIs ==
  ASSUME NEW new, NEW t \in RegThreads, NEW i, NEW pc, NEW res, Left(new, t, i, pc, res), NEW v \in Nat
  PROVE  Left([new EXCEPT ![t].val = v], t, i, pc, res)
<1>1. new \in [RegThreads -> ThRec] /\ (\A u \in RegThreads : u # t => new[u] = th[u]) /\ new[t].i = i /\ new[t].pc = pc /\ new[t].res = res
  BY DEF Left
<1> DEFINE r == [new[t] EXCEPT !.val = v]
<1>2. r \in ThRec /\ r.i = i /\ r.pc = pc /\ r.res = res
  BY <1>1 DEF ThRec
<1>3. [new EXCEPT ![t].val = v] = [new EXCEPT ![t] = r]
  OBVIOUS
<1> HIDE DEF r
<1> QED
  BY <1>1, <1>2, <1>3 DEF Left

\* an access that ended, well or not: where the thread goes
Stepped(new, t, ok) ==
    \/ ok /\ th[t].i < JobLen(job[t]) /\ Left(new, t, th[t].i + 1, "call", "none")
    \/ ok /\ th[t].i = JobLen(job[t]) /\ Left(new, t, th[t].i + 1, "done", "ok")
    \/ ok /\ job[t] = "dump" /\ th[t].i = 3 /\ Left(new, t, 5, "call", "none")
    \/ ~ok /\ job[t] = "dump" /\ th[t].i \in {1, 2} /\ Left(new, t, 3, "call", "none")
    \/ ~ok /\ Left(new, t, th[t].i, "call", "none")
    \/ ~ok /\ Left(new, t, JobLen(job[t]) + 1, "done", "failed")

LEMMA AfterIs ==
  ASSUME RegTypes, NEW t \in RegThreads, Placed(t), Reg!Live(t), NEW ok \in BOOLEAN, NEW v \in Nat
  PROVE  Stepped(Reg!After(t, ok, v), t, ok)
<1>0. th \in [RegThreads -> ThRec] /\ job[t] \in JobNames /\ th[t].i \in 1 .. 6
  BY ThFields DEF RegTypes
<1>1. th[t].i <= JobLen(job[t]) /\ th[t].res = "none"
  <2>1. th[t].i <= JobLen(job[t])
    BY LiveIs
  <2> QED
    BY <1>0, <2>1 DEF Placed, JobLen, JobNames
<1>2. CASE ok /\ job[t] = "dump" /\ th[t].i = 3 /\ v = 1
  <2>1. Reg!After(t, ok, v) = Reg!Moves(t, 5)
    BY <1>2 DEF Reg!After
  <2>2. Left(Reg!Moves(t, 5), t, 5, IF 5 > JobLen(job[t]) THEN "done" ELSE "call", IF 5 > JobLen(job[t]) THEN "ok" ELSE th[t].res)
    BY MovesIs
  <2>3. JobLen(job[t]) = 5
    BY <1>2 DEF JobLen
  <2>4. Left(Reg!After(t, ok, v), t, 5, "call", "none")
    BY <1>1, <2>1, <2>2, <2>3
  <2> QED
    BY <1>2, <2>4 DEF Stepped
<1>3. CASE ok /\ ~(job[t] = "dump" /\ th[t].i = 3 /\ v = 1)
  <2>1. Reg!After(t, ok, v) = [Reg!Moves(t, th[t].i + 1) EXCEPT ![t].val = v]
    BY <1>3 DEF Reg!After
  <2>2. th[t].i + 1 \in 1 .. 6
    BY <1>0, <1>1 DEF JobLen, JobNames
  <2> DEFINE pc == IF th[t].i + 1 > JobLen(job[t]) THEN "done" ELSE "call"
             res == IF th[t].i + 1 > JobLen(job[t]) THEN "ok" ELSE th[t].res
  <2>3. Left(Reg!Moves(t, th[t].i + 1), t, th[t].i + 1, pc, res)
    BY <2>2, MovesIs
  <2>4. Left(Reg!After(t, ok, v), t, th[t].i + 1, pc, res)
    <3> HIDE DEF pc, res
    <3> QED
      BY <2>1, <2>3, NotedIs
  <2>5. JobLen(job[t]) \in Nat
    BY <1>0 DEF JobLen, JobNames
  <2>6. CASE th[t].i < JobLen(job[t])
    <3>1. pc = "call" /\ res = "none"
      BY <1>0, <1>1, <2>5, <2>6
    <3> HIDE DEF pc, res
    <3> QED
      BY <1>3, <2>4, <2>6, <3>1 DEF Stepped
  <2>7. CASE th[t].i = JobLen(job[t])
    <3>1. pc = "done" /\ res = "ok"
      BY <1>0, <1>1, <2>5, <2>7
    <3> HIDE DEF pc, res
    <3> QED
      BY <1>3, <2>4, <2>7, <3>1 DEF Stepped
  <2> QED
    BY <1>0, <1>1, <2>5, <2>6, <2>7
<1>4. CASE ~ok /\ job[t] = "dump" /\ th[t].i \in {1, 2}
  <2>1. Reg!After(t, ok, v) = Reg!Moves(t, 3)
    BY <1>4 DEF Reg!After
  <2>2. Left(Reg!Moves(t, 3), t, 3, IF 3 > JobLen(job[t]) THEN "done" ELSE "call", IF 3 > JobLen(job[t]) THEN "ok" ELSE th[t].res)
    BY MovesIs
  <2>3. JobLen(job[t]) = 5
    BY <1>4 DEF JobLen
  <2> QED
    BY <1>1, <1>4, <2>1, <2>2, <2>3 DEF Stepped
<1>5. CASE ~ok /\ ~(job[t] = "dump" /\ th[t].i \in {1, 2}) /\ (Reg!Acc(t).at = "flag" \/ Reg!Acc(t).op = "b") /\ th[t].tries = 0
  <2> DEFINE r == [i |-> th[t].i, pc |-> "call", tries |-> 1, val |-> th[t].val, res |-> th[t].res]
  <2>1. Reg!After(t, ok, v) = [th EXCEPT ![t].pc = "call", ![t].tries = 1]
    BY <1>5 DEF Reg!After
  <2>2. r \in ThRec
    BY <1>0, ThFields DEF ThRec, Pcs
  <2>3. Reg!After(t, ok, v) = [th EXCEPT ![t] = r]
    BY <1>0, <2>1, ThFields DEF ThRec
  <2>4. r.i = th[t].i /\ r.pc = "call" /\ r.res = "none"
    BY <1>1
  <2> HIDE DEF r
  <2>5. Left([th EXCEPT ![t] = r], t, r.i, r.pc, r.res)
    BY <1>0, <2>2, GoneBy
  <2> QED
    BY <1>5, <2>3, <2>4, <2>5 DEF Stepped
<1>6. CASE ~ok /\ ~(job[t] = "dump" /\ th[t].i \in {1, 2}) /\ ~((Reg!Acc(t).at = "flag" \/ Reg!Acc(t).op = "b") /\ th[t].tries = 0)
  <2>1. Reg!After(t, ok, v) = Reg!Ends(t, "failed")
    BY <1>6 DEF Reg!After
  <2> QED
    BY <1>6, <2>1, EndsIs DEF Stepped
<1> QED
  BY <1>2, <1>3, <1>4, <1>5, <1>6

-----------------------------------------------------------------------------
(* Steps of one thread *)

LEMMA OthersStay ==
  ASSUME job' = job, NEW u \in RegThreads, th'[u] = th[u]
  PROVE  /\ Reg!Acc(u)' = Reg!Acc(u) /\ Reg!Live(u)' = Reg!Live(u)
         /\ Placed(u) => Placed(u)'
         /\ Holding(u)' = Holding(u)
         /\ u \in Reg!Exposed' <=> u \in Reg!Exposed
BY DEF Reg!Acc, Reg!Live, Placed, Holding, Reg!Exposed

\* the places of a thread that goes on within an access
LEMMA Within ==
  ASSUME RegTypes, NEW t \in RegThreads, Reg!Live(t), NEW pc \in {"call", "addr", "lock", "xfer"},
         job' = job, Left(th', t, th[t].i, pc, th[t].res), \A u \in RegThreads : Placed(u),
         Reg!Acc(t).op = "b" => pc \in {"call", "xfer"}, pc = "addr" => Reg!Acc(t).op # "p"
  PROVE  /\ \A u \in RegThreads : Placed(u)'
         /\ Reg!Acc(t)' = Reg!Acc(t) /\ Reg!Live(t)' /\ th'[t].i = th[t].i /\ th'[t].pc = pc /\ th'[t].res = th[t].res
<1>1. th'[t].i = th[t].i /\ th'[t].pc = pc /\ th'[t].res = th[t].res /\ \A u \in RegThreads : u # t => th'[u] = th[u]
  BY DEF Left
<1>2. Reg!Acc(t)' = Reg!Acc(t) /\ Reg!Live(t)' = Reg!Live(t)
  BY <1>1 DEF Reg!Acc, Reg!Live
<1>3. th[t].i <= JobLen(job[t]) /\ th[t].i \in 1 .. 6 /\ job[t] \in JobNames
  BY LiveIs, ThFields DEF RegTypes
<1>4. th[t].i # JobLen(job[t]) + 1 /\ th[t].i <= JobLen(job[t]) + 1
  BY <1>3 DEF JobLen, JobNames
<1>5. Placed(t)'
  BY <1>1, <1>2, <1>4 DEF Placed
<1>6. ASSUME NEW u \in RegThreads, u # t PROVE Placed(u)'
  BY <1>1, <1>6, OthersStay
<1> QED
  BY <1>1, <1>2, <1>5, <1>6

\* the places after an access
LEMMA Beyond ==
  ASSUME RegTypes, NEW t \in RegThreads, Reg!Live(t), NEW ok \in BOOLEAN, job' = job, Stepped(th', t, ok), \A u \in RegThreads : Placed(u)
  PROVE  /\ th' \in [RegThreads -> ThRec] /\ \A u \in RegThreads : u # t => th'[u] = th[u]
         /\ \A u \in RegThreads : Placed(u)'
         /\ th'[t].pc \in {"call", "done"} /\ ~Holding(t)' /\ t \notin Reg!Exposed'
<1>1. th[t].i <= JobLen(job[t]) /\ th[t].i \in 1 .. 6 /\ job[t] \in JobNames
  BY LiveIs, ThFields DEF RegTypes
<1>2. th' \in [RegThreads -> ThRec] /\ \A u \in RegThreads : u # t => th'[u] = th[u]
  BY DEF Stepped, Left
<1>3. \/ th'[t].i <= JobLen(job[t]) /\ th'[t].pc = "call" /\ th'[t].res = "none"
      \/ th'[t].i = JobLen(job[t]) + 1 /\ th'[t].pc = "done" /\ th'[t].res # "none"
  <2>1. ASSUME th[t].i < JobLen(job[t]), Left(th', t, th[t].i + 1, "call", "none")
        PROVE  th'[t].i <= JobLen(job[t]) /\ th'[t].pc = "call" /\ th'[t].res = "none"
    BY <1>1, <2>1 DEF Left, JobLen, JobNames
  <2>2. ASSUME th[t].i = JobLen(job[t]), Left(th', t, th[t].i + 1, "done", "ok")
        PROVE  th'[t].i = JobLen(job[t]) + 1 /\ th'[t].pc = "done" /\ th'[t].res # "none"
    BY <2>2 DEF Left
  <2>3. ASSUME job[t] = "dump", NEW i \in {3, 5}, Left(th', t, i, "call", "none")
        PROVE  th'[t].i <= JobLen(job[t]) /\ th'[t].pc = "call" /\ th'[t].res = "none"
    BY <2>3 DEF Left, JobLen
  <2>4. ASSUME Left(th', t, th[t].i, "call", "none")
        PROVE  th'[t].i <= JobLen(job[t]) /\ th'[t].pc = "call" /\ th'[t].res = "none"
    BY <1>1, <2>4 DEF Left
  <2>5. ASSUME Left(th', t, JobLen(job[t]) + 1, "done", "failed")
        PROVE  th'[t].i = JobLen(job[t]) + 1 /\ th'[t].pc = "done" /\ th'[t].res # "none"
    BY <2>5 DEF Left
  <2> QED
    BY <2>1, <2>2, <2>3, <2>4, <2>5 DEF Stepped
<1>4. th'[t].pc \in {"call", "done"}
  BY <1>3
<1>5. ~Holding(t)' /\ t \notin Reg!Exposed'
  BY <1>4 DEF Holding, Reg!Exposed
<1>6. JobLen(job[t]) \in Nat /\ th'[t].i \in 1 .. 6
  BY <1>1, <1>2 DEF JobLen, JobNames, ThRec
<1>7. Placed(t)'
  <2>1. th'[t].i <= JobLen(job[t]) + 1
    BY <1>3, <1>6
  <2>2. th'[t].pc = "done" <=> th'[t].i = JobLen(job[t]) + 1
    BY <1>3, <1>6
  <2>3. th'[t].res = "none" <=> th'[t].pc # "done"
    BY <1>3
  <2> QED
    BY <1>4, <2>1, <2>2, <2>3 DEF Placed
<1>8. ASSUME NEW u \in RegThreads, u # t PROVE Placed(u)'
  BY <1>2, <1>8, OthersStay
<1> QED
  BY <1>2, <1>4, <1>5, <1>7, <1>8

\* what a job found stays true when more has gone wrong
LEMMA OddGrows ==
  ASSUME NEW j, NEW i, NEW res, NEW c, NEW o, NEW p, JobAt(j, i, res, c, o), o \subseteq p
  PROVE  JobAt(j, i, res, c, p)
BY DEF JobAt

LEMMA CellsOdd ==
  ASSUME NEW c, NEW o, NEW p, CellsAt(c, o), o \subseteq p
  PROVE  CellsAt(c, p)
BY DEF CellsAt

\* a step of t that leaves the cells alone, and t at its access or ended without success
LEMMA JobsStay ==
  ASSUME RegTypes, JobsAt, NEW t \in RegThreads, job' = job, cell' = cell, r_odd \subseteq r_odd', \A u \in RegThreads : u # t => th'[u] = th[u],
         JobAt(job[t], th'[t].i, th'[t].res, cell, r_odd)
  PROVE  JobsAt'
<1>1. ASSUME NEW u \in RegThreads PROVE JobAt(job[u], th'[u].i, th'[u].res, cell, r_odd)
  BY DEF JobsAt
<1>2. ASSUME NEW u \in RegThreads PROVE JobAt(job[u], th'[u].i, th'[u].res, cell, r_odd')
  BY <1>1, OddGrows
<1> QED
  BY <1>2 DEF JobsAt

\* a thread whose access failed
LEMMA FailKeeps ==
  ASSUME RegTypes, NEW t \in RegThreads, Placed(t), Reg!Live(t), Stepped(th', t, FALSE), NEW c, NEW o,
         JobAt(job[t], th[t].i, th[t].res, c, o)
  PROVE  JobAt(job[t], th'[t].i, th'[t].res, c, o)
<1>1. CASE job[t] = "dump" /\ Left(th', t, 3, "call", "none")
  BY <1>1 DEF Left, JobAt
<1>2. CASE Left(th', t, th[t].i, "call", "none")
  BY <1>2 DEF Left, JobAt
<1>3. CASE Left(th', t, JobLen(job[t]) + 1, "done", "failed")
  <2>1. th'[t].i = JobLen(job[t]) + 1 /\ th'[t].res = "failed"
    BY <1>3 DEF Left
  <2>2. (job[t] = "boot" => th'[t].i = 4) /\ (job[t] = "pins" => th'[t].i = 6)
    BY <2>1 DEF JobLen
  <2> QED
    BY <2>1, <2>2 DEF JobAt
<1> QED
  BY <1>1, <1>2, <1>3 DEF Stepped

-----------------------------------------------------------------------------
(* Each step keeps the invariant *)

LEMMA InvParts ==
  ASSUME RegInv
  PROVE  /\ RegTypes /\ (\A t \in RegThreads : Placed(t)) /\ HolderInv /\ AddrInv /\ JobsAt /\ CellsAt(cell, r_odd)
         /\ th \in [RegThreads -> ThRec]
BY DEF RegInv, RegTypes

LEMMA CallStartKeeps ==
  ASSUME RegInv, NEW t \in RegThreads, Reg!CallStart(t)
  PROVE  RegInv'
<1>0. RegTypes /\ (\A u \in RegThreads : Placed(u)) /\ HolderInv /\ AddrInv /\ JobsAt /\ CellsAt(cell, r_odd)
  BY DEF RegInv
<1>1. Reg!Live(t) /\ th[t].pc = "call" /\ job' = job /\ areg' = areg /\ mutex' = mutex /\ cell' = cell /\ faults' = faults /\ r_odd' = r_odd
  BY DEF Reg!CallStart, Reg!At
<1>2. th[t].res = "none" /\ ~Holding(t) /\ t \notin Reg!Exposed /\ th \in [RegThreads -> ThRec] /\ th[t].i \in 1 .. 6
  BY <1>0, <1>1, ThFields DEF Placed, Holding, Reg!Exposed, RegTypes
<1>3. JobAt(job[t], th[t].i, th[t].res, cell, r_odd)
  BY <1>0 DEF JobsAt
<1>4. /\ th' \in [RegThreads -> ThRec] /\ (\A u \in RegThreads : u # t => th'[u] = th[u]) /\ (\A u \in RegThreads : Placed(u)')
      /\ ~Holding(t)' /\ t \notin Reg!Exposed' /\ JobAt(job[t], th'[t].i, th'[t].res, cell, r_odd)
      /\ host' \in [noted : BOOLEAN, off : BOOLEAN]
  <2>1. CASE job[t] = "dump" /\ th[t].i = 1 /\ th' = Reg!Moves(t, 5) /\ host' = host
    <3>1. Left(th', t, 5, IF 5 > JobLen(job[t]) THEN "done" ELSE "call", IF 5 > JobLen(job[t]) THEN "ok" ELSE th[t].res)
      BY <1>0, <2>1, MovesIs
    <3>2. Left(th', t, 5, "call", "none")
      BY <1>2, <2>1, <3>1 DEF JobLen
    <3>3. /\ th' \in [RegThreads -> ThRec] /\ th'[t].i = 5 /\ th'[t].pc = "call" /\ th'[t].res = "none"
          /\ \A u \in RegThreads : u # t => th'[u] = th[u]
      BY <3>2 DEF Left
    <3>4. JobLen(job[t]) = 5
      BY <2>1 DEF JobLen
    <3>5. Placed(t)'
      BY <1>1, <3>3, <3>4 DEF Placed
    <3>6. ASSUME NEW u \in RegThreads, u # t PROVE Placed(u)'
      BY <1>0, <1>1, <3>3, <3>6, OthersStay
    <3>7. ~Holding(t)' /\ t \notin Reg!Exposed'
      BY <3>3 DEF Holding, Reg!Exposed
    <3>8. JobAt(job[t], th'[t].i, th'[t].res, cell, r_odd)
      BY <2>1, <3>3 DEF JobAt
    <3>9. host' \in [noted : BOOLEAN, off : BOOLEAN]
      BY <1>0, <2>1 DEF RegTypes
    <3> QED
      BY <3>3, <3>5, <3>6, <3>7, <3>8, <3>9
  <2>2. ASSUME NEW pc \in {"addr", "lock", "xfer"}, Reg!Goes(t, pc), host' = [host EXCEPT !.noted = @ \/ Reg!Noted(t)],
               Reg!Acc(t).op = "r" => pc = "addr", Reg!Acc(t).op = "b" => pc = "xfer", Reg!Acc(t).op \notin {"r", "b"} => pc = "lock"
        PROVE  /\ th' \in [RegThreads -> ThRec] /\ (\A u \in RegThreads : u # t => th'[u] = th[u]) /\ (\A u \in RegThreads : Placed(u)')
               /\ ~Holding(t)' /\ t \notin Reg!Exposed' /\ JobAt(job[t], th'[t].i, th'[t].res, cell, r_odd)
               /\ host' \in [noted : BOOLEAN, off : BOOLEAN]
    <3>1. Left(th', t, th[t].i, pc, th[t].res)
      BY <1>2, <2>2, GoesIs DEF Pcs
    <3>2. pc = "addr" => Reg!Acc(t).op # "p"
      BY <2>2
    <3>3. /\ \A u \in RegThreads : Placed(u)'
          /\ Reg!Acc(t)' = Reg!Acc(t) /\ th'[t].i = th[t].i /\ th'[t].pc = pc /\ th'[t].res = th[t].res
      BY <1>0, <1>1, <2>2, <3>1, <3>2, Within
    <3>4. th' \in [RegThreads -> ThRec] /\ \A u \in RegThreads : u # t => th'[u] = th[u]
      BY <3>1 DEF Left
    <3>5. ~Holding(t)' /\ t \notin Reg!Exposed'
      BY <2>2, <3>3 DEF Holding, Reg!Exposed
    <3>6. host' \in [noted : BOOLEAN, off : BOOLEAN]
      BY <1>0, <2>2 DEF RegTypes, Reg!Noted
    <3> QED
      BY <1>3, <3>3, <3>4, <3>5, <3>6
  <2>3. CASE ~(job[t] = "dump" /\ th[t].i = 1 /\ host.noted)
    <3> DEFINE pc == CASE Reg!Acc(t).op = "r" -> "addr" [] Reg!Acc(t).op = "b" -> "xfer" [] OTHER -> "lock"
    <3>1. Reg!Goes(t, pc) /\ host' = [host EXCEPT !.noted = @ \/ Reg!Noted(t)]
      BY <2>3 DEF Reg!CallStart
    <3>2. /\ pc \in {"addr", "lock", "xfer"} /\ (Reg!Acc(t).op = "r" => pc = "addr") /\ (Reg!Acc(t).op = "b" => pc = "xfer")
          /\ (Reg!Acc(t).op \notin {"r", "b"} => pc = "lock")
      OBVIOUS
    <3> HIDE DEF pc
    <3> QED
      BY <2>2, <3>1, <3>2
  <2>4. CASE job[t] = "dump" /\ th[t].i = 1 /\ host.noted
    <3>1. th' = Reg!Moves(t, 5) /\ host' = host
      BY <2>4 DEF Reg!CallStart
    <3> QED
      BY <2>1, <2>4, <3>1
  <2> QED
    BY <2>3, <2>4
<1>5. RegTypes'
  BY <1>0, <1>1, <1>4 DEF RegTypes
<1>6. ASSUME NEW u \in RegThreads, u # t PROVE (Holding(u)' <=> Holding(u)) /\ (u \in Reg!Exposed' <=> u \in Reg!Exposed) /\ Reg!Acc(u)' = Reg!Acc(u)
  BY <1>1, <1>4, <1>6, OthersStay
<1>7. HolderInv'
  BY <1>0, <1>1, <1>2, <1>4, <1>6 DEF HolderInv
<1>8. AddrInv'
  <2>1. ASSUME NEW u \in Reg!Exposed' PROVE u \in RegThreads /\ u # t
    BY <1>4 DEF Reg!Exposed
  <2> QED
    BY <1>0, <1>1, <1>6, <2>1 DEF AddrInv
<1>9. JobsAt'
  BY <1>0, <1>1, <1>4, JobsStay
<1> QED
  BY <1>0, <1>1, <1>4, <1>5, <1>7, <1>8, <1>9 DEF RegInv

LEMMA LockKeeps ==
  ASSUME RegInv, NEW t \in RegThreads, Reg!Lock(t)
  PROVE  RegInv'
<1>0. RegTypes /\ (\A u \in RegThreads : Placed(u)) /\ HolderInv /\ AddrInv /\ JobsAt /\ CellsAt(cell, r_odd)
  BY DEF RegInv
<1>1. /\ Reg!Live(t) /\ th[t].pc = "lock" /\ mutex = Reg!NoOne /\ mutex' = t /\ job' = job /\ areg' = areg /\ cell' = cell
      /\ host' = host /\ faults' = faults /\ r_odd' = r_odd
  BY DEF Reg!Lock, Reg!At
<1>2. th \in [RegThreads -> ThRec] /\ Reg!Acc(t).op # "b"
  BY <1>0, <1>1 DEF Placed, RegTypes
<1>3. PICK pc \in {"addr", "xfer"} : Reg!Goes(t, pc) /\ (pc = "addr" <=> Reg!Acc(t).op = "w")
  BY DEF Reg!Lock
<1>4. Left(th', t, th[t].i, pc, th[t].res)
  BY <1>2, <1>3, GoesIs DEF Pcs
<1>5. pc = "addr" => Reg!Acc(t).op # "p"
  BY <1>3
<1>6. /\ \A u \in RegThreads : Placed(u)'
      /\ Reg!Acc(t)' = Reg!Acc(t) /\ Reg!Live(t)' /\ th'[t].i = th[t].i /\ th'[t].pc = pc /\ th'[t].res = th[t].res
  BY <1>0, <1>1, <1>2, <1>4, <1>5, Within
<1>7. th' \in [RegThreads -> ThRec] /\ \A u \in RegThreads : u # t => th'[u] = th[u]
  BY <1>4 DEF Left
<1>8. RegTypes'
  BY <1>0, <1>1, <1>7 DEF RegTypes
<1>9. ASSUME NEW u \in RegThreads, u # t PROVE (Holding(u)' <=> Holding(u)) /\ (u \in Reg!Exposed' <=> u \in Reg!Exposed) /\ Reg!Acc(u)' = Reg!Acc(u)
  BY <1>1, <1>7, <1>9, OthersStay
<1>10. HolderInv'
  <2>1. Holding(t)'
    BY <1>2, <1>3, <1>6 DEF Holding
  <2>2. ASSUME NEW u \in RegThreads, u # t PROVE ~Holding(u)'
    <3>1. mutex # u
      BY <1>1, RegSizes
    <3> QED
      BY <1>0, <1>9, <2>2, <3>1 DEF HolderInv
  <2> QED
    BY <1>1, <2>1, <2>2 DEF HolderInv
<1>11. AddrInv'
  <2>1. t \in Reg!Exposed' => t \in Reg!Exposed
    BY <1>1, <1>3, <1>6 DEF Reg!Exposed
  <2>2. ASSUME NEW u \in Reg!Exposed' PROVE u \in Reg!Exposed /\ Reg!Acc(u)' = Reg!Acc(u)
    BY <1>6, <1>9, <2>1 DEF Reg!Exposed
  <2> QED
    BY <1>0, <1>1, <2>2 DEF AddrInv
<1>12. JobsAt'
  <2>1. JobAt(job[t], th'[t].i, th'[t].res, cell, r_odd)
    BY <1>0, <1>6 DEF JobsAt
  <2> QED
    BY <1>0, <1>1, <1>7, <2>1, JobsStay
<1> QED
  BY <1>0, <1>1, <1>6, <1>8, <1>10, <1>11, <1>12 DEF RegInv

LEMMA AddressKeeps ==
  ASSUME RegInv, NEW t \in RegThreads, Reg!SetAddress(t)
  PROVE  RegInv'
<1>0. RegTypes /\ (\A u \in RegThreads : Placed(u)) /\ HolderInv /\ AddrInv /\ JobsAt /\ CellsAt(cell, r_odd)
  BY DEF RegInv
<1>1. /\ Reg!Live(t) /\ th[t].pc = "addr" /\ job' = job /\ cell' = cell /\ host' = host
      /\ r_odd' = r_odd \cup (IF Reg!Exposed \ {t} # {} THEN {"moved"} ELSE {})
  BY DEF Reg!SetAddress, Reg!At
<1>2. th \in [RegThreads -> ThRec] /\ Placed(t) /\ Reg!Acc(t).op # "b" /\ Reg!Acc(t).op # "p"
  BY <1>0, <1>1 DEF Placed, RegTypes
<1>3. Reg!Acc(t).op \in {"r", "w"} /\ Reg!Acc(t).at \in Regs
  <2>1. Accesses(t)
    BY <1>0, <1>1, AccessIs
  <2> QED
    BY <1>2, <2>1 DEF Accesses, Regs
<1>4. r_odd' \in SUBSET Reg!Flags /\ r_odd \subseteq r_odd' /\ ("moved" \notin r_odd' => "moved" \notin r_odd /\ \A u \in Reg!Exposed : u = t)
  BY <1>0, <1>1 DEF RegTypes, Reg!Flags
<1>5. JobAt(job[t], th[t].i, th[t].res, cell, r_odd)
  BY <1>0 DEF JobsAt
<1>6. CellsAt(cell, r_odd)'
  BY <1>0, <1>1, <1>4, CellsOdd
<1>7. CASE areg' = Reg!Acc(t).at /\ Reg!Goes(t, IF Reg!Acc(t).op = "w" THEN "xfer" ELSE "lock") /\ UNCHANGED <<mutex, faults>>
  <2> DEFINE pc == IF Reg!Acc(t).op = "w" THEN "xfer" ELSE "lock"
  <2>0. pc \in {"xfer", "lock"} /\ (pc = "xfer" <=> Reg!Acc(t).op = "w")
    OBVIOUS
  <2>1. Reg!Goes(t, pc)
    BY <1>7
  <2> HIDE DEF pc
  <2>2. Left(th', t, th[t].i, pc, th[t].res)
    BY <1>2, <2>0, <2>1, GoesIs DEF Pcs
  <2>3. /\ \A u \in RegThreads : Placed(u)'
        /\ Reg!Acc(t)' = Reg!Acc(t) /\ Reg!Live(t)' /\ th'[t].i = th[t].i /\ th'[t].pc = pc /\ th'[t].res = th[t].res
    BY <1>0, <1>1, <1>2, <2>0, <2>2, Within
  <2>4. th' \in [RegThreads -> ThRec] /\ \A u \in RegThreads : u # t => th'[u] = th[u]
    BY <2>2 DEF Left
  <2>5. RegTypes'
    BY <1>0, <1>1, <1>3, <1>4, <1>7, <2>4 DEF RegTypes
  <2>6. ASSUME NEW u \in RegThreads, u # t PROVE (Holding(u)' <=> Holding(u)) /\ (u \in Reg!Exposed' <=> u \in Reg!Exposed) /\ Reg!Acc(u)' = Reg!Acc(u)
    BY <1>1, <2>4, <2>6, OthersStay
  <2>7. HolderInv'
    <3>1. Holding(t)' <=> Holding(t)
      BY <1>1, <1>3, <2>0, <2>3 DEF Holding
    <3> QED
      BY <1>0, <1>7, <2>6, <3>1 DEF HolderInv
  <2>8. AddrInv'
    <3> SUFFICES ASSUME "moved" \notin r_odd', NEW u \in Reg!Exposed' PROVE areg' = Reg!Acc(u).at'
      BY DEF AddrInv
    <3>1. u \in RegThreads
      BY DEF Reg!Exposed
    <3>2. u = t
      BY <1>4, <2>6, <3>1
    <3> QED
      BY <1>7, <2>3, <3>2
  <2>9. JobsAt'
    <3>1. JobAt(job[t], th'[t].i, th'[t].res, cell, r_odd)
      BY <1>5, <2>3
    <3> QED
      BY <1>0, <1>1, <1>4, <2>4, <3>1, JobsStay
  <2> QED
    BY <1>6, <2>3, <2>5, <2>7, <2>8, <2>9 DEF RegInv
<1>8. CASE /\ Reg!Fault /\ th' = Reg!After(t, FALSE, Reg!None) /\ areg' \in {areg, "nowhere"}
           /\ mutex' = (IF mutex = t THEN Reg!NoOne ELSE mutex)
  <2>1. Stepped(th', t, FALSE)
    BY <1>0, <1>1, <1>2, <1>8, AfterIs DEF Reg!None
  <2>2. /\ th' \in [RegThreads -> ThRec] /\ (\A u \in RegThreads : u # t => th'[u] = th[u]) /\ (\A u \in RegThreads : Placed(u)')
        /\ ~Holding(t)' /\ t \notin Reg!Exposed'
    BY <1>0, <1>1, <2>1, Beyond
  <2>3. RegTypes'
    <3>1. faults' \in 0 .. RegFaults
      BY <1>0, <1>8, RegSizes DEF RegTypes, Reg!Fault
    <3>2. areg' \in Regs /\ mutex' \in RegThreads \cup {Reg!NoOne}
      BY <1>0, <1>8 DEF RegTypes, Regs
    <3> QED
      BY <1>0, <1>1, <1>4, <2>2, <3>1, <3>2 DEF RegTypes
  <2>4. ASSUME NEW u \in RegThreads, u # t PROVE (Holding(u)' <=> Holding(u)) /\ (u \in Reg!Exposed' <=> u \in Reg!Exposed) /\ Reg!Acc(u)' = Reg!Acc(u)
    BY <1>1, <2>2, <2>4, OthersStay
  <2>5. HolderInv'
    <3>1. mutex' # t
      BY <1>8, RegSizes
    <3>2. ASSUME NEW u \in RegThreads, u # t PROVE mutex' = u <=> mutex = u
      BY <1>8, <3>2, RegSizes
    <3> QED
      BY <1>0, <2>2, <2>4, <3>1, <3>2 DEF HolderInv
  <2>6. AddrInv'
    <3> SUFFICES ASSUME "moved" \notin r_odd', NEW u \in Reg!Exposed' PROVE FALSE
      BY DEF AddrInv
    <3>1. u \in RegThreads /\ u # t
      BY <2>2 DEF Reg!Exposed
    <3> QED
      BY <1>4, <2>4, <3>1
  <2>7. JobsAt'
    <3>1. JobAt(job[t], th'[t].i, th'[t].res, cell, r_odd)
      BY <1>0, <1>1, <1>2, <1>5, <2>1, FailKeeps
    <3> QED
      BY <1>0, <1>1, <1>4, <2>2, <3>1, JobsStay
  <2> QED
    BY <1>6, <2>2, <2>3, <2>5, <2>6, <2>7 DEF RegInv
<1> QED
  BY <1>7, <1>8 DEF Reg!SetAddress

\* what the end of a transfer leaves of places, mutex and address
LEMMA XferEnds ==
  ASSUME RegInv, NEW t \in RegThreads, Reg!At(t, "xfer"), NEW ok \in BOOLEAN, Stepped(th', t, ok), job' = job, areg' = areg,
         mutex' = (IF Reg!Acc(t).op = "b" THEN mutex ELSE Reg!NoOne), r_odd \subseteq r_odd'
  PROVE  /\ th' \in [RegThreads -> ThRec] /\ (\A u \in RegThreads : u # t => th'[u] = th[u]) /\ (\A u \in RegThreads : Placed(u)')
         /\ mutex' \in RegThreads \cup {Reg!NoOne} /\ HolderInv' /\ AddrInv'
<1>0. RegTypes /\ (\A u \in RegThreads : Placed(u)) /\ HolderInv /\ AddrInv /\ Reg!Live(t) /\ th[t].pc = "xfer"
  BY DEF RegInv, Reg!At
<1>1. /\ th' \in [RegThreads -> ThRec] /\ (\A u \in RegThreads : u # t => th'[u] = th[u]) /\ (\A u \in RegThreads : Placed(u)')
      /\ ~Holding(t)' /\ t \notin Reg!Exposed'
  BY <1>0, Beyond
<1>2. ASSUME NEW u \in RegThreads, u # t PROVE (Holding(u)' <=> Holding(u)) /\ (u \in Reg!Exposed' <=> u \in Reg!Exposed) /\ Reg!Acc(u)' = Reg!Acc(u)
  BY <1>1, <1>2, OthersStay
<1>3. mutex' \in RegThreads \cup {Reg!NoOne}
  BY <1>0 DEF RegTypes
<1>4. HolderInv'
  <2>1. CASE Reg!Acc(t).op = "b"
    <3>1. ~Holding(t)
      BY <2>1 DEF Holding
    <3> QED
      BY <1>0, <1>1, <1>2, <2>1, <3>1 DEF HolderInv
  <2>2. CASE Reg!Acc(t).op # "b"
    <3>1. mutex = t
      BY <1>0, <2>2 DEF HolderInv, Holding
    <3>2. ASSUME NEW u \in RegThreads, u # t PROVE ~Holding(u)'
      BY <1>0, <1>2, <3>1, <3>2 DEF HolderInv
    <3>3. ASSUME NEW u \in RegThreads PROVE ~Holding(u)' /\ mutex' # u
      BY <1>1, <2>2, <3>2, RegSizes
    <3> QED
      BY <3>3 DEF HolderInv
  <2> QED
    BY <2>1, <2>2
<1>5. AddrInv'
  <2>1. ASSUME NEW u \in Reg!Exposed' PROVE u \in Reg!Exposed /\ Reg!Acc(u)' = Reg!Acc(u)
    <3>1. u \in RegThreads /\ u # t
      BY <1>1 DEF Reg!Exposed
    <3> QED
      BY <1>2, <3>1
  <2> QED
    BY <1>0, <2>1 DEF AddrInv
<1> QED
  BY <1>1, <1>3, <1>4, <1>5

LEMMA ReadKeeps ==
  ASSUME RegInv, NEW t \in RegThreads, Reg!XferRead(t)
  PROVE  RegInv'
<1>0. RegTypes /\ (\A u \in RegThreads : Placed(u)) /\ JobsAt /\ CellsAt(cell, r_odd)
  BY DEF RegInv
<1>1. /\ Reg!At(t, "xfer") /\ Reg!Live(t) /\ Reg!Acc(t).op = "r" /\ mutex' = Reg!NoOne /\ job' = job /\ areg' = areg /\ cell' = cell /\ host' = host
  BY DEF Reg!XferRead, Reg!At
<1>2. JobAt(job[t], th[t].i, th[t].res, cell, r_odd)
  BY <1>0 DEF JobsAt
<1>3. /\ faults' \in 0 .. RegFaults /\ r_odd' \in SUBSET Reg!Flags /\ r_odd \subseteq r_odd'
      /\ \E ok \in BOOLEAN : Stepped(th', t, ok)
      /\ JobAt(job[t], th'[t].i, th'[t].res, cell, r_odd')
  <2>1. CASE /\ th' = Reg!After(t, TRUE, Reg!Value(areg)) /\ UNCHANGED faults
             /\ r_odd' = r_odd \cup (IF Reg!Acc(t).at = "data" /\ cell["power"].n = Reg!None THEN {"unpowered"} ELSE {})
    <3>1. Reg!Value(areg) \in Nat
      BY <1>0 DEF Reg!Value, RegTypes, Reg!None
    <3>2. Stepped(th', t, TRUE)
      BY <1>0, <1>1, <2>1, <3>1, AfterIs
    <3>3. r_odd' \in SUBSET Reg!Flags /\ r_odd \subseteq r_odd' /\ faults' \in 0 .. RegFaults
      BY <1>0, <2>1 DEF RegTypes, Reg!Flags
    <3>4. Accesses(t)
      BY <1>0, <1>1, AccessIs
    <3>5. \/ job[t] = "pins" /\ th[t].i \in {1, 4}
          \/ job[t] = "dump" /\ th[t].i \in {1, 3}
          \/ job[t] = "dump" /\ th[t].i = 5 /\ Reg!Acc(t).at = "data"
      BY <1>1, <3>4 DEF Accesses
    <3>6. JobAt(job[t], th'[t].i, th'[t].res, cell, r_odd')
      <4>1. CASE job[t] = "pins" /\ th[t].i \in {1, 4}
        <5>1. Left(th', t, th[t].i + 1, "call", "none")
          BY <3>2, <4>1 DEF Stepped, JobLen
        <5>2. th'[t].i = th[t].i + 1 /\ th'[t].res = "none"
          BY <5>1 DEF Left
        <5>3. th'[t].i = 2 \/ (th'[t].i = 5 /\ th[t].i = 4)
          BY <4>1, <5>2
        <5> QED
          BY <1>2, <3>3, <4>1, <5>2, <5>3 DEF JobAt
      <4>2. CASE job[t] = "dump" /\ th[t].i \in {1, 3}
        <5>1. th'[t].res = "none"
          BY <3>2, <4>2 DEF Stepped, JobLen, Left
        <5> QED
          BY <4>2, <5>1 DEF JobAt
      <4>3. CASE job[t] = "dump" /\ th[t].i = 5 /\ Reg!Acc(t).at = "data"
        <5>1. "moved" \notin r_odd' => cell["power"].n = 1 \/ "unpowered" \in r_odd'
          BY <1>0, <2>1, <4>3 DEF CellsAt, Reg!None
        <5> QED
          BY <4>3, <5>1 DEF JobAt
      <4> QED
        BY <3>5, <4>1, <4>2, <4>3
    <3> QED
      BY <3>2, <3>3, <3>6
  <2>2. CASE Reg!Fault /\ th' = Reg!After(t, FALSE, Reg!None) /\ UNCHANGED r_odd
    <3>1. Stepped(th', t, FALSE)
      BY <1>0, <1>1, <2>2, AfterIs DEF Reg!None
    <3>2. JobAt(job[t], th'[t].i, th'[t].res, cell, r_odd)
      BY <1>0, <1>1, <1>2, <3>1, FailKeeps
    <3>3. faults' \in 0 .. RegFaults /\ r_odd' = r_odd
      BY <1>0, <2>2, RegSizes DEF RegTypes, Reg!Fault
    <3> QED
      BY <1>0, <3>1, <3>2, <3>3 DEF RegTypes
  <2> QED
    BY <2>1, <2>2 DEF Reg!XferRead
<1>4. /\ th' \in [RegThreads -> ThRec] /\ (\A u \in RegThreads : u # t => th'[u] = th[u]) /\ (\A u \in RegThreads : Placed(u)')
      /\ mutex' \in RegThreads \cup {Reg!NoOne} /\ HolderInv' /\ AddrInv'
  BY <1>1, <1>3, XferEnds
<1>5. RegTypes'
  BY <1>0, <1>1, <1>3, <1>4 DEF RegTypes
<1>6. JobsAt'
  <2>1. ASSUME NEW u \in RegThreads PROVE JobAt(job[u], th'[u].i, th'[u].res, cell, r_odd')
    <3>1. CASE u # t
      <4>1. JobAt(job[u], th'[u].i, th'[u].res, cell, r_odd)
        BY <1>0, <1>4, <3>1 DEF JobsAt
      <4> QED
        BY <1>3, <4>1, OddGrows
    <3> QED
      BY <1>3, <3>1
  <2> QED
    BY <1>1, <2>1 DEF JobsAt
<1>7. CellsAt(cell, r_odd)'
  BY <1>0, <1>1, <1>3, CellsOdd
<1> QED
  BY <1>4, <1>5, <1>6, <1>7 DEF RegInv

LEMMA ByteKeeps ==
  ASSUME RegInv, NEW t \in RegThreads, Reg!XferByte(t)
  PROVE  RegInv'
<1>0. RegTypes /\ (\A u \in RegThreads : Placed(u)) /\ JobsAt /\ CellsAt(cell, r_odd)
  BY DEF RegInv
<1>1. /\ Reg!At(t, "xfer") /\ Reg!Live(t) /\ Reg!Acc(t).op = "b" /\ mutex' = mutex /\ job' = job /\ areg' = areg /\ host' = host /\ r_odd' = r_odd
  BY DEF Reg!XferByte, Reg!At
<1>2. job[t] = "boot" /\ th[t].i = 3
  <2>1. Accesses(t)
    BY <1>0, <1>1, AccessIs
  <2> QED
    BY <1>1, <2>1 DEF Accesses
<1>3. JobAt(job[t], th[t].i, th[t].res, cell, r_odd)
  BY <1>0 DEF JobsAt
<1>4. CASE th' = Reg!After(t, TRUE, Reg!None) /\ cell' = [cell EXCEPT !["setup"].n = 1] /\ UNCHANGED faults
  <2>1. Stepped(th', t, TRUE)
    BY <1>0, <1>1, <1>4, AfterIs DEF Reg!None
  <2>2. /\ th' \in [RegThreads -> ThRec] /\ (\A u \in RegThreads : u # t => th'[u] = th[u]) /\ (\A u \in RegThreads : Placed(u)')
        /\ mutex' \in RegThreads \cup {Reg!NoOne} /\ HolderInv' /\ AddrInv'
    BY <1>1, <2>1, XferEnds
  <2>3. cell' \in [Reg!Cells -> [of : Reg!Cells, n : Nat]] /\ cell'["setup"].n = 1 /\ (\A c \in Reg!Cells : c # "setup" => cell'[c] = cell[c])
        /\ \A c \in Reg!Cells : cell'[c].of = cell[c].of
    BY <1>0, <1>4 DEF RegTypes, Reg!Cells
  <2>4. RegTypes'
    BY <1>0, <1>1, <1>4, <2>2, <2>3 DEF RegTypes
  <2>5. th'[t].i = 4
    BY <1>2, <2>1 DEF Stepped, Left, JobLen
  <2>6. ASSUME NEW u \in RegThreads PROVE JobAt(job[u], th'[u].i, th'[u].res, cell', r_odd)
    <3>1. CASE u = t
      BY <1>2, <2>3, <2>5, <3>1 DEF JobAt
    <3>2. CASE u # t
      <4>1. job[u] # "boot" /\ JobAt(job[u], th'[u].i, th'[u].res, cell, r_odd)
        BY <1>0, <1>2, <2>2, <3>2 DEF JobsAt, RegTypes
      <4>2. cell'["pin"] = cell["pin"] /\ cell'["flag"] = cell["flag"] /\ cell'["power"] = cell["power"] /\ cell'["fifo"] = cell["fifo"]
        BY <2>3 DEF Reg!Cells
      <4> QED
        BY <4>1, <4>2 DEF JobAt
    <3> QED
      BY <3>1, <3>2
  <2>7. JobsAt'
    BY <1>1, <2>6 DEF JobsAt
  <2>8. CellsAt(cell, r_odd)'
    <3>1. cell'["dram"] = cell["dram"] /\ cell'["iram"] = cell["iram"] /\ cell'["power"] = cell["power"]
      BY <2>3 DEF Reg!Cells
    <3>2. "moved" \notin r_odd => cell["dram"].n = RegChunks /\ cell["iram"].n = RegChunks
      BY <1>2, <1>3 DEF JobAt
    <3> QED
      BY <1>0, <1>1, <2>3, <3>1, <3>2 DEF CellsAt
  <2> QED
    BY <2>2, <2>4, <2>7, <2>8 DEF RegInv
<1>5. CASE Reg!Fault /\ th' = Reg!After(t, FALSE, Reg!None) /\ UNCHANGED cell
  <2>1. Stepped(th', t, FALSE)
    BY <1>0, <1>1, <1>5, AfterIs DEF Reg!None
  <2>2. /\ th' \in [RegThreads -> ThRec] /\ (\A u \in RegThreads : u # t => th'[u] = th[u]) /\ (\A u \in RegThreads : Placed(u)')
        /\ mutex' \in RegThreads \cup {Reg!NoOne} /\ HolderInv' /\ AddrInv'
    BY <1>1, <2>1, XferEnds
  <2>3. faults' \in 0 .. RegFaults
    BY <1>0, <1>5, RegSizes DEF RegTypes, Reg!Fault
  <2>4. RegTypes'
    BY <1>0, <1>1, <1>5, <2>2, <2>3 DEF RegTypes
  <2>5. JobsAt'
    <3>1. JobAt(job[t], th'[t].i, th'[t].res, cell, r_odd)
      BY <1>0, <1>1, <1>3, <2>1, FailKeeps
    <3> QED
      BY <1>0, <1>1, <1>5, <2>2, <3>1, JobsStay
  <2>6. CellsAt(cell, r_odd)'
    BY <1>0, <1>1, <1>5
  <2> QED
    BY <2>2, <2>4, <2>5, <2>6 DEF RegInv
<1> QED
  BY <1>4, <1>5 DEF Reg!XferByte

LEMMA PacketKeeps ==
  ASSUME RegInv, NEW t \in RegThreads, Reg!XferPacket(t)
  PROVE  RegInv'
<1>0. RegTypes /\ (\A u \in RegThreads : Placed(u)) /\ JobsAt /\ CellsAt(cell, r_odd)
  BY DEF RegInv
<1>1. /\ Reg!At(t, "xfer") /\ Reg!Live(t) /\ Reg!Acc(t).op = "p" /\ mutex' = Reg!NoOne /\ job' = job /\ areg' = areg /\ host' = host
  BY DEF Reg!XferPacket, Reg!At
<1>2. job[t] = "data" /\ th[t].i = 1
  <2>1. Accesses(t)
    BY <1>0, <1>1, AccessIs
  <2> QED
    BY <1>1, <2>1 DEF Accesses
<1>3. JobAt(job[t], th[t].i, th[t].res, cell, r_odd)
  BY <1>0 DEF JobsAt
<1>4. CASE /\ th' = Reg!After(t, TRUE, Reg!None) /\ UNCHANGED faults
           /\ cell' = (IF host.off THEN cell ELSE [cell EXCEPT !["fifo"].n = 1])
           /\ r_odd' = r_odd \cup (IF host.off THEN {"unsent"} ELSE {})
  <2>1. Stepped(th', t, TRUE)
    BY <1>0, <1>1, <1>4, AfterIs DEF Reg!None
  <2>2. r_odd \subseteq r_odd' /\ r_odd' \in SUBSET Reg!Flags
    BY <1>0, <1>4 DEF RegTypes, Reg!Flags
  <2>3. /\ th' \in [RegThreads -> ThRec] /\ (\A u \in RegThreads : u # t => th'[u] = th[u]) /\ (\A u \in RegThreads : Placed(u)')
        /\ mutex' \in RegThreads \cup {Reg!NoOne} /\ HolderInv' /\ AddrInv'
    BY <1>1, <2>1, <2>2, XferEnds
  <2>4. cell' \in [Reg!Cells -> [of : Reg!Cells, n : Nat]] /\ (\A c \in Reg!Cells : c # "fifo" => cell'[c] = cell[c])
        /\ (\A c \in Reg!Cells : cell'[c].of = cell[c].of) /\ cell'["fifo"].n \in {1, cell["fifo"].n} /\ (cell'["fifo"].n = 1 \/ "unsent" \in r_odd')
    BY <1>0, <1>4 DEF RegTypes, Reg!Cells
  <2>5. RegTypes'
    BY <1>0, <1>1, <1>4, <2>2, <2>3, <2>4 DEF RegTypes
  <2>6. /\ cell'["setup"] = cell["setup"] /\ cell'["dram"] = cell["dram"] /\ cell'["iram"] = cell["iram"]
        /\ cell'["pin"] = cell["pin"] /\ cell'["flag"] = cell["flag"] /\ cell'["power"] = cell["power"]
    BY <2>4 DEF Reg!Cells
  <2>7. ASSUME NEW u \in RegThreads PROVE JobAt(job[u], th'[u].i, th'[u].res, cell', r_odd')
    <3>1. CASE u = t
      BY <1>2, <2>4, <3>1 DEF JobAt
    <3>2. CASE u # t
      <4>1. JobAt(job[u], th'[u].i, th'[u].res, cell, r_odd)
        BY <1>0, <2>3, <3>2 DEF JobsAt
      <4>2. JobAt(job[u], th'[u].i, th'[u].res, cell, r_odd')
        BY <2>2, <4>1, OddGrows
      <4> QED
        BY <2>4, <2>6, <4>2 DEF JobAt
    <3> QED
      BY <3>1, <3>2
  <2>8. JobsAt'
    BY <1>1, <2>7 DEF JobsAt
  <2>9. CellsAt(cell, r_odd)'
    <3>1. CellsAt(cell, r_odd')
      BY <1>0, <2>2, CellsOdd
    <3> QED
      BY <2>4, <2>6, <3>1 DEF CellsAt
  <2> QED
    BY <2>3, <2>5, <2>8, <2>9 DEF RegInv
<1>5. CASE Reg!Fault /\ th' = Reg!After(t, FALSE, Reg!None) /\ UNCHANGED <<cell, r_odd>>
  <2>1. Stepped(th', t, FALSE)
    BY <1>0, <1>1, <1>5, AfterIs DEF Reg!None
  <2>2. /\ th' \in [RegThreads -> ThRec] /\ (\A u \in RegThreads : u # t => th'[u] = th[u]) /\ (\A u \in RegThreads : Placed(u)')
        /\ mutex' \in RegThreads \cup {Reg!NoOne} /\ HolderInv' /\ AddrInv'
    BY <1>1, <1>5, <2>1, XferEnds
  <2>3. faults' \in 0 .. RegFaults
    BY <1>0, <1>5, RegSizes DEF RegTypes, Reg!Fault
  <2>4. RegTypes'
    BY <1>0, <1>1, <1>5, <2>2, <2>3 DEF RegTypes
  <2>5. JobsAt'
    <3>1. JobAt(job[t], th'[t].i, th'[t].res, cell, r_odd)
      BY <1>0, <1>1, <1>3, <2>1, FailKeeps
    <3> QED
      BY <1>0, <1>1, <1>5, <2>2, <3>1, JobsStay
  <2>6. CellsAt(cell, r_odd)'
    BY <1>0, <1>1, <1>5
  <2> QED
    BY <2>2, <2>4, <2>5, <2>6 DEF RegInv
<1> QED
  BY <1>4, <1>5 DEF Reg!XferPacket

\* a cell written by t: all of it, or the blocks before the error
Written(t, n) ==
    IF areg \notin Reg!Cells \/ n = 0 THEN cell
    ELSE [cell EXCEPT ![areg] = [of |-> Reg!Acc(t).at, n |-> IF Reg!Full(Reg!Acc(t).at) = 1 THEN Reg!Bit(t) ELSE n]]

LEMMA WrittenIs ==
  ASSUME RegInv, NEW t \in RegThreads, Reg!Live(t), Reg!Acc(t).op = "w", th[t].pc = "xfer", NEW n \in 0 .. Reg!Full(Reg!Acc(t).at)
  PROVE  /\ Written(t, n) \in [Reg!Cells -> [of : Reg!Cells, n : Nat]]
         /\ \A c \in Reg!Cells : c # areg => Written(t, n)[c] = cell[c]
         /\ Written(t, n)["setup"] = cell["setup"] /\ Written(t, n)["fifo"] = cell["fifo"]
         /\ "moved" \notin r_odd => areg = Reg!Acc(t).at /\ \A c \in Reg!Cells : Written(t, n)[c].of = c
         /\ areg \in Reg!Cells => \/ Written(t, n)[areg] = cell[areg]
                              \/ Written(t, n)[areg].n = (IF Reg!Full(Reg!Acc(t).at) = 1 THEN Reg!Bit(t) ELSE n)
         /\ areg \in Reg!Cells /\ n = Reg!Full(Reg!Acc(t).at) =>
               Written(t, n)[areg].n = (IF Reg!Full(Reg!Acc(t).at) = 1 THEN Reg!Bit(t) ELSE n)
<1>0. RegTypes /\ AddrInv /\ CellsAt(cell, r_odd)
  BY DEF RegInv
<1>1. Accesses(t)
  BY <1>0, AccessIs
<1>2. Reg!Acc(t).at \in {"dram", "iram", "flag", "pin", "svc", "power"}
  BY <1>1 DEF Accesses
<1>3. Reg!Full(Reg!Acc(t).at) \in Nat \ {0} /\ Reg!Bit(t) \in {0, 1}
  BY RegSizes DEF Reg!Full, Reg!Bit
<1>4. "moved" \notin r_odd => areg = Reg!Acc(t).at
  BY <1>0 DEF AddrInv, Reg!Exposed
<1> DEFINE m == IF Reg!Full(Reg!Acc(t).at) = 1 THEN Reg!Bit(t) ELSE n
<1>5. m \in Nat
  BY <1>3
<1>6. Written(t, n) = IF areg \notin Reg!Cells \/ n = 0 THEN cell ELSE [cell EXCEPT ![areg] = [of |-> Reg!Acc(t).at, n |-> m]]
  BY DEF Written
<1> HIDE DEF m
<1>7. cell \in [Reg!Cells -> [of : Reg!Cells, n : Nat]] /\ areg \notin {"setup", "fifo"} /\ Reg!Acc(t).at \in Reg!Cells
  BY <1>0, <1>2 DEF RegTypes, Regs, Reg!Cells
<1>8. Written(t, n) \in [Reg!Cells -> [of : Reg!Cells, n : Nat]]
  BY <1>5, <1>6, <1>7
<1>9. \A c \in Reg!Cells : c # areg => Written(t, n)[c] = cell[c]
  BY <1>6, <1>7
<1>10. Written(t, n)["setup"] = cell["setup"] /\ Written(t, n)["fifo"] = cell["fifo"]
  BY <1>7, <1>9 DEF Reg!Cells
<1>11. areg \in Reg!Cells => Written(t, n)[areg] = cell[areg] \/ Written(t, n)[areg].n = m
  BY <1>6, <1>7
<1>12. areg \in Reg!Cells /\ n = Reg!Full(Reg!Acc(t).at) => Written(t, n)[areg].n = m
  BY <1>3, <1>6, <1>7
<1>13. "moved" \notin r_odd => \A c \in Reg!Cells : Written(t, n)[c].of = c
  BY <1>0, <1>4, <1>6, <1>7 DEF CellsAt
<1> QED
  BY <1>4, <1>8, <1>9, <1>10, <1>11, <1>12, <1>13 DEF m

\* the other threads' cells are not those that t writes
LEMMA WriteOthers ==
  ASSUME RegInv, NEW t \in RegThreads, Reg!Live(t), Reg!Acc(t).op = "w", th[t].pc = "xfer", NEW n \in 0 .. Reg!Full(Reg!Acc(t).at),
         NEW u \in RegThreads, u # t
  PROVE  JobAt(job[u], th[u].i, th[u].res, Written(t, n), r_odd)
<1>0. RegTypes /\ JobAt(job[u], th[u].i, th[u].res, cell, r_odd)
  BY DEF RegInv, JobsAt
<1> DEFINE c == Written(t, n)
<1>1. /\ \A x \in Reg!Cells : x # areg => c[x] = cell[x]
      /\ c["setup"] = cell["setup"] /\ c["fifo"] = cell["fifo"]
      /\ "moved" \notin r_odd => areg = Reg!Acc(t).at
  BY WrittenIs
<1>2. areg \in Reg!Cells /\ n = Reg!Full(Reg!Acc(t).at) => c[areg].n = (IF Reg!Full(Reg!Acc(t).at) = 1 THEN Reg!Bit(t) ELSE n)
  BY WrittenIs
<1>3. areg \in Reg!Cells => c[areg] = cell[areg] \/ c[areg].n = (IF Reg!Full(Reg!Acc(t).at) = 1 THEN Reg!Bit(t) ELSE n)
  BY WrittenIs
<1> SUFFICES JobAt(job[u], th[u].i, th[u].res, c, r_odd)
  OBVIOUS
<1> HIDE DEF c
<1>4. Accesses(t)
  BY <1>0, AccessIs
<1>5. job[u] \in {"boot", "pins"} => job[t] # job[u]
  BY <1>0 DEF RegTypes
<1>6. CASE "moved" \in r_odd
  BY <1>0, <1>1, <1>6 DEF JobAt
<1>7. CASE "moved" \notin r_odd /\ job[u] = "boot"
  <2>1. areg \notin {"dram", "iram"}
    BY <1>1, <1>4, <1>5, <1>7 DEF Accesses
  <2>2. c["dram"] = cell["dram"] /\ c["iram"] = cell["iram"]
    BY <1>1, <2>1 DEF Reg!Cells
  <2> QED
    BY <1>0, <1>1, <1>7, <2>2 DEF JobAt
<1>8. CASE "moved" \notin r_odd /\ job[u] = "pins"
  <2>1. areg \notin {"flag", "pin"}
    BY <1>1, <1>4, <1>5, <1>8 DEF Accesses
  <2>2. c["flag"] = cell["flag"] /\ c["pin"] = cell["pin"]
    BY <1>1, <2>1 DEF Reg!Cells
  <2> QED
    BY <1>0, <1>8, <2>2 DEF JobAt
<1>9. CASE "moved" \notin r_odd /\ job[u] = "dump"
  <2>1. areg = "power" => Reg!Full(Reg!Acc(t).at) = 1 /\ Reg!Bit(t) = 1
    <3>1. areg = "power" => job[t] = "dump" /\ Reg!Acc(t).at = "power"
      BY <1>1, <1>4, <1>9 DEF Accesses
    <3> QED
      BY <3>1 DEF Reg!Full, Reg!Bit
  <2>2. c["power"] = cell["power"] \/ c["power"].n = 1
    BY <1>1, <1>3, <2>1 DEF Reg!Cells
  <2> QED
    BY <1>0, <1>9, <2>2 DEF JobAt
<1>10. CASE job[u] = "data"
  BY <1>0, <1>1, <1>10 DEF JobAt
<1> QED
  <2>1. job[u] \in JobNames
    BY <1>0 DEF RegTypes
  <2> QED
    BY <1>6, <1>7, <1>8, <1>9, <1>10, <2>1 DEF JobNames

LEMMA WriteCells ==
  ASSUME RegInv, NEW t \in RegThreads, Reg!Live(t), Reg!Acc(t).op = "w", th[t].pc = "xfer", NEW n \in 0 .. Reg!Full(Reg!Acc(t).at)
  PROVE  CellsAt(Written(t, n), r_odd)
<1>0. RegTypes /\ CellsAt(cell, r_odd) /\ JobAt(job[t], th[t].i, th[t].res, cell, r_odd)
  BY DEF RegInv, JobsAt
<1> DEFINE c == Written(t, n)
<1>1. /\ \A x \in Reg!Cells : x # areg => c[x] = cell[x]
      /\ c["setup"] = cell["setup"] /\ c["fifo"] = cell["fifo"]
      /\ "moved" \notin r_odd => areg = Reg!Acc(t).at /\ \A x \in Reg!Cells : c[x].of = x
  BY WrittenIs
<1>2. areg \in Reg!Cells => c[areg] = cell[areg] \/ c[areg].n = (IF Reg!Full(Reg!Acc(t).at) = 1 THEN Reg!Bit(t) ELSE n)
  BY WrittenIs
<1> HIDE DEF c
<1>3. Accesses(t)
  BY <1>0, AccessIs
<1>4. ASSUME "moved" \notin r_odd PROVE c["power"].n \in {0, 1}
  <2>1. areg = "power" => Reg!Full(Reg!Acc(t).at) = 1 /\ Reg!Bit(t) = 1
    <3>1. areg = "power" => job[t] = "dump" /\ Reg!Acc(t).at = "power"
      BY <1>1, <1>3, <1>4 DEF Accesses
    <3> QED
      BY <3>1 DEF Reg!Full, Reg!Bit
  <2>2. c["power"] = cell["power"] \/ c["power"].n = 1
    BY <1>1, <1>2, <2>1 DEF Reg!Cells
  <2> QED
    BY <1>0, <1>4, <2>2 DEF CellsAt
<1>5. ASSUME "moved" \notin r_odd, c["setup"].n = 1 PROVE c["dram"].n = RegChunks /\ c["iram"].n = RegChunks
  <2>1. areg \notin {"dram", "iram"}
    <3>1. ~(job[t] = "boot" /\ th[t].i \in {1, 2})
      BY <1>0, <1>1, <1>5 DEF JobAt
    <3> QED
      BY <1>1, <1>3, <1>5, <3>1 DEF Accesses
  <2>2. c["dram"] = cell["dram"] /\ c["iram"] = cell["iram"]
    BY <1>1, <2>1 DEF Reg!Cells
  <2> QED
    BY <1>0, <1>1, <1>5, <2>2 DEF CellsAt
<1>6. c["setup"].n \in {0, 1}
  BY <1>0, <1>1 DEF CellsAt
<1> QED
  BY <1>1, <1>4, <1>5, <1>6 DEF CellsAt, c

\* the writer's own cells: after all blocks it goes on, after an error it gives up or tries again
LEMMA WriteOwn ==
  ASSUME RegInv, NEW t \in RegThreads, Reg!Live(t), Reg!Acc(t).op = "w", th[t].pc = "xfer", NEW n \in 0 .. Reg!Full(Reg!Acc(t).at),
         NEW ok \in BOOLEAN, ok <=> n = Reg!Full(Reg!Acc(t).at), Stepped(th', t, ok)
  PROVE  JobAt(job[t], th'[t].i, th'[t].res, Written(t, n), r_odd)
<1>0. RegTypes /\ Placed(t) /\ JobAt(job[t], th[t].i, th[t].res, cell, r_odd)
  BY DEF RegInv, JobsAt
<1> DEFINE c == Written(t, n)
<1>1. /\ \A x \in Reg!Cells : x # areg => c[x] = cell[x]
      /\ c["setup"] = cell["setup"]
      /\ "moved" \notin r_odd => areg = Reg!Acc(t).at
  BY WrittenIs
<1>2. areg \in Reg!Cells /\ n = Reg!Full(Reg!Acc(t).at) => c[areg].n = (IF Reg!Full(Reg!Acc(t).at) = 1 THEN Reg!Bit(t) ELSE n)
  BY WrittenIs
<1> HIDE DEF c
<1>3. Accesses(t)
  BY <1>0, AccessIs
<1>4. CASE ~ok
  <2>1. JobAt(job[t], th[t].i, th[t].res, c, r_odd)
    <3>1. CASE job[t] = "boot" /\ th[t].i = 1 /\ Reg!Acc(t).at = "dram"
      BY <1>0, <1>1, <3>1 DEF JobAt
    <3>2. CASE job[t] = "boot" /\ th[t].i = 2 /\ Reg!Acc(t).at = "iram"
      <4>1. "moved" \notin r_odd => c["dram"] = cell["dram"]
        BY <1>1, <3>2 DEF Reg!Cells
      <4> QED
        BY <1>0, <1>1, <3>2, <4>1 DEF JobAt
    <3>3. CASE job[t] = "pins" /\ (Reg!Acc(t).at = "flag" \/ (Reg!Acc(t).at = "pin" /\ th[t].i = 3))
      <4>1. "moved" \notin r_odd /\ th[t].i # 3 => c["pin"] = cell["pin"]
        BY <1>1, <3>3 DEF Reg!Cells
      <4>2. th[t].res = "none"
        BY <1>0, LiveIs, ThFields DEF Placed, RegTypes, JobLen, JobNames
      <4> QED
        BY <1>0, <3>3, <4>1, <4>2 DEF JobAt
    <3>4. CASE job[t] = "dump"
      <4>1. th[t].res = "none"
        BY <1>0, LiveIs, ThFields DEF Placed, RegTypes, JobLen, JobNames
      <4> QED
        BY <3>4, <4>1 DEF JobAt
    <3> QED
      BY <1>3, <3>1, <3>2, <3>3, <3>4 DEF Accesses
  <2>2. JobAt(job[t], th'[t].i, th'[t].res, c, r_odd)
    <3>1. Stepped(th', t, FALSE)
      BY <1>4
    <3> QED
      BY <1>0, <2>1, <3>1, FailKeeps
  <2> QED
    BY <2>2 DEF c
<1>5. CASE ok
  <2>1. areg \in Reg!Cells => c[areg].n = (IF Reg!Full(Reg!Acc(t).at) = 1 THEN Reg!Bit(t) ELSE n)
    BY <1>2, <1>5
  <2>2. CASE job[t] = "boot" /\ th[t].i \in {1, 2} /\ Reg!Acc(t).at = (IF th[t].i = 1 THEN "dram" ELSE "iram")
    <3>1. Left(th', t, th[t].i + 1, "call", "none")
      BY <1>5, <2>2 DEF Stepped, JobLen
    <3>2. th'[t].i = th[t].i + 1 /\ th'[t].res = "none"
      BY <3>1 DEF Left
    <3>3. Reg!Full(Reg!Acc(t).at) = RegChunks /\ Reg!Bit(t) = 1
      BY <2>2 DEF Reg!Full, Reg!Bit
    <3>4. "moved" \notin r_odd => c[Reg!Acc(t).at].n = RegChunks
      BY <1>1, <1>5, <2>1, <2>2, <3>3 DEF Reg!Cells
    <3>5. CASE th[t].i = 1
      <4>1. th'[t].i = 2
        BY <3>2, <3>5
      <4> QED
        BY <1>0, <1>1, <2>2, <3>2, <3>4, <3>5, <4>1 DEF JobAt, c
    <3>6. CASE th[t].i = 2
      <4>1. th'[t].i = 3
        BY <3>2, <3>6
      <4>2. "moved" \notin r_odd => c["dram"] = cell["dram"]
        BY <1>1, <2>2, <3>6 DEF Reg!Cells
      <4> QED
        BY <1>0, <1>1, <2>2, <3>2, <3>4, <3>6, <4>1, <4>2 DEF JobAt, c
    <3> QED
      BY <2>2, <3>5, <3>6
  <2>3. CASE job[t] = "pins" /\ th[t].i \in {2, 3} /\ (th[t].i = 3 => Reg!Acc(t).at = "pin")
    <3>1. Left(th', t, th[t].i + 1, "call", "none")
      BY <1>5, <2>3 DEF Stepped, JobLen
    <3>2. th'[t].i = th[t].i + 1 /\ th'[t].res = "none"
      BY <3>1 DEF Left
    <3>3. th'[t].i = 3 \/ (th'[t].i = 4 /\ th[t].i = 3)
      BY <2>3, <3>2
    <3>4. "moved" \notin r_odd /\ th[t].i = 3 => c["pin"].n = 1
      BY <1>1, <2>1, <2>3 DEF Reg!Cells, Reg!Full, Reg!Bit
    <3> QED
      BY <2>3, <3>2, <3>3, <3>4 DEF JobAt, c
  <2>4. CASE job[t] = "pins" /\ th[t].i = 5 /\ Reg!Acc(t).at = "flag"
    <3>1. "moved" \notin r_odd => c["flag"].n = 0
      BY <1>1, <2>1, <2>4 DEF Reg!Cells, Reg!Full, Reg!Bit
    <3>2. "moved" \notin r_odd => c["pin"].n = 1
      <4>1. "moved" \notin r_odd => c["pin"] = cell["pin"]
        BY <1>1, <2>4 DEF Reg!Cells
      <4> QED
        BY <1>0, <2>4, <4>1 DEF JobAt
    <3> QED
      BY <2>4, <3>1, <3>2 DEF JobAt, c
  <2>5. CASE job[t] = "dump" /\ th[t].i \in {2, 4}
    <3>1. th'[t].res = "none"
      BY <1>5, <2>5 DEF Stepped, JobLen, Left
    <3> QED
      BY <2>5, <3>1 DEF JobAt
  <2> QED
    BY <1>3, <2>2, <2>3, <2>4, <2>5 DEF Accesses
<1> QED
  BY <1>4, <1>5

LEMMA WriteKeeps ==
  ASSUME RegInv, NEW t \in RegThreads, Reg!XferWrite(t)
  PROVE  RegInv'
<1>0. RegTypes /\ (\A u \in RegThreads : Placed(u))
  BY DEF RegInv
<1>1. /\ Reg!At(t, "xfer") /\ Reg!Live(t) /\ th[t].pc = "xfer" /\ Reg!Acc(t).op = "w" /\ mutex' = Reg!NoOne /\ job' = job /\ areg' = areg
      /\ host' = host /\ r_odd' = r_odd
  BY DEF Reg!XferWrite, Reg!At
<1>2. PICK n \in 0 .. Reg!Full(Reg!Acc(t).at) :
        LET ok == n = Reg!Full(Reg!Acc(t).at) IN
        /\ (ok /\ UNCHANGED faults) \/ (~ok /\ Reg!Fault)
        /\ cell' = (IF areg \notin Reg!Cells THEN cell ELSE
                    [cell EXCEPT ![areg] = IF n = 0 THEN @ ELSE [of |-> Reg!Acc(t).at, n |-> IF Reg!Full(Reg!Acc(t).at) = 1 THEN Reg!Bit(t) ELSE n]])
        /\ th' = Reg!After(t, ok, Reg!None)
  BY Zenon DEF Reg!XferWrite
<1> DEFINE ok == n = Reg!Full(Reg!Acc(t).at)
<1>3. ok \in BOOLEAN /\ (ok <=> n = Reg!Full(Reg!Acc(t).at)) /\ th' = Reg!After(t, ok, Reg!None)
  BY <1>2
<1>4. faults' \in 0 .. RegFaults
  BY <1>0, <1>2, RegSizes DEF RegTypes, Reg!Fault
<1>5. cell' = Written(t, n)
  <2>1. cell \in [Reg!Cells -> [of : Reg!Cells, n : Nat]]
    BY <1>0 DEF RegTypes
  <2> QED
    BY <1>2, <2>1 DEF Written
<1> HIDE DEF ok
<1>6. Stepped(th', t, ok)
  BY <1>0, <1>1, <1>3, AfterIs DEF Reg!None
<1>7. /\ th' \in [RegThreads -> ThRec] /\ (\A u \in RegThreads : u # t => th'[u] = th[u]) /\ (\A u \in RegThreads : Placed(u)')
      /\ mutex' \in RegThreads \cup {Reg!NoOne} /\ HolderInv' /\ AddrInv'
  BY <1>1, <1>3, <1>6, XferEnds
<1>8. Written(t, n) \in [Reg!Cells -> [of : Reg!Cells, n : Nat]]
  BY <1>1, WrittenIs
<1>9. RegTypes'
  BY <1>0, <1>1, <1>4, <1>5, <1>7, <1>8 DEF RegTypes
<1>10. JobsAt'
  <2>1. ASSUME NEW u \in RegThreads PROVE JobAt(job[u], th'[u].i, th'[u].res, Written(t, n), r_odd)
    <3>1. CASE u = t
      BY <1>1, <1>3, <1>6, <3>1, WriteOwn
    <3>2. CASE u # t
      <4>1. JobAt(job[u], th[u].i, th[u].res, Written(t, n), r_odd)
        BY <1>1, <3>2, WriteOthers
      <4> QED
        BY <1>7, <3>2, <4>1
    <3> QED
      BY <3>1, <3>2
  <2> QED
    BY <1>1, <1>5, <2>1 DEF JobsAt
<1>11. CellsAt(cell, r_odd)'
  BY <1>1, <1>5, WriteCells
<1> QED
  BY <1>7, <1>9, <1>10, <1>11 DEF RegInv

LEMMA PowerOffKeeps ==
  ASSUME RegInv, Reg!PowerOff
  PROVE  RegInv'
<1>0. RegTypes /\ (\A u \in RegThreads : Placed(u)) /\ HolderInv /\ AddrInv /\ JobsAt /\ CellsAt(cell, r_odd)
  BY DEF RegInv
<1>1. /\ host' = [host EXCEPT !.off = TRUE] /\ job' = job /\ th' = th /\ areg' = areg /\ mutex' = mutex /\ cell' = cell
      /\ faults' = faults /\ r_odd' = r_odd
  BY DEF Reg!PowerOff
<1>2. RegTypes'
  BY <1>0, <1>1 DEF RegTypes
<1>3. ASSUME NEW u \in RegThreads PROVE Placed(u)' /\ (Holding(u)' <=> Holding(u)) /\ (u \in Reg!Exposed' <=> u \in Reg!Exposed) /\ Reg!Acc(u)' = Reg!Acc(u)
  BY <1>0, <1>1, OthersStay
<1>4. HolderInv'
  BY <1>0, <1>1, <1>3 DEF HolderInv
<1>5. AddrInv'
  <2>1. ASSUME NEW u \in Reg!Exposed' PROVE u \in Reg!Exposed /\ Reg!Acc(u)' = Reg!Acc(u)
    BY <1>3 DEF Reg!Exposed
  <2> QED
    BY <1>0, <1>1, <2>1 DEF AddrInv
<1>6. JobsAt'
  BY <1>0, <1>1 DEF JobsAt
<1>7. CellsAt(cell, r_odd)'
  BY <1>0, <1>1
<1> QED
  BY <1>2, <1>3, <1>4, <1>5, <1>6, <1>7 DEF RegInv

LEMMA RegStutters ==
  ASSUME RegInv, UNCHANGED Reg!vars
  PROVE  RegInv'
<1>0. RegTypes /\ (\A u \in RegThreads : Placed(u)) /\ HolderInv /\ AddrInv /\ JobsAt /\ CellsAt(cell, r_odd)
  BY DEF RegInv
<1>1. /\ host' = host /\ job' = job /\ th' = th /\ areg' = areg /\ mutex' = mutex /\ cell' = cell
      /\ faults' = faults /\ r_odd' = r_odd
  BY DEF Reg!vars
<1>2. RegTypes'
  BY <1>0, <1>1 DEF RegTypes
<1>3. ASSUME NEW u \in RegThreads PROVE Placed(u)' /\ (Holding(u)' <=> Holding(u)) /\ (u \in Reg!Exposed' <=> u \in Reg!Exposed) /\ Reg!Acc(u)' = Reg!Acc(u)
  BY <1>0, <1>1, OthersStay
<1>4. HolderInv'
  BY <1>0, <1>1, <1>3 DEF HolderInv
<1>5. AddrInv'
  <2>1. ASSUME NEW u \in Reg!Exposed' PROVE u \in Reg!Exposed /\ Reg!Acc(u)' = Reg!Acc(u)
    BY <1>3 DEF Reg!Exposed
  <2> QED
    BY <1>0, <1>1, <2>1 DEF AddrInv
<1>6. JobsAt'
  BY <1>0, <1>1 DEF JobsAt
<1>7. CellsAt(cell, r_odd)'
  BY <1>0, <1>1
<1> QED
  BY <1>2, <1>3, <1>4, <1>5, <1>6, <1>7 DEF RegInv

LEMMA RegBegins == Reg!Init => RegInv
<1> SUFFICES ASSUME Reg!Init PROVE RegInv
  OBVIOUS
<1>1. /\ th = [t \in RegThreads |-> Reg!Start(job[t])] /\ areg = "dram" /\ mutex = Reg!NoOne
      /\ cell = [c \in Reg!Cells |-> [of |-> c, n |-> 0]] /\ host = [noted |-> FALSE, off |-> FALSE] /\ faults = RegFaults /\ r_odd = {}
  BY DEF Reg!Init, Reg!None
<1>2. job \in [RegThreads -> JobNames] /\ \A t, u \in RegThreads : t # u /\ job[t] = job[u] => job[t] \in {"dump", "data"}
  <2>1. job \in {f \in [RegThreads -> DOMAIN Reg!Jobs] : \A t, u \in RegThreads : f[t] = f[u] /\ t # u => f[t] \in {"dump", "data"}}
    BY DEF Reg!Init
  <2>2. DOMAIN Reg!Jobs = JobNames
    BY DEF Reg!Jobs, JobNames
  <2> QED
    BY <2>1, <2>2
<1>3. ASSUME NEW t \in RegThreads
      PROVE  th[t] = [i |-> 1, pc |-> "call", tries |-> 0, val |-> 0, res |-> "none"]
  BY <1>1 DEF Reg!Start, Reg!None
<1>4. th \in [RegThreads -> ThRec]
  BY <1>1 DEF Reg!Start, Reg!None, ThRec, Pcs
<1>5. RegTypes
  <2>1. cell \in [Reg!Cells -> [of : Reg!Cells, n : Nat]]
    BY <1>1
  <2>2. faults \in 0 .. RegFaults /\ r_odd \in SUBSET Reg!Flags /\ areg \in Regs /\ mutex \in RegThreads \cup {Reg!NoOne}
    BY <1>1, RegSizes DEF Regs
  <2>3. host \in [noted : BOOLEAN, off : BOOLEAN]
    BY <1>1
  <2> QED
    BY <1>2, <1>4, <2>1, <2>2, <2>3 DEF RegTypes
<1>6. ASSUME NEW t \in RegThreads PROVE Placed(t) /\ ~Holding(t) /\ t \notin Reg!Exposed
  <2>1. th[t].i = 1 /\ th[t].pc = "call" /\ th[t].res = "none"
    BY <1>3
  <2>2. 1 <= JobLen(job[t]) + 1 /\ 1 # JobLen(job[t]) + 1
    BY <1>2 DEF JobLen, JobNames
  <2> QED
    BY <2>1, <2>2 DEF Placed, Holding, Reg!Exposed
<1>7. HolderInv
  BY <1>1, <1>6, RegSizes DEF HolderInv
<1>8. AddrInv
  BY <1>6 DEF AddrInv, Reg!Exposed
<1>9. JobsAt
  BY <1>1, <1>3 DEF JobsAt, JobAt, Reg!Cells
<1>10. CellsAt(cell, r_odd)
  BY <1>1 DEF CellsAt, Reg!Cells
<1> QED
  BY <1>5, <1>6, <1>7, <1>8, <1>9, <1>10 DEF RegInv

LEMMA RegImplies == RegInv => RegSound
<1> SUFFICES ASSUME RegInv PROVE RegSound
  OBVIOUS
<1>0. RegTypes /\ (\A u \in RegThreads : Placed(u)) /\ HolderInv /\ AddrInv /\ JobsAt /\ CellsAt(cell, r_odd)
  BY DEF RegInv
<1>1. Reg!TypeOK
  <2>1. areg \in Reg!Cells \cup {"nowhere"}
    BY <1>0 DEF RegTypes, Regs, Reg!Cells
  <2>2. ASSUME NEW t \in RegThreads PROVE th[t].res \in {"none", "ok", "failed"} /\ th[t].tries \in 0 .. 1
    BY <1>0, ThFields DEF RegTypes
  <2> QED
    BY <1>0, <2>1, <2>2 DEF RegTypes, Reg!TypeOK
<1>2. Reg!WritesApart
  <2>1. ASSUME NEW t \in RegThreads, Reg!Writing(t) PROVE mutex = t
    BY <1>0, <2>1 DEF Reg!Writing, HolderInv, Holding
  <2> QED
    BY <2>1 DEF Reg!WritesApart
<1>3. Reg!DataAtTheirAddress
  BY <1>0 DEF Reg!DataAtTheirAddress, CellsAt
<1>4. ASSUME NEW t \in RegThreads PROVE JobAt(job[t], th[t].i, th[t].res, cell, r_odd)
  BY <1>0 DEF JobsAt
<1>5. Reg!SequencesKept
  BY <1>0, <1>4 DEF Reg!SequencesKept, CellsAt, JobAt
<1>6. Reg!DumpPowered
  BY <1>4 DEF Reg!DumpPowered, JobAt
<1>7. Reg!SentMeansOut
  BY <1>4 DEF Reg!SentMeansOut, JobAt
<1> QED
  BY <1>1, <1>2, <1>3, <1>5, <1>6, <1>7 DEF RegSound, Reg!RegSound

\* Images, pins, dumps and frames reach the chip at the address meant for them (skw_sdio_dt_write,
\* skw_sdio_dt_read, skw_sdio_writeb), for any number of threads, blocks and failing transfers.
THEOREM RegIsSound == Reg!Spec => []RegSound
<1>1. RegInv /\ [Reg!Next]_Reg!vars => RegInv'
  <2> SUFFICES ASSUME RegInv, [Reg!Next]_Reg!vars PROVE RegInv'
    OBVIOUS
  <2>1. ASSUME NEW t \in RegThreads, Reg!Step(t) PROVE RegInv'
    BY <2>1, CallStartKeeps, LockKeeps, AddressKeeps, WriteKeeps, ReadKeeps, ByteKeeps, PacketKeeps DEF Reg!Step
  <2> QED
    BY <2>1, PowerOffKeeps, RegStutters DEF Reg!Next
<1> QED
  BY <1>1, RegBegins, RegImplies, PTL DEF Reg!Spec
=============================================================================
