----------------------------- MODULE SkwApProofs -----------------------------
(***************************************************************************)
(* Theorems about the access point (SkwAp), with hostapd's state machine   *)
(* and with the internal one, for every set of stations and contexts and   *)
(* for every load.                                                         *)
(***************************************************************************)
EXTENDS SkwAp, TLAPS, FiniteSetTheorems, WellFoundedInduction

Users == {"key", "delkey", "start", "stop", "add", "del", "delctx", "stopcmd", "bufkey", "started", "tx"}
Works == {"add", "del", "tx", "refuse"}
Kinds == {"-", "auth", "assoc", "deauth"}

\* A number in a call or a thread: a key, a context, a cookie.
Sorted == {InOrder(B)[j] : B \in SUBSET Idx, j \in Nat}
Nums == Int \cup Sorted
CallSet == [op : Users \cup Works, m : Macs \cup {NoMac}, i : Nums, k : Kinds]
Progress == [todo : Seq(CallSet), at : {0, 1}, ok : BOOLEAN, i : Nums]

Peers == [mac : Macs \cup {NoMac}, st : {"none", "authed", "assoced"}, deauthed : BOOLEAN, active : BOOLEAN]
Clients == [in : BOOLEAN, st : {"none", "authed", "assoced"}, ck : Nat, aid : Nat, timer : BOOLEAN, last : Nat]
Points == [started : BOOLEAN, carrier : BOOLEAN, par : BOOLEAN, kc : Keys, buf : Seq(Keys)]
Replies == [m : Macs, k : {"auth", "assoc"}, ck : Nat]
Firmwares == [ap : BOOLEAN, sta : [Idx -> Macs \cup {NoMac}], key : Keys, tx : SUBSET Replies]
Airs == [f : Frames, m : Macs, sn : Nat, retry : BOOLEAN]
Events == Airs \cup [f : {"late"}, m : Macs]
               \cup [f : {"status"}, m : Macs, k : {"auth", "assoc"}, ck : Nat, ack : BOOLEAN]
Notices == [k : {"auth", "assoc", "deauth", "new"}, m : Macs]

\* The sets the variables stay in.
ThreadTypes == th \in [Threads -> Progress]
DriverTypes == /\ ap \in Points /\ Len(ap.buf) <= MaxBuf /\ ctx \in [Idx -> Peers]
               /\ client \in [Macs -> Clients] /\ aids \subseteq 1 .. left.aid /\ cookie \in Nat
WorldTypes == /\ fw \in Firmwares /\ evq \in Seq(Events) /\ notes \in Seq(Notices)
              /\ hs \in [Macs -> {"none", "auth", "assoc"}] /\ left \in LoadType
Types == ThreadTypes /\ DriverTypes /\ WorldTypes

\* What a thread still has to do: hostapd's requests one at a time, a station's deauthentication
\* before its deletion, the stations' deletions before the stop, the kept keys before the end of
\* the start; a new station's peer before its answer.
ScriptUser(s) ==
  /\ \A j \in 1 .. Len(s) : s[j].op \in Users
  /\ \A j \in 1 .. Len(s) : s[j].op \notin {"delctx", "bufkey", "tx"} => j = Len(s)
  /\ \A j \in 1 .. Len(s) : s[j].op = "delctx" => s[Len(s)].op = "stopcmd"
  /\ \A j \in 1 .. Len(s) : s[j].op = "bufkey" => s[Len(s)].op = "started"
  /\ \A j \in 1 .. Len(s) : s[j].op = "tx" =>
       j = 1 /\ Len(s) = 2 /\ s[1].k = "deauth" /\ s[2].op = "del" /\ s[2].m = s[1].m
  /\ \A j \in 1 .. Len(s) : s[j].op \in {"add", "del", "tx"} => s[j].m \in Macs
  /\ \A j \in 1 .. Len(s) : s[j].op \in {"key", "bufkey"} => s[j].i \in Keys

ScriptWork(s) ==
  /\ \A j \in 1 .. Len(s) : s[j].op \in Works /\ s[j].m \in Macs
  /\ \A j \in 1 .. Len(s) : s[j].op = "tx" => s[j].k # "-"
  /\ \A j \in 1 .. Len(s) : s[j].op # "add" => j = Len(s)
  /\ \A j \in 1 .. Len(s) : s[j].op = "add" => j = 1 /\ Len(s) = 2 /\ s[2].op = "tx" /\ s[2].m = s[1].m

At(t, ops) == Now(t, ops, 1)
Stages == {"del", "delctx", "add", "tx", "key", "delkey", "start", "stopcmd"}

\* hostapd's requests do not add stations where the internal state machine does, which in turn
\* has nothing to do where hostapd does it.
Texts ==
  /\ ScriptUser(th["user"].todo) /\ ScriptWork(th["evw"].todo)
  /\ left.ext => \A j \in 1 .. Len(th["evw"].todo) : th["evw"].todo[j].op = "refuse"
  /\ ~left.ext => \A j \in 1 .. Len(th["user"].todo) : th["user"].todo[j].op # "add"

InStage(t) == /\ th[t].at = 1 => At(t, Stages)
              /\ At(t, {"del", "delctx", "add"}) => th[t].i \in Idx

NotesFit == \A j \in 1 .. Len(notes) :
              notes[j].k \in IF left.ext THEN {"auth", "assoc", "deauth"} ELSE {"deauth", "new"}

Scripts == Texts /\ (\A t \in Threads : InStage(t)) /\ NotesFit

Typed == Types /\ Scripts
-----------------------------------------------------------------------------
(* Threads. *)

LEMMA IdleTyped == 0 \in Nums /\ Idle \in Progress /\ Idle.todo = <<>> /\ Idle.at = 0
BY DEF Idle, Progress, Nums

LEMMA Advanced ==
  ASSUME ThreadTypes, NEW t \in Threads, th[t].todo # <<>>, NEW s \in Seq(CallSet), Advance(t, s)
  PROVE  /\ ThreadTypes' /\ th'[t].todo = s \o Tail(th[t].todo) /\ th'[t].at = 0
         /\ \A u \in Threads : u # t => th'[u] = th[u]
<1> DEFINE p == [Idle EXCEPT !.todo = s \o Tail(th[t].todo)]
<1>1. th[t] \in Progress /\ th[t].todo \in Seq(CallSet) /\ Tail(th[t].todo) \in Seq(CallSet)
  BY DEF ThreadTypes, Progress
<1>2. s \o Tail(th[t].todo) \in Seq(CallSet)
  BY <1>1
<1>3. p \in Progress /\ p.todo = s \o Tail(th[t].todo) /\ p.at = 0
  BY <1>2, IdleTyped DEF Progress, Idle
<1>4. th' = [th EXCEPT ![t] = p]
  BY DEF Advance
<1> HIDE DEF p
<1> QED
  BY <1>3, <1>4 DEF ThreadTypes

\* A thread that takes up new work had none.
LEMMA Taken ==
  ASSUME ThreadTypes, NEW t \in Threads, NEW s \in Seq(CallSet),
         th' = [th EXCEPT ![t] = [Idle EXCEPT !.todo = s]]
  PROVE  /\ ThreadTypes' /\ th'[t].todo = s /\ th'[t].at = 0
         /\ \A u \in Threads : u # t => th'[u] = th[u]
<1> DEFINE p == [Idle EXCEPT !.todo = s]
<1>1. p \in Progress /\ p.todo = s /\ p.at = 0
  BY IdleTyped DEF Progress, Idle
<1>2. th' = [th EXCEPT ![t] = p]
  OBVIOUS
<1> HIDE DEF p
<1> QED
  BY <1>1, <1>2 DEF ThreadTypes

LEMMA Spent ==
  ASSUME left \in LoadType, NEW f \in {"auth", "assoc", "gone", "dups", "fails", "nacks"}, Spend(f)
  PROVE  left' \in LoadType /\ left'.ext = left.ext /\ left'.aid = left.aid /\ left'.ops = left.ops
<1>1. left[f] \in Nat /\ left[f] > 0
  BY DEF LoadType, Spend
<1>2. left[f] - 1 \in Nat
  BY <1>1
<1>3. left' = [left EXCEPT ![f] = left[f] - 1]
  BY DEF Spend
<1> QED
  BY <1>2, <1>3 DEF LoadType

SameLoad == left' \in LoadType /\ left'.ext = left.ext /\ left'.aid = left.aid

LEMMA Sent ==
  ASSUME ThreadTypes, left \in LoadType, NEW t \in Threads, NEW i \in Nums, NEW ok \in BOOLEAN, Send(t, i, ok)
  PROVE  /\ ThreadTypes' /\ SameLoad /\ th'[t].todo = th[t].todo
         /\ th'[t].at = 1 /\ th'[t].i = i /\ th'[t].ok = ok
         /\ \A u \in Threads : u # t => th'[u] = th[u]
<1> DEFINE p == [th[t] EXCEPT !.at = 1, !.i = i, !.ok = ok]
<1>1. th[t] \in Progress
  BY DEF ThreadTypes
<1>2. p \in Progress /\ p.todo = th[t].todo /\ p.at = 1 /\ p.i = i /\ p.ok = ok
  BY <1>1 DEF Progress
<1>3. th' = [th EXCEPT ![t] = p]
  BY DEF Send
<1>4. SameLoad
  BY Spent DEF Send, SameLoad
<1> HIDE DEF p
<1> QED
  BY <1>2, <1>3, <1>4 DEF ThreadTypes
-----------------------------------------------------------------------------
(* Scripts. *)

LEMMA TailIndexes ==
  ASSUME NEW s \in Seq(CallSet), s # <<>>
  PROVE  /\ Len(Tail(s)) = Len(s) - 1 /\ Len(s) \in Nat \ {0}
         /\ \A j \in 1 .. Len(Tail(s)) : j + 1 \in 1 .. Len(s) /\ Tail(s)[j] = s[j + 1]
         /\ Len(Tail(s)) # 0 => Tail(s)[Len(Tail(s))] = s[Len(s)]
<1>1. Len(s) \in Nat \ {0} /\ Tail(s) \in Seq(CallSet)
  OBVIOUS
<1>2. Len(Tail(s)) = Len(s) - 1
  OBVIOUS
<1>3. \A j \in 1 .. Len(s) - 1 : Tail(s)[j] = s[j + 1]
  OBVIOUS
<1>4. \A j \in 1 .. Len(s) - 1 : j + 1 \in 1 .. Len(s)
  BY <1>1
<1>5. \A n \in Nat \ {0} : n - 1 # 0 => n - 1 \in 1 .. n - 1 /\ n - 1 + 1 = n
  OBVIOUS
<1>6. Len(s) - 1 # 0 => Tail(s)[Len(s) - 1] = s[Len(s)]
  BY <1>1, <1>3, <1>5
<1> QED
  BY <1>1, <1>2, <1>3, <1>4, <1>6

LEMMA TailUser ==
  ASSUME NEW s \in Seq(CallSet), s # <<>>, ScriptUser(s)
  PROVE  ScriptUser(Tail(s))
<1> DEFINE r == Tail(s)
<1>1. /\ Len(r) = Len(s) - 1 /\ Len(s) \in Nat \ {0}
      /\ \A j \in 1 .. Len(r) : j + 1 \in 1 .. Len(s) /\ r[j] = s[j + 1]
      /\ Len(r) # 0 => r[Len(r)] = s[Len(s)]
  BY TailIndexes
<1> HIDE DEF r
<1>2. \A j \in 1 .. Len(r) : r[j].op \in Users
  BY <1>1 DEF ScriptUser
<1>3. \A j \in 1 .. Len(r) : r[j].op \notin {"delctx", "bufkey", "tx"} => j = Len(r)
  BY <1>1 DEF ScriptUser
<1>4. \A j \in 1 .. Len(r) : (r[j].op = "delctx" => r[Len(r)].op = "stopcmd")
                             /\ (r[j].op = "bufkey" => r[Len(r)].op = "started")
  <2> SUFFICES ASSUME NEW j \in 1 .. Len(r)
               PROVE  /\ r[j].op = "delctx" => r[Len(r)].op = "stopcmd"
                      /\ r[j].op = "bufkey" => r[Len(r)].op = "started"
    OBVIOUS
  <2>1. Len(r) # 0 /\ j + 1 \in 1 .. Len(s) /\ r[j] = s[j + 1] /\ r[Len(r)] = s[Len(s)]
    BY <1>1
  <2> QED
    BY <2>1 DEF ScriptUser
<1>5. \A j \in 1 .. Len(r) : r[j].op # "tx"
  <2> SUFFICES ASSUME NEW j \in 1 .. Len(r), r[j].op = "tx" PROVE FALSE
    OBVIOUS
  <2>1. s[j + 1].op = "tx" /\ j + 1 \in 1 .. Len(s)
    BY <1>1
  <2>2. j + 1 = 1
    BY <2>1 DEF ScriptUser
  <2> QED
    BY <2>2
<1>6. \A j \in 1 .. Len(r) : (r[j].op \in {"add", "del", "tx"} => r[j].m \in Macs)
                             /\ (r[j].op \in {"key", "bufkey"} => r[j].i \in Keys)
  BY <1>1 DEF ScriptUser
<1> QED
  BY <1>2, <1>3, <1>4, <1>5, <1>6 DEF ScriptUser, r

LEMMA TailWork ==
  ASSUME NEW s \in Seq(CallSet), s # <<>>, ScriptWork(s)
  PROVE  ScriptWork(Tail(s))
<1> DEFINE r == Tail(s)
<1>1. /\ Len(r) = Len(s) - 1 /\ Len(s) \in Nat \ {0}
      /\ \A j \in 1 .. Len(r) : j + 1 \in 1 .. Len(s) /\ r[j] = s[j + 1]
      /\ Len(r) # 0 => r[Len(r)] = s[Len(s)]
  BY TailIndexes
<1> HIDE DEF r
<1>2. \A j \in 1 .. Len(r) : r[j].op \in Works /\ r[j].m \in Macs /\ (r[j].op = "tx" => r[j].k # "-")
  BY <1>1 DEF ScriptWork
<1>3. \A j \in 1 .. Len(r) : r[j].op # "add" => j = Len(r)
  BY <1>1 DEF ScriptWork
<1>4. \A j \in 1 .. Len(r) : r[j].op # "add"
  <2> SUFFICES ASSUME NEW j \in 1 .. Len(r), r[j].op = "add" PROVE FALSE
    OBVIOUS
  <2>1. s[j + 1].op = "add" /\ j + 1 \in 1 .. Len(s)
    BY <1>1
  <2>2. j + 1 = 1
    BY <2>1 DEF ScriptWork
  <2> QED
    BY <2>2
<1> QED
  BY <1>2, <1>3, <1>4 DEF ScriptWork, r

\* A thread goes on to its next call.
LEMMA StepAdvances ==
  ASSUME Typed, NEW t \in Threads, th[t].todo # <<>>, Advance(t, <<>>), notes' = notes, SameLoad
  PROVE  /\ ThreadTypes' /\ Scripts' /\ th'[t].todo = Tail(th[t].todo) /\ th'[t].at = 0
         /\ \A u \in Threads : u # t => th'[u] = th[u]
<1> DEFINE s == th[t].todo
           r == Tail(s)
<1>1. s \in Seq(CallSet) /\ <<>> \in Seq(CallSet) /\ r \in Seq(CallSet)
  BY DEF Typed, Types, ThreadTypes, Progress
<1>2. <<>> \o r = r
  BY <1>1
<1>3. /\ ThreadTypes' /\ th'[t].todo = r /\ th'[t].at = 0
      /\ \A u \in Threads : u # t => th'[u] = th[u]
  BY <1>1, <1>2, Advanced DEF Typed, Types
<1>4. \A j \in 1 .. Len(r) : j + 1 \in 1 .. Len(s) /\ r[j] = s[j + 1]
  BY <1>1, TailIndexes
<1>5. ScriptUser(th'["user"].todo) /\ ScriptWork(th'["evw"].todo)
  BY <1>1, <1>3, TailUser, TailWork DEF Typed, Scripts, Texts, Threads
<1>6. /\ left'.ext => \A j \in 1 .. Len(th'["evw"].todo) : th'["evw"].todo[j].op = "refuse"
      /\ ~left'.ext => \A j \in 1 .. Len(th'["user"].todo) : th'["user"].todo[j].op # "add"
  <2> HIDE DEF r, s
  <2>1. ASSUME NEW u \in Threads
        PROVE  \A j \in 1 .. Len(th'[u].todo) : \E k \in 1 .. Len(th[u].todo) : th'[u].todo[j] = th[u].todo[k]
    BY <1>3, <1>4 DEF s
  <2>2. Texts /\ left'.ext = left.ext /\ "user" \in Threads /\ "evw" \in Threads
    BY DEF Typed, Scripts, Threads, SameLoad
  <2>3. left.ext => \A j \in 1 .. Len(th'["evw"].todo) : th'["evw"].todo[j].op = "refuse"
    BY <2>1, <2>2 DEF Texts
  <2>4. ~left.ext => \A j \in 1 .. Len(th'["user"].todo) : th'["user"].todo[j].op # "add"
    BY <2>1, <2>2 DEF Texts
  <2> QED
    BY <2>2, <2>3, <2>4
<1>7. \A u \in Threads : InStage(u)'
  <2>1. \A u \in Threads : u # t => InStage(u)'
    BY <1>3 DEF Typed, Scripts, InStage, At, Now, Cur
  <2> QED
    BY <1>3, <2>1 DEF InStage, At, Now
<1>8. NotesFit'
  BY DEF Typed, Scripts, SameLoad, NotesFit
<1>9. Texts'
  BY <1>5, <1>6 DEF Texts
<1> QED
  BY <1>3, <1>7, <1>8, <1>9 DEF Scripts

\* A thread sends the command of its call.
LEMMA StepSends ==
  ASSUME Typed, NEW t \in Threads, Now(t, Stages, 0), NEW i \in Nums, NEW ok \in BOOLEAN, Send(t, i, ok),
         notes' = notes, Cur(t).op \in {"del", "delctx", "add"} => i \in Idx
  PROVE  /\ ThreadTypes' /\ Scripts' /\ SameLoad /\ th'[t].todo = th[t].todo
         /\ th'[t].at = 1 /\ th'[t].i = i /\ th'[t].ok = ok
         /\ \A u \in Threads : u # t => th'[u] = th[u]
<1>1. /\ ThreadTypes' /\ SameLoad /\ th'[t].todo = th[t].todo
      /\ th'[t].at = 1 /\ th'[t].i = i /\ th'[t].ok = ok
      /\ \A u \in Threads : u # t => th'[u] = th[u]
  BY Sent DEF Typed, Types, WorldTypes
<1>2. \A u \in Threads : th'[u].todo = th[u].todo
  BY <1>1
<1>3. \A u \in Threads : InStage(u)'
  <2>1. \A u \in Threads : u # t => InStage(u)'
    BY <1>1 DEF Typed, Scripts, InStage, At, Now, Cur
  <2> QED
    BY <1>1, <2>1 DEF InStage, At, Now, Cur
<1>4. NotesFit'
  BY <1>1 DEF Typed, Scripts, SameLoad, NotesFit
<1>5. ScriptUser(th'["user"].todo) /\ ScriptWork(th'["evw"].todo)
  BY <1>2 DEF Typed, Scripts, Texts, Threads
<1>6. /\ left'.ext => \A j \in 1 .. Len(th'["evw"].todo) : th'["evw"].todo[j].op = "refuse"
      /\ ~left'.ext => \A j \in 1 .. Len(th'["user"].todo) : th'["user"].todo[j].op # "add"
  BY <1>1, <1>2 DEF Typed, Scripts, Texts, Threads, SameLoad
<1>7. Texts'
  BY <1>5, <1>6 DEF Texts
<1> QED
  BY <1>1, <1>3, <1>4, <1>7 DEF Scripts
-----------------------------------------------------------------------------
(* Types of the calls of both threads. *)

\* A nonempty set of naturals has a minimum.
LEMMA MinimumExists ==
  ASSUME NEW S \in SUBSET Nat, S # {}
  PROVE  Min(S) \in S
<1> DEFINE T == {0 .. n : n \in S}
           R == StrictSubsetOrdering(Nat)
<1>1. T \subseteq FiniteSubsetsOf(Nat) /\ T # {}
  <2>1. ASSUME NEW n \in S PROVE 0 .. n \in FiniteSubsetsOf(Nat)
    <3>1. IsFiniteSet(0 .. n) /\ 0 .. n \subseteq Nat
      BY FS_Interval
    <3> QED
      BY <3>1 DEF FiniteSubsetsOf
  <2> QED
    BY <2>1
<1>2. \E t \in T : \A u \in T : <<u, t>> \notin R
  BY <1>1, WFMin, FS_StrictSubsetOrderingWellFounded
<1>3. PICK x \in S : \A y \in S : <<0 .. y, 0 .. x>> \notin R
  BY <1>2
<1>4. ASSUME NEW y \in S, y < x PROVE FALSE
  <2>1. 0 .. y \subseteq 0 .. x /\ 0 .. y # 0 .. x /\ 0 .. y \subseteq Nat /\ 0 .. x \subseteq Nat
    BY <1>4
  <2>2. <<0 .. y, 0 .. x>> \in R
    BY <2>1 DEF StrictSubsetOrdering
  <2> QED
    BY <1>3, <2>2
<1>5. \A y \in S : x <= y
  BY <1>4
<1> QED
  BY <1>5 DEF Min

LEMMA LeastContext == ASSUME NEW S \in SUBSET Idx, S # {} PROVE Min(S) \in S /\ Min(S) \in Idx /\ Min(S) \in Nums
<1>1. S \in SUBSET Nat
  BY ApAssumption
<1>2. Min(S) \in S
  BY <1>1, MinimumExists
<1>3. Nat \subseteq Nums
  BY DEF Nums
<1> QED
  BY <1>1, <1>2, <1>3

LEMMA NoneTyped == NoPeer \in Peers /\ NoClient \in Clients /\ NoPeer.mac = NoMac /\ NoPeer.st = "none"
                   /\ ~NoPeer.deauthed /\ ~NoPeer.active /\ ~NoClient.in /\ NoClient.aid = 0
BY DEF NoPeer, NoClient, Peers, Clients

LEMMA Current ==
  ASSUME Typed, NEW t \in Threads, th[t].todo # <<>>
  PROVE  /\ Cur(t) \in CallSet /\ Cur(t) = th[t].todo[1] /\ 1 \in 1 .. Len(th[t].todo)
         /\ t = "user" => Cur(t).op \in Users
         /\ t = "evw" => Cur(t).op \in Works /\ Cur(t).m \in Macs
         /\ Cur(t).op \in {"add", "del", "tx"} => Cur(t).m \in Macs
         /\ t = "evw" /\ Cur(t).op = "tx" => Cur(t).k # "-"
         /\ Cur(t).op \in {"key", "bufkey"} => t = "user" /\ Cur(t).i \in Keys
         /\ left.ext /\ Cur(t).op # "refuse" => t = "user"
         /\ ~left.ext /\ Cur(t).op = "add" => t = "evw"
<1>1. th[t].todo \in Seq(CallSet)
  BY DEF Typed, Types, ThreadTypes, Progress
<1>2. Cur(t) \in CallSet /\ Cur(t) = th[t].todo[1] /\ 1 \in 1 .. Len(th[t].todo)
  BY <1>1 DEF Cur
<1>3. t \in {"user", "evw"}
  BY DEF Threads
<1> QED
  BY <1>2, <1>3 DEF Typed, Scripts, Texts, ScriptUser, ScriptWork, Works

LEMMA PeerUpdate ==
  ASSUME ctx \in [Idx -> Peers], NEW i \in Idx, NEW p \in Peers, ctx' = [ctx EXCEPT ![i] = p]
  PROVE  ctx' \in [Idx -> Peers] /\ ctx'[i] = p /\ \A j \in Idx : j # i => ctx'[j] = ctx[j]
OBVIOUS

LEMMA ClientUpdate ==
  ASSUME client \in [Macs -> Clients], NEW m \in Macs, NEW c \in Clients, client' = [client EXCEPT ![m] = c]
  PROVE  client' \in [Macs -> Clients] /\ client'[m] = c /\ \A n \in Macs : n # m => client'[n] = client[n]
OBVIOUS

LEMMA RemovedTyped ==
  ASSUME Typed, NEW m \in Macs, Removed(m), left'.aid = left.aid
  PROVE  client' \in [Macs -> Clients] /\ aids' \subseteq 1 .. left'.aid
BY NoneTyped DEF Typed, Types, DriverTypes, Removed

LEMMA ForgetTyped ==
  ASSUME fw \in Firmwares, NEW m
  PROVE  /\ Forget(m) \in Firmwares /\ Forget(m).ap = fw.ap /\ Forget(m).key = fw.key
         /\ \A i \in Idx : Forget(m).sta[i] = IF fw.sta[i] = m THEN NoMac ELSE fw.sta[i]
<1> DEFINE s == [i \in Idx |-> IF fw.sta[i] = m THEN NoMac ELSE fw.sta[i]]
<1>1. s \in [Idx -> Macs \cup {NoMac}] /\ \A i \in Idx : s[i] = IF fw.sta[i] = m THEN NoMac ELSE fw.sta[i]
  BY DEF Firmwares
<1>2. Forget(m) = [fw EXCEPT !.sta = s]
  BY DEF Forget
<1> HIDE DEF s
<1> QED
  BY <1>1, <1>2 DEF Firmwares

LEMMA DelBeginTyped ==
  ASSUME Typed, NEW t \in Threads, NEW ok \in BOOLEAN, DelBegin(t, ok)
  PROVE  Typed'
<1> DEFINE is == IF Cur(t).op = "del" THEN CtxOf(Cur(t).m) ELSE {Cur(t).i} \cap Bound
           i == Min(is)
           m == ctx[i].mac
<1>1. /\ Now(t, {"del", "delctx"}, 0) /\ th[t].todo # <<>> /\ Now(t, Stages, 0)
      /\ UNCHANGED <<ap, cookie, evq, notes, hs>>
  BY DEF DelBegin, Now, Stages
<1>2. CASE is = {}
  <2>1. Advance(t, <<>>) /\ UNCHANGED left /\ UNCHANGED <<fw, ctx, client, aids>>
    BY <1>2 DEF DelBegin, Skip
  <2>2. ThreadTypes' /\ Scripts'
    BY <1>1, <2>1, StepAdvances DEF SameLoad, Typed, Types, WorldTypes
  <2> QED
    BY <1>1, <2>1, <2>2 DEF Typed, Types, DriverTypes, WorldTypes
<1>3. CASE is # {}
  <2>1. /\ ctx' = [ctx EXCEPT ![i].active = FALSE, ![i].st = "none", ![i].deauthed = TRUE]
        /\ Removed(m) /\ Send(t, i, ok) /\ fw' = IF ok THEN Forget(m) ELSE fw
    BY <1>3 DEF DelBegin
  <2>2. i \in is /\ i \in Idx /\ i \in Nums
    <3>1. is \subseteq Idx
      BY DEF CtxOf, Bound
    <3> QED
      BY <1>3, <3>1, LeastContext
  <2>3. ctx[i] \in Peers /\ m \in Macs
    <3>1. ctx[i] \in Peers
      BY <2>2 DEF Typed, Types, DriverTypes
    <3>2. CASE Cur(t).op = "del"
      <4>1. Cur(t).m \in Macs
        BY <1>1, <3>2, Current
      <4>2. i \in CtxOf(Cur(t).m)
        BY <2>2, <3>2
      <4> QED
        BY <3>1, <4>1, <4>2 DEF CtxOf
    <3>3. CASE Cur(t).op # "del"
      BY <2>2, <3>1, <3>3 DEF Bound, Peers
    <3> QED
      BY <3>1, <3>2, <3>3
  <2> HIDE DEF i, m, is
  <2>4. ThreadTypes' /\ Scripts' /\ SameLoad
    BY <1>1, <2>1, <2>2, StepSends
  <2>5. client' \in [Macs -> Clients] /\ aids' \subseteq 1 .. left'.aid
    BY <2>1, <2>3, <2>4, RemovedTyped DEF SameLoad
  <2>6. ctx' \in [Idx -> Peers]
    BY <2>1, <2>2, <2>3 DEF Typed, Types, DriverTypes, Peers
  <2>7. fw' \in Firmwares
    BY <2>1, ForgetTyped DEF Typed, Types, WorldTypes
  <2> QED
    BY <1>1, <2>4, <2>5, <2>6, <2>7 DEF Typed, Types, DriverTypes, WorldTypes, SameLoad
<1> QED
  BY <1>2, <1>3

LEMMA DelReturnTyped ==
  ASSUME Typed, NEW t \in Threads, DelReturn(t)
  PROVE  Typed'
<1>1. /\ th[t].todo # <<>> /\ Advance(t, <<>>) /\ UNCHANGED <<ap, fw, client, aids, cookie, evq, notes, hs, left>>
      /\ ctx' = IF th[t].ok THEN [ctx EXCEPT ![th[t].i] = NoPeer] ELSE ctx
  BY DEF DelReturn, Now
<1>2. ThreadTypes' /\ Scripts'
  BY <1>1, StepAdvances DEF SameLoad, Typed, Types, WorldTypes
<1>3. ctx' \in [Idx -> Peers]
  <2>1. th[t].i \in Idx
    BY DEF DelReturn, Typed, Scripts, InStage, At, Now
  <2> QED
    BY <1>1, <2>1, NoneTyped, PeerUpdate DEF Typed, Types, DriverTypes
<1> QED
  BY <1>1, <1>2, <1>3 DEF Typed, Types, DriverTypes, WorldTypes

LEMMA AddBeginTyped ==
  ASSUME Typed, NEW t \in Threads, NEW ok \in BOOLEAN, AddBegin(t, ok)
  PROVE  Typed'
<1> DEFINE is == CtxOf(Cur(t).m)
           free == {i \in Idx : fw.sta[i] = NoMac}
           m == Cur(t).m
<1>1. /\ Now(t, Stages, 0) /\ th[t].todo # <<>> /\ Cur(t).op = "add"
      /\ UNCHANGED <<ap, client, aids, cookie, evq, notes>>
  BY DEF AddBegin, Now, Stages, Cur
<1>2. m \in Macs /\ (t = "user" \/ t = "evw")
  BY <1>1, Current DEF Threads
<1>3. CASE is # {}
  <2>1. /\ ctx' = [ctx EXCEPT ![Min(is)].active = FALSE, ![Min(is)].st = "authed"]
        /\ Advance(t, <<>>) /\ UNCHANGED <<fw, left>>
        /\ hs' = IF t = "user" THEN [hs EXCEPT ![m] = "auth"] ELSE hs
    BY <1>3 DEF AddBegin, Skip
  <2>2. Min(is) \in Idx
    BY <1>3, LeastContext DEF CtxOf
  <2>3. ThreadTypes' /\ Scripts'
    BY <1>1, <2>1, StepAdvances DEF SameLoad, Typed, Types, WorldTypes
  <2> HIDE DEF is, m
  <2>4. ctx' \in [Idx -> Peers]
    BY <2>1, <2>2 DEF Typed, Types, DriverTypes, Peers
  <2>5. hs' \in [Macs -> {"none", "auth", "assoc"}]
    BY <1>2, <2>1 DEF Typed, Types, WorldTypes
  <2> QED
    BY <1>1, <2>1, <2>3, <2>4, <2>5 DEF Typed, Types, DriverTypes, WorldTypes
<1>4. CASE is = {}
  <2>1. /\ free # {} /\ UNCHANGED <<ctx, hs>> /\ Send(t, Min(free), ok)
        /\ fw' = IF ok THEN [fw EXCEPT !.sta[Min(free)] = m] ELSE fw
    BY <1>4 DEF AddBegin
  <2>2. Min(free) \in Idx /\ Min(free) \in Nums
    BY <2>1, LeastContext
  <2> HIDE DEF free, is, m
  <2>3. ThreadTypes' /\ Scripts' /\ SameLoad
    BY <1>1, <2>1, <2>2, StepSends
  <2>4. fw' \in Firmwares
    BY <1>2, <2>1, <2>2 DEF Typed, Types, WorldTypes, Firmwares
  <2> QED
    BY <1>1, <2>1, <2>3, <2>4 DEF Typed, Types, DriverTypes, WorldTypes, SameLoad
<1> QED
  BY <1>3, <1>4

LEMMA AddReturnTyped ==
  ASSUME Typed, NEW t \in Threads, AddReturn(t)
  PROVE  Typed'
<1> DEFINE p == [NoPeer EXCEPT !.mac = Cur(t).m, !.st = "authed"]
<1>1. /\ th[t].todo # <<>> /\ Cur(t).op = "add" /\ At(t, {"add"}) /\ Advance(t, <<>>)
      /\ UNCHANGED <<ap, fw, client, aids, cookie, evq, notes, left>>
      /\ ctx' = IF th[t].ok THEN [ctx EXCEPT ![th[t].i] = p] ELSE ctx
      /\ hs' = IF t = "user" /\ th[t].ok THEN [hs EXCEPT ![Cur(t).m] = "auth"] ELSE hs
  BY DEF AddReturn, Now, At, Cur
<1>2. Cur(t).m \in Macs /\ th[t].i \in Idx
  BY <1>1, Current DEF Typed, Scripts, InStage, At, Now
<1>3. p \in Peers
  BY <1>2 DEF NoPeer, Peers
<1> HIDE DEF p
<1>4. ThreadTypes' /\ Scripts'
  BY <1>1, StepAdvances DEF SameLoad, Typed, Types, WorldTypes
<1>5. ctx' \in [Idx -> Peers]
  BY <1>1, <1>2, <1>3, PeerUpdate DEF Typed, Types, DriverTypes
<1>6. hs' \in [Macs -> {"none", "auth", "assoc"}]
  BY <1>1, <1>2 DEF Typed, Types, WorldTypes
<1> QED
  BY <1>1, <1>4, <1>5, <1>6 DEF Typed, Types, DriverTypes, WorldTypes

LEMMA TxBeginTyped ==
  ASSUME Typed, NEW t \in Threads, NEW ok \in BOOLEAN, TxBegin(t, ok)
  PROVE  Typed'
<1> DEFINE c == [client[Cur(t).m] EXCEPT !.ck = cookie + 1]
           x == [m |-> Cur(t).m, k |-> Cur(t).k, ck |-> cookie + 1]
<1>1. /\ Now(t, Stages, 0) /\ th[t].todo # <<>> /\ Cur(t).op = "tx" /\ Send(t, cookie + 1, ok)
      /\ cookie' = cookie + 1 /\ UNCHANGED <<ap, ctx, aids, evq, notes, hs>>
      /\ client' = IF t = "evw" /\ client[Cur(t).m].in THEN [client EXCEPT ![Cur(t).m] = c] ELSE client
      /\ fw' = IF ok /\ t = "evw" /\ Cur(t).k # "deauth" THEN [fw EXCEPT !.tx = @ \cup {x}] ELSE fw
  BY DEF TxBegin, Now, Stages, Cur
<1>2. cookie + 1 \in Nat /\ cookie + 1 \in Nums
  BY DEF Nums, Typed, Types, DriverTypes
<1>3. ThreadTypes' /\ Scripts' /\ SameLoad
  BY <1>1, <1>2, StepSends
<1>4. Cur(t).m \in Macs /\ Cur(t) \in CallSet
  BY <1>1, Current
<1>5. c \in Clients
  BY <1>2, <1>4 DEF Typed, Types, DriverTypes, Clients
<1> HIDE DEF c
<1>6. client' \in [Macs -> Clients]
  BY <1>1, <1>4, <1>5, ClientUpdate DEF Typed, Types, DriverTypes
<1>7. t = "evw" /\ Cur(t).k # "deauth" => x \in Replies
  <2>1. t = "evw" /\ Cur(t).k # "deauth" => Cur(t).k \in {"auth", "assoc"}
    BY <1>1, <1>4, Current DEF CallSet, Kinds
  <2> QED
    BY <1>2, <1>4, <2>1 DEF Replies
<1> HIDE DEF x
<1>8. fw' \in Firmwares
  BY <1>1, <1>7 DEF Typed, Types, WorldTypes, Firmwares
<1> QED
  BY <1>1, <1>2, <1>3, <1>6, <1>8 DEF Typed, Types, DriverTypes, WorldTypes, SameLoad
-----------------------------------------------------------------------------
(* New work and notifications. *)

LEMMA NewWork ==
  ASSUME Typed, NEW t \in Threads, NEW s \in Seq(CallSet), ThreadTypes', SameLoad,
         th'[t].todo = s, th'[t].at = 0, \A u \in Threads : u # t => th'[u] = th[u],
         t = "user" => ScriptUser(s) /\ (~left.ext => \A j \in 1 .. Len(s) : s[j].op # "add"),
         t = "evw" => ScriptWork(s) /\ (left.ext => \A j \in 1 .. Len(s) : s[j].op = "refuse")
  PROVE  Texts' /\ \A u \in Threads : InStage(u)'
<1>1. Texts /\ "user" \in Threads /\ "evw" \in Threads /\ left'.ext = left.ext
  BY DEF Typed, Scripts, Threads, SameLoad
<1>2. ASSUME t = "user" PROVE Texts'
  <2>1. th'["evw"] = th["evw"] /\ th'["user"].todo = s
    BY <1>1, <1>2
  <2> QED
    BY <1>1, <1>2, <2>1 DEF Texts
<1>3. ASSUME t = "evw" PROVE Texts'
  <2>1. th'["user"] = th["user"] /\ th'["evw"].todo = s
    BY <1>1, <1>3
  <2> QED
    BY <1>1, <1>3, <2>1 DEF Texts
<1>4. Texts'
  BY <1>2, <1>3 DEF Threads
<1>5. \A u \in Threads : InStage(u)'
  <2>1. \A u \in Threads : u # t => InStage(u)'
    BY DEF Typed, Scripts, InStage, At, Now, Cur
  <2> QED
    BY <2>1 DEF InStage, At, Now
<1> QED
  BY <1>4, <1>5

LEMMA Nothing == <<>> \in Seq(CallSet) /\ ScriptUser(<<>>) /\ ScriptWork(<<>>) /\ Len(<<>>) = 0
BY DEF ScriptUser, ScriptWork

LEMMA OneCall ==
  ASSUME NEW op \in Users \cup Works, NEW m \in Macs \cup {NoMac}, NEW k \in Kinds, NEW i \in Nums
  PROVE  LET c == [Call(op, m) EXCEPT !.k = k, !.i = i]
         IN c \in CallSet /\ c.op = op /\ c.m = m /\ c.k = k /\ c.i = i
BY DEF Call, CallSet

LEMMA Calls1 ==
  ASSUME NEW c \in CallSet
  PROVE  <<c>> \in Seq(CallSet) /\ Len(<<c>>) = 1 /\ <<c>>[1] = c /\ <<c>> # <<>>
OBVIOUS

LEMMA Calls2 ==
  ASSUME NEW c \in CallSet, NEW d \in CallSet
  PROVE  <<c, d>> \in Seq(CallSet) /\ Len(<<c, d>>) = 2 /\ <<c, d>>[1] = c /\ <<c, d>>[2] = d
OBVIOUS

LEMMA CallTyped ==
  ASSUME NEW op \in Users \cup Works, NEW m \in Macs \cup {NoMac}
  PROVE  Call(op, m) \in CallSet /\ Call(op, m).op = op /\ Call(op, m).m = m /\ Call(op, m).k = "-"
BY IdleTyped DEF Call, CallSet, Kinds

LEMMA ReplyTyped ==
  ASSUME NEW op \in Users \cup Works, NEW m \in Macs \cup {NoMac}, NEW k \in Kinds
  PROVE  LET c == [Call(op, m) EXCEPT !.k = k]
         IN c \in CallSet /\ c.op = op /\ c.m = m /\ c.k = k
BY IdleTyped DEF Call, CallSet

LEMMA OneWork ==
  ASSUME NEW c \in CallSet, c.op \in Works \ {"add"}, c.m \in Macs, c.op = "tx" => c.k # "-"
  PROVE  <<c>> \in Seq(CallSet) /\ ScriptWork(<<c>>) /\ \A j \in 1 .. Len(<<c>>) : <<c>>[j] = c
BY Calls1 DEF ScriptWork

LEMMA OneRequest ==
  ASSUME NEW c \in CallSet, c.op \in Users \ {"delctx", "bufkey", "tx"},
         c.op \in {"add", "del"} => c.m \in Macs, c.op = "key" => c.i \in Keys
  PROVE  <<c>> \in Seq(CallSet) /\ ScriptUser(<<c>>) /\ \A j \in 1 .. Len(<<c>>) : <<c>>[j] = c
BY Calls1 DEF ScriptUser

LEMMA TailOfOne == ASSUME NEW s \in Seq(CallSet), Len(s) = 1 PROVE Tail(s) = <<>>
<1>1. Tail(s) \in Seq(CallSet) /\ Len(Tail(s)) = 0
  OBVIOUS
<1>2. \A r \in Seq(CallSet) : r # <<>> => Len(r) \in Nat \ {0}
  OBVIOUS
<1> QED
  BY <1>1, <1>2

\* Notifications are added behind the others, and the first is taken.
LEMMA Notify ==
  ASSUME Typed, NEW x \in Seq(Notices), notes' = notes \o x, SameLoad,
         \A j \in 1 .. Len(x) : x[j].k \in IF left.ext THEN {"auth", "assoc", "deauth"} ELSE {"deauth", "new"}
  PROVE  notes' \in Seq(Notices) /\ NotesFit'
<1>1. notes \in Seq(Notices) /\ NotesFit /\ left'.ext = left.ext
  BY DEF Typed, Types, WorldTypes, Scripts, SameLoad
<1>2. notes' \in Seq(Notices)
  BY <1>1
<1>3. \A j \in 1 .. Len(notes') : (j \in 1 .. Len(notes) /\ notes'[j] = notes[j])
                                  \/ (j - Len(notes) \in 1 .. Len(x) /\ notes'[j] = x[j - Len(notes)])
  BY <1>1
<1>4. NotesFit'
  BY <1>1, <1>3 DEF NotesFit
<1> QED
  BY <1>2, <1>4

LEMMA TellTyped ==
  ASSUME NEW k \in {"auth", "assoc", "deauth", "new"}, NEW m \in Macs
  PROVE  /\ Tell(k, m) \in Seq(Notices) /\ Len(Tell(k, m)) = 1 /\ Tell(k, m)[1] = [k |-> k, m |-> m]
         /\ \A j \in 1 .. Len(Tell(k, m)) : Tell(k, m)[j].k = k /\ Tell(k, m)[j].m = m /\ j = 1
<1> DEFINE n == [k |-> k, m |-> m]
<1>1. n \in Notices /\ n.k = k /\ n.m = m
  BY DEF Notices
<1>2. Tell(k, m) = <<n>>
  BY DEF Tell
<1> HIDE DEF n
<1>3. <<n>> \in Seq(Notices) /\ Len(<<n>>) = 1 /\ <<n>>[1] = n /\ \A j \in 1 .. 1 : j = 1
  BY <1>1
<1>4. \A j \in 1 .. Len(Tell(k, m)) : j = 1 /\ Tell(k, m)[j] = n
  BY <1>2, <1>3
<1> QED
  BY <1>1, <1>2, <1>3, <1>4 DEF n

\* Peers are marked as deauthenticated.
Marked(S) == [i \in Idx |-> IF i \in S THEN [ctx[i] EXCEPT !.deauthed = TRUE] ELSE ctx[i]]

LEMMA MarkedTyped ==
  ASSUME ctx \in [Idx -> Peers], NEW S
  PROVE  /\ Marked(S) \in [Idx -> Peers]
         /\ \A i \in Idx : /\ Marked(S)[i].mac = ctx[i].mac /\ Marked(S)[i].active = ctx[i].active
                           /\ i \notin S => Marked(S)[i] = ctx[i]
BY DEF Peers, Marked

LEMMA MarkedAre ==
  ASSUME NEW m
  PROVE  /\ [i \in Idx |-> IF ctx[i].mac = m THEN [ctx[i] EXCEPT !.deauthed = TRUE] ELSE ctx[i]] = Marked(CtxOf(m))
         /\ Reauth(m) = Marked(Again(m)) /\ Again(m) \subseteq CtxOf(m)
BY DEF Marked, CtxOf, Reauth, Again

LEMMA AssociatedTyped ==
  ASSUME ctx \in [Idx -> Peers], NEW m
  PROVE  /\ Associated(m) \in [Idx -> Peers]
         /\ \A i \in Idx :
              /\ Associated(m)[i].mac = ctx[i].mac /\ Associated(m)[i].deauthed = ctx[i].deauthed
              /\ ctx[i].active => Associated(m)[i].active
              /\ ctx[i].mac = m => Associated(m)[i].active = (ctx[i].active \/ ~ctx[i].deauthed)
BY DEF Peers, Associated
-----------------------------------------------------------------------------
(* Types of the actions of one thread. *)

LEMMA TxReturnTyped ==
  ASSUME Typed, NEW t \in Threads, TxReturn(t)
  PROVE  Typed'
<1> DEFINE refused == ~th[t].ok /\ Cur(t).k = "auth"
           s == IF refused THEN <<Call("del", Cur(t).m)>> ELSE <<>>
           r == Tail(th[t].todo)
           c == [client[Cur(t).m] EXCEPT !.st = "none"]
<1>1. /\ th[t].todo # <<>> /\ Cur(t).op = "tx" /\ Advance(t, s) /\ UNCHANGED <<ap, fw, aids, cookie, evq, notes, hs, left>>
      /\ ctx' = IF th[t].ok /\ Cur(t).k = "deauth" THEN Marked(CtxOf(Cur(t).m)) ELSE ctx
      /\ client' = IF refused THEN [client EXCEPT ![Cur(t).m] = c] ELSE client
  BY MarkedAre DEF TxReturn, Now, Cur
<1>2. Cur(t).m \in Macs /\ SameLoad
  BY <1>1, Current DEF SameLoad, Typed, Types, WorldTypes
<1>3. ctx' \in [Idx -> Peers]
  BY <1>1, MarkedTyped DEF Typed, Types, DriverTypes
<1>4. client' \in [Macs -> Clients]
  <2>1. c \in Clients
    BY <1>2 DEF Typed, Types, DriverTypes, Clients
  <2> HIDE DEF c, refused
  <2> QED
    BY <1>1, <1>2, <2>1, ClientUpdate DEF Typed, Types, DriverTypes
<1>5. ThreadTypes' /\ Scripts'
  <2>1. CASE ~refused
    BY <1>1, <1>2, <2>1, StepAdvances
  <2>2. CASE refused
    <3> DEFINE d == Call("del", Cur(t).m)
    <3>1. t = "evw" /\ Len(th[t].todo) = 1 /\ th[t].todo \in Seq(CallSet)
      <4>1. th[t].todo \in Seq(CallSet) /\ 1 \in 1 .. Len(th[t].todo) /\ th[t].todo[1] = Cur(t)
        BY <1>1, Current DEF Typed, Types, ThreadTypes, Progress
      <4>2. t # "user"
        BY <1>1, <2>2, <4>1 DEF Typed, Scripts, Texts, ScriptUser
      <4> QED
        BY <1>1, <4>1, <4>2 DEF Typed, Scripts, Texts, ScriptWork, Threads
    <3>2. r = <<>>
      BY <3>1, TailOfOne
    <3>3. d \in CallSet /\ d.op = "del" /\ d.m = Cur(t).m
      BY <1>2, CallTyped DEF Users
    <3>4. s = <<d>>
      BY <2>2
    <3> HIDE DEF d, refused, r
    <3>5. s \in Seq(CallSet) /\ ScriptWork(s) /\ s \o r = s
      BY <1>2, <3>2, <3>3, <3>4, OneWork DEF Works
    <3> HIDE DEF s
    <3>6. /\ ThreadTypes' /\ th'[t].todo = s /\ th'[t].at = 0 /\ \A u \in Threads : u # t => th'[u] = th[u]
      BY <1>1, <3>5, Advanced DEF Typed, Types, r
    <3>7. ~left.ext
      BY <1>1, <3>1, Current
    <3>8. Texts' /\ \A u \in Threads : InStage(u)'
      BY <1>2, <3>1, <3>5, <3>6, <3>7, NewWork
    <3> QED
      BY <1>1, <3>6, <3>8 DEF Scripts, Typed, NotesFit
  <2> QED
    BY <2>1, <2>2
<1> QED
  BY <1>1, <1>3, <1>4, <1>5 DEF Typed, Types, DriverTypes, WorldTypes

LEMMA StepTyped ==
  ASSUME Typed, NEW t \in Threads, Step(t)
  PROVE  Typed'
BY DelBeginTyped, DelReturnTyped, AddBeginTyped, AddReturnTyped, TxBeginTyped, TxReturnTyped DEF Step

\* The key, the start and the stop of the access point.
LEMMA PointBegin ==
  ASSUME Typed, NEW ok \in BOOLEAN, KeyBegin(ok) \/ DelKeyBegin(ok) \/ StartBegin(ok) \/ StopCommand(ok)
  PROVE  Typed'
<1>1. th["user"].todo # <<>> /\ Now("user", Stages, 0) /\ UNCHANGED <<ctx, client, aids, cookie, evq, notes, hs>>
  BY DEF KeyBegin, DelKeyBegin, StartBegin, StopCommand, Now, Stages
<1>2. "user" \in Threads /\ 0 \in Nums
  BY IdleTyped DEF Threads
<1>3. \/ Advance("user", <<>>) /\ left' = left
      \/ Send("user", 0, ok) /\ Cur("user").op \notin {"del", "delctx", "add"}
  BY DEF KeyBegin, DelKeyBegin, StartBegin, StopCommand, Skip, Now, Cur
<1>4. ThreadTypes' /\ Scripts' /\ SameLoad
  <2>1. CASE Advance("user", <<>>) /\ left' = left
    BY <1>1, <1>2, <2>1, StepAdvances DEF SameLoad, Typed, Types, WorldTypes
  <2>2. CASE Send("user", 0, ok) /\ Cur("user").op \notin {"del", "delctx", "add"}
    BY <1>1, <1>2, <2>2, StepSends
  <2> QED
    BY <1>3, <2>1, <2>2
<1>5. fw' \in Firmwares
  <2>1. fw \in Firmwares
    BY DEF Typed, Types, WorldTypes
  <2>2. CASE KeyBegin(ok)
    <3>1. Cur("user").i \in Keys
      BY <1>1, <1>2, <2>2, Current DEF KeyBegin, Now, Cur
    <3> QED
      BY <2>1, <2>2, <3>1 DEF KeyBegin, Firmwares
  <2>3. CASE DelKeyBegin(ok)
    BY <2>1, <2>3 DEF DelKeyBegin, Firmwares, Keys
  <2>4. CASE StartBegin(ok)
    BY <2>1, <2>4 DEF StartBegin, Firmwares
  <2>5. CASE StopCommand(ok)
    <3> DEFINE none == [i \in Idx |-> NoMac]
    <3>1. none \in [Idx -> Macs \cup {NoMac}] /\ 0 \in Keys
      BY DEF Keys
    <3>2. fw' = [fw EXCEPT !.ap = FALSE, !.key = 0, !.sta = none] \/ fw' = fw
      BY <2>5 DEF StopCommand
    <3> HIDE DEF none
    <3> QED
      BY <2>1, <3>1, <3>2 DEF Firmwares
  <2> QED
    BY <2>2, <2>3, <2>4, <2>5
<1>6. ap' \in Points /\ Len(ap'.buf) <= MaxBuf
  <2>1. ap \in Points /\ Len(ap.buf) <= MaxBuf /\ ap.buf \in Seq(Keys)
    BY DEF Typed, Types, DriverTypes, Points
  <2>2. CASE KeyBegin(ok)
    <3> DEFINE k == Cur("user").i
               b == Append(ap.buf, k)
    <3>1. k \in Keys
      BY <1>1, <1>2, <2>2, Current DEF KeyBegin, Now, Cur
    <3>2. b \in Seq(Keys) /\ Len(b) = Len(ap.buf) + 1 /\ Len(ap.buf) \in Nat
      BY <2>1, <3>1
    <3>3. \/ Len(ap.buf) < MaxBuf /\ ap' = [ap EXCEPT !.kc = k, !.buf = b]
          \/ ap' = [ap EXCEPT !.kc = k]
      BY <2>2 DEF KeyBegin
    <3> HIDE DEF k, b
    <3>4. ap' \in Points /\ (ap'.buf = ap.buf \/ (ap'.buf = b /\ Len(ap.buf) < MaxBuf))
      BY <2>1, <3>1, <3>2, <3>3 DEF Points
    <3>5. MaxBuf \in Nat
      BY ApAssumption
    <3>6. CASE ap'.buf = ap.buf
      BY <2>1, <3>4, <3>6
    <3>7. CASE ap'.buf = b /\ Len(ap.buf) < MaxBuf
      <4>1. \A n, x \in Nat : n < x => n + 1 <= x
        OBVIOUS
      <4>2. Len(b) <= MaxBuf
        BY <3>2, <3>5, <3>7, <4>1
      <4> QED
        BY <3>4, <3>7, <4>2
    <3> QED
      BY <3>4, <3>6, <3>7
  <2>3. CASE DelKeyBegin(ok)
    BY <2>1, <2>3 DEF DelKeyBegin
  <2>4. CASE StartBegin(ok)
    BY <2>1, <2>4 DEF StartBegin, Points
  <2>5. CASE StopCommand(ok)
    <3>1. ap' = [ap EXCEPT !.kc = 0, !.par = FALSE] /\ 0 \in Keys
      BY <2>5 DEF StopCommand, Keys
    <3> QED
      BY <2>1, <3>1 DEF Points
  <2> QED
    BY <2>2, <2>3, <2>4, <2>5
<1> QED
  BY <1>1, <1>4, <1>5, <1>6 DEF Typed, Types, DriverTypes, WorldTypes, SameLoad

\* A request is over.
LEMMA PointReturn ==
  ASSUME Typed, KeyReturn \/ DelKeyReturn \/ Started \/ StopReturn
  PROVE  Typed'
<1>1. /\ th["user"].todo # <<>> /\ Advance("user", <<>>)
      /\ UNCHANGED <<fw, ctx, client, aids, cookie, evq, notes, left>>
  BY DEF KeyReturn, DelKeyReturn, Started, StopReturn, Now
<1>2. "user" \in Threads /\ SameLoad
  BY <1>1 DEF Threads, SameLoad, Typed, Types, WorldTypes
<1>3. ThreadTypes' /\ Scripts'
  BY <1>1, <1>2, StepAdvances
<1>4. ap' \in Points /\ Len(ap'.buf) <= MaxBuf
  <2>1. ap \in Points /\ Len(ap.buf) <= MaxBuf /\ 0 \in Keys /\ <<>> \in Seq(Keys) /\ Len(<<>>) = 0 /\ MaxBuf \in Nat
    BY ApAssumption DEF Typed, Types, DriverTypes, Keys
  <2>2. \/ ap' = ap \/ ap' = [ap EXCEPT !.kc = 0] \/ ap' = [ap EXCEPT !.started = FALSE]
        \/ ap' = [ap EXCEPT !.buf = <<>>, !.started = TRUE]
    BY DEF KeyReturn, DelKeyReturn, Started, StopReturn
  <2>3. CASE ap' = [ap EXCEPT !.buf = <<>>, !.started = TRUE]
    <3>1. ap' \in Points /\ ap'.buf = <<>>
      BY <2>1, <2>3 DEF Points
    <3> QED
      BY <2>1, <3>1
  <2> QED
    BY <2>1, <2>2, <2>3 DEF Points
<1>5. hs' \in [Macs -> {"none", "auth", "assoc"}]
  BY DEF KeyReturn, DelKeyReturn, Started, StopReturn, Typed, Types, WorldTypes
<1> QED
  BY <1>1, <1>3, <1>4, <1>5 DEF Typed, Types, DriverTypes, WorldTypes

LEMMA BufKeyTyped ==
  ASSUME Typed, NEW ok \in BOOLEAN, BufKey(ok)
  PROVE  Typed'
<1>1. /\ th["user"].todo # <<>> /\ Cur("user").op = "bufkey" /\ Advance("user", <<>>)
      /\ UNCHANGED <<ap, ctx, client, aids, cookie, evq, notes, hs>>
  BY DEF BufKey, Now, Cur
<1>2. "user" \in Threads /\ SameLoad
  <2>1. left' = left \/ Spend("fails")
    BY DEF BufKey
  <2> QED
    BY <2>1, Spent DEF Threads, SameLoad, Typed, Types, WorldTypes
<1>3. ThreadTypes' /\ Scripts'
  BY <1>1, <1>2, StepAdvances
<1>4. fw' \in Firmwares
  <2>1. Cur("user").i \in Keys /\ fw \in Firmwares
    BY <1>1, <1>2, Current DEF Typed, Types, WorldTypes
  <2>2. fw' = fw \/ fw' = [fw EXCEPT !.key = Cur("user").i]
    BY DEF BufKey
  <2> QED
    BY <2>1, <2>2 DEF Firmwares
<1> QED
  BY <1>1, <1>2, <1>3, <1>4 DEF Typed, Types, DriverTypes, WorldTypes, SameLoad

\* A list of calls of one kind that ends with another: the kept keys and the end of the start,
\* the stations' deletions and the stop.
LEMMA ListTyped ==
  ASSUME NEW s \in Seq(CallSet), NEW e \in CallSet, NEW op \in {"bufkey", "delctx"},
         e.op = IF op = "bufkey" THEN "started" ELSE "stopcmd",
         \A j \in 1 .. Len(s) : s[j].op = op /\ (op = "bufkey" => s[j].i \in Keys)
  PROVE  /\ Append(s, e) \in Seq(CallSet) /\ ScriptUser(Append(s, e)) /\ Len(Append(s, e)) = Len(s) + 1
         /\ \A j \in 1 .. Len(s) : Append(s, e)[j] = s[j]
         /\ Append(s, e)[Len(s) + 1] = e
<1> DEFINE r == Append(s, e)
<1>1. r \in Seq(CallSet) /\ Len(r) = Len(s) + 1 /\ Len(s) \in Nat
  OBVIOUS
<1>2. (\A j \in 1 .. Len(s) : r[j] = s[j]) /\ r[Len(s) + 1] = e
  OBVIOUS
<1> HIDE DEF r
<1>3. \A n \in Nat : \A j \in 1 .. n + 1 : j \in 1 .. n \/ j = n + 1
  OBVIOUS
<1>4. \A j \in 1 .. Len(r) : (r[j].op = op /\ (op = "bufkey" => r[j].i \in Keys)) \/ (j = Len(r) /\ r[j] = e)
  BY <1>1, <1>2, <1>3
<1>5. r[Len(r)] = e
  BY <1>1, <1>2
<1>6. ScriptUser(r)
  BY <1>4, <1>5 DEF ScriptUser, Users
<1> QED
  BY <1>1, <1>2, <1>6 DEF r

\* The calls a start or a stop consists of.
LEMMA KeyCalls ==
  ASSUME ap \in Points
  PROVE  /\ BufferedKeys \in Seq(CallSet) /\ Len(BufferedKeys) = Len(ap.buf)
         /\ \A j \in 1 .. Len(ap.buf) : /\ BufferedKeys[j].op = "bufkey" /\ BufferedKeys[j].i = ap.buf[j]
                                        /\ BufferedKeys[j].i \in Keys
<1>1. ap.buf \in Seq(Keys) /\ Len(ap.buf) \in Nat
  BY DEF Points
<1>2. ASSUME NEW j \in 1 .. Len(ap.buf)
      PROVE  LET c == [Call("bufkey", NoMac) EXCEPT !.i = ap.buf[j]]
             IN c \in CallSet /\ c.op = "bufkey" /\ c.i = ap.buf[j]
  <2>1. ap.buf[j] \in Keys
    BY <1>1
  <2>2. ap.buf[j] \in Nums
    BY <2>1 DEF Keys, Nums
  <2> QED
    BY <2>2 DEF Call, CallSet, Users, Kinds
<1>3. \A j \in 1 .. Len(ap.buf) : ap.buf[j] \in Keys
  BY <1>1
<1> QED
  BY <1>1, <1>2, <1>3 DEF BufferedKeys

LEMMA StopCalls ==
  /\ FlushCalls \in Seq(CallSet) /\ Len(FlushCalls) = Cardinality(Bound)
  /\ \A j \in 1 .. Len(FlushCalls) : FlushCalls[j].op = "delctx"
<1> DEFINE n == Cardinality(Bound)
           c(j) == [Call("delctx", NoMac) EXCEPT !.i = InOrder(Bound)[j]]
<1>1. IsFiniteSet(Bound) /\ Bound \in SUBSET Idx
  BY ApAssumption, FS_Subset DEF Bound
<1>2. n \in Nat
  BY <1>1, FS_CardinalityType
<1>3. ASSUME NEW j \in 1 .. n PROVE c(j) \in CallSet /\ c(j).op = "delctx"
  <2>1. j \in Nat
    BY <1>2
  <2>2. InOrder(Bound)[j] \in Sorted
    BY <1>1, <2>1 DEF Sorted
  <2>3. InOrder(Bound)[j] \in Nums
    BY <2>2 DEF Nums
  <2> QED
    BY <2>3 DEF Call, CallSet, Users, Kinds
<1>4. FlushCalls = [j \in 1 .. n |-> c(j)]
  BY DEF FlushCalls
<1> HIDE DEF n, c
<1>5. FlushCalls \in Seq(CallSet) /\ Len(FlushCalls) = n
  BY <1>2, <1>3, <1>4
<1> QED
  BY <1>2, <1>3, <1>4, <1>5 DEF n

\* A request ends with a list of calls instead.
LEMMA UserMore ==
  ASSUME Typed, NEW s \in Seq(CallSet), ScriptUser(s), \A j \in 1 .. Len(s) : s[j].op # "add",
         th["user"].todo # <<>>, Cur("user").op \notin {"delctx", "bufkey", "tx"},
         Advance("user", s), notes' = notes, SameLoad
  PROVE  /\ ThreadTypes' /\ Scripts' /\ th'["user"].todo = s /\ th'["user"].at = 0
         /\ \A u \in Threads : u # "user" => th'[u] = th[u]
<1>1. "user" \in Threads /\ th["user"].todo \in Seq(CallSet)
  BY DEF Threads, Typed, Types, ThreadTypes, Progress
<1>2. Len(th["user"].todo) = 1
  <2>1. Cur("user") = th["user"].todo[1] /\ 1 \in 1 .. Len(th["user"].todo)
    BY <1>1, Current
  <2> QED
    BY <2>1 DEF Typed, Scripts, Texts, ScriptUser
<1>3. Tail(th["user"].todo) = <<>> /\ s \o <<>> = s
  BY <1>1, <1>2, TailOfOne
<1>4. /\ ThreadTypes' /\ th'["user"].todo = s /\ th'["user"].at = 0
      /\ \A u \in Threads : u # "user" => th'[u] = th[u]
  BY <1>1, <1>3, Advanced DEF Typed, Types
<1>5. Texts' /\ \A u \in Threads : InStage(u)'
  BY <1>1, <1>4, NewWork
<1> QED
  BY <1>4, <1>5 DEF Scripts, Typed, NotesFit, SameLoad

\* What a start that succeeded, and a stop, consist of.
LEMMA StartList ==
  ASSUME ap \in Points
  PROVE  LET s == Append(BufferedKeys, Call("started", NoMac)) IN
         /\ s \in Seq(CallSet) /\ ScriptUser(s) /\ Len(s) = Len(ap.buf) + 1
         /\ \A j \in 1 .. Len(ap.buf) : s[j].op = "bufkey" /\ s[j].i = ap.buf[j]
         /\ s[Len(ap.buf) + 1].op = "started"
<1> DEFINE e == Call("started", NoMac)
           b == BufferedKeys
<1>1. e \in CallSet /\ e.op = "started"
  BY CallTyped DEF Users
<1>2. b \in Seq(CallSet) /\ Len(b) = Len(ap.buf)
      /\ \A j \in 1 .. Len(ap.buf) : b[j].op = "bufkey" /\ b[j].i = ap.buf[j] /\ b[j].i \in Keys
  BY KeyCalls
<1> HIDE DEF e, b
<1>3. /\ Append(b, e) \in Seq(CallSet) /\ ScriptUser(Append(b, e)) /\ Len(Append(b, e)) = Len(b) + 1
      /\ \A j \in 1 .. Len(b) : Append(b, e)[j] = b[j]
      /\ Append(b, e)[Len(b) + 1] = e
  BY <1>1, <1>2, ListTyped
<1> QED
  BY <1>1, <1>2, <1>3 DEF e, b

LEMMA StopList ==
  LET s == Append(FlushCalls, Call("stopcmd", NoMac)) IN
  /\ s \in Seq(CallSet) /\ ScriptUser(s) /\ Len(s) = Cardinality(Bound) + 1
  /\ \A j \in 1 .. Cardinality(Bound) : s[j].op = "delctx"
  /\ s[Cardinality(Bound) + 1].op = "stopcmd"
<1> DEFINE e == Call("stopcmd", NoMac)
           b == FlushCalls
<1>1. e \in CallSet /\ e.op = "stopcmd"
  BY CallTyped DEF Users
<1>2. b \in Seq(CallSet) /\ Len(b) = Cardinality(Bound) /\ \A j \in 1 .. Len(b) : b[j].op = "delctx"
  BY StopCalls
<1> HIDE DEF e, b
<1>3. /\ Append(b, e) \in Seq(CallSet) /\ ScriptUser(Append(b, e)) /\ Len(Append(b, e)) = Len(b) + 1
      /\ \A j \in 1 .. Len(b) : Append(b, e)[j] = b[j]
      /\ Append(b, e)[Len(b) + 1] = e
  BY <1>1, <1>2, ListTyped
<1> QED
  BY <1>1, <1>2, <1>3 DEF e, b

LEMMA ListIndexes == ASSUME NEW n \in Nat, NEW j \in 1 .. n + 1 PROVE j \in 1 .. n \/ j = n + 1
OBVIOUS

LEMMA StartReturnTyped ==
  ASSUME Typed, StartReturn
  PROVE  Typed'
<1>1. /\ th["user"].todo # <<>> /\ Cur("user").op = "start"
      /\ UNCHANGED <<fw, ctx, client, aids, cookie, evq, notes, hs, odd, left>>
  BY DEF StartReturn, Now, Cur
<1>2. "user" \in Threads /\ SameLoad /\ ap \in Points
  BY <1>1 DEF Threads, SameLoad, Typed, Types, WorldTypes, DriverTypes
<1>3. ThreadTypes' /\ Scripts'
  <2>1. CASE ~th["user"].ok
    BY <1>1, <1>2, <2>1, StepAdvances DEF StartReturn
  <2>2. CASE th["user"].ok
    <3> DEFINE s == Append(BufferedKeys, Call("started", NoMac))
    <3>1. /\ s \in Seq(CallSet) /\ ScriptUser(s) /\ Len(s) = Len(ap.buf) + 1 /\ s[Len(ap.buf) + 1].op = "started"
          /\ \A j \in 1 .. Len(ap.buf) : s[j].op = "bufkey"
      BY <1>2, StartList
    <3>2. Advance("user", s) /\ Len(ap.buf) \in Nat
      BY <1>2, <2>2 DEF StartReturn, Points
    <3> HIDE DEF s
    <3>3. \A j \in 1 .. Len(s) : s[j].op # "add"
      BY <3>1, <3>2, ListIndexes
    <3> QED
      BY <1>1, <1>2, <3>1, <3>2, <3>3, UserMore
  <2> QED
    BY <2>1, <2>2
<1>4. ap' \in Points /\ Len(ap'.buf) <= MaxBuf
  <2>1. ap' = [ap EXCEPT !.carrier = TRUE] \/ ap' = [ap EXCEPT !.par = FALSE]
    BY DEF StartReturn
  <2>2. ap' \in Points /\ ap'.buf = ap.buf
    BY <1>2, <2>1 DEF Points
  <2> QED
    BY <2>2 DEF Typed, Types, DriverTypes
<1> QED
  BY <1>1, <1>3, <1>4 DEF Typed, Types, DriverTypes, WorldTypes

LEMMA StopBeginTyped ==
  ASSUME Typed, StopBegin
  PROVE  Typed'
<1>1. /\ th["user"].todo # <<>> /\ Cur("user").op = "stop"
      /\ UNCHANGED <<fw, ctx, client, aids, cookie, evq, notes, hs, odd, left>>
  BY DEF StopBegin, Now, Cur
<1>2. "user" \in Threads /\ SameLoad /\ ap \in Points /\ Cardinality(Bound) \in Nat
  <2>1. IsFiniteSet(Bound)
    BY ApAssumption, FS_Subset DEF Bound
  <2> QED
    BY <1>1, <2>1, FS_CardinalityType DEF Threads, SameLoad, Typed, Types, WorldTypes, DriverTypes
<1>3. ThreadTypes' /\ Scripts'
  <2> DEFINE s == Append(FlushCalls, Call("stopcmd", NoMac))
  <2>1. /\ s \in Seq(CallSet) /\ ScriptUser(s) /\ Len(s) = Cardinality(Bound) + 1
        /\ s[Cardinality(Bound) + 1].op = "stopcmd"
        /\ \A j \in 1 .. Cardinality(Bound) : s[j].op = "delctx"
    BY StopList
  <2>2. Advance("user", s)
    BY DEF StopBegin
  <2> HIDE DEF s
  <2>3. \A j \in 1 .. Len(s) : s[j].op # "add"
    BY <1>2, <2>1, ListIndexes
  <2> QED
    BY <1>1, <1>2, <2>1, <2>2, <2>3, UserMore
<1>4. ap' \in Points /\ ap'.buf = ap.buf
  BY <1>2 DEF StopBegin, Points
<1> QED
  BY <1>1, <1>3, <1>4 DEF Typed, Types, DriverTypes, WorldTypes
-----------------------------------------------------------------------------
(* Types of hostapd's requests and answers. *)

LEMMA RestOfOps ==
  ASSUME left \in LoadType, left.ops # <<>>, left' = [left EXCEPT !.ops = Tail(@)]
  PROVE  Head(left.ops) \in Requests /\ SameLoad
<1>1. left.ops \in Seq(Requests)
  BY DEF LoadType
<1>2. Head(left.ops) \in Requests /\ Tail(left.ops) \in Seq(Requests)
  BY <1>1
<1> QED
  BY <1>2 DEF LoadType, SameLoad

LEMMA CallsTyped ==
  ASSUME NEW o \in Requests
  PROVE  /\ Calls(o) \in Seq(CallSet) /\ ScriptUser(Calls(o)) /\ Calls(o) # <<>>
         /\ \A j \in 1 .. Len(Calls(o)) : Calls(o)[j].op \notin {"add", "delctx", "bufkey", "stopcmd", "started"}
         /\ o.op = "kick" => /\ o.m \in Macs /\ Len(Calls(o)) = 2 /\ Calls(o)[1].op = "tx"
                             /\ Calls(o)[2].op = "del" /\ Calls(o)[2].m = o.m /\ Calls(o)[1].m = o.m
         /\ o.op # "kick" => Len(Calls(o)) = 1 /\ Calls(o)[1].op = o.op /\ o.op \in {"key", "delkey", "start", "stop"}
<1>1. CASE o.op = "key"
  <2> DEFINE c == [Call("key", NoMac) EXCEPT !.i = o.i]
  <2>1. o.i \in Keys /\ Keys \subseteq Nums
    BY <1>1 DEF Requests, Keys, Nums
  <2>2. c \in CallSet /\ c.op = "key" /\ c.i = o.i
    BY <2>1 DEF Call, CallSet, Users, Kinds
  <2>3. Calls(o) = <<c>>
    BY <1>1 DEF Calls
  <2> HIDE DEF c
  <2>4. <<c>> \in Seq(CallSet) /\ ScriptUser(<<c>>) /\ \A j \in 1 .. Len(<<c>>) : <<c>>[j] = c
    BY <2>1, <2>2, OneRequest DEF Users
  <2> QED
    BY <1>1, <2>2, <2>3, <2>4, Calls1
<1>2. CASE o.op = "kick"
  <2> DEFINE c == [Call("tx", o.m) EXCEPT !.k = "deauth"]
             d == Call("del", o.m)
  <2>1. o.m \in Macs
    BY <1>2 DEF Requests
  <2>2. c \in CallSet /\ c.op = "tx" /\ c.k = "deauth" /\ c.m = o.m
    BY <2>1, IdleTyped DEF Call, CallSet, Users, Kinds
  <2>3. d \in CallSet /\ d.op = "del" /\ d.m = o.m
    BY <2>1, CallTyped DEF Users
  <2>4. Calls(o) = <<c, d>>
    BY <1>2 DEF Calls
  <2> HIDE DEF c, d
  <2>5. <<c, d>> \in Seq(CallSet) /\ Len(<<c, d>>) = 2 /\ <<c, d>>[1] = c /\ <<c, d>>[2] = d
    BY <2>2, <2>3, Calls2
  <2>6. \A j \in 1 .. 2 : j = 1 \/ j = 2
    OBVIOUS
  <2>7. ScriptUser(<<c, d>>)
    BY <2>1, <2>2, <2>3, <2>5, <2>6 DEF ScriptUser, Users
  <2> QED
    BY <1>2, <2>1, <2>2, <2>3, <2>4, <2>5, <2>6, <2>7
<1>3. CASE o.op \notin {"key", "kick"}
  <2> DEFINE c == Call(o.op, o.m)
  <2>1. o.op \in {"start", "stop", "delkey"} /\ o.m = NoMac
    BY <1>3 DEF Requests
  <2>2. c \in CallSet /\ c.op = o.op
    BY <2>1, CallTyped DEF Users
  <2>3. Calls(o) = <<c>>
    BY <1>3 DEF Calls
  <2> HIDE DEF c
  <2>4. <<c>> \in Seq(CallSet) /\ ScriptUser(<<c>>) /\ \A j \in 1 .. Len(<<c>>) : <<c>>[j] = c
    BY <2>1, <2>2, OneRequest DEF Users
  <2> QED
    BY <1>3, <2>1, <2>2, <2>3, <2>4, Calls1
<1> QED
  BY <1>1, <1>2, <1>3

LEMMA RequestTyped ==
  ASSUME Typed, Request \/ Forgo
  PROVE  Typed'
<1>1. /\ left.ops # <<>> /\ left' = [left EXCEPT !.ops = Tail(@)] /\ th["user"].todo = <<>>
      /\ UNCHANGED <<ap, fw, ctx, client, aids, cookie, evq, notes>>
  BY DEF Request, Forgo
<1>2. Head(left.ops) \in Requests /\ SameLoad /\ "user" \in Threads
  BY <1>1, RestOfOps DEF Typed, Types, WorldTypes, Threads
<1>3. CASE Request
  <2> DEFINE o == Head(left.ops)
             s == Calls(o)
  <2>1. s \in Seq(CallSet) /\ ScriptUser(s) /\ (\A j \in 1 .. Len(s) : s[j].op # "add") /\ (o.op = "kick" => o.m \in Macs)
    BY <1>2, CallsTyped
  <2>2. /\ th' = [th EXCEPT !["user"] = [Idle EXCEPT !.todo = s]]
        /\ hs' = IF o.op = "kick" THEN [hs EXCEPT ![o.m] = "none"] ELSE hs
    BY <1>3 DEF Request
  <2> HIDE DEF o, s
  <2>3. /\ ThreadTypes' /\ th'["user"].todo = s /\ th'["user"].at = 0
        /\ \A u \in Threads : u # "user" => th'[u] = th[u]
    BY <1>2, <2>1, <2>2, Taken DEF Typed, Types
  <2>4. Texts' /\ \A u \in Threads : InStage(u)'
    BY <1>2, <2>1, <2>3, NewWork
  <2>5. hs' \in [Macs -> {"none", "auth", "assoc"}]
    BY <2>1, <2>2 DEF Typed, Types, WorldTypes
  <2> QED
    BY <1>1, <1>2, <2>3, <2>4, <2>5 DEF Typed, Types, DriverTypes, WorldTypes, Scripts, NotesFit, SameLoad
<1>4. CASE Forgo
  <2>1. th' = th /\ hs' = hs
    BY <1>4 DEF Forgo
  <2> QED
    BY <1>1, <1>2, <2>1 DEF Typed, Types, ThreadTypes, DriverTypes, WorldTypes, Scripts, Texts, InStage, At, Now,
                            NotesFit, SameLoad
<1> QED
  BY <1>3, <1>4

\* The first notification is taken.
LEMMA NoteTaken ==
  ASSUME Typed, notes # <<>>, notes' = Tail(notes), SameLoad
  PROVE  /\ notes' \in Seq(Notices) /\ NotesFit' /\ Head(notes) \in Notices /\ Head(notes) = notes[1]
         /\ Head(notes).k \in (IF left.ext THEN {"auth", "assoc", "deauth"} ELSE {"deauth", "new"})
         /\ Len(notes) \in Nat \ {0} /\ Len(notes') = Len(notes) - 1
         /\ \A j \in 1 .. Len(notes') : j + 1 \in 1 .. Len(notes) /\ notes'[j] = notes[j + 1]
<1>1. notes \in Seq(Notices) /\ NotesFit /\ left'.ext = left.ext
  BY DEF Typed, Types, WorldTypes, Scripts, SameLoad
<1>2. /\ notes' \in Seq(Notices) /\ Head(notes) \in Notices /\ Head(notes) = notes[1] /\ Len(notes) \in Nat \ {0}
      /\ Len(notes') = Len(notes) - 1
  BY <1>1
<1>3. \A j \in 1 .. Len(notes) - 1 : notes'[j] = notes[j + 1]
  BY <1>1
<1>4. \A j \in 1 .. Len(notes) - 1 : j + 1 \in 1 .. Len(notes)
  BY <1>2
<1>5. 1 \in 1 .. Len(notes)
  BY <1>2
<1>6. NotesFit'
  BY <1>1, <1>2, <1>3, <1>4 DEF NotesFit
<1> QED
  BY <1>1, <1>2, <1>3, <1>4, <1>5, <1>6 DEF NotesFit

LEMMA NotifiedTyped ==
  ASSUME Typed, Notified
  PROVE  Typed'
<1> DEFINE n == Head(notes)
           add == n.k = "auth" /\ hs[n.m] = "none" /\ ap.started
           del == n.k = "deauth" /\ hs[n.m] # "none"
           assoc == n.k = "assoc" /\ hs[n.m] = "auth"
           s == IF add THEN <<Call("add", n.m)>> ELSE IF del THEN <<Call("del", n.m)>> ELSE <<>>
<1>1. /\ th["user"].todo = <<>> /\ notes # <<>> /\ notes' = Tail(notes)
      /\ th' = [th EXCEPT !["user"] = [Idle EXCEPT !.todo = s]]
      /\ ctx' = (IF assoc THEN Associated(n.m) ELSE ctx)
      /\ hs' = CASE assoc \/ (n.k = "new" /\ ap.started) -> [hs EXCEPT ![n.m] = "assoc"]
                 [] del -> [hs EXCEPT ![n.m] = "none"]
                 [] OTHER -> hs
      /\ UNCHANGED <<ap, fw, client, aids, cookie, evq, left>>
  BY DEF Notified
<1>2. SameLoad /\ "user" \in Threads
  BY <1>1 DEF SameLoad, Typed, Types, WorldTypes, Threads
<1>3. /\ notes' \in Seq(Notices) /\ NotesFit' /\ n \in Notices
      /\ n.k \in (IF left.ext THEN {"auth", "assoc", "deauth"} ELSE {"deauth", "new"})
  BY <1>1, <1>2, NoteTaken
<1>4. n.m \in Macs
  BY <1>3 DEF Notices
<1> HIDE DEF n
<1>5. s \in Seq(CallSet) /\ ScriptUser(s) /\ (~left.ext => \A j \in 1 .. Len(s) : s[j].op # "add")
  <2>1. CASE add
    <3>1. Call("add", n.m) \in CallSet /\ Call("add", n.m).op = "add" /\ Call("add", n.m).m = n.m
      BY <1>4, CallTyped DEF Users
    <3>2. s = <<Call("add", n.m)>> /\ left.ext
      BY <1>3, <2>1
    <3> HIDE DEF s
    <3> QED
      BY <1>4, <3>1, <3>2, OneRequest DEF Users
  <2>2. CASE ~add /\ del
    <3>1. Call("del", n.m) \in CallSet /\ Call("del", n.m).op = "del" /\ Call("del", n.m).m = n.m
      BY <1>4, CallTyped DEF Users
    <3>2. s = <<Call("del", n.m)>>
      BY <2>2
    <3> HIDE DEF s
    <3> QED
      BY <1>4, <3>1, <3>2, OneRequest DEF Users
  <2>3. CASE ~add /\ ~del
    <3>1. s = <<>>
      BY <2>3
    <3> HIDE DEF s
    <3> QED
      BY <3>1, Nothing
  <2> QED
    BY <2>1, <2>2, <2>3
<1>6. ctx' \in [Idx -> Peers]
  BY <1>1, AssociatedTyped DEF Typed, Types, DriverTypes
<1>7. hs' \in [Macs -> {"none", "auth", "assoc"}]
  BY <1>1, <1>4 DEF Typed, Types, WorldTypes
<1> HIDE DEF s
<1>8. /\ ThreadTypes' /\ th'["user"].todo = s /\ th'["user"].at = 0
      /\ \A u \in Threads : u # "user" => th'[u] = th[u]
  BY <1>1, <1>2, <1>5, Taken DEF Typed, Types
<1>9. Texts' /\ \A u \in Threads : InStage(u)'
  BY <1>2, <1>5, <1>8, NewWork
<1> QED
  BY <1>1, <1>3, <1>6, <1>7, <1>8, <1>9 DEF Typed, Types, DriverTypes, WorldTypes, Scripts
-----------------------------------------------------------------------------
(* Types of the event work. *)

LEMMA RefuseTyped ==
  ASSUME Typed, NEW ok \in BOOLEAN, Refuse(ok)
  PROVE  Typed'
<1>1. /\ th["evw"].todo # <<>> /\ Advance("evw", <<>>)
      /\ UNCHANGED <<ap, ctx, client, aids, cookie, evq, notes, hs>>
  BY DEF Refuse, Now
<1>2. "evw" \in Threads /\ SameLoad
  <2>1. left' = left \/ Spend("fails")
    BY DEF Refuse
  <2> QED
    BY <2>1, Spent DEF Threads, SameLoad, Typed, Types, WorldTypes
<1>3. ThreadTypes' /\ Scripts'
  BY <1>1, <1>2, StepAdvances
<1>4. fw' \in Firmwares
  BY ForgetTyped DEF Refuse, Typed, Types, WorldTypes
<1> QED
  BY <1>1, <1>2, <1>3, <1>4 DEF Typed, Types, DriverTypes, WorldTypes, SameLoad

\* What the event work keeps.
evSame == UNCHANGED <<ap, fw, cookie, hs, left>>

LEMMA EventTaken ==
  ASSUME Typed, NEW f \in Frames \cup {"late", "status"}, Takes(f)
  PROVE  /\ th["evw"].todo = <<>> /\ evq' \in Seq(Events) /\ Ev \in Events /\ Ev.m \in Macs /\ Ev.f = f
         /\ f \in Frames => Ev.sn \in Nat
         /\ f = "status" => Ev.k \in {"auth", "assoc"} /\ Ev.ck \in Nat /\ Ev.ack \in BOOLEAN
<1>1. evq \in Seq(Events) /\ evq # <<>> /\ evq' = Tail(evq) /\ th["evw"].todo = <<>> /\ Ev.f = f
  BY DEF Typed, Types, WorldTypes, Takes, Ev
<1>2. Ev \in Events /\ evq' \in Seq(Events)
  BY <1>1 DEF Ev
<1>3. Ev.m \in Macs
  BY <1>2 DEF Events, Airs
<1>4. f \in Frames => Ev.sn \in Nat
  BY <1>1, <1>2 DEF Events, Airs, Frames
<1>5. f = "status" => Ev.k \in {"auth", "assoc"} /\ Ev.ck \in Nat /\ Ev.ack \in BOOLEAN
  BY <1>1, <1>2 DEF Events, Airs, Frames
<1> QED
  BY <1>1, <1>2, <1>3, <1>4, <1>5

\* The event work takes up an event.
LEMMA EventWork ==
  ASSUME Typed, NEW s \in Seq(CallSet), Work(s), ScriptWork(s), SameLoad,
         left.ext => \A j \in 1 .. Len(s) : s[j].op = "refuse"
  PROVE  /\ ThreadTypes' /\ th'["evw"].todo = s /\ th'["evw"].at = 0 /\ th'["user"] = th["user"]
         /\ Texts' /\ \A u \in Threads : InStage(u)'
<1>1. "evw" \in Threads /\ "user" \in Threads
  BY DEF Threads
<1>2. th' = [th EXCEPT !["evw"] = [Idle EXCEPT !.todo = s]]
  BY DEF Work
<1>3. /\ ThreadTypes' /\ th'["evw"].todo = s /\ th'["evw"].at = 0
      /\ \A u \in Threads : u # "evw" => th'[u] = th[u]
  BY <1>1, <1>2, Taken DEF Typed, Types
<1>4. Texts' /\ \A u \in Threads : InStage(u)'
  BY <1>1, <1>3, NewWork
<1> QED
  BY <1>1, <1>3, <1>4

\* The pieces of an event's typing put together.
LEMMA EventTyped ==
  ASSUME Typed, evSame, evq' \in Seq(Events), notes' \in Seq(Notices), NotesFit', ThreadTypes', Texts',
         \A u \in Threads : InStage(u)', ctx' \in [Idx -> Peers], client' \in [Macs -> Clients],
         aids' \subseteq 1 .. left.aid
  PROVE  Typed'
BY DEF Typed, Types, DriverTypes, WorldTypes, Scripts, evSame

LEMMA SameNotes ==
  ASSUME Typed, notes' = notes, SameLoad
  PROVE  notes' \in Seq(Notices) /\ NotesFit'
BY DEF Typed, Types, WorldTypes, Scripts, NotesFit, SameLoad

LEMMA evKept ==
  ASSUME Typed, evKeeps' = evKeeps
  PROVE  evSame /\ SameLoad
BY DEF evKeeps, evSame, SameLoad, Typed, Types, WorldTypes

\* Where hostapd answers the stations, the driver has no clients of its own.
Outside == left.ext => /\ \A m \in Macs : client[m] = NoClient
                       /\ \A j \in 1 .. Len(evq) : evq[j].f # "late"

LEMMA RefusedTyped ==
  ASSUME Typed, Outside, Refused \/ LateEvent
  PROVE  Typed'
<1>1. /\ Takes("auth") \/ Takes("late")
      /\ Work(<<Call("refuse", Ev.m)>>) \/ (Work(<<Call("del", Ev.m)>>) /\ Takes("late"))
      /\ UNCHANGED <<ctx, client, aids, notes>> /\ evKeeps' = evKeeps
  BY DEF Refused, LateEvent
<1>2. PICK op \in {"refuse", "del"} : Work(<<Call(op, Ev.m)>>) /\ (op = "del" => Takes("late"))
  BY <1>1
<1>3. evSame /\ SameLoad /\ notes' \in Seq(Notices) /\ NotesFit'
  BY <1>1, evKept, SameNotes
<1>4. th["evw"].todo = <<>> /\ evq' \in Seq(Events) /\ Ev.m \in Macs
  BY <1>1, EventTaken DEF Frames
<1>5. op = "del" => ~left.ext
  <2>1. evq \in Seq(Events)
    BY DEF Typed, Types, WorldTypes
  <2>2. Takes("late") => 1 \in 1 .. Len(evq) /\ evq[1].f = "late"
    BY <2>1 DEF Takes
  <2> QED
    BY <1>2, <2>2 DEF Outside
<1> DEFINE c == Call(op, Ev.m)
           s == <<c>>
<1>6. c \in CallSet /\ c.op = op /\ c.m = Ev.m
  BY <1>4, CallTyped DEF Users, Works
<1> HIDE DEF c
<1>7. s \in Seq(CallSet) /\ ScriptWork(s) /\ \A j \in 1 .. Len(s) : s[j] = c
  BY <1>4, <1>6, OneWork DEF Works
<1>8. Work(s) /\ (left.ext => \A j \in 1 .. Len(s) : s[j].op = "refuse")
  BY <1>2, <1>5, <1>6, <1>7 DEF c
<1> HIDE DEF s
<1>9. ThreadTypes' /\ Texts' /\ \A u \in Threads : InStage(u)'
  BY <1>3, <1>7, <1>8, EventWork
<1> QED
  BY <1>1, <1>3, <1>4, <1>9, EventTyped DEF Typed, Types, DriverTypes

\* An event after which the event work has at most an answer to send or a station to delete.
LEMMA ShortWork ==
  ASSUME Typed, NEW op \in {"del", "tx"}, NEW m \in Macs, NEW k \in Kinds, op = "tx" => k # "-", ~left.ext, SameLoad,
         Work(<<[Call(op, m) EXCEPT !.k = k]>>) \/ (op = "del" /\ Work(<<Call(op, m)>>))
  PROVE  /\ ThreadTypes' /\ th'["user"] = th["user"] /\ Len(th'["evw"].todo) = 1 /\ th'["evw"].at = 0
         /\ th'["evw"].todo[1].op = op /\ th'["evw"].todo[1].m = m
         /\ Texts' /\ \A u \in Threads : InStage(u)'
<1>1. PICK c \in {[Call(op, m) EXCEPT !.k = k], Call(op, m)} : Work(<<c>>) /\ (c = Call(op, m) => op = "del")
  <2>1. CASE op = "del"
    BY <2>1
  <2>2. CASE op = "tx"
    <3>1. [Call(op, m) EXCEPT !.k = k].k = k /\ Call(op, m).k = "-"
      BY DEF Call
    <3> QED
      BY <2>2, <3>1
  <2> QED
    BY <2>1, <2>2
<1>2. c \in CallSet /\ c.op = op /\ c.m = m
  BY IdleTyped DEF Call, CallSet, Users, Works, Kinds
<1>3. op = "tx" => c.k = k
  BY <1>1 DEF Call
<1>4. <<c>> \in Seq(CallSet) /\ ScriptWork(<<c>>) /\ Len(<<c>>) = 1 /\ <<c>>[1] = c
  BY <1>2, <1>3, OneWork, Calls1 DEF Works
<1> DEFINE s == <<c>>
<1>5. s \in Seq(CallSet) /\ ScriptWork(s) /\ Len(s) = 1 /\ s[1] = c /\ Work(s)
  BY <1>1, <1>4
<1> HIDE DEF s
<1>6. /\ ThreadTypes' /\ th'["evw"].todo = s /\ th'["evw"].at = 0 /\ th'["user"] = th["user"]
      /\ Texts' /\ \A u \in Threads : InStage(u)'
  BY <1>5, EventWork
<1> QED
  BY <1>2, <1>5, <1>6

LEMMA NoWork ==
  ASSUME Typed, Work(<<>>), SameLoad
  PROVE  /\ ThreadTypes' /\ th'["user"] = th["user"] /\ th'["evw"].todo = <<>> /\ th'["evw"].at = 0
         /\ Texts' /\ \A u \in Threads : InStage(u)'
<1> DEFINE s == <<>>
<1>1. s \in Seq(CallSet) /\ ScriptWork(s) /\ Len(s) = 0 /\ Work(s)
  BY Nothing
<1>2. \A j \in 1 .. Len(s) : s[j].op = "refuse"
  BY <1>1
<1> HIDE DEF s
<1>3. /\ ThreadTypes' /\ th'["user"] = th["user"] /\ th'["evw"].todo = s /\ th'["evw"].at = 0
      /\ Texts' /\ \A u \in Threads : InStage(u)'
  BY <1>1, <1>2, EventWork
<1> QED
  BY <1>3 DEF s

\* No work changes.
LEMMA SameWork ==
  ASSUME Typed, th' = th, SameLoad
  PROVE  ThreadTypes' /\ Texts' /\ \A u \in Threads : InStage(u)'
BY DEF Typed, Types, ThreadTypes, Scripts, Texts, InStage, At, Now, Cur, SameLoad

LEMMA JoinIndexes ==
  ASSUME NEW a \in Seq(Notices), NEW b \in Seq(Notices)
  PROVE  /\ a \o b \in Seq(Notices) /\ Len(a \o b) = Len(a) + Len(b)
         /\ \A j \in 1 .. Len(a) : (a \o b)[j] = a[j]
         /\ \A j \in 1 .. Len(b) : (a \o b)[Len(a) + j] = b[j]
         /\ \A j \in 1 .. Len(a \o b) : (j \in 1 .. Len(a) /\ (a \o b)[j] = a[j])
                                         \/ (j - Len(a) \in 1 .. Len(b) /\ (a \o b)[j] = b[j - Len(a)])
<1>1. a \o b \in Seq(Notices) /\ Len(a \o b) = Len(a) + Len(b) /\ Len(a) \in Nat /\ Len(b) \in Nat
  OBVIOUS
<1>2. \A j \in 1 .. Len(a) : (a \o b)[j] = a[j]
  OBVIOUS
<1>3. \A j \in 1 .. Len(b) : (a \o b)[Len(a) + j] = b[j]
  OBVIOUS
<1>4. \A n, k \in Nat : \A j \in 1 .. n + k : j \in 1 .. n \/ (j - n \in 1 .. k /\ n + (j - n) = j)
  OBVIOUS
<1>5. ASSUME NEW j \in 1 .. Len(a \o b)
      PROVE  \/ j \in 1 .. Len(a) /\ (a \o b)[j] = a[j]
             \/ j - Len(a) \in 1 .. Len(b) /\ (a \o b)[j] = b[j - Len(a)]
  <2>1. j \in 1 .. Len(a) \/ (j - Len(a) \in 1 .. Len(b) /\ Len(a) + (j - Len(a)) = j)
    BY <1>1, <1>4
  <2> QED
    BY <1>2, <1>3, <2>1
<1> QED
  BY <1>1, <1>2, <1>3, <1>5

LEMMA OneNote ==
  ASSUME Typed, NEW k \in {"auth", "assoc", "deauth", "new"}, NEW m \in Macs, notes' = notes \o Tell(k, m), SameLoad,
         k \in (IF left.ext THEN {"auth", "assoc", "deauth"} ELSE {"deauth", "new"})
  PROVE  notes' \in Seq(Notices) /\ NotesFit'
<1>1. Tell(k, m) \in Seq(Notices) /\ Len(Tell(k, m)) = 1 /\ Tell(k, m)[1] = [k |-> k, m |-> m]
  BY TellTyped
<1>2. \A j \in 1 .. Len(Tell(k, m)) : Tell(k, m)[j].k = k
  BY <1>1
<1> QED
  BY <1>1, <1>2, Notify

LEMMA AuthUpTyped ==
  ASSUME Typed, AuthUp
  PROVE  Typed'
<1>1. /\ left.ext /\ Takes("auth") /\ ctx' = Reauth(Ev.m)
      /\ notes' = notes \o (IF Again(Ev.m) # {} THEN Tell("deauth", Ev.m) ELSE <<>>) \o Tell("auth", Ev.m)
      /\ UNCHANGED <<client, aids, th>> /\ evKeeps' = evKeeps
  BY DEF AuthUp
<1>2. evSame /\ SameLoad /\ evq' \in Seq(Events) /\ Ev.m \in Macs
  BY <1>1, evKept, EventTaken DEF Frames
<1>3. notes' \in Seq(Notices) /\ NotesFit'
  <2> DEFINE x == IF Again(Ev.m) # {} THEN Tell("deauth", Ev.m) ELSE <<>>
             y == Tell("auth", Ev.m)
             z == x \o y
  <2>1. y \in Seq(Notices) /\ Len(y) = 1 /\ \A j \in 1 .. Len(y) : y[j].k = "auth"
    <3>1. y \in Seq(Notices) /\ Len(y) = 1
      BY <1>2, TellTyped
    <3>2. "auth" \in {"auth", "assoc", "deauth", "new"}
      OBVIOUS
    <3>3. \A j \in 1 .. Len(y) : y[j].k = "auth" /\ y[j].m = Ev.m /\ j = 1
      BY <1>2, <3>2, TellTyped, Zenon
    <3> QED
      BY <3>1, <3>3
  <2>2. x \in Seq(Notices) /\ \A j \in 1 .. Len(x) : x[j].k = "deauth"
    <3>1. CASE Again(Ev.m) # {}
      <4>1. x = Tell("deauth", Ev.m)
        BY <3>1
      <4> HIDE DEF x
      <4> QED
        BY <1>2, <4>1, TellTyped
    <3>2. CASE Again(Ev.m) = {}
      BY <3>2
    <3> QED
      BY <3>1, <3>2
  <2>3. notes \in Seq(Notices) /\ notes' = (notes \o x) \o y
    BY <1>1 DEF Typed, Types, WorldTypes
  <2> HIDE DEF x, y
  <2>4. z \in Seq(Notices) /\ notes' = notes \o z
    BY <2>1, <2>2, <2>3
  <2>5. \A j \in 1 .. Len(z) : (j \in 1 .. Len(x) /\ z[j] = x[j])
                               \/ (j - Len(x) \in 1 .. Len(y) /\ z[j] = y[j - Len(x)])
    BY <2>1, <2>2, JoinIndexes
  <2>6. \A j \in 1 .. Len(z) : z[j].k \in {"auth", "deauth"}
    BY <2>1, <2>2, <2>5
  <2> HIDE DEF z
  <2> QED
    BY <1>1, <1>2, <2>4, <2>6, Notify
<1>4. ctx' \in [Idx -> Peers]
  BY <1>1, MarkedAre, MarkedTyped DEF Typed, Types, DriverTypes
<1> QED
  BY <1>1, <1>2, <1>3, <1>4, SameWork, EventTyped DEF Typed, Types, DriverTypes

LEMMA AddWork ==
  ASSUME Typed, NEW m \in Macs, ~left.ext, SameLoad, Work(<<Call("add", m), [Call("tx", m) EXCEPT !.k = "auth"]>>)
  PROVE  /\ ThreadTypes' /\ th'["user"] = th["user"] /\ th'["evw"].at = 0
         /\ Len(th'["evw"].todo) = 2 /\ th'["evw"].todo[1].op = "add" /\ th'["evw"].todo[1].m = m
         /\ th'["evw"].todo[2].op = "tx"
         /\ Texts' /\ \A u \in Threads : InStage(u)'
<1> DEFINE c == Call("add", m)
           d == [Call("tx", m) EXCEPT !.k = "auth"]
           s == <<c, d>>
<1>1. c \in CallSet /\ c.op = "add" /\ c.m = m
  BY IdleTyped DEF Call, CallSet, Users, Works, Kinds
<1>2. d \in CallSet /\ d.op = "tx" /\ d.m = m /\ d.k = "auth"
  BY IdleTyped DEF Call, CallSet, Users, Works, Kinds
<1> HIDE DEF c, d
<1>3. s \in Seq(CallSet) /\ Len(s) = 2 /\ s[1] = c /\ s[2] = d
  BY <1>1, <1>2, Calls2
<1>4. Work(s)
  BY DEF c, d
<1> HIDE DEF s
<1>5. \A j \in 1 .. 2 : j = 1 \/ j = 2
  OBVIOUS
<1>6. ScriptWork(s)
  BY <1>1, <1>2, <1>3, <1>5 DEF ScriptWork, Works
<1>7. /\ ThreadTypes' /\ th'["evw"].todo = s /\ th'["evw"].at = 0 /\ th'["user"] = th["user"]
      /\ Texts' /\ \A u \in Threads : InStage(u)'
  BY <1>3, <1>4, <1>6, EventWork
<1> QED
  BY <1>1, <1>2, <1>3, <1>7

LEMMA AuthTyped ==
  ASSUME Typed, Auth
  PROVE  Typed'
<1> DEFINE c == client[Ev.m]
           new == [NoClient EXCEPT !.in = TRUE, !.st = "authed", !.last = Ev.sn]
           old == [client[Ev.m] EXCEPT !.st = "authed", !.last = Ev.sn]
<1>1. ~left.ext /\ Takes("auth") /\ ctx' = Reauth(Ev.m) /\ UNCHANGED <<aids, notes>> /\ evKeeps' = evKeeps
  BY DEF Auth
<1>2. /\ evSame /\ SameLoad /\ evq' \in Seq(Events) /\ Ev.m \in Macs /\ Ev.sn \in Nat
      /\ notes' \in Seq(Notices) /\ NotesFit'
  BY <1>1, evKept, EventTaken, SameNotes DEF Frames
<1>3. c \in Clients /\ new \in Clients /\ old \in Clients
  BY <1>2 DEF Typed, Types, DriverTypes, Clients, NoClient
<1>4. \/ client' = [client EXCEPT ![Ev.m] = new] /\ Work(<<Call("add", Ev.m), [Call("tx", Ev.m) EXCEPT !.k = "auth"]>>)
      \/ client' = client /\ Work(<<>>)
      \/ client' = [client EXCEPT ![Ev.m] = old] /\ Work(<<[Call("tx", Ev.m) EXCEPT !.k = "auth"]>>)
  BY DEF Auth
<1>5. client' \in [Macs -> Clients]
  <2> HIDE DEF new, old
  <2> QED
    BY <1>2, <1>3, <1>4, ClientUpdate DEF Typed, Types, DriverTypes
<1>6. ThreadTypes' /\ Texts' /\ \A u \in Threads : InStage(u)'
  <2>1. CASE Work(<<Call("add", Ev.m), [Call("tx", Ev.m) EXCEPT !.k = "auth"]>>)
    BY <1>1, <1>2, <2>1, AddWork
  <2>2. CASE Work(<<>>)
    BY <1>2, <2>2, NoWork
  <2>3. CASE Work(<<[Call("tx", Ev.m) EXCEPT !.k = "auth"]>>)
    <3>1. "auth" \in Kinds /\ "tx" \in {"del", "tx"} /\ "auth" # "-"
      BY DEF Kinds
    <3> QED
      BY <1>1, <1>2, <2>3, <3>1, ShortWork
  <2> QED
    BY <1>4, <2>1, <2>2, <2>3
<1>7. ctx' \in [Idx -> Peers]
  BY <1>1, MarkedAre, MarkedTyped DEF Typed, Types, DriverTypes
<1> QED
  BY <1>1, <1>2, <1>5, <1>6, <1>7, EventTyped DEF Typed, Types, DriverTypes

\* The next aid is the lowest free one, or the number behind the last when there is none.
LEMMA NextAid ==
  ASSUME left \in LoadType
  PROVE  /\ NewAid \in Nat \ {0} /\ NewAid <= left.aid + 1
         /\ NewAid <= left.aid => NewAid \in 1 .. left.aid /\ NewAid \notin aids
<1>1. left.aid \in Nat
  BY DEF LoadType
<1>2. CASE 1 .. left.aid \subseteq aids
  BY <1>1, <1>2 DEF NewAid
<1>3. CASE ~(1 .. left.aid \subseteq aids)
  <2> DEFINE S == 1 .. left.aid \ aids
  <2>1. S \in SUBSET Nat /\ S # {}
    BY <1>1, <1>3
  <2>2. NewAid = Min(S)
    BY <1>3 DEF NewAid
  <2> HIDE DEF S
  <2>3. NewAid \in S
    BY <2>1, <2>2, MinimumExists
  <2> QED
    BY <1>1, <2>3 DEF S
<1> QED
  BY <1>2, <1>3

\* What an association does to the client it is of.
Joined(m, sn) == [client[m] EXCEPT !.last = sn, !.aid = NewAid]

LEMMA AssocCases ==
  ASSUME Assoc
  PROVE  /\ Takes("assoc") /\ ctx' = ctx /\ evKeeps' = evKeeps
         /\ \/ left.ext /\ notes' = notes \o Tell("assoc", Ev.m) /\ Work(<<>>) /\ UNCHANGED <<client, aids, odd>>
            \/ ~left.ext /\ Work(<<>>) /\ UNCHANGED <<client, aids, notes, odd>>
            \/ /\ ~left.ext /\ client[Ev.m].in /\ client[Ev.m].st = "none" /\ UNCHANGED <<client, aids, notes, odd>>
               /\ Work(<<[Call("tx", Ev.m) EXCEPT !.k = "deauth"]>>)
            \/ /\ ~left.ext /\ client[Ev.m].in /\ client[Ev.m].st # "none" /\ notes' = notes
               /\ client' = [client EXCEPT ![Ev.m] = Joined(Ev.m, Ev.sn)]
               /\ aids' = IF NewAid <= left.aid THEN aids \cup {NewAid} ELSE aids
               /\ odd' = odd \cup Mark(NewAid > left.aid, "aidfull")
               /\ Work(<<[Call("tx", Ev.m) EXCEPT !.k = "assoc"]>>)
BY DEF Assoc, Joined

LEMMA AssocTyped ==
  ASSUME Typed, Assoc
  PROVE  Typed'
<1>1. Takes("assoc") /\ ctx' = ctx /\ evKeeps' = evKeeps
  BY AssocCases
<1>2. evSame /\ SameLoad /\ evq' \in Seq(Events) /\ Ev.m \in Macs /\ Ev.sn \in Nat
  BY <1>1, evKept, EventTaken DEF Frames
<1>3. notes' \in Seq(Notices) /\ NotesFit'
  <2>1. CASE left.ext /\ notes' = notes \o Tell("assoc", Ev.m)
    BY <1>2, <2>1, OneNote
  <2> QED
    BY <1>2, <2>1, SameNotes, AssocCases
<1>4. ThreadTypes' /\ Texts' /\ \A u \in Threads : InStage(u)'
  <2>1. CASE Work(<<>>)
    BY <1>2, <2>1, NoWork
  <2>2. ASSUME NEW k \in {"assoc", "deauth"}, Work(<<[Call("tx", Ev.m) EXCEPT !.k = k]>>), ~left.ext
        PROVE  ThreadTypes' /\ Texts' /\ \A u \in Threads : InStage(u)'
    <3>1. k \in Kinds /\ "tx" \in {"del", "tx"} /\ k # "-"
      BY DEF Kinds
    <3> QED
      BY <1>2, <2>2, <3>1, ShortWork
  <2> QED
    BY <2>1, <2>2, AssocCases
<1>5. client' \in [Macs -> Clients] /\ aids' \subseteq 1 .. left.aid
  <2>1. CASE client' = client /\ aids' = aids
    BY <2>1 DEF Typed, Types, DriverTypes
  <2>2. CASE /\ client' = [client EXCEPT ![Ev.m] = Joined(Ev.m, Ev.sn)]
             /\ aids' = IF NewAid <= left.aid THEN aids \cup {NewAid} ELSE aids
    <3>1. NewAid \in Nat /\ (NewAid <= left.aid => NewAid \in 1 .. left.aid)
      BY NextAid DEF Typed, Types, WorldTypes
    <3>2. client[Ev.m] \in Clients
      BY <1>2 DEF Typed, Types, DriverTypes
    <3>3. Joined(Ev.m, Ev.sn) \in Clients
      BY <1>2, <3>1, <3>2 DEF Joined, Clients
    <3> QED
      BY <1>2, <2>2, <3>1, <3>3, ClientUpdate DEF Typed, Types, DriverTypes
  <2> QED
    BY <2>1, <2>2, AssocCases
<1> QED
  BY <1>1, <1>2, <1>3, <1>4, <1>5, EventTyped DEF Typed, Types, DriverTypes

LEMMA DeauthCases ==
  ASSUME Deauth
  PROVE  /\ Takes("deauth") \/ Takes("delsta")
         /\ UNCHANGED <<client, aids, odd>> /\ evKeeps' = evKeeps
         /\ ctx' = ctx \/ (Takes("deauth") /\ ctx' = Marked(CtxOf(Ev.m)))
         /\ notes' = notes \o Tell("deauth", Ev.m)
            \/ (notes' = notes /\ (Takes("delsta") => CtxOf(Ev.m) = {})
                /\ (Takes("deauth") => ~left.ext /\ client[Ev.m].st # "assoced"))
         /\ \/ Work(<<>>)
            \/ ~left.ext /\ Takes("deauth") /\ client[Ev.m].st = "authed" /\ notes' = notes /\ Work(<<Call("del", Ev.m)>>)
BY MarkedAre DEF Deauth, Takes, Ev

LEMMA DeauthTyped ==
  ASSUME Typed, Deauth
  PROVE  Typed'
<1>1. /\ Takes("deauth") \/ Takes("delsta")
      /\ UNCHANGED <<client, aids, odd>> /\ evKeeps' = evKeeps
  BY DeauthCases
<1>2. evSame /\ SameLoad /\ evq' \in Seq(Events) /\ Ev.m \in Macs
  BY <1>1, evKept, EventTaken DEF Frames
<1>3. notes' \in Seq(Notices) /\ NotesFit'
  <2>1. CASE notes' = notes \o Tell("deauth", Ev.m)
    BY <1>2, <2>1, OneNote
  <2> QED
    BY <1>2, <2>1, SameNotes, DeauthCases
<1>4. ThreadTypes' /\ Texts' /\ \A u \in Threads : InStage(u)'
  <2>1. CASE Work(<<>>)
    BY <1>2, <2>1, NoWork
  <2>2. CASE ~left.ext /\ Work(<<Call("del", Ev.m)>>)
    <3>1. "-" \in Kinds /\ "del" \in {"del", "tx"} /\ "del" # "tx"
      BY DEF Kinds
    <3> QED
      BY <1>2, <2>2, <3>1, ShortWork
  <2> QED
    BY <2>1, <2>2, DeauthCases
<1>5. ctx' \in [Idx -> Peers]
  BY MarkedTyped, DeauthCases DEF Typed, Types, DriverTypes
<1> QED
  BY <1>1, <1>2, <1>3, <1>4, <1>5, EventTyped DEF Typed, Types, DriverTypes

\* The status of the client's last frame: not sent, or sent, which for an association makes
\* the station associated.
LEMMA StatusCases ==
  ASSUME TxStatus
  PROVE  /\ Takes("status") /\ aids' = aids /\ evKeeps' = evKeeps
         /\ \/ /\ client[Ev.m].in /\ client' = [client EXCEPT ![Ev.m] = [client[Ev.m] EXCEPT !.st = "none"]]
               /\ ctx' = ctx /\ notes' = notes /\ Work(<<Call("del", Ev.m)>>)
            \/ /\ client[Ev.m].in /\ client' = [client EXCEPT ![Ev.m] = [client[Ev.m] EXCEPT !.timer = TRUE]]
               /\ ctx' = ctx /\ notes' = notes /\ Work(<<>>)
            \/ /\ client[Ev.m].in
               /\ client' = [client EXCEPT ![Ev.m] = [client[Ev.m] EXCEPT !.timer = FALSE, !.st = "assoced"]]
               /\ ctx' = Associated(Ev.m) /\ notes' = notes \o Tell("new", Ev.m) /\ Work(<<>>)
               /\ odd' = odd \cup Mark(CtxOf(Ev.m) = {}, "nopeer")
            \/ client' = client /\ ctx' = ctx /\ notes' = notes /\ Work(<<>>)
<1> DEFINE c == client[Ev.m]
           mine == c.in /\ c.ck = Ev.ck
           good == mine /\ Ev.ack
           bad == mine /\ ~Ev.ack
<1>1. /\ Takes("status") /\ aids' = aids /\ evKeeps' = evKeeps
      /\ client' = CASE bad -> [client EXCEPT ![Ev.m].st = "none"]
                     [] good /\ Ev.k = "auth" -> [client EXCEPT ![Ev.m].timer = TRUE]
                     [] good /\ Ev.k = "assoc" -> [client EXCEPT ![Ev.m].timer = FALSE, ![Ev.m].st = "assoced"]
                     [] OTHER -> client
      /\ ctx' = (IF good /\ Ev.k = "assoc" THEN Associated(Ev.m) ELSE ctx)
      /\ notes' = (IF good /\ Ev.k = "assoc" THEN notes \o Tell("new", Ev.m) ELSE notes)
      /\ Work(IF bad THEN <<Call("del", Ev.m)>> ELSE <<>>)
      /\ odd' = odd \cup Mark(good /\ Ev.k = "assoc" /\ CtxOf(Ev.m) = {}, "nopeer")
  BY DEF TxStatus
<1>2. CASE bad
  <2>1. client' = [client EXCEPT ![Ev.m].st = "none"] /\ ~good /\ c.in
    BY <1>1, <1>2
  <2> QED
    BY <1>1, <1>2, <2>1
<1>3. CASE good /\ Ev.k = "auth"
  <2>1. client' = [client EXCEPT ![Ev.m].timer = TRUE] /\ ~bad /\ c.in /\ Ev.k # "assoc"
    BY <1>1, <1>3
  <2> QED
    BY <1>1, <1>3, <2>1
<1>4. CASE good /\ Ev.k = "assoc"
  <2>1. client' = [client EXCEPT ![Ev.m].timer = FALSE, ![Ev.m].st = "assoced"] /\ ~bad /\ c.in
    BY <1>1, <1>4
  <2>2. client' = [client EXCEPT ![Ev.m] = [client[Ev.m] EXCEPT !.timer = FALSE, !.st = "assoced"]]
    BY <2>1
  <2> QED
    BY <1>1, <1>4, <2>1, <2>2
<1>5. CASE ~bad /\ ~(good /\ Ev.k \in {"auth", "assoc"})
  <2>1. client' = client
    BY <1>1, <1>5
  <2> QED
    BY <1>1, <1>5, <2>1
<1> QED
  BY <1>2, <1>3, <1>4, <1>5

LEMMA TxStatusTyped ==
  ASSUME Typed, Outside, TxStatus
  PROVE  Typed'
<1>1. Takes("status") /\ aids' = aids /\ evKeeps' = evKeeps
  BY StatusCases
<1>2. evSame /\ SameLoad /\ evq' \in Seq(Events) /\ Ev.m \in Macs
  BY <1>1, evKept, EventTaken
<1>3. client[Ev.m].in => ~left.ext
  BY <1>2, NoneTyped DEF Outside
<1>4. notes' \in Seq(Notices) /\ NotesFit'
  <2>1. CASE notes' = notes \o Tell("new", Ev.m) /\ ~left.ext
    BY <1>2, <2>1, OneNote
  <2>2. CASE notes' = notes
    BY <1>2, <2>2, SameNotes
  <2> QED
    BY <1>3, <2>1, <2>2, StatusCases
<1>5. ThreadTypes' /\ Texts' /\ \A u \in Threads : InStage(u)'
  <2>1. CASE Work(<<>>)
    BY <1>2, <2>1, NoWork
  <2>2. CASE ~left.ext /\ Work(<<Call("del", Ev.m)>>)
    <3>1. "-" \in Kinds /\ "del" \in {"del", "tx"} /\ "del" # "tx"
      BY DEF Kinds
    <3> QED
      BY <1>2, <2>2, <3>1, ShortWork
  <2> QED
    BY <1>3, <2>1, <2>2, StatusCases
<1>6. client' \in [Macs -> Clients]
  <2> DEFINE none == [client[Ev.m] EXCEPT !.st = "none"]
             auth == [client[Ev.m] EXCEPT !.timer = TRUE]
             assoc == [client[Ev.m] EXCEPT !.timer = FALSE, !.st = "assoced"]
  <2>1. client[Ev.m] \in Clients
    BY <1>2 DEF Typed, Types, DriverTypes
  <2>2. none \in Clients /\ auth \in Clients /\ assoc \in Clients
    BY <2>1 DEF Clients
  <2>3. client' = client \/ \E c \in {none, auth, assoc} : client' = [client EXCEPT ![Ev.m] = c]
    BY StatusCases
  <2> HIDE DEF none, auth, assoc
  <2> QED
    BY <1>2, <2>2, <2>3, ClientUpdate DEF Typed, Types, DriverTypes
<1>7. ctx' \in [Idx -> Peers]
  BY AssociatedTyped, StatusCases DEF Typed, Types, DriverTypes
<1> QED
  BY <1>1, <1>2, <1>4, <1>5, <1>6, <1>7, EventTyped DEF Typed, Types, DriverTypes
-----------------------------------------------------------------------------
(* Types of the timer, the firmware and the stations. *)

LEMMA EventsAdded ==
  ASSUME evq \in Seq(Events), NEW x \in Seq(Events), evq' = evq \o x
  PROVE  /\ evq' \in Seq(Events)
         /\ \A j \in 1 .. Len(evq') : (j \in 1 .. Len(evq) /\ evq'[j] = evq[j])
                                      \/ (j - Len(evq) \in 1 .. Len(x) /\ evq'[j] = x[j - Len(evq)])
OBVIOUS

LEMMA OneEvent ==
  ASSUME evq \in Seq(Events), NEW e \in Events, evq' = Append(evq, e)
  PROVE  /\ evq' \in Seq(Events)
         /\ \A j \in 1 .. Len(evq') : (j \in 1 .. Len(evq) /\ evq'[j] = evq[j]) \/ evq'[j] = e
OBVIOUS

LEMMA TimeoutTyped ==
  ASSUME Typed, NEW m \in Macs, AuthTimeout(m)
  PROVE  /\ Typed'
         /\ \A j \in 1 .. Len(evq') : evq'[j].f = "late" => client[m].timer \/ \E k \in 1 .. Len(evq) : evq[k].f = "late"
<1> DEFINE e == [f |-> "late", m |-> m]
           c == [client[m] EXCEPT !.timer = FALSE]
<1>1. /\ client[m].timer /\ client' = [client EXCEPT ![m] = c] /\ (evq' = evq \/ evq' = Append(evq, e))
      /\ UNCHANGED <<ap, fw, ctx, aids, cookie, notes, hs, th, left>>
  BY DEF AuthTimeout
<1>2. e \in Events
  BY DEF Events
<1>3. c \in Clients
  BY DEF Typed, Types, DriverTypes, Clients
<1> HIDE DEF e, c
<1>4. evq' \in Seq(Events)
  BY <1>1, <1>2, OneEvent DEF Typed, Types, WorldTypes
<1>5. client' \in [Macs -> Clients]
  BY <1>1, <1>3, ClientUpdate DEF Typed, Types, DriverTypes
<1>6. SameLoad
  BY <1>1 DEF SameLoad, Typed, Types, WorldTypes
<1>7. ThreadTypes' /\ Texts' /\ \A u \in Threads : InStage(u)'
  BY <1>1, <1>6, SameWork
<1> QED
  BY <1>1, <1>4, <1>5, <1>7 DEF Typed, Types, DriverTypes, WorldTypes, Scripts, NotesFit

LEMMA StatusTyped ==
  ASSUME Typed, NEW x \in fw.tx, NEW ack \in BOOLEAN, Status(x, ack)
  PROVE  Typed' /\ \A j \in 1 .. Len(evq') : evq'[j].f = "late" => \E k \in 1 .. Len(evq) : evq[k].f = "late"
<1> DEFINE e == [f |-> "status", m |-> x.m, k |-> x.k, ck |-> x.ck, ack |-> ack]
<1>1. /\ fw' = [fw EXCEPT !.tx = @ \ {x}] /\ evq' = Append(evq, e)
      /\ UNCHANGED <<ap, ctx, client, aids, cookie, notes, hs, th>>
  BY DEF Status
<1>2. x \in Replies /\ fw' \in Firmwares
  BY <1>1 DEF Typed, Types, WorldTypes, Firmwares
<1>3. e \in Events /\ e.f = "status"
  BY <1>2 DEF Events, Replies
<1> HIDE DEF e
<1>4. /\ evq' \in Seq(Events)
      /\ \A j \in 1 .. Len(evq') : (j \in 1 .. Len(evq) /\ evq'[j] = evq[j]) \/ evq'[j] = e
  BY <1>1, <1>3, OneEvent DEF Typed, Types, WorldTypes
<1>5. SameLoad
  <2>1. left' = left \/ Spend("nacks")
    BY DEF Status
  <2> QED
    BY <2>1, Spent DEF SameLoad, Typed, Types, WorldTypes
<1>6. ThreadTypes' /\ Texts' /\ \A u \in Threads : InStage(u)'
  BY <1>1, <1>5, SameWork
<1>7. Typed'
  BY <1>1, <1>2, <1>4, <1>5, <1>6 DEF Typed, Types, DriverTypes, WorldTypes, Scripts, NotesFit, SameLoad
<1> QED
  BY <1>3, <1>4, <1>7

LEMMA FrameTyped ==
  ASSUME Typed, NEW f \in Frames, NEW m \in left.macs, NEW twice \in BOOLEAN, Frame(f, m, twice)
  PROVE  /\ Typed' /\ fw.ap
         /\ \A j \in 1 .. Len(evq') : evq'[j].f = "late" => \E k \in 1 .. Len(evq) : evq[k].f = "late"
<1> DEFINE kind == IF f \in {"auth", "assoc"} THEN f ELSE "gone"
           sn == 10 * left.auth + left.assoc
           e == [f |-> f, m |-> m, sn |-> sn, retry |-> FALSE]
           d == [e EXCEPT !.retry = TRUE]
           x == IF twice THEN <<e, d>> ELSE <<e>>
<1>1. /\ fw.ap /\ left[kind] > 0 /\ (twice => left.dups > 0)
      /\ left' = [left EXCEPT ![kind] = @ - 1, !.dups = IF twice THEN @ - 1 ELSE @]
      /\ evq' = evq \o x
      /\ UNCHANGED <<ap, fw, ctx, client, aids, cookie, notes, hs, th>>
  BY DEF Frame
<1>2. left \in LoadType /\ m \in Macs
  BY DEF Typed, Types, WorldTypes, LoadType
<1>3. sn \in Nat
  BY <1>2 DEF LoadType
<1> HIDE DEF sn
<1>4. e \in Events /\ e.f # "late" /\ d \in Events /\ d.f # "late"
  BY <1>2, <1>3 DEF Events, Airs, Frames
<1> HIDE DEF e, d
<1>5. x \in Seq(Events) /\ \A j \in 1 .. Len(x) : x[j].f # "late"
  <2>1. <<e, d>> \in Seq(Events) /\ Len(<<e, d>>) = 2 /\ <<e, d>>[1] = e /\ <<e, d>>[2] = d
    BY <1>4
  <2>2. <<e>> \in Seq(Events) /\ Len(<<e>>) = 1 /\ <<e>>[1] = e
    BY <1>4
  <2>3. (\A j \in 1 .. 2 : j = 1 \/ j = 2) /\ (\A j \in 1 .. 1 : j = 1)
    OBVIOUS
  <2> QED
    BY <1>4, <2>1, <2>2, <2>3
<1> HIDE DEF x
<1>6. /\ evq' \in Seq(Events)
      /\ \A j \in 1 .. Len(evq') : (j \in 1 .. Len(evq) /\ evq'[j] = evq[j])
                                   \/ (j - Len(evq) \in 1 .. Len(x) /\ evq'[j] = x[j - Len(evq)])
  BY <1>1, <1>5, EventsAdded DEF Typed, Types, WorldTypes
<1>7. SameLoad
  <2>1. kind \in {"auth", "assoc", "gone"} /\ left[kind] \in Nat /\ left.dups \in Nat
    BY <1>2 DEF LoadType, Frames
  <2>2. left[kind] - 1 \in Nat /\ (twice => left.dups - 1 \in Nat)
    <3> HIDE DEF kind
    <3>1. \A n \in Nat : n > 0 => n - 1 \in Nat
      OBVIOUS
    <3> QED
      BY <1>1, <2>1, <3>1
  <2> DEFINE n == left[kind] - 1
             k == IF twice THEN left.dups - 1 ELSE left.dups
  <2>3. n \in Nat /\ k \in Nat /\ left' = [left EXCEPT ![kind] = n, !.dups = k]
    BY <1>1, <2>1, <2>2
  <2> HIDE DEF n, k, kind
  <2> QED
    BY <1>2, <2>1, <2>3 DEF LoadType, SameLoad
<1>8. ThreadTypes' /\ Texts' /\ \A u \in Threads : InStage(u)'
  BY <1>1, <1>7, SameWork
<1>9. Typed'
  BY <1>1, <1>6, <1>7, <1>8 DEF Typed, Types, DriverTypes, WorldTypes, Scripts, NotesFit, SameLoad
<1> QED
  BY <1>1, <1>5, <1>6, <1>9
-----------------------------------------------------------------------------
(* Type correctness. *)

LEMMA TypeInit == Init => Typed /\ Outside
<1> SUFFICES ASSUME Init PROVE Typed /\ Outside
  OBVIOUS
<1>1. left \in LoadType
  BY ApAssumption DEF Init
<1>2. ThreadTypes
  BY IdleTyped DEF Init, ThreadTypes, Threads
<1>3. ap \in Points /\ Len(ap.buf) <= MaxBuf
  <2>1. <<>> \in Seq(Keys) /\ Len(<<>>) = 0 /\ 0 \in Keys /\ MaxBuf \in Nat
    BY ApAssumption DEF Keys
  <2>2. ap \in Points /\ ap.buf = <<>>
    BY <2>1 DEF Init, Points
  <2> QED
    BY <2>1, <2>2
<1>4. DriverTypes
  BY <1>3, NoneTyped DEF Init, DriverTypes
<1>5. WorldTypes
  BY <1>1 DEF Init, WorldTypes, Firmwares, Keys
<1>6. th["user"] = Idle /\ th["evw"] = Idle
  BY DEF Init
<1>7. Scripts
  BY <1>6, IdleTyped, Nothing DEF Init, Scripts, Texts, InStage, At, Now, Threads, NotesFit
<1> QED
  BY <1>2, <1>4, <1>5, <1>7 DEF Typed, Types, Outside, Init

LEMMA TypedKept ==
  ASSUME Typed, Outside, [Next]_vars
  PROVE  Typed'
<1>1. CASE UserStep
  <2>1. "user" \in Threads
    BY DEF Threads
  <2> QED
    BY <1>1, <2>1, StepTyped, PointBegin, PointReturn, BufKeyTyped, StartReturnTyped, StopBeginTyped, NotifiedTyped
       DEF UserStep
<1>2. CASE EventStep
  <2>1. "evw" \in Threads
    BY DEF Threads
  <2> QED
    BY <1>2, <2>1, StepTyped, RefuseTyped, RefusedTyped, AuthUpTyped, AuthTyped, AssocTyped, DeauthTyped, TxStatusTyped
       DEF EventStep
<1>3. CASE TimerStep
  BY <1>3, TimeoutTyped DEF TimerStep
<1>4. CASE FwStatus
  BY <1>4, StatusTyped DEF FwStatus
<1>5. CASE Air
  BY <1>5, FrameTyped DEF Air
<1>6. CASE Request \/ Forgo
  BY <1>6, RequestTyped
<1>7. CASE UNCHANGED vars
  BY <1>7 DEF vars, Typed, Types, ThreadTypes, DriverTypes, WorldTypes, Scripts, Texts, InStage, At, Now, Cur, NotesFit
<1> QED
  BY <1>1, <1>2, <1>3, <1>4, <1>5, <1>6, <1>7 DEF Next
-----------------------------------------------------------------------------
(* The clients and their aids. *)

\* A step of the clients: numbers are kept or given up with the client, a client is removed, or
\* an association takes the next number.
ClientStep ==
  \/ /\ aids' = aids /\ (left.ext => client' = client)
     /\ \A m \in Macs : client'[m].aid \in {client[m].aid, 0}
  \/ \E m \in Macs : Removed(m)
  \/ \E m \in Macs : /\ ~left.ext /\ \A n \in Macs : n # m => client'[n] = client[n]
                     /\ client'[m].aid = NewAid
                     /\ aids' = IF NewAid <= left.aid THEN aids \cup {NewAid} ELSE aids
                     /\ odd' = odd \cup Mark(NewAid > left.aid, "aidfull")

LEMMA SameClient == aids' = aids /\ client' = client => ClientStep
BY DEF ClientStep

\* Every other change of a client keeps its number.
LEMMA OneClient ==
  ASSUME Typed, NEW m \in Macs, NEW c \in Clients, client' = [client EXCEPT ![m] = c], aids' = aids,
         c.aid \in {client[m].aid, 0}, left.ext => c = client[m]
  PROVE  ClientStep
BY DEF ClientStep, Typed, Types, DriverTypes

LEMMA StepClient ==
  ASSUME Typed, Outside, NEW t \in Threads, Step(t)
  PROVE  ClientStep
<1>1. CASE \E ok \in BOOLEAN : DelBegin(t, ok)
  <2>1. PICK ok \in BOOLEAN : DelBegin(t, ok)
    BY <1>1
  <2> DEFINE is == IF Cur(t).op = "del" THEN CtxOf(Cur(t).m) ELSE {Cur(t).i} \cap Bound
             i == Min(is)
             m == ctx[i].mac
  <2>2. CASE is = {}
    BY <2>1, <2>2, SameClient DEF DelBegin
  <2>3. CASE is # {}
    <3>1. Removed(m)
      BY <2>1, <2>3 DEF DelBegin
    <3>2. i \in is /\ i \in Idx
      <4>1. is \subseteq Idx
        BY DEF CtxOf, Bound
      <4> QED
        BY <2>3, <4>1, LeastContext
    <3>3. ctx[i] \in Peers /\ Now(t, {"del", "delctx"}, 0)
      BY <2>1, <3>2 DEF Typed, Types, DriverTypes, DelBegin
    <3>4. CASE Cur(t).op = "del"
      <4>1. Cur(t).m \in Macs
        BY <3>3, <3>4, Current DEF Now
      <4>2. i \in CtxOf(Cur(t).m)
        BY <3>2, <3>4
      <4> QED
        BY <3>1, <4>1, <4>2 DEF CtxOf, ClientStep
    <3>5. CASE Cur(t).op # "del"
      <4>1. m \in Macs
        BY <3>2, <3>3, <3>5 DEF Bound, Peers
      <4> QED
        BY <3>1, <4>1 DEF ClientStep
    <3> QED
      BY <3>4, <3>5
  <2> QED
    BY <2>2, <2>3
<1>2. CASE \E ok \in BOOLEAN : TxBegin(t, ok)
  <2>1. PICK ok \in BOOLEAN : TxBegin(t, ok)
    BY <1>2
  <2> DEFINE c == [client[Cur(t).m] EXCEPT !.ck = cookie + 1]
  <2>2. /\ th[t].todo # <<>> /\ Cur(t).op = "tx" /\ aids' = aids
        /\ client' = IF t = "evw" /\ client[Cur(t).m].in THEN [client EXCEPT ![Cur(t).m] = c] ELSE client
    BY <2>1 DEF TxBegin, Now, Cur
  <2>3. CASE t = "evw" /\ client[Cur(t).m].in
    <3>1. Cur(t).m \in Macs /\ ~left.ext /\ cookie + 1 \in Nat
      BY <2>2, <2>3, Current DEF Typed, Types, DriverTypes
    <3>2. client[Cur(t).m] \in Clients
      BY <3>1 DEF Typed, Types, DriverTypes
    <3>3. c \in Clients /\ c.aid = client[Cur(t).m].aid
      BY <3>1, <3>2 DEF Clients
    <3> HIDE DEF c
    <3> QED
      BY <2>2, <2>3, <3>1, <3>3, OneClient
  <2> QED
    BY <2>2, <2>3, SameClient
<1>3. CASE TxReturn(t)
  <2> DEFINE c == [client[Cur(t).m] EXCEPT !.st = "none"]
             refused == ~th[t].ok /\ Cur(t).k = "auth"
  <2>1. /\ th[t].todo # <<>> /\ Cur(t).op = "tx" /\ aids' = aids
        /\ client' = IF refused THEN [client EXCEPT ![Cur(t).m] = c] ELSE client
    BY <1>3 DEF TxReturn, Now, Cur
  <2>2. CASE refused
    <3>1. Cur(t).m \in Macs
      BY <2>1, Current
    <3>2. ~left.ext
      <4>1. t = "user" => Cur(t).k = "deauth"
        BY <2>1, Current DEF Typed, Scripts, Texts, ScriptUser
      <4> QED
        BY <2>1, <2>2, <4>1, Current
    <3>3. client[Cur(t).m] \in Clients
      BY <3>1 DEF Typed, Types, DriverTypes
    <3>4. c \in Clients /\ c.aid = client[Cur(t).m].aid
      BY <3>3 DEF Clients
    <3> HIDE DEF c
    <3> QED
      BY <2>1, <2>2, <3>1, <3>2, <3>4, OneClient
  <2> QED
    BY <2>1, <2>2, SameClient
<1>4. CASE DelReturn(t) \/ AddReturn(t) \/ \E ok \in BOOLEAN : AddBegin(t, ok)
  BY <1>4, SameClient DEF DelReturn, AddReturn, AddBegin
<1> QED
  BY <1>1, <1>2, <1>3, <1>4 DEF Step

LEMMA EventClient ==
  ASSUME Typed, Outside, Auth \/ Assoc \/ TxStatus
  PROVE  ClientStep
<1>1. CASE Auth
  <2> DEFINE new == [NoClient EXCEPT !.in = TRUE, !.st = "authed", !.last = Ev.sn]
             old == [client[Ev.m] EXCEPT !.st = "authed", !.last = Ev.sn]
  <2>1. ~left.ext /\ Takes("auth") /\ aids' = aids
    BY <1>1 DEF Auth
  <2>2. Ev.m \in Macs /\ Ev.sn \in Nat
    BY <2>1, EventTaken DEF Frames
  <2>3. client[Ev.m] \in Clients
    BY <2>2 DEF Typed, Types, DriverTypes
  <2>4. new \in Clients /\ old \in Clients /\ new.aid = 0 /\ old.aid = client[Ev.m].aid
    BY <2>2, <2>3 DEF Clients, NoClient
  <2>5. client' = client \/ \E c \in {new, old} : client' = [client EXCEPT ![Ev.m] = c]
    BY <1>1 DEF Auth
  <2> HIDE DEF new, old
  <2> QED
    BY <2>1, <2>2, <2>4, <2>5, OneClient, SameClient
<1>2. CASE Assoc
  <2>1. CASE client' = client /\ aids' = aids
    BY <2>1, SameClient
  <2>2. CASE /\ ~left.ext /\ client' = [client EXCEPT ![Ev.m] = Joined(Ev.m, Ev.sn)]
             /\ aids' = IF NewAid <= left.aid THEN aids \cup {NewAid} ELSE aids
             /\ odd' = odd \cup Mark(NewAid > left.aid, "aidfull")
    <3>1. Ev.m \in Macs
      BY <1>2, AssocCases, EventTaken DEF Frames
    <3>2. client[Ev.m] \in Clients
      BY <3>1 DEF Typed, Types, DriverTypes
    <3>3. Joined(Ev.m, Ev.sn).aid = NewAid
      BY <3>2 DEF Joined, Clients
    <3>4. client'[Ev.m] = Joined(Ev.m, Ev.sn) /\ \A n \in Macs : n # Ev.m => client'[n] = client[n]
      BY <2>2, <3>1 DEF Typed, Types, DriverTypes
    <3> QED
      BY <2>2, <3>1, <3>3, <3>4 DEF ClientStep
  <2> QED
    BY <1>2, <2>1, <2>2, AssocCases
<1>3. CASE TxStatus
  <2> DEFINE none == [client[Ev.m] EXCEPT !.st = "none"]
             auth == [client[Ev.m] EXCEPT !.timer = TRUE]
             assoc == [client[Ev.m] EXCEPT !.timer = FALSE, !.st = "assoced"]
  <2>1. aids' = aids /\ Ev.m \in Macs
    BY <1>3, StatusCases, EventTaken
  <2>2. client[Ev.m] \in Clients
    BY <2>1 DEF Typed, Types, DriverTypes
  <2>3. /\ none \in Clients /\ auth \in Clients /\ assoc \in Clients
        /\ \A c \in {none, auth, assoc} : c.aid = client[Ev.m].aid
    BY <2>2 DEF Clients
  <2>4. client' = client \/ (client[Ev.m].in /\ \E c \in {none, auth, assoc} : client' = [client EXCEPT ![Ev.m] = c])
    BY <1>3, StatusCases
  <2>5. client[Ev.m].in => ~left.ext
    BY <2>1, NoneTyped DEF Outside
  <2> HIDE DEF none, auth, assoc
  <2> QED
    BY <2>1, <2>3, <2>4, <2>5, OneClient, SameClient
<1> QED
  BY <1>1, <1>2, <1>3

LEMMA TimerClient ==
  ASSUME Typed, Outside, NEW m \in Macs, AuthTimeout(m)
  PROVE  ClientStep /\ ~left.ext
<1> DEFINE c == [client[m] EXCEPT !.timer = FALSE]
<1>1. client[m].timer /\ client' = [client EXCEPT ![m] = c] /\ aids' = aids
  BY DEF AuthTimeout
<1>2. ~left.ext
  BY <1>1 DEF Outside, NoClient
<1>3. c \in Clients /\ c.aid = client[m].aid
  BY DEF Typed, Types, DriverTypes, Clients
<1> HIDE DEF c
<1> QED
  BY <1>1, <1>2, <1>3, OneClient

LEMMA NextClient ==
  ASSUME Typed, Outside, [Next]_vars
  PROVE  ClientStep
<1>1. CASE UserStep
  <2>1. CASE Step("user")
    BY <2>1, StepClient DEF Threads
  <2>2. CASE ~Step("user")
    BY <1>1, <2>2, SameClient
       DEF UserStep, KeyBegin, DelKeyBegin, StartBegin, BufKey, StopCommand, KeyReturn, DelKeyReturn, StartReturn,
           Started, StopBegin, StopReturn, Notified
  <2> QED
    BY <2>1, <2>2
<1>2. CASE EventStep
  <2>1. CASE Step("evw")
    BY <2>1, StepClient DEF Threads
  <2>2. CASE Auth \/ Assoc \/ TxStatus
    BY <2>2, EventClient
  <2>3. CASE ~Step("evw") /\ ~(Auth \/ Assoc \/ TxStatus)
    BY <1>2, <2>3, SameClient DEF EventStep, Refuse, Refused, AuthUp, Deauth, LateEvent
  <2> QED
    BY <2>1, <2>2, <2>3
<1>3. CASE TimerStep
  BY <1>3, TimerClient DEF TimerStep
<1>4. CASE FwStatus \/ Air \/ Request \/ Forgo \/ UNCHANGED vars
  BY <1>4, SameClient DEF FwStatus, Air, Status, Frame, Request, Forgo, vars
<1> QED
  BY <1>1, <1>2, <1>3, <1>4 DEF Next

\* What happened is not forgotten.
LEMMA OddGrows == [Next]_vars => odd \subseteq odd'
<1> SUFFICES ASSUME [Next]_vars PROVE odd \subseteq odd'
  OBVIOUS
<1>1. ASSUME NEW t \in Threads, Step(t) PROVE odd \subseteq odd'
  BY <1>1 DEF Step, DelBegin, DelReturn, AddBegin, AddReturn, TxBegin, TxReturn
<1>2. CASE UserStep
  BY <1>1, <1>2
     DEF UserStep, Threads, KeyBegin, DelKeyBegin, StartBegin, BufKey, StopCommand, KeyReturn, DelKeyReturn, StartReturn,
         Started, StopBegin, StopReturn, Notified
<1>3. CASE EventStep
  <2>1. Assoc => odd \subseteq odd'
    BY AssocCases
  <2>2. TxStatus => odd \subseteq odd'
    BY DEF TxStatus
  <2> QED
    BY <1>1, <1>3, <2>1, <2>2 DEF EventStep, Threads, Refuse, Refused, AuthUp, Auth, Deauth, LateEvent
<1>4. CASE TimerStep
  BY <1>4 DEF TimerStep, AuthTimeout
<1>5. CASE FwStatus \/ Air \/ Request \/ Forgo \/ UNCHANGED vars
  BY <1>5 DEF FwStatus, Air, Status, Frame, Request, Forgo, vars
<1> QED
  BY <1>2, <1>3, <1>4, <1>5 DEF Next

LEMMA LoadKept == ASSUME Typed, Typed', [Next]_vars PROVE SameLoad
<1>1. left \in LoadType /\ left' \in LoadType
  BY DEF Typed, Types, WorldTypes
<1>2. ASSUME left' = left \/ (\E f \in {"fails", "nacks"} : Spend(f)) \/ left' = [left EXCEPT !.ops = Tail(@)]
      PROVE  SameLoad
  <2>1. CASE left' = left
    BY <1>1, <2>1 DEF SameLoad
  <2>2. CASE \E f \in {"fails", "nacks"} : Spend(f)
    BY <1>1, <2>2, Spent DEF SameLoad
  <2>3. CASE left' = [left EXCEPT !.ops = Tail(@)]
    BY <1>1, <2>3 DEF SameLoad, LoadType
  <2> QED
    BY <1>2, <2>1, <2>2, <2>3
<1>3. ASSUME NEW t \in Threads, Step(t) PROVE SameLoad
  <2>1. left' = left \/ Spend("fails")
    BY <1>3 DEF Step, DelBegin, DelReturn, AddBegin, AddReturn, TxBegin, TxReturn, Skip, Send
  <2> QED
    BY <1>2, <2>1
<1>4. CASE UserStep
  <2>1. Step("user") \/ left' = left \/ Spend("fails")
    BY <1>4 DEF UserStep, KeyBegin, DelKeyBegin, StartBegin, BufKey, StopCommand, KeyReturn, DelKeyReturn,
                StartReturn, Started, StopBegin, StopReturn, Notified, Skip, Send
  <2> QED
    BY <1>2, <1>3, <2>1 DEF Threads
<1>5. CASE EventStep
  <2>1. evKeeps' = evKeeps => left' = left
    BY DEF evKeeps
  <2>2. (Assoc => left' = left) /\ (TxStatus => left' = left) /\ (Deauth => left' = left) /\ (Auth => left' = left)
        /\ (Refused => left' = left) /\ (AuthUp => left' = left) /\ (LateEvent => left' = left)
    BY <2>1, AssocCases, StatusCases, DeauthCases DEF Auth, Refused, AuthUp, LateEvent
  <2>3. Step("evw") \/ left' = left \/ Spend("fails")
    BY <1>5, <2>2 DEF EventStep, Refuse
  <2> QED
    BY <1>2, <1>3, <2>3 DEF Threads
<1>6. CASE TimerStep \/ Request \/ Forgo \/ FwStatus \/ UNCHANGED vars
  <2>1. left' = left \/ Spend("nacks") \/ left' = [left EXCEPT !.ops = Tail(@)]
    BY <1>6 DEF TimerStep, AuthTimeout, Request, Forgo, FwStatus, Status, vars
  <2> QED
    BY <1>2, <2>1
<1>7. CASE Air
  <2>1. PICK f \in Frames, m \in left.macs, twice \in BOOLEAN : Frame(f, m, twice)
    BY <1>7 DEF Air
  <2> DEFINE kind == IF f \in {"auth", "assoc"} THEN f ELSE "gone"
             n == left[kind] - 1
             k == IF twice THEN left.dups - 1 ELSE left.dups
  <2>2. kind \in {"auth", "assoc", "gone"}
    BY DEF Frames
  <2>3. left' = [left EXCEPT ![kind] = n, !.dups = IF twice THEN @ - 1 ELSE @]
    BY <2>1 DEF Frame
  <2> HIDE DEF kind, n, k
  <2> QED
    BY <1>1, <2>2, <2>3 DEF SameLoad, LoadType
<1> QED
  BY <1>4, <1>5, <1>6, <1>7 DEF Next

LEMMA OutsideKept ==
  ASSUME Typed, Typed', Outside, [Next]_vars
  PROVE  Outside'
<1>1. left'.ext = left.ext
  BY LoadKept DEF SameLoad
<1> SUFFICES ASSUME left.ext PROVE (\A m \in Macs : client'[m] = NoClient) /\ \A j \in 1 .. Len(evq') : evq'[j].f # "late"
  BY <1>1 DEF Outside
<1>2. client' = client
  BY NextClient DEF ClientStep, Removed
<1>3. ASSUME NEW j \in 1 .. Len(evq'), evq'[j].f = "late" PROVE \E k \in 1 .. Len(evq) : evq[k].f = "late"
  <2>1. CASE TimerStep
    BY <1>3, <2>1, TimeoutTyped, TimerClient DEF TimerStep
  <2>2. CASE FwStatus
    BY <1>3, <2>2, StatusTyped DEF FwStatus
  <2>3. CASE Air
    BY <1>3, <2>3, FrameTyped DEF Air
  <2>4. CASE evq' = evq
    BY <1>3, <2>4
  <2>5. CASE evq # <<>> /\ evq' = Tail(evq)
    <3>1. evq \in Seq(Events)
      BY DEF Typed, Types, WorldTypes
    <3>2. j + 1 \in 1 .. Len(evq) /\ evq'[j] = evq[j + 1]
      BY <2>5, <3>1
    <3> QED
      BY <1>3, <3>2
  <2>6. CASE UserStep
    <3>1. Step("user") => evq' = evq
      BY DEF Step, DelBegin, DelReturn, AddBegin, AddReturn, TxBegin, TxReturn
    <3>2. evq' = evq
      BY <2>6, <3>1
         DEF UserStep, KeyBegin, DelKeyBegin, StartBegin, BufKey, StopCommand, KeyReturn, DelKeyReturn, StartReturn,
             Started, StopBegin, StopReturn, Notified
    <3> QED
      BY <2>4, <3>2
  <2>7. CASE EventStep
    <3>1. Step("evw") => evq' = evq
      BY DEF Step, DelBegin, DelReturn, AddBegin, AddReturn, TxBegin, TxReturn
    <3>2. ASSUME NEW f, Takes(f) PROVE evq # <<>> /\ evq' = Tail(evq)
      BY <3>2 DEF Takes
    <3>3. evq' = evq \/ (evq # <<>> /\ evq' = Tail(evq))
      BY <2>7, <3>1, <3>2, AssocCases, StatusCases, DeauthCases DEF EventStep, Refuse, Refused, AuthUp, Auth, LateEvent
    <3> QED
      BY <2>4, <2>5, <3>3
  <2>8. CASE Request \/ Forgo \/ UNCHANGED vars
    <3>1. evq' = evq
      BY <2>8 DEF Request, Forgo, vars
    <3> QED
      BY <2>4, <3>1
  <2> QED
    BY <2>1, <2>2, <2>3, <2>6, <2>7, <2>8 DEF Next
<1> QED
  BY <1>2, <1>3 DEF Outside

\* Numbers in use are marked, and each is in use once.
AidsInv == "aidfull" \in odd \/ \A m \in Macs : client[m].aid # 0 =>
                                  client[m].aid \in aids /\ \A n \in Macs : m # n => client[m].aid # client[n].aid

LEMMA AidsKept ==
  ASSUME Typed, Outside, AidsInv, [Next]_vars
  PROVE  AidsInv'
<1>1. odd \subseteq odd' /\ ClientStep
  BY OddGrows, NextClient
<1>2. CASE "aidfull" \in odd
  BY <1>1, <1>2 DEF AidsInv
<1> SUFFICES ASSUME "aidfull" \notin odd,
                    \A m \in Macs : client[m].aid # 0 =>
                      client[m].aid \in aids /\ \A n \in Macs : m # n => client[m].aid # client[n].aid
             PROVE  AidsInv'
  BY <1>2 DEF AidsInv
<1>3. CASE aids' = aids /\ \A m \in Macs : client'[m].aid \in {client[m].aid, 0}
  BY <1>3 DEF AidsInv
<1>4. CASE \E m \in Macs : Removed(m)
  <2>1. PICK m \in Macs : Removed(m)
    BY <1>4
  <2>2. CASE client' = client /\ aids' = aids
    BY <2>2 DEF AidsInv
  <2>3. CASE client' = [client EXCEPT ![m] = NoClient] /\ aids' = aids \ {client[m].aid}
    <3>1. client'[m].aid = 0 /\ \A n \in Macs : n # m => client'[n] = client[n]
      BY <2>3, NoneTyped DEF Typed, Types, DriverTypes
    <3> QED
      BY <2>3, <3>1 DEF AidsInv
  <2> QED
    BY <2>1, <2>2, <2>3 DEF Removed
<1>5. CASE \E m \in Macs : /\ \A n \in Macs : n # m => client'[n] = client[n]
                           /\ client'[m].aid = NewAid
                           /\ aids' = IF NewAid <= left.aid THEN aids \cup {NewAid} ELSE aids
                           /\ odd' = odd \cup Mark(NewAid > left.aid, "aidfull")
  <2>1. PICK m \in Macs : /\ \A n \in Macs : n # m => client'[n] = client[n]
                          /\ client'[m].aid = NewAid
                          /\ aids' = IF NewAid <= left.aid THEN aids \cup {NewAid} ELSE aids
                          /\ odd' = odd \cup Mark(NewAid > left.aid, "aidfull")
    BY <1>5
  <2>2. NewAid \in Nat /\ left.aid \in Nat /\ (NewAid <= left.aid => NewAid \notin aids)
    BY NextAid DEF Typed, Types, WorldTypes, LoadType
  <2>3. CASE NewAid > left.aid
    BY <2>1, <2>3 DEF AidsInv, Mark
  <2>4. CASE NewAid <= left.aid
    <3>1. aids' = aids \cup {NewAid} /\ NewAid \notin aids
      BY <2>1, <2>2, <2>4
    <3>2. \A n \in Macs : n # m /\ client[n].aid # 0 => client[n].aid # NewAid
      BY <3>1
    <3> QED
      BY <2>1, <3>1, <3>2 DEF AidsInv
  <2> QED
    BY <2>2, <2>3, <2>4
<1> QED
  BY <1>1, <1>3, <1>4, <1>5 DEF ClientStep
-----------------------------------------------------------------------------
(* The access point and its key. *)

Rest == th["user"].todo
End(s) == s[Len(s)].op
Loading == Rest # <<>> /\ End(Rest) = "started"
Loaded(n) == IF n = 0 THEN 0 ELSE ap.buf[n]

\* Only a started access point is stopped, and only a stopped one started.
Purpose == Rest # <<>> => /\ End(Rest) \in {"stop", "stopcmd"} => ap.started
                          /\ End(Rest) \in {"start", "started"} => ~ap.started

\* The parameters are kept while the firmware has the access point, from before the start is
\* sent until before the stop is.
Recorded ==
  \/ "unstopped" \in odd
  \/ /\ At("user", {"start"}) => ap.par /\ fw.ap = th["user"].ok
     /\ Loading => ap.par /\ fw.ap
     /\ At("user", {"stopcmd"}) => ~ap.par /\ fw.ap = ~th["user"].ok
     /\ ~At("user", {"start", "stopcmd"}) /\ ~Loading => ap.par = ap.started /\ fw.ap = ap.started

\* Before the start the driver's key is the last of the kept ones and the firmware has none;
\* while they are loaded the firmware has the last that was sent and the rest are still to go;
\* then both have the same, but for a command under way.
KeyOdd == odd \cap {"buffered", "overflow", "keyfail", "unstopped"} # {}
Keyed ==
  \/ KeyOdd
  \/ /\ ~ap.started => ap.kc = Loaded(Len(ap.buf))
     /\ ~ap.started /\ ~Loading => fw.key = 0
     /\ Loading => /\ Len(Rest) <= Len(ap.buf) + 1 /\ fw.key = Loaded(Len(ap.buf) + 1 - Len(Rest))
                   /\ \A j \in 1 .. Len(Rest) - 1 : Rest[j].i = ap.buf[Len(ap.buf) + 1 - Len(Rest) + j]
     /\ ap.started => ap.buf = <<>>
     /\ ap.started /\ ~At("user", {"key", "delkey", "stopcmd"}) => fw.key = ap.kc
     /\ At("user", {"key"}) /\ th["user"].ok => fw.key = ap.kc
     /\ At("user", {"delkey"}) /\ th["user"].ok => fw.key = 0
     /\ At("user", {"stopcmd"}) => ap.kc = 0 /\ (th["user"].ok => fw.key = 0)

KeysInv == Purpose /\ Recorded /\ Keyed

\* The access point's calls are the last of the request they belong to.
LEMMA LastCall ==
  ASSUME Typed, Rest # <<>>
  PROVE  /\ Rest \in Seq(CallSet) /\ Len(Rest) \in Nat \ {0} /\ Cur("user") = Rest[1]
         /\ Cur("user").op \notin {"delctx", "bufkey", "tx"} =>
              Len(Rest) = 1 /\ Tail(Rest) = <<>> /\ End(Rest) = Cur("user").op
         /\ Cur("user").op = "delctx" => End(Rest) = "stopcmd"
         /\ Cur("user").op = "bufkey" => End(Rest) = "started"
         /\ Cur("user").op = "tx" => End(Rest) = "del"
         /\ Tail(Rest) # <<>> => End(Tail(Rest)) = End(Rest)
<1>1. Rest \in Seq(CallSet) /\ Len(Rest) \in Nat \ {0}
  BY DEF Rest, Typed, Types, ThreadTypes, Progress, Threads
<1>2. Cur("user") = Rest[1] /\ 1 \in 1 .. Len(Rest)
  BY Current DEF Rest, Threads
<1>3. ScriptUser(Rest)
  BY DEF Rest, Typed, Scripts, Texts
<1>4. Cur("user").op \notin {"delctx", "bufkey", "tx"} => Len(Rest) = 1
  BY <1>2, <1>3 DEF ScriptUser
<1>5. Len(Rest) = 1 => Tail(Rest) = <<>> /\ End(Rest) = Cur("user").op
  BY <1>1, <1>2, TailOfOne DEF End
<1>6. /\ Cur("user").op = "delctx" => End(Rest) = "stopcmd"
      /\ Cur("user").op = "bufkey" => End(Rest) = "started"
  BY <1>2, <1>3 DEF ScriptUser, End
<1>7. Cur("user").op = "tx" => End(Rest) = "del"
  BY <1>2, <1>3 DEF ScriptUser, End
<1>8. Tail(Rest) # <<>> => End(Tail(Rest)) = End(Rest)
  <2>1. \A r \in Seq(CallSet) : r # <<>> => Len(r) # 0
    OBVIOUS
  <2>2. Tail(Rest) \in Seq(CallSet)
    BY <1>1
  <2> QED
    BY <1>1, <2>1, <2>2, TailIndexes DEF End
<1> QED
  BY <1>1, <1>2, <1>4, <1>5, <1>6, <1>7, <1>8

\* Steps of others, and of requests about stations, leave all of it alone.
LEMMA PointSame ==
  ASSUME KeysInv, ap' = ap, fw'.key = fw.key, fw'.ap = fw.ap, th'["user"] = th["user"], odd \subseteq odd'
  PROVE  KeysInv'
<1>1. Rest' = Rest /\ \A ops : At("user", ops)' = At("user", ops)
  BY DEF Rest, At, Now, Cur
<1>2. Purpose'
  BY <1>1 DEF KeysInv, Purpose, End
<1>3. Recorded'
  BY <1>1 DEF KeysInv, Recorded, Loading, End, At, Now
<1>4. Keyed'
  BY <1>1 DEF KeysInv, Keyed, KeyOdd, Loading, Loaded, End, At, Now
<1> QED
  BY <1>2, <1>3, <1>4 DEF KeysInv

\* What KeysInv says while no command about the access point is under way.
Calm == ~At("user", {"key", "delkey", "start", "stopcmd"}) /\ ~Loading

LEMMA CalmKept ==
  ASSUME KeysInv, Calm, Calm', ap' = ap, fw'.key = fw.key, fw'.ap = fw.ap, odd \subseteq odd', Purpose'
  PROVE  KeysInv'
<1>1. Recorded'
  BY DEF KeysInv, Recorded, Calm, At, Now
<1>2. Keyed'
  <2>1. KeyOdd => KeyOdd'
    BY DEF KeyOdd
  <2> QED
    BY <2>1 DEF KeysInv, Keyed, Loaded, Calm, At, Now
<1> QED
  BY <1>1, <1>2 DEF KeysInv

\* Calls about stations.
LEMMA StationCall ==
  ASSUME Typed, NEW t \in Threads, Step(t)
  PROVE  /\ th[t].todo # <<>> /\ Cur(t).op \in {"del", "delctx", "add", "tx"}
         /\ ap' = ap /\ fw'.key = fw.key /\ fw'.ap = fw.ap
         /\ \A u \in Threads : u # t => th'[u] = th[u]
         /\ t = "user" => \/ th'[t].todo = th[t].todo /\ th'[t].at = 1
                          \/ th'[t].todo = Tail(th[t].todo) /\ th'[t].at = 0
<1>1. th[t].todo # <<>> /\ Cur(t).op \in {"del", "delctx", "add", "tx"} /\ ap' = ap
  BY DEF Step, DelBegin, DelReturn, AddBegin, AddReturn, TxBegin, TxReturn, Now, Cur
<1>2. fw'.key = fw.key /\ fw'.ap = fw.ap
  <2>1. fw' = fw \/ (\E m : fw' = Forget(m)) \/ (\E i, m : fw' = [fw EXCEPT !.sta[i] = m])
        \/ \E x : fw' = [fw EXCEPT !.tx = x]
    BY DEF Step, DelBegin, DelReturn, AddBegin, AddReturn, TxBegin, TxReturn
  <2>2. fw \in Firmwares
    BY DEF Typed, Types, WorldTypes
  <2> QED
    BY <2>1, <2>2, ForgetTyped DEF Firmwares
<1>3. \A u \in Threads : u # t => th'[u] = th[u]
  <2>1. (\E s : Advance(t, s)) \/ \E i, ok : Send(t, i, ok)
    BY DEF Step, DelBegin, DelReturn, AddBegin, AddReturn, TxBegin, TxReturn, Skip
  <2> QED
    BY <2>1 DEF Advance, Send, Typed, Types, ThreadTypes
<1>4. ASSUME t = "user"
      PROVE  \/ th'[t].todo = th[t].todo /\ th'[t].at = 1
             \/ th'[t].todo = Tail(th[t].todo) /\ th'[t].at = 0
  <2>1. TxReturn(t) => Advance(t, <<>>)
    <3>1. Cur(t).op = "tx" => Cur(t).k = "deauth"
      BY <1>1, <1>4, Current DEF Typed, Scripts, Texts, ScriptUser
    <3> QED
      BY <3>1 DEF TxReturn, Now, Cur
  <2>2. Advance(t, <<>>) \/ \E i, ok : Send(t, i, ok)
    BY <2>1 DEF Step, DelBegin, DelReturn, AddBegin, AddReturn, TxBegin, Skip
  <2>3. CASE Advance(t, <<>>)
    <3>1. th[t].todo \in Seq(CallSet) /\ <<>> \in Seq(CallSet)
      BY DEF Typed, Types, ThreadTypes, Progress
    <3>2. <<>> \o Tail(th[t].todo) = Tail(th[t].todo)
      BY <1>1, <3>1
    <3> QED
      BY <1>1, <2>3, <3>1, <3>2, Advanced DEF Typed, Types
  <2>4. CASE \E i, ok : Send(t, i, ok)
    <3>1. PICK i, ok : Send(t, i, ok)
      BY <2>4
    <3> QED
      BY <3>1 DEF Send, Typed, Types, ThreadTypes, Progress
  <2> QED
    BY <2>2, <2>3, <2>4
<1> QED
  BY <1>1, <1>2, <1>3, <1>4

LEMMA StationKeys ==
  ASSUME Typed, NEW t \in Threads, Step(t), KeysInv, odd \subseteq odd'
  PROVE  KeysInv'
<1>1. ap' = ap /\ fw'.key = fw.key /\ fw'.ap = fw.ap
  BY StationCall
<1>2. CASE t # "user"
  BY <1>1, <1>2, StationCall, PointSame DEF Threads
<1>3. CASE t = "user"
  <2>1. /\ Rest # <<>> /\ Cur("user").op \in {"del", "delctx", "add", "tx"}
        /\ (Rest' = Rest /\ th'["user"].at = 1) \/ (Rest' = Tail(Rest) /\ th'["user"].at = 0)
    BY <1>3, StationCall DEF Rest
  <2>2. /\ End(Rest) \in {"del", "add", "stopcmd"}
        /\ Tail(Rest) # <<>> => End(Tail(Rest)) = End(Rest)
    BY <2>1, LastCall
  <2>3. Calm
    BY <2>1, <2>2 DEF Calm, At, Now, Cur, Loading
  <2>4. Calm'
    <3>1. ~Loading'
      BY <2>1, <2>2 DEF Loading, End
    <3>2. ~At("user", {"key", "delkey", "start", "stopcmd"})'
      BY <2>1 DEF At, Now, Cur, Rest
    <3> QED
      BY <3>1, <3>2 DEF Calm
  <2>5. Purpose'
    <3>1. Rest' # <<>> => Rest # <<>> /\ End(Rest)' = End(Rest)
      BY <2>1, <2>2 DEF End
    <3> QED
      BY <1>1, <3>1 DEF KeysInv, Purpose
  <2> QED
    BY <1>1, <2>3, <2>4, <2>5, CalmKept
<1> QED
  BY <1>2, <1>3

\* New work for hostapd's thread: a request that fits the access point's state, or an answer.
LEMMA NewKeys ==
  ASSUME Typed, KeysInv, th["user"].todo = <<>>, ap' = ap, fw' = fw, odd \subseteq odd', th'["user"].at = 0,
         NEW s \in Seq(CallSet), th'["user"].todo = s,
         s # <<>> => /\ End(s) \notin {"started", "stopcmd"}
                     /\ End(s) = "stop" => ap.started
                     /\ End(s) = "start" => ~ap.started
  PROVE  KeysInv'
<1>1. Calm
  BY DEF Calm, At, Now, Loading, Rest
<1>2. Rest' = s
  BY DEF Rest
<1>3. Calm'
  BY <1>2 DEF Calm, At, Now, Loading, End
<1>4. Purpose'
  BY <1>2 DEF Purpose, End
<1> QED
  BY <1>1, <1>3, <1>4, CalmKept

LEMMA RequestKeys ==
  ASSUME Typed, KeysInv, Request, odd \subseteq odd'
  PROVE  KeysInv'
<1> DEFINE o == Head(left.ops)
           s == Calls(o)
<1>1. /\ th["user"].todo = <<>> /\ (o.op = "start" => ~ap.started) /\ (o.op = "stop" => ap.started)
      /\ th' = [th EXCEPT !["user"] = [Idle EXCEPT !.todo = s]] /\ ap' = ap /\ fw' = fw
  BY DEF Request
<1>2. o \in Requests
  BY RestOfOps DEF Request, Typed, Types, WorldTypes
<1>3. /\ s \in Seq(CallSet) /\ s # <<>>
      /\ o.op = "kick" => Len(s) = 2 /\ s[2].op = "del"
      /\ o.op # "kick" => Len(s) = 1 /\ s[1].op = o.op /\ o.op \in {"key", "delkey", "start", "stop"}
  BY <1>2, CallsTyped
<1> HIDE DEF o, s
<1>4. th'["user"].todo = s /\ th'["user"].at = 0
  BY <1>1, <1>3, Taken DEF Typed, Types, Threads
<1>5. /\ End(s) \notin {"started", "stopcmd"} /\ (End(s) = "stop" => ap.started) /\ (End(s) = "start" => ~ap.started)
  BY <1>1, <1>3 DEF End
<1> QED
  BY <1>1, <1>3, <1>4, <1>5, NewKeys

LEMMA NotifiedKeys ==
  ASSUME Typed, KeysInv, Notified, odd \subseteq odd'
  PROVE  KeysInv'
<1> DEFINE n == Head(notes)
<1>1. /\ th["user"].todo = <<>> /\ notes # <<>> /\ ap' = ap /\ fw' = fw /\ notes' = Tail(notes) /\ left' = left
      /\ \E s \in {<<Call("add", n.m)>>, <<Call("del", n.m)>>, <<>>} :
           th' = [th EXCEPT !["user"] = [Idle EXCEPT !.todo = s]]
  BY DEF Notified
<1>2. PICK s \in {<<Call("add", n.m)>>, <<Call("del", n.m)>>, <<>>} :
             th' = [th EXCEPT !["user"] = [Idle EXCEPT !.todo = s]]
  BY <1>1
<1>3. n.m \in Macs
  <2>1. n \in Notices
    BY <1>1, NoteTaken DEF SameLoad, Typed, Types, WorldTypes
  <2> QED
    BY <2>1 DEF Notices
<1> HIDE DEF n
<1>4. s \in Seq(CallSet) /\ (s # <<>> => End(s) \in {"add", "del"})
  <2>1. ASSUME NEW op \in {"add", "del"}, s = <<Call(op, n.m)>>
        PROVE  s \in Seq(CallSet) /\ End(s) \in {"add", "del"}
    <3>1. Call(op, n.m) \in CallSet /\ Call(op, n.m).op = op
      BY <1>3, CallTyped DEF Users
    <3> QED
      BY <2>1, <3>1, Calls1 DEF End
  <2>2. s = <<Call("add", n.m)>> \/ s = <<Call("del", n.m)>> \/ s = <<>>
    BY <1>2
  <2> QED
    BY <2>1, <2>2, Nothing
<1>5. th'["user"].todo = s /\ th'["user"].at = 0
  BY <1>2, <1>4, Taken DEF Typed, Types, Threads
<1> QED
  BY <1>1, <1>4, <1>5, NewKeys

\* A call of the access point is over, or its command is sent.
LEMMA CallEnds ==
  ASSUME Typed, Rest # <<>>, Cur("user").op \notin {"delctx", "bufkey", "tx"}, Advance("user", <<>>)
  PROVE  /\ Rest' = <<>> /\ ~Loading' /\ \A ops : ~At("user", ops)'
         /\ Purpose' /\ End(Rest) = Cur("user").op
<1>1. Tail(Rest) = <<>> /\ End(Rest) = Cur("user").op
  BY LastCall
<1>2. "user" \in Threads /\ <<>> \in Seq(CallSet) /\ <<>> \o <<>> = <<>>
  BY DEF Threads
<1>3. Rest' = <<>>
  BY <1>1, <1>2, Advanced DEF Rest, Typed, Types
<1> QED
  BY <1>1, <1>3 DEF Loading, At, Now, Rest, Purpose

LEMMA CallSent ==
  ASSUME Typed, Rest # <<>>, Cur("user").op \notin {"delctx", "bufkey", "tx"}, NEW ok \in BOOLEAN, Send("user", 0, ok)
  PROVE  /\ Rest' = Rest /\ End(Rest) = Cur("user").op /\ th'["user"].ok = ok
         /\ \A ops : At("user", ops)' <=> Cur("user").op \in ops
<1>1. End(Rest) = Cur("user").op /\ "user" \in Threads /\ 0 \in Nums
  BY LastCall, IdleTyped DEF Threads
<1>2. Rest' = Rest /\ th'["user"].at = 1 /\ th'["user"].ok = ok
  BY <1>1, Sent DEF Rest, Typed, Types, WorldTypes
<1> QED
  BY <1>1, <1>2 DEF At, Now, Cur, Rest

LEMMA KeyBeginKeys ==
  ASSUME Typed, KeysInv, NEW ok \in BOOLEAN, KeyBegin(ok), odd \subseteq odd'
  PROVE  KeysInv'
<1> DEFINE k == Cur("user").i
<1>1. Rest # <<>> /\ Cur("user").op = "key" /\ th["user"].at = 0
  BY DEF KeyBegin, Now, Cur, Rest
<1>2. End(Rest) = "key" /\ ~Loading /\ \A ops : ~At("user", ops)
  BY <1>1, LastCall DEF At, Now, Loading
<1>3. ap \in Points /\ fw \in Firmwares /\ k \in Keys
  BY <1>1, Current DEF Typed, Types, DriverTypes, WorldTypes, Rest, Threads
<1>4. ap.buf \in Seq(Keys) /\ Len(ap.buf) \in Nat
  BY <1>3 DEF Points
<1>5. CASE ~ap.started /\ Len(ap.buf) < MaxBuf
  <2> DEFINE b == Append(ap.buf, k)
  <2>1. ap' = [ap EXCEPT !.kc = k, !.buf = b] /\ Advance("user", <<>>) /\ fw' = fw
    BY <1>5 DEF KeyBegin, Skip
  <2>2. Rest' = <<>> /\ ~Loading' /\ (\A ops : ~At("user", ops)') /\ Purpose'
    BY <1>1, <2>1, CallEnds
  <2>3. Len(b) = Len(ap.buf) + 1 /\ b[Len(ap.buf) + 1] = k
    BY <1>3, <1>4
  <2> HIDE DEF b, k
  <2>4. ap'.kc = k /\ ap'.buf = b /\ ap'.started = ap.started /\ ap'.par = ap.par
    BY <1>3, <2>1 DEF Points
  <2>5. Recorded'
    BY <1>2, <2>1, <2>2, <2>4 DEF KeysInv, Recorded
  <2>6. Loaded(Len(ap.buf))' = k
    BY <1>4, <2>3, <2>4 DEF Loaded
  <2>7. Keyed'
    <3>1. KeyOdd => KeyOdd'
      BY DEF KeyOdd
    <3> QED
      BY <1>2, <1>5, <2>1, <2>2, <2>4, <2>6, <3>1 DEF KeysInv, Keyed
  <2> QED
    BY <2>2, <2>5, <2>7 DEF KeysInv
<1>6. CASE ~(~ap.started /\ Len(ap.buf) < MaxBuf)
  <2>1. /\ ap' = [ap EXCEPT !.kc = k] /\ Send("user", 0, ok)
        /\ fw' = IF ok THEN [fw EXCEPT !.key = k] ELSE fw
        /\ odd' = odd \cup Mark(~ap.started, "overflow")
    BY <1>6 DEF KeyBegin
  <2>2. Rest' = Rest /\ th'["user"].ok = ok /\ \A ops : At("user", ops)' <=> "key" \in ops
    BY <1>1, <2>1, CallSent
  <2>3. /\ ap'.kc = k /\ ap'.buf = ap.buf /\ ap'.started = ap.started /\ ap'.par = ap.par
        /\ fw'.ap = fw.ap /\ (ok => fw'.key = k)
    BY <1>3, <2>1 DEF Points, Firmwares
  <2> HIDE DEF k
  <2>4. ~Loading' /\ Purpose'
    BY <1>2, <2>2 DEF Loading, Purpose, End
  <2>5. Recorded'
    BY <1>2, <2>2, <2>3, <2>4 DEF KeysInv, Recorded
  <2>6. Keyed'
    <3>1. KeyOdd => KeyOdd'
      BY DEF KeyOdd
    <3>2. ~ap.started => KeyOdd'
      BY <2>1 DEF KeyOdd, Mark
    <3> QED
      BY <1>2, <2>2, <2>3, <2>4, <3>1, <3>2 DEF KeysInv, Keyed
  <2> QED
    BY <2>4, <2>5, <2>6 DEF KeysInv
<1> QED
  BY <1>5, <1>6

LEMMA DelKeyBeginKeys ==
  ASSUME Typed, KeysInv, NEW ok \in BOOLEAN, DelKeyBegin(ok), odd \subseteq odd'
  PROVE  KeysInv'
<1>1. Rest # <<>> /\ Cur("user").op = "delkey" /\ th["user"].at = 0 /\ ap' = ap
  BY DEF DelKeyBegin, Now, Cur, Rest
<1>2. End(Rest) = "delkey" /\ ~Loading /\ \A ops : ~At("user", ops)
  BY <1>1, LastCall DEF At, Now, Loading
<1>3. fw \in Firmwares
  BY DEF Typed, Types, WorldTypes
<1>4. CASE ap.kc = 0
  <2>1. Advance("user", <<>>) /\ fw' = fw
    BY <1>4 DEF DelKeyBegin, Skip
  <2>2. Rest' = <<>> /\ ~Loading' /\ (\A ops : ~At("user", ops)') /\ Purpose'
    BY <1>1, <2>1, CallEnds
  <2> QED
    BY <1>1, <1>2, <2>1, <2>2, CalmKept DEF Calm
<1>5. CASE ap.kc # 0
  <2>1. Send("user", 0, ok) /\ fw' = IF ok THEN [fw EXCEPT !.key = 0] ELSE fw
    BY <1>5 DEF DelKeyBegin
  <2>2. Rest' = Rest /\ th'["user"].ok = ok /\ \A ops : At("user", ops)' <=> "delkey" \in ops
    BY <1>1, <2>1, CallSent
  <2>3. fw'.ap = fw.ap /\ (ok => fw'.key = 0) /\ (~ok => fw'.key = fw.key)
    BY <1>3, <2>1 DEF Firmwares
  <2>4. ~Loading' /\ Purpose'
    BY <1>2, <2>2 DEF Loading, Purpose, End
  <2>5. Recorded'
    BY <1>1, <1>2, <2>2, <2>3, <2>4 DEF KeysInv, Recorded
  <2>6. Keyed'
    <3>1. KeyOdd => KeyOdd'
      BY DEF KeyOdd
    <3> QED
      BY <1>1, <1>2, <2>2, <2>3, <2>4, <3>1 DEF KeysInv, Keyed, Loaded
  <2> QED
    BY <2>4, <2>5, <2>6 DEF KeysInv
<1> QED
  BY <1>4, <1>5

LEMMA KeyReturnKeys ==
  ASSUME Typed, KeysInv, KeyReturn \/ DelKeyReturn, odd \subseteq odd'
  PROVE  KeysInv'
<1>1. /\ Rest # <<>> /\ Cur("user").op \in {"key", "delkey"} /\ th["user"].at = 1 /\ fw' = fw
      /\ Advance("user", <<>>) /\ odd' = odd'
  BY DEF KeyReturn, DelKeyReturn, Now, Cur, Rest
<1>2. Rest' = <<>> /\ ~Loading' /\ (\A ops : ~At("user", ops)') /\ Purpose' /\ End(Rest) = Cur("user").op
  BY <1>1, CallEnds
<1>3. ap \in Points
  BY DEF Typed, Types, DriverTypes
<1>4. ~Loading /\ ~At("user", {"start", "stopcmd"})
  BY <1>1, <1>2 DEF Loading, At, Now, Cur
<1>5. /\ KeyReturn => ap' = ap \/ ~th["user"].ok
      /\ DelKeyReturn => ap' = [ap EXCEPT !.kc = 0]
      /\ ap'.buf = ap.buf /\ ap'.started = ap.started /\ ap'.par = ap.par
  BY <1>3 DEF KeyReturn, DelKeyReturn, Points
<1>6. Recorded'
  BY <1>1, <1>2, <1>4, <1>5 DEF KeysInv, Recorded
<1>7. KeyOdd => KeyOdd'
  BY DEF KeyOdd
<1>8. ~th["user"].ok => KeyOdd'
  BY DEF KeyReturn, DelKeyReturn, KeyOdd, Mark
<1>9. ASSUME KeyReturn, th["user"].ok PROVE Keyed'
  <2>1. ap' = ap /\ At("user", {"key"})
    BY <1>5, <1>9 DEF KeyReturn, At
  <2> QED
    BY <1>1, <1>2, <1>4, <1>7, <1>9, <2>1 DEF KeysInv, Keyed, Loaded
<1>10. ASSUME DelKeyReturn, th["user"].ok PROVE Keyed'
  <2>1. At("user", {"delkey"}) /\ ap'.kc = 0
    BY <1>3, <1>5, <1>10 DEF DelKeyReturn, At, Points
  <2>2. CASE ap.buf = <<>>
    <3>1. Len(ap.buf) = 0
      BY <2>2
    <3> QED
      BY <1>1, <1>2, <1>4, <1>5, <1>7, <1>10, <2>1, <2>2, <3>1 DEF KeysInv, Keyed, Loaded
  <2>3. CASE ap.buf # <<>>
    BY <1>10, <2>3 DEF DelKeyReturn, Keyed, KeyOdd, Mark
  <2> QED
    BY <2>2, <2>3
<1>11. Keyed'
  BY <1>8, <1>9, <1>10 DEF Keyed
<1> QED
  BY <1>2, <1>6, <1>11 DEF KeysInv

LEMMA StartBeginKeys ==
  ASSUME Typed, KeysInv, NEW ok \in BOOLEAN, StartBegin(ok), odd \subseteq odd'
  PROVE  KeysInv'
<1>1. /\ Rest # <<>> /\ Cur("user").op = "start" /\ th["user"].at = 0 /\ Send("user", 0, ok)
      /\ ap' = [ap EXCEPT !.par = TRUE] /\ fw' = IF ok THEN [fw EXCEPT !.ap = TRUE] ELSE fw
  BY DEF StartBegin, Now, Cur, Rest
<1>2. End(Rest) = "start" /\ ~Loading /\ \A ops : ~At("user", ops)
  BY <1>1, LastCall DEF At, Now, Loading
<1>3. ap \in Points /\ fw \in Firmwares
  BY DEF Typed, Types, DriverTypes, WorldTypes
<1>4. Rest' = Rest /\ th'["user"].ok = ok /\ \A ops : At("user", ops)' <=> "start" \in ops
  BY <1>1, CallSent
<1>5. /\ ap'.kc = ap.kc /\ ap'.buf = ap.buf /\ ap'.started = ap.started /\ ap'.par
      /\ fw'.key = fw.key /\ (ok => fw'.ap) /\ (~ok => fw'.ap = fw.ap)
  BY <1>1, <1>3 DEF Points, Firmwares
<1>6. ~Loading' /\ Purpose'
  BY <1>2, <1>4, <1>5 DEF Loading, Purpose, End, KeysInv
<1>7. ~ap.started
  BY <1>1, <1>2 DEF KeysInv, Purpose
<1>8. Recorded'
  <2>1. CASE "unstopped" \in odd
    BY <2>1 DEF Recorded
  <2>2. CASE "unstopped" \notin odd
    <3>1. ~fw.ap
      BY <1>2, <1>3, <1>7, <2>2 DEF KeysInv, Recorded, Firmwares, Points
    <3>2. fw'.ap = ok
      BY <1>3, <1>5, <3>1 DEF Firmwares
    <3> QED
      BY <1>4, <1>5, <1>6, <3>2 DEF Recorded
  <2> QED
    BY <2>1, <2>2
<1>9. Keyed'
  <2>1. KeyOdd => KeyOdd'
    BY DEF KeyOdd
  <2> QED
    BY <1>2, <1>4, <1>5, <1>6, <1>7, <2>1 DEF KeysInv, Keyed, Loaded
<1> QED
  BY <1>6, <1>8, <1>9 DEF KeysInv

\* The kept keys are listed in their order.
LEMMA StartReturnKeys ==
  ASSUME Typed, KeysInv, StartReturn, odd \subseteq odd'
  PROVE  KeysInv'
<1>1. Rest # <<>> /\ Cur("user").op = "start" /\ th["user"].at = 1 /\ fw' = fw /\ At("user", {"start"}) /\ left' = left
  BY DEF StartReturn, Now, Cur, Rest, At
<1>2. End(Rest) = "start" /\ ~Loading
  BY <1>1, LastCall DEF Loading
<1>3. ap \in Points /\ Len(ap.buf) \in Nat /\ fw \in Firmwares
  BY DEF Typed, Types, DriverTypes, WorldTypes, Points
<1>4. ~ap.started /\ ~At("user", {"key", "delkey", "stopcmd"})
  BY <1>1, <1>2 DEF KeysInv, Purpose, At, Now, Cur
<1>5. KeyOdd => KeyOdd'
  BY DEF KeyOdd
<1>6. CASE ~th["user"].ok
  <2>1. ap' = [ap EXCEPT !.par = FALSE] /\ Advance("user", <<>>)
    BY <1>6 DEF StartReturn
  <2>2. Rest' = <<>> /\ ~Loading' /\ (\A ops : ~At("user", ops)') /\ Purpose'
    BY <1>1, <2>1, CallEnds
  <2>3. ap'.kc = ap.kc /\ ap'.buf = ap.buf /\ ap'.started = ap.started /\ ~ap'.par
    BY <1>3, <2>1 DEF Points
  <2>4. Recorded'
    <3>1. CASE "unstopped" \in odd
      BY <3>1 DEF Recorded
    <3>2. CASE "unstopped" \notin odd
      <4>1. ~fw.ap
        BY <1>1, <1>6, <3>2 DEF KeysInv, Recorded
      <4>2. ap'.par = ap'.started /\ fw'.ap = ap'.started
        BY <1>1, <1>3, <1>4, <2>1, <2>3, <4>1 DEF Points, Firmwares
      <4> QED
        BY <2>2, <4>2 DEF Recorded
    <3> QED
      BY <3>1, <3>2
  <2>5. Keyed'
    BY <1>1, <1>2, <1>4, <1>5, <2>2, <2>3 DEF KeysInv, Keyed, Loaded
  <2> QED
    BY <2>2, <2>4, <2>5 DEF KeysInv
<1>7. CASE th["user"].ok
  <2> DEFINE s == Append(BufferedKeys, Call("started", NoMac))
             n == Len(ap.buf)
  <2>1. /\ s \in Seq(CallSet) /\ ScriptUser(s) /\ Len(s) = n + 1 /\ s[n + 1].op = "started"
        /\ \A j \in 1 .. n : s[j].op = "bufkey" /\ s[j].i = ap.buf[j]
    BY <1>3, StartList
  <2>2. ap' = [ap EXCEPT !.carrier = TRUE] /\ Advance("user", s)
    BY <1>7 DEF StartReturn
  <2>3. ap'.kc = ap.kc /\ ap'.buf = ap.buf /\ ap'.started = ap.started /\ ap'.par = ap.par
    BY <1>3, <2>2 DEF Points
  <2>4. n \in Nat
    BY <1>3
  <2> HIDE DEF s, n
  <2>5. \A j \in 1 .. Len(s) : s[j].op # "add"
    <3>1. \A j \in 1 .. n + 1 : j \in 1 .. n \/ j = n + 1
      BY <2>4
    <3> QED
      BY <2>1, <3>1
  <2>6. Rest' = s /\ th'["user"].at = 0
    <3>1. notes' = notes /\ SameLoad
      BY <1>1 DEF StartReturn, SameLoad, Typed, Types, WorldTypes
    <3>2. th["user"].todo # <<>>
      BY <1>1 DEF Rest
    <3> QED
      BY <1>1, <2>1, <2>2, <2>5, <3>1, <3>2, UserMore DEF Rest
  <2>7. Loading' /\ \A ops : ~At("user", ops)'
    <3>1. s # <<>> /\ End(s) = "started"
      BY <2>1, <2>4 DEF End
    <3> QED
      BY <2>6, <3>1 DEF Loading, At, Now, End
  <2>8. Purpose'
    BY <1>4, <2>3, <2>7 DEF Purpose, Loading
  <2>9. Recorded'
    <3>1. CASE "unstopped" \in odd
      BY <3>1 DEF Recorded
    <3>2. CASE "unstopped" \notin odd
      <4>1. ap.par /\ fw.ap
        BY <1>1, <1>3, <1>7, <3>2 DEF KeysInv, Recorded, Firmwares
      <4> QED
        BY <1>1, <2>3, <2>7, <4>1 DEF Recorded
    <3> QED
      BY <3>1, <3>2
  <2>10. Keyed'
    <3>1. Len(ap'.buf) = n /\ Len(Rest') = n + 1 /\ ap'.buf = ap.buf
      BY <2>1, <2>3, <2>6 DEF n
    <3>2. n + 1 - (n + 1) = 0 /\ n + 1 <= n + 1 /\ n + 1 - 1 = n /\ \A j \in 1 .. n : 0 + j = j
      BY <2>4
    <3>3. /\ Len(Rest') <= Len(ap'.buf) + 1 /\ Len(ap'.buf) + 1 - Len(Rest') = 0
          /\ \A j \in 1 .. Len(Rest') - 1 : Rest'[j].i = ap'.buf[Len(ap'.buf) + 1 - Len(Rest') + j]
      <4>1. \A j \in 1 .. n : Rest'[j].i = ap'.buf[0 + j]
        BY <2>1, <2>6, <3>1, <3>2
      <4>2. Len(Rest') <= Len(ap'.buf) + 1 /\ Len(ap'.buf) + 1 - Len(Rest') = 0 /\ Len(Rest') - 1 = n
        BY <3>1, <3>2
      <4> QED
        BY <4>1, <4>2
    <3>4. CASE KeyOdd
      BY <1>5, <3>4 DEF Keyed
    <3>5. CASE ~KeyOdd
      <4>1. fw'.key = 0 /\ Loaded(0)' = 0
        BY <1>1, <1>2, <1>4, <3>5 DEF KeysInv, Keyed, Loaded
      <4>2. ap'.kc = Loaded(Len(ap.buf))'
        BY <1>4, <2>3, <3>5 DEF KeysInv, Keyed, Loaded
      <4> QED
        BY <1>4, <2>3, <2>7, <3>3, <4>1, <4>2 DEF Keyed
    <3> QED
      BY <3>4, <3>5
  <2> QED
    BY <2>8, <2>9, <2>10 DEF KeysInv
<1> QED
  BY <1>6, <1>7

\* The next kept key is sent.
LEMMA BufKeyKeys ==
  ASSUME Typed, KeysInv, NEW ok \in BOOLEAN, BufKey(ok), odd \subseteq odd'
  PROVE  KeysInv'
<1>1. /\ Rest # <<>> /\ Cur("user").op = "bufkey" /\ th["user"].at = 0 /\ Advance("user", <<>>) /\ ap' = ap
      /\ fw' = IF ok THEN [fw EXCEPT !.key = Cur("user").i] ELSE fw
      /\ odd' = odd \cup Mark(~ok, "keyfail")
  BY DEF BufKey, Now, Cur, Rest
<1>2. Rest \in Seq(CallSet) /\ Len(Rest) \in Nat \ {0} /\ End(Rest) = "started" /\ Cur("user") = Rest[1]
      /\ (Tail(Rest) # <<>> => End(Tail(Rest)) = End(Rest))
  BY <1>1, LastCall
<1>3. ap \in Points /\ Len(ap.buf) \in Nat /\ fw \in Firmwares
  BY DEF Typed, Types, DriverTypes, WorldTypes, Points
<1>4. Rest' = Tail(Rest) /\ th'["user"].at = 0
  <2>1. <<>> \in Seq(CallSet) /\ <<>> \o Tail(Rest) = Tail(Rest)
    BY <1>2
  <2> QED
    BY <1>1, <2>1, Advanced DEF Rest, Typed, Types, Threads
<1>5. /\ Len(Rest') = Len(Rest) - 1
      /\ \A j \in 1 .. Len(Rest') : j + 1 \in 1 .. Len(Rest) /\ Rest'[j] = Rest[j + 1]
  BY <1>1, <1>2, <1>4, TailIndexes
<1>6. Len(Rest) > 1
  <2>1. Len(Rest) = 1 => End(Rest) = "bufkey"
    BY <1>1, <1>2 DEF End
  <2>2. \A n \in Nat \ {0} : n # 1 => n > 1
    OBVIOUS
  <2>3. Len(Rest) # 1
    BY <1>2, <2>1
  <2> QED
    BY <1>2, <2>2, <2>3
<1>7. Loading /\ Loading' /\ \A ops : ~At("user", ops) /\ ~At("user", ops)'
  <2>1. Rest' # <<>>
    <3>1. Len(Rest') # 0
      BY <1>2, <1>5, <1>6
    <3> QED
      BY <3>1
  <2>2. End(Rest)' = "started"
    BY <1>2, <1>4, <2>1 DEF End
  <2> QED
    BY <1>1, <1>2, <1>4, <2>1, <2>2 DEF Loading, At, Now, Rest
<1>8. ~ap.started /\ Purpose'
  BY <1>1, <1>2, <1>7 DEF KeysInv, Purpose, Loading
<1>9. fw'.ap = fw.ap /\ (ok => fw'.key = Rest[1].i)
  <2>1. Cur("user").i \in Keys
    BY <1>1, Current DEF Rest, Threads
  <2> QED
    BY <1>1, <1>2, <1>3, <2>1 DEF Firmwares
<1>10. Recorded'
  BY <1>1, <1>7, <1>9 DEF KeysInv, Recorded
<1>11. Keyed'
  <2>1. CASE KeyOdd \/ ~ok
    BY <1>1, <2>1 DEF Keyed, KeyOdd, Mark
  <2>2. CASE ~KeyOdd /\ ok
    <3>0. PICK n \in Nat, k \in Nat : n = Len(ap.buf) /\ k = Len(Rest)
      BY <1>2, <1>3
    <3>1. /\ k <= n + 1 /\ \A j \in 1 .. k - 1 : Rest[j].i = ap.buf[n + 1 - k + j]
          /\ ap.kc = Loaded(n)
      BY <1>7, <1>8, <2>2, <3>0 DEF KeysInv, Keyed
    <3>2. k \in Nat /\ k > 1 /\ n \in Nat
      BY <1>2, <1>3, <1>6, <3>0
    <3>3. Len(Rest') = k - 1
      BY <1>5, <3>0
    <3>4. /\ 1 \in 1 .. k - 1 /\ n + 1 - k + 1 = n + 1 - (k - 1) /\ k - 1 <= n + 1 /\ n + 1 - (k - 1) # 0
          /\ \A j \in 1 .. k - 1 - 1 : j + 1 \in 1 .. k - 1 /\ n + 1 - k + (j + 1) = n + 1 - (k - 1) + j /\ j \in 1 .. k - 1
      <4>1. \A a, b \in Nat : b > 1 /\ b <= a + 1 =>
              1 \in 1 .. b - 1 /\ a + 1 - b + 1 = a + 1 - (b - 1) /\ b - 1 <= a + 1 /\ a + 1 - (b - 1) # 0
        OBVIOUS
      <4>2. \A a, b \in Nat : \A j \in 1 .. b - 1 - 1 :
              j + 1 \in 1 .. b - 1 /\ a + 1 - b + (j + 1) = a + 1 - (b - 1) + j /\ j \in 1 .. b - 1
        OBVIOUS
      <4>3. k <= n + 1
        BY <3>1
      <4>4. 1 \in 1 .. k - 1 /\ n + 1 - k + 1 = n + 1 - (k - 1) /\ k - 1 <= n + 1 /\ n + 1 - (k - 1) # 0
        BY <3>2, <4>1, <4>3
      <4> QED
        BY <4>2, <4>4
    <3>5. fw'.key = ap.buf[n + 1 - (k - 1)]
      <4>1. Rest[1].i = ap.buf[n + 1 - k + 1]
        BY <3>1, <3>4
      <4> QED
        BY <1>9, <2>2, <3>4, <4>1
    <3>6. \A j \in 1 .. k - 1 - 1 : Rest'[j].i = ap.buf[n + 1 - (k - 1) + j]
      <4> SUFFICES ASSUME NEW j \in 1 .. k - 1 - 1 PROVE Rest'[j].i = ap.buf[n + 1 - (k - 1) + j]
        OBVIOUS
      <4>1. /\ j + 1 \in 1 .. k - 1 /\ n + 1 - k + (j + 1) = n + 1 - (k - 1) + j /\ j \in 1 .. k - 1
        BY <3>4
      <4>2. Rest'[j] = Rest[j + 1]
        BY <1>5, <3>3, <4>1
      <4>3. Rest[j + 1].i = ap.buf[n + 1 - k + (j + 1)]
        BY <3>1, <4>1
      <4> QED
        BY <4>1, <4>2, <4>3
    <3>7. PICK r \in Int : r = n + 1 - (k - 1)
      OBVIOUS
    <3>8. Loaded(n)' = Loaded(n) /\ Loaded(r)' = ap.buf[r]
      BY <1>1, <3>4, <3>7 DEF Loaded
    <3>9. /\ Len(Rest') <= n + 1 /\ n + 1 - Len(Rest') = r /\ fw'.key = ap.buf[r]
          /\ \A j \in 1 .. Len(Rest') - 1 : Rest'[j].i = ap.buf[r + j]
      BY <3>3, <3>4, <3>5, <3>6, <3>7
    <3>11. \A j \in 1 .. Len(Rest') - 1 : Rest'[j].i = ap'.buf[Len(ap'.buf) + 1 - Len(Rest') + j]
      BY <1>1, <3>0, <3>9
    <3>12. Len(Rest') <= Len(ap'.buf) + 1 /\ Len(ap'.buf) + 1 - Len(Rest') = r /\ r # 0 /\ fw'.key = ap'.buf[r]
      BY <1>1, <3>0, <3>4, <3>7, <3>9
    <3>13. fw'.key = Loaded(Len(ap.buf) + 1 - Len(Rest))'
      BY <3>12 DEF Loaded
    <3> QED
      BY <1>1, <1>7, <1>8, <3>0, <3>1, <3>8, <3>11, <3>12, <3>13 DEF Keyed
  <2> QED
    BY <2>1, <2>2
<1> QED
  BY <1>8, <1>10, <1>11 DEF KeysInv

\* The last kept key is the driver's.
LEMMA StartedKeys ==
  ASSUME Typed, KeysInv, Started, odd \subseteq odd'
  PROVE  KeysInv'
<1>1. /\ Rest # <<>> /\ Cur("user").op = "started" /\ Advance("user", <<>>) /\ fw' = fw /\ th["user"].at = 0
      /\ ap' = [ap EXCEPT !.buf = <<>>, !.started = TRUE]
  BY DEF Started, Now, Cur, Rest
<1>2. Len(Rest) = 1 /\ End(Rest) = "started" /\ Loading /\ \A ops : ~At("user", ops)
  BY <1>1, LastCall DEF Loading, At, Now
<1>3. ap \in Points /\ Len(ap.buf) \in Nat /\ fw \in Firmwares
  BY DEF Typed, Types, DriverTypes, WorldTypes, Points
<1>4. Rest' = <<>> /\ ~Loading' /\ (\A ops : ~At("user", ops)') /\ Purpose'
  BY <1>1, CallEnds
<1>5. ap'.kc = ap.kc /\ ap'.buf = <<>> /\ ap'.started = TRUE /\ ap'.par = ap.par /\ ~ap.started
  BY <1>1, <1>2, <1>3 DEF Points, KeysInv, Purpose
<1>6. Recorded'
  <2>1. CASE "unstopped" \in odd
    BY <2>1 DEF Recorded
  <2>2. CASE "unstopped" \notin odd
    <3>1. ap.par = TRUE /\ fw.ap = TRUE
      BY <1>2, <1>3, <2>2 DEF KeysInv, Recorded, Points, Firmwares
    <3>2. ap'.par = ap'.started /\ fw'.ap = ap'.started
      BY <1>1, <1>5, <3>1
    <3> QED
      BY <1>4, <3>2 DEF Recorded
  <2> QED
    BY <2>1, <2>2
<1>7. Keyed'
  <2>1. CASE KeyOdd
    BY <2>1 DEF Keyed, KeyOdd
  <2>2. CASE ~KeyOdd
    <3>1. fw.key = Loaded(Len(ap.buf) + 1 - Len(Rest)) /\ ap.kc = Loaded(Len(ap.buf))
      BY <1>2, <1>5, <2>2 DEF KeysInv, Keyed
    <3>2. Len(ap.buf) + 1 - Len(Rest) = Len(ap.buf)
      BY <1>2, <1>3
    <3>3. fw.key = ap.kc
      BY <3>1, <3>2
    <3> QED
      BY <1>1, <1>4, <1>5, <3>3 DEF Keyed
  <2> QED
    BY <2>1, <2>2
<1> QED
  BY <1>4, <1>6, <1>7 DEF KeysInv

LEMMA StopBeginKeys ==
  ASSUME Typed, KeysInv, StopBegin, odd \subseteq odd'
  PROVE  KeysInv'
<1> DEFINE s == Append(FlushCalls, Call("stopcmd", NoMac))
           n == Cardinality(Bound)
<1>1. /\ Rest # <<>> /\ Cur("user").op = "stop" /\ th["user"].at = 0 /\ fw' = fw /\ Advance("user", s)
      /\ ap' = [ap EXCEPT !.carrier = FALSE] /\ left' = left /\ notes' = notes
  BY DEF StopBegin, Now, Cur, Rest
<1>2. End(Rest) = "stop" /\ ~Loading /\ \A ops : ~At("user", ops)
  BY <1>1, LastCall DEF Loading, At, Now
<1>3. ap \in Points /\ n \in Nat
  <2>1. IsFiniteSet(Bound)
    BY ApAssumption, FS_Subset DEF Bound
  <2> QED
    BY <2>1, FS_CardinalityType DEF Typed, Types, DriverTypes
<1>4. /\ s \in Seq(CallSet) /\ ScriptUser(s) /\ Len(s) = n + 1 /\ s[n + 1].op = "stopcmd"
      /\ \A j \in 1 .. n : s[j].op = "delctx"
  BY StopList
<1> HIDE DEF s, n
<1>5. \A j \in 1 .. Len(s) : s[j].op # "add"
  BY <1>3, <1>4, ListIndexes
<1>6. Rest' = s /\ th'["user"].at = 0
  <2>1. SameLoad /\ th["user"].todo # <<>>
    BY <1>1 DEF SameLoad, Typed, Types, WorldTypes, Rest
  <2> QED
    BY <1>1, <1>4, <1>5, <2>1, UserMore DEF Rest
<1>7. s # <<>> /\ End(s) = "stopcmd"
  BY <1>3, <1>4 DEF End
<1>8. ~Loading' /\ \A ops : ~At("user", ops)'
  BY <1>6, <1>7 DEF Loading, End, At, Now
<1>9. ap'.kc = ap.kc /\ ap'.buf = ap.buf /\ ap'.started = ap.started /\ ap'.par = ap.par /\ ap.started
  BY <1>1, <1>2, <1>3 DEF Points, KeysInv, Purpose
<1>10. Purpose'
  BY <1>6, <1>7, <1>9 DEF Purpose, End
<1>11. Recorded'
  BY <1>1, <1>2, <1>8, <1>9 DEF KeysInv, Recorded
<1>12. Keyed'
  <2>1. KeyOdd => KeyOdd'
    BY DEF KeyOdd
  <2> QED
    BY <1>1, <1>2, <1>8, <1>9, <2>1 DEF KeysInv, Keyed, Loaded
<1> QED
  BY <1>10, <1>11, <1>12 DEF KeysInv

LEMMA StopCommandKeys ==
  ASSUME Typed, KeysInv, NEW ok \in BOOLEAN, StopCommand(ok), odd \subseteq odd'
  PROVE  KeysInv'
<1>1. /\ Rest # <<>> /\ Cur("user").op = "stopcmd" /\ th["user"].at = 0 /\ Send("user", 0, ok)
      /\ ap' = [ap EXCEPT !.kc = 0, !.par = FALSE]
      /\ fw' = IF ok THEN [fw EXCEPT !.ap = FALSE, !.key = 0, !.sta = [i \in Idx |-> NoMac]] ELSE fw
  BY DEF StopCommand, Now, Cur, Rest
<1>2. End(Rest) = "stopcmd" /\ ~Loading /\ \A ops : ~At("user", ops)
  BY <1>1, LastCall DEF Loading, At, Now
<1>3. ap \in Points /\ fw \in Firmwares
  BY DEF Typed, Types, DriverTypes, WorldTypes
<1>4. Rest' = Rest /\ th'["user"].ok = ok /\ \A ops : At("user", ops)' <=> "stopcmd" \in ops
  BY <1>1, CallSent
<1>5. ap'.kc = 0 /\ ap'.buf = ap.buf /\ ap'.started = ap.started /\ ~ap'.par /\ ap.started = TRUE
  BY <1>1, <1>2, <1>3 DEF Points, KeysInv, Purpose
<1>6. (ok => ~fw'.ap /\ fw'.key = 0) /\ (~ok => fw' = fw)
  <2> DEFINE none == [i \in Idx |-> NoMac]
  <2>1. ok => fw' = [fw EXCEPT !.ap = FALSE, !.key = 0, !.sta = none]
    BY <1>1
  <2> HIDE DEF none
  <2> QED
    BY <1>1, <1>3, <2>1 DEF Firmwares
<1>7. ~Loading' /\ Purpose'
  BY <1>2, <1>4, <1>5 DEF Loading, Purpose, End
<1>8. Recorded'
  <2>1. CASE "unstopped" \in odd
    BY <2>1 DEF Recorded
  <2>2. CASE "unstopped" \notin odd
    <3>1. fw.ap
      BY <1>2, <1>5, <2>2 DEF KeysInv, Recorded
    <3>2. fw' \in Firmwares
      BY <1>1, PointBegin DEF Typed, Types, WorldTypes
    <3>3. fw'.ap = ~ok
      <4>1. CASE ok
        BY <1>6, <3>2, <4>1 DEF Firmwares
      <4>2. CASE ~ok
        BY <1>3, <1>6, <3>1, <4>2 DEF Firmwares
      <4> QED
        BY <4>1, <4>2
    <3> QED
      BY <1>4, <1>5, <1>7, <3>3 DEF Recorded
  <2> QED
    BY <2>1, <2>2
<1>9. Keyed'
  <2>1. KeyOdd => KeyOdd'
    BY DEF KeyOdd
  <2> QED
    BY <1>2, <1>4, <1>5, <1>6, <1>7, <2>1 DEF KeysInv, Keyed, Loaded
<1> QED
  BY <1>7, <1>8, <1>9 DEF KeysInv

LEMMA StopReturnKeys ==
  ASSUME Typed, KeysInv, StopReturn, odd \subseteq odd'
  PROVE  KeysInv'
<1>1. /\ Rest # <<>> /\ Cur("user").op = "stopcmd" /\ Advance("user", <<>>) /\ fw' = fw /\ At("user", {"stopcmd"})
      /\ ap' = IF th["user"].ok THEN [ap EXCEPT !.started = FALSE] ELSE ap
      /\ (~th["user"].ok => "unstopped" \in odd')
  BY DEF StopReturn, Now, Cur, Rest, At, Mark
<1>2. Rest' = <<>> /\ ~Loading' /\ (\A ops : ~At("user", ops)') /\ Purpose'
  BY <1>1, CallEnds
<1>3. ap \in Points /\ fw \in Firmwares
  BY DEF Typed, Types, DriverTypes, WorldTypes
<1>4. CASE "unstopped" \in odd'
  BY <1>2, <1>4 DEF KeysInv, Recorded, Keyed, KeyOdd
<1>5. CASE "unstopped" \notin odd'
  <2>1. th["user"].ok /\ "unstopped" \notin odd
    BY <1>1, <1>5
  <2>2. ap'.kc = ap.kc /\ ap'.buf = ap.buf /\ ap'.started = FALSE /\ ap'.par = ap.par
    BY <1>1, <1>3, <2>1 DEF Points
  <2>3. Recorded'
    <3>1. ap.par = FALSE /\ fw.ap = FALSE
      BY <1>1, <1>3, <2>1 DEF KeysInv, Recorded, Points, Firmwares
    <3>2. ap'.par = ap'.started /\ fw'.ap = ap'.started
      BY <1>1, <2>2, <3>1
    <3> QED
      BY <1>2, <3>2 DEF Recorded
  <2>4. Keyed'
    <3>1. CASE KeyOdd
      BY <3>1 DEF Keyed, KeyOdd
    <3>2. CASE ~KeyOdd
      <4>1. ap.started
        BY <1>1, LastCall DEF KeysInv, Purpose
      <4>2. ap.buf = <<>> /\ ap.kc = 0 /\ fw.key = 0
        BY <1>1, <2>1, <3>2, <4>1 DEF KeysInv, Keyed
      <4>3. Loaded(Len(ap.buf))' = 0
        BY <2>2, <4>2 DEF Loaded
      <4> QED
        BY <1>1, <1>2, <2>2, <4>2, <4>3 DEF Keyed
    <3> QED
      BY <3>1, <3>2
  <2> QED
    BY <1>2, <2>3, <2>4 DEF KeysInv
<1> QED
  BY <1>4, <1>5

\* Everything else leaves the access point and hostapd's thread alone.
LEMMA OthersKeys ==
  ASSUME Typed, KeysInv, odd \subseteq odd', Forgo \/ TimerStep \/ FwStatus \/ Air \/ (EventStep /\ ~Step("evw"))
  PROVE  KeysInv'
<1>1. CASE Forgo \/ TimerStep \/ Air
  <2>1. ap' = ap /\ fw' = fw /\ th' = th
    BY <1>1 DEF Forgo, TimerStep, AuthTimeout, Air, Frame
  <2> QED
    BY <2>1, PointSame
<1>2. CASE FwStatus
  <2>1. PICK x \in fw.tx, ack \in BOOLEAN : Status(x, ack)
    BY <1>2 DEF FwStatus
  <2>2. ap' = ap /\ th' = th /\ fw' = [fw EXCEPT !.tx = @ \ {x}] /\ fw \in Firmwares
    BY <2>1 DEF Status, Typed, Types, WorldTypes
  <2>3. fw'.key = fw.key /\ fw'.ap = fw.ap
    BY <2>2 DEF Firmwares
  <2> QED
    BY <2>2, <2>3, PointSame
<1>3. CASE EventStep /\ ~Step("evw")
  <2>1. CASE \E ok \in BOOLEAN : Refuse(ok)
    <3>1. ap' = ap /\ (fw' = fw \/ \E m : fw' = Forget(m)) /\ fw \in Firmwares
      BY <2>1 DEF Refuse, Typed, Types, WorldTypes
    <3>2. fw'.key = fw.key /\ fw'.ap = fw.ap
      BY <3>1, ForgetTyped
    <3>3. th'["user"] = th["user"]
      BY <2>1 DEF Refuse, Advance, Typed, Types, ThreadTypes, Threads
    <3> QED
      BY <3>1, <3>2, <3>3, PointSame
  <2>2. CASE Refused \/ AuthUp \/ Auth \/ Assoc \/ Deauth \/ TxStatus \/ LateEvent
    <3>1. evKeeps' = evKeeps
      BY <2>2, AssocCases, StatusCases, DeauthCases DEF Refused, AuthUp, Auth, LateEvent
    <3>2. ap' = ap /\ fw' = fw
      BY <3>1 DEF evKeeps
    <3>3. (\E s : Work(s)) \/ th' = th
      BY <2>2, AssocCases, StatusCases, DeauthCases DEF Refused, AuthUp, Auth, LateEvent
    <3>4. th'["user"] = th["user"]
      BY <3>3 DEF Work, Typed, Types, ThreadTypes, Threads
    <3> QED
      BY <3>2, <3>4, PointSame
  <2> QED
    BY <1>3, <2>1, <2>2 DEF EventStep
<1> QED
  BY <1>1, <1>2, <1>3

LEMMA KeysKept ==
  ASSUME Typed, KeysInv, [Next]_vars
  PROVE  KeysInv'
<1>1. odd \subseteq odd'
  BY OddGrows
<1>2. CASE UserStep
  <2>1. CASE Step("user")
    BY <1>1, <2>1, StationKeys DEF Threads
  <2>2. CASE ~Step("user")
    BY <1>1, <1>2, <2>2, KeyBeginKeys, DelKeyBeginKeys, StartBeginKeys, BufKeyKeys, StopCommandKeys, KeyReturnKeys,
       StartReturnKeys, StartedKeys, StopBeginKeys, StopReturnKeys, NotifiedKeys DEF UserStep
  <2> QED
    BY <2>1, <2>2
<1>3. CASE EventStep
  <2>1. CASE Step("evw")
    BY <1>1, <2>1, StationKeys DEF Threads
  <2>2. CASE ~Step("evw")
    BY <1>1, <1>3, <2>2, OthersKeys
  <2> QED
    BY <2>1, <2>2
<1>4. CASE TimerStep \/ FwStatus \/ Air \/ Forgo
  BY <1>1, <1>4, OthersKeys
<1>5. CASE Request
  BY <1>1, <1>5, RequestKeys
<1>6. CASE UNCHANGED vars
  <2>1. ap' = ap /\ fw' = fw /\ th' = th
    BY <1>6 DEF vars
  <2> QED
    BY <1>1, <2>1, PointSame
<1> QED
  BY <1>2, <1>3, <1>4, <1>5, <1>6 DEF Next

LEMMA KeysInit == Init => KeysInv /\ AidsInv
<1> SUFFICES ASSUME Init PROVE KeysInv /\ AidsInv
  OBVIOUS
<1>1. Rest = <<>> /\ ~Loading /\ \A ops : ~At("user", ops)
  BY IdleTyped DEF Init, Rest, Loading, At, Now
<1>2. ap.started = FALSE /\ ap.par = FALSE /\ ap.kc = 0 /\ ap.buf = <<>> /\ fw.key = 0 /\ fw.ap = FALSE
  BY DEF Init
<1>3. Loaded(Len(ap.buf)) = 0
  BY <1>2 DEF Loaded
<1>4. Recorded
  BY <1>1, <1>2 DEF Recorded
<1>5. Keyed
  BY <1>1, <1>2, <1>3 DEF Keyed
<1>6. AidsInv
  BY NoneTyped DEF Init, AidsInv
<1> QED
  BY <1>1, <1>4, <1>5, <1>6 DEF KeysInv, Purpose

LEMMA TypesImply == Typed => TypeOK
<1> SUFFICES ASSUME Typed PROVE TypeOK
  OBVIOUS
<1>1. ap \in Points /\ Len(ap.buf) <= MaxBuf /\ ctx \in [Idx -> Peers] /\ fw \in Firmwares /\ client \in [Macs -> Clients]
  BY DEF Typed, Types, DriverTypes, WorldTypes
<1>2. aids \subseteq 1 .. left.aid + 1
  <2>1. aids \subseteq 1 .. left.aid /\ left.aid \in Nat
    BY DEF Typed, Types, DriverTypes, WorldTypes, LoadType
  <2>2. \A n \in Nat : 1 .. n \subseteq 1 .. n + 1
    OBVIOUS
  <2> QED
    BY <2>1, <2>2
<1>3. \A m \in Macs : client[m].st \in {"none", "authed", "assoced"} /\ hs[m] \in {"none", "auth", "assoc"}
  BY <1>1 DEF Typed, Types, WorldTypes, Clients
<1>4. \A i \in Idx : ctx[i].mac \in Macs \cup {NoMac} /\ fw.sta[i] \in Macs \cup {NoMac}
  BY <1>1 DEF Peers, Firmwares
<1>5. /\ ap.kc \in Keys /\ ap.buf \in Seq(Keys)
      /\ {ap.started, ap.carrier, ap.par, fw.ap} \subseteq BOOLEAN
  BY <1>1 DEF Points, Firmwares
<1> QED
  BY <1>1, <1>2, <1>3, <1>4, <1>5 DEF TypeOK

\* A started access point's key is the same in driver and firmware whenever nothing is under
\* way, and the parameters of the recovery are kept exactly while the firmware has the access
\* point: keys that wait for the start are loaded in their order, and every failure that would
\* leave them apart is one of the exceptions (skw_cmd_add_key, skw_cfg80211_start_ap, skw_stop_ap).
THEOREM KeysAlwaysAgree == Spec => []KeysAgree
<1>1. Init => Typed /\ Outside /\ KeysInv
  BY TypeInit, KeysInit
<1>2. Typed /\ Outside /\ KeysInv /\ [Next]_vars => (Typed /\ Outside /\ KeysInv)'
  BY TypedKept, OutsideKept, KeysKept
<1>3. Typed /\ KeysInv => KeysAgree
  <2> SUFFICES ASSUME Typed, KeysInv PROVE KeysAgree
    OBVIOUS
  <2>1. Quiet => ~Loading /\ \A ops : ~At("user", ops)
    BY DEF Quiet, Threads, Loading, Rest, At, Now
  <2>2. Quiet /\ ap.started /\ odd \cap {"buffered", "overflow", "keyfail", "unstopped"} = {} => fw.key = ap.kc
    BY <2>1 DEF KeysInv, Keyed, KeyOdd
  <2>3. Quiet /\ "unstopped" \notin odd => ap.par = fw.ap
    BY <2>1 DEF KeysInv, Recorded
  <2> QED
    BY <2>2, <2>3, TypesImply DEF KeysAgree
<1> QED
  BY <1>1, <1>2, <1>3, PTL DEF Spec

\* Stations that are associated at once never have the same aid, whatever else goes wrong, as
\* long as there was one to give (skw_mlme_ap_new_aid).
THEOREM AidsStayDistinct == Spec => []AidsDistinct
<1>1. Init => Typed /\ Outside /\ AidsInv
  BY TypeInit, KeysInit
<1>2. Typed /\ Outside /\ AidsInv /\ [Next]_vars => (Typed /\ Outside /\ AidsInv)'
  BY TypedKept, OutsideKept, AidsKept
<1>3. AidsInv => AidsDistinct
  BY DEF AidsInv, AidsDistinct
<1> QED
  BY <1>1, <1>2, <1>3, PTL DEF Spec
-----------------------------------------------------------------------------
(* The tables of stations. *)

Deleting(t, i) == At(t, {"del", "delctx"}) /\ th[t].i = i
Adding(t, i) == At(t, {"add"}) /\ th[t].i = i
AddNext(t) == th[t].todo # <<>> /\ Cur(t).op = "add"
DelAhead(m) == \E j \in 1 .. Len(Rest) : Rest[j].op = "del" /\ Rest[j].m = m
Stopping == Rest # <<>> /\ End(Rest) = "stopcmd"
Noted(k, m) == \E j \in 1 .. Len(notes) : notes[j] = [k |-> k, m |-> m]

\* The cases that TablesAgree leaves out, and a stop that will be one of them.
Spoilt == odd \cap {"undeleted", "silent", "nopeer", "both", "stale", "left", "denied"} # {}
Doomed == At("user", {"stopcmd"}) /\ ((\E m \in Macs : client[m].in) \/ (left.ext /\ Bound # {}))

\* The driver's contexts are the firmware's but for the one a thread is deleting or adding; no
\* station is in either table twice.
Mirrored == \A i \in Idx : \/ ctx[i].mac = fw.sta[i]
                           \/ \E t \in Threads : Deleting(t, i) \/ (Adding(t, i) /\ th[t].ok)
Deletions == \A t \in Threads, i \in Idx : Deleting(t, i) =>
               /\ ctx[i].mac # NoMac /\ fw.sta[i] \in {NoMac, ctx[i].mac} /\ (th[t].ok => fw.sta[i] = NoMac)
               /\ Cur(t).op = "del" => ctx[i].mac = Cur(t).m
Additions == \A t \in Threads, i \in Idx : Adding(t, i) =>
               /\ CtxOf(Cur(t).m) = {}
               /\ th[t].ok => ctx[i].mac = NoMac /\ fw.sta[i] = Cur(t).m
Unique == /\ \A i, j \in Idx : ctx[i].mac = ctx[j].mac /\ ctx[i].mac # NoMac => i = j
          /\ \A i, j \in Idx : fw.sta[i] = fw.sta[j] /\ fw.sta[i] # NoMac => i = j
OneDeletes == ~(At("user", {"del", "delctx"}) /\ At("evw", {"del", "delctx"}))
Tables == Mirrored /\ Deletions /\ Additions /\ Unique /\ OneDeletes

\* hostapd's state machine: its stations are those with a context but for the deletions it has
\* ahead, and what it does not know of a station yet it is going to be told.
Hosted ==
  /\ \A m \in Macs : hs[m] # "none" => CtxOf(m) # {}
  /\ \A m \in Macs : DelAhead(m) => hs[m] = "none"
  /\ \A i \in Idx, m \in Macs : ctx[i].mac = m =>
       /\ hs[m] # "none" \/ DelAhead(m)
       /\ hs[m] # "none" => ~ctx[i].deauthed \/ Noted("deauth", m)
       /\ hs[m] = "assoc" => ctx[i].active \/ Noted("deauth", m)
  /\ AddNext("user") => hs[Cur("user").m] = "none" /\ CtxOf(Cur("user").m) = {}
Outer == Stopping \/ Hosted

\* The internal one: a context belongs to a client or is being deleted, hostapd's stations are
\* active, a station that is deleted is none of them and not announced to it, and one that is
\* to be added has no context or one that hostapd is deleting.
Served == \A i \in Idx, m \in Macs : ctx[i].mac = m => client[m].in \/ \E t \in Threads : Deleting(t, i)
Hopeful == AddNext("evw") => /\ client[Cur("evw").m].in
                             /\ th["evw"].at = 0 => \A i \in CtxOf(Cur("evw").m) : Deleting("user", i)
Dropped == /\ \A i \in Idx, m \in Macs : ctx[i].mac = m =>
                /\ Deleting("user", i) => hs[m] = "none" \/ Stopping
                /\ Deleting("evw", i) => hs[m] = "none" /\ ~Noted("new", m)
           /\ \A m \in Macs : DelAhead(m) => hs[m] = "none"
Alive == \A m \in Macs : hs[m] # "none" => hs[m] = "assoc" /\ (Stopping \/ \E i \in CtxOf(m) : ctx[i].active)
Inner == Served /\ Hopeful /\ Dropped /\ Alive

TablesInv == Spoilt \/ Doomed \/ (Tables /\ (left.ext => Outer) /\ (~left.ext => Inner))

DA == {"del", "delctx", "add"}
Steady(t) == th'[t] = th[t] \/ (~At(t, DA) /\ ~At(t, DA)')

LEMMA StageOf ==
  ASSUME NEW t \in Threads
  PROVE  /\ At(t, DA) <=> At(t, {"del", "delctx"}) \/ At(t, {"add"})
         /\ \A i : (Deleting(t, i) => At(t, {"del", "delctx"})) /\ (Adding(t, i) => At(t, {"add"}))
         /\ At(t, {"del", "delctx"}) => ~At(t, {"add"}) /\ Deleting(t, th[t].i)
         /\ At(t, {"add"}) => Adding(t, th[t].i)
         /\ th[t].at = 0 \/ th[t].todo = <<>> => ~At(t, DA)
         /\ At(t, DA) => Cur(t).op \in DA
         /\ At(t, {"del", "delctx"}) => Cur(t).op \in {"del", "delctx"}
         /\ At(t, {"add"}) => Cur(t).op = "add" /\ AddNext(t)
BY DEF At, Now, DA, Deleting, Adding, AddNext, Cur

LEMMA StageOfNext ==
  ASSUME NEW t \in Threads
  PROVE  /\ At(t, DA)' <=> At(t, {"del", "delctx"})' \/ At(t, {"add"})'
         /\ \A i : (Deleting(t, i)' => At(t, {"del", "delctx"})') /\ (Adding(t, i)' => At(t, {"add"})')
         /\ At(t, {"del", "delctx"})' => ~At(t, {"add"})'
         /\ th'[t].at = 0 \/ th'[t].todo = <<>> => ~At(t, DA)'
BY DEF At, Now, DA, Deleting, Adding, AddNext, Cur

\* A thread that did nothing, or has nothing to do with the tables before and after.
LEMMA SteadyStage ==
  ASSUME NEW t \in Threads, Steady(t)
  PROVE  /\ \A i : (Deleting(t, i)' <=> Deleting(t, i)) /\ (Adding(t, i)' <=> Adding(t, i))
         /\ At(t, {"del", "delctx"})' <=> At(t, {"del", "delctx"})
         /\ At(t, DA) => th'[t].ok = th[t].ok /\ Cur(t)' = Cur(t)
<1>1. CASE th'[t] = th[t]
  BY <1>1 DEF At, Now, Deleting, Adding, Cur
<1>2. CASE ~At(t, DA) /\ ~At(t, DA)'
  BY <1>2, StageOf, StageOfNext
<1> QED
  BY <1>1, <1>2 DEF Steady

LEMMA TablesSame ==
  ASSUME Typed, Tables, \A i \in Idx : ctx'[i].mac = ctx[i].mac, \A i \in Idx : fw'.sta[i] = fw.sta[i],
         \A t \in Threads : Steady(t)
  PROVE  Tables'
<1>1. \A t \in Threads, i \in Idx : /\ Deleting(t, i)' <=> Deleting(t, i)
                                    /\ Adding(t, i)' <=> Adding(t, i)
                                    /\ Deleting(t, i) \/ Adding(t, i) => th'[t].ok = th[t].ok /\ Cur(t)' = Cur(t)
  BY SteadyStage, StageOf
<1>2. \A m : CtxOf(m)' = CtxOf(m)
  BY DEF CtxOf
<1>3. Mirrored'
  BY <1>1 DEF Tables, Mirrored
<1>4. Deletions'
  BY <1>1 DEF Tables, Deletions
<1>5. Additions'
  BY <1>1, <1>2 DEF Tables, Additions
<1>6. Unique'
  BY DEF Tables, Unique
<1>7. OneDeletes'
  BY SteadyStage DEF Tables, OneDeletes, Threads
<1> QED
  BY <1>3, <1>4, <1>5, <1>6, <1>7 DEF Tables

\* A call that was sent is the same call, with the firmware's answer to come.
LEMMA SentStage ==
  ASSUME NEW t \in Threads, th[t].todo # <<>>, th'[t].todo = th[t].todo, th'[t].at = 1
  PROVE  /\ \A ops : At(t, ops)' <=> Cur(t).op \in ops
         /\ Cur(t)' = Cur(t)
         /\ \A i : /\ Deleting(t, i)' <=> Cur(t).op \in {"del", "delctx"} /\ th'[t].i = i
                   /\ Adding(t, i)' <=> Cur(t).op = "add" /\ th'[t].i = i
BY DEF At, Now, Cur, Deleting, Adding

\* Only hostapd, or only the internal state machine, adds stations.
LEMMA OneAdds == Typed => \A t, u \in Threads : u # t => ~(AddNext(t) /\ AddNext(u))
<1> SUFFICES ASSUME Typed PROVE ~(AddNext("user") /\ AddNext("evw"))
  BY DEF Threads
<1> QED
  BY Current DEF AddNext, Threads

\* Where hostapd's state machine runs the event work never touches the tables of stations.
LEMMA EventIdle == ASSUME Typed, left.ext PROVE ~At("evw", DA) /\ (th["evw"].todo = <<>> \/ Cur("evw").op = "refuse")
BY Current DEF At, Now, DA, Cur, Threads

\* What a deletion that goes on does, if it is not one of the cases left out.
Deletes(t, i, ok) ==
  /\ i \in Idx /\ ctx[i].mac \in Macs /\ (Cur(t).op = "del" => ctx[i].mac = Cur(t).m)
  /\ th'[t].todo = th[t].todo /\ th'[t].at = 1 /\ th'[t].i = i /\ th'[t].ok = ok
  /\ ctx'[i].mac = ctx[i].mac /\ \A j \in Idx : j # i => ctx'[j] = ctx[j]
  /\ \A j \in Idx : fw'.sta[j] = IF ok /\ fw.sta[j] = ctx[i].mac THEN NoMac ELSE fw.sta[j]
  /\ \A n \in Macs : n # ctx[i].mac => client'[n] = client[n]
  /\ t = "evw" => ~Expects(ctx[i].mac)
  /\ ~left.ext => \A u \in Threads : u # t => th[u].todo = <<>>

LEMMA DelBeginCases ==
  ASSUME Typed, NEW t \in Threads, NEW ok \in BOOLEAN, DelBegin(t, ok), ~Spoilt'
  PROVE  /\ th[t].todo # <<>> /\ th[t].at = 0 /\ Cur(t).op \in {"del", "delctx"} /\ UNCHANGED <<notes, hs>>
         /\ \A u \in Threads : u # t => th'[u] = th[u]
         /\ \/ /\ th'[t].todo = Tail(th[t].todo) /\ th'[t].at = 0 /\ UNCHANGED <<fw, ctx, client>>
               /\ Cur(t).op = "del" => CtxOf(Cur(t).m) = {}
            \/ \E i \in Idx : Deletes(t, i, ok)
<1> DEFINE is == IF Cur(t).op = "del" THEN CtxOf(Cur(t).m) ELSE {Cur(t).i} \cap Bound
           i == Min(is)
           m == ctx[i].mac
<1>1. /\ Now(t, {"del", "delctx"}, 0) /\ th[t].todo # <<>> /\ Now(t, Stages, 0)
      /\ UNCHANGED <<ap, cookie, evq, notes, hs>> /\ Cur(t).op \in {"del", "delctx"} /\ th[t].at = 0
  BY DEF DelBegin, Now, Stages, Cur
<1>2. CASE is = {}
  <2>1. Advance(t, <<>>) /\ UNCHANGED left /\ UNCHANGED <<fw, ctx, client, aids>>
    BY <1>2 DEF DelBegin, Skip
  <2>2. th'[t].todo = Tail(th[t].todo) /\ th'[t].at = 0 /\ \A u \in Threads : u # t => th'[u] = th[u]
    BY <1>1, <2>1, StepAdvances DEF SameLoad, Typed, Types, WorldTypes
  <2> QED
    BY <1>1, <1>2, <2>1, <2>2
<1>3. CASE is # {}
  <2>1. /\ ctx' = [ctx EXCEPT ![i].active = FALSE, ![i].st = "none", ![i].deauthed = TRUE]
        /\ Removed(m) /\ Send(t, i, ok) /\ fw' = IF ok THEN Forget(m) ELSE fw
        /\ odd' = odd \cup Mark(t = "evw" /\ Expects(m), "silent")
                      \cup Mark(~left.ext /\ \E u \in DOMAIN th \ {t} : th[u].todo # <<>>, "both")
    BY <1>3 DEF DelBegin
  <2>2. i \in is /\ i \in Idx /\ i \in Nums
    <3>1. is \subseteq Idx
      BY DEF CtxOf, Bound
    <3> QED
      BY <1>3, <3>1, LeastContext
  <2>3. ctx[i] \in Peers /\ m \in Macs /\ (Cur(t).op = "del" => m = Cur(t).m)
    <3>1. ctx[i] \in Peers
      BY <2>2 DEF Typed, Types, DriverTypes
    <3>2. CASE Cur(t).op = "del"
      <4>1. Cur(t).m \in Macs
        BY <1>1, <3>2, Current
      <4>2. i \in CtxOf(Cur(t).m)
        BY <2>2, <3>2
      <4> QED
        BY <3>1, <4>1, <4>2 DEF CtxOf
    <3>3. CASE Cur(t).op # "del"
      BY <2>2, <3>1, <3>3 DEF Bound, Peers
    <3> QED
      BY <3>1, <3>2, <3>3
  <2>4. ~(t = "evw" /\ Expects(m)) /\ ~(~left.ext /\ \E u \in DOMAIN th \ {t} : th[u].todo # <<>>)
    BY <2>1 DEF Spoilt, Mark
  <2> HIDE DEF i, m, is
  <2>5. /\ th'[t].todo = th[t].todo /\ th'[t].at = 1 /\ th'[t].i = i /\ th'[t].ok = ok
        /\ \A u \in Threads : u # t => th'[u] = th[u]
    BY <1>1, <2>1, <2>2, StepSends
  <2>6. DOMAIN th = Threads
    BY DEF Typed, Types, ThreadTypes
  <2>7. \A n \in Macs : n # m => client'[n] = client[n]
    BY <2>1 DEF Removed, Typed, Types, DriverTypes
  <2>8. ctx'[i].mac = ctx[i].mac /\ \A j \in Idx : j # i => ctx'[j] = ctx[j]
    BY <2>1, <2>2, <2>3 DEF Typed, Types, DriverTypes, Peers
  <2>9. \A j \in Idx : fw'.sta[j] = IF ok /\ fw.sta[j] = m THEN NoMac ELSE fw.sta[j]
    BY <2>1, ForgetTyped DEF Typed, Types, WorldTypes
  <2>10. m = ctx[i].mac
    BY DEF m
  <2>11. Deletes(t, i, ok)
    BY <2>2, <2>3, <2>4, <2>5, <2>6, <2>7, <2>8, <2>9, <2>10 DEF Deletes
  <2> QED
    BY <1>1, <2>2, <2>5, <2>11
<1> QED
  BY <1>2, <1>3

\* No other thread touches the tables when one begins to delete.
LEMMA DeletesAlone ==
  ASSUME Typed, NEW t \in Threads, NEW u \in Threads, u # t, NEW i, NEW ok, Deletes(t, i, ok),
         th[t].todo # <<>>, Cur(t).op \in {"del", "delctx"}, th'[u] = th[u]
  PROVE  ~At(u, DA) /\ Steady(u) /\ ~At(u, DA)'
<1>1. left.ext => t = "user" /\ u = "evw"
  BY EventIdle DEF Threads
<1>2. ~At(u, DA)
  <2>1. CASE left.ext
    BY <1>1, <2>1, EventIdle
  <2>2. CASE ~left.ext
    BY <2>2, StageOf DEF Deletes
  <2> QED
    BY <2>1, <2>2
<1> QED
  BY <1>2, SteadyStage, StageOf, StageOfNext DEF Steady, At, Now

LEMMA DelBeginTables ==
  ASSUME Typed, Tables, NEW t \in Threads, NEW ok \in BOOLEAN, DelBegin(t, ok), ~Spoilt'
  PROVE  Tables'
<1>1. /\ th[t].todo # <<>> /\ th[t].at = 0 /\ Cur(t).op \in {"del", "delctx"}
      /\ \A u \in Threads : u # t => th'[u] = th[u]
  BY DelBeginCases
<1>2. ~At(t, DA)
  BY <1>1, StageOf
<1>3. CASE th'[t].at = 0 /\ UNCHANGED <<fw, ctx>>
  <2>1. \A u \in Threads : Steady(u)
    BY <1>1, <1>2, <1>3, StageOfNext DEF Steady
  <2> QED
    BY <1>3, <2>1, TablesSame
<1>4. ASSUME NEW i \in Idx, Deletes(t, i, ok) PROVE Tables'
  <2> DEFINE m == ctx[i].mac
  <2>1. /\ m \in Macs /\ m # NoMac /\ (Cur(t).op = "del" => m = Cur(t).m)
        /\ th'[t].todo = th[t].todo /\ th'[t].at = 1 /\ th'[t].i = i /\ th'[t].ok = ok
        /\ \A j \in Idx : ctx'[j].mac = ctx[j].mac
        /\ \A j \in Idx : fw'.sta[j] = IF ok /\ fw.sta[j] = m THEN NoMac ELSE fw.sta[j]
    BY <1>4, ApAssumption DEF Deletes
  <2>2. \A u \in Threads : ~At(u, DA) /\ (u # t => ~At(u, DA)')
    BY <1>1, <1>2, <1>4, DeletesAlone
  <2>3. \A j \in Idx : ctx[j].mac = fw.sta[j]
    BY <2>2, StageOf DEF Tables, Mirrored
  <2>4. \A j \in Idx : fw.sta[j] = m => j = i
    BY <2>1, <2>3 DEF Tables, Unique
  <2>5. /\ \A j : (Deleting(t, j)' <=> j = i) /\ ~Adding(t, j)'
        /\ Cur(t)' = Cur(t)
    BY <1>1, <2>1, SentStage
  <2>6. \A u \in Threads, j \in Idx : (Deleting(u, j)' <=> u = t /\ j = i) /\ ~Adding(u, j)'
    BY <2>2, <2>5, StageOfNext
  <2>7. Mirrored'
    BY <2>1, <2>3, <2>4, <2>6 DEF Mirrored
  <2>8. Deletions'
    BY <2>1, <2>3, <2>5, <2>6 DEF Deletions
  <2>9. Additions'
    BY <2>6 DEF Additions
  <2>10. Unique'
    BY <2>1 DEF Tables, Unique
  <2>11. OneDeletes'
    BY <2>2, StageOfNext DEF OneDeletes, Threads
  <2> QED
    BY <2>7, <2>8, <2>9, <2>10, <2>11 DEF Tables
<1> QED
  BY <1>3, <1>4, DelBeginCases

\* A deletion that ended.
LEMMA DelReturnCases ==
  ASSUME Typed, NEW t \in Threads, DelReturn(t), ~Spoilt'
  PROVE  /\ th[t].todo # <<>> /\ Deleting(t, th[t].i) /\ th[t].i \in Idx /\ th[t].ok /\ Cur(t).op \in {"del", "delctx"}
         /\ UNCHANGED <<fw, client, notes, hs>>
         /\ th'[t].todo = Tail(th[t].todo) /\ th'[t].at = 0 /\ \A u \in Threads : u # t => th'[u] = th[u]
         /\ ctx'[th[t].i] = NoPeer /\ \A j \in Idx : j # th[t].i => ctx'[j] = ctx[j]
<1>1. /\ th[t].todo # <<>> /\ Advance(t, <<>>) /\ UNCHANGED <<ap, fw, client, aids, cookie, evq, notes, hs, left>>
      /\ ctx' = IF th[t].ok THEN [ctx EXCEPT ![th[t].i] = NoPeer] ELSE ctx
      /\ odd' = odd \cup Mark(~th[t].ok, "undeleted") /\ At(t, {"del", "delctx"})
  BY DEF DelReturn, Now, At
<1>2. th'[t].todo = Tail(th[t].todo) /\ th'[t].at = 0 /\ \A u \in Threads : u # t => th'[u] = th[u]
  BY <1>1, StepAdvances DEF SameLoad, Typed, Types, WorldTypes
<1>3. Deleting(t, th[t].i) /\ th[t].i \in Idx /\ Cur(t).op \in {"del", "delctx"}
  BY <1>1, StageOf DEF Typed, Scripts, InStage, At, Now
<1>4. th[t].ok
  BY <1>1 DEF Spoilt, Mark, Typed, Types, ThreadTypes, Progress
<1> QED
  BY <1>1, <1>2, <1>3, <1>4 DEF Typed, Types, DriverTypes

LEMMA DelReturnTables ==
  ASSUME Typed, Tables, NEW t \in Threads, DelReturn(t), ~Spoilt'
  PROVE  Tables'
<1> DEFINE i == th[t].i
<1>1. /\ Deleting(t, i) /\ i \in Idx /\ th[t].ok /\ fw' = fw
      /\ th'[t].at = 0 /\ \A u \in Threads : u # t => th'[u] = th[u]
      /\ ctx'[i] = NoPeer /\ \A j \in Idx : j # i => ctx'[j] = ctx[j]
  BY DelReturnCases
<1>2. ctx'[i].mac = NoMac /\ fw.sta[i] = NoMac /\ ~At(t, DA)'
  BY <1>1, NoneTyped, StageOfNext DEF Tables, Deletions
<1>3. \A u \in Threads : u # t => /\ ~At(u, {"del", "delctx"}) /\ ~At(u, {"del", "delctx"})'
                                  /\ \A j : Adding(u, j)' <=> Adding(u, j)
                                  /\ th'[u].ok = th[u].ok /\ Cur(u)' = Cur(u)
  <2>1. \A u \in Threads : u # t => ~At(u, {"del", "delctx"})
    BY <1>1, StageOf DEF Tables, OneDeletes, Threads
  <2> QED
    BY <1>1, <2>1 DEF At, Now, Adding, Cur
<1>4. \A u \in Threads : \A j : ~Deleting(u, j)' /\ ~Adding(t, j)'
  BY <1>2, <1>3, StageOfNext
<1>5. \A j \in Idx : ~Adding(t, j) /\ (Deleting(t, j) => j = i)
  BY <1>1, StageOf DEF Deleting
<1> HIDE DEF i
<1>6. Mirrored'
  <2> SUFFICES ASSUME NEW j \in Idx, j # i PROVE ctx[j].mac = fw.sta[j] \/ \E u \in Threads : Adding(u, j)' /\ th'[u].ok
    BY <1>1, <1>2 DEF Mirrored
  <2>1. ctx[j].mac = fw.sta[j] \/ \E u \in Threads : Deleting(u, j) \/ (Adding(u, j) /\ th[u].ok)
    BY DEF Tables, Mirrored
  <2> QED
    BY <2>1, <1>3, <1>5, StageOf
<1>7. Deletions'
  BY <1>4 DEF Deletions
<1>8. Additions'
  <2> SUFFICES ASSUME NEW u \in Threads, NEW j \in Idx, Adding(u, j)'
               PROVE  CtxOf(Cur(u).m)' = {} /\ (th'[u].ok => ctx'[j].mac = NoMac /\ fw'.sta[j] = Cur(u)'.m)
    BY DEF Additions
  <2>1. u # t /\ Adding(u, j) /\ th'[u].ok = th[u].ok /\ Cur(u)' = Cur(u)
    BY <1>3, <1>4
  <2>2. CtxOf(Cur(u).m) = {} /\ (th[u].ok => ctx[j].mac = NoMac /\ fw.sta[j] = Cur(u).m)
    BY <2>1 DEF Tables, Additions
  <2>3. Cur(u).m \in Macs /\ Cur(u).m # NoMac
    BY <2>1, Current, StageOf, ApAssumption DEF AddNext
  <2>4. CtxOf(Cur(u).m)' = {}
    BY <1>1, <1>2, <2>1, <2>2, <2>3 DEF CtxOf
  <2> QED
    BY <1>1, <1>2, <2>1, <2>2, <2>4
<1>9. Unique'
  BY <1>1, <1>2 DEF Tables, Unique
<1>10. OneDeletes'
  BY <1>2, StageOfNext, <1>3 DEF OneDeletes, Threads
<1> QED
  BY <1>6, <1>7, <1>8, <1>9, <1>10 DEF Tables

\* What an addition that goes on does.
Adds(t, i, ok) ==
  /\ i \in Idx /\ CtxOf(Cur(t).m) = {} /\ fw.sta[i] = NoMac
  /\ th'[t].todo = th[t].todo /\ th'[t].at = 1 /\ th'[t].i = i /\ th'[t].ok = ok
  /\ UNCHANGED <<ctx, hs>>
  /\ \A j \in Idx : fw'.sta[j] = IF ok /\ j = i THEN Cur(t).m ELSE fw.sta[j]
  /\ ok => \A u \in Threads : u # t => ~Deleting(u, i)

LEMMA AddBeginCases ==
  ASSUME Typed, NEW t \in Threads, NEW ok \in BOOLEAN, AddBegin(t, ok), ~Spoilt'
  PROVE  /\ th[t].todo # <<>> /\ th[t].at = 0 /\ Cur(t).op = "add" /\ Cur(t).m \in Macs /\ UNCHANGED <<client, notes>>
         /\ \A u \in Threads : u # t => th'[u] = th[u]
         /\ \/ /\ th'[t].todo = Tail(th[t].todo) /\ th'[t].at = 0 /\ UNCHANGED fw
               /\ \A j \in Idx : ctx'[j].mac = ctx[j].mac
               /\ \E i \in CtxOf(Cur(t).m) : i \in Idx /\ \A u \in Threads : u # t => ~Deleting(u, i)
            \/ \E i \in Idx : Adds(t, i, ok)
<1> DEFINE is == CtxOf(Cur(t).m)
           free == {i \in Idx : fw.sta[i] = NoMac}
           m == Cur(t).m
           busy(S) == \E u \in DOMAIN th \ {t} : Now(u, {"del", "delctx"}, 1) /\ th[u].i \in S
<1>1. /\ Now(t, Stages, 0) /\ th[t].todo # <<>> /\ th[t].at = 0 /\ Cur(t).op = "add"
      /\ UNCHANGED <<ap, client, aids, cookie, evq, notes>>
      /\ odd' = odd \cup Mark(busy(is \cup (IF is = {} /\ ok THEN {Min(free)} ELSE {})), "both")
  BY DEF AddBegin, Now, Stages, Cur
<1>2. m \in Macs
  BY <1>1, Current
<1>3. \A S : busy(S) <=> \E u \in Threads : u # t /\ \E i \in S : Deleting(u, i)
  BY DEF Typed, Types, ThreadTypes, Deleting, At
<1>4. ~busy(is \cup (IF is = {} /\ ok THEN {Min(free)} ELSE {}))
  BY <1>1 DEF Spoilt, Mark
<1> HIDE DEF busy
<1>5. CASE is # {}
  <2>1. /\ ctx' = [ctx EXCEPT ![Min(is)].active = FALSE, ![Min(is)].st = "authed"]
        /\ Advance(t, <<>>) /\ UNCHANGED <<fw, left>>
    BY <1>5 DEF AddBegin, Skip
  <2>2. Min(is) \in Idx /\ Min(is) \in is
    BY <1>5, LeastContext DEF CtxOf
  <2>3. th'[t].todo = Tail(th[t].todo) /\ th'[t].at = 0 /\ \A u \in Threads : u # t => th'[u] = th[u]
    BY <1>1, <2>1, StepAdvances DEF SameLoad, Typed, Types, WorldTypes
  <2>4. \A u \in Threads : u # t => ~Deleting(u, Min(is))
    BY <1>3, <1>4, <2>2
  <2> HIDE DEF is, m
  <2>5. \A j \in Idx : ctx'[j].mac = ctx[j].mac
    BY <2>1, <2>2 DEF Typed, Types, DriverTypes, Peers
  <2>6. \E i \in is : i \in Idx /\ \A u \in Threads : u # t => ~Deleting(u, i)
    BY <2>2, <2>4
  <2> USE DEF is, m
  <2> QED
    BY <1>1, <1>2, <2>1, <2>3, <2>5, <2>6
<1>6. CASE is = {}
  <2>1. /\ free # {} /\ UNCHANGED <<ctx, hs>> /\ Send(t, Min(free), ok)
        /\ fw' = IF ok THEN [fw EXCEPT !.sta[Min(free)] = m] ELSE fw
    BY <1>6 DEF AddBegin
  <2>2. Min(free) \in Idx /\ Min(free) \in Nums /\ Min(free) \in free
    BY <2>1, LeastContext
  <2>3. fw.sta[Min(free)] = NoMac
    BY <2>2
  <2>4. ok => \A u \in Threads : u # t => ~Deleting(u, Min(free))
    BY <1>3, <1>4, <1>6
  <2> HIDE DEF free
  <2>5. /\ th'[t].todo = th[t].todo /\ th'[t].at = 1 /\ th'[t].i = Min(free) /\ th'[t].ok = ok
        /\ \A u \in Threads : u # t => th'[u] = th[u]
    BY <1>1, <2>1, <2>2, StepSends
  <2>6. \A j \in Idx : fw'.sta[j] = IF ok /\ j = Min(free) THEN m ELSE fw.sta[j]
    BY <2>1, <2>2 DEF Typed, Types, WorldTypes, Firmwares
  <2>7. Adds(t, Min(free), ok)
    BY <1>6, <2>1, <2>2, <2>3, <2>4, <2>5, <2>6 DEF Adds
  <2> QED
    BY <1>1, <1>2, <2>2, <2>5, <2>7
<1> QED
  BY <1>5, <1>6

LEMMA AddBeginTables ==
  ASSUME Typed, Tables, NEW t \in Threads, NEW ok \in BOOLEAN, AddBegin(t, ok), ~Spoilt'
  PROVE  Tables'
<1>1. /\ th[t].todo # <<>> /\ th[t].at = 0 /\ Cur(t).op = "add" /\ Cur(t).m \in Macs
      /\ \A u \in Threads : u # t => th'[u] = th[u]
  BY AddBeginCases
<1>2. ~At(t, DA) /\ \A u \in Threads : u # t => ~AddNext(u)
  BY <1>1, StageOf, OneAdds DEF AddNext
<1>3. CASE th'[t].at = 0 /\ UNCHANGED fw /\ \A j \in Idx : ctx'[j].mac = ctx[j].mac
  <2>1. \A u \in Threads : Steady(u)
    BY <1>1, <1>2, <1>3, StageOfNext DEF Steady
  <2> QED
    BY <1>3, <2>1, TablesSame
<1>4. ASSUME NEW i \in Idx, Adds(t, i, ok) PROVE Tables'
  <2> DEFINE m == Cur(t).m
  <2>1. /\ th'[t].todo = th[t].todo /\ th'[t].at = 1 /\ th'[t].i = i /\ th'[t].ok = ok
        /\ CtxOf(m) = {} /\ fw.sta[i] = NoMac /\ m # NoMac
        /\ ctx' = ctx /\ \A j \in Idx : fw'.sta[j] = IF ok /\ j = i THEN m ELSE fw.sta[j]
        /\ ok => \A u \in Threads : u # t => ~Deleting(u, i)
    BY <1>1, <1>4, ApAssumption DEF Adds
  <2>2. /\ \A j : ~Deleting(t, j)' /\ (Adding(t, j)' <=> j = i)
        /\ Cur(t)' = Cur(t)
    BY <1>1, <2>1, SentStage
  <2>3. \A u \in Threads : u # t => /\ \A j : (Deleting(u, j)' <=> Deleting(u, j)) /\ ~Adding(u, j) /\ ~Adding(u, j)'
                                    /\ th'[u].ok = th[u].ok /\ Cur(u)' = Cur(u)
    <3>1. \A u \in Threads : u # t => \A j : ~Adding(u, j)
      BY <1>2, StageOf
    <3> QED
      BY <1>1, <3>1 DEF Deleting, Adding, At, Now, Cur
  <2>4. \A j : ~Deleting(t, j) /\ ~Adding(t, j)
    BY <1>2, StageOf
  <2>5. \A u \in Threads : \A j : Deleting(u, j) => u # t /\ Deleting(u, j)'
    BY <2>3, <2>4
  <2>6. \A j \in Idx : fw.sta[j] # m
    <3> SUFFICES ASSUME NEW j \in Idx, fw.sta[j] = m PROVE FALSE
      OBVIOUS
    <3>1. ctx[j].mac = fw.sta[j] \/ \E u \in Threads : Deleting(u, j)
      BY <2>3, <2>4 DEF Tables, Mirrored
    <3>2. \A u \in Threads : Deleting(u, j) => fw.sta[j] \in {NoMac, ctx[j].mac}
      BY DEF Tables, Deletions
    <3>3. ctx[j].mac = m
      BY <2>1, <3>1, <3>2
    <3> QED
      BY <2>1, <3>3 DEF CtxOf
  <2>7. ok => ctx[i].mac = NoMac
    BY <2>1, <2>3, <2>4 DEF Tables, Mirrored
  <2> HIDE DEF m
  <2>8. Mirrored'
    <3> SUFFICES ASSUME NEW j \in Idx
                 PROVE  ctx[j].mac = fw'.sta[j] \/ \E u \in Threads : Deleting(u, j)' \/ (Adding(u, j)' /\ th'[u].ok)
      BY <2>1 DEF Mirrored
    <3>1. CASE ok /\ j = i
      BY <2>1, <2>2, <3>1
    <3>2. CASE ~(ok /\ j = i)
      <4>1. fw'.sta[j] = fw.sta[j]
        BY <2>1, <3>2
      <4>2. ctx[j].mac = fw.sta[j] \/ \E u \in Threads : Deleting(u, j)
        BY <2>3, <2>4 DEF Tables, Mirrored
      <4> QED
        BY <2>5, <4>1, <4>2
    <3> QED
      BY <3>1, <3>2
  <2>9. Deletions'
    <3> SUFFICES ASSUME NEW u \in Threads, NEW j \in Idx, Deleting(u, j)'
                 PROVE  /\ ctx'[j].mac # NoMac /\ fw'.sta[j] \in {NoMac, ctx'[j].mac} /\ (th'[u].ok => fw'.sta[j] = NoMac)
                        /\ Cur(u)'.op = "del" => ctx'[j].mac = Cur(u)'.m
      BY DEF Deletions
    <3>1. u # t /\ Deleting(u, j) /\ th'[u].ok = th[u].ok /\ Cur(u)' = Cur(u)
      BY <2>2, <2>3
    <3>2. fw'.sta[j] = fw.sta[j]
      BY <2>1, <3>1
    <3> QED
      BY <2>1, <3>1, <3>2 DEF Tables, Deletions
  <2>10. Additions'
    <3> SUFFICES ASSUME NEW u \in Threads, NEW j \in Idx, Adding(u, j)'
                 PROVE  CtxOf(Cur(u).m)' = {} /\ (th'[u].ok => ctx'[j].mac = NoMac /\ fw'.sta[j] = Cur(u)'.m)
      BY DEF Additions
    <3>1. u = t /\ j = i
      BY <2>2, <2>3
    <3>2. Cur(u)' = Cur(t) /\ Cur(t).m = m
      BY <2>2, <3>1 DEF m
    <3>3. CtxOf(Cur(u).m)' = {}
      BY <2>1, <3>2 DEF CtxOf
    <3> QED
      BY <2>1, <2>7, <3>1, <3>2, <3>3
  <2>11. Unique'
    <3>1. \A j, k \in Idx : ctx'[j].mac = ctx'[k].mac /\ ctx'[j].mac # NoMac => j = k
      BY <2>1 DEF Tables, Unique
    <3>2. \A j, k \in Idx : fw'.sta[j] = fw'.sta[k] /\ fw'.sta[j] # NoMac => j = k
      BY <2>1, <2>6 DEF Tables, Unique
    <3> QED
      BY <3>1, <3>2 DEF Unique
  <2>12. OneDeletes'
    <3>1. ~At(t, {"del", "delctx"})'
      BY <1>1, <2>1, SentStage
    <3> QED
      BY <3>1 DEF OneDeletes, Threads
  <2> QED
    BY <2>8, <2>9, <2>10, <2>11, <2>12 DEF Tables
<1> QED
  BY <1>3, <1>4, AddBeginCases

\* An addition that ended.
LEMMA AddReturnCases ==
  ASSUME Typed, NEW t \in Threads, AddReturn(t), ~Spoilt'
  PROVE  /\ th[t].todo # <<>> /\ Adding(t, th[t].i) /\ th[t].i \in Idx /\ Cur(t).op = "add" /\ Cur(t).m \in Macs
         /\ UNCHANGED <<fw, client, notes>>
         /\ th'[t].todo = Tail(th[t].todo) /\ th'[t].at = 0 /\ \A u \in Threads : u # t => th'[u] = th[u]
         /\ \A j \in Idx : j # th[t].i \/ ~th[t].ok => ctx'[j] = ctx[j]
         /\ th[t].ok => /\ ctx'[th[t].i].mac = Cur(t).m
                        /\ ~ctx'[th[t].i].deauthed
         /\ \A m \in Macs : hs'[m] = IF t = "user" /\ th[t].ok /\ m = Cur(t).m THEN "auth" ELSE hs[m]
         /\ t = "evw" => th[t].ok
<1> DEFINE p == [NoPeer EXCEPT !.mac = Cur(t).m, !.st = "authed"]
<1>1. /\ th[t].todo # <<>> /\ Cur(t).op = "add" /\ At(t, {"add"}) /\ Advance(t, <<>>)
      /\ UNCHANGED <<ap, fw, client, aids, cookie, evq, notes, left>>
      /\ ctx' = IF th[t].ok THEN [ctx EXCEPT ![th[t].i] = p] ELSE ctx
      /\ hs' = IF t = "user" /\ th[t].ok THEN [hs EXCEPT ![Cur(t).m] = "auth"] ELSE hs
      /\ odd' = odd \cup Mark(t = "evw" /\ ~th[t].ok, "nopeer")
  BY DEF AddReturn, Now, At, Cur
<1>2. Cur(t).m \in Macs /\ th[t].i \in Idx /\ Adding(t, th[t].i)
  BY <1>1, Current, StageOf DEF Typed, Scripts, InStage, At, Now
<1>3. p.mac = Cur(t).m /\ ~p.deauthed
  BY DEF NoPeer
<1> HIDE DEF p
<1>4. th'[t].todo = Tail(th[t].todo) /\ th'[t].at = 0 /\ \A u \in Threads : u # t => th'[u] = th[u]
  BY <1>1, StepAdvances DEF SameLoad, Typed, Types, WorldTypes
<1>5. t = "evw" => th[t].ok
  BY <1>1 DEF Spoilt, Mark
<1>6. /\ \A j \in Idx : j # th[t].i \/ ~th[t].ok => ctx'[j] = ctx[j]
      /\ th[t].ok => ctx'[th[t].i] = p
  BY <1>1, <1>2 DEF Typed, Types, DriverTypes
<1>7. \A m \in Macs : hs'[m] = IF t = "user" /\ th[t].ok /\ m = Cur(t).m THEN "auth" ELSE hs[m]
  BY <1>1, <1>2 DEF Typed, Types, WorldTypes
<1> QED
  BY <1>1, <1>2, <1>3, <1>4, <1>5, <1>6, <1>7

LEMMA AddReturnTables ==
  ASSUME Typed, Tables, NEW t \in Threads, AddReturn(t), ~Spoilt'
  PROVE  Tables'
<1> DEFINE i == th[t].i
           m == Cur(t).m
<1>1. /\ Adding(t, i) /\ i \in Idx /\ m \in Macs /\ m # NoMac /\ fw' = fw /\ AddNext(t)
      /\ th'[t].at = 0 /\ \A u \in Threads : u # t => th'[u] = th[u]
      /\ \A j \in Idx : j # i \/ ~th[t].ok => ctx'[j] = ctx[j]
      /\ th[t].ok => ctx'[i].mac = m
  BY AddReturnCases, ApAssumption DEF AddNext
<1>2. CtxOf(m) = {} /\ (th[t].ok => ctx[i].mac = NoMac /\ fw.sta[i] = m)
  BY <1>1 DEF Tables, Additions
<1>3. \A u \in Threads : u # t => /\ \A j : ~Adding(u, j) /\ ~Adding(u, j)' /\ (Deleting(u, j)' <=> Deleting(u, j))
                                  /\ At(u, {"del", "delctx"})' <=> At(u, {"del", "delctx"})
                                  /\ th'[u].ok = th[u].ok /\ Cur(u)' = Cur(u)
  <2>1. \A u \in Threads : u # t => \A j : ~Adding(u, j)
    BY <1>1, OneAdds, StageOf
  <2> QED
    BY <1>1, <2>1 DEF Deleting, Adding, At, Now, Cur
<1>4. ~At(t, DA)' /\ \A j : ~Adding(t, j)' /\ ~Deleting(t, j)' /\ ~Deleting(t, j) /\ (Adding(t, j) => j = i)
  BY <1>1, StageOf, StageOfNext DEF Adding
<1>5. th[t].ok \in BOOLEAN
  BY DEF Typed, Types, ThreadTypes, Progress
<1> HIDE DEF i, m
<1>6. Mirrored'
  <2> SUFFICES ASSUME NEW j \in Idx PROVE ctx'[j].mac = fw.sta[j] \/ \E u \in Threads : Deleting(u, j)'
    BY <1>1 DEF Mirrored
  <2>1. CASE th[t].ok /\ j = i
    BY <1>1, <1>2, <2>1
  <2>2. CASE ~(th[t].ok /\ j = i)
    <3>1. ctx[j].mac = fw.sta[j] \/ \E u \in Threads : Deleting(u, j)
      BY <2>2, <1>3, <1>4 DEF Tables, Mirrored
    <3> QED
      BY <1>1, <1>3, <1>4, <1>5, <2>2, <3>1
  <2> QED
    BY <2>1, <2>2
<1>7. Deletions'
  <2> SUFFICES ASSUME NEW u \in Threads, NEW j \in Idx, Deleting(u, j)'
               PROVE  /\ ctx'[j].mac # NoMac /\ fw'.sta[j] \in {NoMac, ctx'[j].mac} /\ (th'[u].ok => fw'.sta[j] = NoMac)
                      /\ Cur(u)'.op = "del" => ctx'[j].mac = Cur(u)'.m
    BY DEF Deletions
  <2>1. Deleting(u, j) /\ th'[u].ok = th[u].ok /\ Cur(u)' = Cur(u)
    BY <1>3, <1>4
  <2>2. ctx[j].mac # NoMac
    BY <2>1 DEF Tables, Deletions
  <2>3. ctx'[j] = ctx[j]
    BY <1>1, <1>2, <1>5, <2>2
  <2> QED
    BY <1>1, <2>1, <2>3 DEF Tables, Deletions
<1>8. Additions'
  BY <1>3, <1>4 DEF Additions
<1>9. Unique'
  <2>1. \A j \in Idx : ctx[j].mac # m
    BY <1>2 DEF CtxOf
  <2> QED
    BY <1>1, <1>5, <2>1 DEF Tables, Unique
<1>10. OneDeletes'
  BY <1>3, <1>4, StageOfNext DEF Tables, OneDeletes, Threads
<1> QED
  BY <1>6, <1>7, <1>8, <1>9, <1>10 DEF Tables

\* Calls that are not about the tables, and the beginning of new work.
LEMMA OtherCall ==
  ASSUME Typed, NEW t \in Threads, th[t].todo # <<>>, Cur(t).op \notin DA,
         (\E s : Advance(t, s)) \/ (\E i, ok : Send(t, i, ok))
  PROVE  \A u \in Threads : Steady(u) /\ (u # t => th'[u] = th[u])
<1>1. \A u \in Threads : u # t => th'[u] = th[u]
  BY DEF Advance, Send, Typed, Types, ThreadTypes
<1>2. ~At(t, DA)
  BY StageOf
<1>3. th'[t].at = 0 \/ (th'[t].todo = th[t].todo)
  BY DEF Advance, Send, Typed, Types, ThreadTypes, Progress, Idle
<1>4. ~At(t, DA)'
  BY <1>3, StageOfNext DEF At, Now, Cur
<1> QED
  BY <1>1, <1>2, <1>4 DEF Steady

LEMMA NewCall ==
  ASSUME Typed, NEW t \in Threads, th[t].todo = <<>>, NEW s, th' = [th EXCEPT ![t] = [Idle EXCEPT !.todo = s]]
  PROVE  /\ \A u \in Threads : Steady(u) /\ (u # t => th'[u] = th[u])
         /\ th'[t].todo = s /\ th'[t].at = 0
<1>1. /\ th'[t].at = 0 /\ th'[t].todo = s
      /\ \A u \in Threads : u # t => th'[u] = th[u]
  BY DEF Typed, Types, ThreadTypes, Idle
<1>2. ~At(t, DA) /\ ~At(t, DA)'
  BY <1>1, StageOf, StageOfNext
<1> QED
  BY <1>1, <1>2 DEF Steady

LEMMA TxTables ==
  ASSUME Typed, Tables, NEW t \in Threads, NEW ok \in BOOLEAN, TxBegin(t, ok) \/ TxReturn(t)
  PROVE  Tables'
<1>1. th[t].todo # <<>> /\ Cur(t).op \notin DA
  BY DEF TxBegin, TxReturn, Now, Cur, DA
<1>2. (\E s : Advance(t, s)) \/ (\E i, a : Send(t, i, a))
  BY DEF TxBegin, TxReturn
<1>3. \A i \in Idx : ctx'[i].mac = ctx[i].mac
  <2>1. ctx' = ctx \/ ctx' = Marked(CtxOf(Cur(t).m))
    BY MarkedAre DEF TxBegin, TxReturn
  <2> QED
    BY <2>1, MarkedTyped DEF Typed, Types, DriverTypes
<1>4. fw'.sta = fw.sta
  BY DEF TxBegin, TxReturn, Typed, Types, WorldTypes, Firmwares
<1> QED
  BY <1>1, <1>2, <1>3, <1>4, OtherCall, TablesSame

LEMMA StepTables ==
  ASSUME Typed, Tables, NEW t \in Threads, Step(t), ~Spoilt'
  PROVE  Tables'
BY DelBeginTables, DelReturnTables, AddBeginTables, AddReturnTables, TxTables DEF Step

LEMMA RefuseTables ==
  ASSUME Typed, Tables, NEW ok \in BOOLEAN, Refuse(ok), ~Spoilt'
  PROVE  Tables'
<1>1. /\ th["evw"].todo # <<>> /\ Cur("evw").op = "refuse" /\ Advance("evw", <<>>) /\ ctx' = ctx
      /\ fw' = IF ok THEN Forget(Cur("evw").m) ELSE fw
      /\ odd' = odd \cup Mark(ok /\ \E i \in Idx : fw.sta[i] = Cur("evw").m, "denied")
  BY DEF Refuse, Now, Cur
<1>2. ok => \A i \in Idx : fw.sta[i] # Cur("evw").m
  BY <1>1 DEF Spoilt, Mark
<1>3. \A i \in Idx : fw'.sta[i] = fw.sta[i]
  BY <1>1, <1>2, ForgetTyped DEF Typed, Types, WorldTypes
<1>4. \A u \in Threads : Steady(u)
  BY <1>1, OtherCall DEF DA, Threads
<1> QED
  BY <1>1, <1>3, <1>4, TablesSame

\* The requests about the access point itself, but for the stop of the firmware's.
PointCall == \/ \E ok \in BOOLEAN : KeyBegin(ok) \/ DelKeyBegin(ok) \/ StartBegin(ok) \/ BufKey(ok)
             \/ KeyReturn \/ DelKeyReturn \/ StartReturn \/ Started \/ StopBegin

LEMMA PointCases ==
  ASSUME Typed, PointCall
  PROVE  /\ Rest # <<>> /\ Cur("user").op \in {"key", "delkey", "start", "bufkey", "started", "stop"}
         /\ UNCHANGED <<ctx, client, notes, hs>> /\ fw'.sta = fw.sta
         /\ (\E s : Advance("user", s)) \/ (\E i, ok : Send("user", i, ok))
BY DEF PointCall, KeyBegin, DelKeyBegin, StartBegin, BufKey, KeyReturn, DelKeyReturn, StartReturn, Started, StopBegin,
       Now, Cur, Rest, Skip, Typed, Types, WorldTypes, Firmwares

LEMMA PointTables ==
  ASSUME Typed, Tables, PointCall
  PROVE  Tables'
<1>1. \A u \in Threads : Steady(u)
  BY PointCases, OtherCall DEF DA, Threads, Rest
<1> QED
  BY <1>1, PointCases, TablesSame

LEMMA StopReturnTables ==
  ASSUME Typed, Tables, StopReturn
  PROVE  Tables'
<1>1. /\ th["user"].todo # <<>> /\ Cur("user").op = "stopcmd" /\ Advance("user", <<>>) /\ UNCHANGED <<fw, ctx>>
  BY DEF StopReturn, Now, Cur
<1>2. \A u \in Threads : Steady(u)
  BY <1>1, OtherCall DEF DA, Threads
<1> QED
  BY <1>1, <1>2, TablesSame

\* The events, but for the calls they end in.
EventTook == Refused \/ AuthUp \/ Auth \/ Assoc \/ Deauth \/ TxStatus \/ LateEvent

LEMMA EventMacs ==
  ASSUME Typed, EventTook
  PROVE  /\ th["evw"].todo = <<>> /\ UNCHANGED <<fw, hs>>
         /\ (\E s : Work(s)) \/ th' = th
         /\ \A i \in Idx : ctx'[i].mac = ctx[i].mac /\ (ctx[i].active => ctx'[i].active)
<1>1. th["evw"].todo = <<>> /\ UNCHANGED <<fw, hs>>
  BY DEF EventTook, Refused, AuthUp, Auth, Assoc, Deauth, TxStatus, LateEvent, Takes, evKeeps
<1>2. (\E s : Work(s)) \/ th' = th
  BY AssocCases DEF EventTook, Refused, AuthUp, Auth, Deauth, TxStatus, LateEvent
<1>3. \/ ctx' = ctx \/ (\E m : ctx' = Marked(CtxOf(m)) \/ ctx' = Marked(Again(m)))
      \/ (\E m : ctx' = Associated(m))
  BY AssocCases, DeauthCases, MarkedAre DEF EventTook, Refused, AuthUp, Auth, TxStatus, LateEvent
<1>4. ctx \in [Idx -> Peers]
  BY DEF Typed, Types, DriverTypes
<1>5. \A i \in Idx : ctx'[i].mac = ctx[i].mac /\ (ctx[i].active => ctx'[i].active)
  BY <1>3, <1>4, MarkedTyped, AssociatedTyped
<1> QED
  BY <1>1, <1>2, <1>5

LEMMA EventTables ==
  ASSUME Typed, Tables, EventTook
  PROVE  Tables'
<1>1. \A u \in Threads : Steady(u)
  <2>1. CASE th' = th
    BY <2>1 DEF Steady
  <2>2. ASSUME NEW s, Work(s) PROVE \A u \in Threads : Steady(u)
    BY <2>2, EventMacs, NewCall DEF Work, Threads
  <2> QED
    BY <2>1, <2>2, EventMacs
<1> QED
  BY <1>1, EventMacs, TablesSame

LEMMA OutsideTables ==
  ASSUME Typed, Tables, TimerStep \/ FwStatus \/ Air \/ Forgo \/ UNCHANGED vars
  PROVE  Tables'
<1>1. th' = th /\ ctx' = ctx /\ fw'.sta = fw.sta
  <2>1. fw'.sta = fw.sta
    BY DEF TimerStep, AuthTimeout, FwStatus, Status, Air, Frame, Forgo, vars, Typed, Types, WorldTypes, Firmwares
  <2> QED
    BY <2>1 DEF TimerStep, AuthTimeout, FwStatus, Status, Air, Frame, Forgo, vars
<1>2. \A u \in Threads : Steady(u)
  BY <1>1 DEF Steady
<1> QED
  BY <1>1, <1>2, TablesSame

\* hostapd's requests and its answers to notifications.
LEMMA RequestTables ==
  ASSUME Typed, Tables, Request \/ Notified
  PROVE  Tables'
<1>1. th["user"].todo = <<>> /\ (\E s : th' = [th EXCEPT !["user"] = [Idle EXCEPT !.todo = s]]) /\ fw' = fw
  BY DEF Request, Notified
<1>2. \A u \in Threads : Steady(u)
  BY <1>1, NewCall DEF Threads
<1>3. \A i \in Idx : ctx'[i].mac = ctx[i].mac
  <2>1. ctx' = ctx \/ \E m : ctx' = Associated(m)
    BY DEF Request, Notified
  <2> QED
    BY <2>1, AssociatedTyped DEF Typed, Types, DriverTypes
<1> QED
  BY <1>1, <1>2, <1>3, TablesSame

\* What the driver has left when the firmware stops its access point is being deleted, or
\* the end of the stop will say that something is left.
LEMMA StopCommandTables ==
  ASSUME Typed, Outside, Tables, ~left.ext => Inner, NEW ok \in BOOLEAN, StopCommand(ok)
  PROVE  Doomed' \/ Tables'
<1>1. /\ th["user"].todo # <<>> /\ Cur("user").op = "stopcmd" /\ Send("user", 0, ok) /\ UNCHANGED <<ctx, client>>
      /\ fw'.sta = IF ok THEN [i \in Idx |-> NoMac] ELSE fw.sta
  BY DEF StopCommand, Now, Cur, Typed, Types, WorldTypes, Firmwares
<1>2. /\ th'["user"].todo = th["user"].todo /\ th'["user"].at = 1 /\ SameLoad
      /\ \A u \in Threads : Steady(u)
  <2>1. th'["user"].todo = th["user"].todo /\ th'["user"].at = 1 /\ SameLoad
    BY <1>1, Sent DEF Nums, Threads, Typed, Types, WorldTypes
  <2> QED
    BY <1>1, <2>1, OtherCall DEF DA, Threads
<1>3. At("user", {"stopcmd"})' /\ Cur("user")' = Cur("user")
  BY <1>1, <1>2, SentStage DEF Threads
<1>4. CASE (\E m \in Macs : client[m].in) \/ (left.ext /\ Bound # {})
  <2>1. Bound' = Bound /\ left'.ext = left.ext
    BY <1>1, <1>2 DEF Bound, SameLoad
  <2> QED
    BY <1>1, <1>3, <1>4, <2>1 DEF Doomed
<1>5. CASE ~((\E m \in Macs : client[m].in) \/ (left.ext /\ Bound # {}))
  <2>1. ~At("user", DA)
    BY <1>1, StageOf DEF DA, Threads
  <2>2. \A i \in Idx : ctx[i].mac # NoMac => Deleting("evw", i)
    <3> SUFFICES ASSUME NEW i \in Idx, ctx[i].mac # NoMac PROVE Deleting("evw", i)
      OBVIOUS
    <3>1. ~left.ext
      BY <1>5 DEF Bound
    <3>2. ctx[i].mac \in Macs
      BY DEF Typed, Types, DriverTypes, Peers
    <3>3. \E t \in Threads : Deleting(t, i)
      BY <1>5, <3>1, <3>2 DEF Inner, Served
    <3> QED
      BY <2>1, <3>3, StageOf DEF Threads
  <2>3. \A t \in Threads : \A i : ~Adding(t, i)
    <3>1. CASE left.ext
      BY <2>1, <3>1, EventIdle, StageOf DEF Threads
    <3>2. CASE ~left.ext
      <4>1. ~AddNext("evw")
        BY <1>5, <3>2, Current DEF Inner, Hopeful, AddNext, Threads
      <4> QED
        BY <2>1, <4>1, StageOf DEF Threads
    <3> QED
      BY <3>1, <3>2
  <2>4. \A t \in Threads : \A i : /\ Deleting(t, i)' <=> Deleting(t, i)
                                  /\ ~Adding(t, i)'
                                  /\ Deleting(t, i) => th'[t].ok = th[t].ok /\ Cur(t)' = Cur(t)
    BY <1>2, <2>3, SteadyStage, StageOf
  <2>5. \A i \in Idx : fw'.sta[i] = NoMac \/ fw'.sta[i] = fw.sta[i]
    BY <1>1
  <2>6. CASE ~ok
    BY <1>1, <1>2, <2>6, TablesSame
  <2>7. CASE ok
    <3>1. \A i \in Idx : fw'.sta[i] = NoMac
      BY <1>1, <2>7
    <3>2. Mirrored'
      BY <1>1, <2>2, <2>4, <3>1 DEF Mirrored, Threads
    <3>3. Deletions'
      BY <1>1, <2>4, <3>1 DEF Tables, Deletions
    <3>4. Additions'
      BY <2>4 DEF Additions
    <3>5. Unique'
      BY <1>1, <3>1 DEF Tables, Unique
    <3>6. OneDeletes'
      BY <1>2, SteadyStage DEF Tables, OneDeletes, Threads
    <3> QED
      BY <3>2, <3>3, <3>4, <3>5, <3>6 DEF Tables
  <2> QED
    BY <2>6, <2>7
<1> QED
  BY <1>4, <1>5

\* Nobody is struck off the clients but by a deletion.
LEMMA ClientsStay ==
  ASSUME Typed, (\E t \in Threads : TxReturn(t) \/ \E ok \in BOOLEAN : TxBegin(t, ok)) \/ EventTook \/ TimerStep
  PROVE  \A m \in Macs : client[m].in => client'[m].in
<1>1. client \in [Macs -> Clients]
  BY DEF Typed, Types, DriverTypes
<1>2. ASSUME NEW n \in Macs, NEW c \in Clients, client' = [client EXCEPT ![n] = c], c.in \/ ~client[n].in
      PROVE  \A m \in Macs : client[m].in => client'[m].in
  BY <1>1, <1>2 DEF Clients
<1>3. CASE client' = client
  BY <1>3
<1>4. ASSUME NEW t \in Threads, TxReturn(t) PROVE \A m \in Macs : client[m].in => client'[m].in
  BY <1>1, <1>4 DEF TxReturn, Clients
<1>5. ASSUME NEW t \in Threads, NEW ok \in BOOLEAN, TxBegin(t, ok) PROVE \A m \in Macs : client[m].in => client'[m].in
  BY <1>1, <1>5 DEF TxBegin, Clients
<1>6. CASE Auth
  BY <1>1, <1>6 DEF Auth, Clients, NoClient
<1>7. CASE Assoc
  <2>1. client' = client \/ client' = [client EXCEPT ![Ev.m] = Joined(Ev.m, Ev.sn)]
    BY <1>7, AssocCases
  <2> QED
    BY <1>1, <2>1 DEF Joined, Clients
<1>8. CASE TxStatus
  <2>1. \/ client' = client
        \/ client' = [client EXCEPT ![Ev.m] = [client[Ev.m] EXCEPT !.st = "none"]]
        \/ client' = [client EXCEPT ![Ev.m] = [client[Ev.m] EXCEPT !.timer = TRUE]]
        \/ client' = [client EXCEPT ![Ev.m] = [client[Ev.m] EXCEPT !.timer = FALSE, !.st = "assoced"]]
    BY <1>8, StatusCases
  <2>2. Ev.m \in Macs
    BY <1>8, StatusCases, EventTaken
  <2>3. client[Ev.m] \in Clients
    BY <1>1, <2>2
  <2> QED
    BY <1>2, <1>3, <2>1, <2>2, <2>3 DEF Clients
<1>9. CASE TimerStep
  BY <1>1, <1>9 DEF TimerStep, AuthTimeout, Clients
<1>10. CASE Refused \/ AuthUp \/ Deauth \/ LateEvent
  BY <1>3, <1>10 DEF Refused, AuthUp, Deauth, LateEvent
<1> QED
  BY <1>4, <1>5, <1>6, <1>7, <1>8, <1>9, <1>10 DEF EventTook

\* What hostapd's thread does while it waits for the end of a stop: nothing but take it.
LEMMA StopWaits ==
  ASSUME Typed, At("user", {"stopcmd"}), UserStep \/ Request \/ Forgo
  PROVE  StopReturn
<1>1. th["user"].todo # <<>> /\ th["user"].at = 1 /\ Cur("user").op = "stopcmd"
  BY DEF At, Now, Cur
<1>2. ~Request /\ ~Forgo /\ ~Notified
  BY <1>1 DEF Request, Forgo, Notified
<1>3. ~Step("user")
  BY <1>1 DEF Step, DelBegin, AddBegin, TxBegin, DelReturn, AddReturn, TxReturn, Now, Cur
<1>4. ~PointCall /\ \A ok \in BOOLEAN : ~StopCommand(ok)
  BY <1>1 DEF PointCall, KeyBegin, DelKeyBegin, StartBegin, BufKey, StopCommand, KeyReturn, DelKeyReturn, StartReturn,
              Started, StopBegin, Now, Cur
<1> QED
  BY <1>2, <1>3, <1>4 DEF UserStep, PointCall

LEMMA DoomedKept ==
  ASSUME Typed, Typed', Outside, Doomed, [Next]_vars, ~Spoilt'
  PROVE  Doomed'
<1>1. SameLoad
  BY LoadKept
<1>2. /\ At("user", {"stopcmd"}) /\ ((\E m \in Macs : client[m].in) \/ (left.ext /\ Bound # {}))
      /\ th["user"].todo # <<>>
  BY DEF Doomed, At, Now
<1>3. ASSUME th'["user"] = th["user"], \A m \in Macs : client[m].in => client'[m].in,
             left.ext => \A i \in Idx : ctx'[i].mac = ctx[i].mac
      PROVE  Doomed'
  <2>1. At("user", {"stopcmd"})'
    BY <1>2, <1>3 DEF At, Now
  <2>2. left.ext => Bound' = Bound
    BY <1>3 DEF Bound
  <2>3. left'.ext = left.ext
    BY <1>1 DEF SameLoad
  <2> QED
    BY <1>2, <1>3, <2>1, <2>2, <2>3 DEF Doomed
<1>4. CASE UserStep \/ Request \/ Forgo
  <2>1. StopReturn
    BY <1>2, <1>4, StopWaits
  <2>2. odd' = odd \cup Mark(~th["user"].ok, "unstopped")
                   \cup Mark(Bound # {} \/ \E m \in Macs : client[m].in, "left")
    BY <2>1 DEF StopReturn
  <2> QED
    BY <1>2, <2>2 DEF Spoilt, Mark
<1>5. CASE Step("evw")
  <2>1. ~left.ext
    BY <1>5, StationCall, Current DEF Threads
  <2>2. \A u \in Threads : u # "evw" => th'[u] = th[u]
    BY <1>5, StationCall DEF Threads
  <2>3. \A m \in Macs : client[m].in => client'[m].in
    <3>1. CASE \E ok \in BOOLEAN : DelBegin("evw", ok)
      <4>1. PICK ok \in BOOLEAN : DelBegin("evw", ok)
        BY <3>1
      <4>2. \A i : ~Deletes("evw", i, ok)
        BY <1>2, <2>1 DEF Deletes, Threads
      <4> QED
        BY <4>1, <4>2, DelBeginCases DEF Threads
    <3>2. CASE DelReturn("evw") \/ AddReturn("evw") \/ \E ok \in BOOLEAN : AddBegin("evw", ok)
      BY <3>2 DEF DelReturn, AddReturn, AddBegin
    <3>3. CASE TxReturn("evw") \/ \E ok \in BOOLEAN : TxBegin("evw", ok)
      BY <3>3, ClientsStay DEF Threads
    <3> QED
      BY <1>5, <3>1, <3>2, <3>3 DEF Step
  <2> QED
    BY <1>3, <2>1, <2>2, <2>3 DEF Threads
<1>6. CASE \E ok \in BOOLEAN : Refuse(ok)
  <2>1. ctx' = ctx /\ client' = client /\ th["evw"].todo # <<>> /\ Cur("evw").op = "refuse" /\ Advance("evw", <<>>)
    BY <1>6 DEF Refuse, Now, Cur
  <2>2. th'["user"] = th["user"]
    BY <2>1, OtherCall DEF DA, Threads
  <2> QED
    BY <1>3, <2>1, <2>2
<1>7. CASE EventTook
  <2>1. th'["user"] = th["user"]
    BY <1>7, EventMacs, NewCall DEF Work, Threads
  <2> QED
    BY <1>3, <1>7, <2>1, EventMacs, ClientsStay
<1>8. CASE TimerStep \/ FwStatus \/ Air \/ UNCHANGED vars
  <2>1. th' = th /\ ctx' = ctx
    BY <1>8 DEF TimerStep, AuthTimeout, FwStatus, Status, Air, Frame, vars
  <2>2. \A m \in Macs : client[m].in => client'[m].in
    <3>1. CASE TimerStep
      BY <3>1, ClientsStay
    <3>2. CASE FwStatus \/ Air \/ UNCHANGED vars
      BY <3>2 DEF FwStatus, Status, Air, Frame, vars
    <3> QED
      BY <1>8, <3>1, <3>2
  <2> QED
    BY <1>3, <2>1, <2>2
<1> QED
  BY <1>4, <1>5, <1>6, <1>7, <1>8 DEF Next, EventStep, EventTook

LEMMA TablesKept ==
  ASSUME Typed, Outside, Tables, ~left.ext => Inner, [Next]_vars, ~Spoilt'
  PROVE  Doomed' \/ Tables'
<1>1. CASE UserStep
  <2>1. CASE \E ok \in BOOLEAN : StopCommand(ok)
    BY <2>1, StopCommandTables
  <2>2. CASE Step("user")
    BY <2>2, StepTables DEF Threads
  <2>3. CASE StopReturn
    BY <2>3, StopReturnTables
  <2>4. CASE PointCall
    BY <2>4, PointTables
  <2>5. CASE Notified
    BY <2>5, RequestTables
  <2> QED
    BY <1>1, <2>1, <2>2, <2>3, <2>4, <2>5 DEF UserStep, PointCall
<1>2. CASE EventStep
  <2>1. CASE Step("evw")
    BY <2>1, StepTables DEF Threads
  <2>2. CASE \E ok \in BOOLEAN : Refuse(ok)
    BY <2>2, RefuseTables
  <2>3. CASE EventTook
    BY <2>3, EventTables
  <2> QED
    BY <1>2, <2>1, <2>2, <2>3 DEF EventStep, EventTook
<1>3. CASE Request
  BY <1>3, RequestTables
<1>4. CASE TimerStep \/ FwStatus \/ Air \/ Forgo \/ UNCHANGED vars
  BY <1>4, OutsideTables
<1> QED
  BY <1>1, <1>2, <1>3, <1>4 DEF Next

\* What hostapd's list of calls has ahead.
AheadIn(s, m) == \E j \in 1 .. Len(s) : s[j].op = "del" /\ s[j].m = m

LEMMA ListAhead ==
  ASSUME NEW s \in Seq(CallSet), s # <<>>, ScriptUser(s)
  PROVE  /\ s[1].op \notin {"delctx", "bufkey", "tx"} =>
              Len(s) = 1 /\ \A m : AheadIn(s, m) <=> s[1].op = "del" /\ s[1].m = m
         /\ s[1].op = "tx" => s[1].k = "deauth" /\ \A m : AheadIn(s, m) <=> s[1].m = m
         /\ s[Len(s)].op \in {"stopcmd", "started"} => (\A m : ~AheadIn(s, m)) /\ s[1].op # "add"
         /\ Tail(s) # <<>> => Tail(s)[1].op # "add"
<1>1. Len(s) \in Nat \ {0} /\ 1 \in 1 .. Len(s) /\ Len(s) \in 1 .. Len(s)
  OBVIOUS
<1>2. s[1].op \notin {"delctx", "bufkey", "tx"} => Len(s) = 1
  BY <1>1 DEF ScriptUser
<1>3. s[1].op = "tx" => /\ Len(s) = 2 /\ s[1].k = "deauth" /\ s[2].op = "del" /\ s[2].m = s[1].m
  BY <1>1 DEF ScriptUser
<1>4. s[Len(s)].op \in {"stopcmd", "started"} => \A j \in 1 .. Len(s) : s[j].op \notin {"add", "del"}
  BY <1>1 DEF ScriptUser
<1>5. Tail(s) # <<>> => Tail(s)[1].op # "add"
  <2> SUFFICES ASSUME Tail(s) # <<>>, Tail(s)[1].op = "add" PROVE FALSE
    OBVIOUS
  <2>1. Len(s) \in Nat /\ Len(s) > 1 /\ Tail(s)[1] = s[2] /\ 2 \in 1 .. Len(s)
    OBVIOUS
  <2>2. Len(s) = 2 /\ s[Len(s)].op = "add"
    BY <2>1 DEF ScriptUser
  <2>3. s[1].op \in {"delctx", "bufkey", "tx"}
    BY <1>2, <2>2
  <2> QED
    BY <1>1, <1>3, <2>2, <2>3 DEF ScriptUser
<1> QED
  BY <1>1, <1>2, <1>3, <1>4, <1>5 DEF AheadIn

LEMMA TailAhead ==
  ASSUME NEW s \in Seq(CallSet), s # <<>>, NEW m
  PROVE  /\ AheadIn(Tail(s), m) => AheadIn(s, m)
         /\ s[1].op # "del" => (AheadIn(Tail(s), m) <=> AheadIn(s, m))
<1>1. \A j \in 1 .. Len(Tail(s)) : j + 1 \in 1 .. Len(s) /\ Tail(s)[j] = s[j + 1]
  BY TailIndexes
<1>2. \A j \in 1 .. Len(s) : j # 1 => j - 1 \in 1 .. Len(Tail(s)) /\ Tail(s)[j - 1] = s[j]
  OBVIOUS
<1> QED
  BY <1>1, <1>2 DEF AheadIn

LEMMA NoAhead == \A m : ~AheadIn(<<>>, m)
BY DEF AheadIn

\* The first call of hostapd's thread is done, or sent.
LEMMA UserAhead ==
  ASSUME Typed, Rest # <<>>
  PROVE  /\ Rest \in Seq(CallSet) /\ ScriptUser(Rest) /\ Cur("user") = Rest[1] /\ \A m : DelAhead(m) <=> AheadIn(Rest, m)
         /\ (AddNext("user") <=> Cur("user").op = "add")
         /\ Cur("user").op \notin {"delctx", "bufkey", "tx"} =>
              Tail(Rest) = <<>> /\ \A m : DelAhead(m) <=> Cur("user").op = "del" /\ Cur("user").m = m
         /\ Cur("user").op = "tx" => Cur("user").k = "deauth" /\ \A m : DelAhead(m) <=> Cur("user").m = m
         /\ Stopping => (\A m : ~DelAhead(m)) /\ Cur("user").op \in {"delctx", "stopcmd"}
                        /\ (Cur("user").op = "delctx" => Tail(Rest) # <<>> /\ End(Tail(Rest)) = "stopcmd")
         /\ Cur("user").op \in {"delctx", "stopcmd"} => Stopping
<1>1. Rest \in Seq(CallSet) /\ ScriptUser(Rest) /\ Cur("user") = Rest[1]
  BY LastCall DEF Rest, Typed, Scripts, Texts
<1>2. \A m : DelAhead(m) <=> AheadIn(Rest, m)
  BY DEF DelAhead, AheadIn
<1>3. AddNext("user") <=> Cur("user").op = "add"
  BY DEF AddNext, Rest
<1>4. Cur("user").op \notin {"delctx", "bufkey", "tx"} => Tail(Rest) = <<>>
  BY LastCall
<1>5. Stopping => Cur("user").op \in {"delctx", "stopcmd"}
  BY LastCall DEF Stopping
<1>6. Stopping /\ Cur("user").op = "delctx" => Tail(Rest) # <<>> /\ End(Tail(Rest)) = "stopcmd"
  <2> SUFFICES ASSUME Stopping, Cur("user").op = "delctx" PROVE Tail(Rest) # <<>>
    BY LastCall DEF Stopping
  <2>1. Len(Rest) # 1
    BY <1>1 DEF Stopping, End
  <2>2. Len(Tail(Rest)) = Len(Rest) - 1 /\ Len(Rest) \in Nat \ {0}
    BY <1>1, TailIndexes
  <2>3. Len(Tail(Rest)) # 0
    BY <2>1, <2>2
  <2> QED
    BY <2>3, Nothing
<1>7. Cur("user").op \in {"delctx", "stopcmd"} => Stopping
  BY LastCall DEF Stopping
<1> QED
  BY <1>1, <1>2, <1>3, <1>4, <1>5, <1>6, <1>7, ListAhead DEF Stopping, End

LEMMA UserTail ==
  ASSUME Typed, Rest # <<>>, Rest' = Tail(Rest)
  PROVE  /\ ~AddNext("user")' /\ \A m : DelAhead(m)' => DelAhead(m)
         /\ Cur("user").op # "del" => \A m : DelAhead(m)' <=> DelAhead(m)
         /\ Cur("user").op \notin {"delctx", "bufkey", "tx"} => (\A m : ~DelAhead(m)') /\ ~Stopping'
         /\ Stopping /\ Cur("user").op # "stopcmd" => Stopping'
<1>1. Rest \in Seq(CallSet) /\ ScriptUser(Rest) /\ Cur("user") = Rest[1] /\ \A m : DelAhead(m) <=> AheadIn(Rest, m)
  BY UserAhead
<1>2. \A m : DelAhead(m)' <=> AheadIn(Tail(Rest), m)
  BY DEF DelAhead, AheadIn
<1>3. ~AddNext("user")'
  <2> SUFFICES ASSUME Tail(Rest) # <<>>, Head(Tail(Rest)).op = "add" PROVE FALSE
    BY DEF AddNext, Rest, Cur
  <2>1. Head(Tail(Rest)) = Tail(Rest)[1]
    BY <1>1
  <2> QED
    BY <1>1, <2>1, ListAhead
<1>4. Cur("user").op \notin {"delctx", "bufkey", "tx"} => (\A m : ~DelAhead(m)') /\ ~Stopping'
  BY <1>2, UserAhead, NoAhead DEF Stopping
<1>5. Stopping /\ Cur("user").op # "stopcmd" => Stopping'
  BY UserAhead DEF Stopping, End
<1> QED
  BY <1>1, <1>2, <1>3, <1>4, <1>5, TailAhead

LEMMA UserSame ==
  ASSUME Rest' = Rest
  PROVE  /\ AddNext("user")' <=> AddNext("user")
         /\ Rest # <<>> => Cur("user")' = Cur("user")
         /\ \A m : DelAhead(m)' <=> DelAhead(m)
         /\ Stopping' <=> Stopping
BY DEF AddNext, Rest, Cur, DelAhead, Stopping, End

LEMMA UserIdle ==
  ASSUME Rest = <<>>
  PROVE  ~AddNext("user") /\ (\A m : ~DelAhead(m)) /\ ~Stopping
BY NoAhead DEF AddNext, Rest, DelAhead, Stopping, AheadIn

\* A stop goes on until its end is taken.
LEMMA OthersWait ==
  ASSUME Typed, EventStep \/ TimerStep \/ FwStatus \/ Air \/ Forgo \/ UNCHANGED vars
  PROVE  Rest' = Rest /\ th'["user"] = th["user"]
<1>1. CASE Step("evw")
  BY <1>1, StationCall DEF Threads, Rest
<1>2. CASE \E ok \in BOOLEAN : Refuse(ok)
  <2>1. th["evw"].todo # <<>> /\ Cur("evw").op = "refuse" /\ Advance("evw", <<>>)
    BY <1>2 DEF Refuse, Now, Cur
  <2> QED
    BY <2>1, OtherCall DEF DA, Threads, Rest
<1>3. CASE EventTook
  BY <1>3, EventMacs, NewCall DEF Work, Threads, Rest
<1>4. CASE TimerStep \/ FwStatus \/ Air \/ Forgo \/ UNCHANGED vars
  BY <1>4 DEF TimerStep, AuthTimeout, FwStatus, Status, Air, Frame, Forgo, vars, Rest
<1> QED
  BY <1>1, <1>2, <1>3, <1>4 DEF EventStep, EventTook

LEMMA StopKept ==
  ASSUME Typed, Stopping, [Next]_vars, ~StopReturn
  PROVE  Stopping'
<1>1. Rest # <<>> /\ Cur("user").op \in {"delctx", "stopcmd"} /\ th["user"].todo # <<>>
  BY UserAhead DEF Stopping, Rest
<1>2. CASE Step("user")
  <2>1. Cur("user").op = "delctx"
    BY <1>1, <1>2, StationCall DEF Threads
  <2>2. Rest' = Rest \/ Rest' = Tail(Rest)
    BY <1>2, StationCall DEF Threads, Rest
  <2> QED
    BY <1>1, <2>1, <2>2, UserSame, UserTail
<1>3. CASE \E ok \in BOOLEAN : StopCommand(ok)
  <2>1. Rest' = Rest
    BY <1>3 DEF StopCommand, Send, Rest, Typed, Types, ThreadTypes, Progress, Threads
  <2> QED
    BY <2>1, UserSame
<1>4. ~PointCall /\ ~Notified /\ ~Request
  BY <1>1, PointCases DEF Notified, Request
<1>5. CASE EventStep \/ TimerStep \/ FwStatus \/ Air \/ Forgo \/ UNCHANGED vars
  BY <1>5, OthersWait, UserSame
<1> QED
  BY <1>2, <1>3, <1>4, <1>5 DEF Next, UserStep, PointCall

\* What keeps hostapd's and the driver's stations together.
LEMMA HostedSame ==
  ASSUME Typed, Hosted, hs' = hs, \A i \in Idx : ctx'[i].mac = ctx[i].mac,
         \A i \in Idx, m \in Macs : ctx[i].mac = m =>
           /\ ctx'[i].deauthed => ctx[i].deauthed \/ hs[m] = "none" \/ Noted("deauth", m)'
           /\ ctx[i].active => ctx'[i].active \/ hs[m] # "assoc",
         \A m \in Macs : Noted("deauth", m) => Noted("deauth", m)',
         \A m \in Macs : DelAhead(m)' => hs[m] = "none",
         \A m \in Macs : DelAhead(m) => DelAhead(m)' \/ CtxOf(m) = {},
         AddNext("user")' => AddNext("user") /\ Cur("user")' = Cur("user")
  PROVE  Hosted'
<1>1. \A m : CtxOf(m)' = CtxOf(m)
  BY DEF CtxOf
<1>2. (\A m \in Macs : hs[m] # "none" => CtxOf(m) # {})'
  BY <1>1 DEF Hosted
<1>3. (\A m \in Macs : DelAhead(m) => hs[m] = "none")'
  BY DEF Hosted
<1>4. (\A i \in Idx, m \in Macs : ctx[i].mac = m =>
         /\ hs[m] # "none" \/ DelAhead(m)
         /\ hs[m] # "none" => ~ctx[i].deauthed \/ Noted("deauth", m)
         /\ hs[m] = "assoc" => ctx[i].active \/ Noted("deauth", m))'
  BY DEF Hosted, CtxOf
<1>5. (AddNext("user") => hs[Cur("user").m] = "none" /\ CtxOf(Cur("user").m) = {})'
  BY DEF Hosted, CtxOf
<1> QED
  BY <1>2, <1>3, <1>4, <1>5 DEF Hosted

LEMMA HostedDelBegin ==
  ASSUME Typed, left.ext, Hosted, ~Stopping, NEW ok \in BOOLEAN, DelBegin("user", ok), ~Spoilt'
  PROVE  Hosted'
<1>1. /\ Rest # <<>> /\ Cur("user").op \in {"del", "delctx"} /\ UNCHANGED <<notes, hs>>
      /\ \/ Rest' = Tail(Rest) /\ UNCHANGED ctx /\ (Cur("user").op = "del" => CtxOf(Cur("user").m) = {})
         \/ \E i \in Idx : Deletes("user", i, ok)
  BY DelBeginCases DEF Threads, Rest
<1>2. Cur("user").op = "del" /\ (\A m : DelAhead(m) <=> Cur("user").m = m) /\ ~AddNext("user")
  BY <1>1, UserAhead
<1>3. \A m : Noted("deauth", m)' <=> Noted("deauth", m)
  BY <1>1 DEF Noted
<1>4. CASE Rest' = Tail(Rest) /\ UNCHANGED ctx /\ CtxOf(Cur("user").m) = {}
  <2>1. ~AddNext("user")' /\ \A m : ~DelAhead(m)'
    BY <1>1, <1>2, <1>4, UserTail
  <2> QED
    BY <1>1, <1>2, <1>3, <1>4, <2>1, HostedSame
<1>5. ASSUME NEW i \in Idx, Deletes("user", i, ok) PROVE Hosted'
  <2>1. Rest' = Rest /\ ctx[i].mac \in Macs /\ ctx[i].mac = Cur("user").m
        /\ ctx'[i].mac = ctx[i].mac /\ \A j \in Idx : j # i => ctx'[j] = ctx[j]
    BY <1>2, <1>5 DEF Deletes, Rest
  <2>2. hs[ctx[i].mac] = "none"
    BY <1>2, <2>1 DEF Hosted
  <2>3. ~AddNext("user")' /\ \A m : DelAhead(m)' <=> DelAhead(m)
    BY <1>2, <2>1, UserSame
  <2>4. \A m \in Macs : DelAhead(m)' => hs[m] = "none"
    BY <2>3 DEF Hosted
  <2>5. \A j \in Idx, m \in Macs : ctx[j].mac = m =>
           /\ ctx'[j].deauthed => ctx[j].deauthed \/ hs[m] = "none" \/ Noted("deauth", m)'
           /\ ctx[j].active => ctx'[j].active \/ hs[m] # "assoc"
    BY <2>1, <2>2
  <2> QED
    BY <1>1, <1>3, <2>1, <2>3, <2>4, <2>5, HostedSame
<1> QED
  BY <1>1, <1>2, <1>4, <1>5

LEMMA HostedDelReturn ==
  ASSUME Typed, left.ext, Tables, Hosted, ~Stopping, DelReturn("user"), ~Spoilt'
  PROVE  Hosted'
<1> DEFINE i == th["user"].i
<1>1. /\ Rest # <<>> /\ Rest' = Tail(Rest) /\ Cur("user").op \in {"del", "delctx"} /\ Deleting("user", i) /\ i \in Idx
      /\ UNCHANGED <<notes, hs>>
      /\ ctx'[i] = NoPeer /\ \A j \in Idx : j # i => ctx'[j] = ctx[j]
  BY DelReturnCases DEF Threads, Rest
<1>2. Cur("user").op = "del" /\ (\A m : DelAhead(m) <=> Cur("user").m = m)
  BY <1>1, UserAhead
<1>3. ~AddNext("user")' /\ \A m : ~DelAhead(m)'
  BY <1>1, <1>2, UserTail
<1>4. ctx[i].mac = Cur("user").m /\ Cur("user").m \in Macs /\ ctx[i].mac # NoMac /\ ctx'[i].mac = NoMac
  BY <1>1, <1>2, Current, NoneTyped DEF Tables, Deletions, Threads, Rest
<1>5. \A m : Noted("deauth", m)' <=> Noted("deauth", m)
  BY <1>1 DEF Noted
<1> HIDE DEF i
<1>6. \A j \in Idx : j # i => ctx[j].mac # ctx[i].mac
  BY <1>1, <1>4 DEF Tables, Unique
<1>7. (\A m \in Macs : hs[m] # "none" => CtxOf(m) # {})'
  <2> SUFFICES ASSUME NEW m \in Macs, hs[m] # "none" PROVE CtxOf(m)' # {}
    BY <1>1
  <2>1. m # ctx[i].mac
    BY <1>2, <1>4 DEF Hosted
  <2>2. PICK j \in Idx : ctx[j].mac = m
    BY DEF Hosted, CtxOf
  <2>3. ctx'[j].mac = m
    BY <1>1, <2>1, <2>2
  <2> QED
    BY <2>3 DEF CtxOf
<1>8. (\A j \in Idx, m \in Macs : ctx[j].mac = m =>
         /\ hs[m] # "none" \/ DelAhead(m)
         /\ hs[m] # "none" => ~ctx[j].deauthed \/ Noted("deauth", m)
         /\ hs[m] = "assoc" => ctx[j].active \/ Noted("deauth", m))'
  <2> SUFFICES ASSUME NEW j \in Idx, NEW m \in Macs, ctx'[j].mac = m
               PROVE  /\ hs[m] # "none"
                      /\ ~ctx'[j].deauthed \/ Noted("deauth", m)'
                      /\ hs[m] = "assoc" => ctx'[j].active \/ Noted("deauth", m)'
    BY <1>1
  <2>1. j # i /\ ctx[j].mac = m /\ m # ctx[i].mac /\ ctx'[j] = ctx[j]
    BY <1>1, <1>4, <1>6, ApAssumption
  <2> QED
    BY <1>2, <1>4, <1>5, <2>1 DEF Hosted
<1> QED
  BY <1>3, <1>7, <1>8 DEF Hosted

LEMMA HostedAddBegin ==
  ASSUME Typed, left.ext, Hosted, ~Stopping, NEW ok \in BOOLEAN, AddBegin("user", ok), ~Spoilt'
  PROVE  Hosted'
<1>1. /\ Rest # <<>> /\ Cur("user").op = "add" /\ Cur("user").m \in Macs /\ notes' = notes
  BY AddBeginCases DEF Threads, Rest
<1>2. AddNext("user") /\ CtxOf(Cur("user").m) = {}
  BY <1>1, UserAhead DEF Hosted
<1>3. PICK i \in Idx : Adds("user", i, ok)
  BY <1>2, AddBeginCases DEF Threads
<1>4. Rest' = Rest /\ UNCHANGED <<ctx, hs>>
  BY <1>3 DEF Adds, Rest
<1>5. /\ AddNext("user")' <=> AddNext("user")
      /\ Cur("user")' = Cur("user") /\ \A m : DelAhead(m)' <=> DelAhead(m)
  BY <1>1, <1>4, UserSame
<1>6. \A m : Noted("deauth", m)' <=> Noted("deauth", m)
  BY <1>1 DEF Noted
<1>7. \A m \in Macs : DelAhead(m)' => hs[m] = "none"
  BY <1>5 DEF Hosted
<1> QED
  BY <1>4, <1>5, <1>6, <1>7, HostedSame

LEMMA HostedAddReturn ==
  ASSUME Typed, left.ext, Tables, Hosted, ~Stopping, AddReturn("user"), ~Spoilt'
  PROVE  Hosted'
<1> DEFINE i == th["user"].i
           n == Cur("user").m
<1>1. /\ Rest # <<>> /\ Adding("user", i) /\ i \in Idx /\ Cur("user").op = "add" /\ n \in Macs
      /\ notes' = notes /\ Rest' = Tail(Rest)
      /\ \A j \in Idx : j # i \/ ~th["user"].ok => ctx'[j] = ctx[j]
      /\ th["user"].ok => ctx'[i].mac = n /\ ~ctx'[i].deauthed
      /\ \A m \in Macs : hs'[m] = IF th["user"].ok /\ m = n THEN "auth" ELSE hs[m]
  BY AddReturnCases DEF Threads, Rest
<1>2. \A m : ~DelAhead(m)
  BY <1>1, UserAhead
<1>3. ~AddNext("user")' /\ \A m : ~DelAhead(m)'
  BY <1>1, UserTail
<1>4. CtxOf(n) = {} /\ (th["user"].ok => ctx[i].mac = NoMac) /\ th["user"].ok \in BOOLEAN
  BY <1>1 DEF Tables, Additions, Threads, Typed, Types, ThreadTypes, Progress
<1>5. \A m : Noted("deauth", m)' <=> Noted("deauth", m)
  BY <1>1 DEF Noted
<1> HIDE DEF i, n
<1>6. (\A m \in Macs : hs[m] # "none" => CtxOf(m) # {})'
  <2> SUFFICES ASSUME NEW m \in Macs, hs'[m] # "none" PROVE \E j \in Idx : ctx'[j].mac = m
    BY DEF CtxOf
  <2>1. CASE th["user"].ok /\ m = n
    BY <1>1, <2>1
  <2>2. CASE ~(th["user"].ok /\ m = n)
    <3>1. hs[m] # "none"
      BY <1>1, <2>2
    <3>2. PICK j \in Idx : ctx[j].mac = m
      BY <3>1 DEF Hosted, CtxOf
    <3> QED
      BY <1>1, <1>4, <3>2, ApAssumption
  <2> QED
    BY <2>1, <2>2
<1>7. (\A j \in Idx, m \in Macs : ctx[j].mac = m =>
         /\ hs[m] # "none" \/ DelAhead(m)
         /\ hs[m] # "none" => ~ctx[j].deauthed \/ Noted("deauth", m)
         /\ hs[m] = "assoc" => ctx[j].active \/ Noted("deauth", m))'
  <2> SUFFICES ASSUME NEW j \in Idx, NEW m \in Macs, ctx'[j].mac = m
               PROVE  /\ hs'[m] # "none"
                      /\ ~ctx'[j].deauthed \/ Noted("deauth", m)'
                      /\ hs'[m] = "assoc" => ctx'[j].active \/ Noted("deauth", m)'
    OBVIOUS
  <2>1. CASE th["user"].ok /\ j = i
    BY <1>1, <2>1
  <2>2. CASE ~(th["user"].ok /\ j = i)
    <3>1. ctx'[j] = ctx[j] /\ m # n
      BY <1>1, <1>4, <2>2 DEF CtxOf
    <3> QED
      BY <1>1, <1>2, <1>5, <3>1 DEF Hosted
  <2> QED
    BY <2>1, <2>2
<1> QED
  BY <1>3, <1>6, <1>7 DEF Hosted

LEMMA HostedTx ==
  ASSUME Typed, left.ext, Hosted, ~Stopping, (\E ok \in BOOLEAN : TxBegin("user", ok)) \/ TxReturn("user")
  PROVE  Hosted'
<1>1. Rest # <<>> /\ Cur("user").op = "tx" /\ UNCHANGED <<notes, hs>> /\ Rest \in Seq(CallSet)
  BY UserAhead DEF TxBegin, TxReturn, Now, Cur, Rest
<1>2. Cur("user").k = "deauth" /\ (\A m : DelAhead(m) <=> Cur("user").m = m) /\ ~AddNext("user")
  BY <1>1, UserAhead
<1>3. Rest' = Rest \/ Rest' = Tail(Rest)
  BY StationCall DEF Step, Threads, Rest
<1>4. ~AddNext("user")' /\ \A m : DelAhead(m)' <=> DelAhead(m)
  BY <1>1, <1>2, <1>3, UserSame, UserTail
<1>5. ctx' = ctx \/ ctx' = Marked(CtxOf(Cur("user").m))
  BY MarkedAre DEF TxBegin, TxReturn
<1>6. \A m : Noted("deauth", m)' <=> Noted("deauth", m)
  BY <1>1 DEF Noted
<1>7. \A m \in Macs : DelAhead(m)' => hs[m] = "none"
  BY <1>4 DEF Hosted
<1>8. \A j \in Idx : /\ ctx'[j].mac = ctx[j].mac /\ ctx'[j].active = ctx[j].active
                     /\ ctx[j].mac # Cur("user").m => ctx'[j] = ctx[j]
  BY <1>5, MarkedTyped DEF Typed, Types, DriverTypes, CtxOf
<1>9. \A j \in Idx, m \in Macs : ctx[j].mac = m =>
         /\ ctx'[j].deauthed => ctx[j].deauthed \/ hs[m] = "none" \/ Noted("deauth", m)'
         /\ ctx[j].active => ctx'[j].active \/ hs[m] # "assoc"
  BY <1>2, <1>4, <1>7, <1>8
<1> QED
  BY <1>1, <1>4, <1>6, <1>7, <1>8, <1>9, HostedSame

\* Neither stations to delete nor one to add are ahead while the access point is requested something.
LEMMA StopRest ==
  ASSUME Typed, StopBegin
  PROVE  Rest' # <<>> /\ End(Rest') = "stopcmd"
<1> DEFINE s == Append(FlushCalls, Call("stopcmd", NoMac))
           n == Cardinality(Bound)
<1>1. /\ th["user"].todo # <<>> /\ Cur("user").op = "stop" /\ Advance("user", s) /\ notes' = notes /\ SameLoad
  BY DEF StopBegin, Now, Cur, SameLoad, Typed, Types, WorldTypes
<1>2. n \in Nat
  <2>1. IsFiniteSet(Bound)
    BY ApAssumption, FS_Subset DEF Bound
  <2> QED
    BY <2>1, FS_CardinalityType
<1>3. /\ s \in Seq(CallSet) /\ ScriptUser(s) /\ Len(s) = n + 1 /\ s[n + 1].op = "stopcmd"
      /\ \A j \in 1 .. n : s[j].op = "delctx"
  BY StopList
<1> HIDE DEF s, n
<1>4. \A j \in 1 .. Len(s) : s[j].op # "add"
  BY <1>2, <1>3, ListIndexes
<1>5. Rest' = s
  BY <1>1, <1>3, <1>4, UserMore DEF Rest
<1> QED
  BY <1>2, <1>3, <1>5 DEF End

LEMMA StartRest ==
  ASSUME Typed, StartReturn, th["user"].ok
  PROVE  Rest' # <<>> /\ End(Rest') = "started"
<1> DEFINE s == Append(BufferedKeys, Call("started", NoMac))
<1>1. /\ th["user"].todo # <<>> /\ Cur("user").op = "start" /\ Advance("user", s) /\ notes' = notes /\ SameLoad
      /\ ap \in Points /\ Len(ap.buf) \in Nat
  BY DEF StartReturn, Now, Cur, SameLoad, Typed, Types, WorldTypes, DriverTypes, Points
<1>2. /\ s \in Seq(CallSet) /\ ScriptUser(s) /\ Len(s) = Len(ap.buf) + 1 /\ s[Len(ap.buf) + 1].op = "started"
      /\ \A j \in 1 .. Len(ap.buf) : s[j].op = "bufkey"
  BY <1>1, StartList
<1> HIDE DEF s
<1>3. \A j \in 1 .. Len(s) : s[j].op # "add"
  BY <1>1, <1>2, ListIndexes
<1>4. Rest' = s
  BY <1>1, <1>2, <1>3, UserMore DEF Rest
<1> QED
  BY <1>1, <1>2, <1>4 DEF End

LEMMA PointRest ==
  ASSUME Typed, Typed', PointCall
  PROVE  /\ ~AddNext("user") /\ ~AddNext("user")' /\ \A m : ~DelAhead(m) /\ ~DelAhead(m)'
         /\ StopBegin => Stopping'
<1>1. Rest # <<>> /\ Cur("user").op \in {"key", "delkey", "start", "bufkey", "started", "stop"}
  BY PointCases
<1>2. ~AddNext("user") /\ \A m : ~DelAhead(m)
  <2>1. CASE Cur("user").op = "bufkey"
    BY <1>1, <2>1, UserAhead, LastCall, ListAhead DEF End
  <2>2. CASE Cur("user").op # "bufkey"
    BY <1>1, <2>2, UserAhead
  <2> QED
    BY <2>1, <2>2
<1>3. StopBegin => Stopping'
  BY StopRest DEF Stopping, End
<1>4. CASE Rest' = Rest
  BY <1>2, <1>3, <1>4, UserSame
<1>5. CASE Rest' = Tail(Rest)
  BY <1>1, <1>2, <1>3, <1>5, UserTail
<1>6. CASE Rest' # <<>> /\ End(Rest') \in {"stopcmd", "started"}
  <2>1. Rest' \in Seq(CallSet) /\ ScriptUser(Rest')
    BY DEF Rest, Typed, Types, ThreadTypes, Progress, Scripts, Texts, Threads
  <2>2. (\A m : ~AheadIn(Rest', m)) /\ Rest'[1].op # "add"
    BY <1>6, <2>1, ListAhead DEF End
  <2>3. AddNext("user")' => Rest'[1].op = "add"
    BY <2>1 DEF AddNext, Cur, Rest
  <2>4. \A m : DelAhead(m)' <=> AheadIn(Rest', m)
    BY DEF DelAhead, AheadIn
  <2> QED
    BY <1>2, <1>3, <2>2, <2>3, <2>4
<1>7. Rest' = Rest \/ Rest' = Tail(Rest) \/ (Rest' # <<>> /\ End(Rest') \in {"stopcmd", "started"})
  <2>1. \A ok : Send("user", 0, ok) => Rest' = Rest
    BY DEF Send, Rest, Typed, Types, ThreadTypes, Threads, Progress
  <2>2. Advance("user", <<>>) => Rest' = Tail(Rest)
    <3>1. Tail(Rest) \in Seq(CallSet)
      BY <1>1, UserAhead
    <3>2. <<>> \o Tail(Rest) = Tail(Rest)
      BY <3>1
    <3> QED
      BY <3>2 DEF Advance, Rest, Typed, Types, ThreadTypes, Threads, Progress, Idle
  <2>3. CASE StopBegin
    BY <2>3, StopRest
  <2>4. CASE StartReturn
    BY <2>2, <2>4, StartRest DEF StartReturn
  <2>5. CASE \E ok \in BOOLEAN : KeyBegin(ok) \/ DelKeyBegin(ok) \/ StartBegin(ok) \/ BufKey(ok)
    BY <2>1, <2>2, <2>5 DEF KeyBegin, DelKeyBegin, StartBegin, BufKey, Skip
  <2>6. CASE KeyReturn \/ DelKeyReturn \/ Started
    BY <2>2, <2>6 DEF KeyReturn, DelKeyReturn, Started
  <2> QED
    BY <2>3, <2>4, <2>5, <2>6 DEF PointCall
<1> QED
  BY <1>2, <1>3, <1>4, <1>5, <1>6, <1>7

LEMMA HostedPoint ==
  ASSUME Typed, Typed', Hosted, PointCall
  PROVE  Hosted'
<1>1. UNCHANGED <<ctx, hs, notes>>
  BY PointCases
<1>2. \A m : Noted("deauth", m)' <=> Noted("deauth", m)
  BY <1>1 DEF Noted
<1> QED
  BY <1>1, <1>2, PointRest, HostedSame

\* At the end of a stop hostapd has no stations, and the driver none unless some were left.
LEMMA HostedStopReturn ==
  ASSUME Typed, StopReturn, ~Spoilt'
  PROVE  Hosted' /\ Bound = {} /\ (\A m \in Macs : ~client[m].in) /\ Rest' = <<>> /\ UNCHANGED <<ctx, client>>
<1>1. /\ Rest # <<>> /\ Cur("user").op = "stopcmd" /\ Advance("user", <<>>) /\ ctx' = ctx /\ client' = client
      /\ hs' = [m \in Macs |-> "none"]
      /\ odd' = odd \cup Mark(~th["user"].ok, "unstopped")
                    \cup Mark(Bound # {} \/ \E m \in Macs : client[m].in, "left")
  BY DEF StopReturn, Now, Cur, Rest
<1>2. Bound = {} /\ \A m \in Macs : ~client[m].in
  BY <1>1 DEF Spoilt, Mark
<1>3. Rest' = <<>>
  BY <1>1, CallEnds
<1>4. ~AddNext("user")' /\ \A m : ~DelAhead(m)'
  BY <1>3, UserIdle, NoAhead DEF AddNext, Rest, DelAhead, AheadIn
<1>5. \A i \in Idx, m \in Macs : ctx'[i].mac # m
  BY <1>1, <1>2, ApAssumption DEF Bound
<1> QED
  BY <1>1, <1>2, <1>3, <1>4, <1>5 DEF Hosted

LEMMA RequestCases ==
  ASSUME Typed, Request
  PROVE  /\ Rest = <<>> /\ UNCHANGED <<ctx, fw, client, notes>> /\ th'["evw"] = th["evw"] /\ th'["user"].at = 0
         /\ ~AddNext("user")' /\ ~Stopping'
         /\ \/ hs' = hs /\ \A m : ~DelAhead(m)'
            \/ \E n \in Macs : hs' = [hs EXCEPT ![n] = "none"] /\ \A m : DelAhead(m)' <=> m = n
<1> DEFINE o == Head(left.ops)
           s == Calls(o)
<1>1. /\ th["user"].todo = <<>> /\ UNCHANGED <<ctx, fw, client, notes>>
      /\ th' = [th EXCEPT !["user"] = [Idle EXCEPT !.todo = s]]
      /\ hs' = IF o.op = "kick" THEN [hs EXCEPT ![o.m] = "none"] ELSE hs
  BY DEF Request
<1>2. o \in Requests
  BY RestOfOps DEF Request, Typed, Types, WorldTypes
<1>3. /\ s \in Seq(CallSet) /\ s # <<>> /\ ScriptUser(s)
      /\ o.op = "kick" => Len(s) = 2 /\ s[1].op = "tx" /\ s[1].m = o.m /\ s[2].op = "del" /\ o.m \in Macs
      /\ o.op # "kick" => Len(s) = 1 /\ s[1].op = o.op /\ o.op \in {"key", "delkey", "start", "stop"}
  BY <1>2, CallsTyped
<1> HIDE DEF o, s
<1>4. Rest' = s /\ th'["user"].at = 0 /\ th'["evw"] = th["evw"]
  BY <1>1, NewCall DEF Threads, Rest
<1>5. ~AddNext("user")' /\ ~Stopping' /\ \A m : DelAhead(m)' <=> AheadIn(s, m)
  <2>1. AddNext("user")' => s[1].op = "add"
    BY <1>3, <1>4 DEF AddNext, Cur, Rest
  <2>2. Stopping' => s[Len(s)].op = "stopcmd"
    BY <1>4 DEF Stopping, End
  <2>3. \A m : DelAhead(m)' <=> AheadIn(s, m)
    BY <1>4 DEF DelAhead, AheadIn
  <2> QED
    BY <1>3, <2>1, <2>2, <2>3
<1>6. CASE o.op = "kick"
  <2>1. \A m : AheadIn(s, m) <=> m = o.m
    BY <1>3, <1>6, ListAhead
  <2> QED
    BY <1>1, <1>3, <1>4, <1>5, <1>6, <2>1 DEF Rest
<1>7. CASE o.op # "kick"
  <2>1. \A m : ~AheadIn(s, m)
    BY <1>3, <1>7, ListAhead
  <2> QED
    BY <1>1, <1>4, <1>5, <1>7, <2>1 DEF Rest
<1> QED
  BY <1>6, <1>7

LEMMA HostedRequest ==
  ASSUME Typed, Hosted, Request
  PROVE  Hosted'
<1>1. Rest = <<>> /\ UNCHANGED <<ctx, notes>> /\ ~AddNext("user")' /\ hs \in [Macs -> {"none", "auth", "assoc"}]
  BY RequestCases DEF Typed, Types, WorldTypes
<1>2. \A m : ~DelAhead(m)
  BY <1>1, UserIdle
<1>3. \A m : (Noted("deauth", m)' <=> Noted("deauth", m)) /\ CtxOf(m)' = CtxOf(m)
  BY <1>1 DEF Noted, CtxOf
<1>4. CASE hs' = hs /\ \A m : ~DelAhead(m)'
  BY <1>1, <1>2, <1>3, <1>4, HostedSame
<1>5. ASSUME NEW n \in Macs, hs' = [hs EXCEPT ![n] = "none"], \A m : DelAhead(m)' <=> m = n PROVE Hosted'
  <2>1. \A m \in Macs : hs'[m] = IF m = n THEN "none" ELSE hs[m]
    BY <1>1, <1>5
  <2>2. (\A m \in Macs : hs[m] # "none" => CtxOf(m) # {})'
    BY <1>3, <2>1 DEF Hosted
  <2>3. (\A m \in Macs : DelAhead(m) => hs[m] = "none")'
    BY <1>5, <2>1
  <2>4. (\A i \in Idx, m \in Macs : ctx[i].mac = m =>
         /\ hs[m] # "none" \/ DelAhead(m)
         /\ hs[m] # "none" => ~ctx[i].deauthed \/ Noted("deauth", m)
         /\ hs[m] = "assoc" => ctx[i].active \/ Noted("deauth", m))'
    BY <1>1, <1>2, <1>3, <1>5, <2>1 DEF Hosted
  <2> QED
    BY <1>1, <2>2, <2>3, <2>4 DEF Hosted
<1> QED
  BY <1>4, <1>5, RequestCases

\* A notification that is taken is the only one that goes.
LEMMA NoteGone ==
  ASSUME Typed, notes # <<>>, notes' = Tail(notes), SameLoad
  PROVE  \A k, m : /\ Noted(k, m) => Noted(k, m)' \/ Head(notes) = [k |-> k, m |-> m]
                   /\ Noted(k, m)' => Noted(k, m)
                   /\ Head(notes) = [k |-> k, m |-> m] => Noted(k, m)
<1>1. /\ Head(notes) = notes[1] /\ Len(notes) \in Nat \ {0} /\ Len(notes') = Len(notes) - 1
      /\ \A j \in 1 .. Len(notes') : j + 1 \in 1 .. Len(notes) /\ notes'[j] = notes[j + 1]
  BY NoteTaken
<1>2. \A j \in 1 .. Len(notes) : j = 1 \/ (j - 1 \in 1 .. Len(notes') /\ notes'[j - 1] = notes[j])
  <2> SUFFICES ASSUME NEW j \in 1 .. Len(notes), j # 1 PROVE j - 1 \in 1 .. Len(notes') /\ notes'[j - 1] = notes[j]
    OBVIOUS
  <2>1. j - 1 \in 1 .. Len(notes') /\ (j - 1) + 1 = j
    BY <1>1
  <2> QED
    BY <1>1, <2>1
<1>3. 1 \in 1 .. Len(notes)
  BY <1>1
<1> QED
  BY <1>1, <1>2, <1>3 DEF Noted

LEMMA NotifiedCases ==
  ASSUME Typed, Notified
  PROVE  LET n == Head(notes) IN
         /\ Rest = <<>> /\ notes # <<>> /\ notes' = Tail(notes) /\ SameLoad /\ UNCHANGED <<fw, client>>
         /\ th'["evw"] = th["evw"] /\ th'["user"].at = 0 /\ ~Stopping' /\ n = [k |-> n.k, m |-> n.m]
         /\ n.m \in Macs /\ n.k \in IF left.ext THEN {"auth", "assoc", "deauth"} ELSE {"deauth", "new"}
         /\ odd' = odd \cup Mark(n.k = "new" /\ ~\E i \in CtxOf(n.m) : ctx[i].active, "stale")
         /\ \/ /\ n.k = "auth" /\ hs[n.m] = "none" /\ ctx' = ctx /\ hs' = hs /\ Rest' # <<>>
               /\ Cur("user")'.op = "add" /\ Cur("user")'.m = n.m /\ \A m : ~DelAhead(m)'
            \/ /\ n.k = "deauth" /\ ctx' = ctx /\ hs' = [hs EXCEPT ![n.m] = "none"]
               /\ ~AddNext("user")' /\ \A m : DelAhead(m)' <=> m = n.m
            \/ /\ n.k = "assoc" /\ hs[n.m] = "auth" /\ ctx' = Associated(n.m) /\ hs' = [hs EXCEPT ![n.m] = "assoc"]
               /\ ~AddNext("user")' /\ \A m : ~DelAhead(m)'
            \/ /\ n.k = "new" /\ ctx' = ctx /\ hs' = [hs EXCEPT ![n.m] = "assoc"]
               /\ ~AddNext("user")' /\ \A m : ~DelAhead(m)'
            \/ /\ ctx' = ctx /\ hs' = hs /\ (n.k = "deauth" => hs[n.m] = "none")
               /\ ~AddNext("user")' /\ \A m : ~DelAhead(m)'
<1> DEFINE n == Head(notes)
           add == n.k = "auth" /\ hs[n.m] = "none" /\ ap.started
           del == n.k = "deauth" /\ hs[n.m] # "none"
           assoc == n.k = "assoc" /\ hs[n.m] = "auth"
           s == IF add THEN <<Call("add", n.m)>> ELSE IF del THEN <<Call("del", n.m)>> ELSE <<>>
<1>1. /\ th["user"].todo = <<>> /\ notes # <<>> /\ notes' = Tail(notes) /\ UNCHANGED <<fw, client, left>>
      /\ th' = [th EXCEPT !["user"] = [Idle EXCEPT !.todo = s]]
      /\ ctx' = IF assoc THEN Associated(n.m) ELSE ctx
      /\ hs' = CASE assoc \/ (n.k = "new" /\ ap.started) -> [hs EXCEPT ![n.m] = "assoc"]
                 [] del -> [hs EXCEPT ![n.m] = "none"]
                 [] OTHER -> hs
      /\ odd' = odd \cup Mark(n.k = "new" /\ ~\E i \in CtxOf(n.m) : ctx[i].active, "stale")
  BY DEF Notified
<1>2. SameLoad
  BY <1>1 DEF SameLoad, Typed, Types, WorldTypes
<1>3. n \in Notices /\ n.k \in IF left.ext THEN {"auth", "assoc", "deauth"} ELSE {"deauth", "new"}
  BY <1>1, <1>2, NoteTaken
<1>4. n.m \in Macs /\ n = [k |-> n.k, m |-> n.m]
  BY <1>3 DEF Notices
<1> HIDE DEF n
<1>5. Rest' = s /\ th'["user"].at = 0 /\ th'["evw"] = th["evw"] /\ Rest = <<>>
  BY <1>1, NewCall DEF Threads, Rest
<1>6. ASSUME NEW op \in {"add", "del"}, s = <<Call(op, n.m)>>
      PROVE  /\ Rest' # <<>> /\ ~Stopping' /\ Cur("user")'.op = op /\ Cur("user")'.m = n.m
             /\ (AddNext("user")' => op = "add")
             /\ \A m : DelAhead(m)' <=> op = "del" /\ m = n.m
  <2> DEFINE c == Call(op, n.m)
  <2>1. c \in CallSet /\ c.op = op /\ c.m = n.m
    BY <1>4, CallTyped DEF Users
  <2> HIDE DEF c
  <2>2. Rest' = <<c>>
    BY <1>5, <1>6 DEF c
  <2>3. Cur("user")' = c /\ Rest' # <<>>
    BY <2>2 DEF Cur, Rest
  <2>4. ~Stopping'
    BY <2>1, <2>2 DEF Stopping, End
  <2>5. \A m : DelAhead(m)' <=> op = "del" /\ m = n.m
    BY <2>1, <2>2 DEF DelAhead
  <2> QED
    BY <2>1, <2>3, <2>4, <2>5 DEF AddNext
<1>7. s = <<>> => ~AddNext("user")' /\ ~Stopping' /\ \A m : ~DelAhead(m)'
  BY <1>5, NoAhead DEF AddNext, Stopping, DelAhead, AheadIn, Rest
<1>8. CASE add
  BY <1>1, <1>2, <1>3, <1>4, <1>5, <1>6, <1>8 DEF n
<1>9. CASE del
  BY <1>1, <1>2, <1>3, <1>4, <1>5, <1>6, <1>9 DEF n
<1>10. CASE ~add /\ ~del
  <2>1. s = <<>>
    BY <1>10
  <2> HIDE DEF s
  <2>2. CASE assoc
    BY <1>1, <1>2, <1>3, <1>4, <1>5, <1>7, <2>1, <2>2 DEF n
  <2>3. CASE n.k = "new" /\ ap.started
    BY <1>1, <1>2, <1>3, <1>4, <1>5, <1>7, <2>1, <2>3 DEF n
  <2>4. CASE ~assoc /\ ~(n.k = "new" /\ ap.started)
    BY <1>1, <1>2, <1>3, <1>4, <1>5, <1>7, <1>10, <2>1, <2>4 DEF n
  <2> QED
    BY <2>2, <2>3, <2>4
<1> QED
  BY <1>8, <1>9, <1>10


LEMMA HostedNotified ==
  ASSUME Typed, left.ext, Hosted, Notified
  PROVE  Hosted'
<1> DEFINE n == Head(notes)
<1>1. /\ Rest = <<>> /\ notes # <<>> /\ notes' = Tail(notes) /\ SameLoad /\ n = [k |-> n.k, m |-> n.m]
      /\ n.m \in Macs /\ n.k \in {"auth", "assoc", "deauth"} /\ hs \in [Macs -> {"none", "auth", "assoc"}]
  BY NotifiedCases DEF Typed, Types, WorldTypes
<1>2. \/ /\ n.k = "auth" /\ hs[n.m] = "none" /\ ctx' = ctx /\ hs' = hs /\ Rest' # <<>>
         /\ Cur("user")'.op = "add" /\ Cur("user")'.m = n.m /\ \A m : ~DelAhead(m)'
      \/ /\ n.k = "deauth" /\ ctx' = ctx /\ hs' = [hs EXCEPT ![n.m] = "none"]
         /\ ~AddNext("user")' /\ \A m : DelAhead(m)' <=> m = n.m
      \/ /\ n.k = "assoc" /\ hs[n.m] = "auth" /\ ctx' = Associated(n.m) /\ hs' = [hs EXCEPT ![n.m] = "assoc"]
         /\ ~AddNext("user")' /\ \A m : ~DelAhead(m)'
      \/ /\ ctx' = ctx /\ hs' = hs /\ (n.k = "deauth" => hs[n.m] = "none")
         /\ ~AddNext("user")' /\ \A m : ~DelAhead(m)'
  BY <1>1, NotifiedCases
<1>3. \A m : Noted("deauth", m) => Noted("deauth", m)' \/ (n.k = "deauth" /\ n.m = m)
  <2>1. \A m : Noted("deauth", m) => Noted("deauth", m)' \/ n = [k |-> "deauth", m |-> m]
    BY <1>1, NoteGone
  <2>2. \A m : n = [k |-> "deauth", m |-> m] => n.k = "deauth" /\ n.m = m
    OBVIOUS
  <2> QED
    BY <2>1, <2>2
<1> HIDE DEF n
<1>4. \A m : ~DelAhead(m)
  BY <1>1, UserIdle
<1>5. CASE /\ n.k = "auth" /\ hs[n.m] = "none" /\ ctx' = ctx /\ hs' = hs /\ Rest' # <<>>
           /\ Cur("user")'.op = "add" /\ Cur("user")'.m = n.m /\ \A m : ~DelAhead(m)'
  <2>1. \A i \in Idx : ctx[i].mac # n.m
    BY <1>1, <1>4, <1>5 DEF Hosted
  <2>2. (\A m \in Macs : hs[m] # "none" => CtxOf(m) # {})'
    BY <1>5 DEF Hosted, CtxOf
  <2>3. (\A i \in Idx, m \in Macs : ctx[i].mac = m =>
         /\ hs[m] # "none" \/ DelAhead(m)
         /\ hs[m] # "none" => ~ctx[i].deauthed \/ Noted("deauth", m)
         /\ hs[m] = "assoc" => ctx[i].active \/ Noted("deauth", m))'
    BY <1>3, <1>4, <1>5 DEF Hosted
  <2>4. (AddNext("user") => hs[Cur("user").m] = "none" /\ CtxOf(Cur("user").m) = {})'
    BY <1>5, <2>1 DEF CtxOf
  <2> QED
    BY <1>5, <2>2, <2>3, <2>4 DEF Hosted
<1>6. CASE /\ n.k = "deauth" /\ ctx' = ctx /\ hs' = [hs EXCEPT ![n.m] = "none"]
           /\ ~AddNext("user")' /\ \A m : DelAhead(m)' <=> m = n.m
  <2>1. \A m \in Macs : hs'[m] = IF m = n.m THEN "none" ELSE hs[m]
    BY <1>1, <1>6
  <2>2. (\A m \in Macs : hs[m] # "none" => CtxOf(m) # {})'
    BY <1>6, <2>1 DEF Hosted, CtxOf
  <2>3. (\A i \in Idx, m \in Macs : ctx[i].mac = m =>
         /\ hs[m] # "none" \/ DelAhead(m)
         /\ hs[m] # "none" => ~ctx[i].deauthed \/ Noted("deauth", m)
         /\ hs[m] = "assoc" => ctx[i].active \/ Noted("deauth", m))'
    BY <1>3, <1>4, <1>6, <2>1 DEF Hosted
  <2> QED
    BY <1>6, <2>1, <2>2, <2>3 DEF Hosted
<1>7. CASE /\ n.k = "assoc" /\ hs[n.m] = "auth" /\ ctx' = Associated(n.m) /\ hs' = [hs EXCEPT ![n.m] = "assoc"]
           /\ ~AddNext("user")' /\ \A m : ~DelAhead(m)'
  <2>1. \A m \in Macs : hs'[m] = IF m = n.m THEN "assoc" ELSE hs[m]
    BY <1>1, <1>7
  <2>2. \A i \in Idx : /\ ctx'[i].mac = ctx[i].mac /\ ctx'[i].deauthed = ctx[i].deauthed
                       /\ ctx[i].active => ctx'[i].active
                       /\ ctx[i].mac = n.m => ctx'[i].active = (ctx[i].active \/ ~ctx[i].deauthed)
    BY <1>7, AssociatedTyped DEF Typed, Types, DriverTypes
  <2>3. (\A m \in Macs : hs[m] # "none" => CtxOf(m) # {})'
    BY <1>7, <2>1, <2>2 DEF Hosted, CtxOf
  <2>4. (\A i \in Idx, m \in Macs : ctx[i].mac = m =>
         /\ hs[m] # "none" \/ DelAhead(m)
         /\ hs[m] # "none" => ~ctx[i].deauthed \/ Noted("deauth", m)
         /\ hs[m] = "assoc" => ctx[i].active \/ Noted("deauth", m))'
    <3> SUFFICES ASSUME NEW i \in Idx, NEW m \in Macs, ctx'[i].mac = m
                 PROVE  /\ hs'[m] # "none"
                        /\ ~ctx'[i].deauthed \/ Noted("deauth", m)'
                        /\ hs'[m] = "assoc" => ctx'[i].active \/ Noted("deauth", m)'
      OBVIOUS
    <3>1. /\ ctx[i].mac = m /\ hs[m] # "none" /\ (~ctx[i].deauthed \/ Noted("deauth", m))
          /\ hs[m] = "assoc" => ctx[i].active \/ Noted("deauth", m)
      BY <1>4, <2>2 DEF Hosted
    <3>2. Noted("deauth", m) => Noted("deauth", m)'
      BY <1>3, <1>7
    <3>3. CASE m = n.m
      BY <2>1, <2>2, <3>1, <3>2, <3>3
    <3>4. CASE m # n.m
      BY <2>1, <2>2, <3>1, <3>2, <3>4
    <3> QED
      BY <3>3, <3>4
  <2> QED
    BY <1>7, <2>3, <2>4 DEF Hosted
<1>8. CASE /\ ctx' = ctx /\ hs' = hs /\ (n.k = "deauth" => hs[n.m] = "none")
           /\ ~AddNext("user")' /\ \A m : ~DelAhead(m)'
  <2>1. (\A m \in Macs : hs[m] # "none" => CtxOf(m) # {})'
    BY <1>8 DEF Hosted, CtxOf
  <2>2. (\A i \in Idx, m \in Macs : ctx[i].mac = m =>
         /\ hs[m] # "none" \/ DelAhead(m)
         /\ hs[m] # "none" => ~ctx[i].deauthed \/ Noted("deauth", m)
         /\ hs[m] = "assoc" => ctx[i].active \/ Noted("deauth", m))'
    BY <1>3, <1>4, <1>8 DEF Hosted
  <2> QED
    BY <1>8, <2>1, <2>2 DEF Hosted
<1> QED
  BY <1>2, <1>5, <1>6, <1>7, <1>8

\* What is queued stays queued.
LEMMA NotesGrow ==
  ASSUME Typed, NEW x \in Seq(Notices), notes' = notes \o x
  PROVE  \A k, m : Noted(k, m)' <=> Noted(k, m) \/ \E j \in 1 .. Len(x) : x[j] = [k |-> k, m |-> m]
<1>1. /\ Len(notes) \in Nat /\ Len(x) \in Nat /\ Len(notes') = Len(notes) + Len(x)
      /\ \A j \in 1 .. Len(notes) : notes'[j] = notes[j]
      /\ \A j \in 1 .. Len(x) : notes'[Len(notes) + j] = x[j]
      /\ \A j \in 1 .. Len(notes') : (j \in 1 .. Len(notes) /\ notes'[j] = notes[j])
                                     \/ (j - Len(notes) \in 1 .. Len(x) /\ notes'[j] = x[j - Len(notes)])
  BY JoinIndexes DEF Typed, Types, WorldTypes
<1>2. \A j \in 1 .. Len(notes) : j \in 1 .. Len(notes')
  BY <1>1
<1>3. \A j \in 1 .. Len(x) : Len(notes) + j \in 1 .. Len(notes')
  BY <1>1
<1>4. ASSUME NEW k, NEW m, Noted(k, m) PROVE Noted(k, m)'
  BY <1>1, <1>2, <1>4 DEF Noted
<1>5. ASSUME NEW k, NEW m, NEW j \in 1 .. Len(x), x[j] = [k |-> k, m |-> m] PROVE Noted(k, m)'
  <2>1. Len(notes) + j \in 1 .. Len(notes') /\ notes'[Len(notes) + j] = x[j]
    BY <1>1, <1>3
  <2> QED
    BY <1>5, <2>1 DEF Noted
<1>6. ASSUME NEW k, NEW m, Noted(k, m)' PROVE Noted(k, m) \/ \E j \in 1 .. Len(x) : x[j] = [k |-> k, m |-> m]
  <2>1. PICK j \in 1 .. Len(notes') : notes'[j] = [k |-> k, m |-> m]
    BY <1>6 DEF Noted
  <2> QED
    BY <1>1, <2>1 DEF Noted
<1> QED
  BY <1>4, <1>5, <1>6

LEMMA NotesTold ==
  ASSUME Typed, NEW k \in {"auth", "assoc", "deauth", "new"}, NEW n \in Macs, notes' = notes \o Tell(k, n)
  PROVE  \A j, m : Noted(j, m)' <=> Noted(j, m) \/ (j = k /\ m = n)
<1>1. /\ Tell(k, n) \in Seq(Notices) /\ Len(Tell(k, n)) = 1 /\ Tell(k, n)[1] = [k |-> k, m |-> n]
  BY TellTyped
<1>2. \A j, m : [k |-> k, m |-> n] = [k |-> j, m |-> m] <=> j = k /\ m = n
  <2> SUFFICES ASSUME NEW j, NEW m, [k |-> k, m |-> n] = [k |-> j, m |-> m] PROVE j = k /\ m = n
    OBVIOUS
  <2>1. [k |-> k, m |-> n].k = [k |-> j, m |-> m].k /\ [k |-> k, m |-> n].m = [k |-> j, m |-> m].m
    OBVIOUS
  <2> QED
    BY <2>1
<1>3. \A j \in 1 .. 1 : j = 1
  OBVIOUS
<1> DEFINE x == Tell(k, n)
<1>4. \A j, m : (\E l \in 1 .. Len(x) : x[l] = [k |-> j, m |-> m]) <=> j = k /\ m = n
  BY <1>1, <1>2, <1>3
<1>5. x \in Seq(Notices) /\ notes' = notes \o x
  BY <1>1
<1> HIDE DEF x
<1>6. \A j, m : Noted(j, m)' <=> Noted(j, m) \/ \E l \in 1 .. Len(x) : x[l] = [k |-> j, m |-> m]
  BY <1>5, NotesGrow
<1> QED
  BY <1>4, <1>6

\* An event marks a peer only with a word of it to hostapd.
LEMMA EventMarks ==
  ASSUME Typed, Outside, left.ext, EventTook
  PROVE  /\ \A m : Noted("deauth", m) => Noted("deauth", m)'
         /\ \A i \in Idx, m \in Macs : ctx[i].mac = m /\ ctx'[i].deauthed => ctx[i].deauthed \/ Noted("deauth", m)'
<1>0. ctx \in [Idx -> Peers]
  BY DEF Typed, Types, DriverTypes
<1>1. ASSUME ctx' = ctx, notes' = notes
      PROVE  /\ \A m : Noted("deauth", m) => Noted("deauth", m)'
             /\ \A i \in Idx, m \in Macs : ctx[i].mac = m /\ ctx'[i].deauthed => ctx[i].deauthed \/ Noted("deauth", m)'
  BY <1>1 DEF Noted
<1>2. CASE Refused \/ LateEvent
  BY <1>1, <1>2 DEF Refused, LateEvent
<1>3. CASE AuthUp
  <2> DEFINE a == IF Again(Ev.m) # {} THEN Tell("deauth", Ev.m) ELSE <<>>
             b == Tell("auth", Ev.m)
  <2>1. ctx' = Marked(Again(Ev.m)) /\ notes' = notes \o a \o b /\ Ev.m \in Macs
    BY <1>3, MarkedAre, EventTaken DEF AuthUp, Frames
  <2>2. a \in Seq(Notices) /\ b \in Seq(Notices)
    <3>1. Tell("deauth", Ev.m) \in Seq(Notices) /\ b \in Seq(Notices)
      BY <2>1, TellTyped
    <3>2. <<>> \in Seq(Notices)
      OBVIOUS
    <3> QED
      BY <3>1, <3>2
  <2>3. notes' = notes \o (a \o b) /\ a \o b \in Seq(Notices)
    <3>1. notes \in Seq(Notices)
      BY DEF Typed, Types, WorldTypes
    <3> HIDE DEF a, b
    <3>2. notes \o a \o b = notes \o (a \o b) /\ a \o b \in Seq(Notices)
      BY <2>2, <3>1
    <3> QED
      BY <2>1, <3>2
  <2>4. \A m : Noted("deauth", m) => Noted("deauth", m)'
    <3> HIDE DEF a, b
    <3> QED
      BY <2>3, NotesGrow
  <2>5. ASSUME NEW m, m = Ev.m, Again(Ev.m) # {} PROVE Noted("deauth", m)'
    <3>1. Len(a) = 1 /\ a[1] = [k |-> "deauth", m |-> m]
      BY <2>1, <2>5, TellTyped
    <3> HIDE DEF a, b
    <3>2. 1 \in 1 .. Len(a) /\ Len(b) \in Nat /\ Len(a \o b) = Len(a) + Len(b) /\ (a \o b)[1] = a[1]
      BY <2>2, <3>1, JoinIndexes
    <3>3. 1 \in 1 .. Len(a \o b)
      BY <3>1, <3>2
    <3>4. \E j \in 1 .. Len(a \o b) : (a \o b)[j] = [k |-> "deauth", m |-> m]
      BY <3>1, <3>2, <3>3
    <3> DEFINE x == a \o b
    <3> HIDE DEF x
    <3>5. x \in Seq(Notices) /\ notes' = notes \o x /\ \E j \in 1 .. Len(x) : x[j] = [k |-> "deauth", m |-> m]
      BY <2>3, <3>4 DEF x
    <3>6. Noted("deauth", m)' <=> Noted("deauth", m) \/ \E j \in 1 .. Len(x) : x[j] = [k |-> "deauth", m |-> m]
      BY <3>5, NotesGrow
    <3> QED
      BY <3>5, <3>6
  <2>6. \A i \in Idx : i \notin Again(Ev.m) => ctx'[i] = ctx[i]
    BY <1>0, <2>1, MarkedTyped
  <2>7. \A i \in Again(Ev.m) : ctx[i].mac = Ev.m
    BY DEF Again, CtxOf
  <2> QED
    BY <2>4, <2>5, <2>6, <2>7
<1>4. CASE Auth
  BY <1>4 DEF Auth
<1>5. CASE Assoc
  <2>1. ctx' = ctx /\ (notes' = notes \/ notes' = notes \o Tell("assoc", Ev.m)) /\ Ev.m \in Macs
    <3>1. Takes("assoc") /\ ctx' = ctx /\ (notes' = notes \/ notes' = notes \o Tell("assoc", Ev.m))
      BY <1>5, AssocCases
    <3> QED
      BY <3>1, EventTaken DEF Frames
  <2>2. \A m : Noted("deauth", m) => Noted("deauth", m)'
    BY <1>1, <2>1, NotesTold
  <2> QED
    BY <2>1, <2>2
<1>6. CASE Deauth
  <2>1. /\ ctx' = ctx \/ ctx' = Marked(CtxOf(Ev.m))
        /\ notes' = notes \o Tell("deauth", Ev.m) \/ (notes' = notes /\ ctx' = ctx)
    BY <1>6, DeauthCases, EventTaken DEF Frames
  <2>2. CASE notes' = notes \o Tell("deauth", Ev.m)
    <3>1. Ev.m \in Macs
      BY <1>6, DeauthCases, EventTaken DEF Frames
    <3>2. \A m : Noted("deauth", m)' <=> Noted("deauth", m) \/ m = Ev.m
      BY <2>2, <3>1, NotesTold
    <3>3. \A i \in Idx : i \notin CtxOf(Ev.m) => ctx'[i] = ctx[i]
      BY <1>0, <2>1, MarkedTyped
    <3>4. \A i \in CtxOf(Ev.m) : ctx[i].mac = Ev.m
      BY DEF CtxOf
    <3> QED
      BY <3>2, <3>3, <3>4
  <2> QED
    BY <1>1, <2>1, <2>2
<1>7. CASE TxStatus
  <2>1. Ev.m \in Macs
    BY <1>7, StatusCases, EventTaken
  <2>2. ~client[Ev.m].in
    BY <2>1 DEF Outside, NoClient
  <2> QED
    BY <1>1, <1>7, <2>2, StatusCases
<1> QED
  BY <1>2, <1>3, <1>4, <1>5, <1>6, <1>7 DEF EventTook

LEMMA HostedEvent ==
  ASSUME Typed, Outside, left.ext, Hosted, EventTook
  PROVE  Hosted'
<1>1. hs' = hs /\ \A i \in Idx : ctx'[i].mac = ctx[i].mac /\ (ctx[i].active => ctx'[i].active)
  BY EventMacs
<1>2. Rest' = Rest
  BY OthersWait DEF EventStep, EventTook
<1>3. \A m \in Macs : DelAhead(m)' => hs[m] = "none"
  BY <1>2, UserSame DEF Hosted
<1>4. AddNext("user")' => AddNext("user") /\ Cur("user")' = Cur("user")
  BY <1>2, UserSame DEF AddNext, Rest
<1> QED
  BY <1>1, <1>2, <1>3, <1>4, EventMarks, UserSame, HostedSame

\* The rest of the event work, the timer, the air and what hostapd does not do.
LEMMA HostedOther ==
  ASSUME Typed, left.ext, Hosted,
         (\E ok \in BOOLEAN : Refuse(ok)) \/ TimerStep \/ FwStatus \/ Air \/ Forgo \/ UNCHANGED vars
  PROVE  Hosted'
<1>1. UNCHANGED <<ctx, hs, notes>>
  BY DEF Refuse, TimerStep, AuthTimeout, FwStatus, Status, Air, Frame, Forgo, vars
<1>2. Rest' = Rest
  BY OthersWait DEF EventStep
<1>3. \A m \in Macs : DelAhead(m)' => hs[m] = "none"
  BY <1>2, UserSame DEF Hosted
<1>4. AddNext("user")' => AddNext("user") /\ Cur("user")' = Cur("user")
  BY <1>2, UserSame DEF AddNext, Rest
<1>5. \A m : Noted("deauth", m)' <=> Noted("deauth", m)
  BY <1>1 DEF Noted
<1> QED
  BY <1>1, <1>2, <1>3, <1>4, <1>5, UserSame, HostedSame

LEMMA OuterKept ==
  ASSUME Typed, Typed', Outside, left.ext, Tables, Outer, [Next]_vars, ~Spoilt'
  PROVE  Outer'
<1>1. CASE StopReturn
  BY <1>1, HostedStopReturn DEF Outer
<1>2. CASE Stopping /\ ~StopReturn
  BY <1>2, StopKept DEF Outer
<1>3. ASSUME Hosted, ~Stopping, ~StopReturn PROVE Hosted'
  <2>1. CASE Step("user")
    <3>1. CASE \E ok \in BOOLEAN : DelBegin("user", ok)
      BY <1>3, <3>1, HostedDelBegin
    <3>2. CASE \E ok \in BOOLEAN : AddBegin("user", ok)
      BY <1>3, <3>2, HostedAddBegin
    <3>3. CASE DelReturn("user")
      BY <1>3, <3>3, HostedDelReturn
    <3>4. CASE AddReturn("user")
      BY <1>3, <3>4, HostedAddReturn
    <3>5. CASE TxReturn("user") \/ \E ok \in BOOLEAN : TxBegin("user", ok)
      BY <1>3, <3>5, HostedTx
    <3> QED
      BY <2>1, <3>1, <3>2, <3>3, <3>4, <3>5 DEF Step
  <2>2. CASE \E ok \in BOOLEAN : StopCommand(ok)
    <3>1. Rest # <<>> /\ Cur("user").op = "stopcmd"
      BY <2>2 DEF StopCommand, Now, Cur, Rest
    <3> QED
      BY <1>3, <3>1, UserAhead
  <2>3. CASE PointCall
    BY <1>3, <2>3, HostedPoint
  <2>4. CASE Notified
    BY <1>3, <2>4, HostedNotified
  <2>5. CASE Step("evw")
    BY <2>5, StationCall, Current DEF Threads
  <2>6. CASE EventTook
    BY <1>3, <2>6, HostedEvent
  <2>7. CASE Request
    BY <1>3, <2>7, HostedRequest
  <2>8. CASE (\E ok \in BOOLEAN : Refuse(ok)) \/ TimerStep \/ FwStatus \/ Air \/ Forgo \/ UNCHANGED vars
    BY <1>3, <2>8, HostedOther
  <2> QED
    BY <1>3, <2>1, <2>2, <2>3, <2>4, <2>5, <2>6, <2>7, <2>8 DEF Next, UserStep, EventStep, EventTook, PointCall
<1> QED
  BY <1>1, <1>2, <1>3 DEF Outer

\* The peer of a new station is the first thing the event work sees to.
LEMMA WorkTail ==
  ASSUME Typed, th["evw"].todo # <<>>, th'["evw"].todo = Tail(th["evw"].todo)
  PROVE  ~AddNext("evw")'
<1> DEFINE s == th["evw"].todo
<1>1. s \in Seq(CallSet) /\ s # <<>> /\ ScriptWork(s)
  BY DEF Typed, Types, ThreadTypes, Progress, Scripts, Texts, Threads
<1>2. AddNext("evw")' => Tail(s) # <<>> /\ Head(Tail(s)).op = "add"
  BY DEF AddNext, Cur
<1> HIDE DEF s
<1>3. ASSUME Tail(s) # <<>>, Head(Tail(s)).op = "add" PROVE FALSE
  <2>1. Head(Tail(s)) = s[2] /\ 2 \in 1 .. Len(s)
    BY <1>1, <1>3
  <2>2. 2 = 1
    BY <1>1, <1>3, <2>1 DEF ScriptWork
  <2> QED
    BY <2>2
<1> QED
  BY <1>2, <1>3

LEMMA InnerSame ==
  ASSUME Typed, Inner, Hopeful', \A t \in Threads : Steady(t),
         \A i \in Idx : ctx'[i].mac = ctx[i].mac /\ (ctx[i].active => ctx'[i].active),
         \A m \in Macs : client[m].in => client'[m].in,
         \A m \in Macs : hs'[m] = hs[m] \/ hs'[m] = "none",
         \A m \in Macs : Noted("new", m)' => Noted("new", m) \/ th["evw"].todo = <<>>,
         \A m \in Macs : DelAhead(m)' => hs'[m] = "none",
         \A m \in Macs : Stopping => Stopping' \/ hs'[m] = "none"
  PROVE  Inner'
<1>1. \A t \in Threads : \A i : Deleting(t, i)' <=> Deleting(t, i)
  BY SteadyStage
<1>2. \A i : Deleting("evw", i) => th["evw"].todo # <<>>
  BY DEF Deleting, At, Now
<1>3. Served'
  BY <1>1 DEF Inner, Served
<1>4. Dropped'
  <2>1. (\A i \in Idx, m \in Macs : ctx[i].mac = m =>
           /\ Deleting("user", i) => hs[m] = "none" \/ Stopping
           /\ Deleting("evw", i) => hs[m] = "none" /\ ~Noted("new", m))'
    BY <1>1, <1>2 DEF Inner, Dropped, Threads
  <2>2. (\A m \in Macs : DelAhead(m) => hs[m] = "none")'
    OBVIOUS
  <2> QED
    BY <2>1, <2>2 DEF Dropped
<1>5. Alive'
  <2> SUFFICES ASSUME NEW m \in Macs, hs'[m] # "none"
               PROVE  hs'[m] = "assoc" /\ (Stopping' \/ \E i \in Idx : ctx'[i].mac = m /\ ctx'[i].active)
    BY DEF Alive, CtxOf
  <2>1. hs[m] = "assoc" /\ hs'[m] = hs[m] /\ (Stopping \/ \E i \in Idx : ctx[i].mac = m /\ ctx[i].active)
    BY DEF Inner, Alive, CtxOf
  <2> QED
    BY <2>1
<1> QED
  BY <1>3, <1>4, <1>5 DEF Inner

LEMMA HopefulSame ==
  ASSUME Typed, Hopeful, Steady("user"), th'["evw"] = th["evw"],
         \A i \in Idx : ctx'[i].mac = ctx[i].mac,
         \A m \in Macs : client[m].in => client'[m].in
  PROVE  Hopeful'
<1>1. (AddNext("evw")' <=> AddNext("evw")) /\ Cur("evw")' = Cur("evw")
  BY DEF AddNext, Cur
<1>2. \A i : Deleting("user", i)' <=> Deleting("user", i)
  BY SteadyStage DEF Threads
<1>3. AddNext("evw") => Cur("evw").m \in Macs
  BY Current DEF AddNext, Threads
<1> QED
  BY <1>1, <1>2, <1>3 DEF Hopeful, CtxOf

LEMMA NoHope == ~AddNext("evw")' => Hopeful'
BY DEF Hopeful

\* What hostapd's thread does besides the stations.
LEMMA InnerPoint ==
  ASSUME Typed, Typed', Inner, PointCall
  PROVE  Inner'
<1>1. /\ UNCHANGED <<ctx, client, hs, notes>> /\ th["user"].todo # <<>> /\ Cur("user").op \notin DA
      /\ (\E s : Advance("user", s)) \/ (\E i, ok : Send("user", i, ok))
      /\ Cur("user").op \notin {"delctx", "stopcmd"}
  BY PointCases DEF DA, Rest
<1>2. (\A t \in Threads : Steady(t)) /\ th'["evw"] = th["evw"]
  BY <1>1, OtherCall DEF Threads
<1>3. Hopeful'
  BY <1>1, <1>2, HopefulSame DEF Inner, Threads
<1>4. ~Stopping
  BY <1>1, UserAhead DEF Stopping, Rest
<1>5. \A m : Noted("new", m)' <=> Noted("new", m)
  BY <1>1 DEF Noted
<1> QED
  BY <1>1, <1>2, <1>3, <1>4, <1>5, PointRest, InnerSame

LEMMA InnerStopCommand ==
  ASSUME Typed, Inner, NEW ok \in BOOLEAN, StopCommand(ok)
  PROVE  Inner'
<1>1. /\ UNCHANGED <<ctx, client, hs, notes>> /\ th["user"].todo # <<>> /\ Cur("user").op \notin DA
      /\ Send("user", 0, ok)
  BY DEF StopCommand, Now, Cur, DA
<1>2. (\A t \in Threads : Steady(t)) /\ th'["evw"] = th["evw"]
  BY <1>1, OtherCall DEF Threads
<1>3. Hopeful'
  BY <1>1, <1>2, HopefulSame DEF Inner, Threads
<1>4. Rest' = Rest
  BY <1>1 DEF Send, Rest, Typed, Types, ThreadTypes, Progress, Threads
<1>5. \A m : Noted("new", m)' <=> Noted("new", m)
  BY <1>1 DEF Noted
<1>6. \A m \in Macs : DelAhead(m)' => hs'[m] = "none"
  BY <1>1, <1>4, UserSame DEF Inner, Dropped
<1> QED
  BY <1>1, <1>2, <1>3, <1>4, <1>5, <1>6, UserSame, InnerSame

LEMMA InnerStopReturn ==
  ASSUME Typed, Inner, StopReturn, ~Spoilt'
  PROVE  Inner'
<1>1. /\ th["user"].todo # <<>> /\ Cur("user").op \notin DA /\ Advance("user", <<>>) /\ notes' = notes
      /\ UNCHANGED <<ctx, client>> /\ hs' = [m \in Macs |-> "none"]
  BY DEF StopReturn, Now, Cur, DA
<1>2. (\A t \in Threads : Steady(t)) /\ th'["evw"] = th["evw"]
  BY <1>1, OtherCall DEF Threads
<1>3. Hopeful'
  BY <1>1, <1>2, HopefulSame DEF Inner, Threads
<1>4. \A m : Noted("new", m)' <=> Noted("new", m)
  BY <1>1 DEF Noted
<1> QED
  BY <1>1, <1>2, <1>3, <1>4, InnerSame

LEMMA InnerRequest ==
  ASSUME Typed, Inner, Request
  PROVE  Inner'
<1>1. /\ Rest = <<>> /\ UNCHANGED <<ctx, client, notes>> /\ th'["evw"] = th["evw"] /\ th'["user"].at = 0
      /\ hs \in [Macs -> {"none", "auth", "assoc"}]
  BY RequestCases DEF Typed, Types, WorldTypes
<1>2. \A t \in Threads : Steady(t)
  BY <1>1, StageOf, StageOfNext DEF Threads, Steady, Rest
<1>3. Hopeful'
  BY <1>1, <1>2, HopefulSame DEF Inner, Threads
<1>4. \A m : Noted("new", m)' <=> Noted("new", m)
  BY <1>1 DEF Noted
<1>5. \A m \in Macs : (hs'[m] = hs[m] \/ hs'[m] = "none") /\ (DelAhead(m)' => hs'[m] = "none")
  <2>1. CASE hs' = hs /\ \A m : ~DelAhead(m)'
    BY <2>1
  <2>2. ASSUME NEW n \in Macs, hs' = [hs EXCEPT ![n] = "none"], \A m : DelAhead(m)' <=> m = n
        PROVE  \A m \in Macs : (hs'[m] = hs[m] \/ hs'[m] = "none") /\ (DelAhead(m)' => hs'[m] = "none")
    BY <1>1, <2>2
  <2> QED
    BY <2>1, <2>2, RequestCases
<1>6. ~Stopping
  BY <1>1, UserIdle
<1> QED
  BY <1>1, <1>2, <1>3, <1>4, <1>5, <1>6, InnerSame

\* A station is only announced while the driver has it, and is not being deleted.
LEMMA InnerNotified ==
  ASSUME Typed, ~left.ext, Inner, Notified, ~Spoilt'
  PROVE  Inner'
<1> DEFINE n == Head(notes)
<1>1. /\ Rest = <<>> /\ notes # <<>> /\ notes' = Tail(notes) /\ SameLoad /\ n = [k |-> n.k, m |-> n.m]
      /\ th'["evw"] = th["evw"] /\ th'["user"].at = 0 /\ client' = client
      /\ n.m \in Macs /\ n.k \in {"deauth", "new"} /\ hs \in [Macs -> {"none", "auth", "assoc"}]
      /\ odd' = odd \cup Mark(n.k = "new" /\ ~\E i \in CtxOf(n.m) : ctx[i].active, "stale")
  BY NotifiedCases DEF Typed, Types, WorldTypes
<1>2. /\ ctx' = ctx
      /\ \/ hs' = [hs EXCEPT ![n.m] = "none"] /\ \A m : DelAhead(m)' <=> m = n.m
         \/ n.k = "new" /\ hs' = [hs EXCEPT ![n.m] = "assoc"] /\ \A m : ~DelAhead(m)'
         \/ hs' = hs /\ \A m : ~DelAhead(m)'
  BY <1>1, NotifiedCases
<1>3. \A m : Noted("new", m)' => Noted("new", m)
  BY <1>1, NoteGone
<1>4. \A m : n = [k |-> "new", m |-> m] => Noted("new", m)
  BY <1>1, NoteGone
<1> HIDE DEF n
<1>5. (\A t \in Threads : Steady(t)) /\ ~Stopping
  BY <1>1, StageOf, StageOfNext, UserIdle DEF Threads, Steady, Rest
<1>6. Hopeful'
  BY <1>1, <1>2, <1>5, HopefulSame DEF Inner, Threads
<1>7. CASE hs' = [hs EXCEPT ![n.m] = "none"] /\ \A m : DelAhead(m)' <=> m = n.m
  <2>1. \A m \in Macs : hs'[m] = IF m = n.m THEN "none" ELSE hs[m]
    BY <1>1, <1>7
  <2> QED
    BY <1>1, <1>2, <1>3, <1>5, <1>6, <1>7, <2>1, InnerSame
<1>8. CASE hs' = hs /\ \A m : ~DelAhead(m)'
  BY <1>1, <1>2, <1>3, <1>5, <1>6, <1>8, InnerSame
<1>9. CASE n.k = "new" /\ hs' = [hs EXCEPT ![n.m] = "assoc"] /\ \A m : ~DelAhead(m)'
  <2>1. \A m \in Macs : hs'[m] = IF m = n.m THEN "assoc" ELSE hs[m]
    BY <1>1, <1>9
  <2>2. PICK i \in Idx : ctx[i].mac = n.m /\ ctx[i].active
    BY <1>1, <1>9 DEF Spoilt, Mark, CtxOf
  <2>3. Noted("new", n.m)
    BY <1>1, <1>4, <1>9
  <2>4. \A t \in Threads : \A j : Deleting(t, j)' <=> Deleting(t, j)
    BY <1>5, SteadyStage
  <2>5. \A j : ~Deleting("user", j)
    BY <1>1 DEF Deleting, At, Now, Rest
  <2>6. Served'
    BY <1>1, <1>2, <2>4 DEF Inner, Served
  <2>7. \A j \in Idx : Deleting("evw", j) => ctx[j].mac # n.m
    BY <1>1, <2>3 DEF Inner, Dropped
  <2>8. (\A j \in Idx, m \in Macs : ctx[j].mac = m =>
           /\ Deleting("user", j) => hs[m] = "none" \/ Stopping
           /\ Deleting("evw", j) => hs[m] = "none" /\ ~Noted("new", m))'
    <3> SUFFICES ASSUME NEW j \in Idx, NEW m \in Macs, ctx'[j].mac = m, Deleting("evw", j)'
                 PROVE  hs'[m] = "none" /\ ~Noted("new", m)'
      BY <2>4, <2>5 DEF Threads
    <3>1. Deleting("evw", j) /\ ctx[j].mac = m /\ m # n.m
      BY <1>2, <2>4, <2>7 DEF Threads
    <3> QED
      BY <1>3, <2>1, <3>1 DEF Inner, Dropped
  <2>9. Dropped'
    BY <1>9, <2>8 DEF Dropped
  <2>10. Alive'
    <3> SUFFICES ASSUME NEW m \in Macs, hs'[m] # "none"
                 PROVE  hs'[m] = "assoc" /\ \E j \in Idx : ctx'[j].mac = m /\ ctx'[j].active
      BY DEF Alive, CtxOf
    <3>1. CASE m = n.m
      BY <1>2, <2>1, <2>2, <3>1
    <3>2. CASE m # n.m
      BY <1>2, <1>5, <2>1, <3>2 DEF Inner, Alive, CtxOf
    <3> QED
      BY <3>1, <3>2
  <2> QED
    BY <1>6, <2>6, <2>9, <2>10 DEF Inner
<1> QED
  BY <1>2, <1>7, <1>8, <1>9

\* The first call of an event's work.
LEMMA WorkHope ==
  ASSUME Typed, th["evw"].todo = <<>>, NEW s, Work(s)
  PROVE  /\ AddNext("evw")' <=> s # <<>> /\ Head(s).op = "add"
         /\ Cur("evw")' = Head(s) /\ th'["evw"].at = 0
         /\ th'["user"] = th["user"] /\ \A t \in Threads : Steady(t)
<1>1. /\ th'["evw"].todo = s /\ th'["evw"].at = 0 /\ th'["user"] = th["user"]
      /\ \A t \in Threads : Steady(t)
  BY NewCall DEF Work, Threads
<1> QED
  BY <1>1 DEF AddNext, Cur

LEMMA OtherWork ==
  ASSUME NEW c, NEW op, NEW m, NEW k, c = Call(op, m) \/ c = [Call(op, m) EXCEPT !.k = k]
  PROVE  Head(<<c>>).op = op
<1>1. c.op = op
  BY DEF Call
<1> QED
  BY <1>1

LEMMA EventHope ==
  ASSUME Typed, ~left.ext, Served, EventTook
  PROVE  Hopeful'
<1>0. th["evw"].todo = <<>>
  BY EventMacs
<1>1. ASSUME NEW c, NEW op, op # "add", NEW m, NEW k, c = Call(op, m) \/ c = [Call(op, m) EXCEPT !.k = k], Work(<<c>>)
      PROVE  Hopeful'
  <2>1. Head(<<c>>).op = op
    BY <1>1, OtherWork
  <2>2. ~AddNext("evw")'
    BY <1>0, <1>1, <2>1, WorkHope
  <2> QED
    BY <2>2, NoHope
<1>11. Work(<<>>) => Hopeful'
  BY <1>0, WorkHope, NoHope
<1>12. \A op, m : op # "add" /\ Work(<<Call(op, m)>>) => Hopeful'
  BY <1>1
<1>13. \A op, m, k : op # "add" /\ Work(<<[Call(op, m) EXCEPT !.k = k]>>) => Hopeful'
  BY <1>1
<1>2. CASE Refused
  BY <1>11, <1>12, <1>13, <1>2 DEF Refused
<1>3. CASE LateEvent
  BY <1>11, <1>12, <1>13, <1>3 DEF LateEvent
<1>4. CASE AuthUp
  BY <1>4 DEF AuthUp
<1>5. CASE Assoc
  BY <1>11, <1>12, <1>13, <1>5, AssocCases
<1>6. CASE Deauth
  BY <1>11, <1>12, <1>13, <1>6, DeauthCases
<1>7. CASE TxStatus
  BY <1>11, <1>12, <1>13, <1>7, StatusCases
<1>8. CASE Auth
  <2> DEFINE n == Ev.m
             answer == [Call("tx", n) EXCEPT !.k = "auth"]
             new == [NoClient EXCEPT !.in = TRUE, !.st = "authed", !.last = Ev.sn]
  <2>1. /\ Takes("auth") /\ ctx' = Reauth(n)
        /\ \/ ~client[n].in /\ client' = [client EXCEPT ![n] = new] /\ Work(<<Call("add", n), answer>>)
           \/ Work(<<>>) \/ Work(<<answer>>)
    BY <1>8 DEF Auth
  <2>2. n \in Macs
    BY <2>1, EventTaken DEF Frames
  <2>3. CASE Work(<<>>) \/ Work(<<answer>>)
    BY <1>11, <1>12, <1>13, <2>3
  <2>4. CASE ~client[n].in /\ client' = [client EXCEPT ![n] = new] /\ Work(<<Call("add", n), answer>>)
    <3> DEFINE c == Call("add", n)
               s == <<c, answer>>
    <3>1. c.m = n
      BY DEF Call
    <3>2. new.in
      BY DEF NoClient
    <3> HIDE DEF c, answer, new, n
    <3>3. Head(s) = c
      OBVIOUS
    <3>4. Work(s)
      BY <2>4 DEF c
    <3> HIDE DEF s
    <3>5. Cur("evw")' = c /\ th'["user"] = th["user"]
      BY <1>0, <3>3, <3>4, WorkHope
    <3>6. client'[n].in
      BY <2>2, <2>4, <3>2 DEF Typed, Types, DriverTypes
    <3>7. \A i \in Idx : ctx'[i].mac = ctx[i].mac
      BY <1>8, EventMacs DEF EventTook
    <3>8. \A i : Deleting("user", i)' <=> Deleting("user", i)
      BY <3>5 DEF Deleting, At, Now, Cur
    <3>9. \A i : ~Deleting("evw", i)
      BY <1>0 DEF Deleting, At, Now
    <3>10. \A i \in Idx : ctx[i].mac = n => Deleting("user", i)
      BY <2>2, <2>4, <3>9 DEF Served, Threads
    <3> QED
      BY <3>1, <3>5, <3>6, <3>7, <3>8, <3>10 DEF Hopeful, CtxOf
  <2> QED
    BY <2>1, <2>3, <2>4
<1> QED
  BY <1>2, <1>3, <1>4, <1>5, <1>6, <1>7, <1>8 DEF EventTook

LEMMA InnerTook ==
  ASSUME Typed, ~left.ext, Inner, EventTook
  PROVE  Inner'
<1>1. /\ th["evw"].todo = <<>> /\ hs' = hs /\ ((\E s : Work(s)) \/ th' = th)
      /\ \A i \in Idx : ctx'[i].mac = ctx[i].mac /\ (ctx[i].active => ctx'[i].active)
  BY EventMacs
<1>2. \A t \in Threads : Steady(t)
  BY <1>1, WorkHope DEF Steady
<1>3. Rest' = Rest
  BY OthersWait DEF EventStep, EventTook
<1>4. \A m \in Macs : client[m].in => client'[m].in
  BY ClientsStay
<1>5. Hopeful'
  BY EventHope DEF Inner
<1>6. \A m \in Macs : DelAhead(m)' => hs'[m] = "none"
  BY <1>1, <1>3, UserSame DEF Inner, Dropped
<1> QED
  BY <1>1, <1>2, <1>3, <1>4, <1>5, <1>6, UserSame, InnerSame

LEMMA InnerOther ==
  ASSUME Typed, Inner, TimerStep \/ FwStatus \/ Air \/ Forgo \/ UNCHANGED vars
  PROVE  Inner'
<1>1. UNCHANGED <<ctx, hs, notes, th>>
  BY DEF TimerStep, AuthTimeout, FwStatus, Status, Air, Frame, Forgo, vars
<1>2. \A m \in Macs : client[m].in => client'[m].in
  <2>1. CASE TimerStep
    BY <2>1, ClientsStay
  <2>2. CASE FwStatus \/ Air \/ Forgo \/ UNCHANGED vars
    BY <2>2 DEF FwStatus, Status, Air, Frame, Forgo, vars
  <2> QED
    BY <2>1, <2>2
<1>3. Rest' = Rest /\ \A t \in Threads : Steady(t)
  BY <1>1 DEF Rest, Steady
<1>4. Hopeful'
  BY <1>1, <1>2, <1>3, HopefulSame DEF Inner, Threads
<1>5. \A m : Noted("new", m)' <=> Noted("new", m)
  BY <1>1 DEF Noted
<1>6. \A m \in Macs : DelAhead(m)' => hs'[m] = "none"
  BY <1>1, <1>3, UserSame DEF Inner, Dropped
<1> QED
  BY <1>1, <1>2, <1>3, <1>4, <1>5, <1>6, UserSame, InnerSame

LEMMA InnerRefuse ==
  ASSUME Typed, Inner, NEW ok \in BOOLEAN, Refuse(ok)
  PROVE  Inner'
<1>1. /\ th["evw"].todo # <<>> /\ Cur("evw").op = "refuse" /\ Advance("evw", <<>>) /\ notes' = notes
      /\ UNCHANGED <<ctx, client, hs>> /\ SameLoad
  BY RefuseTyped, Spent DEF Refuse, Now, Cur, SameLoad, Typed, Types, WorldTypes
<1>2. (\A t \in Threads : Steady(t)) /\ th'["user"] = th["user"]
  BY <1>1, OtherCall DEF Threads, DA
<1>3. th'["evw"].todo = Tail(th["evw"].todo)
  BY <1>1, StepAdvances DEF Threads
<1>4. Hopeful'
  BY <1>1, <1>3, WorkTail, NoHope
<1>5. Rest' = Rest
  BY <1>2 DEF Rest
<1>6. \A m : Noted("new", m)' <=> Noted("new", m)
  BY <1>1 DEF Noted
<1>7. \A m \in Macs : DelAhead(m)' => hs'[m] = "none"
  BY <1>1, <1>5, UserSame DEF Inner, Dropped
<1> QED
  BY <1>1, <1>2, <1>4, <1>5, <1>6, <1>7, UserSame, InnerSame

LEMMA InnerTx ==
  ASSUME Typed, Inner, NEW t \in Threads, TxReturn(t) \/ \E ok \in BOOLEAN : TxBegin(t, ok)
  PROVE  Inner'
<1>1. /\ th[t].todo # <<>> /\ Cur(t).op = "tx" /\ UNCHANGED <<notes, hs>>
      /\ ctx' = ctx \/ ctx' = Marked(CtxOf(Cur(t).m))
      /\ (\E s : Advance(t, s)) \/ (\E i, ok : Send(t, i, ok))
  BY MarkedAre DEF TxReturn, TxBegin, Now, Cur
<1>2. \A u \in Threads : Steady(u) /\ (u # t => th'[u] = th[u])
  BY <1>1, OtherCall DEF DA
<1>3. \A i \in Idx : ctx'[i].mac = ctx[i].mac /\ (ctx[i].active => ctx'[i].active)
  BY <1>1, MarkedTyped DEF Typed, Types, DriverTypes
<1>4. \A m \in Macs : client[m].in => client'[m].in
  BY ClientsStay
<1>5. \A m : Noted("new", m)' <=> Noted("new", m)
  BY <1>1 DEF Noted
<1>6. CASE t = "user"
  <2>1. /\ Rest # <<>> /\ Cur("user").op = "tx" /\ ~Stopping
    BY <1>1, <1>6, UserAhead DEF Rest
  <2>2. Rest' = Rest \/ Rest' = Tail(Rest)
    BY <1>6, StationCall DEF Step, Threads, Rest
  <2>3. \A m \in Macs : DelAhead(m)' => hs'[m] = "none"
    BY <1>1, <2>1, <2>2, UserSame, UserTail DEF Inner, Dropped
  <2>4. Hopeful'
    BY <1>2, <1>3, <1>4, <1>6, HopefulSame DEF Inner, Threads
  <2> QED
    BY <1>1, <1>2, <1>3, <1>4, <1>5, <2>1, <2>3, <2>4, InnerSame
<1>7. CASE t = "evw"
  <2>1. Rest' = Rest
    BY <1>2, <1>7 DEF Rest, Threads
  <2>2. \A m \in Macs : DelAhead(m)' => hs'[m] = "none"
    BY <1>1, <2>1, UserSame DEF Inner, Dropped
  <2>3. ~AddNext("evw")'
    <3>1. CASE TxReturn(t)
      <4> DEFINE d == Call("del", Cur(t).m)
      <4>1. Tail(th["evw"].todo) \in Seq(CallSet)
        BY <1>1, <1>7 DEF Typed, Types, ThreadTypes, Progress, Threads
      <4>2. \/ th'["evw"].todo = <<d>> \o Tail(th["evw"].todo)
            \/ th'["evw"].todo = Tail(th["evw"].todo)
        <5>1. <<>> \o Tail(th["evw"].todo) = Tail(th["evw"].todo)
          BY <4>1
        <5> QED
          BY <1>7, <3>1, <5>1 DEF TxReturn, Advance, Typed, Types, ThreadTypes, Threads, Progress, Idle
      <4>3. d.op = "del" /\ d \in CallSet
        BY <1>1, Current, CallTyped DEF Users
      <4> HIDE DEF d
      <4>4. CASE th'["evw"].todo = <<d>> \o Tail(th["evw"].todo)
        <5>1. Head(<<d>> \o Tail(th["evw"].todo)) = d
          BY <4>1, <4>3
        <5> QED
          BY <4>3, <4>4, <5>1 DEF AddNext, Cur
      <4> QED
        BY <1>1, <1>7, <4>2, <4>4, WorkTail
    <3>2. CASE \E ok \in BOOLEAN : TxBegin(t, ok)
      <4>1. th'["evw"].todo = th["evw"].todo
        <5>1. PICK ok \in BOOLEAN : Send("evw", cookie + 1, ok)
          BY <1>7, <3>2 DEF TxBegin
        <5>2. cookie + 1 \in Nums /\ left \in LoadType /\ ThreadTypes
          BY DEF Typed, Types, DriverTypes, WorldTypes, Nums
        <5> QED
          BY <5>1, <5>2, Sent DEF Threads
      <4> QED
        BY <1>1, <1>7, <4>1 DEF AddNext, Cur
    <3> QED
      BY <3>1, <3>2
  <2>4. Hopeful'
    BY <2>3, NoHope
  <2> QED
    BY <1>1, <1>2, <1>3, <1>4, <1>5, <2>1, <2>2, <2>4, UserSame, InnerSame
<1> QED
  BY <1>6, <1>7 DEF Threads

\* A deletion begins.
LEMMA InnerDelBegin ==
  ASSUME Typed, ~left.ext, Tables, Inner, NEW t \in Threads, NEW ok \in BOOLEAN, DelBegin(t, ok), ~Spoilt'
  PROVE  Inner'
<1>1. /\ th[t].todo # <<>> /\ th[t].at = 0 /\ Cur(t).op \in {"del", "delctx"} /\ UNCHANGED <<notes, hs>>
      /\ \A u \in Threads : u # t => th'[u] = th[u]
      /\ \/ /\ th'[t].todo = Tail(th[t].todo) /\ th'[t].at = 0 /\ UNCHANGED <<fw, ctx, client>>
            /\ Cur(t).op = "del" => CtxOf(Cur(t).m) = {}
         \/ \E i \in Idx : Deletes(t, i, ok)
  BY DelBeginCases
<1>2. \A m : Noted("new", m)' <=> Noted("new", m)
  BY <1>1 DEF Noted
<1>3. ASSUME Rest' = Rest \/ (t = "user" /\ Rest' = Tail(Rest))
      PROVE  (\A m \in Macs : DelAhead(m)' => hs[m] = "none") /\ (Stopping => Stopping')
  <2>1. CASE Rest' = Rest
    BY <2>1, UserSame DEF Inner, Dropped
  <2>2. CASE t = "user" /\ Rest' = Tail(Rest)
    <3>1. Rest # <<>> /\ Cur("user").op \in {"del", "delctx"}
      BY <1>1, <2>2 DEF Rest
    <3> QED
      BY <2>2, <3>1, UserTail DEF Inner, Dropped
  <2> QED
    BY <1>3, <2>1, <2>2
<1>4. CASE th'[t].todo = Tail(th[t].todo) /\ th'[t].at = 0 /\ UNCHANGED <<fw, ctx, client>>
  <2>1. \A u \in Threads : Steady(u)
    BY <1>1, <1>4, StageOf, StageOfNext DEF Steady
  <2>2. Rest' = Rest \/ (t = "user" /\ Rest' = Tail(Rest))
    BY <1>1, <1>4 DEF Rest, Threads
  <2>3. Hopeful'
    <3>1. CASE t = "user"
      BY <1>1, <1>4, <2>1, <3>1, HopefulSame DEF Inner, Threads
    <3>2. CASE t = "evw"
      BY <1>1, <1>4, <3>2, WorkTail, NoHope
    <3> QED
      BY <3>1, <3>2 DEF Threads
  <2> QED
    BY <1>1, <1>2, <1>3, <1>4, <2>1, <2>2, <2>3, InnerSame
<1>5. ASSUME NEW i \in Idx, Deletes(t, i, ok) PROVE Inner'
  <2> DEFINE n == ctx[i].mac
  <2>1. /\ n \in Macs /\ (Cur(t).op = "del" => n = Cur(t).m) /\ th'[t].todo = th[t].todo /\ th'[t].at = 1 /\ th'[t].i = i
        /\ ctx'[i].mac = n /\ \A j \in Idx : j # i => ctx'[j] = ctx[j]
        /\ \A m \in Macs : m # n => client'[m] = client[m]
        /\ t = "evw" => ~Expects(n)
        /\ \A u \in Threads : u # t => th[u].todo = <<>>
    BY <1>5 DEF Deletes
  <2>2. \A u \in Threads : \A j : Deleting(u, j)' <=> u = t /\ j = i
    <3>1. \A j : Deleting(t, j)' <=> j = i
      BY <1>1, <2>1, SentStage
    <3>2. \A u \in Threads : u # t => \A j : ~Deleting(u, j)'
      BY <1>1, <2>1 DEF Deleting, At, Now
    <3> QED
      BY <3>1, <3>2
  <2>3. \A u \in Threads : \A j : ~Deleting(u, j)
    BY <1>1, <2>1 DEF Deleting, At, Now
  <2>4. \A j \in Idx : j # i => ctx[j].mac # n
    BY <2>1, ApAssumption DEF Tables, Unique
  <2>5. Rest' = Rest
    BY <1>1, <2>1 DEF Rest, Threads
  <2>6. hs[n] = "none" \/ Stopping
    <3>1. CASE t = "evw"
      BY <2>1, <3>1 DEF Expects
    <3>2. CASE t = "user"
      <4>1. Rest # <<>>
        BY <1>1, <3>2 DEF Rest
      <4>2. CASE Cur("user").op = "del"
        <5>1. DelAhead(n)
          BY <2>1, <3>2, <4>1, <4>2, UserAhead
        <5> QED
          BY <2>1, <5>1 DEF Inner, Dropped
      <4>3. CASE Cur("user").op = "delctx"
        BY <4>1, <4>3, UserAhead
      <4> QED
        BY <1>1, <3>2, <4>2, <4>3
    <3> QED
      BY <3>1, <3>2 DEF Threads
  <2>7. t = "evw" => hs[n] = "none" /\ ~Noted("new", n)
    BY <2>1 DEF Expects, Noted
  <2> HIDE DEF n
  <2>8. Served'
    <3> SUFFICES ASSUME NEW j \in Idx, NEW m \in Macs, ctx'[j].mac = m
                 PROVE  client'[m].in \/ \E u \in Threads : Deleting(u, j)'
      BY DEF Served
    <3>1. CASE j = i
      BY <2>2, <3>1
    <3>2. CASE j # i
      <4>1. ctx[j].mac = m /\ m # n
        BY <2>1, <2>4, <3>2
      <4> QED
        BY <2>1, <2>3, <4>1 DEF Inner, Served
    <3> QED
      BY <3>1, <3>2
  <2>9. Hopeful'
    <3>1. ~AddNext("evw")'
      BY <1>1, <2>1 DEF AddNext, Cur, Threads
    <3> QED
      BY <3>1, NoHope
  <2>10. Dropped'
    <3>1. (\A j \in Idx, m \in Macs : ctx[j].mac = m =>
             /\ Deleting("user", j) => hs[m] = "none" \/ Stopping
             /\ Deleting("evw", j) => hs[m] = "none" /\ ~Noted("new", m))'
      BY <1>1, <1>2, <1>3, <2>1, <2>2, <2>5, <2>6, <2>7 DEF Threads
    <3>2. (\A m \in Macs : DelAhead(m) => hs[m] = "none")'
      BY <1>1, <1>3, <2>5
    <3> QED
      BY <3>1, <3>2 DEF Dropped
  <2>11. Alive'
    <3> SUFFICES ASSUME NEW m \in Macs, hs[m] # "none"
                 PROVE  hs[m] = "assoc" /\ (Stopping' \/ \E j \in Idx : ctx'[j].mac = m /\ ctx'[j].active)
      BY <1>1 DEF Alive, CtxOf
    <3>1. hs[m] = "assoc" /\ (Stopping \/ \E j \in Idx : ctx[j].mac = m /\ ctx[j].active)
      BY DEF Inner, Alive, CtxOf
    <3>2. CASE Stopping
      BY <1>3, <2>5, <3>1, <3>2
    <3>3. CASE ~Stopping
      <4>1. PICK j \in Idx : ctx[j].mac = m /\ ctx[j].active
        BY <3>1, <3>3
      <4>2. m # n
        BY <2>6, <3>3
      <4>3. j # i
        BY <4>1, <4>2 DEF n
      <4> QED
        BY <2>1, <3>1, <4>1, <4>3
    <3> QED
      BY <3>2, <3>3
  <2> QED
    BY <2>8, <2>9, <2>10, <2>11 DEF Inner
<1> QED
  BY <1>1, <1>4, <1>5

\* A deletion ends: the context was the only one of its station.
LEMMA InnerDelReturn ==
  ASSUME Typed, Tables, Inner, NEW t \in Threads, DelReturn(t), ~Spoilt'
  PROVE  Inner'
<1> DEFINE i == th[t].i
           n == ctx[i].mac
<1>1. /\ th[t].todo # <<>> /\ Deleting(t, i) /\ i \in Idx /\ Cur(t).op \in {"del", "delctx"}
      /\ UNCHANGED <<fw, client, notes, hs>>
      /\ th'[t].todo = Tail(th[t].todo) /\ th'[t].at = 0 /\ \A u \in Threads : u # t => th'[u] = th[u]
      /\ ctx'[i] = NoPeer /\ \A j \in Idx : j # i => ctx'[j] = ctx[j]
  BY DelReturnCases
<1>2. n \in Macs
  BY <1>1 DEF Tables, Deletions, Typed, Types, DriverTypes, Peers
<1>3. \A j : Deleting(t, j) => j = i
  BY DEF Deleting
<1>4. ctx'[i].mac = NoMac
  BY <1>1, NoneTyped
<1> HIDE DEF i
<1>5. \A j \in Idx, m \in Macs : ctx'[j].mac = m => j # i /\ ctx[j].mac = m /\ ctx'[j] = ctx[j]
  BY <1>1, <1>4, ApAssumption
<1>6. \A u \in Threads : \A j : Deleting(u, j)' <=> u # t /\ Deleting(u, j)
  <2>1. \A j : ~Deleting(t, j)'
    BY <1>1 DEF Deleting, At, Now
  <2>2. \A u \in Threads : u # t => \A j : Deleting(u, j)' <=> Deleting(u, j)
    BY <1>1 DEF Deleting, At, Now, Cur
  <2> QED
    BY <2>1, <2>2
<1>7. \A m : Noted("new", m)' <=> Noted("new", m)
  BY <1>1 DEF Noted
<1>8. Rest' = Rest \/ (t = "user" /\ Rest # <<>> /\ Cur("user").op \in {"del", "delctx"} /\ Rest' = Tail(Rest))
  BY <1>1 DEF Rest, Threads
<1>9. (\A m \in Macs : DelAhead(m)' => hs[m] = "none") /\ (Stopping => Stopping')
  BY <1>8, UserSame, UserTail DEF Inner, Dropped
<1>10. Served'
  BY <1>1, <1>3, <1>5, <1>6 DEF Inner, Served
<1>11. Hopeful'
  <2>1. CASE t = "evw"
    BY <1>1, <2>1, WorkTail, NoHope
  <2>2. CASE t = "user"
    <3>1. th'["evw"] = th["evw"] /\ (AddNext("evw")' <=> AddNext("evw")) /\ Cur("evw")' = Cur("evw")
      BY <1>1, <2>2 DEF AddNext, Cur, Threads
    <3>2. AddNext("evw") => Cur("evw").m \in Macs
      BY Current DEF AddNext, Threads
    <3> QED
      BY <1>1, <1>3, <1>5, <2>2, <3>1, <3>2 DEF Inner, Hopeful, CtxOf
  <2> QED
    BY <2>1, <2>2 DEF Threads
<1>12. Dropped'
  <2>1. (\A j \in Idx, m \in Macs : ctx[j].mac = m =>
           /\ Deleting("user", j) => hs[m] = "none" \/ Stopping
           /\ Deleting("evw", j) => hs[m] = "none" /\ ~Noted("new", m))'
    BY <1>1, <1>5, <1>6, <1>7, <1>9 DEF Inner, Dropped, Threads
  <2>2. (\A m \in Macs : DelAhead(m) => hs[m] = "none")'
    BY <1>1, <1>9
  <2> QED
    BY <2>1, <2>2 DEF Dropped
<1>13. hs[n] = "none" \/ Stopping
  BY <1>1, <1>2 DEF Inner, Dropped, Threads
<1>14. Alive'
  <2> SUFFICES ASSUME NEW m \in Macs, hs[m] # "none"
               PROVE  hs[m] = "assoc" /\ (Stopping' \/ \E j \in Idx : ctx'[j].mac = m /\ ctx'[j].active)
    BY <1>1 DEF Alive, CtxOf
  <2>1. hs[m] = "assoc" /\ (Stopping \/ \E j \in Idx : ctx[j].mac = m /\ ctx[j].active)
    BY DEF Inner, Alive, CtxOf
  <2>2. CASE Stopping
    BY <1>9, <2>1, <2>2
  <2>3. CASE ~Stopping
    <3>1. PICK j \in Idx : ctx[j].mac = m /\ ctx[j].active
      BY <2>1, <2>3
    <3>2. j # i
      BY <1>13, <2>3, <3>1
    <3> QED
      BY <1>1, <2>1, <3>1, <3>2
  <2> QED
    BY <2>2, <2>3
<1> QED
  BY <1>10, <1>11, <1>12, <1>14 DEF Inner

\* A new station has no context yet, unless hostapd is deleting it.
LEMMA InnerAddBegin ==
  ASSUME Typed, ~left.ext, Tables, Inner, NEW t \in Threads, NEW ok \in BOOLEAN, AddBegin(t, ok), ~Spoilt'
  PROVE  Inner'
<1>1. /\ th[t].todo # <<>> /\ th[t].at = 0 /\ Cur(t).op = "add" /\ Cur(t).m \in Macs /\ UNCHANGED <<client, notes>>
      /\ \A u \in Threads : u # t => th'[u] = th[u]
      /\ \/ \E i \in CtxOf(Cur(t).m) : i \in Idx /\ \A u \in Threads : u # t => ~Deleting(u, i)
         \/ \E i \in Idx : Adds(t, i, ok)
  BY AddBeginCases
<1>2. t = "evw" /\ AddNext("evw")
  BY <1>1, Current DEF AddNext
<1>3. PICK i \in Idx : Adds("evw", i, ok)
  BY <1>1, <1>2 DEF Inner, Hopeful, Threads
<1>4. /\ th'["evw"].todo = th["evw"].todo /\ th'["evw"].at = 1 /\ UNCHANGED <<ctx, hs>> /\ th'["user"] = th["user"]
  BY <1>1, <1>2, <1>3 DEF Adds, Threads
<1>5. \A u \in Threads : \A j : Deleting(u, j)' <=> Deleting(u, j)
  <2>1. \A j : ~Deleting("evw", j) /\ ~Deleting("evw", j)'
    BY <1>1, <1>2, <1>4 DEF Deleting, At, Now, Cur
  <2>2. \A j : Deleting("user", j)' <=> Deleting("user", j)
    BY <1>4 DEF Deleting, At, Now, Cur
  <2> QED
    BY <2>1, <2>2 DEF Threads
<1>6. Rest' = Rest /\ \A m : Noted("new", m)' <=> Noted("new", m)
  BY <1>1, <1>4 DEF Rest, Noted
<1>7. Cur("evw")' = Cur("evw")
  BY <1>4 DEF Cur
<1>8. Hopeful'
  BY <1>1, <1>2, <1>4, <1>7 DEF Inner, Hopeful
<1>9. Served'
  BY <1>1, <1>4, <1>5 DEF Inner, Served
<1>10. Dropped'
  BY <1>4, <1>5, <1>6, UserSame DEF Inner, Dropped, Threads
<1>11. Alive'
  BY <1>4, <1>6, UserSame DEF Inner, Alive, CtxOf
<1> QED
  BY <1>8, <1>9, <1>10, <1>11 DEF Inner

LEMMA InnerAddReturn ==
  ASSUME Typed, ~left.ext, Tables, Inner, NEW t \in Threads, AddReturn(t), ~Spoilt'
  PROVE  Inner'
<1> DEFINE i == th["evw"].i
           n == Cur("evw").m
<1>1. t = "evw" /\ th["evw"].todo # <<>>
  <2>1. th[t].todo # <<>> /\ Cur(t).op = "add"
    BY AddReturnCases
  <2> QED
    BY <2>1, Current
<1>2. /\ Adding("evw", i) /\ i \in Idx /\ Cur("evw").op = "add" /\ n \in Macs
      /\ UNCHANGED <<fw, client, notes>>
      /\ th'["evw"].todo = Tail(th["evw"].todo) /\ th'["evw"].at = 0 /\ th'["user"] = th["user"]
      /\ \A j \in Idx : j # i => ctx'[j] = ctx[j]
      /\ ctx'[i].mac = n /\ th["evw"].ok
      /\ \A m \in Macs : hs'[m] = hs[m]
  BY <1>1, AddReturnCases DEF Threads
<1>3. ctx[i].mac = NoMac
  BY <1>2 DEF Tables, Additions, Threads
<1>4. client[n].in
  BY <1>1, <1>2 DEF Inner, Hopeful, AddNext
<1> HIDE DEF i, n
<1>5. \A u \in Threads : \A j : Deleting(u, j)' <=> Deleting(u, j)
  <2>1. \A j : ~Deleting("evw", j) /\ ~Deleting("evw", j)'
    BY <1>2 DEF Deleting, At, Now, Cur
  <2>2. \A j : Deleting("user", j)' <=> Deleting("user", j)
    BY <1>2 DEF Deleting, At, Now, Cur
  <2> QED
    BY <2>1, <2>2 DEF Threads
<1>6. \A u \in Threads : ~Deleting(u, i)
  BY <1>2, <1>3 DEF Tables, Deletions
<1>7. Rest' = Rest /\ \A m : Noted("new", m)' <=> Noted("new", m)
  BY <1>2 DEF Rest, Noted
<1>8. Hopeful'
  BY <1>1, <1>2, WorkTail, NoHope
<1>9. Served'
  <2> SUFFICES ASSUME NEW j \in Idx, NEW m \in Macs, ctx'[j].mac = m
               PROVE  client[m].in \/ \E u \in Threads : Deleting(u, j)
    BY <1>2, <1>5 DEF Served
  <2>1. CASE j = i
    BY <1>2, <1>4, <2>1
  <2>2. CASE j # i
    BY <1>2, <2>2 DEF Inner, Served
  <2> QED
    BY <2>1, <2>2
<1>10. Dropped'
  <2>1. (\A j \in Idx, m \in Macs : ctx[j].mac = m =>
           /\ Deleting("user", j) => hs[m] = "none" \/ Stopping
           /\ Deleting("evw", j) => hs[m] = "none" /\ ~Noted("new", m))'
    <3> SUFFICES ASSUME NEW j \in Idx, NEW m \in Macs, ctx'[j].mac = m
                 PROVE  /\ Deleting("user", j) => hs[m] = "none" \/ Stopping
                        /\ Deleting("evw", j) => hs[m] = "none" /\ ~Noted("new", m)
      BY <1>2, <1>5, <1>7, UserSame DEF Threads
    <3>1. CASE j = i
      BY <1>6, <3>1 DEF Threads
    <3>2. CASE j # i
      BY <1>2, <3>2 DEF Inner, Dropped
    <3> QED
      BY <3>1, <3>2
  <2>2. (\A m \in Macs : DelAhead(m) => hs[m] = "none")'
    BY <1>2, <1>7, UserSame DEF Inner, Dropped
  <2> QED
    BY <2>1, <2>2 DEF Dropped
<1>11. Alive'
  <2> SUFFICES ASSUME NEW m \in Macs, hs[m] # "none"
               PROVE  hs[m] = "assoc" /\ (Stopping \/ \E j \in Idx : ctx'[j].mac = m /\ ctx'[j].active)
    BY <1>2, <1>7, UserSame DEF Alive, CtxOf
  <2>1. hs[m] = "assoc" /\ (Stopping \/ \E j \in Idx : ctx[j].mac = m /\ ctx[j].active)
    BY DEF Inner, Alive, CtxOf
  <2> QED
    BY <1>2, <1>3, <2>1, ApAssumption
<1> QED
  BY <1>8, <1>9, <1>10, <1>11 DEF Inner

LEMMA InnerKept ==
  ASSUME Typed, Typed', ~left.ext, Tables, Inner, [Next]_vars, ~Spoilt'
  PROVE  Inner'
<1>1. ASSUME NEW t \in Threads, Step(t) PROVE Inner'
  <2>1. CASE TxReturn(t) \/ \E ok \in BOOLEAN : TxBegin(t, ok)
    BY <2>1, InnerTx
  <2>2. CASE \E ok \in BOOLEAN : DelBegin(t, ok)
    BY <2>2, InnerDelBegin
  <2>3. CASE \E ok \in BOOLEAN : AddBegin(t, ok)
    BY <2>3, InnerAddBegin
  <2>4. CASE DelReturn(t)
    BY <2>4, InnerDelReturn
  <2>5. CASE AddReturn(t)
    BY <2>5, InnerAddReturn
  <2> QED
    BY <1>1, <2>1, <2>2, <2>3, <2>4, <2>5 DEF Step
<1>2. CASE UserStep
  <2>1. CASE \E ok \in BOOLEAN : StopCommand(ok)
    BY <2>1, InnerStopCommand
  <2>2. CASE StopReturn
    BY <2>2, InnerStopReturn
  <2>3. CASE PointCall
    BY <2>3, InnerPoint
  <2>4. CASE Notified
    BY <2>4, InnerNotified
  <2> QED
    BY <1>1, <1>2, <2>1, <2>2, <2>3, <2>4 DEF UserStep, PointCall, Threads
<1>3. CASE EventStep
  <2>1. CASE \E ok \in BOOLEAN : Refuse(ok)
    BY <2>1, InnerRefuse
  <2>2. CASE EventTook
    BY <2>2, InnerTook
  <2> QED
    BY <1>1, <1>3, <2>1, <2>2 DEF EventStep, EventTook, Threads
<1>4. CASE Request
  BY <1>4, InnerRequest
<1>5. CASE TimerStep \/ FwStatus \/ Air \/ Forgo \/ UNCHANGED vars
  BY <1>5, InnerOther
<1> QED
  BY <1>2, <1>3, <1>4, <1>5 DEF Next

LEMMA TablesInvInit == Init => TablesInv
<1> SUFFICES ASSUME Init PROVE TablesInv
  OBVIOUS
<1>1. /\ \A t \in Threads : th[t] = Idle
      /\ \A i \in Idx : ctx[i].mac = NoMac /\ fw.sta[i] = NoMac
      /\ notes = <<>> /\ \A m \in Macs : hs[m] = "none"
  BY NoneTyped DEF Init, Threads
<1>2. \A t \in Threads : th[t].todo = <<>>
  BY <1>1, IdleTyped
<1>3. \A t \in Threads : ~AddNext(t) /\ \A ops : ~At(t, ops)
  BY <1>2 DEF AddNext, At, Now
<1>4. \A t \in Threads, i \in Idx : ~Deleting(t, i) /\ ~Adding(t, i)
  BY <1>3 DEF Deleting, Adding
<1>5. ~Stopping /\ \A m : ~DelAhead(m)
  BY <1>2, UserIdle DEF Rest, Threads
<1>6. Tables
  BY <1>1, <1>3, <1>4 DEF Tables, Mirrored, Deletions, Additions, Unique, OneDeletes, Threads
<1>7. Hosted
  BY <1>1, <1>3, <1>5, ApAssumption DEF Hosted, Threads
<1>8. Inner
  BY <1>1, <1>3, <1>4, <1>5, ApAssumption DEF Inner, Served, Hopeful, Dropped, Alive, Threads
<1> QED
  BY <1>6, <1>7, <1>8 DEF TablesInv, Outer

LEMMA TablesInvKept ==
  ASSUME Typed, Typed', Outside, TablesInv, [Next]_vars
  PROVE  TablesInv'
<1>1. CASE Spoilt
  BY <1>1, OddGrows DEF TablesInv, Spoilt
<1>2. CASE Doomed /\ ~Spoilt'
  BY <1>2, DoomedKept DEF TablesInv
<1>3. CASE Tables /\ (left.ext => Outer) /\ (~left.ext => Inner) /\ ~Spoilt'
  <2>1. Doomed' \/ Tables'
    BY <1>3, TablesKept
  <2>2. left'.ext = left.ext
    BY LoadKept DEF SameLoad
  <2>3. left.ext => Outer'
    BY <1>3, OuterKept
  <2>4. ~left.ext => Inner'
    BY <1>3, InnerKept
  <2> QED
    BY <2>1, <2>2, <2>3, <2>4 DEF TablesInv
<1> QED
  BY <1>1, <1>2, <1>3 DEF TablesInv

\* What the invariant says when nothing is under way.
LEMMA QuietAgree == Typed /\ TablesInv => TablesAgree
<1> SUFFICES ASSUME Typed, TablesInv, Quiet, ~Spoilt
             PROVE  /\ \A i \in Idx : ctx[i].mac = fw.sta[i]
                    /\ \A m \in Macs : Cardinality(CtxOf(m)) <= 1
                    /\ \A m \in Macs : hs[m] # "none" => CtxOf(m) # {}
                    /\ \A m \in Macs : hs[m] = "assoc" => \E i \in CtxOf(m) : ctx[i].active
                    /\ left.ext => \A m \in Macs : CtxOf(m) # {} => hs[m] # "none"
  BY DEF TablesAgree, Spoilt
<1>1. \A t \in Threads : th[t].todo = <<>> /\ \A ops : ~At(t, ops)
  BY DEF Quiet, At, Now
<1>2. ~Stopping /\ (\A m : ~DelAhead(m)) /\ ~Doomed
  BY <1>1, UserIdle DEF Rest, Threads, Doomed
<1>3. \A t \in Threads, i \in Idx : ~Deleting(t, i) /\ ~Adding(t, i)
  BY <1>1 DEF Deleting, Adding
<1>4. \A k, m : ~Noted(k, m)
  BY Nothing DEF Quiet, Noted
<1>5. Tables /\ (left.ext => Hosted) /\ (~left.ext => Inner)
  BY <1>2 DEF TablesInv, Outer
<1>6. \A i \in Idx : ctx[i].mac = fw.sta[i]
  BY <1>3, <1>5 DEF Tables, Mirrored
<1>7. ASSUME NEW m \in Macs PROVE Cardinality(CtxOf(m)) <= 1
  <2>1. CASE CtxOf(m) = {}
    BY <2>1, FS_EmptySet
  <2>2. ASSUME NEW i \in CtxOf(m) PROVE Cardinality(CtxOf(m)) <= 1
    <3>1. \A j \in CtxOf(m) : j = i
      BY <1>5, ApAssumption DEF Tables, Unique, CtxOf
    <3>2. CtxOf(m) = {i}
      BY <3>1
    <3>3. Cardinality({i}) = 1
      BY FS_Singleton
    <3>4. Cardinality(CtxOf(m)) = 1
      BY <3>2, <3>3
    <3> QED
      BY <3>4
  <2> QED
    BY <2>1, <2>2
<1>8. CASE left.ext
  <2>1. Hosted
    BY <1>5, <1>8
  <2>2. \A m \in Macs : hs[m] = "assoc" => \E i \in CtxOf(m) : ctx[i].active
    <3> SUFFICES ASSUME NEW m \in Macs, hs[m] = "assoc" PROVE \E i \in CtxOf(m) : ctx[i].active
      OBVIOUS
    <3>1. PICK i \in Idx : ctx[i].mac = m
      BY <2>1 DEF Hosted, CtxOf
    <3> QED
      BY <1>4, <2>1, <3>1 DEF Hosted, CtxOf
  <2>3. \A m \in Macs : CtxOf(m) # {} => hs[m] # "none"
    BY <1>2, <2>1 DEF Hosted, CtxOf
  <2>4. \A m \in Macs : hs[m] # "none" => CtxOf(m) # {}
    BY <2>1 DEF Hosted
  <2> QED
    BY <1>6, <1>7, <2>2, <2>3, <2>4
<1>9. CASE ~left.ext
  <2>1. \A m \in Macs : hs[m] # "none" => \E i \in CtxOf(m) : ctx[i].active
    BY <1>2, <1>5, <1>9 DEF Inner, Alive
  <2>2. \A m \in Macs : hs[m] = "assoc" => \E i \in CtxOf(m) : ctx[i].active
    BY <2>1
  <2>3. \A m \in Macs : hs[m] # "none" => CtxOf(m) # {}
    BY <2>1
  <2> QED
    BY <1>6, <1>7, <1>9, <2>2, <2>3
<1> QED
  BY <1>8, <1>9

\* When nothing is under way hostapd, the driver and the firmware have the same stations, each
\* of them once and with an aid of its own, and an associated station's peer transmits
\* (skw_add_station, skw_sap_del_sta, skw_change_station, skw_sap_rx_mgmt, the handlers of
\* skw_mlme.c), unless one of the exceptions of TablesAgree has happened.
THEOREM StationsAlwaysAgree == Spec => []StationsAgree
<1>1. Init => Typed /\ Outside /\ AidsInv /\ TablesInv
  BY TypeInit, KeysInit, TablesInvInit
<1>2. Typed /\ Outside /\ AidsInv /\ TablesInv /\ [Next]_vars => (Typed /\ Outside /\ AidsInv /\ TablesInv)'
  <2> SUFFICES ASSUME Typed, Outside, AidsInv, TablesInv, [Next]_vars
               PROVE  (Typed /\ Outside /\ AidsInv /\ TablesInv)'
    OBVIOUS
  <2>1. Typed'
    BY TypedKept
  <2> QED
    BY <2>1, OutsideKept, AidsKept, TablesInvKept
<1>3. Typed /\ AidsInv /\ TablesInv => StationsAgree
  <2>1. AidsInv => AidsDistinct
    BY DEF AidsInv, AidsDistinct
  <2> QED
    BY <2>1, QuietAgree DEF StationsAgree
<1> QED
  BY <1>1, <1>2, <1>3, PTL DEF Spec
=============================================================================
