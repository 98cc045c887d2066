---------------------------- MODULE SkwCmdProofs ----------------------------
(***************************************************************************)
(* Theorems about the command channel, for every set of callers and every  *)
(* bound.                                                                  *)
(***************************************************************************)
EXTENDS SkwCmd, TLAPS

Tasks == Callers \cup TrySenders

LEMMA NoRxType == NoRx \in Acks
BY IdsAssumption DEF NoRx, Acks, Toks, NoTok

\* Releasing the command lock (up) keeps the types of the lock and of pc.
LEMMA UpType ==
    ASSUME sem \in Nat, waitq \in Seq(Callers),
           NEW pcs \in [Tasks -> CallPcs], Up(pcs)
    PROVE  sem' \in Nat /\ waitq' \in Seq(Callers) /\ pc' \in [Tasks -> CallPcs]
<1>1. CASE waitq = <<>>
  BY <1>1 DEF Up
<1>2. CASE waitq # <<>>
  <2>1. Head(waitq) \in Callers /\ Tail(waitq) \in Seq(Callers)
    BY <1>2
  <2>2. "set" \in CallPcs
    BY DEF CallPcs
  <2> QED
    BY <1>2, <2>1, <2>2 DEF Up, Tasks
<1> QED
  BY <1>1, <1>2

\* Running cmd.callback or skw_abort_cmd keeps the type of the slot.
LEMMA CallBackType ==
    ASSUME TypeOK, NEW f \in SUBSET CmdFlags, NEW by \in Toks, CallBack(f, by)
    PROVE  cmd' \in Slots /\ works' \in SUBSET {"tx", "unlock", "assert", "recovery"}
<1>1. f \cup {"DONE"} \in SUBSET CmdFlags
  BY DEF CmdFlags
<1>2. cmd' \in Slots
  BY <1>1 DEF TypeOK, CallBack, Slots
<1> QED
  BY <1>2 DEF TypeOK, CallBack

LEMMA AbortType ==
    ASSUME TypeOK, AbortCmd
    PROVE  cmd' \in Slots /\ works' \in SUBSET {"tx", "unlock", "assert", "recovery"}
<1>1. cmd.flags \cup {"ACKED"} \in SUBSET CmdFlags
  BY DEF TypeOK, Slots, CmdFlags
<1> QED
  BY <1>1, CallBackType DEF AbortCmd, TypeOK, Toks, NoTok

\* skw_hw_assert only sets flags and stops the firmware.
LEMMA HwAssertType ==
    ASSUME TypeOK, HwAssert
    PROVE  /\ skwFlags' \in SUBSET SkwFlags /\ hit' \in SUBSET Callers
           /\ fw' \in {"up", "dead", "down", "ready", "prepared"}
           /\ wire' \in SUBSET Acks /\ acks' \in SUBSET Acks
           /\ nCrashes' \in 0 .. MaxCrashes
BY DEF TypeOK, HwAssert, Block, SkwFlags, fwVars

LEMMA InitType == Init => TypeOK
BY NoRxType, IdsAssumption, BoundsAssumption
   DEF Init, TypeOK, NoRx, Acks, Toks, NoTok, CallPcs, CmdFlags, SkwFlags, Slots, Results

USE DEF lockVars, fwVars

LEMMA CallerType ==
    ASSUME TypeOK, NEW c \in Callers, Call(c) \/ Refuse(c) \/ CallerStep(c)
    PROVE  TypeOK'
<1> USE DEF TypeOK
<1>1. CASE Call(c)
  <2>1. skwFlags' \in SUBSET SkwFlags /\ hit' \in SUBSET Callers
    BY <1>1 DEF Call, Block, SkwFlags
  <2>2. nCmds' \in 0 .. MaxCmds
    BY <1>1, BoundsAssumption DEF Call
  <2>3. pc' \in [Callers \cup TrySenders -> CallPcs]
    BY <1>1 DEF Call, CallPcs
  <2> QED
    BY <1>1, <2>1, <2>2, <2>3 DEF Call
<1>2. CASE Refuse(c)
  BY <1>2 DEF Refuse, Return, Results
<1>3. CASE Down(c)
  BY <1>3 DEF Down, CallPcs
<1>4. CASE CallSetCmd(c)
  <2>1. ExtraFlags(c) \in SUBSET CmdFlags
    BY DEF ExtraFlags, CmdFlags
  <2>2. cmd' \in Slots
    BY <1>4, <2>1 DEF CallSetCmd, SetCmd, Slots, Toks, NoTok
  <2> QED
    BY <1>4, <2>2 DEF CallSetCmd, CallPcs
<1>5. CASE CallArm(c)
  <2>1. cmd' \in Slots
    BY <1>5 DEF CallArm, Slots, CmdFlags
  <2> QED
    BY <1>5, <2>1 DEF CallArm, CallPcs
<1>6. CASE CallDone(c)
  <2>1. result' \in [Callers -> Results]
    BY <1>6 DEF CallDone, Return, Results
  <2> QED
    BY <1>6, <2>1 DEF CallDone, CallPcs
<1>7. CASE CallNudge(c)
  BY <1>7 DEF CallNudge, CallPcs
<1>8. CASE CallTimeout(c)
  <2>1. cmd' \in Slots
    BY <1>8 DEF CallTimeout, Slots, CmdFlags
  <2>2. result' \in [Callers -> Results]
    BY <1>8 DEF CallTimeout, Return, Results
  <2> QED
    BY <1>8, <2>1, <2>2, HwAssertType DEF CallTimeout, CallPcs
<1>9. CASE CallUnlock(c)
  <2>1. [pc EXCEPT ![c] = "idle"] \in [Tasks -> CallPcs]
    BY DEF Tasks, CallPcs
  <2> QED
    BY <1>9, <2>1, UpType DEF CallUnlock, Tasks
<1> QED
  BY <1>1, <1>2, <1>3, <1>4, <1>5, <1>6, <1>7, <1>8, <1>9 DEF CallerStep

LEMMA TryType ==
    ASSUME TypeOK, NEW t \in TrySenders, TryLock(t) \/ TryStep(t)
    PROVE  TypeOK'
<1> USE DEF TypeOK
<1>1. CASE TryLock(t)
  BY <1>1, BoundsAssumption DEF TryLock, CallPcs
<1>2. CASE TrySetCmd(t)
  <2>1. cmd' \in Slots
    BY <1>2 DEF TrySetCmd, SetCmd, Slots, Toks, NoTok, CmdFlags
  <2> QED
    BY <1>2, <2>1 DEF TrySetCmd, CallPcs
<1>3. CASE TryArm(t)
  <2>1. cmd' \in Slots
    BY <1>3 DEF TryArm, Slots, CmdFlags
  <2> QED
    BY <1>3, <2>1 DEF TryArm, CallPcs
<1> QED
  BY <1>1, <1>2, <1>3 DEF TryStep

LEMMA ReleaseType ==
    ASSUME TypeOK, TimerStep \/ WorkUnlock \/ WorkAssert
    PROVE  TypeOK'
<1> USE DEF TypeOK
<1>0. pc \in [Tasks -> CallPcs]
  BY DEF Tasks
<1>1. CASE TimerExpire
  BY <1>1 DEF TimerExpire
<1>2. CASE CmdTimeoutFn
  BY <1>0, <1>2, UpType DEF CmdTimeoutFn, Tasks, Block, SkwFlags
<1>3. CASE WorkUnlock
  BY <1>0, <1>3, UpType DEF WorkUnlock, Tasks
<1>4. CASE WorkAssert
  BY <1>4, HwAssertType DEF WorkAssert
<1> QED
  BY <1>1, <1>2, <1>3, <1>4 DEF TimerStep

LEMMA TxType ==
    ASSUME TypeOK, TxStep
    PROVE  TypeOK'
<1> USE DEF TypeOK
<1>1. CASE TxStart
  BY <1>1 DEF TxStart
<1>2. CASE TxTake
  <2>1. cmd' \in Slots
    BY <1>2 DEF TxTake, Slots, CmdFlags
  <2> QED
    BY <1>2, <2>1 DEF TxTake
<1>3. CASE TxXmit
  <2>1. [id |-> cmd.id, seq |-> cmd.hdr, tok |-> cmd.tok, status |-> 0] \in Acks
    BY DEF Slots, Acks
  <2>2. cmd' \in Slots /\ works' \in SUBSET {"tx", "unlock", "assert", "recovery"}
    BY <1>3, AbortType DEF TxXmit
  <2>3. wire' \in SUBSET Acks
    BY <1>3, <2>1 DEF TxXmit
  <2> QED
    BY <1>3, <2>2, <2>3 DEF TxXmit
<1>4. CASE TxSent
  <2>1. cmd.flags \cup {"DONE"} \in SUBSET CmdFlags
    BY DEF Slots, CmdFlags
  <2>2. cmd' \in Slots /\ works' \in SUBSET {"tx", "unlock", "assert", "recovery"}
    BY <1>4, <2>1, CallBackType DEF TxSent, Toks, NoTok
  <2> QED
    BY <1>4, <2>2 DEF TxSent
<1> QED
  BY <1>1, <1>2, <1>3, <1>4 DEF TxStep

LEMMA RxType ==
    ASSUME TypeOK, RxStep
    PROVE  TypeOK'
<1> USE DEF TypeOK
<1>1. CASE \E a \in acks, short \in BOOLEAN : RxAck(a, short)
  <2>1. PICK a \in acks, short \in BOOLEAN : RxAck(a, short)
    BY <1>1
  <2>2. cmd' \in Slots
    BY <2>1 DEF RxAck, Slots, CmdFlags
  <2>3. rx' \in Acks
    BY <2>1, NoRxType DEF RxAck
  <2> QED
    BY <2>1, <2>2, <2>3 DEF RxAck
<1>2. CASE RxDeliver
  <2>1. cmd.flags \cup {"DONE"} \in SUBSET CmdFlags
    BY DEF Slots, CmdFlags
  <2>2. cmd' \in Slots
    BY <1>2, <2>1 DEF RxDeliver, Slots, Acks
  <2> QED
    BY <1>2, <2>2, NoRxType DEF RxDeliver
<1> QED
  BY <1>1, <1>2 DEF RxStep

LEMMA FwType ==
    ASSUME TypeOK, FwStep \/ Resume
    PROVE  TypeOK'
<1> USE DEF TypeOK
<1>1. CASE \E m \in wire, status \in {0, 1} : FwAnswer(m, status)
  <2>1. PICK m \in wire, status \in {0, 1} : FwAnswer(m, status)
    BY <1>1
  <2>2. [m EXCEPT !.status = status] \in Acks
    BY DEF Acks
  <2> QED
    BY <2>1, <2>2 DEF FwAnswer
<1>2. CASE FwCrash
  BY <1>2, BoundsAssumption DEF FwCrash
<1>3. CASE BspAssert
  BY <1>3, AbortType DEF BspAssert, Block, SkwFlags
<1>4. CASE BspReady
  BY <1>4 DEF BspReady
<1>5. CASE RecoveryPrepare
  <2>1. cmd' \in Slots
    BY <1>5 DEF RecoveryPrepare, Slots, Toks
  <2> QED
    BY <1>5, <2>1 DEF RecoveryPrepare
<1>6. CASE RecoveryClear
  BY <1>6 DEF RecoveryClear
<1>7. CASE \E m \in FwModes : ModeOn(m) \/ ModeOff(m)
  <2>1. PICK m \in FwModes : ModeOn(m) \/ ModeOff(m)
    BY <1>7
  <2>2. CASE ModeOn(m)
    BY <2>2, AbortType, FwModesAssumption DEF ModeOn, Block, SkwFlags
  <2>3. CASE ModeOff(m)
    BY <2>3 DEF ModeOff
  <2> QED
    BY <2>1, <2>2, <2>3
<1>8. CASE Resume
  BY <1>8 DEF Resume
<1> QED
  BY <1>1, <1>2, <1>3, <1>4, <1>5, <1>6, <1>7, <1>8 DEF FwStep

\* Every step keeps the types.
LEMMA StepType == TypeOK /\ [Next]_vars => TypeOK'
<1> SUFFICES ASSUME TypeOK, [Next]_vars PROVE TypeOK'
  OBVIOUS
<1>1. CASE UNCHANGED vars
  BY <1>1 DEF vars, TypeOK
<1>2. CASE Next
  BY <1>2, CallerType, TryType, ReleaseType, TxType, RxType, FwType DEF Next
<1> QED
  BY <1>1, <1>2

\* The command channel is well typed in every reachable state: in particular the
\* semaphore count never goes below zero.
THEOREM TypeCorrect == Spec => []TypeOK
BY InitType, StepType, PTL DEF Spec

-----------------------------------------------------------------------------
(* The permit is never lost.                                               *)

\* A release leaves the permit in the count or with the task it was handed to.
LEMMA UpKeepsPermit ==
    ASSUME TypeOK, NEW pcs \in [Tasks -> CallPcs], Up(pcs)
    PROVE  sem' = 0 => Owners' # {}
<1>1. CASE waitq = <<>>
  BY <1>1 DEF Up, TypeOK
<1>2. CASE waitq # <<>>
  <2>1. Head(waitq) \in Tasks
    BY <1>2 DEF TypeOK, Tasks
  <2>2. pc'[Head(waitq)] = "set"
    BY <1>2, <2>1 DEF Up
  <2> QED
    BY <2>1, <2>2 DEF Owners, Owning, Tasks
<1> QED
  BY <1>1, <1>2

LEMMA StepPermit == TypeOK /\ PermitNotLost /\ [Next]_vars => PermitNotLost'
<1> SUFFICES ASSUME TypeOK, PermitNotLost, [Next]_vars PROVE PermitNotLost'
  OBVIOUS
<1> USE DEF PermitNotLost, Owners, Owning
<1>0. CASE UNCHANGED vars
  BY <1>0 DEF vars
<1>1. ASSUME NEW c \in Callers, Call(c) \/ Refuse(c) \/ CallerStep(c)
      PROVE  PermitNotLost'
  <2>1. CASE Call(c)
    BY <2>1 DEF Call, TypeOK
  <2>2. CASE Refuse(c)
    BY <2>2 DEF Refuse
  <2>3. CASE Down(c)
    <3>1. CASE sem > 0
      <4>1. pc'[c] = "set"
        BY <2>3, <3>1 DEF Down, TypeOK
      <4> QED
        BY <4>1
    <3>2. CASE ~(sem > 0)
      BY <2>3, <3>2 DEF Down, TypeOK
    <3> QED
      BY <3>1, <3>2
  <2>4. CASE CallSetCmd(c)
    BY <2>4 DEF CallSetCmd, TypeOK
  <2>5. CASE CallArm(c)
    BY <2>5 DEF CallArm, TypeOK
  <2>6. CASE CallDone(c)
    BY <2>6 DEF CallDone, TypeOK
  <2>7. CASE CallNudge(c)
    BY <2>7 DEF CallNudge, TypeOK
  <2>8. CASE CallTimeout(c)
    BY <2>8 DEF CallTimeout, TypeOK
  <2>9. CASE CallUnlock(c)
    <3>1. [pc EXCEPT ![c] = "idle"] \in [Tasks -> CallPcs]
      BY DEF TypeOK, Tasks, CallPcs
    <3> QED
      BY <2>9, <3>1, UpKeepsPermit DEF CallUnlock
  <2> QED
    BY <1>1, <2>1, <2>2, <2>3, <2>4, <2>5, <2>6, <2>7, <2>8, <2>9 DEF CallerStep
<1>2. ASSUME NEW t \in TrySenders, TryLock(t) \/ TryStep(t)
      PROVE  PermitNotLost'
  <2>1. CASE TryLock(t)
    <3>1. pc'[t] = "set"
      BY <2>1 DEF TryLock, TypeOK
    <3> QED
      BY <3>1
  <2>2. CASE TrySetCmd(t)
    BY <2>2 DEF TrySetCmd, TypeOK
  <2>3. CASE TryArm(t)
    BY <2>3 DEF TryArm
  <2> QED
    BY <1>2, <2>1, <2>2, <2>3 DEF TryStep
<1>3. CASE TimerStep \/ WorkUnlock \/ WorkAssert
  <2>0. pc \in [Tasks -> CallPcs]
    BY DEF TypeOK, Tasks
  <2>1. CASE TimerExpire
    BY <2>1 DEF TimerExpire
  <2>2. CASE CmdTimeoutFn
    BY <2>0, <2>2, UpKeepsPermit DEF CmdTimeoutFn
  <2>3. CASE WorkUnlock
    BY <2>0, <2>3, UpKeepsPermit DEF WorkUnlock
  <2>4. CASE WorkAssert
    BY <2>4 DEF WorkAssert
  <2> QED
    BY <1>3, <2>1, <2>2, <2>3, <2>4 DEF TimerStep
<1>4. CASE TxStep \/ RxStep \/ FwStep \/ Resume
  <2>1. /\ UNCHANGED <<sem, pc, timer>>
        /\ "unlock" \in works => "unlock" \in works'
    BY <1>4 DEF TxStep, TxStart, TxTake, TxXmit, TxSent, RxStep, RxAck, RxDeliver,
       FwStep, FwAnswer, FwCrash, BspAssert, BspReady, RecoveryPrepare,
       RecoveryClear, ModeOn, ModeOff, Resume, AbortCmd, CallBack
  <2> QED
    BY <2>1
<1> QED
  BY <1>0, <1>1, <1>2, <1>3, <1>4 DEF Next

\* Whatever the interleaving of callers, try-senders, command timer, work_unlock
\* and firmware, the command lock is never left taken with nobody to release it.
THEOREM PermitKept == Spec => []PermitNotLost
<1>1. Init => PermitNotLost
  BY DEF Init, PermitNotLost
<1> QED
  BY <1>1, StepPermit, TypeCorrect, PTL DEF Spec

-----------------------------------------------------------------------------
(* Without try-senders the lock is a mutex.                                *)

\* CmdLockHeld alone is not inductive: a release must find the count at zero
\* and a sleeper that is nowhere else, and no timer or work_unlock may be left
\* that would release a second time.
SyncInv ==
    /\ timer = {} /\ "unlock" \notin works /\ cmd.cb # "try"
    /\ sem > 0 => sem = 1 /\ waitq = <<>>
    /\ CmdLockHeld
    /\ \A i \in 1 .. Len(waitq) : pc[waitq[i]] = "queued"
    /\ \A i, j \in 1 .. Len(waitq) : waitq[i] = waitq[j] => i = j

LEMMA SyncQuietStep ==
    ASSUME TypeOK, SyncInv, TxStep \/ RxStep \/ FwStep \/ Resume
    PROVE  SyncInv'
<1>1. UNCHANGED <<sem, waitq, pc, timer>>
  BY DEF TxStep, TxStart, TxTake, TxXmit, TxSent, RxStep, RxAck, RxDeliver,
     FwStep, FwAnswer, FwCrash, BspAssert, BspReady, RecoveryPrepare,
     RecoveryClear, ModeOn, ModeOff, Resume
<1>2. cmd'.cb = cmd.cb
  BY DEF TxStep, TxStart, TxTake, TxXmit, TxSent, RxStep, RxAck, RxDeliver,
     FwStep, FwAnswer, FwCrash, BspAssert, BspReady, RecoveryPrepare,
     RecoveryClear, ModeOn, ModeOff, Resume, AbortCmd, CallBack, TypeOK, Slots
<1>0. cmd.cb # "try" /\ "unlock" \notin works
  BY DEF SyncInv
<1>3. "unlock" \notin works'
  <2>1. CASE TxStep
    BY <1>0, <2>1 DEF TxStep, TxStart, TxTake, TxXmit, TxSent, AbortCmd, CallBack
  <2>2. CASE RxStep
    BY <1>0, <2>2 DEF RxStep, RxAck, RxDeliver
  <2>3. CASE FwStep
    <3>1. AbortCmd => works' = works
      BY <1>0 DEF AbortCmd, CallBack
    <3>2. CASE BspAssert
      BY <1>0, <3>1, <3>2 DEF BspAssert
    <3>3. CASE \E m \in FwModes : ModeOn(m) \/ ModeOff(m)
      BY <1>0, <3>1, <3>3 DEF ModeOn, ModeOff
    <3>4. CASE \E m \in wire, status \in {0, 1} : FwAnswer(m, status)
      BY <1>0, <3>4 DEF FwAnswer
    <3>5. CASE FwCrash \/ BspReady \/ RecoveryPrepare \/ RecoveryClear
      BY <1>0, <3>5 DEF FwCrash, BspReady, RecoveryPrepare, RecoveryClear
    <3> QED
      BY <2>3, <3>2, <3>3, <3>4, <3>5 DEF FwStep
  <2>4. CASE Resume
    BY <1>0, <2>4 DEF Resume
  <2> QED
    BY <2>1, <2>2, <2>3, <2>4
<1> QED
  BY <1>1, <1>2, <1>3 DEF SyncInv, CmdLockHeld

\* A step of the owner that does not release: it stays the owner.
LEMMA SyncOwnerStep ==
    ASSUME TypeOK, SyncInv, NEW c \in Callers,
           CallSetCmd(c) \/ CallArm(c) \/ CallDone(c) \/ CallNudge(c) \/ CallTimeout(c)
    PROVE  SyncInv'
<1>1. PICK q \in Owning : pc[c] \in Owning /\ pc' = [pc EXCEPT ![c] = q]
  BY DEF CallSetCmd, CallArm, CallDone, CallNudge, CallTimeout, Owning
<1>2. UNCHANGED <<sem, waitq, timer>>
  BY DEF CallSetCmd, CallArm, CallDone, CallNudge, CallTimeout
<1>0. cmd.cb # "try" /\ "unlock" \notin works
  BY DEF SyncInv
<1>3. cmd'.cb # "try" /\ "unlock" \notin works'
  <2>1. "unlock" \notin works'
    BY <1>0 DEF CallSetCmd, CallArm, CallDone, CallNudge, CallTimeout
  <2>2. cmd'.cb # "try"
    <3>1. CASE CallSetCmd(c)
      BY <1>0, <3>1 DEF CallSetCmd, SetCmd
    <3>2. CASE CallArm(c)
      BY <3>2 DEF CallArm, TypeOK, Slots
    <3>3. CASE CallTimeout(c)
      BY <1>0, <3>3 DEF CallTimeout, TypeOK, Slots
    <3> QED
      BY <1>0, <3>1, <3>2, <3>3 DEF CallDone, CallNudge
  <2> QED
    BY <2>1, <2>2
<1>4. \A d \in Callers \cup TrySenders : pc'[d] \in Owning => pc[d] \in Owning
  BY <1>1 DEF TypeOK
<1>5. \A i \in 1 .. Len(waitq) : waitq[i] \in Callers /\ waitq[i] # c
  BY <1>1 DEF SyncInv, TypeOK, Owning
<1> QED
  BY <1>1, <1>2, <1>3, <1>4, <1>5 DEF SyncInv, CmdLockHeld, TypeOK

\* down(): takes the free lock, or joins the end of the queue.
LEMMA SyncDown ==
    ASSUME TypeOK, SyncInv, NEW c \in Callers, Down(c)
    PROVE  SyncInv'
<1>0. UNCHANGED <<timer, works, cmd>> /\ pc[c] = "down"
  BY DEF Down
<1>1. CASE sem > 0
  <2>1. sem = 1 /\ waitq = <<>> /\ sem' = 0 /\ waitq' = <<>>
    BY <1>1 DEF Down, SyncInv
  <2>2. pc' = [pc EXCEPT ![c] = "set"]
    BY <1>1 DEF Down
  <2>3. \A d \in Callers \cup TrySenders : pc'[d] \in Owning => d = c
    BY <2>1, <2>2 DEF SyncInv, CmdLockHeld, TypeOK
  <2> QED
    BY <1>0, <2>1, <2>3 DEF SyncInv, CmdLockHeld
<1>2. CASE ~(sem > 0)
  <2>1. waitq' = Append(waitq, c) /\ pc' = [pc EXCEPT ![c] = "queued"] /\ sem' = sem
    BY <1>2 DEF Down
  <2>2. \A d \in Callers \cup TrySenders : pc'[d] \in Owning => pc[d] \in Owning
    BY <2>1 DEF TypeOK, Owning
  <2>3. \A i \in 1 .. Len(waitq) : waitq[i] \in Callers /\ waitq[i] # c
    BY <1>0 DEF SyncInv, TypeOK
  <2>4. /\ Len(waitq') = Len(waitq) + 1 /\ waitq'[Len(waitq) + 1] = c
        /\ \A i \in 1 .. Len(waitq) : waitq'[i] = waitq[i]
    BY <2>1 DEF TypeOK
  <2>5. \A i \in 1 .. Len(waitq') : pc'[waitq'[i]] = "queued"
    BY <2>1, <2>3, <2>4 DEF SyncInv, TypeOK
  <2>6. \A i, j \in 1 .. Len(waitq') : waitq'[i] = waitq'[j] => i = j
    BY <2>3, <2>4 DEF SyncInv, TypeOK
  <2> QED
    BY <1>0, <1>2, <2>1, <2>2, <2>5, <2>6 DEF SyncInv, CmdLockHeld, TypeOK
<1> QED
  BY <1>1, <1>2

\* up() by the only owner: the count becomes one, or the oldest sleeper owns.
LEMMA SyncUnlock ==
    ASSUME TypeOK, SyncInv, NEW c \in Callers, CallUnlock(c)
    PROVE  SyncInv'
<1>0. UNCHANGED <<timer, works, cmd>> /\ pc[c] = "unlock"
  BY DEF CallUnlock
<1>1. sem = 0 /\ \A d \in Callers \cup TrySenders : pc[d] \in Owning => d = c
  BY <1>0 DEF SyncInv, CmdLockHeld, Owning
<1> DEFINE pcs == [pc EXCEPT ![c] = "idle"]
<1>2. \A d \in Callers \cup TrySenders : pcs[d] \notin Owning
  BY <1>1 DEF TypeOK, Owning
<1>3. CASE waitq = <<>>
  <2>1. sem' = 1 /\ waitq' = <<>> /\ pc' = pcs
    BY <1>1, <1>3 DEF CallUnlock, Up
  <2> QED
    BY <1>0, <1>2, <2>1 DEF SyncInv, CmdLockHeld
<1>4. CASE waitq # <<>>
  <2>1. sem' = 0 /\ waitq' = Tail(waitq) /\ pc' = [pcs EXCEPT ![waitq[1]] = "set"]
    BY <1>1, <1>4 DEF CallUnlock, Up, TypeOK
  <2>2. \A d \in Callers \cup TrySenders : pc'[d] \in Owning => d = waitq[1]
    BY <1>2, <2>1 DEF TypeOK
  <2>3. /\ Len(waitq') = Len(waitq) - 1
        /\ \A i \in 1 .. Len(waitq') : waitq'[i] = waitq[i + 1] /\ i + 1 \in 1 .. Len(waitq)
    BY <1>4, <2>1 DEF TypeOK
  <2>4. \A i \in 1 .. Len(waitq) : waitq[i] \in Callers /\ waitq[i] # c
    BY <1>0 DEF SyncInv, TypeOK
  <2>5. 1 \in 1 .. Len(waitq)
    BY <1>4 DEF TypeOK
  <2>6. \A i \in 1 .. Len(waitq') : waitq'[i] # waitq[1]
    BY <2>3, <2>5 DEF SyncInv, TypeOK
  <2>7. \A i \in 1 .. Len(waitq') : pc'[waitq'[i]] = "queued"
    BY <2>1, <2>3, <2>4, <2>6 DEF SyncInv, TypeOK
  <2>8. \A i, j \in 1 .. Len(waitq') : waitq'[i] = waitq'[j] => i = j
    BY <2>3 DEF SyncInv, TypeOK
  <2>9. CmdLockHeld'
    BY <2>1, <2>2 DEF CmdLockHeld
  <2>10. timer' = {} /\ "unlock" \notin works' /\ cmd'.cb # "try"
    BY <1>0 DEF SyncInv
  <2>11. sem' > 0 => sem' = 1 /\ waitq' = <<>>
    BY <2>1
  <2> QED
    BY <2>7, <2>8, <2>9, <2>10, <2>11 DEF SyncInv
<1> QED
  BY <1>3, <1>4

\* Call and Refuse do not touch the lock.
LEMMA SyncEnter ==
    ASSUME TypeOK, SyncInv, NEW c \in Callers, Call(c) \/ Refuse(c)
    PROVE  SyncInv'
<1>1. UNCHANGED <<sem, waitq, timer, works, cmd>>
  BY DEF Call, Refuse
<1>2. CASE Refuse(c)
  BY <1>1, <1>2 DEF Refuse, SyncInv, CmdLockHeld
<1>3. CASE Call(c)
  <2>1. pc[c] = "idle" /\ pc' = [pc EXCEPT ![c] = "down"]
    BY <1>3 DEF Call
  <2>2. \A d \in Callers \cup TrySenders : pc'[d] \in Owning => pc[d] \in Owning
    BY <2>1 DEF TypeOK, Owning
  <2>3. \A i \in 1 .. Len(waitq) : waitq[i] \in Callers /\ waitq[i] # c
    BY <2>1 DEF SyncInv, TypeOK
  <2> QED
    BY <1>1, <2>1, <2>2, <2>3 DEF SyncInv, CmdLockHeld, TypeOK
<1> QED
  BY <1>2, <1>3

LEMMA StepSync ==
    ASSUME TrySenders = {}, TypeOK, SyncInv, [Next]_vars
    PROVE  SyncInv'
<1>1. CASE UNCHANGED vars
  BY <1>1 DEF vars, SyncInv, CmdLockHeld
<1>2. CASE TimerStep \/ WorkUnlock
  BY <1>2 DEF SyncInv, TimerStep, TimerExpire, CmdTimeoutFn, WorkUnlock
<1>3. CASE WorkAssert
  <2>1. UNCHANGED <<sem, waitq, pc, timer, cmd>> /\ "unlock" \notin works'
    BY <1>3 DEF WorkAssert, SyncInv
  <2> QED
    BY <2>1 DEF SyncInv, CmdLockHeld
<1> QED
  BY <1>1, <1>2, <1>3, SyncQuietStep, SyncOwnerStep, SyncDown, SyncUnlock, SyncEnter
     DEF Next, CallerStep

\* If nobody uses skw_msg_try_send, every writer of the slot holds cmd.lock and
\* is the only one to do so.
THEOREM SyncMutex ==
    ASSUME TrySenders = {}
    PROVE  Spec => []CmdLockHeld
<1>1. Init => SyncInv
  BY DEF Init, SyncInv, CmdLockHeld, Owning
<1>2. TypeOK /\ SyncInv /\ [Next]_vars => SyncInv'
  BY StepSync
<1>3. SyncInv => CmdLockHeld
  BY DEF SyncInv
<1> QED
  BY <1>1, <1>2, <1>3, TypeCorrect, PTL DEF Spec
-----------------------------------------------------------------------------
(* Success means an answer to this very command.                           *)

Busy == {"arm", "wait1", "wait2"}
SlotBusy == \E c \in Callers : pc[c] \in Busy
\* the slot may still be put on the bus
ToSend == \/ "XMIT" \in cmd.flags \/ txPc = "xmit"
          \/ \E c \in Callers : pc[c] = "arm"
\* the owner waits and nothing has completed its command
Open == SlotBusy /\ "DONE" \notin cmd.flags /\ "NO_ACK" \notin cmd.flags
Stopped == "FW_ASSERT" \in skwFlags

HitInv  == \A c \in Callers \ Suspenders : pc[c] # "idle" /\ c \notin hit => skwFlags = {}
FwInv   == /\ fw \in {"down", "ready", "prepared"} => Stopped
           /\ Stopped => fw # "up"
           /\ fw # "up" => wire = {} /\ acks = {}
FlagInv == \A c \in Callers \ Suspenders : pc[c] \in Busy =>
             "NO_ACK" \notin cmd.flags /\ "IGNORE_BLOCK_TX" \notin cmd.flags
SeqInv  == \A a \in wire \cup acks : a.tok - a.seq = cmd.tok - cmd.seq /\ a.tok <= cmd.tok
HdrInv  == fw = "up" /\ ToSend => cmd.hdr = cmd.seq
RxInv   == rx # NoRx => Stopped \/ (rx.tok = cmd.tok /\ "ACKED" \in cmd.flags /\ Open)
OpenInv == \A a \in wire \cup acks : a.tok = cmd.tok /\ "ACKED" \notin cmd.flags => Open
SendInv == ToSend /\ ("DONE" \in cmd.flags \/ ~SlotBusy) =>
             "ACKED" \in cmd.flags \/ "NO_ACK" \in cmd.flags \/ Stopped
DoneInv == \A c \in Callers \ Suspenders :
             pc[c] \in Busy /\ c \notin hit /\ "DONE" \in cmd.flags => cmd.by = cmd.tok

AnswerInv == /\ HitInv /\ FwInv /\ FlagInv /\ SeqInv /\ HdrInv /\ RxInv /\ OpenInv
             /\ SendInv /\ DoneInv /\ SuccessMeansAnswered

\* What can happen when nobody uses skw_msg_try_send.
SyncNext == \/ \E c \in Callers : Call(c) \/ Refuse(c) \/ CallerStep(c)
            \/ WorkAssert \/ TxStep \/ RxStep \/ FwStep \/ Resume
FillsSlot == \E c \in Callers : CallSetCmd(c)

LEMMA SyncSteps ==
    ASSUME TrySenders = {}, SyncInv, Next
    PROVE  SyncNext
BY DEF SyncInv, Next, SyncNext, TimerStep, TimerExpire, CmdTimeoutFn, WorkUnlock

\* A command handed to the tx worker is not forgotten, try-senders or not.
LEMMA StepXmit == TypeOK /\ XmitNotForgotten /\ [Next]_vars => XmitNotForgotten'
<1> SUFFICES ASSUME TypeOK, XmitNotForgotten, [Next]_vars PROVE XmitNotForgotten'
  OBVIOUS
<1> USE DEF XmitNotForgotten
<1>0. CASE UNCHANGED vars
  BY <1>0 DEF vars
<1>1. ASSUME NEW c \in Callers, Call(c) \/ Refuse(c) \/ CallerStep(c)
      PROVE  XmitNotForgotten'
  <2>1. CASE CallSetCmd(c)
    BY <2>1 DEF CallSetCmd, SetCmd, ExtraFlags
  <2>2. CASE CallArm(c)
    BY <2>2 DEF CallArm
  <2>3. CASE CallTimeout(c)
    BY <2>3 DEF CallTimeout, TypeOK, Slots
  <2> QED
    BY <1>1, <2>1, <2>2, <2>3 DEF Call, Refuse, CallerStep, Down, CallDone, CallNudge, CallUnlock
<1>2. ASSUME NEW t \in TrySenders, TryLock(t) \/ TryStep(t)
      PROVE  XmitNotForgotten'
  BY <1>2 DEF TryLock, TryStep, TrySetCmd, TryArm, SetCmd
<1>3. CASE TimerStep \/ WorkUnlock \/ WorkAssert
  BY <1>3 DEF TimerStep, TimerExpire, CmdTimeoutFn, WorkUnlock, WorkAssert
<1>4. CASE TxStep
  <2>1. CASE TxStart
    BY <2>1 DEF TxStart
  <2>2. CASE TxTake
    BY <2>2 DEF TxTake, TypeOK, Slots
  <2>3. CASE TxXmit \/ TxSent
    BY <2>3 DEF TxXmit, TxSent
  <2> QED
    BY <1>4, <2>1, <2>2, <2>3 DEF TxStep
<1>5. CASE RxStep \/ FwStep \/ Resume
  <2>1. cmd \in Slots
    BY DEF TypeOK
  <2>2. AbortCmd => ("XMIT" \in cmd'.flags => "XMIT" \in cmd.flags)
    <3>1. CASE UNCHANGED <<cmd, works>>
      BY <3>1
    <3>2. CASE CallBack(cmd.flags \cup {"ACKED"}, NoTok)
      <4>1. \E f \in {cmd.flags \cup {"ACKED"}, cmd.flags \cup {"ACKED"} \cup {"DONE"}} :
              cmd' = [cmd EXCEPT !.flags = f, !.by = NoTok]
        BY <3>2 DEF CallBack
      <4> QED
        BY <2>1, <4>1 DEF Slots
    <3> QED
      BY <3>1, <3>2 DEF AbortCmd
  <2>3. "XMIT" \in cmd'.flags => "XMIT" \in cmd.flags
    <3>1. CASE RxStep
      <4>1. \/ \E f \in {cmd.flags, cmd.flags \cup {"ACKED"}} : cmd' = [cmd EXCEPT !.flags = f]
            \/ \E f \in {cmd.flags, cmd.flags \cup {"DONE"}} :
                 cmd' = [cmd EXCEPT !.flags = f, !.status = rx.status, !.by = rx.tok]
        BY <2>1, <3>1 DEF RxStep, RxAck, RxDeliver, Slots
      <4>2. CASE \E f \in {cmd.flags, cmd.flags \cup {"ACKED"}} : cmd' = [cmd EXCEPT !.flags = f]
        BY <2>1, <4>2 DEF Slots
      <4>3. CASE \E f \in {cmd.flags, cmd.flags \cup {"DONE"}} :
                   cmd' = [cmd EXCEPT !.flags = f, !.status = rx.status, !.by = rx.tok]
        BY <2>1, <4>3 DEF Slots
      <4> QED
        BY <4>1, <4>2, <4>3
    <3>2. CASE FwStep
      <4>1. cmd' = cmd \/ AbortCmd \/ cmd' = [cmd EXCEPT !.seq = 0]
        BY <3>2 DEF FwStep, FwAnswer, FwCrash, BspAssert, BspReady, RecoveryPrepare,
           RecoveryClear, ModeOn, ModeOff
      <4> QED
        BY <2>1, <2>2, <4>1 DEF Slots
    <3> QED
      BY <1>5, <3>1, <3>2 DEF Resume
  <2>4. txPc' = txPc
    BY <1>5 DEF RxStep, RxAck, RxDeliver,
       FwStep, FwAnswer, FwCrash, BspAssert, BspReady, RecoveryPrepare,
       RecoveryClear, ModeOn, ModeOff, Resume
  <2>5. "tx" \in works => "tx" \in works'
    BY <1>5 DEF RxStep, RxAck, RxDeliver,
       FwStep, FwAnswer, FwCrash, BspAssert, BspReady, RecoveryPrepare,
       RecoveryClear, ModeOn, ModeOff, Resume, AbortCmd, CallBack
  <2> QED
    BY <2>3, <2>4, <2>5
<1> QED
  BY <1>0, <1>1, <1>2, <1>3, <1>4, <1>5 DEF Next

\* The slot still holds the same command, completed or not.
SameCommand ==
    /\ cmd'.tok = cmd.tok /\ cmd'.hdr = cmd.hdr /\ cmd'.cb \in {cmd.cb, "sync"}
    /\ "NO_ACK" \in cmd'.flags <=> "NO_ACK" \in cmd.flags
    /\ "IGNORE_BLOCK_TX" \in cmd'.flags <=> "IGNORE_BLOCK_TX" \in cmd.flags
    /\ "ACKED" \in cmd.flags => "ACKED" \in cmd'.flags

LEMMA CallBackSame ==
    ASSUME cmd \in Slots, cmd.cb # "try", NEW by \in Toks,
           CallBack(cmd.flags \cup {"ACKED"}, by) \/ CallBack(cmd.flags \cup {"DONE"}, by)
    PROVE  /\ SameCommand /\ cmd'.seq = cmd.seq /\ works' = works
           /\ "XMIT" \in cmd'.flags <=> "XMIT" \in cmd.flags
<1>1. PICK f \in {"ACKED", "DONE"} : CallBack(cmd.flags \cup {f}, by)
  OBVIOUS
<1>2. works' = works
  BY <1>1 DEF CallBack
<1>3. cmd.flags \in SUBSET CmdFlags
  BY DEF Slots
<1>4. CASE cmd.cb = "sync"
  <2>1. cmd' = [cmd EXCEPT !.flags = cmd.flags \cup {f} \cup {"DONE"}, !.by = by]
    BY <1>1, <1>4 DEF CallBack
  <2> QED
    BY <1>2, <1>3, <2>1 DEF SameCommand, Slots
<1>5. CASE cmd.cb # "sync"
  <2>1. cmd' = [cmd EXCEPT !.flags = cmd.flags \cup {f}, !.by = by]
    BY <1>1, <1>5 DEF CallBack
  <2> QED
    BY <1>2, <1>3, <2>1 DEF SameCommand, Slots
<1> QED
  BY <1>4, <1>5

LEMMA AbortSame ==
    ASSUME cmd \in Slots, cmd.cb # "try", AbortCmd
    PROVE  /\ SameCommand /\ cmd'.seq = cmd.seq /\ works' = works
           /\ "XMIT" \in cmd'.flags <=> "XMIT" \in cmd.flags
           /\ "DONE" \in cmd'.flags /\ "DONE" \notin cmd.flags => "ACKED" \in cmd'.flags
<1>1. CASE sem = 0 /\ "ACKED" \notin cmd.flags
  <2>1. CallBack(cmd.flags \cup {"ACKED"}, NoTok) /\ NoTok \in Toks
    BY <1>1 DEF AbortCmd, NoTok, Toks
  <2>2. "ACKED" \in cmd'.flags
    BY <2>1 DEF CallBack, Slots
  <2> QED
    BY <2>1, <2>2, CallBackSame
<1>2. CASE ~(sem = 0 /\ "ACKED" \notin cmd.flags)
  BY <1>2 DEF AbortCmd, SameCommand
<1> QED
  BY <1>1, <1>2

SlotKeptBy == SameCommand /\ (cmd'.seq = cmd.seq \/ RecoveryPrepare)

\* What a step leaves of the slot, unless it fills the slot for the next command.
LEMMA SlotKept ==
    ASSUME TypeOK, SyncInv, SyncNext, ~FillsSlot
    PROVE  SlotKeptBy
<1>0. cmd \in Slots /\ cmd.cb # "try" /\ NoTok \in Toks /\ rx \in Acks
  BY DEF TypeOK, SyncInv, NoTok, Toks
<1>00. cmd' = cmd => SlotKeptBy
  BY DEF SameCommand, SlotKeptBy
<1>1. ASSUME NEW c \in Callers, Call(c) \/ Refuse(c) \/ CallerStep(c)
      PROVE  SlotKeptBy
  <2>1. ~CallSetCmd(c)
    BY DEF FillsSlot
  <2>2. CASE CallTimeout(c)
    BY <1>0, <2>2 DEF CallTimeout, Slots, SameCommand, SlotKeptBy
  <2>3. CASE CallArm(c)
    BY <1>0, <2>3 DEF CallArm, Slots, SameCommand, SlotKeptBy
  <2> QED
    BY <1>00, <1>1, <2>1, <2>2, <2>3 DEF Call, Refuse, CallerStep, Down, CallDone, CallNudge, CallUnlock
<1>2. CASE TxStep
  <2>1. CASE TxStart
    BY <1>00, <2>1 DEF TxStart
  <2>2. CASE TxTake
    BY <1>0, <2>2 DEF TxTake, Slots, SameCommand, SlotKeptBy
  <2>3. CASE TxXmit
    BY <1>0, <1>00, <2>3, AbortSame DEF TxXmit, SlotKeptBy
  <2>4. CASE TxSent
    BY <1>0, <1>00, <2>4, CallBackSame DEF TxSent, SlotKeptBy
  <2> QED
    BY <1>2, <2>1, <2>2, <2>3, <2>4 DEF TxStep
<1>3. CASE RxStep
  <2>1. CASE \E a \in acks, short \in BOOLEAN : RxAck(a, short)
    <3>1. cmd' = cmd \/ cmd' = [cmd EXCEPT !.flags = @ \cup {"ACKED"}]
      BY <2>1 DEF RxAck
    <3> QED
      BY <1>0, <1>00, <3>1 DEF Slots, SameCommand, SlotKeptBy
  <2>2. CASE RxDeliver
    <3>1. \E f \in {cmd.flags, cmd.flags \cup {"DONE"}} :
            cmd' = [cmd EXCEPT !.flags = f, !.status = rx.status, !.by = rx.tok]
      BY <2>2 DEF RxDeliver
    <3> QED
      BY <1>0, <3>1 DEF Slots, SameCommand, SlotKeptBy
  <2> QED
    BY <1>3, <2>1, <2>2 DEF RxStep
<1>4. CASE FwStep
  <2>1. CASE RecoveryPrepare
    BY <1>0, <2>1 DEF RecoveryPrepare, Slots, SameCommand, SlotKeptBy
  <2>2. CASE BspAssert
    BY <1>0, <2>2, AbortSame DEF BspAssert, SlotKeptBy
  <2>3. CASE \E m \in FwModes : ModeOn(m) \/ ModeOff(m)
    BY <1>0, <1>00, <2>3, AbortSame DEF ModeOn, ModeOff, SlotKeptBy
  <2>4. CASE \/ \E m \in wire, status \in {0, 1} : FwAnswer(m, status)
             \/ FwCrash \/ BspReady \/ RecoveryClear
    BY <1>00, <2>4 DEF FwAnswer, FwCrash, BspReady, RecoveryClear
  <2> QED
    BY <1>4, <2>1, <2>2, <2>3, <2>4 DEF FwStep
<1>5. CASE WorkAssert \/ Resume
  BY <1>00, <1>5 DEF WorkAssert, Resume
<1> QED
  BY <1>1, <1>2, <1>3, <1>4, <1>5 DEF SyncNext

\* Who enters and who leaves the wait for an answer.
LEMMA BusyKept ==
    ASSUME TypeOK, SyncInv, SyncNext
    PROVE  /\ \A c \in Callers : pc'[c] \in Busy => pc[c] \in Busy \/ CallSetCmd(c)
           /\ \A c \in Callers : pc[c] \in Busy /\ pc'[c] \notin Busy =>
                "DONE" \in cmd.flags \/ Stopped'
           /\ \A c \in Callers : pc'[c] = "arm" => pc[c] = "arm" \/ CallSetCmd(c)
           /\ \A c \in Callers : pc'[c] # "idle" => pc[c] # "idle" \/ Call(c)
<1>0. pc \in [Callers \cup TrySenders -> CallPcs]
  BY DEF TypeOK
<1>1. CASE TxStep \/ RxStep \/ FwStep \/ Resume \/ WorkAssert
  <2>1. pc' = pc
    BY <1>1 DEF TxStep, TxStart, TxTake, TxXmit, TxSent, RxStep, RxAck, RxDeliver,
     FwStep, FwAnswer, FwCrash, BspAssert, BspReady, RecoveryPrepare,
     RecoveryClear, ModeOn, ModeOff, Resume, WorkAssert
  <2> QED
    BY <2>1
<1>2. ASSUME NEW c \in Callers, Call(c) \/ Refuse(c) \/ Down(c)
      PROVE  /\ \A d \in Callers : pc'[d] \in Busy => pc[d] \in Busy
             /\ \A d \in Callers : pc[d] \in Busy => pc'[d] \in Busy
             /\ \A d \in Callers : pc'[d] = "arm" => pc[d] = "arm"
             /\ \A d \in Callers : pc'[d] # "idle" => pc[d] # "idle" \/ Call(d)
  BY <1>0, <1>2 DEF Call, Refuse, Down, Busy
<1>3. ASSUME NEW c \in Callers, CallSetCmd(c) \/ CallArm(c) \/ CallNudge(c)
      PROVE  /\ \A d \in Callers : pc'[d] \in Busy => pc[d] \in Busy \/ CallSetCmd(d)
             /\ \A d \in Callers : pc[d] \in Busy => pc'[d] \in Busy
             /\ \A d \in Callers : pc'[d] = "arm" => pc[d] = "arm" \/ CallSetCmd(d)
             /\ \A d \in Callers : pc'[d] # "idle" => pc[d] # "idle"
  BY <1>0, <1>3 DEF CallSetCmd, CallArm, CallNudge, Busy
<1>4. ASSUME NEW c \in Callers, CallDone(c)
      PROVE  /\ \A d \in Callers : pc'[d] \in Busy => pc[d] \in Busy
             /\ "DONE" \in cmd.flags
             /\ \A d \in Callers : pc'[d] = "arm" => pc[d] = "arm"
             /\ \A d \in Callers : pc'[d] # "idle" => pc[d] # "idle"
  BY <1>0, <1>4 DEF CallDone, Busy
<1>5. ASSUME NEW c \in Callers, CallTimeout(c)
      PROVE  /\ \A d \in Callers : pc'[d] \in Busy => pc[d] \in Busy
             /\ Stopped'
             /\ \A d \in Callers : pc'[d] = "arm" => pc[d] = "arm"
             /\ \A d \in Callers : pc'[d] # "idle" => pc[d] # "idle"
  <2>1. Stopped'
    BY <1>5 DEF CallTimeout, HwAssert, Block, Stopped
  <2> QED
    BY <1>0, <1>5, <2>1 DEF CallTimeout, Busy
<1>6. ASSUME NEW c \in Callers, CallUnlock(c)
      PROVE  /\ \A d \in Callers : pc'[d] \in Busy => pc[d] \in Busy
             /\ \A d \in Callers : pc[d] \in Busy => pc'[d] \in Busy
             /\ \A d \in Callers : pc'[d] = "arm" => pc[d] = "arm"
             /\ \A d \in Callers : pc'[d] # "idle" => pc[d] # "idle"
  <2>1. CASE waitq = <<>>
    BY <1>0, <1>6, <2>1 DEF CallUnlock, Up, Busy
  <2>2. CASE waitq # <<>>
    <3>1. 1 \in 1 .. Len(waitq) /\ Head(waitq) = waitq[1] /\ waitq[1] \in Callers
      BY <2>2 DEF TypeOK
    <3>2. pc[Head(waitq)] = "queued" /\ Head(waitq) \in Callers
      BY <3>1 DEF SyncInv
    <3>3. pc' = [pc EXCEPT ![c] = "idle", ![Head(waitq)] = "set"]
      BY <1>0, <1>6, <2>2, <3>2 DEF CallUnlock, Up
    <3> QED
      BY <1>0, <1>6, <3>2, <3>3 DEF CallUnlock, Busy
  <2> QED
    BY <2>1, <2>2
<1> QED
  BY <1>1, <1>2, <1>3, <1>4, <1>5, <1>6 DEF SyncNext, CallerStep

\* HitInv: a call that nothing blocked finds no bit set in skw->flags.
LEMMA HitStep ==
    ASSUME TypeOK, SyncInv, HitInv, SyncNext
    PROVE  HitInv'
<1>1. ASSUME NEW c \in Callers, Call(c)
      PROVE  HitInv'
  <2>1. CASE c \in Suspenders
    BY <1>1, <2>1 DEF Call, Block, HitInv
  <2>2. CASE c \notin Suspenders
    <3>1. skwFlags' = {}
      BY <1>1, <2>2 DEF Call, CmdTxAllowed, ExtraFlags
    <3> QED
      BY <3>1 DEF HitInv
  <2> QED
    BY <2>1, <2>2
<1>2. CASE hit' = Callers
  BY <1>2 DEF HitInv
<1>3. CASE /\ hit' = hit /\ skwFlags' \subseteq skwFlags
           /\ \A c \in Callers : ~Call(c)
  <2>1. \A c \in Callers : pc'[c] # "idle" => pc[c] # "idle"
    BY <1>3, BusyKept
  <2> QED
    BY <1>3, <2>1 DEF HitInv
<1>4. ASSUME NEW c \in Callers, Refuse(c) \/ CallerStep(c)
      PROVE  hit' = Callers \/ (hit' = hit /\ skwFlags' \subseteq skwFlags)
  BY <1>4 DEF Refuse, CallerStep, Down, CallSetCmd, CallArm, CallDone, CallNudge, CallTimeout,
     CallUnlock, HwAssert, Block
<1>5. CASE WorkAssert \/ TxStep \/ RxStep \/ FwStep \/ Resume
  <2>1. hit' = Callers \/ (hit' = hit /\ skwFlags' \subseteq skwFlags)
    BY <1>5 DEF TxStep, TxStart, TxTake, TxXmit, TxSent, RxStep, RxAck, RxDeliver,
     FwStep, FwAnswer, FwCrash, BspAssert, BspReady, RecoveryPrepare,
     RecoveryClear, ModeOn, ModeOff, Resume, WorkAssert, HwAssert, Block
  <2> QED
    BY <1>1, <1>2, <1>3, <2>1
<1> QED
  BY <1>1, <1>2, <1>3, <1>4, <1>5 DEF SyncNext

\* FwInv: FW_ASSERT is set while the firmware is down, and only then; a firmware
\* that is not up has no command and no answer on its way.
LEMMA FwStepInv ==
    ASSUME TypeOK, FwInv, SyncNext
    PROVE  FwInv'
<1>1. CASE HwAssert
  BY <1>1 DEF HwAssert, Block, FwInv, Stopped, TypeOK
<1>2. CASE UNCHANGED <<fw, wire, acks>> /\ (Stopped' <=> Stopped)
  BY <1>2 DEF FwInv, Stopped
<1>3. ASSUME NEW c \in Callers, Call(c) \/ Refuse(c) \/ CallerStep(c)
      PROVE  FwInv'
  <2>1. CASE CallTimeout(c)
    BY <1>1, <2>1 DEF CallTimeout
  <2>2. CASE Call(c)
    BY <1>2, <2>2 DEF Call, Block, Stopped
  <2>3. CASE Refuse(c)
    BY <1>2, <2>3 DEF Refuse, Stopped
  <2>4. CASE CallDone(c)
    BY <1>2, <2>4 DEF CallDone, Stopped
  <2>5. CASE Down(c) \/ CallSetCmd(c) \/ CallArm(c) \/ CallNudge(c) \/ CallUnlock(c)
    BY <1>2, <2>5 DEF Down, CallSetCmd, CallArm, CallNudge, CallUnlock, Stopped
  <2> QED
    BY <1>3, <2>1, <2>2, <2>3, <2>4, <2>5 DEF CallerStep
<1>4. CASE WorkAssert
  BY <1>1, <1>4 DEF WorkAssert
<1>5. CASE TxStep
  <2>1. CASE TxXmit
    <3>1. fw' = fw /\ acks' = acks /\ skwFlags' = skwFlags /\ (wire' # wire => fw = "up")
      BY <2>1 DEF TxXmit
    <3> QED
      BY <3>1 DEF FwInv, Stopped
  <2>2. CASE TxStart \/ TxTake \/ TxSent
    BY <1>2, <2>2 DEF TxStart, TxTake, TxSent, Stopped
  <2> QED
    BY <1>5, <2>1, <2>2 DEF TxStep
<1>6. CASE RxStep
  BY <1>6 DEF RxStep, RxAck, RxDeliver, FwInv, Stopped
<1>7. CASE FwStep
  <2>1. CASE \E m \in wire, status \in {0, 1} : FwAnswer(m, status)
    BY <2>1 DEF FwAnswer, FwInv, Stopped
  <2>2. CASE FwCrash
    BY <2>2 DEF FwCrash, FwInv, Stopped
  <2>3. CASE BspAssert
    BY <2>3 DEF BspAssert, Block, FwInv, Stopped
  <2>4. CASE BspReady \/ RecoveryPrepare
    BY <2>4 DEF BspReady, RecoveryPrepare, FwInv, Stopped
  <2>5. CASE RecoveryClear
    BY <2>5 DEF RecoveryClear, FwInv, Stopped
  <2>6. CASE \E m \in FwModes : ModeOn(m) \/ ModeOff(m)
    BY <1>2, <2>6, FwModesAssumption DEF ModeOn, ModeOff, Block, Stopped
  <2> QED
    BY <1>7, <2>1, <2>2, <2>3, <2>4, <2>5, <2>6 DEF FwStep
<1>8. CASE Resume
  BY <1>2, <1>8 DEF Resume, Stopped
<1> QED
  BY <1>3, <1>4, <1>5, <1>6, <1>7, <1>8 DEF SyncNext

\* Only filling the slot gives the tx worker something new to send.
LEMMA ToSendKept ==
    ASSUME TypeOK, SyncInv, SyncNext, ~FillsSlot, ToSend'
    PROVE  ToSend
<1>0. cmd \in Slots /\ cmd.cb # "try" /\ NoTok \in Toks
  BY DEF TypeOK, SyncInv, NoTok, Toks
<1>1. (\E c \in Callers : pc'[c] = "arm") => ToSend
  BY BusyKept DEF FillsSlot, ToSend
<1>2. CASE cmd' = cmd /\ (txPc' = "xmit" => ToSend)
  BY <1>1, <1>2 DEF ToSend
<1>3. CASE ("XMIT" \in cmd'.flags => ToSend) /\ txPc' = txPc
  BY <1>1, <1>3 DEF ToSend
<1>4. ASSUME NEW c \in Callers, Call(c) \/ Refuse(c) \/ CallerStep(c)
      PROVE  ToSend
  <2>1. CASE CallArm(c)
    BY <2>1 DEF CallArm, ToSend
  <2>2. CASE CallTimeout(c)
    BY <1>0, <1>3, <2>2 DEF CallTimeout, ToSend, Slots
  <2>3. CASE CallSetCmd(c)
    BY <2>3 DEF FillsSlot
  <2> QED
    BY <1>2, <1>4, <2>1, <2>2, <2>3 DEF Call, Refuse, CallerStep, Down, CallDone, CallNudge,
       CallUnlock, ToSend
<1>5. CASE TxStep
  <2>1. CASE TxStart
    BY <1>2, <2>1 DEF TxStart
  <2>2. CASE TxTake
    BY <1>0, <1>1, <2>2 DEF TxTake, ToSend, Slots
  <2>3. CASE TxXmit
    BY <2>3 DEF TxXmit, ToSend
  <2>4. CASE TxSent
    <3>1. "XMIT" \in cmd'.flags => "XMIT" \in cmd.flags
      BY <1>0, <2>4, CallBackSame DEF TxSent
    <3> QED
      BY <1>1, <2>4, <3>1 DEF TxSent, ToSend
  <2> QED
    BY <1>5, <2>1, <2>2, <2>3, <2>4 DEF TxStep
<1>6. CASE RxStep
  <2>1. \/ \E f \in {cmd.flags, cmd.flags \cup {"ACKED"}} : cmd' = [cmd EXCEPT !.flags = f]
        \/ \E f \in {cmd.flags, cmd.flags \cup {"DONE"}} :
             cmd' = [cmd EXCEPT !.flags = f, !.status = rx.status, !.by = rx.tok]
    BY <1>0, <1>6 DEF RxStep, RxAck, RxDeliver, Slots
  <2>2. "XMIT" \in cmd'.flags => "XMIT" \in cmd.flags
    <3>1. CASE \E f \in {cmd.flags, cmd.flags \cup {"ACKED"}} : cmd' = [cmd EXCEPT !.flags = f]
      BY <1>0, <3>1 DEF Slots
    <3>2. CASE \E f \in {cmd.flags, cmd.flags \cup {"DONE"}} :
                 cmd' = [cmd EXCEPT !.flags = f, !.status = rx.status, !.by = rx.tok]
      BY <1>0, <3>2 DEF Slots
    <3> QED
      BY <2>1, <3>1, <3>2
  <2>3. txPc' = txPc
    BY <1>6 DEF RxStep, RxAck, RxDeliver
  <2> QED
    BY <1>3, <2>2, <2>3 DEF ToSend
<1>7. CASE FwStep
  <2>1. cmd' = cmd \/ AbortCmd \/ cmd' = [cmd EXCEPT !.seq = 0]
    BY <1>7 DEF FwStep, FwAnswer, FwCrash, BspAssert, BspReady, RecoveryPrepare,
       RecoveryClear, ModeOn, ModeOff
  <2>2. "XMIT" \in cmd'.flags => "XMIT" \in cmd.flags
    BY <1>0, <2>1, AbortSame DEF Slots
  <2>3. txPc' = txPc
    BY <1>7 DEF FwStep, FwAnswer, FwCrash, BspAssert, BspReady, RecoveryPrepare,
       RecoveryClear, ModeOn, ModeOff
  <2> QED
    BY <1>3, <2>2, <2>3 DEF ToSend
<1>8. CASE WorkAssert \/ Resume
  BY <1>2, <1>8 DEF WorkAssert, Resume, ToSend
<1> QED
  BY <1>4, <1>5, <1>6, <1>7, <1>8 DEF SyncNext

\* Only the end of the recovery brings the firmware up.
LEMMA UpAgain ==
    ASSUME TypeOK, SyncNext, ~RecoveryClear, fw' = "up"
    PROVE  fw = "up"
<1>1. CASE HwAssert
  BY <1>1 DEF HwAssert
<1>2. ASSUME NEW c \in Callers, Call(c) \/ Refuse(c) \/ CallerStep(c)
      PROVE  fw = "up"
  BY <1>1, <1>2 DEF Call, Refuse, CallerStep, Down, CallSetCmd, CallArm, CallDone, CallNudge,
     CallTimeout, CallUnlock
<1>3. CASE WorkAssert \/ TxStep \/ RxStep \/ FwStep \/ Resume
  BY <1>1, <1>3 DEF TxStep, TxStart, TxTake, TxXmit, TxSent, RxStep, RxAck, RxDeliver,
     FwStep, FwAnswer, FwCrash, BspAssert, BspReady, RecoveryPrepare,
     ModeOn, ModeOff, Resume, WorkAssert
<1> QED
  BY <1>2, <1>3 DEF SyncNext

\* FlagInv: SKW_CMD_FLAG_NO_ACK and IGNORE_BLOCK_TX belong to the suspend command.
LEMMA FlagStep ==
    ASSUME TypeOK, SyncInv, FlagInv, SyncNext
    PROVE  FlagInv'
<1>1. CASE FillsSlot
  <2>1. PICK d \in Callers : CallSetCmd(d)
    BY <1>1 DEF FillsSlot
  <2>2. \A c \in Callers : pc'[c] \in Busy => c = d
    BY <2>1 DEF CallSetCmd, SyncInv, CmdLockHeld, Owning, Busy, TypeOK
  <2>3. cmd'.flags = ExtraFlags(d)
    BY <2>1 DEF CallSetCmd, SetCmd
  <2> QED
    BY <2>2, <2>3 DEF FlagInv, ExtraFlags
<1>2. CASE ~FillsSlot
  <2>1. \A c \in Callers : pc'[c] \in Busy => pc[c] \in Busy
    BY <1>2, BusyKept DEF FillsSlot
  <2> QED
    BY <1>2, <2>1, SlotKept DEF FlagInv, SlotKeptBy, SameCommand
<1> QED
  BY <1>1, <1>2

\* HdrInv: the number in the header is the one the rx thread will compare, except
\* between the restart of the numbers and the end of the recovery.
LEMMA HdrStep ==
    ASSUME TypeOK, SyncInv, XmitNotForgotten, HdrInv, FwInv, SyncNext
    PROVE  HdrInv'
<1>1. CASE FillsSlot
  <2>1. cmd'.hdr = cmd'.seq
    BY <1>1 DEF FillsSlot, CallSetCmd, SetCmd
  <2> QED
    BY <2>1 DEF HdrInv
<1>2. CASE RecoveryClear
  <2>1. ~ToSend'
    BY <1>2 DEF RecoveryClear, Quiesced, ToSend, XmitNotForgotten
  <2> QED
    BY <2>1 DEF HdrInv
<1>3. CASE ~FillsSlot /\ ~RecoveryClear
  <2>1. ToSend' => ToSend
    BY <1>3, ToSendKept
  <2>2. fw' = "up" => fw = "up"
    BY <1>3, UpAgain
  <2>3. fw' = "up" => ~RecoveryPrepare
    BY DEF RecoveryPrepare
  <2> QED
    BY <1>3, <2>1, <2>2, <2>3, SlotKept DEF HdrInv, SlotKeptBy, SameCommand
<1> QED
  BY <1>1, <1>2, <1>3

\* Only the end of the recovery takes FW_ASSERT back.
LEMMA StoppedKept ==
    ASSUME SyncNext, ~RecoveryClear, Stopped
    PROVE  Stopped'
<1>1. ASSUME NEW c \in Callers, Call(c) \/ Refuse(c) \/ CallerStep(c)
      PROVE  Stopped'
  BY <1>1 DEF Call, Refuse, CallerStep, Down, CallSetCmd, CallArm, CallDone, CallNudge,
     CallTimeout, CallUnlock, HwAssert, Block, Stopped
<1>2. CASE WorkAssert \/ TxStep \/ RxStep \/ FwStep \/ Resume
  BY <1>2, FwModesAssumption
     DEF TxStep, TxStart, TxTake, TxXmit, TxSent, RxStep, RxAck, RxDeliver,
     FwStep, FwAnswer, FwCrash, BspAssert, BspReady, RecoveryPrepare,
     ModeOn, ModeOff, Resume, WorkAssert, HwAssert, Block, Stopped
<1> QED
  BY <1>1, <1>2 DEF SyncNext

\* A call that runs does not become untouched by a block again.
LEMMA HitKept ==
    ASSUME SyncNext, NEW c \in Callers, pc[c] # "idle", c \notin hit'
    PROVE  c \notin hit
<1>1. ASSUME NEW d \in Callers, Call(d) \/ Refuse(d) \/ CallerStep(d)
      PROVE  hit' = Callers \/ hit' = hit \/ (pc[d] = "idle" /\ hit' = hit \ {d})
  BY <1>1 DEF Call, Refuse, CallerStep, Down, CallSetCmd, CallArm, CallDone, CallNudge,
     CallTimeout, CallUnlock, HwAssert, Block
<1>2. CASE WorkAssert \/ TxStep \/ RxStep \/ FwStep \/ Resume
  <2>1. hit' = Callers \/ hit' = hit
    BY <1>2
     DEF TxStep, TxStart, TxTake, TxXmit, TxSent, RxStep, RxAck, RxDeliver,
     FwStep, FwAnswer, FwCrash, BspAssert, BspReady, RecoveryPrepare, RecoveryClear,
     ModeOn, ModeOff, Resume, WorkAssert, HwAssert, Block
  <2> QED
    BY <2>1
<1> QED
  BY <1>1, <1>2 DEF SyncNext

\* Where a command on the bus, or an answer, comes from.
LEMMA WireCause ==
    ASSUME TypeOK, SyncNext, NEW a \in wire' \cup acks'
    PROVE  \/ \E b \in wire \cup acks : b.tok = a.tok /\ b.seq = a.seq
           \/ /\ TxXmit /\ txPc = "xmit" /\ fw = "up" /\ CmdTxAllowed(cmd.flags)
              /\ "NO_ACK" \notin cmd.flags /\ a.seq = cmd.hdr /\ a.tok = cmd.tok
              /\ cmd' = cmd /\ pc' = pc
<1>1. CASE wire' \subseteq wire /\ acks' \subseteq acks
  BY <1>1
<1>2. CASE HwAssert
  BY <1>1, <1>2 DEF HwAssert
<1>3. ASSUME NEW c \in Callers, Call(c) \/ Refuse(c) \/ CallerStep(c)
      PROVE  (wire' \subseteq wire /\ acks' \subseteq acks) \/ HwAssert
  BY <1>3 DEF Call, Refuse, CallerStep, Down, CallSetCmd, CallArm, CallDone, CallNudge,
     CallTimeout, CallUnlock
<1>4. CASE TxXmit
  <2>1. CASE a \in wire \cup acks
    BY <2>1
  <2>2. CASE a \notin wire \cup acks
    BY <1>4, <2>2 DEF TxXmit
  <2> QED
    BY <2>1, <2>2
<1>5. CASE \E m \in wire, status \in {0, 1} : FwAnswer(m, status)
  <2>1. PICK m \in wire, status \in {0, 1} : FwAnswer(m, status)
    BY <1>5
  <2>2. a \in wire \cup acks \/ a = [m EXCEPT !.status = status]
    BY <2>1 DEF FwAnswer
  <2>3. m \in Acks
    BY DEF TypeOK
  <2> QED
    BY <2>2, <2>3 DEF Acks
<1>6. CASE WorkAssert
  BY <1>2, <1>6 DEF WorkAssert
<1>7. CASE \/ TxStart \/ TxTake \/ TxSent \/ RxStep \/ Resume
           \/ FwCrash \/ BspAssert \/ BspReady \/ RecoveryPrepare \/ RecoveryClear
           \/ \E m \in FwModes : ModeOn(m) \/ ModeOff(m)
  BY <1>1, <1>7 DEF TxStart, TxTake, TxSent, RxStep, RxAck, RxDeliver, Resume,
     FwCrash, BspAssert, BspReady, RecoveryPrepare, RecoveryClear, ModeOn, ModeOff
<1> QED
  BY <1>1, <1>2, <1>3, <1>4, <1>5, <1>6, <1>7 DEF SyncNext, TxStep, FwStep

\* Who completes a command.
LEMMA DoneCause ==
    ASSUME TypeOK, SyncInv, SyncNext, ~FillsSlot,
           cmd'.by # cmd.by \/ ("DONE" \in cmd'.flags /\ "DONE" \notin cmd.flags)
    PROVE  \/ TxSent /\ "NO_ACK" \in cmd.flags
           \/ rx # NoRx /\ rx' = NoRx /\ cmd'.by = rx.tok
           \/ /\ "ACKED" \notin cmd.flags /\ "ACKED" \in cmd'.flags
              /\ hit' = Callers \/ (TxXmit /\ ~CmdTxAllowed(cmd.flags))
<1>0. cmd \in Slots
  BY DEF TypeOK
<1>1. cmd' # cmd
  OBVIOUS
<1>2. AbortCmd => "ACKED" \notin cmd.flags /\ "ACKED" \in cmd'.flags
  <2>1. AbortCmd => "ACKED" \notin cmd.flags /\ CallBack(cmd.flags \cup {"ACKED"}, NoTok)
    BY <1>1 DEF AbortCmd
  <2>2. CallBack(cmd.flags \cup {"ACKED"}, NoTok) => "ACKED" \in cmd'.flags
    BY <1>0 DEF CallBack, Slots
  <2> QED
    BY <2>1, <2>2
<1>4. ASSUME NEW c \in Callers, Call(c) \/ Refuse(c) \/ CallerStep(c)
      PROVE  FALSE
  <2>1. CASE CallArm(c)
    <3>1. cmd' = [cmd EXCEPT !.cb = "sync", !.flags = @ \cup {"XMIT"}]
      BY <2>1 DEF CallArm
    <3> QED
      BY <1>0, <3>1 DEF Slots
  <2>2. CASE CallTimeout(c)
    <3>1. cmd' = [cmd EXCEPT !.flags = @ \cup {"ACKED"}]
      BY <2>2 DEF CallTimeout
    <3> QED
      BY <1>0, <3>1 DEF Slots
  <2> QED
    BY <1>1, <1>4, <2>1, <2>2 DEF FillsSlot, Call, Refuse, CallerStep, Down, CallDone, CallNudge,
       CallUnlock
<1>5. CASE TxStep
  <2>1. CASE TxTake
    <3>1. cmd' = [cmd EXCEPT !.flags = @ \ {"XMIT"}]
      BY <2>1 DEF TxTake
    <3> QED
      BY <1>0, <3>1 DEF Slots
  <2>2. CASE TxXmit
    BY <1>1, <1>2, <2>2 DEF TxXmit
  <2>3. CASE TxSent
    BY <1>1, <2>3 DEF TxSent
  <2> QED
    BY <1>1, <1>5, <2>1, <2>2, <2>3 DEF TxStep, TxStart
<1>6. CASE RxStep
  <2>1. CASE \E a \in acks, short \in BOOLEAN : RxAck(a, short)
    <3>1. cmd' = [cmd EXCEPT !.flags = @ \cup {"ACKED"}]
      BY <1>1, <2>1 DEF RxAck
    <3> QED
      BY <1>0, <3>1 DEF Slots
  <2>2. CASE RxDeliver
    <3>1. \E f \in {cmd.flags, cmd.flags \cup {"DONE"}} :
            cmd' = [cmd EXCEPT !.flags = f, !.status = rx.status, !.by = rx.tok]
      BY <2>2 DEF RxDeliver
    <3>2. cmd'.by = rx.tok
      BY <1>0, <3>1 DEF Slots
    <3> QED
      BY <2>2, <3>2 DEF RxDeliver
  <2> QED
    BY <1>6, <2>1, <2>2 DEF RxStep
<1>7. CASE FwStep
  <2>1. CASE RecoveryPrepare
    <3>1. cmd' = [cmd EXCEPT !.seq = 0]
      BY <2>1 DEF RecoveryPrepare
    <3> QED
      BY <1>0, <3>1 DEF Slots
  <2>2. CASE BspAssert
    BY <1>2, <2>2 DEF BspAssert, Block
  <2>3. CASE \E m \in FwModes : ModeOn(m) \/ ModeOff(m)
    BY <1>1, <1>2, <2>3 DEF ModeOn, ModeOff, Block
  <2> QED
    BY <1>1, <1>7, <2>1, <2>2, <2>3 DEF FwStep, FwAnswer, FwCrash, BspReady, RecoveryClear
<1>8. CASE WorkAssert \/ Resume
  BY <1>1, <1>8 DEF WorkAssert, Resume
<1> QED
  BY <1>4, <1>5, <1>6, <1>7, <1>8 DEF SyncNext

\* Filling the slot: its owner is the only one there, and no wire, answer or block
\* changes.
LEMMA Filled ==
    ASSUME TypeOK, SyncInv, FillsSlot
    PROVE  /\ ~SlotBusy /\ SlotBusy'
           /\ "DONE" \notin cmd'.flags
           /\ cmd'.tok = cmd.tok + 1 /\ cmd'.seq = cmd.seq + 1 /\ cmd'.hdr = cmd'.seq
           /\ UNCHANGED <<wire, acks, rx, fw, skwFlags, hit, txPc, result>>
<1>1. PICK c \in Callers : CallSetCmd(c)
  BY DEF FillsSlot
<1>2. ~SlotBusy
  BY <1>1 DEF CallSetCmd, SyncInv, CmdLockHeld, Owning, Busy, SlotBusy
<1>3. SlotBusy'
  BY <1>1 DEF CallSetCmd, TypeOK, Busy, SlotBusy
<1> QED
  BY <1>1, <1>2, <1>3 DEF CallSetCmd, SetCmd, ExtraFlags

\* SeqInv: an answer with the number of the command in the slot is its answer.
LEMMA SeqStep ==
    ASSUME TypeOK, TypeOK', SyncInv, FwInv, HdrInv, SeqInv, SyncNext
    PROVE  SeqInv'
<1>0. /\ \A a \in wire \cup acks \cup wire' \cup acks' : a.tok \in Nat /\ a.seq \in Nat
      /\ cmd.tok \in Nat /\ cmd.seq \in Nat /\ cmd.hdr \in Nat
  BY DEF TypeOK, Acks, Slots, Toks
<1>1. CASE FillsSlot
  BY <1>0, <1>1, Filled DEF SeqInv
<1>2. CASE RecoveryPrepare
  <2>1. wire' \cup acks' = {}
    BY <1>2 DEF RecoveryPrepare, FwInv
  <2> QED
    BY <2>1 DEF SeqInv
<1>3. CASE ~FillsSlot /\ ~RecoveryPrepare
  <2>1. cmd'.tok = cmd.tok /\ cmd'.seq = cmd.seq
    BY <1>3, SlotKept DEF SlotKeptBy, SameCommand
  <2> SUFFICES ASSUME NEW a \in wire' \cup acks'
               PROVE  a.tok - a.seq = cmd.tok - cmd.seq /\ a.tok <= cmd.tok
    BY <2>1 DEF SeqInv
  <2>2. CASE \E b \in wire \cup acks : b.tok = a.tok /\ b.seq = a.seq
    BY <1>0, <2>2 DEF SeqInv
  <2>3. CASE txPc = "xmit" /\ fw = "up" /\ a.seq = cmd.hdr /\ a.tok = cmd.tok
    <3>1. cmd.hdr = cmd.seq
      BY <2>3 DEF HdrInv, ToSend
    <3> QED
      BY <1>0, <2>3, <3>1
  <2> QED
    BY <2>2, <2>3, WireCause
<1> QED
  BY <1>1, <1>2, <1>3

\* OpenInv: while an answer to the command in the slot is to come, its owner waits
\* for it and nothing else completes the command.
LEMMA OpenStep ==
    ASSUME TypeOK, TypeOK', SyncInv, FwInv, FwInv', SeqInv, RxInv, OpenInv, SendInv, SyncNext
    PROVE  OpenInv'
<1> SUFFICES ASSUME NEW a \in wire' \cup acks', a.tok = cmd'.tok, "ACKED" \notin cmd'.flags
             PROVE  Open'
  BY DEF OpenInv
<1>1. CASE FillsSlot
  <2>1. a \in wire \cup acks /\ a.tok = cmd.tok + 1
    BY <1>1, Filled
  <2>2. a.tok \in Nat /\ cmd.tok \in Nat
    BY DEF TypeOK, Acks, Slots, Toks
  <2> QED
    BY <2>1, <2>2 DEF SeqInv
<1>2. CASE ~FillsSlot
  <2>1. /\ cmd'.tok = cmd.tok /\ "ACKED" \notin cmd.flags
        /\ "NO_ACK" \in cmd'.flags <=> "NO_ACK" \in cmd.flags
    BY <1>2, SlotKept DEF SlotKeptBy, SameCommand
  <2>2. CASE \E b \in wire \cup acks : b.tok = a.tok /\ b.seq = a.seq
    <3>1. Open /\ ~Stopped
      BY <2>1, <2>2 DEF OpenInv, FwInv
    <3>2. ~Stopped'
      BY DEF FwInv
    <3>3. "DONE" \notin cmd'.flags
      BY <1>2, <2>1, <3>1, DoneCause DEF Open, RxInv
    <3>4. SlotBusy'
      BY <3>1, <3>2, BusyKept DEF Open, SlotBusy
    <3> QED
      BY <2>1, <3>1, <3>3, <3>4 DEF Open
  <2>3. CASE /\ txPc = "xmit" /\ fw = "up" /\ "NO_ACK" \notin cmd.flags
             /\ cmd' = cmd /\ pc' = pc
    BY <2>1, <2>3 DEF SendInv, ToSend, FwInv, Open, SlotBusy
  <2> QED
    BY <2>2, <2>3, WireCause
<1> QED
  BY <1>1, <1>2

\* RxInv: an answer the rx thread is delivering belongs to the command in the slot,
\* unless the firmware was asserted meanwhile.
LEMMA RxInvStep ==
    ASSUME TypeOK, SyncInv, SeqInv, RxInv, OpenInv, SyncNext
    PROVE  RxInv'
<1> SUFFICES ASSUME rx' # NoRx
             PROVE  Stopped' \/ (rx'.tok = cmd'.tok /\ "ACKED" \in cmd'.flags /\ Open')
  BY DEF RxInv
<1>1. CASE rx' # rx
  <2>1. PICK a \in acks, short \in BOOLEAN : RxAck(a, short)
    BY <1>1 DEF SyncNext, Call, Refuse, CallerStep, Down, CallSetCmd, CallArm, CallDone, CallNudge,
     CallTimeout, CallUnlock, WorkAssert, TxStep, TxStart, TxTake, TxXmit, TxSent, RxStep, RxDeliver,
     FwStep, FwAnswer, FwCrash, BspAssert, BspReady, RecoveryPrepare, RecoveryClear,
     ModeOn, ModeOff, Resume
  <2>2. rx' = a /\ AckMatches(a) /\ cmd' = [cmd EXCEPT !.flags = @ \cup {"ACKED"}] /\ pc' = pc
    BY <2>1 DEF RxAck
  <2>3. a.tok = cmd.tok /\ "ACKED" \notin cmd.flags
    <3>1. /\ a.tok \in Nat /\ a.seq \in Nat /\ cmd.tok \in Nat /\ cmd.seq \in Nat
      BY DEF TypeOK, Acks, Slots, Toks
    <3> QED
      BY <2>2, <3>1 DEF SeqInv, AckMatches
  <2>4. Open
    BY <2>3 DEF OpenInv
  <2>5. cmd \in Slots
    BY DEF TypeOK
  <2> QED
    BY <2>2, <2>3, <2>4, <2>5 DEF Open, SlotBusy, Slots
<1>2. CASE rx' = rx
  <2>1. CASE Stopped
    <3>1. ~RecoveryClear
      BY <1>2 DEF RecoveryClear, Quiesced
    <3> QED
      BY <2>1, <3>1, StoppedKept
  <2>2. CASE rx.tok = cmd.tok /\ "ACKED" \in cmd.flags /\ Open
    <3>1. ~FillsSlot
      BY <2>2, Filled DEF Open
    <3>2. /\ cmd'.tok = cmd.tok /\ "ACKED" \in cmd'.flags
          /\ "NO_ACK" \in cmd'.flags <=> "NO_ACK" \in cmd.flags
      BY <2>2, <3>1, SlotKept DEF SlotKeptBy, SameCommand
    <3>3. "DONE" \notin cmd'.flags
      BY <1>2, <2>2, <3>1, DoneCause DEF Open
    <3>4. SlotBusy' \/ Stopped'
      BY <2>2, BusyKept DEF Open, SlotBusy
    <3> QED
      BY <1>2, <2>2, <3>2, <3>3, <3>4 DEF Open
  <2> QED
    BY <1>2, <2>1, <2>2 DEF RxInv
<1> QED
  BY <1>1, <1>2

\* SendInv: a command that is still to be sent is not given up by its owner unless
\* it was aborted, needs no answer, or the firmware was asserted.
LEMMA SendStep ==
    ASSUME TypeOK, SyncInv, XmitNotForgotten, RxInv, SendInv, SyncNext
    PROVE  SendInv'
<1> SUFFICES ASSUME ToSend', "DONE" \in cmd'.flags \/ ~SlotBusy'
             PROVE  "ACKED" \in cmd'.flags \/ "NO_ACK" \in cmd'.flags \/ Stopped'
  BY DEF SendInv
<1>1. ~FillsSlot
  BY Filled
<1>2. ~RecoveryClear
  BY DEF RecoveryClear, Quiesced, ToSend, XmitNotForgotten
<1>3. /\ "ACKED" \in cmd.flags => "ACKED" \in cmd'.flags
      /\ "NO_ACK" \in cmd'.flags <=> "NO_ACK" \in cmd.flags
  BY <1>1, SlotKept DEF SlotKeptBy, SameCommand
<1>4. Stopped => Stopped'
  BY <1>2, StoppedKept
<1>5. CASE "DONE" \in cmd.flags \/ ~SlotBusy
  BY <1>1, <1>3, <1>4, <1>5, ToSendKept DEF SendInv
<1>6. CASE "DONE" \notin cmd.flags /\ SlotBusy
  <2>1. CASE "DONE" \in cmd'.flags
    BY <1>1, <1>3, <1>4, <1>6, <2>1, DoneCause DEF RxInv
  <2>2. CASE ~SlotBusy'
    BY <1>6, <2>2, BusyKept DEF SlotBusy
  <2> QED
    BY <2>1, <2>2
<1> QED
  BY <1>5, <1>6

\* DoneInv: a call that nothing blocked is completed by the answer to its command.
LEMMA DoneStep ==
    ASSUME TypeOK, SyncInv, HitInv, FlagInv, RxInv, DoneInv, SyncNext
    PROVE  DoneInv'
<1> SUFFICES ASSUME NEW c \in Callers \ Suspenders,
                    pc'[c] \in Busy, c \notin hit', "DONE" \in cmd'.flags
             PROVE  cmd'.by = cmd'.tok
  BY DEF DoneInv
<1>1. ~FillsSlot
  BY Filled
<1>2. pc[c] \in Busy /\ pc[c] # "idle" /\ cmd'.tok = cmd.tok
  BY <1>1, BusyKept, SlotKept DEF FillsSlot, Busy, SlotKeptBy, SameCommand
<1>3. c \notin hit /\ skwFlags = {}
  BY <1>2, HitKept DEF HitInv
<1>4. "NO_ACK" \notin cmd.flags /\ CmdTxAllowed(cmd.flags) /\ ~Stopped
  BY <1>2, <1>3 DEF FlagInv, CmdTxAllowed, Stopped
<1>5. CASE cmd'.by = cmd.by /\ "DONE" \in cmd.flags
  BY <1>2, <1>3, <1>5 DEF DoneInv
<1>6. CASE ~(cmd'.by = cmd.by /\ "DONE" \in cmd.flags)
  <2>1. rx # NoRx /\ cmd'.by = rx.tok
    BY <1>1, <1>4, <1>6, DoneCause
  <2> QED
    BY <1>2, <1>4, <2>1 DEF RxInv
<1> QED
  BY <1>5, <1>6

\* What a call returns is decided when it leaves the wait.
LEMMA ReturnCause ==
    ASSUME TypeOK, SyncInv, SyncNext, NEW c \in Callers, pc'[c] = "unlock"
    PROVE  \/ CallDone(c)
           \/ result'[c].code = "ETIMEDOUT"
           \/ pc[c] = "unlock" /\ result'[c] = result[c]
<1>0. pc \in [Callers \cup TrySenders -> CallPcs] /\ result \in [Callers -> Results]
  BY DEF TypeOK
<1>1. ASSUME NEW d \in Callers, Call(d) \/ Refuse(d) \/ Down(d) \/ CallSetCmd(d) \/ CallArm(d)
                                \/ CallNudge(d)
      PROVE  pc[c] = "unlock" /\ result'[c] = result[c]
  BY <1>0, <1>1 DEF Call, Refuse, Return, Down, CallSetCmd, CallArm, CallNudge
<1>2. ASSUME NEW d \in Callers, CallDone(d), d # c
      PROVE  pc[c] = "unlock" /\ result'[c] = result[c]
  BY <1>0, <1>2 DEF CallDone, Return
<1>3. ASSUME NEW d \in Callers, CallTimeout(d)
      PROVE  \/ result'[c].code = "ETIMEDOUT"
             \/ pc[c] = "unlock" /\ result'[c] = result[c]
  BY <1>0, <1>3 DEF CallTimeout, Return
<1>4. ASSUME NEW d \in Callers, CallUnlock(d)
      PROVE  pc[c] = "unlock" /\ result'[c] = result[c]
  <2>1. CASE waitq = <<>>
    BY <1>0, <1>4, <2>1 DEF CallUnlock, Up
  <2>2. CASE waitq # <<>>
    <3>1. Head(waitq) \in Callers
      BY <2>2 DEF TypeOK
    <3>2. pc' = [pc EXCEPT ![d] = "idle", ![Head(waitq)] = "set"] /\ result' = result
      BY <1>0, <1>4, <2>2, <3>1 DEF CallUnlock, Up
    <3> QED
      BY <1>0, <3>1, <3>2
  <2> QED
    BY <2>1, <2>2
<1>5. CASE WorkAssert \/ TxStep \/ RxStep \/ FwStep \/ Resume
  BY <1>5 DEF TxStep, TxStart, TxTake, TxXmit, TxSent, RxStep, RxAck, RxDeliver,
     FwStep, FwAnswer, FwCrash, BspAssert, BspReady, RecoveryPrepare, RecoveryClear,
     ModeOn, ModeOff, Resume, WorkAssert
<1> QED
  BY <1>1, <1>2, <1>3, <1>4, <1>5 DEF SyncNext, CallerStep

LEMMA SuccessStep ==
    ASSUME TypeOK, SyncInv, DoneInv, SuccessMeansAnswered, SyncNext
    PROVE  SuccessMeansAnswered'
<1> SUFFICES ASSUME NEW c \in Callers \ Suspenders,
                    result'[c].code = "ok", pc'[c] = "unlock", c \notin hit'
             PROVE  result'[c].own
  BY DEF SuccessMeansAnswered
<1>1. CASE CallDone(c)
  <2>1. /\ pc[c] \in Busy /\ hit' = hit /\ "DONE" \in cmd.flags
        /\ result'[c].own = (cmd.by = cmd.tok)
    BY <1>1 DEF CallDone, Return, TypeOK, Busy
  <2> QED
    BY <2>1 DEF DoneInv
<1>2. CASE pc[c] = "unlock" /\ result'[c] = result[c]
  BY <1>2, HitKept DEF SuccessMeansAnswered
<1> QED
  BY <1>1, <1>2, ReturnCause

\* With blocking senders only, skw_msg_xmit_timeout returns 0 for a command that
\* the firmware answered, whatever the interleaving of callers, tx worker, rx
\* thread, crash and recovery; and no command is left in the slot unsent.
THEOREM AnsweredWhenSync ==
    ASSUME TrySenders = {}
    PROVE  Spec => []CmdsAnswered
<1> DEFINE Inv == TypeOK /\ SyncInv /\ XmitNotForgotten /\ AnswerInv
<1>1. Init => Inv
  <2> SUFFICES ASSUME Init PROVE Inv
    OBVIOUS
  <2>1. TypeOK
    BY InitType
  <2>2. SyncInv
    BY DEF Init, SyncInv, CmdLockHeld, Owning
  <2>3. XmitNotForgotten /\ HitInv /\ FwInv /\ SeqInv /\ RxInv /\ OpenInv /\ DoneInv
    BY DEF Init, XmitNotForgotten, HitInv, FwInv, SeqInv, RxInv, OpenInv, DoneInv, Stopped
  <2>4. FlagInv /\ HdrInv /\ SendInv /\ SuccessMeansAnswered
    BY DEF Init, FlagInv, HdrInv, SendInv, SuccessMeansAnswered, ToSend
  <2> QED
    BY <2>1, <2>2, <2>3, <2>4 DEF AnswerInv
<1>2. Inv /\ [Next]_vars => Inv'
  <2> SUFFICES ASSUME Inv, [Next]_vars PROVE Inv'
    OBVIOUS
  <2>1. TypeOK' /\ XmitNotForgotten'
    BY StepType, StepXmit
  <2>2. SyncInv'
    BY StepSync
  <2>3. CASE UNCHANGED vars
    <3>1. HitInv' /\ FwInv' /\ FlagInv' /\ SeqInv' /\ HdrInv' /\ DoneInv' /\ SuccessMeansAnswered'
      BY <2>3 DEF vars, AnswerInv, HitInv, FwInv, FlagInv, SeqInv, HdrInv, ToSend, Stopped,
         DoneInv, SuccessMeansAnswered
    <3>2. RxInv' /\ OpenInv' /\ SendInv'
      BY <2>3 DEF vars, AnswerInv, RxInv, OpenInv, SendInv, ToSend, Stopped, Open, SlotBusy
    <3> QED
      BY <2>1, <2>2, <3>1, <3>2 DEF AnswerInv
  <2>4. CASE Next
    <3>1. SyncNext
      BY <2>4, SyncSteps
    <3>2. HitInv' /\ FwInv' /\ FlagInv' /\ HdrInv'
      BY <3>1, HitStep, FwStepInv, FlagStep, HdrStep DEF AnswerInv
    <3>3. SeqInv' /\ OpenInv' /\ RxInv' /\ SendInv' /\ DoneInv' /\ SuccessMeansAnswered'
      BY <2>1, <3>1, <3>2, SeqStep, OpenStep, RxInvStep, SendStep, DoneStep, SuccessStep
         DEF AnswerInv
    <3> QED
      BY <2>1, <2>2, <3>2, <3>3 DEF AnswerInv
  <2> QED
    BY <2>3, <2>4
<1>3. Inv => CmdsAnswered
  BY DEF AnswerInv, CmdsAnswered
<1> QED
  BY <1>1, <1>2, <1>3, PTL DEF Spec
=============================================================================
