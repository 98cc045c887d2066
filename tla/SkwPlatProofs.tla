---------------------------- MODULE SkwPlatProofs ----------------------------
(***************************************************************************)
(* Theorems about the SDIO platform (SkwPlat), for every interrupt wiring  *)
(* and every load: any number of calls, crashes, errors and sleeps; about  *)
(* boot, services and recovery over USB (SkwUsbCtl), for every load; and   *)
(* about the eDMA rings (SkwEdma), of every size.                          *)
(***************************************************************************)
EXTENDS SkwPlatform, FiniteSetTheorems, TLAPS

Messages == Services \cup {"trunk_W", "BSPASSERT", "DUMPDONE"}
Chips == [st : {"off", "boot", "run", "dead"}, pend : SUBSET Services, dump : BOOLEAN]
SvcPcs == {"idle", "boot", "recover", "wait", "lock", "locked", "send", "ready", "first", "failed"}
Calls == [pc : SvcPcs, op : {"boot", "start", "stop"}, s : Services, ok : BOOLEAN]
Bounds == [calls : Nat, crashes : Nat, errors : Nat, faults : Nat, sleeps : Nat]

\* The sets the variables stay in.
TypeInv == /\ TypeOK /\ fw \in Chips /\ wire \in Seq(Messages) /\ svc \in Calls /\ left \in Bounds
           /\ late \in BOOLEAN /\ spoilt \in BOOLEAN /\ cold \in BOOLEAN

\* An actor recovers at its own place, and only a service call holds the mutex over a step.
Places == /\ rec["rx"] # "no" => rx = "recover"
          /\ rec["exc"] # "no" => exc = "recover"
          /\ rec["svc"] # "no" => svc.pc \in {"first", "recover", "locked"}
          /\ svc.pc = "first" => rec["svc"] \in {"load", "start", "ready", "no"}
          /\ except_mutex = IF svc.pc \in {"locked", "send", "ready"} THEN "svc" ELSE "none"

\* What a chip in this state can have said and not been heard with: a booting one nothing, a
\* running one trunk_W before anything else, a dead one DUMPDONE after everything else.
WireSays(w, f) ==
  /\ f.st \in {"off", "boot"} => w = <<>>
  /\ \A i \in DOMAIN w : w[i] = "trunk_W" => i = 1
  /\ \A i \in DOMAIN w : w[i] \in {"BSPASSERT", "DUMPDONE"} => f.st = "dead"
  /\ \A i \in DOMAIN w : w[i] = "DUMPDONE" => i = Len(w) /\ ~f.dump

Base == TypeInv /\ Places /\ WireSays(wire, fw)
-----------------------------------------------------------------------------
(* The wire. *)

On(w, m) == \E i \in DOMAIN w : w[i] = m

\* A message is added behind the others.
LEMMA Appended ==
  ASSUME NEW w \in Seq(Messages), NEW m \in Messages
  PROVE  /\ Append(w, m) \in Seq(Messages)
         /\ \A x \in Messages : On(Append(w, m), x) <=> On(w, x) \/ x = m
<1>1. /\ Append(w, m) \in Seq(Messages) /\ Len(Append(w, m)) = Len(w) + 1
      /\ \A i \in 1 .. Len(w) : Append(w, m)[i] = w[i]
      /\ Append(w, m)[Len(w) + 1] = m
      /\ DOMAIN w = 1 .. Len(w) /\ DOMAIN Append(w, m) = 1 .. Len(w) + 1
  OBVIOUS
<1>2. \A i \in 1 .. Len(w) + 1 : i \in 1 .. Len(w) \/ i = Len(w) + 1
  OBVIOUS
<1>3. Len(w) + 1 \in 1 .. Len(w) + 1 /\ \A i \in 1 .. Len(w) : i \in 1 .. Len(w) + 1
  OBVIOUS
<1> QED
  BY <1>1, <1>2, <1>3 DEF On

\* The receive thread takes the first.
LEMMA Taken ==
  ASSUME NEW w \in Seq(Messages), w # <<>>
  PROVE  /\ Tail(w) \in Seq(Messages) /\ Head(w) = w[1] /\ 1 \in DOMAIN w /\ Head(w) \in Messages
         /\ Len(Tail(w)) = Len(w) - 1 /\ DOMAIN w = 1 .. Len(w) /\ Len(w) \in Nat
         /\ \A i \in DOMAIN Tail(w) : i \in 1 .. Len(w) - 1 /\ i + 1 \in DOMAIN w /\ Tail(w)[i] = w[i + 1]
         /\ \A x \in Messages : On(Tail(w), x) => On(w, x)
<1>1. /\ Tail(w) \in Seq(Messages) /\ Head(w) = w[1] /\ 1 \in DOMAIN w /\ Head(w) \in Messages
      /\ Len(Tail(w)) = Len(w) - 1 /\ DOMAIN w = 1 .. Len(w) /\ Len(w) \in Nat
      /\ DOMAIN Tail(w) = 1 .. Len(w) - 1
  OBVIOUS
<1>2. \A i \in 1 .. Len(w) - 1 : i + 1 \in 1 .. Len(w) /\ Tail(w)[i] = w[i + 1]
  OBVIOUS
<1> QED
  BY <1>1, <1>2 DEF On

\* A chip that runs says something: only a crash is the last word.
LEMMA SaysMore ==
  ASSUME NEW w \in Seq(Messages), NEW f \in Chips, NEW g \in Chips, NEW m \in Messages, WireSays(w, f),
         \/ f.st = "boot" /\ g.st = "run" /\ m = "trunk_W"
         \/ f.st = "run" /\ g.st = "run" /\ m \in Services
         \/ f.st \in {"run", "boot"} /\ g.st = "dead" /\ m = "BSPASSERT"
         \/ f.st = "dead" /\ f.dump /\ g.st = "dead" /\ ~g.dump /\ m = "DUMPDONE"
  PROVE  WireSays(Append(w, m), g)
<1> DEFINE v == Append(w, m)
<1>1. /\ Len(v) = Len(w) + 1 /\ Len(w) \in Nat
      /\ \A i \in 1 .. Len(w) : v[i] = w[i]
      /\ v[Len(w) + 1] = m
      /\ DOMAIN w = 1 .. Len(w) /\ DOMAIN v = 1 .. Len(w) + 1
  OBVIOUS
<1>2. \A i \in DOMAIN v : \/ i \in DOMAIN w /\ v[i] = w[i]
                          \/ i = Len(w) + 1 /\ v[i] = m
  BY <1>1
<1>3. f.st = "boot" => Len(w) = 0
  BY DEF WireSays
<1> HIDE DEF v
<1>4. g.st \notin {"off", "boot"}
  OBVIOUS
<1>5. \A i \in DOMAIN v : v[i] = "trunk_W" => i = 1
  BY <1>2, <1>3 DEF WireSays, Services
<1>6. \A i \in DOMAIN v : v[i] \in {"BSPASSERT", "DUMPDONE"} => g.st = "dead"
  BY <1>2 DEF WireSays, Services
<1>7. \A i \in DOMAIN v : v[i] = "DUMPDONE" => i = Len(v) /\ ~g.dump
  BY <1>1, <1>2 DEF WireSays, Services
<1> QED
  BY <1>4, <1>5, <1>6, <1>7 DEF WireSays, v

\* Hearing a message leaves no word of a boot: trunk_W could only be the first.
LEMMA HeardOne ==
  ASSUME Base, NEW m \in Messages, RxTake(m), fw' = fw
  PROVE  /\ WireSays(wire', fw') /\ wire' \in Seq(Messages) /\ ~Booting'
         /\ m # "trunk_W" => ~Booting
         /\ m \in {"BSPASSERT", "DUMPDONE"} => fw.st = "dead"
         /\ m = "DUMPDONE" => wire' = <<>> /\ ~fw.dump
         /\ \A x \in Messages : On(wire', x) => On(wire, x)
         /\ On(wire, m)
<1>1. wire # <<>> /\ wire' = Tail(wire) /\ Head(wire) = m /\ wire \in Seq(Messages)
  BY DEF RxTake, Base, TypeInv
<1>2. /\ wire' \in Seq(Messages) /\ wire[1] = m /\ 1 \in DOMAIN wire
      /\ Len(wire') = Len(wire) - 1 /\ DOMAIN wire = 1 .. Len(wire) /\ Len(wire) \in Nat
      /\ \A i \in DOMAIN wire' : i \in 1 .. Len(wire) - 1 /\ i + 1 \in DOMAIN wire /\ wire'[i] = wire[i + 1]
      /\ \A x \in Messages : On(wire', x) => On(wire, x)
  BY <1>1, Taken
<1>3. WireSays(wire, fw) /\ fw.st \notin {"off", "boot"}
  BY <1>1 DEF Base, WireSays
<1>4. \A i \in DOMAIN wire' : i + 1 # 1 /\ (i + 1 = Len(wire) => i = Len(wire'))
  BY <1>2
<1>5. \A i \in DOMAIN wire' : wire'[i] # "trunk_W"
  BY <1>2, <1>3, <1>4 DEF WireSays
<1>6. WireSays(wire', fw')
  BY <1>2, <1>3, <1>4, <1>5 DEF WireSays
<1>7. ~Booting'
  BY <1>3, <1>5 DEF Booting
<1>8. m # "trunk_W" => ~Booting
  BY <1>2, <1>3 DEF Booting, WireSays
<1>9. m \in {"BSPASSERT", "DUMPDONE"} => fw.st = "dead"
  BY <1>2, <1>3 DEF WireSays
<1>10. m = "DUMPDONE" => wire' = <<>> /\ ~fw.dump
  <2>1. m = "DUMPDONE" => 1 = Len(wire) /\ ~fw.dump
    BY <1>2, <1>3 DEF WireSays
  <2>2. 1 = Len(wire) => Len(wire') = 0
    <3>1. Len(wire') = Len(wire) - 1 /\ Len(wire) \in Nat
      BY <1>2
    <3>2. \A k \in Nat : \A n : n = k - 1 /\ 1 = k => n = 0
      OBVIOUS
    <3> QED
      BY <3>1, <3>2, Zenon
  <2>3. Len(wire') = 0 => wire' = <<>>
    BY <1>2
  <2> QED
    BY <2>1, <2>2, <2>3
<1>11. On(wire, m)
  BY <1>2 DEF On
<1> QED
  BY <1>2, <1>6, <1>7, <1>8, <1>9, <1>10, <1>11
-----------------------------------------------------------------------------
(* What an action keeps, for the actions that leave the wire and the chip. *)

RecIs(a, x) == rec' = [rec EXCEPT ![a] = x]

\* The steps of a recovery.
Steps == {"reset", "load", "start", "ready"}

LEMMA RecUpdate ==
  ASSUME TypeOK, NEW a \in Actors, NEW x, RecIs(a, x)
  PROVE  rec'[a] = x /\ \A b \in Actors : b # a => rec'[b] = rec[b]
BY DEF TypeOK, RecIs

LEMMA TypeInit == Init => Base
<1> SUFFICES ASSUME Init PROVE Base
  OBVIOUS
<1>1. TypeInv
  <2>1. TypeOK
    <3>1. rec \in [Actors -> {"no", "begin", "reset", "load", "start", "ready"}]
      BY DEF Init
    <3>2. svc.pc = "first" /\ fw.st = "off" /\ fw.pend = {}
      BY DEF Init, Call
    <3>3. except_mutex \in Actors \cup {"none"} /\ service_state_map \subseteq Services
      BY DEF Init
    <3>4. cp_state \in 0 .. 3 /\ cp_exception_sts \in 0 .. 3 /\ download_done \in Nat /\ irq_depth \in Nat
      BY DEF Init
    <3> QED
      BY <3>1, <3>2, <3>3, <3>4 DEF Init, TypeOK
  <2>2. fw \in Chips /\ wire \in Seq(Messages) /\ svc \in Calls
    BY DEF Init, Chips, Calls, SvcPcs, Call, Services
  <2>3. left \in Bounds
    BY PlatAssumption DEF Init, Bounds
  <2> QED
    BY <2>1, <2>2, <2>3 DEF Init, TypeInv
<1>2. Places
  BY DEF Init, Places, Call, Actors
<1>3. WireSays(wire, fw)
  BY DEF Init, WireSays
<1> QED
  BY <1>1, <1>2, <1>3 DEF Base

LEMMA SpentWithin ==
  ASSUME left \in Bounds, NEW f \in {"calls", "crashes", "errors", "faults", "sleeps"}, Spend(f)
  PROVE  left' \in Bounds
BY DEF Bounds, Spend

\* The chip.
LEMMA ChipBase ==
  ASSUME Base, FwBoot \/ FwReady \/ FwCrash \/ FwDump
  PROVE  Base'
<1> USE DEF Base
<1>1. Places'
  BY DEF FwBoot, FwReady, FwCrash, FwDump, fwKeeps, pcVars, Places
<1>2. TypeOK'
  BY DEF FwBoot, FwReady, FwCrash, FwDump, fwKeeps, cpVars, irqVars, pcVars, TypeInv, TypeOK, Chips
<1>3. PICK m \in Messages, g \in Chips :
        /\ fw' = g /\ wire' = Append(wire, m)
        /\ \/ fw.st = "boot" /\ g.st = "run" /\ m = "trunk_W"
           \/ fw.st = "run" /\ g.st = "run" /\ m \in Services
           \/ fw.st \in {"run", "boot"} /\ g.st = "dead" /\ m = "BSPASSERT"
           \/ fw.st = "dead" /\ fw.dump /\ g.st = "dead" /\ ~g.dump /\ m = "DUMPDONE"
  <2>1. CASE FwBoot
    <3>1. fw' \in Chips /\ fw'.st = "run"
      BY <2>1 DEF FwBoot, TypeInv, Chips
    <3> QED
      BY <2>1, <3>1 DEF FwBoot, Messages
  <2>2. CASE FwReady
    <3>1. PICK s \in fw.pend : fw' = [fw EXCEPT !.pend = @ \ {s}] /\ wire' = Append(wire, s)
      BY <2>2 DEF FwReady
    <3>2. fw' \in Chips /\ fw'.st = fw.st /\ s \in Services
      BY <3>1 DEF TypeInv, Chips
    <3> QED
      BY <2>2, <3>1, <3>2 DEF FwReady, Messages
  <2>3. CASE FwCrash
    <3> DEFINE g == [st |-> "dead", pend |-> {}, dump |-> TRUE]
    <3>1. g \in Chips /\ g.st = "dead" /\ "BSPASSERT" \in Messages
      BY DEF Chips, Messages
    <3>2. fw' = g /\ wire' = Append(wire, "BSPASSERT") /\ fw.st \in {"run", "boot"}
      BY <2>3 DEF FwCrash
    <3> QED
      BY <3>1, <3>2
  <2>4. CASE FwDump
    <3>1. fw' \in Chips /\ fw'.st = "dead" /\ fw'.dump = FALSE
      BY <2>4 DEF FwDump, TypeInv, Chips
    <3> QED
      BY <2>4, <3>1 DEF FwDump, Messages
  <2> QED
    BY <2>1, <2>2, <2>3, <2>4
<1>4. WireSays(wire', fw')
  BY <1>3, SaysMore DEF TypeInv
<1>5. wire' \in Seq(Messages)
  BY <1>3, Appended DEF TypeInv
<1>6. left' \in Bounds /\ spoilt' \in BOOLEAN
  BY SpentWithin DEF FwBoot, FwReady, FwCrash, FwDump, TypeInv
<1>7. svc' \in Calls /\ late' \in BOOLEAN /\ cold' \in BOOLEAN
  BY DEF FwBoot, FwReady, FwCrash, FwDump, fwKeeps, pcVars, TypeInv
<1> QED
  BY <1>1, <1>2, <1>3, <1>4, <1>5, <1>6, <1>7 DEF TypeInv

\* A step of a recovery.
LEMMA RecoveryBase ==
  ASSUME Base, NEW a \in Actors, Recover(a)
  PROVE  Base'
<1> USE DEF Base
<1>1. PICK x \in Steps \cup {"no"} :
        RecIs(a, x) /\ rec[a] \notin {"no"} /\ (rec[a] # "begin" => x # "reset")
  BY DEF Recover, RecBegin, RecReset, RecLoad, RecStart, RecReady, RecIs, Steps
<1>2. rec'[a] = x /\ (\A b \in Actors : b # a => rec'[b] = rec[b])
      /\ rec' \in [Actors -> {"no", "begin"} \cup Steps]
  BY <1>1, RecUpdate DEF TypeInv, TypeOK, RecIs, Steps
<1>3. /\ UNCHANGED <<irq_type, cp_state, cp_exception_sts, service_state_map, except_mutex, except_work,
                     resume_flag, log_open, rx, exc, svc, late>>
      /\ power_off' \in BOOLEAN /\ kick' \in BOOLEAN /\ spoilt' \in BOOLEAN /\ cold' \in BOOLEAN
  BY DEF Recover, RecBegin, RecReset, RecLoad, RecStart, RecReady, recKeeps, irqVars, TypeInv, TypeOK
<1>4. Places'
  BY <1>1, <1>2, <1>3 DEF Places, Actors, Steps
<1>5. irq_depth' \in Nat /\ download_done' \in Nat
  BY DEF Recover, RecBegin, RecReset, RecLoad, RecStart, RecReady, irqVars, TypeInv, TypeOK
<1>6. left' \in Bounds
  BY SpentWithin DEF Recover, RecBegin, RecReset, RecLoad, RecStart, RecReady, TypeInv
<1>7. fw' \in Chips /\ wire' \in Seq(Messages) /\ WireSays(wire', fw')
  <2>1. CASE RecReset(a)
    <3>1. \/ UNCHANGED fwVars
          \/ /\ fw' = [st |-> "off", pend |-> {}, dump |-> FALSE]
             /\ wire' = <<>>
      BY <2>1 DEF RecReset
    <3>2. [st |-> "off", pend |-> {}, dump |-> FALSE] \in Chips /\ <<>> \in Seq(Messages)
      BY DEF Chips
    <3>3. \A f : WireSays(<<>>, f)
      BY DEF WireSays
    <3>4. CASE UNCHANGED fwVars
      BY <3>4 DEF fwVars, TypeInv
    <3>5. CASE fw' = [st |-> "off", pend |-> {}, dump |-> FALSE] /\ wire' = <<>>
      BY <3>2, <3>3, <3>5
    <3> QED
      BY <3>1, <3>4, <3>5
  <2>2. CASE UNCHANGED fwVars
    BY <2>2 DEF fwVars, TypeInv
  <2>3. CASE RecStart(a)
    <3>1. fw' \in Chips /\ wire' = wire /\ (fw' = fw \/ (fw.st = "off" /\ fw'.st = "boot"))
      BY <2>3 DEF RecStart, Chips, TypeInv
    <3> QED
      BY <3>1 DEF WireSays, TypeInv
  <2> QED
    <3>1. RecBegin(a) \/ RecLoad(a) \/ RecReady(a) => UNCHANGED fwVars
      BY DEF RecBegin, RecLoad, RecReady, fwVars
    <3> QED
      BY <2>1, <2>2, <2>3, <3>1 DEF Recover
<1> QED
  <2>1. TypeOK'
    BY <1>2, <1>3, <1>5, <1>7 DEF TypeInv, TypeOK, Steps, Chips
  <2> QED
    BY <1>3, <1>4, <1>6, <1>7, <2>1 DEF TypeInv

\* The receive thread.
LEMMA RxBase ==
  ASSUME Base, RxThread
  PROVE  Base'
<1> USE DEF Base
<1>1. CASE \E m \in Messages : RxTake(m) /\ fw' = fw
  <2>1. WireSays(wire', fw') /\ wire' \in Seq(Messages)
    BY <1>1, HeardOne
  <2>2. TypeOK'
    <3>1. kick' \in BOOLEAN /\ rx = "idle"
      BY <1>1 DEF RxTake, TypeInv, TypeOK
    <3>2. ASSUME NEW s \in Services, RxServiceReady(s)  PROVE TypeOK'
      BY <3>1, <3>2 DEF RxServiceReady, TypeInv, TypeOK, rxKeeps
    <3>3. CASE RxTrunk
      BY <3>1, <3>3 DEF RxTrunk, TypeInv, TypeOK, rxKeeps
    <3>4. CASE RxAssert
      BY <3>1, <3>4 DEF RxAssert, TypeInv, TypeOK, rxKeeps
    <3>5. CASE RxDump
      BY <3>1, <3>5 DEF RxDump, TypeInv, TypeOK, rxKeeps
    <3>6. ~(RxAssertLocked \/ RxDumpLocked \/ RxCancel \/ RxRecovered)
      BY <3>1 DEF RxAssertLocked, RxDumpLocked, RxCancel, RxRecovered
    <3> QED
      BY <3>2, <3>3, <3>4, <3>5, <3>6 DEF RxThread
  <2>3. UNCHANGED <<rec, exc, svc, except_mutex, late, spoilt, cold, left, fw>> /\ rx = "idle"
    BY <1>1 DEF RxTake, RxThread, RxServiceReady, RxTrunk, RxAssert, RxAssertLocked, RxDump, RxDumpLocked,
                RxCancel, RxRecovered, rxKeeps
  <2> QED
    BY <2>1, <2>2, <2>3 DEF TypeInv, Places
<1>2. CASE RxAssertLocked \/ RxDumpLocked \/ RxCancel \/ RxRecovered
  <2>1. rec' = rec \/ (RxCancel /\ RecIs("rx", "begin"))
    BY <1>2 DEF RxAssertLocked, RxDumpLocked, RxCancel, RxRecovered, RecIs
  <2>2. /\ rec' \in [Actors -> {"no", "begin", "reset", "load", "start", "ready"}]
        /\ rec'["exc"] = rec["exc"] /\ rec'["svc"] = rec["svc"]
    BY <2>1, RecUpdate DEF TypeInv, TypeOK, RecIs, Actors
  <2>3. rec'["rx"] # "no" => rx' = "recover"
    BY <1>2 DEF RxAssertLocked, RxDumpLocked, RxCancel, RxRecovered, Places
  <2>4. /\ UNCHANGED <<irq_type, power_off, download_done, irq_depth, kick, except_mutex, resume_flag,
                       log_open, exc, svc, fwVars, late, spoilt, cold, left>>
        /\ cp_state' \in 0 .. 3 /\ cp_exception_sts' \in 0 .. 3 /\ service_state_map' \subseteq Services
        /\ except_work' \in BOOLEAN /\ rx' \in {"idle", "assert", "dump", "cancel", "recover"}
    <3>1. CASE RxAssertLocked
      BY <3>1 DEF RxAssertLocked, rxLockKeeps, rxKeeps, fwVars, TypeInv, TypeOK
    <3>2. CASE RxDumpLocked
      BY <3>2 DEF RxDumpLocked, rxLockKeeps, rxKeeps, fwVars, TypeInv, TypeOK
    <3>3. CASE RxCancel
      <4>1. cp_exception_sts' \in {2, cp_exception_sts} /\ rx' = "recover" /\ except_work' = FALSE
        BY <3>3 DEF RxCancel
      <4>2. UNCHANGED <<rxLockKeeps, cp_state, service_state_map>>
        BY <3>3 DEF RxCancel
      <4>3. cp_exception_sts' \in 0 .. 3
        BY <4>1 DEF TypeInv, TypeOK
      <4> QED
        BY <4>1, <4>2, <4>3 DEF rxLockKeeps, rxKeeps, fwVars, TypeInv, TypeOK
    <3>4. CASE RxRecovered
      BY <3>4 DEF RxRecovered, rxLockKeeps, rxKeeps, fwVars, TypeInv, TypeOK
    <3> QED
      BY <1>2, <3>1, <3>2, <3>3, <3>4
  <2> QED
    BY <2>2, <2>3, <2>4 DEF TypeInv, TypeOK, Places, fwVars
<1>3. \A m \in Messages : RxTake(m) /\ UNCHANGED rxKeeps => \E n \in Messages : RxTake(n) /\ fw' = fw
  BY DEF rxKeeps
<1> QED
  BY <1>1, <1>2, <1>3 DEF RxThread, RxServiceReady, RxTrunk, RxAssert, RxDump, Messages

\* The exception work, and who arms it.
LEMMA ExcBase ==
  ASSUME Base, ExcWork \/ Abort \/ AssertCommand
  PROVE  Base'
<1> USE DEF Base
<1>1. CASE ExcWork
  <2>1. rec' = rec \/ (ExcBlock /\ RecIs("exc", "begin"))
    BY <1>1 DEF ExcWork, ExcFire, ExcLocked, ExcBlock, ExcRecovered, RecIs
  <2>2. /\ rec' \in [Actors -> {"no", "begin", "reset", "load", "start", "ready"}]
        /\ rec'["rx"] = rec["rx"] /\ rec'["svc"] = rec["svc"]
    BY <2>1, RecUpdate DEF TypeInv, TypeOK, RecIs, Actors
  <2>3. rec'["exc"] # "no" => exc' = "recover"
    BY <1>1 DEF ExcWork, ExcFire, ExcLocked, ExcBlock, ExcRecovered, Places
  <2>4. /\ UNCHANGED excKeeps
        /\ cp_state' \in 0 .. 3 /\ cp_exception_sts' \in 0 .. 3 /\ service_state_map' \subseteq Services
        /\ except_work' \in BOOLEAN /\ exc' \in {"idle", "lock", "block", "recover"}
    <3>1. CASE ExcFire
      BY <3>1 DEF ExcFire, TypeInv, TypeOK
    <3>2. CASE ExcLocked
      BY <3>2 DEF ExcLocked, TypeInv, TypeOK
    <3>3. CASE ExcBlock
      BY <3>3 DEF ExcBlock, TypeInv, TypeOK
    <3>4. CASE ExcRecovered
      BY <3>4 DEF ExcRecovered, TypeInv, TypeOK
    <3> QED
      BY <1>1, <3>1, <3>2, <3>3, <3>4 DEF ExcWork
  <2> QED
    BY <2>2, <2>3, <2>4 DEF TypeInv, TypeOK, Places, excKeeps, fwVars, irqVars
<1>2. CASE Abort
  <2>1. left' \in Bounds
    BY <1>2, SpentWithin DEF Abort, TypeInv
  <2>2. spoilt' \in BOOLEAN
    BY <1>2 DEF Abort
  <2> QED
    BY <1>2, <2>1, <2>2 DEF Abort, armKeeps, irqVars, pcVars, fwVars, TypeInv, TypeOK, Places
<1>3. CASE AssertCommand
  <2>1. left' \in Bounds
    BY <1>3, SpentWithin DEF AssertCommand, TypeInv
  <2>2. fw' \in Chips /\ fw.st = "run" /\ fw'.st = "dead" /\ wire' = Append(wire, "BSPASSERT")
    BY <1>3 DEF AssertCommand, Chips
  <2>3. WireSays(wire', fw') /\ wire' \in Seq(Messages)
    BY <2>2, SaysMore, Appended DEF TypeInv, Messages
  <2>4. spoilt' \in BOOLEAN
    BY <1>3 DEF AssertCommand
  <2>5. TypeOK'
    BY <1>3, <2>2 DEF AssertCommand, armKeeps, irqVars, pcVars, TypeInv, TypeOK, Chips
  <2>6. UNCHANGED <<rec, rx, exc, svc, except_mutex, late, cold>>
    BY <1>3 DEF AssertCommand, armKeeps, pcVars
  <2> QED
    BY <2>1, <2>2, <2>3, <2>4, <2>5, <2>6 DEF TypeInv, Places
<1> QED
  BY <1>1, <1>2, <1>3

\* Power management.
LEMMA PowerBase ==
  ASSUME Base, Power
  PROVE  Base'
<1> USE DEF Base
<1>1. left' \in Bounds
  BY SpentWithin DEF Power, Suspend, Resume, TypeInv
<1>2. UNCHANGED pmKeeps /\ power_off' \in BOOLEAN /\ resume_flag' \in BOOLEAN
  <2>1. CASE Suspend
    BY <2>1 DEF Suspend, TypeInv, TypeOK
  <2>2. CASE Resume
    BY <2>2 DEF Resume, TypeInv, TypeOK
  <2> QED
    BY <2>1, <2>2 DEF Power
<1>3. TypeOK'
  BY <1>2 DEF pmKeeps, irqVars, pcVars, fwVars, TypeInv, TypeOK
<1> QED
  BY <1>1, <1>2, <1>3 DEF pmKeeps, pcVars, fwVars, TypeInv, Places

\* The service calls: where each goes, and who holds the mutex there.
LEMMA SvcBase ==
  ASSUME Base, Caller \/ SvcCall
  PROVE  Base'
<1> USE DEF Base
<1>1. svc \in Calls /\ svc.s \in Services /\ svc.op \in {"boot", "start", "stop"}
  BY DEF TypeInv, Calls
<1>2. /\ UNCHANGED <<irq_type, cp_state, cp_exception_sts, power_off, irq_depth, except_work, resume_flag,
                     log_open, rx, exc, wire, spoilt, cold>>
      /\ download_done' \in Nat /\ kick' \in BOOLEAN /\ late' \in BOOLEAN
      /\ service_state_map' \subseteq Services
  <2>1. CASE UNCHANGED svcRest
    BY <2>1 DEF svcRest, svcKeeps, TypeInv, TypeOK
  <2>2. CASE SvcLock
    BY <2>2 DEF SvcLock, svcKeeps, TypeInv, TypeOK
  <2>3. CASE SvcStart
    BY <2>3 DEF SvcStart, AnswersOwed, Booting, svcKeeps, TypeInv, TypeOK
  <2>4. CASE SvcReady
    <3>1. \/ download_done > 0 /\ download_done' = download_done - 1 /\ kick' = kick
          \/ kick' = TRUE /\ download_done' = download_done
      BY <2>4 DEF SvcReady
    <3>2. download_done \in Nat /\ kick \in BOOLEAN
      BY DEF TypeInv, TypeOK
    <3>3. download_done' \in Nat
      BY <3>1, <3>2
    <3>4. kick' \in BOOLEAN
      BY <3>1, <3>2, Zenon
    <3> QED
      BY <2>4, <3>3, <3>4 DEF SvcReady, svcKeeps, TypeInv, TypeOK
  <2>5. CASE SvcStop
    BY <2>5 DEF SvcStop, svcKeeps, TypeInv, TypeOK
  <2> QED
    BY <2>1, <2>2, <2>3, <2>4, <2>5 DEF Caller, FirstBooted, SvcBoot, SvcBooted, SvcWait, SvcLocked, SvcCall
<1>3. left' \in Bounds
  BY SpentWithin DEF Caller, FirstBooted, SvcBoot, SvcBooted, SvcWait, SvcLock, SvcLocked, SvcStart,
                     SvcReady, SvcStop, SvcCall, TypeInv
<1>4. fw' \in Chips /\ fw'.st = fw.st /\ fw'.dump = fw.dump
  <2>1. fw' = fw \/ fw' = [fw EXCEPT !.pend = @ \cup {svc.s}]
    BY DEF Caller, FirstBooted, SvcBoot, SvcBooted, SvcWait, SvcLock, SvcLocked, SvcStart,
           SvcReady, SvcStop, SvcCall, svcRest
  <2> QED
    BY <1>1, <2>1 DEF TypeInv, Chips
<1>5. svc' \in Calls
  <2>1. \/ \E p \in SvcPcs : svc' = [svc EXCEPT !.pc = p]
        \/ \E p \in SvcPcs, o \in {"boot", "start", "stop"}, s \in Services, k \in BOOLEAN : svc' = Call(p, o, s, k)
    <3>1. CASE FirstBooted
      BY <1>1, <3>1 DEF FirstBooted, SvcPcs
    <3>2. CASE SvcBoot
      BY <1>1, <3>2 DEF SvcBoot, SvcPcs
    <3>3. CASE SvcBooted
      BY <1>1, <3>3 DEF SvcBooted, SvcPcs
    <3>4. CASE SvcWait
      BY <1>1, <3>4 DEF SvcWait, SvcPcs
    <3>5. CASE SvcLock
      BY <1>1, <3>5 DEF SvcLock, SvcPcs
    <3>6. CASE SvcLocked
      BY <1>1, <3>6 DEF SvcLocked, SvcPcs
    <3>7. CASE SvcStart
      BY <1>1, <3>7 DEF SvcStart, SvcPcs
    <3>8. CASE SvcReady
      BY <1>1, <3>8 DEF SvcReady, SvcPcs
    <3>9. CASE SvcStop
      BY <1>1, <3>9 DEF SvcStop, SvcPcs
    <3>10. CASE SvcCall
      BY <1>1, <3>10 DEF SvcCall, SvcPcs
    <3> QED
      BY <3>1, <3>2, <3>3, <3>4, <3>5, <3>6, <3>7, <3>8, <3>9, <3>10 DEF Caller
  <2>2. ASSUME NEW p \in SvcPcs  PROVE [svc EXCEPT !.pc = p] \in Calls
    BY <1>1 DEF Calls
  <2>3. ASSUME NEW p \in SvcPcs, NEW o \in {"boot", "start", "stop"}, NEW s \in Services, NEW k \in BOOLEAN
        PROVE  Call(p, o, s, k) \in Calls
    BY DEF Calls, Call
  <2> QED
    BY <2>1, <2>2, <2>3
<1>8. /\ except_mutex' = IF svc'.pc \in {"locked", "send", "ready"} THEN "svc" ELSE "none"
      /\ svc'.pc # "first"
  <2>1. CASE FirstBooted
    BY <1>1, <2>1 DEF FirstBooted, Places, Calls, svcRest
  <2>2. CASE SvcBoot
    BY <1>1, <2>2 DEF SvcBoot, Places, Calls, svcRest
  <2>3. CASE SvcBooted
    BY <1>1, <2>3 DEF SvcBooted, Places, Calls, svcRest
  <2>4. CASE SvcWait
    BY <1>1, <2>4 DEF SvcWait, Places, Calls, Call, svcRest
  <2>5. CASE SvcLock
    BY <1>1, <2>5 DEF SvcLock, Places, Calls
  <2>6. CASE SvcLocked
    BY <1>1, <2>6 DEF SvcLocked, Places, Calls, svcRest
  <2>7. CASE SvcStart
    BY <1>1, <2>7 DEF SvcStart, Places, Calls, Call
  <2>8. CASE SvcReady
    BY <1>1, <2>8 DEF SvcReady, Places, Calls, Call
  <2>9. CASE SvcStop
    BY <1>1, <2>9 DEF SvcStop, Places, Calls, Call
  <2>10. CASE SvcCall
    BY <1>1, <2>10 DEF SvcCall, Places, Calls, Call, svcRest
  <2> QED
    BY <2>1, <2>2, <2>3, <2>4, <2>5, <2>6, <2>7, <2>8, <2>9, <2>10 DEF Caller
<1>9. /\ rec["svc"] = "no"
      /\ rec' = rec \/ (RecIs("svc", "begin") /\ svc'.pc \in {"recover", "locked"})
  <2>1. rec["svc"] = "no"
    BY DEF Caller, FirstBooted, SvcBoot, SvcBooted, SvcWait, SvcLock, SvcLocked, SvcStart,
           SvcReady, SvcStop, SvcCall, Places
  <2>2. CASE SvcBoot
    BY <1>1, <2>1, <2>2 DEF SvcBoot, RecIs, Calls
  <2>3. CASE SvcLock
    BY <1>1, <2>1, <2>3 DEF SvcLock, RecIs, Calls
  <2>4. FirstBooted \/ SvcBooted \/ SvcWait \/ SvcLocked \/ SvcStart \/ SvcReady \/ SvcStop \/ SvcCall => rec' = rec
    BY DEF FirstBooted, SvcBooted, SvcWait, SvcLocked, SvcStart, SvcReady, SvcStop, SvcCall, svcRest
  <2> QED
    BY <2>1, <2>2, <2>3, <2>4 DEF Caller
<1>6. /\ rec' \in [Actors -> {"no", "begin", "reset", "load", "start", "ready"}]
      /\ rec'["rx"] = rec["rx"] /\ rec'["exc"] = rec["exc"]
      /\ rec'["svc"] # "no" => svc'.pc \in {"recover", "locked"}
  BY <1>8, <1>9, RecUpdate DEF TypeInv, TypeOK, RecIs, Actors
<1>7. TypeOK'
  <2>1. except_mutex' \in Actors \cup {"none"} /\ svc'.pc \in SvcPcs
    BY <1>5, <1>8 DEF Actors, Calls
  <2>2. fw'.st \in {"off", "boot", "run", "dead"} /\ fw'.pend \subseteq Services
    BY <1>4 DEF Chips
  <2> QED
    BY <1>2, <1>6, <2>1, <2>2 DEF TypeInv, TypeOK, SvcPcs
<1> QED
  BY <1>2, <1>3, <1>4, <1>5, <1>6, <1>7, <1>8 DEF TypeInv, Places, WireSays

LEMMA BaseKept == Base /\ [Next]_vars => Base'
<1> SUFFICES ASSUME Base, [Next]_vars  PROVE Base'
  OBVIOUS
<1>1. CASE UNCHANGED vars
  BY <1>1 DEF Base, TypeInv, TypeOK, Places, WireSays, vars, cpVars, irqVars, pcVars, fwVars, histVars
<1>2. CASE Next
  BY <1>2, ChipBase, RecoveryBase, RxBase, ExcBase, SvcBase, PowerBase DEF Next, Chip, Recovery
<1> QED
  BY <1>1, <1>2
-----------------------------------------------------------------------------
(* Who recovers a crash: the receive thread and the exception work look at  *)
(* cp_state under except_mutex, so a crash is one's only, and the chip it   *)
(* resets is the one that crashed.                                          *)

\* Nobody has started the chip again.
NoBoot == ~Booting /\ \A a \in Actors : rec[a] \notin {"reset", "load", "start"}

\* The exception work will come to the mutex.
Armed == except_work \/ exc = "lock"

OneRecovers == \A a, b \in Actors : rec[a] \in Steps /\ rec[b] \in Steps => a = b

\* The receive thread is kept out while a chip is reset, and nothing is loaded into a started one.
StepsSound == \A a \in Actors : /\ rec[a] = "reset" => power_off
                                /\ rec[a] \in {"load", "start"} => fw.st = "off"

\* The receive thread with a crash in hand, unless the exception work took it (cp_state 3).
RxOwns == /\ rx = "assert" => cp_state = 3 \/ (NoBoot /\ cp_state # 2 /\ (cp_state = 0 => Armed))
          /\ rx = "dump" => cp_state = 3 \/ (fw.st = "dead" /\ wire = <<>> /\ ~fw.dump /\ NoBoot)
          /\ rx = "cancel" => cp_state = 2 /\ NoBoot
          /\ rec["rx"] = "begin" => NoBoot
          /\ rec["rx"] # "no" => cp_state = 2 /\ ~Booting /\ rec["rx"] # "ready"
          /\ On(wire, "BSPASSERT") => cp_state # 2

\* The exception work with a crash in hand.
ExcOwns == /\ cp_state = 1 => NoBoot /\ Armed
           /\ exc = "block" => cp_state = 3 /\ NoBoot
           /\ rec["exc"] = "begin" => NoBoot
           /\ rec["exc"] # "no" => cp_state = 3 /\ ~Booting /\ rec["exc"] # "ready"

Once == OneRecovers /\ StepsSound /\ RxOwns /\ ExcOwns

LEMMA OnceInit == Init => Once
<1> SUFFICES ASSUME Init PROVE Once
  OBVIOUS
<1>1. \A a \in Actors : rec[a] = IF a = "svc" THEN "load" ELSE "no"
  BY DEF Init
<1>2. fw.st = "off" /\ wire = <<>> /\ rx = "idle" /\ exc = "idle" /\ cp_state = 0
  BY DEF Init
<1>3. ~On(wire, "BSPASSERT")
  BY <1>2 DEF On
<1> QED
  BY <1>1, <1>2, <1>3 DEF Once, OneRecovers, StepsSound, RxOwns, ExcOwns, Steps, Actors

\* A step that leaves the recoveries and the chip's boot where they are.
LEMMA OnceFrame ==
  ASSUME Base, Once,
         \A a \in Actors : rec'[a] = rec[a] \/ (a = "svc" /\ rec[a] = "no" /\ rec'[a] = "begin"),
         fw'.st = fw.st, fw'.dump = fw.dump, power_off => power_off',
         UNCHANGED <<wire, cp_state, rx, exc, except_work>>
  PROVE  Once'
<1>1. Booting' <=> Booting
  BY DEF Booting
<1>2. NoBoot' <=> NoBoot
  BY <1>1 DEF NoBoot, Actors
<1>3. Armed' <=> Armed
  BY DEF Armed
<1>4. OneRecovers'
  BY DEF Once, OneRecovers, Steps
<1>5. StepsSound'
  BY DEF Once, StepsSound
<1>6. rec'["rx"] = rec["rx"] /\ rec'["exc"] = rec["exc"] /\ (On(wire, "BSPASSERT")' <=> On(wire, "BSPASSERT"))
  BY DEF Actors, On
<1>7. RxOwns'
  BY <1>1, <1>2, <1>3, <1>6 DEF Once, RxOwns
<1>8. ExcOwns'
  BY <1>1, <1>2, <1>3, <1>6 DEF Once, ExcOwns
<1> QED
  BY <1>4, <1>5, <1>7, <1>8 DEF Once

LEMMA ChipOnce ==
  ASSUME Base, Once, FwBoot \/ FwReady \/ FwCrash \/ FwDump, ~spoilt'
  PROVE  Once'
<1>1. wire \in Seq(Messages) /\ fw \in Chips
  BY DEF Base, TypeInv
<1>2. UNCHANGED <<cp_state, rx, exc, rec, power_off, except_work>>
  BY DEF FwBoot, FwReady, FwCrash, FwDump, fwKeeps, cpVars, pcVars
<1>3. /\ fw.st # "off" /\ ~(fw.st = "dead" /\ ~fw.dump)
      /\ Booting' => Booting
      /\ On(wire', "BSPASSERT") => On(wire, "BSPASSERT") \/ cp_state = 0
  <2>1. CASE FwBoot
    <3>1. fw.st = "boot" /\ wire' = Append(wire, "trunk_W")
      BY <2>1 DEF FwBoot
    <3>2. Booting
      BY <3>1 DEF Booting
    <3> QED
      BY <1>1, <3>1, <3>2, Appended DEF Messages
  <2>2. CASE FwReady
    <3>1. PICK s \in fw.pend : fw' = [fw EXCEPT !.pend = @ \ {s}] /\ wire' = Append(wire, s) /\ fw.st = "run"
      BY <2>2 DEF FwReady
    <3>2. fw'.st = "run" /\ s \in Services
      BY <1>1, <3>1 DEF Chips
    <3>3. \A x \in {"trunk_W", "BSPASSERT"} : On(wire', x) <=> On(wire, x)
      BY <1>1, <3>1, <3>2, Appended DEF Messages, Services
    <3> QED
      BY <3>1, <3>2, <3>3 DEF Booting, On
  <2>3. CASE FwCrash
    <3>1. fw'.st = "dead" /\ wire' = Append(wire, "BSPASSERT") /\ fw.st \in {"run", "boot"} /\ cp_state = 0
      BY <2>3 DEF FwCrash
    <3>2. On(wire', "trunk_W") <=> On(wire, "trunk_W")
      BY <1>1, <3>1, Appended DEF Messages
    <3> QED
      BY <3>1, <3>2 DEF Booting, On
  <2>4. CASE FwDump
    <3>1. fw' = [fw EXCEPT !.dump = FALSE] /\ wire' = Append(wire, "DUMPDONE") /\ fw.st = "dead" /\ fw.dump
      BY <2>4 DEF FwDump
    <3>2. fw'.st = "dead"
      BY <1>1, <3>1 DEF Chips
    <3>3. \A x \in {"trunk_W", "BSPASSERT"} : On(wire', x) <=> On(wire, x)
      BY <1>1, <3>1, Appended DEF Messages, Services
    <3> QED
      BY <3>1, <3>2, <3>3 DEF Booting, On
  <2> QED
    BY <2>1, <2>2, <2>3, <2>4
<1>4. NoBoot => NoBoot'
  BY <1>2, <1>3 DEF NoBoot
<1>5. Armed' <=> Armed
  BY <1>2 DEF Armed
<1>6. StepsSound' /\ OneRecovers'
  BY <1>2, <1>3 DEF Once, StepsSound, OneRecovers
<1>7. RxOwns'
  BY <1>2, <1>3, <1>4, <1>5 DEF Once, RxOwns
<1>8. ExcOwns'
  BY <1>2, <1>3, <1>4, <1>5 DEF Once, ExcOwns
<1> QED
  BY <1>6, <1>7, <1>8 DEF Once

\* Nobody else recovers when a recovery begins, and no crash is handled beside a service call's.
LEMMA BeginOnce ==
  ASSUME Base, Base', Once, NEW a \in Actors, RecBegin(a), ~spoilt'
  PROVE  Once'
<1>1. /\ rec[a] = "begin" /\ \A b \in Actors : b # a => rec[b] = "no"
      /\ a = "svc" => ~except_work /\ exc = "idle" /\ rx = "idle"
  BY DEF RecBegin, Recovering, CrashHandled
<1>2. rec'[a] = "reset" /\ \A b \in Actors : b # a => rec'[b] = "no"
  BY <1>1, RecUpdate DEF RecBegin, RecIs, Base, TypeInv
<1>3. UNCHANGED <<cp_state, rx, exc, except_work, fw, wire>> /\ power_off' = TRUE
  BY DEF RecBegin, recKeeps, fwVars
<1>4. (Booting' <=> Booting) /\ (On(wire, "BSPASSERT")' <=> On(wire, "BSPASSERT"))
  BY <1>3 DEF Booting, On
<1>5. OneRecovers' /\ StepsSound'
  BY <1>2, <1>3 DEF OneRecovers, StepsSound, Steps
<1>6. CASE a = "rx"
  <2>1. rx = "recover" /\ cp_state = 2 /\ ~Booting
    BY <1>1, <1>6 DEF Base, Places, Once, RxOwns
  <2>2. exc # "block"
    BY <2>1 DEF Once, ExcOwns
  <2> QED
    BY <1>2, <1>3, <1>4, <1>5, <1>6, <2>1, <2>2 DEF Once, RxOwns, ExcOwns, Actors
<1>7. CASE a = "exc"
  <2>1. exc = "recover" /\ cp_state = 3 /\ ~Booting
    BY <1>1, <1>7 DEF Base, Places, Once, ExcOwns
  <2>2. rx # "cancel"
    BY <2>1 DEF Once, RxOwns
  <2> QED
    BY <1>2, <1>3, <1>4, <1>5, <1>7, <2>1, <2>2 DEF Once, RxOwns, ExcOwns, Actors
<1>8. CASE a = "svc"
  <2>1. cp_state # 1
    BY <1>1, <1>8 DEF Once, ExcOwns, Armed
  <2> QED
    BY <1>1, <1>2, <1>3, <1>4, <1>5, <1>8, <2>1 DEF Once, RxOwns, ExcOwns, Actors
<1> QED
  BY <1>6, <1>7, <1>8 DEF Actors

\* While a chip is reset, loaded and started nobody has a crash in hand.
LEMMA NothingInHand ==
  ASSUME Base, Once, NEW a \in Actors, rec[a] \in {"reset", "load", "start"}
  PROVE  /\ \A b \in Actors : b # a => rec[b] \notin Steps
         /\ rx \in {"assert", "dump"} => cp_state = 3
         /\ rx # "cancel" /\ rec["rx"] # "begin" /\ cp_state # 1 /\ exc # "block" /\ rec["exc"] # "begin"
         /\ rec["rx"] # "no" => a = "rx"
         /\ rec["exc"] # "no" => a = "exc"
<1>1. ~NoBoot
  BY DEF NoBoot
<1>2. /\ rx \in {"assert", "dump"} => cp_state = 3
      /\ rx # "cancel" /\ rec["rx"] # "begin" /\ cp_state # 1 /\ exc # "block" /\ rec["exc"] # "begin"
  BY <1>1 DEF Once, RxOwns, ExcOwns
<1>3. \A b \in Actors : b # a => rec[b] \notin Steps
  BY DEF Once, OneRecovers, Steps
<1>4. \A b \in Actors : rec[b] \in {"no", "begin"} \cup Steps
  BY DEF Base, TypeInv, TypeOK, Steps
<1> QED
  BY <1>2, <1>3, <1>4 DEF Actors

LEMMA RecoveryOnce ==
  ASSUME Base, Base', Once, NEW a \in Actors, Recover(a), ~spoilt'
  PROVE  Once'
<1>1. CASE RecBegin(a)
  BY <1>1, BeginOnce
<1>2. UNCHANGED <<cp_state, rx, exc, except_work>>
  BY DEF Recover, RecBegin, RecReset, RecLoad, RecStart, RecReady, recKeeps
<1>3. CASE RecReset(a)
  <2>1. rec[a] = "reset" /\ RecIs(a, "load") /\ fw'.st = "off" /\ wire' = <<>>
    BY <1>3 DEF RecReset, RecIs
  <2>2. rec'[a] = "load" /\ \A b \in Actors : b # a => rec'[b] = rec[b]
    BY <2>1, RecUpdate DEF Base, TypeInv
  <2>3. ~Booting' /\ ~On(wire', "BSPASSERT")
    BY <2>1 DEF Booting, On
  <2>4. OneRecovers' /\ StepsSound'
    BY <2>1, <2>2, NothingInHand DEF OneRecovers, StepsSound, Steps
  <2>5. RxOwns'
    BY <1>2, <2>1, <2>2, <2>3, NothingInHand DEF Once, RxOwns, Actors
  <2>6. ExcOwns'
    BY <1>2, <2>1, <2>2, <2>3, NothingInHand DEF Once, ExcOwns, Actors
  <2> QED
    BY <2>4, <2>5, <2>6 DEF Once
<1>4. CASE RecLoad(a)
  <2>1. rec[a] = "load" /\ RecIs(a, "start") /\ UNCHANGED <<fw, wire>>
    BY <1>4 DEF RecLoad, RecIs, fwVars
  <2>2. rec'[a] = "start" /\ \A b \in Actors : b # a => rec'[b] = rec[b]
    BY <2>1, RecUpdate DEF Base, TypeInv
  <2>3. (Booting' <=> Booting) /\ (On(wire', "BSPASSERT") <=> On(wire, "BSPASSERT"))
    BY <2>1 DEF Booting
  <2>4. OneRecovers' /\ StepsSound'
    BY <2>1, <2>2, NothingInHand DEF OneRecovers, StepsSound, Steps, Once
  <2>5. RxOwns'
    BY <1>2, <2>1, <2>2, <2>3, NothingInHand DEF Once, RxOwns, Actors
  <2>6. ExcOwns'
    BY <1>2, <2>1, <2>2, <2>3, NothingInHand DEF Once, ExcOwns, Actors
  <2> QED
    BY <2>4, <2>5, <2>6 DEF Once
<1>5. CASE RecStart(a)
  <2>1. /\ rec[a] = "start" /\ RecIs(a, IF cp_state = 0 THEN "ready" ELSE "no")
        /\ wire' = wire
    BY <1>5 DEF RecStart, RecIs
  <2>2. /\ rec'[a] = IF cp_state = 0 THEN "ready" ELSE "no"
        /\ \A b \in Actors : b # a => rec'[b] = rec[b]
    BY <2>1, RecUpdate DEF Base, TypeInv
  <2>3. On(wire', "BSPASSERT") <=> On(wire, "BSPASSERT")
    BY <2>1
  <2>4. OneRecovers' /\ StepsSound'
    BY <2>1, <2>2, NothingInHand DEF OneRecovers, StepsSound, Steps, Once
  <2>5. RxOwns'
    BY <1>2, <2>1, <2>2, <2>3, NothingInHand DEF Once, RxOwns, Actors
  <2>6. ExcOwns'
    BY <1>2, <2>1, <2>2, <2>3, NothingInHand DEF Once, ExcOwns, Actors
  <2> QED
    BY <2>4, <2>5, <2>6 DEF Once
<1>6. CASE RecReady(a)
  <2>1. rec[a] = "ready" /\ RecIs(a, "no") /\ UNCHANGED <<fw, wire, power_off>>
    BY <1>6 DEF RecReady, RecIs, fwVars
  <2>2. rec'[a] = "no" /\ \A b \in Actors : b # a => rec'[b] = rec[b]
    BY <2>1, RecUpdate DEF Base, TypeInv
  <2>3. (Booting' <=> Booting) /\ (On(wire', "BSPASSERT") <=> On(wire, "BSPASSERT"))
    BY <2>1 DEF Booting
  <2>4. (NoBoot => NoBoot') /\ (Armed' <=> Armed)
    BY <1>2, <2>2, <2>3 DEF NoBoot, Armed
  <2>5. OneRecovers' /\ StepsSound'
    BY <2>1, <2>2 DEF OneRecovers, StepsSound, Steps, Once
  <2>6. RxOwns'
    BY <1>2, <2>1, <2>2, <2>3, <2>4 DEF Once, RxOwns, Actors
  <2>7. ExcOwns'
    BY <1>2, <2>1, <2>2, <2>3, <2>4 DEF Once, ExcOwns, Actors
  <2> QED
    BY <2>5, <2>6, <2>7 DEF Once
<1> QED
  BY <1>1, <1>3, <1>4, <1>5, <1>6 DEF Recover

\* A message the receive thread takes is not taken while a chip is reset, loaded or started.
LEMMA TakenOnce ==
  ASSUME Base, Once, NEW m \in Messages \ {"trunk_W"}, RxTake(m), fw' = fw, UNCHANGED <<rec, power_off>>
  PROVE  /\ NoBoot /\ NoBoot' /\ OneRecovers' /\ StepsSound'
         /\ rx = "idle" /\ rec["rx"] = "no" /\ ~Booting' /\ (On(wire', "BSPASSERT") => On(wire, "BSPASSERT"))
<1>1. ~Booting /\ ~Booting' /\ (On(wire', "BSPASSERT") => On(wire, "BSPASSERT"))
  BY HeardOne DEF Messages
<1>2. rx = "idle" /\ ~power_off /\ wire # <<>>
  BY DEF RxTake
<1>3. fw.st # "off"
  BY <1>2 DEF Base, WireSays
<1>4. NoBoot /\ NoBoot'
  BY <1>1, <1>2, <1>3 DEF NoBoot, Once, StepsSound
<1>5. OneRecovers' /\ StepsSound'
  BY DEF Once, OneRecovers, StepsSound
<1> QED
  BY <1>1, <1>2, <1>4, <1>5 DEF Base, Places

LEMMA RxOnce ==
  ASSUME Base, Base', Once, RxThread, ~spoilt'
  PROVE  Once'
<1>1. ASSUME NEW s \in Services, RxServiceReady(s)  PROVE Once'
  <2>1. UNCHANGED <<cp_state, rx, exc, except_work, fw, rec, power_off>> /\ RxTake(s) /\ s \in Messages \ {"trunk_W"}
    BY <1>1 DEF RxServiceReady, rxKeeps, Messages, Services
  <2>2. RxOwns' /\ ExcOwns'
    BY <2>1, TakenOnce DEF Once, RxOwns, ExcOwns, Armed
  <2> QED
    BY <2>1, <2>2, TakenOnce DEF Once
<1>2. CASE RxTrunk
  <2>1. /\ UNCHANGED <<rx, exc, except_work, fw, rec, power_off>> /\ RxTake("trunk_W") /\ cp_state' = 0
        /\ rx = "idle"
    BY <1>2 DEF RxTrunk, RxTake, rxKeeps
  <2>2. Booting
    BY <2>1, HeardOne DEF Booting, Messages, On
  <2>3. rec["exc"] = "no" /\ exc # "block" /\ rec["rx"] = "no"
    BY <2>1, <2>2 DEF Once, ExcOwns, NoBoot, Base, Places
  <2>4. OneRecovers' /\ StepsSound'
    BY <2>1 DEF Once, OneRecovers, StepsSound
  <2> QED
    BY <2>1, <2>3, <2>4 DEF Once, RxOwns, ExcOwns
<1>3. CASE RxAssert
  <2>1. /\ UNCHANGED <<cp_state, exc, fw, rec, power_off>> /\ RxTake("BSPASSERT") /\ rx' = "assert"
        /\ except_work' = (except_work \/ cp_state = 0)
    BY <1>3 DEF RxAssert, rxKeeps
  <2>2. On(wire, "BSPASSERT") /\ "BSPASSERT" \in Messages \ {"trunk_W"}
    BY <2>1, HeardOne DEF Messages, Services
  <2>3. cp_state # 2
    BY <2>2 DEF Once, RxOwns
  <2>4. RxOwns' /\ ExcOwns'
    BY <2>1, <2>2, <2>3, TakenOnce DEF Once, RxOwns, ExcOwns, Armed
  <2> QED
    BY <2>1, <2>2, <2>4, TakenOnce DEF Once
<1>4. CASE RxDump
  <2>1. /\ UNCHANGED <<cp_state, exc, fw, rec, power_off, except_work>> /\ RxTake("DUMPDONE") /\ rx' = "dump"
    BY <1>4 DEF RxDump, rxKeeps
  <2>2. fw.st = "dead" /\ wire' = <<>> /\ ~fw.dump /\ "DUMPDONE" \in Messages \ {"trunk_W"}
    BY <2>1, HeardOne DEF Messages, Services
  <2>3. RxOwns' /\ ExcOwns'
    BY <2>1, <2>2, TakenOnce DEF Once, RxOwns, ExcOwns, Armed
  <2> QED
    BY <2>1, <2>2, <2>3, TakenOnce DEF Once
<1>5. ASSUME RxAssertLocked \/ RxDumpLocked \/ RxCancel \/ RxRecovered
      PROVE  Once'
  <2>1. UNCHANGED <<exc, fw, wire, power_off>> /\ rec["rx"] = "no"
    BY <1>5 DEF RxAssertLocked, RxDumpLocked, RxCancel, RxRecovered, rxLockKeeps, rxKeeps, Base, Places
  <2>2. (Booting' <=> Booting) /\ (On(wire', "BSPASSERT") <=> On(wire, "BSPASSERT"))
    BY <2>1 DEF Booting
  <2>3. \A b \in Actors : rec'[b] = rec[b] \/ (b = "rx" /\ rec'[b] = "begin" /\ RxCancel)
    BY <1>5, RecUpdate DEF RxAssertLocked, RxDumpLocked, RxCancel, RxRecovered, RecIs, Base, TypeInv, Actors
  <2>4. NoBoot' <=> NoBoot
    BY <2>1, <2>2, <2>3 DEF NoBoot, Actors
  <2>5. OneRecovers' /\ StepsSound'
    BY <2>1, <2>3 DEF Once, OneRecovers, StepsSound, Steps
  <2>6. rec'["exc"] = rec["exc"] /\ (rec'["rx"] = "no" \/ (RxCancel /\ rec'["rx"] = "begin"))
    BY <2>1, <2>3 DEF Actors
  <2>7. cp_state \in 0 .. 3
    BY DEF Base, TypeInv, TypeOK
  <2>8. CASE RxAssertLocked
    <3>1. /\ rx = "assert" /\ rx' = "idle" /\ UNCHANGED <<except_work, rec>>
          /\ cp_state' = IF cp_state = 3 THEN 3 ELSE 1
      BY <2>8 DEF RxAssertLocked
    <3>2. CASE cp_state = 3
      BY <2>1, <2>2, <2>4, <2>5, <3>1, <3>2 DEF Once, RxOwns, ExcOwns, Armed
    <3>3. CASE cp_state # 3
      <4>1. NoBoot /\ cp_state # 2 /\ (cp_state = 0 => Armed) /\ cp_state' = 1
        BY <3>1, <3>3 DEF Once, RxOwns
      <4>2. Armed /\ exc # "block" /\ rec["exc"] = "no"
        BY <2>7, <3>3, <4>1 DEF Once, ExcOwns
      <4> QED
        BY <2>1, <2>2, <2>4, <2>5, <3>1, <4>1, <4>2 DEF Once, RxOwns, ExcOwns, Armed
    <3> QED
      BY <3>2, <3>3
  <2>9. CASE RxDumpLocked
    <3>1. /\ rx = "dump" /\ except_work' = except_work /\ rec' = rec
          /\ IF cp_state = 3 THEN rx' = "idle" /\ cp_state' = cp_state ELSE rx' = "cancel" /\ cp_state' = 2
      BY <2>9 DEF RxDumpLocked
    <3>2. CASE cp_state = 3
      BY <2>1, <2>2, <2>4, <2>5, <3>1, <3>2 DEF Once, RxOwns, ExcOwns, Armed
    <3>3. CASE cp_state # 3
      <4>1. NoBoot /\ wire = <<>> /\ cp_state' = 2 /\ rx' = "cancel"
        BY <3>1, <3>3 DEF Once, RxOwns
      <4>2. ~On(wire, "BSPASSERT")
        BY <4>1 DEF On
      <4>3. exc # "block" /\ rec["exc"] = "no"
        BY <3>3 DEF Once, ExcOwns
      <4> QED
        BY <2>1, <2>2, <2>4, <2>5, <3>1, <4>1, <4>2, <4>3 DEF Once, RxOwns, ExcOwns
    <3> QED
      BY <3>2, <3>3
  <2>10. CASE RxCancel
    <3>1. rx = "cancel" /\ cp_state' = cp_state /\ rx' = "recover"
      BY <2>10 DEF RxCancel
    <3>2. cp_state = 2 /\ NoBoot
      BY <3>1 DEF Once, RxOwns
    <3>3. ~Booting
      BY <3>2 DEF NoBoot
    <3> QED
      BY <2>1, <2>2, <2>4, <2>5, <2>6, <3>1, <3>2, <3>3 DEF Once, RxOwns, ExcOwns
  <2>11. CASE RxRecovered
    <3>1. rx' = "idle" /\ UNCHANGED <<cp_state, rec, except_work>>
      BY <2>11 DEF RxRecovered
    <3> QED
      BY <2>1, <2>2, <2>4, <2>5, <3>1 DEF Once, RxOwns, ExcOwns, Armed
  <2> QED
    BY <1>5, <2>8, <2>9, <2>10, <2>11
<1> QED
  BY <1>1, <1>2, <1>3, <1>4, <1>5 DEF RxThread

LEMMA ExcOnce ==
  ASSUME Base, Base', Once, ExcWork, ~spoilt'
  PROVE  Once'
<1>1. UNCHANGED <<rx, fw, wire, power_off>>
  BY DEF ExcWork, ExcFire, ExcLocked, ExcBlock, ExcRecovered, excKeeps, fwVars
<1>2. (Booting' <=> Booting) /\ (On(wire', "BSPASSERT") <=> On(wire, "BSPASSERT"))
  BY <1>1 DEF Booting
<1>3. \A b \in Actors : rec'[b] = rec[b] \/ (b = "exc" /\ rec[b] = "no" /\ rec'[b] = "begin" /\ ExcBlock)
  BY RecUpdate DEF ExcWork, ExcFire, ExcLocked, ExcBlock, ExcRecovered, RecIs, Base, TypeInv, Places, Actors
<1>4. NoBoot' <=> NoBoot
  BY <1>2, <1>3 DEF NoBoot, Actors
<1>5. OneRecovers' /\ StepsSound'
  BY <1>1, <1>3 DEF Once, OneRecovers, StepsSound, Steps
<1>6. CASE ExcFire
  <2>1. exc = "idle" /\ exc' = "lock" /\ UNCHANGED <<cp_state, rec>>
    BY <1>6 DEF ExcFire
  <2> QED
    BY <1>1, <1>2, <1>4, <1>5, <2>1 DEF Once, RxOwns, ExcOwns, Armed
<1>7. CASE ExcLocked
  <2>1. /\ exc = "lock" /\ UNCHANGED <<except_work, rec>> /\ ~(rx = "assert" /\ cp_state = 0)
        /\ IF cp_state = 1 THEN cp_state' = 3 /\ exc' = "block" ELSE exc' = "idle" /\ cp_state' = cp_state
    BY <1>7 DEF ExcLocked, ExcBehindRx
  <2>2. CASE cp_state = 1
    <3>1. NoBoot /\ rx # "cancel" /\ rec["rx"] = "no" /\ rec["exc"] = "no"
      BY <2>2 DEF Once, RxOwns, ExcOwns
    <3> QED
      BY <1>1, <1>2, <1>4, <1>5, <2>1, <2>2, <3>1 DEF Once, RxOwns, ExcOwns
  <2>3. CASE cp_state # 1
    BY <1>1, <1>2, <1>4, <1>5, <2>1, <2>3 DEF Once, RxOwns, ExcOwns
  <2> QED
    BY <2>2, <2>3
<1>8. CASE ExcBlock
  <2>1. exc = "block" /\ exc' = "recover" /\ UNCHANGED <<cp_state, except_work>>
    BY <1>8 DEF ExcBlock
  <2>2. cp_state = 3 /\ NoBoot /\ ~Booting
    BY <2>1 DEF Once, ExcOwns, NoBoot
  <2>3. rec'["rx"] = rec["rx"] /\ rec'["exc"] \in {rec["exc"], "begin"}
    BY <1>3 DEF Actors
  <2> QED
    BY <1>1, <1>2, <1>4, <1>5, <2>1, <2>2, <2>3 DEF Once, RxOwns, ExcOwns
<1>9. CASE ExcRecovered
  <2>1. exc = "recover" /\ exc' = "idle" /\ UNCHANGED <<cp_state, rec, except_work>>
    BY <1>9 DEF ExcRecovered
  <2> QED
    BY <1>1, <1>2, <1>4, <1>5, <2>1 DEF Once, RxOwns, ExcOwns, Armed
<1> QED
  BY <1>6, <1>7, <1>8, <1>9 DEF ExcWork

\* A failed transfer or a command that crashes the firmware: nobody recovers the chip and it is up.
LEMMA ArmOnce ==
  ASSUME Base, Base', Once, Abort \/ AssertCommand, ~spoilt'
  PROVE  Once'
<1>1. /\ UNCHANGED <<rx, exc, rec, power_off>> /\ cp_state = 0 /\ cp_state' = 1 /\ except_work' = TRUE
      /\ Recovering = {} /\ ~Booting
  BY DEF Abort, AssertCommand, armKeeps, pcVars
<1>2. NoBoot /\ \A a \in Actors : rec[a] = "no"
  BY <1>1 DEF NoBoot, Recovering
<1>3. ~Booting' /\ ((fw' = fw /\ wire' = wire) \/ fw.st = "run")
  <2>1. CASE Abort
    BY <1>1, <2>1 DEF Abort, Booting, fwVars
  <2>2. CASE AssertCommand
    <3>1. fw'.st = "dead" /\ wire' = Append(wire, "BSPASSERT") /\ fw.st = "run" /\ wire \in Seq(Messages)
      BY <2>2 DEF AssertCommand, Base, TypeInv
    <3>2. On(wire', "trunk_W") <=> On(wire, "trunk_W")
      BY <3>1, Appended DEF Messages
    <3> QED
      BY <1>1, <3>1, <3>2 DEF Booting, On
  <2> QED
    BY <2>1, <2>2
<1>4. NoBoot'
  BY <1>1, <1>2, <1>3 DEF NoBoot
<1>5. OneRecovers' /\ StepsSound'
  BY <1>1, <1>2 DEF OneRecovers, StepsSound, Steps
<1>6. RxOwns'
  BY <1>1, <1>2, <1>3, <1>4 DEF Once, RxOwns, Actors
<1>7. ExcOwns'
  BY <1>1, <1>2, <1>3, <1>4 DEF Once, ExcOwns, Armed, Actors
<1> QED
  BY <1>5, <1>6, <1>7 DEF Once

LEMMA CallerOnce ==
  ASSUME Base, Base', Once, Caller \/ SvcCall \/ Power, ~spoilt'
  PROVE  Once'
<1>1. UNCHANGED <<wire, cp_state, rx, exc, except_work>> /\ (power_off => power_off')
  <2>1. UNCHANGED svcKeeps \/ (UNCHANGED pmKeeps /\ (power_off => power_off'))
    BY DEF Caller, FirstBooted, SvcBoot, SvcBooted, SvcWait, SvcLock, SvcLocked, SvcStart, SvcReady, SvcStop,
           SvcCall, svcRest, Power, Suspend, Resume
  <2> QED
    BY <2>1 DEF svcKeeps, pmKeeps, pcVars, fwVars
<1>2. fw'.st = fw.st /\ fw'.dump = fw.dump
  <2>1. fw' = fw \/ fw' = [fw EXCEPT !.pend = @ \cup {svc.s}]
    BY DEF Caller, FirstBooted, SvcBoot, SvcBooted, SvcWait, SvcLock, SvcLocked, SvcStart,
           SvcReady, SvcStop, SvcCall, svcRest, Power, Suspend, Resume, pmKeeps, fwVars
  <2> QED
    BY <2>1 DEF Base, TypeInv, Chips
<1>3. rec' = rec \/ (RecIs("svc", "begin") /\ rec["svc"] = "no")
  <2>1. SvcBoot \/ SvcLock => rec["svc"] = "no"
    BY DEF SvcBoot, SvcLock, Base, Places
  <2> QED
    BY <2>1 DEF Caller, FirstBooted, SvcBoot, SvcBooted, SvcWait, SvcLock, SvcLocked, SvcStart,
           SvcReady, SvcStop, SvcCall, svcRest, RecIs, Power, Suspend, Resume, pmKeeps, pcVars
<1>4. \A a \in Actors : rec'[a] = rec[a] \/ (a = "svc" /\ rec[a] = "no" /\ rec'[a] = "begin")
  BY <1>3, RecUpdate DEF Actors, Base, TypeInv
<1> QED
  BY <1>1, <1>2, <1>4, OnceFrame

\* Once a behaviour is spoilt it stays so, and a chip recovered without a crash is remembered.
Marks == (spoilt => spoilt') /\ (cold => cold')

LEMMA MarksStay == Next => Marks
<1>1. CASE Chip \/ FwBoot
  <2>1. CASE FwBoot
    BY <2>1 DEF FwBoot, fwKeeps, Marks
  <2>2. CASE FwReady
    BY <2>2 DEF FwReady, fwKeeps, Marks
  <2>3. CASE FwCrash
    BY <2>3 DEF FwCrash, fwKeeps, Marks
  <2>4. CASE FwDump
    BY <2>4 DEF FwDump, fwKeeps, Marks
  <2> QED
    BY <1>1, <2>1, <2>2, <2>3, <2>4 DEF Chip
<1>2. CASE ExcWork \/ Abort \/ AssertCommand
  <2>1. CASE ExcFire
    BY <2>1 DEF ExcFire, excKeeps, Marks
  <2>2. CASE ExcLocked
    BY <2>2 DEF ExcLocked, excKeeps, Marks
  <2>3. CASE ExcBlock
    BY <2>3 DEF ExcBlock, excKeeps, Marks
  <2>4. CASE ExcRecovered
    BY <2>4 DEF ExcRecovered, excKeeps, Marks
  <2>5. CASE Abort
    BY <2>5 DEF Abort, armKeeps, Marks
  <2>6. CASE AssertCommand
    BY <2>6 DEF AssertCommand, armKeeps, Marks
  <2> QED
    BY <1>2, <2>1, <2>2, <2>3, <2>4, <2>5, <2>6 DEF ExcWork
<1>3. CASE Caller \/ SvcCall \/ Power
  <2>1. CASE FirstBooted
    BY <2>1 DEF FirstBooted, svcRest, svcKeeps, Marks
  <2>2. CASE SvcBoot
    BY <2>2 DEF SvcBoot, svcRest, svcKeeps, Marks
  <2>3. CASE SvcBooted
    BY <2>3 DEF SvcBooted, svcRest, svcKeeps, Marks
  <2>4. CASE SvcWait
    BY <2>4 DEF SvcWait, svcRest, svcKeeps, Marks
  <2>5. CASE SvcLock
    BY <2>5 DEF SvcLock, svcKeeps, Marks
  <2>6. CASE SvcLocked
    BY <2>6 DEF SvcLocked, svcRest, svcKeeps, Marks
  <2>7. CASE SvcStart
    BY <2>7 DEF SvcStart, svcKeeps, Marks
  <2>8. CASE SvcReady
    BY <2>8 DEF SvcReady, svcKeeps, Marks
  <2>9. CASE SvcStop
    BY <2>9 DEF SvcStop, svcKeeps, Marks
  <2>10. CASE SvcCall
    BY <2>10 DEF SvcCall, svcRest, svcKeeps, Marks
  <2>11. CASE Suspend
    BY <2>11 DEF Suspend, pmKeeps, Marks
  <2>12. CASE Resume
    BY <2>12 DEF Resume, pmKeeps, Marks
  <2> QED
    BY <1>3, <2>1, <2>2, <2>3, <2>4, <2>5, <2>6, <2>7, <2>8, <2>9, <2>10, <2>11, <2>12 DEF Caller, Power
<1>4. RxThread => Marks
  BY DEF RxThread, RxServiceReady, RxTrunk, RxAssert, RxAssertLocked, RxDump, RxDumpLocked, RxCancel,
         RxRecovered, rxLockKeeps, rxKeeps, Marks
<1>5. ASSUME NEW a \in Actors, Recover(a)  PROVE Marks
  <2>1. CASE RecBegin(a)
    BY <2>1 DEF RecBegin, Marks
  <2>2. CASE RecReset(a)
    BY <2>2 DEF RecReset, Marks
  <2>3. CASE RecLoad(a)
    BY <2>3 DEF RecLoad, Marks
  <2>4. CASE RecStart(a)
    BY <2>4 DEF RecStart, Marks
  <2>5. CASE RecReady(a)
    BY <2>5 DEF RecReady, Marks
  <2> QED
    BY <1>5, <2>1, <2>2, <2>3, <2>4, <2>5 DEF Recover
<1> QED
  BY <1>1, <1>2, <1>3, <1>4, <1>5 DEF Next, Recovery

LEMMA OnceKept ==
  Base /\ Base' /\ (spoilt \/ Once) /\ [Next]_vars => spoilt' \/ Once'
<1> SUFFICES ASSUME Base, Base', spoilt \/ Once, [Next]_vars, ~spoilt'  PROVE Once'
  OBVIOUS
<1>1. CASE UNCHANGED vars
  <2>1. UNCHANGED <<rec, fw, wire, cp_state, rx, exc, except_work, power_off, spoilt>>
    BY <1>1 DEF vars, cpVars, pcVars, fwVars, histVars
  <2> QED
    BY <2>1, OnceFrame
<1>2. CASE Next
  <2>1. Once
    BY <1>2, MarksStay DEF Marks
  <2> QED
    BY <1>2, <2>1, ChipOnce, RecoveryOnce, RxOnce, ExcOnce, ArmOnce, CallerOnce DEF Next, Chip, Recovery
<1> QED
  BY <1>1, <1>2
-----------------------------------------------------------------------------
(* The interrupt: disabled when a recovery begins, enabled when the        *)
(* firmware of a crashed chip is loaded.                                   *)

\* The first boot loads a chip whose interrupt was never disabled.
FirstLoad == svc.pc = "first" /\ rec["svc"] = "load"
Away == \E a \in Actors : rec[a] \in {"reset", "load"}

IrqSound == /\ Away => cp_state # 0 \/ FirstLoad
            /\ irq_depth = IF irq_type = "external" /\ Away /\ ~FirstLoad THEN 1 ELSE 0

LEMMA IrqRecovery ==
  ASSUME Base, Base', Once, Once', IrqSound, NEW a \in Actors, Recover(a), ~spoilt', ~cold'
  PROVE  IrqSound'
<1>1. UNCHANGED <<svc, cp_state, irq_type>> /\ irq_depth \in Nat
  BY DEF Recover, RecBegin, RecReset, RecLoad, RecStart, RecReady, recKeeps, Base, TypeInv, TypeOK
<1>2. ASSUME rec[a] \in Steps  PROVE \A b \in Actors : b # a => rec[b] \notin Steps
  BY <1>2 DEF Once, OneRecovers
<1>3. CASE RecBegin(a)
  <2>1. /\ rec[a] = "begin" /\ RecIs(a, "reset") /\ cp_state # 0 /\ \A b \in Actors : b # a => rec[b] = "no"
        /\ irq_depth' = IF irq_type = "external" THEN irq_depth + 1 ELSE irq_depth
    BY <1>3 DEF RecBegin, RecIs, Recovering
  <2>2. rec'[a] = "reset" /\ \A b \in Actors : b # a => rec'[b] = "no"
    BY <2>1, RecUpdate DEF Base, TypeInv
  <2>3. ~Away /\ Away' /\ ~FirstLoad'
    BY <2>1, <2>2 DEF Away, FirstLoad, Actors
  <2>4. irq_depth = 0
    BY <2>3 DEF IrqSound
  <2> QED
    BY <1>1, <2>1, <2>3, <2>4 DEF IrqSound
<1>4. CASE RecReset(a)
  <2>1. rec[a] = "reset" /\ RecIs(a, "load") /\ irq_depth' = irq_depth
    BY <1>4 DEF RecReset, RecIs, irqVars
  <2>2. rec'[a] = "load" /\ \A b \in Actors : b # a => rec'[b] = rec[b] /\ rec[b] \notin Steps
    BY <1>2, <2>1, RecUpdate DEF Base, TypeInv, Steps
  <2>3. Away /\ Away' /\ ~FirstLoad /\ ~FirstLoad'
    BY <1>1, <2>1, <2>2 DEF Away, FirstLoad, Actors, Base, Places, Steps
  <2> QED
    BY <1>1, <2>1, <2>3 DEF IrqSound
<1>5. CASE RecLoad(a)
  <2>1. /\ rec[a] = "load" /\ RecIs(a, "start")
        /\ irq_depth' = IF irq_type = "external" /\ cp_state # 0 /\ irq_depth > 0 THEN irq_depth - 1 ELSE irq_depth
    BY <1>5 DEF RecLoad, RecIs
  <2>2. rec'[a] = "start" /\ \A b \in Actors : b # a => rec'[b] = rec[b] /\ rec[b] \notin Steps
    BY <1>2, <2>1, RecUpdate DEF Base, TypeInv, Steps
  <2>3. Away /\ ~Away' /\ ~FirstLoad'
    BY <1>1, <2>1, <2>2 DEF Away, FirstLoad, Actors, Steps
  <2>4. irq_depth' = 0
    BY <1>1, <2>1, <2>3 DEF IrqSound
  <2> QED
    BY <2>3, <2>4 DEF IrqSound
<1>6. CASE RecStart(a) \/ RecReady(a)
  <2>1. /\ rec[a] \in {"start", "ready"} /\ irq_depth' = irq_depth
        /\ RecIs(a, IF rec[a] = "start" /\ cp_state = 0 THEN "ready" ELSE "no")
    BY <1>6 DEF RecStart, RecReady, RecIs, irqVars
  <2>2. rec'[a] \in {"ready", "no"} /\ \A b \in Actors : b # a => rec'[b] = rec[b] /\ rec[b] \notin Steps
    BY <1>2, <2>1, RecUpdate DEF Base, TypeInv, Steps
  <2>3. ~Away /\ ~Away'
    BY <2>1, <2>2 DEF Away, Steps
  <2> QED
    BY <2>1, <2>3 DEF IrqSound
<1> QED
  BY <1>3, <1>4, <1>5, <1>6 DEF Recover

\* The chip is up again only after its interrupt was enabled.
LEMMA IrqRest ==
  ASSUME Base, Base', Once, Once', IrqSound, ~cold', ~spoilt',
         RxThread \/ ExcWork \/ Abort \/ AssertCommand \/ Caller \/ SvcCall \/ Chip \/ FwBoot \/ Power
  PROVE  IrqSound'
<1>1. irq_depth' = irq_depth /\ irq_type' = irq_type
  <2>1. CASE Chip \/ FwBoot
    BY <2>1 DEF Chip, FwBoot, FwReady, FwCrash, FwDump, fwKeeps, irqVars
  <2>2. CASE RxThread
    BY <2>2 DEF RxThread, RxServiceReady, RxTrunk, RxAssert, RxAssertLocked, RxDump, RxDumpLocked, RxCancel,
                RxRecovered, rxLockKeeps, rxKeeps
  <2>3. CASE ExcWork \/ Abort \/ AssertCommand
    BY <2>3 DEF ExcWork, ExcFire, ExcLocked, ExcBlock, ExcRecovered, excKeeps, Abort, AssertCommand, armKeeps, irqVars
  <2>4. CASE Caller \/ SvcCall
    BY <2>4 DEF Caller, FirstBooted, SvcBoot, SvcBooted, SvcWait, SvcLock, SvcLocked, SvcStart, SvcReady, SvcStop,
                SvcCall, svcRest, svcKeeps
  <2>5. CASE Power
    BY <2>5 DEF Power, Suspend, Resume, pmKeeps, irqVars
  <2> QED
    BY <2>1, <2>2, <2>3, <2>4, <2>5
<1>2. \A a \in Actors : rec'[a] = rec[a] \/ (rec[a] = "no" /\ rec'[a] = "begin")
  <2>1. \/ rec' = rec
        \/ RecIs("rx", "begin") /\ rx = "cancel"
        \/ RecIs("exc", "begin") /\ exc = "block"
        \/ RecIs("svc", "begin") /\ svc.pc \in {"boot", "lock"}
    <3>1. CASE Chip \/ FwBoot
      BY <3>1 DEF Chip, FwBoot, FwReady, FwCrash, FwDump, fwKeeps, pcVars
    <3>2. CASE RxThread
      BY <3>2 DEF RxThread, RxServiceReady, RxTrunk, RxAssert, RxAssertLocked, RxDump, RxDumpLocked, RxCancel,
                  RxRecovered, RecIs
    <3>3. CASE ExcWork \/ Abort \/ AssertCommand
      BY <3>3 DEF ExcWork, ExcFire, ExcLocked, ExcBlock, ExcRecovered, Abort, AssertCommand, armKeeps, pcVars, RecIs
    <3>4. CASE Caller \/ SvcCall
      BY <3>4 DEF Caller, FirstBooted, SvcBoot, SvcBooted, SvcWait, SvcLock, SvcLocked, SvcStart, SvcReady, SvcStop,
                  SvcCall, svcRest, RecIs
    <3>5. CASE Power
      BY <3>5 DEF Power, Suspend, Resume, pmKeeps, pcVars
    <3> QED
      BY <3>1, <3>2, <3>3, <3>4, <3>5
  <2> QED
    BY <2>1, RecUpdate DEF Base, TypeInv, Places, Actors
<1>3. Away' <=> Away
  BY <1>2 DEF Away
<1>4. rec["svc"] # "no" => svc' = svc
  <2>1. CASE Chip \/ FwBoot
    BY <2>1 DEF Chip, FwBoot, FwReady, FwCrash, FwDump, fwKeeps, pcVars
  <2>2. CASE RxThread
    BY <2>2 DEF RxThread, RxServiceReady, RxTrunk, RxAssert, RxAssertLocked, RxDump, RxDumpLocked, RxCancel,
                RxRecovered, rxLockKeeps, rxKeeps
  <2>3. CASE ExcWork \/ Abort \/ AssertCommand
    BY <2>3 DEF ExcWork, ExcFire, ExcLocked, ExcBlock, ExcRecovered, excKeeps, Abort, AssertCommand, armKeeps, pcVars
  <2>4. CASE Caller \/ SvcCall
    BY <2>4 DEF Caller, FirstBooted, SvcBoot, SvcBooted, SvcWait, SvcLock, SvcLocked, SvcStart, SvcReady, SvcStop,
                SvcCall, Base, Places
  <2>5. CASE Power
    BY <2>5 DEF Power, Suspend, Resume, pmKeeps, pcVars
  <2> QED
    BY <2>1, <2>2, <2>3, <2>4, <2>5
<1>5. FirstLoad' <=> FirstLoad
  <2>1. rec'["svc"] = "load" <=> rec["svc"] = "load"
    BY <1>2 DEF Actors
  <2> QED
    BY <1>4, <2>1 DEF FirstLoad
<1>6. Away /\ cp_state # 0 => cp_state' # 0
  <2>1. CASE Away /\ RxTrunk
    <3>1. ~power_off /\ wire # <<>>
      BY <2>1 DEF RxTrunk, RxTake
    <3>2. fw.st # "off"
      BY <3>1 DEF Base, WireSays
    <3> QED
      BY <2>1, <3>1, <3>2 DEF Away, Once, StepsSound
  <2>2. ASSUME cp_state # 0, ~RxTrunk  PROVE cp_state' # 0
    <3>1. CASE Chip \/ FwBoot
      BY <2>2, <3>1 DEF Chip, FwBoot, FwReady, FwCrash, FwDump, fwKeeps, cpVars
    <3>2. CASE RxThread
      BY <2>2, <3>2 DEF RxThread, RxServiceReady, RxAssert, RxAssertLocked, RxDump, RxDumpLocked, RxCancel,
                  RxRecovered
    <3>3. CASE ExcWork \/ Abort \/ AssertCommand
      BY <2>2, <3>3 DEF ExcWork, ExcFire, ExcLocked, ExcBlock, ExcRecovered, Abort, AssertCommand
    <3>4. CASE Caller \/ SvcCall
      BY <2>2, <3>4 DEF Caller, FirstBooted, SvcBoot, SvcBooted, SvcWait, SvcLock, SvcLocked, SvcStart, SvcReady,
                  SvcStop, SvcCall, svcRest, svcKeeps
    <3>5. CASE Power
      BY <2>2, <3>5 DEF Power, Suspend, Resume, pmKeeps
    <3> QED
      BY <3>1, <3>2, <3>3, <3>4, <3>5
  <2> QED
    BY <2>1, <2>2
<1> QED
  BY <1>1, <1>3, <1>5, <1>6 DEF IrqSound
-----------------------------------------------------------------------------
(* What the users of the ports were told, and what a service start waits   *)
(* for.                                                                    *)

ToldSound == cp_state = 0 => cp_exception_sts = 0

LEMMA ToldKept ==
  ASSUME Once, ToldSound, Next
  PROVE  ToldSound'
<1>1. CASE Chip \/ FwBoot
  BY <1>1 DEF Chip, FwBoot, FwReady, FwCrash, FwDump, fwKeeps, cpVars, ToldSound
<1>2. CASE Recovery
  BY <1>2 DEF Recovery, Recover, RecBegin, RecReset, RecLoad, RecStart, RecReady, recKeeps, ToldSound
<1>3. CASE Caller \/ SvcCall
  BY <1>3 DEF Caller, FirstBooted, SvcBoot, SvcBooted, SvcWait, SvcLock, SvcLocked, SvcStart, SvcReady, SvcStop,
              SvcCall, svcRest, svcKeeps, ToldSound
<1>4. CASE Power
  BY <1>4 DEF Power, Suspend, Resume, pmKeeps, ToldSound
<1>5. CASE Abort \/ AssertCommand
  BY <1>5 DEF Abort, AssertCommand, ToldSound
<1>6. CASE RxThread
  <2>1. RxCancel => cp_state = 2
    BY DEF RxCancel, Once, RxOwns
  <2> QED
    BY <1>6, <2>1 DEF RxThread, RxServiceReady, RxTrunk, RxAssert, RxAssertLocked, RxDump, RxDumpLocked, RxCancel,
                      RxRecovered, ToldSound
<1>7. CASE ExcWork
  <2>1. ExcBlock => cp_state = 3
    BY DEF ExcBlock, Once, ExcOwns
  <2> QED
    BY <1>7, <2>1 DEF ExcWork, ExcFire, ExcLocked, ExcBlock, ExcRecovered, ToldSound
<1> QED
  BY <1>1, <1>2, <1>3, <1>4, <1>5, <1>6, <1>7 DEF Next

\* A start that nothing earlier was owed to waits for its own service's answer: nothing else on
\* the wire completes it, and what its service said is still in the map.
AnswerSound ==
  svc.pc = "ready" /\ ~late =>
    /\ svc.op = "start" /\ exc # "block"
    /\ fw.pend \subseteq {svc.s} /\ \A x \in Services : On(wire, x) => x = svc.s
    /\ download_done = 0 \/ svc.s \in service_state_map
    /\ cp_state = 0 => ~Booting

\* The command goes out with the completion reset and nothing owed.
LEMMA StartAnswer ==
  ASSUME Base, Once, SvcStart
  PROVE  AnswerSound'
<1>1. CASE cp_state # 0
  BY <1>1 DEF SvcStart, AnswerSound, Call
<1>2. CASE cp_state = 0
  <2>1. /\ svc' = [svc EXCEPT !.pc = "ready"] /\ late' = AnswersOwed /\ download_done' = 0 /\ svc.op = "start"
        /\ fw' = IF fw.st = "run" THEN [fw EXCEPT !.pend = @ \cup {svc.s}] ELSE fw
        /\ UNCHANGED <<exc, wire, cp_state>>
    BY <1>2 DEF SvcStart, svcKeeps
  <2>2. svc'.s = svc.s /\ svc'.op = "start"
    BY <2>1 DEF Base, TypeInv, Calls
  <2>3. fw'.st = fw.st /\ fw'.pend \subseteq fw.pend \cup {svc.s}
    BY <2>1 DEF Base, TypeInv, Chips
  <2>4. exc # "block"
    BY <1>2 DEF Once, ExcOwns
  <2>5. ASSUME ~late'
        PROVE  fw.pend = {} /\ ~Booting /\ \A x \in Services : ~On(wire, x)
    BY <2>1, <2>5 DEF AnswersOwed, On
  <2>6. Booting' <=> Booting
    BY <2>1, <2>3 DEF Booting
  <2>7. ASSUME ~late'
        PROVE  fw'.pend \subseteq {svc'.s} /\ \A x \in Services : On(wire', x) => x = svc'.s
    BY <2>1, <2>2, <2>3, <2>5, <2>7
  <2> QED
    BY <2>1, <2>2, <2>4, <2>5, <2>6, <2>7 DEF AnswerSound
<1> QED
  BY <1>1, <1>2

LEMMA ChipAnswer ==
  ASSUME Base, AnswerSound, FwBoot \/ FwReady \/ FwCrash \/ FwDump
  PROVE  AnswerSound'
<1> SUFFICES ASSUME svc.pc = "ready", ~late
             PROVE  AnswerSound'
  BY DEF AnswerSound, FwBoot, FwReady, FwCrash, FwDump, fwKeeps, pcVars
<1>1. UNCHANGED <<svc, late, exc, download_done, service_state_map, cp_state>>
  BY DEF FwBoot, FwReady, FwCrash, FwDump, fwKeeps, cpVars, pcVars
<1>2. wire \in Seq(Messages) /\ fw \in Chips
  BY DEF Base, TypeInv
<1>3. CASE FwBoot
  <2>1. wire' = Append(wire, "trunk_W") /\ fw'.pend = fw.pend /\ Booting
    BY <1>2, <1>3 DEF FwBoot, Chips, Booting
  <2>2. \A x \in Services : On(wire', x) => On(wire, x)
    BY <1>2, <2>1, Appended DEF Messages, Services
  <2> QED
    BY <1>1, <2>1, <2>2 DEF AnswerSound
<1>4. CASE FwReady
  <2>1. PICK s \in fw.pend : fw' = [fw EXCEPT !.pend = @ \ {s}] /\ wire' = Append(wire, s) /\ fw.st = "run"
    BY <1>4 DEF FwReady
  <2>2. fw'.st = "run" /\ fw'.pend \subseteq fw.pend /\ s \in Services /\ s = svc.s
    BY <1>2, <2>1 DEF Chips, AnswerSound
  <2>3. /\ \A x \in Services : On(wire', x) => On(wire, x) \/ x = s
        /\ On(wire', "trunk_W") => On(wire, "trunk_W")
    BY <1>2, <2>1, <2>2, Appended DEF Messages, Services
  <2>4. Booting' => Booting
    BY <2>2, <2>3 DEF Booting, On
  <2> QED
    BY <1>1, <2>2, <2>3, <2>4 DEF AnswerSound
<1>5. CASE FwCrash
  <2>1. wire' = Append(wire, "BSPASSERT") /\ fw'.pend = {} /\ fw'.st = "dead"
    BY <1>5 DEF FwCrash
  <2>2. \A x \in Services \cup {"trunk_W"} : On(wire', x) => On(wire, x)
    BY <1>2, <2>1, Appended DEF Messages, Services
  <2>3. Booting' => Booting
    BY <2>1, <2>2 DEF Booting, On
  <2> QED
    BY <1>1, <2>1, <2>2, <2>3 DEF AnswerSound
<1>6. CASE FwDump
  <2>1. fw' = [fw EXCEPT !.dump = FALSE] /\ wire' = Append(wire, "DUMPDONE")
    BY <1>6 DEF FwDump
  <2>2. fw'.pend = fw.pend /\ fw'.st = fw.st
    BY <1>2, <2>1 DEF Chips
  <2>3. \A x \in Services \cup {"trunk_W"} : On(wire', x) => On(wire, x)
    BY <1>2, <2>1, Appended DEF Messages, Services
  <2>4. Booting' => Booting
    BY <2>2, <2>3 DEF Booting, On
  <2> QED
    BY <1>1, <2>2, <2>3, <2>4 DEF AnswerSound
<1> QED
  BY <1>3, <1>4, <1>5, <1>6

LEMMA RecoveryAnswer ==
  ASSUME Base, Base', Once, AnswerSound, NEW a \in Actors, Recover(a)
  PROVE  AnswerSound'
<1>1. UNCHANGED <<svc, late, exc, service_state_map, cp_state>>
  BY DEF Recover, RecBegin, RecReset, RecLoad, RecStart, RecReady, recKeeps
<1> SUFFICES ASSUME svc.pc = "ready", ~late
             PROVE  AnswerSound'
  BY <1>1 DEF AnswerSound
<1>2. rec[a] # "no" /\ a # "svc" /\ cp_state # 0 /\ rec[a] # "ready"
  BY DEF Recover, RecBegin, RecReset, RecLoad, RecStart, RecReady, Base, Places, Once, RxOwns, ExcOwns, Actors
<1>3. /\ download_done' = download_done /\ fw'.pend \subseteq fw.pend
      /\ wire' = wire \/ wire' = <<>>
  <2>1. CASE RecBegin(a) \/ RecLoad(a)
    BY <2>1 DEF RecBegin, RecLoad, fwVars
  <2>2. CASE RecReset(a)
    BY <2>2 DEF RecReset, fwVars
  <2>3. CASE RecStart(a)
    BY <2>3 DEF RecStart, Base, TypeInv, Chips
  <2> QED
    BY <1>2, <2>1, <2>2, <2>3 DEF Recover, RecReady
<1>4. \A x \in Services : On(wire', x) => On(wire, x)
  BY <1>3 DEF On
<1> QED
  BY <1>1, <1>2, <1>3, <1>4 DEF AnswerSound

LEMMA RxAnswer ==
  ASSUME Base, Once, AnswerSound, RxThread
  PROVE  AnswerSound'
<1>1. UNCHANGED <<svc, late, exc, fw>>
  BY DEF RxThread, RxServiceReady, RxTrunk, RxAssert, RxAssertLocked, RxDump, RxDumpLocked, RxCancel,
         RxRecovered, rxLockKeeps, rxKeeps
<1> SUFFICES ASSUME svc.pc = "ready", ~late
             PROVE  AnswerSound'
  BY <1>1 DEF AnswerSound
<1>2. ASSUME NEW s \in Services, RxServiceReady(s)  PROVE AnswerSound'
  <2>1. RxTake(s) /\ s \in Messages /\ service_state_map' = service_state_map \cup {s}
    BY <1>2 DEF RxServiceReady, Messages
  <2>2. ~Booting' /\ (\A x \in Services : On(wire', x) => On(wire, x)) /\ On(wire, s)
    BY <1>1, <2>1, HeardOne DEF Messages
  <2> QED
    BY <1>1, <2>1, <2>2 DEF AnswerSound
<1>3. CASE RxTrunk
  <2>1. RxTake("trunk_W") /\ service_state_map' = service_state_map
    BY <1>3 DEF RxTrunk
  <2>2. ~Booting' /\ (\A x \in Services : On(wire', x) => On(wire, x)) /\ On(wire, "trunk_W")
    BY <1>1, <2>1, HeardOne DEF Messages
  <2>3. cp_state # 0
    BY <2>2 DEF AnswerSound, Booting, On
  <2>4. download_done' = download_done
    BY <1>3, <2>3 DEF RxTrunk
  <2> QED
    BY <1>1, <2>1, <2>2, <2>4 DEF AnswerSound
<1>4. CASE RxAssert \/ RxDump
  <2>1. /\ RxTake("BSPASSERT") \/ RxTake("DUMPDONE")
        /\ UNCHANGED <<service_state_map, cp_state, download_done>>
    BY <1>4 DEF RxAssert, RxDump
  <2>2. ~Booting' /\ \A x \in Services : On(wire', x) => On(wire, x)
    BY <1>1, <2>1, HeardOne DEF Messages
  <2> QED
    BY <1>1, <2>1, <2>2 DEF AnswerSound
<1>5. ~RxAssertLocked /\ ~RxDumpLocked
  BY DEF RxAssertLocked, RxDumpLocked, Base, Places
<1>6. CASE RxCancel \/ RxRecovered
  BY <1>1, <1>6 DEF RxCancel, RxRecovered, rxLockKeeps, AnswerSound, Booting
<1> QED
  BY <1>2, <1>3, <1>4, <1>5, <1>6 DEF RxThread

LEMMA ExcAnswer ==
  ASSUME Base, Once, AnswerSound, ExcWork \/ Abort \/ AssertCommand
  PROVE  AnswerSound'
<1>1. UNCHANGED <<svc, late, download_done>>
  BY DEF ExcWork, ExcFire, ExcLocked, ExcBlock, ExcRecovered, excKeeps, Abort, AssertCommand, armKeeps, pcVars
<1> SUFFICES ASSUME svc.pc = "ready", ~late
             PROVE  AnswerSound'
  BY <1>1 DEF AnswerSound
<1>2. ~ExcLocked /\ ~ExcBlock
  BY DEF ExcLocked, ExcBlock, Base, Places, AnswerSound
<1>3. CASE ExcFire \/ ExcRecovered
  BY <1>1, <1>3 DEF ExcFire, ExcRecovered, excKeeps, fwVars, AnswerSound, Booting
<1>4. CASE Abort
  BY <1>1, <1>4 DEF Abort, armKeeps, pcVars, fwVars, AnswerSound
<1>5. CASE AssertCommand
  <2>1. /\ fw'.pend = {} /\ wire' = Append(wire, "BSPASSERT") /\ wire \in Seq(Messages) /\ cp_state' = 1
        /\ UNCHANGED <<exc, service_state_map>>
    BY <1>5 DEF AssertCommand, armKeeps, pcVars, Base, TypeInv
  <2>2. \A x \in Services : On(wire', x) => On(wire, x)
    BY <2>1, Appended DEF Messages, Services
  <2> QED
    BY <1>1, <2>1, <2>2 DEF AnswerSound
<1> QED
  BY <1>2, <1>3, <1>4, <1>5 DEF ExcWork

LEMMA CallerAnswer ==
  ASSUME Base, Once, AnswerSound, Caller \/ SvcCall \/ Power
  PROVE  AnswerSound'
<1>1. CASE SvcStart
  BY <1>1, StartAnswer
<1>2. CASE Power
  BY <1>2 DEF Power, Suspend, Resume, pmKeeps, pcVars, fwVars, AnswerSound, Booting
<1>3. CASE (Caller \/ SvcCall) /\ ~SvcStart
  <2>1. svc'.pc # "ready"
    <3>1. svc \in Calls
      BY DEF Base, TypeInv
    <3> QED
      BY <1>3, <3>1 DEF Caller, FirstBooted, SvcBoot, SvcBooted, SvcWait, SvcLock, SvcLocked, SvcReady, SvcStop,
                        SvcCall, Call, Calls
  <2> QED
    BY <2>1 DEF AnswerSound
<1> QED
  BY <1>1, <1>2, <1>3
-----------------------------------------------------------------------------
(* The inductive invariant and the theorems. *)

PlatInv == Base /\ (spoilt \/ (Once /\ ToldSound /\ AnswerSound /\ (cold \/ IrqSound)))

LEMMA PlatInvInit == Init => PlatInv
<1> SUFFICES ASSUME Init PROVE PlatInv
  OBVIOUS
<1>1. svc.pc = "first" /\ rec["svc"] = "load"
  BY DEF Init, Call, Actors
<1>2. ToldSound /\ AnswerSound /\ IrqSound
  BY <1>1 DEF Init, ToldSound, AnswerSound, IrqSound, FirstLoad
<1> QED
  BY <1>2, TypeInit, OnceInit DEF PlatInv

LEMMA PlatInvKept == PlatInv /\ [Next]_vars => PlatInv'
<1> SUFFICES ASSUME PlatInv, [Next]_vars PROVE PlatInv'
  OBVIOUS
<1>1. Base /\ Base'
  BY BaseKept DEF PlatInv
<1>2. CASE UNCHANGED vars
  BY <1>1, <1>2 DEF PlatInv, Once, OneRecovers, StepsSound, RxOwns, ExcOwns, NoBoot, Armed, Booting, ToldSound,
                    AnswerSound, IrqSound, Away, FirstLoad, vars, cpVars, irqVars, pcVars, fwVars, histVars
<1>3. CASE Next
  <2> SUFFICES ASSUME ~spoilt'
               PROVE  Once' /\ ToldSound' /\ AnswerSound' /\ (cold' \/ IrqSound')
    BY <1>1 DEF PlatInv
  <2>1. ~spoilt /\ (cold => cold')
    BY <1>3, MarksStay DEF Marks
  <2>2. Once /\ ToldSound /\ AnswerSound /\ (cold \/ IrqSound)
    BY <2>1 DEF PlatInv
  <2>3. Once'
    BY <1>1, <2>2, OnceKept
  <2>4. ToldSound'
    BY <1>3, <2>2, ToldKept
  <2>5. AnswerSound'
    BY <1>1, <1>3, <2>2, ChipAnswer, RecoveryAnswer, RxAnswer, ExcAnswer, CallerAnswer
       DEF Next, Chip, Recovery
  <2>6. ASSUME ~cold'  PROVE IrqSound'
    <3>1. IrqSound
      BY <2>1, <2>2, <2>6
    <3> QED
      BY <1>1, <1>3, <2>2, <2>3, <2>6, <3>1, IrqRecovery, IrqRest DEF Next, Recovery
  <2> QED
    BY <2>3, <2>4, <2>5, <2>6
<1> QED
  BY <1>2, <1>3

LEMMA PlatInvHolds == Spec => []PlatInv
BY PlatInvInit, PlatInvKept, PTL DEF Spec

\* A chip that is alive is heard once every recovery is over (skw_sdio_boot_cp enables what
\* skw_recovery_mode disabled), and the users of its ports were told of the recovery after the
\* crash (skw_sdio_exception_work, skw_sdio2_handle_packet), unless a recovery failed or overlapped.
THEOREM PlatIsSound == Spec => []PlatSound
<1>1. PlatInv => PlatSound
  <2> SUFFICES ASSUME PlatInv PROVE PlatSound
    OBVIOUS
  <2>1. TypeOK
    BY DEF PlatInv, Base, TypeInv
  <2>2. HeardWhenAlive
    BY DEF PlatInv, IrqSound, HeardWhenAlive, Away, Recovering
  <2>3. ToldOfRecovery
    BY DEF PlatInv, ToldSound, ToldOfRecovery
  <2> QED
    BY <2>1, <2>2, <2>3 DEF PlatSound
<1> QED
  BY <1>1, PlatInvHolds, PTL

\* The receive thread and the exception work never reset a chip that the other has started and
\* nobody has heard of yet: skw_recovery_mode runs once for a crash.
THEOREM CrashIsRecoveredOnce == Spec => RecoveredOnce
<1> DEFINE P == \A a \in {"rx", "exc"} : rec[a] = "begin" /\ rec'[a] = "reset" => ~Booting \/ spoilt'
<1>1. PlatInv /\ [Next]_vars => [P]_vars
  <2> SUFFICES ASSUME PlatInv, Next, NEW a \in {"rx", "exc"}, rec[a] = "begin", rec'[a] = "reset", ~spoilt'
               PROVE  ~Booting
    OBVIOUS
  <2>1. Once
    BY MarksStay DEF Marks, PlatInv
  <2> QED
    BY <2>1 DEF Once, RxOwns, ExcOwns, NoBoot
<1>2. []PlatInv /\ [][Next]_vars => [][P]_vars
  BY <1>1, PTL
<1> QED
  BY <1>2, PlatInvHolds DEF Spec, RecoveredOnce

\* A service start that reports success (skw_check_cp_ready in skw_WIFI_service_start and
\* skw_BT_service_start) was completed by its own service's answer, unless an earlier answer was
\* still to come when the command went out.
THEOREM StartIsAnswered == Spec => StartMeansReady
<1> DEFINE P == svc.pc = "ready" /\ svc'.pc = "idle" /\ svc'.ok
                  => svc.s \in service_state_map' \/ late \/ spoilt
<1>1. PlatInv /\ [Next]_vars => [P]_vars
  <2> SUFFICES ASSUME PlatInv, Next, svc.pc = "ready", svc'.pc = "idle", svc'.ok, ~late, ~spoilt
               PROVE  svc.s \in service_state_map'
    OBVIOUS
  <2>1. svc' # svc
    OBVIOUS
  <2>2. SvcReady
    <3>1. ~(Chip \/ FwBoot)
      BY <2>1 DEF Chip, FwBoot, FwReady, FwCrash, FwDump, fwKeeps, pcVars
    <3>2. ~RxThread
      BY <2>1 DEF RxThread, RxServiceReady, RxTrunk, RxAssert, RxAssertLocked, RxDump, RxDumpLocked, RxCancel,
                  RxRecovered, rxLockKeeps, rxKeeps
    <3>3. ~(ExcWork \/ Abort \/ AssertCommand)
      BY <2>1 DEF ExcWork, ExcFire, ExcLocked, ExcBlock, ExcRecovered, excKeeps, Abort, AssertCommand, armKeeps, pcVars
    <3>4. ~Power
      BY <2>1 DEF Power, Suspend, Resume, pmKeeps, pcVars
    <3>5. ~Recovery
      BY <2>1 DEF Recovery, Recover, RecBegin, RecReset, RecLoad, RecStart, RecReady, recKeeps
    <3> QED
      BY <3>1, <3>2, <3>3, <3>4, <3>5 DEF Next, Caller, FirstBooted, SvcBoot, SvcBooted, SvcWait, SvcLock, SvcLocked,
                  SvcStart, SvcStop, SvcCall
  <2>3. download_done > 0 /\ service_state_map' = service_state_map
    BY <2>2 DEF SvcReady, Call
  <2> QED
    BY <2>3 DEF PlatInv, AnswerSound
<1>2. []PlatInv /\ [][Next]_vars => [][P]_vars
  BY <1>1, PTL
<1> QED
  BY <1>2, PlatInvHolds DEF Spec, StartMeansReady

-----------------------------------------------------------------------------
(* Boot, services and recovery over USB. *)

CtlMsgs == CtlServices \cup {"trunk", "exit", "assert"}
CtlChips == [st : {"off", "rom", "app"}, fw : {"none", "boot", "up", "dead"}, req : SUBSET CtlServices, svc : SUBSET CtlServices, pin : BOOLEAN]
CtlBuses == [dev : {"none", "rom", "app"}, n : 0 .. 3]
CtlHosts == [status : {"OFF", "ON", "HALT", "FAILED"}, cp : 0 .. 2, map : SUBSET CtlServices, flag : BOOLEAN, done : BOOLEAN,
          data : BOOLEAN, wdev : BOOLEAN, add : BOOLEAN]
CtlTolds == [ev : {"none", "gone", "bootup", "ready", "assert", "blocked", "dumped"}, n : Nat]

CtlTypes ==
  /\ chip \in CtlChips /\ usb \in CtlBuses /\ c_wire \in Seq(CtlMsgs)
  /\ loop \in {"none", "start", "read", "assert", "dump", "end"} /\ c_exc \in {"off", "armed", "run"}
  /\ mctl \in {"idle", "queued", "sent"} /\ dl \in {"idle", "queued", "dram", "iram", "boot", "exec", "fail"}
  /\ host \in CtlHosts /\ call \in [CtlServices -> {"idle", "start", "stop"}] /\ told \in CtlTolds

\* What a device is and what is probed of it.
Plugged ==
  /\ usb.n = 0 <=> usb.dev = "none"
  /\ usb.dev = "rom" => usb.n = 1
  /\ chip.fw # "none" => chip.st = "app"
  /\ chip.fw \in {"up", "dead"} => usb.dev = "app" /\ usb.n = 3
  /\ dl # "idle" => usb.dev = "rom" /\ chip.st # "app"
  /\ loop # "none" => usb.dev = "app" /\ chip.st # "rom" /\ (chip.st = "app" => usb.n = 3)
  /\ chip.st = "app" /\ usb.dev = "app" /\ usb.n = 3 => loop # "none"

\* What a firmware has said: trunk_W first, BSPASSERT when it is dead.
Said ==
  /\ chip.fw \in {"none", "boot"} => c_wire = <<>>
  /\ chip.fw # "up" => chip.req = {} /\ chip.svc = {}
  /\ \A i \in DOMAIN c_wire : (c_wire[i] = "trunk" => i = 1) /\ (c_wire[i] = "assert" => chip.fw = "dead")
  /\ chip.fw \in {"boot", "up"} => loop \in {"none", "start", "read"} /\ (usb.dev = "app" /\ usb.n >= 2 => host.data)
  /\ chip.fw \in {"up", "dead"} /\ loop = "start" => Ctl!Unheard

Heard(f) == chip.fw = f /\ ~Ctl!Unheard

\* A firmware that was heard is believed up.
Believed == Heard("up") /\ "rearmed" \notin odd => host.cp = 0 /\ host.status = "ON" /\ c_exc = "off"

\* Who tells a crash: the LOOP thread or the exception work.
Teller ==
  {"rearmed", "slept", "slow"} \cap odd = {} =>
    /\ told.n <= 1
    /\ loop = "assert" /\ host.cp # 2 => told.n = 0
    /\ loop = "assert" /\ host.cp = 2 => host.status = "HALT"
    /\ Heard("up") => told.n = 0
    /\ Heard("dead") =>
        /\ c_exc = "armed" => told.n = 0 /\ host.cp = 1 /\ host.status = "HALT" /\ loop # "assert"
        /\ host.cp = 2 => told.n = 1 /\ host.status = "HALT"
        /\ loop = "read" /\ host.cp # 2 => told.n = 0

\* What a call waits for.
OneCall == "crossed" \notin odd => \A s, t \in CtlServices : call[s] # "idle" /\ call[t] # "idle" => s = t

Alike == {"unready", "crossed", "kept", "rearmed", "unheard"} \cap odd = {}

Fresh ==
  Alike /\ chip.fw = "up" /\ Ctl!Unheard =>
    \/ chip.req = {} /\ chip.svc = {} /\ c_wire = <<"trunk">>
    \/ ~host.done /\ \E s \in CtlServices : call[s] = "start"

Idles(s) == IF s \in chip.req THEN s # "bt" /\ s \in chip.svc /\ s \notin host.map ELSE s \in host.map <=> s \in chip.svc
Starting(s) ==
  \/ ~host.done /\ c_wire = <<>> /\ s \notin host.map /\ (s \in chip.req /\ s \in chip.svc => s # "bt")
  \/ ~host.done /\ c_wire = <<s>> /\ s \notin host.map /\ s \in chip.svc /\ s \notin chip.req
  \/ host.done /\ c_wire = <<>> /\ s \in host.map /\ s \in chip.svc /\ s \notin chip.req
Stopping(s) ==
  \/ ~host.done /\ c_wire = <<>> /\ s \in host.map /\ s \in chip.req /\ s \in chip.svc
  \/ s \in host.map /\ s \notin chip.req /\ s \notin chip.svc /\ (c_wire = <<>> \/ (s = "bt" /\ ~host.done /\ c_wire = <<"exit">>))

Served ==
  Alike /\ Heard("up") =>
    /\ \A s \in CtlServices :
        /\ call[s] = "idle" => Idles(s)
        /\ call[s] = "start" => Starting(s)
        /\ call[s] = "stop" => Stopping(s)
    /\ ~Ctl!Calling => c_wire = <<>>

CtlInv == CtlTypes /\ Plugged /\ Said /\ Believed /\ Teller /\ OneCall /\ Fresh /\ Served

-----------------------------------------------------------------------------
\* A message is said behind the others.
LEMMA Behind ==
  ASSUME NEW w \in Seq(CtlMsgs), NEW m \in CtlMsgs
  PROVE  /\ Append(w, m) \in Seq(CtlMsgs) /\ Append(w, m) # <<>>
         /\ \A i \in DOMAIN w : i \in DOMAIN Append(w, m) /\ Append(w, m)[i] = w[i]
         /\ \A i \in DOMAIN Append(w, m) : i \in DOMAIN w \/ (i = Len(w) + 1 /\ Append(w, m)[i] = m)
<1>1. DOMAIN w = 1 .. Len(w) /\ DOMAIN Append(w, m) = 1 .. Len(w) + 1 /\ Len(w) \in Nat
  OBVIOUS
<1>2. Append(w, m) \in Seq(CtlMsgs) /\ Append(w, m)[Len(w) + 1] = m /\ \A i \in 1 .. Len(w) : Append(w, m)[i] = w[i]
  OBVIOUS
<1>3. Len(Append(w, m)) = Len(w) + 1 /\ Len(<<>>) = 0
  OBVIOUS
<1>4. Append(w, m) # <<>>
  BY <1>1, <1>3
<1>5. \A i \in 1 .. Len(w) + 1 : i \in 1 .. Len(w) \/ i = Len(w) + 1
  BY <1>1
<1>6. \A i \in 1 .. Len(w) : i \in 1 .. Len(w) + 1
  BY <1>1
<1> QED
  BY <1>1, <1>2, <1>4, <1>5, <1>6

\* The LOOP thread takes the first.
LEMMA FirstTaken ==
  ASSUME NEW w \in Seq(CtlMsgs), w # <<>>
  PROVE  /\ Tail(w) \in Seq(CtlMsgs) /\ 1 \in DOMAIN w /\ Head(w) = w[1] /\ Head(w) \in CtlMsgs
         /\ \A i \in DOMAIN Tail(w) : i \in Nat \ {0} /\ i + 1 \in DOMAIN w /\ Tail(w)[i] = w[i + 1]
<1>1. Len(w) \in Nat \ {0} /\ DOMAIN w = 1 .. Len(w)
  OBVIOUS
<1>2. Tail(w) \in Seq(CtlMsgs) /\ Len(Tail(w)) = Len(w) - 1 /\ DOMAIN Tail(w) = 1 .. Len(w) - 1
  BY <1>1
<1>3. \A i \in 1 .. Len(w) - 1 : Tail(w)[i] = w[i + 1]
  BY <1>1
<1>4. 1 \in DOMAIN w /\ Head(w) = w[1]
  BY <1>1
<1>5. Head(w) \in CtlMsgs
  BY <1>1, <1>4
<1>6. \A i \in 1 .. Len(w) - 1 : i \in Nat \ {0} /\ i + 1 \in 1 .. Len(w)
  BY <1>1
<1> QED
  BY <1>1, <1>2, <1>3, <1>4, <1>5, <1>6

\* The firmware is up, as the LOOP thread notes it.
LEMMA HostOn ==
  ASSUME NEW h \in CtlHosts, NEW g, g = [h EXCEPT !.cp = 0, !.status = "ON", !.add = TRUE]
  PROVE  g \in CtlHosts /\ g.map = h.map
<1>1. g = [status |-> g.status, cp |-> g.cp, map |-> g.map, flag |-> g.flag, done |-> g.done, data |-> g.data,
           wdev |-> g.wdev, add |-> g.add]
  BY DEF CtlHosts
<1>2. /\ g.status = "ON" /\ g.cp = 0 /\ g.map = h.map /\ g.flag = h.flag
      /\ g.done = h.done /\ g.data = h.data /\ g.wdev = h.wdev /\ g.add = TRUE
  BY DEF CtlHosts
<1>3. g.status \in {"OFF", "ON", "HALT", "FAILED"} /\ g.cp \in 0 .. 2 /\ g.map \in SUBSET CtlServices
  BY <1>2 DEF CtlHosts
<1>4. g.flag \in BOOLEAN /\ g.done \in BOOLEAN /\ g.data \in BOOLEAN /\ g.wdev \in BOOLEAN /\ g.add \in BOOLEAN
  BY <1>2 DEF CtlHosts
<1>5. g \in CtlHosts
  BY <1>1, <1>3, <1>4 DEF CtlHosts
<1> QED
  BY <1>2, <1>5

\* The modem is halted, as the LOOP thread notes it.
LEMMA HostHalted ==
  ASSUME NEW h \in CtlHosts, NEW g, g = [h EXCEPT !.cp = 1, !.status = "HALT", !.data = FALSE]
  PROVE  g \in CtlHosts /\ g.cp = 1
<1>1. g = [status |-> g.status, cp |-> g.cp, map |-> g.map, flag |-> g.flag, done |-> g.done, data |-> g.data,
           wdev |-> g.wdev, add |-> g.add]
  BY DEF CtlHosts
<1>2. /\ g.status = "HALT" /\ g.cp = 1 /\ g.map = h.map /\ g.flag = h.flag
      /\ g.done = h.done /\ g.data = FALSE /\ g.wdev = h.wdev /\ g.add = h.add
  BY DEF CtlHosts
<1>3. g.status \in {"OFF", "ON", "HALT", "FAILED"} /\ g.cp \in 0 .. 2 /\ g.map \in SUBSET CtlServices
  BY <1>2 DEF CtlHosts
<1>4. g.flag \in BOOLEAN /\ g.done \in BOOLEAN /\ g.data \in BOOLEAN /\ g.wdev \in BOOLEAN /\ g.add \in BOOLEAN
  BY <1>2 DEF CtlHosts
<1>5. g \in CtlHosts
  BY <1>1, <1>3, <1>4 DEF CtlHosts
<1> QED
  BY <1>2, <1>5

\* Nothing that the services depend on changes.
LEMMA ServedFrame ==
  ASSUME Served, c_wire' = c_wire, call' = call, chip'.fw = chip.fw, chip'.req = chip.req, chip'.svc = chip.svc,
         host'.map = host.map, host'.done = host.done, odd \subseteq odd', Ctl!Unheard' <=> Ctl!Unheard
  PROVE  Served'
<1>1. Alike' => Alike
  BY DEF Alike
<1>2. Heard("up")' => Heard("up")
  BY DEF Heard
<1>3. Ctl!Calling' <=> Ctl!Calling
  BY DEF Ctl!Calling
<1>4. ASSUME NEW s \in CtlServices
      PROVE  (Idles(s)' <=> Idles(s)) /\ (Starting(s)' <=> Starting(s)) /\ (Stopping(s)' <=> Stopping(s)) /\ call'[s] = call[s]
  BY DEF Idles, Starting, Stopping
<1> QED
  BY <1>1, <1>2, <1>3, <1>4 DEF Served

\* What the firmware does: it comes up, it obeys one request, it dies.
FwBoots == chip.fw = "boot" /\ chip' = [chip EXCEPT !.fw = "up"] /\ c_wire' = Append(c_wire, "trunk")
FwObeys(s) ==
  /\ chip.fw = "up" /\ s \in chip.req
  /\ chip' = [chip EXCEPT !.req = @ \ {s}, !.svc = IF s \in chip.svc THEN @ \ {s} ELSE @ \cup {s}]
  /\ c_wire' = IF s \in chip.svc THEN (IF s = "bt" THEN Append(c_wire, "exit") ELSE c_wire) ELSE Append(c_wire, s)
FwDies == chip.fw = "up" /\ chip' = Ctl!Dead(chip) /\ (c_wire' = c_wire \/ c_wire' = Append(c_wire, "assert"))

LEMMA FwCases == Ctl!FwSays => FwBoots \/ (\E s \in chip.req : FwObeys(s)) \/ FwDies
<1>1. ASSUME NEW s \in chip.req, chip.fw = "up",
             IF s \in chip.svc
             THEN /\ chip' = [chip EXCEPT !.req = @ \ {s}, !.svc = @ \ {s}]
                  /\ c_wire' = IF s = "bt" THEN Append(c_wire, "exit") ELSE c_wire
             ELSE /\ chip' = [chip EXCEPT !.req = @ \ {s}, !.svc = @ \cup {s}]
                  /\ c_wire' = Append(c_wire, s)
      PROVE  FwObeys(s)
  BY <1>1 DEF FwObeys
<1> QED
  BY <1>1 DEF Ctl!FwSays, FwBoots, FwDies, Ctl!Spend

LEMMA CtlFwSays ==
  ASSUME CtlInv, Ctl!FwSays
  PROVE  CtlInv'
<1>1. UNCHANGED <<usb, loop, c_exc, mctl, dl, host, call, told, odd>> /\ chip.st = "app" /\ usb.dev = "app" /\ usb.n = 3
  BY DEF Ctl!FwSays
<1>2. CASE FwBoots
  <2>1. chip' \in CtlChips /\ chip'.st = chip.st /\ chip'.fw = "up" /\ chip'.req = chip.req /\ chip'.svc = chip.svc
    BY <1>2 DEF FwBoots, CtlInv, CtlTypes, CtlChips
  <2>2. c_wire = <<>> /\ chip.req = {} /\ chip.svc = {} /\ loop \in {"none", "start", "read"}
    BY <1>2 DEF FwBoots, CtlInv, Said
  <2>3. c_wire' = <<"trunk">>
    BY <1>2, <2>2 DEF FwBoots
  <2>4. c_wire' \in Seq(CtlMsgs) /\ DOMAIN c_wire' = {1} /\ c_wire'[1] = "trunk"
    BY <2>3 DEF CtlMsgs
  <2>5. Ctl!Unheard'
    BY <2>4 DEF Ctl!Unheard
  <2>6. CtlTypes'
    BY <1>1, <2>1, <2>4 DEF CtlInv, CtlTypes
  <2>7. Plugged'
    BY <1>1, <2>1 DEF CtlInv, Plugged
  <2>8. Said'
    BY <1>1, <1>2, <2>1, <2>2, <2>4, <2>5 DEF CtlInv, Said, FwBoots
  <2>9. Believed' /\ Served'
    BY <2>5 DEF Believed, Served, Heard
  <2>10. Teller'
    BY <1>1, <2>1, <2>5 DEF CtlInv, Teller, Heard
  <2>11. OneCall' /\ Fresh'
    BY <1>1, <2>1, <2>2, <2>3 DEF CtlInv, OneCall, Fresh
  <2> QED
    BY <2>6, <2>7, <2>8, <2>9, <2>10, <2>11 DEF CtlInv
<1>3. ASSUME NEW s \in chip.req, FwObeys(s)
      PROVE  CtlInv'
  <2>1. s \in CtlServices /\ chip.fw = "up"
    BY <1>3 DEF FwObeys, CtlInv, CtlTypes, CtlChips
  <2>2. /\ chip'.st = chip.st /\ chip'.fw = "up" /\ chip'.req = chip.req \ {s}
        /\ chip'.svc = IF s \in chip.svc THEN chip.svc \ {s} ELSE chip.svc \cup {s}
    BY <1>3 DEF FwObeys, CtlInv, CtlTypes, CtlChips
  <2>3. chip' \in CtlChips
    <3>1. chip \in CtlChips /\ (IF s \in chip.svc THEN chip.svc \ {s} ELSE chip.svc \cup {s}) \subseteq CtlServices
      BY <2>1 DEF CtlInv, CtlTypes, CtlChips
    <3> QED
      BY <1>3, <3>1 DEF FwObeys, CtlChips
  <2>4. c_wire' = c_wire \/ c_wire' = Append(c_wire, "exit") \/ c_wire' = Append(c_wire, s)
    BY <1>3 DEF FwObeys
  <2>5. c_wire \in Seq(CtlMsgs) /\ s \in CtlMsgs /\ "exit" \in CtlMsgs /\ s # "trunk" /\ s # "assert" /\ s # "exit"
    BY <2>1, CtlAssumption DEF CtlInv, CtlTypes, CtlMsgs
  <2>6. /\ c_wire' \in Seq(CtlMsgs) /\ \A i \in DOMAIN c_wire : i \in DOMAIN c_wire' /\ c_wire'[i] = c_wire[i]
        /\ \A i \in DOMAIN c_wire' : i \in DOMAIN c_wire \/ c_wire'[i] \notin {"trunk", "assert"}
    <3>1. CASE c_wire' = c_wire
      BY <2>5, <3>1
    <3>2. CASE c_wire' = Append(c_wire, "exit")
      BY <2>5, <3>2, Behind
    <3>3. CASE c_wire' = Append(c_wire, s)
      BY <2>5, <3>3, Behind
    <3> QED
      BY <2>4, <3>1, <3>2, <3>3
  <2>7. Ctl!Unheard' <=> Ctl!Unheard
    BY <2>6 DEF Ctl!Unheard
  <2>8. CtlTypes'
    BY <1>1, <2>3, <2>6 DEF CtlInv, CtlTypes
  <2>9. Plugged' /\ OneCall'
    BY <1>1, <2>1, <2>2 DEF CtlInv, Plugged, OneCall
  <2>10. Said'
    BY <1>1, <2>1, <2>2, <2>6, <2>7 DEF CtlInv, Said
  <2>11. Believed' /\ Teller'
    BY <1>1, <2>1, <2>2, <2>7 DEF CtlInv, Believed, Teller, Heard
  <2>12. Fresh'
    BY <1>1, <1>3, <2>1, <2>7 DEF CtlInv, Fresh, Alike
  <2>13. Served'
    <3> SUFFICES ASSUME Alike, Heard("up")
                 PROVE  Served'
      BY <1>1, <2>1, <2>2, <2>7 DEF Served, Alike, Heard
    <3>1. \A t \in CtlServices \ {s} :
          (Idles(t)' <=> Idles(t)) /\ (t \in chip'.req <=> t \in chip.req) /\ (t \in chip'.svc <=> t \in chip.svc)
      BY <1>1, <2>2 DEF Idles
    <3>2. CASE call[s] = "idle"
      <4>1. Idles(s)
        BY <2>1, <3>2 DEF CtlInv, Served
      <4>2. s # "bt" /\ s \in chip.svc /\ s \notin host.map
        BY <1>3, <4>1 DEF Idles
      <4>3. c_wire' = c_wire
        BY <1>3, <4>2 DEF FwObeys
      <4>4. Idles(s)'
        BY <1>1, <2>2, <4>2 DEF Idles
      <4>5. \A t \in CtlServices \ {s} : (Starting(t)' <=> Starting(t)) /\ (Stopping(t)' <=> Stopping(t))
        BY <1>1, <3>1, <4>3 DEF Starting, Stopping
      <4>6. Ctl!Calling' <=> Ctl!Calling
        BY <1>1 DEF Ctl!Calling
      <4> QED
        BY <1>1, <3>1, <3>2, <4>3, <4>4, <4>5, <4>6 DEF CtlInv, Served
    <3>3. CASE call[s] # "idle"
      <4>1. \A t \in CtlServices \ {s} : call[t] = "idle" /\ Idles(t)'
        BY <2>1, <3>1, <3>3 DEF CtlInv, OneCall, Served, Alike
      <4>2. call[s] \in {"start", "stop"} /\ Ctl!Calling'
        BY <1>1, <2>1, <3>3 DEF CtlInv, CtlTypes, Ctl!Calling
      <4>3. CASE call[s] = "start"
        <5>1. Starting(s)
          BY <2>1, <4>3 DEF CtlInv, Served
        <5>2. ~host.done /\ c_wire = <<>> /\ s \notin host.map /\ (s \in chip.svc => s # "bt")
          BY <1>3, <5>1 DEF Starting
        <5>3. s \notin chip'.req
          BY <2>2
        <5>4. CASE s \in chip.svc
          <6>1. c_wire' = c_wire
            BY <1>3, <5>2, <5>4 DEF FwObeys
          <6>2. Starting(s)'
            BY <1>1, <5>2, <5>3, <6>1 DEF Starting
          <6> QED
            BY <1>1, <4>1, <4>2, <4>3, <6>2 DEF Served
        <5>5. CASE s \notin chip.svc
          <6>1. c_wire' = <<s>> /\ s \in chip'.svc
            BY <1>3, <2>2, <5>2, <5>5 DEF FwObeys
          <6>2. Starting(s)'
            BY <1>1, <5>2, <5>3, <6>1 DEF Starting
          <6> QED
            BY <1>1, <4>1, <4>2, <4>3, <6>2 DEF Served
        <5> QED
          BY <5>4, <5>5
      <4>4. CASE call[s] = "stop"
        <5>1. Stopping(s)
          BY <2>1, <4>4 DEF CtlInv, Served
        <5>2. ~host.done /\ c_wire = <<>> /\ s \in host.map /\ s \in chip.svc
          BY <1>3, <5>1 DEF Stopping
        <5>3. s \notin chip'.req /\ s \notin chip'.svc
          BY <2>2, <5>2
        <5>4. c_wire' = <<>> \/ (s = "bt" /\ c_wire' = <<"exit">>)
          BY <1>3, <5>2 DEF FwObeys
        <5>5. Stopping(s)'
          BY <1>1, <5>2, <5>3, <5>4 DEF Stopping
        <5> QED
          BY <1>1, <4>1, <4>2, <4>4, <5>5 DEF Served
      <4> QED
        BY <4>2, <4>3, <4>4
    <3> QED
      BY <3>2, <3>3
  <2> QED
    BY <2>8, <2>9, <2>10, <2>11, <2>12, <2>13 DEF CtlInv
<1>4. CASE FwDies
  <2>1. chip' \in CtlChips /\ chip'.fw = "dead" /\ chip'.st = chip.st /\ chip'.req = {} /\ chip'.svc = {} /\ chip.fw = "up"
    BY <1>4 DEF FwDies, Ctl!Dead, CtlInv, CtlTypes, CtlChips
  <2>2. c_wire \in Seq(CtlMsgs) /\ "assert" \in CtlMsgs
    BY DEF CtlInv, CtlTypes, CtlMsgs
  <2>3. /\ c_wire' \in Seq(CtlMsgs) /\ \A i \in DOMAIN c_wire : i \in DOMAIN c_wire' /\ c_wire'[i] = c_wire[i]
        /\ \A i \in DOMAIN c_wire' : i \in DOMAIN c_wire \/ c_wire'[i] = "assert"
    <3>1. CASE c_wire' = c_wire
      BY <2>2, <3>1
    <3>2. CASE c_wire' = Append(c_wire, "assert")
      BY <2>2, <3>2, Behind
    <3> QED
      BY <1>4, <3>1, <3>2 DEF FwDies
  <2>4. Ctl!Unheard' <=> Ctl!Unheard
    BY <2>3 DEF Ctl!Unheard
  <2>5. CtlTypes'
    BY <1>1, <2>1, <2>3 DEF CtlInv, CtlTypes
  <2>6. Plugged' /\ OneCall'
    BY <1>1, <2>1 DEF CtlInv, Plugged, OneCall
  <2>7. Said'
    BY <1>1, <2>1, <2>3, <2>4 DEF CtlInv, Said
  <2>8. Believed' /\ Fresh' /\ Served'
    BY <2>1 DEF Believed, Fresh, Served, Heard
  <2>9. {"rearmed", "slept", "slow"} \cap odd = {} =>
          told.n <= 1 /\ loop \in {"none", "start", "read"} /\ (~Ctl!Unheard => told.n = 0 /\ c_exc = "off" /\ host.cp = 0)
    BY <2>1 DEF CtlInv, Said, Believed, Teller, Heard
  <2>10. Teller'
    BY <1>1, <2>1, <2>4, <2>9 DEF Teller, Heard
  <2> QED
    BY <2>5, <2>6, <2>7, <2>8, <2>10 DEF CtlInv
<1> QED
  BY <1>2, <1>3, <1>4, FwCases

LEMMA CtlChipUp ==
  ASSUME CtlInv, Ctl!ChipUp
  PROVE  CtlInv'
<1>1. CtlTypes'
  <2>1. chip' \in CtlChips
    BY DEF CtlInv, CtlTypes, Ctl!ChipUp, CtlChips
  <2>2. host' \in CtlHosts
    BY DEF CtlInv, CtlTypes, Ctl!ChipUp, CtlHosts
  <2>3. usb' \in CtlBuses
    BY DEF CtlInv, CtlTypes, Ctl!ChipUp, CtlBuses
  <2>4. told' \in CtlTolds
    BY DEF CtlInv, CtlTypes, Ctl!ChipUp, CtlTolds
  <2>5. c_wire' \in Seq(CtlMsgs)
    BY DEF CtlInv, CtlTypes, Ctl!ChipUp, CtlMsgs
  <2>6. loop' \in {"none", "start", "read", "assert", "dump", "end"} /\ c_exc' \in {"off", "armed", "run"}
    BY DEF CtlInv, CtlTypes, Ctl!ChipUp
  <2>7. mctl' \in {"idle", "queued", "sent"} /\ dl' \in {"idle", "queued", "dram", "iram", "boot", "exec", "fail"}
    BY DEF CtlInv, CtlTypes, Ctl!ChipUp
  <2>8. call' \in [CtlServices -> {"idle", "start", "stop"}]
    BY DEF CtlInv, CtlTypes, Ctl!ChipUp
  <2> QED
    BY <2>1, <2>2, <2>3, <2>4, <2>5, <2>6, <2>7, <2>8 DEF CtlTypes
<1>2. Ctl!Unheard' <=> Ctl!Unheard
  BY DEF Ctl!ChipUp, Ctl!Unheard
<1>3. Plugged'
  BY <1>2 DEF CtlInv, Plugged, Ctl!ChipUp
<1>4. Said'
  BY <1>2 DEF CtlInv, Said, Ctl!ChipUp
<1>5. Believed'
  BY <1>2 DEF CtlInv, Ctl!ChipUp, Believed, Heard
<1>6. Teller'
  BY <1>2 DEF CtlInv, Ctl!ChipUp, Teller, Heard
<1>7. OneCall'
  BY <1>2 DEF CtlInv, Ctl!ChipUp, OneCall
<1>8. Fresh'
  BY <1>2 DEF CtlInv, Ctl!ChipUp, Fresh, Alike
<1>9. Served'
  <2>1. c_wire' = c_wire /\ call' = call /\ odd \subseteq odd'
    BY DEF Ctl!ChipUp
  <2>2. chip'.fw = chip.fw /\ chip'.req = chip.req /\ chip'.svc = chip.svc
    BY DEF CtlInv, CtlTypes, Ctl!ChipUp, CtlChips
  <2>3. host'.map = host.map /\ host'.done = host.done
    BY DEF CtlInv, CtlTypes, Ctl!ChipUp, CtlHosts
  <2> QED
    BY <1>2, <2>1, <2>2, <2>3, ServedFrame DEF CtlInv
<1> QED
  BY <1>1, <1>3, <1>4, <1>5, <1>6, <1>7, <1>8, <1>9 DEF CtlInv

LEMMA CtlChipGone ==
  ASSUME CtlInv, Ctl!ChipGone
  PROVE  CtlInv'
<1>1. CtlTypes'
  <2>1. chip' \in CtlChips
    BY DEF CtlInv, CtlTypes, Ctl!ChipGone, Ctl!Dead, Ctl!Spend, CtlChips
  <2>2. host' \in CtlHosts
    BY DEF CtlInv, CtlTypes, Ctl!ChipGone, Ctl!Dead, Ctl!Spend, CtlHosts
  <2>3. usb' \in CtlBuses
    BY DEF CtlInv, CtlTypes, Ctl!ChipGone, Ctl!Dead, Ctl!Spend, CtlBuses
  <2>4. told' \in CtlTolds
    BY DEF CtlInv, CtlTypes, Ctl!ChipGone, Ctl!Dead, Ctl!Spend, CtlTolds
  <2>5. c_wire' \in Seq(CtlMsgs)
    BY DEF CtlInv, CtlTypes, Ctl!ChipGone, Ctl!Dead, Ctl!Spend, CtlMsgs
  <2>6. loop' \in {"none", "start", "read", "assert", "dump", "end"} /\ c_exc' \in {"off", "armed", "run"}
    BY DEF CtlInv, CtlTypes, Ctl!ChipGone, Ctl!Dead, Ctl!Spend
  <2>7. mctl' \in {"idle", "queued", "sent"} /\ dl' \in {"idle", "queued", "dram", "iram", "boot", "exec", "fail"}
    BY DEF CtlInv, CtlTypes, Ctl!ChipGone, Ctl!Dead, Ctl!Spend
  <2>8. call' \in [CtlServices -> {"idle", "start", "stop"}]
    BY DEF CtlInv, CtlTypes, Ctl!ChipGone, Ctl!Dead, Ctl!Spend
  <2> QED
    BY <2>1, <2>2, <2>3, <2>4, <2>5, <2>6, <2>7, <2>8 DEF CtlTypes
<1>2. Plugged'
  BY DEF CtlInv, Plugged, Ctl!ChipGone, Ctl!Dead
<1>3. Said'
  BY DEF CtlInv, Said, Ctl!ChipGone, Ctl!Dead
<1>4. Believed'
  BY DEF CtlInv, Ctl!ChipGone, Ctl!Dead, Believed, Heard
<1>5. Teller'
  BY DEF CtlInv, Ctl!ChipGone, Ctl!Dead, Teller, Heard
<1>6. OneCall'
  BY DEF CtlInv, Ctl!ChipGone, Ctl!Dead, OneCall
<1>7. Fresh'
  BY DEF CtlInv, Ctl!ChipGone, Ctl!Dead, Fresh, Alike
<1>8. Served'
  BY DEF CtlInv, Ctl!ChipGone, Ctl!Dead, Served, Alike, Heard, Idles, Starting, Stopping
<1> QED
  BY <1>1, <1>2, <1>3, <1>4, <1>5, <1>6, <1>7, <1>8 DEF CtlInv

LEMMA CtlProbe ==
  ASSUME CtlInv, Ctl!Probe
  PROVE  CtlInv'
<1>1. CtlTypes'
  <2>1. chip' \in CtlChips
    BY DEF CtlInv, CtlTypes, Ctl!Probe, CtlChips
  <2>2. host' \in CtlHosts
    BY DEF CtlInv, CtlTypes, Ctl!Probe, CtlHosts
  <2>3. usb' \in CtlBuses
    BY DEF CtlInv, CtlTypes, Ctl!Probe, CtlBuses
  <2>4. told' \in CtlTolds
    BY DEF CtlInv, CtlTypes, Ctl!Probe, CtlTolds
  <2>5. c_wire' \in Seq(CtlMsgs)
    BY DEF CtlInv, CtlTypes, Ctl!Probe, CtlMsgs
  <2>6. loop' \in {"none", "start", "read", "assert", "dump", "end"} /\ c_exc' \in {"off", "armed", "run"}
    BY DEF CtlInv, CtlTypes, Ctl!Probe
  <2>7. mctl' \in {"idle", "queued", "sent"} /\ dl' \in {"idle", "queued", "dram", "iram", "boot", "exec", "fail"}
    BY DEF CtlInv, CtlTypes, Ctl!Probe
  <2>8. call' \in [CtlServices -> {"idle", "start", "stop"}]
    BY DEF CtlInv, CtlTypes, Ctl!Probe
  <2> QED
    BY <2>1, <2>2, <2>3, <2>4, <2>5, <2>6, <2>7, <2>8 DEF CtlTypes
<1>2. Ctl!Unheard' <=> Ctl!Unheard
  BY DEF Ctl!Probe, Ctl!Unheard
<1>3. Plugged'
  BY <1>2 DEF CtlInv, Plugged, Ctl!Probe
<1>4. Said'
  <2>1. /\ chip' = chip /\ c_wire' = c_wire /\ usb'.n = usb.n + 1 /\ usb'.dev = chip.st /\ usb.n \in 0 .. 2
        /\ loop' = loop \/ (usb.n = 2 /\ loop' = "start" /\ chip.st = "app")
        /\ usb.n # 1 => host'.data = host.data
        /\ usb.n = 1 => host'.data = TRUE
    <3>1. usb.n \in 0 .. 2 /\ chip' = chip /\ c_wire' = c_wire /\ usb'.n = usb.n + 1 /\ usb'.dev = chip.st
      BY DEF CtlInv, CtlTypes, Ctl!Probe, CtlBuses
    <3>2. loop' = loop \/ (usb.n = 2 /\ loop' = "start" /\ chip.st = "app")
      BY DEF Ctl!Probe
    <3>3. (usb.n # 1 => host'.data = host.data) /\ (usb.n = 1 => host'.data = TRUE)
      <4>1. CASE usb.n = 1
        <5>1. /\ host \in CtlHosts
              /\ host' = [host EXCEPT !.data = TRUE, !.status = IF host.wdev THEN @ ELSE "ON"]
          BY <4>1 DEF CtlInv, CtlTypes, Ctl!Probe
        <5> QED
          BY <4>1, <5>1 DEF CtlHosts
      <4>2. CASE usb.n # 1
        <5>1. host \in CtlHosts /\ (host' = host \/ host' = [host EXCEPT !.status = "ON"])
          BY <4>2 DEF CtlInv, CtlTypes, Ctl!Probe
        <5> QED
          BY <4>2, <5>1 DEF CtlHosts
      <4> QED
        BY <4>1, <4>2
    <3> QED
      BY <3>1, <3>2, <3>3
  <2>2. chip.fw \notin {"up", "dead"}
    BY <2>1 DEF CtlInv, Plugged
  <2>3. usb.n >= 2 => usb.dev = chip.st /\ usb.dev # "none"
    BY <2>1 DEF CtlInv, Plugged, Ctl!Probe
  <2>4. usb'.n >= 2 => usb.n \in {1, 2}
    BY <2>1
  <2>5. chip.fw = "boot" /\ usb'.dev = "app" /\ usb'.n >= 2 => host'.data
    BY <2>1, <2>3, <2>4 DEF CtlInv, Said
  <2>6. chip.fw = "boot" => loop' \in {"none", "start", "read"}
    BY <2>1 DEF CtlInv, Said
  <2> QED
    BY <1>2, <2>1, <2>2, <2>5, <2>6 DEF CtlInv, Said
<1>5. Believed'
  BY <1>2 DEF CtlInv, CtlTypes, Ctl!Probe, CtlHosts, Believed, Heard
<1>6. Teller'
  BY <1>2 DEF CtlInv, Plugged, Ctl!Probe, Teller, Heard
<1>7. OneCall'
  BY <1>2 DEF CtlInv, Ctl!Probe, OneCall
<1>8. Fresh'
  BY <1>2 DEF CtlInv, CtlTypes, Ctl!Probe, CtlHosts, Fresh, Alike
<1>9. Served'
  <2>1. c_wire' = c_wire /\ call' = call /\ odd \subseteq odd'
    BY DEF Ctl!Probe
  <2>2. chip'.fw = chip.fw /\ chip'.req = chip.req /\ chip'.svc = chip.svc
    BY DEF CtlInv, CtlTypes, Ctl!Probe, CtlChips
  <2>3. host'.map = host.map /\ host'.done = host.done
    BY DEF CtlInv, CtlTypes, Ctl!Probe, CtlHosts
  <2> QED
    BY <1>2, <2>1, <2>2, <2>3, ServedFrame DEF CtlInv
<1> QED
  BY <1>1, <1>3, <1>4, <1>5, <1>6, <1>7, <1>8, <1>9 DEF CtlInv

LEMMA CtlDisconnectRom ==
  ASSUME CtlInv, Ctl!DisconnectRom
  PROVE  CtlInv'
<1>1. CtlTypes'
  <2>1. chip' \in CtlChips
    BY DEF CtlInv, CtlTypes, Ctl!DisconnectRom, Ctl!Vacated, Ctl!Unplugged, CtlChips
  <2>2. host' \in CtlHosts
    BY DEF CtlInv, CtlTypes, Ctl!DisconnectRom, Ctl!Vacated, Ctl!Unplugged, CtlHosts
  <2>3. usb' \in CtlBuses
    <3>1. usb \in CtlBuses /\ usb.n # 0 /\ usb' = Ctl!Vacated
      BY DEF CtlInv, CtlTypes, Plugged, Ctl!DisconnectRom, Ctl!Unplugged
    <3>2. usb.n - 1 \in 0 .. 3
      BY <3>1 DEF CtlBuses
    <3> QED
      BY <3>1, <3>2 DEF Ctl!Vacated, CtlBuses
  <2>4. told' \in CtlTolds
    BY DEF CtlInv, CtlTypes, Ctl!DisconnectRom, Ctl!Vacated, Ctl!Unplugged, CtlTolds
  <2>5. c_wire' \in Seq(CtlMsgs)
    BY DEF CtlInv, CtlTypes, Ctl!DisconnectRom, Ctl!Vacated, Ctl!Unplugged, CtlMsgs
  <2>6. loop' \in {"none", "start", "read", "assert", "dump", "end"} /\ c_exc' \in {"off", "armed", "run"}
    BY DEF CtlInv, CtlTypes, Ctl!DisconnectRom, Ctl!Vacated, Ctl!Unplugged
  <2>7. mctl' \in {"idle", "queued", "sent"} /\ dl' \in {"idle", "queued", "dram", "iram", "boot", "exec", "fail"}
    BY DEF CtlInv, CtlTypes, Ctl!DisconnectRom, Ctl!Vacated, Ctl!Unplugged
  <2>8. call' \in [CtlServices -> {"idle", "start", "stop"}]
    BY DEF CtlInv, CtlTypes, Ctl!DisconnectRom, Ctl!Vacated, Ctl!Unplugged
  <2> QED
    BY <2>1, <2>2, <2>3, <2>4, <2>5, <2>6, <2>7, <2>8 DEF CtlTypes
<1>2. Ctl!Unheard' <=> Ctl!Unheard
  BY DEF Ctl!DisconnectRom, Ctl!Unheard
<1>3. Plugged'
  BY <1>2 DEF CtlInv, CtlTypes, Plugged, Ctl!DisconnectRom, Ctl!Vacated, Ctl!Unplugged, CtlChips
<1>4. Said'
  BY <1>2 DEF CtlInv, CtlTypes, Said, Ctl!DisconnectRom, Ctl!Vacated, Ctl!Unplugged, CtlChips
<1>5. Believed'
  BY <1>2 DEF CtlInv, CtlTypes, Ctl!DisconnectRom, Ctl!Vacated, Ctl!Unplugged, CtlChips, Believed, Heard
<1>6. Teller'
  BY <1>2 DEF CtlInv, CtlTypes, Ctl!DisconnectRom, Ctl!Vacated, Ctl!Unplugged, CtlChips, CtlHosts, Teller, Heard
<1>7. OneCall'
  BY <1>2 DEF CtlInv, Ctl!DisconnectRom, Ctl!Vacated, Ctl!Unplugged, OneCall
<1>8. Fresh'
  BY <1>2 DEF CtlInv, CtlTypes, Ctl!DisconnectRom, Ctl!Vacated, Ctl!Unplugged, CtlChips, CtlHosts, Fresh, Alike
<1>9. Served'
  <2>1. c_wire' = c_wire /\ call' = call /\ odd \subseteq odd'
    BY DEF Ctl!DisconnectRom, Ctl!Vacated, Ctl!Unplugged
  <2>2. chip'.fw = chip.fw /\ chip'.req = chip.req /\ chip'.svc = chip.svc
    BY DEF CtlInv, CtlTypes, Ctl!DisconnectRom, Ctl!Vacated, Ctl!Unplugged, CtlChips
  <2>3. host'.map = host.map /\ host'.done = host.done
    BY DEF CtlInv, CtlTypes, Ctl!DisconnectRom, Ctl!Vacated, Ctl!Unplugged, CtlHosts
  <2> QED
    BY <1>2, <2>1, <2>2, <2>3, ServedFrame DEF CtlInv
<1> QED
  BY <1>1, <1>3, <1>4, <1>5, <1>6, <1>7, <1>8, <1>9 DEF CtlInv

LEMMA CtlDisconnectApp ==
  ASSUME CtlInv, Ctl!DisconnectApp
  PROVE  CtlInv'
<1>1. CtlTypes'
  <2>1. chip' \in CtlChips
    BY DEF CtlInv, CtlTypes, Ctl!DisconnectApp, Ctl!Vacated, Ctl!Unplugged, Ctl!Tell, CtlChips
  <2>2. host' \in CtlHosts
    BY DEF CtlInv, CtlTypes, Ctl!DisconnectApp, Ctl!Vacated, Ctl!Unplugged, Ctl!Tell, CtlHosts
  <2>3. usb' \in CtlBuses
    <3>1. usb \in CtlBuses /\ usb.n # 0 /\ usb' = Ctl!Vacated
      BY DEF CtlInv, CtlTypes, Plugged, Ctl!DisconnectApp, Ctl!Unplugged
    <3>2. usb.n - 1 \in 0 .. 3
      BY <3>1 DEF CtlBuses
    <3> QED
      BY <3>1, <3>2 DEF Ctl!Vacated, CtlBuses
  <2>4. told' \in CtlTolds
    BY DEF CtlInv, CtlTypes, Ctl!DisconnectApp, Ctl!Vacated, Ctl!Unplugged, Ctl!Tell, CtlTolds
  <2>5. c_wire' \in Seq(CtlMsgs)
    BY DEF CtlInv, CtlTypes, Ctl!DisconnectApp, Ctl!Vacated, Ctl!Unplugged, Ctl!Tell, CtlMsgs
  <2>6. loop' \in {"none", "start", "read", "assert", "dump", "end"} /\ c_exc' \in {"off", "armed", "run"}
    BY DEF CtlInv, CtlTypes, Ctl!DisconnectApp, Ctl!Vacated, Ctl!Unplugged, Ctl!Tell
  <2>7. mctl' \in {"idle", "queued", "sent"} /\ dl' \in {"idle", "queued", "dram", "iram", "boot", "exec", "fail"}
    BY DEF CtlInv, CtlTypes, Ctl!DisconnectApp, Ctl!Vacated, Ctl!Unplugged, Ctl!Tell
  <2>8. call' \in [CtlServices -> {"idle", "start", "stop"}]
    BY DEF CtlInv, CtlTypes, Ctl!DisconnectApp, Ctl!Vacated, Ctl!Unplugged, Ctl!Tell
  <2> QED
    BY <2>1, <2>2, <2>3, <2>4, <2>5, <2>6, <2>7, <2>8 DEF CtlTypes
<1>2. Ctl!Unheard' <=> Ctl!Unheard
  BY DEF Ctl!DisconnectApp, Ctl!Unheard
<1>3. Plugged'
  BY <1>2 DEF CtlInv, Plugged, Ctl!DisconnectApp, Ctl!Vacated, Ctl!Unplugged
<1>4. Said'
  BY <1>2 DEF CtlInv, Plugged, Said, Ctl!DisconnectApp, Ctl!Vacated, Ctl!Unplugged
<1>5. Believed'
  BY <1>2 DEF CtlInv, CtlTypes, Ctl!DisconnectApp, Ctl!Vacated, Ctl!Unplugged, CtlHosts, Believed, Heard
<1>6. Teller'
  BY <1>2 DEF CtlInv, CtlTypes, Ctl!DisconnectApp, Ctl!Vacated, Ctl!Unplugged, Ctl!Tell, CtlHosts, Teller, Heard
<1>7. OneCall'
  BY <1>2 DEF CtlInv, Ctl!DisconnectApp, Ctl!Vacated, Ctl!Unplugged, OneCall
<1>8. Fresh'
  BY <1>2 DEF CtlInv, CtlTypes, Ctl!DisconnectApp, Ctl!Vacated, Ctl!Unplugged, CtlHosts, Fresh, Alike
<1>9. Served'
  <2>1. c_wire' = c_wire /\ call' = call /\ odd \subseteq odd'
    BY DEF Ctl!DisconnectApp, Ctl!Vacated, Ctl!Unplugged, Ctl!Tell
  <2>2. chip'.fw = chip.fw /\ chip'.req = chip.req /\ chip'.svc = chip.svc
    BY DEF CtlInv, CtlTypes, Ctl!DisconnectApp, Ctl!Vacated, Ctl!Unplugged, Ctl!Tell, CtlChips
  <2>3. host'.map = host.map /\ host'.done = host.done
    BY DEF CtlInv, CtlTypes, Ctl!DisconnectApp, Ctl!Vacated, Ctl!Unplugged, Ctl!Tell, CtlHosts
  <2> QED
    BY <1>2, <2>1, <2>2, <2>3, ServedFrame DEF CtlInv
<1> QED
  BY <1>1, <1>3, <1>4, <1>5, <1>6, <1>7, <1>8, <1>9 DEF CtlInv

LEMMA CtlDlStep ==
  ASSUME CtlInv, Ctl!DlStep
  PROVE  CtlInv'
<1>1. CtlTypes'
  <2>1. chip' \in CtlChips
    BY DEF CtlInv, CtlTypes, Ctl!DlStep, Ctl!Tell, Ctl!Spend, CtlChips
  <2>2. host' \in CtlHosts
    BY DEF CtlInv, CtlTypes, Ctl!DlStep, Ctl!Tell, Ctl!Spend, CtlHosts
  <2>3. usb' \in CtlBuses
    BY DEF CtlInv, CtlTypes, Ctl!DlStep, Ctl!Tell, Ctl!Spend, CtlBuses
  <2>4. told' \in CtlTolds
    BY DEF CtlInv, CtlTypes, Ctl!DlStep, Ctl!Tell, Ctl!Spend, CtlTolds
  <2>5. c_wire' \in Seq(CtlMsgs)
    BY DEF CtlInv, CtlTypes, Ctl!DlStep, Ctl!Tell, Ctl!Spend, CtlMsgs
  <2>6. loop' \in {"none", "start", "read", "assert", "dump", "end"} /\ c_exc' \in {"off", "armed", "run"}
    BY DEF CtlInv, CtlTypes, Ctl!DlStep, Ctl!Tell, Ctl!Spend
  <2>7. mctl' \in {"idle", "queued", "sent"} /\ dl' \in {"idle", "queued", "dram", "iram", "boot", "exec", "fail"}
    BY DEF CtlInv, CtlTypes, Ctl!DlStep, Ctl!Tell, Ctl!Spend
  <2>8. call' \in [CtlServices -> {"idle", "start", "stop"}]
    BY DEF CtlInv, CtlTypes, Ctl!DlStep, Ctl!Tell, Ctl!Spend
  <2> QED
    BY <2>1, <2>2, <2>3, <2>4, <2>5, <2>6, <2>7, <2>8 DEF CtlTypes
<1>2. /\ Ctl!Unheard' <=> Ctl!Unheard
      /\ c_wire' = c_wire /\ usb' = usb /\ loop' = loop /\ c_exc' = c_exc /\ mctl' = mctl /\ call' = call /\ odd \subseteq odd'
  BY DEF Ctl!DlStep, Ctl!Unheard
<1>3. chip.st # "app" /\ usb.dev = "rom" /\ usb.n = 1 /\ loop = "none" /\ chip.fw = "none"
  BY DEF CtlInv, CtlTypes, Plugged, Ctl!DlStep, CtlChips
<1>4. chip.req = {} /\ chip.svc = {} /\ c_wire = <<>>
  BY <1>3 DEF CtlInv, Said
<1>5. chip'.req = chip.req /\ chip'.svc = chip.svc
  BY DEF CtlInv, CtlTypes, Ctl!DlStep, CtlChips
<1>6. chip'.fw \in {"none", "boot"} /\ (chip'.fw = "boot" => chip'.st = "app" /\ dl' = "idle") /\ (dl' # "idle" => chip'.st # "app")
  <2> USE <1>3 DEF CtlInv, CtlTypes, CtlChips
  <2>1. CASE dl = "queued"
    BY <2>1 DEF Ctl!DlStep
  <2>2. CASE dl \in {"dram", "iram"}
    BY <2>2 DEF Ctl!DlStep
  <2>3. CASE dl = "boot"
    BY <2>3 DEF Ctl!DlStep
  <2>4. CASE dl = "exec"
    BY <2>4 DEF Ctl!DlStep
  <2>5. CASE dl = "fail"
    BY <2>5 DEF Ctl!DlStep
  <2> QED
    BY <2>1, <2>2, <2>3, <2>4, <2>5 DEF Ctl!DlStep
<1>7. told'.n = told.n
  BY DEF Ctl!DlStep, Ctl!Tell
<1>8. Plugged'
  BY <1>2, <1>3, <1>4, <1>5, <1>6, <1>7 DEF CtlInv, Plugged, Heard
<1>9. Said'
  BY <1>2, <1>3, <1>4, <1>5, <1>6, <1>7 DEF CtlInv, Said, Heard
<1>10. Believed'
  BY <1>2, <1>3, <1>4, <1>5, <1>6, <1>7 DEF CtlInv, Believed, Heard
<1>11. Teller'
  BY <1>2, <1>3, <1>4, <1>5, <1>6, <1>7 DEF CtlInv, Teller, Heard
<1>12. OneCall'
  BY <1>2, <1>3, <1>4, <1>5, <1>6, <1>7 DEF CtlInv, OneCall, Heard
<1>13. Fresh'
  BY <1>2, <1>3, <1>4, <1>5, <1>6, <1>7 DEF CtlInv, Fresh, Heard
<1>14. Served'
  BY <1>2, <1>3, <1>4, <1>5, <1>6, <1>7 DEF CtlInv, Served, Heard
<1> QED
  BY <1>1, <1>8, <1>9, <1>10, <1>11, <1>12, <1>13, <1>14 DEF CtlInv

LEMMA CtlLoopStart ==
  ASSUME CtlInv, Ctl!LoopStart
  PROVE  CtlInv'
<1>1. CtlTypes'
  <2>1. chip' \in CtlChips
    BY DEF CtlInv, CtlTypes, Ctl!LoopStart, CtlChips
  <2>2. host' \in CtlHosts
    BY DEF CtlInv, CtlTypes, Ctl!LoopStart, CtlHosts
  <2>3. usb' \in CtlBuses
    BY DEF CtlInv, CtlTypes, Ctl!LoopStart, CtlBuses
  <2>4. told' \in CtlTolds
    BY DEF CtlInv, CtlTypes, Ctl!LoopStart, CtlTolds
  <2>5. c_wire' \in Seq(CtlMsgs)
    BY DEF CtlInv, CtlTypes, Ctl!LoopStart, CtlMsgs
  <2>6. loop' \in {"none", "start", "read", "assert", "dump", "end"} /\ c_exc' \in {"off", "armed", "run"}
    BY DEF CtlInv, CtlTypes, Ctl!LoopStart
  <2>7. mctl' \in {"idle", "queued", "sent"} /\ dl' \in {"idle", "queued", "dram", "iram", "boot", "exec", "fail"}
    BY DEF CtlInv, CtlTypes, Ctl!LoopStart
  <2>8. call' \in [CtlServices -> {"idle", "start", "stop"}]
    BY DEF CtlInv, CtlTypes, Ctl!LoopStart
  <2> QED
    BY <2>1, <2>2, <2>3, <2>4, <2>5, <2>6, <2>7, <2>8 DEF CtlTypes
<1>2. Ctl!Unheard' <=> Ctl!Unheard
  BY DEF Ctl!LoopStart, Ctl!Unheard
<1>3. Plugged'
  BY <1>2 DEF CtlInv, Plugged, Ctl!LoopStart
<1>4. Said'
  BY <1>2 DEF CtlInv, Said, Ctl!LoopStart
<1>5. Believed'
  BY <1>2 DEF CtlInv, Said, Ctl!LoopStart, Believed, Heard
<1>6. Teller'
  BY <1>2 DEF CtlInv, Said, Ctl!LoopStart, Teller, Heard
<1>7. OneCall'
  BY <1>2 DEF CtlInv, Ctl!LoopStart, OneCall
<1>8. Fresh'
  BY <1>2 DEF CtlInv, Ctl!LoopStart, Fresh, Alike
<1>9. Served'
  <2>1. c_wire' = c_wire /\ call' = call /\ odd \subseteq odd'
    BY DEF Ctl!LoopStart
  <2>2. chip'.fw = chip.fw /\ chip'.req = chip.req /\ chip'.svc = chip.svc
    BY DEF CtlInv, CtlTypes, Ctl!LoopStart, CtlChips
  <2>3. host'.map = host.map /\ host'.done = host.done
    BY DEF CtlInv, CtlTypes, Ctl!LoopStart, CtlHosts
  <2> QED
    BY <1>2, <2>1, <2>2, <2>3, ServedFrame DEF CtlInv
<1> QED
  BY <1>1, <1>3, <1>4, <1>5, <1>6, <1>7, <1>8, <1>9 DEF CtlInv

LEMMA CtlLoopEnds ==
  ASSUME CtlInv, Ctl!LoopEnds
  PROVE  CtlInv'
<1>1. CtlTypes'
  <2>1. chip' \in CtlChips
    BY DEF CtlInv, CtlTypes, Ctl!LoopEnds, Ctl!Alive, CtlChips
  <2>2. host' \in CtlHosts
    BY DEF CtlInv, CtlTypes, Ctl!LoopEnds, Ctl!Alive, CtlHosts
  <2>3. usb' \in CtlBuses
    BY DEF CtlInv, CtlTypes, Ctl!LoopEnds, Ctl!Alive, CtlBuses
  <2>4. told' \in CtlTolds
    BY DEF CtlInv, CtlTypes, Ctl!LoopEnds, Ctl!Alive, CtlTolds
  <2>5. c_wire' \in Seq(CtlMsgs)
    BY DEF CtlInv, CtlTypes, Ctl!LoopEnds, Ctl!Alive, CtlMsgs
  <2>6. loop' \in {"none", "start", "read", "assert", "dump", "end"} /\ c_exc' \in {"off", "armed", "run"}
    BY DEF CtlInv, CtlTypes, Ctl!LoopEnds, Ctl!Alive
  <2>7. mctl' \in {"idle", "queued", "sent"} /\ dl' \in {"idle", "queued", "dram", "iram", "boot", "exec", "fail"}
    BY DEF CtlInv, CtlTypes, Ctl!LoopEnds, Ctl!Alive
  <2>8. call' \in [CtlServices -> {"idle", "start", "stop"}]
    BY DEF CtlInv, CtlTypes, Ctl!LoopEnds, Ctl!Alive
  <2> QED
    BY <2>1, <2>2, <2>3, <2>4, <2>5, <2>6, <2>7, <2>8 DEF CtlTypes
<1>2. Ctl!Unheard' <=> Ctl!Unheard
  BY DEF Ctl!LoopEnds, Ctl!Unheard
<1>3. Plugged'
  BY <1>2 DEF CtlInv, Plugged, Ctl!LoopEnds, Ctl!Alive
<1>4. Said'
  BY <1>2 DEF CtlInv, Plugged, Said, Ctl!LoopEnds, Ctl!Alive
<1>5. Believed'
  BY <1>2 DEF CtlInv, Ctl!LoopEnds, Ctl!Alive, Believed, Heard
<1>6. Teller'
  BY <1>2 DEF CtlInv, Ctl!LoopEnds, Ctl!Alive, Teller, Heard
<1>7. OneCall'
  BY <1>2 DEF CtlInv, Ctl!LoopEnds, Ctl!Alive, OneCall
<1>8. Fresh'
  BY <1>2 DEF CtlInv, Ctl!LoopEnds, Ctl!Alive, Fresh, Alike
<1>9. Served'
  <2>1. c_wire' = c_wire /\ call' = call /\ odd \subseteq odd'
    BY DEF Ctl!LoopEnds, Ctl!Alive
  <2>2. chip'.fw = chip.fw /\ chip'.req = chip.req /\ chip'.svc = chip.svc
    BY DEF CtlInv, CtlTypes, Ctl!LoopEnds, Ctl!Alive, CtlChips
  <2>3. host'.map = host.map /\ host'.done = host.done
    BY DEF CtlInv, CtlTypes, Ctl!LoopEnds, Ctl!Alive, CtlHosts
  <2> QED
    BY <1>2, <2>1, <2>2, <2>3, ServedFrame DEF CtlInv
<1> QED
  BY <1>1, <1>3, <1>4, <1>5, <1>6, <1>7, <1>8, <1>9 DEF CtlInv

LEMMA CtlLoopService ==
  ASSUME CtlInv, Ctl!LoopService
  PROVE  CtlInv'
<1>1. CtlTypes'
  <2>1. chip' \in CtlChips
    BY DEF CtlInv, CtlTypes, Ctl!LoopService, CtlChips
  <2>2. host' \in CtlHosts
    BY DEF CtlInv, CtlTypes, Ctl!LoopService, CtlHosts
  <2>3. usb' \in CtlBuses
    BY DEF CtlInv, CtlTypes, Ctl!LoopService, CtlBuses
  <2>4. told' \in CtlTolds
    BY DEF CtlInv, CtlTypes, Ctl!LoopService, CtlTolds
  <2>5. c_wire' \in Seq(CtlMsgs)
    BY DEF CtlInv, CtlTypes, Ctl!LoopService, CtlMsgs
  <2>6. loop' \in {"none", "start", "read", "assert", "dump", "end"} /\ c_exc' \in {"off", "armed", "run"}
    BY DEF CtlInv, CtlTypes, Ctl!LoopService
  <2>7. mctl' \in {"idle", "queued", "sent"} /\ dl' \in {"idle", "queued", "dram", "iram", "boot", "exec", "fail"}
    BY DEF CtlInv, CtlTypes, Ctl!LoopService
  <2>8. call' \in [CtlServices -> {"idle", "start", "stop"}]
    BY DEF CtlInv, CtlTypes, Ctl!LoopService
  <2> QED
    BY <2>1, <2>2, <2>3, <2>4, <2>5, <2>6, <2>7, <2>8 DEF CtlTypes
<1>2. /\ c_wire \in Seq(CtlMsgs) /\ c_wire # <<>> /\ c_wire' = Tail(c_wire) /\ loop = "read"
      /\ \A i \in DOMAIN c_wire : (c_wire[i] = "trunk" => i = 1) /\ (c_wire[i] = "assert" => chip.fw = "dead")
  BY DEF CtlInv, CtlTypes, Said, Ctl!LoopService
<1>3. /\ 1 \in DOMAIN c_wire /\ Head(c_wire) = c_wire[1]
      /\ \A i \in DOMAIN c_wire' : i \in Nat \ {0} /\ i + 1 \in DOMAIN c_wire /\ c_wire'[i] = c_wire[i + 1]
  BY <1>2, FirstTaken
<1>4. \A i \in DOMAIN c_wire' : c_wire'[i] # "trunk" /\ (c_wire'[i] = "assert" => chip.fw = "dead")
  BY <1>2, <1>3
<1>5. ~Ctl!Unheard'
  BY <1>4 DEF Ctl!Unheard
<1>6. ~Ctl!Unheard
  BY <1>2, <1>3, CtlAssumption DEF Ctl!LoopService, Ctl!Unheard
<1>7. Plugged'
  BY <1>2, <1>3, <1>4, <1>5, <1>6 DEF CtlInv, Plugged, Ctl!LoopService
<1>8. Said'
  BY <1>2, <1>3, <1>4, <1>5, <1>6 DEF CtlInv, Said, Ctl!LoopService
<1>9. Believed'
  BY <1>2, <1>3, <1>4, <1>5, <1>6 DEF CtlInv, Ctl!LoopService, Believed, Heard
<1>10. Teller'
  BY <1>2, <1>3, <1>4, <1>5, <1>6 DEF CtlInv, Ctl!LoopService, Teller, Heard
<1>11. OneCall'
  BY <1>2, <1>3, <1>4, <1>5, <1>6 DEF CtlInv, Ctl!LoopService, OneCall
<1>12. Fresh'
  BY <1>2, <1>3, <1>4, <1>5, <1>6 DEF CtlInv, Ctl!LoopService, Fresh, Alike
<1>13. Served'
  <2> SUFFICES ASSUME Alike', Heard("up")'
               PROVE  Served'
    BY DEF Served
  <2>1. chip' = chip /\ odd' = odd /\ call' = call /\ host \in CtlHosts
    BY DEF CtlInv, CtlTypes, Ctl!LoopService
  <2>2. Alike /\ Heard("up")
    BY <1>6, <2>1 DEF Alike, Heard
  <2>3. PICK s \in CtlServices : call[s] # "idle"
    BY <1>2, <2>2 DEF CtlInv, Served, Ctl!Calling
  <2>4. \A t \in CtlServices \ {s} : call[t] = "idle" /\ Idles(t)
    BY <2>2, <2>3 DEF CtlInv, OneCall, Served, Alike
  <2>5. call[s] \in {"start", "stop"}
    BY <2>3 DEF CtlInv, CtlTypes
  <2>6. CASE call[s] = "start"
    <3>1. Starting(s)
      BY <2>2, <2>6 DEF CtlInv, Served
    <3>2. c_wire = <<s>> /\ s \in chip.svc /\ s \notin chip.req
      BY <1>2, <3>1 DEF Starting
    <3>3. Head(c_wire) = s /\ Tail(c_wire) = <<>> /\ s # "exit"
      BY <3>2, CtlAssumption
    <3>4. host'.done = TRUE /\ host'.map = host.map \cup {s}
      BY <2>1, <3>3 DEF Ctl!LoopService, CtlHosts
    <3>5. Starting(s)'
      BY <1>2, <2>1, <3>2, <3>3, <3>4 DEF Starting
    <3>6. \A t \in CtlServices \ {s} : Idles(t)'
      BY <2>1, <2>4, <3>4 DEF Idles
    <3> QED
      BY <1>2, <2>1, <2>4, <2>6, <3>3, <3>5, <3>6 DEF Served
  <2>7. CASE call[s] = "stop"
    <3>1. Stopping(s)
      BY <2>2, <2>7 DEF CtlInv, Served
    <3>2. c_wire = <<"exit">> /\ s \in host.map /\ s \notin chip.req /\ s \notin chip.svc
      BY <1>2, <3>1 DEF Stopping
    <3>3. Head(c_wire) = "exit" /\ Tail(c_wire) = <<>>
      BY <3>2
    <3>4. host'.map = host.map
      BY <2>1, <3>3 DEF Ctl!LoopService, CtlHosts
    <3>5. Stopping(s)'
      BY <1>2, <2>1, <3>2, <3>3, <3>4 DEF Stopping
    <3>6. \A t \in CtlServices \ {s} : Idles(t)'
      BY <2>1, <2>4, <3>4 DEF Idles
    <3> QED
      BY <1>2, <2>1, <2>4, <2>7, <3>3, <3>5, <3>6 DEF Served
  <2> QED
    BY <2>5, <2>6, <2>7
<1> QED
  BY <1>1, <1>7, <1>8, <1>9, <1>10, <1>11, <1>12, <1>13 DEF CtlInv

LEMMA CtlLoopTrunk ==
  ASSUME CtlInv, Ctl!LoopTrunk
  PROVE  CtlInv'
<1>1. CtlTypes'
  <2>1. chip' \in CtlChips
    BY DEF CtlInv, CtlTypes, Ctl!LoopTrunk, Ctl!Tell, Ctl!Calling, CtlChips
  <2>2. host' \in CtlHosts
    <3>1. /\ host \in CtlHosts
          /\ host' = [host EXCEPT !.cp = 0, !.status = "ON", !.add = TRUE]
      BY DEF CtlInv, CtlTypes, Ctl!LoopTrunk
    <3> QED
      BY <3>1, HostOn
  <2>3. usb' \in CtlBuses
    BY DEF CtlInv, CtlTypes, Ctl!LoopTrunk, Ctl!Tell, Ctl!Calling, CtlBuses
  <2>4. told' \in CtlTolds
    BY DEF CtlInv, CtlTypes, Ctl!LoopTrunk, Ctl!Tell, Ctl!Calling, CtlTolds
  <2>5. c_wire' \in Seq(CtlMsgs)
    BY DEF CtlInv, CtlTypes, Ctl!LoopTrunk, Ctl!Tell, Ctl!Calling, CtlMsgs
  <2>6. loop' \in {"none", "start", "read", "assert", "dump", "end"} /\ c_exc' \in {"off", "armed", "run"}
    BY DEF CtlInv, CtlTypes, Ctl!LoopTrunk, Ctl!Tell, Ctl!Calling
  <2>7. mctl' \in {"idle", "queued", "sent"} /\ dl' \in {"idle", "queued", "dram", "iram", "boot", "exec", "fail"}
    BY DEF CtlInv, CtlTypes, Ctl!LoopTrunk, Ctl!Tell, Ctl!Calling
  <2>8. call' \in [CtlServices -> {"idle", "start", "stop"}]
    BY DEF CtlInv, CtlTypes, Ctl!LoopTrunk, Ctl!Tell, Ctl!Calling
  <2> QED
    BY <2>1, <2>2, <2>3, <2>4, <2>5, <2>6, <2>7, <2>8 DEF CtlTypes
<1>2. /\ c_wire \in Seq(CtlMsgs) /\ c_wire # <<>> /\ c_wire' = Tail(c_wire) /\ loop = "read"
      /\ \A i \in DOMAIN c_wire : (c_wire[i] = "trunk" => i = 1) /\ (c_wire[i] = "assert" => chip.fw = "dead")
  BY DEF CtlInv, CtlTypes, Said, Ctl!LoopTrunk
<1>3. /\ 1 \in DOMAIN c_wire /\ Head(c_wire) = c_wire[1]
      /\ \A i \in DOMAIN c_wire' : i \in Nat \ {0} /\ i + 1 \in DOMAIN c_wire /\ c_wire'[i] = c_wire[i + 1]
  BY <1>2, FirstTaken
<1>4. \A i \in DOMAIN c_wire' : c_wire'[i] # "trunk" /\ (c_wire'[i] = "assert" => chip.fw = "dead")
  BY <1>2, <1>3
<1>5. ~Ctl!Unheard'
  BY <1>4 DEF Ctl!Unheard
<1>6. Ctl!Unheard
  BY <1>2, <1>3, CtlAssumption DEF Ctl!LoopTrunk, Ctl!Unheard
<1>7. Plugged'
  BY <1>2, <1>3, <1>4, <1>5, <1>6 DEF CtlInv, Plugged, Ctl!LoopTrunk, Ctl!Calling
<1>8. Said'
  BY <1>2, <1>3, <1>4, <1>5, <1>6 DEF CtlInv, Said, Ctl!LoopTrunk, Ctl!Calling
<1>9. Believed'
  BY <1>2, <1>3, <1>4, <1>5, <1>6 DEF CtlInv, Ctl!LoopTrunk, Ctl!Calling, Believed, Heard
<1>10. Teller'
  BY <1>2, <1>3, <1>4, <1>5, <1>6 DEF CtlInv, Ctl!LoopTrunk, Ctl!Tell, Ctl!Calling, Teller, Heard
<1>11. OneCall'
  BY <1>2, <1>3, <1>4, <1>5, <1>6 DEF CtlInv, Ctl!LoopTrunk, Ctl!Calling, OneCall
<1>12. Fresh'
  BY <1>2, <1>3, <1>4, <1>5, <1>6 DEF CtlInv, Ctl!LoopTrunk, Ctl!Calling, Fresh, Alike
<1>13. Served'
  <2> SUFFICES ASSUME Alike', Heard("up")'
               PROVE  Served'
    BY DEF Served
  <2>1. chip' = chip /\ call' = call /\ host'.map = host.map
    BY DEF CtlInv, CtlTypes, Ctl!LoopTrunk, CtlHosts
  <2>2. Alike /\ host.map = {} /\ ~Ctl!Calling
    BY DEF Ctl!LoopTrunk, Alike
  <2>3. chip.req = {} /\ chip.svc = {} /\ c_wire = <<"trunk">>
    BY <1>6, <2>1, <2>2 DEF CtlInv, Fresh, Heard, Ctl!Calling
  <2>4. c_wire' = <<>>
    BY <1>2, <2>3
  <2>5. \A s \in CtlServices : call'[s] = "idle" /\ Idles(s)'
    BY <2>1, <2>2, <2>3 DEF Idles, Ctl!Calling
  <2> QED
    BY <2>4, <2>5 DEF Served
<1> QED
  BY <1>1, <1>7, <1>8, <1>9, <1>10, <1>11, <1>12, <1>13 DEF CtlInv

LEMMA CtlLoopAssert ==
  ASSUME CtlInv, Ctl!LoopAssert
  PROVE  CtlInv'
<1>1. CtlTypes'
  <2>1. chip' \in CtlChips
    BY DEF CtlInv, CtlTypes, Ctl!LoopAssert, CtlChips
  <2>2. host' \in CtlHosts
    BY DEF CtlInv, CtlTypes, Ctl!LoopAssert, CtlHosts
  <2>3. usb' \in CtlBuses
    BY DEF CtlInv, CtlTypes, Ctl!LoopAssert, CtlBuses
  <2>4. told' \in CtlTolds
    BY DEF CtlInv, CtlTypes, Ctl!LoopAssert, CtlTolds
  <2>5. c_wire' \in Seq(CtlMsgs)
    BY DEF CtlInv, CtlTypes, Ctl!LoopAssert, CtlMsgs
  <2>6. loop' \in {"none", "start", "read", "assert", "dump", "end"} /\ c_exc' \in {"off", "armed", "run"}
    BY DEF CtlInv, CtlTypes, Ctl!LoopAssert
  <2>7. mctl' \in {"idle", "queued", "sent"} /\ dl' \in {"idle", "queued", "dram", "iram", "boot", "exec", "fail"}
    BY DEF CtlInv, CtlTypes, Ctl!LoopAssert
  <2>8. call' \in [CtlServices -> {"idle", "start", "stop"}]
    BY DEF CtlInv, CtlTypes, Ctl!LoopAssert
  <2> QED
    BY <2>1, <2>2, <2>3, <2>4, <2>5, <2>6, <2>7, <2>8 DEF CtlTypes
<1>2. /\ c_wire \in Seq(CtlMsgs) /\ c_wire # <<>> /\ c_wire' = Tail(c_wire) /\ loop = "read"
      /\ \A i \in DOMAIN c_wire : (c_wire[i] = "trunk" => i = 1) /\ (c_wire[i] = "assert" => chip.fw = "dead")
  BY DEF CtlInv, CtlTypes, Said, Ctl!LoopAssert
<1>3. /\ 1 \in DOMAIN c_wire /\ Head(c_wire) = c_wire[1]
      /\ \A i \in DOMAIN c_wire' : i \in Nat \ {0} /\ i + 1 \in DOMAIN c_wire /\ c_wire'[i] = c_wire[i + 1]
  BY <1>2, FirstTaken
<1>4. \A i \in DOMAIN c_wire' : c_wire'[i] # "trunk" /\ (c_wire'[i] = "assert" => chip.fw = "dead")
  BY <1>2, <1>3
<1>5. ~Ctl!Unheard'
  BY <1>4 DEF Ctl!Unheard
<1>6. ~Ctl!Unheard
  BY <1>2, <1>3, CtlAssumption DEF Ctl!LoopAssert, Ctl!Unheard
<1>7. Plugged'
  BY <1>2, <1>3, <1>4, <1>5, <1>6 DEF CtlInv, Plugged, Ctl!LoopAssert
<1>8. Said'
  BY <1>2, <1>3, <1>4, <1>5, <1>6 DEF CtlInv, Said, Ctl!LoopAssert
<1>9. Believed'
  BY <1>2, <1>3, <1>4, <1>5, <1>6 DEF CtlInv, Ctl!LoopAssert, Believed, Heard
<1>10. Teller'
  <2>1. /\ chip' = chip /\ host' = host /\ told' = told /\ odd' = odd /\ loop = "read" /\ loop' = "assert"
        /\ c_exc' = "armed" => c_exc = "armed" /\ host.cp # 1
    BY DEF Ctl!LoopAssert, CtlInv, CtlTypes
  <2>2. chip.fw = "dead"
    BY <1>2, <1>3 DEF Ctl!LoopAssert
  <2>3. Heard("dead")
    BY <1>6, <2>2 DEF Heard
  <2> QED
    BY <2>1, <2>2, <2>3 DEF CtlInv, Teller, Heard
<1>11. OneCall'
  BY <1>2, <1>3, <1>4, <1>5, <1>6 DEF CtlInv, Ctl!LoopAssert, OneCall
<1>12. Fresh'
  BY <1>2, <1>3, <1>4, <1>5, <1>6 DEF CtlInv, Ctl!LoopAssert, Fresh, Alike
<1>13. Served'
  BY <1>2, <1>3, <1>4, <1>5, <1>6 DEF CtlInv, Ctl!LoopAssert, Served, Alike, Heard, Idles, Starting, Stopping
<1> QED
  BY <1>1, <1>7, <1>8, <1>9, <1>10, <1>11, <1>12, <1>13 DEF CtlInv

LEMMA CtlLoopLocked ==
  ASSUME CtlInv, Ctl!LoopLocked
  PROVE  CtlInv'
<1>1. CtlTypes'
  <2>1. chip' \in CtlChips
    BY DEF CtlInv, CtlTypes, Ctl!LoopLocked, Ctl!Tell, Ctl!BLOCKED, CtlChips
  <2>2. host' \in CtlHosts
    <3>1. /\ host \in CtlHosts
          /\ host' = host \/ host' = [host EXCEPT !.cp = 1, !.status = "HALT", !.data = FALSE]
      BY DEF CtlInv, CtlTypes, Ctl!LoopLocked
    <3> QED
      BY <3>1, HostHalted
  <2>3. usb' \in CtlBuses
    BY DEF CtlInv, CtlTypes, Ctl!LoopLocked, Ctl!Tell, Ctl!BLOCKED, CtlBuses
  <2>4. told' \in CtlTolds
    BY DEF CtlInv, CtlTypes, Ctl!LoopLocked, Ctl!Tell, Ctl!BLOCKED, CtlTolds
  <2>5. c_wire' \in Seq(CtlMsgs)
    BY DEF CtlInv, CtlTypes, Ctl!LoopLocked, Ctl!Tell, Ctl!BLOCKED, CtlMsgs
  <2>6. loop' \in {"none", "start", "read", "assert", "dump", "end"} /\ c_exc' \in {"off", "armed", "run"}
    BY DEF CtlInv, CtlTypes, Ctl!LoopLocked, Ctl!Tell, Ctl!BLOCKED
  <2>7. mctl' \in {"idle", "queued", "sent"} /\ dl' \in {"idle", "queued", "dram", "iram", "boot", "exec", "fail"}
    BY DEF CtlInv, CtlTypes, Ctl!LoopLocked, Ctl!Tell, Ctl!BLOCKED
  <2>8. call' \in [CtlServices -> {"idle", "start", "stop"}]
    BY DEF CtlInv, CtlTypes, Ctl!LoopLocked, Ctl!Tell, Ctl!BLOCKED
  <2> QED
    BY <2>1, <2>2, <2>3, <2>4, <2>5, <2>6, <2>7, <2>8 DEF CtlTypes
<1>2. Ctl!Unheard' <=> Ctl!Unheard
  BY DEF Ctl!LoopLocked, Ctl!Unheard
<1>3. Plugged'
  BY <1>2 DEF CtlInv, Plugged, Ctl!LoopLocked, Ctl!BLOCKED
<1>4. Said'
  BY <1>2 DEF CtlInv, Said, Ctl!LoopLocked, Ctl!BLOCKED
<1>5. Believed'
  BY <1>2 DEF CtlInv, Said, Ctl!LoopLocked, Ctl!BLOCKED, Believed, Heard
<1>6. Teller'
  <2> SUFFICES ASSUME {"rearmed", "slept", "slow"} \cap odd' = {}
               PROVE  Teller'
    BY DEF Teller
  <2>1. chip' = chip /\ c_exc' = c_exc /\ odd' = odd /\ loop = "assert" /\ loop' # "assert" /\ loop' # "read"
    BY DEF Ctl!LoopLocked
  <2>2. ~Heard("up") /\ (Heard("dead") => c_exc # "armed")
    BY <2>1 DEF CtlInv, Said, Teller, Heard
  <2>3. CASE host.cp = 2
    <3>1. host' = host /\ told' = told
      BY <2>3 DEF Ctl!LoopLocked, Ctl!BLOCKED
    <3> QED
      BY <1>2, <2>1, <2>2, <3>1 DEF CtlInv, Teller, Heard
  <2>4. CASE host.cp # 2
    <3>1. told.n = 0
      BY <2>1, <2>4 DEF CtlInv, Teller
    <3>2. told'.n = 1 /\ host'.cp = 1
      <4>1. host' = [host EXCEPT !.cp = 1, !.status = "HALT", !.data = FALSE] /\ host \in CtlHosts
        BY <2>4 DEF Ctl!LoopLocked, Ctl!BLOCKED, CtlInv, CtlTypes
      <4>2. told' = [ev |-> "assert", n |-> told.n + 1]
        BY <2>4 DEF Ctl!LoopLocked, Ctl!BLOCKED, Ctl!Tell
      <4>3. host'.cp = 1
        BY <4>1, HostHalted
      <4>4. told'.n = 1
        BY <3>1, <4>2
      <4> QED
        BY <4>3, <4>4
    <3> QED
      BY <1>2, <2>1, <2>2, <3>2 DEF Teller, Heard
  <2> QED
    BY <2>3, <2>4
<1>7. OneCall'
  BY <1>2 DEF CtlInv, Ctl!LoopLocked, Ctl!BLOCKED, OneCall
<1>8. Fresh'
  BY <1>2 DEF CtlInv, CtlTypes, Ctl!LoopLocked, Ctl!BLOCKED, CtlHosts, Fresh, Alike
<1>9. Served'
  <2>1. c_wire' = c_wire /\ call' = call /\ odd \subseteq odd'
    BY DEF Ctl!LoopLocked, Ctl!Tell, Ctl!BLOCKED
  <2>2. chip'.fw = chip.fw /\ chip'.req = chip.req /\ chip'.svc = chip.svc
    BY DEF CtlInv, CtlTypes, Ctl!LoopLocked, Ctl!Tell, Ctl!BLOCKED, CtlChips
  <2>3. host'.map = host.map /\ host'.done = host.done
    BY DEF CtlInv, CtlTypes, Ctl!LoopLocked, Ctl!Tell, Ctl!BLOCKED, CtlHosts
  <2> QED
    BY <1>2, <2>1, <2>2, <2>3, ServedFrame DEF CtlInv
<1> QED
  BY <1>1, <1>3, <1>4, <1>5, <1>6, <1>7, <1>8, <1>9 DEF CtlInv

LEMMA CtlLoopDump ==
  ASSUME CtlInv, Ctl!LoopDump
  PROVE  CtlInv'
<1>1. CtlTypes'
  <2>1. chip' \in CtlChips
    BY DEF CtlInv, CtlTypes, Ctl!LoopDump, Ctl!Tell, CtlChips
  <2>2. host' \in CtlHosts
    BY DEF CtlInv, CtlTypes, Ctl!LoopDump, Ctl!Tell, CtlHosts
  <2>3. usb' \in CtlBuses
    BY DEF CtlInv, CtlTypes, Ctl!LoopDump, Ctl!Tell, CtlBuses
  <2>4. told' \in CtlTolds
    BY DEF CtlInv, CtlTypes, Ctl!LoopDump, Ctl!Tell, CtlTolds
  <2>5. c_wire' \in Seq(CtlMsgs)
    BY DEF CtlInv, CtlTypes, Ctl!LoopDump, Ctl!Tell, CtlMsgs
  <2>6. loop' \in {"none", "start", "read", "assert", "dump", "end"} /\ c_exc' \in {"off", "armed", "run"}
    BY DEF CtlInv, CtlTypes, Ctl!LoopDump, Ctl!Tell
  <2>7. mctl' \in {"idle", "queued", "sent"} /\ dl' \in {"idle", "queued", "dram", "iram", "boot", "exec", "fail"}
    BY DEF CtlInv, CtlTypes, Ctl!LoopDump, Ctl!Tell
  <2>8. call' \in [CtlServices -> {"idle", "start", "stop"}]
    BY DEF CtlInv, CtlTypes, Ctl!LoopDump, Ctl!Tell
  <2> QED
    BY <2>1, <2>2, <2>3, <2>4, <2>5, <2>6, <2>7, <2>8 DEF CtlTypes
<1>2. Ctl!Unheard' <=> Ctl!Unheard
  BY DEF Ctl!LoopDump, Ctl!Unheard
<1>3. Plugged'
  BY <1>2 DEF CtlInv, Plugged, Ctl!LoopDump
<1>4. Said'
  BY <1>2 DEF CtlInv, Said, Ctl!LoopDump
<1>5. Believed'
  BY <1>2 DEF CtlInv, Ctl!LoopDump, Believed, Heard
<1>6. Teller'
  BY <1>2 DEF CtlInv, Ctl!LoopDump, Ctl!Tell, Teller, Heard
<1>7. OneCall'
  BY <1>2 DEF CtlInv, Ctl!LoopDump, OneCall
<1>8. Fresh'
  BY <1>2 DEF CtlInv, Ctl!LoopDump, Fresh, Alike
<1>9. Served'
  BY <1>2 DEF CtlInv, Said, Ctl!LoopDump, Served, Alike, Heard, Idles, Starting, Stopping
<1> QED
  BY <1>1, <1>3, <1>4, <1>5, <1>6, <1>7, <1>8, <1>9 DEF CtlInv

LEMMA CtlExcFire ==
  ASSUME CtlInv, Ctl!ExcFire
  PROVE  CtlInv'
<1>1. CtlTypes'
  <2>1. chip' \in CtlChips
    BY DEF CtlInv, CtlTypes, Ctl!ExcFire, Ctl!Tell, Ctl!BLOCKED, Ctl!Unheard, CtlChips
  <2>2. host' \in CtlHosts
    BY DEF CtlInv, CtlTypes, Ctl!ExcFire, Ctl!Tell, Ctl!BLOCKED, Ctl!Unheard, CtlHosts
  <2>3. usb' \in CtlBuses
    BY DEF CtlInv, CtlTypes, Ctl!ExcFire, Ctl!Tell, Ctl!BLOCKED, Ctl!Unheard, CtlBuses
  <2>4. told' \in CtlTolds
    BY DEF CtlInv, CtlTypes, Ctl!ExcFire, Ctl!Tell, Ctl!BLOCKED, Ctl!Unheard, CtlTolds
  <2>5. c_wire' \in Seq(CtlMsgs)
    BY DEF CtlInv, CtlTypes, Ctl!ExcFire, Ctl!Tell, Ctl!BLOCKED, Ctl!Unheard, CtlMsgs
  <2>6. loop' \in {"none", "start", "read", "assert", "dump", "end"} /\ c_exc' \in {"off", "armed", "run"}
    BY DEF CtlInv, CtlTypes, Ctl!ExcFire, Ctl!Tell, Ctl!BLOCKED, Ctl!Unheard
  <2>7. mctl' \in {"idle", "queued", "sent"} /\ dl' \in {"idle", "queued", "dram", "iram", "boot", "exec", "fail"}
    BY DEF CtlInv, CtlTypes, Ctl!ExcFire, Ctl!Tell, Ctl!BLOCKED, Ctl!Unheard
  <2>8. call' \in [CtlServices -> {"idle", "start", "stop"}]
    BY DEF CtlInv, CtlTypes, Ctl!ExcFire, Ctl!Tell, Ctl!BLOCKED, Ctl!Unheard
  <2> QED
    BY <2>1, <2>2, <2>3, <2>4, <2>5, <2>6, <2>7, <2>8 DEF CtlTypes
<1>2. Ctl!Unheard' <=> Ctl!Unheard
  BY DEF Ctl!ExcFire, Ctl!Unheard
<1>3. Plugged'
  BY <1>2 DEF CtlInv, Plugged, Ctl!ExcFire, Ctl!BLOCKED, Ctl!Unheard
<1>4. Said'
  <2>1. UNCHANGED <<chip, usb, c_wire, loop>>
    BY DEF Ctl!ExcFire
  <2>2. host'.data = host.data
    BY DEF CtlInv, CtlTypes, CtlHosts, Ctl!ExcFire
  <2> QED
    BY <1>2, <2>1, <2>2 DEF CtlInv, Said
<1>5. Believed'
  BY <1>2 DEF CtlInv, Ctl!ExcFire, Ctl!BLOCKED, Ctl!Unheard, Believed, Heard
<1>6. Teller'
  <2> SUFFICES ASSUME {"rearmed", "slept", "slow"} \cap odd' = {}
               PROVE  Teller'
    BY DEF Teller
  <2>1. chip' = chip /\ loop' = loop /\ c_exc = "armed"
    BY DEF Ctl!ExcFire
  <2>2. {"rearmed", "slept", "slow"} \cap odd = {} /\ Heard("dead")
    BY DEF Ctl!ExcFire, Heard, Ctl!Unheard
  <2>3. told.n = 0 /\ host.cp = 1 /\ host.status = "HALT" /\ loop # "assert"
    BY <2>1, <2>2 DEF CtlInv, Teller
  <2>4. told'.n = 1 /\ host'.cp = 2 /\ host'.status = "HALT" /\ c_exc' = "run"
    BY <2>3 DEF Ctl!ExcFire, Ctl!BLOCKED, Ctl!Tell, CtlInv, CtlTypes, CtlHosts
  <2>5. chip.fw = "dead" /\ ~Heard("up")'
    BY <2>1, <2>2 DEF Heard
  <2> QED
    BY <1>2, <2>1, <2>3, <2>4, <2>5 DEF Teller
<1>7. OneCall'
  BY <1>2 DEF CtlInv, Ctl!ExcFire, Ctl!BLOCKED, Ctl!Unheard, OneCall
<1>8. Fresh'
  BY <1>2 DEF CtlInv, CtlTypes, Ctl!ExcFire, Ctl!BLOCKED, Ctl!Unheard, CtlHosts, Fresh, Alike
<1>9. Served'
  <2>1. c_wire' = c_wire /\ call' = call /\ odd \subseteq odd'
    BY DEF Ctl!ExcFire, Ctl!Tell, Ctl!BLOCKED, Ctl!Unheard
  <2>2. chip'.fw = chip.fw /\ chip'.req = chip.req /\ chip'.svc = chip.svc
    BY DEF CtlInv, CtlTypes, Ctl!ExcFire, Ctl!Tell, Ctl!BLOCKED, Ctl!Unheard, CtlChips
  <2>3. host'.map = host.map /\ host'.done = host.done
    BY DEF CtlInv, CtlTypes, Ctl!ExcFire, Ctl!Tell, Ctl!BLOCKED, Ctl!Unheard, CtlHosts
  <2> QED
    BY <1>2, <2>1, <2>2, <2>3, ServedFrame DEF CtlInv
<1> QED
  BY <1>1, <1>3, <1>4, <1>5, <1>6, <1>7, <1>8, <1>9 DEF CtlInv

LEMMA CtlExcEnd ==
  ASSUME CtlInv, Ctl!ExcEnd
  PROVE  CtlInv'
<1>1. CtlTypes'
  <2>1. chip' \in CtlChips
    BY DEF CtlInv, CtlTypes, Ctl!ExcEnd, CtlChips
  <2>2. host' \in CtlHosts
    BY DEF CtlInv, CtlTypes, Ctl!ExcEnd, CtlHosts
  <2>3. usb' \in CtlBuses
    BY DEF CtlInv, CtlTypes, Ctl!ExcEnd, CtlBuses
  <2>4. told' \in CtlTolds
    BY DEF CtlInv, CtlTypes, Ctl!ExcEnd, CtlTolds
  <2>5. c_wire' \in Seq(CtlMsgs)
    BY DEF CtlInv, CtlTypes, Ctl!ExcEnd, CtlMsgs
  <2>6. loop' \in {"none", "start", "read", "assert", "dump", "end"} /\ c_exc' \in {"off", "armed", "run"}
    BY DEF CtlInv, CtlTypes, Ctl!ExcEnd
  <2>7. mctl' \in {"idle", "queued", "sent"} /\ dl' \in {"idle", "queued", "dram", "iram", "boot", "exec", "fail"}
    BY DEF CtlInv, CtlTypes, Ctl!ExcEnd
  <2>8. call' \in [CtlServices -> {"idle", "start", "stop"}]
    BY DEF CtlInv, CtlTypes, Ctl!ExcEnd
  <2> QED
    BY <2>1, <2>2, <2>3, <2>4, <2>5, <2>6, <2>7, <2>8 DEF CtlTypes
<1>2. Ctl!Unheard' <=> Ctl!Unheard
  BY DEF Ctl!ExcEnd, Ctl!Unheard
<1>3. Plugged'
  BY <1>2 DEF CtlInv, Plugged, Ctl!ExcEnd
<1>4. Said'
  BY <1>2 DEF CtlInv, Said, Ctl!ExcEnd
<1>5. Believed'
  BY <1>2 DEF CtlInv, Ctl!ExcEnd, Believed, Heard
<1>6. Teller'
  BY <1>2 DEF CtlInv, Ctl!ExcEnd, Teller, Heard
<1>7. OneCall'
  BY <1>2 DEF CtlInv, Ctl!ExcEnd, OneCall
<1>8. Fresh'
  BY <1>2 DEF CtlInv, Ctl!ExcEnd, Fresh, Alike
<1>9. Served'
  <2>1. chip' = chip /\ odd' = odd /\ c_exc = "run"
    BY DEF Ctl!ExcEnd
  <2>2. ~(Alike /\ Heard("up"))
    BY <2>1 DEF CtlInv, Believed, Alike
  <2> QED
    BY <1>2, <2>1, <2>2 DEF Served, Alike, Heard
<1> QED
  BY <1>1, <1>3, <1>4, <1>5, <1>6, <1>7, <1>8, <1>9 DEF CtlInv

LEMMA CtlModemAssert ==
  ASSUME CtlInv, Ctl!ModemAssert
  PROVE  CtlInv'
<1>1. CtlTypes'
  <2>1. chip' \in CtlChips
    BY DEF CtlInv, CtlTypes, Ctl!ModemAssert, Ctl!Spend, CtlChips
  <2>2. host' \in CtlHosts
    BY DEF CtlInv, CtlTypes, Ctl!ModemAssert, Ctl!Spend, CtlHosts
  <2>3. usb' \in CtlBuses
    BY DEF CtlInv, CtlTypes, Ctl!ModemAssert, Ctl!Spend, CtlBuses
  <2>4. told' \in CtlTolds
    BY DEF CtlInv, CtlTypes, Ctl!ModemAssert, Ctl!Spend, CtlTolds
  <2>5. c_wire' \in Seq(CtlMsgs)
    BY DEF CtlInv, CtlTypes, Ctl!ModemAssert, Ctl!Spend, CtlMsgs
  <2>6. loop' \in {"none", "start", "read", "assert", "dump", "end"} /\ c_exc' \in {"off", "armed", "run"}
    BY DEF CtlInv, CtlTypes, Ctl!ModemAssert, Ctl!Spend
  <2>7. mctl' \in {"idle", "queued", "sent"} /\ dl' \in {"idle", "queued", "dram", "iram", "boot", "exec", "fail"}
    BY DEF CtlInv, CtlTypes, Ctl!ModemAssert, Ctl!Spend
  <2>8. call' \in [CtlServices -> {"idle", "start", "stop"}]
    BY DEF CtlInv, CtlTypes, Ctl!ModemAssert, Ctl!Spend
  <2> QED
    BY <2>1, <2>2, <2>3, <2>4, <2>5, <2>6, <2>7, <2>8 DEF CtlTypes
<1>2. Ctl!Unheard' <=> Ctl!Unheard
  BY DEF Ctl!ModemAssert, Ctl!Unheard
<1>3. Plugged'
  BY <1>2 DEF CtlInv, Plugged, Ctl!ModemAssert
<1>4. Said'
  BY <1>2 DEF CtlInv, Said, Ctl!ModemAssert
<1>5. Believed'
  BY <1>2 DEF CtlInv, Ctl!ModemAssert, Believed, Heard
<1>6. Teller'
  BY <1>2 DEF CtlInv, Ctl!ModemAssert, Teller, Heard
<1>7. OneCall'
  BY <1>2 DEF CtlInv, Ctl!ModemAssert, OneCall
<1>8. Fresh'
  BY <1>2 DEF CtlInv, Ctl!ModemAssert, Fresh, Alike
<1>9. Served'
  <2>1. c_wire' = c_wire /\ call' = call /\ odd \subseteq odd'
    BY DEF Ctl!ModemAssert, Ctl!Spend
  <2>2. chip'.fw = chip.fw /\ chip'.req = chip.req /\ chip'.svc = chip.svc
    BY DEF CtlInv, CtlTypes, Ctl!ModemAssert, Ctl!Spend, CtlChips
  <2>3. host'.map = host.map /\ host'.done = host.done
    BY DEF CtlInv, CtlTypes, Ctl!ModemAssert, Ctl!Spend, CtlHosts
  <2> QED
    BY <1>2, <2>1, <2>2, <2>3, ServedFrame DEF CtlInv
<1> QED
  BY <1>1, <1>3, <1>4, <1>5, <1>6, <1>7, <1>8, <1>9 DEF CtlInv

LEMMA CtlMctlSend ==
  ASSUME CtlInv, Ctl!MctlSend
  PROVE  CtlInv'
<1>1. CtlTypes'
  <2>1. chip' \in CtlChips
    BY DEF CtlInv, CtlTypes, Ctl!MctlSend, Ctl!Alive, Ctl!Dead, CtlChips
  <2>2. host' \in CtlHosts
    BY DEF CtlInv, CtlTypes, Ctl!MctlSend, Ctl!Alive, Ctl!Dead, CtlHosts
  <2>3. usb' \in CtlBuses
    BY DEF CtlInv, CtlTypes, Ctl!MctlSend, Ctl!Alive, Ctl!Dead, CtlBuses
  <2>4. told' \in CtlTolds
    BY DEF CtlInv, CtlTypes, Ctl!MctlSend, Ctl!Alive, Ctl!Dead, CtlTolds
  <2>5. c_wire' \in Seq(CtlMsgs)
    BY DEF CtlInv, CtlTypes, Ctl!MctlSend, Ctl!Alive, Ctl!Dead, CtlMsgs
  <2>6. loop' \in {"none", "start", "read", "assert", "dump", "end"} /\ c_exc' \in {"off", "armed", "run"}
    BY DEF CtlInv, CtlTypes, Ctl!MctlSend, Ctl!Alive, Ctl!Dead
  <2>7. mctl' \in {"idle", "queued", "sent"} /\ dl' \in {"idle", "queued", "dram", "iram", "boot", "exec", "fail"}
    BY DEF CtlInv, CtlTypes, Ctl!MctlSend, Ctl!Alive, Ctl!Dead
  <2>8. call' \in [CtlServices -> {"idle", "start", "stop"}]
    BY DEF CtlInv, CtlTypes, Ctl!MctlSend, Ctl!Alive, Ctl!Dead
  <2> QED
    BY <2>1, <2>2, <2>3, <2>4, <2>5, <2>6, <2>7, <2>8 DEF CtlTypes
<1>2. CASE host.status = "HALT" \/ usb.n = 0
  <2>1. UNCHANGED <<chip, usb, c_wire, loop, c_exc, dl, host, call, told, odd>>
    BY <1>2 DEF Ctl!MctlSend
  <2>2. Ctl!Unheard' <=> Ctl!Unheard
    BY <2>1 DEF Ctl!Unheard
  <2>3. Plugged' /\ Said' /\ OneCall'
    BY <2>1, <2>2 DEF CtlInv, Plugged, Said, OneCall
  <2>4. Believed' /\ Teller' /\ Fresh'
    BY <2>1, <2>2 DEF CtlInv, Believed, Teller, Fresh, Heard, Alike
  <2>5. Served'
    BY <2>1, <2>2, ServedFrame DEF CtlInv
  <2> QED
    BY <1>1, <2>3, <2>4, <2>5 DEF CtlInv
<1>3. CASE ~(host.status = "HALT" \/ usb.n = 0)
  <2>1. UNCHANGED <<usb, loop, c_exc, dl, call, told, odd>>
    BY <1>3 DEF Ctl!MctlSend
  <2>2. /\ host.status # "HALT" /\ host' = [host EXCEPT !.cp = 1] /\ host \in CtlHosts
    BY <1>3 DEF Ctl!MctlSend, CtlInv, CtlTypes
  <2>3. /\ host'.cp = 1 /\ host'.status = host.status /\ host'.map = host.map /\ host'.done = host.done
        /\ host'.data = host.data
    BY <2>2 DEF CtlHosts
  <2>4. CASE chip.fw = "up"
    <3>1. chip' = Ctl!Dead(chip) /\ c_wire' = Append(c_wire, "assert")
      BY <1>3, <2>4 DEF Ctl!MctlSend, CtlInv, Plugged, Ctl!Alive
    <3>2. chip'.fw = "dead" /\ chip'.st = chip.st /\ chip'.req = {} /\ chip'.svc = {}
      BY <3>1 DEF Ctl!Dead, CtlInv, CtlTypes, CtlChips
    <3>3. /\ c_wire' # <<>> /\ \A i \in DOMAIN c_wire : i \in DOMAIN c_wire' /\ c_wire'[i] = c_wire[i]
          /\ \A i \in DOMAIN c_wire' : i \in DOMAIN c_wire \/ c_wire'[i] = "assert"
      BY <3>1, Behind DEF CtlInv, CtlTypes, CtlMsgs
    <3>4. Ctl!Unheard' <=> Ctl!Unheard
      BY <3>3 DEF Ctl!Unheard
    <3>5. Plugged' /\ OneCall'
      BY <2>1, <2>4, <3>2 DEF CtlInv, Plugged, OneCall
    <3>6. Said'
      BY <2>1, <2>3, <2>4, <3>2, <3>3, <3>4 DEF CtlInv, Said
    <3>7. Believed' /\ Fresh' /\ Served'
      BY <3>2 DEF Believed, Fresh, Served, Heard
    <3>8. {"rearmed", "slept", "slow"} \cap odd = {} =>
          told.n <= 1 /\ loop \in {"none", "start", "read"} /\ (~Ctl!Unheard => told.n = 0 /\ c_exc = "off")
      BY <2>4 DEF CtlInv, Said, Believed, Teller, Heard
    <3>9. Teller'
      BY <2>1, <2>3, <3>2, <3>4, <3>8 DEF Teller, Heard
    <3> QED
      BY <1>1, <3>5, <3>6, <3>7, <3>9 DEF CtlInv
  <2>5. CASE chip.fw # "up"
    <3>1. chip' = chip /\ c_wire' = c_wire
      BY <1>3, <2>5 DEF Ctl!MctlSend
    <3>2. Ctl!Unheard' <=> Ctl!Unheard
      BY <3>1 DEF Ctl!Unheard
    <3>3. Plugged' /\ OneCall'
      BY <2>1, <2>5, <3>1 DEF CtlInv, Plugged, OneCall
    <3>4. Said'
      BY <2>1, <2>3, <2>5, <3>1, <3>2 DEF CtlInv, Said
    <3>5. Believed' /\ Fresh' /\ Served'
      BY <2>5, <3>1 DEF Believed, Fresh, Served, Heard
    <3>6. Teller'
      BY <2>1, <2>2, <2>3, <2>5, <3>1, <3>2 DEF CtlInv, Teller, Heard
    <3> QED
      BY <1>1, <3>3, <3>4, <3>5, <3>6 DEF CtlInv
  <2> QED
    BY <2>4, <2>5
<1> QED
  BY <1>2, <1>3

LEMMA CtlMctlArm ==
  ASSUME CtlInv, Ctl!MctlArm
  PROVE  CtlInv'
<1>1. CtlTypes'
  <2>1. chip' \in CtlChips
    BY DEF CtlInv, CtlTypes, Ctl!MctlArm, CtlChips
  <2>2. host' \in CtlHosts
    BY DEF CtlInv, CtlTypes, Ctl!MctlArm, CtlHosts
  <2>3. usb' \in CtlBuses
    BY DEF CtlInv, CtlTypes, Ctl!MctlArm, CtlBuses
  <2>4. told' \in CtlTolds
    BY DEF CtlInv, CtlTypes, Ctl!MctlArm, CtlTolds
  <2>5. c_wire' \in Seq(CtlMsgs)
    BY DEF CtlInv, CtlTypes, Ctl!MctlArm, CtlMsgs
  <2>6. loop' \in {"none", "start", "read", "assert", "dump", "end"} /\ c_exc' \in {"off", "armed", "run"}
    BY DEF CtlInv, CtlTypes, Ctl!MctlArm
  <2>7. mctl' \in {"idle", "queued", "sent"} /\ dl' \in {"idle", "queued", "dram", "iram", "boot", "exec", "fail"}
    BY DEF CtlInv, CtlTypes, Ctl!MctlArm
  <2>8. call' \in [CtlServices -> {"idle", "start", "stop"}]
    BY DEF CtlInv, CtlTypes, Ctl!MctlArm
  <2> QED
    BY <2>1, <2>2, <2>3, <2>4, <2>5, <2>6, <2>7, <2>8 DEF CtlTypes
<1>2. Ctl!Unheard' <=> Ctl!Unheard
  BY DEF Ctl!MctlArm, Ctl!Unheard
<1>3. Plugged'
  BY <1>2 DEF CtlInv, Plugged, Ctl!MctlArm
<1>4. Said'
  BY <1>2 DEF CtlInv, Said, Ctl!MctlArm
<1>5. Believed'
  BY <1>2 DEF CtlInv, Ctl!MctlArm, Believed, Heard
<1>6. Teller'
  <2> SUFFICES ASSUME {"rearmed", "slept", "slow"} \cap odd' = {}
               PROVE  Teller'
    BY DEF Teller
  <2>1. /\ {"rearmed", "slept", "slow"} \cap odd = {} /\ ~(told.n > 0) /\ loop # "assert" /\ host.cp # 0
        /\ chip' = chip /\ told' = told /\ loop' = loop
    BY DEF Ctl!MctlArm
  <2>2. told.n = 0 /\ host.cp \in {1, 2} /\ host'.cp = host.cp /\ host'.status = "HALT"
    BY <2>1 DEF Ctl!MctlArm, CtlInv, CtlTypes, CtlTolds, CtlHosts
  <2>3. Heard("dead") => host.cp = 1
    BY <2>1, <2>2 DEF CtlInv, Teller
  <2> QED
    BY <1>2, <2>1, <2>2, <2>3 DEF Teller, Heard
<1>7. OneCall'
  BY <1>2 DEF CtlInv, Ctl!MctlArm, OneCall
<1>8. Fresh'
  BY <1>2 DEF CtlInv, Ctl!MctlArm, Fresh, Alike
<1>9. Served'
  <2>1. c_wire' = c_wire /\ call' = call /\ odd \subseteq odd'
    BY DEF Ctl!MctlArm
  <2>2. chip'.fw = chip.fw /\ chip'.req = chip.req /\ chip'.svc = chip.svc
    BY DEF CtlInv, CtlTypes, Ctl!MctlArm, CtlChips
  <2>3. host'.map = host.map /\ host'.done = host.done
    BY DEF CtlInv, CtlTypes, Ctl!MctlArm, CtlHosts
  <2> QED
    BY <1>2, <2>1, <2>2, <2>3, ServedFrame DEF CtlInv
<1> QED
  BY <1>1, <1>3, <1>4, <1>5, <1>6, <1>7, <1>8, <1>9 DEF CtlInv

LEMMA CtlAddDevices ==
  ASSUME CtlInv, Ctl!AddDevices
  PROVE  CtlInv'
<1>1. CtlTypes'
  <2>1. chip' \in CtlChips
    BY DEF CtlInv, CtlTypes, Ctl!AddDevices, CtlChips
  <2>2. host' \in CtlHosts
    BY DEF CtlInv, CtlTypes, Ctl!AddDevices, CtlHosts
  <2>3. usb' \in CtlBuses
    BY DEF CtlInv, CtlTypes, Ctl!AddDevices, CtlBuses
  <2>4. told' \in CtlTolds
    BY DEF CtlInv, CtlTypes, Ctl!AddDevices, CtlTolds
  <2>5. c_wire' \in Seq(CtlMsgs)
    BY DEF CtlInv, CtlTypes, Ctl!AddDevices, CtlMsgs
  <2>6. loop' \in {"none", "start", "read", "assert", "dump", "end"} /\ c_exc' \in {"off", "armed", "run"}
    BY DEF CtlInv, CtlTypes, Ctl!AddDevices
  <2>7. mctl' \in {"idle", "queued", "sent"} /\ dl' \in {"idle", "queued", "dram", "iram", "boot", "exec", "fail"}
    BY DEF CtlInv, CtlTypes, Ctl!AddDevices
  <2>8. call' \in [CtlServices -> {"idle", "start", "stop"}]
    BY DEF CtlInv, CtlTypes, Ctl!AddDevices
  <2> QED
    BY <2>1, <2>2, <2>3, <2>4, <2>5, <2>6, <2>7, <2>8 DEF CtlTypes
<1>2. Ctl!Unheard' <=> Ctl!Unheard
  BY DEF Ctl!AddDevices, Ctl!Unheard
<1>3. Plugged'
  BY <1>2 DEF CtlInv, Plugged, Ctl!AddDevices
<1>4. Said'
  BY <1>2 DEF CtlInv, Said, Ctl!AddDevices
<1>5. Believed'
  BY <1>2 DEF CtlInv, Ctl!AddDevices, Believed, Heard
<1>6. Teller'
  BY <1>2 DEF CtlInv, Ctl!AddDevices, Teller, Heard
<1>7. OneCall'
  BY <1>2 DEF CtlInv, Ctl!AddDevices, OneCall
<1>8. Fresh'
  BY <1>2 DEF CtlInv, Ctl!AddDevices, Fresh, Alike
<1>9. Served'
  <2>1. c_wire' = c_wire /\ call' = call /\ odd \subseteq odd'
    BY DEF Ctl!AddDevices
  <2>2. chip'.fw = chip.fw /\ chip'.req = chip.req /\ chip'.svc = chip.svc
    BY DEF CtlInv, CtlTypes, Ctl!AddDevices, CtlChips
  <2>3. host'.map = host.map /\ host'.done = host.done
    BY DEF CtlInv, CtlTypes, Ctl!AddDevices, CtlHosts
  <2> QED
    BY <1>2, <2>1, <2>2, <2>3, ServedFrame DEF CtlInv
<1> QED
  BY <1>1, <1>3, <1>4, <1>5, <1>6, <1>7, <1>8, <1>9 DEF CtlInv

LEMMA CtlServiceStart ==
  ASSUME CtlInv, NEW s \in CtlServices, Ctl!ServiceStart(s)
  PROVE  CtlInv'
<1>1. CtlTypes'
  <2>1. chip' \in CtlChips
    BY DEF CtlInv, CtlTypes, Ctl!ServiceStart, Ctl!Ask, Ctl!Alive, Ctl!Spend, Ctl!Calling, CtlChips
  <2>2. host' \in CtlHosts
    BY DEF CtlInv, CtlTypes, Ctl!ServiceStart, Ctl!Ask, Ctl!Alive, Ctl!Spend, Ctl!Calling, CtlHosts
  <2>3. usb' \in CtlBuses
    BY DEF CtlInv, CtlTypes, Ctl!ServiceStart, Ctl!Ask, Ctl!Alive, Ctl!Spend, Ctl!Calling, CtlBuses
  <2>4. told' \in CtlTolds
    BY DEF CtlInv, CtlTypes, Ctl!ServiceStart, Ctl!Ask, Ctl!Alive, Ctl!Spend, Ctl!Calling, CtlTolds
  <2>5. c_wire' \in Seq(CtlMsgs)
    BY DEF CtlInv, CtlTypes, Ctl!ServiceStart, Ctl!Ask, Ctl!Alive, Ctl!Spend, Ctl!Calling, CtlMsgs
  <2>6. loop' \in {"none", "start", "read", "assert", "dump", "end"} /\ c_exc' \in {"off", "armed", "run"}
    BY DEF CtlInv, CtlTypes, Ctl!ServiceStart, Ctl!Ask, Ctl!Alive, Ctl!Spend, Ctl!Calling
  <2>7. mctl' \in {"idle", "queued", "sent"} /\ dl' \in {"idle", "queued", "dram", "iram", "boot", "exec", "fail"}
    BY DEF CtlInv, CtlTypes, Ctl!ServiceStart, Ctl!Ask, Ctl!Alive, Ctl!Spend, Ctl!Calling
  <2>8. call' \in [CtlServices -> {"idle", "start", "stop"}]
    BY DEF CtlInv, CtlTypes, Ctl!ServiceStart, Ctl!Ask, Ctl!Alive, Ctl!Spend, Ctl!Calling
  <2> QED
    BY <2>1, <2>2, <2>3, <2>4, <2>5, <2>6, <2>7, <2>8 DEF CtlTypes
<1>2. Ctl!Unheard' <=> Ctl!Unheard
  BY DEF Ctl!ServiceStart, Ctl!Unheard
<1>3. Plugged'
  BY <1>2 DEF CtlInv, Plugged, Ctl!ServiceStart, Ctl!Ask, Ctl!Alive, Ctl!Calling
<1>4. Said'
  BY <1>2 DEF CtlInv, Said, Ctl!ServiceStart, Ctl!Ask, Ctl!Alive, Ctl!Calling
<1>5. Believed'
  BY <1>2 DEF CtlInv, Ctl!ServiceStart, Ctl!Ask, Ctl!Alive, Ctl!Calling, Believed, Heard
<1>6. Teller'
  BY <1>2 DEF CtlInv, Ctl!ServiceStart, Ctl!Ask, Ctl!Alive, Ctl!Calling, Teller, Heard
<1>7. OneCall'
  BY <1>2 DEF CtlInv, Ctl!ServiceStart, Ctl!Ask, Ctl!Alive, Ctl!Calling, OneCall
<1>8. Fresh'
  BY <1>2 DEF CtlInv, CtlTypes, Ctl!ServiceStart, Ctl!Ask, Ctl!Alive, Ctl!Calling, Fresh, Alike
<1>9. Served'
  <2> SUFFICES ASSUME Alike', Heard("up")'
               PROVE  Served'
    BY DEF Served
  <2>1. c_wire' = c_wire /\ call' = [call EXCEPT ![s] = "start"] /\ call[s] = "idle" /\ s \notin host.map /\ chip' = Ctl!Ask(s)
    BY DEF Ctl!ServiceStart
  <2>2. Alike /\ ~Ctl!Calling
    BY DEF Ctl!ServiceStart, Alike
  <2>3. chip'.fw = chip.fw /\ chip'.svc = chip.svc /\ chip'.req \subseteq chip.req \cup {s} /\ chip.req \subseteq chip'.req
    BY <2>1 DEF Ctl!Ask, CtlInv, CtlTypes, CtlChips
  <2>4. Heard("up")
    BY <1>2, <2>3 DEF Heard
  <2>5. host.data
    BY <2>4 DEF CtlInv, Plugged, Said, Heard
  <2>6. host'.done = FALSE /\ host'.map = host.map
    BY <2>5 DEF Ctl!ServiceStart, CtlInv, CtlTypes, CtlHosts
  <2>7. c_wire = <<>> /\ \A t \in CtlServices : Idles(t) /\ call[t] = "idle"
    BY <2>2, <2>4 DEF CtlInv, Served, Ctl!Calling
  <2>8. \A t \in CtlServices \ {s} : call'[t] = "idle" /\ Idles(t)'
    BY <2>1, <2>3, <2>6, <2>7 DEF Idles
  <2>9. call'[s] = "start"
    BY <2>1 DEF CtlInv, CtlTypes
  <2>10. s \in chip.svc => s # "bt"
    BY <2>1, <2>7 DEF Idles
  <2>11. Starting(s)'
    BY <2>1, <2>3, <2>6, <2>7, <2>10 DEF Starting
  <2> QED
    BY <2>8, <2>9, <2>11 DEF Served, Ctl!Calling
<1> QED
  BY <1>1, <1>3, <1>4, <1>5, <1>6, <1>7, <1>8, <1>9 DEF CtlInv

LEMMA CtlServiceStop ==
  ASSUME CtlInv, NEW s \in CtlServices, Ctl!ServiceStop(s)
  PROVE  CtlInv'
<1>1. CtlTypes'
  <2>1. chip' \in CtlChips
    <3>1. chip \in CtlChips /\ (chip' = chip \/ chip' = [chip EXCEPT !.req = @ \cup {s}])
      BY DEF CtlInv, CtlTypes, Ctl!ServiceStop, Ctl!Ask
    <3> QED
      BY <3>1 DEF CtlChips
  <2>2. host' \in CtlHosts
    BY DEF CtlInv, CtlTypes, Ctl!ServiceStop, Ctl!Ask, Ctl!Alive, Ctl!Spend, Ctl!Calling, CtlHosts
  <2>3. usb' \in CtlBuses
    BY DEF CtlInv, CtlTypes, Ctl!ServiceStop, Ctl!Ask, Ctl!Alive, Ctl!Spend, Ctl!Calling, CtlBuses
  <2>4. told' \in CtlTolds
    BY DEF CtlInv, CtlTypes, Ctl!ServiceStop, Ctl!Ask, Ctl!Alive, Ctl!Spend, Ctl!Calling, CtlTolds
  <2>5. c_wire' \in Seq(CtlMsgs)
    BY DEF CtlInv, CtlTypes, Ctl!ServiceStop, Ctl!Ask, Ctl!Alive, Ctl!Spend, Ctl!Calling, CtlMsgs
  <2>6. loop' \in {"none", "start", "read", "assert", "dump", "end"} /\ c_exc' \in {"off", "armed", "run"}
    BY DEF CtlInv, CtlTypes, Ctl!ServiceStop, Ctl!Ask, Ctl!Alive, Ctl!Spend, Ctl!Calling
  <2>7. mctl' \in {"idle", "queued", "sent"} /\ dl' \in {"idle", "queued", "dram", "iram", "boot", "exec", "fail"}
    BY DEF CtlInv, CtlTypes, Ctl!ServiceStop, Ctl!Ask, Ctl!Alive, Ctl!Spend, Ctl!Calling
  <2>8. call' \in [CtlServices -> {"idle", "start", "stop"}]
    BY DEF CtlInv, CtlTypes, Ctl!ServiceStop, Ctl!Ask, Ctl!Alive, Ctl!Spend, Ctl!Calling
  <2> QED
    BY <2>1, <2>2, <2>3, <2>4, <2>5, <2>6, <2>7, <2>8 DEF CtlTypes
<1>2. UNCHANGED <<usb, c_wire, loop, c_exc, mctl, dl, told>>
  BY DEF Ctl!ServiceStop
<1>3. Ctl!Unheard' <=> Ctl!Unheard
  BY <1>2 DEF Ctl!Unheard
<1>4. chip'.st = chip.st /\ chip'.fw = chip.fw /\ chip'.svc = chip.svc /\ (chip.fw # "up" => chip'.req = chip.req)
  BY DEF Ctl!ServiceStop, Ctl!Ask, CtlInv, CtlTypes, CtlChips
<1>5. host'.cp = host.cp /\ host'.status = host.status /\ host'.data = host.data /\ odd \subseteq odd'
      /\ ("rearmed" \in odd' => "rearmed" \in odd)
  <2>1. CASE s = "wifi" /\ host.status = "HALT"
    BY <2>1 DEF Ctl!ServiceStop, CtlInv, CtlTypes, CtlHosts
  <2>2. CASE ~(s = "wifi" /\ host.status = "HALT")
    BY <2>2 DEF Ctl!ServiceStop, CtlInv, CtlTypes, CtlHosts
  <2> QED
    BY <2>1, <2>2
<1>6. Plugged' /\ Said' /\ Believed' /\ Teller'
  <2>1. Plugged'
    BY <1>2, <1>4 DEF CtlInv, Plugged
  <2>2. Said'
    BY <1>2, <1>3, <1>4, <1>5 DEF CtlInv, Said
  <2>3. Believed'
    BY <1>2, <1>3, <1>4, <1>5 DEF CtlInv, Believed, Heard
  <2>4. Teller'
    BY <1>2, <1>3, <1>4, <1>5 DEF CtlInv, Teller, Heard
  <2> QED
    BY <2>1, <2>2, <2>3, <2>4
<1>7. CASE s = "wifi" /\ host.status = "HALT"
  <2>1. chip' = chip /\ call' = call /\ odd' = odd /\ host'.done = host.done
    BY <1>7 DEF Ctl!ServiceStop, CtlInv, CtlTypes, CtlHosts
  <2>2. OneCall' /\ Fresh'
    BY <1>2, <1>3, <2>1 DEF CtlInv, OneCall, Fresh, Alike
  <2>3. ~(Alike /\ Heard("up"))
    BY <1>7 DEF CtlInv, Believed, Alike
  <2>4. Served'
    BY <1>3, <2>1, <2>3 DEF Served, Alike, Heard
  <2> QED
    BY <1>1, <1>6, <2>2, <2>4 DEF CtlInv
<1>8. CASE ~(s = "wifi" /\ host.status = "HALT")
  <2>1. /\ call[s] = "idle" /\ call' = [call EXCEPT ![s] = "stop"] /\ s \in host.map /\ chip' = Ctl!Ask(s)
        /\ host' = [host EXCEPT !.done = IF host.data THEN FALSE ELSE @]
        /\ odd' = odd \cup (IF Ctl!Calling THEN {"crossed"} ELSE {}) \cup (IF Ctl!Unheard THEN {"unheard"} ELSE {})
    BY <1>8 DEF Ctl!ServiceStop
  <2>2. OneCall'
    <3> SUFFICES ASSUME "crossed" \notin odd', NEW t \in CtlServices, NEW u \in CtlServices, call'[t] # "idle", call'[u] # "idle"
                 PROVE  t = u
      BY DEF OneCall
    <3>1. ~Ctl!Calling
      BY <2>1
    <3>2. call \in [CtlServices -> {"idle", "start", "stop"}]
      BY DEF CtlInv, CtlTypes
    <3> QED
      BY <2>1, <3>1, <3>2 DEF Ctl!Calling
  <2>3. Alike' => ~Ctl!Calling /\ ~Ctl!Unheard /\ Alike
    BY <2>1 DEF Alike
  <2>4. Fresh'
    BY <1>3, <2>3 DEF Fresh
  <2>5. Served'
    <3> SUFFICES ASSUME Alike', Heard("up")'
                 PROVE  Served'
      BY DEF Served
    <3>1. Heard("up")
      BY <1>3, <1>4 DEF Heard
    <3>2. Ctl!Alive /\ host.data /\ chip.fw = "up"
      BY <3>1 DEF CtlInv, Plugged, Said, Heard, Ctl!Alive
    <3>3. chip' = [chip EXCEPT !.req = @ \cup {s}]
      BY <2>1, <3>2 DEF Ctl!Ask
    <3>4. chip'.req = chip.req \cup {s}
      BY <3>3 DEF CtlInv, CtlTypes, CtlChips
    <3>5. host'.done = FALSE /\ host'.map = host.map
      BY <2>1, <3>2 DEF CtlInv, CtlTypes, CtlHosts
    <3>6. c_wire = <<>> /\ \A t \in CtlServices : Idles(t) /\ call[t] = "idle"
      BY <2>3, <3>1 DEF CtlInv, Served, Ctl!Calling
    <3>7. \A t \in CtlServices \ {s} : call'[t] = "idle" /\ Idles(t)'
      BY <1>4, <2>1, <3>4, <3>5, <3>6 DEF Idles
    <3>8. call'[s] = "stop"
      BY <2>1 DEF CtlInv, CtlTypes
    <3>9. s \in chip.svc
      BY <2>1, <3>6 DEF Idles
    <3>10. Stopping(s)'
      BY <1>2, <1>4, <2>1, <3>4, <3>5, <3>6, <3>9 DEF Stopping
    <3> QED
      BY <3>7, <3>8, <3>10 DEF Served, Ctl!Calling
  <2> QED
    BY <1>1, <1>6, <2>2, <2>4, <2>5 DEF CtlInv
<1> QED
  BY <1>7, <1>8

LEMMA CtlServiceEnd ==
  ASSUME CtlInv, NEW s \in CtlServices, Ctl!ServiceEnd(s)
  PROVE  CtlInv'
<1>1. CtlTypes'
  <2>1. chip' \in CtlChips
    BY DEF CtlInv, CtlTypes, Ctl!ServiceEnd, CtlChips
  <2>2. host' \in CtlHosts
    BY DEF CtlInv, CtlTypes, Ctl!ServiceEnd, CtlHosts
  <2>3. usb' \in CtlBuses
    BY DEF CtlInv, CtlTypes, Ctl!ServiceEnd, CtlBuses
  <2>4. told' \in CtlTolds
    BY DEF CtlInv, CtlTypes, Ctl!ServiceEnd, CtlTolds
  <2>5. c_wire' \in Seq(CtlMsgs)
    BY DEF CtlInv, CtlTypes, Ctl!ServiceEnd, CtlMsgs
  <2>6. loop' \in {"none", "start", "read", "assert", "dump", "end"} /\ c_exc' \in {"off", "armed", "run"}
    BY DEF CtlInv, CtlTypes, Ctl!ServiceEnd
  <2>7. mctl' \in {"idle", "queued", "sent"} /\ dl' \in {"idle", "queued", "dram", "iram", "boot", "exec", "fail"}
    BY DEF CtlInv, CtlTypes, Ctl!ServiceEnd
  <2>8. call' \in [CtlServices -> {"idle", "start", "stop"}]
    BY DEF CtlInv, CtlTypes, Ctl!ServiceEnd
  <2> QED
    BY <2>1, <2>2, <2>3, <2>4, <2>5, <2>6, <2>7, <2>8 DEF CtlTypes
<1>2. Ctl!Unheard' <=> Ctl!Unheard
  BY DEF Ctl!ServiceEnd, Ctl!Unheard
<1>3. Plugged'
  BY <1>2 DEF CtlInv, Plugged, Ctl!ServiceEnd
<1>4. Said'
  BY <1>2 DEF CtlInv, Said, Ctl!ServiceEnd
<1>5. Believed'
  BY <1>2 DEF CtlInv, Ctl!ServiceEnd, Believed, Heard
<1>6. Teller'
  BY <1>2 DEF CtlInv, Ctl!ServiceEnd, Teller, Heard
<1>7. OneCall'
  BY <1>2 DEF CtlInv, Ctl!ServiceEnd, OneCall
<1>8. Fresh'
  BY <1>2 DEF CtlInv, Ctl!ServiceEnd, Fresh, Alike
<1>9. Served'
  <2> SUFFICES ASSUME Alike', Heard("up")'
               PROVE  Served'
    BY DEF Served
  <2>1. /\ c_wire' = c_wire /\ call' = [call EXCEPT ![s] = "idle"] /\ chip' = chip /\ call[s] # "idle"
        /\ odd \subseteq odd'
    BY DEF Ctl!ServiceEnd
  <2>2. Alike /\ (host.done \/ (call[s] # "start" /\ s # "bt"))
    BY DEF Ctl!ServiceEnd, Alike
  <2>3. Heard("up")
    BY <1>2, <2>1 DEF Heard
  <2>4. \A t \in CtlServices \ {s} : call[t] = "idle" /\ Idles(t)
    BY <2>1, <2>2, <2>3 DEF CtlInv, OneCall, Served, Alike
  <2>5. call' \in [CtlServices -> {"idle", "start", "stop"}] /\ call'[s] = "idle"
    BY <1>1, <2>1 DEF CtlTypes, CtlInv
  <2>6. host'.map = IF call[s] = "start" THEN host.map \cup {s} ELSE host.map \ {s}
    BY DEF Ctl!ServiceEnd, CtlInv, CtlTypes, CtlHosts
  <2>7. \A t \in CtlServices \ {s} : call'[t] = "idle" /\ Idles(t)'
    BY <2>1, <2>4, <2>6 DEF Idles
  <2>8. c_wire = <<>> /\ Idles(s)'
    <3>1. CASE call[s] = "start"
      <4>1. Starting(s) /\ host.done
        BY <2>2, <2>3, <3>1 DEF CtlInv, Served
      <4> QED
        BY <2>1, <2>6, <3>1, <4>1 DEF Starting, Idles
    <3>2. CASE call[s] = "stop"
      <4>1. Stopping(s)
        BY <2>2, <2>3, <3>2 DEF CtlInv, Served
      <4> QED
        BY <2>1, <2>2, <2>6, <3>2, <4>1 DEF Stopping, Idles
    <3> QED
      BY <2>1, <3>1, <3>2 DEF CtlInv, CtlTypes
  <2> QED
    BY <2>1, <2>5, <2>7, <2>8 DEF Served
<1> QED
  BY <1>1, <1>3, <1>4, <1>5, <1>6, <1>7, <1>8, <1>9 DEF CtlInv

LEMMA CtlSuspend ==
  ASSUME CtlInv, Ctl!Suspend
  PROVE  CtlInv'
<1>1. CtlTypes'
  <2>1. chip' \in CtlChips
    BY DEF CtlInv, CtlTypes, Ctl!Suspend, Ctl!Spend, CtlChips
  <2>2. host' \in CtlHosts
    BY DEF CtlInv, CtlTypes, Ctl!Suspend, Ctl!Spend, CtlHosts
  <2>3. usb' \in CtlBuses
    BY DEF CtlInv, CtlTypes, Ctl!Suspend, Ctl!Spend, CtlBuses
  <2>4. told' \in CtlTolds
    BY DEF CtlInv, CtlTypes, Ctl!Suspend, Ctl!Spend, CtlTolds
  <2>5. c_wire' \in Seq(CtlMsgs)
    BY DEF CtlInv, CtlTypes, Ctl!Suspend, Ctl!Spend, CtlMsgs
  <2>6. loop' \in {"none", "start", "read", "assert", "dump", "end"} /\ c_exc' \in {"off", "armed", "run"}
    BY DEF CtlInv, CtlTypes, Ctl!Suspend, Ctl!Spend
  <2>7. mctl' \in {"idle", "queued", "sent"} /\ dl' \in {"idle", "queued", "dram", "iram", "boot", "exec", "fail"}
    BY DEF CtlInv, CtlTypes, Ctl!Suspend, Ctl!Spend
  <2>8. call' \in [CtlServices -> {"idle", "start", "stop"}]
    BY DEF CtlInv, CtlTypes, Ctl!Suspend, Ctl!Spend
  <2> QED
    BY <2>1, <2>2, <2>3, <2>4, <2>5, <2>6, <2>7, <2>8 DEF CtlTypes
<1>2. Ctl!Unheard' <=> Ctl!Unheard
  BY DEF Ctl!Suspend, Ctl!Unheard
<1>3. Plugged'
  BY <1>2 DEF CtlInv, Plugged, Ctl!Suspend
<1>4. Said'
  BY <1>2 DEF CtlInv, CtlTypes, Said, Ctl!Suspend, CtlHosts
<1>5. Believed'
  BY <1>2 DEF CtlInv, Ctl!Suspend, Believed, Heard
<1>6. Teller'
  BY <1>2 DEF CtlInv, Ctl!Suspend, Teller, Heard
<1>7. OneCall'
  BY <1>2 DEF CtlInv, Ctl!Suspend, OneCall
<1>8. Fresh'
  BY <1>2 DEF CtlInv, CtlTypes, Ctl!Suspend, CtlHosts, Fresh, Alike
<1>9. Served'
  <2>1. c_wire' = c_wire /\ call' = call /\ odd \subseteq odd'
    BY DEF Ctl!Suspend, Ctl!Spend
  <2>2. chip'.fw = chip.fw /\ chip'.req = chip.req /\ chip'.svc = chip.svc
    BY DEF CtlInv, CtlTypes, Ctl!Suspend, Ctl!Spend, CtlChips
  <2>3. host'.map = host.map /\ host'.done = host.done
    BY DEF CtlInv, CtlTypes, Ctl!Suspend, Ctl!Spend, CtlHosts
  <2> QED
    BY <1>2, <2>1, <2>2, <2>3, ServedFrame DEF CtlInv
<1> QED
  BY <1>1, <1>3, <1>4, <1>5, <1>6, <1>7, <1>8, <1>9 DEF CtlInv

-----------------------------------------------------------------------------
LEMMA CtlStarts == Ctl!Init => CtlInv
<1> SUFFICES ASSUME Ctl!Init
             PROVE  CtlInv
  OBVIOUS
<1>1. ~Ctl!Unheard /\ ~Heard("up") /\ ~Heard("dead")
  BY DEF Ctl!Init, Ctl!Unheard, Heard
<1>2. CtlTypes
  <2>1. chip \in CtlChips /\ usb \in CtlBuses
    BY DEF Ctl!Init, CtlChips, CtlBuses
  <2>2. c_wire \in Seq(CtlMsgs) /\ told \in CtlTolds /\ call \in [CtlServices -> {"idle", "start", "stop"}]
    BY DEF Ctl!Init, CtlTolds
  <2>3. host \in CtlHosts
    BY DEF Ctl!Init, CtlHosts
  <2> QED
    BY <2>1, <2>2, <2>3 DEF Ctl!Init, CtlTypes
<1>3. Plugged
  BY DEF Ctl!Init, Plugged
<1>4. Said
  BY DEF Ctl!Init, Said
<1>5. Teller /\ Believed /\ OneCall /\ Fresh /\ Served
  BY <1>1 DEF Ctl!Init, Teller, Believed, OneCall, Fresh, Served
<1> QED
  BY <1>2, <1>3, <1>4, <1>5 DEF CtlInv

LEMMA CtlStays == CtlInv /\ UNCHANGED Ctl!vars => CtlInv'
<1> SUFFICES ASSUME CtlInv, UNCHANGED Ctl!vars
             PROVE  CtlInv'
  OBVIOUS
<1>1. Ctl!Unheard' <=> Ctl!Unheard
  BY DEF Ctl!vars, Ctl!Unheard
<1>2. CtlTypes'
  BY DEF Ctl!vars, CtlInv, CtlTypes
<1>3. Plugged' /\ OneCall'
  BY DEF Ctl!vars, CtlInv, Plugged, OneCall
<1>4. Said'
  BY <1>1 DEF Ctl!vars, CtlInv, Said
<1>5. Believed' /\ Fresh'
  BY <1>1 DEF Ctl!vars, CtlInv, Believed, Fresh, Heard, Alike
<1>6. Teller'
  BY <1>1 DEF Ctl!vars, CtlInv, Teller, Heard
<1>7. Served'
  BY <1>1, ServedFrame DEF Ctl!vars, CtlInv
<1> QED
  BY <1>2, <1>3, <1>4, <1>5, <1>6, <1>7 DEF CtlInv

LEMMA CtlStep == CtlInv /\ [Ctl!Next]_Ctl!vars => CtlInv'
<1> SUFFICES ASSUME CtlInv, [Ctl!Next]_Ctl!vars
             PROVE  CtlInv'
  OBVIOUS
<1>1. CASE Ctl!ChipUp \/ Ctl!FwSays \/ Ctl!ChipGone
  BY <1>1, CtlChipUp, CtlFwSays, CtlChipGone
<1>2. CASE Ctl!Hub
  BY <1>2, CtlProbe, CtlDisconnectRom, CtlDisconnectApp DEF Ctl!Hub
<1>3. CASE Ctl!DlStep
  BY <1>3, CtlDlStep
<1>4. CASE Ctl!Loop
  BY <1>4, CtlLoopStart, CtlLoopEnds, CtlLoopService, CtlLoopTrunk, CtlLoopAssert, CtlLoopLocked, CtlLoopDump DEF Ctl!Loop
<1>5. CASE Ctl!Recovery
  BY <1>5, CtlExcFire, CtlExcEnd, CtlMctlSend, CtlMctlArm DEF Ctl!Recovery
<1>6. CASE Ctl!ModemAssert \/ Ctl!AddDevices \/ Ctl!ServiceDone \/ Ctl!Suspend
  BY <1>6, CtlModemAssert, CtlAddDevices, CtlServiceEnd, CtlSuspend DEF Ctl!ServiceDone
<1>7. ASSUME NEW s \in CtlServices, Ctl!ServiceStart(s) \/ Ctl!ServiceStop(s)
      PROVE  CtlInv'
  BY <1>7, CtlServiceStart, CtlServiceStop
<1>8. CASE UNCHANGED Ctl!vars
  BY <1>8, CtlStays
<1> QED
  BY <1>1, <1>2, <1>3, <1>4, <1>5, <1>6, <1>7, <1>8 DEF Ctl!Next

\* When all is settled the firmware was heard.
LEMMA CtlMeans == CtlInv => CtlSound
<1> SUFFICES ASSUME CtlInv
             PROVE  CtlSound
  OBVIOUS
<1>1. Ctl!TypeOK
  BY DEF CtlInv, CtlTypes, Plugged, Ctl!TypeOK, CtlChips, CtlBuses, CtlHosts, CtlTolds, Ctl!BLOCKED
<1>2. Ctl!Settled => Heard("up") /\ ~Ctl!Calling
  <2>1. c_wire = <<>> => DOMAIN c_wire = {}
    OBVIOUS
  <2> QED
    BY <2>1 DEF Ctl!Settled, Heard, Ctl!Unheard
<1>3. Ctl!ServicesHonest
  <2> SUFFICES ASSUME Ctl!Settled, Alike
               PROVE  host.map = chip.svc
    BY DEF Ctl!ServicesHonest, Alike
  <2>1. \A s \in CtlServices : call[s] = "idle"
    BY <1>2 DEF Ctl!Calling
  <2>2. \A s \in CtlServices : Idles(s)
    BY <1>2, <2>1 DEF CtlInv, Served
  <2>3. chip.req = {}
    BY DEF Ctl!Settled
  <2>4. \A s \in CtlServices : s \in host.map <=> s \in chip.svc
    BY <2>2, <2>3 DEF Idles
  <2>5. host.map \subseteq CtlServices /\ chip.svc \subseteq CtlServices
    BY DEF CtlInv, CtlTypes, CtlChips, CtlHosts
  <2> QED
    BY <2>4, <2>5
<1>4. Ctl!ToldOnce
  BY DEF CtlInv, Teller, Ctl!ToldOnce
<1>5. Ctl!OnWhenUp
  BY <1>2 DEF CtlInv, Believed, Ctl!OnWhenUp
<1> QED
  BY <1>1, <1>3, <1>4, <1>5 DEF CtlSound, Ctl!CtlSound

\* For every load, over USB the drivers are told the truth: which services run, of each crash once, and
\* that a firmware that was heard is on (skw_usb_io.c).
THEOREM CtlIsSound == Ctl!Spec => []CtlSound
<1>1. Ctl!Init => CtlInv
  BY CtlStarts
<1>2. CtlInv /\ [Ctl!Next]_Ctl!vars => CtlInv'
  BY CtlStep
<1>3. CtlInv => CtlSound
  BY CtlMeans
<1> QED
  BY <1>1, <1>2, <1>3, PTL DEF Ctl!Spec

-----------------------------------------------------------------------------
(* The eDMA rings. *)

EdmaEvs == [dev : 0 .. EdmaN - 1, given : Nat, data : [0 .. EdmaN - 1 -> Nat], irq : Nat, cur : 0 .. EdmaN - 1, cnt : Nat,
            left : Nat, count : Nat, seen : Seq(Nat), sent : Nat]
EdmaRxs(q) == [avail : SUBSET Nat, num : Nat, pend : Seq(Nat), posted : Seq(Nat), ring : Seq(Seq(Nat)), given : Nat, next : Nat,
               cnt : 0 .. EdmaN - 1, tail : 0 .. EdmaN - 1, pc : {"idle", "poll", "end"}, quota : Nat, count : Nat, q : {q},
               lost : SUBSET Nat, refill : BOOLEAN]
EdmaTxs == [list : SUBSET Nat, dev : SUBSET Nat, ring : Seq(SUBSET Nat), hold : SUBSET Nat, pc : {"idle", "free", "back"},
            freed : SUBSET Nat, next : Nat]

\* The nodes of the event ring are with the device, announced, or still to be given back.
EvNodes ==
  /\ ev.given + ev.irq + ev.cnt = EdmaN
  /\ "early" \in e_odd \/ ev.left <= ev.cnt

\* Event i is in node (i - 1) % N until it is seen.
EvOrder ==
  \/ "early" \in e_odd
  \/ /\ \A i \in DOMAIN ev.seen : ev.seen[i] = i
     /\ \/ "held" \in e_odd
        \/ /\ ev.dev = ev.sent % EdmaN /\ ev.cur = Len(ev.seen) % EdmaN
           /\ ev.sent = Len(ev.seen) + ev.irq + ev.left
           /\ \A i \in Len(ev.seen) + 1 .. ev.sent : ev.data[(i - 1) % EdmaN] = i

\* Every buffer is in one place: posted, in a done node, or not submitted yet.
Simple(s) == \A i, j \in DOMAIN s : s[i] = s[j] => i = j
Apart(s, t) == \A i \in DOMAIN s, j \in DOMAIN t : s[i] # t[j]
Below(s, n) == \A i \in DOMAIN s : s[i] < n
InPlace(posted, pend, ring, next) ==
  /\ Simple(posted) /\ Simple(pend) /\ Apart(posted, pend) /\ Below(posted, next) /\ Below(pend, next)
  /\ \A i \in DOMAIN ring : Simple(ring[i]) /\ Apart(ring[i], posted) /\ Apart(ring[i], pend) /\ Below(ring[i], next)
  /\ \A i, j \in DOMAIN ring : i # j => Apart(ring[i], ring[j])
OutAt(posted, ring) == Edma!ToSet(posted) \cup UNION {Edma!ToSet(ring[i]) : i \in DOMAIN ring}
Held(posted, pend, ring, next, avail, num) ==
  /\ InPlace(posted, pend, ring, next)
  /\ IsFiniteSet(OutAt(posted, ring)) /\ num = Cardinality(OutAt(posted, ring))
  /\ avail = OutAt(posted, ring) \cup Edma!ToSet(pend)
RxHeld == Held(e_rx.posted, e_rx.pend, e_rx.ring, e_rx.next, e_rx.avail, e_rx.num) /\ e_rx.num <= Edma!Total
RxNodes == e_rx.given + Len(e_rx.ring) + e_rx.cnt = EdmaN
RxOdd == (e_rx.pend # <<>> => "behind" \in e_odd) /\ (e_rx.lost # {} => "leaked" \in e_odd)

\* Every frame that the device has is on one list.
TxPlaces ==
  /\ e_tx.list \cap e_tx.hold = {} /\ (e_tx.pc = "idle" => e_tx.hold = {})
  /\ e_tx.pc = "free" => e_tx.ring # <<>> /\ e_tx.ring[1] \subseteq e_tx.hold
  /\ e_tx.dev \subseteq e_tx.list \cup e_tx.hold
  /\ \A i \in DOMAIN e_tx.ring : e_tx.ring[i] \subseteq e_tx.list \cup e_tx.hold /\ e_tx.ring[i] \cap e_tx.dev = {}
  /\ \A i, j \in DOMAIN e_tx.ring : i # j => e_tx.ring[i] \cap e_tx.ring[j] = {}
  /\ e_tx.freed \cap (e_tx.list \cup e_tx.hold) = {}
  /\ \A f \in e_tx.list \cup e_tx.hold \cup e_tx.freed : f < e_tx.next
  /\ e_odd \cap {"unlinked", "lied"} = {}

EvInv == ev \in EdmaEvs /\ EvNodes /\ EvOrder
RxInv == e_rx \in EdmaRxs(e_rx.q) /\ RxHeld /\ RxNodes /\ RxOdd
TxInv == e_tx \in EdmaTxs /\ TxPlaces
EdmaInv == EvInv /\ RxInv /\ TxInv

-----------------------------------------------------------------------------
\* Division.
LEMMA ModRange ==
  ASSUME NEW n \in Nat \ {0}, NEW a \in Nat
  PROVE  a % n \in 0 .. n - 1 /\ a \div n \in Nat /\ a % n = a - (a \div n) * n
<1>1. a % n \in 0 .. n - 1
  OBVIOUS
<1>2. a \div n \in Nat
  OBVIOUS
<1>3. a % n = a - (a \div n) * n
  OBVIOUS
<1> QED
  BY <1>1, <1>2, <1>3

LEMMA ModUnique ==
  ASSUME NEW n \in Nat \ {0}, NEW m \in Nat, NEW r \in 0 .. n - 1
  PROVE  (r + m * n) % n = r /\ (r + m * n) \div n = m
<1>1. (r + m * n) \div n = m
  OBVIOUS
<1>2. (m * n + r) % n = r
  OBVIOUS
<1>3. m * n \in Nat /\ m * n + r = r + m * n
  OBVIOUS
<1> QED
  BY <1>1, <1>2, <1>3

LEMMA ModSucc ==
  ASSUME NEW n \in Nat \ {0}, NEW a \in Nat
  PROVE  (a + 1) % n = ((a % n) + 1) % n
<1> DEFINE r == a % n
           q == a \div n
<1>1. r \in 0 .. n - 1 /\ q \in Nat /\ r = a - q * n
  BY ModRange
<1>2. q * n \in Nat /\ (q + 1) * n = q * n + n
  BY <1>1
<1> HIDE DEF r, q
<1>3. a = r + q * n
  BY <1>1, <1>2
<1>4. CASE r + 1 = n
  <2>1. a + 1 = 0 + (q + 1) * n
    <3>1. PICK w \in Nat : w = q * n /\ (q + 1) * n = w + n
      BY <1>2
    <3>2. a = r + w /\ r \in Int /\ n \in Int
      BY <1>1, <1>3, <3>1
    <3>3. a + 1 = 0 + (w + n)
      BY <1>4, <3>1, <3>2
    <3> QED
      BY <3>1, <3>3
  <2>2. (0 + (q + 1) * n) % n = 0
    BY <1>1, ModUnique
  <2>3. (0 + 1 * n) % n = 0
    BY ModUnique
  <2>4. 0 + 1 * n = r + 1
    BY <1>4
  <2>5. (a + 1) % n = 0
    BY <2>1, <2>2
  <2>6. (r + 1) % n = 0
    BY <2>3, <2>4
  <2> QED
    BY <2>5, <2>6 DEF r
<1>5. CASE r + 1 # n
  <2>1. r + 1 \in 0 .. n - 1
    BY <1>1, <1>5
  <2>2. ((r + 1) + q * n) % n = r + 1
    BY <1>1, <2>1, ModUnique
  <2>3. ((r + 1) + 0 * n) % n = r + 1
    BY <2>1, ModUnique
  <2>4. (r + 1) + q * n = a + 1 /\ (r + 1) + 0 * n = r + 1
    BY <1>1, <1>2, <1>3
  <2>5. (a + 1) % n = r + 1
    BY <2>2, <2>4
  <2>6. (r + 1) % n = r + 1
    BY <2>3, <2>4
  <2> QED
    BY <2>5, <2>6 DEF r
<1> QED
  BY <1>4, <1>5

LEMMA ModDistinct ==
  ASSUME NEW n \in Nat \ {0}, NEW a \in Nat, NEW b \in Nat, a < b, b < a + n
  PROVE  a % n # b % n
<1> SUFFICES ASSUME a % n = b % n PROVE FALSE
  OBVIOUS
<1> DEFINE p == a \div n
           q == b \div n
<1>1. p \in Nat /\ q \in Nat /\ a % n = a - p * n /\ b % n = b - q * n
  BY ModRange
<1> HIDE DEF p, q
<1>2. p * n \in Nat /\ q * n \in Nat
  BY <1>1
<1>3. b - a = q * n - p * n
  BY <1>1, <1>2
<1>4. CASE q <= p
  <2>1. q * n <= p * n
    BY <1>1, <1>4
  <2> QED
    BY <1>2, <1>3, <2>1
<1>5. CASE p + 1 <= q
  <2>1. (p + 1) * n <= q * n
    BY <1>1, <1>5
  <2>2. (p + 1) * n = p * n + n
    BY <1>1
  <2> QED
    BY <1>2, <1>3, <2>1, <2>2
<1> QED
  BY <1>1, <1>4, <1>5

LEMMA DivLow ==
  ASSUME NEW n \in Nat \ {0}, NEW a \in Nat
  PROVE  (a \div n) * n \in Nat /\ (a \div n) * n <= a
<1>1. a % n \in 0 .. n - 1 /\ a \div n \in Nat /\ a % n = a - (a \div n) * n
  BY ModRange
<1>2. (a \div n) * n \in Nat
  BY <1>1
<1> QED
  BY <1>1, <1>2

-----------------------------------------------------------------------------
\* Sequences of buffers.
LEMMA NoBuffers == <<>> \in Seq(Nat) /\ Len(<<>>) = 0 /\ DOMAIN <<>> = {}
  OBVIOUS

LEMMA JoinSeq ==
  ASSUME NEW s \in Seq(Nat), NEW t \in Seq(Nat)
  PROVE  /\ s \o t \in Seq(Nat) /\ Len(s) \in Nat /\ Len(t) \in Nat
         /\ DOMAIN (s \o t) = 1 .. Len(s) + Len(t) /\ DOMAIN s = 1 .. Len(s) /\ DOMAIN t = 1 .. Len(t)
         /\ \A i \in 1 .. Len(s) : (s \o t)[i] = s[i]
         /\ \A i \in 1 .. Len(s) + Len(t) : i \notin 1 .. Len(s) => i - Len(s) \in 1 .. Len(t) /\ (s \o t)[i] = t[i - Len(s)]
         /\ \A i \in 1 .. Len(t) : (s \o t)[Len(s) + i] = t[i] /\ Len(s) + i \in 1 .. Len(s) + Len(t)
  OBVIOUS

LEMMA CutSeq ==
  ASSUME NEW s \in Seq(Nat), NEW k \in 0 .. Len(s)
  PROVE  /\ SubSeq(s, 1, k) \in Seq(Nat) /\ SubSeq(s, k + 1, Len(s)) \in Seq(Nat) /\ Len(s) \in Nat
         /\ DOMAIN SubSeq(s, 1, k) = 1 .. k /\ DOMAIN SubSeq(s, k + 1, Len(s)) = 1 .. Len(s) - k /\ DOMAIN s = 1 .. Len(s)
         /\ Len(SubSeq(s, 1, k)) = k /\ Len(SubSeq(s, k + 1, Len(s))) = Len(s) - k
         /\ \A i \in 1 .. k : SubSeq(s, 1, k)[i] = s[i]
         /\ \A i \in 1 .. Len(s) - k : SubSeq(s, k + 1, Len(s))[i] = s[k + i]
<1>1. SubSeq(s, 1, k) \in Seq(Nat) /\ SubSeq(s, k + 1, Len(s)) \in Seq(Nat)
  OBVIOUS
<1>2. Len(SubSeq(s, 1, k)) = k /\ Len(SubSeq(s, k + 1, Len(s))) = Len(s) - k
  OBVIOUS
<1>3. \A i \in 1 .. k : SubSeq(s, 1, k)[i] = s[i]
  OBVIOUS
<1>4. \A i \in 1 .. Len(s) - k : SubSeq(s, k + 1, Len(s))[i] = s[k + i]
  OBVIOUS
<1> QED
  BY <1>1, <1>2, <1>3, <1>4

\* A part of a sequence has the sequence's values, at other places.
Part(a, s) == \E f \in [DOMAIN a -> DOMAIN s] : (\A i \in DOMAIN a : a[i] = s[f[i]]) /\ (\A i, j \in DOMAIN a : f[i] = f[j] => i = j)

LEMMA PartSimple ==
  ASSUME NEW a, NEW s, Part(a, s), Simple(s)
  PROVE  Simple(a)
  BY DEF Part, Simple

LEMMA PartApart ==
  ASSUME NEW a, NEW s, NEW t, Part(a, s), Apart(s, t)
  PROVE  Apart(a, t) /\ Apart(t, a)
  BY DEF Part, Apart

LEMMA PartBelow ==
  ASSUME NEW a, NEW s, NEW n, Part(a, s), Below(s, n)
  PROVE  Below(a, n)
  BY DEF Part, Below

LEMMA ApartBack == ASSUME NEW s, NEW t, Apart(s, t) PROVE Apart(t, s)
  BY DEF Apart

LEMMA CutParts ==
  ASSUME NEW s \in Seq(Nat), NEW k \in 0 .. Len(s)
  PROVE  /\ Part(SubSeq(s, 1, k), s) /\ Part(SubSeq(s, k + 1, Len(s)), s)
         /\ Edma!ToSet(s) = Edma!ToSet(SubSeq(s, 1, k)) \cup Edma!ToSet(SubSeq(s, k + 1, Len(s)))
         /\ Simple(s) => Apart(SubSeq(s, 1, k), SubSeq(s, k + 1, Len(s)))
<1> DEFINE a == SubSeq(s, 1, k)
           b == SubSeq(s, k + 1, Len(s))
           n == Len(s)
<1>1. /\ DOMAIN a = 1 .. k /\ DOMAIN b = 1 .. n - k /\ DOMAIN s = 1 .. n /\ n \in Nat /\ k \in 0 .. n
      /\ \A i \in 1 .. k : a[i] = s[i]
      /\ \A i \in 1 .. n - k : b[i] = s[k + i]
  BY CutSeq
<1> HIDE DEF a, b, n
<1>2. Part(a, s)
  <2> DEFINE f == [i \in 1 .. k |-> i]
  <2>1. f \in [DOMAIN a -> DOMAIN s]
    BY <1>1
  <2>2. (\A i \in DOMAIN a : a[i] = s[f[i]]) /\ (\A i, j \in DOMAIN a : f[i] = f[j] => i = j)
    BY <1>1
  <2> HIDE DEF f
  <2> QED
    BY <2>1, <2>2 DEF Part
<1>3. Part(b, s)
  <2> DEFINE f == [i \in 1 .. n - k |-> k + i]
  <2>1. f \in [DOMAIN b -> DOMAIN s]
    BY <1>1
  <2>2. (\A i \in DOMAIN b : b[i] = s[f[i]]) /\ (\A i, j \in DOMAIN b : f[i] = f[j] => i = j)
    BY <1>1
  <2> HIDE DEF f
  <2> QED
    BY <2>1, <2>2 DEF Part
<1>4. Edma!ToSet(s) = Edma!ToSet(a) \cup Edma!ToSet(b)
  <2>1. ASSUME NEW i \in 1 .. n PROVE s[i] \in Edma!ToSet(a) \cup Edma!ToSet(b)
    <3>1. CASE i <= k
      <4>1. i \in 1 .. k /\ a[i] = s[i]
        BY <1>1, <3>1
      <4> QED
        BY <1>1, <4>1 DEF Edma!ToSet
    <3>2. CASE i > k
      <4>1. i - k \in 1 .. n - k /\ k + (i - k) = i
        BY <1>1, <3>2
      <4>2. b[i - k] = s[i]
        BY <1>1, <4>1
      <4> QED
        BY <1>1, <4>1, <4>2 DEF Edma!ToSet
    <3> QED
      BY <1>1, <3>1, <3>2
  <2>2. \A i \in 1 .. k : a[i] \in Edma!ToSet(s)
    <3> SUFFICES ASSUME NEW i \in 1 .. k PROVE a[i] \in Edma!ToSet(s)
      OBVIOUS
    <3>1. i \in DOMAIN s /\ a[i] = s[i]
      BY <1>1
    <3> QED
      BY <3>1 DEF Edma!ToSet
  <2>3. \A i \in 1 .. n - k : b[i] \in Edma!ToSet(s)
    <3> SUFFICES ASSUME NEW i \in 1 .. n - k PROVE b[i] \in Edma!ToSet(s)
      OBVIOUS
    <3>1. k + i \in DOMAIN s /\ b[i] = s[k + i]
      BY <1>1
    <3> QED
      BY <3>1 DEF Edma!ToSet
  <2> QED
    BY <1>1, <2>1, <2>2, <2>3 DEF Edma!ToSet
<1>5. ASSUME Simple(s) PROVE Apart(a, b)
  <2> SUFFICES ASSUME NEW i \in 1 .. k, NEW j \in 1 .. n - k, a[i] = b[j] PROVE FALSE
    BY <1>1 DEF Apart
  <2>1. i \in DOMAIN s /\ k + j \in DOMAIN s /\ s[i] = s[k + j] /\ i # k + j
    BY <1>1
  <2> QED
    BY <1>5, <2>1 DEF Simple
<1> QED
  BY <1>2, <1>3, <1>4, <1>5 DEF a, b, n

LEMMA JoinParts ==
  ASSUME NEW s \in Seq(Nat), NEW t \in Seq(Nat)
  PROVE  /\ Edma!ToSet(s \o t) = Edma!ToSet(s) \cup Edma!ToSet(t)
         /\ Simple(s) /\ Simple(t) /\ Apart(s, t) => Simple(s \o t)
         /\ \A u : Apart(s, u) /\ Apart(t, u) => Apart(s \o t, u) /\ Apart(u, s \o t)
         /\ \A n : Below(s, n) /\ Below(t, n) => Below(s \o t, n)
<1> DEFINE z == s \o t
           m == Len(s)
           n == Len(t)
<1>1. /\ m \in Nat /\ n \in Nat /\ DOMAIN z = 1 .. m + n /\ DOMAIN s = 1 .. m /\ DOMAIN t = 1 .. n
      /\ \A i \in 1 .. m : z[i] = s[i]
      /\ \A i \in 1 .. m + n : i \notin 1 .. m => i - m \in 1 .. n /\ z[i] = t[i - m]
      /\ \A i \in 1 .. n : z[m + i] = t[i] /\ m + i \in 1 .. m + n
  BY JoinSeq
<1> HIDE DEF z, m, n
<1>2. Edma!ToSet(z) = Edma!ToSet(s) \cup Edma!ToSet(t)
  <2>1. \A i \in DOMAIN z : z[i] \in Edma!ToSet(s) \cup Edma!ToSet(t)
    BY <1>1 DEF Edma!ToSet
  <2>2. \A i \in DOMAIN s : s[i] \in Edma!ToSet(z)
    <3> SUFFICES ASSUME NEW i \in 1 .. m PROVE s[i] \in Edma!ToSet(z)
      BY <1>1
    <3>1. i \in DOMAIN z /\ z[i] = s[i]
      BY <1>1
    <3> QED
      BY <3>1 DEF Edma!ToSet
  <2>3. \A i \in DOMAIN t : t[i] \in Edma!ToSet(z)
    <3> SUFFICES ASSUME NEW i \in 1 .. n PROVE t[i] \in Edma!ToSet(z)
      BY <1>1
    <3>1. m + i \in DOMAIN z /\ z[m + i] = t[i]
      BY <1>1
    <3> QED
      BY <3>1 DEF Edma!ToSet
  <2> QED
    BY <2>1, <2>2, <2>3 DEF Edma!ToSet
<1>3. ASSUME Simple(s), Simple(t), Apart(s, t) PROVE Simple(z)
  <2> SUFFICES ASSUME NEW i \in 1 .. m + n, NEW j \in 1 .. m + n, z[i] = z[j] PROVE i = j
    BY <1>1 DEF Simple
  <2>1. CASE i \in 1 .. m /\ j \in 1 .. m
    BY <1>1, <1>3, <2>1 DEF Simple
  <2>2. CASE i \in 1 .. m /\ j \notin 1 .. m
    <3>1. i \in DOMAIN s /\ j - m \in DOMAIN t /\ s[i] = t[j - m]
      BY <1>1, <2>2
    <3> QED
      BY <1>3, <3>1 DEF Apart
  <2>3. CASE i \notin 1 .. m /\ j \in 1 .. m
    <3>1. j \in DOMAIN s /\ i - m \in DOMAIN t /\ s[j] = t[i - m]
      BY <1>1, <2>3
    <3> QED
      BY <1>3, <3>1 DEF Apart
  <2>4. CASE i \notin 1 .. m /\ j \notin 1 .. m
    <3>1. i - m \in DOMAIN t /\ j - m \in DOMAIN t /\ t[i - m] = t[j - m]
      BY <1>1, <2>4
    <3>2. i - m = j - m
      BY <1>3, <3>1 DEF Simple
    <3> QED
      BY <1>1, <3>2
  <2> QED
    BY <2>1, <2>2, <2>3, <2>4
<1>4. ASSUME NEW u, Apart(s, u), Apart(t, u) PROVE Apart(z, u) /\ Apart(u, z)
  <2>1. ASSUME NEW i \in DOMAIN z, NEW j \in DOMAIN u PROVE z[i] # u[j]
    <3>1. \/ i \in DOMAIN s /\ z[i] = s[i]
          \/ i - m \in DOMAIN t /\ z[i] = t[i - m]
      BY <1>1
    <3> QED
      BY <1>4, <3>1 DEF Apart
  <2> QED
    BY <2>1 DEF Apart
<1>5. ASSUME NEW k, Below(s, k), Below(t, k) PROVE Below(z, k)
  <2>1. ASSUME NEW i \in DOMAIN z PROVE z[i] < k
    <3>1. \/ i \in DOMAIN s /\ z[i] = s[i]
          \/ i - m \in DOMAIN t /\ z[i] = t[i - m]
      BY <1>1
    <3> QED
      BY <1>5, <3>1 DEF Below
  <2> QED
    BY <2>1 DEF Below
<1> QED
  BY <1>2, <1>3, <1>4, <1>5 DEF z

\* As many buffers as places.
LEMMA SimpleCount ==
  ASSUME NEW s \in Seq(Nat), Simple(s)
  PROVE  IsFiniteSet(Edma!ToSet(s)) /\ Cardinality(Edma!ToSet(s)) = Len(s)
<1>1. DOMAIN s = 1 .. Len(s) /\ Len(s) \in Nat
  OBVIOUS
<1>2. s \in Bijection(1 .. Len(s), Edma!ToSet(s))
  BY <1>1 DEF Simple, Edma!ToSet, Bijection, Injection, Surjection, IsInjective
<1>3. ExistsBijection(1 .. Len(s), Edma!ToSet(s))
  BY <1>2 DEF ExistsBijection
<1>4. IsFiniteSet(Edma!ToSet(s)) /\ Cardinality(Edma!ToSet(s)) = Len(s)
  BY <1>1, <1>3, FS_CountingElements, FS_NatBijection
<1> QED
  BY <1>4

-----------------------------------------------------------------------------
\* What a step leaves alone.
LEMMA EvFrame ==
  ASSUME EvInv, ev' = ev, e_odd \subseteq e_odd'
  PROVE  EvInv'
<1>1. EvNodes' /\ ev' \in EdmaEvs
  BY DEF EvInv, EvNodes
<1>2. EvOrder'
  BY DEF EvInv, EvOrder
<1> QED
  BY <1>1, <1>2 DEF EvInv

LEMMA RxFrame ==
  ASSUME RxInv, e_rx' = e_rx, e_odd \subseteq e_odd'
  PROVE  RxInv'
<1>1. e_rx' \in EdmaRxs(e_rx'.q) /\ RxNodes' /\ RxHeld'
  BY DEF RxInv, RxHeld, RxNodes, Edma!Total
<1>2. RxOdd'
  BY DEF RxInv, RxOdd
<1> QED
  BY <1>1, <1>2 DEF RxInv

LEMMA TxFrame ==
  ASSUME TxInv, e_tx' = e_tx, e_odd' \cap {"unlinked", "lied"} = {}
  PROVE  TxInv'
  BY DEF TxInv, TxPlaces

LEMMA TxClean == TxInv => e_odd \cap {"unlinked", "lied"} = {}
  BY DEF TxInv, TxPlaces

-----------------------------------------------------------------------------
\* Events.
LEMMA DevEventDoes ==
  ASSUME EvInv, Edma!DevEvent
  PROVE  /\ ev' \in EdmaEvs /\ ev.given > 0
         /\ ev'.dev = (ev.dev + 1) % EdmaN /\ ev'.given = ev.given - 1 /\ ev'.irq = ev.irq + 1 /\ ev'.sent = ev.sent + 1
         /\ ev'.data = [ev.data EXCEPT ![ev.dev] = ev.sent + 1]
         /\ ev'.cur = ev.cur /\ ev'.cnt = ev.cnt /\ ev'.left = ev.left /\ ev'.seen = ev.seen
<1>1. ev \in EdmaEvs /\ ev.given > 0
  BY DEF EvInv, Edma!DevEvent
<1>2. ev' = [ev EXCEPT !.dev = (@ + 1) % EdmaN, !.given = @ - 1, !.irq = @ + 1, !.sent = @ + 1, !.data[ev.dev] = ev.sent + 1]
  BY DEF Edma!DevEvent
<1>3. ev' = [dev |-> ev'.dev, given |-> ev'.given, data |-> ev'.data, irq |-> ev'.irq, cur |-> ev'.cur, cnt |-> ev'.cnt,
             left |-> ev'.left, count |-> ev'.count, seen |-> ev'.seen, sent |-> ev'.sent]
  BY <1>1, <1>2 DEF EdmaEvs
<1>4. /\ ev'.dev = (ev.dev + 1) % EdmaN /\ ev'.given = ev.given - 1 /\ ev'.irq = ev.irq + 1 /\ ev'.sent = ev.sent + 1
      /\ ev'.data = [ev.data EXCEPT ![ev.dev] = ev.sent + 1]
      /\ ev'.cur = ev.cur /\ ev'.cnt = ev.cnt /\ ev'.left = ev.left /\ ev'.count = ev.count /\ ev'.seen = ev.seen
  BY <1>1, <1>2 DEF EdmaEvs
<1>5. /\ ev.dev \in 0 .. EdmaN - 1 /\ ev.given \in Nat /\ ev.data \in [0 .. EdmaN - 1 -> Nat] /\ ev.irq \in Nat /\ ev.cur \in 0 .. EdmaN - 1
      /\ ev.cnt \in Nat /\ ev.left \in Nat /\ ev.count \in Nat /\ ev.seen \in Seq(Nat) /\ ev.sent \in Nat
  BY <1>1 DEF EdmaEvs
<1>6. EdmaN \in Nat \ {0} /\ ev.dev + 1 \in Nat
  BY <1>5, EdmaAssumption
<1>7. ev'.dev \in 0 .. EdmaN - 1
  BY <1>4, <1>6, ModRange
<1>8. ev'.data \in [0 .. EdmaN - 1 -> Nat]
  <2>1. ev'.data = [ev.data EXCEPT ![ev.dev] = ev.sent + 1]
    BY <1>4
  <2>2. ev.sent + 1 \in Nat /\ ev.data \in [0 .. EdmaN - 1 -> Nat]
    BY <1>5
  <2> QED
    BY <2>1, <2>2
<1>9. ev'.given \in Nat /\ ev'.irq \in Nat /\ ev'.sent \in Nat
  <2>1. ev'.given = ev.given - 1 /\ ev'.irq = ev.irq + 1 /\ ev'.sent = ev.sent + 1
    BY <1>4
  <2>2. ev.given \in Nat /\ ev.irq \in Nat /\ ev.sent \in Nat
    BY <1>5
  <2> QED
    BY <1>1, <2>1, <2>2
<1>10. ev' \in EdmaEvs
  BY <1>3, <1>4, <1>5, <1>7, <1>8, <1>9 DEF EdmaEvs
<1> QED
  BY <1>1, <1>4, <1>10

\* The record of the event ring has fields of their types.
LEMMA EvFields ==
  ASSUME EvInv
  PROVE  /\ ev.dev \in 0 .. EdmaN - 1 /\ ev.given \in Nat /\ ev.data \in [0 .. EdmaN - 1 -> Nat] /\ ev.irq \in Nat /\ ev.cur \in 0 .. EdmaN - 1
         /\ ev.cnt \in Nat /\ ev.left \in Nat /\ ev.count \in Nat /\ ev.seen \in Seq(Nat) /\ ev.sent \in Nat
         /\ Len(ev.seen) \in Nat /\ DOMAIN ev.seen = 1 .. Len(ev.seen) /\ EdmaN \in Nat \ {0}
<1>1. ev \in EdmaEvs /\ EdmaN \in Nat \ {0}
  BY EdmaAssumption DEF EvInv
<1>2. /\ ev.dev \in 0 .. EdmaN - 1 /\ ev.given \in Nat /\ ev.data \in [0 .. EdmaN - 1 -> Nat] /\ ev.irq \in Nat /\ ev.cur \in 0 .. EdmaN - 1
      /\ ev.cnt \in Nat /\ ev.left \in Nat /\ ev.count \in Nat /\ ev.seen \in Seq(Nat) /\ ev.sent \in Nat
  BY <1>1 DEF EdmaEvs
<1>3. Len(ev.seen) \in Nat /\ DOMAIN ev.seen = 1 .. Len(ev.seen)
  BY <1>2
<1> QED
  BY <1>1, <1>2, <1>3

LEMMA DevEventStep ==
  ASSUME EvInv, Edma!DevEvent
  PROVE  EvInv'
<1>1. /\ ev \in EdmaEvs /\ ev' \in EdmaEvs /\ ev.given > 0 /\ e_odd' = e_odd
      /\ ev'.dev = (ev.dev + 1) % EdmaN /\ ev'.given = ev.given - 1 /\ ev'.irq = ev.irq + 1 /\ ev'.sent = ev.sent + 1
      /\ ev'.data = [ev.data EXCEPT ![ev.dev] = ev.sent + 1]
      /\ ev'.cur = ev.cur /\ ev'.cnt = ev.cnt /\ ev'.left = ev.left /\ ev'.seen = ev.seen
  BY DevEventDoes DEF EvInv, Edma!DevEvent
<1>2. /\ ev.given \in Nat /\ ev.irq \in Nat /\ ev.cnt \in Nat /\ ev.left \in Nat /\ ev.sent \in Nat /\ Len(ev.seen) \in Nat /\ EdmaN \in Nat \ {0}
  BY EvFields
<1>3. EvNodes'
  <2>1. ev.given + ev.irq + ev.cnt = EdmaN /\ ("early" \in e_odd \/ ev.left <= ev.cnt)
    BY DEF EvInv, EvNodes
  <2>2. ev'.given = ev.given - 1 /\ ev'.irq = ev.irq + 1 /\ ev'.cnt = ev.cnt /\ ev'.left = ev.left /\ e_odd' = e_odd
    BY <1>1
  <2>3. ev'.given + ev'.irq + ev'.cnt = EdmaN
    BY <1>2, <2>1, <2>2
  <2> QED
    BY <2>1, <2>2, <2>3 DEF EvNodes
<1>4. EvOrder'
  <2>1. CASE "early" \in e_odd \/ "held" \in e_odd
    BY <1>1, <2>1 DEF EvInv, EvOrder
  <2>2. CASE "early" \notin e_odd /\ "held" \notin e_odd
    <3>1. /\ \A i \in DOMAIN ev.seen : ev.seen[i] = i
          /\ ev.dev = ev.sent % EdmaN /\ ev.cur = Len(ev.seen) % EdmaN
          /\ ev.sent = Len(ev.seen) + ev.irq + ev.left
          /\ \A i \in Len(ev.seen) + 1 .. ev.sent : ev.data[(i - 1) % EdmaN] = i
      BY <2>2 DEF EvInv, EvOrder
    <3>2. ev'.dev = (ev.sent + 1) % EdmaN
      <4>1. ev'.dev = (ev.dev + 1) % EdmaN /\ ev.dev = ev.sent % EdmaN
        BY <1>1, <3>1
      <4> QED
        BY <1>2, <4>1, ModSucc
    <3>3. ev.left <= ev.cnt /\ ev.given + ev.irq + ev.cnt = EdmaN /\ ev.given > 0
      BY <2>2, <1>1 DEF EvInv, EvNodes
    <3> DEFINE n == Len(ev.seen)
               t == ev.sent
               d == ev.data
    <3>4. n \in Nat /\ t \in Nat /\ t = n + ev.irq + ev.left /\ d \in [0 .. EdmaN - 1 -> Nat] /\ \A i \in n + 1 .. t : d[(i - 1) % EdmaN] = i
      BY <1>2, <3>1, EvFields
    <3>5. ev'.data = [d EXCEPT ![t % EdmaN] = t + 1] /\ ev'.sent = t + 1 /\ ev'.seen = ev.seen /\ ev'.cur = ev.cur /\ ev.cur = n % EdmaN
      BY <1>1, <3>1
    <3> HIDE DEF n, t, d
    <3>10. n \in Nat /\ t \in Nat /\ t = n + ev.irq + ev.left
      BY <3>4
    <3>6. t < n + EdmaN
      BY <1>2, <3>3, <3>10
    <3>7. ASSUME NEW i \in n + 1 .. t + 1 PROVE ev'.data[(i - 1) % EdmaN] = i
      <4>1. i - 1 \in Nat
        BY <3>4
      <4>2. (i - 1) % EdmaN \in 0 .. EdmaN - 1
        BY <1>2, <4>1, ModRange
      <4>3. CASE i = t + 1
        <5>1. i - 1 = t
          BY <3>4, <4>3
        <5>2. (i - 1) % EdmaN = t % EdmaN
          BY <5>1
        <5>3. d[t % EdmaN] \in Nat /\ t % EdmaN \in DOMAIN d
          BY <3>4, <4>2, <5>2
        <5> QED
          BY <3>5, <4>3, <5>2, <5>3
      <4>4. CASE i # t + 1
        <5>1. i - 1 < t /\ t < (i - 1) + EdmaN /\ i \in n + 1 .. t
          BY <1>2, <3>10, <3>6, <4>4
        <5>2. (i - 1) % EdmaN # t % EdmaN
          BY <1>2, <3>4, <4>1, <5>1, ModDistinct
        <5>3. ev'.data[(i - 1) % EdmaN] = d[(i - 1) % EdmaN]
          BY <3>4, <3>5, <4>2, <5>2
        <5> QED
          BY <3>4, <5>1, <5>3
      <4> QED
        BY <4>3, <4>4
    <3>8. ev'.sent = n + ev'.irq + ev'.left
      <4>1. ev'.irq = ev.irq + 1 /\ ev'.left = ev.left
        BY <1>1
      <4> QED
        BY <1>2, <3>4, <3>5, <4>1
    <3>9. ev'.dev = ev'.sent % EdmaN /\ Len(ev'.seen) = n
      BY <3>2, <3>5 DEF t, n
    <3> QED
      BY <3>1, <3>5, <3>7, <3>8, <3>9 DEF EvOrder
  <2> QED
    BY <2>1, <2>2
<1> QED
  BY <1>1, <1>3, <1>4 DEF EvInv

LEMMA IsrStartStep ==
  ASSUME EvInv, Edma!IsrStart
  PROVE  EvInv'
<1>1. ev \in EdmaEvs /\ ev.left = 0 /\ ev.irq > 0 /\ e_odd' = e_odd
  BY DEF EvInv, Edma!IsrStart
<1>2. ev' = [ev EXCEPT !.cnt = @ + ev.irq, !.left = ev.irq, !.count = ev.irq, !.irq = 0]
  BY DEF Edma!IsrStart
<1>3. ev' = [dev |-> ev'.dev, given |-> ev'.given, data |-> ev'.data, irq |-> ev'.irq, cur |-> ev'.cur, cnt |-> ev'.cnt,
             left |-> ev'.left, count |-> ev'.count, seen |-> ev'.seen, sent |-> ev'.sent]
  BY <1>1, <1>2 DEF EdmaEvs
<1>4. /\ ev'.dev = ev.dev /\ ev'.given = ev.given /\ ev'.irq = 0 /\ ev'.sent = ev.sent /\ ev'.data = ev.data
      /\ ev'.cur = ev.cur /\ ev'.cnt = ev.cnt + ev.irq /\ ev'.left = ev.irq /\ ev'.count = ev.irq /\ ev'.seen = ev.seen
  BY <1>1, <1>2 DEF EdmaEvs
<1>5. /\ ev.dev \in 0 .. EdmaN - 1 /\ ev.given \in Nat /\ ev.data \in [0 .. EdmaN - 1 -> Nat] /\ ev.irq \in Nat /\ ev.cur \in 0 .. EdmaN - 1
      /\ ev.cnt \in Nat /\ ev.left \in Nat /\ ev.count \in Nat /\ ev.seen \in Seq(Nat) /\ ev.sent \in Nat
  BY <1>1 DEF EdmaEvs
<1>6. ev' \in EdmaEvs
  <2>1. ev'.cnt \in Nat /\ ev'.irq \in Nat
    BY <1>4, <1>5
  <2> QED
    BY <1>3, <1>4, <1>5, <2>1 DEF EdmaEvs
<1>7. EvNodes'
  BY <1>1, <1>4, <1>5 DEF EvInv, EvNodes
<1>8. EvOrder'
  <2>1. Len(ev.seen) + ev.irq + ev.left = Len(ev'.seen) + ev'.irq + ev'.left
    BY <1>1, <1>4, <1>5
  <2> QED
    BY <1>1, <1>4, <2>1 DEF EvInv, EvOrder
<1> QED
  BY <1>6, <1>7, <1>8 DEF EvInv

LEMMA AppendPlaces ==
  ASSUME NEW s \in Seq(Nat), NEW x \in Nat
  PROVE  /\ Append(s, x) \in Seq(Nat) /\ Len(Append(s, x)) = Len(s) + 1 /\ Len(s) \in Nat
         /\ DOMAIN Append(s, x) = 1 .. Len(s) + 1 /\ DOMAIN s = 1 .. Len(s)
         /\ \A i \in 1 .. Len(s) + 1 : Append(s, x)[i] = IF i = Len(s) + 1 THEN x ELSE s[i]
  OBVIOUS

LEMMA IsrNodeDoes ==
  ASSUME EvInv, Edma!IsrNode
  PROVE  /\ ev' \in EdmaEvs /\ ev.left > 0 /\ "held" \notin e_odd
         /\ ev'.dev = ev.dev /\ ev'.irq = ev.irq /\ ev'.sent = ev.sent
         /\ ev'.seen = Append(ev.seen, ev.data[ev.cur]) /\ ev'.data = [ev.data EXCEPT ![ev.cur] = 0]
         /\ \/ /\ ev'.cur = (ev.cur + 1) % EdmaN /\ ev'.left = ev.left - 1
               /\ ev'.cnt = (IF Edma!GivenBack THEN 0 ELSE ev.cnt) /\ ev'.given = (IF Edma!GivenBack THEN ev.given + EdmaN ELSE ev.given)
               /\ e_odd' = IF Edma!GivenBack /\ ev.left > 1 THEN e_odd \cup {"early"} ELSE e_odd
            \/ /\ ev'.cur = ev.cur /\ ev'.left = ev.left /\ ev'.cnt = ev.cnt /\ ev'.given = ev.given
               /\ e_odd' = e_odd \cup {"held"}
<1> DEFINE cnt == IF Edma!GivenBack THEN 0 ELSE ev.cnt
           given == IF Edma!GivenBack THEN ev.given + EdmaN ELSE ev.given
           x == ev.data[ev.cur]
<1>1. ev \in EdmaEvs /\ ev.left > 0 /\ "held" \notin e_odd
  BY DEF EvInv, Edma!IsrNode
<1>2. /\ ev.dev \in 0 .. EdmaN - 1 /\ ev.given \in Nat /\ ev.data \in [0 .. EdmaN - 1 -> Nat] /\ ev.irq \in Nat /\ ev.cur \in 0 .. EdmaN - 1
      /\ ev.cnt \in Nat /\ ev.left \in Nat /\ ev.count \in Nat /\ ev.seen \in Seq(Nat) /\ ev.sent \in Nat /\ EdmaN \in Nat \ {0}
  BY EvFields
<1>3. x \in Nat /\ cnt \in Nat /\ given \in Nat
  <2>1. x \in Nat
    BY <1>2
  <2>2. cnt \in Nat
    BY <1>2
  <2>3. ev.given + EdmaN \in Nat
    <3>1. ev.given \in Nat /\ EdmaN \in Nat
      BY <1>2
    <3> QED
      BY <3>1
  <2> QED
    BY <1>2, <2>1, <2>2, <2>3
<1>4. (ev.cur + 1) % EdmaN \in 0 .. EdmaN - 1
  <2>1. ev.cur + 1 \in Nat
    BY <1>2
  <2> QED
    BY <1>2, <2>1, ModRange
<1>5. [ev.data EXCEPT ![ev.cur] = 0] \in [0 .. EdmaN - 1 -> Nat] /\ Append(ev.seen, x) \in Seq(Nat)
  BY <1>2, <1>3
<1>6. \/ /\ ev' = [[ev EXCEPT !.seen = Append(@, x), !.data[ev.cur] = 0] EXCEPT !.cur = (@ + 1) % EdmaN, !.left = @ - 1,
                              !.cnt = IF Edma!GivenBack THEN 0 ELSE @, !.given = IF Edma!GivenBack THEN @ + EdmaN ELSE @]
         /\ e_odd' = IF Edma!GivenBack /\ ev.left > 1 THEN e_odd \cup {"early"} ELSE e_odd
      \/ /\ ev' = [ev EXCEPT !.seen = Append(@, x), !.data[ev.cur] = 0]
         /\ e_odd' = e_odd \cup {"held"}
  BY DEF Edma!IsrNode
<1> DEFINE z == [ev EXCEPT !.seen = Append(@, x), !.data[ev.cur] = 0]
<1> HIDE DEF x
<1>13. z = [ev EXCEPT !.seen = Append(@, x), !.data[ev.cur] = 0]
  OBVIOUS
<1> HIDE DEF z
<1>7. /\ z = [dev |-> z.dev, given |-> z.given, data |-> z.data, irq |-> z.irq, cur |-> z.cur, cnt |-> z.cnt,
              left |-> z.left, count |-> z.count, seen |-> z.seen, sent |-> z.sent]
  BY <1>1, <1>13 DEF EdmaEvs
<1>8. /\ z.dev = ev.dev /\ z.given = ev.given /\ z.irq = ev.irq /\ z.cur = ev.cur /\ z.cnt = ev.cnt /\ z.left = ev.left
      /\ z.count = ev.count /\ z.sent = ev.sent
      /\ z.data = [ev.data EXCEPT ![ev.cur] = 0] /\ z.seen = Append(ev.seen, x)
  BY <1>1, <1>13 DEF EdmaEvs
<1>9. \/ /\ ev' = [z EXCEPT !.cur = (ev.cur + 1) % EdmaN, !.left = ev.left - 1, !.cnt = cnt, !.given = given]
         /\ e_odd' = IF Edma!GivenBack /\ ev.left > 1 THEN e_odd \cup {"early"} ELSE e_odd
      \/ ev' = z /\ e_odd' = e_odd \cup {"held"}
  BY <1>6, <1>8, <1>13
<1> HIDE DEF cnt, given
<1>10. z \in EdmaEvs
  BY <1>2, <1>5, <1>7, <1>8 DEF EdmaEvs
<1>11. CASE ev' = z /\ e_odd' = e_odd \cup {"held"}
  BY <1>1, <1>8, <1>10, <1>11 DEF x
<1>12. CASE /\ ev' = [z EXCEPT !.cur = (ev.cur + 1) % EdmaN, !.left = ev.left - 1, !.cnt = cnt, !.given = given]
            /\ e_odd' = IF Edma!GivenBack /\ ev.left > 1 THEN e_odd \cup {"early"} ELSE e_odd
  <2>1. ev' = [dev |-> ev'.dev, given |-> ev'.given, data |-> ev'.data, irq |-> ev'.irq, cur |-> ev'.cur, cnt |-> ev'.cnt,
               left |-> ev'.left, count |-> ev'.count, seen |-> ev'.seen, sent |-> ev'.sent]
    BY <1>10, <1>12 DEF EdmaEvs
  <2>2. /\ ev'.dev = z.dev /\ ev'.given = given /\ ev'.irq = z.irq /\ ev'.cur = (ev.cur + 1) % EdmaN /\ ev'.cnt = cnt
        /\ ev'.left = ev.left - 1 /\ ev'.count = z.count /\ ev'.sent = z.sent /\ ev'.data = z.data /\ ev'.seen = z.seen
    BY <1>10, <1>12 DEF EdmaEvs
  <2>3. ev.left - 1 \in Nat
    BY <1>1, <1>2
  <2>4. ev' \in EdmaEvs
    BY <1>2, <1>3, <1>4, <1>5, <1>8, <2>1, <2>2, <2>3 DEF EdmaEvs
  <2> QED
    BY <1>1, <1>8, <1>12, <2>2, <2>4 DEF x, cnt, given
<1> QED
  BY <1>9, <1>11, <1>12

LEMMA IsrNodeStep ==
  ASSUME EvInv, Edma!IsrNode
  PROVE  EvInv'
<1> DEFINE x == ev.data[ev.cur]
<1>1. /\ ev \in EdmaEvs /\ ev' \in EdmaEvs /\ ev.left > 0 /\ "held" \notin e_odd
      /\ ev'.dev = ev.dev /\ ev'.irq = ev.irq /\ ev'.sent = ev.sent
      /\ ev'.seen = Append(ev.seen, x) /\ ev'.data = [ev.data EXCEPT ![ev.cur] = 0]
  BY IsrNodeDoes DEF EvInv
<1>2. \/ /\ ev'.cur = (ev.cur + 1) % EdmaN /\ ev'.left = ev.left - 1
         /\ ev'.cnt = (IF Edma!GivenBack THEN 0 ELSE ev.cnt) /\ ev'.given = (IF Edma!GivenBack THEN ev.given + EdmaN ELSE ev.given)
         /\ e_odd' = IF Edma!GivenBack /\ ev.left > 1 THEN e_odd \cup {"early"} ELSE e_odd
      \/ /\ ev'.cur = ev.cur /\ ev'.left = ev.left /\ ev'.cnt = ev.cnt /\ ev'.given = ev.given
         /\ e_odd' = e_odd \cup {"held"}
  BY IsrNodeDoes
<1>3. /\ ev.given \in Nat /\ ev.irq \in Nat /\ ev.cnt \in Nat /\ ev.left \in Nat /\ ev.sent \in Nat /\ Len(ev.seen) \in Nat /\ EdmaN \in Nat \ {0}
  BY EvFields
<1>4. EvNodes'
  <2>1. ev.given + ev.irq + ev.cnt = EdmaN /\ ("early" \in e_odd \/ ev.left <= ev.cnt)
    BY DEF EvInv, EvNodes
  <2>2. CASE "held" \in e_odd'
    BY <1>1, <1>2, <2>1, <2>2 DEF EvNodes
  <2>3. CASE "held" \notin e_odd' /\ Edma!GivenBack
    <3>1. ev'.given = ev.given + EdmaN /\ ev'.cnt = 0 /\ ev'.irq = ev.irq /\ ev.cnt = EdmaN /\ ev'.left = ev.left - 1
      BY <1>1, <1>2, <2>3 DEF Edma!GivenBack
    <3>2. ev'.given + ev'.irq + ev'.cnt = EdmaN
      BY <1>3, <2>1, <3>1
    <3>3. "early" \in e_odd' \/ ev'.left <= ev'.cnt
      <4>1. "early" \in e_odd' \/ ~(ev.left > 1)
        BY <1>2, <2>3
      <4> QED
        BY <1>3, <3>1, <4>1
    <3> QED
      BY <3>2, <3>3 DEF EvNodes
  <2>4. CASE "held" \notin e_odd' /\ ~Edma!GivenBack
    <3>1. ev'.given = ev.given /\ ev'.cnt = ev.cnt /\ ev'.irq = ev.irq /\ ev'.left = ev.left - 1 /\ e_odd' = e_odd
      BY <1>1, <1>2, <2>4
    <3>2. "early" \in e_odd' \/ ev'.left <= ev'.cnt
      BY <1>3, <2>1, <3>1
    <3> QED
      BY <2>1, <3>1, <3>2 DEF EvNodes
  <2> QED
    BY <2>2, <2>3, <2>4
<1>5. EvOrder'
  <2>1. CASE "early" \in e_odd
    <3>1. "early" \in e_odd'
      BY <1>2, <2>1
    <3> QED
      BY <3>1 DEF EvOrder
  <2>2. CASE "early" \notin e_odd
    <3> DEFINE n == Len(ev.seen)
               t == ev.sent
               d == ev.data
               q == ev.seen
    <3>1. /\ \A i \in DOMAIN q : q[i] = i
          /\ ev.cur = n % EdmaN
          /\ ev.dev = t % EdmaN
          /\ t = n + ev.irq + ev.left
          /\ \A i \in n + 1 .. t : d[(i - 1) % EdmaN] = i
      BY <1>1, <2>2 DEF EvInv, EvOrder
    <3>2. ev.left <= ev.cnt /\ ev.given + ev.irq + ev.cnt = EdmaN
      BY <2>2 DEF EvInv, EvNodes
    <3>3. n \in Nat /\ t \in Nat /\ d \in [0 .. EdmaN - 1 -> Nat] /\ q \in Seq(Nat) /\ n = Len(q)
      BY EvFields
    <3>4. x = d[ev.cur] /\ ev'.seen = Append(q, x) /\ ev'.data = [d EXCEPT ![ev.cur] = 0] /\ ev'.sent = t
      BY <1>1
    <3> HIDE DEF n, t, d, q, x
    <3>10. n \in Nat /\ t \in Nat /\ t = n + ev.irq + ev.left
      BY <3>1, <3>3
    <3>11. ev.irq \in Nat /\ ev.left \in Nat /\ ev.cnt \in Nat /\ ev.given \in Nat /\ EdmaN \in Nat
      BY <1>3
    <3>12. ev.irq + ev.left <= EdmaN
      BY <3>2, <3>11
    <3>13. t <= n + EdmaN
      BY <3>10, <3>11, <3>12
    <3>5. x = n + 1
      <4>1. n + 1 \in n + 1 .. t
        <5>1. t = n + ev.irq + ev.left
          BY <3>1
        <5>2. ev.left > 0
          BY <1>1
        <5> QED
          BY <1>3, <3>3, <5>1, <5>2
      <4>2. (n + 1) - 1 = n
        BY <3>3
      <4>3. d[((n + 1) - 1) % EdmaN] = n + 1
        BY <3>1, <4>1
      <4> QED
        BY <3>1, <3>4, <4>2, <4>3
    <3>6. /\ Len(ev'.seen) = n + 1 /\ DOMAIN ev'.seen = 1 .. n + 1 /\ DOMAIN q = 1 .. n
          /\ \A i \in 1 .. n + 1 : ev'.seen[i] = IF i = n + 1 THEN x ELSE q[i]
      <4>1. x \in Nat
        BY <3>3, <3>5
      <4> QED
        BY <3>3, <3>4, <4>1, AppendPlaces
    <3>7. \A i \in DOMAIN ev'.seen : ev'.seen[i] = i
      <4>1. \A i \in 1 .. n : q[i] = i
        BY <3>1, <3>6
      <4> QED
        BY <3>3, <3>5, <3>6, <4>1
    <3>8. CASE "held" \in e_odd'
      BY <3>7, <3>8 DEF EvOrder
    <3>9. CASE "held" \notin e_odd'
      <4>1. ev'.cur = (ev.cur + 1) % EdmaN /\ ev'.left = ev.left - 1
        BY <1>2, <3>9
      <4>2. ev'.cur = Len(ev'.seen) % EdmaN
        <5>1. ev.cur = n % EdmaN /\ Len(ev'.seen) = n + 1
          BY <3>1, <3>6
        <5>2. (n + 1) % EdmaN = ((n % EdmaN) + 1) % EdmaN
          BY <1>3, <3>3, ModSucc
        <5> QED
          BY <4>1, <5>1, <5>2
      <4>3. ev'.sent = Len(ev'.seen) + ev'.irq + ev'.left
        <5>1. t = n + ev.irq + ev.left /\ Len(ev'.seen) = n + 1 /\ ev'.irq = ev.irq /\ ev'.sent = t
          BY <1>1, <3>1, <3>4, <3>6
        <5>2. ev'.left = ev.left - 1
          BY <4>1
        <5>3. t = (n + 1) + ev.irq + (ev.left - 1)
          BY <3>10, <3>11
        <5> QED
          BY <5>1, <5>2, <5>3
      <4>4. ASSUME NEW i \in n + 2 .. t PROVE ev'.data[(i - 1) % EdmaN] = i
        <5>3. i \in n + 1 .. t /\ i - 1 \in Nat /\ n < i - 1 /\ i - 1 < n + EdmaN
          BY <3>10, <3>11, <3>13
        <5>4. (i - 1) % EdmaN # n % EdmaN
          BY <1>3, <3>3, <5>3, ModDistinct
        <5>5. (i - 1) % EdmaN \in 0 .. EdmaN - 1
          BY <1>3, <5>3, ModRange
        <5>6. d[(i - 1) % EdmaN] = i /\ ev.cur = n % EdmaN
          BY <3>1, <5>3
        <5> QED
          BY <3>3, <3>4, <5>4, <5>5, <5>6
      <4>5. ev'.dev = ev'.sent % EdmaN
        BY <1>1, <3>1, <3>4
      <4>6. (n + 1) + 1 = n + 2
        BY <3>3
      <4>7. \A i \in Len(ev'.seen) + 1 .. ev'.sent : ev'.data[(i - 1) % EdmaN] = i
        BY <3>4, <3>6, <4>4, <4>6
      <4> QED
        BY <3>7, <4>2, <4>3, <4>5, <4>7 DEF EvOrder
    <3> QED
      BY <3>8, <3>9
  <2> QED
    BY <2>1, <2>2
<1> QED
  BY <1>1, <1>4, <1>5 DEF EvInv

-----------------------------------------------------------------------------
\* Received buffers change their place.
EdmaFresh(next, ok) == [i \in 1 .. ok |-> next + i - 1]

LEMMA NewBuffers ==
  ASSUME NEW next \in Nat, NEW ok \in Nat
  PROVE  /\ EdmaFresh(next, ok) \in Seq(Nat) /\ Len(EdmaFresh(next, ok)) = ok /\ Simple(EdmaFresh(next, ok)) /\ Below(EdmaFresh(next, ok), next + ok) /\ Edma!ToSet(EdmaFresh(next, ok)) \in SUBSET Nat
         /\ \A s : Below(s, next) => Apart(s, EdmaFresh(next, ok)) /\ Apart(EdmaFresh(next, ok), s)
<1> DEFINE new == EdmaFresh(next, ok)
<1>1. \A i \in 1 .. ok : next + i - 1 \in Nat /\ next + i - 1 < next + ok /\ ~(next + i - 1 < next)
  OBVIOUS
<1>0. new = [i \in 1 .. ok |-> next + i - 1]
  BY DEF EdmaFresh
<1> HIDE DEF new
<1>2. new \in [1 .. ok -> Nat]
  BY <1>0, <1>1
<1>3. new \in Seq(Nat) /\ Len(new) = ok /\ DOMAIN new = 1 .. ok
  BY <1>2
<1>4. \A i, j \in 1 .. ok : next + i - 1 = next + j - 1 => i = j
  OBVIOUS
<1>5. Simple(new)
  BY <1>0, <1>3, <1>4 DEF Simple
<1>6. Below(new, next + ok)
  BY <1>0, <1>1, <1>3 DEF Below
<1>7. Edma!ToSet(new) \in SUBSET Nat
  BY <1>0, <1>1, <1>3 DEF Edma!ToSet
<1>8. ASSUME NEW s, Below(s, next) PROVE Apart(s, new) /\ Apart(new, s)
  <2>1. \A j \in DOMAIN new : ~(new[j] < next)
    BY <1>0, <1>1, <1>3
  <2> QED
    BY <1>8, <2>1 DEF Below, Apart
<1> QED
  BY <1>3, <1>5, <1>6, <1>7, <1>8 DEF new

LEMMA BelowMore ==
  ASSUME NEW s \in Seq(Nat), NEW n \in Nat, NEW k \in Nat, Below(s, n)
  PROVE  Below(s, n + k)
<1>1. \A i \in DOMAIN s : s[i] \in Nat
  OBVIOUS
<1> QED
  BY <1>1 DEF Below

LEMMA PlacesGrow ==
  ASSUME NEW posted \in Seq(Nat), NEW pend \in Seq(Nat), NEW ring \in Seq(Seq(Nat)), NEW next \in Nat, NEW ok \in Nat,
         InPlace(posted, pend, ring, next)
  PROVE  /\ InPlace(posted, pend \o EdmaFresh(next, ok), ring, next + ok) /\ EdmaFresh(next, ok) \in Seq(Nat) /\ Len(EdmaFresh(next, ok)) = ok
         /\ Edma!ToSet(pend \o EdmaFresh(next, ok)) = Edma!ToSet(pend) \cup Edma!ToSet(EdmaFresh(next, ok)) /\ Edma!ToSet(EdmaFresh(next, ok)) \in SUBSET Nat
<1> DEFINE new == EdmaFresh(next, ok)
<1>1. /\ new \in Seq(Nat) /\ Len(new) = ok /\ Simple(new) /\ Below(new, next + ok) /\ Edma!ToSet(new) \in SUBSET Nat
      /\ \A s : Below(s, next) => Apart(s, new) /\ Apart(new, s)
  BY NewBuffers
<1> HIDE DEF new
<1>2. /\ Simple(posted) /\ Simple(pend) /\ Apart(posted, pend) /\ Below(posted, next) /\ Below(pend, next)
      /\ \A i \in DOMAIN ring : Simple(ring[i]) /\ Apart(ring[i], posted) /\ Apart(ring[i], pend) /\ Below(ring[i], next)
      /\ \A i, j \in DOMAIN ring : i # j => Apart(ring[i], ring[j])
  BY DEF InPlace
<1> DEFINE w == pend \o new
<1>3. /\ Edma!ToSet(w) = Edma!ToSet(pend) \cup Edma!ToSet(new) /\ (Simple(pend) /\ Simple(new) /\ Apart(pend, new) => Simple(w))
      /\ \A u : Apart(pend, u) /\ Apart(new, u) => Apart(w, u) /\ Apart(u, w)
      /\ \A n : Below(pend, n) /\ Below(new, n) => Below(w, n)
  BY <1>1, JoinParts
<1> HIDE DEF w
<1>4. Simple(w) /\ Apart(posted, w)
  BY <1>1, <1>2, <1>3, ApartBack
<1>5. Below(posted, next + ok) /\ Below(w, next + ok)
  BY <1>1, <1>2, <1>3, BelowMore
<1>6. ASSUME NEW i \in DOMAIN ring PROVE Apart(ring[i], w) /\ Below(ring[i], next + ok)
  <2>1. Apart(pend, ring[i]) /\ Apart(new, ring[i]) /\ Below(ring[i], next) /\ ring[i] \in Seq(Nat)
    BY <1>1, <1>2, ApartBack
  <2> QED
    BY <1>3, <2>1, BelowMore
<1>7. InPlace(posted, w, ring, next + ok)
  BY <1>2, <1>4, <1>5, <1>6 DEF InPlace
<1> QED
  BY <1>1, <1>3, <1>7 DEF w, new

LEMMA PlacesMove ==
  ASSUME NEW posted \in Seq(Nat), NEW w \in Seq(Nat), NEW ring \in Seq(Seq(Nat)), NEW next \in Nat, NEW k \in 0 .. Len(w),
         InPlace(posted, w, ring, next), IsFiniteSet(OutAt(posted, ring))
  PROVE  /\ InPlace(posted \o SubSeq(w, 1, k), SubSeq(w, k + 1, Len(w)), ring, next)
         /\ IsFiniteSet(OutAt(posted \o SubSeq(w, 1, k), ring))
         /\ Cardinality(OutAt(posted \o SubSeq(w, 1, k), ring)) = Cardinality(OutAt(posted, ring)) + k
         /\ OutAt(posted, ring) \cup Edma!ToSet(w) = OutAt(posted \o SubSeq(w, 1, k), ring) \cup Edma!ToSet(SubSeq(w, k + 1, Len(w)))
<1> DEFINE a == SubSeq(w, 1, k)
           b == SubSeq(w, k + 1, Len(w))
           z == posted \o a
<1>1. /\ Simple(posted) /\ Simple(w) /\ Apart(posted, w) /\ Below(posted, next) /\ Below(w, next)
      /\ \A i \in DOMAIN ring : Simple(ring[i]) /\ Apart(ring[i], posted) /\ Apart(ring[i], w) /\ Below(ring[i], next)
      /\ \A i, j \in DOMAIN ring : i # j => Apart(ring[i], ring[j])
  BY DEF InPlace
<1>2. Part(a, w) /\ Part(b, w) /\ Edma!ToSet(w) = Edma!ToSet(a) \cup Edma!ToSet(b) /\ Apart(a, b)
  BY <1>1, CutParts
<1>3. a \in Seq(Nat) /\ b \in Seq(Nat) /\ Len(a) = k
  BY CutSeq
<1>4. /\ Edma!ToSet(z) = Edma!ToSet(posted) \cup Edma!ToSet(a) /\ (Simple(posted) /\ Simple(a) /\ Apart(posted, a) => Simple(z))
      /\ \A u : Apart(posted, u) /\ Apart(a, u) => Apart(z, u) /\ Apart(u, z)
      /\ \A n : Below(posted, n) /\ Below(a, n) => Below(z, n)
  BY <1>3, JoinParts
<1> HIDE DEF a, b, z
<1>5. Simple(a) /\ Simple(b) /\ Below(a, next) /\ Below(b, next)
  BY <1>1, <1>2, PartSimple, PartBelow
<1>6. Apart(w, posted)
  BY <1>1, ApartBack
<1>7. Apart(a, posted) /\ Apart(posted, a) /\ Apart(b, posted) /\ Apart(posted, b)
  BY <1>2, <1>6, PartApart
<1>8. ASSUME NEW i \in DOMAIN ring PROVE Apart(ring[i], z) /\ Apart(ring[i], b)
  <2>1. Apart(w, ring[i]) /\ Apart(posted, ring[i])
    BY <1>1, ApartBack
  <2>2. Apart(a, ring[i]) /\ Apart(ring[i], b)
    BY <1>2, <2>1, PartApart
  <2> QED
    BY <1>4, <2>1, <2>2
<1>9. InPlace(z, b, ring, next)
  BY <1>1, <1>2, <1>4, <1>5, <1>7, <1>8 DEF InPlace
<1>10. OutAt(z, ring) = OutAt(posted, ring) \cup Edma!ToSet(a)
  BY <1>4 DEF OutAt
<1>11. IsFiniteSet(Edma!ToSet(a)) /\ Cardinality(Edma!ToSet(a)) = k
  BY <1>3, <1>5, SimpleCount
<1>12. OutAt(posted, ring) \cap Edma!ToSet(a) = {}
  <2>1. ASSUME NEW x \in Edma!ToSet(a) PROVE x \notin Edma!ToSet(posted) /\ \A i \in DOMAIN ring : x \notin Edma!ToSet(ring[i])
    <3>1. x \notin Edma!ToSet(posted)
      BY <1>7, <2>1 DEF Apart, Edma!ToSet
    <3>2. ASSUME NEW i \in DOMAIN ring PROVE x \notin Edma!ToSet(ring[i])
      <4>1. Apart(a, ring[i])
        BY <1>1, <1>2, ApartBack, PartApart
      <4> QED
        BY <2>1, <4>1 DEF Apart, Edma!ToSet
    <3> QED
      BY <3>1, <3>2
  <2> QED
    BY <2>1 DEF OutAt
<1>13. /\ IsFiniteSet(OutAt(posted, ring) \cup Edma!ToSet(a))
       /\ Cardinality(OutAt(posted, ring) \cup Edma!ToSet(a)) =
            Cardinality(OutAt(posted, ring)) + Cardinality(Edma!ToSet(a)) - Cardinality(OutAt(posted, ring) \cap Edma!ToSet(a))
  BY <1>11, FS_Union
<1>14. Cardinality(OutAt(posted, ring) \cap Edma!ToSet(a)) = 0 /\ Cardinality(OutAt(posted, ring)) \in Nat
  BY <1>12, FS_EmptySet, FS_CardinalityType
<1>15. Cardinality(OutAt(z, ring)) = Cardinality(OutAt(posted, ring)) + k
  BY <1>10, <1>11, <1>13, <1>14
<1>16. OutAt(posted, ring) \cup Edma!ToSet(w) = OutAt(z, ring) \cup Edma!ToSet(b)
  BY <1>2, <1>10
<1> QED
  BY <1>9, <1>10, <1>13, <1>15, <1>16 DEF a, b, z

\* A node of buffers is taken from those posted and put at the end of the ring.
LEMMA RingAppend ==
  ASSUME NEW ring \in Seq(Seq(Nat)), NEW a \in Seq(Nat)
  PROVE  /\ Append(ring, a) \in Seq(Seq(Nat)) /\ Len(Append(ring, a)) = Len(ring) + 1 /\ Len(ring) \in Nat
         /\ DOMAIN Append(ring, a) = DOMAIN ring \cup {Len(ring) + 1} /\ Len(ring) + 1 \notin DOMAIN ring
         /\ (\A i \in DOMAIN ring : Append(ring, a)[i] = ring[i]) /\ Append(ring, a)[Len(ring) + 1] = a
<1>1. Append(ring, a) \in Seq(Seq(Nat)) /\ Len(Append(ring, a)) = Len(ring) + 1 /\ Len(ring) \in Nat
  OBVIOUS
<1>2. DOMAIN Append(ring, a) = DOMAIN ring \cup {Len(ring) + 1} /\ Len(ring) + 1 \notin DOMAIN ring
  OBVIOUS
<1>3. (\A i \in DOMAIN ring : Append(ring, a)[i] = ring[i]) /\ Append(ring, a)[Len(ring) + 1] = a
  OBVIOUS
<1> QED
  BY <1>1, <1>2, <1>3

LEMMA RingTail ==
  ASSUME NEW ring \in Seq(Seq(Nat)), ring # <<>>
  PROVE  /\ Tail(ring) \in Seq(Seq(Nat)) /\ Len(Tail(ring)) = Len(ring) - 1 /\ Len(ring) \in Nat \ {0}
         /\ 1 \in DOMAIN ring /\ ring[1] \in Seq(Nat)
         /\ \A i \in DOMAIN Tail(ring) : i + 1 \in DOMAIN ring /\ i + 1 # 1 /\ Tail(ring)[i] = ring[i + 1]
         /\ \A i, j \in DOMAIN Tail(ring) : i # j => i + 1 # j + 1
         /\ \A i \in DOMAIN ring \ {1} : i - 1 \in DOMAIN Tail(ring) /\ Tail(ring)[i - 1] = ring[i]
<1>1. Tail(ring) \in Seq(Seq(Nat)) /\ Len(Tail(ring)) = Len(ring) - 1 /\ Len(ring) \in Nat \ {0}
  OBVIOUS
<1>2. 1 \in DOMAIN ring /\ ring[1] \in Seq(Nat)
  OBVIOUS
<1>3. DOMAIN Tail(ring) = 1 .. Len(ring) - 1 /\ DOMAIN ring = 1 .. Len(ring)
  BY <1>1
<1>4. \A i \in 1 .. Len(ring) - 1 : Tail(ring)[i] = ring[i + 1]
  OBVIOUS
<1>5. ASSUME NEW i \in DOMAIN Tail(ring) PROVE i + 1 \in DOMAIN ring /\ i + 1 # 1 /\ Tail(ring)[i] = ring[i + 1]
  BY <1>1, <1>3, <1>4
<1>6. ASSUME NEW i \in DOMAIN ring \ {1} PROVE i - 1 \in DOMAIN Tail(ring) /\ Tail(ring)[i - 1] = ring[i]
  <2>1. i - 1 \in 1 .. Len(ring) - 1 /\ (i - 1) + 1 = i
    BY <1>1, <1>3
  <2> QED
    BY <1>3, <1>4, <2>1
<1>7. \A i, j \in DOMAIN Tail(ring) : i # j => i + 1 # j + 1
  BY <1>1, <1>3
<1> QED
  BY <1>1, <1>2, <1>5, <1>6, <1>7

LEMMA OutIn ==
  ASSUME NEW posted, NEW ring, NEW x
  PROVE  x \in OutAt(posted, ring) <=> x \in Edma!ToSet(posted) \/ \E i \in DOMAIN ring : x \in Edma!ToSet(ring[i])
  BY DEF OutAt

LEMMA PlacesList ==
  ASSUME NEW posted \in Seq(Nat), NEW pend \in Seq(Nat), NEW ring \in Seq(Seq(Nat)), NEW next \in Nat, NEW n \in 0 .. Len(posted),
         InPlace(posted, pend, ring, next)
  PROVE  /\ InPlace(SubSeq(posted, n + 1, Len(posted)), pend, Append(ring, SubSeq(posted, 1, n)), next)
         /\ OutAt(SubSeq(posted, n + 1, Len(posted)), Append(ring, SubSeq(posted, 1, n))) = OutAt(posted, ring)
<1> DEFINE a == SubSeq(posted, 1, n)
           b == SubSeq(posted, n + 1, Len(posted))
           z == Append(ring, a)
           m == Len(ring) + 1
<1>1. /\ Simple(posted) /\ Simple(pend) /\ Apart(posted, pend) /\ Below(posted, next) /\ Below(pend, next)
      /\ \A i \in DOMAIN ring : Simple(ring[i]) /\ Apart(ring[i], posted) /\ Apart(ring[i], pend) /\ Below(ring[i], next)
      /\ \A i, j \in DOMAIN ring : i # j => Apart(ring[i], ring[j])
  BY DEF InPlace
<1>2. Part(a, posted) /\ Part(b, posted) /\ Edma!ToSet(posted) = Edma!ToSet(a) \cup Edma!ToSet(b) /\ Apart(a, b)
  BY <1>1, CutParts
<1>3. a \in Seq(Nat)
  BY CutSeq
<1>4. /\ DOMAIN z = DOMAIN ring \cup {m} /\ m \notin DOMAIN ring
      /\ (\A i \in DOMAIN ring : z[i] = ring[i]) /\ z[m] = a
  BY <1>3, RingAppend
<1> HIDE DEF a, b, z, m
<1>5. Simple(a) /\ Simple(b) /\ Below(a, next) /\ Below(b, next)
  BY <1>1, <1>2, PartSimple, PartBelow
<1>6. Apart(a, pend) /\ Apart(b, pend)
  BY <1>1, <1>2, PartApart
<1>7. ASSUME NEW i \in DOMAIN ring PROVE Apart(ring[i], a) /\ Apart(a, ring[i]) /\ Apart(ring[i], b)
  <2>1. Apart(posted, ring[i])
    BY <1>1, ApartBack
  <2> QED
    BY <1>2, <2>1, PartApart
<1>8. ASSUME NEW i \in DOMAIN z PROVE Simple(z[i]) /\ Apart(z[i], b) /\ Apart(z[i], pend) /\ Below(z[i], next)
  <2>1. CASE i = m
    BY <1>2, <1>4, <1>5, <1>6, <2>1
  <2>2. CASE i \in DOMAIN ring
    BY <1>1, <1>4, <1>7, <2>2
  <2> QED
    BY <1>4, <2>1, <2>2
<1>9. ASSUME NEW i \in DOMAIN z, NEW j \in DOMAIN z, i # j PROVE Apart(z[i], z[j])
  <2>1. CASE i = m
    BY <1>4, <1>7, <1>9, <2>1
  <2>2. CASE j = m
    BY <1>4, <1>7, <1>9, <2>2
  <2>3. CASE i # m /\ j # m
    BY <1>1, <1>4, <1>9, <2>3
  <2> QED
    BY <2>1, <2>2, <2>3
<1>10. InPlace(b, pend, z, next)
  BY <1>1, <1>5, <1>6, <1>8, <1>9 DEF InPlace
<1>11. ASSUME NEW x PROVE x \in OutAt(b, z) <=> x \in OutAt(posted, ring)
  <2>1. x \in OutAt(b, z) <=> x \in Edma!ToSet(b) \/ \E i \in DOMAIN z : x \in Edma!ToSet(z[i])
    BY OutIn
  <2>2. x \in OutAt(posted, ring) <=> x \in Edma!ToSet(posted) \/ \E i \in DOMAIN ring : x \in Edma!ToSet(ring[i])
    BY OutIn
  <2>3. (\E i \in DOMAIN z : x \in Edma!ToSet(z[i])) <=> (\E i \in DOMAIN ring : x \in Edma!ToSet(ring[i])) \/ x \in Edma!ToSet(a)
    <3>1. ASSUME NEW i \in DOMAIN z, x \in Edma!ToSet(z[i]) PROVE (\E j \in DOMAIN ring : x \in Edma!ToSet(ring[j])) \/ x \in Edma!ToSet(a)
      <4>1. i = m \/ i \in DOMAIN ring
        BY <1>4
      <4> QED
        BY <1>4, <3>1, <4>1
    <3>2. ASSUME NEW i \in DOMAIN ring, x \in Edma!ToSet(ring[i]) PROVE \E j \in DOMAIN z : x \in Edma!ToSet(z[j])
      BY <1>4, <3>2
    <3>3. x \in Edma!ToSet(a) => \E j \in DOMAIN z : x \in Edma!ToSet(z[j])
      BY <1>4
    <3> QED
      BY <3>1, <3>2, <3>3
  <2>4. x \in Edma!ToSet(posted) <=> x \in Edma!ToSet(a) \/ x \in Edma!ToSet(b)
    BY <1>2
  <2> QED
    BY <2>1, <2>2, <2>3, <2>4
<1>12. OutAt(b, z) = OutAt(posted, ring)
  <2>1. OutAt(b, z) \subseteq OutAt(posted, ring) /\ OutAt(posted, ring) \subseteq OutAt(b, z)
    BY <1>11
  <2> QED
    BY <2>1
<1> QED
  BY <1>10, <1>12 DEF a, b, z

LEMMA PlacesTake ==
  ASSUME NEW posted \in Seq(Nat), NEW pend \in Seq(Nat), NEW ring \in Seq(Seq(Nat)), NEW next \in Nat, ring # <<>>,
         InPlace(posted, pend, ring, next), IsFiniteSet(OutAt(posted, ring))
  PROVE  /\ InPlace(posted, pend, Tail(ring), next) /\ IsFiniteSet(OutAt(posted, Tail(ring)))
         /\ OutAt(posted, Tail(ring)) = OutAt(posted, ring) \ Edma!ToSet(ring[1])
         /\ Edma!ToSet(ring[1]) \cap Edma!ToSet(pend) = {}
         /\ Cardinality(OutAt(posted, Tail(ring))) = Cardinality(OutAt(posted, ring)) - Len(ring[1])
         /\ Len(ring[1]) <= Cardinality(OutAt(posted, ring)) /\ Len(ring[1]) \in Nat
<1> DEFINE z == Tail(ring)
           us == ring[1]
<1>1. /\ Simple(posted) /\ Simple(pend) /\ Apart(posted, pend) /\ Below(posted, next) /\ Below(pend, next)
      /\ \A i \in DOMAIN ring : Simple(ring[i]) /\ Apart(ring[i], posted) /\ Apart(ring[i], pend) /\ Below(ring[i], next)
      /\ \A i, j \in DOMAIN ring : i # j => Apart(ring[i], ring[j])
  BY DEF InPlace
<1>2. /\ 1 \in DOMAIN ring /\ us \in Seq(Nat)
      /\ \A i \in DOMAIN z : i + 1 \in DOMAIN ring /\ i + 1 # 1 /\ z[i] = ring[i + 1]
      /\ \A i, j \in DOMAIN z : i # j => i + 1 # j + 1
      /\ \A i \in DOMAIN ring \ {1} : i - 1 \in DOMAIN z /\ z[i - 1] = ring[i]
  BY RingTail
<1>3. us = ring[1]
  OBVIOUS
<1> HIDE DEF z, us
<1>4. InPlace(posted, pend, z, next)
  BY <1>1, <1>2 DEF InPlace
<1>5. Simple(us) /\ Apart(us, posted) /\ Apart(us, pend)
  BY <1>1, <1>2, <1>3
<1>6. IsFiniteSet(Edma!ToSet(us)) /\ Cardinality(Edma!ToSet(us)) = Len(us)
  BY <1>2, <1>5, SimpleCount
<1>7. OutAt(posted, ring) = OutAt(posted, z) \cup Edma!ToSet(us)
  <2>1. ASSUME NEW x, NEW i \in DOMAIN ring, x \in Edma!ToSet(ring[i]) PROVE x \in Edma!ToSet(us) \/ \E j \in DOMAIN z : x \in Edma!ToSet(z[j])
    BY <1>2, <1>3, <2>1
  <2>2. ASSUME NEW x, NEW i \in DOMAIN z, x \in Edma!ToSet(z[i]) PROVE \E j \in DOMAIN ring : x \in Edma!ToSet(ring[j])
    BY <1>2, <2>2
  <2>3. \A x \in Edma!ToSet(us) : \E j \in DOMAIN ring : x \in Edma!ToSet(ring[j])
    BY <1>2, <1>3
  <2> QED
    BY <2>1, <2>2, <2>3 DEF OutAt
<1>8. OutAt(posted, z) \cap Edma!ToSet(us) = {}
  <2>1. ASSUME NEW x \in Edma!ToSet(us) PROVE x \notin Edma!ToSet(posted) /\ \A i \in DOMAIN z : x \notin Edma!ToSet(z[i])
    <3>1. x \notin Edma!ToSet(posted)
      BY <1>5, <2>1 DEF Apart, Edma!ToSet
    <3>2. ASSUME NEW i \in DOMAIN z PROVE x \notin Edma!ToSet(z[i])
      <4>1. Apart(us, z[i])
        BY <1>1, <1>2, <1>3
      <4> QED
        BY <2>1, <4>1 DEF Apart, Edma!ToSet
    <3> QED
      BY <3>1, <3>2
  <2> QED
    BY <2>1 DEF OutAt
<1>9. Edma!ToSet(us) \cap Edma!ToSet(pend) = {}
  BY <1>5 DEF Apart, Edma!ToSet
<1>10. OutAt(posted, z) = OutAt(posted, ring) \ Edma!ToSet(us)
  BY <1>7, <1>8
<1>11. IsFiniteSet(OutAt(posted, z))
  BY <1>10, FS_Difference
<1>12. Cardinality(OutAt(posted, z) \cup Edma!ToSet(us)) =
         Cardinality(OutAt(posted, z)) + Cardinality(Edma!ToSet(us)) - Cardinality(OutAt(posted, z) \cap Edma!ToSet(us))
  BY <1>6, <1>11, FS_Union
<1>13. /\ Cardinality(OutAt(posted, z) \cap Edma!ToSet(us)) = 0 /\ Cardinality(OutAt(posted, z)) \in Nat
       /\ Len(us) \in Nat
  <2>1. Cardinality(OutAt(posted, z) \cap Edma!ToSet(us)) = 0
    BY <1>8, FS_EmptySet
  <2>2. Cardinality(OutAt(posted, z)) \in Nat
    BY <1>11, FS_CardinalityType
  <2>3. Len(us) \in Nat
    BY <1>2
  <2> QED
    BY <2>1, <2>2, <2>3
<1>14. /\ Cardinality(OutAt(posted, z)) = Cardinality(OutAt(posted, ring)) - Len(us)
       /\ Len(us) <= Cardinality(OutAt(posted, ring)) /\ Len(us) \in Nat
  BY <1>6, <1>7, <1>12, <1>13
<1> QED
  BY <1>3, <1>4, <1>9, <1>10, <1>11, <1>14 DEF z

-----------------------------------------------------------------------------
\* Steps of the received buffers.
LEMMA RxFields ==
  ASSUME NEW z, z \in EdmaRxs(z.q)
  PROVE  /\ z.avail \in SUBSET Nat /\ z.num \in Nat /\ z.pend \in Seq(Nat) /\ z.posted \in Seq(Nat) /\ z.ring \in Seq(Seq(Nat))
         /\ z.given \in Nat /\ z.next \in Nat /\ z.cnt \in 0 .. EdmaN - 1 /\ z.tail \in 0 .. EdmaN - 1
         /\ z.pc \in {"idle", "poll", "end"} /\ z.quota \in Nat /\ z.count \in Nat /\ z.lost \in SUBSET Nat /\ z.refill \in BOOLEAN
  BY DEF EdmaRxs

LEMMA RxSizes == EdmaN \in Nat \ {0} /\ EdmaCnt \in Nat \ {0} /\ EdmaBudget \in Nat /\ Edma!Total \in Nat
<1>1. EdmaN \in Nat \ {0} /\ EdmaCnt \in Nat \ {0} /\ EdmaBudget \in Nat
  BY EdmaAssumption
<1>2. EdmaCnt * EdmaN \in Nat
  BY <1>1
<1> QED
  BY <1>1, <1>2 DEF Edma!Total

LEMMA RxControl ==
  ASSUME RxInv, e_rx' \in EdmaRxs(e_rx'.q), e_odd \subseteq e_odd',
         e_rx'.avail = e_rx.avail, e_rx'.num = e_rx.num, e_rx'.pend = e_rx.pend, e_rx'.posted = e_rx.posted, e_rx'.ring = e_rx.ring,
         e_rx'.given = e_rx.given, e_rx'.next = e_rx.next, e_rx'.cnt = e_rx.cnt, e_rx'.lost = e_rx.lost
  PROVE  RxInv'
<1>1. RxNodes' /\ RxHeld'
  BY DEF RxInv, RxHeld, RxNodes, Edma!Total
<1>2. RxOdd'
  BY DEF RxInv, RxOdd
<1> QED
  BY <1>1, <1>2 DEF RxInv

LEMMA PollStartStep ==
  ASSUME RxInv, Edma!PollStart
  PROVE  RxInv'
<1>1. e_rx \in EdmaRxs(e_rx.q) /\ e_odd' = e_odd
  BY DEF RxInv, Edma!PollStart
<1>2. e_rx' = [e_rx EXCEPT !.pc = "poll", !.quota = EdmaBudget, !.count = 0]
  BY DEF Edma!PollStart
<1>3. e_rx' = [avail |-> e_rx'.avail, num |-> e_rx'.num, pend |-> e_rx'.pend, posted |-> e_rx'.posted, ring |-> e_rx'.ring, given |-> e_rx'.given,
             next |-> e_rx'.next, cnt |-> e_rx'.cnt, tail |-> e_rx'.tail, pc |-> e_rx'.pc, quota |-> e_rx'.quota, count |-> e_rx'.count,
             q |-> e_rx'.q, lost |-> e_rx'.lost, refill |-> e_rx'.refill]
  BY <1>1, <1>2 DEF EdmaRxs
<1>4. /\ e_rx'.avail = e_rx.avail /\ e_rx'.num = e_rx.num /\ e_rx'.pend = e_rx.pend /\ e_rx'.posted = e_rx.posted /\ e_rx'.ring = e_rx.ring
      /\ e_rx'.given = e_rx.given /\ e_rx'.next = e_rx.next /\ e_rx'.cnt = e_rx.cnt /\ e_rx'.lost = e_rx.lost /\ e_rx'.tail = e_rx.tail
      /\ e_rx'.refill = e_rx.refill /\ e_rx'.pc = "poll" /\ e_rx'.quota = EdmaBudget /\ e_rx'.count = 0
  BY <1>1, <1>2 DEF EdmaRxs
<1>5. e_rx' \in EdmaRxs(e_rx'.q)
  BY <1>1, <1>3, <1>4, RxFields, RxSizes DEF EdmaRxs
<1> QED
  BY <1>1, <1>4, <1>5, RxControl

LEMMA PollEndStep ==
  ASSUME RxInv, Edma!PollEnd
  PROVE  RxInv'
<1> DEFINE pc == IF e_rx.quota = 0 THEN "poll" ELSE "idle"
<1>1. e_rx \in EdmaRxs(e_rx.q) /\ e_odd' = e_odd /\ pc \in {"poll", "idle"}
  BY DEF RxInv, Edma!PollEnd
<1>2. e_rx' = [e_rx EXCEPT !.pc = pc, !.quota = EdmaBudget, !.count = 0, !.q = <<>>]
  BY DEF Edma!PollEnd
<1> HIDE DEF pc
<1>3. e_rx' = [avail |-> e_rx'.avail, num |-> e_rx'.num, pend |-> e_rx'.pend, posted |-> e_rx'.posted, ring |-> e_rx'.ring, given |-> e_rx'.given,
             next |-> e_rx'.next, cnt |-> e_rx'.cnt, tail |-> e_rx'.tail, pc |-> e_rx'.pc, quota |-> e_rx'.quota, count |-> e_rx'.count,
             q |-> e_rx'.q, lost |-> e_rx'.lost, refill |-> e_rx'.refill]
  BY <1>1, <1>2 DEF EdmaRxs
<1>4. /\ e_rx'.avail = e_rx.avail /\ e_rx'.num = e_rx.num /\ e_rx'.pend = e_rx.pend /\ e_rx'.posted = e_rx.posted /\ e_rx'.ring = e_rx.ring
      /\ e_rx'.given = e_rx.given /\ e_rx'.next = e_rx.next /\ e_rx'.cnt = e_rx.cnt /\ e_rx'.lost = e_rx.lost /\ e_rx'.tail = e_rx.tail
      /\ e_rx'.refill = e_rx.refill /\ e_rx'.pc = pc /\ e_rx'.quota = EdmaBudget /\ e_rx'.count = 0
  BY <1>1, <1>2 DEF EdmaRxs
<1>5. e_rx' \in EdmaRxs(e_rx'.q)
  BY <1>1, <1>3, <1>4, RxFields, RxSizes DEF EdmaRxs
<1> QED
  BY <1>1, <1>4, <1>5, RxControl

LEMMA RefillOffStep ==
  ASSUME RxInv, Edma!RefillOff
  PROVE  RxInv'
<1>1. e_rx \in EdmaRxs(e_rx.q) /\ e_odd' = e_odd
  BY DEF RxInv, Edma!RefillOff
<1>2. e_rx' = [e_rx EXCEPT !.refill = FALSE]
  BY DEF Edma!RefillOff
<1>3. e_rx' = [avail |-> e_rx'.avail, num |-> e_rx'.num, pend |-> e_rx'.pend, posted |-> e_rx'.posted, ring |-> e_rx'.ring, given |-> e_rx'.given,
             next |-> e_rx'.next, cnt |-> e_rx'.cnt, tail |-> e_rx'.tail, pc |-> e_rx'.pc, quota |-> e_rx'.quota, count |-> e_rx'.count,
             q |-> e_rx'.q, lost |-> e_rx'.lost, refill |-> e_rx'.refill]
  BY <1>1, <1>2 DEF EdmaRxs
<1>4. /\ e_rx'.avail = e_rx.avail /\ e_rx'.num = e_rx.num /\ e_rx'.pend = e_rx.pend /\ e_rx'.posted = e_rx.posted /\ e_rx'.ring = e_rx.ring
      /\ e_rx'.given = e_rx.given /\ e_rx'.next = e_rx.next /\ e_rx'.cnt = e_rx.cnt /\ e_rx'.lost = e_rx.lost /\ e_rx'.tail = e_rx.tail
      /\ e_rx'.refill = FALSE /\ e_rx'.pc = e_rx.pc /\ e_rx'.quota = e_rx.quota /\ e_rx'.count = e_rx.count
  BY <1>1, <1>2 DEF EdmaRxs
<1>5. e_rx' \in EdmaRxs(e_rx'.q)
  BY <1>1, <1>3, <1>4, RxFields, RxSizes DEF EdmaRxs
<1> QED
  BY <1>1, <1>4, <1>5, RxControl

LEMMA NodeNext ==
  ASSUME NEW n \in Nat \ {0}, NEW c \in 0 .. n - 1
  PROVE  (IF c + 1 = n THEN 0 ELSE c + 1) \in 0 .. n - 1
  OBVIOUS

LEMMA DevRxStep ==
  ASSUME RxInv, Edma!DevRx
  PROVE  RxInv'
<1>1. e_rx \in EdmaRxs(e_rx.q) /\ e_odd' = e_odd /\ e_rx.given > 0
  BY DEF RxInv, Edma!DevRx
<1>2. PICK n \in 1 .. EdmaCnt : /\ n <= Len(e_rx.posted)
                            /\ e_rx' = [e_rx EXCEPT !.given = @ - 1, !.ring = Append(@, SubSeq(e_rx.posted, 1, n)),
                                                !.posted = SubSeq(@, n + 1, Len(@))]
  BY DEF Edma!DevRx
<1> DEFINE a == SubSeq(e_rx.posted, 1, n)
           b == SubSeq(e_rx.posted, n + 1, Len(e_rx.posted))
           r == Append(e_rx.ring, a)
<1>3. e_rx' = [e_rx EXCEPT !.given = e_rx.given - 1, !.ring = r, !.posted = b]
  BY <1>2
<1>4. e_rx.posted \in Seq(Nat) /\ e_rx.pend \in Seq(Nat) /\ e_rx.ring \in Seq(Seq(Nat)) /\ e_rx.next \in Nat /\ e_rx.given \in Nat
  BY <1>1, RxFields
<1>5. n \in 0 .. Len(e_rx.posted) /\ Len(e_rx.posted) \in Nat
  BY <1>2, <1>4, RxSizes
<1>6. a \in Seq(Nat) /\ b \in Seq(Nat)
  BY <1>4, <1>5, CutSeq
<1>7. r \in Seq(Seq(Nat)) /\ Len(r) = Len(e_rx.ring) + 1 /\ Len(e_rx.ring) \in Nat
  BY <1>4, <1>6, RingAppend
<1>8. InPlace(b, e_rx.pend, r, e_rx.next) /\ OutAt(b, r) = OutAt(e_rx.posted, e_rx.ring)
  BY <1>4, <1>5, PlacesList DEF RxInv, RxHeld, Held
<1> HIDE DEF a, b, r
<1>9. e_rx' = [avail |-> e_rx'.avail, num |-> e_rx'.num, pend |-> e_rx'.pend, posted |-> e_rx'.posted, ring |-> e_rx'.ring, given |-> e_rx'.given,
             next |-> e_rx'.next, cnt |-> e_rx'.cnt, tail |-> e_rx'.tail, pc |-> e_rx'.pc, quota |-> e_rx'.quota, count |-> e_rx'.count,
             q |-> e_rx'.q, lost |-> e_rx'.lost, refill |-> e_rx'.refill]
  BY <1>1, <1>3 DEF EdmaRxs
<1>10. /\ e_rx'.avail = e_rx.avail /\ e_rx'.num = e_rx.num /\ e_rx'.pend = e_rx.pend /\ e_rx'.posted = b /\ e_rx'.ring = r
       /\ e_rx'.given = e_rx.given - 1 /\ e_rx'.next = e_rx.next /\ e_rx'.cnt = e_rx.cnt /\ e_rx'.lost = e_rx.lost /\ e_rx'.tail = e_rx.tail
       /\ e_rx'.refill = e_rx.refill /\ e_rx'.pc = e_rx.pc /\ e_rx'.quota = e_rx.quota /\ e_rx'.count = e_rx.count
  BY <1>1, <1>3 DEF EdmaRxs
<1>11. e_rx.given - 1 \in Nat
  BY <1>1, <1>4
<1>12. e_rx' \in EdmaRxs(e_rx'.q)
  BY <1>1, <1>6, <1>7, <1>9, <1>10, <1>11, RxFields DEF EdmaRxs
<1>13. RxHeld'
  BY <1>8, <1>10 DEF RxInv, RxHeld, Held, Edma!Total
<1>14. RxNodes'
  <2>1. e_rx.given + Len(e_rx.ring) + e_rx.cnt = EdmaN /\ e_rx.cnt \in Int
    BY <1>1, RxFields DEF RxInv, RxNodes
  <2>2. (e_rx.given - 1) + (Len(e_rx.ring) + 1) + e_rx.cnt = EdmaN
    <3>1. e_rx.given \in Nat /\ Len(e_rx.ring) \in Nat
      BY <1>4, <1>7
    <3>2. PICK g \in Nat : g = e_rx.given
      BY <3>1
    <3>3. PICK l \in Nat : l = Len(e_rx.ring)
      BY <3>1
    <3>4. PICK c \in Int : c = e_rx.cnt
      BY <2>1
    <3>5. g + l + c = EdmaN
      BY <2>1, <3>2, <3>3, <3>4
    <3>6. (g - 1) + (l + 1) + c = EdmaN
      BY ONLY <3>5, g \in Nat, l \in Nat, c \in Int
    <3> QED
      BY <3>2, <3>3, <3>4, <3>6
  <2> QED
    BY <1>7, <1>10, <2>2 DEF RxNodes
<1>16. RxOdd'
  BY <1>1, <1>10 DEF RxInv, RxOdd
<1> QED
  BY <1>12, <1>13, <1>14, <1>16 DEF RxInv

LEMMA TakenDoes ==
  ASSUME NEW z, z \in EdmaRxs(z.q), NEW us \in Seq(Nat), NEW bad \in SUBSET Nat, Len(us) <= z.num
  PROVE  /\ Edma!Taken(z, us, bad) \in EdmaRxs(Edma!Taken(z, us, bad).q)
         /\ Edma!Taken(z, us, bad).avail = z.avail \ Edma!ToSet(us) /\ Edma!Taken(z, us, bad).num = z.num - Len(us)
         /\ Edma!Taken(z, us, bad).pend = z.pend /\ Edma!Taken(z, us, bad).posted = z.posted /\ Edma!Taken(z, us, bad).ring = z.ring
         /\ Edma!Taken(z, us, bad).given = z.given /\ Edma!Taken(z, us, bad).next = z.next /\ Edma!Taken(z, us, bad).cnt = z.cnt
         /\ Edma!Taken(z, us, bad).lost = z.lost \cup bad /\ Edma!Taken(z, us, bad).tail = z.tail
<1> DEFINE v == z.q \o SelectSeq(us, LAMBDA u : u \notin bad)
           t == Edma!Taken(z, us, bad)
<1>1. t = [z EXCEPT !.avail = @ \ Edma!ToSet(us), !.num = @ - Len(us), !.q = v, !.lost = @ \cup bad]
  BY DEF Edma!Taken
<1> HIDE DEF v, t
<1>2. t = [avail |-> t.avail, num |-> t.num, pend |-> t.pend, posted |-> t.posted, ring |-> t.ring, given |-> t.given,
           next |-> t.next, cnt |-> t.cnt, tail |-> t.tail, pc |-> t.pc, quota |-> t.quota, count |-> t.count,
           q |-> t.q, lost |-> t.lost, refill |-> t.refill]
  BY <1>1 DEF EdmaRxs
<1>3. /\ t.avail = z.avail \ Edma!ToSet(us) /\ t.num = z.num - Len(us) /\ t.pend = z.pend /\ t.posted = z.posted /\ t.ring = z.ring
      /\ t.given = z.given /\ t.next = z.next /\ t.cnt = z.cnt /\ t.lost = z.lost \cup bad /\ t.tail = z.tail
      /\ t.refill = z.refill /\ t.pc = z.pc /\ t.quota = z.quota /\ t.count = z.count
  BY <1>1 DEF EdmaRxs
<1>4. z.num - Len(us) \in Nat
  <2>1. z.num \in Nat /\ Len(us) \in Nat
    BY RxFields
  <2> QED
    BY <2>1
<1>5. z.avail \ Edma!ToSet(us) \in SUBSET Nat /\ z.lost \cup bad \in SUBSET Nat
  BY RxFields
<1>6. t \in EdmaRxs(t.q)
  BY <1>2, <1>3, <1>4, <1>5, RxFields DEF EdmaRxs
<1> QED
  BY <1>3, <1>6 DEF t

Filled(k) == \E m \in Nat : k = m * EdmaCnt

LEMMA NodesFilled ==
  ASSUME NEW k, Filled(k), NEW p \in Nat
  PROVE  (((p % EdmaCnt) + k) \div EdmaCnt) * EdmaCnt = k
<1>0. PICK m \in Nat : k = m * EdmaCnt
  BY DEF Filled
<1>1. p % EdmaCnt \in 0 .. EdmaCnt - 1
  BY RxSizes, ModRange
<1>2. ((p % EdmaCnt) + m * EdmaCnt) \div EdmaCnt = m
  BY <1>1, RxSizes, ModUnique
<1> QED
  BY <1>0, <1>2

LEMMA JoinLength ==
  ASSUME NEW s \in Seq(Nat), NEW t \in Seq(Nat)
  PROVE  s \o t \in Seq(Nat) /\ Len(s \o t) = Len(s) + Len(t) /\ Len(s) \in Nat
  OBVIOUS

\* h is z after ok of k new buffers were written into the ring that hands them out.
HandedOut(z, k, ok, sub, h) ==
  LET f == EdmaFresh(z.next, ok)
      w == z.pend \o f
  IN  /\ h \in EdmaRxs(h.q) /\ h.avail = z.avail \cup Edma!ToSet(f) /\ h.next = z.next + ok /\ h.ring = z.ring
      /\ h.given = z.given /\ h.cnt = z.cnt /\ h.lost = z.lost /\ h.tail = z.tail
      /\ ok < k \/ ~sub => h.pend = w /\ h.posted = z.posted /\ h.num = z.num
      /\ ~(ok < k \/ ~sub) => h.pend = SubSeq(w, k + 1, Len(w)) /\ h.posted = z.posted \o SubSeq(w, 1, k) /\ h.num = z.num + k

LEMMA HandedDoes ==
  ASSUME NEW z, z \in EdmaRxs(z.q), NEW k \in Nat, Filled(k), NEW ok \in 0 .. k, NEW sub \in BOOLEAN
  PROVE  HandedOut(z, k, ok, sub, Edma!Handed(z, k, ok, sub))
<1> DEFINE h == Edma!Handed(z, k, ok, sub)
           f == EdmaFresh(z.next, ok)
           w == z.pend \o f
           c == ((Len(z.pend) % EdmaCnt) + k) \div EdmaCnt
           q == [z EXCEPT !.avail = @ \cup Edma!ToSet(f), !.next = @ + ok]
           a == SubSeq(w, 1, k)
           b == SubSeq(w, k + 1, Len(w))
<1>1. z.pend \in Seq(Nat) /\ z.posted \in Seq(Nat) /\ z.next \in Nat /\ z.num \in Nat /\ ok \in Nat /\ z.avail \in SUBSET Nat
  BY RxFields
<1>2. f \in Seq(Nat) /\ Len(f) = ok /\ Edma!ToSet(f) \in SUBSET Nat
  BY <1>1, NewBuffers
<1>3. w \in Seq(Nat) /\ Len(w) = Len(z.pend) + ok /\ Len(z.pend) \in Nat
  <2> HIDE DEF f
  <2>1. z.pend \o f \in Seq(Nat) /\ Len(z.pend \o f) = Len(z.pend) + Len(f) /\ Len(z.pend) \in Nat
    BY <1>1, <1>2, JoinLength
  <2> QED
    BY <1>2, <2>1
<1>4. c * EdmaCnt = k
  BY <1>3, NodesFilled
<1>5. h = IF ok < k \/ ~sub THEN [q EXCEPT !.pend = w]
          ELSE [q EXCEPT !.pend = SubSeq(w, c * EdmaCnt + 1, Len(w)), !.posted = @ \o SubSeq(w, 1, c * EdmaCnt), !.num = @ + k]
  BY DEF Edma!Handed, EdmaFresh
<1> HIDE DEF c
<1>6. h = IF ok < k \/ ~sub THEN [q EXCEPT !.pend = w] ELSE [q EXCEPT !.pend = b, !.posted = @ \o a, !.num = @ + k]
  BY <1>4, <1>5
<1>7. CASE ~(ok < k \/ ~sub)
  <2>1. k \in 0 .. Len(w)
    BY <1>3, <1>7
  <2>2. a \in Seq(Nat) /\ b \in Seq(Nat)
    BY <1>3, <2>1, CutSeq
  <2>3. q = [z EXCEPT !.avail = @ \cup Edma!ToSet(f), !.next = @ + ok]
    OBVIOUS
  <2>4. h = [q EXCEPT !.pend = b, !.posted = @ \o a, !.num = @ + k]
    BY <1>6, <1>7
  <2> HIDE DEF h, w, f, a, b, q
  <2>5. h = [z EXCEPT !.avail = z.avail \cup Edma!ToSet(f), !.next = z.next + ok, !.pend = b, !.posted = z.posted \o a, !.num = z.num + k]
    BY <2>3, <2>4 DEF EdmaRxs
  <2>6. h = [avail |-> h.avail, num |-> h.num, pend |-> h.pend, posted |-> h.posted, ring |-> h.ring, given |-> h.given,
             next |-> h.next, cnt |-> h.cnt, tail |-> h.tail, pc |-> h.pc, quota |-> h.quota, count |-> h.count,
             q |-> h.q, lost |-> h.lost, refill |-> h.refill]
    BY <2>5 DEF EdmaRxs
  <2>7. /\ h.avail = z.avail \cup Edma!ToSet(f) /\ h.num = z.num + k /\ h.pend = b /\ h.posted = z.posted \o a /\ h.ring = z.ring
        /\ h.given = z.given /\ h.next = z.next + ok /\ h.cnt = z.cnt /\ h.lost = z.lost /\ h.tail = z.tail
        /\ h.refill = z.refill /\ h.pc = z.pc /\ h.quota = z.quota /\ h.count = z.count
    BY <2>5 DEF EdmaRxs
  <2>8. z.num + k \in Nat /\ z.next + ok \in Nat
    BY <1>1
  <2>9. z.posted \o a \in Seq(Nat) /\ z.avail \cup Edma!ToSet(f) \in SUBSET Nat
    BY <1>1, <1>2, <2>2
  <2>10. h \in EdmaRxs(h.q)
    BY <2>2, <2>6, <2>7, <2>8, <2>9, RxFields DEF EdmaRxs
  <2> QED
    BY <1>7, <2>7, <2>10 DEF h, w, f, a, b, HandedOut
<1>8. CASE ok < k \/ ~sub
  <2>3. q = [z EXCEPT !.avail = @ \cup Edma!ToSet(f), !.next = @ + ok]
    OBVIOUS
  <2>4. h = [q EXCEPT !.pend = w]
    BY <1>6, <1>8
  <2> HIDE DEF h, w, f, a, b, q
  <2>5. h = [z EXCEPT !.avail = z.avail \cup Edma!ToSet(f), !.next = z.next + ok, !.pend = w]
    BY <2>3, <2>4 DEF EdmaRxs
  <2>6. h = [avail |-> h.avail, num |-> h.num, pend |-> h.pend, posted |-> h.posted, ring |-> h.ring, given |-> h.given,
             next |-> h.next, cnt |-> h.cnt, tail |-> h.tail, pc |-> h.pc, quota |-> h.quota, count |-> h.count,
             q |-> h.q, lost |-> h.lost, refill |-> h.refill]
    BY <2>5 DEF EdmaRxs
  <2>7. /\ h.avail = z.avail \cup Edma!ToSet(f) /\ h.num = z.num /\ h.pend = w /\ h.posted = z.posted /\ h.ring = z.ring
        /\ h.given = z.given /\ h.next = z.next + ok /\ h.cnt = z.cnt /\ h.lost = z.lost /\ h.tail = z.tail
        /\ h.refill = z.refill /\ h.pc = z.pc /\ h.quota = z.quota /\ h.count = z.count
    BY <2>5 DEF EdmaRxs
  <2>8. z.next + ok \in Nat
    BY <1>1
  <2>9. z.avail \cup Edma!ToSet(f) \in SUBSET Nat
    BY <1>1, <1>2
  <2>10. h \in EdmaRxs(h.q)
    BY <1>3, <2>6, <2>7, <2>8, <2>9, RxFields DEF EdmaRxs
  <2> QED
    BY <1>8, <2>7, <2>10 DEF h, w, f, HandedOut
<1> QED
  BY <1>7, <1>8

LEMMA WantedBound ==
  ASSUME NEW z, z \in EdmaRxs(z.q), z.num <= Edma!Total
  PROVE  Filled(Edma!Wanted(z)) /\ Edma!Wanted(z) \in Nat /\ Edma!Wanted(z) <= Edma!Total - z.num
<1>1. z.num \in Nat /\ Edma!Total - z.num \in Nat
  BY RxFields, RxSizes
<1> DEFINE d == Edma!Total - z.num
<1>2. d \in Nat
  BY <1>1
<1> HIDE DEF d
<1>3. (d \div EdmaCnt) * EdmaCnt \in Nat /\ (d \div EdmaCnt) * EdmaCnt <= d /\ d \div EdmaCnt \in Nat
  BY <1>2, RxSizes, DivLow, ModRange
<1>4. Edma!Wanted(z) = (d \div EdmaCnt) * EdmaCnt \/ Edma!Wanted(z) = 0
  BY DEF Edma!Wanted, d
<1>5. CASE Edma!Wanted(z) = (d \div EdmaCnt) * EdmaCnt
  BY <1>3, <1>5 DEF d, Filled
<1>6. CASE Edma!Wanted(z) = 0
  <2>1. 0 = 0 * EdmaCnt /\ 0 \in Nat /\ 0 <= d
    BY <1>2, RxSizes
  <2> QED
    BY <1>6, <2>1 DEF d, Filled
<1> QED
  BY <1>4, <1>5, <1>6

\* What the buffers of a ring are made of after a node was processed and buffers were handed out.
LEMMA NodeServed ==
  ASSUME NEW posted \in Seq(Nat), NEW pend \in Seq(Nat), NEW ring \in Seq(Seq(Nat)), NEW next \in Nat, NEW avail, NEW num,
         Held(posted, pend, ring, next, avail, num), ring # <<>>
  PROVE  /\ Held(posted, pend, Tail(ring), next, avail \ Edma!ToSet(ring[1]), num - Len(ring[1]))
         /\ Tail(ring) \in Seq(Seq(Nat)) /\ ring[1] \in Seq(Nat) /\ Len(ring[1]) <= num
<1>0. /\ InPlace(posted, pend, ring, next) /\ IsFiniteSet(OutAt(posted, ring)) /\ num = Cardinality(OutAt(posted, ring))
      /\ avail = OutAt(posted, ring) \cup Edma!ToSet(pend)
  BY DEF Held
<1>1. /\ InPlace(posted, pend, Tail(ring), next) /\ IsFiniteSet(OutAt(posted, Tail(ring)))
      /\ OutAt(posted, Tail(ring)) = OutAt(posted, ring) \ Edma!ToSet(ring[1]) /\ Edma!ToSet(ring[1]) \cap Edma!ToSet(pend) = {}
      /\ Cardinality(OutAt(posted, Tail(ring))) = Cardinality(OutAt(posted, ring)) - Len(ring[1])
      /\ Len(ring[1]) <= Cardinality(OutAt(posted, ring))
  BY <1>0, PlacesTake
<1>2. Tail(ring) \in Seq(Seq(Nat)) /\ ring[1] \in Seq(Nat)
  BY RingTail
<1>3. avail \ Edma!ToSet(ring[1]) = OutAt(posted, Tail(ring)) \cup Edma!ToSet(pend)
  <2> DEFINE o == OutAt(posted, ring)
             p == OutAt(posted, Tail(ring))
             u == Edma!ToSet(ring[1])
             w == Edma!ToSet(pend)
  <2>1. p = o \ u /\ u \cap w = {} /\ avail = o \cup w
    BY <1>0, <1>1
  <2> HIDE DEF o, p, u, w
  <2>2. avail \ u = p \cup w
    BY <2>1
  <2> QED
    BY <2>2 DEF p, u, w
<1> QED
  BY <1>0, <1>1, <1>2, <1>3 DEF Held

LEMMA BuffersWritten ==
  ASSUME NEW posted \in Seq(Nat), NEW pend \in Seq(Nat), NEW ring \in Seq(Seq(Nat)), NEW next \in Nat, NEW avail, NEW num,
         Held(posted, pend, ring, next, avail, num), NEW ok \in Nat
  PROVE  /\ Held(posted, pend \o EdmaFresh(next, ok), ring, next + ok, avail \cup Edma!ToSet(EdmaFresh(next, ok)), num)
         /\ pend \o EdmaFresh(next, ok) \in Seq(Nat) /\ Len(pend \o EdmaFresh(next, ok)) = Len(pend) + ok /\ next + ok \in Nat
<1> DEFINE f == EdmaFresh(next, ok)
           w == pend \o f
<1>0. /\ InPlace(posted, pend, ring, next) /\ IsFiniteSet(OutAt(posted, ring)) /\ num = Cardinality(OutAt(posted, ring))
      /\ avail = OutAt(posted, ring) \cup Edma!ToSet(pend)
  BY DEF Held
<1>1. /\ InPlace(posted, w, ring, next + ok) /\ f \in Seq(Nat) /\ Len(f) = ok
      /\ Edma!ToSet(w) = Edma!ToSet(pend) \cup Edma!ToSet(f)
  <2>1. InPlace(posted, pend, ring, next)
    BY <1>0
  <2>2. /\ InPlace(posted, pend \o EdmaFresh(next, ok), ring, next + ok) /\ EdmaFresh(next, ok) \in Seq(Nat) /\ Len(EdmaFresh(next, ok)) = ok
        /\ Edma!ToSet(pend \o EdmaFresh(next, ok)) = Edma!ToSet(pend) \cup Edma!ToSet(EdmaFresh(next, ok))
    <3>1. InPlace(posted, pend \o EdmaFresh(next, ok), ring, next + ok)
      BY <2>1, PlacesGrow, SMTT(60)
    <3>2. EdmaFresh(next, ok) \in Seq(Nat)
      BY <2>1, PlacesGrow, NewBuffers
    <3>3. Len(EdmaFresh(next, ok)) = ok
      BY <2>1, PlacesGrow, NewBuffers
    <3>4. Edma!ToSet(pend \o EdmaFresh(next, ok)) = Edma!ToSet(pend) \cup Edma!ToSet(EdmaFresh(next, ok))
      BY <2>1, PlacesGrow
    <3> QED
      BY <3>1, <3>2, <3>3, <3>4
  <2> QED
    BY <2>2
<1> HIDE DEF f
<1>2. w \in Seq(Nat) /\ Len(w) = Len(pend) + ok
  BY <1>1, JoinLength
<1> HIDE DEF w
<1>3. avail \cup Edma!ToSet(f) = OutAt(posted, ring) \cup Edma!ToSet(w)
  BY <1>0, <1>1
<1>4. next + ok \in Nat
  OBVIOUS
<1>5. Held(posted, w, ring, next + ok, avail \cup Edma!ToSet(f), num)
  BY <1>0, <1>1, <1>3 DEF Held
<1> QED
  BY <1>2, <1>4, <1>5 DEF f, w

LEMMA BuffersMoved ==
  ASSUME NEW posted \in Seq(Nat), NEW w \in Seq(Nat), NEW ring \in Seq(Seq(Nat)), NEW next \in Nat, NEW avail, NEW num,
         Held(posted, w, ring, next, avail, num), NEW k \in 0 .. Len(w)
  PROVE  Held(posted \o SubSeq(w, 1, k), SubSeq(w, k + 1, Len(w)), ring, next, avail, num + k)
<1>0. /\ InPlace(posted, w, ring, next) /\ IsFiniteSet(OutAt(posted, ring)) /\ num = Cardinality(OutAt(posted, ring))
      /\ avail = OutAt(posted, ring) \cup Edma!ToSet(w)
  BY DEF Held
<1>1. /\ InPlace(posted \o SubSeq(w, 1, k), SubSeq(w, k + 1, Len(w)), ring, next)
      /\ IsFiniteSet(OutAt(posted \o SubSeq(w, 1, k), ring))
      /\ Cardinality(OutAt(posted \o SubSeq(w, 1, k), ring)) = Cardinality(OutAt(posted, ring)) + k
      /\ OutAt(posted, ring) \cup Edma!ToSet(w) = OutAt(posted \o SubSeq(w, 1, k), ring) \cup Edma!ToSet(SubSeq(w, k + 1, Len(w)))
  BY <1>0, PlacesMove
<1> QED
  BY <1>0, <1>1 DEF Held

LEMMA PollNodeStep ==
  ASSUME RxInv, Edma!PollNode
  PROVE  RxInv' /\ e_odd \subseteq e_odd' /\ e_odd' \subseteq e_odd \cup {"leaked", "behind"}
<1>1. e_rx \in EdmaRxs(e_rx.q) /\ e_rx.ring # <<>>
  BY DEF RxInv, Edma!PollNode
<1>2. PICK bad \in {{}} \cup {{u} : u \in Edma!ToSet(e_rx.ring[1])}, short \in BOOLEAN, sub \in BOOLEAN :
        LET r == Edma!Taken(e_rx, e_rx.ring[1], bad)
            k == Edma!Wanted(r)
            count == e_rx.count + Len(e_rx.ring[1])
            h == Edma!Handed(r, k, IF short /\ k > 0 THEN k - 1 ELSE k, sub) IN
        /\ (k = 0 => ~short /\ sub)
        /\ LET cost == [bad |-> IF bad = {} THEN 0 ELSE 1, oom |-> IF short THEN 1 ELSE 0, nosub |-> IF sub THEN 0 ELSE 1] IN
           /\ \A x \in DOMAIN cost : e_load[x] >= cost[x]
           /\ e_load' = [x \in DOMAIN e_load |-> IF x \in DOMAIN cost THEN e_load[x] - cost[x] ELSE e_load[x]]
        /\ e_rx' = [h EXCEPT !.ring = Tail(@), !.count = count, !.quota = IF @ >= count THEN @ - count ELSE 0,
                           !.tail = (@ + 1) % EdmaN, !.pc = IF (e_rx.tail + 1) % EdmaN = 0 THEN "end" ELSE "poll",
                           !.cnt = IF @ + 1 = EdmaN THEN 0 ELSE @ + 1,
                           !.given = IF e_rx.cnt + 1 = EdmaN THEN @ + EdmaN ELSE @]
        /\ e_odd' = e_odd \cup (IF bad # {} THEN {"leaked"} ELSE {}) \cup (IF short \/ ~sub THEN {"behind"} ELSE {})
  BY Zenon DEF Edma!PollNode
<1> DEFINE us == e_rx.ring[1]
           count == e_rx.count + Len(us)
           r == Edma!Taken(e_rx, us, bad)
           k == Edma!Wanted(r)
           ok == IF short /\ k > 0 THEN k - 1 ELSE k
           h == Edma!Handed(r, k, ok, sub)
           f == EdmaFresh(r.next, ok)
           w == r.pend \o f
           a == SubSeq(w, 1, k)
           b == SubSeq(w, k + 1, Len(w))
           ring == Tail(e_rx.ring)
           fail == ok < k \/ ~sub
<1>8. /\ (k = 0 => ~short /\ sub)
      /\ e_rx' = [h EXCEPT !.ring = Tail(@), !.count = count, !.quota = IF @ >= count THEN @ - count ELSE 0,
                         !.tail = (@ + 1) % EdmaN, !.pc = IF (e_rx.tail + 1) % EdmaN = 0 THEN "end" ELSE "poll",
                         !.cnt = IF @ + 1 = EdmaN THEN 0 ELSE @ + 1,
                         !.given = IF e_rx.cnt + 1 = EdmaN THEN @ + EdmaN ELSE @]
      /\ e_odd' = e_odd \cup (IF bad # {} THEN {"leaked"} ELSE {}) \cup (IF short \/ ~sub THEN {"behind"} ELSE {})
  BY <1>2
<1>3. /\ e_rx.posted \in Seq(Nat) /\ e_rx.pend \in Seq(Nat) /\ e_rx.ring \in Seq(Seq(Nat)) /\ e_rx.next \in Nat /\ e_rx.given \in Nat
      /\ e_rx.num \in Nat /\ e_rx.count \in Nat /\ e_rx.cnt \in 0 .. EdmaN - 1 /\ e_rx.tail \in 0 .. EdmaN - 1
  BY <1>1, RxFields
<1>4. /\ Held(e_rx.posted, e_rx.pend, ring, e_rx.next, e_rx.avail \ Edma!ToSet(us), e_rx.num - Len(us))
      /\ ring \in Seq(Seq(Nat)) /\ us \in Seq(Nat) /\ Len(us) <= e_rx.num
  <2>1. Held(e_rx.posted, e_rx.pend, e_rx.ring, e_rx.next, e_rx.avail, e_rx.num)
    BY DEF RxInv, RxHeld
  <2> QED
    BY <1>1, <1>3, <2>1, NodeServed
<1>5. Len(ring) = Len(e_rx.ring) - 1 /\ Len(e_rx.ring) \in Nat \ {0}
  BY <1>1, <1>3, RingTail
<1>6. bad \in SUBSET Nat
  <2>1. \A u \in Edma!ToSet(us) : u \in Nat
    <3> HIDE DEF us
    <3> QED
      BY <1>4 DEF Edma!ToSet
  <2> QED
    BY <1>2, <2>1
<1> HIDE DEF us, ring
<1>7. /\ r \in EdmaRxs(r.q) /\ r.avail = e_rx.avail \ Edma!ToSet(us) /\ r.num = e_rx.num - Len(us)
      /\ r.pend = e_rx.pend /\ r.posted = e_rx.posted /\ r.ring = e_rx.ring
      /\ r.given = e_rx.given /\ r.next = e_rx.next /\ r.cnt = e_rx.cnt /\ r.lost = e_rx.lost \cup bad /\ r.tail = e_rx.tail
  BY <1>1, <1>4, <1>6, TakenDoes
<1> HIDE DEF r
<1>9. r.num \in Nat /\ r.num <= Edma!Total
  <2>1. e_rx.num <= Edma!Total /\ e_rx.num \in Nat /\ Len(us) \in Nat
    BY <1>3, <1>4 DEF RxInv, RxHeld
  <2>2. r.num \in Nat
    BY <1>7, RxFields
  <2>3. r.num = e_rx.num - Len(us)
    BY <1>7
  <2> QED
    BY <2>1, <2>2, <2>3, RxSizes
<1>10. Filled(k) /\ k \in Nat /\ k <= Edma!Total - r.num
  BY <1>7, <1>9, WantedBound
<1> HIDE DEF k
<1>11. ok \in 0 .. k /\ ok \in Nat /\ (fail => k > 0 /\ (short \/ ~sub)) /\ (~fail => ok = k)
  <2>1. (k = 0 => ~short /\ sub) /\ k \in Nat
    BY <1>8, <1>10
  <2>2. ok \in 0 .. k /\ ok \in Nat
    BY <2>1
  <2>3. fail => k > 0 /\ (short \/ ~sub)
    BY <2>1
  <2>4. ~fail => ok = k
    BY <2>1, <2>2
  <2> QED
    BY <2>2, <2>3, <2>4
<1> HIDE DEF ok
<1>12. /\ h \in EdmaRxs(h.q) /\ h.avail = r.avail \cup Edma!ToSet(f) /\ h.next = r.next + ok /\ h.ring = r.ring
       /\ h.given = r.given /\ h.cnt = r.cnt /\ h.lost = r.lost /\ h.tail = r.tail
       /\ fail => h.pend = w /\ h.posted = r.posted /\ h.num = r.num
       /\ ~fail => h.pend = b /\ h.posted = r.posted \o a /\ h.num = r.num + k
  <2>1. r \in EdmaRxs(r.q) /\ k \in Nat /\ Filled(k) /\ ok \in 0 .. k /\ sub \in BOOLEAN
    BY <1>7, <1>10, <1>11
  <2>2. HandedOut(r, k, ok, sub, Edma!Handed(r, k, ok, sub))
    BY <2>1, HandedDoes
  <2>3. HandedOut(r, k, ok, sub, h)
    BY <2>2
  <2> HIDE DEF h
  <2> QED
    BY <2>3 DEF HandedOut
<1>13. /\ Held(r.posted, w, ring, r.next + ok, r.avail \cup Edma!ToSet(f), r.num)
       /\ ~fail => Held(r.posted \o a, b, ring, r.next + ok, r.avail \cup Edma!ToSet(f), r.num + k) /\ Len(b) = Len(r.pend)
  <2>1. /\ r.posted \in Seq(Nat) /\ r.pend \in Seq(Nat) /\ ring \in Seq(Seq(Nat)) /\ r.next \in Nat /\ ok \in Nat
        /\ Held(r.posted, r.pend, ring, r.next, r.avail, r.num) /\ Len(r.pend) \in Nat
    BY <1>3, <1>4, <1>7, <1>11
  <2>2. /\ Held(r.posted, w, ring, r.next + ok, r.avail \cup Edma!ToSet(f), r.num)
        /\ w \in Seq(Nat) /\ Len(w) = Len(r.pend) + ok /\ r.next + ok \in Nat
    BY <2>1, BuffersWritten
  <2> HIDE DEF w, f
  <2>3. ASSUME ~fail PROVE k \in 0 .. Len(w) /\ ok = k
    <3>1. ok = k /\ k \in Nat
      BY <1>10, <1>11, <2>3
    <3> QED
      BY <2>1, <2>2, <3>1
  <2>4. ASSUME ~fail PROVE Held(r.posted \o a, b, ring, r.next + ok, r.avail \cup Edma!ToSet(f), r.num + k)
    <3>1. k \in 0 .. Len(w)
      BY <2>3, <2>4
    <3> QED
      BY <2>1, <2>2, <3>1, BuffersMoved
  <2>5. ASSUME ~fail PROVE Len(b) = Len(r.pend)
    <3>1. k \in 0 .. Len(w) /\ ok = k
      BY <2>3, <2>5
    <3>2. Len(b) = Len(w) - k
      BY <2>2, <3>1, CutSeq
    <3> HIDE DEF b
    <3> QED
      BY <2>1, <2>2, <3>1, <3>2
  <2> QED
    BY <2>2, <2>4, <2>5
<1> HIDE DEF h, f, w, a, b
<1> DEFINE quota == IF h.quota >= count THEN h.quota - count ELSE 0
           tail == (e_rx.tail + 1) % EdmaN
           pc == IF (e_rx.tail + 1) % EdmaN = 0 THEN "end" ELSE "poll"
           cnt == IF e_rx.cnt + 1 = EdmaN THEN 0 ELSE e_rx.cnt + 1
           given == IF e_rx.cnt + 1 = EdmaN THEN e_rx.given + EdmaN ELSE e_rx.given
<1>14. e_rx' = [h EXCEPT !.ring = ring, !.count = count, !.quota = quota, !.tail = tail, !.pc = pc, !.cnt = cnt, !.given = given]
  <2>1. h.ring = e_rx.ring /\ h.tail = e_rx.tail /\ h.cnt = e_rx.cnt /\ h.given = e_rx.given
    BY <1>7, <1>12
  <2> HIDE DEF count
  <2> QED
    BY <1>8, <2>1 DEF ring
<1>15. count \in Nat /\ quota \in Nat /\ tail \in 0 .. EdmaN - 1 /\ pc \in {"end", "poll"} /\ cnt \in 0 .. EdmaN - 1 /\ given \in Nat
  <2>1. count \in Nat
    <3>1. Len(us) \in Nat
      BY <1>4
    <3> QED
      BY <1>3, <3>1 DEF us
  <2>2. h.quota \in Nat
    BY <1>12, RxFields
  <2> HIDE DEF count
  <2>3. quota \in Nat
    BY <2>1, <2>2
  <2>4. e_rx.tail + 1 \in Nat /\ EdmaN \in Nat \ {0}
    BY <1>3, RxSizes
  <2>5. tail \in 0 .. EdmaN - 1
    BY <2>4, ModRange
  <2>6. cnt \in 0 .. EdmaN - 1
    <3>1. e_rx.cnt \in 0 .. EdmaN - 1 /\ EdmaN \in Nat \ {0}
      BY <1>3, RxSizes
    <3> QED
      BY <3>1, NodeNext
  <2>7. e_rx.given + EdmaN \in Nat /\ e_rx.given \in Nat
    BY <1>3, <2>4
  <2> QED
    BY <2>1, <2>3, <2>5, <2>6, <2>7
<1> HIDE DEF count, quota, tail, pc, cnt, given
<1>16. e_rx' = [avail |-> e_rx'.avail, num |-> e_rx'.num, pend |-> e_rx'.pend, posted |-> e_rx'.posted, ring |-> e_rx'.ring, given |-> e_rx'.given,
              next |-> e_rx'.next, cnt |-> e_rx'.cnt, tail |-> e_rx'.tail, pc |-> e_rx'.pc, quota |-> e_rx'.quota, count |-> e_rx'.count,
              q |-> e_rx'.q, lost |-> e_rx'.lost, refill |-> e_rx'.refill]
  BY <1>12, <1>14 DEF EdmaRxs
<1>17. /\ e_rx'.avail = h.avail /\ e_rx'.num = h.num /\ e_rx'.pend = h.pend /\ e_rx'.posted = h.posted /\ e_rx'.ring = ring
       /\ e_rx'.given = given /\ e_rx'.next = h.next /\ e_rx'.cnt = cnt /\ e_rx'.lost = h.lost /\ e_rx'.tail = tail
       /\ e_rx'.refill = h.refill /\ e_rx'.pc = pc /\ e_rx'.quota = quota /\ e_rx'.count = count
  BY <1>12, <1>14 DEF EdmaRxs
<1>18. e_rx' \in EdmaRxs(e_rx'.q)
  BY <1>4, <1>12, <1>15, <1>16, <1>17, RxFields DEF EdmaRxs
<1>19. RxHeld'
  <2>1. Edma!Total' = Edma!Total
    BY DEF Edma!Total
  <2>2. CASE fail
    <3>1. h.num = r.num /\ h.posted = r.posted /\ h.pend = w /\ h.avail = r.avail \cup Edma!ToSet(f) /\ h.next = r.next + ok
      BY <1>12, <2>2
    <3> QED
      BY <1>9, <1>13, <1>17, <2>1, <3>1 DEF RxHeld
  <2>3. CASE ~fail
    <3>1. h.num = r.num + k /\ h.posted = r.posted \o a /\ h.pend = b /\ h.avail = r.avail \cup Edma!ToSet(f) /\ h.next = r.next + ok
      BY <1>12, <2>3
    <3>2. r.num + k <= Edma!Total
      BY <1>9, <1>10, RxSizes
    <3> QED
      BY <1>13, <1>17, <2>1, <2>3, <3>1, <3>2 DEF RxHeld
  <2> QED
    BY <2>2, <2>3
<1>20. RxNodes'
  <2>1. e_rx.given + Len(e_rx.ring) + e_rx.cnt = EdmaN /\ e_rx.given \in Nat /\ e_rx.cnt \in 0 .. EdmaN - 1 /\ EdmaN \in Nat
    BY <1>3, RxSizes DEF RxInv, RxNodes
  <2>2. given + (Len(e_rx.ring) - 1) + cnt = EdmaN
    <3>3. PICK g \in Nat : g = e_rx.given
      BY <2>1
    <3>4. PICK l \in Nat : l = Len(e_rx.ring)
      BY <1>5
    <3>5. PICK c \in Nat : c = e_rx.cnt
      BY <2>1
    <3>6. EdmaN \in Nat
      BY <2>1
    <3>7. g + l + c = EdmaN
      BY <2>1, <3>3, <3>4, <3>5
    <3>1. CASE e_rx.cnt + 1 = EdmaN
      <4>1. given = e_rx.given + EdmaN /\ cnt = 0
        BY <3>1 DEF given, cnt
      <4>2. c + 1 = EdmaN
        BY <3>1, <3>5
      <4>3. (g + EdmaN) + (l - 1) + 0 = EdmaN
        BY ONLY <3>6, <3>7, <4>2, g \in Nat, l \in Nat, c \in Nat
      <4> QED
        BY <3>3, <3>4, <4>1, <4>3
    <3>2. CASE e_rx.cnt + 1 # EdmaN
      <4>1. given = e_rx.given /\ cnt = e_rx.cnt + 1
        BY <3>2 DEF given, cnt
      <4>2. g + (l - 1) + (c + 1) = EdmaN
        BY ONLY <3>6, <3>7, g \in Nat, l \in Nat, c \in Nat
      <4> QED
        BY <3>3, <3>4, <3>5, <4>1, <4>2
    <3> QED
      BY <3>1, <3>2
  <2> QED
    BY <1>5, <1>17, <2>2 DEF RxNodes
<1>22. RxOdd'
  <2>1. (e_rx.pend # <<>> => "behind" \in e_odd) /\ (e_rx.lost # {} => "leaked" \in e_odd)
    BY DEF RxInv, RxOdd
  <2>2. e_rx'.pend # <<>> => "behind" \in e_odd'
    <3>1. CASE fail
      BY <1>8, <1>11, <3>1
    <3>2. CASE ~fail
      <4>1. e_rx'.pend = b /\ Len(b) = Len(e_rx.pend) /\ e_rx.pend \in Seq(Nat)
        BY <1>3, <1>7, <1>12, <1>13, <1>17, <3>2
      <4>2. e_rx.pend = <<>> => Len(b) = 0
        BY <4>1
      <4>3. b \in Seq(Nat)
        BY <1>17, <1>18, <4>1, RxFields
      <4>4. Len(b) = 0 => b = <<>>
        BY <4>3
      <4> QED
        BY <1>8, <2>1, <4>1, <4>2, <4>4
    <3> QED
      BY <3>1, <3>2
  <2>3. e_rx'.lost = e_rx.lost \cup bad
    BY <1>7, <1>12, <1>17
  <2>4. e_rx'.lost # {} => "leaked" \in e_odd'
    BY <1>8, <2>1, <2>3
  <2> QED
    BY <2>2, <2>4 DEF RxOdd
<1>23. e_odd \subseteq e_odd' /\ e_odd' \subseteq e_odd \cup {"leaked", "behind"}
  BY <1>8
<1> QED
  BY <1>18, <1>19, <1>20, <1>22, <1>23 DEF RxInv

-----------------------------------------------------------------------------
\* Frames sent.
LEMMA TxFields ==
  ASSUME TxInv
  PROVE  /\ e_tx.list \in SUBSET Nat /\ e_tx.dev \in SUBSET Nat /\ e_tx.ring \in Seq(SUBSET Nat) /\ e_tx.hold \in SUBSET Nat
         /\ e_tx.pc \in {"idle", "free", "back"} /\ e_tx.freed \in SUBSET Nat /\ e_tx.next \in Nat
  BY DEF TxInv, EdmaTxs

\* The record of the frames again, from its fields.
LEMMA TxRecord ==
  ASSUME NEW z, z = [list |-> z.list, dev |-> z.dev, ring |-> z.ring, hold |-> z.hold, pc |-> z.pc, freed |-> z.freed, next |-> z.next],
         z.list \in SUBSET Nat, z.dev \in SUBSET Nat, z.ring \in Seq(SUBSET Nat), z.hold \in SUBSET Nat,
         z.pc \in {"idle", "free", "back"}, z.freed \in SUBSET Nat, z.next \in Nat
  PROVE  z \in EdmaTxs
  BY DEF EdmaTxs

LEMMA PcieXmitStep ==
  ASSUME TxInv, Edma!PcieXmit
  PROVE  TxInv'
<1>1. /\ e_tx.list \in SUBSET Nat /\ e_tx.dev \in SUBSET Nat /\ e_tx.ring \in Seq(SUBSET Nat) /\ e_tx.hold \in SUBSET Nat
      /\ e_tx.pc \in {"idle", "free", "back"} /\ e_tx.freed \in SUBSET Nat /\ e_tx.next \in Nat
  BY TxFields
<1>2. e_tx \in EdmaTxs
  BY DEF TxInv
<1>3. PICK dev \in {e_tx.dev, e_tx.dev \cup {e_tx.next}} : e_tx' = [e_tx EXCEPT !.list = e_tx.list \cup {e_tx.next}, !.dev = dev, !.next = e_tx.next + 1]
  <2>1. \/ e_tx' = [e_tx EXCEPT !.list = @ \cup {e_tx.next}, !.dev = @ \cup {e_tx.next}, !.next = @ + 1]
        \/ e_tx' = [e_tx EXCEPT !.list = @ \cup {e_tx.next}, !.next = @ + 1]
    BY DEF Edma!PcieXmit
  <2>2. CASE e_tx' = [e_tx EXCEPT !.list = @ \cup {e_tx.next}, !.dev = @ \cup {e_tx.next}, !.next = @ + 1]
    BY <2>2
  <2>3. CASE e_tx' = [e_tx EXCEPT !.list = @ \cup {e_tx.next}, !.next = @ + 1]
    <3>1. e_tx' = [e_tx EXCEPT !.list = e_tx.list \cup {e_tx.next}, !.dev = e_tx.dev, !.next = e_tx.next + 1]
      BY <1>2, <2>3 DEF EdmaTxs
    <3> QED
      BY <3>1
  <2> QED
    BY <2>1, <2>2, <2>3
<1>4. /\ e_tx'.list = e_tx.list \cup {e_tx.next} /\ e_tx'.dev = dev /\ e_tx'.next = e_tx.next + 1
      /\ e_tx'.ring = e_tx.ring /\ e_tx'.hold = e_tx.hold /\ e_tx'.pc = e_tx.pc /\ e_tx'.freed = e_tx.freed
  BY <1>2, <1>3 DEF EdmaTxs
<1>5. e_tx' = [list |-> e_tx'.list, dev |-> e_tx'.dev, ring |-> e_tx'.ring, hold |-> e_tx'.hold, pc |-> e_tx'.pc, freed |-> e_tx'.freed, next |-> e_tx'.next]
  BY <1>2, <1>3 DEF EdmaTxs
<1>6. e_tx' \in EdmaTxs
  <2>1. e_tx.next + 1 \in Nat /\ e_tx.list \cup {e_tx.next} \in SUBSET Nat /\ dev \in SUBSET Nat
    BY <1>1
  <2> QED
    BY <1>1, <1>4, <1>5, <2>1 DEF EdmaTxs
<1>7. /\ e_tx.list \cap e_tx.hold = {} /\ (e_tx.pc = "idle" => e_tx.hold = {})
      /\ (e_tx.pc = "free" => e_tx.ring # <<>> /\ e_tx.ring[1] \subseteq e_tx.hold)
      /\ e_tx.dev \subseteq e_tx.list \cup e_tx.hold
      /\ \A i \in DOMAIN e_tx.ring : e_tx.ring[i] \subseteq e_tx.list \cup e_tx.hold /\ e_tx.ring[i] \cap e_tx.dev = {}
      /\ \A i, j \in DOMAIN e_tx.ring : i # j => e_tx.ring[i] \cap e_tx.ring[j] = {}
      /\ e_tx.freed \cap (e_tx.list \cup e_tx.hold) = {}
      /\ \A x \in e_tx.list \cup e_tx.hold \cup e_tx.freed : x < e_tx.next
      /\ e_odd \cap {"unlinked", "lied"} = {}
  BY DEF TxInv, TxPlaces
<1>8. e_tx.next \notin e_tx.list \cup e_tx.hold \cup e_tx.freed
  BY <1>1, <1>7
<1>9. \A x \in e_tx'.list \cup e_tx'.hold \cup e_tx'.freed : x < e_tx'.next
  <2>1. \A x \in e_tx.list \cup e_tx.hold \cup e_tx.freed : x < e_tx.next + 1
    BY <1>1, <1>7
  <2>2. e_tx.next < e_tx.next + 1
    BY <1>1
  <2> QED
    BY <1>4, <2>1, <2>2
<1>10. \A i \in DOMAIN e_tx.ring : e_tx.ring[i] \subseteq e_tx'.list \cup e_tx'.hold /\ e_tx.ring[i] \cap dev = {}
  BY <1>4, <1>7, <1>8
<1>11. e_odd' \cap {"unlinked", "lied"} = {}
  BY <1>7 DEF Edma!PcieXmit
<1>12. TxPlaces'
  BY <1>4, <1>7, <1>8, <1>9, <1>10, <1>11 DEF TxPlaces
<1> QED
  BY <1>6, <1>12 DEF TxInv

LEMMA DoneAppend ==
  ASSUME NEW ring \in Seq(SUBSET Nat), NEW s \in SUBSET Nat
  PROVE  /\ Append(ring, s) \in Seq(SUBSET Nat) /\ Append(ring, s) # <<>>
         /\ (ring # <<>> => Append(ring, s)[1] = ring[1])
         /\ DOMAIN Append(ring, s) = DOMAIN ring \cup {Len(ring) + 1}
         /\ (\A i \in DOMAIN ring : Append(ring, s)[i] = ring[i]) /\ Append(ring, s)[Len(ring) + 1] = s
<1>1. Append(ring, s) \in Seq(SUBSET Nat) /\ Append(ring, s) # <<>>
  OBVIOUS
<1>2. ring # <<>> => Append(ring, s)[1] = ring[1]
  OBVIOUS
<1>3. DOMAIN Append(ring, s) = DOMAIN ring \cup {Len(ring) + 1}
  OBVIOUS
<1>4. (\A i \in DOMAIN ring : Append(ring, s)[i] = ring[i]) /\ Append(ring, s)[Len(ring) + 1] = s
  OBVIOUS
<1> QED
  BY <1>1, <1>2, <1>3, <1>4

LEMMA DevTxDoneStep ==
  ASSUME TxInv, Edma!DevTxDone
  PROVE  TxInv'
<1>1. /\ e_tx.list \in SUBSET Nat /\ e_tx.dev \in SUBSET Nat /\ e_tx.ring \in Seq(SUBSET Nat) /\ e_tx.hold \in SUBSET Nat
      /\ e_tx.pc \in {"idle", "free", "back"} /\ e_tx.freed \in SUBSET Nat /\ e_tx.next \in Nat
  BY TxFields
<1>2. e_tx \in EdmaTxs /\ e_odd' = e_odd
  BY DEF TxInv, Edma!DevTxDone
<1>3. PICK s \in (SUBSET e_tx.dev) \ {{}} : e_tx' = [e_tx EXCEPT !.dev = @ \ s, !.ring = Append(@, s)]
  BY DEF Edma!DevTxDone
<1> DEFINE r == Append(e_tx.ring, s)
           m == Len(e_tx.ring) + 1
<1>4. s \in SUBSET Nat /\ s \subseteq e_tx.dev
  BY <1>1, <1>3
<1>5. /\ r \in Seq(SUBSET Nat) /\ r # <<>> /\ (e_tx.ring # <<>> => r[1] = e_tx.ring[1])
      /\ DOMAIN r = DOMAIN e_tx.ring \cup {m}
      /\ (\A i \in DOMAIN e_tx.ring : r[i] = e_tx.ring[i]) /\ r[m] = s
  BY <1>1, <1>4, DoneAppend
<1>6. e_tx' = [e_tx EXCEPT !.dev = e_tx.dev \ s, !.ring = r]
  BY <1>3
<1> HIDE DEF r, m
<1>7. /\ e_tx'.list = e_tx.list /\ e_tx'.dev = e_tx.dev \ s /\ e_tx'.next = e_tx.next
      /\ e_tx'.ring = r /\ e_tx'.hold = e_tx.hold /\ e_tx'.pc = e_tx.pc /\ e_tx'.freed = e_tx.freed
  BY <1>2, <1>6 DEF EdmaTxs
<1>8. e_tx' = [list |-> e_tx'.list, dev |-> e_tx'.dev, ring |-> e_tx'.ring, hold |-> e_tx'.hold, pc |-> e_tx'.pc, freed |-> e_tx'.freed, next |-> e_tx'.next]
  BY <1>2, <1>6 DEF EdmaTxs
<1>9. e_tx' \in EdmaTxs
  <2>1. e_tx.dev \ s \in SUBSET Nat
    BY <1>1
  <2> QED
    BY <1>1, <1>5, <1>7, <1>8, <2>1 DEF EdmaTxs
<1>10. /\ e_tx.list \cap e_tx.hold = {} /\ (e_tx.pc = "idle" => e_tx.hold = {})
       /\ (e_tx.pc = "free" => e_tx.ring # <<>> /\ e_tx.ring[1] \subseteq e_tx.hold)
       /\ e_tx.dev \subseteq e_tx.list \cup e_tx.hold
       /\ \A i \in DOMAIN e_tx.ring : e_tx.ring[i] \subseteq e_tx.list \cup e_tx.hold /\ e_tx.ring[i] \cap e_tx.dev = {}
       /\ \A i, j \in DOMAIN e_tx.ring : i # j => e_tx.ring[i] \cap e_tx.ring[j] = {}
       /\ e_tx.freed \cap (e_tx.list \cup e_tx.hold) = {}
       /\ \A x \in e_tx.list \cup e_tx.hold \cup e_tx.freed : x < e_tx.next
       /\ e_odd \cap {"unlinked", "lied"} = {}
  BY DEF TxInv, TxPlaces
<1>11. ASSUME NEW i \in DOMAIN r PROVE r[i] \subseteq e_tx.list \cup e_tx.hold /\ r[i] \cap (e_tx.dev \ s) = {}
  <2>1. CASE i \in DOMAIN e_tx.ring
    BY <1>5, <1>10, <2>1
  <2>2. CASE i = m
    BY <1>4, <1>5, <1>10, <2>2
  <2> QED
    BY <1>5, <2>1, <2>2
<1>12. ASSUME NEW i \in DOMAIN r, NEW j \in DOMAIN r, i # j PROVE r[i] \cap r[j] = {}
  <2>1. CASE i \in DOMAIN e_tx.ring /\ j \in DOMAIN e_tx.ring
    BY <1>5, <1>10, <1>12, <2>1
  <2>2. CASE i = m /\ j \in DOMAIN e_tx.ring
    BY <1>4, <1>5, <1>10, <2>2
  <2>3. CASE j = m /\ i \in DOMAIN e_tx.ring
    BY <1>4, <1>5, <1>10, <2>3
  <2> QED
    BY <1>5, <1>12, <2>1, <2>2, <2>3
<1>13. TxPlaces'
  <2>1. e_tx.dev \ s \subseteq e_tx.list \cup e_tx.hold
    BY <1>10
  <2>2. e_tx.pc = "free" => r # <<>> /\ r[1] \subseteq e_tx.hold
    BY <1>5, <1>10
  <2> QED
    BY <1>2, <1>7, <1>10, <1>11, <1>12, <2>1, <2>2 DEF TxPlaces
<1> QED
  BY <1>9, <1>13 DEF TxInv

LEMMA DoneTail ==
  ASSUME NEW ring \in Seq(SUBSET Nat), ring # <<>>
  PROVE  /\ Tail(ring) \in Seq(SUBSET Nat) /\ 1 \in DOMAIN ring /\ ring[1] \in SUBSET Nat
         /\ \A i \in DOMAIN Tail(ring) : i + 1 \in DOMAIN ring /\ i + 1 # 1 /\ Tail(ring)[i] = ring[i + 1]
         /\ \A i, j \in DOMAIN Tail(ring) : i # j => i + 1 # j + 1
<1>1. Tail(ring) \in Seq(SUBSET Nat) /\ Len(Tail(ring)) = Len(ring) - 1 /\ Len(ring) \in Nat \ {0}
  OBVIOUS
<1>2. 1 \in DOMAIN ring /\ ring[1] \in SUBSET Nat
  OBVIOUS
<1>3. DOMAIN Tail(ring) = 1 .. Len(ring) - 1 /\ DOMAIN ring = 1 .. Len(ring)
  BY <1>1
<1>4. \A i \in 1 .. Len(ring) - 1 : Tail(ring)[i] = ring[i + 1]
  OBVIOUS
<1>5. \A i \in DOMAIN Tail(ring) : i + 1 \in DOMAIN ring /\ i + 1 # 1 /\ Tail(ring)[i] = ring[i + 1]
  BY <1>1, <1>3, <1>4
<1>6. \A i, j \in DOMAIN Tail(ring) : i # j => i + 1 # j + 1
  BY <1>1, <1>3
<1> QED
  BY <1>1, <1>2, <1>5, <1>6

LEMMA TxFreeStep ==
  ASSUME TxInv, Edma!TxFree
  PROVE  TxInv'
<1>1. /\ e_tx.list \in SUBSET Nat /\ e_tx.dev \in SUBSET Nat /\ e_tx.ring \in Seq(SUBSET Nat) /\ e_tx.hold \in SUBSET Nat
      /\ e_tx.pc \in {"idle", "free", "back"} /\ e_tx.freed \in SUBSET Nat /\ e_tx.next \in Nat
  BY TxFields
<1>2. e_tx \in EdmaTxs
  BY DEF TxInv
<1>3. /\ e_tx.list \cap e_tx.hold = {} /\ (e_tx.pc = "idle" => e_tx.hold = {})
      /\ (e_tx.pc = "free" => e_tx.ring # <<>> /\ e_tx.ring[1] \subseteq e_tx.hold)
      /\ e_tx.dev \subseteq e_tx.list \cup e_tx.hold
      /\ \A i \in DOMAIN e_tx.ring : e_tx.ring[i] \subseteq e_tx.list \cup e_tx.hold /\ e_tx.ring[i] \cap e_tx.dev = {}
      /\ \A i, j \in DOMAIN e_tx.ring : i # j => e_tx.ring[i] \cap e_tx.ring[j] = {}
      /\ e_tx.freed \cap (e_tx.list \cup e_tx.hold) = {}
      /\ \A x \in e_tx.list \cup e_tx.hold \cup e_tx.freed : x < e_tx.next
      /\ e_odd \cap {"unlinked", "lied"} = {}
  BY DEF TxInv, TxPlaces
<1>4. CASE /\ e_tx.pc = "idle" /\ e_tx.ring # <<>>
           /\ e_tx' = [e_tx EXCEPT !.pc = "free", !.hold = e_tx.list, !.list = {}] /\ e_odd' = e_odd
  <2>1. /\ e_tx'.list = {} /\ e_tx'.dev = e_tx.dev /\ e_tx'.next = e_tx.next
        /\ e_tx'.ring = e_tx.ring /\ e_tx'.hold = e_tx.list /\ e_tx'.pc = "free" /\ e_tx'.freed = e_tx.freed
    BY <1>2, <1>4 DEF EdmaTxs
  <2>2. e_tx' = [list |-> e_tx'.list, dev |-> e_tx'.dev, ring |-> e_tx'.ring, hold |-> e_tx'.hold, pc |-> e_tx'.pc, freed |-> e_tx'.freed, next |-> e_tx'.next]
    BY <1>2, <1>4 DEF EdmaTxs
  <2>3. e_tx' \in EdmaTxs
    BY <1>1, <2>1, <2>2 DEF EdmaTxs
  <2>4. e_tx.list \cup e_tx.hold = e_tx'.list \cup e_tx'.hold
    BY <1>3, <1>4, <2>1
  <2>5. e_tx.ring[1] \subseteq e_tx'.hold
    <3>1. 1 \in DOMAIN e_tx.ring
      BY <1>1, <1>4
    <3> QED
      BY <1>3, <1>4, <2>1, <3>1
  <2>6. TxPlaces'
    BY <1>3, <1>4, <2>1, <2>4, <2>5 DEF TxPlaces
  <2> QED
    BY <2>3, <2>6 DEF TxInv
<1>5. CASE /\ e_tx.pc = "free"
           /\ e_tx' = [e_tx EXCEPT !.pc = "back", !.hold = @ \ e_tx.ring[1], !.freed = @ \cup e_tx.ring[1], !.ring = Tail(@)]
           /\ e_odd' = IF e_tx.ring[1] \subseteq e_tx.hold THEN e_odd ELSE e_odd \cup {"unlinked"}
  <2> DEFINE s == e_tx.ring[1]
             r == Tail(e_tx.ring)
  <2>1. e_tx' = [e_tx EXCEPT !.pc = "back", !.hold = e_tx.hold \ s, !.freed = e_tx.freed \cup s, !.ring = r] /\ e_odd' = e_odd
    BY <1>3, <1>5
  <2>2. /\ r \in Seq(SUBSET Nat) /\ 1 \in DOMAIN e_tx.ring /\ s \in SUBSET Nat
        /\ \A i \in DOMAIN r : i + 1 \in DOMAIN e_tx.ring /\ i + 1 # 1 /\ r[i] = e_tx.ring[i + 1]
        /\ \A i, j \in DOMAIN r : i # j => i + 1 # j + 1
    BY <1>1, <1>3, <1>5, DoneTail
  <2>3. s \subseteq e_tx.hold /\ s \cap e_tx.dev = {}
    BY <1>3, <1>5, <2>2
  <2>4. \A i \in DOMAIN r : r[i] \cap s = {}
    BY <1>3, <2>2
  <2> HIDE DEF s, r
  <2>5. /\ e_tx'.list = e_tx.list /\ e_tx'.dev = e_tx.dev /\ e_tx'.next = e_tx.next
        /\ e_tx'.ring = r /\ e_tx'.hold = e_tx.hold \ s /\ e_tx'.pc = "back" /\ e_tx'.freed = e_tx.freed \cup s
    BY <1>2, <2>1 DEF EdmaTxs
  <2>6. e_tx' = [list |-> e_tx'.list, dev |-> e_tx'.dev, ring |-> e_tx'.ring, hold |-> e_tx'.hold, pc |-> e_tx'.pc, freed |-> e_tx'.freed, next |-> e_tx'.next]
    BY <1>2, <2>1 DEF EdmaTxs
  <2>7. e_tx' \in EdmaTxs
    <3>1. e_tx.hold \ s \in SUBSET Nat /\ e_tx.freed \cup s \in SUBSET Nat
      BY <1>1, <2>2
    <3> QED
      BY <1>1, <2>2, <2>5, <2>6, <3>1 DEF EdmaTxs
  <2>8. \A i \in DOMAIN r : r[i] \subseteq e_tx.list \cup e_tx.hold /\ r[i] \cap e_tx.dev = {}
    BY <1>3, <2>2
  <2>9. \A i \in DOMAIN r : r[i] \subseteq e_tx.list \cup (e_tx.hold \ s) /\ r[i] \cap e_tx.dev = {}
    BY <2>4, <2>8
  <2>10. \A i, j \in DOMAIN r : i # j => r[i] \cap r[j] = {}
    BY <1>3, <2>2
  <2>11. e_tx.dev \subseteq e_tx.list \cup (e_tx.hold \ s) /\ (e_tx.freed \cup s) \cap (e_tx.list \cup (e_tx.hold \ s)) = {}
    BY <1>3, <2>3
  <2>12. \A x \in e_tx.list \cup (e_tx.hold \ s) \cup (e_tx.freed \cup s) : x < e_tx.next
    BY <1>3, <2>3
  <2>13. e_tx.list \cap (e_tx.hold \ s) = {}
    BY <1>3
  <2>14. TxPlaces'
    BY <1>3, <2>1, <2>5, <2>9, <2>10, <2>11, <2>12, <2>13 DEF TxPlaces
  <2> QED
    BY <2>7, <2>14 DEF TxInv
<1>6. CASE e_tx.pc = "back" /\ e_tx' = [e_tx EXCEPT !.pc = "idle", !.list = @ \cup e_tx.hold, !.hold = {}] /\ e_odd' = e_odd
  <2>1. /\ e_tx'.list = e_tx.list \cup e_tx.hold /\ e_tx'.dev = e_tx.dev /\ e_tx'.next = e_tx.next
        /\ e_tx'.ring = e_tx.ring /\ e_tx'.hold = {} /\ e_tx'.pc = "idle" /\ e_tx'.freed = e_tx.freed
    BY <1>2, <1>6 DEF EdmaTxs
  <2>2. e_tx' = [list |-> e_tx'.list, dev |-> e_tx'.dev, ring |-> e_tx'.ring, hold |-> e_tx'.hold, pc |-> e_tx'.pc, freed |-> e_tx'.freed, next |-> e_tx'.next]
    BY <1>2, <1>6 DEF EdmaTxs
  <2>3. e_tx' \in EdmaTxs
    <3>1. e_tx.list \cup e_tx.hold \in SUBSET Nat
      BY <1>1
    <3> QED
      BY <1>1, <2>1, <2>2, <3>1 DEF EdmaTxs
  <2>4. e_tx.list \cup e_tx.hold = e_tx'.list \cup e_tx'.hold
    BY <2>1
  <2>5. TxPlaces'
    BY <1>3, <1>6, <2>1, <2>4 DEF TxPlaces
  <2> QED
    BY <2>3, <2>5 DEF TxInv
<1> QED
  BY <1>4, <1>5, <1>6 DEF Edma!TxFree

LEMMA TxcCheckStep ==
  ASSUME TxInv, Edma!TxcCheck
  PROVE  TxInv'
<1>1. e_tx' = e_tx /\ e_tx.list = {} /\ e_odd' = e_odd \cup (IF e_tx.dev = {} THEN {} ELSE IF e_tx.hold = {} THEN {"lied"} ELSE {"spliced"})
  BY DEF Edma!TxcCheck
<1>2. e_tx.dev \subseteq e_tx.list \cup e_tx.hold
  BY DEF TxInv, TxPlaces
<1>3. e_odd' \cap {"unlinked", "lied"} = {}
  BY <1>1, <1>2, TxClean
<1> QED
  BY <1>1, <1>3, TxFrame

-----------------------------------------------------------------------------
\* The rings.
LEMMA EdmaStarts == Edma!Init => EdmaInv
<1> SUFFICES ASSUME Edma!Init PROVE EdmaInv
  OBVIOUS
<1>1. EdmaN \in Nat \ {0} /\ EdmaCnt \in Nat \ {0} /\ Edma!Total \in Nat
  BY RxSizes
<1>2. EvInv
  <2> DEFINE d == [n \in 0 .. EdmaN - 1 |-> 0]
  <2>1. ev = [dev |-> 0, given |-> EdmaN, data |-> d, irq |-> 0, cur |-> 0, cnt |-> 0, left |-> 0, count |-> 0, seen |-> <<>>, sent |-> 0]
    BY DEF Edma!Init
  <2>2. d \in [0 .. EdmaN - 1 -> Nat] /\ 0 \in 0 .. EdmaN - 1 /\ EdmaN \in Nat
    BY <1>1
  <2> HIDE DEF d
  <2>3. ev \in EdmaEvs
    BY <2>1, <2>2, NoBuffers DEF EdmaEvs
  <2>4. ev.given = EdmaN /\ ev.irq = 0 /\ ev.cnt = 0 /\ ev.left = 0 /\ ev.dev = 0 /\ ev.cur = 0 /\ ev.seen = <<>> /\ ev.sent = 0
    BY <2>1
  <2>5. EdmaN + 0 + 0 = EdmaN
    BY <1>1
  <2>6. EvNodes
    BY <2>4, <2>5 DEF EvNodes
  <2>7. 0 % EdmaN = 0
    <3>1. (0 + 0 * EdmaN) % EdmaN = 0
      BY <1>1, <2>2, ModUnique
    <3>2. 0 + 0 * EdmaN = 0
      BY <1>1
    <3> QED
      BY <3>1, <3>2
  <2>8. EvOrder
    BY <2>4, <2>7, NoBuffers DEF EvOrder
  <2> QED
    BY <2>3, <2>6, <2>8 DEF EvInv
<1>3. RxInv
  <2> DEFINE p == [i \in 1 .. Edma!Total |-> i]
             z == 1 .. Edma!Total
  <2>1. e_rx = [avail |-> z, num |-> Edma!Total, pend |-> <<>>, posted |-> p, ring |-> <<>>, given |-> EdmaN, next |-> Edma!Total + 1,
              cnt |-> 0, tail |-> 0, pc |-> "idle", quota |-> 0, count |-> 0, q |-> <<>>, lost |-> {}, refill |-> TRUE]
    BY DEF Edma!Init
  <2>2. p \in Seq(Nat) /\ DOMAIN p = z /\ Len(p) = Edma!Total
    BY <1>1
  <2>3. Edma!ToSet(p) = z /\ Simple(p) /\ Below(p, Edma!Total + 1)
    BY <1>1 DEF Edma!ToSet, Simple, Below
  <2>4. z \in SUBSET Nat /\ Edma!Total + 1 \in Nat /\ EdmaN \in Nat /\ 0 \in 0 .. EdmaN - 1
    BY <1>1
  <2>5. Cardinality(Edma!ToSet(p)) = Edma!Total /\ IsFiniteSet(Edma!ToSet(p))
    BY <2>2, <2>3, SimpleCount
  <2>6. <<>> \in Seq(Seq(Nat))
    OBVIOUS
  <2> HIDE DEF p, z
  <2>7. e_rx \in EdmaRxs(e_rx.q)
    BY <1>1, <2>1, <2>2, <2>4, <2>6, NoBuffers DEF EdmaRxs
  <2>8. /\ e_rx.avail = z /\ e_rx.num = Edma!Total /\ e_rx.pend = <<>> /\ e_rx.posted = p /\ e_rx.ring = <<>> /\ e_rx.given = EdmaN
        /\ e_rx.next = Edma!Total + 1 /\ e_rx.cnt = 0 /\ e_rx.lost = {}
    BY <2>1
  <2>9. InPlace(p, <<>>, <<>>, Edma!Total + 1)
    BY <2>3, NoBuffers DEF InPlace, Simple, Apart, Below
  <2>10. OutAt(p, <<>>) = z /\ Edma!ToSet(<<>>) = {}
    BY <2>3, NoBuffers DEF OutAt, Edma!ToSet
  <2>11. RxHeld
    BY <1>1, <2>3, <2>5, <2>8, <2>9, <2>10 DEF RxHeld, Held
  <2>12. RxNodes
    BY <1>1, <2>8, NoBuffers DEF RxNodes
  <2>13. RxOdd
    BY <2>8 DEF RxOdd
  <2> QED
    BY <2>7, <2>11, <2>12, <2>13 DEF RxInv
<1>4. TxInv
  <2>1. e_tx = [list |-> {}, dev |-> {}, ring |-> <<>>, hold |-> {}, pc |-> "idle", freed |-> {}, next |-> 1] /\ e_odd = {}
    BY DEF Edma!Init
  <2>2. <<>> \in Seq(SUBSET Nat) /\ DOMAIN <<>> = {}
    OBVIOUS
  <2>3. e_tx \in EdmaTxs
    BY <2>1, <2>2 DEF EdmaTxs
  <2>4. e_tx.list = {} /\ e_tx.dev = {} /\ e_tx.ring = <<>> /\ e_tx.hold = {} /\ e_tx.pc = "idle" /\ e_tx.freed = {}
    BY <2>1
  <2>5. TxPlaces
    BY <2>1, <2>2, <2>4 DEF TxPlaces
  <2> QED
    BY <2>3, <2>5 DEF TxInv
<1> QED
  BY <1>2, <1>3, <1>4 DEF EdmaInv

LEMMA EdmaSteps ==
  ASSUME EdmaInv, Edma!Next
  PROVE  EdmaInv'
<1>1. EvInv /\ RxInv /\ TxInv /\ e_odd \cap {"unlinked", "lied"} = {}
  BY TxClean DEF EdmaInv
<1>2. CASE Edma!DevEvent
  <2>1. UNCHANGED <<e_rx, e_tx, e_odd>>
    BY <1>2 DEF Edma!DevEvent
  <2> QED
    BY <1>1, <1>2, <2>1, DevEventStep, RxFrame, TxFrame DEF EdmaInv
<1>3. CASE Edma!IsrStart
  <2>1. UNCHANGED <<e_rx, e_tx, e_odd>>
    BY <1>3 DEF Edma!IsrStart
  <2> QED
    BY <1>1, <1>3, <2>1, IsrStartStep, RxFrame, TxFrame DEF EdmaInv
<1>4. CASE Edma!IsrNode
  <2>1. UNCHANGED <<e_rx, e_tx>> /\ e_odd' \in {e_odd, e_odd \cup {"early"}, e_odd \cup {"held"}}
    BY <1>4 DEF Edma!IsrNode
  <2>2. e_odd \subseteq e_odd' /\ e_odd' \cap {"unlinked", "lied"} = {}
    BY <1>1, <2>1
  <2> QED
    BY <1>1, <1>4, <2>1, <2>2, IsrNodeStep, RxFrame, TxFrame DEF EdmaInv
<1>5. CASE Edma!DevRx
  <2>1. UNCHANGED <<ev, e_tx, e_odd>>
    BY <1>5 DEF Edma!DevRx
  <2> QED
    BY <1>1, <1>5, <2>1, DevRxStep, EvFrame, TxFrame DEF EdmaInv
<1>6. CASE Edma!PollStart
  <2>1. UNCHANGED <<ev, e_tx, e_odd>>
    BY <1>6 DEF Edma!PollStart
  <2> QED
    BY <1>1, <1>6, <2>1, PollStartStep, EvFrame, TxFrame DEF EdmaInv
<1>7. CASE Edma!PollNode
  <2>1. UNCHANGED <<ev, e_tx>>
    BY <1>7 DEF Edma!PollNode
  <2>2. e_odd \subseteq e_odd' /\ e_odd' \subseteq e_odd \cup {"leaked", "behind"}
    BY <1>1, <1>7, PollNodeStep
  <2>3. e_odd' \cap {"unlinked", "lied"} = {}
    BY <1>1, <2>2
  <2> QED
    BY <1>1, <1>7, <2>1, <2>2, <2>3, PollNodeStep, EvFrame, TxFrame DEF EdmaInv
<1>8. CASE Edma!PollEnd
  <2>1. UNCHANGED <<ev, e_tx, e_odd>>
    BY <1>8 DEF Edma!PollEnd
  <2> QED
    BY <1>1, <1>8, <2>1, PollEndStep, EvFrame, TxFrame DEF EdmaInv
<1>9. CASE Edma!RefillOff
  <2>1. UNCHANGED <<ev, e_tx, e_odd>>
    BY <1>9 DEF Edma!RefillOff
  <2> QED
    BY <1>1, <1>9, <2>1, RefillOffStep, EvFrame, TxFrame DEF EdmaInv
<1>10. CASE Edma!PcieXmit
  <2>1. UNCHANGED <<ev, e_rx>> /\ e_odd \subseteq e_odd'
    BY <1>10 DEF Edma!PcieXmit
  <2> QED
    BY <1>1, <1>10, <2>1, PcieXmitStep, EvFrame, RxFrame DEF EdmaInv
<1>11. CASE Edma!DevTxDone
  <2>1. UNCHANGED <<ev, e_rx, e_odd>>
    BY <1>11 DEF Edma!DevTxDone
  <2> QED
    BY <1>1, <1>11, <2>1, DevTxDoneStep, EvFrame, RxFrame DEF EdmaInv
<1>12. CASE Edma!TxFree
  <2>1. UNCHANGED <<ev, e_rx>> /\ e_odd \subseteq e_odd'
    BY <1>12 DEF Edma!TxFree
  <2> QED
    BY <1>1, <1>12, <2>1, TxFreeStep, EvFrame, RxFrame DEF EdmaInv
<1>13. CASE Edma!TxcCheck
  <2>1. UNCHANGED <<ev, e_rx>> /\ e_odd \subseteq e_odd'
    BY <1>13 DEF Edma!TxcCheck
  <2> QED
    BY <1>1, <1>13, <2>1, TxcCheckStep, EvFrame, RxFrame DEF EdmaInv
<1> QED
  BY <1>2, <1>3, <1>4, <1>5, <1>6, <1>7, <1>8, <1>9, <1>10, <1>11, <1>12, <1>13 DEF Edma!Next, Edma!Events, Edma!RxPoll

LEMMA NodesOf ==
  ASSUME NEW s \in Seq(Nat), NEW ring \in Seq(Seq(Nat))
  PROVE  /\ 1 \in DOMAIN (<<s>> \o ring) /\ (<<s>> \o ring)[1] = s
         /\ \A i \in DOMAIN (<<s>> \o ring) \ {1} : i - 1 \in DOMAIN ring /\ (<<s>> \o ring)[i] = ring[i - 1]
         /\ \A i \in DOMAIN ring : i + 1 \in DOMAIN (<<s>> \o ring) /\ (<<s>> \o ring)[i + 1] = ring[i]
         /\ \A i, j \in DOMAIN (<<s>> \o ring) : i # j => i - 1 # j - 1
<1> DEFINE z == <<s>> \o ring
           n == Len(ring)
<1>1. n \in Nat /\ DOMAIN ring = 1 .. n /\ DOMAIN z = 1 .. n + 1 /\ z[1] = s
  OBVIOUS
<1>2. \A i \in 2 .. n + 1 : z[i] = ring[i - 1]
  OBVIOUS
<1> HIDE DEF z, n
<1>3. \A i \in DOMAIN z \ {1} : i - 1 \in DOMAIN ring /\ z[i] = ring[i - 1]
  BY <1>1, <1>2
<1>4. ASSUME NEW i \in DOMAIN ring PROVE i + 1 \in DOMAIN z /\ z[i + 1] = ring[i]
  <2>1. i + 1 \in 2 .. n + 1 /\ (i + 1) - 1 = i
    BY <1>1
  <2>2. z[i + 1] = ring[(i + 1) - 1]
    BY <1>2, <2>1
  <2> QED
    BY <1>1, <2>1, <2>2
<1>5. \A i, j \in DOMAIN z : i # j => i - 1 # j - 1
  BY <1>1
<1> QED
  BY <1>1, <1>3, <1>4, <1>5 DEF z

LEMMA EdmaMeans == EdmaInv => EdmaSound
<1> SUFFICES ASSUME EdmaInv PROVE EdmaSound
  OBVIOUS
<1>1. EvInv /\ RxInv /\ TxInv
  BY DEF EdmaInv
<1>2. e_rx \in EdmaRxs(e_rx.q) /\ Held(e_rx.posted, e_rx.pend, e_rx.ring, e_rx.next, e_rx.avail, e_rx.num) /\ e_rx.num <= Edma!Total
  BY <1>1 DEF RxInv, RxHeld
<1>3. /\ e_rx.num \in Nat /\ e_rx.posted \in Seq(Nat) /\ e_rx.ring \in Seq(Seq(Nat)) /\ e_rx.given \in Nat /\ e_rx.cnt \in 0 .. EdmaN - 1
      /\ e_rx.pc \in {"idle", "poll", "end"} /\ Len(e_rx.ring) \in Nat /\ Edma!Total \in Nat
  BY <1>2, RxFields, RxSizes
<1>4. Edma!TypeOK
  <2>1. ev.cur \in 0 .. EdmaN - 1 /\ ev.given \in 0 .. EdmaN /\ ev.cnt \in 0 .. EdmaN
    <3>1. ev.given \in Nat /\ ev.irq \in Nat /\ ev.cnt \in Nat /\ EdmaN \in Nat /\ ev.cur \in 0 .. EdmaN - 1
      BY <1>1, EvFields
    <3>2. ev.given + ev.irq + ev.cnt = EdmaN
      BY <1>1 DEF EvInv, EvNodes
    <3> QED
      BY <3>1, <3>2
  <2>2. e_rx.given \in 0 .. EdmaN /\ e_rx.num \in 0 .. Edma!Total
    <3>1. e_rx.given + Len(e_rx.ring) + e_rx.cnt = EdmaN /\ EdmaN \in Nat
      BY <1>1, RxSizes DEF RxInv, RxNodes
    <3>2. e_rx.cnt \in Nat
      BY <1>3, <3>1
    <3> QED
      BY <1>2, <1>3, <3>1, <3>2
  <2>3. e_tx.pc \in {"idle", "free", "back"}
    BY <1>1, TxFields
  <2> QED
    BY <1>3, <2>1, <2>2, <2>3 DEF Edma!TypeOK
<1>5. Edma!EventsInOrder
  <2>1. CASE "early" \in e_odd
    BY <2>1 DEF Edma!EventsInOrder
  <2>2. CASE "early" \notin e_odd
    <3>1. \A i \in DOMAIN ev.seen : ev.seen[i] = i
      BY <1>1, <2>2 DEF EvInv, EvOrder
    <3>2. ev.seen \in Seq(Nat) /\ DOMAIN ev.seen = 1 .. Len(ev.seen)
      BY <1>1, EvFields
    <3>3. ev.seen = [i \in 1 .. Len(ev.seen) |-> ev.seen[i]]
      BY <3>2
    <3> QED
      BY <3>1, <3>2, <3>3 DEF Edma!EventsInOrder
  <2> QED
    BY <2>1, <2>2
<1>6. Edma!BuffersCounted
  <2> DEFINE nodes == <<e_rx.posted>> \o e_rx.ring
             out == UNION {Edma!ToSet(nodes[n]) : n \in DOMAIN nodes}
  <2>1. /\ InPlace(e_rx.posted, e_rx.pend, e_rx.ring, e_rx.next) /\ e_rx.num = Cardinality(OutAt(e_rx.posted, e_rx.ring))
        /\ e_rx.avail = OutAt(e_rx.posted, e_rx.ring) \cup Edma!ToSet(e_rx.pend)
    BY <1>2 DEF Held
  <2>2. /\ Simple(e_rx.posted)
        /\ \A i \in DOMAIN e_rx.ring : Simple(e_rx.ring[i]) /\ Apart(e_rx.ring[i], e_rx.posted) /\ Apart(e_rx.posted, e_rx.ring[i])
        /\ \A i, j \in DOMAIN e_rx.ring : i # j => Apart(e_rx.ring[i], e_rx.ring[j])
    BY <2>1, ApartBack DEF InPlace
  <2>3. /\ 1 \in DOMAIN nodes /\ nodes[1] = e_rx.posted
        /\ \A i \in DOMAIN nodes \ {1} : i - 1 \in DOMAIN e_rx.ring /\ nodes[i] = e_rx.ring[i - 1]
        /\ \A i \in DOMAIN e_rx.ring : i + 1 \in DOMAIN nodes /\ nodes[i + 1] = e_rx.ring[i]
        /\ \A i, j \in DOMAIN nodes : i # j => i - 1 # j - 1
    BY <1>3, NodesOf
  <2> HIDE DEF nodes
  <2>4. ASSUME NEW i \in DOMAIN nodes PROVE Simple(nodes[i])
    BY <2>2, <2>3
  <2>5. ASSUME NEW i \in DOMAIN nodes, NEW j \in DOMAIN nodes, i # j PROVE Apart(nodes[i], nodes[j])
    <3>1. CASE i = 1
      BY <2>2, <2>3, <2>5, <3>1
    <3>2. CASE j = 1
      BY <2>2, <2>3, <2>5, <3>2
    <3>3. CASE i # 1 /\ j # 1
      BY <2>2, <2>3, <2>5, <3>3
    <3> QED
      BY <3>1, <3>2, <3>3
  <2>6. \A m, n \in DOMAIN nodes : \A i \in DOMAIN nodes[m], j \in DOMAIN nodes[n] : nodes[m][i] = nodes[n][j] => m = n /\ i = j
    BY <2>4, <2>5 DEF Simple, Apart
  <2>7. ASSUME NEW x PROVE x \in out <=> x \in OutAt(e_rx.posted, e_rx.ring)
    <3>1. x \in out <=> \E i \in DOMAIN nodes : x \in Edma!ToSet(nodes[i])
      OBVIOUS
    <3>2. x \in OutAt(e_rx.posted, e_rx.ring) <=> x \in Edma!ToSet(e_rx.posted) \/ \E i \in DOMAIN e_rx.ring : x \in Edma!ToSet(e_rx.ring[i])
      BY OutIn
    <3>3. ASSUME NEW i \in DOMAIN nodes, x \in Edma!ToSet(nodes[i])
          PROVE  x \in Edma!ToSet(e_rx.posted) \/ \E j \in DOMAIN e_rx.ring : x \in Edma!ToSet(e_rx.ring[j])
      BY <2>3, <3>3
    <3>4. ASSUME NEW i \in DOMAIN e_rx.ring, x \in Edma!ToSet(e_rx.ring[i]) PROVE \E j \in DOMAIN nodes : x \in Edma!ToSet(nodes[j])
      BY <2>3, <3>4
    <3>5. x \in Edma!ToSet(e_rx.posted) => \E j \in DOMAIN nodes : x \in Edma!ToSet(nodes[j])
      BY <2>3
    <3> QED
      BY <3>1, <3>2, <3>3, <3>4, <3>5
  <2> HIDE DEF out
  <2>8. out = OutAt(e_rx.posted, e_rx.ring)
    <3>1. out \subseteq OutAt(e_rx.posted, e_rx.ring) /\ OutAt(e_rx.posted, e_rx.ring) \subseteq out
      BY <2>7
    <3> QED
      BY <3>1
  <2>9. e_rx.pend # <<>> => "behind" \in e_odd
    BY <1>1 DEF RxInv, RxOdd
  <2>10. e_rx.num = Edma!Cardinality(out) /\ e_rx.avail = out \cup Edma!ToSet(e_rx.pend)
    <3>1. e_rx.num = Cardinality(out) /\ e_rx.avail = out \cup Edma!ToSet(e_rx.pend)
      BY <2>1, <2>8
    <3>2. Edma!Cardinality(out) = Cardinality(out)
      BY DEF Edma!Cardinality, Cardinality
    <3> QED
      BY <3>1, <3>2
  <2> QED
    BY <2>6, <2>9, <2>10 DEF Edma!BuffersCounted, nodes, out
<1>7. Edma!BuffersKept
  BY <1>1 DEF RxInv, RxOdd, Edma!BuffersKept
<1>8. Edma!FramesListed
  <2>1. /\ e_tx.dev \subseteq e_tx.list \cup e_tx.hold
        /\ \A i \in DOMAIN e_tx.ring : e_tx.ring[i] \subseteq e_tx.list \cup e_tx.hold
        /\ e_tx.freed \cap (e_tx.list \cup e_tx.hold) = {} /\ e_odd \cap {"unlinked", "lied"} = {}
    BY <1>1 DEF TxInv, TxPlaces
  <2>2. UNION Edma!ToSet(e_tx.ring) \subseteq e_tx.list \cup e_tx.hold
    BY <2>1 DEF Edma!ToSet
  <2> QED
    BY <2>1, <2>2 DEF Edma!FramesListed
<1>9. Edma!TxcHonest
  BY <1>1, TxClean DEF Edma!TxcHonest
<1> QED
  BY <1>4, <1>5, <1>6, <1>7, <1>8, <1>9 DEF EdmaSound, Edma!EdmaSound

\* skw_edma.c: the rings of a PCIe chip lose and repeat nothing, and the counters are right.
THEOREM EdmaIsSound == Edma!Spec => []EdmaSound
<1>1. Edma!Init => EdmaInv
  BY EdmaStarts
<1>2. EdmaInv /\ [Edma!Next]_Edma!vars => EdmaInv'
  <2> SUFFICES ASSUME EdmaInv, [Edma!Next]_Edma!vars PROVE EdmaInv'
    OBVIOUS
  <2>1. CASE Edma!Next
    BY <2>1, EdmaSteps
  <2>2. CASE UNCHANGED Edma!vars
    <3>1. ev' = ev /\ e_rx' = e_rx /\ e_tx' = e_tx /\ e_odd' = e_odd
      BY <2>2 DEF Edma!vars
    <3> QED
      BY <3>1, EvFrame, RxFrame, TxFrame, TxClean DEF EdmaInv
  <2> QED
    BY <2>1, <2>2
<1>3. EdmaInv => EdmaSound
  BY EdmaMeans
<1> QED
  BY <1>1, <1>2, <1>3, PTL DEF Edma!Spec
=============================================================================
