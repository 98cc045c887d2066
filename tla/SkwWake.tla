------------------------------ MODULE SkwWake -------------------------------
(***************************************************************************)
(* Sleep and what the firmware does meanwhile: suspend and resume through  *)
(* cfg80211 or, on a bus that powers itself, through the bus notifier and  *)
(* the worker; wake-up patterns of cfg80211; the packet filter and the     *)
(* keep-alive rules of the private wireless extensions, kept in tables of  *)
(* the driver and sent as a whole, in several commands when there are      *)
(* many; addresses told to the firmware.  User programs run one at a time  *)
(* (rtnl) and are frozen while the system sleeps.                          *)
(***************************************************************************)
EXTENDS Integers, FiniteSets, SequencesExt

CONSTANTS
    Loads,   \* records: bsp (the bus suspends by itself), user (operations), sleeps (wow sets, one per cycle), fails, mask
    Entries,     \* entries of a table (18 keep-alive rules, 64 filter rules)
    Batch,   \* entries one command carries (9 and 20)
    Hdr,     \* bytes in front of the values of a pattern piece (5)
    Room,    \* bytes of a rule (64)
    V6Limit  \* IPv6 addresses the firmware keeps (SKW_FW_IPV6_COUNT_LIMIT)

Idx == 1 .. Entries
None == [v |-> 0, op |-> "same"]

VARIABLES
    load,   \* what happens in this behaviour
    at,     \* number of the user's next operation
    pm,     \* PM thread: pc and cycle
    drv,    \* block (SKW_FLAG_BLOCK_TX), nf (SKW_BSP_NF_SUSPEND), work (SKW_WORK_FLAG_RESUME), wow (hw.wow.flags)
    ka,     \* kp_set: rule and en
    wf,     \* wow_rules_set: rule, en, black; asked: the rules as the user gave them (wow_user_rules)
    sched,  \* scheduled scan: req (sched_scan_req is set), cfg (cfg80211 has one), fw (it runs)
    ip,     \* addresses: host, those queued for the worker, those of the firmware
    fw,     \* firmware: asleep, wow, ka (rules), wf (rules), black, pat (cfg80211 patterns)
    said,   \* what the user was last told: ka, wf, pat are as asked for; white
    odd     \* what the code gives up or gets wrong, see WakeSound

vars == <<load, at, pm, drv, ka, wf, sched, ip, fw, said, odd>>

Init ==
    /\ load \in Loads /\ at = 1 /\ pm = [pc |-> "awake", cycle |-> 1]
    /\ drv = [block |-> FALSE, nf |-> FALSE, work |-> FALSE, wow |-> {}]
    /\ ka = [rule |-> [i \in Idx |-> 0], en |-> {}]
    /\ wf = [rule |-> [i \in Idx |-> None], asked |-> [i \in Idx |-> None], en |-> {}, black |-> FALSE]
    /\ sched = [req |-> FALSE, cfg |-> FALSE, fw |-> FALSE] /\ ip = [host |-> <<>>, queue |-> <<>>, fw |-> <<>>]
    /\ fw = [asleep |-> FALSE, wow |-> {}, ka |-> [i \in {} |-> 0], wf |-> [i \in {} |-> None], black |-> FALSE, pat |-> {}]
    /\ said = [ka |-> FALSE, wf |-> FALSE, pat |-> FALSE, white |-> FALSE] /\ odd = {}

Raised(s) == odd' = odd \cup s
If(c, flag) == IF c THEN {flag} ELSE {}
Op == load.user[at]
Running == pm.pc \in {"awake", "prepared"} /\ at <= Len(load.user)
Done == at' = at + 1

\* commands 1 .. n of an operation: which of them fail; while BLOCK_TX is set every one is refused
Failing(n) == IF drv.block THEN {1 .. n} ELSE {f \in SUBSET (1 .. n) : Cardinality(f) <= load.fails}
Used(f) == load' = IF drv.block THEN load ELSE [load EXCEPT !.fails = @ - Cardinality(f)]

\* the entries of a table in order, up to n of them behind the first k
Sorted(s) == SetToSortSeq(s, <)
Slice(q, k, n) == ToSet(SubSeq(q, k + 1, IF k + n < Len(q) THEN k + n ELSE Len(q)))
Only(f, s) == [i \in s |-> f[i]]

(* Keep-alive rules *)

\* entries a walk of skw_keep_active_cmd reaches: it ends at an enabled entry that has no rule
Reached(t) == LET q == Sorted(t.en)
                  bad == {k \in DOMAIN q : t.rule[q[k]] = 0} IN
    IF bad = {} THEN q ELSE SubSeq(q, 1, (CHOOSE k \in bad : \A j \in bad : k <= j) - 1)

\* skw_keep_active_rule_save: a call without a packet or a period only enables or disables
RuleSave(i, en, given) ==
    [rule |-> IF given THEN [ka.rule EXCEPT ![i] = at] ELSE ka.rule, en |-> IF en THEN ka.en \cup {i} ELSE ka.en \ {i}]

\* skw_keep_active_set: an entry is replaced only when period, flags and packet are all there; an argument behind one that
\* is missing is not looked at
KaGiven(o) == {"period", "flags", "pkt"} \subseteq o.has

\* a malformed number, a packet that is too long or an entry that does not exist: nothing changes
KaRefused ==
    /\ Running /\ Op.op = "ka" /\ ~Op.good
    /\ said' = [said EXCEPT !.ka = FALSE] /\ Done /\ UNCHANGED <<load, pm, drv, ka, wf, sched, ip, fw, odd>>

\* skw_keep_active_set with skw_keep_active_cmd and skw_keep_active_append_cmd: all rules off, the first ones, the others
KeepActive(f) ==
    LET t == RuleSave(Op.i, Op.en, KaGiven(Op))
        q == Reached(t)
        first == Slice(q, 0, Batch)
        rest == IF Len(q) >= Batch THEN Slice(q, Batch, Entries) ELSE {}
        off == IF 1 \in f THEN fw.ka ELSE [j \in {} |-> 0]
        on == IF q = <<>> \/ 2 \in f THEN off ELSE Only(t.rule, first)
        more == IF rest = {} \/ 3 \in f THEN on ELSE [j \in DOMAIN on \cup rest |-> IF j \in rest THEN t.rule[j] ELSE on[j]] IN
    /\ Running /\ Op.op = "ka" /\ Op.good
    /\ ka' = t /\ fw' = [fw EXCEPT !.ka = more]
    \* append_cmd returns 0 when it has nothing to send
    /\ said' = [said EXCEPT !.ka = IF Len(q) >= Batch THEN rest = {} \/ 3 \notin f ELSE IF q = <<>> THEN 1 \notin f ELSE 2 \notin f]
    /\ Raised(If(Len(q) < Cardinality(t.en), "hole") \cup If(Len(q) >= Batch /\ 2 \in f, "masked"))
    /\ Used(f) /\ Done /\ UNCHANGED <<pm, drv, wf, sched, ip>>

(* Packet filter *)

\* skw_wow_filter_set idx=,pattern=: parsed into the table entry itself; "same" is what a cleared entry means and is not stored
FilterRule(i, kind, good) ==
    /\ Running /\ Op = [op |-> "rule", i |-> i, kind |-> kind, good |-> good]
    /\ wf' = [wf EXCEPT !.rule[i] = [v |-> IF good THEN at ELSE -at, op |-> IF kind = "same" THEN @.op ELSE kind],
                        !.asked[i] = IF good THEN [v |-> at, op |-> kind] ELSE @, !.en = IF good THEN @ \cup {i} ELSE @]
    /\ Raised(If(kind = "same" /\ wf.rule[i].op # "same", "staleop") \cup If(~good /\ i \in wf.en, "halfrule"))
    /\ said' = [said EXCEPT !.wf = FALSE] /\ Done /\ UNCHANGED <<load, pm, drv, ka, sched, ip, fw>>

\* enable and enable_whitelist (skw_send_wow_filter_cmd and its append command, which calls itself after every full
\* command): command k carries the k-th batch; behind a last batch that is full, or without any rule, the command that
\* follows carries none, and its action is 0, ACTION_DIS_ALL; the result is that of the last command
FilterEnable(white, f) ==
    LET q == Sorted(wf.en)
        n == Len(q) \div Batch + 1
        black == wf.black \/ ~white
        none == Len(q) % Batch = 0
        sent == UNION {Slice(q, (k - 1) * Batch, Batch) : k \in (1 .. n) \ f}
        base == IF 1 \in f THEN fw.wf ELSE [i \in {} |-> None] IN
    /\ Running /\ Op = [op |-> "enable", white |-> white] /\ f \subseteq 1 .. n
    /\ wf' = [wf EXCEPT !.black = black]
    /\ fw' = IF none /\ n \notin f THEN [fw EXCEPT !.ka = [i \in {} |-> 0], !.wf = [i \in {} |-> None], !.pat = {}, !.black = FALSE]
             ELSE [fw EXCEPT !.wf = [i \in DOMAIN base \cup sent |-> IF i \in sent THEN wf.rule[i] ELSE base[i]],
                             !.black = IF sent = {} THEN @ ELSE black, !.pat = IF 1 \in f THEN @ ELSE {}]
    /\ Raised(If(none /\ n \notin f, "disall") \cup If(white /\ black, "stillblack") \cup If(n \notin f /\ f # {}, "masked2"))
    /\ said' = [said EXCEPT !.wf = n \notin f, !.pat = FALSE, !.white = white]
    /\ Used(f) /\ Done /\ UNCHANGED <<pm, drv, ka, sched, ip>>

\* disable: the tables are cleared once the firmware has done it
FilterDisable(f) ==
    /\ Running /\ Op = [op |-> "disable"]
    /\ IF f # {} THEN UNCHANGED <<wf, fw>>
       ELSE /\ wf' = [rule |-> [i \in Idx |-> None], asked |-> [i \in Idx |-> None], en |-> {}, black |-> FALSE]
            /\ fw' = [fw EXCEPT !.wf = [i \in {} |-> None], !.black = FALSE, !.pat = {}]
    /\ said' = [said EXCEPT !.wf = FALSE, !.pat = FALSE]
    /\ Used(f) /\ Done /\ UNCHANGED <<pm, drv, ka, sched, ip, odd>>

(* Wake-up patterns of cfg80211 *)

\* mutant: a new run starts where the last one ended
PackedGap(mask) == FoldLeft(LAMBDA a, j :
    IF a.full THEN a
    ELSE IF ~mask[j] THEN [a EXCEPT !.start = FALSE]
    ELSE IF ~a.start /\ a.vi + Hdr >= Room THEN [a EXCEPT !.full = TRUE]
    ELSE LET vi == (IF a.start THEN a.vi ELSE a.vi + Hdr) + 1
             out == IF a.start THEN [a.out EXCEPT ![Len(a.out)].len = @ + 1] ELSE Append(a.out, [off |-> a.gap, len |-> 1]) IN
         [vi |-> vi, start |-> TRUE, gap |-> a.gap + 1, out |-> out, full |-> vi >= Room],
    [vi |-> 0, start |-> FALSE, gap |-> 0, out |-> <<>>, full |-> FALSE], [j \in 1 .. Len(mask) |-> j])

\* skw_wow_enable: the bytes a mask selects, in runs with an offset and a length, as many as a rule has room for
Packed(mask) == FoldLeft(LAMBDA a, j :
    IF a.full THEN a
    ELSE IF ~mask[j] THEN [a EXCEPT !.start = FALSE, !.gap = @ + 1]
    ELSE IF ~a.start /\ a.vi + Hdr >= Room THEN [a EXCEPT !.full = TRUE]
    ELSE LET vi == (IF a.start THEN a.vi ELSE a.vi + Hdr) + 1
             out == IF a.start THEN [a.out EXCEPT ![Len(a.out)].len = @ + 1] ELSE Append(a.out, [off |-> a.gap, len |-> 1]) IN
         [vi |-> vi, start |-> TRUE, gap |-> a.gap + 1, out |-> out, full |-> vi >= Room],
    [vi |-> 0, start |-> FALSE, gap |-> 0, out |-> <<>>, full |-> FALSE], [j \in 1 .. Len(mask) |-> j])

Covered(out) == UNION {(r.off + 1) .. (r.off + r.len) : r \in ToSet(out)}
Selected(mask) == {j \in DOMAIN mask : mask[j]}

\* skw_set_wakeup: the command replaces or ends what the packet filter asked for; its result is dropped
SetWakeup(on, f) ==
    LET p == Packed(load.mask) IN
    /\ Running /\ Op = [op |-> "wakeup", on |-> on]
    /\ fw' = IF f # {} THEN fw ELSE [fw EXCEPT !.wf = [i \in {} |-> None], !.black = FALSE, !.pat = IF on THEN Covered(p.out) ELSE {}]
    /\ said' = [said EXCEPT !.pat = on]
    /\ Raised(If(f # {}, "unheard") \cup If(on /\ p.full /\ Covered(p.out) # Selected(load.mask), "cut") \cup If(said.wf /\ f = {}, "replaced"))
    /\ Used(f) /\ Done /\ UNCHANGED <<pm, drv, ka, wf, sched, ip>>

(* Addresses *)

First(s, n) == SubSeq(s, 1, IF Len(s) < n THEN Len(s) ELSE n)

\* ifa4 and ifa6 notifiers with skw_set_ip_to_fw: only a new address is told, and all that fit with it
AddressUp ==
    /\ Running /\ Op = [op |-> "up"]
    /\ LET h == Append(ip.host, at) IN
       ip' = [ip EXCEPT !.host = h, !.queue = Append(@, First(h, V6Limit))] /\ Raised(If(Len(h) > V6Limit, "many"))
    /\ Done /\ UNCHANGED <<load, pm, drv, ka, wf, sched, fw, said>>

AddressDown ==
    /\ Running /\ Op = [op |-> "down"] /\ ip.host # <<>>
    /\ ip' = [ip EXCEPT !.host = Tail(@)] /\ Raised({"untold"})
    /\ Done /\ UNCHANGED <<load, pm, drv, ka, wf, sched, fw, said>>

\* skw_work_process of SKW_WORK_SET_IP: a command that is refused is not repeated
SetIp(f) ==
    /\ ip.queue # <<>> /\ ~drv.work /\ f \in Failing(1) /\ Used(f)
    /\ ip' = [ip EXCEPT !.queue = Tail(@), !.fw = IF f = {} THEN Head(ip.queue) ELSE @]
    /\ Raised(If(f # {}, "unsent")) /\ UNCHANGED <<at, pm, drv, ka, wf, sched, fw, said>>

SchedScan(f) ==
    /\ Running /\ Op = [op |-> "sched"]
    /\ sched' = IF f = {} THEN [req |-> TRUE, cfg |-> TRUE, fw |-> TRUE] ELSE sched
    /\ Used(f) /\ Done /\ UNCHANGED <<pm, drv, ka, wf, ip, fw, said, odd>>

(* Sleep *)

Wow == load.sleeps[pm.cycle]                        \* a set of triggers, with "nd" for net detect; "off" without wake-up

\* skw_pm_notifier
PmPrepare ==
    /\ pm.pc = "awake" /\ pm.cycle <= Len(load.sleeps) /\ pm' = [pm EXCEPT !.pc = "prepared"]
    /\ UNCHANGED <<load, at, drv, ka, wf, sched, ip, fw, said, odd>>

\* skw_suspend(wow): transmission is blocked first, so the scan of net detect is refused and the request forgotten
Suspend(wow, ok) ==
    /\ drv' = [drv EXCEPT !.block = ok]
    /\ sched' = IF "nd" \in wow THEN [sched EXCEPT !.req = FALSE] ELSE sched
    /\ fw' = IF ok THEN [fw EXCEPT !.asleep = TRUE, !.wow = wow \ {"nd"}] ELSE fw
    /\ Raised(If("nd" \in wow, "nonet"))

\* skw_cfg80211_suspend; a failure ends the attempt to sleep
CfgSuspend(ok) ==
    /\ pm.pc = "prepared" /\ (ok \/ load.fails > 0)
    /\ IF load.bsp
       THEN /\ ok /\ drv' = [drv EXCEPT !.wow = IF Wow = {"off"} THEN {} ELSE @ \cup (Wow \ {"nd"})]
            /\ pm' = [pm EXCEPT !.pc = "bus"] /\ Raised(If(~(drv.wow \subseteq Wow) /\ Wow # {"off"}, "sticky") \cup If("nd" \in Wow, "nonet"))
            /\ UNCHANGED <<load, sched, fw>>
       ELSE /\ Suspend(Wow \ {"off"}, ok) /\ pm' = [pm EXCEPT !.pc = IF ok THEN "asleep" ELSE "resumed"]
            /\ load' = IF ok THEN load ELSE [load EXCEPT !.fails = @ - 1]
    /\ UNCHANGED <<at, ka, wf, ip, said>>

\* skw_bsp_notifier SUSPEND: the result is dropped
BspSuspend(ok) ==
    /\ pm.pc = "bus" /\ (ok \/ load.fails > 0) /\ pm' = [pm EXCEPT !.pc = "asleep"]
    /\ load' = IF ok THEN load ELSE [load EXCEPT !.fails = @ - 1]
    /\ drv' = [drv EXCEPT !.nf = TRUE, !.block = ok]
    /\ fw' = IF ok THEN [fw EXCEPT !.asleep = TRUE, !.wow = drv.wow] ELSE fw
    /\ Raised(If(drv.work, "late")) /\ UNCHANGED <<at, ka, wf, sched, ip, said>>

\* mutant: the driver waits for the firmware before it unblocks
ResumeBlocked(ok) ==
    /\ (ok \/ load.fails > 0) /\ load' = IF ok THEN load ELSE [load EXCEPT !.fails = @ - 1]
    /\ drv' = [drv EXCEPT !.block = ~ok, !.work = FALSE] /\ fw' = [fw EXCEPT !.asleep = @ /\ ~ok]
    /\ Raised(If(~ok, "deaf"))

\* skw_resume: transmission is unblocked, then the firmware is told; its failure is dropped
Resume(ok) ==
    /\ (ok \/ load.fails > 0) /\ load' = IF ok THEN load ELSE [load EXCEPT !.fails = @ - 1]
    /\ drv' = [drv EXCEPT !.block = FALSE, !.work = FALSE] /\ fw' = [fw EXCEPT !.asleep = @ /\ ~ok]
    /\ Raised(If(~ok, "deaf"))

\* the system wakes up: cfg80211 resumes the driver, or the bus has its worker do it
Wake(ok) ==
    /\ pm.pc = "asleep" /\ pm' = [pm EXCEPT !.pc = "resumed"]
    /\ IF load.bsp THEN ok /\ drv' = [drv EXCEPT !.nf = FALSE, !.work = @ \/ drv.nf] /\ UNCHANGED <<load, fw, odd>> ELSE Resume(ok)
    /\ UNCHANGED <<at, ka, wf, sched, ip, said>>

ResumeWork(ok) == drv.work /\ Resume(ok) /\ UNCHANGED <<at, pm, ka, wf, sched, ip, said>>

PmPost ==
    /\ pm.pc = "resumed" /\ pm' = [pc |-> "awake", cycle |-> pm.cycle + 1]
    /\ UNCHANGED <<load, at, drv, ka, wf, sched, ip, fw, said, odd>>

User ==
    /\ Running
    /\ \/ KaRefused \/ \E f \in Failing(3) : KeepActive(f)
       \/ Op.op = "rule" /\ FilterRule(Op.i, Op.kind, Op.good)
       \/ \E f \in Failing(Cardinality(wf.en) \div Batch + 1) : Op.op = "enable" /\ FilterEnable(Op.white, f)
       \/ \E f \in Failing(1) : FilterDisable(f) \/ SchedScan(f) \/ (Op.op = "wakeup" /\ SetWakeup(Op.on, f))
       \/ AddressUp \/ AddressDown
Worker == (\E f \in SUBSET {1} : SetIp(f)) \/ (\E ok \in BOOLEAN : ResumeWork(ok))
PmStep == PmPrepare \/ PmPost \/ \E ok \in BOOLEAN : CfgSuspend(ok) \/ BspSuspend(ok) \/ Wake(ok)
Next == User \/ Worker \/ PmStep

\* suspend and resume run to their end and the worker runs; the system may stay awake, and the user idle
Fairness == WF_vars(Worker) /\ WF_vars(PmStep /\ pm.pc # "awake")
Spec == Init /\ [][Next]_vars /\ Fairness

Flags == {"hole", "masked", "masked2", "staleop", "halfrule", "disall", "stillblack", "unheard", "cut", "replaced", "many",
          "untold", "unsent", "nonet", "sticky", "late", "deaf"}

(* Properties *)
TypeOK ==
    /\ at \in 1 .. Len(load.user) + 1 /\ pm.pc \in {"awake", "prepared", "bus", "asleep", "resumed"} /\ odd \subseteq Flags
    /\ drv.block \in BOOLEAN /\ ka.en \subseteq Idx /\ wf.en \subseteq Idx /\ DOMAIN fw.ka \subseteq Idx /\ DOMAIN fw.wf \subseteq Idx

\* After a keep-alive command that succeeded the firmware has every enabled rule as it was last given, and no other
KeepAliveAgrees == said.ka =>
    (DOMAIN fw.ka = ka.en /\ \A i \in ka.en : fw.ka[i] = ka.rule[i]) \/ odd \cap {"hole", "masked", "disall"} # {}

\* After an enable that succeeded the firmware filters by the rules as the user gave them and in the sense that was asked for
FilterAgrees == said.wf =>
    /\ DOMAIN fw.wf = wf.en \/ odd \cap {"disall", "masked2", "replaced"} # {}
    /\ \A i \in DOMAIN fw.wf : fw.wf[i] = wf.asked[i] \/ odd \cap {"staleop", "halfrule", "masked2"} # {}
    /\ fw.black = ~said.white \/ odd \cap {"stillblack", "disall", "replaced"} # {}

\* After set_wakeup the firmware compares exactly the bytes the mask selects
PatternsAgree == said.pat => fw.pat = Selected(load.mask) \/ odd \cap {"unheard", "cut"} # {}

\* A sleeping firmware is sent nothing, and sleeps with the triggers this sleep was asked for
AsleepAsAsked == fw.asleep =>
    /\ drv.block \/ odd \cap {"deaf", "late"} # {}
    /\ pm.pc = "asleep" => fw.wow = Wow \ {"nd", "off"} \/ odd \cap {"sticky", "deaf", "late"} # {}

\* A scheduled scan survives a sleep
SchedKept == sched.cfg => sched.req \/ "nonet" \in odd

\* The firmware has the host's addresses once the worker is done
AddressesAgree == ip.queue = <<>> => ip.fw = ip.host \/ odd \cap {"many", "untold", "unsent"} # {}

WakeSound == TypeOK /\ KeepAliveAgrees /\ FilterAgrees /\ PatternsAgree /\ AsleepAsAsked /\ SchedKept /\ AddressesAgree

\* After a sleep the driver transmits again
Transmits == pm.pc # "asleep" /\ ~drv.block
WakesUp == []<>Transmits
=============================================================================
