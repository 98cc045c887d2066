------------------------------ MODULE SkwTimer ------------------------------
(***************************************************************************)
(* The driver's timer list (skw_timer.c): timers of scans, authentications *)
(* and background scans share one kernel timer, armed for the first entry  *)
(* of a list.  list_add links a new entry behind the first one that is due *)
(* no earlier, or in front of all when there is none: the list is not      *)
(* sorted by time.                                                         *)
(***************************************************************************)
EXTENDS Integers, FiniteSets, SequencesExt

CONSTANTS
    Ids,     \* what timers are asked for (timer_id)
    Delays,  \* timeouts in ticks
    Horizon, \* the last tick at which a timer may be due
    Adds     \* timers added in all

None == -1

VARIABLES
    now,    \* jiffies
    list,   \* timer_data.list: records of id, due and gen (which add made it)
    armed,  \* the kernel timer, or None
    fire,   \* pc of skw_timer_work (idle, loop) and its timeout_list
    gone,   \* gens deleted by their owner, gens whose callback ran, timers freed by deinit
    open,   \* the list is in use: skw_timer_init has run and skw_timer_deinit has not
    made,   \* timers added so far
    odd     \* raced: a deleted timer was already on its way; unsync: a callback outlives deinit

vars == <<now, list, armed, fire, gone, open, made, odd>>

Init ==
    /\ now = 0 /\ list = <<>> /\ armed = None /\ fire = [pc |-> "idle", q |-> <<>>]
    /\ gone = [deleted |-> {}, fired |-> <<>>, freed |-> {}] /\ open = TRUE /\ made = 0 /\ odd = {}

Known(id) == \E i \in DOMAIN list : list[i].id = id                 \* skw_timer_id_exist
FirstDue(l) == IF l = <<>> THEN armed ELSE l[1].due                \* mod_timer for the first entry, if there is one

\* list_add behind the first entry due no earlier, or behind the head of the list
Linked(l, t) ==
    LET later == {i \in DOMAIN l : t.due <= l[i].due}
        at == IF later = {} THEN 0 ELSE CHOOSE i \in later : \A j \in later : i <= j IN
    SubSeq(l, 1, at) \o <<t>> \o SubSeq(l, at + 1, Len(l))

\* skw_add_timer_work; an id that is pending is a bug
AddTimerWork(id, d) ==
    /\ open /\ made < Adds /\ ~Known(id) /\ now + d + 1 <= Horizon
    /\ LET l == Linked(list, [id |-> id, due |-> now + d + 1, gen |-> made + 1]) IN
       list' = l /\ armed' = FirstDue(l)
    /\ made' = made + 1
    /\ UNCHANGED <<now, fire, gone, open, odd>>

\* the list without the first entry of an id
Cut(l, id) == RemoveAt(l, CHOOSE i \in DOMAIN l : l[i].id = id /\ \A j \in 1 .. i - 1 : l[j].id # id)

\* skw_del_timer_work: a timer that skw_timer_work has taken is not found
DelTimerWork(id) ==
    /\ open /\ (Known(id) \/ \E i \in DOMAIN fire.q : fire.q[i].id = id)
    /\ LET l == IF Known(id) THEN Cut(list, id) ELSE list IN
       list' = l /\ armed' = FirstDue(l)
    /\ gone' = [gone EXCEPT !.deleted = @ \cup {t.gen : t \in {t \in ToSet(list) \cup ToSet(fire.q) : t.id = id}}]
    /\ odd' = odd \cup (IF \E t \in ToSet(fire.q) : t.id = id /\ t.gen \notin gone.deleted THEN {"raced"} ELSE {})
    /\ UNCHANGED <<now, fire, open, made>>

\* mutant: the rest of the list waits for the next timer
WorkEndUnarmed ==
    /\ fire.pc = "loop" /\ fire.q = <<>>
    /\ fire' = [fire EXCEPT !.pc = "idle"]
    /\ UNCHANGED <<now, list, armed, gone, open, made, odd>>

\* mutant: an entry counts as due one tick early
DueEarly(l) == LET early == {i \in DOMAIN l : now + 1 < l[i].due} IN
    IF early = {} THEN Len(l) ELSE (CHOOSE i \in early : \A j \in early : i <= j) - 1

Due(l) == LET early == {i \in DOMAIN l : now < l[i].due} IN
    IF early = {} THEN Len(l) ELSE (CHOOSE i \in early : \A j \in early : i <= j) - 1

\* skw_timer_work takes what is due, up to the first entry that is not; list_move reverses it
WorkTake ==
    /\ fire.pc = "idle" /\ armed # None /\ armed <= now
    /\ fire' = [pc |-> "loop", q |-> Reverse(SubSeq(list, 1, Due(list)))]
    /\ list' = SubSeq(list, Due(list) + 1, Len(list)) /\ armed' = None
    /\ UNCHANGED <<now, gone, open, made, odd>>

\* a callback runs outside the lock
WorkCallback ==
    /\ fire.pc = "loop" /\ fire.q # <<>>
    /\ gone' = [gone EXCEPT !.fired = Append(@, [gen |-> fire.q[1].gen, at |-> now, due |-> fire.q[1].due])]
    /\ fire' = [fire EXCEPT !.q = Tail(@)]
    /\ UNCHANGED <<now, list, armed, open, made, odd>>

WorkEnd ==
    /\ fire.pc = "loop" /\ fire.q = <<>>
    /\ fire' = [fire EXCEPT !.pc = "idle"] /\ armed' = FirstDue(list)
    /\ UNCHANGED <<now, list, gone, open, made, odd>>

\* skw_timer_deinit: del_timer does not wait for a callback that runs
TimerDeinit ==
    /\ open /\ made > 0
    /\ open' = FALSE /\ armed' = None /\ list' = <<>>
    /\ gone' = [gone EXCEPT !.freed = {t.gen : t \in ToSet(list)}]
    /\ odd' = odd \cup (IF fire.pc = "loop" THEN {"unsync"} ELSE {})
    /\ UNCHANGED <<now, fire, made>>

\* time passes while no expiry is being served
Tick ==
    /\ now < Horizon /\ fire.pc = "idle" /\ (armed = None \/ armed > now)
    /\ now' = now + 1 /\ UNCHANGED <<list, armed, fire, gone, open, made, odd>>

TimerWork == WorkTake \/ WorkCallback \/ WorkEnd
Next == (\E id \in Ids : DelTimerWork(id) \/ \E d \in Delays : AddTimerWork(id, d)) \/ TimerWork \/ TimerDeinit \/ Tick

\* a kernel timer expires and its callback runs to its end; time passes
Fairness == WF_vars(TimerWork) /\ WF_vars(Tick)
Spec == Init /\ [][Next]_vars /\ Fairness

(* Properties *)
TypeOK ==
    /\ now \in 0 .. Horizon /\ made \in 0 .. Adds /\ open \in BOOLEAN /\ armed \in {None} \cup Nat
    /\ odd \subseteq {"raced", "unsync"} /\ fire.pc \in {"idle", "loop"}
    /\ \A t \in ToSet(list) \cup ToSet(fire.q) : t.id \in Ids /\ t.due \in Nat

Gens == {t.gen : t \in ToSet(list)} \cup {t.gen : t \in ToSet(fire.q)} \cup {t.gen : t \in ToSet(gone.fired)}

\* No callback runs early or twice, a deleted timer does not fire unless it was on its way, and none is lost
OnceAndNotEarly ==
    /\ \A i, j \in DOMAIN gone.fired : gone.fired[i].at >= gone.fired[i].due /\ (i # j => gone.fired[i].gen # gone.fired[j].gen)
    /\ \A t \in ToSet(gone.fired) : t.gen \in gone.deleted => "raced" \in odd
    /\ 1 .. made = Gens \cup gone.deleted \cup gone.freed

\* A timer is overdue only while an entry in front of it is due later: the list is served from its head
LateOnlyBehindLater ==
    fire.pc = "idle" /\ armed > now =>
        \A i \in DOMAIN list : list[i].due <= now => \E j \in 1 .. i - 1 : list[j].due > now

\* Nothing runs on the list once it is torn down
QuietAfterDeinit == ~open /\ fire.pc = "loop" => "unsync" \in odd

TimersSound == TypeOK /\ OnceAndNotEarly /\ LateOnlyBehindLater /\ QuietAfterDeinit

\* Every timer that is not deleted fires once time has passed what is due in front of it
AllGone == \A g \in 1 .. made : g \in gone.deleted \cup gone.freed \cup {t.gen : t \in ToSet(gone.fired)}
TimersFire == []<>AllGone
=============================================================================
