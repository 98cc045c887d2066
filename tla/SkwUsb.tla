------------------------------- MODULE SkwUsb -------------------------------
(***************************************************************************)
(* The URBs of the USB transport's WiFi data port (usb/skw_usb_io.c).      *)
(* Read URBs go from rx_urb_list into flight, to rx_done_urb_list when     *)
(* they complete, and back, or to suspend_urb_list.  The actors: the       *)
(* completion interrupt, the tasklet usb_handle, kick_rx_thread (the WiFi  *)
(* driver misses an acknowledgement), the sender of data, the port's       *)
(* thread usb_port_async_entry, suspend and resume, and disconnect.        *)
(*                                                                         *)
(* odd records the ways in which the code loses track; the properties name *)
(* each of them.                                                           *)
(***************************************************************************)
EXTENDS Integers, FiniteSets, SequencesExt

CONSTANTS
    Loads,  \* budgets a behaviour starts from
    Urbs,   \* the read URBs (3 in the code)
    NTx     \* the number of write URBs (10 in the code)

VARIABLES
    load,   \* budget left for errors, suspends, a halt, a disconnect, frames
    rx,     \* free, done, susp: the lists (susp with each URB's context); air: in flight; gone: freed; cnt: bulk_async_read
    task,   \* the tasklet usb_handle: pc, the URB it parses, whether it is scheduled again
    kick,   \* kick_rx_thread: "idle", or "take" or "race" behind its test of the list
    tx,     \* free: write URBs on tx_urb_list; air: in flight; count: tx_urb_count; snd: the sender
    port,   \* state, suspend and whether the port is still allocated
    thr,    \* usb_port_async_entry
    pm,     \* "on", "kill", "off", "resume", "awake": suspend and resume
    disc,   \* "no", "wait", "gone": skw_usb_io_disconnect
    odd     \* what went wrong

vars == <<load, rx, task, kick, tx, port, thr, pm, disc, odd>>

Init ==
    /\ load \in Loads
    /\ rx = [free |-> SetToSeq(Urbs), air |-> {}, done |-> <<>>, susp |-> <<>>, gone |-> {}, cnt |-> 0]
    /\ task = [pc |-> "idle", u |-> 0, ok |-> TRUE, again |-> FALSE] /\ kick = "idle"
    /\ tx = [free |-> NTx, air |-> 0, count |-> 0, snd |-> "idle"]
    /\ port = [state |-> 1, susp |-> FALSE, mem |-> TRUE]
    /\ thr = "start" /\ pm = "on" /\ disc = "no" /\ odd = {}

Spend(what) == load[what] > 0 /\ load' = [load EXCEPT ![what] = @ - 1]
Note(what)  == odd' = odd \cup {what}

-----------------------------------------------------------------------------
(* Reading                                                                 *)

\* bulkin_read_async takes the first URB without asking whether there is one; when
\* the port is suspended, or the submission fails, the URB goes to suspend_urb_list
ReadAsync(flags) ==
    \/ rx.free = <<>> /\ odd' = odd \cup {"emptied"} \cup flags /\ UNCHANGED <<rx, load>>
    \/ /\ rx.free # <<>> /\ port.susp
       /\ rx' = [rx EXCEPT !.free = Tail(@), !.susp = Append(@, [u |-> rx.free[1], ctx |-> TRUE])]
       /\ odd' = odd \cup flags /\ UNCHANGED load
    \/ /\ rx.free # <<>> /\ ~port.susp /\ pm = "on" /\ disc = "no"
       /\ rx' = [rx EXCEPT !.free = Tail(@), !.air = @ \cup {rx.free[1]}, !.cnt = @ + 1]
       /\ odd' = odd \cup flags /\ UNCHANGED load
    \/ /\ rx.free # <<>> /\ ~port.susp
       /\ IF pm = "on" /\ disc = "no" THEN Spend("fail") ELSE UNCHANGED load
       /\ rx' = [rx EXCEPT !.free = Tail(@), !.susp = Append(@, [u |-> rx.free[1], ctx |-> FALSE])]
       /\ odd' = odd \cup {"stranded"} \cup flags

\* the port's thread starts reading
ThreadStart ==
    /\ thr = "start" /\ port.mem
    /\ ReadAsync({}) /\ thr' = "wait"
    /\ UNCHANGED <<task, kick, tx, port, pm, disc>>

\* bulkin_async_complete for data or an error
Completed(u, ok) ==
    /\ rx' = IF port.state # 0
             THEN [rx EXCEPT !.air = @ \ {u}, !.cnt = @ - 1, !.done = Append(@, [u |-> u, ok |-> ok])]
             ELSE [rx EXCEPT !.air = @ \ {u}, !.cnt = @ - 1, !.free = Append(@, u)]
    /\ task' = IF port.state = 0 THEN task
               ELSE IF task.pc = "idle" THEN [task EXCEPT !.pc = "take"] ELSE [task EXCEPT !.again = TRUE]

ReadDone ==
    /\ pm = "on" /\ disc = "no"
    /\ \E u \in rx.air, ok \in BOOLEAN :
        /\ IF ok THEN Spend("data") ELSE Spend("err")
        /\ Completed(u, ok)
    /\ UNCHANGED <<kick, tx, port, thr, pm, disc, odd>>

\* the tasklet, once it is through, runs again when it was scheduled meanwhile
TaskEnd == [task EXCEPT !.pc = IF task.again THEN "take" ELSE "idle", !.again = FALSE, !.u = 0]

\* usb_handle takes a URB from the done list; it is back on rx_urb_list before its
\* buffer is parsed
HandleTake ==
    /\ task.pc = "take"
    /\ IF rx.done = <<>> \/ port.state = 0
       THEN task' = [task EXCEPT !.pc = "refill"] /\ UNCHANGED rx
       ELSE /\ rx' = [rx EXCEPT !.done = Tail(@), !.free = Append(@, rx.done[1].u)]
            /\ task' = [task EXCEPT !.pc = "parse", !.u = rx.done[1].u, !.ok = rx.done[1].ok]
    /\ UNCHANGED <<load, kick, tx, port, thr, pm, disc, odd>>

\* an error ends the tasklet, and nothing is submitted again
HandleParse ==
    /\ task.pc = "parse"
    /\ task' = IF ~task.ok \/ port.state = 0 THEN TaskEnd ELSE [task EXCEPT !.pc = "take", !.u = 0]
    /\ UNCHANGED <<load, rx, kick, tx, port, thr, pm, disc, odd>>

HandleRefill ==
    /\ task.pc = "refill"
    /\ task' = IF rx.free = <<>> \/ port.state = 0 THEN TaskEnd ELSE [task EXCEPT !.pc = "grab"]
    /\ UNCHANGED <<load, rx, kick, tx, port, thr, pm, disc, odd>>

HandleGrab ==
    /\ task.pc = "grab"
    /\ ReadAsync({}) /\ task' = [task EXCEPT !.pc = "refill"]
    /\ UNCHANGED <<kick, tx, port, thr, pm, disc>>

Tasklet == HandleTake \/ HandleParse \/ HandleRefill \/ HandleGrab

\* mutant: the kick wants every URB back on the list
CanKickAll == rx.cnt = 0 /\ Len(rx.free) = Cardinality(Urbs)

\* kick_rx_thread reads when nothing is in flight and a URB is free
CanKick == rx.cnt = 0 /\ rx.free # <<>>

Kick ==
    /\ \/ kick = "idle" /\ port.mem /\ port.state # 0 /\ CanKick
          /\ kick' = (IF task.pc = "idle" /\ thr # "start" THEN "take" ELSE "race") /\ UNCHANGED <<load, rx, odd>>
       \/ kick # "idle" /\ kick' = "idle" /\ ReadAsync(IF kick = "race" THEN {"kicked"} ELSE {})
    /\ UNCHANGED <<task, tx, port, thr, pm, disc>>

-----------------------------------------------------------------------------
(* Writing: bulkout_write_async                                            *)

SendStart ==
    /\ tx.snd = "idle" /\ port.mem /\ port.state # 0 /\ ~port.susp /\ Spend("frames")
    /\ tx' = [tx EXCEPT !.snd = IF tx.free = 0 THEN "wait" ELSE "take"]
    /\ UNCHANGED <<rx, task, kick, port, thr, pm, disc, odd>>

SendWoken ==
    /\ tx.snd = "wait" /\ tx.free > 0 /\ tx' = [tx EXCEPT !.snd = "take"]
    /\ UNCHANGED <<load, rx, task, kick, port, thr, pm, disc, odd>>

\* mutant: the count is not taken back when the submission fails
SubmitTxKeep ==
    \/ tx' = [tx EXCEPT !.snd = "idle", !.free = @ - 1, !.air = @ + 1, !.count = @ + 1]
    \/ tx' = [tx EXCEPT !.snd = "idle", !.count = @ + 1]

\* the submission fails on a device that is asleep or gone, and may fail at any time
SubmitTx ==
    \/ /\ pm = "on" /\ disc = "no"
       /\ tx' = [tx EXCEPT !.snd = "idle", !.free = @ - 1, !.air = @ + 1, !.count = @ + 1]
    \/ tx' = [tx EXCEPT !.snd = "idle"]

\* under tx_urb_lock; the state is looked at first
SendTake ==
    /\ tx.snd = "take"
    /\ IF port.state = 0 THEN tx' = [tx EXCEPT !.snd = "idle"] ELSE SubmitTx
    /\ UNCHANGED <<load, rx, task, kick, port, thr, pm, disc, odd>>

\* bulkout_async_complete: the frame's buffer goes back, the URB to the list
TxBack(n) == [tx EXCEPT !.free = @ + n, !.air = @ - n, !.count = @ - n]

WriteDone ==
    /\ tx.air > 0 /\ disc = "no" /\ tx' = TxBack(1)
    /\ UNCHANGED <<load, rx, task, kick, port, thr, pm, disc, odd>>

\* skw_WIFI_service_stop kills what is being sent
ServiceStop ==
    /\ port.mem /\ tx.count > 0 /\ Spend("stop") /\ tx' = TxBack(tx.air)
    /\ UNCHANGED <<rx, task, kick, port, thr, pm, disc, odd>>

-----------------------------------------------------------------------------
(* Suspend and resume                                                      *)

Suspend ==
    /\ pm = "on" /\ disc = "no" /\ port.mem /\ Spend("sleep")
    /\ tx' = IF tx.count > 0 THEN TxBack(tx.air) ELSE tx
    /\ port' = [port EXCEPT !.susp = TRUE] /\ pm' = "kill"
    /\ UNCHANGED <<rx, task, kick, thr, disc, odd>>

Kept(us) == [i \in 1 .. Cardinality(us) |-> [u |-> SetToSeq(us)[i], ctx |-> TRUE]]

\* usb_kill_anchored_urbs: each read completes with -ENOENT and is kept for resume
SuspendKill ==
    /\ pm = "kill" /\ pm' = "off"
    /\ rx' = [rx EXCEPT !.susp = @ \o Kept(rx.air), !.cnt = @ - Cardinality(rx.air), !.air = {}]
    /\ UNCHANGED <<load, task, kick, tx, port, thr, disc, odd>>

\* what is in the list is submitted again; the counter is not told
Resume ==
    \/ /\ pm = "off" /\ disc = "no" /\ pm' = "resume" /\ UNCHANGED <<load, rx, port, odd>>
    \/ /\ pm = "resume" /\ rx.susp # <<>> /\ UNCHANGED port
       /\ \/ /\ rx' = [rx EXCEPT !.susp = Tail(@), !.air = @ \cup {rx.susp[1].u}]
             /\ Note("uncounted") /\ UNCHANGED <<load, pm>>
          \/ /\ Spend("fail") /\ rx' = [rx EXCEPT !.susp = Tail(@)]
             /\ Note("dropped") /\ pm' = "awake"
    \/ /\ pm = "resume" /\ rx.susp = <<>> /\ pm' = "awake" /\ UNCHANGED <<load, rx, port, odd>>
    \/ /\ pm = "awake" /\ pm' = "on" /\ UNCHANGED <<load, rx>>
       /\ port' = IF "dropped" \in odd THEN port ELSE [port EXCEPT !.susp = FALSE]
       /\ odd' = IF rx.susp # <<>> THEN odd \cup {"slept"} ELSE odd

PmStep ==
    SuspendKill \/ (Resume /\ UNCHANGED <<task, kick, tx, thr, disc>>)

\* a read completes while resume is at work
ResumeRead ==
    /\ pm \in {"resume", "awake"} /\ disc = "no"
    /\ \E u \in rx.air : Spend("data") /\ Completed(u, TRUE)
    /\ UNCHANGED <<kick, tx, port, thr, pm, disc, odd>>

-----------------------------------------------------------------------------
(* The end of a port                                                       *)

\* the firmware asserts: skw_usb_kill_wifi_threads
Halt ==
    /\ port.mem /\ port.state # 0 /\ Spend("halt") /\ port' = [port EXCEPT !.state = 0]
    /\ UNCHANGED <<rx, task, kick, tx, thr, pm, disc, odd>>

\* skw_usb_io_disconnect up to the semaphore, skw_usb_io_free_suspend_urbs included:
\* what waits for resume goes to the free list, the last by its completion, which
\* forgets a URB without context
FreedSusp ==
    LET n == Len(rx.susp)
        us == [i \in 1 .. n |-> rx.susp[i].u] IN
    IF n = 0 THEN rx
    ELSE IF rx.susp[n].ctx
         THEN [rx EXCEPT !.free = @ \o us, !.susp = <<>>, !.cnt = @ - 1]
         ELSE [rx EXCEPT !.free = @ \o Front(us), !.susp = <<>>]

Disconnect ==
    /\ disc = "no" /\ port.mem /\ pm \in {"on", "off"} /\ Spend("gone")
    /\ port' = [port EXCEPT !.state = 0, !.susp = FALSE]
    /\ rx' = FreedSusp
    /\ odd' = IF rx.susp # <<>> /\ ~Last(rx.susp).ctx THEN odd \cup {"leaked"} ELSE odd
    /\ disc' = "wait"
    /\ UNCHANGED <<task, kick, tx, thr, pm>>

\* the thread, 50 ms after state went to 0 (a tasklet or a kick under way is through
\* by then): it kills what is in flight ...
ThreadKill ==
    /\ thr = "wait" /\ port.state = 0 /\ disc = "wait" /\ task.pc = "idle" /\ kick = "idle"
    /\ rx' = [rx EXCEPT !.free = @ \o SetToSeq(rx.air), !.cnt = @ - Cardinality(rx.air), !.air = {}]
    /\ tx' = TxBack(tx.air) /\ thr' = "free"
    /\ UNCHANGED <<load, task, kick, port, pm, disc, odd>>

\* ... frees the lists and raises the semaphore
ThreadFree ==
    /\ thr = "free"
    /\ rx' = [rx EXCEPT !.gone = @ \cup ToSet(rx.free), !.free = <<>>]
    /\ tx' = [tx EXCEPT !.free = 0]
    /\ thr' = "up"
    /\ UNCHANGED <<load, task, kick, port, pm, disc, odd>>

\* disconnect frees what completed and was not parsed, and then the port
DisconnectFree ==
    /\ disc = "wait" /\ thr = "up"
    /\ rx' = [rx EXCEPT !.gone = @ \cup {rx.done[i].u : i \in DOMAIN rx.done}, !.done = <<>>]
    /\ port' = [port EXCEPT !.mem = FALSE] /\ disc' = "gone"
    /\ odd' = IF tx.snd = "wait" THEN odd \cup {"sleeper"} ELSE odd
    /\ UNCHANGED <<load, task, kick, tx, thr, pm>>

Thread == ThreadStart \/ ThreadKill \/ ThreadFree
Sender == SendWoken \/ SendTake

Next ==
    \/ Thread \/ ReadDone \/ Tasklet \/ Kick \/ SendStart \/ Sender \/ WriteDone \/ ServiceStop
    \/ Suspend \/ PmStep \/ ResumeRead \/ Halt \/ Disconnect \/ DisconnectFree

Fairness ==
    /\ WF_vars(Thread) /\ WF_vars(Tasklet) /\ WF_vars(Kick) /\ WF_vars(Sender)
    /\ WF_vars(WriteDone) /\ WF_vars(PmStep) /\ WF_vars(DisconnectFree)

Spec == Init /\ [][Next]_vars /\ Fairness

-----------------------------------------------------------------------------
(* Properties *)

Places == <<rx.free, SetToSeq(rx.air), [i \in DOMAIN rx.done |-> rx.done[i].u],
            [i \in DOMAIN rx.susp |-> rx.susp[i].u], SetToSeq(rx.gone)>>

TypeOK ==
    /\ task.pc \in {"idle", "take", "parse", "refill", "grab"} /\ task.u \in Urbs \cup {0}
    /\ tx.free \in 0 .. NTx /\ tx.air \in 0 .. NTx /\ tx.snd \in {"idle", "wait", "take"}
    /\ thr \in {"start", "wait", "free", "up"} /\ pm \in {"on", "kill", "off", "resume", "awake"}

\* Every read URB is in one place; only a resume that fails half-way forgets one, or a disconnect
\* that finds one whose submission failed last on suspend_urb_list,
\* and only the unlocked test of rx_urb_list lets two actors grab the last one.
UrbsOwned ==
    LET all == FlattenSeq(Places) IN
    /\ Cardinality(ToSet(all)) = Len(all)
    /\ Len(all) = Cardinality(Urbs) \/ {"dropped", "leaked"} \cap odd # {}

\* bulk_async_read counts the reads in flight, until a resume.
ReadsCounted == rx.cnt = Cardinality(rx.air) \/ "uncounted" \in odd \/ disc # "no"

\* tx_urb_count counts the writes in flight.
WritesCounted == tx.count = tx.air

\* A buffer is not overwritten while it is parsed, unless a kick submits the URB
\* usb_handle has put back too early; behind a resume the kick counts wrong.
ParsedInPeace == task.pc = "parse" /\ task.u \in rx.air => "kicked" \in odd \/ "uncounted" \in odd

\* The first URB is only taken from an empty list when a kick has tested the list
\* while the tasklet or the thread was at it too, or the counter it asks was wrong.
NotEmptied == "emptied" \in odd => "kicked" \in odd \/ "uncounted" \in odd

\* When the port is freed nothing of it is in use: no URB in flight, no tasklet, no
\* thread, no sender but one that sleeps for a URB (sleeper), and no
\* URB is left, but one whose submission failed behind the disconnect (stranded).
FreedUnused ==
    ~port.mem => /\ rx.air = {} /\ tx.air = 0 /\ rx.done = <<>> /\ task.pc = "idle" /\ kick = "idle"
                 /\ (tx.snd = "wait" => "sleeper" \in odd)
                 /\ tx.free = 0 /\ rx.free = <<>> /\ (rx.susp = <<>> \/ "stranded" \in odd)

\* The URBs of the data port: one owner each, counted, not overwritten, and none
\* in use when the port goes.
UsbSound == TypeOK /\ UrbsOwned /\ ReadsCounted /\ WritesCounted /\ ParsedInPeace /\ NotEmptied /\ FreedUnused

\* An open port that is awake has a read in flight again and again, whatever reads
\* failed (the WiFi driver's kick starts it again), unless the URBs are stranded on
\* suspend_urb_list (stranded, slept), forgotten (dropped), or the counter that the
\* kick asks has gone wrong (uncounted).
Reading ==
    \/ rx.air # {} \/ port.state = 0 \/ pm # "on"
    \/ {"stranded", "slept", "dropped", "uncounted"} \cap odd # {}

\* A disconnected port is freed in the end.
Freed == disc # "wait"

\* The data port keeps reading while it is up and ends when it is unplugged.
UsbMoved == Reading /\ Freed
UsbMoves == []<>UsbMoved
=============================================================================
