------------------------------- MODULE SkwLog -------------------------------
(***************************************************************************)
(* The recorder of the chip's log (skw_log_to_file.c, built with           *)
(* CONFIG_NO_GKI): a work reads the LOG port of the bus into a buffer and  *)
(* writes numbered files, started and stopped by chip events, by the       *)
(* strings START and STOP written to the LOG device, by probe and by       *)
(* remove.  record_flag and cp_assert_status are plain variables that      *)
(* every side sets.                                                        *)
(***************************************************************************)
EXTENDS Integers, FiniteSets, SequencesExt

CONSTANTS
    Data,    \* pieces of log the chip produces
    Room,    \* pieces the read buffer holds (8 kB)
    FileMax, \* pieces after which a file is full (skw_log_size)
    LogNum,  \* the highest file number (skw_log_num)
    MaxErr,  \* read errors that are tolerated (5)
    Events   \* chip events and user commands in all

VARIABLES
    dev,   \* skw_log_dev (none, ready, freed), log_com, log_start, whether the notifier was set up and is registered
    flags, \* record_flag, cp_assert_status, tx_busy
    port,  \* the bus port (close, idle, open, asst), its readable pieces, log_com->open, a user has the LOG device open
    work,  \* pc, queued again, buffer, file offset, file number, read errors, files open
    out,   \* pieces read so far, pieces in files, pieces thrown away
    exit,  \* skw_modem_log_exit: idle, cancel
    left,  \* events still to come
    odd    \* what went wrong

vars == <<dev, flags, port, work, out, exit, left, odd>>

Idle == [pc |-> "idle", queued |-> FALSE, buf |-> <<>>, offset |-> 0, num |-> 0, errs |-> 0, store |-> FALSE, file |-> FALSE]

Init ==
    /\ dev = [log |-> "none", com |-> FALSE, start |-> FALSE, known |-> FALSE, told |-> FALSE]
    /\ flags = [record |-> FALSE, asrt |-> FALSE, busy |-> FALSE]
    /\ port = [state |-> "idle", n |-> 0, made |-> 0, opens |-> 0, user |-> FALSE]
    /\ work = Idle /\ out = [read |-> 0, written |-> <<>>, lost |-> {}]
    /\ exit = "idle" /\ left = Events /\ odd = {}

Event == left > 0 /\ left' = left - 1
Mark(c, f) == odd' = odd \cup (IF c THEN {f} ELSE {})

(* skw_modem_log_start_rec and skw_modem_log_stop_rec, as changes of flags, work and port *)
Starts(d) == port.opens <= 1 /\ d = "ready" /\ ~flags.record
Started(d, f) == [f EXCEPT !.asrt = IF Starts(d) THEN FALSE ELSE @]
Queue(d, w) == [w EXCEPT !.queued = IF Starts(d) THEN TRUE ELSE @]
Stopped(f) == [f EXCEPT !.record = FALSE]
StopKeepsPort(p) == p                                  \* mutant: stopping leaves the reader asleep on the port
StopRecPort(p) == [p EXCEPT !.state = IF @ = "idle" THEN @ ELSE "close"]   \* close_port fails on an idle port

\* skw_modem_log_init by probe or START; a second START clears log_start, and the second allocation may fail and
\* leave a freed skw_log_dev behind
LogInit(ok) ==
    /\ Event /\ exit = "idle" /\ ~flags.busy
    /\ \/ /\ dev.log # "none" /\ ok /\ Mark(dev.log = "freed", "dangling")
          /\ dev' = [dev EXCEPT !.start = FALSE] /\ UNCHANGED <<flags, work>>
       \/ /\ dev.log = "none" /\ ok
          /\ dev' = [log |-> "ready", com |-> TRUE, start |-> TRUE, known |-> TRUE, told |-> ~dev.known]
          /\ Mark(dev.known, "deaf")                   \* notifier_call is still set: not registered again
          /\ flags' = Started("ready", flags) /\ work' = Queue("ready", work)
       \/ /\ dev.log = "none" /\ ~ok
          /\ dev' = [dev EXCEPT !.log = "freed", !.com = TRUE] /\ UNCHANGED <<flags, work, odd>>
    /\ UNCHANGED <<port, out, exit>>

\* DEVICE_ASSERT_EVENT: tx_busy is taken and never given back here
AssertEvent ==
    /\ Event /\ dev.told
    /\ flags' = (IF flags.busy THEN Started(dev.log, flags) ELSE [Started(dev.log, flags) EXCEPT !.busy = TRUE, !.asrt = TRUE])
    /\ work' = Queue(dev.log, work)
    /\ port' = [port EXCEPT !.state = IF @ = "open" THEN "asst" ELSE @]   \* the bus marked the open ports before
    /\ Mark(flags.busy, "ignored")
    /\ UNCHANGED <<dev, out, exit>>

BspReadyEvent ==
    /\ Event /\ dev.told
    /\ flags' = Started(dev.log, flags) /\ work' = Queue(dev.log, work)
    /\ UNCHANGED <<dev, port, out, exit, odd>>

DumpDoneEvent ==
    /\ Event /\ dev.told
    /\ flags' = [Stopped(flags) EXCEPT !.asrt = FALSE] /\ port' = StopRecPort(port)
    /\ Mark(port.user, "pulled")
    /\ UNCHANGED <<dev, work, out, exit>>

(* a user program opens and closes the LOG device (ucom_open, ucom_release) *)
UserOpen ==
    /\ Event /\ ~port.user /\ port.opens <= 1
    /\ port' = [port EXCEPT !.opens = @ + 1, !.user = TRUE, !.state = IF port.opens = 0 THEN "open" ELSE @]
    /\ flags' = [flags EXCEPT !.busy = IF port.opens = 0 THEN FALSE ELSE @]
    /\ Mark(port.opens > 0 /\ port.state # "open", "pulled")
    /\ UNCHANGED <<dev, work, out, exit>>

UserRelease ==
    /\ port.user /\ exit = "idle"
    /\ port' = [(IF dev.start THEN port ELSE StopRecPort(port)) EXCEPT !.opens = @ - 1, !.user = FALSE]
    /\ Mark(~dev.start /\ work.pc # "idle", "shut")
    /\ UNCHANGED <<dev, flags, work, out, exit, left>>

\* skw_modem_log_exit up to cancel_work_sync, by STOP or remove
LogExit ==
    /\ Event /\ exit = "idle" /\ dev.log = "ready" /\ dev.com
    /\ dev' = [dev EXCEPT !.told = FALSE] /\ flags' = Stopped(flags) /\ port' = StopRecPort(port)
    /\ work' = [work EXCEPT !.queued = FALSE] /\ exit' = "cancel"
    /\ odd' = odd \cup (IF flags.asrt THEN {"clung"} ELSE {}) \cup (IF work.pc = "begin" THEN {"late"} ELSE {})
                  \cup (IF port.user THEN {"pulled"} ELSE {})
    /\ UNCHANGED <<out>>

LogExitEnd ==
    /\ exit = "cancel" /\ work.pc = "idle"
    /\ dev' = [dev EXCEPT !.log = "none", !.com = FALSE, !.start = FALSE] /\ exit' = "idle"
    /\ UNCHANGED <<flags, port, work, out, left, odd>>

(* skw_modem_log_to_file_work *)
Return(w, f) == work' = [w EXCEPT !.pc = "idle", !.buf = <<>>] /\ odd' = odd \cup f

WorkStart ==
    /\ work.pc = "idle" /\ work.queued
    /\ work' = [work EXCEPT !.pc = "begin", !.queued = FALSE]
    /\ UNCHANGED <<dev, flags, port, out, exit, left, odd>>

\* record_flag is set first; a failed allocation or a store that does not open leaves it set
WorkBegin(ok) ==
    /\ work.pc = "begin"
    /\ IF flags.record THEN Return(work, {}) /\ UNCHANGED flags
       ELSE /\ flags' = [flags EXCEPT !.record = TRUE]
            /\ IF ok THEN work' = [work EXCEPT !.pc = "file", !.store = TRUE] /\ UNCHANGED odd
               ELSE Return(work, {"stuck"})
    /\ UNCHANGED <<dev, port, out, exit, left>>

NextNum(n) == IF n + 1 > LogNum THEN 0 ELSE n + 1

\* the next number is read from the store, and its file opened
WorkFile(ok) ==
    /\ work.pc = "file"
    /\ LET w == [work EXCEPT !.num = NextNum(@)] IN
       IF ok THEN work' = [w EXCEPT !.pc = "port", !.file = TRUE, !.offset = 0, !.errs = 0] /\ UNCHANGED odd
       ELSE Return(w, {"stuck", "storeleft"})
    /\ UNCHANGED <<dev, flags, port, out, exit, left>>

WorkPort(ok) ==
    /\ work.pc = "port"
    /\ port' = [port EXCEPT !.opens = @ + 1, !.state = IF port.opens = 0 THEN "open" ELSE @]
    /\ IF ok THEN work' = [work EXCEPT !.pc = "loop", !.buf = <<>>] /\ UNCHANGED odd
       ELSE Return(work, {"stuck", "storeleft", "fileleft", "opensleft"})
    /\ UNCHANGED <<dev, flags, out, exit, left>>

WorkLoop ==
    /\ work.pc = "loop"
    /\ work' = [work EXCEPT !.pc = IF flags.record \/ flags.asrt THEN "rx" ELSE "end"]
    /\ UNCHANGED <<dev, flags, port, out, exit, left, odd>>

\* a read that fails: more than MaxErr of them, or an asserted SDIO port, stop the recorder
Failed(state, conn) ==
    /\ LET over == conn \/ work.errs + 1 > MaxErr IN
       /\ flags' = (IF over THEN [Stopped(flags) EXCEPT !.asrt = FALSE] ELSE flags)
       /\ port' = (IF over THEN StopRecPort(port) ELSE [port EXCEPT !.state = state])
       /\ work' = [work EXCEPT !.pc = "got", !.errs = IF @ > MaxErr THEN @ ELSE @ + 1]
       /\ Mark(over /\ port.user, "pulled")
    /\ UNCHANGED out

\* hw_sdma_rx on the LOG port; it sleeps while an open or idle port has nothing to read
WorkRx ==
    /\ work.pc \in {"rx", "wait"}
    /\ \/ port.state = "asst" /\ Failed("open", TRUE)
       \/ /\ port.state # "asst" /\ port.n > 0
          /\ port' = [port EXCEPT !.n = @ - 1]
          /\ out' = [out EXCEPT !.read = @ + 1]
          /\ work' = [work EXCEPT !.pc = "got", !.buf = Append(@, out.read + 1), !.errs = 0]
          /\ UNCHANGED <<flags, odd>>
       \/ /\ port.state = "close" /\ port.n = 0
          /\ Failed(IF work.pc = "wait" THEN "idle" ELSE "close", FALSE)
       \/ /\ port.state \in {"open", "idle"} /\ port.n = 0 /\ work.pc = "rx"
          /\ work' = [work EXCEPT !.pc = "wait"] /\ UNCHANGED <<flags, port, out, odd>>
    /\ UNCHANGED <<dev, exit, left>>

Flush == (work.buf # <<>> /\ flags.asrt) \/ Room - Len(work.buf) <= 1

\* mutant: the buffer's length is not reset after a write
WorkGotAgain(res) ==
    /\ work.pc = "got" /\ (res # "ok" => Flush)
    /\ work' = [work EXCEPT !.pc = "loop", !.offset = @ + Len(work.buf)]
    /\ out' = (IF Flush THEN [out EXCEPT !.written = @ \o work.buf] ELSE out)
    /\ UNCHANGED <<dev, flags, port, exit, left, odd>>

\* the buffer goes to the file when it is nearly full or the chip died; a failed write drops it, a full disk stops the
\* recorder, and a full file is replaced by the next one
WorkGot(res) ==
    /\ work.pc = "got" /\ (res # "ok" => Flush)
    /\ LET n == work.offset + (IF res = "ok" /\ Flush THEN Len(work.buf) ELSE 0)
           turn == Flush /\ n > FileMax /\ ~flags.asrt
           harm == (IF res # "ok" THEN {"unwritten"} ELSE {}) \cup (IF res = "nospace" /\ port.user THEN {"pulled"} ELSE {})
           w == [work EXCEPT !.pc = "loop", !.buf = IF Flush THEN <<>> ELSE @, !.offset = IF turn THEN 0 ELSE n,
                             !.num = IF turn THEN NextNum(@) ELSE @] IN
       /\ out' = (IF ~Flush THEN out ELSE IF res = "ok" THEN [out EXCEPT !.written = @ \o work.buf]
                  ELSE [out EXCEPT !.lost = @ \cup ToSet(work.buf)])
       /\ IF res = "nospace"
          THEN flags' = Stopped(flags) /\ port' = StopRecPort(port) ELSE UNCHANGED <<flags, port>>
       /\ \/ work' = w /\ odd' = odd \cup harm
          \/ turn /\ Return([w EXCEPT !.file = FALSE], harm \cup {"stuck", "storeleft", "opensleft"})
    /\ UNCHANGED <<dev, exit, left>>

\* what is still in the buffer is not written
WorkEnd ==
    /\ work.pc = "end"
    /\ port' = [StopRecPort(port) EXCEPT !.opens = @ - 1]
    /\ out' = [out EXCEPT !.lost = @ \cup ToSet(work.buf)]
    /\ Return([work EXCEPT !.store = FALSE, !.file = FALSE],
              (IF work.buf # <<>> THEN {"tail"} ELSE {}) \cup (IF port.user THEN {"pulled"} ELSE {}))
    /\ UNCHANGED <<dev, flags, exit, left>>

Work ==
    \/ WorkStart \/ WorkLoop \/ WorkRx \/ WorkEnd
    \/ \E ok \in BOOLEAN : WorkBegin(ok) \/ WorkFile(ok) \/ WorkPort(ok)
    \/ \E res \in {"ok", "error", "nospace"} : WorkGot(res)

\* the chip logs into the port as long as it is not closed
ChipLogs ==
    /\ port.made < Data /\ port.state \in {"open", "asst"} /\ port.n < Room
    /\ port' = [port EXCEPT !.n = @ + 1, !.made = @ + 1]
    /\ UNCHANGED <<dev, flags, work, out, exit, left, odd>>

Next ==
    \/ (\E ok \in BOOLEAN : LogInit(ok)) \/ AssertEvent \/ BspReadyEvent \/ DumpDoneEvent
    \/ UserOpen \/ UserRelease \/ LogExit \/ LogExitEnd \/ Work \/ ChipLogs

\* the workqueue runs, and so does the thread that waits for its work
Fairness == WF_vars(Work) /\ WF_vars(LogExitEnd)
Spec == Init /\ [][Next]_vars /\ Fairness

Flags == {"dangling", "deaf", "ignored", "pulled", "clung", "late", "shut", "stuck", "storeleft", "fileleft", "opensleft", "unwritten", "tail"}

(* Properties *)
TypeOK ==
    /\ dev.log \in {"none", "ready", "freed"} /\ port.state \in {"close", "idle", "open", "asst"} /\ odd \subseteq Flags
    /\ port.n \in 0 .. Room /\ port.opens \in 0 .. 4 /\ work.num \in 0 .. LogNum /\ exit \in {"idle", "cancel"}
    /\ work.pc \in {"idle", "begin", "file", "port", "loop", "rx", "wait", "got", "end"} /\ Len(work.buf) <= Room

\* record_flag stands for a work that records: it is left set by a work that gave up
RecordHonest == flags.record /\ work.pc = "idle" => "stuck" \in odd

\* The recorder is told of crashes and restarts, until it has been stopped once
TellsRecorder == dev.log = "ready" /\ exit = "idle" /\ ~dev.told => "deaf" \in odd

\* What was read is in the files in order and once, in the buffer, or was dropped for a reason that is known
Ordered(s) == \A i \in 1 .. Len(s) - 1 : s[i] < s[i + 1]
LogKept ==
    /\ Ordered(out.written \o work.buf)
    /\ out.lost \cap ToSet(out.written) = {}
    /\ 1 .. out.read = ToSet(out.written) \cup ToSet(work.buf) \cup out.lost
    /\ out.lost # {} => odd \cap {"unwritten", "tail"} # {}

\* Files, open count and port are balanced: who uses the port counts, and an idle work has no file open
HandlesBalanced ==
    /\ work.pc = "idle" => (work.store => "storeleft" \in odd) /\ (work.file => "fileleft" \in odd)
    /\ (port.opens = (IF port.user THEN 1 ELSE 0) + (IF work.pc \in {"loop", "rx", "wait", "got", "end"} THEN 1 ELSE 0))
        \/ "opensleft" \in odd
    /\ port.user /\ port.state # "open" => odd \cap {"pulled", "opensleft"} # {} \/ port.state = "asst"

\* No work runs, or waits to run, once the recorder is taken down
QuietAfterExit == dev.log # "ready" => work.pc = "idle" /\ ~work.queued

LogSound == TypeOK /\ RecordHonest /\ TellsRecorder /\ LogKept /\ HandlesBalanced /\ QuietAfterExit

\* Taking the recorder down ends, unless a crash status keeps its work in the loop, the work
\* sets record_flag after it, or a user closed the port under the work, which an idle port never wakes
Ended == exit = "idle" \/ odd \cap {"clung", "late", "shut"} # {}
ExitEnds == []<>Ended
=============================================================================
