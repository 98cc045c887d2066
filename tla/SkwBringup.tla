----------------------------- MODULE SkwBringup -----------------------------
(***************************************************************************)
(* Loading and unloading of the SDIO platform module and of the WiFi       *)
(* module.  A load is a list of steps, each of which takes a resource and  *)
(* may fail; what a failing step undoes is what the labels at the end of   *)
(* the C function undo, in their order.  An unload is a list of resources  *)
(* given back, each only if it is held.                                    *)
(*                                                                         *)
(* The WiFi driver's probe and remove run inside the step of whoever       *)
(* completes or dissolves the pair of device and driver: the platform      *)
(* module when it binds or unbinds the WiFi device, the user otherwise.    *)
(***************************************************************************)
EXTENDS Integers, FiniteSets, SequencesExt

CONSTANT Loads  \* opens (of the boot port), fails (steps that may fail), turns, wturns (loads of each module), dma (transfer mode)

VARIABLES
    load,   \* what is left of the budget
    held,   \* resources taken and not given back
    plat,   \* platform module: pc (none, init, undo, up, exit), todo (steps or resources left), ret
    wifi,   \* WiFi driver: the same, and drv (the driver is registered)
    odd     \* failures the code does not handle, by name

vars == <<load, held, plat, wifi, odd>>

\* a step: what it takes, what it takes even when it fails, what a failure means, what it undoes,
\* how many steps of its function are behind it, and the name of a failure that is not handled
Step(r, on, undo, o) == [get |-> r, also |-> {}, on |-> on, undo |-> undo, past |-> -1, odd |-> o]
Try(r, undo) == Step(r, "fail", undo, "")               \* the error is returned
TryOdd(r, undo, o) == Step(r, "fail", undo, o)          \* it is returned, something stays behind
Sure(r) == Step(r, "sure", <<>>, "")                    \* it cannot fail
Lax(r, o) == Step(r, "go", <<>>, o)                     \* it is ignored
Leave(r, undo, o) == Step(r, "leave", undo, o)          \* the function returns it, its caller ignores it
Check(undo, o) == Step("", "zero", undo, o)             \* everything is undone and 0 returned

\* the body of a function: the number of its steps behind each that no inner function has counted
Body(s) == [i \in 1 .. Len(s) |-> [s[i] EXCEPT !.past = IF @ = -1 THEN Len(s) - i ELSE @]]

-----------------------------------------------------------------------------
(* The WiFi driver                                                         *)

BufferDeinit == <<"sgl_dat", "sgl_cmd", "cmd_data">>
RxDeinit == <<"cmd_cb", "dat_cb", "rx_thr">>
TxDeinit == <<"tx_wq", "tx_dy", "vring", "tx_cb", "eof_blk", "sdma">>
WqDeinit == <<"event_wq", "ws", "entries">>

CoreDeinit == TxDeinit \o RxDeinit \o BufferDeinit \o WqDeinit

\* mutant: the second list of segments is forgotten
BufferInitShort(u) ==
    <<Try("sgl_dat", u), Try("sgl_cmd", <<"sgl_dat">> \o u), Try("cmd_data", <<"sgl_dat">> \o u)>>

BufferInit(u) ==
    <<Try("sgl_dat", u), Try("sgl_cmd", <<"sgl_dat">> \o u), Try("cmd_data", <<"sgl_dat", "sgl_cmd">> \o u)>>

\* a data port that cannot be registered leaves the command port registered; a thread that
\* cannot be created is NULL, which IS_ERR does not see
RegisterRxCallback(u) == <<Try("cmd_cb", u), TryOdd("dat_cb", u, "cbleft")>>
RxThread == Lax("rx_thr", "norx")
RxInit(u) == RegisterRxCallback(u) \o <<RxThread>>

\* hw.dma picks the way frames are sent; a callback is not taken back when a later step fails,
\* and the buffer of an asynchronous SDMA is allocated even if the callback was refused
HwXmitInit(dma, u) ==
    CASE dma = "sync_adma" -> <<>>
      [] dma = "sync_sdma" -> <<Try("sdma", u)>>
      [] dma = "async_adma" -> <<Try("tx_cb", u)>>
      [] dma = "async_sdma" -> <<[TryOdd("tx_cb", u, "sdmaleft") EXCEPT !.also = {"sdma"}], TryOdd("sdma", u, "txcbleft")>>

\* __skw_tx_init, whose caller then frees what skw_tx_init has allocated, but keeps a callback
TxQueuesInit(dma, u) ==
    LET o == IF dma \in {"async_adma", "async_sdma"} THEN "txcbleft" ELSE "" IN
    <<TryOdd("tx_wq", u, o), TryOdd("tx_dy", <<"tx_wq">> \o u, o), Lax("vring", "novring")>>

TxInit(dma, u) ==
    <<Try("eof_blk", u)>> \o HwXmitInit(dma, <<"eof_blk">> \o u) \o TxQueuesInit(dma, <<"eof_blk", "sdma">> \o u)

CoreInit(dma, u) ==
    LET wq == WqDeinit \o u
        buf == BufferDeinit \o wq IN
    <<Sure("entries"), Sure("ws"), Try("event_wq", <<"ws", "entries">> \o u)>>
    \o BufferInit(wq) \o RxInit(buf) \o TxInit(dma, RxDeinit \o buf)

FreeWiphy == <<"wiphy", "idx">>

\* the label core_deinit of the probe
ProbeUndo == <<"service", "recovery", "timer", "work", "vendor">> \o CoreDeinit \o FreeWiphy

\* three answers of the firmware that decide without their result being returned: the versions
\* of commands and events, the chip's capabilities, the calibration data in pieces
SyncCmdEventVersion == Check(ProbeUndo, "silent")
SyncChipInfo == Check(ProbeUndo, "silent")
CalibDownload == Check(ProbeUndo, "silent")

\* skw_setup_wiphy ends in wiphy_register, skw_add_default_iface in a registered netdev
SetupWiphy == Try("registered", ProbeUndo)
AddDefaultIface == Try("iface", <<"registered">> \o ProbeUndo)
IfaNotifierRegister == Sure("notifiers")

DrvProbe(dma) ==
    <<Sure("idx"), Try("wiphy", <<"idx">>)>> \o CoreInit(dma, FreeWiphy)
    \o <<Sure("vendor"), Sure("work"), Sure("timer"), Sure("recovery"), Lax("service", "noservice"),
         SyncCmdEventVersion, SyncChipInfo, CalibDownload, SetupWiphy, AddDefaultIface, IfaNotifierRegister, Sure("drvdata")>>

\* mutant: the firmware is stopped behind the queues its callbacks use
DrvRemoveLate ==
    <<"notifiers", "iface", "registered", "recovery", "timer", "vendor">> \o CoreDeinit
    \o <<"service", "work">> \o FreeWiphy \o <<"drvdata">>

\* the order of skw_drv_remove: the work goes after the buffers it sends commands from
DrvRemove ==
    <<"notifiers", "iface", "registered", "service", "recovery", "timer", "vendor">> \o CoreDeinit
    \o <<"work">> \o FreeWiphy \o <<"drvdata">>

-----------------------------------------------------------------------------
(* The SDIO platform module                                                *)

\* a port of the user interface: the device, allocated and added, then its buffers.  A failure
\* behind platform_device_add drops the reference of a device that stays registered
Port(ref, dev, rbuf, wbuf, o) ==
    LET put == IF o = "" THEN <<>> ELSE <<ref>> IN
    <<Leave(ref, <<>>, ""), Leave(dev, <<ref>>, ""), Leave(rbuf, put, o),
      Leave(wbuf, <<rbuf>> \o put, IF o = "" THEN "" ELSE "putdev")>>

BindPlatformDriver ==
    Body(Port("atc_ref", "atc", "atc_rbuf", "atc_wbuf", "devleft") \o Port("log_ref", "log", "log_rbuf", "log_wbuf", "putdev")
         \o Port("loop_ref", "loop", "loop_rbuf", "loop_wbuf", ""))

BindBtseekwaveDriver ==
    Body(<<Leave("bt_ref", <<>>, ""), Leave("bt", <<"bt_ref">>, ""), Leave("bt_dbuf", <<"bt_ref">>, "putdev"),
           Leave("bt_cbuf", <<>>, ""), Leave("bt_abuf", <<>>, "")>>)

\* the ports point to the WiFi device before it is added, and still do when that fails
BindWifiDriver ==
    Body(<<Leave("wifi_ref", <<>>, ""), Sure("wifi_pdev"), Leave("wifi_dev", <<"wifi_ref">>, "putdev")>>)

GetDevFunc(u) == Try("func0", u)
LaunchThread == Lax("rx_thread", "nothread")

\* skw_sdio_probe: a card that cannot be enabled has its func freed, which is not the driver's,
\* and the thread goes on
SdioProbe(u) ==
    <<GetDevFunc(u), LaunchThread, TryOdd("enabled", <<"func1">> \o u, "orphan"), Lax("irq", "")>>
    \o BindPlatformDriver \o BindBtseekwaveDriver

\* a missing second image leaves the first allocated; without NV data the boot goes on
RequestFirmwares ==
    <<Leave("dram", <<"boot_data">>, ""), Leave("iram", <<"boot_data">>, "imgleft"), Lax("nv", "")>>

\* skw_boot_init looks for the table of modules between the marks of the image
BootLayout == Leave("layout", <<"boot_data">>, "imgleft")
BootLoader == <<Sure("boot_ref"), Leave("booted", <<"boot_data">>, "dangling")>> \o BindWifiDriver
BindBootDriver == Lax("btboot", "")

BootProbe == <<Leave("boot_data", <<>>, "")>> \o RequestFirmwares \o <<BootLayout>> \o BootLoader \o <<Sure("bound"), BindBootDriver>>

\* skw_ucom_init makes the ports' devices probe, the boot device's registration runs its probe.
\* Results are ignored; what devm allocated goes when the probe fails
UcomInit == Lax("ucoms", "")
BootInit == Body(<<UcomInit, Leave("boot_drv", <<>>, "")>> \o BootProbe)

\* skw_sdio_scan_card waits a second for the card's probe
RemoveCard == <<"driver">>
ScanUndo == RemoveCard \o <<"log_data", "next_buf", "eof_buf", "sdio_data">>
ScanCard == <<Try("driver", ScanUndo)>> \o SdioProbe(ScanUndo)

IoInit ==
    <<Try("sdio_data", <<>>), Try("next_buf", <<"sdio_data">>), Try("eof_buf", <<"next_buf", "sdio_data">>),
      Try("log_data", <<"next_buf", "eof_buf", "sdio_data">>)>>
    \o ScanCard \o BootInit

\* seekwave_boot_remove, for a probe that went through
BootRemove == <<"btboot", "iram", "dram", "nv", "boot_data", "bound">>

\* unbinding a port frees its buffers and then unregisters its device; a port without one keeps it
Unbind(dev) == CASE dev = "atc" -> <<"atc_rbuf", "atc_wbuf">> \o IF "devleft" \in odd THEN <<>> ELSE <<"atc", "atc_ref">>
                 [] dev = "log" -> <<"log_rbuf", "log_wbuf", "log", "log_ref">>
                 [] dev = "loop" -> <<"loop_rbuf", "loop_wbuf", "loop", "loop_ref">>
                 [] dev = "wifi" -> <<"wifi_pdev", "wifi_dev", "wifi_ref">>
                 [] dev = "bt" -> <<"bt_dbuf", "bt", "bt_ref", "bt_cbuf", "bt_abuf">>

SdioRemove ==
    <<"irq">> \o Unbind("atc") \o Unbind("log") \o Unbind("loop") \o Unbind("wifi") \o Unbind("bt") \o <<"func0">>

UcomExit == <<"ucoms">>
BootExit == UcomExit \o (IF "bound" \in held THEN BootRemove ELSE <<>>) \o <<"boot_drv", "layout">>
StopThread == <<"rx_thread">>

IoExit ==
    BootExit \o StopThread \o SdioRemove \o <<"enabled">> \o RemoveCard
    \o <<"next_buf", "eof_buf", "booted", "boot_ref", "log_data", "sdio_data">>

-----------------------------------------------------------------------------
Base == {"func1"}   \* the MMC core's

Init ==
    /\ load \in Loads /\ held = Base /\ odd = {}
    /\ plat = [pc |-> "none", todo |-> <<>>, ret |-> 0]
    /\ wifi = [pc |-> "none", todo |-> <<>>, ret |-> 0, drv |-> FALSE]

\* the next step of a load: it takes its resource, or fails in the way its function handles
Acquired(p, q) ==
    LET s == p.todo[1] IN
    \/ /\ held' = held \cup ({s.get} \ {""})
       /\ q = [p EXCEPT !.todo = Tail(@)]
       /\ UNCHANGED <<load, odd>>
    \/ /\ s.on # "sure" /\ load.fails > 0 /\ load' = [load EXCEPT !.fails = @ - 1]
       /\ odd' = odd \cup ({s.odd} \ {""})
       /\ CASE s.on \in {"fail", "zero"} ->
                 /\ held' = held \cup s.also
                 /\ q = [p EXCEPT !.pc = "undo", !.todo = s.undo, !.ret = IF s.on = "fail" THEN 1 ELSE 0]
            [] s.on = "leave" ->
                 held' = held \ ToSet(s.undo) /\ q = [p EXCEPT !.todo = SubSeq(@, s.past + 2, Len(@))]
            [] s.on = "go" -> UNCHANGED held /\ q = [p EXCEPT !.todo = Tail(@)]

Paired == wifi.drv /\ "wifi_dev" \in held
WifiBusy == wifi.pc \in {"init", "undo", "exit"} \/ (wifi.pc = "none" /\ Paired)

Spend(what) == load[what] > 0 /\ load' = [load EXCEPT ![what] = @ - 1]

IoInitStart ==
    /\ plat.pc = "none" /\ ~WifiBusy /\ Spend("turns")
    /\ plat' = [plat EXCEPT !.pc = "init", !.todo = IoInit, !.ret = 0]
    /\ UNCHANGED <<held, wifi, odd>>

IoInitStep ==
    /\ plat.pc = "init" /\ plat.todo # <<>> /\ ~WifiBusy
    /\ Acquired(plat, plat') /\ UNCHANGED wifi

IoInitEnd ==
    /\ plat.pc = "init" /\ plat.todo = <<>> /\ ~WifiBusy
    /\ plat' = [plat EXCEPT !.pc = "up"] /\ UNCHANGED <<load, held, wifi, odd>>

\* with the boot data gone before the WiFi device, its remove stops a service through freed memory;
\* a thread that was never created cannot be stopped
IoExitStart ==
    /\ plat.pc = "up" /\ ~WifiBusy /\ "nothread" \notin odd
    /\ plat' = [plat EXCEPT !.pc = "exit", !.todo = IoExit]
    /\ odd' = odd \cup (IF wifi.pc = "up" THEN {"bootgone"} ELSE {})
    /\ UNCHANGED <<load, held, wifi>>

\* releasing the WiFi device runs the driver's remove first
PlatRelease ==
    /\ plat.pc \in {"undo", "exit"} /\ plat.todo # <<>> /\ ~(WifiBusy /\ wifi.pc # "none")
    /\ plat.todo[1] = "wifi_dev" => wifi.pc \notin {"up", "silent"}
    /\ plat.todo[1] = "ucoms" => "open" \notin held
    /\ held' = held \ {plat.todo[1]} /\ plat' = [plat EXCEPT !.todo = Tail(@)]
    /\ wifi' = IF plat.todo[1] = "wifi_dev" THEN [wifi EXCEPT !.pc = "none"] ELSE wifi
    /\ UNCHANGED <<load, odd>>

\* skw_ucom_remove has waited a second for a port that a user keeps open: its buffers go, what the
\* open file points to stays and is never freed
UcomTimeout ==
    /\ plat.pc = "exit" /\ plat.todo # <<>> /\ plat.todo[1] = "ucoms" /\ "open" \in held
    /\ held' = (held \ {"ucoms"}) \cup {"ucom"} /\ plat' = [plat EXCEPT !.todo = Tail(@)]
    /\ odd' = odd \cup {"leftopen"} /\ UNCHANGED <<load, wifi>>

UserBootOpen ==
    /\ {"ucoms", "btboot"} \subseteq held /\ "open" \notin held /\ plat.pc = "up" /\ Spend("opens")
    /\ held' = held \cup {"open"} /\ UNCHANGED <<plat, wifi, odd>>

UserBootRelease ==
    /\ "open" \in held
    /\ held' = held \ {"open"} /\ UNCHANGED <<load, plat, wifi, odd>>

PlatDone ==
    /\ plat.pc \in {"undo", "exit"} /\ plat.todo = <<>>
    /\ plat' = [plat EXCEPT !.pc = "none"] /\ UNCHANGED <<load, held, wifi, odd>>

-----------------------------------------------------------------------------
ModuleInit ==
    /\ ~wifi.drv /\ wifi.pc = "none" /\ plat.pc \in {"none", "up"} /\ Spend("wturns")
    /\ wifi' = [wifi EXCEPT !.drv = TRUE] /\ UNCHANGED <<held, plat, odd>>

ProbeStart ==
    /\ wifi.pc = "none" /\ Paired
    /\ wifi' = [wifi EXCEPT !.pc = "init", !.todo = DrvProbe(load.dma), !.ret = 0]
    /\ UNCHANGED <<load, held, plat, odd>>

ProbeStep ==
    /\ wifi.pc = "init" /\ wifi.todo # <<>>
    /\ Acquired(wifi, wifi') /\ UNCHANGED plat

ProbeEnd ==
    /\ wifi.pc = "init" /\ wifi.todo = <<>>
    /\ wifi' = [wifi EXCEPT !.pc = "up"] /\ UNCHANGED <<load, held, plat, odd>>

\* a probe that returned 0 leaves the driver bound, without its data
ProbeUndone ==
    /\ wifi.pc = "undo" /\ wifi.todo = <<>>
    /\ wifi' = [wifi EXCEPT !.pc = IF wifi.ret = 0 THEN "silent" ELSE "failed"]
    /\ UNCHANGED <<load, held, plat, odd>>

\* skw_drv_remove: without drvdata it does nothing.  The work is left running past the buffers
RemoveStart ==
    /\ wifi.pc \in {"up", "silent"}
    /\ (plat.pc \in {"undo", "exit"} /\ plat.todo # <<>> /\ plat.todo[1] = "wifi_dev") \/ plat.pc = "up"
    /\ wifi' = [wifi EXCEPT !.pc = "exit", !.todo = IF "drvdata" \in held THEN DrvRemove ELSE <<>>]
    /\ odd' = odd \cup (IF "drvdata" \in held THEN {"worklate"} ELSE {})
    /\ UNCHANGED <<load, held, plat>>

WifiRelease ==
    /\ wifi.pc \in {"undo", "exit"} /\ wifi.todo # <<>>
    /\ \/ held' = held \ {wifi.todo[1]} /\ UNCHANGED <<load, odd>>
       \/ \* the firmware does not stop; nobody looks at the result
          /\ wifi.todo[1] = "service" /\ "service" \in held /\ Spend("fails")
          /\ odd' = odd \cup {"running"} /\ UNCHANGED held
    /\ wifi' = [wifi EXCEPT !.todo = Tail(@)] /\ UNCHANGED plat

\* the user unloads the WiFi module, or the platform goes on with its unload
RemoveEnd ==
    /\ wifi.pc = "exit" /\ wifi.todo = <<>>
    /\ wifi' = [wifi EXCEPT !.pc = IF plat.pc = "up" THEN "none" ELSE "failed", !.drv = IF plat.pc = "up" THEN FALSE ELSE @]
    /\ UNCHANGED <<load, held, plat, odd>>

\* unloading a driver that is bound to nothing
ModuleExit ==
    /\ wifi.drv /\ (wifi.pc = "failed" \/ (wifi.pc = "none" /\ ~Paired)) /\ plat.pc \in {"none", "up"}
    /\ wifi' = [wifi EXCEPT !.drv = FALSE, !.pc = "none"] /\ UNCHANGED <<load, held, plat, odd>>

Plat == IoInitStart \/ IoInitStep \/ IoInitEnd \/ IoExitStart \/ PlatRelease \/ UcomTimeout \/ UserBootOpen \/ UserBootRelease \/ PlatDone
Wifi == ModuleInit \/ ProbeStart \/ ProbeStep \/ ProbeEnd \/ ProbeUndone \/ RemoveStart \/ WifiRelease \/ RemoveEnd \/ ModuleExit
Next == Plat \/ Wifi

Spec == Init /\ [][Next]_vars

(* Properties *)

\* what a resource works on while it is held; a callback needs the rest only while the firmware runs
Uses(r) ==
    CASE r \in {"next_buf", "eof_buf", "log_data", "driver", "irq", "wifi_dev"} -> {"sdio_data"}
      [] r = "open" -> {"ucoms", "btboot"}
      [] r = "rx_thread" -> {"sdio_data", "next_buf", "eof_buf", "func1"}
      [] r = "func0" -> {"sdio_data", "driver"}
      [] r \in {"cmd_cb", "dat_cb"} -> {"wiphy"} \cup (IF "service" \in held THEN {"event_wq", "tx_wq", "tx_dy", "vring", "rx_thr"} ELSE {})
      [] r = "tx_cb" -> {"wiphy"}
      [] r \in {"rx_thr", "tx_wq", "tx_dy", "timer", "recovery", "event_wq"} -> {"wiphy"}
      [] r = "work" -> {"wiphy", "cmd_data"}
      [] r = "service" -> {"boot_data", "rx_thread", "wifi_dev"}
      [] r = "registered" -> {"cmd_data", "work", "event_wq", "timer"}
      [] r = "iface" -> {"registered", "tx_wq", "cmd_data", "rx_thread"}
      [] r = "notifiers" -> {"wiphy", "iface"}
      [] r = "boot_ref" -> IF plat.pc = "up" THEN {"boot_data"} ELSE {}
      [] r \in {"iram", "nv"} -> {"boot_data"}
      [] r = "atc" -> {"atc_ref"} [] r = "log" -> {"log_ref"} [] r = "loop" -> {"loop_ref"}
      [] r = "bt" -> {"bt_ref"} [] r = "wifi_pdev" -> {"wifi_ref"}
      [] OTHER -> {}

\* the pairs a failure the code does not handle leaves dangling
Dangling(o) ==
    CASE o = "cbleft" -> {<<"cmd_cb", "wiphy">>}
      [] o = "txcbleft" -> {<<"tx_cb", "wiphy">>}
      [] o = "norx" -> {<<"cmd_cb", "rx_thr">>, <<"dat_cb", "rx_thr">>}
      [] o = "novring" -> {<<"cmd_cb", "vring">>, <<"dat_cb", "vring">>}
      [] o = "worklate" -> {<<"work", "cmd_data">>}
      [] o = "running" -> {<<c, u>> : c \in {"cmd_cb", "dat_cb"}, u \in {"tx_wq", "tx_dy", "vring", "rx_thr", "event_wq"}}
                          \cup {<<"service", u>> : u \in {"boot_data", "rx_thread", "wifi_dev"}}
      [] o = "bootgone" -> {<<"service", "boot_data">>, <<"service", "rx_thread">>, <<"iface", "rx_thread">>}
      [] o = "orphan" -> {<<"rx_thread", u>> : u \in {"sdio_data", "next_buf", "eof_buf", "func1"}} \cup {<<"func0", u>> : u \in {"sdio_data", "driver"}}
      [] o = "imgleft" -> {<<"iram", "boot_data">>, <<"nv", "boot_data">>}
      [] o = "dangling" -> {<<r, "boot_data">> : r \in {"iram", "nv", "boot_ref"}}
      [] o = "devleft" -> {<<"atc", "atc_ref">>}
      [] o = "leftopen" -> {<<"open", "ucoms">>, <<"open", "btboot">>}
      [] o = "putdev" -> {<<"atc", "atc_ref">>, <<"log", "log_ref">>, <<"bt", "bt_ref">>, <<"wifi_pdev", "wifi_ref">>}
      [] o = "nothread" -> {<<"service", "rx_thread">>, <<"iface", "rx_thread">>}
      [] OTHER -> {}

\* what it leaves behind
Left(o) ==
    CASE o = "cbleft" -> {"cmd_cb"} [] o = "txcbleft" -> {"tx_cb"} [] o = "sdmaleft" -> {"sdma"}
      [] o = "running" -> {"service"} [] o = "leftopen" -> {"open", "ucom"} [] o = "devleft" -> {"atc", "atc_ref"} [] o = "orphan" -> {"rx_thread", "func0"}
      [] o \in {"imgleft", "dangling"} -> {"dram", "iram", "nv"} [] OTHER -> {}

TypeOK ==
    /\ load.fails \in Nat /\ load.turns \in Nat /\ load.wturns \in Nat /\ odd \subseteq STRING
    /\ IsFiniteSet(held)
    /\ plat.pc \in {"none", "init", "undo", "up", "exit"}
    /\ wifi.pc \in {"none", "init", "undo", "up", "exit", "failed", "silent"} /\ wifi.drv \in BOOLEAN

\* Nothing is given back while something that works on it can still run, whichever steps of a load
\* failed and in whatever order the modules go
Orderly == \A r \in held : \A u \in Uses(r) \ held : \E o \in odd : <<r, u>> \in Dangling(o)

\* After a load that failed, and after an unload, everything is given back and nothing that is not the driver's
Restored ==
    /\ wifi.pc \in {"failed", "silent", "none"} /\ ~WifiBusy =>
          {"wiphy", "idx", "cmd_cb", "tx_cb", "sdma", "cmd_data", "event_wq", "service"} \cap held \subseteq UNION {Left(o) : o \in odd}
    /\ plat.pc = "none" => /\ held \ Base \subseteq UNION {Left(o) : o \in odd}
                           /\ Base \subseteq held \/ "orphan" \in odd

\* A probe that returned 0 has a registered interface and a firmware that answers
Honest ==
    wifi.pc \in {"up", "silent"} =>
        \/ {"wiphy", "registered", "iface", "service", "cmd_cb", "rx_thr", "vring", "notifiers"} \subseteq held
        \/ odd \cap {"silent", "norx", "novring", "noservice", "bootgone"} # {}

BringupSound == TypeOK /\ Orderly /\ Honest
=============================================================================
