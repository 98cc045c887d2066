---------------------------- MODULE SkwPlatform ----------------------------
(***************************************************************************)
(* The platform over its buses: the SDIO platform (SkwPlat), boot,         *)
(* services and recovery over USB (SkwUsbCtl), the USB ports (SkwUsb) and  *)
(* the eDMA rings (SkwEdma).  A driver is built for one bus, so they share *)
(* no state.                                                               *)
(***************************************************************************)
EXTENDS SkwPlat

CONSTANTS
    CtlLoads, CtlServices,                  \* Loads and Services of SkwUsbCtl
    UsbLoads, UsbUrbs, UsbNTx,              \* of SkwUsb
    EdmaLoads, EdmaN, EdmaCnt, EdmaBudget   \* of SkwEdma

ASSUME CtlAssumption == CtlServices \subseteq {"wifi", "bt"}

\* A ring has nodes, and a node has room for buffers.
ASSUME EdmaAssumption == EdmaN \in Nat \ {0} /\ EdmaCnt \in Nat \ {0} /\ EdmaBudget \in Nat

VARIABLES
    load, chip, usb, c_wire, loop, c_exc, mctl, dl, host, call, told, odd,
    u_load, u_rx, task, u_kick, tx, port, thr, pm, disc, u_odd,
    e_load, ev, e_rx, e_tx, e_odd

Ctl == INSTANCE SkwUsbCtl WITH
    Loads <- CtlLoads, Services <- CtlServices, wire <- c_wire, exc <- c_exc

Usb == INSTANCE SkwUsb WITH
    Loads <- UsbLoads, Urbs <- UsbUrbs, NTx <- UsbNTx, load <- u_load, rx <- u_rx, kick <- u_kick,
    odd <- u_odd

Edma == INSTANCE SkwEdma WITH
    Loads <- EdmaLoads, N <- EdmaN, Cnt <- EdmaCnt, Budget <- EdmaBudget, load <- e_load, rx <- e_rx, tx <- e_tx,
    odd <- e_odd

ctlVars ==
    <<load, chip, usb, c_wire, loop, c_exc, mctl, dl, host, call, told, odd>>
usbVars ==
    <<u_load, u_rx, task, u_kick, tx, port, thr, pm, disc, u_odd>>
edmaVars ==
    <<e_load, ev, e_rx, e_tx, e_odd>>

-----------------------------------------------------------------------------
\* The property of the SDIO platform is SkwPlat's PlatSound.

\* The USB control side (skw_usb_io.c): services, notifications and modem status agree with the chip.
CtlSound == Ctl!CtlSound

\* The USB data ports: every URB has one owner and the counters count them.
UsbSound == Usb!UsbSound

\* The eDMA rings: events in order, buffers counted and kept, frames freed once.
EdmaSound == Edma!EdmaSound
=============================================================================
