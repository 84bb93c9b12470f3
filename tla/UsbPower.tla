------------------------------ MODULE UsbPower -----------------------------
(***************************************************************************)
(* The power side of the USB device driver (usb_device_udd.c): the locks   *)
(* of the sleep manager it holds for the state of the bus, the interrupts  *)
(* of the device controller that tell it of that state, and the LEDs the   *)
(* application turns off while the bus is suspended.                        *)
(***************************************************************************)
EXTENDS Integers

UsbStates == {"off", "suspend", "lpm", "idle"}      \* udd_usb_state_enum

\* enum sleepmgr_mode: 0 is ACTIVE, then IDLE_0, IDLE_1, IDLE_2 and STANDBY,
\* each sleeping deeper than the one before.
Modes   == 0 .. 4
Active  == 0
Standby == 4

SleepMode == [off |-> Active, idle |-> 1, lpm |-> 2, suspend |-> 3]

DeviceFlags == {"sof", "reset", "wakeup", "suspend", "lpmsusp"}

\* A lock count is a uint8_t that the manager keeps from wrapping with an endless
\* loop; the two locks of this firmware never bring one above 2.
Counts == 0 .. 2

Power == [usb      : UsbStates,             \* udd_state
          locks    : [Modes -> Counts],     \* sleepmgr_locks
          flags    : SUBSET DeviceFlags,    \* INTFLAG
          enabled  : SUBSET DeviceFlags,    \* INTENSET and the callback masks
          attached : BOOLEAN,               \* CTRLB.DETACH is clear
          led      : BOOLEAN]

----------------------------------------------------------------------------
(* The sleep manager.                                                      *)

InitialLocks == [m \in Modes |-> IF m = Standby THEN 1 ELSE 0]

LockMode(p, mode)   == [p EXCEPT !.locks[mode] = @ + 1]
UnlockMode(p, mode) == [p EXCEPT !.locks[mode] = @ - 1]

\* sleepmgr_get_sleep_mode: the shallowest mode that is locked.
Deepest(locks) == CHOOSE m \in Modes : /\ locks[m] # 0
                                       /\ \A k \in Modes : k < m => locks[k] = 0

\* Mutant of UddSleepMode: releases the new state, not the old one.
UddSleepModeUnlocksNew(p, new) ==
    IF p.usb = new THEN p
    ELSE LET locked == LockMode(p, SleepMode[new])
         IN  [IF p.usb = "off" THEN locked ELSE UnlockMode(locked, SleepMode[new])
                 EXCEPT !.usb = new]

\* Mutant of UddSleepMode: releases nothing.
UddSleepModeKeepsOld(p, new) ==
    IF p.usb = new THEN p
    ELSE [LockMode(p, SleepMode[new]) EXCEPT !.usb = new]

\* udd_sleep_mode
UddSleepMode(p, new) ==
    IF p.usb = new THEN p
    ELSE LET locked   == LockMode(p, SleepMode[new])
             unlocked == IF p.usb = "off" THEN locked
                         ELSE UnlockMode(locked, SleepMode[p.usb])
         IN  [unlocked EXCEPT !.usb = new]

----------------------------------------------------------------------------
(* The callbacks of the device controller.                                 *)

\* Enabling a callback throws away what its flag had to say.
EnableCallback(p, c)  == [p EXCEPT !.flags = @ \ {c}, !.enabled = @ \cup {c}]
DisableCallback(p, c) == [p EXCEPT !.enabled = @ \ {c}]

UiPowerdown(p) == [p EXCEPT !.led = FALSE]
UiWakeup(p)    == [p EXCEPT !.led = TRUE]

\* ui_process turns the LEDs on at frame 0 and off at frame 1000.
UiProcess(p, frame) ==
    [p EXCEPT !.led = CASE frame = 0    -> TRUE
                        [] frame = 1000 -> FALSE
                        [] OTHER        -> @]

Frames == {0, 1, 1000}

OnSof(p, mscEnable, frame) == IF mscEnable THEN UiProcess(p, frame) ELSE p

\* Mutant of OnSuspend: does not listen for the wake-up.
OnSuspendDeaf(p) ==
    UiPowerdown(UddSleepMode(DisableCallback(p, "suspend"), "suspend"))

OnSuspend(p) ==
    UiPowerdown(UddSleepMode(
        EnableCallback(DisableCallback(p, "suspend"), "wakeup"), "suspend"))

OnLpmSuspend(p) ==
    LET deaf == DisableCallback(DisableCallback(p, "lpmsusp"), "suspend")
    IN  UddSleepMode(EnableCallback(deaf, "wakeup"), "lpm")

OnWakeup(p) ==
    LET awake == EnableCallback(DisableCallback(p, "wakeup"), "suspend")
    IN  UiWakeup(UddSleepMode(EnableCallback(awake, "lpmsusp"), "idle"))

\* Mutant of UddAttach: leaves the interrupt of a frame off.
UddAttachNoSof(p) ==
    [UddSleepMode(p, "idle") EXCEPT !.attached = TRUE,
                                    !.flags = @ \ DeviceFlags,
                                    !.enabled = DeviceFlags \ {"sof"}]

UddAttach(p) ==
    [UddSleepMode(p, "idle") EXCEPT !.attached = TRUE,
                                    !.flags = @ \ DeviceFlags,
                                    !.enabled = @ \cup DeviceFlags]

UddDetach(p) == UddSleepMode([p EXCEPT !.attached = FALSE], "suspend")

\* _uhd_vbus_handler
VbusHandler(p, high) == IF high THEN UddAttach(p) ELSE UddDetach(p)

\* After main has run ui_powerdown, sleepmgr_init and udc_start, with no cable.
AtStart == UddSleepMode([usb |-> "off", locks |-> InitialLocks, flags |-> {},
                         enabled |-> {}, attached |-> FALSE, led |-> FALSE],
                        "suspend")
=============================================================================
