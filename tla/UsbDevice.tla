------------------------------ MODULE UsbDevice ----------------------------
(***************************************************************************)
(* The firmware as the bus sees it: control endpoint, power and main loop  *)
(* together.  The USB interrupt handler and the one of the VBUS pin have    *)
(* one priority: each runs to its end, in one step, wherever the main loop  *)
(* has interrupts open.  The host and the cable are the environment.        *)
(***************************************************************************)
EXTENDS UsbPower, UdcControl

CONSTANTS
    Requests,   \* the control requests of the host
    Early       \* what the host does before the device has served what came
                \* last: see AllEarly

AllEarly == {"setup",   \* a request, before the last one is served to its end
             "address", \* the same, and the request is SET_ADDRESS
             "reset",   \* a request, before the reset or the resume of the bus
                        \* is served
             "bus"}     \* a move of the bus or the cable, before the last one
                        \* is served

ASSUME RequestsAssumption == Requests \subseteq AllRequests
ASSUME EarlyAssumption    == Early \subseteq AllEarly

VARIABLES
    bus,    \* "off": no cable
    eic,    \* the edge flag of the VBUS pin
    power,  \* see UsbPower
    ctl,    \* see UdcControl
    cpu,    \* the main loop
    host    \* the host's side of the control endpoint

vars == <<bus, eic, power, ctl, cpu, host>>

BusStates == {"off", "active", "suspended", "lpm"}

Points == {"test",      \* before the test of main_b_msc_enable
           "process",   \* before udi_msc_process_trans
           "sleep",     \* before sleepmgr_enter_sleep
           "masked",    \* the mode is chosen, interrupts are off
           "wfi",       \* interrupts are on again, WFI comes next
           "asleep"}

Cpu == [pc : Points, mode : Modes]

Host == [addr   : Addresses,            \* where it speaks to
         conf   : BOOLEAN,              \* it has configured the device
         reset  : BOOLEAN,              \* it has reset the device since it came
         stage  : {"idle", "data", "status_in", "status_out"},
         req    : AllRequests,
         answer : Banks \cup {"stall"}, \* what it got for req
         unsure : BOOLEAN]              \* it gave a change of state up half-way

TypeOK == /\ bus \in BusStates
          /\ eic \in BOOLEAN
          /\ power \in Power
          /\ ctl \in Ctl
          /\ cpu \in Cpu
          /\ host \in Host

NewHost == [addr |-> 0, conf |-> FALSE, reset |-> FALSE, stage |-> "idle",
            req |-> "getDesc", answer |-> "none", unsure |-> FALSE]

NewCtl == [state |-> "setup", packet |-> "getDesc", sent |-> FALSE,
           callback |-> FALSE, addr |-> 0, conf |-> FALSE, msc |-> FALSE,
           transReq |-> FALSE, in |-> "none", out |-> FALSE, stall |-> {},
           flags |-> {}, irq |-> FALSE]

Awake == [pc |-> "test", mode |-> Active]

\* main reaches its loop with a cable or without: udd_enable looks at the pin.
Init == /\ bus \in {"off", "active"}
        /\ eic = FALSE
        /\ power = IF bus = "off" THEN AtStart ELSE VbusHandler(AtStart, TRUE)
        /\ ctl = NewCtl
        /\ cpu = Awake
        /\ host = NewHost

----------------------------------------------------------------------------
(* The cable and the bus.                                                  *)

Raise(flag) == power' = [power EXCEPT !.flags = @ \cup {flag}]

BusFlags == {"reset", "wakeup", "suspend", "lpmsusp"}

\* The driver has taken note of the last change of the bus.
BusServed == ~eic /\ (power.flags \cap power.enabled \cap BusFlags = {})

MayChangeBus == power.attached /\ (BusServed \/ "bus" \in Early)

Plug == /\ bus = "off" /\ (BusServed \/ "bus" \in Early)
        /\ bus' = "active"
        /\ eic' = TRUE
        /\ UNCHANGED <<power, ctl, cpu, host>>

\* The host forgets a device that is gone; the device does not know yet.
Unplug == /\ bus # "off"
          /\ (BusServed /\ ctl.flags = {}) \/ "bus" \in Early
          /\ bus' = "off"
          /\ eic' = TRUE
          /\ host' = NewHost
          /\ UNCHANGED <<power, ctl, cpu>>

\* The bus has been silent for milliseconds.
Quiet == host.stage = "idle" /\ ctl.flags = {}

Suspend == /\ bus = "active" /\ Quiet /\ MayChangeBus
           /\ bus' = "suspended"
           /\ Raise("suspend")
           /\ UNCHANGED <<eic, ctl, cpu, host>>

LpmSuspend == /\ bus = "active" /\ Quiet /\ host.reset
              /\ MayChangeBus
              /\ bus' = "lpm"
              /\ Raise("lpmsusp")
              /\ UNCHANGED <<eic, ctl, cpu, host>>

Resume == /\ bus \in {"suspended", "lpm"} /\ MayChangeBus
          /\ bus' = "active"
          /\ Raise("wakeup")
          /\ UNCHANGED <<eic, ctl, cpu, host>>

\* The controller itself drops its address, the flags and the interrupt enables
\* of its endpoints, and wakes up.
BusReset ==
    /\ bus # "off" /\ MayChangeBus
    /\ bus' = "active"
    /\ power' = [power EXCEPT !.flags = @ \cup
                    {"reset"} \cup (IF bus = "active" THEN {} ELSE {"wakeup"})]
    /\ ctl' = [ctl EXCEPT !.addr = 0, !.flags = {}, !.stall = {}, !.irq = FALSE]
    /\ host' = [NewHost EXCEPT !.reset = TRUE]
    /\ UNCHANGED <<eic, cpu>>

\* Start of a frame, every millisecond while the bus is active.
Sof == /\ bus = "active" /\ power.attached /\ "sof" \notin power.flags
       /\ Raise("sof")
       /\ UNCHANGED <<bus, eic, ctl, cpu, host>>

----------------------------------------------------------------------------
(* The host's control transfers.  The controller answers by itself what    *)
(* the banks and the stall requests say; while a SETUP is not yet served it *)
(* answers NAK.  A token it answers NAK leaves a flag of failure.           *)

Heard == bus = "active" /\ power.attached /\ host.addr = ctl.addr

MayRequest(r) == /\ host.reset
                 /\ BusServed \/ "reset" \in Early
                 /\ ~(ctl.flags \subseteq {"bulk"})
                        => IF r = "setAddress" THEN "address" \in Early
                           ELSE "setup" \in Early

\* A host assigns an address after a reset, and configures after that.  Having
\* given a change of state up it resets the bus, but may first try once more to
\* assign the address.
InTurn(r) == /\ host.unsure => host.req = "setAddress"
             /\ r = "setAddress" => host.addr = 0
             /\ r = "setConf" => host.addr # 0

HostSetup(r) ==
    /\ host.stage = "idle" /\ Heard /\ MayRequest(r) /\ InTurn(r)
    /\ host' = [host EXCEPT !.req = r, !.answer = "none",
                            !.stage = IF r \in InRequests THEN "data"
                                      ELSE "status_in"]
    /\ ctl' = [ctl EXCEPT !.packet = r, !.flags = @ \cup {"rxstp"},
                          !.stall = {}, !.out = FALSE]
    /\ UNCHANGED <<bus, eic, power, cpu>>

\* What the host holds true of the device once its request is through.
Concluded(h, answer) ==
    [h EXCEPT !.stage = "idle", !.answer = answer,
              !.addr = IF answer = "zlp" /\ h.req = "setAddress" THEN 1 ELSE @,
              !.conf = CASE answer = "zlp" /\ h.req = "setConf" -> TRUE
                         [] answer = "zlp" /\ h.req = "unconf"  -> FALSE
                         [] OTHER                               -> @]

Nak(flag) == /\ flag \notin ctl.flags
             /\ ctl' = [ctl EXCEPT !.flags = @ \cup {flag}]
             /\ UNCHANGED host

\* An IN token, in the data stage or in the status stage.
HostIn ==
    /\ host.stage \in {"data", "status_in"} /\ Heard
    /\ \/ /\ "rxstp" \in ctl.flags \/ (ctl.in = "none" /\ "in" \notin ctl.stall)
          /\ Nak("trfail1")
       \/ /\ "rxstp" \notin ctl.flags /\ "in" \in ctl.stall
          /\ host' = Concluded(host, "stall")
          /\ UNCHANGED ctl
       \/ /\ "rxstp" \notin ctl.flags /\ ctl.in # "none" /\ "in" \notin ctl.stall
          /\ host' = IF host.stage = "data"
                     THEN [host EXCEPT !.stage = "status_out", !.answer = ctl.in]
                     ELSE Concluded(host, ctl.in)
          /\ ctl' = [ctl EXCEPT !.in = "none", !.flags = @ \cup {"trcpt1"}]
    /\ UNCHANGED <<bus, eic, power, cpu>>

\* An OUT token with no data: the status stage of a request that reads.  (OUT is
\* stalled only while the device waits for a status stage of the other direction.)
HostOut ==
    /\ host.stage = "status_out" /\ Heard
    /\ \/ /\ "rxstp" \in ctl.flags \/ ~ctl.out
          /\ Nak("trfail0")
       \/ /\ "rxstp" \notin ctl.flags /\ ctl.out
          /\ host' = Concluded(host, host.answer)
          /\ ctl' = [ctl EXCEPT !.out = FALSE, !.flags = @ \cup {"trcpt0"}]
    /\ UNCHANGED <<bus, eic, power, cpu>>

\* The host wants no more data, of a request it knows the device answers.
HostStopsData == /\ host.stage = "data" /\ host.req = "getDesc" /\ Heard
                 /\ host' = [host EXCEPT !.stage = "status_out"]
                 /\ UNCHANGED <<bus, eic, power, ctl, cpu>>

\* A time-out of the host, or the end of the program that asked.
HostGivesUp ==
    /\ host.stage # "idle"
    /\ host' = [host EXCEPT !.stage = "idle", !.answer = "none",
                            !.unsure = @ \/ host.req \in
                                {"setAddress", "setConf", "unconf"}]
    /\ UNCHANGED <<bus, eic, power, ctl, cpu>>

\* A command block on the bulk endpoint.
HostCommand == /\ Heard /\ host.conf /\ ctl.msc /\ ctl.irq
               /\ "bulk" \notin ctl.flags /\ ~ctl.transReq
               /\ ctl' = [ctl EXCEPT !.flags = @ \cup {"bulk"}]
               /\ UNCHANGED <<bus, eic, power, cpu, host>>

----------------------------------------------------------------------------
(* The interrupts.                                                         *)

UsbPending == EpPending(ctl) \/ power.flags \cap power.enabled # {}

Interrupted == IF cpu.pc = "asleep" THEN Awake ELSE cpu

\* Mutant of AfterFlags: the frame is served last.
AfterFlagsSofLast(frame) ==
    LET run     == power.flags \cap power.enabled
        cleared == [power EXCEPT !.flags = {}]
        wakeup  == IF "wakeup" \in run THEN OnWakeup(cleared) ELSE cleared
        suspend == IF "suspend" \in run THEN OnSuspend(wakeup) ELSE wakeup
        lpm     == IF "lpmsusp" \in run THEN OnLpmSuspend(suspend) ELSE suspend
    IN  IF "sof" \in run THEN OnSof(lpm, ctl.msc, frame) ELSE lpm

\* The callbacks of the flags found set, in the order of usb_device_callback;
\* every flag is cleared, whether its callback is enabled or not.
AfterFlags(frame) ==
    LET run     == power.flags \cap power.enabled
        cleared == [power EXCEPT !.flags = {}]
        sof     == IF "sof" \in run THEN OnSof(cleared, ctl.msc, frame) ELSE cleared
        wakeup  == IF "wakeup" \in run THEN OnWakeup(sof) ELSE sof
        suspend == IF "suspend" \in run THEN OnSuspend(wakeup) ELSE wakeup
    IN  IF "lpmsusp" \in run THEN OnLpmSuspend(suspend) ELSE suspend

EndpointInterrupt ==
    /\ cpu.pc # "masked" /\ EpPending(ctl)
    /\ ctl' = ServeEndpoint(ctl)
    /\ cpu' = Interrupted
    /\ UNCHANGED <<bus, eic, power, host>>

DeviceInterrupt ==
    /\ cpu.pc # "masked" /\ UsbPending /\ ~EpPending(ctl)
    /\ \E frame \in Frames : power' = AfterFlags(frame)
    /\ ctl' = IF "reset" \in power.flags \cap power.enabled
              THEN OnBusReset(ctl) ELSE ctl
    /\ cpu' = Interrupted
    /\ UNCHANGED <<bus, eic, host>>

VbusInterrupt ==
    /\ cpu.pc # "masked" /\ eic
    /\ eic' = FALSE
    /\ power' = VbusHandler(power, bus # "off")
    /\ cpu' = Interrupted
    /\ UNCHANGED <<bus, ctl, host>>

----------------------------------------------------------------------------
(* The main loop.                                                          *)

Goto(from, to) == cpu.pc = from /\ cpu' = [cpu EXCEPT !.pc = to]

TestEnable == /\ Goto("test", IF ctl.msc THEN "process" ELSE "sleep")
              /\ UNCHANGED <<bus, eic, power, ctl, host>>

\* The whole of a transfer, as far as the request flag goes.
ProcessTrans == /\ Goto("process", IF ctl.transReq THEN "test" ELSE "sleep")
                /\ ctl' = [ctl EXCEPT !.transReq = FALSE]
                /\ UNCHANGED <<bus, eic, power, host>>

\* sleepmgr_enter_sleep, up to the end of its critical section.
EnterSleep == /\ cpu.pc = "sleep"
              /\ cpu' = IF Deepest(power.locks) = Active
                        THEN Awake
                        ELSE [pc |-> "masked", mode |-> Deepest(power.locks)]
              /\ UNCHANGED <<bus, eic, power, ctl, host>>

IrqEnable == /\ Goto("masked", "wfi")
             /\ UNCHANGED <<bus, eic, power, ctl, host>>

\* WFI does not sleep while an interrupt is pending.
Wfi == /\ cpu.pc = "wfi"
       /\ cpu' = IF UsbPending \/ eic THEN Awake ELSE [cpu EXCEPT !.pc = "asleep"]
       /\ UNCHANGED <<bus, eic, power, ctl, host>>

MainLoop == TestEnable \/ ProcessTrans \/ EnterSleep \/ IrqEnable \/ Wfi

----------------------------------------------------------------------------
Control == \/ \E r \in Requests : HostSetup(r)
           \/ HostIn \/ HostOut \/ HostStopsData \/ HostGivesUp \/ HostCommand

Bus == Plug \/ Unplug \/ Suspend \/ LpmSuspend \/ Resume \/ BusReset \/ Sof

Next == Bus \/ Control \/ EndpointInterrupt \/ DeviceInterrupt \/ VbusInterrupt
        \/ MainLoop

Spec == Init /\ [][Next]_vars

\* The processor runs; an interrupt that is pending is taken when interrupts are
\* open, which they are again and again; frames start while the bus is active; the
\* host repeats the token that was answered NAK, and has a time-out for the
\* device that answers nothing.
Fairness == /\ WF_vars(MainLoop)
            /\ SF_vars(EndpointInterrupt) /\ SF_vars(DeviceInterrupt)
            /\ SF_vars(VbusInterrupt)
            /\ WF_vars(Sof)
            /\ WF_vars(HostIn) /\ WF_vars(HostOut)
            /\ WF_vars(HostGivesUp /\ host.addr # ctl.addr)

FairSpec == Spec /\ Fairness

----------------------------------------------------------------------------
(* What is wanted of the control endpoint.                                 *)

\* What the device owes the host, from what the host holds true of it.
Owed == CASE host.req \in {"getDesc"}               -> host.req
          [] host.req = "getMaxLun" /\ host.conf    -> host.req
          [] host.req = "setAddress"                -> "zlp"
          [] host.req \in {"setConf", "unconf"} /\ host.addr # 0 -> "zlp"
          [] host.req \in {"setIface", "mscReset"} /\ host.conf -> "zlp"
          [] OTHER                                  -> "stall"

\* A request is answered with its own data, with the handshake or with a stall, as
\* the host must expect from what it did before: never with the bank, the stall or
\* the state left by a request it abandoned (_usb_ep0_on_setup).
AnswersTheRequest ==
    host.unsure \/ host.answer = "none" \/ host.answer = Owed

\* Between requests the host and the device agree: on the configuration as soon as
\* the host has the handshake, on the address as soon as the device has served it,
\* and the device listens (udc_req_std_dev_set_configuration, udc_valid_address,
\* udd_ctrl_ep_enable).
HostAndDeviceAgree ==
    (host.reset /\ ~host.unsure /\ host.stage = "idle"
        /\ "reset" \notin power.flags /\ "rxstp" \notin ctl.flags)
    => /\ ctl.conf = host.conf /\ ctl.msc = host.conf
       /\ ctl.addr = host.addr \/ "trcpt1" \in ctl.flags
       /\ ctl.irq

\* "The address must be changed at the end of setup request after the handshake"
\* (udc.c): the device only ever moves to the address the host already uses,
\* unless the host is gone or gave the request up.
AddressAfterHandshake ==
    [][ctl'.addr # ctl.addr /\ host'.reset /\ ~host'.unsure
           => ctl'.addr = host'.addr]_vars

\* Every control transfer comes to an end, in whatever stage a reset, a new request
\* or a late flag finds the state machine of endpoint 0.
EveryTransferEnds == host.stage # "idle" ~> host.stage = "idle"

----------------------------------------------------------------------------
(* What is wanted of the power management.                                 *)

\* The locks of the sleep manager are the one it starts with and the one for the
\* state of the bus: no sequence of suspends, resets and cable moves leaks one, or
\* releases one that is not held, where the manager hangs (sleepmgr_unlock_mode).
LocksBalanced ==
    \A m \in Modes : power.locks[m] =
        (IF m = Standby THEN 1 ELSE 0) +
        (IF power.usb # "off" /\ m = SleepMode[power.usb] THEN 1 ELSE 0)

Follows == [off |-> "suspend", active |-> "idle", suspended |-> "suspend",
            lpm |-> "lpm"]

\* The driver comes to know every state of the bus, although it masks the
\* interrupts of suspend and of wake-up in turn (_usb_on_suspend, _usb_on_wakeup,
\* _uhd_vbus_handler): it is never for ever behind, but while an endpoint, which
\* the handler serves first, always has something new.
DriverFollowsBus == []<>(power.usb = Follows[bus] \/ EpPending(ctl))

\* In a suspended bus the LEDs are off, the current being counted, once the suspend
\* is served: no frame that came before it turns them on again (main_sof_action).
DarkWhenSuspended ==
    (bus = "suspended" /\ "suspend" \notin power.flags) => ~power.led

\* A request for the main loop that comes after its last test, while it goes to
\* sleep, is still served: the next start of frame wakes it (main).
RequestIsServed == ctl.transReq ~> (~ctl.transReq \/ bus # "active")

\* "Increases the lock count for mode to ensure that the sleep manager does not put
\* the device to sleep in the deeper sleep modes" (sleepmgr_lock_mode): asleep, the
\* device is in no deeper mode than the locks allow.
NoDeeperThanLocked ==
    cpu.pc = "asleep" => cpu.mode <= Deepest(power.locks)
=============================================================================
