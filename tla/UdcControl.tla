----------------------------- MODULE UdcControl ----------------------------
(***************************************************************************)
(* The default control endpoint: the state machine of usb_device_udd.c and *)
(* the requests of udc.c and udi_msc.c it hands to the stack.  Everything   *)
(* the device sends fits in one short packet, and no request with OUT data *)
(* is accepted: the branches for more packets are never taken and are left *)
(* out.  An operator is what one interrupt does to the record ctl.          *)
(***************************************************************************)
EXTENDS Naturals

\* "getDesc" stands for the requests that read and "badIface" for SET_INTERFACE
\* with a setting the device does not have; "unconf" is SET_CONFIGURATION of 0.
\* A request the stack does not know is refused like getMaxLun and mscReset
\* before the device is configured.
InRequests  == {"getDesc", "getMaxLun"}
OutRequests == {"setAddress", "setConf", "unconf", "setIface", "badIface",
                "mscReset"}
AllRequests == InRequests \cup OutRequests

Addresses == {0, 1}     \* 1 is the address the host assigns

CtlStates == {"setup", "data_in", "wait_in", "wait_out", "stall_req"}

Banks == {"none", "zlp"} \cup InRequests    \* whose answer the IN bank holds

EpFlags == {"rxstp", "trcpt1", "trcpt0", "trfail1", "trfail0",
            "bulk"}     \* a transfer complete on a bulk endpoint: a CBW

Ctl == [state    : CtlStates,           \* udd_ep_control_state
        packet   : AllRequests,         \* the SETUP packet in udd_ctrl_buffer
        sent     : BOOLEAN,             \* the whole payload is sent
        callback : BOOLEAN,             \* udc_valid_address is registered
        addr     : Addresses,           \* DADD
        conf     : BOOLEAN,             \* udc_num_configuration
        msc      : BOOLEAN,             \* main_b_msc_enable
        transReq : BOOLEAN,             \* udi_msc_b_trans_req
        in       : Banks,               \* bank 1: what an IN token gets
        out      : BOOLEAN,             \* bank 0 can take a packet
        stall    : SUBSET {"in", "out"},
        flags    : SUBSET EpFlags,      \* EPINTFLAG
        irq      : BOOLEAN]             \* the interrupts of endpoint 0 are on

----------------------------------------------------------------------------
(* Buffer jobs of the endpoint.                                            *)

ReadBufferJob(c)        == [c EXCEPT !.out = TRUE]
WriteBufferJob(c, what) == [c EXCEPT !.in = what]
SetHalt(c, dir)         == [c EXCEPT !.stall = @ \cup {dir}]

StallData(c) == [c EXCEPT !.state = "stall_req", !.stall = {"in"}]

SendZlpIn(c) == [WriteBufferJob(ReadBufferJob(c), "zlp") EXCEPT !.state = "wait_in"]

\* udd_ctrl_in_sent: send the payload, or, when it is sent, wait for the status.
InSent(c) ==
    IF c.sent THEN [ReadBufferJob(c) EXCEPT !.state = "wait_out"]
    ELSE [WriteBufferJob(c, c.packet) EXCEPT !.sent = TRUE]

----------------------------------------------------------------------------
(* The requests.                                                           *)

\* Both abort the bulk endpoints, which drops a completion not served yet.
IfaceDisable(c) == [c EXCEPT !.msc = FALSE, !.transReq = FALSE,
                             !.flags = @ \ {"bulk"}]
BulkReset(c)    == [c EXCEPT !.transReq = FALSE, !.flags = @ \ {"bulk"}]

IfaceEnable(c)  == [c EXCEPT !.msc = TRUE, !.transReq = FALSE]

UdcReset(c) == [IF c.conf THEN IfaceDisable(c) ELSE c EXCEPT !.conf = FALSE]

Accepts(c, r) ==
    \/ r \in {"getDesc", "setAddress"}
    \/ r \in {"setConf", "unconf"} /\ c.addr # 0
    \/ r \in {"getMaxLun", "setIface", "mscReset"} /\ c.conf

SetConfiguration(c, on) ==
    IF c.addr = 0 THEN c
    ELSE IF on THEN [IfaceEnable(UdcReset(c)) EXCEPT !.conf = TRUE]
         ELSE UdcReset(c)

\* Mutant of SetAddress: the address changes before the handshake.
SetAddressNow(c) == [c EXCEPT !.addr = 1]

\* The address is only changed by the callback, after the handshake.
SetAddress(c) == [c EXCEPT !.callback = TRUE]

\* udc_process_setup.  A setting that does not exist is found out after the
\* interface is disabled: the request is refused and the interface stays dead.
Effect(c, r) ==
    CASE r = "setAddress"            -> SetAddress(c)
      [] r = "setConf"               -> SetConfiguration(c, TRUE)
      [] r = "unconf"                -> SetConfiguration(c, FALSE)
      [] r = "setIface" /\ c.conf    -> IfaceEnable(IfaceDisable(c))
      [] r = "badIface" /\ c.conf    -> IfaceDisable(c)
      [] r = "mscReset" /\ c.conf    -> BulkReset(c)
      [] OTHER                       -> c

\* udc_valid_address, if it is registered: nothing takes it out again until the
\* next request.
RunCallback(c) == IF c.callback THEN [c EXCEPT !.addr = 1] ELSE c

----------------------------------------------------------------------------
(* The callbacks of the endpoint.                                          *)

\* Mutant of OnSetup: the count of the last payload is kept.
OnSetupKeepsCount(c) ==
    LET done == Effect([c EXCEPT !.state = "setup", !.callback = FALSE], c.packet)
    IN  IF ~Accepts(c, c.packet) THEN StallData(done)
        ELSE IF c.packet \in InRequests
             THEN InSent([ReadBufferJob(done) EXCEPT !.state = "data_in"])
             ELSE SendZlpIn(done)

OnSetup(c) ==
    LET ended == IF c.state = "setup" THEN c ELSE RunCallback(c)
        fresh == [ended EXCEPT !.state = "setup", !.callback = FALSE]
        done  == Effect(fresh, c.packet)
    IN  IF ~Accepts(fresh, c.packet) THEN StallData(done)
        ELSE IF c.packet \in InRequests
             THEN InSent([ReadBufferJob(done) EXCEPT !.state = "data_in",
                                                     !.sent = FALSE])
             ELSE SendZlpIn(done)

TransferOk(c) == IF c.state = "data_in" THEN InSent(c)
                 ELSE [RunCallback(c) EXCEPT !.state = "setup"]

\* A token the device could not serve: extra IN data is refused; an early status
\* ends the data stage; extra OUT data is refused.
Underflow(c) == IF c.state = "wait_out" THEN SetHalt(c, "in") ELSE c
Overflow(c)  == CASE c.state = "data_in" -> [c EXCEPT !.state = "wait_out"]
                  [] c.state = "wait_in" -> SetHalt(c, "out")
                  [] OTHER               -> c

CtrlEpEnable(c) == [ReadBufferJob(c) EXCEPT !.irq = TRUE, !.state = "setup"]

\* Mutant of OnBusReset: endpoint 0 is not enabled again.
OnBusResetStaysOff(c) == [UdcReset(c) EXCEPT !.addr = 0, !.state = "setup"]

\* Mutant of OnBusReset: no udc_reset.
OnBusResetKeepsConf(c) == CtrlEpEnable([c EXCEPT !.addr = 0])

OnBusReset(c) == CtrlEpEnable([UdcReset(c) EXCEPT !.addr = 0])

----------------------------------------------------------------------------
(* The interrupt handler serves one flag, endpoint 0 before the bulk       *)
(* endpoints, a new SETUP before what completed earlier.                   *)

EpPending(c) == c.irq /\ c.flags # {}

ServedBefore == [rxstp |-> 1, trcpt1 |-> 2, trcpt0 |-> 3, trfail1 |-> 4,
                 trfail0 |-> 5, bulk |-> 6]

Served(c) == CHOOSE f \in c.flags :
                 \A g \in c.flags : ServedBefore[f] <= ServedBefore[g]

ServeEndpoint(c) ==
    LET f == Served(c)
        d == [c EXCEPT !.flags = @ \ {f}]
    IN  CASE f = "rxstp"              -> OnSetup(d)
          [] f \in {"trcpt1", "trcpt0"} -> TransferOk(d)
          [] f = "trfail1"            -> Underflow(d)
          [] f = "trfail0"            -> Overflow(d)
          [] f = "bulk"               -> [d EXCEPT !.transReq = TRUE]
=============================================================================
