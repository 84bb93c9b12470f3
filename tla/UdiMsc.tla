------------------------------- MODULE UdiMsc ------------------------------
(***************************************************************************)
(* The Bulk-Only mass-storage device of SoundingSoil: the class driver     *)
(* udi_msc.c on the endpoint jobs of usb_device_udd.c.                      *)
(*                                                                         *)
(* Two threads of control share the state:                                 *)
(*   - the USB interrupt handler.  It is one handler on one priority, so   *)
(*     everything it does on one event is one step: a CBW received, a      *)
(*     packet sent, a SETUP request, a bus reset.  Such a step is an       *)
(*     operator on the record dev, built from the operators of the         *)
(*     routines it calls.                                                  *)
(*   - the main loop, which runs udi_msc_process_trans with interrupts     *)
(*     enabled.  It is cut at every point where the interrupt handler can  *)
(*     change what it has read: program counter main.pc.                   *)
(* The host and the memory are the environment.                            *)
(***************************************************************************)
EXTENDS Integers, UddEp

CONSTANTS
    MaxLen,     \* bound of a data transfer, in units of one block
    MaxResets,  \* bound of the resets and re-configurations of a behaviour
    Events,     \* the unusual events the host may cause
    PreemptAt,  \* the points of the main loop where an interrupt may find it
    ResetAt     \* for each kind of reset, those where it may find it

AllEvents == {"badCbw",      \* a CBW with a bad signature or length
              "badLun",      \* a CBW for a LUN above Get Max LUN
              "zeroReply",   \* a reply of length 0 to a host that wants none
              "stalled",     \* a reset while a pipe is stalled
              "quickHost"}   \* enumeration before the main loop is back

Resets == {"bulkReset",      \* class request Bulk-Only Mass Storage Reset
           "busReset",       \* reset on the USB line
           "setConfig"}      \* SET_CONFIGURATION while configured

ASSUME MaxLenAssumption    == MaxLen \in Nat
ASSUME MaxResetsAssumption == MaxResets \in Nat
ASSUME EventsAssumption    == Events \subseteq AllEvents

VARIABLES
    dev,    \* state of the drivers and of the endpoint hardware
    main,   \* the main loop inside udi_msc_process_trans
    host    \* the host's Bulk-Only transport

vars == <<dev, main, host>>

----------------------------------------------------------------------------
(* Commands, as far as the transport tells them apart.                     *)

Lens == 0 .. MaxLen
Tags == {0, 1}

\* "read"/"write": READ10/WRITE10; "reply": REQUEST SENSE, INQUIRY, MODE SENSE
\* and READ CAPACITY, which send a reply smaller than a block; "plain": TEST UNIT
\* READY, START STOP UNIT, PREVENT ALLOW and VERIFY10, which move no data, and
\* every other opcode, which fails the same way.
Ops == {"read", "write", "reply", "plain"}

\* dir and len are the host's bmCBWFlags and dCBWDataTransferLength; need is
\* the length the command block itself asks for.
Command == [op : Ops, dir : EP, len : Lens, need : Lens, lun : {0, 1},
            tag : Tags]

MaxLun == 0

Csw == [tag : Tags, residue : Int, status : {"pass", "fail"}]

Dev == [job        : [EP -> [busy : BOOLEAN, cb : Callbacks]],
        armed      : [EP -> Payload],
        halted     : [EP -> BOOLEAN],
        cfg        : [EP -> BOOLEAN],
        enabled    : BOOLEAN,   \* main_b_msc_enable
        cbwInvalid : BOOLEAN,   \* udi_msc_b_cbw_invalid
        transReq   : BOOLEAN,   \* udi_msc_b_trans_req
        ackTrans   : BOOLEAN,   \* udi_msc_b_ack_trans
        abortTrans : BOOLEAN,   \* udi_msc_b_abort_trans
        resetTrans : BOOLEAN,   \* udi_msc_b_reset_trans
        bRead      : BOOLEAN,   \* udi_msc_b_read
        nbBlock    : Lens,      \* udi_msc_nb_block
        cbw        : Command,   \* udi_msc_cbw
        csw        : Csw]       \* udi_msc_csw

----------------------------------------------------------------------------
(* Restart of the protocol, and what an abort or an end of halt calls.     *)

CbwWait(s) == RunOrWait(s, "OUT", "cbw_received", "cbw", "cbw_wait")
CswSend(s) == RunOrWait(s, "IN",  "csw_sent",     "csw", "csw_send")

\* Mutant of Restall: the pipe is stalled again, but only once.
RestallOnce(s, e, callback) == IF s.cbwInvalid THEN Halt(Disarm(s, e), e) ELSE s

\* udi_msc_cbw_invalid and udi_msc_csw_invalid on a job that is not busy: once
\* the error is reset nothing is stalled again.
Restall(s, e, callback) ==
    IF s.cbwInvalid THEN WaitStallClear(Halt(Disarm(s, e), e), e, callback)
                    ELSE s

\* Mutant of NotOk: a status that was sent does not restart the wait for a CBW.
NotOkNoRestart(s, e) ==
    LET callback == s.job[e].cb IN
    CASE callback = "cbw_wait"                     -> CbwWait(s)
      [] callback = "csw_send"                     -> CswSend(s)
      [] callback \in {"cbw_invalid", "csw_invalid"} -> Restall(s, e, callback)
      [] callback = "trans_ack"                    ->
             [s EXCEPT !.abortTrans = TRUE, !.ackTrans = TRUE]
      [] OTHER                                     -> s

\* Mutant of NotOk: the main loop is told that an aborted block went well.
NotOkAbortLost(s, e) ==
    LET callback == s.job[e].cb IN
    CASE callback \in {"csw_sent", "cbw_wait"}     -> CbwWait(s)
      [] callback = "csw_send"                     -> CswSend(s)
      [] callback \in {"cbw_invalid", "csw_invalid"} -> Restall(s, e, callback)
      [] callback = "trans_ack"                    ->
             [s EXCEPT !.abortTrans = FALSE, !.ackTrans = TRUE]
      [] OTHER                                     -> s

\* The callback of endpoint e when it is told anything but a transfer that
\* went well: by udd_ep_abort, or by udd_ep_clear_halt, which calls it without
\* arguments.  The build leaves 1 = UDD_EP_TRANSFER_ABORT in the register of
\* the first one.
NotOk(s, e) ==
    LET callback == s.job[e].cb IN
    CASE callback \in {"csw_sent", "cbw_wait"}     -> CbwWait(s)
      [] callback = "csw_send"                     -> CswSend(s)
      [] callback \in {"cbw_invalid", "csw_invalid"} -> Restall(s, e, callback)
      [] callback = "trans_ack"                    ->
             [s EXCEPT !.abortTrans = TRUE, !.ackTrans = TRUE]
      [] OTHER                                     -> s

EpAbort(s, e) ==
    IF s.job[e].busy THEN NotOk(Release(Disarm(s, e), e), e) ELSE Disarm(s, e)

EpSetHalt(s, e) == EpAbort(Halt(s, e), e)

\* Mutants of EpClearHalt: the callback runs but the halt stays; the halt ends
\* but nobody is told.
EpClearHaltKeepsStall(s, e) ==
    IF s.job[e].busy THEN NotOk(Release(s, e), e) ELSE Unhalt(s, e)
EpClearHaltNoCallback(s, e) == Unhalt(s, e)

\* A job that is a running transfer is called back too, and stays armed.
EpClearHalt(s, e) ==
    IF s.job[e].busy THEN NotOk(Release(Unhalt(s, e), e), e) ELSE Unhalt(s, e)

----------------------------------------------------------------------------
(* Status, small replies and commands, all in the interrupt handler.       *)

SensePass(s) == [s EXCEPT !.csw.status = "pass"]
SenseFail(s) == [s EXCEPT !.csw.status = "fail"]

\* Mutant of StallResidue: a short command is not stalled.
NoStallResidue(s) == s

\* A command that moved less than the host announced stalls the pipe the host
\* is waiting on; the wrapper takes the tag that is in the buffer of the CBW.
StallResidue(s) == IF s.csw.residue # 0 THEN EpSetHalt(s, s.cbw.dir) ELSE s
TagCsw(s)       == [s EXCEPT !.csw.tag = s.cbw.tag]
CswProcess(s)   == CswSend(TagCsw(StallResidue(s)))
CswFail(s)      == CswProcess(SenseFail(s))

\* Mutant of Valid: only the direction is checked.
ValidDirectionOnly(s, size, dir) == s.cbw.dir = dir

Valid(s, size, dir) == s.cbw.dir = dir /\ s.csw.residue >= size

DataSend(s) ==
    IF EpRunOk(s, "IN") THEN EpRun(s, "IN", "data_sent", "reply")
                        ELSE CswFail(EpRun(s, "IN", "data_sent", "reply"))

\* Mutant of DataSent: the residue is not updated.
DataSentKeepsResidue(s, sent) == CswProcess(SensePass(s))

DataSent(s, sent) ==
    CswProcess([SensePass(s) EXCEPT !.csw.residue = @ - sent])

\* memOk is the answer of the memory layer, or of the checks on fields of the
\* command that the model leaves out: medium ready, page supported, write
\* allowed.
Reply(s, memOk) ==
    CASE ~Valid(s, s.cbw.need, "IN") -> CswFail(s)
      [] ~memOk                      -> CswFail(s)
      [] OTHER                       -> DataSend(s)

\* Mutant of SbcTrans: the next CBW is accepted as soon as this one is queued.
SbcTransEager(s, read, memOk) ==
    IF ~read /\ ~memOk THEN CswFail(s)
    ELSE LET t == [s EXCEPT !.nbBlock = s.cbw.need] IN
         IF Valid(t, t.nbBlock, IF read THEN "IN" ELSE "OUT")
         THEN CbwWait([t EXCEPT !.bRead = read, !.transReq = TRUE])
         ELSE CswFail(t)

SbcTrans(s, read, memOk) ==
    IF ~read /\ ~memOk THEN CswFail(s)    \* write protected
    ELSE LET t == [s EXCEPT !.nbBlock = s.cbw.need] IN
         IF Valid(t, t.nbBlock, IF read THEN "IN" ELSE "OUT")
         THEN [t EXCEPT !.bRead = read, !.transReq = TRUE]
         ELSE CswFail(t)

Decode(s, memOk) ==
    CASE s.cbw.op = "reply"   -> Reply(s, memOk)
      [] s.cbw.op = "read"    -> SbcTrans(s, TRUE, memOk)
      [] s.cbw.op = "write"   -> SbcTrans(s, FALSE, memOk)
      [] s.cbw.op = "plain"   -> CswProcess(IF memOk THEN SensePass(s)
                                                     ELSE SenseFail(s))

\* udi_msc_cbw_received with status OK; s.cbw is the buffer the packet landed
\* in.  A bad wrapper halts both pipes.  A bad LUN answers before the residue
\* is computed.
CbwReceived(s, intact, memOk) ==
    CASE ~intact ->
           LET t == [s EXCEPT !.cbwInvalid = TRUE]
               Invalid(u, e, callback) ==
                   WaitStallClear(EpSetHalt(u, e), e, callback)
           IN  Invalid(Invalid(t, "OUT", "cbw_invalid"), "IN", "csw_invalid")
      [] intact /\ s.cbw.lun > MaxLun -> CswFail(s)
      [] OTHER -> Decode([s EXCEPT !.csw.residue = s.cbw.len], memOk)

\* TRCPT interrupt: the transfer of endpoint e went well.
TransOk(s, e, sent, intact, memOk) ==
    LET t        == Release(Disarm(s, e), e)
        callback == t.job[e].cb
    IN  CASE callback = "cbw_received" -> CbwReceived(t, intact, memOk)
          [] callback = "data_sent"    -> DataSent(t, sent)
          [] callback = "trans_ack"    -> [t EXCEPT !.abortTrans = FALSE,
                                                    !.ackTrans = TRUE]
          [] OTHER                     -> NotOk(t, e)

----------------------------------------------------------------------------
(* SETUP requests and resets, in the interrupt handler.                    *)

\* Mutant of BulkReset: the IN endpoint keeps its task.
BulkResetOutOnly(s) ==
    CbwWait(EpAbort([s EXCEPT !.cbwInvalid = FALSE, !.transReq = FALSE], "OUT"))

\* Mutant of BulkReset: the main loop still finds the request.
BulkResetKeepsRequest(s) ==
    CbwWait(EpAbort(EpAbort([s EXCEPT !.cbwInvalid = FALSE], "OUT"), "IN"))

BulkReset(s) ==
    CbwWait(EpAbort(EpAbort([s EXCEPT !.cbwInvalid = FALSE,
                                      !.transReq   = FALSE], "OUT"), "IN"))

\* Mutant of EpFree: the job of the endpoint is not aborted.
EpFreeKeepsJob(s, e) == [Disarm(s, e) EXCEPT !.cfg[e] = FALSE]

EpFree(s, e) == [EpAbort(s, e) EXCEPT !.cfg[e] = FALSE]

\* Mutant of IfaceDisable: the main loop is not told of the reset.
IfaceDisableSilently(s) ==
    [EpFree(EpFree(s, "IN"), "OUT") EXCEPT
        !.transReq = FALSE, !.ackTrans = TRUE, !.enabled = FALSE]

\* udc_iface_disable: free the endpoints in the order of the descriptor, then
\* udi_msc_disable.
IfaceDisable(s) ==
    [EpFree(EpFree(s, "IN"), "OUT") EXCEPT
        !.transReq = FALSE, !.ackTrans = TRUE, !.resetTrans = TRUE,
        !.enabled = FALSE]

\* udc_iface_enable: allocate the endpoints, then udi_msc_enable.
EpAlloc(s) == [s EXCEPT !.cfg = [e \in EP |-> TRUE],
                        !.armed = [e \in EP |-> "none"]]

\* Mutant of IfaceEnable: the process does not start by a CBW reception.
IfaceEnableDeaf(s) ==
    [EpAlloc(s) EXCEPT
        !.transReq = FALSE, !.cbwInvalid = FALSE, !.ackTrans = TRUE,
        !.resetTrans = TRUE, !.enabled = TRUE]

IfaceEnable(s) ==
    CbwWait([EpAlloc(s) EXCEPT
        !.transReq = FALSE, !.cbwInvalid = FALSE, !.ackTrans = TRUE,
        !.resetTrans = TRUE, !.enabled = TRUE])

Configured(s) == s.cfg["IN"]

\* udc_reset
UdcReset(s) == IF Configured(s) THEN IfaceDisable(s) ELSE s

\* What the reset of the line does to the bulk endpoints before the interrupt
\* handler runs.  Whether the STALL request bits survive is left open.
LineReset(s, keepHalt) ==
    [s EXCEPT !.cfg    = [e \in EP |-> FALSE],
              !.armed  = [e \in EP |-> "none"],
              !.halted = [e \in EP |-> keepHalt /\ @[e]]]

BusReset(s, keepHalt) ==
    IF Configured(s) THEN IfaceDisable(LineReset(s, keepHalt))
                     ELSE LineReset(s, keepHalt)

SetConfiguration(s) == IfaceEnable(UdcReset(s))

----------------------------------------------------------------------------
(* The main loop: udi_msc_process_trans and what it calls.                 *)

Pcs == {"poll",      \* main.c tests the enable flag and the request
        "clear",     \* about to clear b_reset_trans
        "memory",    \* inside memory_2_usb or usb_2_memory, between blocks
        "runHalt", "runBusy", "runSet", "runArm",  \* udd_ep_run
        "ack",       \* udi_msc_trans_block spins on b_ack_trans
        "check",     \* the memory layer returned
        "residue",   \* udi_msc_csw_process
        "abort",     \* udd_ep_set_halt has set the STALL bit
        "waitBusy", "waitHalt", "waitSet"}         \* udd_ep_wait_stall_clear

ASSUME PreemptAtAssumption == PreemptAt \subseteq Pcs
ASSUME ResetAtAssumption   ==
    ResetAt \in [Resets -> SUBSET (Pcs \cup {"acked"})]

\* call and ep are what the driver call in progress is for; read, left and
\* status are the locals of the memory layer and of udi_msc_process_trans.
Main == [pc : Pcs, call : {"block", "csw"}, ep : EP, read : BOOLEAN,
         left : Lens, status : {"pass", "fail"}]

Goto(pc) == main' = [main EXCEPT !.pc = pc]

\* udi_msc_b_trans_req is tested and cleared; the request's direction and
\* number of blocks are passed by value to the memory layer afterwards.
Poll ==
    /\ main.pc = "poll"
    /\ dev.enabled /\ dev.transReq
    /\ dev' = [dev EXCEPT !.transReq = FALSE]
    /\ Goto("clear")
    /\ UNCHANGED host

ClearReset ==
    /\ main.pc = "clear"
    /\ dev' = [dev EXCEPT !.resetTrans = FALSE]
    /\ main' = [main EXCEPT !.pc = "memory", !.read = dev.bRead,
                            !.left = dev.nbBlock]
    /\ UNCHANGED host

\* The memory layer returns: all blocks moved, or the card failed.
MemoryReturns(status) ==
    /\ main.pc = "memory"
    /\ status = "pass" => main.left = 0
    /\ main' = [main EXCEPT !.pc = "check", !.status = status]
    /\ UNCHANGED <<dev, host>>

BlockFails == main' = [main EXCEPT !.pc = "check", !.status = "fail"]

\* Mutant of TransBlock: one block too many.
TransBlockTooMany ==
    /\ main.pc = "memory"
    /\ dev' = [dev EXCEPT !.ackTrans = FALSE]
    /\ main' = [main EXCEPT !.pc = "runHalt", !.call = "block",
                            !.ep = IF main.read THEN "IN" ELSE "OUT"]
    /\ UNCHANGED host

\* Mutant of TransBlock: the acknowledgement of the last block is not taken
\* back before the next one is started.
TransBlockStaleAck ==
    /\ main.pc = "memory" /\ main.left > 0
    /\ dev.ackTrans
    /\ main' = [main EXCEPT !.pc = "runHalt", !.call = "block",
                            !.ep = IF main.read THEN "IN" ELSE "OUT"]
    /\ UNCHANGED <<dev, host>>

TransBlock ==
    /\ main.pc = "memory" /\ main.left > 0
    /\ IF dev.ackTrans
       THEN /\ dev' = [dev EXCEPT !.ackTrans = FALSE]
            /\ main' = [main EXCEPT !.pc = "runHalt", !.call = "block",
                                    !.ep = IF main.read THEN "IN" ELSE "OUT"]
       ELSE BlockFails /\ UNCHANGED dev
    /\ UNCHANGED host

\* udd_ep_run from the main loop, on behalf of trans_block or of csw_send.
RunFails ==
    IF main.call = "csw"
    THEN Goto("waitBusy") /\ UNCHANGED dev
    ELSE BlockFails /\ dev' = [dev EXCEPT !.ackTrans = TRUE]

RunTestsHalt ==
    /\ main.pc = "runHalt"
    /\ IF dev.halted[main.ep] THEN RunFails
                            ELSE Goto("runBusy") /\ UNCHANGED dev
    /\ UNCHANGED host

RunTakesJob ==
    /\ main.pc = "runBusy"
    /\ IF dev.job[main.ep].busy
       THEN RunFails
       ELSE /\ dev' = [dev EXCEPT !.job[main.ep].busy = TRUE]
            /\ Goto("runSet")
    /\ UNCHANGED host

RunSetsCallback ==
    /\ main.pc = "runSet"
    /\ dev' = [dev EXCEPT !.job[main.ep].cb = IF main.call = "csw"
                                            THEN "csw_sent" ELSE "trans_ack"]
    /\ Goto("runArm")
    /\ UNCHANGED host

RunArms ==
    /\ main.pc = "runArm"
    /\ IF dev.cfg[main.ep]
       THEN /\ dev' = [dev EXCEPT !.armed[main.ep] = IF main.call = "csw"
                                                   THEN "csw" ELSE "block"]
            /\ Goto(IF main.call = "csw" THEN "poll" ELSE "ack")
       ELSE RunFails
    /\ UNCHANGED host

\* The spin loop ends, and the residue is updated in the shared wrapper.
AckSeen ==
    /\ main.pc = "ack" /\ dev.ackTrans
    /\ IF dev.abortTrans
       THEN BlockFails /\ UNCHANGED dev
       ELSE /\ dev' = [dev EXCEPT !.csw.residue = @ - 1]
            /\ main' = [main EXCEPT !.pc = "memory", !.left = @ - 1]
    /\ UNCHANGED host

\* The locals of the transfer are dead once its outcome is known.
Leaves(pc) == main' = [main EXCEPT !.pc = pc, !.read = FALSE, !.left = 0,
                                   !.status = "pass"]

\* "Check if transfer is aborted by reset"
CheckReset ==
    /\ main.pc = "check"
    /\ IF dev.resetTrans
       THEN dev' = [dev EXCEPT !.resetTrans = FALSE] /\ Leaves("poll")
       ELSE dev' = [dev EXCEPT !.csw.status = main.status] /\ Leaves("residue")
    /\ UNCHANGED host

\* Mutant of MainSendsCsw: the status keeps the tag of the command before.
MainSendsCswOldTag(s) ==
    /\ dev' = s
    /\ main' = [main EXCEPT !.pc = "runHalt", !.call = "csw", !.ep = "IN"]

\* udi_msc_csw_process from the main loop: the STALL bit is set before the
\* endpoint is aborted.
MainSendsCsw(s) ==
    /\ dev' = TagCsw(s)
    /\ main' = [main EXCEPT !.pc = "runHalt", !.call = "csw", !.ep = "IN"]

MainTestsResidue ==
    /\ main.pc = "residue"
    /\ \/ /\ dev.csw.residue # 0
          /\ dev' = Halt(dev, dev.cbw.dir)
          /\ main' = [main EXCEPT !.pc = "abort", !.ep = dev.cbw.dir]
       \/ /\ dev.csw.residue = 0
          /\ MainSendsCsw(dev)
    /\ UNCHANGED host

MainAborts ==
    /\ main.pc = "abort"
    /\ MainSendsCsw(EpAbort(dev, main.ep))
    /\ UNCHANGED host

\* udd_ep_wait_stall_clear(UDI_MSC_EP_IN, udi_msc_csw_send) from the main loop
WaitTestsBusy ==
    /\ main.pc = "waitBusy"
    /\ Goto(IF dev.job["IN"].busy THEN "poll" ELSE "waitHalt")
    /\ UNCHANGED <<dev, host>>

WaitTestsHalt ==
    /\ main.pc = "waitHalt"
    /\ Goto(CASE dev.halted["IN"]                       -> "waitSet"
              [] ~dev.halted["IN"] /\ dev.cfg["IN"]     -> "runHalt"
              [] OTHER                                  -> "poll")
    /\ UNCHANGED <<dev, host>>

WaitRegisters ==
    /\ main.pc = "waitSet"
    /\ dev' = [dev EXCEPT !.job["IN"] = [busy |-> TRUE, cb |-> "csw_send"]]
    /\ Goto("poll")
    /\ UNCHANGED host

MainStep ==
    \/ Poll \/ ClearReset \/ TransBlock
    \/ \E status \in {"pass", "fail"} : MemoryReturns(status)
    \/ RunTestsHalt \/ RunTakesJob \/ RunSetsCallback \/ RunArms
    \/ AckSeen \/ CheckReset
    \/ MainTestsResidue \/ MainAborts
    \/ WaitTestsBusy \/ WaitTestsHalt \/ WaitRegisters

----------------------------------------------------------------------------
(* The host.  It follows the Bulk-Only transport: command, data, status;   *)
(* a STALL in the data phase is cleared and followed by the status; a STALL *)
(* of the status is cleared and the status read again; a second STALL       *)
(* there leads to a reset recovery: Bulk-Only reset, then both halts        *)
(* cleared.  Besides, it may reset the device at the points of ResetAt.     *)

HostStates == {"off", "idle", "data", "status", "retry",
               "clearIn", "clearOut"}

\* moved counts what really crossed the bus in the data phase.
Host == [st : HostStates, cmd : Command, moved : Nat, resets : 0 .. MaxResets]

TypeOK == dev \in Dev /\ main \in Main /\ host \in Host

ReadingStatus == host.st \in {"status", "retry"}
Pending == host.st = "data" \/ ReadingStatus   \* a command awaits its status

Commands ==
    {c \in Command :
        /\ c.op = "plain" => c.need = 0
        /\ c.op = "reply" => c.need <= 1
        /\ "badLun" \in Events \/ c.lun <= MaxLun
        /\ \/ "zeroReply" \in Events
           \/ ~(c.op = "reply" /\ c.dir = "IN" /\ c.len = 0 /\ c.need = 0)
        /\ c.tag = 1 - host.cmd.tag}

\* The main loop is at a point where interrupts are enabled.
Interrupts == main.pc \in PreemptAt

\* A transfer may complete when its buffer is armed on a pipe in good order.
Ready(e) == dev.armed[e] # "none" /\ ~dev.halted[e] /\ dev.cfg[e]

\* What a bad wrapper asks for is never read.
SendCbw ==
    /\ Interrupts
    /\ host.st = "idle" /\ Ready("OUT")
    /\ \E c \in Commands, memOk \in BOOLEAN, intact \in BOOLEAN :
         /\ ~intact => "badCbw" \in Events /\ memOk /\ c.op = "plain"
         /\ dev' = TransOk([dev EXCEPT !.cbw = c],
                           "OUT", 0, intact, memOk)
         /\ host' = [host EXCEPT !.st = IF c.len > 0 THEN "data" ELSE "status",
                                 !.cmd = c, !.moved = 0]
    /\ UNCHANGED main

InSize == IF dev.armed["IN"] = "reply" THEN dev.cbw.need ELSE 1

\* A data packet taken in the data phase.  A reply is closed by a short packet
\* and ends the phase.
ReadData ==
    /\ Interrupts
    /\ host.st = "data" /\ host.cmd.dir = "IN" /\ Ready("IN")
    /\ dev.armed["IN"] \in {"reply", "block"}
    /\ dev' = TransOk(dev, "IN", InSize, TRUE, TRUE)
    /\ host' = [host EXCEPT
                  !.moved = @ + InSize,
                  !.st = IF dev.armed["IN"] = "reply"
                            \/ host.moved + 1 >= host.cmd.len
                         THEN "status" ELSE "data"]
    /\ UNCHANGED main

\* A status wrapper taken in the status phase ends the command.
ReadCsw ==
    /\ Interrupts
    /\ ReadingStatus /\ Ready("IN") /\ dev.armed["IN"] = "csw"
    /\ dev' = TransOk(dev, "IN", 0, TRUE, TRUE)
    /\ host' = [host EXCEPT !.st = "idle"]
    /\ UNCHANGED main

WriteData ==
    /\ Interrupts
    /\ host.st = "data" /\ host.cmd.dir = "OUT" /\ Ready("OUT")
    /\ dev.armed["OUT"] = "block"
    /\ dev' = TransOk(dev, "OUT", 0, TRUE, TRUE)
    /\ host' = [host EXCEPT !.moved = @ + 1,
                            !.st = IF host.moved + 1 >= host.cmd.len
                                   THEN "status" ELSE "data"]
    /\ UNCHANGED main

\* STALL handshake, then CLEAR_FEATURE(ENDPOINT_HALT).
ClearStall(e) ==
    /\ Interrupts
    /\ \/ host.st = "data" /\ host.cmd.dir = e
       \/ host.st = "status" /\ e = "IN"
    /\ dev.halted[e] /\ dev.cfg[e]
    /\ dev' = EpClearHalt(dev, e)
    /\ host' = [host EXCEPT !.st = IF @ = "data" THEN "status" ELSE "retry"]
    /\ UNCHANGED main

\* While it spins on b_ack_trans the main loop may be told already.
Point == IF main.pc = "ack" /\ dev.ackTrans THEN "acked" ELSE main.pc

ResetAllowed(kind) ==
    /\ Interrupts
    /\ Point \in ResetAt[kind] /\ host.resets < MaxResets
    /\ "stalled" \notin Events => \A e \in EP : ~dev.halted[e]

\* The status is stalled again: reset recovery.
ResetRecovery ==
    /\ Interrupts
    /\ host.st = "retry" /\ dev.halted["IN"]
    /\ dev' = BulkReset(dev)
    /\ host' = [host EXCEPT !.st = "clearIn"]
    /\ UNCHANGED main

HostBulkReset ==
    /\ ResetAllowed("bulkReset")
    /\ host.st # "off"
    /\ dev' = BulkReset(dev)
    /\ host' = [host EXCEPT !.st = "clearIn", !.resets = @ + 1]
    /\ UNCHANGED main

RecoveryClears(e) ==
    /\ Interrupts
    /\ host.st = IF e = "IN" THEN "clearIn" ELSE "clearOut"
    /\ dev' = EpClearHalt(dev, e)
    /\ host' = [host EXCEPT !.st = IF e = "IN" THEN "clearOut" ELSE "idle"]
    /\ UNCHANGED main

HostBusReset ==
    /\ ResetAllowed("busReset")
    /\ host.st # "off"
    /\ \E keepHalt \in BOOLEAN : dev' = BusReset(dev, keepHalt)
    /\ host' = [host EXCEPT !.st = "off", !.resets = @ + 1]
    /\ UNCHANGED main

\* Enumeration after power-up or a reset of the line.
Enumerate ==
    /\ Interrupts
    /\ host.st = "off"
    /\ "quickHost" \notin Events => main.pc = "poll"
    /\ dev' = SetConfiguration(dev)
    /\ host' = [host EXCEPT !.st = "idle"]
    /\ UNCHANGED main

HostSetConfig ==
    /\ ResetAllowed("setConfig")
    /\ host.st # "off"
    /\ dev' = SetConfiguration(dev)
    /\ host' = [host EXCEPT !.st = "idle", !.resets = @ + 1]
    /\ UNCHANGED main

HostProceeds ==
    \/ Enumerate \/ ReadData \/ ReadCsw \/ WriteData \/ ResetRecovery
    \/ \E e \in EP : ClearStall(e) \/ RecoveryClears(e)

HostStep == SendCbw \/ HostProceeds

ResetStep == HostBulkReset \/ HostBusReset \/ HostSetConfig

----------------------------------------------------------------------------

NoCommand == [op |-> "plain", dir |-> "OUT", len |-> 0, need |-> 0,
              lun |-> 0, tag |-> 0]

Init ==
    /\ dev = [job |-> [e \in EP |-> NoJob], armed |-> [e \in EP |-> "none"],
              halted |-> [e \in EP |-> FALSE], cfg |-> [e \in EP |-> FALSE],
              enabled |-> FALSE, cbwInvalid |-> FALSE, transReq |-> FALSE,
              ackTrans |-> TRUE, abortTrans |-> FALSE, resetTrans |-> TRUE,
              bRead |-> FALSE, nbBlock |-> 0, cbw |-> NoCommand,
              csw |-> [tag |-> 0, residue |-> 0, status |-> "pass"]]
    /\ main = [pc |-> "poll", call |-> "block", ep |-> "IN", read |-> FALSE,
               left |-> 0, status |-> "pass"]
    /\ host = [st |-> "off", cmd |-> NoCommand, moved |-> 0, resets |-> 0]

Next == MainStep \/ HostStep \/ ResetStep

Spec == Init /\ [][Next]_vars

\* The main loop runs: nothing it waits for blocks the processor, the memory
\* layer bounds its waits, and a sleep ends with the next interrupt.  The host
\* goes on with the transport it started, and need not send another command.
FairSpec == Spec /\ WF_vars(MainStep) /\ WF_vars(HostProceeds)

----------------------------------------------------------------------------
(* Properties.                                                             *)

\* The status wrapper that the host can take is the one of the command it
\* sent: same tag, and a residue equal to what did not cross the bus.  The
\* wrapper is one static buffer that the interrupt handler and the main loop
\* both write (udi_msc_cbw_received, udi_msc_trans_block,
\* udi_msc_csw_process).
StatusAnswersCommand ==
    dev.armed["IN"] = "csw" =>
        /\ dev.csw.tag = host.cmd.tag
        /\ dev.csw.residue = host.cmd.len - host.moved

\* A status wrapper is never taken for data: it is on a pipe in good order
\* only when the host reads the status, or is busy with its OUT pipe.
StatusInItsPhase ==
    dev.armed["IN"] = "csw" /\ ~dev.halted["IN"] =>
        ReadingStatus \/ (host.st = "data" /\ host.cmd.dir = "OUT")

\* Data is on the IN pipe only while the host reads the data of a command.
DataInItsPhase ==
    dev.armed["IN"] \in {"reply", "block"} =>
        host.st = "data" /\ host.cmd.dir = "IN"

\* The buffer for the next command is armed only when no part of the device is
\* at work for the last one: this is what makes udi_msc_cbw, udi_msc_csw and
\* the memory layer safe to use from both threads without a lock.
OneCommandAtATime ==
    dev.armed["OUT"] = "cbw" =>
        /\ ~Pending
        /\ main.pc = "poll" /\ ~dev.transReq
        /\ ~dev.job["IN"].busy

\* A host that is done with a command, with a reset recovery or with the
\* enumeration finds the device listening.
ListensWhenIdle ==
    host.st = "idle" => dev.armed["OUT"] = "cbw" /\ Ready("OUT")

\* The status of a well-formed command is stalled at most once
\* (udi_msc_csw_process halts a pipe once, before the status is queued): a
\* host never has to resort to a reset recovery.
StatusStallsOnce == host.st = "retry" => ~dev.halted["IN"]

\* "Only Setup MSC Reset can clear it": after an invalid command wrapper both
\* pipes are stalled, nothing can be transferred, and the end of each halt is
\* watched to halt again.
InvalidStaysStalled ==
    dev.cbwInvalid =>
        \A e \in EP : /\ dev.halted[e] /\ dev.armed[e] = "none"
                      /\ dev.job[e].busy
                      /\ dev.job[e].cb \in {"cbw_invalid", "csw_invalid"}

\* Bulk-Only reset ends all tasks of the endpoints, "transfer or clear stall
\* wait": before the host clears the halts nothing is left on the IN endpoint.
ResetEndsAllTasks ==
    host.st = "clearIn" => ~dev.job["IN"].busy /\ dev.armed["IN"] = "none"

\* The main loop answers no command that a reset took away from it
\* (udi_msc_b_reset_trans).
SendingStatus ==
    \/ main.pc \in {"residue", "abort", "waitBusy", "waitHalt", "waitSet"}
    \/ main.pc \in {"runHalt", "runBusy", "runSet", "runArm"}
       /\ main.call = "csw"

AbortedSendsNoStatus == SendingStatus => Pending

\* A status that waits for the end of a halt has a halt to wait for
\* (udi_msc_csw_send, udd_ep_wait_stall_clear).
StatusWaitsForStall ==
    dev.job["IN"].busy /\ dev.job["IN"].cb = "csw_send" => dev.halted["IN"]

\* The interrupt handler decodes a command, and so may select the card, only
\* when the main loop has no block left to write: the assertion of
\* sd_mmc_select_slot on sd_mmc_nb_block_remaining.
SdNotReentered ==
    [][host.st = "idle" /\ host'.st \in {"data", "status"} =>
           ~(main.pc = "memory" /\ ~main.read /\ main.left > 0)]_vars

\* Every command ends with its status, or the host's recovery from it ends with
\* a device that listens.
EveryCommandEnds == Pending ~> host.st = "idle"
=============================================================================
