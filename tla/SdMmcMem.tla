------------------------------ MODULE SdMmcMem -----------------------------
(***************************************************************************)
(* The SD card as the memory of the mass-storage device: sd_mmc_mem.c on   *)
(* sd_mmc.c and sd_mmc_spi.c.                                              *)
(*                                                                         *)
(* One call at a time is in progress (SdNotReentered of UdiMsc): TEST UNIT *)
(* READY and READ CAPACITY from the USB interrupt, READ10 and WRITE10 from *)
(* the main loop.  A call is cut at each operation on the SPI bus and at   *)
(* each block over USB, since the card may be pulled or plugged, and the   *)
(* debounce timer may expire, in between.                                  *)
(*                                                                         *)
(* A block is its number within the transfer, from 1.                      *)
(***************************************************************************)
EXTENDS SdMmc

CONSTANTS
    CounterSize,    \* 2^16: nb_step is a uint16_t
    Requests        \* the numbers of blocks the host may ask for

ASSUME CounterSizeAssumption == CounterSize \in Nat /\ CounterSize > 1
ASSUME RequestsAssumption    == Requests \subseteq 0 .. CounterSize - 1

VARIABLES
    call,   \* the call in progress
    buf,    \* sector_buf_0 and sector_buf_1: the block each holds
    flow    \* the USB side, and what has become of the blocks

vars == <<bus, slot, call, buf, flow>>

Ops == {"none", "tur", "capacity", "read", "write"}

Pcs == {"idle", "getCapacity", "check", "install", "getType",
        "select", "status", "command", "loop", "step", "card", "usb",
        "wait", "abort"}

Results == {"GOOD", "FAIL", "BUSY", "NO_PRESENT"}

\* step is nb_step, first is b_first_step; capacity is *nb_sector.
Call == [op : Ops, pc : Pcs, step : 0 .. CounterSize - 1, first : BOOLEAN,
         capacity : Capacities, result : Results]

\* want, last and status as in BlockStream.  fetched: blocks of a write that
\* have come over USB.  told: the host has had the UNIT ATTENTION of a medium
\* change since the card was plugged.  began: the card took the data command.
Flow == [want : Nat, last : Nat, status : {"busy", "good", "fail"},
         fetched : Nat, told : BOOLEAN, began : BOOLEAN]

Bufs == {0, 1}

TypeOK == /\ bus \in Bus /\ slot \in Slot /\ call \in Call
          /\ buf \in [Bufs -> Nat] /\ flow \in Flow

Blank == [i \in Bufs |-> 0]

Init == /\ BusInit /\ SlotInit
        /\ call = [op |-> "none", pc |-> "idle", step |-> 0, first |-> TRUE,
                   capacity |-> "none", result |-> "GOOD"]
        /\ buf = Blank
        /\ flow = [want |-> 0, last |-> 0, status |-> "good", fetched |-> 0,
                   told |-> FALSE, began |-> FALSE]

Goto(pc) == call' = [call EXCEPT !.pc = pc]

\* The call returns.  Its locals, and what a transfer leaves in the buffers,
\* are dead.
Return(result) ==
    call' = [call EXCEPT !.pc = "idle", !.result = result, !.step = 0,
                         !.first = TRUE]

NoFlow(status) == [want |-> 0, last |-> 0, status |-> status, fetched |-> 0,
                   told |-> flow.told, began |-> FALSE]

Transfers == {"read", "write"}

\* A block transfer returns.
Finish(result) ==
    /\ Return(result)
    /\ flow' = NoFlow(IF result = "GOOD" THEN "good" ELSE "fail")
    /\ buf' = Blank

----------------------------------------------------------------------------
(* Calls of the control interface.                                         *)

BeginCall(op, pc) ==
    /\ call.pc = "idle"
    /\ call' = [call EXCEPT !.op = op, !.pc = pc, !.capacity = "none"]
    /\ bus' = [bus EXCEPT !.upset = FALSE]
    /\ UNCHANGED <<slot, buf>>

CallTestUnitReady == BeginCall("tur", "check") /\ UNCHANGED flow

CallReadCapacity == BeginCall("capacity", "getCapacity") /\ UNCHANGED flow

\* sd_mmc_get_capacity: 0, and with it "no capacity", unless the card is ready.
GetCapacity ==
    /\ call.pc = "getCapacity"
    /\ SelectAndRelease
    /\ call' = [call EXCEPT
          !.pc = "check",
          !.capacity = IF Selection.err = "OK" THEN slot.capacity ELSE "none"]
    /\ UNCHANGED <<buf, flow>>

\* sd_mmc_check, up to the installation it may ask for.
Check ==
    /\ call.pc = "check"
    /\ slot' = IF Selection.err = "ONGOING" THEN StartInstall(Selection.slot)
                                            ELSE Selection.slot
    /\ bus' = IF Selection.err = "ONGOING" THEN SelectDevice ELSE DeselectDevice
    /\ CASE Selection.err = "OK"       -> Goto("getType")
         [] Selection.err = "ONGOING"  -> Goto("install")
         [] Selection.err = "NO_CARD"  -> Return("NO_PRESENT")
         [] Selection.err = "UNUSABLE" -> Return("FAIL")
    /\ UNCHANGED <<buf, flow>>

Install == /\ call.pc = "install" /\ InstallStep
           /\ UNCHANGED <<call, buf, flow>>

\* Mutant of Installed: the call that installs the card answers "ready".
InstalledSilently ==
    /\ call.pc = "install" /\ ~Installing
    /\ bus' = DeselectDevice
    /\ IF slot.install = "done"
       THEN slot' = [EndInstall EXCEPT !.state = "READY"] /\ Return("GOOD")
       ELSE slot' = [EndInstall EXCEPT !.state = "UNUSABLE"] /\ Return("FAIL")
    /\ UNCHANGED <<buf, flow>>

\* Mutant of Installed: a card that fails is tried again for ever.
InstalledRetries ==
    /\ call.pc = "install" /\ ~Installing
    /\ bus' = DeselectDevice
    /\ IF slot.install = "done"
       THEN /\ slot' = [EndInstall EXCEPT !.state = "READY"]
            /\ Return("BUSY")
            /\ flow' = [flow EXCEPT !.told = TRUE]
       ELSE slot' = EndInstall /\ Return("FAIL") /\ flow' = flow
    /\ UNCHANGED buf

\* The end of sd_mmc_check: "busy" tells the host that the medium is new.
Installed ==
    /\ call.pc = "install" /\ ~Installing
    /\ bus' = DeselectDevice
    /\ IF slot.install = "done"
       THEN /\ slot' = [EndInstall EXCEPT !.state = "READY"]
            /\ Return("BUSY")
            /\ flow' = [flow EXCEPT !.told = TRUE]
       ELSE /\ slot' = [EndInstall EXCEPT !.state = "UNUSABLE"]
            /\ Return("FAIL")
            /\ flow' = flow
    /\ UNCHANGED buf

\* sd_mmc_get_type samples the pin once more.
GetType ==
    /\ call.pc = "getType"
    /\ SelectAndRelease
    /\ Return(IF Selection.err = "OK" THEN "GOOD" ELSE "NO_PRESENT")
    /\ UNCHANGED <<buf, flow>>

ControlStep == GetCapacity \/ Check \/ Install \/ Installed \/ GetType

----------------------------------------------------------------------------
(* Block transfers: sd_mmc_usb_read_10 and sd_mmc_usb_write_10.            *)

CallTransfer(op, n) ==
    /\ BeginCall(op, "select")
    /\ flow' = [flow EXCEPT !.want = n, !.last = 0, !.status = "busy",
                            !.fetched = 0, !.began = FALSE]

\* sd_mmc_init_read_blocks, sd_mmc_init_write_blocks: the slot.
Select ==
    /\ call.pc = "select"
    /\ slot' = Selection.slot
    /\ bus' = Driven
    /\ CASE Selection.err = "OK" ->
               /\ Goto(IF call.op = "read" THEN "status" ELSE "command")
               /\ UNCHANGED <<buf, flow>>
         [] Selection.err = "NO_CARD" -> Finish("NO_PRESENT")
         [] OTHER                     -> Finish("FAIL")

\* Before a read, CMD13 until the card is ready.
WaitReady ==
    /\ call.pc = "status"
    /\ \E ok \in BOOLEAN : \E b \in SendCmd("CMD13", ok) :
          /\ bus' = [b EXCEPT !.sel = ok]
          /\ IF ok THEN Goto("command") /\ UNCHANGED <<buf, flow>>
                   ELSE Finish("FAIL")
    /\ UNCHANGED slot

DataCommand == IF call.op = "read"
               THEN IF flow.want > 1 THEN "CMD18" ELSE "CMD17"
               ELSE IF flow.want > 1 THEN "CMD25" ELSE "CMD24"

\* Mutant of StartTransfer: the loop turns once too often.
StartTransferTwoMore ==
    /\ call.pc = "command"
    /\ \E ok \in BOOLEAN :
          /\ InitBlocks(DataCommand, flow.want, ok)
          /\ IF ok
             THEN /\ call' = [call EXCEPT !.pc = "loop", !.first = TRUE,
                                 !.step = flow.want + 2]
                  /\ flow' = [flow EXCEPT !.began = TRUE]
                  /\ buf' = buf
             ELSE Finish("FAIL")

\* The data command.  The counter of the loop is one more than the number of
\* blocks, in 16 bits.
StartTransfer ==
    /\ call.pc = "command"
    /\ \E ok \in BOOLEAN :
          /\ InitBlocks(DataCommand, flow.want, ok)
          /\ IF ok
             THEN /\ call' = [call EXCEPT !.pc = "loop", !.first = TRUE,
                                 !.step = (flow.want + 1) % CounterSize]
                  /\ flow' = [flow EXCEPT !.began = TRUE]
                  /\ buf' = buf
             ELSE Finish("FAIL")

\* In each step one block is started on the card's side while the one of the
\* step before is moved on the other: a read leaves out the USB side of the
\* first step and the card's side of the last, a write the reverse.
CardSide == IF call.op = "read" THEN call.step > 0 ELSE ~call.first
UsbSide  == IF call.op = "read" THEN ~call.first ELSE call.step > 0

\* The parity of nb_step chooses the buffers, one for each side.
CardBuf == call.step % 2

\* Mutant of UsbBuf: both sides use the same buffer.
UsbBufSame == CardBuf

UsbBuf == (call.step + 1) % 2

StepEnds == call' = [call EXCEPT !.pc = "loop", !.first = FALSE]

\* while (nb_step--)
LoopTest ==
    /\ call.pc = "loop"
    /\ IF call.step = 0
       THEN Finish("GOOD")
       ELSE /\ call' = [call EXCEPT !.step = @ - 1, !.pc = "step"]
            /\ UNCHANGED <<buf, flow>>
    /\ UNCHANGED <<bus, slot>>

\* The sides that this step leaves out.
StepBegins ==
    /\ call.pc = "step"
    /\ IF CardSide THEN Goto("card")
       ELSE IF UsbSide THEN Goto("usb")
       ELSE StepEnds
    /\ UNCHANGED <<bus, slot, buf, flow>>

CardDone == Goto(IF UsbSide THEN "usb" ELSE "wait")

\* sd_mmc_start_read_blocks: the card sends its next block.
FetchFromCard ==
    /\ call.pc = "card" /\ call.op = "read"
    /\ \E ok \in BOOLEAN :
          /\ StartBlock(StartReadBlock(ok), ok)
          /\ IF ok
             THEN /\ buf' = [buf EXCEPT ![CardBuf] = bus.card.next]
                  /\ CardDone /\ flow' = flow
             ELSE Finish("FAIL")

\* sd_mmc_start_write_blocks: the card takes what is in the buffer.
StoreToCard ==
    /\ call.pc = "card" /\ call.op = "write"
    /\ \E ok \in BOOLEAN :
          /\ StartBlock(StartWriteBlock(ok), ok)
          /\ IF ok
             THEN /\ flow' = [flow EXCEPT !.last = buf[CardBuf]]
                  /\ CardDone /\ buf' = buf
             ELSE Finish("FAIL")

UsbDone == IF CardSide THEN Goto("wait") ELSE StepEnds

\* udi_msc_trans_block moves a block.
UsbMoves ==
    /\ call.pc = "usb"
    /\ IF call.op = "read"
       THEN /\ flow' = [flow EXCEPT !.last = buf[UsbBuf]]
            /\ buf' = buf
       ELSE /\ flow' = [flow EXCEPT !.fetched = @ + 1]
            /\ buf' = [buf EXCEPT ![UsbBuf] = flow.fetched + 1]
    /\ UsbDone
    /\ UNCHANGED <<bus, slot>>

\* It fails: a reset, or the host's transport is over.  The first block of a
\* write leaves without an end to the transfer.
UsbGivesUp ==
    /\ call.pc = "usb"
    /\ IF call.first
       THEN Finish("FAIL")
       ELSE Goto("abort") /\ UNCHANGED <<buf, flow>>
    /\ UNCHANGED <<bus, slot>>

AbortTransfer ==
    /\ call.pc = "abort"
    /\ IF call.op = "read" THEN WaitEndOfReadBlocks(TRUE)
       ELSE \E ok \in BOOLEAN : WaitEndOfWriteBlocks(TRUE, ok)
    /\ Finish("FAIL")

\* Over SPI a read has nothing to wait for.
WaitEnd ==
    /\ call.pc = "wait"
    /\ IF call.op = "read"
       THEN WaitEndOfReadBlocks(FALSE) /\ StepEnds /\ UNCHANGED <<buf, flow>>
       ELSE \E ok \in BOOLEAN :
               /\ WaitEndOfWriteBlocks(FALSE, ok)
               /\ IF ok THEN StepEnds /\ UNCHANGED <<buf, flow>>
                        ELSE Finish("FAIL")

TransferStep ==
    \/ Select \/ WaitReady \/ StartTransfer \/ LoopTest \/ StepBegins
    \/ FetchFromCard \/ StoreToCard \/ UsbMoves \/ UsbGivesUp
    \/ AbortTransfer \/ WaitEnd

----------------------------------------------------------------------------

\* The socket and the timer go on by themselves.
PlugCard == /\ Insert
            /\ flow' = [flow EXCEPT !.told = FALSE]
            /\ UNCHANGED <<slot, call, buf>>

PullCard == Remove /\ UNCHANGED <<slot, call, buf, flow>>

Timer == TimerExpires /\ UNCHANGED <<call, buf, flow>>

HostCalls == \/ CallTestUnitReady \/ CallReadCapacity
             \/ \E op \in Transfers, n \in Requests : CallTransfer(op, n)

StackStep == ControlStep \/ TransferStep

Next == StackStep \/ HostCalls \/ PlugCard \/ PullCard \/ Timer

Spec == Init /\ [][Next]_vars

\* The stack never blocks; SysTick counts; a host polls a removable medium
\* with TEST UNIT READY whatever else it does.
FairSpec == Spec /\ WF_vars(StackStep) /\ WF_vars(Timer)
                 /\ SF_vars(CallTestUnitReady)

----------------------------------------------------------------------------
(* Properties.                                                             *)

Stream == INSTANCE BlockStream WITH
              want <- flow.want, last <- flow.last, status <- flow.status

\* The pipeline of two buffers delivers the blocks in order, each once, and
\* answers CTRL_GOOD only when all have arrived, whatever the card and the USB
\* side do (sd_mmc_usb_read_10, sd_mmc_usb_write_10).
ImplementsBlockStream == Stream!Spec

\* While a transfer goes on, the blocks that sd_mmc.c thinks remain and the
\* position of sd_mmc_spi.c add up: each layer decides from its own counter,
\* one when to send CMD12 and to release the slot, the other when to send the
\* stop token.  After the last block the slot is released.
LayersAgree ==
    call.pc \in {"loop", "step", "card", "usb", "wait", "abort"} =>
        /\ slot.total = flow.want
        /\ call.pc = "card" => slot.remaining > 0
        /\ bus.sel => /\ bus.nb = slot.total
                      /\ slot.remaining + bus.pos = slot.total
        /\ call.pc = "loop" => (bus.sel <=> slot.remaining > 0)

\* A transfer that the card did not upset ends with the card ready for the
\* next command, the slot released and no block remaining: a read whatever
\* the USB side does (an abort sends CMD12), a write when it is good (the stop
\* token is sent).
Settled == /\ ~bus.sel
           /\ slot.remaining = 0
           /\ bus.card.mode \notin {"read", "write"}

EndsSettled ==
    [][flow.began /\ call'.pc = "idle" /\ ~bus'.upset
           => (call.op = "read" \/ call'.result = "GOOD" => Settled')]_vars

\* An abort of a write "after the writing issued [...] is done" ends it (the
\* comment of sd_mmc_wait_end_of_write_blocks, sd_mmc.h): the card does not
\* wait for more blocks.  sd_mmc.c clears its counter, but the stop token is
\* due by the counters of sd_mmc_spi.c, which know of no abort.
AbortEndsTheWrite ==
    [][call.pc = "abort" /\ call.op = "write" /\ ~bus'.upset
           => bus'.card.mode # "write"]_vars

\* A card is addressed in the unit it understands, blocks for high capacity
\* and bytes for the others, whatever answers were lost on the way to "ready"
\* and even if an SD card has been taken for an MMC (sd_spi_op_cond,
\* mmc_spi_op_cond, sd_mmc_init_read_blocks).
AddressedInItsUnit ==
    slot.state = "READY" /\ bus.card.mode \in {"tran", "read", "write"} =>
        ("HC" \in slot.type <=> bus.card.kind = "sdhc")

\* READ CAPACITY reports what it read before the readiness check; when the
\* check is good the number is the one of the card that was installed, never
\* the 0 of a card that was not ready at first.
GoodCapacityIsTheCards ==
    call.pc = "idle" /\ call.op = "capacity" /\ call.result = "GOOD" =>
        /\ call.capacity = slot.capacity
        /\ bus.card.mode = "tran" => call.capacity = bus.card.kind

\* No data moves to or from a card before the host has been told that the
\* medium changed ("It is necessary for USB Device MSC", sd_mmc_check): a card
\* takes data commands only once it has been installed, and that is answered
\* with "busy".
ToldBeforeData == bus.card.mode \in {"read", "write"} => flow.told

\* The debounce finds SysTick free, so that it never waits a second on the
\* spot: TEST UNIT READY runs in the USB interrupt.
NeverDelaysOnTheSpot == slot.timer # "off" => slot.state = "DEBOUNCE"

\* A plugged card becomes ready, or known to be unusable, or is pulled again.
PluggedCardSettles ==
    CardDetected ~> slot.state \in {"READY", "UNUSABLE"} \/ ~CardDetected
=============================================================================
