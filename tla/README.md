# SoundingSoil: a TLA+ verification of the firmware

The firmware (SAM D21, Atmel ASF) turns an SD card into a USB mass-storage
device. It has no RTOS: one main loop and a few interrupt handlers share static
variables, mostly without masking interrupts. The specifications here model
that code, TLC checks small instances, and TLAPS proves the main results for
every size.

Paths below are relative to `src/SoundingSoil_1/src/`, and file names without a
directory are those of the ASF modules under it (`udi_msc.c`, `udc.c`,
`usb_device_udd.c`, `usb_sam_d_r/usb.c`, `ctrl_access.c`, `sd_mmc_mem.c`,
`sd_mmc.c`, `sd_mmc_spi.c`).

## 1. Inventory

| Component | State it keeps | Operations | Correct when |
|---|---|---|---|
| Main program (`main.c`, `ui.c`) | `main_b_msc_enable`, LED | poll for a request, sleep; callbacks enable, disable, suspend, resume, SOF | a request is taken; suspend and resume alternate |
| Mass-storage class (`udi_msc.c`) | CBW and CSW buffers, sense data, request, ack, abort, reset and invalid flags, block address and count | CBW reception, SCSI decoding, small replies, request to the main loop, block transfer, status, Bulk-Only reset, enable, disable | each command is answered once, in phase, by its own status; stalls are those of the Bulk-Only transport; afterwards the device listens |
| USB device driver (`usb_device_udd.c`) | one job per endpoint (busy bit, one callback slot shared by "end of transfer" and "end of halt"), EP0 stage, sleep mode | run, abort, set and clear halt, wait for end of halt, alloc, free; EP0 stages; bus events | a job ends exactly once; the callback is the one registered for what happened |
| USB peripheral (`usb_sam_d_r/usb.c`) | bank descriptors, EPCFG, STALLRQ | start, abort, set and clear halt, interrupt dispatch | a disabled endpoint accepts nothing; nothing is armed after an abort |
| USB device stack (`udc.c`) | configuration, address, interface settings | SETUP requests, reset, enable and disable of interfaces | interface enabled exactly while configured |
| Storage access (`ctrl_access.c`) | table of LUNs | test, capacity, read and write blocks to USB | forwards to the card, never on a LUN that is not there |
| SD memory (`sd_mmc_mem.c`) | two sector buffers, block counter (16 bits), eject flags | double-buffered read and write between card and USB | blocks in order, each once; a failure stops both sides |
| SD protocol (`sd_mmc.c`) | card state, selected slot, blocks remaining | debounce, initialise, start, wait, stop a block transfer | remaining blocks are 0 whenever the card is selected anew |
| SD over SPI (`sd_mmc_spi.c`) | error code, block position | commands, tokens, busy wait | bounded waits; card left in a known state on failure |
| Sleep manager (`sleepmgr`) | lock counter per mode | lock, unlock, enter the deepest unlocked mode | locks balanced; a wake-up is not lost |

Interaction. The host's packets and SETUP requests reach `usb.c` in the USB
interrupt, which calls `usb_device_udd.c`, which calls the job's callback in
`udi_msc.c` or the stack in `udc.c`. The class driver decodes a command in the
interrupt. Commands that move little are answered there. READ10 and WRITE10 only
set `udi_msc_b_trans_req`; the main loop takes it, goes through `ctrl_access.c`
to `sd_mmc_mem.c`, which for each block calls back `udi_msc_trans_block`. That
starts an endpoint job and spins on `udi_msc_b_ack_trans` until the interrupt
sets it.

What is hard: the two threads share the endpoint jobs, the two wrappers and the
SD stack; one job has one callback slot for two purposes; `udd_ep_run` and
`udd_ep_wait_stall_clear` are test-then-set without protection when the main
loop calls them; resets of three kinds arrive at any point; the callback of an
aborted job may start a new job on the same endpoint.

The SD stack runs in whichever thread asked for it: TEST UNIT READY and READ
CAPACITY install a card inside the USB interrupt, READ10 and WRITE10 run in the
main loop. Bus events, endpoint 0 and the VBUS pin reach the stack and the sleep
manager from interrupts of one priority, and the main loop goes to sleep between
its tests.

`PROJECT.json` lists the components with what is left out of each, and the
hazards with their lines. Section 8 says what is not modelled, and why.

## 2. Modules and plan

| Module | Role | State |
|---|---|---|
| `UddEp` | endpoint jobs as operators on a record | done |
| `UdiMsc` | class driver, main loop, host; properties | done |
| `BulkOnly` | what a Bulk-Only device promises: the abstract specification | done |
| `UdiMscInv` | inductive invariants, without and with resets | done |
| `UdiMscRefinement` | `UdiMsc` as an implementation of `BulkOnly` | done |
| `UdiMscProofs`, `UdiMscOwnerProofs`, `UdiMscRefinementProofs` | theorems | done |
| `MCUdiMsc` and `MC*.cfg` | instances for TLC | done |
| `SdCard`, `SdMmcSpi` | the card in its socket (external), and the driver of the bus over it | done |
| `SdMmc` | life of a card from insertion to ready, counters of a block transfer | done |
| `SdMmcMem` | the memory: calls, and the pipeline of two buffers; properties | done |
| `BlockStream` | what a memory promises for a transfer: the abstract specification | done |
| `SdMmcProofs`, `SdMmcMemProofs`, `SdMmcEndProofs` | lemmas on the two lower layers, theorems of `SdMmcMem` | done |
| `UsbPower` | sleep locks, bus interrupts, LEDs as operators on a record | done |
| `UdcControl` | state machine of endpoint 0 and the requests of `udc.c`, likewise | done |
| `UsbDevice` | both with main loop, bus, cable and host; properties | done |
| `UsbDeviceProofs`, `UsbControlProofs` | theorems of `UsbDevice`: types, sleep locks and LEDs; the control endpoint | done |

`SdMmcSpi` EXTENDS `SdCard`, `SdMmc` EXTENDS `SdMmcSpi`, `SdMmcMem` EXTENDS
`SdMmc`: each layer acts on the one below through the operators named after its
routines. `UsbDevice` EXTENDS `UsbPower` and `UdcControl`.

`UdiMsc`, `SdMmcMem` and `UsbDevice` are three views of one program that meet at
their interfaces, and are not multiplied into one state space. `SdMmcMem` takes
one call at a time, which `UdiMsc` has as `SdNotReentered` (a theorem for a
host that enumerates after a reset no faster than the main loop is back, a finding
for one that does), and a block over USB that either moves or
fails, which is what `udi_msc_trans_block` returns. `UdiMsc` takes a memory that
answers good or not after any block, which is what `BlockStream` allows. `UsbDevice`
takes a request flag that the main loop serves whole, which `UdiMsc` details.

Left of the plan: the device after SET_INTERFACE with a setting that does not exist
(`badIface` is modelled, but no run has it: section 4).

## 3. Models and code

### 3.1 `UddEp` and `UdiMsc`

State:

* `dev` is everything the interrupt handler touches: the jobs (`job`), what is
  armed in the banks (`armed`), STALL bits (`halted`), endpoint configuration
  (`cfg`), the flags of `udi_msc.c` under shortened names (`transReq` is
  `udi_msc_b_trans_req`, and so on), and the two wrappers.
* `main` is the main loop inside `udi_msc_process_trans`: program counter and
  the locals that live across a preemption (they are reset to fixed values once
  they are dead, `Leaves`).
* `host` is the environment: where the host is in the transport, its command and
  what has crossed the bus.

Granularity. The USB interrupt is one handler at one priority and the main loop
cannot run inside it, so one event is one step, built from operators named after
the routines (`CbwReceived`, `CswProcess`, `EpAbort`, ...). The main loop is cut
before every access that an interrupt can disturb: `runHalt`, `runBusy`,
`runSet`, `runArm` are the four accesses of `udd_ep_run`; `waitBusy`, `waitHalt`,
`waitSet` those of `udd_ep_wait_stall_clear`; `abort` lies between the STALL bit
and the abort in `udd_ep_set_halt`.

Data. A length counts blocks. A transfer moves whole, as one packet. SCSI opcodes
fall in four classes (`Ops`), and the answer of the memory layer, or of a check
on a field that is left out, is the Boolean `memOk`. Sense data is not modelled.

Undefined behaviour. `udd_ep_clear_halt` (usb_device_udd.c:590-594) calls any
callback through a pointer without arguments. A callback that expects a status
and a length then reads registers; the build in `Debug/` leaves 1 = "aborted" in
the first, and that outcome is what `NotOk` models. A callback for a halt that
has ended takes no argument and is not concerned.

Events the host may cause beyond a correct transport are inputs named in
`Events`; the points of the main loop where an interrupt, and a reset, may arrive
are `PreemptAt` and `ResetAt`. With these a run can admit a hazard or leave it
out, and says so.

### 3.2 `SdCard`, `SdMmcSpi`, `SdMmc`, `SdMmcMem`

State:

* `bus` is `sd_mmc_spi.c` and what it drives: the card, the level of the chip
  select, `sd_mmc_spi_nb_block` (`nb`) and `sd_mmc_spi_transfert_pos` (`pos`, in
  blocks). `upset` is a history variable: the card has been pulled or has not done
  what it could since the call began.
* `slot` is `sd_mmc_cards[0]` with the counters of `sd_mmc.c` (`total`,
  `remaining`), the SysTick time-out (`timer`, and `ticking` for
  `sd_mmc_sam_systick_used`) and how far an installation has come.
* `call`, `buf`, `flow` are `sd_mmc_mem.c`: the routine in progress with `nb_step`
  and `b_first_step`, the two sector buffers, and what has become of the blocks.

Granularity. A call is cut at each command or block on the SPI bus, at each block
over USB and at each sample of the card-detect pin; in between the card may be
plugged or pulled and the timer may expire. An operation of `sd_mmc_spi.c` is the
set of what it may make of `bus` for its result: with a card that is addressed
and can obey, it succeeds or is lost at any point (an answer is lost though the
card obeyed, a token reports an error, busy lasts too long); otherwise it fails.
CMD55 with its ACMD, and the bounded polls of CMD13, ACMD41 and CMD1, are one
operation with one outcome.

Data. A block is its number within the transfer. A capacity is the kind of card
it is right for, or `garbled` when the wrong CSD decoder reads it. The error codes
of `sd_mmc_spi.c`, which nothing reads, the fields of CSD and SCR, clock speeds and
the length of waits are left out.

`CounterSize` is 2^16 in the code. `BlockStream` is related to `SdMmcMem` by the
three fields of `flow` of the same names, of which `last` is written by
`StoreToCard` and `UsbMoves`.

### 3.3 `UsbPower`, `UdcControl`, `UsbDevice`

State:

* `power`: `udd_state` (`usb`), the lock counters of the sleep manager, the flags and
  enables of the controller's device interrupts, DETACH, and the LEDs.
* `ctl`: `udd_ep_control_state` and what else the control endpoint keeps, the two
  banks and STALL bits of endpoint 0, the endpoint flags (with one of a bulk
  endpoint, which can set the request flag), DADD, the configuration,
  `main_b_msc_enable` and `udi_msc_b_trans_req`.
* `cpu`: the main loop of `main.c` on its way into `WFI`. `eic`: the edge flag of
  the VBUS pin. `bus`, `host`: the environment.

Granularity. An interrupt serves what `_usb_device_interrupt_handler` serves in
one call: one endpoint flag, or all the device flags found set; it is one step.
The VBUS pin has the same priority, and the order of the two is left open. The
main loop is cut between the test, the processing, the choice of a mode, the
opening of interrupts and `WFI`.

What is assumed of the controller: a SETUP packet is always accepted, clears the
STALL requests and leaves bank 0 full; until it is served both directions answer
NAK; a STALL request wins over a bank that is ready; a token answered NAK raises
the fail flag; a bus reset clears the address, the endpoints' flags, interrupt
enables and STALL requests, and not the banks of endpoint 0; a resume sets
WAKEUP, and so does a reset of a suspended bus; LPM is acknowledged by the
controller. The driver's own use of the registers is what the operators model.

## 4. Runs

Eight runs of the class driver use `MCUdiMsc`. `MaxLen` bounds a transfer in
blocks, `MaxResets` the resets of one behaviour. Tags alternate between 0 and 1, since only the current and the
last command have to be told apart.

| Run | Shows | Bounds |
|---|---|---|
| `normal` | every well-formed command (all combinations of operation, direction, announced and needed length, memory answer), interrupts everywhere but at `waitSet`: type, owner invariant, status right and in phase, no overlap, device listens, status stalled at most once, every command ends, and `BulkOnly!Spec` is implemented | `MaxLen = 3`, no reset |
| `recovery` | bad wrappers; Bulk-Only reset, bus reset and SET_CONFIGURATION while the main loop is idle; bus reset while a block is on the bus or when the memory layer has returned: the owner invariant with resets, both pipes stay stalled until the reset, no status for an aborted command, the device listens again, the card is not entered twice, and `BulkOnly!ResetSpec` is implemented | `MaxLen = 2`, two resets |
| `stalled_reset`, `bulk_reset_in_transfer`, `line_reset_in_memory`, `bad_lun`, `wait_race`, `quick_host` | one disagreement each between a comment or assertion and the code (section 7) | `MaxLen = 1` |

The SD stack and the USB device are instantiated by their cfg files alone.

| Run | Shows | Bounds |
|---|---|---|
| `sd_card` | any sequence of calls on any card, plugged and pulled and failing at any point: types, the two layers' counters agree, right unit, right capacity, told before data, no delay on the spot, a stream of blocks, transfers end settled, a plugged card settles | all five `Kinds`; `CounterSize = 5`, `Requests` 1 to 3 |
| `usb_device` | any cable, any suspend, LPM, reset and resume, and six requests in any order, cut short or given up in any stage: answers, agreement, locks, LEDs, late address, every transfer ends, driver follows the bus, a request is served | no `Early` |
| `sd_write_abort`, `sleep_race` | one disagreement each (section 7) | one kind of card, one length; one request |

Why the bounds are enough: with three blocks there is a first, a middle and a
last block, and announced, needed and moved lengths can be in every order, with
zero among them. The next command starts from a state that differs only in the
tag and what the last one left in the wrappers and jobs; behaviours are not
bounded in the number of commands. Two resets let one of them find the
device in the recovery from the other. The theorems lift the bound on lengths altogether.

In `sd_card`, `CounterSize = 5` makes 3 blocks the longest transfer that does not
wrap the loop's counter, as 65534 is in the code: the last legal value is in the
run. Three blocks fill both buffers and use one again. In `usb_device` nothing is
bounded but the kinds of requests: a second address, or a second descriptor, would
be treated like the first. `mscReset` and `badIface` are modelled and not in the
run, the first because it adds nothing to the control endpoint there, the second
because no setting the descriptors name leads to it (it would leave the device
configured with a dead interface). `UsbDeviceProofs` covers both, `UsbControlProofs`
the first.

`Early` names what the outside does faster than the device serves it, and the run
has none of it. What each does was checked apart: with "reset" (a request that
overtakes the service of a bus reset) all the properties hold, on a state space
half as large again; with "setup" (a SETUP that overtakes a flag of the last
request, which the handler then serves out of order, usb.c:1761) `AnswersTheRequest`
fails, a good request being stalled; with "address" (the same, and the request is
SET_ADDRESS) `AddressAfterHandshake` fails; with "bus" (two moves of the bus within one
handler) `HostAndDeviceAgree` and `DarkWhenSuspended` fail. These need a host that is
quicker than the handler, or a handler that is held up by a card installation.
They are listed as hazards, not as findings, since no comment of the code denies them.

What the two passing runs of `UdiMsc` leave out, because the code does not hold it: the
events of section 7, and a reply of length 0 to a host that wants no data
(`zeroReply`), to which the driver sends a zero-length packet in the status
phase. A bus reset or re-configuration at a point other than those of
`QuietResets` reaches the windows of section 7.

Deadlock is checked except in `line_reset_in_memory`: there the endpoint stays
busy for ever, the host waits, and the system really stops.

Fairness (`FairSpec`). Weak fairness of the main loop: the loop never blocks,
every wait in the memory layer is bounded by a time-out counter, and a sleep ends
with the next interrupt (start of frame at the latest, each millisecond while
the bus is active). Weak fairness of `HostProceeds`: a host finishes the transport
it began, clears stalls and goes through recovery, but need not send another
command nor reset anything.

`SdMmcMem!FairSpec`: weak fairness of the stack, which waits for nothing outside
(every poll has a bound), and of SysTick; strong fairness of TEST UNIT READY, with which
a host polls a removable medium whatever else it asks. `UsbDevice!FairSpec`: weak
fairness of the main loop; strong fairness of each interrupt, since the main loop
closes interrupts again and again, and opens them as often; weak fairness of the start of a frame,
of the host's repetition of a token that was answered NAK, and of its time-out when
it speaks to an address nobody has.

## 5. Properties

* `StatusAnswersCommand`: the status on the pipe has the tag of the host's command
  and the residue of what really crossed the bus. The wrapper is written by both
  threads.
* `StatusInItsPhase`, `DataInItsPhase`: neither is ever taken for the other.
* `OneCommandAtATime`: the CBW buffer is armed only when no part of the device
  is at work. Everything that is unlocked in `udi_msc.c` rests on this.
* `ListensWhenIdle`, `StatusStallsOnce`: a host never has to guess or to reset.
* `InvalidStaysStalled`, `ResetEndsAllTasks`, `AbortedSendsNoStatus`: the comments
  of the recovery code.
* `StatusWaitsForStall`, `SdNotReentered`: what `udi_msc_csw_send` assumes of the
  halt, and what `sd_mmc_select_slot` assumes of its callers.
* `EveryCommandEnds`: liveness, including recovery.
* `ImplementsBulkOnly`: refinement of `BulkOnly` under the mapping of
  `UdiMscRefinement`: the status is offered once it is armed, everything below
  disappears.
* `OneOwner`, `Owned`: the inductive invariants of section 6.
* `ImplementsBulkOnlyWithResets`: the same refinement, where a bad wrapper loses the
  command (`Spoil`), a reset takes it away with the status offered for it
  (`Reset`), and the cleared halts end a recovery (`Recover`). A command that is
  lost stays so: nothing is offered and nothing moves until the next one.

Of the SD stack:

* `ImplementsBlockStream`: the pipeline, whose two buffers are chosen by the parity of a
  counter that each side tests differently, delivers the blocks in order, each once, and
  says "good" only when all have arrived.
* `LayersAgree`: `sd_mmc.c` counts blocks down and `sd_mmc_spi.c` counts them up; the
  one decides when a slot is released and the other when a stop token is due.
* `EndsSettled`: the card is left ready for the next command by a read however it
  ends, and by a write that is good. (A write that is aborted is a finding.)
* `AddressedInItsUnit`, `GoodCapacityIsTheCards`, `ToldBeforeData`: what the host and the
  stack believe of the card is true of the card that was installed, whatever
  answers were lost on the way and whatever was plugged before it.
* `NeverDelaysOnTheSpot`: the branch of the time-out that would spin for a second in the USB interrupt
  is dead. `PluggedCardSettles`: liveness of debounce and installation.

Of the USB device:

* `AnswersTheRequest`, `HostAndDeviceAgree`, `AddressAfterHandshake`: the state machine of
  endpoint 0, left in any stage by an abandoned request, a reset or a lost cable,
  answers the next request as if nothing had been, and both sides hold the same
  address and configuration. A host that abandons a change of state is `unsure`, and is
  expected to reset the bus.
* `LocksBalanced`: every order of bus events keeps one lock. `NoDeeperThanLocked` is the
  comment of the sleep manager.
* `DarkWhenSuspended`, `DriverFollowsBus`: suspend and wake-up mask each other; neither is
  missed for ever, and no frame served late lights the LEDs again.
* `EveryTransferEnds`, `RequestIsServed`: liveness of endpoint 0, and of the main loop
  that may go to sleep with a request just set.

## 6. Proofs

`UdiMscProofs` proves `TypeCorrect` with no assumption but the types of the
constants: any events, any resets, at any point, any length. It needs two facts
beyond types: a block is started only while some are left, and only the status
waits for a halt (`TypeInv`).

`UdiMscProofs` also holds the lemmas on the routines of the interrupt handler, bottom-up
(`EpRunEffect` ... `CommandEffect` for a command, `InvalidEffect` ... `RestallEffect` for a bad
wrapper, `AbortEffect` ... `SetConfigurationEffect` for the resets).

`UdiMscOwnerProofs` proves two invariants, by one lemma per step (`SendCbwOwner` ...
`CheckAbortedOwner`). The properties are not inductive: that the CBW buffer is not
armed during a transfer follows only from knowing who has the command.

`OneOwner` is a disjunction of eight owners: the host before and after enumeration,
a reply on the bus, a status on the bus (or waiting for the end of a halt), the
request flag, the main loop in a block, the main loop before and after it has
stalled a pipe. Each says what endpoints, wrapper, flags and host look like
meanwhile. In particular a block that has crossed the bus and is not yet counted
(`Acked`) accounts for the difference of one between the device's residue and the
host's. It holds under `Undisturbed`: no unusual event, no reset, and no interrupt
between the test and the registration in `udd_ep_wait_stall_clear` (the code fails
without the last, see `wait_race`).

`Owned` adds four owners, and holds under `QuietlyReset`: bad wrappers, a Bulk-Only reset
or SET_CONFIGURATION while the main loop is idle, a reset of the line also while a block is on
the bus or the memory layer has returned, no pipe being stalled. These are the
inputs of the run `recovery`, for every length and number of resets. No other
point could be added: with one reset, of one kind, at any other point of the main loop
(`waitSet` apart, where no interrupt is allowed), TLC finds a property of that run
violated; section 7 explains three of the cases.
The four owners:

* `InvalidOwns`: both pipes are stalled, and each waits for the end of its halt to halt
  again. It is needed because a clear ends the halt and the job before the callback
  sets both anew.
* `RecoveryOwns`: the Bulk-Only reset was done and the host clears the halts. The device
  listens already if nothing was stalled, and waits for the halt of OUT if it was.
* `LooseOwns`: `udd_ep_clear_halt` on a reception that runs drops its busy bit and calls its
  callback, which ignores the abort; the buffer stays armed. The device does listen,
  though the driver's job says it does not; the next command goes through because the
  end of a transfer looks at the callback alone.
* `AbortedOwns`: a reset of the line found a block on the bus or the memory layer back,
  and the main loop has not noticed: it must find the abort and then the reset flag.

From `OwnedAlways` follow `StatusIsOfTheCommand`, `PhasesAreKept`, `CommandsDoNotOverlap`,
`HostIsServed`, `OnlyAResetEndsTheStall`, `ResetLeavesNoTask`, `NoStatusAfterAReset` and
`CardIsNotReentered`; from `OneOwnerAlways` `StatusComesAtTheRetry`, which bad wrappers
break on purpose.

`UdiMscRefinementProofs` proves `DeviceKeepsItsPromise` (under `Undisturbed`, of
`BulkOnly!Spec`) and `DeviceKeepsItsPromiseAfterResets` (under `QuietlyReset`, of
`BulkOnly!ResetSpec`): every step is a step of `BulkOnly` or a stutter. It needs of the
invariant that a block in flight is still owed (`host.moved + main.left =
host.cmd.need`), and that only `StatusOwns` has a status armed on IN, so that whatever
takes the command away leaves none.

`SdMmcProofs` holds lemmas on `SdMmcSpi` and `SdMmc`: types, the effect of each
operation of the bus on the card, and the invariants of the timer (`TimerOk`) and of
an installation (`InstallOk`: what has been read so far is true of the card).

`SdMmcMemProofs` assumes `GoodRequests`: `Requests` within 1 .. `CounterSize` - 2. It is
needed: 65535 blocks make the counter wrap to 0, and a transfer of 0 blocks leaves
the slot selected. Nothing is assumed of cards, failures or interleavings. The
invariant `Inv` adds to the types: what the stack knows of the medium (`MediumInv`),
the counters of the layers (`LayersInv`), and where every block is at each point of
the loop (`FlowInv`, with `ReadInv` and `WriteInv`: the step counter determines the last
block delivered, the number in each buffer and the blocks remaining). `LayersAgree` is
not inductive because the program counter says nothing of the step; the stream is not
because the buffers must be known to hold consecutive blocks. From it follow the
six safety properties of `sd_card` and `PipelineIsAStream`, for every length, all kinds
of cards and every counter size.

`SdMmcEndProofs` adds `CleanInv`: as long as nothing upset the card, its mode is the one the counters
imply. `TransfersEndSettled` follows at each step that returns.

`UsbDeviceProofs` proves `UsbTypeCorrect` and `LocksAlwaysBalanced` for any `Early` and any
`Requests`: `Balanced` gives the lock counters from the state of the bus alone.
`AlwaysDarkWhenSuspended` assumes only that "bus" is not in `Early`. Its invariant `QuietInv`
says, for each state of the bus, which of the interrupts is pending or at least
enabled and not stale (`AwakeInv`, `DarkInv`, `LpmInv`): without it a suspend could find
its own interrupt masked.

`UsbControlProofs` proves the three safety properties of the control endpoint
(`RequestsAreAnswered`, `HostAndDeviceAlwaysAgree`, `AddressWaitsForHandshake`) for every
set of requests without `badIface`, and for a host that may overtake the service of a
bus reset, which the run does not (`Orderly`: `Early` is at most {"reset"}; section 4
says how each other member of `Early` breaks them). None of the three is inductive: what the host
gets depends on a bank, a state and a callback that an earlier interrupt set. The
invariant has three parts. `Together` splits on how much the device has served: a
bus reset not served (`Pending`: only the controller has forgotten the address), a SETUP
packet not served (`Waiting`: no flag, stall or answer is left from the request before,
and `Harmless`: a callback left from it can no longer move the address), or nothing
outstanding (`Phase`: for each stage of the host, the state, bank and stall of the
device). `ResetInv` says that the interrupt of a bus reset is enabled whenever
the device is attached, so that a reset is served before the cable moves.
The third part, `Inv`, is the one of `UsbDeviceProofs`. Nothing is claimed while the
host is `unsure`, that is after it gave up a change of state half-way.

Only model-checked: liveness (`EveryCommandEnds`, `PluggedCardSettles`,
`EveryTransferEnds`, `DriverFollowsBus`, `RequestIsServed`), which is out of reach of the
prover. Every safety property of a passing run is a theorem. What the findings of
section 7 say fails is not proved of a smaller system; the hypotheses name the events and
the points that are left out.

## 7. Where comments and code disagree

Each is a run that TLC ends with a counterexample.

* `stalled_reset`: the Bulk-Only reset says it aborts every "transfer or clear
  stall wait"; a status that waits for the end of a halt queues itself again when
  it is aborted.
* `bulk_reset_in_transfer`: the Bulk-Only reset never sets
  `udi_msc_b_reset_trans`, so the main loop answers the aborted command.
* `line_reset_in_memory`: `udd_ep_run` takes the job before the bank refuses it;
  an endpoint freed by a bus reset between two blocks stays busy for ever.
* `bad_lun`: a command for a missing LUN is answered with the residue of the one
  before.
* `wait_race`: CLEAR_FEATURE between the test of the halt and the registration of
  the callback: the status waits for ever.
* `quick_host`: after a bus reset in the middle of a write a fast host has its
  first command select the card while the main loop is still using it, against
  the assertion in `sd_mmc_select_slot`.
* `sd_write_abort`: the abort of a write of several blocks clears the counter of
  `sd_mmc.c` and releases the slot; the stop token is due by the counters of
  `sd_mmc_spi.c`, which know of no abort. The card waits for blocks and hears nothing else.
* `sleep_race`: the sleep mode is chosen before interrupts open and used after; an
  interrupt in between locks a shallower mode, and the device sleeps in the deeper
  one until the next interrupt.

## 8. Not modelled

Most of the repository is not the program: of about 121000 lines that count as
implementation some 98000 are headers, nearly all of them register definitions of
the chip and CMSIS (`arm_math.h` alone 7500), and FatFs is linked with its port but
none of it is called. The rest of the uncovered lines, and why:

* Half of `usb.c` is the host driver, and much of `sd_mmc.c` its MCI side: neither is
  reached in this build. SDIO is compiled out. MMC of version 4 (EXT_CSD, the width of the
  bus, high speed) is the only user of `sd_mmc_spi_read_word`, and is left out with it.
* `spi.c`, `extint.c`, `port`, `pinmux`, `system`, `delay`, `clock`: register programming that
  the firmware calls synchronously. What the models need of it is an assumption on
  the hardware (3.2, 3.3). Start-up code, vector table and `Debug/` are not program logic.
* `usb_init`, descriptors, INQUIRY, MODE SENSE and sense data are contents, which no
  property here depends on. Contents of CSD and SCR are reduced to what capacity and
  unit depend on.
* Control transfers with OUT data or several packets: the device accepts no such
  request and has no such answer. Remote wake-up, `udd_disable`, `udc_stop` and eject are
  never called, or have no entry in the LUN's table.
* The length of time: a card is installed in the USB interrupt, for seconds, and
  a host would time out. Time-outs are steps here, without a length.
