-------------------------------- MODULE SdMmc ------------------------------
(***************************************************************************)
(* sd_mmc.c over SPI, with its one slot: the life of a card from its       *)
(* insertion to "ready", and the counters of the current block transfer.   *)
(*                                                                         *)
(* SPI builds only; SDIO is compiled out, and there is no write-protection *)
(* pin.  The card detect pin is sampled in sd_mmc_select_slot and nowhere  *)
(* else.                                                                   *)
(***************************************************************************)
EXTENDS SdMmcSpi

VARIABLE slot

States == {"NO_CARD", "DEBOUNCE", "INIT", "READY", "UNUSABLE"}

\* SysTick, started for the debounce; "expired": the count flag is set.
Timers == {"off", "running", "expired"}

\* What sd_mmc_select_slot returns.
Selections == {"OK", "ONGOING", "NO_CARD", "UNUSABLE"}

\* The capacity is named by the kind of card it is right for; "garbled" is
\* what the wrong decoder of the CSD makes of it.
Capacities == AllKinds \cup {"none", "garbled"}

\* The commands of the identification, in program counter order; "done" and
\* "failed" are its ends.
Installs == {"CMD0", "CMD8", "ACMD41", "CMD1", "CMD58", "CMD59", "CMD9",
             "ACMD51", "CMD16", "CMD13", "done", "failed"}

\* type, capacity and state are fields of sd_mmc_cards[0]; ticking is
\* sd_mmc_sam_systick_used; v2 is a local of sd_mmc_spi_card_init; total and
\* remaining are sd_mmc_nb_block_to_tranfer and sd_mmc_nb_block_remaining.
Slot == [state : States, timer : Timers, ticking : BOOLEAN,
         install : Installs, v2 : BOOLEAN, type : SUBSET {"SD", "MMC", "HC"},
         capacity : Capacities, total : Nat, remaining : Nat]

SlotInit == slot = [state |-> "NO_CARD", timer |-> "off", ticking |-> FALSE,
                    install |-> "done", v2 |-> FALSE, type |-> {},
                    capacity |-> "none", total |-> 0, remaining |-> 0]

----------------------------------------------------------------------------
(* The debounce time-out.                                                  *)

\* When SysTick is in use already, the code waits a second on the spot and the
\* time-out has passed when it returns.
StartTimeout(s) == IF s.timer = "off"
                   THEN [s EXCEPT !.timer = "running", !.ticking = TRUE]
                   ELSE [s EXCEPT !.ticking = FALSE]

IsTimeout(s) == ~s.ticking \/ s.timer = "expired"

\* Reading the count flag of an expired timer also stops it.
TimeoutSeen(s) == IF s.ticking THEN [s EXCEPT !.timer = "off"] ELSE s

\* Mutant of StopTimeout: SysTick keeps running.
StopTimeoutForgets(s) == s

StopTimeout(s) == IF s.ticking THEN [s EXCEPT !.timer = "off"] ELSE s

TimerExpires == /\ slot.timer = "running"
                /\ slot' = [slot EXCEPT !.timer = "expired"]
                /\ UNCHANGED bus

----------------------------------------------------------------------------
(* sd_mmc_select_slot: what it returns and what it makes of the slot.  The *)
(* chip select is driven only when it returns "OK" or "ONGOING".           *)

DebounceOver == slot.state = "DEBOUNCE" /\ IsTimeout(slot)

Selection ==
    CASE ~CardDetected ->
             [err  |-> "NO_CARD",
              slot |-> [IF slot.state = "DEBOUNCE" THEN StopTimeout(slot)
                                                   ELSE slot
                           EXCEPT !.state = "NO_CARD"]]
      [] CardDetected /\ slot.state = "NO_CARD" ->
             [err  |-> "NO_CARD",
              slot |-> [StartTimeout(slot) EXCEPT !.state = "DEBOUNCE"]]
      [] CardDetected /\ slot.state = "DEBOUNCE" /\ ~DebounceOver ->
             [err |-> "NO_CARD", slot |-> slot]
      [] CardDetected /\ DebounceOver ->
             [err  |-> "ONGOING",
              slot |-> [TimeoutSeen(slot) EXCEPT !.state = "INIT"]]
      [] CardDetected /\ slot.state = "INIT" ->
             [err |-> "ONGOING", slot |-> slot]
      [] CardDetected /\ slot.state = "UNUSABLE" ->
             [err |-> "UNUSABLE", slot |-> slot]
      [] CardDetected /\ slot.state = "READY" ->
             [err |-> "OK", slot |-> slot]

Driven == IF Selection.err \in {"OK", "ONGOING"} THEN SelectDevice ELSE bus

\* sd_mmc_get_type and sd_mmc_get_capacity: a slot that asks for installation
\* is left selected.
SelectAndRelease ==
    /\ slot' = Selection.slot
    /\ bus' = IF Selection.err = "OK" THEN DeselectDevice ELSE Driven

----------------------------------------------------------------------------
(* Installation (sd_mmc_spi_card_init, sd_mmc_spi_install_mmc): one action *)
(* for each command.                                                       *)

InSd == "SD" \in slot.type

Installing == slot.install \notin {"done", "failed"}

\* Mutant of StartInstall: the type of the card before it is not forgotten.
StartInstallKeepsType(s) ==
    [s EXCEPT !.install = "CMD0", !.type = (@ \ {"MMC"}) \cup {"SD"}, !.v2 = FALSE]

StartInstall(s) == [s EXCEPT !.install = "CMD0", !.type = {"SD"}, !.v2 = FALSE]

EndInstall == [slot EXCEPT !.install = "done", !.v2 = FALSE]

\* What does not answer as an SD card is tried as an MMC, from its reset on.
TryMmc == [slot EXCEPT !.type = {"MMC"}, !.install = "CMD0"]

GoTo(cmd) == slot' = [slot EXCEPT !.install = cmd]

\* A command whose failure ends the installation.
Needs(cmd, next) ==
    \E ok \in BOOLEAN : bus' \in SendCmd(cmd, ok) /\ GoTo(IF ok THEN next ELSE "failed")

ResetCard == /\ slot.install = "CMD0"
             /\ Needs("CMD0", IF InSd THEN "CMD8" ELSE "CMD1")

\* CMD8: no answer means version 1, a wrong echo an unusable card.
AskInterface ==
    /\ slot.install = "CMD8"
    /\ \E ok \in BOOLEAN :
          /\ bus' \in SendCmd("CMD8", ok)
          /\ slot' = [slot EXCEPT
                !.v2 = ok,
                !.install = IF ok /\ bus.card.kind = "alien" THEN "failed"
                                                             ELSE "ACMD41"]

\* CMD55 and ACMD41 until the card is no longer busy.
StartSd ==
    /\ slot.install = "ACMD41"
    /\ \E ok \in BOOLEAN :
          /\ bus' \in SendCmd(IF slot.v2 THEN "ACMD41HC" ELSE "ACMD41", ok)
          /\ slot' = IF ok THEN [slot EXCEPT !.install = "CMD58"] ELSE TryMmc

\* CMD1 until the card is no longer busy.
StartMmc == slot.install = "CMD1" /\ Needs("CMD1", "CMD58")

\* CMD58: does the card want block addresses?
ReadOcr ==
    /\ slot.install = "CMD58"
    /\ \E ok \in BOOLEAN :
          /\ bus' \in SendCmd("CMD58", ok)
          /\ slot' =
                IF ok
                THEN [slot EXCEPT
                        !.type = @ \cup IF bus.card.kind = "sdhc" THEN {"HC"}
                                                                  ELSE {},
                        !.install = "CMD59"]
                ELSE IF InSd THEN TryMmc
                ELSE [slot EXCEPT !.install = "failed"]

CrcOff == slot.install = "CMD59" /\ Needs("CMD59", "CMD9")

\* Mutant of ReadCsd: the old layout is taken for granted for SD cards as well.
ReadCsdOldLayout ==
    /\ slot.install = "CMD9"
    /\ \E ok \in BOOLEAN :
          /\ bus' \in SendCmd("CMD9", ok)
          /\ slot' =
                IF ok
                THEN [slot EXCEPT
                        !.capacity = IF bus.card.kind # "sdhc"
                                     THEN bus.card.kind ELSE "garbled",
                        !.install = IF InSd THEN "ACMD51" ELSE "CMD16"]
                ELSE [slot EXCEPT !.install = "failed"]

\* CMD9 and the decoding of the CSD.  sd_decode_csd looks at the version of
\* the structure, mmc_decode_csd takes the old layout for granted.
ReadCsd ==
    /\ slot.install = "CMD9"
    /\ \E ok \in BOOLEAN :
          /\ bus' \in SendCmd("CMD9", ok)
          /\ slot' =
                IF ok
                THEN [slot EXCEPT
                        !.capacity = IF InSd \/ bus.card.kind # "sdhc"
                                     THEN bus.card.kind ELSE "garbled",
                        !.install = IF InSd THEN "ACMD51" ELSE "CMD16"]
                ELSE [slot EXCEPT !.install = "failed"]

\* CMD55, ACMD51 and the SCR.
ReadScr == /\ slot.install = "ACMD51"
           /\ Needs("ACMD51", IF "HC" \in slot.type THEN "CMD13" ELSE "CMD16")

SetBlockLength == slot.install = "CMD16" /\ Needs("CMD16", "CMD13")

CheckStatus == slot.install = "CMD13" /\ Needs("CMD13", "done")

InstallStep ==
    \/ ResetCard \/ AskInterface \/ StartSd \/ StartMmc \/ ReadOcr
    \/ CrcOff \/ ReadCsd \/ ReadScr \/ SetBlockLength \/ CheckStatus

----------------------------------------------------------------------------
(* Block transfers.  A call moves one block, as in sd_mmc_mem.c.           *)

\* The command is accepted: both counters are loaded.  On failure the slot is
\* released and they keep their values.
InitBlocks(cmd, n, ok) ==
    \E b \in AdtcStart(cmd, n, ok) :
       /\ bus' = [b EXCEPT !.sel = ok]
       /\ slot' = IF ok THEN [slot EXCEPT !.total = n, !.remaining = n] ELSE slot

\* sd_mmc_start_read_blocks, sd_mmc_start_write_blocks: a failure gives the
\* transfer up, with the slot selected and the card not stopped.
StartBlock(b, ok) ==
    /\ bus' \in b
    /\ slot' = [slot EXCEPT !.remaining = IF ok THEN @ - 1 ELSE 0]

\* Mutant of WaitEndOfReadBlocks: an abort is taken for the end of a block.
WaitEndOfReadBlocksIgnoresAbort(abort) ==
    /\ slot' = slot
    /\ IF slot.remaining > 0 THEN bus' = bus
       ELSE \E b \in StopReading : bus' = [b EXCEPT !.sel = FALSE]

\* The last block, or an abort: no block remains, and the slot is released.
WaitEndOfReadBlocks(abort) ==
    LET left == IF abort THEN 0 ELSE slot.remaining
    IN  /\ slot' = [slot EXCEPT !.remaining = left]
        /\ IF left > 0 THEN bus' = bus
           ELSE IF slot.total = 1 THEN bus' = DeselectDevice
           ELSE \E b \in StopReading : bus' = [b EXCEPT !.sel = FALSE]

\* When the driver fails nothing else is done: the slot stays selected and the
\* blocks remain.
WaitEndOfWriteBlocks(abort, ok) ==
    LET left == IF abort THEN 0 ELSE slot.remaining
    IN  \E b \in WaitEndOfWrite(ok) :
           /\ slot' = IF ok THEN [slot EXCEPT !.remaining = left] ELSE slot
           /\ bus' = IF ok /\ left = 0 THEN [b EXCEPT !.sel = FALSE] ELSE b
=============================================================================
