------------------------------ MODULE SdMmcSpi -----------------------------
(***************************************************************************)
(* sd_mmc_spi.c: commands and blocks on the SPI bus.  bus holds the card,  *)
(* the level of its chip select, and the two counters of the driver:       *)
(* sd_mmc_spi_nb_block and sd_mmc_spi_transfert_pos (in blocks).           *)
(*                                                                         *)
(* Each operation is the set of what it may make of bus, for its result    *)
(* ok.  The card may fail at any time: an answer is lost, a token reports  *)
(* an error, busy lasts too long, or the card is pulled.  All waits of the *)
(* driver are bounded by a count of bytes, so an operation always ends;    *)
(* how long it spins is left out, and so is the error code, which nothing  *)
(* reads.                                                                  *)
(***************************************************************************)
EXTENDS SdCard

VARIABLE bus

\* upset is a history variable: since the last call of the stack began, the
\* card has been pulled or has not done what it could.
Bus == [card : Card, sel : BOOLEAN, nb : Nat, pos : Nat, upset : BOOLEAN]

BusInit == bus = [card |-> NoCard, sel |-> FALSE, nb |-> 0, pos |-> 0,
                  upset |-> FALSE]

CardDetected == bus.card.mode # "absent"

Heard(cmd) == bus.sel /\ Takes(bus.card, cmd)

SelectDevice == [bus EXCEPT !.sel = TRUE]

DeselectDevice == [bus EXCEPT !.sel = FALSE]

\* Mutant of AdtcStart: the position of the last transfer is kept.
AdtcStartKeepsPos(cmd, n, ok) ==
    IF ~Heard(cmd) THEN IF ok THEN {} ELSE {bus}
    ELSE IF ok THEN {[bus EXCEPT !.card = After(@, cmd), !.nb = n]}
    ELSE {[bus EXCEPT !.upset = TRUE]}

\* A command and its answer.  The counters are set only at the end, on
\* success.  When the answer is lost the card may have obeyed all the same.
AdtcStart(cmd, n, ok) ==
    IF Heard(cmd)
    THEN IF ok THEN {[bus EXCEPT !.card = After(@, cmd), !.nb = n, !.pos = 0]}
               ELSE {[bus EXCEPT !.card = c, !.upset = TRUE] :
                         c \in {bus.card, After(bus.card, cmd)}}
    ELSE IF ok THEN {} ELSE {bus}

SendCmd(cmd, ok) == AdtcStart(cmd, 0, ok)

\* What a failed block leaves of the transfer: a single one is over.
Spoiled(c) == IF c.multi THEN c ELSE Ended(c)

Sending == bus.sel /\ bus.card.mode = "read"

\* Wait for the start token, then take one block: an error token or no token
\* at all ends it.
StartReadBlock(ok) ==
    IF Sending
    THEN IF ok THEN {[bus EXCEPT !.card = BlockDone(@), !.pos = @ + 1]}
               ELSE {[bus EXCEPT !.card = Spoiled(@), !.upset = TRUE]}
    ELSE IF ok THEN {} ELSE {bus}

Receiving == bus.sel /\ bus.card.mode = "write"

\* The position counts the block before the card's data response is known.
StartWriteBlock(ok) ==
    LET sent == [bus EXCEPT !.pos = @ + 1]
    IN  IF Receiving
        THEN IF ok THEN {[sent EXCEPT !.card = BlockDone(@)]}
                   ELSE {[sent EXCEPT !.card = Spoiled(@), !.upset = TRUE]}
        ELSE IF ok THEN {} ELSE {sent}

\* sd_mmc_spi_stop_multiwrite_block: the stop token is due.
StopTokenDue == bus.nb # 1 /\ bus.nb <= bus.pos

Stopped == IF Receiving THEN [bus EXCEPT !.card = Ended(@)] ELSE bus

\* Busy after the last block, then the stop token of a multiple write and
\* busy again.  A socket without a card looks like a card that is not busy.
WaitEndOfWrite(ok) ==
    IF ok THEN {IF StopTokenDue THEN Stopped ELSE bus}
          ELSE {[b EXCEPT !.upset = TRUE] :
                   b \in IF StopTokenDue THEN {bus, Stopped} ELSE {bus}}

\* CMD12 and its one retry; the result is ignored.
StopReading ==
    IF Heard("CMD12")
    THEN {[bus EXCEPT !.card = Ended(@), !.nb = 0, !.pos = 0]}
         \cup {[bus EXCEPT !.card = c, !.upset = TRUE] :
                  c \in {bus.card, Ended(bus.card)}}
    ELSE {bus}

----------------------------------------------------------------------------
(* The socket.                                                             *)

Insert == /\ ~CardDetected
          /\ \E kind \in Kinds : bus' = [bus EXCEPT !.card = Plugged(kind)]

Remove == /\ CardDetected
          /\ bus' = [bus EXCEPT !.card = NoCard, !.upset = TRUE]
=============================================================================
