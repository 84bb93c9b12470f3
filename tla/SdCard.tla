------------------------------- MODULE SdCard ------------------------------
(***************************************************************************)
(* The card in the socket, as the commands of sd_mmc.c find it over SPI.   *)
(* It is external to the firmware: what is written here is what the code   *)
(* relies on.  A card that is on has to be reset (CMD0) and told to start  *)
(* (ACMD41 or CMD1) before it takes data commands; in the middle of a      *)
(* transfer it listens to nothing but the end of that transfer.            *)
(***************************************************************************)
EXTENDS Naturals

\* "sd1": version 1, does not know CMD8.  "sd2": version 2, standard capacity,
\* addressed in bytes.  "sdhc": high capacity, addressed in blocks.  "mmc": an
\* MMC before version 4.  "alien": answers CMD8 with another voltage.
AllKinds == {"sd1", "sd2", "sdhc", "mmc", "alien"}
SdKinds  == {"sd1", "sd2", "sdhc"}

CONSTANT Kinds      \* the cards that may be plugged
ASSUME KindsAssumption == Kinds \subseteq AllKinds

\* "read": it sends blocks; "write": it waits for blocks.
Modes == {"absent", "off", "idle", "tran", "read", "write"}

Card == [kind : AllKinds, mode : Modes, multi : BOOLEAN, next : Nat]

NoCard == [kind |-> "sd1", mode |-> "absent", multi |-> FALSE, next |-> 1]

Plugged(kind) == [NoCard EXCEPT !.kind = kind, !.mode = "off"]

\* "ACMD41HC" is ACMD41 with the bit that admits high capacity: a card of high
\* capacity stays busy without it.
Hears == [CMD0 |-> {"off", "idle", "tran"}, CMD8 |-> {"idle"},
          ACMD41 |-> {"idle"}, ACMD41HC |-> {"idle"}, CMD1 |-> {"idle"},
          CMD58 |-> {"tran"}, CMD59 |-> {"tran"}, CMD9 |-> {"tran"},
          ACMD51 |-> {"tran"}, CMD16 |-> {"tran"}, CMD13 |-> {"tran"},
          CMD17 |-> {"tran"}, CMD18 |-> {"tran"}, CMD24 |-> {"tran"},
          CMD25 |-> {"tran"}, CMD12 |-> {"read"}]

Commands == DOMAIN Hears

KnownBy(cmd) ==
    CASE cmd = "CMD8"     -> {"sd2", "sdhc", "alien"}
      [] cmd = "ACMD41"   -> {"sd1", "sd2"}
      [] cmd = "ACMD41HC" -> SdKinds
      [] cmd = "CMD1"     -> {"mmc", "sd1", "sd2"}
      [] cmd = "ACMD51"   -> SdKinds
      [] OTHER            -> AllKinds

Takes(c, cmd) == c.mode \in Hears[cmd] /\ c.kind \in KnownBy(cmd)

LeadsTo(c, cmd) ==
    CASE cmd = "CMD0"                          -> "idle"
      [] cmd \in {"ACMD41", "ACMD41HC", "CMD1"} -> "tran"
      [] cmd \in {"CMD17", "CMD18"}            -> "read"
      [] cmd \in {"CMD24", "CMD25"}            -> "write"
      [] cmd = "CMD12"                         -> "tran"
      [] OTHER                                 -> c.mode

After(c, cmd) == [c EXCEPT !.mode = LeadsTo(c, cmd),
                           !.multi = cmd \in {"CMD18", "CMD25"},
                           !.next = 1]

\* One more block has crossed the bus, in either direction.
BlockDone(c) == [c EXCEPT !.mode = IF c.multi THEN @ ELSE "tran",
                          !.next = @ + 1]

\* The transfer is ended: a single block whatever became of it, more blocks by
\* a stop.
Ended(c) == [c EXCEPT !.mode = "tran"]
=============================================================================
