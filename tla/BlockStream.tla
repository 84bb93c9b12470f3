----------------------------- MODULE BlockStream ---------------------------
(***************************************************************************)
(* What a memory promises for a transfer of blocks, in either direction:   *)
(* the blocks reach their end in order, each once; the transfer is good    *)
(* only when all of them have; it may fail at any time.                    *)
(***************************************************************************)
EXTENDS Naturals

CONSTANT Requests   \* the numbers of blocks that may be asked for

VARIABLES
    want,       \* blocks of the transfer, 0 when there is none
    last,       \* the last block that has arrived: they count from 1
    status      \* "busy", and "good" or "fail" after a transfer

vars == <<want, last, status>>

Init == want = 0 /\ last = 0 /\ status = "good"

Begin == /\ status # "busy"
         /\ want' \in Requests /\ last' = 0 /\ status' = "busy"

Move == /\ status = "busy" /\ last < want
        /\ last' = last + 1
        /\ UNCHANGED <<want, status>>

Finish == /\ status = "busy"
          /\ \/ status' = "good" /\ last = want
             \/ status' = "fail"
          /\ want' = 0 /\ last' = 0

Next == Begin \/ Move \/ Finish

Spec == Init /\ [][Next]_vars
=============================================================================
