------------------------------ MODULE MCUdiMsc -----------------------------
(***************************************************************************)
(* Instances of UdiMsc for TLC: the points of the main loop where an       *)
(* interrupt, and a reset of each kind, may find it.                       *)
(***************************************************************************)
EXTENDS UdiMscRefinement

\* Every point but the one between the test of the halt and the registration
\* of the callback in udd_ep_wait_stall_clear.
AllButWaitSet == Pcs \ {"waitSet"}

NoReset == [kind \in Resets |-> {}]

\* The line may be reset, and the device configured or reset again, while the
\* main loop is idle; the line also while a block is on the bus, and when the
\* memory layer has returned.
QuietResets == [kind \in Resets |->
    IF kind = "busReset" THEN {"poll", "ack", "check"} ELSE {"poll"}]

\* One kind of reset at one point.
BulkResetAtPoll  == [NoReset EXCEPT !["bulkReset"] = {"poll"}]
BulkResetAtAck   == [NoReset EXCEPT !["bulkReset"] = {"ack"}]
LineResetInMemory == [NoReset EXCEPT !["busReset"] = {"memory"}]
=============================================================================
