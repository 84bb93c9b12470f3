------------------------------- MODULE UddEp -------------------------------
(***************************************************************************)
(* The endpoint jobs of the USB device driver (usb_device_udd.c) on the    *)
(* two bulk endpoints of the mass-storage interface.                       *)
(*                                                                         *)
(* A job is the driver's udd_ep_job_t: a busy bit and ONE callback slot,   *)
(* the union of call_trans (end of transfer) and call_nohalt (end of       *)
(* halt).  The hardware side of an endpoint is kept apart: its             *)
(* configuration (EPCFG), its STALL request bit and the buffer that is     *)
(* armed in its bank.  Operators take and return a record that has at      *)
(* least the fields                                                        *)
(*     job    : [EP -> [busy, cb]]      what the driver remembers          *)
(*     armed  : [EP -> Payload]         buffer the hardware may move       *)
(*     halted : [EP -> BOOLEAN]         STALLRQ                            *)
(*     cfg    : [EP -> BOOLEAN]         endpoint type # DISABLE            *)
(* Chunking of a transfer in packets is abstracted: a buffer moves whole.  *)
(***************************************************************************)

EP == {"IN", "OUT"}

\* The routines that udi_msc.c puts in a callback slot.
TransCallbacks == {"cbw_received", "data_sent", "csw_sent", "trans_ack"}
NoHaltCallbacks == {"cbw_wait", "csw_send", "cbw_invalid", "csw_invalid"}
Callbacks == TransCallbacks \cup NoHaltCallbacks \cup {"null"}

\* What a bank can hold: a command or status wrapper, a small reply (sent with
\* its closing short packet) or one block of a READ10/WRITE10.
Payload == {"none", "cbw", "csw", "reply", "block"}

NoJob == [busy |-> FALSE, cb |-> "null"]

----------------------------------------------------------------------------

\* udd_ep_run refuses a halted or busy endpoint ...
Free(s, e) == ~s.halted[e] /\ ~s.job[e].busy

\* ... and succeeds when the hardware then accepts the buffer.
EpRunOk(s, e) == Free(s, e) /\ s.cfg[e]

\* udd_ep_run takes the job before it programs the bank, and leaves it taken
\* when the bank of an unconfigured endpoint refuses.
EpRun(s, e, callback, payload) ==
    IF Free(s, e)
    THEN [s EXCEPT !.job[e]   = [busy |-> TRUE, cb |-> callback],
                   !.armed[e] = IF s.cfg[e] THEN payload ELSE @]
    ELSE s

\* udd_ep_wait_stall_clear registers the callback on a free halted endpoint.
\* Its other branch, the immediate call on an endpoint that is not halted, is
\* out of reach right after a refused udd_ep_run unless an interrupt cleared
\* the halt in between: the main loop of UdiMsc has that step.
WaitStallClear(s, e, callback) ==
    IF ~s.job[e].busy /\ s.halted[e]
    THEN [s EXCEPT !.job[e] = [busy |-> TRUE, cb |-> callback]]
    ELSE s

\* The idiom of udi_msc_cbw_wait and udi_msc_csw_send: start the transfer, or
\* be called back when the halt that prevents it is cleared.
RunOrWait(s, e, callback, payload, retry) ==
    IF EpRunOk(s, e)
    THEN EpRun(s, e, callback, payload)
    ELSE WaitStallClear(EpRun(s, e, callback, payload), e, retry)

\* The job ends (transfer complete, abort or end of halt): busy is dropped
\* before the callback runs, and the callback slot keeps its value.
Release(s, e) == [s EXCEPT !.job[e].busy = FALSE]

\* usb_device_endpoint_abort_job, and the end of a transfer: nothing is armed.
Disarm(s, e) == [s EXCEPT !.armed[e] = "none"]

Halt(s, e)   == [s EXCEPT !.halted[e] = TRUE]
Unhalt(s, e) == [s EXCEPT !.halted[e] = FALSE]
=============================================================================
