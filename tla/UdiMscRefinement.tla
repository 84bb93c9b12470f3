-------------------------- MODULE UdiMscRefinement -------------------------
(***************************************************************************)
(* UdiMsc as an implementation of BulkOnly.  The endpoint jobs, the STALLs *)
(* and the main loop disappear: what is left of the device is the status   *)
(* wrapper once it is armed on the IN endpoint, of the host the command it *)
(* is busy with and what has crossed the bus.                              *)
(***************************************************************************)
EXTENDS UdiMscInv

Offered == IF dev.armed["IN"] = "csw"
           THEN {[tag |-> dev.csw.tag, residue |-> dev.csw.residue]}
           ELSE {}

\* A command is lost when a bad wrapper took its place, and while the host
\* clears the halts after a reset.
Lost  == host.st \in {"clearIn", "clearOut"} \/ dev.cbwInvalid
Phase == IF host.st \in {"off", "idle"} THEN host.st
         ELSE IF Lost THEN "lost" ELSE "busy"

BO == INSTANCE BulkOnly WITH
          phase <- Phase, cmd <- host.cmd, moved <- host.moved,
          offered <- Offered

\* The device keeps the promise of the Bulk-Only transport: one status for
\* each command, after its data, that names the command and what did not cross
\* the bus; and never more data than announced and asked for
\* (udi_msc_cbw_validate, udi_msc_csw_process).
ImplementsBulkOnly == BO!Spec

\* So it does for a host that sends bad wrappers and resets the device: no
\* status and no data of a command that udi_msc_cbw_invalid, udi_msc_bulk_reset
\* or udi_msc_disable has put an end to reaches the host.
ImplementsBulkOnlyWithResets == BO!ResetSpec
=============================================================================
