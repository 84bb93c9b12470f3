----------------------------- MODULE UdiMscInv -----------------------------
(***************************************************************************)
(* The inductive invariants of UdiMsc: OneOwner for a host that sends       *)
(* well-formed commands and does not reset the device, and Owned for one   *)
(* that may send a bad wrapper, recovers from it, and resets the device    *)
(* while nothing is stalled and the main loop is idle.                     *)
(*                                                                         *)
(* udi_msc.c has no lock.  What makes it safe is that at any time exactly  *)
(* one party owns the command: the host (which has not sent it yet), the   *)
(* request flag, the main loop, or one transfer of the IN endpoint.  The   *)
(* invariant names the owners, and says for each what the endpoints, the   *)
(* wrappers and the host look like meanwhile.                              *)
(***************************************************************************)
EXTENDS UdiMsc

\* No unusual event, no reset, and no interrupt between the test of the halt
\* and the registration of the callback in udd_ep_wait_stall_clear.
Undisturbed == /\ Events = {}
               /\ \A kind \in Resets : ResetAt[kind] = {}
               /\ "waitSet" \notin PreemptAt

\* Bad wrappers and resets: the host resets or configures the device while the
\* main loop is idle, the line also while a block is on the bus or the memory
\* layer has just returned.  As "stalled" is no event, no pipe is stalled then;
\* as "quickHost" is none, the main loop is back before the next enumeration.
QuietlyReset == /\ Events \subseteq {"badCbw"}
                /\ ResetAt["bulkReset"] \subseteq {"poll"}
                /\ ResetAt["setConfig"] \subseteq {"poll"}
                /\ ResetAt["busReset"]  \subseteq {"poll", "ack", "check"}
                /\ "waitSet" \notin PreemptAt

----------------------------------------------------------------------------
(* Type correctness needs two facts about control: a block is started only *)
(* while some are left, so that counting it keeps main.left a length; and  *)
(* only the status waits for the end of a halt.                            *)

BlockStarted ==
    \/ main.pc = "ack"
    \/ main.pc \in {"runHalt", "runBusy", "runSet", "runArm"}
       /\ main.call = "block"

WaitStarted == main.pc \in {"waitBusy", "waitHalt", "waitSet"}

TypeInv == /\ TypeOK
           /\ BlockStarted => main.left > 0
           /\ WaitStarted  => main.call = "csw"

----------------------------------------------------------------------------
(* Endpoints and wrappers.                                                 *)

Resting(s, e)  == ~s.job[e].busy /\ s.armed[e] = "none"
Unstalled(s)   == \A e \in EP : ~s.halted[e]
Running(s, e, callback, payload) ==
    s.job[e] = [busy |-> TRUE, cb |-> callback] /\ s.armed[e] = payload

\* Both endpoints are configured, and no invalid command is pending.
Healthy(s) == s.cfg["IN"] /\ s.cfg["OUT"] /\ ~s.cbwInvalid /\ s.enabled

\* Blocks of data are on no endpoint.
Quiet(s) == Healthy(s) /\ Resting(s, "IN") /\ Resting(s, "OUT")

\* The status is queued: on the bus, or waiting for the end of a halt.
StatusQueued(s) ==
    /\ Resting(s, "OUT")
    /\ IF s.halted["IN"] THEN Running(s, "IN", "csw_send", "none")
                         ELSE Running(s, "IN", "csw_sent", "csw")

\* The command the device works on is the one the host waits for.
Known == dev.cbw = host.cmd /\ host.cmd.lun = 0

\* What is left to move, as the device and as the host see it.
Remaining == host.cmd.len - host.moved

\* The host before anything is stalled.
InData ==
    /\ dev.csw.residue = Remaining /\ Remaining >= 0
    /\ host.st = IF Remaining > 0 THEN "data" ELSE "status"

\* The host once the pipe is stalled if it has to be: in the data phase it
\* has a STALL to find, and nothing else is stalled but the status of a reply
\* that was too short.
InStatus ==
    /\ dev.csw.residue = Remaining
    /\ host.st = "data" => dev.halted[host.cmd.dir]
    /\ host.st \in {"data", "status", "retry"}
    /\ \A e \in EP : dev.halted[e] =>
           /\ e = host.cmd.dir
           /\ host.st = "data" \/ (e = "IN" /\ host.st = "status")

----------------------------------------------------------------------------
(* The owners.                                                             *)

Idling == main.pc = "poll" /\ ~dev.transReq

HostOff ==
    /\ host.st = "off" /\ Idling
    /\ Unstalled(dev) /\ ~dev.cbwInvalid
    /\ \A e \in EP : Resting(dev, e) /\ ~dev.cfg[e]

HostOwns ==
    /\ host.st = "idle" /\ Idling
    /\ Healthy(dev) /\ Unstalled(dev)
    /\ Running(dev, "OUT", "cbw_received", "cbw") /\ Resting(dev, "IN")

\* A small reply is on the bus.
ReplyOwns ==
    /\ Idling /\ Known /\ Healthy(dev) /\ Unstalled(dev)
    /\ Running(dev, "IN", "data_sent", "reply") /\ Resting(dev, "OUT")
    /\ host.st = "data" /\ host.cmd.dir = "IN" /\ host.moved = 0
    /\ dev.csw.residue = host.cmd.len /\ host.cmd.need <= host.cmd.len
    /\ host.cmd.need <= 1

StatusOwns ==
    /\ Idling /\ Known /\ Healthy(dev) /\ InStatus
    /\ StatusQueued(dev)
    /\ dev.csw.tag = host.cmd.tag

\* The data request waits for the main loop, or the main loop has just taken
\* it.  It asks for no more than the host announced.
RequestOwns ==
    /\ \/ main.pc = "poll" /\ dev.transReq
       \/ main.pc = "clear" /\ ~dev.transReq
    /\ Known /\ Quiet(dev) /\ Unstalled(dev) /\ InData
    /\ dev.nbBlock <= dev.csw.residue
    /\ dev.nbBlock = host.cmd.need /\ host.moved = 0
    /\ dev.bRead <=> host.cmd.dir = "IN"

\* The main loop is in the memory layer or in the transfer of a block.  An
\* acknowledged block has crossed the bus and is not yet counted.
Acked == main.pc = "ack" /\ dev.ackTrans

BlockOwns ==
    /\ ~dev.transReq /\ ~dev.resetTrans
    /\ Known /\ Healthy(dev) /\ Unstalled(dev)
    /\ main.pc \in {"memory", "runHalt", "runBusy", "runSet", "runArm",
                    "ack", "check"}
    /\ main.pc \in {"memory", "ack", "check"} \/ main.call = "block"
    /\ main.read <=> host.cmd.dir = "IN"
    /\ main.pc \notin {"memory", "check"} =>
           main.ep = host.cmd.dir /\ main.left > 0
    /\ main.left <= dev.csw.residue
    /\ dev.csw.residue = Remaining + IF Acked THEN 1 ELSE 0
    /\ host.moved + main.left = host.cmd.need + IF Acked THEN 1 ELSE 0
    /\ host.st = IF Remaining > 0 THEN "data" ELSE "status"
    /\ \A e \in EP \ {host.cmd.dir} : Resting(dev, e)
    /\ dev.armed[host.cmd.dir] =
           IF main.pc = "ack" /\ ~dev.ackTrans THEN "block" ELSE "none"
    /\ dev.job[host.cmd.dir].busy <=>
           main.pc \in {"runSet", "runArm"} \/ (main.pc = "ack" /\ ~dev.ackTrans)
    /\ main.pc \in {"runArm", "ack"} => dev.job[host.cmd.dir].cb = "trans_ack"
    /\ main.pc \in {"runHalt", "runBusy", "runSet", "runArm"} => ~dev.ackTrans
    /\ Acked => ~dev.abortTrans

\* The main loop answers: before it has stalled the pipe ...
ResidueOwns ==
    /\ main.pc = "residue" /\ ~dev.transReq
    /\ Known /\ Quiet(dev) /\ Unstalled(dev) /\ InData

\* ... and after.
AnswerOwns ==
    /\ ~dev.transReq
    /\ Known /\ Healthy(dev) /\ InStatus
    /\ Resting(dev, "OUT") /\ dev.armed["IN"] = "none"
    /\ main.pc \in {"abort", "runHalt", "runBusy", "runSet", "runArm",
                    "waitBusy", "waitHalt", "waitSet"}
    /\ dev.job["IN"].busy <=> main.pc \in {"runSet", "runArm"}
    /\ main.pc = "abort" => main.ep = host.cmd.dir
    /\ main.pc # "abort" =>
           main.call = "csw" /\ main.ep = "IN" /\ dev.csw.tag = host.cmd.tag
    /\ main.pc \in {"runBusy", "runSet", "runArm"} => ~dev.halted["IN"]
    /\ main.pc = "runArm" => dev.job["IN"].cb = "csw_sent"
    /\ main.pc = "waitSet" => dev.halted["IN"]

\* Every command has one owner.
OneOwner ==
    \/ HostOff \/ HostOwns \/ ReplyOwns \/ StatusOwns \/ RequestOwns
    \/ BlockOwns \/ ResidueOwns \/ AnswerOwns

----------------------------------------------------------------------------
(* The owners that bad wrappers and resets bring in.                       *)

Idle == Idling /\ Healthy(dev) /\ Resting(dev, "IN")

\* After a bad wrapper both pipes are stalled, and the end of each halt is
\* watched to halt again.
Spoilt(s) ==
    /\ s.cfg["IN"] /\ s.cfg["OUT"] /\ s.enabled /\ s.cbwInvalid
    /\ \A e \in EP : /\ s.halted[e] /\ s.armed[e] = "none"
                     /\ s.job[e].busy
                     /\ s.job[e].cb \in {"cbw_invalid", "csw_invalid"}

InvalidOwns ==
    host.st \in {"data", "status", "retry"} /\ Idling /\ Spoilt(dev)

\* The Bulk-Only reset was done, and the host clears the halts: the device
\* listens already, or waits for the end of the halt of OUT to listen.
RecoveryOwns ==
    /\ host.st \in {"clearIn", "clearOut"} /\ Idle
    /\ host.st = "clearOut" => ~dev.halted["IN"]
    /\ IF dev.halted["OUT"] THEN Running(dev, "OUT", "cbw_wait", "none")
                            ELSE Running(dev, "OUT", "cbw_received", "cbw")

\* udd_ep_clear_halt has ended the job of a reception that goes on: the buffer
\* is armed and its callback known, but the job is not busy.
LooseOwns ==
    /\ host.st = "idle" /\ Idle /\ Unstalled(dev)
    /\ ~dev.job["OUT"].busy /\ dev.job["OUT"].cb = "cbw_received"
    /\ dev.armed["OUT"] = "cbw"

\* The line was reset under a transfer, and the main loop has not noticed yet.
AbortedOwns ==
    /\ host.st = "off" /\ ~dev.transReq /\ dev.resetTrans
    /\ main.pc \in {"ack", "check"}
    /\ main.pc = "ack" => dev.ackTrans /\ dev.abortTrans
    /\ Unstalled(dev) /\ ~dev.cbwInvalid
    /\ \A e \in EP : Resting(dev, e) /\ ~dev.cfg[e]

\* Every command has one owner, and so has the device between a reset and the
\* next command.
Owned ==
    OneOwner \/ InvalidOwns \/ RecoveryOwns \/ LooseOwns \/ AbortedOwns
=============================================================================
