-------------------------- MODULE UdiMscOwnerProofs ------------------------
(***************************************************************************)
(* Every command has one owner: the proof of the safety properties of      *)
(* UdiMsc, for every length of transfer and every number of resets.        *)
(*                                                                         *)
(* One lemma for each step of the host, of the main loop and of a reset    *)
(* says who owns the command after it.  The lemmas on the routines of the   *)
(* interrupt handler are in UdiMscProofs.                                  *)
(***************************************************************************)
EXTENDS UdiMscProofs

----------------------------------------------------------------------------
(* The steps of the host.                                                  *)

\* What every lemma on a step takes for granted: of any owner, and of the
\* owner of a command.
Typed == QuietlyReset /\ TypeInv /\ TypeInv'
Given == Typed /\ OneOwner

LEMMA TypedTypes ==
    ASSUME Typed
    PROVE  /\ dev \in Dev /\ main \in Main /\ host \in Host
           /\ dev' \in Dev /\ main' \in Main /\ host' \in Host
BY DEF Typed, TypeInv, TypeOK

LEMMA GivenTypes ==
    ASSUME Given
    PROVE  /\ dev \in Dev /\ main \in Main /\ host \in Host
           /\ dev' \in Dev /\ main' \in Main /\ host' \in Host
BY TypedTypes DEF Given

LEMMA UndisturbedIsQuiet == Undisturbed => QuietlyReset
BY DEF Undisturbed, QuietlyReset, Resets

\* The host is idle, and the device listens: for the first time, or again after
\* a recovery.
Listening == main.pc = "poll" /\ host.st = "idle" /\ ~dev.transReq
             /\ Healthy(dev) /\ Unstalled(dev) /\ Resting(dev, "IN")
             /\ dev.job["OUT"].cb = "cbw_received"

LEMMA IdleListens ==
    ASSUME Owned, host.st = "idle"
    PROVE  Listening /\ (OneOwner => HostOwns)
<1>1. HostOwns \/ LooseOwns
    BY DEF Owned, OneOwner, HostOff, ReplyOwns, StatusOwns, RequestOwns, BlockOwns,
           ResidueOwns, AnswerOwns, InStatus, InData, InvalidOwns, RecoveryOwns,
           AbortedOwns
<1>2. OneOwner => HostOwns
    BY DEF OneOwner, HostOff, ReplyOwns, StatusOwns, RequestOwns, BlockOwns,
           ResidueOwns, AnswerOwns, InStatus, InData
<1>3. HostOwns => Listening
    BY DEF HostOwns, Listening, Idling, Running
<1>4. LooseOwns => Listening
    BY DEF LooseOwns, Listening, Idle, Idling
<1> QED BY <1>1, <1>2, <1>3, <1>4

\* A bad wrapper stalls both pipes.
LEMMA BadCbwOwner ==
    ASSUME Typed, Listening, UNCHANGED main,
           NEW c \in Command, NEW memOk \in BOOLEAN,
           dev' = TransOk([dev EXCEPT !.cbw = c], "OUT", 0, FALSE, memOk),
           host'.st \in {"data", "status"}
    PROVE  InvalidOwns'
<1>1. Spoilt(dev') /\ dev'.transReq = dev.transReq
    BY TypedTypes, BadCommandEffect, Zenon DEF Listening
<1> QED BY <1>1 DEF Listening, InvalidOwns, Idling

\* What the routines make of a well-formed command names its owner.
LEMMA AnswerHasOwner ==
    ASSUME Typed, main'.pc = "poll",
           NEW c \in Commands, NEW r \in Dev,
           r.cbw = c, r.csw.residue = c.len, ~r.transReq,
           Answered(dev', r) \/ Replying(dev', r) \/ Requested(dev', r),
           host'.st = IF c.len > 0 THEN "data" ELSE "status",
           host'.cmd = c, host'.moved = 0
    PROVE  OneOwner'
<1>1. c \in Command /\ c.lun <= MaxLun
      /\ ~(c.op = "reply" /\ c.dir = "IN" /\ c.len = 0 /\ c.need = 0)
    BY DEF Commands, Typed, QuietlyReset
<1>3. /\ c.len \in Nat /\ c.need \in Nat /\ c.dir \in EP /\ c.lun \in {0, 1}
      /\ c.lun = 0
  <2>1. c.len \in Lens /\ c.need \in Lens /\ c.dir \in EP /\ c.lun \in {0, 1}
      BY <1>1, Zenon DEF Command
  <2> QED BY <1>1, <2>1, MaxLenAssumption DEF Lens, MaxLun
<1>4. dev'.csw.residue \in Int
    BY TypedTypes, DevFields
<1>5. CASE Answered(dev', r)
  <2>1. StatusOwns'
      BY <1>3, <1>5
         DEF Answered, StatusOwns, Idling, Known, InStatus, Remaining
  <2> QED BY <2>1 DEF OneOwner
<1>6. CASE Replying(dev', r)
  <2>1. c.op = "reply" /\ c.dir = "IN" /\ c.need <= c.len /\ c.need <= 1
      BY <1>6 DEF Replying, Commands
  <2>2. c.len > 0
      BY <1>1, <1>3, <2>1
  <2>3. host'.st = "data" /\ host'.cmd = c /\ host'.moved = 0
      BY <2>2
  <2>4. /\ Healthy(dev') /\ Unstalled(dev')
        /\ Running(dev', "IN", "data_sent", "reply") /\ Resting(dev', "OUT")
        /\ dev'.cbw = c /\ ~dev'.transReq /\ dev'.csw.residue = c.len
      BY <1>6 DEF Replying
  <2>5. ReplyOwns'
      BY <1>3, <2>1, <2>3, <2>4 DEF ReplyOwns, Idling, Known
  <2> QED BY <2>5 DEF OneOwner
<1>7. CASE Requested(dev', r)
  <2>1. RequestOwns'
      BY <1>3, <1>7
         DEF Requested, RequestOwns, Known, InData, Remaining
  <2> QED BY <2>1 DEF OneOwner
<1> QED BY <1>5, <1>6, <1>7

LEMMA GoodCbwOwner ==
    ASSUME Typed, Listening, UNCHANGED main,
           NEW c \in Commands, NEW memOk \in BOOLEAN,
           dev' = TransOk([dev EXCEPT !.cbw = c], "OUT", 0, TRUE, memOk),
           host'.st = IF c.len > 0 THEN "data" ELSE "status",
           host'.cmd = c, host'.moved = 0
    PROVE  OneOwner'
<1>1. c \in Command /\ c.lun <= MaxLun
    BY DEF Commands, Typed, QuietlyReset
<1>2. PICK r \in Dev :
          /\ r.cbw = c /\ r.csw.residue = c.len /\ ~r.transReq
          /\ Answered(dev', r) \/ Replying(dev', r) \/ Requested(dev', r)
    BY <1>1, TypedTypes, CommandEffect, Zenon DEF Listening
<1>3. main'.pc = "poll"
    BY DEF Listening
<1> QED BY <1>2, <1>3, AnswerHasOwner

\* A well-formed command has one owner; a bad wrapper never comes from a host
\* that causes no unusual event.
LEMMA SendCbwOwner ==
    ASSUME Typed, Owned, SendCbw
    PROVE  OneOwner' \/ (InvalidOwns' /\ "badCbw" \in Events)
<1>1. Listening
    BY IdleListens DEF SendCbw
<1> PICK c \in Commands, memOk \in BOOLEAN, intact \in BOOLEAN :
        /\ ~intact => "badCbw" \in Events /\ memOk /\ c.op = "plain"
        /\ dev' = TransOk([dev EXCEPT !.cbw = c], "OUT", 0, intact, memOk)
        /\ host' = [host EXCEPT !.st = IF c.len > 0 THEN "data" ELSE "status",
                                !.cmd = c, !.moved = 0]
    BY Zenon DEF SendCbw
<1>2. c \in Command /\ UNCHANGED main
    BY DEF Commands, SendCbw
<1>3. /\ host'.st = IF c.len > 0 THEN "data" ELSE "status"
      /\ host'.cmd = c /\ host'.moved = 0
    BY TypedTypes, Zenon DEF Host
<1>4. CASE intact
  <2>1. dev' = TransOk([dev EXCEPT !.cbw = c], "OUT", 0, TRUE, memOk)
      BY <1>4
  <2> QED BY <1>1, <1>2, <1>3, <2>1, GoodCbwOwner
<1>5. CASE ~intact
  <2>1. dev' = TransOk([dev EXCEPT !.cbw = c], "OUT", 0, FALSE, memOk)
      BY <1>5
  <2>2. host'.st \in {"data", "status"}
      BY <1>3
  <2> QED BY <1>1, <1>2, <1>5, <2>1, <2>2, BadCbwOwner
<1> QED BY <1>4, <1>5

LEMMA BlockAckOwner ==
    ASSUME Given, BlockOwns, NEW e \in EP,
           e = host.cmd.dir, dev.armed[e] = "block",
           Acknowledged(dev', dev, e),
           UNCHANGED main,
           host.st = "data", host'.cmd = host.cmd,
           host'.moved = host.moved + 1,
           host'.st = IF host.moved + 1 >= host.cmd.len THEN "status" ELSE "data"
    PROVE  OneOwner'
<1>1. main.pc = "ack" /\ ~dev.ackTrans /\ dev.job[e].cb = "trans_ack"
    BY DEF BlockOwns
<1>2. host.moved \in Nat /\ host.cmd.len \in Nat
  <2>1. host.moved \in Nat /\ host.cmd.len \in Lens
      BY GivenTypes, Zenon DEF Host, Command
  <2> QED BY <2>1, MaxLenAssumption DEF Lens
<1>3. dev.csw.residue = Remaining /\ Remaining > 0
    BY <1>1, <1>2 DEF BlockOwns, Acked, Remaining
<1>4. dev'.csw.residue = Remaining' + 1
    BY <1>2, <1>3 DEF Acknowledged, Remaining
<1>5. host'.st = IF Remaining' > 0 THEN "data" ELSE "status"
    BY <1>2 DEF Remaining
<1>6. Acked' /\ dev'.ackTrans /\ ~dev'.abortTrans
    BY <1>1 DEF Acked, Acknowledged
<1>7. Known' /\ Healthy(dev') /\ Unstalled(dev') /\ ~dev'.transReq /\ ~dev'.resetTrans
    BY DEF BlockOwns, Known, Healthy, Unstalled, Acknowledged
<1>8. \A f \in EP : Resting(dev', f)
    BY DEF BlockOwns, Resting, Acknowledged, KeptAt, Other, EP
<1>9. dev'.job[e].cb = "trans_ack"
    BY <1>1 DEF Acknowledged
<1>10. main.left <= dev'.csw.residue
    BY DEF BlockOwns, Acknowledged
<1>11. (main.read <=> host.cmd.dir = "IN") /\ main.ep = host.cmd.dir /\ main.left > 0
    BY <1>1 DEF BlockOwns
<1>12. host'.moved + main'.left = host'.cmd.need + 1
  <2>1. main.left \in Lens /\ host.cmd.need \in Lens
      BY GivenTypes, Zenon DEF Main, Host, Command
  <2>2. main.left \in Int /\ host.cmd.need \in Int
      BY <2>1, MaxLenAssumption DEF Lens
  <2> QED BY <1>1, <1>2, <2>2 DEF BlockOwns, Acked
<1>13. BlockOwns'
    BY <1>1, <1>4, <1>5, <1>6, <1>7, <1>8, <1>9, <1>10, <1>11, <1>12
       DEF BlockOwns, Resting
<1> QED BY <1>13 DEF OneOwner

LEMMA ReadDataOwner ==
    ASSUME Given, ReadData
    PROVE  OneOwner'
<1> USE DEF Given
<1>1. dev' = TransOk(dev, "IN", InSize, TRUE, TRUE)
    BY Zenon DEF ReadData
<1>2. /\ host'.moved = host.moved + InSize /\ host'.cmd = host.cmd
      /\ host'.st = IF \/ dev.armed["IN"] = "reply"
                       \/ host.moved + 1 >= host.cmd.len
                    THEN "status" ELSE "data"
    BY GivenTypes, Zenon DEF ReadData, Host
<1>3. host.st = "data" /\ host.cmd.dir = "IN" /\ UNCHANGED main
      /\ dev.armed["IN"] \in {"reply", "block"}
    BY DEF ReadData
<1>4. ReplyOwns \/ BlockOwns
    BY <1>3 DEF OneOwner, HostOff, HostOwns, StatusOwns, RequestOwns,
               ResidueOwns, AnswerOwns, StatusQueued, Quiet, Resting, Running, EP
<1>5. CASE ReplyOwns
  <2> DEFINE v == Release(Disarm(dev, "IN"), "IN")
  <2>1. dev.armed["IN"] = "reply" /\ dev.job["IN"].cb = "data_sent"
      BY <1>5 DEF ReplyOwns, Running
  <2>2. /\ v \in Dev /\ Resting(v, "IN") /\ v.job["IN"].cb = dev.job["IN"].cb
        /\ KeptAt(v, dev, Other("IN")) /\ Kept(v, dev)
      BY GivenTypes, EndEffect, Zenon DEF EP
  <2>3. InSize = dev.cbw.need /\ dev.cbw.need \in Nat /\ InSize \in Int
    <3>1. dev.cbw.need \in Nat
        BY GivenTypes, DevFields, MaxLenAssumption DEF Lens
    <3> QED BY <2>1, <3>1 DEF InSize
  <2>4. dev' = DataSent(v, InSize)
      BY <1>1, <2>1, <2>2, Zenon DEF TransOk
  <2> HIDE DEF v
  <2>5. Quiet(v) /\ Unstalled(v) /\ v.cbw = dev.cbw /\ v.csw = dev.csw /\ ~v.transReq
      BY <1>5, <2>2 DEF ReplyOwns, Idling, Quiet, Healthy, Unstalled, Resting,
                        Kept, KeptAt, Other
  <2>6. PICK r \in Dev : /\ r.cbw = v.cbw /\ r.transReq = v.transReq
                         /\ r.csw.residue = v.csw.residue - InSize
                         /\ Answered(dev', r)
      BY <2>2, <2>3, <2>4, <2>5, DataSentEffect, Zenon
  <2>7. host.cmd.len \in Nat
    <3>1. host.cmd.len \in Lens
        BY GivenTypes, Zenon DEF Host, Command
    <3> QED BY <3>1, MaxLenAssumption DEF Lens
  <2>8. dev'.csw.residue = Remaining'
      BY <1>2, <1>5, <2>3, <2>5, <2>6, <2>7 DEF Answered, ReplyOwns, Remaining
  <2>9. Healthy(dev') /\ StatusQueued(dev') /\ dev'.csw.tag = host.cmd.tag
        /\ dev'.cbw = host.cmd /\ ~dev'.transReq
        /\ \A e \in EP : dev'.halted[e] => e = "IN"
      BY <1>3, <1>5, <2>5, <2>6 DEF Answered, ReplyOwns, Known
  <2>10. host'.st = "status"
      BY <1>2, <2>1
  <2>11. StatusOwns'
      BY <1>2, <1>3, <1>5, <2>8, <2>9, <2>10
         DEF StatusOwns, ReplyOwns, Idling, Known, InStatus
  <2> QED BY <2>11 DEF OneOwner
<1>6. CASE BlockOwns
  <2>1. dev.armed["IN"] = "block"
      BY <1>3, <1>6 DEF BlockOwns
  <2>2. InSize = 1 /\ InSize \in Int /\ "IN" \in EP
      BY <2>1 DEF InSize, EP
  <2>3. /\ host'.moved = host.moved + 1
        /\ host'.st = IF host.moved + 1 >= host.cmd.len THEN "status" ELSE "data"
      BY <1>2, <2>1, <2>2
  <2>4. dev.job["IN"].cb = "trans_ack"
      BY <1>3, <1>6, <2>1 DEF BlockOwns
  <2>5. Acknowledged(dev', dev, "IN")
      BY <1>1, <2>2, <2>4, GivenTypes, BlockAckEffect, Zenon
  <2> QED BY <1>2, <1>3, <1>6, <2>1, <2>2, <2>3, <2>5, BlockAckOwner, Zenon
<1> QED BY <1>4, <1>5, <1>6

LEMMA WriteDataOwner ==
    ASSUME Given, WriteData
    PROVE  OneOwner'
<1> USE DEF Given
<1>1. dev' = TransOk(dev, "OUT", 0, TRUE, TRUE)
    BY Zenon DEF WriteData
<1>2. /\ host'.moved = host.moved + 1 /\ host'.cmd = host.cmd
      /\ host'.st = IF host.moved + 1 >= host.cmd.len THEN "status" ELSE "data"
    BY GivenTypes, Zenon DEF WriteData, Host
<1>3. host.st = "data" /\ host.cmd.dir = "OUT" /\ UNCHANGED main
      /\ dev.armed["OUT"] = "block"
    BY DEF WriteData
<1>4. BlockOwns
    BY <1>3 DEF OneOwner, HostOff, HostOwns, ReplyOwns, StatusOwns, RequestOwns,
               ResidueOwns, AnswerOwns, StatusQueued, Quiet, Resting, Running, EP
<1>5. "OUT" \in EP /\ 0 \in Int
    BY DEF EP
<1>6. dev.job["OUT"].cb = "trans_ack"
    BY <1>3, <1>4 DEF BlockOwns
<1>7. Acknowledged(dev', dev, "OUT")
    BY <1>1, <1>5, <1>6, GivenTypes, BlockAckEffect, Zenon
<1> QED BY <1>2, <1>3, <1>4, <1>5, <1>7, BlockAckOwner, Zenon

LEMMA ReadCswOwner ==
    ASSUME Given, ReadCsw
    PROVE  OneOwner'
<1> DEFINE v == Release(Disarm(dev, "IN"), "IN")
<1>1. /\ dev' = TransOk(dev, "IN", 0, TRUE, TRUE)
      /\ host' = [host EXCEPT !.st = "idle"]
    BY Zenon DEF ReadCsw
<1>2. ReadingStatus /\ dev.armed["IN"] = "csw" /\ UNCHANGED main
    BY DEF ReadCsw
<1>3. StatusOwns
    BY <1>2 DEF Given, OneOwner, HostOff, HostOwns, ReplyOwns, RequestOwns,
               BlockOwns, ResidueOwns, AnswerOwns, Quiet, Resting, Running, EP
<1>4. ~dev.halted["IN"] /\ dev.job["IN"].cb = "csw_sent"
    BY <1>2, <1>3 DEF StatusOwns, StatusQueued, Running
<1>5. ~dev.halted["OUT"]
    BY <1>2, <1>3 DEF StatusOwns, InStatus, ReadingStatus, EP
<1>6. /\ v \in Dev /\ Resting(v, "IN") /\ v.job["IN"].cb = dev.job["IN"].cb
      /\ KeptAt(v, dev, Other("IN")) /\ Kept(v, dev)
    BY GivenTypes, EndEffect, Zenon DEF EP
<1>7. dev' = CbwWait(v)
    BY <1>1, <1>4, <1>6, Zenon DEF TransOk, NotOk
<1> HIDE DEF v
<1>8. v.cfg["OUT"] /\ Resting(v, "OUT") /\ ~v.halted["OUT"]
    BY <1>3, <1>5, <1>6 DEF StatusOwns, StatusQueued, Healthy, Resting, Kept,
                            KeptAt, Other
<1>9. /\ Running(CbwWait(v), "OUT", "cbw_received", "cbw")
      /\ KeptAt(CbwWait(v), v, "IN")
      /\ Kept(CbwWait(v), v)
    BY <1>6, <1>8, CbwWaitEffect
<1>10. /\ Running(dev', "OUT", "cbw_received", "cbw")
       /\ KeptAt(dev', v, "IN")
       /\ Kept(dev', v)
    BY <1>7, <1>9, Zenon
<1>11. Healthy(dev') /\ Unstalled(dev') /\ Resting(dev', "IN") /\ ~dev'.transReq
    BY <1>3, <1>4, <1>5, <1>6, <1>10
       DEF StatusOwns, Idling, Healthy, Unstalled, Resting, Kept, KeptAt, EP
<1>12. host'.st = "idle"
    BY <1>1, GivenTypes, Zenon DEF Host
<1>13. HostOwns'
    BY <1>2, <1>3, <1>10, <1>11, <1>12 DEF HostOwns, StatusOwns, Idling
<1> QED BY <1>13 DEF OneOwner

LEMMA ClearStallOwner ==
    ASSUME Given, NEW e \in EP, ClearStall(e)
    PROVE  OneOwner'
<1>1. dev' = EpClearHalt(dev, e) /\ dev.halted[e] /\ UNCHANGED main /\ Interrupts
      /\ (host.st = "data" \/ (host.st = "status" /\ e = "IN"))
    BY Zenon DEF ClearStall
<1>2. /\ host'.st = IF host.st = "data" THEN "status" ELSE "retry"
      /\ host'.cmd = host.cmd /\ host'.moved = host.moved
    BY GivenTypes, Zenon DEF ClearStall, Host
<1>3. StatusOwns \/ AnswerOwns
    BY <1>1 DEF Given, OneOwner, HostOff, HostOwns, ReplyOwns, RequestOwns,
               BlockOwns, ResidueOwns, Unstalled
<1>4. InStatus
    BY <1>3 DEF StatusOwns, AnswerOwns
<1>5. e = host.cmd.dir /\ ~dev.halted[Other(e)] /\ Other(e) \in EP /\ EP = {e, Other(e)}
    BY <1>1, <1>4 DEF InStatus, EP, Other
<1>6. Remaining' = Remaining
    BY <1>2 DEF Remaining
<1>7. CASE StatusOwns /\ e = "IN"
  <2>1. Running(dev, "IN", "csw_send", "none") /\ dev.cfg["IN"] /\ ~dev.halted["OUT"]
      BY <1>1, <1>5, <1>7 DEF StatusOwns, StatusQueued, Healthy, Other
  <2>2. /\ Running(dev', "IN", "csw_sent", "csw") /\ KeptAt(dev', dev, "OUT")
        /\ Unstalled(dev')
        /\ dev'.cfg = dev.cfg /\ dev'.enabled = dev.enabled
        /\ dev'.cbwInvalid = dev.cbwInvalid /\ dev'.transReq = dev.transReq
        /\ dev'.cbw = dev.cbw /\ dev'.csw = dev.csw
      BY <1>1, <1>7, <2>1, GivenTypes, UnhaltStatusEffect, Zenon
  <2>3. StatusQueued(dev')
      BY <1>7, <2>2 DEF StatusOwns, StatusQueued, Unstalled, Resting, KeptAt, EP
  <2>4. InStatus'
      BY <1>1, <1>2, <1>4, <1>6, <2>2 DEF InStatus, Unstalled
  <2>5. StatusOwns'
      BY <1>1, <1>2, <1>7, <2>2, <2>3, <2>4 DEF StatusOwns, Idling, Known, Healthy
  <2> QED BY <2>5 DEF OneOwner
<1>8. ~dev.job[e].busy \/ (StatusOwns /\ e = "IN")
    BY <1>1, <1>3 DEF StatusOwns, StatusQueued, AnswerOwns, Resting, EP
<1>9. CASE ~dev.job[e].busy
  <2>1. /\ dev'.job = dev.job /\ dev'.armed = dev.armed
        /\ ~dev'.halted[e] /\ dev'.halted[Other(e)] = dev.halted[Other(e)]
        /\ dev'.cfg = dev.cfg /\ dev'.enabled = dev.enabled
        /\ dev'.cbwInvalid = dev.cbwInvalid /\ dev'.transReq = dev.transReq
        /\ dev'.cbw = dev.cbw /\ dev'.csw = dev.csw
      BY <1>1, <1>9, GivenTypes, UnhaltEffect, Zenon
  <2>2. Unstalled(dev')
      BY <1>5, <2>1 DEF Unstalled
  <2>3. InStatus'
      BY <1>1, <1>2, <1>4, <1>6, <2>1, <2>2 DEF InStatus, Unstalled
  <2>4. (Known' /\ Healthy(dev')) \/ ~(StatusOwns \/ AnswerOwns)
      BY <1>2, <2>1 DEF StatusOwns, AnswerOwns, Known, Healthy
  <2>5. CASE StatusOwns
    <3>1. e = "OUT" /\ ~dev.halted["IN"]
        BY <1>1, <1>5, <1>9, <2>5 DEF StatusOwns, StatusQueued, Running, Other, EP
    <3>2. StatusQueued(dev')
        BY <2>1, <2>2, <2>5, <3>1
           DEF StatusOwns, StatusQueued, Unstalled, Resting, Running, EP
    <3>3. StatusOwns'
        BY <1>1, <1>2, <2>1, <2>3, <2>4, <2>5, <3>2 DEF StatusOwns, Idling
    <3> QED BY <3>3 DEF OneOwner
  <2>6. CASE AnswerOwns
    <3>1. main.pc # "waitSet"
        BY <1>1 DEF Interrupts, Given, Typed, QuietlyReset
    <3>2. ~dev'.halted["IN"]
        BY <2>2 DEF Unstalled, EP
    <3>3. AnswerOwns'
        BY <1>1, <1>2, <2>1, <2>3, <2>4, <2>6, <3>1, <3>2 DEF AnswerOwns, Resting
    <3> QED BY <3>3 DEF OneOwner
  <2> QED BY <1>3, <2>5, <2>6
<1> QED BY <1>7, <1>8, <1>9

LEMMA EnumerateOwner ==
    ASSUME Typed, Owned, Enumerate
    PROVE  HostOwns'
<1>1. HostOff
    BY DEF Typed, QuietlyReset, Owned, OneOwner, Enumerate, HostOwns, ReplyOwns,
           StatusOwns, RequestOwns, BlockOwns, ResidueOwns, AnswerOwns, InStatus,
           InData, InvalidOwns, RecoveryOwns, LooseOwns, AbortedOwns
<1>2. dev' = SetConfiguration(dev) /\ UNCHANGED main
      /\ host' = [host EXCEPT !.st = "idle"]
    BY DEF Enumerate
<1>3. Freed(dev) /\ ~dev.cfg["IN"]
    BY <1>1 DEF HostOff, Idling, Freed, EP
<1>4. Listens(dev')
    BY <1>2, <1>3, TypedTypes, SetConfigurationEffect
<1>5. host'.st = "idle"
    BY <1>2, TypedTypes, Zenon DEF Host
<1> QED BY <1>1, <1>2, <1>4, <1>5 DEF HostOwns, HostOff, Idling, Listens

\* A command leads the host to no reset recovery.
LEMMA NoRecovery ==
    ASSUME Given
    PROVE  ~ResetRecovery /\ \A e \in EP : ~RecoveryClears(e)
<1>1. ~ResetRecovery
    BY DEF ResetRecovery, Given, OneOwner, HostOff, HostOwns, ReplyOwns,
           StatusOwns, RequestOwns, BlockOwns, ResidueOwns, AnswerOwns,
           InStatus, InData, EP
<1>2. ASSUME NEW e \in EP, RecoveryClears(e)
      PROVE  FALSE
    BY <1>2 DEF RecoveryClears, Given, OneOwner, HostOff, HostOwns, ReplyOwns,
                StatusOwns, RequestOwns, BlockOwns, ResidueOwns, AnswerOwns,
                InStatus, InData
<1> QED BY <1>1, <1>2

\* The host goes on with a command.
LEMMA HostStepOwner ==
    ASSUME Given, HostProceeds
    PROVE  OneOwner'
<1>1. CASE Enumerate
    BY <1>1, EnumerateOwner DEF Given, Owned, OneOwner
<1> QED BY <1>1, NoRecovery, ReadDataOwner, ReadCswOwner, WriteDataOwner,
           ClearStallOwner
        DEF HostProceeds

----------------------------------------------------------------------------
(* The steps of the main loop.                                             *)

LEMMA GotoFields ==
    ASSUME Given, NEW pc, Goto(pc)
    PROVE  /\ main'.pc = pc /\ main'.call = main.call /\ main'.ep = main.ep
           /\ main'.read = main.read /\ main'.left = main.left
BY GivenTypes, Zenon DEF Goto, Main

LEMMA PollOwner ==
    ASSUME Given, Poll
    PROVE  OneOwner'
<1>1. RequestOwns /\ main.pc = "poll"
    BY DEF Poll, Given, OneOwner, HostOff, HostOwns, ReplyOwns, StatusOwns,
           BlockOwns, ResidueOwns, AnswerOwns, Idling
<1>2. Goto("clear") /\ UNCHANGED host
    BY DEF Poll
<1>3. main'.pc = "clear"
    BY <1>2, GotoFields
<1>4. /\ dev'.job = dev.job /\ dev'.armed = dev.armed /\ dev'.halted = dev.halted
      /\ dev'.cfg = dev.cfg /\ dev'.enabled = dev.enabled
      /\ dev'.cbwInvalid = dev.cbwInvalid /\ ~dev'.transReq
      /\ dev'.cbw = dev.cbw /\ dev'.csw = dev.csw
      /\ dev'.nbBlock = dev.nbBlock /\ dev'.bRead = dev.bRead
    BY GivenTypes, Zenon DEF Poll, Dev
<1>5. RequestOwns'
    BY <1>1, <1>2, <1>3, <1>4
       DEF RequestOwns, Known, Quiet, Healthy, Resting, Unstalled, InData, Remaining
<1> QED BY <1>5 DEF OneOwner

LEMMA ClearResetOwner ==
    ASSUME Given, ClearReset
    PROVE  OneOwner'
<1>1. RequestOwns /\ main.pc = "clear"
    BY DEF ClearReset, Given, OneOwner, HostOff, HostOwns, ReplyOwns, StatusOwns,
           BlockOwns, ResidueOwns, AnswerOwns, Idling
<1>2. UNCHANGED host /\ main'.pc = "memory" /\ main'.read = dev.bRead
      /\ main'.left = dev.nbBlock
    BY GivenTypes, Zenon DEF ClearReset, Main
<1>3. /\ dev'.job = dev.job /\ dev'.armed = dev.armed /\ dev'.halted = dev.halted
      /\ dev'.cfg = dev.cfg /\ dev'.enabled = dev.enabled
      /\ dev'.cbwInvalid = dev.cbwInvalid /\ dev'.transReq = dev.transReq
      /\ dev'.cbw = dev.cbw /\ dev'.csw = dev.csw /\ ~dev'.resetTrans
    BY GivenTypes, Zenon DEF ClearReset, Dev
<1>4. host.cmd.dir \in EP
    BY GivenTypes, Zenon DEF Host, Command
<1>5. Known' /\ Healthy(dev') /\ Unstalled(dev') /\ ~dev'.transReq
      /\ Resting(dev', "IN") /\ Resting(dev', "OUT")
    BY <1>1, <1>2, <1>3
       DEF RequestOwns, Known, Quiet, Healthy, Resting, Unstalled
<1>6. /\ dev'.csw.residue = Remaining'
      /\ host'.st = IF Remaining' > 0 THEN "data" ELSE "status"
      /\ main'.left <= dev'.csw.residue
      /\ (main'.read <=> host'.cmd.dir = "IN")
      /\ host'.moved + main'.left = host'.cmd.need
  <2>1. host.cmd.need \in Int
    <3>1. host.cmd.need \in Lens
        BY GivenTypes, Zenon DEF Host, Command
    <3> QED BY <3>1, MaxLenAssumption DEF Lens
  <2> QED BY <1>1, <1>2, <1>3, <2>1 DEF RequestOwns, InData, Remaining
<1>7. BlockOwns'
  <2>1. ~Acked'
      BY <1>2 DEF Acked
  <2>2. dev'.csw.residue \in Int /\ host'.cmd.need \in Int
    <3>1. host'.cmd.need \in Lens
        BY GivenTypes, Zenon DEF Host, Command
    <3> QED BY <3>1, GivenTypes, DevFields, MaxLenAssumption DEF Lens
  <2> QED BY <1>2, <1>3, <1>4, <1>5, <1>6, <2>1, <2>2 DEF BlockOwns, Resting, EP
<1> QED BY <1>7 DEF OneOwner

\* In the memory layer and around a block the main loop owns the command.
LEMMA InBlock ==
    ASSUME Given, main.pc \in {"memory", "ack", "check"}
    PROVE  BlockOwns
BY DEF Given, OneOwner, HostOff, HostOwns, ReplyOwns, StatusOwns,
       RequestOwns, ResidueOwns, AnswerOwns, Idling

LEMMA InRun ==
    ASSUME Given, main.pc \in {"runHalt", "runBusy", "runSet", "runArm"}
    PROVE  BlockOwns \/ AnswerOwns
BY DEF Given, OneOwner, HostOff, HostOwns, ReplyOwns, StatusOwns,
       RequestOwns, ResidueOwns, Idling

LEMMA InAnswer ==
    ASSUME Given, main.pc \in {"abort", "waitBusy", "waitHalt", "waitSet"}
    PROVE  AnswerOwns
BY DEF Given, OneOwner, HostOff, HostOwns, ReplyOwns, StatusOwns,
       RequestOwns, BlockOwns, ResidueOwns, Idling

\* A step of the main loop that touches neither the drivers nor the host, in
\* the middle of a block.
LEMMA MemoryReturnsOwner ==
    ASSUME Given, NEW status \in {"pass", "fail"}, MemoryReturns(status)
    PROVE  OneOwner'
<1>1. BlockOwns /\ main.pc = "memory"
    BY InBlock DEF MemoryReturns
<1>2. UNCHANGED <<dev, host>> /\ main'.pc = "check" /\ main'.read = main.read
      /\ main'.left = main.left
    BY GivenTypes, Zenon DEF MemoryReturns, Main
<1>3. BlockOwns'
    BY <1>1, <1>2
       DEF BlockOwns, Known, Healthy, Unstalled, Remaining, Acked, Resting
<1> QED BY <1>3 DEF OneOwner

LEMMA TransBlockOwner ==
    ASSUME Given, TransBlock
    PROVE  OneOwner'
<1>1. BlockOwns /\ main.pc = "memory" /\ main.left > 0 /\ UNCHANGED host
    BY InBlock DEF TransBlock
<1>2. CASE dev.ackTrans
  <2>1. main' = [main EXCEPT !.pc = "runHalt", !.call = "block",
                             !.ep = IF main.read THEN "IN" ELSE "OUT"]
        /\ dev' = [dev EXCEPT !.ackTrans = FALSE]
      BY <1>2, Zenon DEF TransBlock
  <2>2. main'.pc = "runHalt" /\ main'.call = "block" /\ main'.read = main.read
        /\ main'.ep = (IF main.read THEN "IN" ELSE "OUT") /\ main'.left = main.left
      BY <2>1, GivenTypes, Zenon DEF Main
  <2>3. /\ dev'.job = dev.job /\ dev'.armed = dev.armed /\ dev'.halted = dev.halted
        /\ dev'.cfg = dev.cfg /\ dev'.enabled = dev.enabled
        /\ dev'.cbwInvalid = dev.cbwInvalid /\ dev'.transReq = dev.transReq
        /\ dev'.cbw = dev.cbw /\ dev'.csw = dev.csw
        /\ dev'.resetTrans = dev.resetTrans /\ ~dev'.ackTrans
      BY <2>1, GivenTypes, Zenon DEF Dev
  <2>4. host.cmd.dir \in EP
      BY GivenTypes, Zenon DEF Host, Command
  <2>5. main'.ep = host.cmd.dir
      BY <1>1, <2>2, <2>4 DEF BlockOwns, EP
  <2>6. BlockOwns'
      BY <1>1, <2>2, <2>3, <2>5
         DEF BlockOwns, Known, Healthy, Unstalled, Remaining, Acked, Resting
  <2> QED BY <2>6 DEF OneOwner
<1>3. CASE ~dev.ackTrans
  <2>1. UNCHANGED dev /\ main'.pc = "check" /\ main'.read = main.read
        /\ main'.left = main.left
      BY <1>3, GivenTypes, Zenon DEF TransBlock, BlockFails, Main
  <2>2. BlockOwns'
      BY <1>1, <2>1
         DEF BlockOwns, Known, Healthy, Unstalled, Remaining, Acked, Resting
  <2> QED BY <2>2 DEF OneOwner
<1> QED BY <1>2, <1>3

\* What udd_ep_run does from the main loop, one access at a time.
LEMMA TakeJobFields ==
    ASSUME NEW s \in Dev, NEW e \in EP
    PROVE  LET t == [s EXCEPT !.job[e].busy = TRUE]
           IN  /\ t.job[e].busy /\ t.job[e].cb = s.job[e].cb
               /\ KeptAt(t, s, Other(e)) /\ t.armed = s.armed /\ Kept(t, s)
<1> DEFINE t == [s EXCEPT !.job[e].busy = TRUE]
<1>1. Other(e) \in EP /\ Other(e) # e
    BY DEF EP, Other
<1>2. s.job \in [EP -> [busy : BOOLEAN, cb : Callbacks]]
    BY Zenon DEF Dev
<1>3. t.job = [s.job EXCEPT ![e].busy = TRUE]
    BY Zenon DEF Dev
<1>4. t.job[e] = [s.job[e] EXCEPT !.busy = TRUE]
    BY <1>2, <1>3, Zenon
<1>5. t.job[e].busy /\ t.job[e].cb = s.job[e].cb
    BY <1>2, <1>4, Zenon
<1>6. t.job[Other(e)] = s.job[Other(e)]
    BY <1>1, <1>2, <1>3, Zenon
<1>7. t.armed = s.armed
    BY Zenon DEF Dev
<1>8. Kept(t, s)
    BY Zenon DEF Kept, Dev
<1>9. KeptAt(t, s, Other(e))
    BY <1>6, <1>7, Zenon DEF KeptAt
<1> QED BY <1>5, <1>7, <1>8, <1>9

LEMMA SetCallbackFields ==
    ASSUME NEW s \in Dev, NEW e \in EP, NEW callback \in Callbacks
    PROVE  LET t == [s EXCEPT !.job[e].cb = callback]
           IN  /\ t.job[e].cb = callback
               /\ (t.job[e].busy <=> s.job[e].busy)
               /\ KeptAt(t, s, Other(e)) /\ t.armed = s.armed /\ Kept(t, s)
<1> DEFINE t == [s EXCEPT !.job[e].cb = callback]
<1>1. Other(e) \in EP /\ Other(e) # e
    BY DEF EP, Other
<1>2. s.job \in [EP -> [busy : BOOLEAN, cb : Callbacks]]
    BY Zenon DEF Dev
<1>3. t.job = [s.job EXCEPT ![e].cb = callback]
    BY Zenon DEF Dev
<1>4. t.job[e] = [s.job[e] EXCEPT !.cb = callback]
    BY <1>2, <1>3, Zenon
<1>5. t.job[e].cb = callback /\ t.job[e].busy = s.job[e].busy
    BY <1>2, <1>4, Zenon
<1>6. t.job[Other(e)] = s.job[Other(e)]
    BY <1>1, <1>2, <1>3, Zenon
<1>7. t.armed = s.armed
    BY Zenon DEF Dev
<1>8. Kept(t, s)
    BY Zenon DEF Kept, Dev
<1>9. KeptAt(t, s, Other(e))
    BY <1>6, <1>7, Zenon DEF KeptAt
<1> QED BY <1>5, <1>7, <1>8, <1>9

LEMMA ArmFields ==
    ASSUME NEW s \in Dev, NEW e \in EP, NEW payload \in Payload
    PROVE  LET t == [s EXCEPT !.armed[e] = payload]
           IN  /\ t.armed[e] = payload /\ t.armed[Other(e)] = s.armed[Other(e)]
               /\ t.job = s.job /\ Kept(t, s)
<1>1. Other(e) \in EP /\ Other(e) # e
    BY DEF EP, Other
<1> QED BY <1>1, Zenon DEF Kept, Dev

LEMMA RunTestsHaltOwner ==
    ASSUME Given, RunTestsHalt
    PROVE  OneOwner'
<1>1. (BlockOwns \/ AnswerOwns) /\ main.pc = "runHalt" /\ UNCHANGED host
    BY InRun DEF RunTestsHalt
<1>2. CASE BlockOwns
  <2>1. ~dev.halted[main.ep]
    <3>1. main.ep \in EP
        BY GivenTypes, Zenon DEF Main
    <3> QED BY <1>2, <3>1 DEF BlockOwns, Unstalled
  <2>2. Goto("runBusy") /\ UNCHANGED dev
      BY <2>1 DEF RunTestsHalt
  <2>3. /\ main'.pc = "runBusy" /\ main'.call = main.call /\ main'.ep = main.ep
        /\ main'.read = main.read /\ main'.left = main.left
      BY <2>2, GotoFields
  <2>4. BlockOwns'
      BY <1>1, <1>2, <2>2, <2>3
         DEF BlockOwns, Known, Healthy, Unstalled, Remaining, Acked, Resting
  <2> QED BY <2>4 DEF OneOwner
<1>3. CASE AnswerOwns
  <2>1. main.call = "csw" /\ main.ep = "IN"
      BY <1>1, <1>3 DEF AnswerOwns
  <2>2. UNCHANGED dev
        /\ IF dev.halted["IN"] THEN Goto("waitBusy") ELSE Goto("runBusy")
      BY <2>1, Zenon DEF RunTestsHalt, RunFails
  <2>3. /\ main'.pc = IF dev.halted["IN"] THEN "waitBusy" ELSE "runBusy"
        /\ main'.call = main.call /\ main'.ep = main.ep
      BY <2>2, GotoFields
  <2>4. AnswerOwns'
      BY <1>1, <1>3, <2>2, <2>3
         DEF AnswerOwns, Known, Healthy, InStatus, Remaining, Resting
  <2> QED BY <2>4 DEF OneOwner
<1> QED BY <1>1, <1>2, <1>3

LEMMA RunTakesJobOwner ==
    ASSUME Given, RunTakesJob
    PROVE  OneOwner'
<1>1. (BlockOwns \/ AnswerOwns) /\ main.pc = "runBusy" /\ UNCHANGED host
    BY InRun DEF RunTakesJob
<1>2. main.ep \in EP /\ host.cmd.dir \in EP
    BY GivenTypes, Zenon DEF Main, Host, Command
<1>3. ~dev.job[main.ep].busy
    BY <1>1, <1>2 DEF BlockOwns, AnswerOwns
<1>4. dev' = [dev EXCEPT !.job[main.ep].busy = TRUE] /\ Goto("runSet")
    BY <1>3, Zenon DEF RunTakesJob
<1>5. /\ dev'.job[main.ep].busy /\ dev'.job[main.ep].cb = dev.job[main.ep].cb
      /\ KeptAt(dev', dev, Other(main.ep)) /\ dev'.armed = dev.armed
      /\ Kept(dev', dev)
    BY <1>2, <1>4, GivenTypes, TakeJobFields, Zenon
<1>6. /\ main'.pc = "runSet" /\ main'.call = main.call /\ main'.ep = main.ep
      /\ main'.read = main.read /\ main'.left = main.left
    BY <1>4, GotoFields
<1>7. CASE BlockOwns
  <2>1. BlockOwns'
      BY <1>1, <1>2, <1>5, <1>6, <1>7
         DEF BlockOwns, Known, Healthy, Unstalled, Remaining, Acked, Resting,
             Kept, KeptAt, Other, EP
  <2> QED BY <2>1 DEF OneOwner
<1>8. CASE AnswerOwns
  <2>1. AnswerOwns'
      BY <1>1, <1>2, <1>5, <1>6, <1>8
         DEF AnswerOwns, Known, Healthy, InStatus, Remaining, Resting,
             Kept, KeptAt, Other
  <2> QED BY <2>1 DEF OneOwner
<1> QED BY <1>1, <1>7, <1>8

LEMMA RunSetsCallbackOwner ==
    ASSUME Given, RunSetsCallback
    PROVE  OneOwner'
<1> DEFINE callback == IF main.call = "csw" THEN "csw_sent" ELSE "trans_ack"
<1>1. (BlockOwns \/ AnswerOwns) /\ main.pc = "runSet" /\ UNCHANGED host
    BY InRun DEF RunSetsCallback
<1>2. main.ep \in EP /\ host.cmd.dir \in EP
    BY GivenTypes, Zenon DEF Main, Host, Command
<1>3. callback \in Callbacks
    BY DEF Callbacks, TransCallbacks
<1>4. dev' = [dev EXCEPT !.job[main.ep].cb = callback] /\ Goto("runArm")
    BY Zenon DEF RunSetsCallback
<1>5. /\ dev'.job[main.ep].cb = callback
      /\ (dev'.job[main.ep].busy <=> dev.job[main.ep].busy)
      /\ KeptAt(dev', dev, Other(main.ep)) /\ dev'.armed = dev.armed
      /\ Kept(dev', dev)
  <2> DEFINE t == [dev EXCEPT !.job[main.ep].cb = callback]
  <2> HIDE DEF callback
  <2>1. /\ t.job[main.ep].cb = callback
        /\ (t.job[main.ep].busy <=> dev.job[main.ep].busy)
        /\ KeptAt(t, dev, Other(main.ep)) /\ t.armed = dev.armed
        /\ Kept(t, dev)
      BY <1>2, <1>3, GivenTypes, SetCallbackFields, Zenon
  <2> QED BY <1>4, <2>1, Zenon
<1>6. /\ main'.pc = "runArm" /\ main'.call = main.call /\ main'.ep = main.ep
      /\ main'.read = main.read /\ main'.left = main.left
    BY <1>4, GotoFields
<1>7. CASE BlockOwns
  <2>1. BlockOwns'
      BY <1>1, <1>2, <1>5, <1>6, <1>7
         DEF BlockOwns, Known, Healthy, Unstalled, Remaining, Acked, Resting,
             Kept, KeptAt, Other, EP
  <2> QED BY <2>1 DEF OneOwner
<1>8. CASE AnswerOwns
  <2>1. AnswerOwns'
      BY <1>1, <1>2, <1>5, <1>6, <1>8
         DEF AnswerOwns, Known, Healthy, InStatus, Remaining, Resting,
             Kept, KeptAt, Other
  <2> QED BY <2>1 DEF OneOwner
<1> QED BY <1>1, <1>7, <1>8

LEMMA RunArmsOwner ==
    ASSUME Given, RunArms
    PROVE  OneOwner'
<1> DEFINE payload == IF main.call = "csw" THEN "csw" ELSE "block"
<1>1. (BlockOwns \/ AnswerOwns) /\ main.pc = "runArm" /\ UNCHANGED host
    BY InRun DEF RunArms
<1>2. main.ep \in EP /\ host.cmd.dir \in EP
    BY GivenTypes, Zenon DEF Main, Host, Command
<1>3. payload \in Payload
    BY DEF Payload
<1>4. dev.cfg[main.ep]
    BY <1>1, <1>2 DEF BlockOwns, AnswerOwns, Healthy, EP
<1>5. dev' = [dev EXCEPT !.armed[main.ep] = payload]
      /\ Goto(IF main.call = "csw" THEN "poll" ELSE "ack")
    BY <1>4, Zenon DEF RunArms
<1>6. /\ dev'.armed[main.ep] = payload
      /\ dev'.armed[Other(main.ep)] = dev.armed[Other(main.ep)]
      /\ dev'.job = dev.job /\ Kept(dev', dev)
  <2> HIDE DEF payload
  <2> QED BY <1>2, <1>3, <1>5, GivenTypes, ArmFields, Zenon
<1>7. /\ main'.pc = IF main.call = "csw" THEN "poll" ELSE "ack"
      /\ main'.call = main.call /\ main'.ep = main.ep
      /\ main'.read = main.read /\ main'.left = main.left
    BY <1>5, GotoFields
<1>8. CASE BlockOwns
  <2>1. BlockOwns'
      BY <1>1, <1>2, <1>6, <1>7, <1>8
         DEF BlockOwns, Known, Healthy, Unstalled, Remaining, Acked, Resting,
             Kept, Other, EP
  <2> QED BY <2>1 DEF OneOwner
<1>9. CASE AnswerOwns
  <2>1. main.call = "csw" /\ main.ep = "IN" /\ ~dev.halted["IN"]
        /\ dev.job["IN"].busy /\ dev.job["IN"].cb = "csw_sent"
      BY <1>1, <1>9 DEF AnswerOwns
  <2>2. dev.job["IN"] \in [busy : BOOLEAN, cb : Callbacks]
      BY <1>2, <2>1, GivenTypes, Zenon DEF Dev
  <2>3. dev.job["IN"] = [busy |-> TRUE, cb |-> "csw_sent"]
      BY <2>1, <2>2
  <2>4. StatusQueued(dev')
      BY <1>1, <1>6, <1>9, <2>1, <2>3
         DEF AnswerOwns, StatusQueued, Running, Resting, Kept, Other
  <2>5. StatusOwns'
      BY <1>1, <1>6, <1>7, <1>9, <2>1, <2>4
         DEF AnswerOwns, StatusOwns, Idling, Known, Healthy, InStatus, Remaining, Kept
  <2> QED BY <2>5 DEF OneOwner
<1> QED BY <1>1, <1>8, <1>9

LEMMA AckSeenOwner ==
    ASSUME Given, AckSeen
    PROVE  OneOwner'
<1>1. BlockOwns /\ Acked /\ UNCHANGED host
    BY InBlock DEF AckSeen, Acked
<1>2. ~dev.abortTrans
    BY <1>1 DEF BlockOwns
<1>3. dev' = [dev EXCEPT !.csw.residue = @ - 1]
      /\ main' = [main EXCEPT !.pc = "memory", !.left = @ - 1]
    BY <1>2, Zenon DEF AckSeen
<1>4. main'.pc = "memory" /\ main'.read = main.read /\ main'.left = main.left - 1
    BY <1>3, GivenTypes, Zenon DEF Main
<1>5. /\ dev'.job = dev.job /\ dev'.armed = dev.armed /\ dev'.halted = dev.halted
      /\ dev'.cfg = dev.cfg /\ dev'.enabled = dev.enabled
      /\ dev'.cbwInvalid = dev.cbwInvalid /\ dev'.transReq = dev.transReq
      /\ dev'.cbw = dev.cbw /\ dev'.csw.residue = dev.csw.residue - 1
      /\ dev'.resetTrans = dev.resetTrans
    BY <1>3, GivenTypes, Zenon DEF Dev, Csw
<1>6. /\ main.left \in Int /\ dev.csw.residue \in Int
      /\ host.cmd.len \in Int /\ host.moved \in Int /\ host.cmd.need \in Int
  <2>1. main.left \in Lens /\ host.cmd.len \in Lens /\ host.moved \in Nat
        /\ host.cmd.need \in Lens
      BY GivenTypes, Zenon DEF Main, Host, Command
  <2> QED BY <2>1, GivenTypes, DevFields, MaxLenAssumption DEF Lens
<1>7. /\ dev'.csw.residue = Remaining' /\ main'.left <= dev'.csw.residue
      /\ Remaining' = Remaining
      /\ host'.moved + main'.left = host'.cmd.need
    BY <1>1, <1>4, <1>5, <1>6 DEF BlockOwns, Remaining
<1>8. BlockOwns'
  <2>1. ~Acked' /\ Remaining' \in Int /\ host'.cmd.need \in Int
      BY <1>1, <1>4, <1>6 DEF Acked, Remaining
  <2> QED BY <1>1, <1>4, <1>5, <1>7, <2>1
          DEF BlockOwns, Known, Healthy, Unstalled, Acked, Resting
<1> QED BY <1>8 DEF OneOwner

LEMMA CheckResetOwner ==
    ASSUME Given, CheckReset
    PROVE  OneOwner'
<1>1. BlockOwns /\ main.pc = "check" /\ UNCHANGED host
    BY InBlock DEF CheckReset
<1>2. dev' = [dev EXCEPT !.csw.status = main.status] /\ Leaves("residue")
    BY <1>1, Zenon DEF CheckReset, BlockOwns
<1>3. main'.pc = "residue"
    BY <1>2, GivenTypes, Zenon DEF Leaves, Main
<1>4. /\ dev'.job = dev.job /\ dev'.armed = dev.armed /\ dev'.halted = dev.halted
      /\ dev'.cfg = dev.cfg /\ dev'.enabled = dev.enabled
      /\ dev'.cbwInvalid = dev.cbwInvalid /\ dev'.transReq = dev.transReq
      /\ dev'.cbw = dev.cbw /\ dev'.csw.residue = dev.csw.residue
    BY <1>2, GivenTypes, Zenon DEF Dev, Csw
<1>5. host.cmd.dir \in EP /\ main.left \in Nat /\ dev.csw.residue \in Int
      /\ Remaining \in Int
  <2>1. host.cmd.dir \in EP /\ main.left \in Lens /\ host.cmd.len \in Lens
        /\ host.moved \in Nat
      BY GivenTypes, Zenon DEF Main, Host, Command
  <2> QED BY <2>1, GivenTypes, DevFields, MaxLenAssumption DEF Lens, Remaining
<1>6. InData' /\ Remaining' = Remaining
    BY <1>1, <1>4, <1>5 DEF BlockOwns, InData, Remaining, Acked
<1>7. Resting(dev, "IN") /\ Resting(dev, "OUT")
    BY <1>1, <1>5 DEF BlockOwns, Resting, EP
<1>8. ResidueOwns'
    BY <1>1, <1>3, <1>4, <1>6, <1>7
       DEF BlockOwns, ResidueOwns, Known, Quiet, Healthy, Unstalled, Resting
<1> QED BY <1>8 DEF OneOwner

LEMMA TagCswFields ==
    ASSUME NEW s \in Dev
    PROVE  LET t == TagCsw(s)
           IN  /\ t.job = s.job /\ t.armed = s.armed /\ t.halted = s.halted
               /\ t.cfg = s.cfg /\ t.enabled = s.enabled
               /\ t.cbwInvalid = s.cbwInvalid /\ t.transReq = s.transReq
               /\ t.cbw = s.cbw
               /\ t.csw.tag = s.cbw.tag /\ t.csw.residue = s.csw.residue
BY Zenon DEF TagCsw, Dev, Csw

LEMMA MainSendsCswFields ==
    ASSUME Given, NEW s \in Dev, MainSendsCsw(s)
    PROVE  /\ dev'.job = s.job /\ dev'.armed = s.armed /\ dev'.halted = s.halted
           /\ dev'.cfg = s.cfg /\ dev'.enabled = s.enabled
           /\ dev'.cbwInvalid = s.cbwInvalid /\ dev'.transReq = s.transReq
           /\ dev'.cbw = s.cbw
           /\ dev'.csw.tag = s.cbw.tag /\ dev'.csw.residue = s.csw.residue
           /\ main'.pc = "runHalt" /\ main'.call = "csw" /\ main'.ep = "IN"
<1>1. dev' = TagCsw(s)
      /\ main' = [main EXCEPT !.pc = "runHalt", !.call = "csw", !.ep = "IN"]
    BY Zenon DEF MainSendsCsw
<1>2. main'.pc = "runHalt" /\ main'.call = "csw" /\ main'.ep = "IN"
    BY <1>1, GivenTypes, Zenon DEF Main
<1> QED BY <1>1, <1>2, TagCswFields, Zenon

LEMMA MainTestsResidueOwner ==
    ASSUME Given, MainTestsResidue
    PROVE  OneOwner'
<1>1. ResidueOwns /\ main.pc = "residue" /\ UNCHANGED host
    BY DEF MainTestsResidue, Given, OneOwner, HostOff, HostOwns, ReplyOwns,
           StatusOwns, RequestOwns, BlockOwns, AnswerOwns, Idling
<1>2. dev.cbw = host.cmd /\ host.cmd.dir \in EP /\ dev.csw.residue \in Int
    BY <1>1, GivenTypes, DevFields DEF ResidueOwns, Known
<1>3. CASE dev.csw.residue # 0
  <2>1. dev' = Halt(dev, host.cmd.dir)
        /\ main' = [main EXCEPT !.pc = "abort", !.ep = host.cmd.dir]
      BY <1>2, <1>3 DEF MainTestsResidue
  <2>2. main'.pc = "abort" /\ main'.ep = host.cmd.dir
      BY <2>1, GivenTypes, Zenon DEF Main
  <2>3. /\ dev'.job = dev.job /\ dev'.armed = dev.armed
        /\ dev'.halted = [dev.halted EXCEPT ![host.cmd.dir] = TRUE]
        /\ dev'.cfg = dev.cfg /\ dev'.enabled = dev.enabled
        /\ dev'.cbwInvalid = dev.cbwInvalid /\ dev'.transReq = dev.transReq
        /\ dev'.cbw = dev.cbw /\ dev'.csw = dev.csw
        /\ dev.halted \in [EP -> BOOLEAN]
      BY <2>1, GivenTypes, Zenon DEF Halt, Dev
  <2>4. host.st = "data"
      BY <1>1, <1>2, <1>3 DEF ResidueOwns, InData
  <2>5. \A e \in EP : dev'.halted[e] <=> e = host.cmd.dir
      BY <1>1, <1>2, <2>3 DEF ResidueOwns, Unstalled
  <2>6. InStatus'
      BY <1>1, <1>2, <2>3, <2>4, <2>5 DEF ResidueOwns, InData, InStatus, Remaining
  <2>7. AnswerOwns'
      BY <1>1, <2>2, <2>3, <2>6
         DEF ResidueOwns, AnswerOwns, Known, Quiet, Healthy, Resting
  <2> QED BY <2>7 DEF OneOwner
<1>4. CASE dev.csw.residue = 0
  <2>1. MainSendsCsw(dev)
      BY <1>4 DEF MainTestsResidue
  <2>2. /\ dev'.job = dev.job /\ dev'.armed = dev.armed /\ dev'.halted = dev.halted
        /\ dev'.cfg = dev.cfg /\ dev'.enabled = dev.enabled
        /\ dev'.cbwInvalid = dev.cbwInvalid /\ dev'.transReq = dev.transReq
        /\ dev'.cbw = dev.cbw
        /\ dev'.csw.tag = dev.cbw.tag /\ dev'.csw.residue = dev.csw.residue
        /\ main'.pc = "runHalt" /\ main'.call = "csw" /\ main'.ep = "IN"
      BY <2>1, GivenTypes, MainSendsCswFields
  <2>3. host.st = "status" /\ Remaining' = Remaining
      BY <1>1, <1>4 DEF ResidueOwns, InData, Remaining
  <2>4. InStatus'
      BY <1>1, <2>2, <2>3 DEF ResidueOwns, InData, InStatus, Unstalled
  <2>5. AnswerOwns'
      BY <1>1, <1>2, <2>2, <2>4
         DEF ResidueOwns, AnswerOwns, Known, Quiet, Healthy, Resting, Unstalled, EP
  <2> QED BY <2>5 DEF OneOwner
<1> QED BY <1>3, <1>4

LEMMA MainAbortsOwner ==
    ASSUME Given, MainAborts
    PROVE  OneOwner'
<1> DEFINE s == Disarm(dev, host.cmd.dir)
<1>1. AnswerOwns /\ main.pc = "abort" /\ UNCHANGED host
    BY InAnswer DEF MainAborts
<1>2. main.ep = host.cmd.dir /\ dev.cbw = host.cmd /\ host.cmd.dir \in EP
    BY <1>1, GivenTypes, DevFields DEF AnswerOwns, Known
<1>3. ~dev.job[main.ep].busy
    BY <1>1, <1>2 DEF AnswerOwns, Resting, EP
<1>4. MainSendsCsw(s)
    BY <1>2, <1>3, Zenon DEF MainAborts, EpAbort
<1>5. /\ s \in Dev /\ s.job = dev.job /\ s.halted = dev.halted
      /\ s.armed = [dev.armed EXCEPT ![host.cmd.dir] = "none"]
      /\ dev.armed \in [EP -> Payload]
      /\ s.cfg = dev.cfg /\ s.enabled = dev.enabled
      /\ s.cbwInvalid = dev.cbwInvalid /\ s.transReq = dev.transReq
      /\ s.cbw = dev.cbw /\ s.csw = dev.csw
    BY <1>2, GivenTypes, DisarmType, Zenon DEF Disarm, Dev
<1> HIDE DEF s
<1>6. /\ dev'.job = s.job /\ dev'.armed = s.armed /\ dev'.halted = s.halted
      /\ dev'.cfg = s.cfg /\ dev'.enabled = s.enabled
      /\ dev'.cbwInvalid = s.cbwInvalid /\ dev'.transReq = s.transReq
      /\ dev'.cbw = s.cbw
      /\ dev'.csw.tag = s.cbw.tag /\ dev'.csw.residue = s.csw.residue
      /\ main'.pc = "runHalt" /\ main'.call = "csw" /\ main'.ep = "IN"
    BY <1>4, <1>5, MainSendsCswFields
<1>7. dev'.armed["IN"] = "none" /\ dev'.armed["OUT"] = "none"
    BY <1>1, <1>5, <1>6 DEF AnswerOwns, Resting, EP
<1>8. InStatus'
    BY <1>1, <1>5, <1>6 DEF AnswerOwns, InStatus, Remaining
<1>9. AnswerOwns'
    BY <1>1, <1>2, <1>5, <1>6, <1>7, <1>8
       DEF AnswerOwns, Known, Healthy, Resting
<1> QED BY <1>9 DEF OneOwner

LEMMA WaitTestsOwner ==
    ASSUME Given, WaitTestsBusy \/ WaitTestsHalt
    PROVE  OneOwner'
<1>1. AnswerOwns /\ main.pc \in {"waitBusy", "waitHalt"} /\ UNCHANGED <<dev, host>>
    BY InAnswer DEF WaitTestsBusy, WaitTestsHalt
<1>2. ~dev.job["IN"].busy /\ dev.cfg["IN"]
    BY <1>1 DEF AnswerOwns, Healthy
<1>3. \/ Goto("waitHalt")
      \/ Goto("waitSet") /\ dev.halted["IN"]
      \/ Goto("runHalt")
    BY <1>2, Zenon DEF WaitTestsBusy, WaitTestsHalt
<1>4. /\ \/ main'.pc \in {"waitHalt", "runHalt"}
         \/ main'.pc = "waitSet" /\ dev.halted["IN"]
      /\ main'.call = main.call /\ main'.ep = main.ep
    BY <1>3, GotoFields
<1>5. AnswerOwns'
    BY <1>1, <1>4 DEF AnswerOwns, Known, Healthy, InStatus, Remaining, Resting
<1> QED BY <1>5 DEF OneOwner

LEMMA WaitRegistersOwner ==
    ASSUME Given, WaitRegisters
    PROVE  OneOwner'
<1>1. AnswerOwns /\ main.pc = "waitSet" /\ UNCHANGED host
    BY InAnswer DEF WaitRegisters
<1>2. dev.halted["IN"] /\ "IN" \in EP
    BY <1>1 DEF AnswerOwns, EP
<1>3. main'.pc = "poll"
    BY GotoFields DEF WaitRegisters
<1>4. /\ dev'.job["IN"] = [busy |-> TRUE, cb |-> "csw_send"]
      /\ dev'.job["OUT"] = dev.job["OUT"] /\ dev'.armed = dev.armed
      /\ Kept(dev', dev)
    BY GivenTypes, Zenon DEF WaitRegisters, Dev, EP, Kept
<1>5. StatusQueued(dev')
    BY <1>1, <1>2, <1>4 DEF AnswerOwns, StatusQueued, Running, Resting, Kept
<1>6. StatusOwns'
    BY <1>1, <1>3, <1>4, <1>5
       DEF AnswerOwns, StatusOwns, Idling, Known, Healthy, InStatus, Remaining, Kept
<1> QED BY <1>6 DEF OneOwner

LEMMA MainStepOwner ==
    ASSUME Given, MainStep
    PROVE  OneOwner'
BY PollOwner, ClearResetOwner, TransBlockOwner, MemoryReturnsOwner,
   RunTestsHaltOwner, RunTakesJobOwner, RunSetsCallbackOwner, RunArmsOwner,
   AckSeenOwner, CheckResetOwner, MainTestsResidueOwner, MainAbortsOwner,
   WaitTestsOwner, WaitRegistersOwner
   DEF MainStep

----------------------------------------------------------------------------
(* Bad wrappers, recovery and resets.                                      *)

\* A reset finds nothing stalled: each job that runs can be aborted.
LEMMA QuietOwner ==
    ASSUME Typed, Owned, Unstalled(dev), host.st # "off",
           main.pc \in {"poll", "ack", "check"}
    PROVE  /\ Abortable(dev) /\ Healthy(dev)
           /\ main.pc # "poll" => ~dev.transReq
           /\ main.pc = "ack" /\ ~dev.ackTrans => \E e \in EP : Awaited(dev, e)
<1>1. CASE HostOwns \/ ReplyOwns \/ RequestOwns
    BY <1>1 DEF HostOwns, ReplyOwns, RequestOwns, Abortable, Quiet, Healthy, Resting,
                Running, Idling
<1>2. CASE StatusOwns
    BY <1>2 DEF StatusOwns, StatusQueued, Abortable, Unstalled, Healthy, Resting,
                Running, Idling, EP
<1>3. CASE BlockOwns
  <2>1. host.cmd.dir \in EP
      BY TypedTypes, Zenon DEF Host, Command
  <2>2. Healthy(dev) /\ ~dev.transReq
      BY <1>3 DEF BlockOwns
  <2>3. \A e \in EP : dev.job[e].busy =>
            e = host.cmd.dir /\ dev.job[e].cb = "trans_ack"
      BY <1>3, <2>1 DEF BlockOwns, Resting
  <2>4. Abortable(dev)
      BY <2>2, <2>3 DEF Abortable, Healthy, EP
  <2>5. main.pc = "ack" /\ ~dev.ackTrans => Awaited(dev, host.cmd.dir)
      BY <1>3 DEF BlockOwns, Awaited
  <2> QED BY <2>1, <2>2, <2>4, <2>5
<1>4. CASE RecoveryOwns \/ LooseOwns
    BY <1>4 DEF RecoveryOwns, LooseOwns, Idle, Idling, Abortable, Unstalled, Healthy,
                Resting, Running, EP
<1>5. ~(HostOff \/ ResidueOwns \/ AnswerOwns \/ InvalidOwns \/ AbortedOwns)
    BY DEF HostOff, ResidueOwns, AnswerOwns, InvalidOwns, Spoilt, AbortedOwns,
           Unstalled, EP
<1> QED BY <1>1, <1>2, <1>3, <1>4, <1>5 DEF Owned, OneOwner

\* A reset that the host decides on comes at a point of ResetAt, and finds
\* nothing stalled.
LEMMA ResetFindsQuiet ==
    ASSUME Typed, NEW kind \in Resets, ResetAllowed(kind)
    PROVE  /\ Unstalled(dev)
           /\ main.pc = "poll" \/ (kind = "busReset" /\ main.pc \in {"ack", "check"})
           /\ main.pc = "ack" => ~dev.ackTrans
<1>1. "stalled" \notin Events /\ Point \in ResetAt[kind]
    BY DEF Typed, QuietlyReset, ResetAllowed
<1>2. Unstalled(dev)
    BY <1>1 DEF ResetAllowed, Unstalled
<1>3. Point = "poll" \/ (kind = "busReset" /\ Point \in {"ack", "check"})
    BY <1>1 DEF Typed, QuietlyReset, Resets
<1> QED BY <1>2, <1>3 DEF Point

LEMMA BulkResetOwner ==
    ASSUME Typed, Owned, HostBulkReset
    PROVE  RecoveryOwns'
<1>1. Unstalled(dev) /\ main.pc = "poll"
    BY ResetFindsQuiet DEF HostBulkReset, Resets
<1>2. dev' = BulkReset(dev) /\ UNCHANGED main /\ host.st # "off"
    BY DEF HostBulkReset
<1>3. Listens(dev')
    BY <1>1, <1>2, TypedTypes, QuietOwner, BulkResetEffect
<1>4. host'.st = "clearIn"
    BY TypedTypes, Zenon DEF HostBulkReset, Host
<1> QED BY <1>1, <1>2, <1>3, <1>4
        DEF Listens, RecoveryOwns, Idle, Idling, Unstalled, EP

LEMMA BusResetOwner ==
    ASSUME Typed, Owned, HostBusReset
    PROVE  HostOff' \/ AbortedOwns'
<1>1. /\ Unstalled(dev) /\ main.pc \in {"poll", "ack", "check"}
      /\ main.pc = "ack" => ~dev.ackTrans
    BY ResetFindsQuiet DEF HostBusReset, Resets
<1>2. /\ host.st # "off" /\ UNCHANGED main
    BY DEF HostBusReset
<1>3. PICK keepHalt \in BOOLEAN : dev' = BusReset(dev, keepHalt)
    BY Zenon DEF HostBusReset
<1>4. /\ Abortable(dev) /\ dev.cfg["IN"]
      /\ main.pc = "ack" => \E e \in EP : Awaited(dev, e)
    BY <1>1, <1>2, QuietOwner DEF Healthy
<1>5. /\ Freed(dev') /\ dev'.resetTrans /\ dev'.ackTrans
      /\ (\E e \in EP : Awaited(dev, e)) => dev'.abortTrans
    BY <1>3, <1>4, TypedTypes, BusResetEffect
<1>6. host'.st = "off"
    BY TypedTypes, Zenon DEF HostBusReset, Host
<1> QED BY <1>1, <1>2, <1>4, <1>5, <1>6
        DEF Freed, HostOff, AbortedOwns, Idling, Unstalled

LEMMA SetConfigOwner ==
    ASSUME Typed, Owned, HostSetConfig
    PROVE  HostOwns'
<1>1. Unstalled(dev) /\ main.pc = "poll"
    BY ResetFindsQuiet DEF HostSetConfig, Resets
<1>2. dev' = SetConfiguration(dev) /\ UNCHANGED main /\ host.st # "off"
    BY DEF HostSetConfig
<1>3. Abortable(dev) /\ dev.cfg["IN"]
    BY <1>1, <1>2, QuietOwner DEF Healthy
<1>4. Listens(dev')
    BY <1>2, <1>3, TypedTypes, SetConfigurationEffect
<1>5. host'.st = "idle"
    BY TypedTypes, Zenon DEF HostSetConfig, Host
<1> QED BY <1>1, <1>2, <1>4, <1>5 DEF Listens, HostOwns, Idling

LEMMA ResetStepOwner ==
    ASSUME Typed, Owned, ResetStep
    PROVE  Owned'
BY BulkResetOwner, BusResetOwner, SetConfigOwner DEF ResetStep, Owned, OneOwner

\* The host that finds the status stalled again recovers from the bad wrapper.
LEMMA ResetRecoveryOwner ==
    ASSUME Typed, Owned, ResetRecovery
    PROVE  RecoveryOwns'
<1>1. InvalidOwns
    BY DEF ResetRecovery, Owned, OneOwner, HostOff, HostOwns, ReplyOwns, StatusOwns,
           RequestOwns, BlockOwns, ResidueOwns, AnswerOwns, InStatus, InData,
           RecoveryOwns, LooseOwns, AbortedOwns, EP
<1>2. dev' = BulkReset(dev) /\ UNCHANGED main
    BY DEF ResetRecovery
<1>3. Spoilt(dev) /\ main.pc = "poll"
    BY <1>1 DEF InvalidOwns, Idling
<1>4. /\ Healthy(dev') /\ ~dev'.transReq /\ Resting(dev', "IN")
      /\ dev'.halted["OUT"] /\ Running(dev', "OUT", "cbw_wait", "none")
    BY <1>2, <1>3, TypedTypes, BulkResetSpoiltEffect
<1>5. host'.st = "clearIn"
    BY TypedTypes, Zenon DEF ResetRecovery, Host
<1> QED BY <1>2, <1>3, <1>4, <1>5 DEF RecoveryOwns, Idle, Idling

\* The host cannot end the halts of a bad wrapper one by one.
LEMMA ClearInvalidOwner ==
    ASSUME Typed, InvalidOwns, NEW e \in EP, ClearStall(e)
    PROVE  InvalidOwns'
<1>1. dev' = EpClearHalt(dev, e) /\ UNCHANGED main
    BY DEF ClearStall
<1>2. Spoilt(dev') /\ dev'.transReq = dev.transReq
    BY <1>1, TypedTypes, RestallEffect DEF InvalidOwns
<1>3. host'.st \in {"status", "retry"}
  <2>1. host'.st = IF host.st = "data" THEN "status" ELSE "retry"
      BY TypedTypes, Zenon DEF ClearStall, Host
  <2> QED BY <2>1
<1> QED BY <1>1, <1>2, <1>3 DEF InvalidOwns, Idling

\* The host clears the halts: first that of IN, on which nothing is left, then
\* that of OUT.
LEMMA ClearInOwner ==
    ASSUME Typed, Owned, RecoveryClears("IN")
    PROVE  RecoveryOwns'
<1>1. RecoveryOwns
    BY DEF RecoveryClears, Owned, OneOwner, HostOff, HostOwns, ReplyOwns, StatusOwns,
           RequestOwns, BlockOwns, ResidueOwns, AnswerOwns, InStatus, InData,
           InvalidOwns, LooseOwns, AbortedOwns
<1>2. dev' = EpClearHalt(dev, "IN") /\ UNCHANGED main
    BY DEF RecoveryClears
<1>3. "IN" \in EP /\ Other("IN") = "OUT" /\ ~dev.job["IN"].busy
    BY <1>1 DEF EP, Other, RecoveryOwns, Idle, Resting
<1>4. /\ dev'.job = dev.job /\ dev'.armed = dev.armed
      /\ ~dev'.halted["IN"] /\ dev'.halted["OUT"] = dev.halted["OUT"]
      /\ dev'.cfg = dev.cfg /\ dev'.enabled = dev.enabled
      /\ dev'.cbwInvalid = dev.cbwInvalid /\ dev'.transReq = dev.transReq
    BY <1>2, <1>3, TypedTypes, UnhaltEffect
<1>5. host'.st = "clearOut"
    BY TypedTypes, Zenon DEF RecoveryClears, Host
<1> QED BY <1>1, <1>2, <1>4, <1>5
        DEF RecoveryOwns, Idle, Idling, Healthy, Resting, Running

\* Then the device listens: the end of the halt starts the reception, or the
\* reception was running and has lost its busy bit.
LEMMA ClearOutOwner ==
    ASSUME Typed, Owned, RecoveryClears("OUT")
    PROVE  HostOwns' \/ LooseOwns'
<1>1. RecoveryOwns /\ host.st = "clearOut"
    BY DEF RecoveryClears, Owned, OneOwner, HostOff, HostOwns, ReplyOwns, StatusOwns,
           RequestOwns, BlockOwns, ResidueOwns, AnswerOwns, InStatus, InData,
           InvalidOwns, LooseOwns, AbortedOwns
<1>2. dev' = EpClearHalt(dev, "OUT") /\ UNCHANGED main
    BY DEF RecoveryClears
<1>3. Healthy(dev) /\ ~dev.halted["IN"] /\ Resting(dev, "IN") /\ ~dev.transReq
      /\ main.pc = "poll"
    BY <1>1 DEF RecoveryOwns, Idle, Idling
<1>4. host'.st = "idle"
    BY TypedTypes, Zenon DEF RecoveryClears, Host
<1>5. CASE dev.halted["OUT"]
  <2>1. Running(dev, "OUT", "cbw_wait", "none")
      BY <1>1, <1>5 DEF RecoveryOwns
  <2>2. /\ Running(dev', "OUT", "cbw_received", "cbw") /\ Resting(dev', "IN")
        /\ Unstalled(dev') /\ Healthy(dev') /\ dev'.transReq = dev.transReq
      BY <1>2, <1>3, <2>1, TypedTypes, UnhaltWaitEffect
  <2> QED BY <1>2, <1>3, <1>4, <2>2 DEF HostOwns, Idling
<1>6. CASE ~dev.halted["OUT"]
  <2>1. Running(dev, "OUT", "cbw_received", "cbw")
      BY <1>1, <1>6 DEF RecoveryOwns
  <2>2. /\ ~dev'.job["OUT"].busy /\ dev'.job["OUT"].cb = "cbw_received"
        /\ dev'.armed["OUT"] = "cbw" /\ KeptAt(dev', dev, "IN")
        /\ ~dev'.halted["OUT"] /\ dev'.halted["IN"] = dev.halted["IN"]
        /\ dev'.cfg = dev.cfg /\ dev'.enabled = dev.enabled
        /\ dev'.cbwInvalid = dev.cbwInvalid /\ dev'.transReq = dev.transReq
      BY <1>2, <2>1, TypedTypes, UnhaltReceptionEffect
  <2> QED BY <1>2, <1>3, <1>4, <2>2
          DEF LooseOwns, Idle, Idling, Healthy, Unstalled, Resting, KeptAt, EP
<1> QED BY <1>5, <1>6

\* The owners of no command: the device is stalled by a bad wrapper, recovers,
\* or waits for the main loop to notice a reset.
Adrift == InvalidOwns \/ RecoveryOwns \/ LooseOwns \/ AbortedOwns

LEMMA NothingMovesAdrift ==
    ASSUME Typed, Adrift
    PROVE  ~ReadData /\ ~ReadCsw /\ ~WriteData
BY DEF Adrift, InvalidOwns, Spoilt, RecoveryOwns, LooseOwns, AbortedOwns, ReadData,
       ReadCsw, WriteData, ReadingStatus, Ready, EP

LEMMA ClearAdriftOwner ==
    ASSUME Typed, Adrift, NEW e \in EP, ClearStall(e)
    PROVE  InvalidOwns /\ InvalidOwns'
<1>1. InvalidOwns
    BY DEF Adrift, RecoveryOwns, LooseOwns, AbortedOwns, ClearStall
<1> QED BY <1>1, ClearInvalidOwner

LEMMA HostAdriftOwner ==
    ASSUME Typed, Adrift, HostProceeds
    PROVE  Owned'
<1>1. Owned
    BY DEF Adrift, Owned
<1>2. CASE Enumerate
    BY <1>1, <1>2, EnumerateOwner DEF Owned, OneOwner
<1>3. CASE ResetRecovery
    BY <1>1, <1>3, ResetRecoveryOwner DEF Owned
<1>4. ASSUME NEW e \in EP, ClearStall(e)
      PROVE  Owned'
    BY <1>4, ClearAdriftOwner DEF Owned
<1>5. ASSUME NEW e \in EP, RecoveryClears(e)
      PROVE  Owned'
    BY <1>1, <1>5, ClearInOwner, ClearOutOwner DEF Owned, OneOwner, EP
<1> QED BY <1>2, <1>3, <1>4, <1>5, NothingMovesAdrift DEF HostProceeds

\* The main loop learns of the reset: the block in hand fails, and then the
\* command is dropped.
LEMMA AckAbortedOwner ==
    ASSUME Typed, AbortedOwns, AckSeen
    PROVE  AbortedOwns'
<1>1. main.pc = "ack" /\ dev.abortTrans /\ UNCHANGED <<dev, host>> /\ BlockFails
    BY DEF AckSeen, AbortedOwns
<1>2. main'.pc = "check"
    BY <1>1, TypedTypes, Zenon DEF BlockFails, Main
<1> QED BY <1>1, <1>2 DEF AbortedOwns, Unstalled, Resting

LEMMA CheckAbortedOwner ==
    ASSUME Typed, AbortedOwns, CheckReset
    PROVE  HostOff'
<1>1. dev' = [dev EXCEPT !.resetTrans = FALSE] /\ Leaves("poll") /\ UNCHANGED host
    BY DEF CheckReset, AbortedOwns
<1>2. main'.pc = "poll"
    BY <1>1, TypedTypes, Zenon DEF Leaves, Main
<1>3. /\ dev'.job = dev.job /\ dev'.armed = dev.armed /\ dev'.halted = dev.halted
      /\ dev'.cfg = dev.cfg /\ dev'.cbwInvalid = dev.cbwInvalid
      /\ dev'.transReq = dev.transReq
    BY <1>1, TypedTypes, Zenon DEF Dev
<1> QED BY <1>1, <1>2, <1>3 DEF AbortedOwns, HostOff, Idling, Unstalled, Resting

LEMMA MainAdriftOwner ==
    ASSUME Typed, Adrift, MainStep
    PROVE  AbortedOwns' \/ HostOff'
<1>1. AckSeen \/ CheckReset
    BY DEF Adrift, InvalidOwns, RecoveryOwns, LooseOwns, AbortedOwns, Idle, Idling,
           MainStep, Poll, ClearReset, TransBlock, MemoryReturns, RunTestsHalt,
           RunTakesJob, RunSetsCallback, RunArms, MainTestsResidue, MainAborts,
           WaitTestsBusy, WaitTestsHalt, WaitRegisters
<1>2. AbortedOwns
    BY <1>1 DEF Adrift, InvalidOwns, RecoveryOwns, LooseOwns, Idle, Idling, AckSeen,
                CheckReset
<1> QED BY <1>1, <1>2, AckAbortedOwner, CheckAbortedOwner

LEMMA NextOwner ==
    ASSUME Typed, Owned, Next
    PROVE  Owned'
<1>1. OneOwner \/ Adrift
    BY DEF Owned, Adrift
<1>2. CASE MainStep
    BY <1>1, <1>2, MainStepOwner, MainAdriftOwner DEF Given, Owned, OneOwner
<1>3. CASE SendCbw
    BY <1>3, SendCbwOwner DEF Owned
<1>4. CASE HostProceeds
    BY <1>1, <1>4, HostStepOwner, HostAdriftOwner DEF Given, Owned
<1>5. CASE ResetStep
    BY <1>5, ResetStepOwner
<1> QED BY <1>2, <1>3, <1>4, <1>5 DEF Next, HostStep

----------------------------------------------------------------------------
(* The theorems.                                                           *)

LEMMA InitOwner == Init => TypeInv /\ HostOff
<1> SUFFICES ASSUME Init PROVE HostOff
    BY InitType
<1>1. /\ main.pc = "poll" /\ host.st = "off"
      /\ ~dev.transReq /\ ~dev.cbwInvalid
      /\ \A e \in EP : /\ dev.job[e] = NoJob /\ dev.armed[e] = "none"
                       /\ ~dev.halted[e] /\ ~dev.cfg[e]
    BY Zenon DEF Init
<1> QED BY <1>1 DEF HostOff, Idling, Unstalled, Resting, NoJob

LEMMA StutterOwner ==
    ASSUME UNCHANGED vars
    PROVE  (TypeInv => TypeInv') /\ (OneOwner => OneOwner') /\ (Owned => Owned')
<1>1. (TypeInv => TypeInv') /\ (OneOwner => OneOwner')
    BY DEF vars, TypeInv, TypeOK, BlockStarted, WaitStarted, OneOwner,
           HostOff, HostOwns, ReplyOwns, StatusOwns, RequestOwns,
           BlockOwns, ResidueOwns, AnswerOwns, Idling, Known, InData,
           InStatus, Remaining, Acked
<1>2. Adrift => Adrift'
    BY DEF vars, Adrift, InvalidOwns, RecoveryOwns, LooseOwns, AbortedOwns, Idle, Idling
<1> QED BY <1>1, <1>2 DEF Owned, Adrift

\* At any time exactly one of the host, the request flag, the main loop and
\* one transfer of the IN endpoint works on the command: this is what makes
\* the static buffers of udi_msc.c safe without a lock.
THEOREM OneOwnerAlways ==
    ASSUME Undisturbed
    PROVE  Spec => [](TypeInv /\ OneOwner)
<1>1. Init => TypeInv /\ OneOwner
    BY InitOwner DEF OneOwner
<1>2. ~ResetStep
  <2>1. \A kind \in Resets : ~ResetAllowed(kind)
      BY DEF Undisturbed, ResetAllowed
  <2> QED BY <2>1 DEF ResetStep, HostBulkReset, HostBusReset, HostSetConfig, Resets
<1>3. TypeInv /\ OneOwner /\ [Next]_vars => TypeInv' /\ OneOwner'
  <2> SUFFICES ASSUME TypeInv, OneOwner, Next
               PROVE  TypeInv' /\ OneOwner'
      BY StutterOwner
  <2>1. TypeInv'
      BY MainStepType, HostStepType DEF Next
  <2>2. Given /\ Typed /\ Owned
      BY <2>1, UndisturbedIsQuiet DEF Given, Typed, Owned
  <2>3. "badCbw" \notin Events
      BY DEF Undisturbed
  <2> QED BY <1>2, <2>1, <2>2, <2>3, MainStepOwner, SendCbwOwner, HostStepOwner
          DEF Next, HostStep
<1> QED BY <1>1, <1>3, PTL DEF Spec

\* A host that sends bad wrappers and resets the device takes the command from
\* its owner; until the next one the device is stalled, recovers, listens, or waits
\* for the main loop to notice (udi_msc_cbw_invalid, udi_msc_bulk_reset,
\* udi_msc_disable, udi_msc_enable).
THEOREM OwnedAlways ==
    ASSUME QuietlyReset
    PROVE  Spec => [](TypeInv /\ Owned)
<1>1. Init => TypeInv /\ Owned
    BY InitOwner DEF Owned, OneOwner
<1>2. TypeInv /\ Owned /\ [Next]_vars => TypeInv' /\ Owned'
  <2> SUFFICES ASSUME TypeInv, Owned, Next
               PROVE  TypeInv' /\ Owned'
      BY StutterOwner
  <2>1. TypeInv'
      BY MainStepType, HostStepType DEF Next
  <2> QED BY <2>1, NextOwner DEF Typed
<1> QED BY <1>1, <1>2, PTL DEF Spec

\* What the owners say of the status, in terms of the IN endpoint.
LEMMA StatusArmed ==
    ASSUME TypeInv, Owned, dev.armed["IN"] = "csw"
    PROVE  StatusOwns /\ ~dev.halted["IN"]
<1>1. host.cmd.dir \in EP
    BY Zenon DEF TypeInv, TypeOK, Host, Command
<1>2. ~Adrift
    BY DEF Adrift, InvalidOwns, Spoilt, RecoveryOwns, LooseOwns, AbortedOwns, Idle,
           Resting, EP
<1>3. OneOwner
    BY <1>2 DEF Owned, Adrift
<1> QED BY <1>1, <1>3
    DEF OneOwner, HostOff, HostOwns, ReplyOwns, StatusOwns, RequestOwns,
        BlockOwns, ResidueOwns, AnswerOwns, Quiet, Resting, Running, StatusQueued, EP

\* Data is on the IN pipe of a reply or of a block.
LEMMA DataArmed ==
    ASSUME TypeInv, Owned, dev.armed["IN"] \in {"reply", "block"}
    PROVE  ReplyOwns \/ (BlockOwns /\ host.cmd.dir = "IN" /\ host.st = "data")
<1>1. host.cmd.dir \in EP
    BY Zenon DEF TypeInv, TypeOK, Host, Command
<1>2. ~Adrift
    BY DEF Adrift, InvalidOwns, Spoilt, RecoveryOwns, LooseOwns, AbortedOwns, Idle,
           Resting, EP
<1>3. ReplyOwns \/ BlockOwns
    BY <1>2 DEF Owned, Adrift, OneOwner, HostOff, HostOwns, StatusOwns, RequestOwns,
                ResidueOwns, AnswerOwns, Quiet, Resting, Running, StatusQueued, EP
<1>4. ASSUME BlockOwns
      PROVE  host.cmd.dir = "IN" /\ host.st = "data"
  <2>1. host.cmd.dir = "IN" /\ main.pc = "ack" /\ ~dev.ackTrans
      BY <1>1, <1>4 DEF BlockOwns, Resting, EP
  <2>2. main.left \in Nat /\ dev.csw.residue \in Int /\ Remaining \in Int
    <3>1. main.left \in Lens /\ host.cmd.len \in Lens /\ host.moved \in Nat
        BY Zenon DEF TypeInv, TypeOK, Main, Host, Command
    <3>2. dev.csw.residue \in Int
        BY DevFields DEF TypeInv, TypeOK
    <3> QED BY <3>1, <3>2, MaxLenAssumption DEF Lens, Remaining
  <2> QED BY <1>4, <2>1, <2>2 DEF BlockOwns, Acked
<1> QED BY <1>3, <1>4

\* The status wrapper that the host can take has the tag of its command and
\* the residue of what really crossed the bus, although the interrupt handler
\* and udi_msc_trans_block write it from two threads, and although a reset may take
\* the command away from either.
THEOREM StatusIsOfTheCommand ==
    ASSUME QuietlyReset
    PROVE  Spec => []StatusAnswersCommand
<1>1. TypeInv /\ Owned => StatusAnswersCommand
    BY StatusArmed
       DEF StatusAnswersCommand, StatusOwns, InStatus, Remaining
<1> QED BY <1>1, OwnedAlways, PTL

\* A status wrapper is never taken for data, and data never for a status
\* (udi_msc_csw_process stalls the pipe of a short transfer first).
THEOREM PhasesAreKept ==
    ASSUME QuietlyReset
    PROVE  Spec => [](StatusInItsPhase /\ DataInItsPhase)
<1>1. TypeInv /\ Owned => StatusInItsPhase
  <2> SUFFICES ASSUME TypeInv, Owned, dev.armed["IN"] = "csw"
               PROVE  ReadingStatus \/ (host.st = "data" /\ host.cmd.dir = "OUT")
      BY DEF StatusInItsPhase
  <2>1. host.cmd.dir \in EP
      BY Zenon DEF TypeInv, TypeOK, Host, Command
  <2> QED BY <2>1, StatusArmed DEF StatusOwns, InStatus, ReadingStatus, EP
<1>2. TypeInv /\ Owned => DataInItsPhase
    BY DataArmed DEF DataInItsPhase, ReplyOwns
<1> QED BY <1>1, <1>2, OwnedAlways, PTL

\* The buffer for the next command is armed only when the main loop, the
\* request flag and the IN endpoint are done with the last one, or a reset has
\* taken it away from them.
THEOREM CommandsDoNotOverlap ==
    ASSUME QuietlyReset
    PROVE  Spec => []OneCommandAtATime
<1>1. TypeInv /\ Owned => OneCommandAtATime
  <2> SUFFICES ASSUME TypeInv, Owned, dev.armed["OUT"] = "cbw"
               PROVE  /\ ~Pending /\ main.pc = "poll" /\ ~dev.transReq
                      /\ ~dev.job["IN"].busy
      BY DEF OneCommandAtATime
  <2>1. host.cmd.dir \in EP
      BY Zenon DEF TypeInv, TypeOK, Host, Command
  <2>2. CASE Adrift
    <3>1. RecoveryOwns \/ LooseOwns
        BY <2>2 DEF Adrift, InvalidOwns, Spoilt, AbortedOwns, Resting, EP
    <3> QED BY <3>1 DEF RecoveryOwns, LooseOwns, Idle, Idling, Resting, Pending,
                        ReadingStatus
  <2>3. CASE OneOwner
    <3>1. HostOwns
        BY <2>1, <2>3 DEF OneOwner, HostOff, ReplyOwns, StatusOwns, RequestOwns,
                    BlockOwns, ResidueOwns, AnswerOwns, Quiet, Resting,
                    StatusQueued, EP
    <3> QED BY <3>1 DEF HostOwns, Idling, Resting, Pending, ReadingStatus
  <2> QED BY <2>2, <2>3 DEF Owned, Adrift
<1> QED BY <1>1, OwnedAlways, PTL

\* A host that is done with a command, with a recovery or with the enumeration
\* finds the device listening for the next command: neither udi_msc_cbw_wait nor a
\* reset leaves the OUT endpoint without a reception.
THEOREM HostIsServed ==
    ASSUME QuietlyReset
    PROVE  Spec => []ListensWhenIdle
<1>1. TypeInv /\ Owned => ListensWhenIdle
  <2> SUFFICES ASSUME Owned, host.st = "idle"
               PROVE  dev.armed["OUT"] = "cbw" /\ Ready("OUT")
      BY DEF ListensWhenIdle
  <2>1. HostOwns \/ LooseOwns
      BY DEF Owned, OneOwner, HostOff, ReplyOwns, StatusOwns, RequestOwns, BlockOwns,
             ResidueOwns, AnswerOwns, InStatus, InData, InvalidOwns, RecoveryOwns,
             AbortedOwns
  <2> QED BY <2>1 DEF HostOwns, LooseOwns, Idle, Ready, Running, Healthy, Unstalled, EP
<1> QED BY <1>1, OwnedAlways, PTL

\* After a bad wrapper the device stays stalled on both pipes, transfers nothing, and
\* answers each clear of a halt with a halt until the Bulk-Only reset
\* (udi_msc_cbw_invalid, udi_msc_csw_invalid).
THEOREM OnlyAResetEndsTheStall ==
    ASSUME QuietlyReset
    PROVE  Spec => []InvalidStaysStalled
<1>1. TypeInv /\ Owned => InvalidStaysStalled
  <2> SUFFICES ASSUME Owned, dev.cbwInvalid
               PROVE  Spoilt(dev)
      BY DEF InvalidStaysStalled, Spoilt
  <2>1. InvalidOwns
      BY DEF Owned, OneOwner, HostOff, HostOwns, ReplyOwns, StatusOwns, RequestOwns,
             BlockOwns, ResidueOwns, AnswerOwns, Quiet, Healthy, RecoveryOwns,
             LooseOwns, Idle, AbortedOwns
  <2> QED BY <2>1 DEF InvalidOwns
<1> QED BY <1>1, OwnedAlways, PTL

\* When the host begins to clear the halts after a Bulk-Only reset, the reset has ended
\* the transfer of the IN endpoint and its wait for the end of a halt
\* (udi_msc_reset_ep_and_state).
THEOREM ResetLeavesNoTask ==
    ASSUME QuietlyReset
    PROVE  Spec => []ResetEndsAllTasks
<1>1. TypeInv /\ Owned => ResetEndsAllTasks
  <2> SUFFICES ASSUME Owned, host.st = "clearIn"
               PROVE  Resting(dev, "IN")
      BY DEF ResetEndsAllTasks, Resting
  <2>1. RecoveryOwns
      BY DEF Owned, OneOwner, HostOff, HostOwns, ReplyOwns, StatusOwns, RequestOwns,
             BlockOwns, ResidueOwns, AnswerOwns, InStatus, InData, InvalidOwns,
             LooseOwns, AbortedOwns
  <2> QED BY <2>1 DEF RecoveryOwns, Idle
<1> QED BY <1>1, OwnedAlways, PTL

\* The main loop sends the status of a command only while the host waits for it: a
\* reset of the line that finds it in a block makes it drop the command
\* (udi_msc_b_reset_trans, udi_msc_b_abort_trans).
THEOREM NoStatusAfterAReset ==
    ASSUME QuietlyReset
    PROVE  Spec => []AbortedSendsNoStatus
<1>1. TypeInv /\ Owned => AbortedSendsNoStatus
  <2> SUFFICES ASSUME TypeInv, Owned, SendingStatus
               PROVE  Pending
      BY DEF AbortedSendsNoStatus
  <2>1. ResidueOwns \/ AnswerOwns
      BY DEF Owned, OneOwner, SendingStatus, HostOff, HostOwns, ReplyOwns, StatusOwns,
             RequestOwns, BlockOwns, Idling, InvalidOwns, RecoveryOwns, LooseOwns, Idle,
             AbortedOwns
  <2> QED BY <2>1 DEF ResidueOwns, AnswerOwns, InData, InStatus, Pending, ReadingStatus
<1> QED BY <1>1, OwnedAlways, PTL

\* The status of a well-formed command is stalled at most once (udi_msc_csw_process,
\* udi_msc_csw_send): the retry that the standard grants the host always takes it.  With
\* bad wrappers this fails, and is meant to.
THEOREM StatusComesAtTheRetry ==
    ASSUME Undisturbed
    PROVE  Spec => []StatusStallsOnce
<1>1. TypeInv /\ OneOwner => StatusStallsOnce
    BY DEF OneOwner, HostOff, HostOwns, ReplyOwns, StatusOwns, RequestOwns,
           BlockOwns, ResidueOwns, AnswerOwns, InData, InStatus,
           StatusStallsOnce, EP
<1> QED BY <1>1, OneOwnerAlways, PTL

\* A command arrives, and its decoding may select the card, only when the main
\* loop is not between two blocks of a write: the assertion of
\* sd_mmc_select_slot.
THEOREM CardIsNotReentered ==
    ASSUME QuietlyReset
    PROVE  Spec => SdNotReentered
<1>1. TypeInv /\ Owned /\ [Next]_vars =>
          [host.st = "idle" /\ host'.st \in {"data", "status"} =>
               ~(main.pc = "memory" /\ ~main.read /\ main.left > 0)]_vars
    BY IdleListens DEF Listening
<1> QED BY <1>1, OwnedAlways, PTL DEF Spec, SdNotReentered

\* Data is on the IN pipe only while the host reads the data of a command: no reply or
\* block of udi_msc_data_send or udi_msc_trans_block is left over for its status.
THEOREM DataStaysInItsPhase == ASSUME QuietlyReset PROVE Spec => []DataInItsPhase
BY PhasesAreKept, PTL
=============================================================================
