---------------------------- MODULE UdiMscProofs ---------------------------
(***************************************************************************)
(* The routines of the interrupt handler, from the bottom up: each keeps   *)
(* the type of the drivers' state, and a lemma says what each makes of a   *)
(* state in which no transfer, or one that it ends, is running.  Type      *)
(* correctness of UdiMsc follows; the steps of the system are in           *)
(* UdiMscOwnerProofs.                                                      *)
(***************************************************************************)
EXTENDS UdiMscInv, TLAPS

----------------------------------------------------------------------------
(* Every routine of the interrupt handler keeps the type of the drivers'   *)
(* state.                                                                  *)

LEMMA HaltType ==
    ASSUME NEW s \in Dev, NEW e \in EP
    PROVE  Halt(s, e) \in Dev /\ Unhalt(s, e) \in Dev
BY Zenon DEF Halt, Unhalt, Dev

LEMMA DisarmType ==
    ASSUME NEW s \in Dev, NEW e \in EP
    PROVE  Disarm(s, e) \in Dev
BY Zenon DEF Disarm, Dev, Payload

LEMMA JobBusyType ==
    ASSUME NEW s \in Dev, NEW e \in EP, NEW busy \in BOOLEAN
    PROVE  [s EXCEPT !.job[e].busy = busy] \in Dev
<1> DEFINE Jobs == [EP -> [busy : BOOLEAN, cb : Callbacks]]
           jobs == [s.job EXCEPT ![e].busy = busy]
<1>1. s.job \in Jobs
    BY Zenon DEF Dev
<1>2. jobs \in Jobs
    BY <1>1, Zenon
<1> HIDE DEF jobs
<1>3. [s EXCEPT !.job = jobs] \in Dev
    BY <1>2, Zenon DEF Dev
<1> QED BY <1>3, Zenon DEF jobs

LEMMA JobCallbackType ==
    ASSUME NEW s \in Dev, NEW e \in EP, NEW callback \in Callbacks
    PROVE  [s EXCEPT !.job[e].cb = callback] \in Dev
<1> DEFINE Jobs == [EP -> [busy : BOOLEAN, cb : Callbacks]]
           jobs == [s.job EXCEPT ![e].cb = callback]
<1>1. s.job \in Jobs
    BY Zenon DEF Dev
<1>2. jobs \in Jobs
    BY <1>1, Zenon
<1> HIDE DEF jobs
<1>3. [s EXCEPT !.job = jobs] \in Dev
    BY <1>2, Zenon DEF Dev
<1> QED BY <1>3, Zenon DEF jobs

LEMMA ReleaseType ==
    ASSUME NEW s \in Dev, NEW e \in EP
    PROVE  Release(s, e) \in Dev
BY JobBusyType DEF Release

LEMMA EpRunType ==
    ASSUME NEW s \in Dev, NEW e \in EP,
           NEW callback \in Callbacks, NEW payload \in Payload
    PROVE  EpRun(s, e, callback, payload) \in Dev
<1>1. CASE Free(s, e) /\ s.cfg[e]
    BY <1>1, Zenon DEF EpRun, Dev
<1>2. CASE Free(s, e) /\ ~s.cfg[e]
    BY <1>2, Zenon DEF EpRun, Dev
<1>3. CASE ~Free(s, e)
    BY <1>3 DEF EpRun
<1> QED BY <1>1, <1>2, <1>3

LEMMA WaitStallClearType ==
    ASSUME NEW s \in Dev, NEW e \in EP, NEW callback \in Callbacks
    PROVE  WaitStallClear(s, e, callback) \in Dev
BY Zenon DEF WaitStallClear, Dev

LEMMA RestartType ==
    ASSUME NEW s \in Dev
    PROVE  CbwWait(s) \in Dev /\ CswSend(s) \in Dev
BY EpRunType, WaitStallClearType
   DEF RunOrWait, CbwWait, CswSend, EP, Callbacks, TransCallbacks,
       NoHaltCallbacks, Payload

LEMMA RestallType ==
    ASSUME NEW s \in Dev, NEW e \in EP, NEW callback \in Callbacks
    PROVE  Restall(s, e, callback) \in Dev
BY HaltType, DisarmType, WaitStallClearType DEF Restall

LEMMA NotOkType ==
    ASSUME NEW s \in Dev, NEW e \in EP
    PROVE  NotOk(s, e) \in Dev
<1> DEFINE callback == s.job[e].cb
<1>1. callback \in Callbacks
    BY Zenon DEF Dev
<1>2. CASE callback \in {"csw_sent", "cbw_wait", "csw_send"}
    BY <1>2, RestartType DEF NotOk
<1>3. CASE callback \in {"cbw_invalid", "csw_invalid"}
    BY <1>1, <1>3, RestallType DEF NotOk
<1>4. CASE callback = "trans_ack"
  <2>1. [s EXCEPT !.abortTrans = TRUE, !.ackTrans = TRUE] \in Dev
      BY Zenon DEF Dev
  <2> QED BY <1>4, <2>1 DEF NotOk
<1>5. CASE callback \notin {"csw_sent", "cbw_wait", "csw_send", "cbw_invalid",
                            "csw_invalid", "trans_ack"}
    BY <1>5 DEF NotOk
<1> QED BY <1>2, <1>3, <1>4, <1>5

LEMMA EpType ==
    ASSUME NEW s \in Dev, NEW e \in EP
    PROVE  /\ EpAbort(s, e) \in Dev
           /\ EpSetHalt(s, e) \in Dev
           /\ EpClearHalt(s, e) \in Dev
BY HaltType, DisarmType, ReleaseType, NotOkType
   DEF EpAbort, EpSetHalt, EpClearHalt

LEMMA CswType ==
    ASSUME NEW s \in Dev
    PROVE  s.csw \in Csw /\ s.cbw \in Command /\ s.cbw.dir \in EP
BY Zenon DEF Dev, Command

LEMMA SenseType ==
    ASSUME NEW s \in Dev
    PROVE  /\ SensePass(s) \in Dev
           /\ SenseFail(s) \in Dev
           /\ TagCsw(s) \in Dev
           /\ StallResidue(s) \in Dev
<1>1. \A status \in {"pass", "fail"} : [s EXCEPT !.csw.status = status] \in Dev
    BY Zenon DEF Dev, Csw
<1>2. TagCsw(s) \in Dev
    BY Zenon DEF TagCsw, Dev, Csw, Command
<1>3. StallResidue(s) \in Dev
    BY CswType, EpType DEF StallResidue
<1> QED BY <1>1, <1>2, <1>3 DEF SensePass, SenseFail

LEMMA CswProcessType ==
    ASSUME NEW s \in Dev
    PROVE  CswProcess(s) \in Dev /\ CswFail(s) \in Dev
BY SenseType, RestartType DEF CswProcess, CswFail

LEMMA ResidueType ==
    ASSUME NEW s \in Dev, NEW n \in Int
    PROVE  [s EXCEPT !.csw.residue = n] \in Dev
BY Zenon DEF Dev, Csw

LEMMA DataType ==
    ASSUME NEW s \in Dev, NEW sent \in Int
    PROVE  /\ DataSend(s) \in Dev
           /\ DataSent(s, sent) \in Dev
<1>1. EpRun(s, "IN", "data_sent", "reply") \in Dev
    BY EpRunType DEF EP, Callbacks, TransCallbacks, Payload
<1>2. DataSend(s) \in Dev
    BY <1>1, CswProcessType DEF DataSend
<1>3. SensePass(s) \in Dev /\ SensePass(s).csw.residue \in Int
    BY SenseType, CswType, Zenon DEF Csw
<1>4. SensePass(s).csw.residue - sent \in Int
    BY <1>3
<1>5. [SensePass(s) EXCEPT !.csw.residue = @ - sent] \in Dev
    BY <1>3, <1>4, ResidueType
<1> QED BY <1>2, <1>5, CswProcessType DEF DataSent

LEMMA DecodeType ==
    ASSUME NEW s \in Dev, NEW memOk \in BOOLEAN
    PROVE  Decode(s, memOk) \in Dev
<1>1. s.cbw.op \in Ops /\ s.cbw.need \in Lens
    BY CswType, Zenon DEF Command
<1>2. Reply(s, memOk) \in Dev
    BY CswProcessType, DataType DEF Reply
<1>3. ASSUME NEW read \in BOOLEAN
      PROVE  SbcTrans(s, read, memOk) \in Dev
  <2> DEFINE t == [s EXCEPT !.nbBlock = s.cbw.need]
  <2>1. t \in Dev
      BY <1>1, Zenon DEF Dev
  <2> HIDE DEF t
  <2>2. [t EXCEPT !.bRead = read, !.transReq = TRUE] \in Dev
      BY <2>1, Zenon DEF Dev
  <2>3. CASE ~read /\ ~memOk
      BY <2>3, CswProcessType DEF SbcTrans
  <2>4. CASE ~(~read /\ ~memOk)
    <3>1. SbcTrans(s, read, memOk) =
              IF Valid(t, t.nbBlock, IF read THEN "IN" ELSE "OUT")
              THEN [t EXCEPT !.bRead = read, !.transReq = TRUE]
              ELSE CswFail(t)
        BY <2>4, Zenon DEF SbcTrans, t
    <3> QED BY <2>1, <2>2, <3>1, CswProcessType
  <2> QED BY <2>3, <2>4
<1>4. CswProcess(IF memOk THEN SensePass(s) ELSE SenseFail(s)) \in Dev
    BY SenseType, CswProcessType
<1> QED BY <1>1, <1>2, <1>3, <1>4 DEF Decode, Ops

LEMMA CbwReceivedType ==
    ASSUME NEW s \in Dev, NEW intact \in BOOLEAN, NEW memOk \in BOOLEAN
    PROVE  CbwReceived(s, intact, memOk) \in Dev
<1>1. CASE ~intact
  <2> DEFINE t == [s EXCEPT !.cbwInvalid = TRUE]
             Invalid(u, e, callback) ==
                 WaitStallClear(EpSetHalt(u, e), e, callback)
  <2>1. t \in Dev
      BY Zenon DEF Dev
  <2> HIDE DEF t
  <2>2. \A u \in Dev, e \in EP, callback \in NoHaltCallbacks :
            Invalid(u, e, callback) \in Dev
      BY EpType, WaitStallClearType DEF Callbacks
  <2>3. CbwReceived(s, intact, memOk) =
            Invalid(Invalid(t, "OUT", "cbw_invalid"), "IN", "csw_invalid")
      BY <1>1, Zenon DEF CbwReceived, t
  <2> QED BY <2>1, <2>2, <2>3 DEF EP, NoHaltCallbacks
<1>2. CASE intact
  <2>1. s.cbw.len \in Int
      BY CswType, MaxLenAssumption DEF Command, Lens
  <2>2. [s EXCEPT !.csw.residue = s.cbw.len] \in Dev
      BY <2>1, ResidueType
  <2> QED BY <1>2, <2>2, DecodeType, CswProcessType DEF CbwReceived
<1> QED BY <1>1, <1>2

LEMMA TransOkType ==
    ASSUME NEW s \in Dev, NEW e \in EP, NEW sent \in Int,
           NEW intact \in BOOLEAN, NEW memOk \in BOOLEAN
    PROVE  TransOk(s, e, sent, intact, memOk) \in Dev
<1> DEFINE t == Release(Disarm(s, e), e)
<1>1. t \in Dev
    BY DisarmType, ReleaseType
<1> HIDE DEF t
<1>2. [t EXCEPT !.abortTrans = FALSE, !.ackTrans = TRUE] \in Dev
    BY <1>1, Zenon DEF Dev
<1>3. /\ CbwReceived(t, intact, memOk) \in Dev
      /\ DataSent(t, sent) \in Dev
      /\ NotOk(t, e) \in Dev
    BY <1>1, CbwReceivedType, DataType, NotOkType
<1> QED BY <1>2, <1>3 DEF TransOk, t

LEMMA ResetType ==
    ASSUME NEW s \in Dev, NEW keepHalt \in BOOLEAN
    PROVE  /\ BulkReset(s) \in Dev
           /\ BusReset(s, keepHalt) \in Dev
           /\ SetConfiguration(s) \in Dev
<1>1. BulkReset(s) \in Dev
  <2>1. [s EXCEPT !.cbwInvalid = FALSE, !.transReq = FALSE] \in Dev
      BY Zenon DEF Dev
  <2> QED BY <2>1, EpType, RestartType DEF BulkReset, EP
<1>2. ASSUME NEW t \in Dev, NEW e \in EP
      PROVE  EpFree(t, e) \in Dev
  <2>1. EpAbort(t, e) \in Dev
      BY EpType
  <2> QED BY <2>1, Zenon DEF EpFree, Dev
<1>3. ASSUME NEW t \in Dev
      PROVE  IfaceDisable(t) \in Dev
  <2>1. EpFree(EpFree(t, "IN"), "OUT") \in Dev
      BY <1>2 DEF EP
  <2> QED BY <2>1, Zenon DEF IfaceDisable, Dev
<1>4. ASSUME NEW t \in Dev
      PROVE  IfaceEnable(t) \in Dev
  <2>1. EpAlloc(t) \in Dev
      BY Zenon DEF EpAlloc, Dev, Payload
  <2>2. [EpAlloc(t) EXCEPT
            !.transReq = FALSE, !.cbwInvalid = FALSE, !.ackTrans = TRUE,
            !.resetTrans = TRUE, !.enabled = TRUE] \in Dev
      BY <2>1, Zenon DEF Dev
  <2> QED BY <2>2, RestartType DEF IfaceEnable
<1>5. LineReset(s, keepHalt) \in Dev
    BY Zenon DEF LineReset, Dev, Payload
<1>6. BusReset(s, keepHalt) \in Dev
    BY <1>3, <1>5 DEF BusReset
<1>7. SetConfiguration(s) \in Dev
    BY <1>3, <1>4 DEF SetConfiguration, UdcReset
<1> QED BY <1>1, <1>6, <1>7

----------------------------------------------------------------------------
(* Type correctness.                                                       *)

LEMMA MainFields ==
    ASSUME NEW m \in Main
    PROVE  /\ m.pc \in Pcs /\ m.call \in {"block", "csw"} /\ m.ep \in EP
           /\ m.read \in BOOLEAN /\ m.left \in Lens
           /\ m.status \in {"pass", "fail"}
BY Zenon DEF Main

LEMMA MainStepType ==
    ASSUME TypeInv, MainStep
    PROVE  TypeInv'
<1> USE DEF TypeInv, TypeOK, BlockStarted, WaitStarted
<1>0. main \in Main
    OBVIOUS
<1>6. ASSUME NEW pc \in Pcs, Goto(pc)
      PROVE  main' \in Main /\ main'.pc = pc /\ main'.call = main.call
             /\ main'.left = main.left
    BY <1>0, <1>6, Zenon DEF Goto, Main
<1>19. ASSUME BlockFails
       PROVE  main' \in Main /\ main'.pc = "check"
    BY <1>0, <1>19, Zenon DEF BlockFails, Pcs, Main
<1>1. CASE Poll
  <2>1. dev' \in Dev
      BY <1>1, Zenon DEF Poll, Dev
  <2>2. main' \in Main /\ main'.pc = "clear"
      BY <1>1, <1>6 DEF Poll, Pcs
  <2> QED BY <1>1, <2>1, <2>2 DEF Poll
<1>2. CASE ClearReset
  <2>1. dev' \in Dev
      BY <1>2, Zenon DEF ClearReset, Dev
  <2>2. dev.bRead \in BOOLEAN /\ dev.nbBlock \in Lens
      BY Zenon DEF Dev
  <2>3. main' \in Main /\ main'.pc = "memory"
      BY <1>0, <1>2, <2>2, Zenon DEF ClearReset, Pcs, Main
  <2> QED BY <1>2, <2>1, <2>3 DEF ClearReset
<1>3. CASE TransBlock
  <2>1. dev' \in Dev
      BY <1>3, Zenon DEF TransBlock, Dev
  <2>2. CASE BlockFails
      BY <1>3, <1>19, <2>1, <2>2 DEF TransBlock
  <2>3. CASE ~BlockFails
    <3>1. main' = [main EXCEPT !.pc = "runHalt", !.call = "block",
                               !.ep = IF main.read THEN "IN" ELSE "OUT"]
        BY <1>3, <2>3 DEF TransBlock
    <3>2. main' \in Main /\ main'.pc = "runHalt" /\ main'.left = main.left
        BY <1>0, <3>1, Zenon DEF Pcs, EP, Main
    <3> QED BY <1>3, <2>1, <3>2 DEF TransBlock
  <2> QED BY <2>2, <2>3
<1>4. ASSUME NEW status \in {"pass", "fail"}, MemoryReturns(status)
      PROVE  TypeInv'
  <2>1. main' \in Main /\ main'.pc = "check"
      BY <1>0, <1>4, Zenon DEF MemoryReturns, Pcs, Main
  <2> QED BY <1>4, <2>1 DEF MemoryReturns
<1>5. ASSUME RunFails
      PROVE  /\ dev' \in Dev /\ main' \in Main
             /\ main'.pc = "check" \/ (main'.pc = "waitBusy" /\ main'.call = "csw")
  <2>1. dev' \in Dev
      BY <1>5, Zenon DEF RunFails, Dev
  <2>2. /\ main' \in Main
        /\ main'.pc = "check" \/ (main'.pc = "waitBusy" /\ main'.call = "csw")
      BY <1>5, <1>6, <1>19 DEF RunFails, Pcs
  <2> QED BY <2>1, <2>2
<1>7. CASE RunTestsHalt
  <2>1. CASE RunFails
      BY <1>5, <1>7, <2>1 DEF RunTestsHalt
  <2>2. CASE Goto("runBusy") /\ UNCHANGED dev
      BY <1>6, <1>7, <2>2 DEF RunTestsHalt, Pcs
  <2> QED BY <1>7, <2>1, <2>2 DEF RunTestsHalt
<1>8. CASE RunTakesJob
  <2>1. CASE RunFails
      BY <1>5, <1>8, <2>1 DEF RunTakesJob
  <2>2. CASE ~RunFails
    <3>1. Goto("runSet") /\ dev' = [dev EXCEPT !.job[main.ep].busy = TRUE]
        BY <1>8, <2>2 DEF RunTakesJob
    <3>2. main.ep \in EP
        BY Zenon DEF Main
    <3>3. dev' \in Dev
        BY <3>1, <3>2, JobBusyType
    <3> QED BY <1>6, <1>8, <3>1, <3>3 DEF RunTakesJob, Pcs
  <2> QED BY <2>1, <2>2
<1>9. CASE RunSetsCallback
  <2>1. main.ep \in EP
      BY Zenon DEF Main
  <2>2. dev' \in Dev
      BY <1>9, <2>1, JobCallbackType DEF RunSetsCallback, Callbacks, TransCallbacks
  <2> QED BY <1>6, <1>9, <2>2 DEF RunSetsCallback, Pcs
<1>10. CASE RunArms
  <2>1. CASE RunFails
      BY <1>5, <1>10, <2>1 DEF RunArms
  <2>2. CASE ~RunFails
    <3>1. /\ Goto(IF main.call = "csw" THEN "poll" ELSE "ack")
          /\ dev' = [dev EXCEPT !.armed[main.ep] =
                         IF main.call = "csw" THEN "csw" ELSE "block"]
        BY <1>10, <2>2 DEF RunArms
    <3>2. main.ep \in EP /\ main.call \in {"block", "csw"}
        BY Zenon DEF Main
    <3>3. dev' \in Dev
        BY <3>1, <3>2, Zenon DEF Dev, Payload
    <3>4. main' \in Main /\ main'.left = main.left
        BY <1>6, <3>1 DEF Pcs
    <3>5. main'.pc = "ack" => main.left > 0
        BY <1>6, <1>10, <3>1, <3>2 DEF RunArms, Pcs
    <3>6. main'.pc \in {"poll", "ack"}
        BY <1>6, <3>1 DEF Pcs
    <3> QED BY <1>10, <3>3, <3>4, <3>5, <3>6 DEF RunArms
  <2> QED BY <2>1, <2>2
<1>11. CASE AckSeen
  <2>1. main.left \in Lens /\ main.left > 0 /\ dev.csw.residue \in Int
      BY <1>11, CswType, Zenon DEF AckSeen, Main, Csw
  <2>2. main.left - 1 \in Lens
      BY <2>1, MaxLenAssumption DEF Lens
  <2>3. dev.csw.residue - 1 \in Int
      BY <2>1
  <2>4. dev' \in Dev
      BY <1>11, <2>3, ResidueType DEF AckSeen
  <2>5. main' \in Main /\ main'.pc \in {"check", "memory"}
    <3>1. CASE BlockFails
        BY <1>19, <3>1
    <3>2. CASE ~BlockFails
      <4>1. main' = [main EXCEPT !.pc = "memory", !.left = @ - 1]
          BY <1>11, <3>2 DEF AckSeen
      <4> QED BY <1>0, <2>2, <4>1, Zenon DEF Pcs, Main
    <3> QED BY <3>1, <3>2
  <2> QED BY <1>11, <2>4, <2>5 DEF AckSeen
<1>12. CASE CheckReset
  <2>1. dev' \in Dev
    <3>1. main.status \in {"pass", "fail"}
        BY Zenon DEF Main
    <3>2. [dev EXCEPT !.resetTrans = FALSE] \in Dev
        BY Zenon DEF Dev
    <3>3. [dev EXCEPT !.csw.status = main.status] \in Dev
        BY <3>1, Zenon DEF Dev, Csw
    <3> QED BY <1>12, <3>2, <3>3 DEF CheckReset
  <2>2. main' \in Main /\ main'.pc \in {"poll", "residue"}
    <3>1. 0 \in Lens
        BY MaxLenAssumption DEF Lens
    <3>2. PICK pc \in {"poll", "residue"} : Leaves(pc)
        BY <1>12 DEF CheckReset
    <3>3. main' \in Main /\ main'.pc = pc
        BY <1>0, <3>1, <3>2, Zenon DEF Leaves, Pcs, Main
    <3> QED BY <3>3
  <2> QED BY <1>12, <2>1, <2>2 DEF CheckReset
<1>13. ASSUME NEW s \in Dev, MainSendsCsw(s)
       PROVE  dev' \in Dev /\ main' \in Main /\ main'.pc = "runHalt" /\ main'.call = "csw"
    BY <1>0, <1>13, SenseType, Zenon DEF MainSendsCsw, Pcs, EP, Main
<1>14. CASE MainTestsResidue
  <2>1. dev.cbw.dir \in EP
      BY CswType
  <2>2. CASE dev.csw.residue # 0
    <3>1. dev' \in Dev
        BY <1>14, <2>1, <2>2, HaltType DEF MainTestsResidue
    <3>2. main' \in Main /\ main'.pc = "abort"
        BY <1>0, <1>14, <2>1, <2>2, Zenon DEF MainTestsResidue, Pcs, Main
    <3> QED BY <1>14, <3>1, <3>2 DEF MainTestsResidue
  <2>3. CASE dev.csw.residue = 0
      BY <1>13, <1>14, <2>3 DEF MainTestsResidue
  <2> QED BY <2>2, <2>3
<1>15. CASE MainAborts
  <2>1. EpAbort(dev, main.ep) \in Dev
      BY EpType, Zenon DEF Main
  <2> QED BY <1>13, <1>15, <2>1 DEF MainAborts
<1>16. CASE WaitTestsBusy
    BY <1>6, <1>16 DEF WaitTestsBusy, Pcs
<1>17. CASE WaitTestsHalt
  <2>1. \E pc \in {"waitSet", "runHalt", "poll"} : Goto(pc)
      BY <1>17 DEF WaitTestsHalt
  <2> QED BY <1>6, <1>17, <2>1 DEF WaitTestsHalt, Pcs
<1>18. CASE WaitRegisters
  <2>1. dev' \in Dev
      BY <1>18, Zenon DEF WaitRegisters, Dev, EP, Callbacks, NoHaltCallbacks
  <2> QED BY <1>6, <1>18, <2>1 DEF WaitRegisters, Pcs
<1> QED BY <1>1, <1>2, <1>3, <1>4, <1>7, <1>8, <1>9, <1>10, <1>11, <1>12,
           <1>14, <1>15, <1>16, <1>17, <1>18 DEF MainStep

LEMMA HostFields ==
    ASSUME NEW h \in Host
    PROVE  /\ h.st \in HostStates /\ h.cmd \in Command /\ h.moved \in Nat
           /\ h.resets \in 0 .. MaxResets
BY Zenon DEF Host

\* The steps of the host leave the main loop alone.
LEMMA HostStepType ==
    ASSUME TypeInv, HostStep \/ ResetStep
    PROVE  TypeInv'
<1> USE DEF TypeInv, TypeOK
<1>1. dev \in Dev /\ main \in Main /\ host \in Host
    OBVIOUS
<1>2. ASSUME dev' \in Dev, host' \in Host, UNCHANGED main
      PROVE  TypeInv'
    BY <1>2 DEF BlockStarted, WaitStarted
<1>3. CASE SendCbw
  <2> PICK c \in Commands, memOk \in BOOLEAN, intact \in BOOLEAN :
          /\ dev' = TransOk([dev EXCEPT !.cbw = c], "OUT", 0, intact, memOk)
          /\ host' = [host EXCEPT !.st = IF c.len > 0 THEN "data" ELSE "status",
                                  !.cmd = c, !.moved = 0]
      BY <1>3, Zenon DEF SendCbw
  <2>1. c \in Command
      BY DEF Commands
  <2>2. [dev EXCEPT !.cbw = c] \in Dev
      BY <1>1, <2>1, Zenon DEF Dev
  <2>3. dev' \in Dev
      BY <2>2, TransOkType DEF EP
  <2>4. (IF c.len > 0 THEN "data" ELSE "status") \in HostStates /\ 0 \in Nat
      BY DEF HostStates
  <2>5. host' \in Host
      BY <1>1, <2>1, <2>4, Zenon DEF Host
  <2> QED BY <1>2, <1>3, <2>3, <2>5 DEF SendCbw
<1>4. ASSUME NEW st \in HostStates, NEW moved \in Nat,
             host' = [host EXCEPT !.moved = moved, !.st = st]
      PROVE  host' \in Host
    BY <1>1, <1>4, Zenon DEF Host
<1>5. ASSUME NEW st \in HostStates, host' = [host EXCEPT !.st = st]
      PROVE  host' \in Host
    BY <1>1, <1>5, Zenon DEF Host
<1>6. ASSUME NEW st \in HostStates, host.resets < MaxResets,
             host' = [host EXCEPT !.st = st, !.resets = @ + 1]
      PROVE  host' \in Host
  <2>1. host.resets + 1 \in 0 .. MaxResets
      BY <1>1, <1>6, HostFields, MaxResetsAssumption
  <2> QED BY <1>1, <1>6, <2>1, Zenon DEF Host
<1>17. \A e \in EP, sent \in Int : TransOk(dev, e, sent, TRUE, TRUE) \in Dev
    BY <1>1, TransOkType, Zenon
<1>7. CASE ReadData
  <2> DEFINE st == IF dev.armed["IN"] = "reply" \/ host.moved + 1 >= host.cmd.len
                   THEN "status" ELSE "data"
  <2>1. InSize \in Nat
    <3>1. dev.cbw.need \in Lens
        BY <1>1, CswType, Zenon DEF Command
    <3> QED BY <3>1, MaxLenAssumption DEF InSize, Lens
  <2>2. host.moved + InSize \in Nat
      BY <1>1, <2>1, HostFields
  <2>3. dev' \in Dev
    <3>1. dev' = TransOk(dev, "IN", InSize, TRUE, TRUE)
        BY <1>7, Zenon DEF ReadData
    <3>2. "IN" \in EP /\ InSize \in Int
        BY <2>1 DEF EP
    <3> QED BY <1>17, <3>1, <3>2, Zenon
  <2>4. st \in HostStates
      BY DEF HostStates
  <2>5. host' = [host EXCEPT !.moved = host.moved + InSize, !.st = st]
      BY <1>7, Zenon DEF ReadData
  <2> HIDE DEF st
  <2>6. host' \in Host
      BY <1>4, <2>2, <2>4, <2>5
  <2> QED BY <1>2, <1>7, <2>3, <2>6 DEF ReadData
<1>8. CASE ReadCsw
  <2>1. dev' \in Dev
    <3>1. dev' = TransOk(dev, "IN", 0, TRUE, TRUE)
        BY <1>8, Zenon DEF ReadCsw
    <3>2. "IN" \in EP /\ 0 \in Int
        BY DEF EP
    <3> QED BY <1>17, <3>1, <3>2, Zenon
  <2> QED BY <1>2, <1>5, <1>8, <2>1 DEF ReadCsw, HostStates
<1>9. CASE WriteData
  <2> DEFINE st == IF host.moved + 1 >= host.cmd.len THEN "status" ELSE "data"
  <2>1. dev' \in Dev
    <3>1. dev' = TransOk(dev, "OUT", 0, TRUE, TRUE)
        BY <1>9, Zenon DEF WriteData
    <3>2. "OUT" \in EP /\ 0 \in Int
        BY DEF EP
    <3> QED BY <1>17, <3>1, <3>2, Zenon
  <2>2. st \in HostStates
      BY DEF HostStates
  <2>3. host' = [host EXCEPT !.moved = host.moved + 1, !.st = st]
      BY <1>9, Zenon DEF WriteData
  <2> HIDE DEF st
  <2>4. host.moved + 1 \in Nat
      BY <1>1, HostFields
  <2>5. host' \in Host
      BY <1>4, <2>2, <2>3, <2>4
  <2> QED BY <1>2, <1>9, <2>1, <2>5 DEF WriteData
<1>10. ASSUME NEW e \in EP, ClearStall(e)
       PROVE  TypeInv'
  <2>1. dev' \in Dev
      BY <1>1, <1>10, EpType DEF ClearStall
  <2>2. host' \in Host
      BY <1>5, <1>10 DEF ClearStall, HostStates
  <2> QED BY <1>2, <1>10, <2>1, <2>2 DEF ClearStall
<1>11. ASSUME NEW e \in EP, RecoveryClears(e)
       PROVE  TypeInv'
  <2>1. dev' \in Dev
      BY <1>1, <1>11, EpType DEF RecoveryClears
  <2>2. host' \in Host
      BY <1>5, <1>11 DEF RecoveryClears, HostStates
  <2> QED BY <1>2, <1>11, <2>1, <2>2 DEF RecoveryClears
<1>12. CASE ResetRecovery
    BY <1>1, <1>2, <1>5, <1>12, ResetType DEF ResetRecovery, HostStates
<1>13. CASE HostBulkReset
    BY <1>1, <1>2, <1>6, <1>13, ResetType
       DEF HostBulkReset, ResetAllowed, HostStates
<1>14. CASE HostBusReset
    BY <1>1, <1>2, <1>6, <1>14, ResetType
       DEF HostBusReset, ResetAllowed, HostStates
<1>15. CASE HostSetConfig
    BY <1>1, <1>2, <1>6, <1>15, ResetType
       DEF HostSetConfig, ResetAllowed, HostStates
<1>16. CASE Enumerate
    BY <1>1, <1>2, <1>5, <1>16, ResetType DEF Enumerate, HostStates
<1> QED BY <1>3, <1>7, <1>8, <1>9, <1>10, <1>11, <1>12, <1>13, <1>14, <1>15,
           <1>16 DEF HostStep, HostProceeds, ResetStep

LEMMA InitType == Init => TypeInv
<1> SUFFICES ASSUME Init PROVE TypeInv
    OBVIOUS
<1>1. 0 \in Lens /\ 0 \in 0 .. MaxResets /\ 0 \in Nat /\ 0 \in Int
    BY MaxLenAssumption, MaxResetsAssumption DEF Lens
<1>2. NoCommand \in Command
    BY <1>1, Zenon DEF NoCommand, Command, Ops, EP, Tags
<1>3. dev \in Dev
    BY <1>1, <1>2, Zenon DEF Init, Dev, NoJob, Callbacks, Payload, Csw, Tags
<1>4. main \in Main
    BY <1>1, Zenon DEF Init, Main, Pcs, EP
<1>5. host \in Host
    BY <1>1, <1>2, Zenon DEF Init, Host, HostStates
<1>6. main.pc = "poll"
    BY DEF Init
<1> QED BY <1>3, <1>4, <1>5, <1>6 DEF TypeInv, TypeOK, BlockStarted, WaitStarted

\* The state of the drivers, of the main loop and of the host has its type in
\* every reachable state, whatever the host does and whenever it resets the
\* device: in particular the count of blocks of udi_msc_trans_block never
\* passes the number that was asked for.
THEOREM TypeCorrect == Spec => []TypeOK
<1>1. Init => TypeInv
    BY InitType
<1>2. TypeInv /\ [Next]_vars => TypeInv'
  <2>1. CASE UNCHANGED vars
      BY <2>1 DEF vars, TypeInv, TypeOK, BlockStarted, WaitStarted
  <2> QED BY <2>1, MainStepType, HostStepType DEF Next
<1>3. TypeInv => TypeOK
    BY DEF TypeInv
<1> QED BY <1>1, <1>2, <1>3, PTL DEF Spec

----------------------------------------------------------------------------
(* The endpoint jobs.                                                      *)

\* What the start of a job does not touch.
Kept(t, s) ==
    /\ t.halted = s.halted /\ t.cfg = s.cfg
    /\ t.enabled = s.enabled /\ t.cbwInvalid = s.cbwInvalid
    /\ t.transReq = s.transReq /\ t.ackTrans = s.ackTrans
    /\ t.abortTrans = s.abortTrans /\ t.resetTrans = s.resetTrans
    /\ t.bRead = s.bRead /\ t.nbBlock = s.nbBlock
    /\ t.cbw = s.cbw /\ t.csw = s.csw

Other(e) == IF e = "IN" THEN "OUT" ELSE "IN"

KeptAt(t, s, e) == t.job[e] = s.job[e] /\ t.armed[e] = s.armed[e]

LEMMA DevFields ==
    ASSUME NEW s \in Dev
    PROVE  /\ \A e \in EP : /\ s.job[e].busy \in BOOLEAN
                            /\ s.job[e].cb \in Callbacks
                            /\ s.armed[e] \in Payload
                            /\ s.halted[e] \in BOOLEAN
                            /\ s.cfg[e] \in BOOLEAN
           /\ s.csw.residue \in Int /\ s.nbBlock \in Lens
           /\ s.cbw.dir \in EP /\ s.cbw.len \in Lens /\ s.cbw.need \in Lens
           /\ s.cbw.tag \in Tags /\ s.cbw.op \in Ops
           /\ s.bRead \in BOOLEAN
BY Zenon DEF Dev, Csw, Command

LEMMA LunType ==
    ASSUME NEW s \in Dev
    PROVE  s.cbw.lun \in {0, 1}
BY Zenon DEF Dev, Command

LEMMA EpRunEffect ==
    ASSUME NEW s \in Dev, NEW e \in EP,
           NEW callback \in Callbacks, NEW payload \in Payload,
           Free(s, e), s.cfg[e]
    PROVE  /\ Running(EpRun(s, e, callback, payload), e, callback, payload)
           /\ KeptAt(EpRun(s, e, callback, payload), s, Other(e))
           /\ Kept(EpRun(s, e, callback, payload), s)
<1> DEFINE t == [s EXCEPT !.job[e] = [busy |-> TRUE, cb |-> callback],
                          !.armed[e] = payload]
<1>1. EpRun(s, e, callback, payload) = t
    BY Zenon DEF EpRun
<1>2. Running(t, e, callback, payload)
    BY Zenon DEF Running, Dev
<1>3. Other(e) \in EP /\ Other(e) # e
    BY DEF EP, Other
<1>4. KeptAt(t, s, Other(e))
    BY <1>3, Zenon DEF KeptAt, Dev
<1>5. Kept(t, s)
    BY Zenon DEF Kept, Dev
<1> QED BY <1>1, <1>2, <1>4, <1>5

LEMMA WaitStallClearEffect ==
    ASSUME NEW s \in Dev, NEW e \in EP, NEW callback \in Callbacks,
           ~s.job[e].busy, s.halted[e]
    PROVE  LET t == WaitStallClear(s, e, callback)
           IN  /\ Running(t, e, callback, s.armed[e])
               /\ KeptAt(t, s, Other(e))
               /\ Kept(t, s)
<1> DEFINE t == [s EXCEPT !.job[e] = [busy |-> TRUE, cb |-> callback]]
<1>1. WaitStallClear(s, e, callback) = t
    BY Zenon DEF WaitStallClear
<1>2. Running(t, e, callback, s.armed[e])
    BY Zenon DEF Running, Dev
<1>3. Other(e) \in EP /\ Other(e) # e
    BY DEF EP, Other
<1>4. KeptAt(t, s, Other(e))
    BY <1>3, Zenon DEF KeptAt, Dev
<1>5. Kept(t, s)
    BY Zenon DEF Kept, Dev
<1> QED BY <1>1, <1>2, <1>4, <1>5

\* The end of a job: nothing armed, not busy, the callback still known.
LEMMA EndEffect ==
    ASSUME NEW s \in Dev, NEW e \in EP
    PROVE  LET t == Release(Disarm(s, e), e)
           IN  /\ t \in Dev /\ Resting(t, e) /\ t.job[e].cb = s.job[e].cb
               /\ KeptAt(t, s, Other(e))
               /\ Kept(t, s)
<1> DEFINE t == Release(Disarm(s, e), e)
<1>1. t \in Dev
    BY DisarmType, ReleaseType
<1>2. t = [s EXCEPT !.armed[e] = "none", !.job[e].busy = FALSE]
    BY Zenon DEF Release, Disarm
<1>3. Other(e) \in EP /\ Other(e) # e
    BY DEF EP, Other
<1>4. Resting(t, e) /\ t.job[e].cb = s.job[e].cb
  <2>1. t.armed[e] = "none"
      BY <1>2, Zenon DEF Dev
  <2>2. t.job = [s.job EXCEPT ![e].busy = FALSE]
      BY <1>2, Zenon DEF Dev
  <2>3. s.job \in [EP -> [busy : BOOLEAN, cb : Callbacks]]
      BY Zenon DEF Dev
  <2>4. t.job[e] = [s.job[e] EXCEPT !.busy = FALSE]
      BY <2>2, <2>3, Zenon
  <2>5. t.job[e].busy = FALSE /\ t.job[e].cb = s.job[e].cb
      BY <2>3, <2>4, Zenon
  <2> QED BY <2>1, <2>5 DEF Resting
<1>5. KeptAt(t, s, Other(e))
    BY <1>2, <1>3, Zenon DEF KeptAt, Dev
<1>6. Kept(t, s)
    BY <1>2, Zenon DEF Kept, Dev
<1> QED BY <1>1, <1>4, <1>5, <1>6

----------------------------------------------------------------------------
(* The restart of the protocol and the status.                             *)

LEMMA CswSendEffect ==
    ASSUME NEW s \in Dev, s.cfg["IN"], Resting(s, "IN")
    PROVE  /\ IF s.halted["IN"]
              THEN Running(CswSend(s), "IN", "csw_send", "none")
              ELSE Running(CswSend(s), "IN", "csw_sent", "csw")
           /\ KeptAt(CswSend(s), s, "OUT")
           /\ Kept(CswSend(s), s)
<1> "IN" \in EP /\ "csw_sent" \in Callbacks /\ "csw_send" \in Callbacks
    /\ "csw" \in Payload /\ Other("IN") = "OUT"
    BY DEF EP, Callbacks, TransCallbacks, NoHaltCallbacks, Payload, Other
<1>1. CASE s.halted["IN"]
  <2>1. CswSend(s) = WaitStallClear(s, "IN", "csw_send")
      BY <1>1 DEF CswSend, RunOrWait, EpRunOk, EpRun, Free
  <2> QED BY <1>1, <2>1, WaitStallClearEffect DEF Resting
<1>2. CASE ~s.halted["IN"]
  <2>1. Free(s, "IN")
      BY <1>2 DEF Free, Resting
  <2>2. CswSend(s) = EpRun(s, "IN", "csw_sent", "csw")
      BY <2>1 DEF CswSend, RunOrWait, EpRunOk
  <2> QED BY <1>2, <2>1, <2>2, EpRunEffect
<1> QED BY <1>1, <1>2

LEMMA CbwWaitEffect ==
    ASSUME NEW s \in Dev, s.cfg["OUT"], Resting(s, "OUT"), ~s.halted["OUT"]
    PROVE  /\ Running(CbwWait(s), "OUT", "cbw_received", "cbw")
           /\ KeptAt(CbwWait(s), s, "IN")
           /\ Kept(CbwWait(s), s)
<1>1. "OUT" \in EP /\ "cbw_received" \in Callbacks /\ "cbw" \in Payload
      /\ Other("OUT") = "IN"
    BY DEF EP, Callbacks, TransCallbacks, NoHaltCallbacks, Payload, Other
<1>2. Free(s, "OUT")
    BY DEF Free, Resting
<1>3. CbwWait(s) = EpRun(s, "OUT", "cbw_received", "cbw")
    BY <1>2 DEF CbwWait, RunOrWait, EpRunOk
<1> QED BY <1>1, <1>2, <1>3, EpRunEffect

\* What the device has made of a command that is answered at once.
Answered(t, s) ==
    /\ t \in Dev /\ Healthy(t) /\ StatusQueued(t)
    /\ t.cbw = s.cbw /\ t.transReq = s.transReq
    /\ t.csw.tag = s.cbw.tag /\ t.csw.residue = s.csw.residue
    /\ \A e \in EP : t.halted[e] <=> s.csw.residue # 0 /\ e = s.cbw.dir

LEMMA HaltRestingEffect ==
    ASSUME NEW s \in Dev, NEW e \in EP, Quiet(s)
    PROVE  LET t == EpSetHalt(s, e)
           IN  /\ t \in Dev /\ Quiet(t)
               /\ t.halted = [s.halted EXCEPT ![e] = TRUE]
               /\ t.cbw = s.cbw /\ t.csw = s.csw /\ t.transReq = s.transReq
<1> DEFINE u == [s EXCEPT !.halted[e] = TRUE]
           t == [u EXCEPT !.armed[e] = "none"]
<1>1. u \in Dev /\ t \in Dev
    BY HaltType, DisarmType, Zenon DEF Halt, Disarm
<1>2. ~s.job[e].busy
    BY DEF Quiet, Resting, EP
<1>3. u.job = s.job
    BY Zenon DEF Dev
<1>4. EpSetHalt(s, e) = t
    BY <1>2, <1>3, Zenon DEF EpSetHalt, EpAbort, Halt, Disarm
<1>5. /\ t.halted = [s.halted EXCEPT ![e] = TRUE]
      /\ t.job = s.job /\ t.cfg = s.cfg
      /\ t.armed = [s.armed EXCEPT ![e] = "none"]
      /\ t.enabled = s.enabled /\ t.cbwInvalid = s.cbwInvalid
      /\ t.cbw = s.cbw /\ t.csw = s.csw /\ t.transReq = s.transReq
    BY Zenon DEF Dev
<1>6. s.armed \in [EP -> Payload]
    BY Zenon DEF Dev
<1>7. \A f \in EP : t.armed[f] = "none"
    BY <1>5, <1>6 DEF Quiet, Resting, EP
<1> QED BY <1>1, <1>4, <1>5, <1>7 DEF Quiet, Healthy, Resting, EP

LEMMA CswProcessEffect ==
    ASSUME NEW s \in Dev, Quiet(s), Unstalled(s)
    PROVE  Answered(CswProcess(s), s)
<1> DEFINE u == StallResidue(s)
           v == TagCsw(u)
<1>1. s.csw.residue \in Int /\ s.cbw.dir \in EP
      /\ s.halted \in [EP -> BOOLEAN]
    BY DevFields, Zenon DEF Dev
<1>2. /\ u \in Dev /\ Quiet(u)
      /\ u.cbw = s.cbw /\ u.csw = s.csw /\ u.transReq = s.transReq
      /\ \A e \in EP : u.halted[e] <=> s.csw.residue # 0 /\ e = s.cbw.dir
  <2>1. CASE s.csw.residue = 0
      BY <2>1 DEF StallResidue, Unstalled
  <2>2. CASE s.csw.residue # 0
    <3>1. u = EpSetHalt(s, s.cbw.dir)
        BY <2>2 DEF StallResidue
    <3>2. u.halted = [s.halted EXCEPT ![s.cbw.dir] = TRUE]
        BY <1>1, <3>1, HaltRestingEffect
    <3>3. \A e \in EP : u.halted[e] <=> e = s.cbw.dir
        BY <1>1, <3>2 DEF Unstalled
    <3>4. /\ u \in Dev /\ Quiet(u)
          /\ u.cbw = s.cbw /\ u.csw = s.csw /\ u.transReq = s.transReq
      <4> DEFINE w == EpSetHalt(s, s.cbw.dir)
      <4>1. /\ w \in Dev /\ Quiet(w)
            /\ w.cbw = s.cbw /\ w.csw = s.csw /\ w.transReq = s.transReq
          BY <1>1, HaltRestingEffect
      <4> QED BY <3>1, <4>1, Zenon
    <3> QED BY <2>2, <3>3, <3>4
  <2> QED BY <2>1, <2>2
<1> HIDE DEF u
<1>3. /\ v \in Dev
      /\ v.job = u.job /\ v.armed = u.armed /\ v.halted = u.halted
      /\ v.cfg = u.cfg /\ v.enabled = u.enabled
      /\ v.cbwInvalid = u.cbwInvalid /\ v.transReq = u.transReq
      /\ v.cbw = u.cbw
      /\ v.csw.tag = u.cbw.tag /\ v.csw.residue = u.csw.residue
    BY <1>2, SenseType, Zenon DEF TagCsw, Dev, Csw
<1>4. CswProcess(s) = CswSend(v)
    BY DEF CswProcess, u
<1> HIDE DEF v
<1>5. Quiet(v)
    BY <1>2, <1>3 DEF Quiet, Healthy, Resting
<1>6. CswSend(v) \in Dev
    BY <1>3, RestartType
<1> QED BY <1>2, <1>3, <1>4, <1>5, <1>6, CswSendEffect
        DEF Answered, StatusQueued, Quiet, Healthy, Kept, KeptAt, Resting, Running

LEMMA CswFailEffect ==
    ASSUME NEW s \in Dev, Quiet(s), Unstalled(s)
    PROVE  Answered(CswFail(s), s)
<1> DEFINE u == SenseFail(s)
<1>1. u \in Dev
    BY SenseType
<1>2. /\ u.job = s.job /\ u.armed = s.armed /\ u.halted = s.halted
      /\ u.cfg = s.cfg /\ u.enabled = s.enabled
      /\ u.cbwInvalid = s.cbwInvalid /\ u.transReq = s.transReq
      /\ u.cbw = s.cbw /\ u.csw.residue = s.csw.residue
    BY Zenon DEF SenseFail, Dev, Csw
<1>3. Quiet(u) /\ Unstalled(u)
    BY <1>2 DEF Quiet, Healthy, Resting, Unstalled
<1>4. Answered(CswProcess(u), u)
    BY <1>1, <1>3, CswProcessEffect
<1> QED BY <1>2, <1>4 DEF CswFail, Answered

----------------------------------------------------------------------------
(* The decoding of a command.                                              *)

\* A reply goes out ...
Replying(t, s) ==
    /\ t \in Dev /\ Healthy(t) /\ Unstalled(t)
    /\ Running(t, "IN", "data_sent", "reply") /\ Resting(t, "OUT")
    /\ t.cbw = s.cbw /\ t.transReq = s.transReq
    /\ t.csw.residue = s.csw.residue
    /\ s.cbw.op = "reply" /\ s.cbw.dir = "IN" /\ s.cbw.need <= s.csw.residue

\* ... or blocks are requested from the main loop.
Requested(t, s) ==
    /\ t \in Dev /\ Quiet(t) /\ Unstalled(t)
    /\ t.cbw = s.cbw /\ t.transReq
    /\ t.csw.residue = s.csw.residue
    /\ (t.bRead <=> s.cbw.dir = "IN")
    /\ t.nbBlock <= s.csw.residue /\ t.nbBlock = s.cbw.need

LEMMA ReplyEffect ==
    ASSUME NEW s \in Dev, NEW memOk \in BOOLEAN, Quiet(s), Unstalled(s),
           s.cbw.op = "reply"
    PROVE  Answered(Reply(s, memOk), s) \/ Replying(Reply(s, memOk), s)
<1>1. CASE ~Valid(s, s.cbw.need, "IN") \/ ~memOk
    BY <1>1, CswFailEffect DEF Reply
<1>2. CASE Valid(s, s.cbw.need, "IN") /\ memOk
  <2> DEFINE t == EpRun(s, "IN", "data_sent", "reply")
  <2>1. "IN" \in EP /\ "data_sent" \in Callbacks /\ "reply" \in Payload
        /\ Other("IN") = "OUT"
      BY DEF EP, Callbacks, TransCallbacks, Payload, Other
  <2>2. Free(s, "IN") /\ s.cfg["IN"]
      BY DEF Free, Quiet, Healthy, Resting, Unstalled, EP
  <2>3. Reply(s, memOk) = t
      BY <1>2, <2>2 DEF Reply, DataSend, EpRunOk
  <2>4. /\ t \in Dev
        /\ Running(t, "IN", "data_sent", "reply")
        /\ KeptAt(t, s, "OUT") /\ Kept(t, s)
      BY <2>1, <2>2, EpRunEffect, EpRunType
  <2> HIDE DEF t
  <2>5. s.cbw.dir = "IN" /\ s.cbw.need <= s.csw.residue
      BY <1>2, DevFields, MaxLenAssumption DEF Valid, Lens
  <2>6. Replying(t, s)
      BY <2>4, <2>5 DEF Replying, Quiet, Healthy, Unstalled, Resting, Kept, KeptAt
  <2> QED BY <2>3, <2>6
<1> QED BY <1>1, <1>2

LEMMA SbcTransEffect ==
    ASSUME NEW s \in Dev, NEW read \in BOOLEAN, NEW memOk \in BOOLEAN,
           Quiet(s), Unstalled(s)
    PROVE  LET t == SbcTrans(s, read, memOk)
           IN  Answered(t, s) \/ Requested(t, s)
<1> DEFINE u == [s EXCEPT !.nbBlock = s.cbw.need]
           v == [u EXCEPT !.bRead = read, !.transReq = TRUE]
           t == SbcTrans(s, read, memOk)
           dir == IF read THEN "IN" ELSE "OUT"
<1>1. s.cbw.need \in Lens /\ s.csw.residue \in Int /\ s.cbw.dir \in EP
    BY DevFields
<1>2. /\ u \in Dev /\ v \in Dev
      /\ u.job = s.job /\ u.armed = s.armed /\ u.halted = s.halted
      /\ u.cfg = s.cfg /\ u.enabled = s.enabled
      /\ u.cbwInvalid = s.cbwInvalid /\ u.transReq = s.transReq
      /\ u.cbw = s.cbw /\ u.csw = s.csw /\ u.nbBlock = s.cbw.need
    BY <1>1, Zenon DEF Dev
<1>3. /\ v.job = s.job /\ v.armed = s.armed /\ v.halted = s.halted
      /\ v.cfg = s.cfg /\ v.enabled = s.enabled
      /\ v.cbwInvalid = s.cbwInvalid /\ v.transReq = TRUE
      /\ v.cbw = s.cbw /\ v.csw = s.csw /\ v.nbBlock = s.cbw.need
      /\ v.bRead = read
    BY <1>1, Zenon DEF Dev
<1>4. CASE ~read /\ ~memOk
    BY <1>4, CswFailEffect DEF SbcTrans
<1>5. CASE ~(~read /\ ~memOk)
  <2>1. t = IF Valid(u, u.nbBlock, dir) THEN v ELSE CswFail(u)
      BY <1>5, Zenon DEF SbcTrans
  <2> HIDE DEF u, v, t
  <2>2. CASE Valid(u, u.nbBlock, dir)
    <3>1. s.cbw.dir = dir /\ s.csw.residue >= s.cbw.need
        BY <1>2, <2>2 DEF Valid
    <3>2. v.bRead <=> s.cbw.dir = "IN"
        BY <1>3, <3>1
    <3>3. v.nbBlock <= s.csw.residue
        BY <1>1, <1>3, <3>1, MaxLenAssumption DEF Lens
    <3>4. Quiet(v) /\ Unstalled(v)
        BY <1>3 DEF Quiet, Healthy, Resting, Unstalled
    <3>5. t = v
        BY <2>1, <2>2
    <3>6. Requested(v, s)
        BY <1>2, <1>3, <3>2, <3>3, <3>4 DEF Requested
    <3> QED BY <3>5, <3>6 DEF t
  <2>3. CASE ~Valid(u, u.nbBlock, dir)
    <3>1. Quiet(u) /\ Unstalled(u)
        BY <1>2 DEF Quiet, Healthy, Resting, Unstalled
    <3>2. Answered(CswFail(u), u)
        BY <1>2, <3>1, CswFailEffect
    <3>3. Answered(t, s)
        BY <1>2, <2>1, <2>3, <3>2 DEF Answered
    <3> QED BY <3>3 DEF t
  <2> QED BY <2>2, <2>3
<1> QED BY <1>4, <1>5

LEMMA DecodeEffect ==
    ASSUME NEW s \in Dev, NEW memOk \in BOOLEAN, Quiet(s), Unstalled(s)
    PROVE  LET t == Decode(s, memOk)
           IN  Answered(t, s) \/ Replying(t, s) \/ Requested(t, s)
<1>1. s.cbw.op \in Ops
    BY DevFields
<1>2. CASE s.cbw.op = "reply"
    BY <1>2, ReplyEffect DEF Decode
<1>3. CASE s.cbw.op = "read"
  <2>1. Decode(s, memOk) = SbcTrans(s, TRUE, memOk)
      BY <1>3, Zenon DEF Decode
  <2> QED BY <2>1, SbcTransEffect, Zenon
<1>4. CASE s.cbw.op = "write"
  <2>1. Decode(s, memOk) = SbcTrans(s, FALSE, memOk)
      BY <1>4, Zenon DEF Decode
  <2> QED BY <2>1, SbcTransEffect, Zenon
<1>5. CASE s.cbw.op = "plain"
  <2> DEFINE u == IF memOk THEN SensePass(s) ELSE SenseFail(s)
  <2>1. /\ u \in Dev
        /\ u.job = s.job /\ u.armed = s.armed /\ u.halted = s.halted
        /\ u.cfg = s.cfg /\ u.enabled = s.enabled
        /\ u.cbwInvalid = s.cbwInvalid /\ u.transReq = s.transReq
        /\ u.cbw = s.cbw /\ u.csw.residue = s.csw.residue
      BY SenseType, Zenon DEF SensePass, SenseFail, Dev, Csw
  <2>2. Decode(s, memOk) = CswProcess(u)
      BY <1>5, Zenon DEF Decode
  <2> HIDE DEF u
  <2>3. Quiet(u) /\ Unstalled(u)
      BY <2>1 DEF Quiet, Healthy, Resting, Unstalled
  <2>4. Answered(CswProcess(u), u)
      BY <2>1, <2>3, CswProcessEffect
  <2> QED BY <2>1, <2>2, <2>4 DEF Answered
<1> QED BY <1>1, <1>2, <1>3, <1>4, <1>5 DEF Ops

\* A command wrapper arrives at a device that listens.
LEMMA CommandEffect ==
    ASSUME NEW s \in Dev, NEW c \in Command, NEW memOk \in BOOLEAN,
           Healthy(s), Unstalled(s), ~s.transReq, c.lun <= MaxLun,
           s.job["OUT"].cb = "cbw_received", Resting(s, "IN")
    PROVE  \E r \in Dev :
               LET t == TransOk([s EXCEPT !.cbw = c], "OUT", 0, TRUE, memOk)
               IN  /\ r.cbw = c /\ r.csw.residue = c.len /\ ~r.transReq
                   /\ Answered(t, r) \/ Replying(t, r) \/ Requested(t, r)
<1> DEFINE u == [s EXCEPT !.cbw = c]
           v == Release(Disarm(u, "OUT"), "OUT")
           r == [v EXCEPT !.csw.residue = v.cbw.len]
           t == TransOk(u, "OUT", 0, TRUE, memOk)
<1>1. /\ u \in Dev
      /\ u.job = s.job /\ u.armed = s.armed /\ u.halted = s.halted
      /\ u.cfg = s.cfg /\ u.enabled = s.enabled
      /\ u.cbwInvalid = s.cbwInvalid /\ u.transReq = s.transReq
      /\ u.cbw = c
    BY Zenon DEF Dev
<1> HIDE DEF u
<1>2. /\ v \in Dev /\ Resting(v, "OUT") /\ v.job["OUT"].cb = u.job["OUT"].cb
      /\ KeptAt(v, u, Other("OUT")) /\ Kept(v, u)
    BY <1>1, EndEffect, Zenon DEF EP
<1>3. v.job["OUT"].cb = "cbw_received"
    BY <1>1, <1>2
<1>4. t = CbwReceived(v, TRUE, memOk)
    BY <1>3, Zenon DEF TransOk
<1> HIDE DEF v
<1>5. v.cbw.lun <= MaxLun /\ v.cbw = c
    BY <1>1, <1>2 DEF Kept
<1>6. v.cbw.len \in Int
    BY <1>2, DevFields, MaxLenAssumption DEF Lens
<1>7. /\ r \in Dev
      /\ r.job = v.job /\ r.armed = v.armed /\ r.halted = v.halted
      /\ r.cfg = v.cfg /\ r.enabled = v.enabled
      /\ r.cbwInvalid = v.cbwInvalid /\ r.transReq = v.transReq
      /\ r.cbw = v.cbw /\ r.csw.residue = v.cbw.len
    BY <1>2, <1>6, ResidueType, Zenon DEF Dev, Csw
<1>8. t = Decode(r, memOk)
  <2>1. ~(v.cbw.lun > MaxLun)
      BY <1>2, <1>5, LunType DEF MaxLun
  <2>2. CbwReceived(v, TRUE, memOk) = Decode(r, memOk)
      BY <2>1 DEF CbwReceived
  <2> QED BY <1>4, <2>2
<1> HIDE DEF r
<1>9. Quiet(r) /\ Unstalled(r)
    BY <1>1, <1>2, <1>7
       DEF Quiet, Healthy, Unstalled, Resting, Kept, KeptAt, Other
<1>10. Answered(t, r) \/ Replying(t, r) \/ Requested(t, r)
    BY <1>7, <1>8, <1>9, DecodeEffect, Zenon
<1>11. r.cbw = c /\ r.csw.residue = c.len /\ ~r.transReq
    BY <1>1, <1>2, <1>5, <1>7 DEF Kept
<1> QED BY <1>7, <1>10, <1>11, Zenon DEF u

LEMMA DataSentEffect ==
    ASSUME NEW s \in Dev, NEW sent \in Int, Quiet(s), Unstalled(s)
    PROVE  \E r \in Dev : /\ r.cbw = s.cbw /\ r.transReq = s.transReq
                          /\ r.csw.residue = s.csw.residue - sent
                          /\ Answered(DataSent(s, sent), r)
<1> DEFINE u == SensePass(s)
           n == s.csw.residue - sent
           r == [u EXCEPT !.csw.residue = n]
<1>1. u \in Dev /\ n \in Int
    BY SenseType, DevFields
<1>2. /\ u.job = s.job /\ u.armed = s.armed /\ u.halted = s.halted
      /\ u.cfg = s.cfg /\ u.enabled = s.enabled
      /\ u.cbwInvalid = s.cbwInvalid /\ u.transReq = s.transReq
      /\ u.cbw = s.cbw /\ u.csw.residue = s.csw.residue
    BY Zenon DEF SensePass, Dev, Csw
<1>3. DataSent(s, sent) = CswProcess(r)
    BY <1>2, Zenon DEF DataSent
<1> HIDE DEF u, n
<1>4. /\ r \in Dev
      /\ r.job = u.job /\ r.armed = u.armed /\ r.halted = u.halted
      /\ r.cfg = u.cfg /\ r.enabled = u.enabled
      /\ r.cbwInvalid = u.cbwInvalid /\ r.transReq = u.transReq
      /\ r.cbw = u.cbw /\ r.csw.residue = n
    BY <1>1, ResidueType, Zenon DEF Dev, Csw
<1> HIDE DEF r
<1>5. Quiet(r) /\ Unstalled(r)
    BY <1>2, <1>4 DEF Quiet, Healthy, Resting, Unstalled
<1>6. Answered(CswProcess(r), r)
    BY <1>4, <1>5, CswProcessEffect
<1>7. r.cbw = s.cbw /\ r.transReq = s.transReq /\ r.csw.residue = n
    BY <1>2, <1>4
<1>8. Answered(DataSent(s, sent), r)
    BY <1>3, <1>6, Zenon
<1> QED BY <1>4, <1>7, <1>8, Zenon DEF n

\* A block has crossed the bus: the main loop is told.
Acknowledged(t, s, e) ==
    /\ Resting(t, e) /\ t.job[e].cb = s.job[e].cb
    /\ KeptAt(t, s, Other(e))
    /\ t.halted = s.halted /\ t.cfg = s.cfg
    /\ t.enabled = s.enabled /\ t.cbwInvalid = s.cbwInvalid
    /\ t.transReq = s.transReq /\ t.resetTrans = s.resetTrans
    /\ t.cbw = s.cbw /\ t.csw = s.csw
    /\ t.ackTrans /\ ~t.abortTrans

LEMMA BlockAckEffect ==
    ASSUME NEW s \in Dev, NEW e \in EP, NEW sent \in Int,
           s.job[e].cb = "trans_ack"
    PROVE  Acknowledged(TransOk(s, e, sent, TRUE, TRUE), s, e)
<1> DEFINE v == Release(Disarm(s, e), e)
           t == [v EXCEPT !.abortTrans = FALSE, !.ackTrans = TRUE]
<1>1. /\ v \in Dev /\ Resting(v, e) /\ v.job[e].cb = s.job[e].cb
      /\ KeptAt(v, s, Other(e)) /\ Kept(v, s)
    BY EndEffect, Zenon
<1>2. TransOk(s, e, sent, TRUE, TRUE) = t
    BY <1>1, Zenon DEF TransOk
<1> HIDE DEF v
<1>3. /\ t.job = v.job /\ t.armed = v.armed /\ t.halted = v.halted
      /\ t.cfg = v.cfg /\ t.enabled = v.enabled
      /\ t.cbwInvalid = v.cbwInvalid /\ t.transReq = v.transReq
      /\ t.resetTrans = v.resetTrans
      /\ t.cbw = v.cbw /\ t.csw = v.csw
      /\ t.ackTrans /\ ~t.abortTrans
    BY <1>1, Zenon DEF Dev
<1> HIDE DEF t
<1>4. Acknowledged(t, s, e)
    BY <1>1, <1>3 DEF Acknowledged, Resting, Kept, KeptAt
<1> QED BY <1>2, <1>4, Zenon

LEMMA UnhaltFields ==
    ASSUME NEW s \in Dev, NEW e \in EP
    PROVE  LET t == Unhalt(s, e)
           IN  /\ t \in Dev /\ t.job = s.job /\ t.armed = s.armed
               /\ ~t.halted[e] /\ t.halted[Other(e)] = s.halted[Other(e)]
               /\ t.cfg = s.cfg /\ t.enabled = s.enabled
               /\ t.cbwInvalid = s.cbwInvalid /\ t.transReq = s.transReq
               /\ t.cbw = s.cbw /\ t.csw = s.csw
<1>1. Other(e) \in EP /\ Other(e) # e
    BY DEF EP, Other
<1>2. Unhalt(s, e) \in Dev
    BY HaltType
<1> QED BY <1>1, <1>2, Zenon DEF Unhalt, Dev

LEMMA ReleaseFields ==
    ASSUME NEW s \in Dev, NEW e \in EP
    PROVE  LET t == Release(s, e)
           IN  /\ t \in Dev
               /\ ~t.job[e].busy /\ t.job[e].cb = s.job[e].cb
               /\ KeptAt(t, s, Other(e)) /\ t.armed = s.armed /\ Kept(t, s)
<1> DEFINE t == Release(s, e)
<1>1. Other(e) \in EP /\ Other(e) # e
    BY DEF EP, Other
<1>2. s.job \in [EP -> [busy : BOOLEAN, cb : Callbacks]]
    BY Zenon DEF Dev
<1>3. t.job = [s.job EXCEPT ![e].busy = FALSE]
    BY Zenon DEF Release, Dev
<1>4. t.job[e] = [s.job[e] EXCEPT !.busy = FALSE]
    BY <1>2, <1>3, Zenon
<1>5. t.job[e].busy = FALSE /\ t.job[e].cb = s.job[e].cb
    BY <1>2, <1>4, Zenon
<1>6. t.job[Other(e)] = s.job[Other(e)]
    BY <1>1, <1>2, <1>3, Zenon
<1>7. t.armed = s.armed
    BY Zenon DEF Release, Dev
<1>8. Kept(t, s)
    BY Zenon DEF Release, Kept, Dev
<1>9. KeptAt(t, s, Other(e))
    BY <1>6, <1>7, Zenon DEF KeptAt
<1> QED BY <1>5, <1>7, <1>8, <1>9, ReleaseType

\* The end of a halt that nobody waits for.
LEMMA UnhaltEffect ==
    ASSUME NEW s \in Dev, NEW e \in EP, ~s.job[e].busy
    PROVE  LET t == EpClearHalt(s, e)
           IN  /\ t.job = s.job /\ t.armed = s.armed
               /\ ~t.halted[e] /\ t.halted[Other(e)] = s.halted[Other(e)]
               /\ t.cfg = s.cfg /\ t.enabled = s.enabled
               /\ t.cbwInvalid = s.cbwInvalid /\ t.transReq = s.transReq
               /\ t.cbw = s.cbw /\ t.csw = s.csw
<1>1. EpClearHalt(s, e) = Unhalt(s, e)
    BY DEF EpClearHalt
<1> QED BY <1>1, UnhaltFields

\* The end of the halt that the status waits for.
LEMMA UnhaltStatusEffect ==
    ASSUME NEW s \in Dev, s.cfg["IN"], ~s.halted["OUT"],
           Running(s, "IN", "csw_send", "none")
    PROVE  LET t == EpClearHalt(s, "IN")
           IN  /\ Running(t, "IN", "csw_sent", "csw") /\ KeptAt(t, s, "OUT")
               /\ Unstalled(t)
               /\ t.cfg = s.cfg /\ t.enabled = s.enabled
               /\ t.cbwInvalid = s.cbwInvalid /\ t.transReq = s.transReq
               /\ t.cbw = s.cbw /\ t.csw = s.csw
<1> DEFINE u == Unhalt(s, "IN")
           v == Release(u, "IN")
           t == CswSend(v)
<1>1. "IN" \in EP /\ Other("IN") = "OUT"
    BY DEF EP, Other
<1>2. s.job["IN"].busy /\ s.job["IN"].cb = "csw_send" /\ s.armed["IN"] = "none"
    BY DEF Running
<1>3. EpClearHalt(s, "IN") = NotOk(v, "IN")
    BY <1>2, Zenon DEF EpClearHalt
<1>4. /\ u \in Dev /\ u.job = s.job /\ u.armed = s.armed
      /\ ~u.halted["IN"] /\ u.halted["OUT"] = s.halted["OUT"]
      /\ u.cfg = s.cfg /\ u.enabled = s.enabled
      /\ u.cbwInvalid = s.cbwInvalid /\ u.transReq = s.transReq
      /\ u.cbw = s.cbw /\ u.csw = s.csw
    BY <1>1, UnhaltFields
<1> HIDE DEF u
<1>5. /\ v \in Dev
      /\ ~v.job["IN"].busy /\ v.job["IN"].cb = u.job["IN"].cb
      /\ KeptAt(v, u, "OUT") /\ v.armed = u.armed /\ Kept(v, u)
    BY <1>1, <1>4, ReleaseFields
<1> HIDE DEF v
<1>6. NotOk(v, "IN") = t
    BY <1>2, <1>4, <1>5, Zenon DEF NotOk
<1>7. v.cfg["IN"] /\ Resting(v, "IN") /\ ~v.halted["IN"]
    BY <1>2, <1>4, <1>5 DEF Resting, Kept
<1>8. /\ Running(t, "IN", "csw_sent", "csw")
      /\ KeptAt(t, v, "OUT")
      /\ Kept(t, v)
    BY <1>5, <1>7, CswSendEffect
<1> HIDE DEF t
<1>9. /\ KeptAt(t, s, "OUT") /\ Unstalled(t)
      /\ t.cfg = s.cfg /\ t.enabled = s.enabled
      /\ t.cbwInvalid = s.cbwInvalid /\ t.transReq = s.transReq
      /\ t.cbw = s.cbw /\ t.csw = s.csw
    BY <1>4, <1>5, <1>8 DEF Kept, KeptAt, Unstalled, EP
<1> QED BY <1>3, <1>6, <1>8, <1>9, Zenon

\* The end of the halt that the next command waits for.
LEMMA UnhaltWaitEffect ==
    ASSUME NEW s \in Dev, Healthy(s), ~s.halted["IN"],
           Running(s, "OUT", "cbw_wait", "none"), Resting(s, "IN")
    PROVE  LET t == EpClearHalt(s, "OUT")
           IN  /\ Running(t, "OUT", "cbw_received", "cbw") /\ Resting(t, "IN")
               /\ Unstalled(t) /\ Healthy(t) /\ t.transReq = s.transReq
<1> DEFINE u == Unhalt(s, "OUT")
           v == Release(u, "OUT")
           t == CbwWait(v)
<1>1. "OUT" \in EP /\ Other("OUT") = "IN"
    BY DEF EP, Other
<1>2. s.job["OUT"].busy /\ s.job["OUT"].cb = "cbw_wait" /\ s.armed["OUT"] = "none"
    BY DEF Running
<1>3. EpClearHalt(s, "OUT") = NotOk(v, "OUT")
    BY <1>2, Zenon DEF EpClearHalt
<1>4. /\ u \in Dev /\ u.job = s.job /\ u.armed = s.armed
      /\ ~u.halted["OUT"] /\ u.halted["IN"] = s.halted["IN"]
      /\ u.cfg = s.cfg /\ u.enabled = s.enabled
      /\ u.cbwInvalid = s.cbwInvalid /\ u.transReq = s.transReq
    BY <1>1, UnhaltFields
<1> HIDE DEF u
<1>5. /\ v \in Dev
      /\ ~v.job["OUT"].busy /\ v.job["OUT"].cb = u.job["OUT"].cb
      /\ KeptAt(v, u, "IN") /\ v.armed = u.armed /\ Kept(v, u)
    BY <1>1, <1>4, ReleaseFields
<1> HIDE DEF v
<1>6. NotOk(v, "OUT") = t
    BY <1>2, <1>4, <1>5, Zenon DEF NotOk
<1>7. v.cfg["OUT"] /\ Resting(v, "OUT") /\ ~v.halted["OUT"]
    BY <1>2, <1>4, <1>5 DEF Resting, Kept, Healthy
<1>8. /\ Running(t, "OUT", "cbw_received", "cbw")
      /\ KeptAt(t, v, "IN")
      /\ Kept(t, v)
    BY <1>5, <1>7, CbwWaitEffect
<1> HIDE DEF t
<1>9. Resting(t, "IN") /\ Unstalled(t) /\ Healthy(t) /\ t.transReq = s.transReq
    BY <1>4, <1>5, <1>8 DEF Kept, KeptAt, Unstalled, Healthy, Resting, EP
<1> QED BY <1>3, <1>6, <1>8, <1>9, Zenon

\* udd_ep_clear_halt on the reception of a command: the buffer stays armed, its
\* callback stays known, and the job is no longer busy.
LEMMA UnhaltReceptionEffect ==
    ASSUME NEW s \in Dev, Running(s, "OUT", "cbw_received", "cbw")
    PROVE  LET t == EpClearHalt(s, "OUT")
           IN  /\ ~t.job["OUT"].busy /\ t.job["OUT"].cb = "cbw_received"
               /\ t.armed["OUT"] = "cbw" /\ KeptAt(t, s, "IN")
               /\ ~t.halted["OUT"] /\ t.halted["IN"] = s.halted["IN"]
               /\ t.cfg = s.cfg /\ t.enabled = s.enabled
               /\ t.cbwInvalid = s.cbwInvalid /\ t.transReq = s.transReq
<1> DEFINE u == Unhalt(s, "OUT")
           v == Release(u, "OUT")
<1>1. "OUT" \in EP /\ Other("OUT") = "IN"
    BY DEF EP, Other
<1>2. s.job["OUT"].busy /\ s.job["OUT"].cb = "cbw_received" /\ s.armed["OUT"] = "cbw"
    BY DEF Running
<1>3. EpClearHalt(s, "OUT") = NotOk(v, "OUT")
    BY <1>2, Zenon DEF EpClearHalt
<1>4. /\ u \in Dev /\ u.job = s.job /\ u.armed = s.armed
      /\ ~u.halted["OUT"] /\ u.halted["IN"] = s.halted["IN"]
      /\ u.cfg = s.cfg /\ u.enabled = s.enabled
      /\ u.cbwInvalid = s.cbwInvalid /\ u.transReq = s.transReq
    BY <1>1, UnhaltFields
<1> HIDE DEF u
<1>5. /\ v \in Dev
      /\ ~v.job["OUT"].busy /\ v.job["OUT"].cb = u.job["OUT"].cb
      /\ KeptAt(v, u, "IN") /\ v.armed = u.armed /\ Kept(v, u)
    BY <1>1, <1>4, ReleaseFields
<1> HIDE DEF v
<1>6. NotOk(v, "OUT") = v
    BY <1>2, <1>4, <1>5, Zenon DEF NotOk
<1>7. /\ ~v.job["OUT"].busy /\ v.job["OUT"].cb = "cbw_received"
      /\ v.armed["OUT"] = "cbw" /\ KeptAt(v, s, "IN")
      /\ ~v.halted["OUT"] /\ v.halted["IN"] = s.halted["IN"]
      /\ v.cfg = s.cfg /\ v.enabled = s.enabled
      /\ v.cbwInvalid = s.cbwInvalid /\ v.transReq = s.transReq
    BY <1>2, <1>4, <1>5 DEF Kept, KeptAt
<1> QED BY <1>3, <1>6, <1>7, Zenon

----------------------------------------------------------------------------
(* A bad wrapper, and the clears that do not end its halts.                *)

\* udi_msc_cbw_invalid and udi_msc_csw_invalid on an endpoint at rest.
LEMMA InvalidEffect ==
    ASSUME NEW s \in Dev, NEW e \in EP, NEW callback \in NoHaltCallbacks,
           ~s.job[e].busy
    PROVE  LET t == WaitStallClear(EpSetHalt(s, e), e, callback)
           IN  /\ t \in Dev /\ Running(t, e, callback, "none")
               /\ t.halted[e] /\ t.halted[Other(e)] = s.halted[Other(e)]
               /\ KeptAt(t, s, Other(e))
               /\ t.cfg = s.cfg /\ t.enabled = s.enabled
               /\ t.cbwInvalid = s.cbwInvalid /\ t.transReq = s.transReq
<1> DEFINE u == [s EXCEPT !.halted[e] = TRUE]
           v == [u EXCEPT !.armed[e] = "none"]
           t == WaitStallClear(v, e, callback)
<1>1. u \in Dev /\ v \in Dev
    BY HaltType, DisarmType, Zenon DEF Halt, Disarm
<1>2. u.job = s.job
    BY Zenon DEF Dev
<1>3. EpSetHalt(s, e) = v
    BY <1>2, Zenon DEF EpSetHalt, EpAbort, Halt, Disarm
<1>4. Other(e) \in EP /\ Other(e) # e /\ callback \in Callbacks
    BY DEF EP, Other, Callbacks
<1>5. /\ v.job = s.job /\ v.armed[e] = "none" /\ v.halted[e]
      /\ v.armed[Other(e)] = s.armed[Other(e)]
      /\ v.halted[Other(e)] = s.halted[Other(e)]
      /\ v.cfg = s.cfg /\ v.enabled = s.enabled
      /\ v.cbwInvalid = s.cbwInvalid /\ v.transReq = s.transReq
    BY <1>4, Zenon DEF Dev
<1> HIDE DEF v
<1>6. /\ Running(t, e, callback, v.armed[e])
      /\ KeptAt(t, v, Other(e)) /\ Kept(t, v)
    BY <1>1, <1>4, <1>5, WaitStallClearEffect, Zenon
<1>7. t \in Dev
    BY <1>1, <1>4, WaitStallClearType
<1> HIDE DEF t
<1>8. /\ Running(t, e, callback, "none")
      /\ t.halted[e] /\ t.halted[Other(e)] = s.halted[Other(e)]
      /\ KeptAt(t, s, Other(e))
      /\ t.cfg = s.cfg /\ t.enabled = s.enabled
      /\ t.cbwInvalid = s.cbwInvalid /\ t.transReq = s.transReq
    BY <1>5, <1>6 DEF Kept, KeptAt
<1> QED BY <1>3, <1>7, <1>8, Zenon DEF t

\* A bad wrapper arrives at a device that listens.
LEMMA BadCommandEffect ==
    ASSUME NEW s \in Dev, NEW c \in Command, NEW memOk \in BOOLEAN,
           Healthy(s), s.job["OUT"].cb = "cbw_received", Resting(s, "IN")
    PROVE  LET t == TransOk([s EXCEPT !.cbw = c], "OUT", 0, FALSE, memOk)
           IN  Spoilt(t) /\ t.transReq = s.transReq
<1> DEFINE u == [s EXCEPT !.cbw = c]
           v == Release(Disarm(u, "OUT"), "OUT")
           w == [v EXCEPT !.cbwInvalid = TRUE]
           x == WaitStallClear(EpSetHalt(w, "OUT"), "OUT", "cbw_invalid")
           y == WaitStallClear(EpSetHalt(x, "IN"), "IN", "csw_invalid")
           t == TransOk(u, "OUT", 0, FALSE, memOk)
<1>0. /\ "IN" \in EP /\ "OUT" \in EP /\ Other("IN") = "OUT" /\ Other("OUT") = "IN"
      /\ "cbw_invalid" \in NoHaltCallbacks /\ "csw_invalid" \in NoHaltCallbacks
    BY DEF EP, Other, NoHaltCallbacks
<1>1. /\ u \in Dev
      /\ u.job = s.job /\ u.armed = s.armed
      /\ u.cfg = s.cfg /\ u.enabled = s.enabled /\ u.transReq = s.transReq
    BY Zenon DEF Dev
<1> HIDE DEF u
<1>2. /\ v \in Dev /\ Resting(v, "OUT") /\ v.job["OUT"].cb = u.job["OUT"].cb
      /\ KeptAt(v, u, "IN") /\ Kept(v, u)
    BY <1>0, <1>1, EndEffect
<1>3. t = y
  <2>1. v.job["OUT"].cb = "cbw_received"
      BY <1>1, <1>2
  <2>2. t = CbwReceived(v, FALSE, memOk)
      BY <2>1, Zenon DEF TransOk
  <2> QED BY <2>2, Zenon DEF CbwReceived
<1> HIDE DEF v
<1>4. /\ w \in Dev /\ w.cbwInvalid
      /\ w.job = v.job /\ w.armed = v.armed
      /\ w.cfg = v.cfg /\ w.enabled = v.enabled /\ w.transReq = v.transReq
    BY <1>2, Zenon DEF Dev
<1> HIDE DEF w
<1>5. /\ x \in Dev /\ Running(x, "OUT", "cbw_invalid", "none") /\ x.halted["OUT"]
      /\ KeptAt(x, w, "IN")
      /\ x.cfg = w.cfg /\ x.enabled = w.enabled
      /\ x.cbwInvalid = w.cbwInvalid /\ x.transReq = w.transReq
  <2>1. ~w.job["OUT"].busy
      BY <1>2, <1>4 DEF Resting
  <2>2. "OUT" \in EP /\ "cbw_invalid" \in NoHaltCallbacks /\ w \in Dev
      BY <1>0, <1>4
  <2>3. /\ x \in Dev /\ Running(x, "OUT", "cbw_invalid", "none") /\ x.halted["OUT"]
        /\ KeptAt(x, w, Other("OUT"))
        /\ x.cfg = w.cfg /\ x.enabled = w.enabled
        /\ x.cbwInvalid = w.cbwInvalid /\ x.transReq = w.transReq
      BY <2>1, <2>2, InvalidEffect
  <2> QED BY <1>0, <2>3
<1> HIDE DEF x
<1>6. /\ Running(y, "IN", "csw_invalid", "none") /\ y.halted["IN"]
      /\ y.halted["OUT"] = x.halted["OUT"] /\ KeptAt(y, x, "OUT")
      /\ y.cfg = x.cfg /\ y.enabled = x.enabled
      /\ y.cbwInvalid = x.cbwInvalid /\ y.transReq = x.transReq
  <2>1. ~x.job["IN"].busy
      BY <1>1, <1>2, <1>4, <1>5 DEF Resting, KeptAt
  <2>2. /\ Running(y, "IN", "csw_invalid", "none") /\ y.halted["IN"]
        /\ y.halted[Other("IN")] = x.halted[Other("IN")]
        /\ KeptAt(y, x, Other("IN"))
        /\ y.cfg = x.cfg /\ y.enabled = x.enabled
        /\ y.cbwInvalid = x.cbwInvalid /\ y.transReq = x.transReq
      BY <1>0, <1>5, <2>1, InvalidEffect
  <2> QED BY <1>0, <2>2
<1> HIDE DEF y
<1>7. /\ y.cfg["IN"] /\ y.cfg["OUT"] /\ y.enabled /\ y.cbwInvalid
      /\ y.transReq = s.transReq
    BY <1>1, <1>2, <1>4, <1>5, <1>6 DEF Healthy, Kept
<1>8. /\ y.halted["IN"] /\ y.armed["IN"] = "none" /\ y.job["IN"].busy
      /\ y.job["IN"].cb = "csw_invalid"
    BY <1>6 DEF Running
<1>9. /\ y.halted["OUT"] /\ y.armed["OUT"] = "none" /\ y.job["OUT"].busy
      /\ y.job["OUT"].cb = "cbw_invalid"
    BY <1>5, <1>6 DEF Running, KeptAt
<1>10. Spoilt(y) /\ y.transReq = s.transReq
    BY <1>7, <1>8, <1>9 DEF Spoilt, EP
<1> QED BY <1>3, <1>10, Zenon DEF t, u

\* The end of a halt after a bad wrapper: the pipe is stalled again.
LEMMA RestallEffect ==
    ASSUME NEW s \in Dev, NEW e \in EP, Spoilt(s)
    PROVE  LET t == EpClearHalt(s, e)
           IN  Spoilt(t) /\ t.transReq = s.transReq
<1> DEFINE u == Unhalt(s, e)
           v == Release(u, e)
           callback == v.job[e].cb
           w == Halt(Disarm(v, e), e)
           t == WaitStallClear(w, e, callback)
<1>0. Other(e) \in EP /\ Other(e) # e /\ EP = {e, Other(e)}
    BY DEF EP, Other
<1>1. /\ s.job[e].busy /\ s.job[e].cb \in {"cbw_invalid", "csw_invalid"}
    BY DEF Spoilt
<1>2. /\ u \in Dev /\ u.job = s.job /\ u.armed = s.armed
      /\ u.halted[Other(e)] = s.halted[Other(e)]
      /\ u.cfg = s.cfg /\ u.enabled = s.enabled
      /\ u.cbwInvalid = s.cbwInvalid /\ u.transReq = s.transReq
    BY UnhaltFields
<1>3. EpClearHalt(s, e) = NotOk(v, e)
    BY <1>1, Zenon DEF EpClearHalt
<1> HIDE DEF u
<1>4. /\ v \in Dev
      /\ ~v.job[e].busy /\ v.job[e].cb = u.job[e].cb
      /\ KeptAt(v, u, Other(e)) /\ v.armed = u.armed /\ Kept(v, u)
    BY <1>2, ReleaseFields
<1> HIDE DEF v
<1>5. callback \in {"cbw_invalid", "csw_invalid"} /\ callback \in Callbacks
    BY <1>1, <1>2, <1>4 DEF Callbacks, NoHaltCallbacks
<1>6. NotOk(v, e) = t
  <2>1. v.cbwInvalid
      BY <1>2, <1>4 DEF Kept, Spoilt
  <2>2. NotOk(v, e) = Restall(v, e, callback)
      BY <1>5 DEF NotOk
  <2> QED BY <2>1, <2>2 DEF Restall
<1>7. /\ w \in Dev /\ w.job = v.job /\ w.armed[e] = "none" /\ w.halted[e]
      /\ w.armed[Other(e)] = v.armed[Other(e)]
      /\ w.halted[Other(e)] = v.halted[Other(e)]
      /\ w.cfg = v.cfg /\ w.enabled = v.enabled
      /\ w.cbwInvalid = v.cbwInvalid /\ w.transReq = v.transReq
  <2>1. Disarm(v, e) \in Dev
      BY <1>4, DisarmType
  <2>2. w \in Dev
      BY <2>1, HaltType
  <2> QED BY <1>0, <1>4, <2>1, <2>2, Zenon DEF Halt, Disarm, Dev
<1> HIDE DEF w
<1> HIDE DEF callback
<1>8. /\ Running(t, e, callback, w.armed[e])
      /\ KeptAt(t, w, Other(e)) /\ Kept(t, w)
    BY <1>4, <1>5, <1>7, WaitStallClearEffect
<1> HIDE DEF t
<1>9. /\ t.cfg["IN"] /\ t.cfg["OUT"] /\ t.enabled /\ t.cbwInvalid
      /\ t.transReq = s.transReq
    BY <1>2, <1>4, <1>7, <1>8 DEF Spoilt, Kept
<1>10. /\ t.halted[e] /\ t.armed[e] = "none" /\ t.job[e].busy
       /\ t.job[e].cb \in {"cbw_invalid", "csw_invalid"}
    BY <1>5, <1>7, <1>8 DEF Running, Kept
<1>11. /\ t.halted[Other(e)] /\ t.armed[Other(e)] = "none" /\ t.job[Other(e)].busy
       /\ t.job[Other(e)].cb \in {"cbw_invalid", "csw_invalid"}
    BY <1>0, <1>2, <1>4, <1>7, <1>8 DEF Spoilt, Kept, KeptAt
<1>12. Spoilt(t) /\ t.transReq = s.transReq
    BY <1>0, <1>9, <1>10, <1>11 DEF Spoilt
<1> QED BY <1>3, <1>6, <1>12, Zenon

----------------------------------------------------------------------------
(* What a reset makes of the endpoints.                                    *)

\* No pipe is stalled, and each job that runs is a transfer; the status is
\* never sent beside a transfer of OUT.
Abortable(s) ==
    /\ Unstalled(s) /\ ~s.cbwInvalid
    /\ s.job["OUT"].busy => s.job["OUT"].cb \in {"cbw_received", "trans_ack"}
    /\ s.job["IN"].busy  => s.job["IN"].cb \in {"data_sent", "csw_sent", "trans_ack"}
    /\ s.job["IN"].busy /\ s.job["IN"].cb = "csw_sent" => ~s.job["OUT"].busy

\* A block whose end the main loop waits for.
Awaited(s, e) == s.job[e].busy /\ s.job[e].cb = "trans_ack"

LEMMA DisarmFields ==
    ASSUME NEW s \in Dev, NEW e \in EP
    PROVE  LET t == Disarm(s, e)
           IN  /\ t \in Dev /\ t.job = s.job
               /\ t.armed[e] = "none" /\ t.armed[Other(e)] = s.armed[Other(e)]
               /\ Kept(t, s)
<1>1. Other(e) \in EP /\ Other(e) # e
    BY DEF EP, Other
<1>2. Disarm(s, e) \in Dev
    BY DisarmType
<1>3. /\ Disarm(s, e).job = s.job /\ Disarm(s, e).armed[e] = "none"
      /\ Disarm(s, e).armed[Other(e)] = s.armed[Other(e)]
    BY <1>1, Zenon DEF Disarm, Dev
<1>4. Kept(Disarm(s, e), s)
    BY Zenon DEF Disarm, Kept, Dev
<1> QED BY <1>2, <1>3, <1>4

\* A CBW reception takes the job of OUT even when the bank then refuses.
LEMMA CbwWaitTakesJob ==
    ASSUME NEW s \in Dev, ~s.job["OUT"].busy, ~s.halted["OUT"]
    PROVE  LET t == CbwWait(s)
           IN  /\ t \in Dev
               /\ t.job["OUT"].busy /\ t.job["OUT"].cb = "cbw_received"
               /\ KeptAt(t, s, "IN") /\ Kept(t, s)
               /\ s.cfg["OUT"] => t.armed["OUT"] = "cbw"
<1> DEFINE payload == IF s.cfg["OUT"] THEN "cbw" ELSE s.armed["OUT"]
           t == [s EXCEPT !.job["OUT"]   = [busy |-> TRUE, cb |-> "cbw_received"],
                          !.armed["OUT"] = payload]
<1>1. "OUT" \in EP /\ "IN" \in EP
    BY DEF EP
<1>2. EpRun(s, "OUT", "cbw_received", "cbw") = t
    BY Zenon DEF EpRun, Free
<1> HIDE DEF payload
<1>3. /\ t.job["OUT"] = [busy |-> TRUE, cb |-> "cbw_received"]
      /\ t.armed["OUT"] = payload
      /\ KeptAt(t, s, "IN") /\ Kept(t, s)
    BY <1>1, Zenon DEF KeptAt, Kept, Dev
<1> HIDE DEF t
<1>4. t.job["OUT"].busy /\ t.job["OUT"].cb = "cbw_received"
    BY <1>3
<1>5. CbwWait(s) = t
    BY <1>2, <1>4 DEF CbwWait, RunOrWait, EpRunOk, WaitStallClear
<1>6. CbwWait(s) \in Dev
    BY RestartType
<1>7. /\ t \in Dev /\ t.job["OUT"].busy /\ t.job["OUT"].cb = "cbw_received"
      /\ KeptAt(t, s, "IN") /\ Kept(t, s)
      /\ s.cfg["OUT"] => t.armed["OUT"] = "cbw"
    BY <1>3, <1>4, <1>5, <1>6 DEF payload
<1> QED BY <1>5, <1>7, Zenon

\* A reception that runs is not started again.
LEMMA CbwWaitAgain ==
    ASSUME NEW s \in Dev, s.job["OUT"].busy
    PROVE  CbwWait(s) = s
BY DEF CbwWait, RunOrWait, EpRunOk, EpRun, WaitStallClear, Free

\* A job that is aborted ends; a status that is aborted starts the wait for the
\* next command, and a block that is aborted is reported to the main loop.
LEMMA AbortEffect ==
    ASSUME NEW s \in Dev, NEW e \in EP, Abortable(s)
    PROVE  LET t == EpAbort(s, e)
           IN  /\ t \in Dev /\ Resting(t, e) /\ Abortable(t)
               /\ t.cfg = s.cfg /\ t.enabled = s.enabled
               /\ t.transReq = s.transReq /\ t.resetTrans = s.resetTrans
               /\ Awaited(s, e) => t.ackTrans /\ t.abortTrans
               /\ s.ackTrans => t.ackTrans
               /\ s.abortTrans => t.abortTrans
               /\ \/ KeptAt(t, s, Other(e))
                  \/ /\ e = "IN" /\ t.job["OUT"].busy
                     /\ t.job["OUT"].cb = "cbw_received"
                     /\ s.cfg["OUT"] => t.armed["OUT"] = "cbw"
                     /\ ~s.job["OUT"].busy
<1> DEFINE t == EpAbort(s, e)
           v == Release(Disarm(s, e), e)
<1>0. Other(e) \in EP /\ Other(e) # e /\ EP = {e, Other(e)} /\ EP = {"IN", "OUT"}
    BY DEF EP, Other
<1>1. t \in Dev
    BY EpType
<1>2. CASE ~s.job[e].busy
  <2>1. t = Disarm(s, e)
      BY <1>2 DEF EpAbort
  <2> HIDE DEF t
  <2>2. /\ t.job = s.job /\ t.armed[e] = "none"
        /\ t.armed[Other(e)] = s.armed[Other(e)] /\ Kept(t, s)
      BY <2>1, DisarmFields
  <2>3. Abortable(t)
      BY <2>2 DEF Abortable, Unstalled, Kept
  <2>4. Resting(t, e) /\ KeptAt(t, s, Other(e)) /\ ~Awaited(s, e)
      BY <1>2, <2>2 DEF Resting, KeptAt, Awaited
  <2>5. /\ t \in Dev /\ Resting(t, e) /\ Abortable(t)
        /\ t.cfg = s.cfg /\ t.enabled = s.enabled
        /\ t.transReq = s.transReq /\ t.resetTrans = s.resetTrans
        /\ t.ackTrans = s.ackTrans /\ t.abortTrans = s.abortTrans
        /\ KeptAt(t, s, Other(e)) /\ ~Awaited(s, e)
      BY <1>1, <2>2, <2>3, <2>4 DEF Kept
  <2> QED BY <2>5 DEF t
<1>3. CASE s.job[e].busy
  <2>1. t = NotOk(v, e)
      BY <1>3, Zenon DEF EpAbort
  <2>2. /\ v \in Dev /\ Resting(v, e) /\ v.job[e].cb = s.job[e].cb
        /\ KeptAt(v, s, Other(e)) /\ Kept(v, s)
      BY EndEffect
  <2> HIDE DEF v
  <2>3. Abortable(v)
      BY <1>0, <2>2 DEF Abortable, Unstalled, Kept, KeptAt, Resting
  <2>4. CASE s.job[e].cb \in {"cbw_received", "data_sent"}
    <3>1. t = v
        BY <2>1, <2>2, <2>4 DEF NotOk
    <3>2. ~Awaited(s, e)
        BY <2>4 DEF Awaited
    <3> HIDE DEF t
    <3>3. /\ t \in Dev /\ Resting(t, e) /\ Abortable(t)
          /\ t.cfg = s.cfg /\ t.enabled = s.enabled
          /\ t.transReq = s.transReq /\ t.resetTrans = s.resetTrans
          /\ t.ackTrans = s.ackTrans /\ t.abortTrans = s.abortTrans
          /\ KeptAt(t, s, Other(e))
        BY <2>2, <2>3, <3>1 DEF Kept
    <3> QED BY <3>2, <3>3 DEF t
  <2>5. CASE s.job[e].cb = "trans_ack"
    <3>1. t = [v EXCEPT !.abortTrans = TRUE, !.ackTrans = TRUE]
        BY <2>1, <2>2, <2>5, Zenon DEF NotOk
    <3> HIDE DEF t
    <3>2. /\ t.job = v.job /\ t.armed = v.armed /\ t.halted = v.halted
          /\ t.cfg = v.cfg /\ t.enabled = v.enabled
          /\ t.cbwInvalid = v.cbwInvalid /\ t.transReq = v.transReq
          /\ t.resetTrans = v.resetTrans /\ t.ackTrans /\ t.abortTrans
        BY <2>2, <3>1, Zenon DEF Dev
    <3>3. Abortable(t)
        BY <2>3, <3>2 DEF Abortable, Unstalled
    <3>4. /\ Resting(t, e) /\ KeptAt(t, s, Other(e))
          /\ t.cfg = s.cfg /\ t.enabled = s.enabled
          /\ t.transReq = s.transReq /\ t.resetTrans = s.resetTrans
        BY <2>2, <3>2 DEF Resting, Kept, KeptAt
    <3> QED BY <1>1, <3>2, <3>3, <3>4 DEF t
  <2>6. CASE s.job[e].cb = "csw_sent"
    <3>1. e = "IN" /\ ~s.job["OUT"].busy /\ Other(e) = "OUT"
        BY <1>0, <1>3, <2>6 DEF Abortable, Other
    <3>2. t = CbwWait(v)
        BY <2>1, <2>2, <2>6 DEF NotOk
    <3>3. ~v.job["OUT"].busy /\ ~v.halted["OUT"]
        BY <1>0, <2>2, <2>3, <3>1 DEF KeptAt, Abortable, Unstalled
    <3> HIDE DEF t
    <3>4. /\ t.job["OUT"].busy /\ t.job["OUT"].cb = "cbw_received"
          /\ KeptAt(t, v, "IN") /\ Kept(t, v)
          /\ v.cfg["OUT"] => t.armed["OUT"] = "cbw"
        BY <2>2, <3>2, <3>3, CbwWaitTakesJob
    <3>5. Resting(t, "IN") /\ Abortable(t)
        BY <2>2, <2>3, <3>1, <3>4 DEF Resting, Abortable, Unstalled, Kept, KeptAt
    <3>6. ~Awaited(s, e)
        BY <2>6 DEF Awaited
    <3>7. /\ t.cfg = s.cfg /\ t.enabled = s.enabled
          /\ t.transReq = s.transReq /\ t.resetTrans = s.resetTrans
          /\ t.ackTrans = s.ackTrans /\ t.abortTrans = s.abortTrans
        BY <2>2, <3>4 DEF Kept
    <3> QED BY <1>1, <2>2, <3>1, <3>4, <3>5, <3>6, <3>7 DEF t, Kept
  <2> QED BY <1>0, <1>3, <2>4, <2>5, <2>6 DEF Abortable
<1> QED BY <1>2, <1>3

\* The device listens for a command, and nothing else runs.
Listens(s) ==
    /\ Healthy(s) /\ Unstalled(s) /\ ~s.transReq
    /\ Running(s, "OUT", "cbw_received", "cbw") /\ Resting(s, "IN")

LEMMA RunningJob ==
    ASSUME NEW s \in Dev, NEW e \in EP,
           s.job[e].busy, s.job[e].cb = "cbw_received", s.armed[e] = "cbw"
    PROVE  Running(s, e, "cbw_received", "cbw")
<1>1. s.job[e] \in [busy : BOOLEAN, cb : Callbacks]
    BY Zenon DEF Dev
<1>2. s.job[e] = [busy |-> TRUE, cb |-> "cbw_received"]
    BY <1>1
<1> QED BY <1>2 DEF Running

LEMMA BulkResetEffect ==
    ASSUME NEW s \in Dev, Abortable(s), Healthy(s)
    PROVE  Listens(BulkReset(s))
<1> DEFINE u == [s EXCEPT !.cbwInvalid = FALSE, !.transReq = FALSE]
           v == EpAbort(u, "OUT")
           w == EpAbort(v, "IN")
           t == CbwWait(w)
<1>0. "IN" \in EP /\ "OUT" \in EP /\ Other("OUT") = "IN" /\ Other("IN") = "OUT"
      /\ EP = {"IN", "OUT"}
    BY DEF EP, Other
<1>1. /\ u \in Dev /\ u.job = s.job /\ u.armed = s.armed /\ u.halted = s.halted
      /\ u.cfg = s.cfg /\ u.enabled = s.enabled
      /\ ~u.cbwInvalid /\ ~u.transReq
    BY Zenon DEF Dev
<1>2. BulkReset(s) = t
    BY DEF BulkReset
<1> HIDE DEF u
<1>3. Abortable(u)
    BY <1>1 DEF Abortable, Unstalled
<1>4. /\ v \in Dev /\ Resting(v, "OUT") /\ Abortable(v)
      /\ v.cfg = s.cfg /\ v.enabled = s.enabled /\ ~v.transReq
    BY <1>0, <1>1, <1>3, AbortEffect
<1> HIDE DEF v
<1>5. /\ w \in Dev /\ Resting(w, "IN") /\ Abortable(w)
      /\ w.cfg = s.cfg /\ w.enabled = s.enabled /\ ~w.transReq
      /\ \/ Resting(w, "OUT")
         \/ /\ w.job["OUT"].busy /\ w.job["OUT"].cb = "cbw_received"
            /\ w.armed["OUT"] = "cbw"
  <2>1. /\ w \in Dev /\ Resting(w, "IN") /\ Abortable(w)
        /\ w.cfg = v.cfg /\ w.enabled = v.enabled /\ w.transReq = v.transReq
        /\ \/ KeptAt(w, v, Other("IN"))
           \/ /\ w.job["OUT"].busy /\ w.job["OUT"].cb = "cbw_received"
              /\ v.cfg["OUT"] => w.armed["OUT"] = "cbw"
      BY <1>0, <1>4, AbortEffect
  <2> HIDE DEF w
  <2> QED BY <1>0, <1>4, <2>1 DEF KeptAt, Resting, Healthy
<1> HIDE DEF w
<1>6. Healthy(w) /\ Unstalled(w)
    BY <1>5 DEF Healthy, Abortable
<1>7. CASE Resting(w, "OUT")
  <2>1. /\ Running(t, "OUT", "cbw_received", "cbw")
        /\ KeptAt(t, w, "IN") /\ Kept(t, w)
      BY <1>0, <1>5, <1>6, <1>7, CbwWaitEffect DEF Healthy, Unstalled
  <2> HIDE DEF t
  <2>2. Listens(t)
      BY <1>5, <1>6, <2>1
         DEF Listens, Healthy, Unstalled, Resting, Kept, KeptAt
  <2> QED BY <1>2, <2>2
<1>8. CASE /\ w.job["OUT"].busy /\ w.job["OUT"].cb = "cbw_received"
           /\ w.armed["OUT"] = "cbw"
  <2>1. t = w
      BY <1>5, <1>8, CbwWaitAgain
  <2>2. Running(w, "OUT", "cbw_received", "cbw")
      BY <1>0, <1>5, <1>8, RunningJob
  <2>3. Listens(w)
      BY <1>5, <1>6, <2>2 DEF Listens
  <2> QED BY <1>2, <2>1, <2>3
<1> QED BY <1>5, <1>7, <1>8

\* The reset recovery from a bad wrapper: the halts stay until the host clears
\* them, and the end of that of OUT is waited for.
LEMMA SpoiltAbortEffect ==
    ASSUME NEW s \in Dev, NEW e \in EP, ~s.cbwInvalid,
           s.job[e].cb \in {"cbw_invalid", "csw_invalid"}
    PROVE  LET t == EpAbort(s, e)
           IN  t \in Dev /\ Resting(t, e) /\ KeptAt(t, s, Other(e)) /\ Kept(t, s)
<1> DEFINE t == EpAbort(s, e)
           v == Release(Disarm(s, e), e)
<1>1. CASE ~s.job[e].busy
  <2>1. t = Disarm(s, e)
      BY <1>1 DEF EpAbort
  <2> HIDE DEF t
  <2>2. /\ t \in Dev /\ t.job = s.job /\ t.armed[e] = "none"
        /\ t.armed[Other(e)] = s.armed[Other(e)] /\ Kept(t, s)
      BY <2>1, DisarmFields
  <2>3. Resting(t, e) /\ KeptAt(t, s, Other(e))
      BY <1>1, <2>2 DEF Resting, KeptAt
  <2> QED BY <2>2, <2>3 DEF t
<1>2. CASE s.job[e].busy
  <2>1. t = NotOk(v, e)
      BY <1>2, Zenon DEF EpAbort
  <2>2. /\ v \in Dev /\ Resting(v, e) /\ v.job[e].cb = s.job[e].cb
        /\ KeptAt(v, s, Other(e)) /\ Kept(v, s)
      BY EndEffect
  <2> HIDE DEF v
  <2>3. ~v.cbwInvalid
      BY <2>2 DEF Kept
  <2>4. t = v
      BY <2>1, <2>2, <2>3 DEF NotOk, Restall
  <2> QED BY <2>2, <2>4
<1> QED BY <1>1, <1>2

LEMMA BulkResetSpoiltEffect ==
    ASSUME NEW s \in Dev, Spoilt(s)
    PROVE  LET t == BulkReset(s)
           IN  /\ Healthy(t) /\ ~t.transReq /\ Resting(t, "IN")
               /\ t.halted["OUT"] /\ Running(t, "OUT", "cbw_wait", "none")
<1> DEFINE u == [s EXCEPT !.cbwInvalid = FALSE, !.transReq = FALSE]
           v == EpAbort(u, "OUT")
           w == EpAbort(v, "IN")
           t == CbwWait(w)
<1>0. "IN" \in EP /\ "OUT" \in EP /\ Other("OUT") = "IN" /\ Other("IN") = "OUT"
      /\ EP = {"IN", "OUT"} /\ "cbw_wait" \in Callbacks
    BY DEF EP, Other, Callbacks, NoHaltCallbacks
<1>1. /\ u \in Dev /\ u.job = s.job /\ u.armed = s.armed /\ u.halted = s.halted
      /\ u.cfg = s.cfg /\ u.enabled = s.enabled
      /\ ~u.cbwInvalid /\ ~u.transReq
    BY Zenon DEF Dev
<1>2. BulkReset(s) = t
    BY DEF BulkReset
<1> HIDE DEF u
<1>3. /\ v \in Dev /\ Resting(v, "OUT") /\ KeptAt(v, u, "IN") /\ Kept(v, u)
  <2>1. u.job["OUT"].cb \in {"cbw_invalid", "csw_invalid"}
      BY <1>0, <1>1 DEF Spoilt
  <2> QED BY <1>0, <1>1, <2>1, SpoiltAbortEffect
<1> HIDE DEF v
<1>4. /\ w \in Dev /\ Resting(w, "IN") /\ KeptAt(w, v, "OUT") /\ Kept(w, v)
  <2>1. v.job["IN"].cb \in {"cbw_invalid", "csw_invalid"} /\ ~v.cbwInvalid
      BY <1>0, <1>1, <1>3 DEF Spoilt, Kept, KeptAt
  <2> QED BY <1>0, <1>3, <2>1, SpoiltAbortEffect
<1> HIDE DEF w
<1>5. /\ Resting(w, "OUT") /\ w.halted["OUT"] /\ Healthy(w) /\ ~w.transReq
    BY <1>0, <1>1, <1>3, <1>4 DEF Spoilt, Healthy, Resting, Kept, KeptAt
<1>6. t = WaitStallClear(w, "OUT", "cbw_wait")
    BY <1>5 DEF CbwWait, RunOrWait, EpRunOk, EpRun, Free
<1> HIDE DEF t
<1>7. /\ Running(t, "OUT", "cbw_wait", w.armed["OUT"])
      /\ KeptAt(t, w, "IN") /\ Kept(t, w)
    BY <1>0, <1>4, <1>5, <1>6, WaitStallClearEffect DEF Resting
<1>8. /\ Healthy(t) /\ ~t.transReq /\ Resting(t, "IN")
      /\ t.halted["OUT"] /\ Running(t, "OUT", "cbw_wait", "none")
    BY <1>4, <1>5, <1>7 DEF Healthy, Resting, Kept, KeptAt
<1> QED BY <1>2, <1>8

\* Both endpoints are freed, and the main loop has been told.
Freed(s) ==
    /\ Unstalled(s) /\ ~s.cbwInvalid /\ ~s.transReq
    /\ \A e \in EP : Resting(s, e) /\ ~s.cfg[e]

LEMMA EpFreeEffect ==
    ASSUME NEW s \in Dev, NEW e \in EP, Abortable(s)
    PROVE  LET t == EpFree(s, e)
           IN  /\ t \in Dev /\ Resting(t, e) /\ Abortable(t) /\ ~t.cfg[e]
               /\ t.cfg[Other(e)] = s.cfg[Other(e)]
               /\ Awaited(s, e) => t.abortTrans
               /\ s.abortTrans => t.abortTrans
               /\ e = "OUT" => KeptAt(t, s, "IN")
               /\ e = "IN" /\ Awaited(s, "OUT") => Awaited(t, "OUT")
<1> DEFINE a == EpAbort(s, e)
           t == [a EXCEPT !.cfg[e] = FALSE]
<1>0. Other(e) \in EP /\ Other(e) # e /\ (e = "OUT" => Other(e) = "IN")
      /\ (e = "IN" => Other(e) = "OUT")
    BY DEF EP, Other
<1>1. EpFree(s, e) = t
    BY DEF EpFree
<1>2. /\ a \in Dev /\ Resting(a, e) /\ Abortable(a)
      /\ a.cfg = s.cfg
      /\ Awaited(s, e) => a.ackTrans /\ a.abortTrans
      /\ s.abortTrans => a.abortTrans
      /\ \/ KeptAt(a, s, Other(e))
         \/ /\ e = "IN" /\ a.job["OUT"].busy
            /\ a.job["OUT"].cb = "cbw_received"
            /\ s.cfg["OUT"] => a.armed["OUT"] = "cbw"
            /\ ~s.job["OUT"].busy
    BY AbortEffect
<1> HIDE DEF a
<1>3. /\ t \in Dev /\ t.job = a.job /\ t.armed = a.armed /\ t.halted = a.halted
      /\ ~t.cfg[e] /\ t.cfg[Other(e)] = a.cfg[Other(e)]
      /\ t.cbwInvalid = a.cbwInvalid /\ t.abortTrans = a.abortTrans
    BY <1>0, <1>2, Zenon DEF Dev
<1> HIDE DEF t
<1>4. Resting(t, e) /\ Abortable(t)
    BY <1>2, <1>3 DEF Resting, Abortable, Unstalled
<1>5. e = "OUT" => KeptAt(t, s, "IN")
    BY <1>0, <1>2, <1>3 DEF KeptAt
<1>6. e = "IN" /\ Awaited(s, "OUT") => Awaited(t, "OUT")
    BY <1>0, <1>2, <1>3 DEF KeptAt, Awaited
<1> QED BY <1>1, <1>2, <1>3, <1>4, <1>5, <1>6

LEMMA IfaceDisableEffect ==
    ASSUME NEW s \in Dev, Abortable(s)
    PROVE  LET t == IfaceDisable(s)
           IN  /\ t \in Dev /\ Freed(t) /\ t.resetTrans /\ t.ackTrans
               /\ (\E e \in EP : Awaited(s, e)) => t.abortTrans
<1> DEFINE u == EpFree(s, "IN")
           v == EpFree(u, "OUT")
           t == [v EXCEPT !.transReq = FALSE, !.ackTrans = TRUE,
                          !.resetTrans = TRUE, !.enabled = FALSE]
<1>0. "IN" \in EP /\ "OUT" \in EP /\ Other("OUT") = "IN" /\ Other("IN") = "OUT"
      /\ EP = {"IN", "OUT"}
    BY DEF EP, Other
<1>1. IfaceDisable(s) = t
    BY DEF IfaceDisable
<1>2. /\ u \in Dev /\ Resting(u, "IN") /\ Abortable(u) /\ ~u.cfg["IN"]
      /\ Awaited(s, "IN") => u.abortTrans
      /\ Awaited(s, "OUT") => Awaited(u, "OUT")
    BY <1>0, EpFreeEffect
<1> HIDE DEF u
<1>3. /\ v \in Dev /\ Resting(v, "OUT") /\ Abortable(v) /\ ~v.cfg["OUT"]
      /\ v.cfg["IN"] = u.cfg["IN"] /\ KeptAt(v, u, "IN")
      /\ Awaited(u, "OUT") => v.abortTrans
      /\ u.abortTrans => v.abortTrans
    BY <1>0, <1>2, EpFreeEffect
<1> HIDE DEF v
<1>4. /\ t \in Dev /\ t.job = v.job /\ t.armed = v.armed /\ t.halted = v.halted
      /\ t.cfg = v.cfg /\ t.cbwInvalid = v.cbwInvalid
      /\ t.abortTrans = v.abortTrans
      /\ ~t.transReq /\ t.ackTrans /\ t.resetTrans
    BY <1>3, Zenon DEF Dev
<1> HIDE DEF t
<1>5. Freed(t)
    BY <1>0, <1>2, <1>3, <1>4 DEF Freed, Abortable, Unstalled, Resting, KeptAt
<1>6. (\E e \in EP : Awaited(s, e)) => t.abortTrans
    BY <1>0, <1>2, <1>3, <1>4
<1> QED BY <1>1, <1>4, <1>5, <1>6

\* The reset of the line, seen by a configured device.
LEMMA BusResetEffect ==
    ASSUME NEW s \in Dev, Abortable(s), s.cfg["IN"], NEW keepHalt \in BOOLEAN
    PROVE  LET t == BusReset(s, keepHalt)
           IN  /\ t \in Dev /\ Freed(t) /\ t.resetTrans /\ t.ackTrans
               /\ (\E e \in EP : Awaited(s, e)) => t.abortTrans
<1> DEFINE u == LineReset(s, keepHalt)
<1>1. BusReset(s, keepHalt) = IfaceDisable(u)
    BY DEF BusReset, Configured
<1>2. /\ u \in Dev /\ u.job = s.job /\ u.cbwInvalid = s.cbwInvalid
      /\ u.halted = [e \in EP |-> keepHalt /\ s.halted[e]]
    BY Zenon DEF LineReset, Dev, Payload
<1> HIDE DEF u
<1>3. Unstalled(u)
    BY <1>2 DEF Unstalled, Abortable
<1>4. Abortable(u) /\ \A e \in EP : Awaited(u, e) <=> Awaited(s, e)
    BY <1>2, <1>3 DEF Abortable, Awaited
<1> QED BY <1>1, <1>2, <1>4, IfaceDisableEffect

LEMMA IfaceEnableEffect ==
    ASSUME NEW s \in Dev, Unstalled(s), \A e \in EP : ~s.job[e].busy
    PROVE  Listens(IfaceEnable(s))
<1> DEFINE a == [s EXCEPT !.cfg = [e \in EP |-> TRUE],
                          !.armed = [e \in EP |-> "none"]]
           w == [a EXCEPT !.transReq = FALSE, !.cbwInvalid = FALSE,
                          !.ackTrans = TRUE, !.resetTrans = TRUE, !.enabled = TRUE]
           t == CbwWait(w)
<1>1. IfaceEnable(s) = t
    BY Zenon DEF IfaceEnable, EpAlloc
<1>2. /\ a \in Dev /\ a.job = s.job /\ a.halted = s.halted
      /\ a.cfg["IN"] /\ a.cfg["OUT"]
      /\ a.armed["IN"] = "none" /\ a.armed["OUT"] = "none"
    BY Zenon DEF Dev, EP, Payload
<1> HIDE DEF a
<1>3. /\ w \in Dev /\ w.job = a.job /\ w.halted = a.halted
      /\ w.cfg = a.cfg /\ w.armed = a.armed
      /\ ~w.transReq /\ ~w.cbwInvalid /\ w.enabled
    BY <1>2, Zenon DEF Dev
<1> HIDE DEF w
<1>4. Quiet(w) /\ Unstalled(w)
    BY <1>2, <1>3 DEF Quiet, Healthy, Resting, Unstalled, EP
<1>5. /\ Running(t, "OUT", "cbw_received", "cbw")
      /\ KeptAt(t, w, "IN") /\ Kept(t, w)
  <2>1. w.cfg["OUT"] /\ Resting(w, "OUT") /\ ~w.halted["OUT"]
      BY <1>4 DEF Quiet, Healthy, Unstalled, EP
  <2> QED BY <1>3, <2>1, CbwWaitEffect
<1> HIDE DEF t
<1>6. Listens(t)
    BY <1>3, <1>4, <1>5 DEF Listens, Quiet, Healthy, Unstalled, Resting, Kept, KeptAt
<1> QED BY <1>1, <1>6

\* SET_CONFIGURATION, of a configured device or of one that is not.
LEMMA SetConfigurationEffect ==
    ASSUME NEW s \in Dev, IF s.cfg["IN"] THEN Abortable(s) ELSE Freed(s)
    PROVE  Listens(SetConfiguration(s))
<1>1. CASE s.cfg["IN"]
  <2> DEFINE u == IfaceDisable(s)
  <2>1. SetConfiguration(s) = IfaceEnable(u)
      BY <1>1 DEF SetConfiguration, UdcReset, Configured
  <2>2. u \in Dev /\ Freed(u)
      BY <1>1, IfaceDisableEffect
  <2> HIDE DEF u
  <2> QED BY <2>1, <2>2, IfaceEnableEffect DEF Freed, Resting
<1>2. CASE ~s.cfg["IN"]
  <2>1. SetConfiguration(s) = IfaceEnable(s)
      BY <1>2 DEF SetConfiguration, UdcReset, Configured
  <2> QED BY <1>2, <2>1, IfaceEnableEffect DEF Freed, Resting
<1> QED BY <1>1, <1>2
=============================================================================
