----------------------- MODULE UdiMscRefinementProofs ----------------------
(***************************************************************************)
(* UdiMsc implements BulkOnly: what the host can take is right in every    *)
(* state, because of the owner of the command, so that a step can only     *)
(* offer it, have it taken, or move data that was announced and asked for. *)
(* A bad wrapper or a reset is the only way to lose the command, and       *)
(* nothing of it is left on the bus then.                                  *)
(***************************************************************************)
EXTENDS UdiMscOwnerProofs, UdiMscRefinement

Inv == TypeInv /\ Owned

\* What may be offered.
Right == [tag |-> host.cmd.tag, residue |-> host.cmd.len - host.moved]

RightOffer ==
    \/ Offered = {}
    \/ Offered = {Right} /\ Phase = "busy"

LEMMA OfferedIsRight ==
    Inv => \/ Offered = {}
           \/ Offered = {Right} /\ StatusOwns /\ ~dev.halted["IN"] /\ Phase = "busy"
<1> SUFFICES ASSUME Inv, Offered # {}
             PROVE  /\ Offered = {Right} /\ StatusOwns /\ ~dev.halted["IN"]
                    /\ Phase = "busy"
    OBVIOUS
<1>1. dev.armed["IN"] = "csw"
    BY DEF Offered
<1>2. StatusOwns /\ ~dev.halted["IN"]
    BY <1>1, StatusArmed DEF Inv
<1>3. dev.csw.tag = host.cmd.tag /\ dev.csw.residue = host.cmd.len - host.moved
    BY <1>2 DEF StatusOwns, InStatus, Remaining
<1>4. Phase = "busy"
    BY <1>2 DEF StatusOwns, Healthy, InStatus, Phase, Lost
<1> QED BY <1>1, <1>2, <1>3, <1>4 DEF Offered, Right

LEMMA OfferIsRight == Inv => RightOffer
BY OfferedIsRight DEF RightOffer

LEMMA OfferIsRightNext == Inv' => RightOffer'
BY OfferIsRight, PTL

\* The phase of a command, and of none.
IsPhase == Phase = IF host.st \in {"off", "idle"} THEN host.st ELSE "busy"

LEMMA IdlePhase ==
    /\ host.st  \in {"off", "idle"} => Phase  = host.st
    /\ host'.st \in {"off", "idle"} => Phase' = host'.st
BY DEF Phase

LEMMA BusyPhase ==
    /\ host.st  \notin {"off", "idle"} => Phase  \in {"busy", "lost"}
    /\ host'.st \notin {"off", "idle"} => Phase' \in {"busy", "lost"}
BY DEF Phase

LEMMA CommandPhase == (OneOwner => IsPhase) /\ (OneOwner' => IsPhase')
<1>1. OneOwner => ~Lost
    BY DEF OneOwner, HostOff, HostOwns, ReplyOwns, StatusOwns, RequestOwns, BlockOwns,
           ResidueOwns, AnswerOwns, Quiet, Healthy, InStatus, InData, Lost
<1>2. OneOwner' => ~Lost'
    BY <1>1, PTL
<1>3. (~Lost => IsPhase) /\ (~Lost' => IsPhase')
    BY DEF Phase, IsPhase
<1> QED BY <1>1, <1>2, <1>3

LEMMA LostPhase ==
    /\ InvalidOwns \/ RecoveryOwns => Phase = "lost"
    /\ (InvalidOwns \/ RecoveryOwns)' => Phase' = "lost"
BY DEF InvalidOwns, Spoilt, RecoveryOwns, Phase, Lost

LEMMA HostFieldsNext ==
    ASSUME Typed, NEW st, host' = [host EXCEPT !.st = st]
    PROVE  host'.st = st /\ host'.cmd = host.cmd /\ host'.moved = host.moved
BY TypedTypes, Zenon DEF Host

----------------------------------------------------------------------------
(* A step that goes on with a command.                                     *)

\* A step that leaves the host where it was offers the status, or nothing.
LEMMA OfferOrStutter ==
    ASSUME Inv, Inv', Phase' = Phase, host'.cmd = host.cmd,
           host'.moved = host.moved, Offered # {} => Offered' = Offered
    PROVE  BO!Next \/ UNCHANGED BO!vars
<1>1. Right' = Right
    BY DEF Right
<1>2. CASE Offered' = Offered
    BY <1>2 DEF BO!vars
<1>3. CASE Offered' # Offered
  <2>1. Offered = {} /\ Offered' = {Right} /\ Phase = "busy"
      BY <1>1, <1>3, OfferIsRightNext DEF RightOffer
  <2>2. BO!Offer
      BY <2>1 DEF BO!Offer, BO!RightStatus, Right
  <2> QED BY <2>2 DEF BO!Next
<1> QED BY <1>2, <1>3

\* A unit of data that the command still has to move.
LEMMA MoveOne ==
    ASSUME Inv, Inv', OneOwner, OneOwner', Offered = {}, host.st = "data",
           host.moved < host.cmd.len, host.moved < host.cmd.need,
           host'.moved = host.moved + 1, host'.cmd = host.cmd,
           host'.st \in {"data", "status"}
    PROVE  BO!Next
<1>1. Phase = "busy" /\ Phase' = "busy"
    BY CommandPhase DEF IsPhase
<1>2. BO!Move
    BY <1>1, OfferIsRightNext
       DEF RightOffer, BO!Move, BO!RightStatus, Right
<1> QED BY <1>2 DEF BO!Next

LEMMA BlockInFlight ==
    ASSUME Inv, BlockOwns, NEW e \in EP, dev.armed[e] = "block", host.st = "data"
    PROVE  host.moved < host.cmd.len /\ host.moved < host.cmd.need
<1>1. /\ host.cmd.dir \in EP /\ main.left \in Int /\ host.cmd.need \in Int
      /\ host.moved \in Int /\ host.cmd.len \in Int
  <2>1. /\ host.cmd.dir \in EP /\ main.left \in Lens /\ host.cmd.need \in Lens
        /\ host.moved \in Nat /\ host.cmd.len \in Lens
      BY Zenon DEF Inv, TypeInv, TypeOK, Main, Host, Command
  <2> QED BY <2>1, MaxLenAssumption DEF Lens
<1>2. main.pc = "ack" /\ ~dev.ackTrans
    BY <1>1 DEF BlockOwns, Resting
<1>3. host.moved + main.left = host.cmd.need /\ main.left > 0 /\ Remaining > 0
    BY <1>1, <1>2 DEF BlockOwns, Acked
<1> QED BY <1>1, <1>3 DEF Remaining

LEMMA ReadDataRefines ==
    ASSUME Typed, Inv, Inv', ReadData
    PROVE  BO!Next \/ UNCHANGED BO!vars
<1>1. host.st = "data" /\ dev.armed["IN"] \in {"reply", "block"} /\ "IN" \in EP
    BY DEF ReadData, EP
<1>2. OneOwner /\ OneOwner' /\ (ReplyOwns \/ BlockOwns)
  <2>1. ReplyOwns \/ BlockOwns
      BY <1>1, DataArmed DEF Inv
  <2>2. OneOwner
      BY <2>1 DEF OneOwner
  <2> QED BY <2>1, <2>2, ReadDataOwner DEF Given
<1>3. Offered = {}
    BY <1>1 DEF Offered
<1>4. /\ host'.moved = host.moved + InSize /\ host'.cmd = host.cmd
      /\ host'.st \in {"data", "status"}
    BY TypedTypes, Zenon DEF ReadData, Host
<1>5. /\ host.moved \in Nat /\ host.cmd.need \in Nat
  <2>1. host.moved \in Nat /\ host.cmd.need \in Lens
      BY TypedTypes, Zenon DEF Host, Command
  <2> QED BY <2>1, MaxLenAssumption DEF Lens
<1>6. CASE ReplyOwns
  <2>1. InSize = host.cmd.need /\ host.moved = 0 /\ host.cmd.need <= host.cmd.len
        /\ host.cmd.need <= 1
      BY <1>6 DEF ReplyOwns, Running, InSize, Known
  <2>2. CASE host.cmd.need = 1
    <3>1. host.moved < host.cmd.len /\ host.moved < host.cmd.need
          /\ host'.moved = host.moved + 1
      <4>1. host.cmd.len \in Nat
        <5>1. host.cmd.len \in Lens
            BY TypedTypes, Zenon DEF Host, Command
        <5> QED BY <5>1, MaxLenAssumption DEF Lens
      <4> QED BY <1>4, <2>1, <2>2, <4>1
    <3> QED BY <1>1, <1>2, <1>3, <1>4, <3>1, MoveOne
  <2>3. CASE host.cmd.need = 0
    <3>1. Phase' = Phase
        BY <1>1, <1>2, <1>4, CommandPhase DEF IsPhase
    <3>2. host'.moved = host.moved
        BY <1>4, <1>5, <2>1, <2>3
    <3> QED BY <1>3, <1>4, <3>1, <3>2, OfferOrStutter
  <2> QED BY <1>5, <2>1, <2>2, <2>3
<1>7. CASE BlockOwns /\ ~ReplyOwns
  <2>1. dev.armed["IN"] = "block"
    <3>1. host.cmd.dir = "IN"
        BY DEF ReadData
    <3> QED BY <1>1, <1>7, <3>1 DEF BlockOwns
  <2>2. host.moved < host.cmd.len /\ host.moved < host.cmd.need
      BY <1>1, <1>7, <2>1, BlockInFlight
  <2>3. InSize = 1
      BY <2>1 DEF InSize
  <2> QED BY <1>1, <1>2, <1>3, <1>4, <2>2, <2>3, MoveOne
<1> QED BY <1>2, <1>6, <1>7

LEMMA WriteDataRefines ==
    ASSUME Typed, Inv, Inv', WriteData
    PROVE  BO!Next \/ UNCHANGED BO!vars
<1>1. host.st = "data" /\ dev.armed["OUT"] = "block" /\ "OUT" \in EP
      /\ host.cmd.dir = "OUT"
    BY DEF WriteData, EP
<1>2. OneOwner /\ OneOwner'
  <2>1. OneOwner
      BY NothingMovesAdrift DEF Inv, Owned, Adrift
  <2> QED BY <2>1, WriteDataOwner DEF Given
<1>3. /\ host'.moved = host.moved + 1 /\ host'.cmd = host.cmd
      /\ host'.st \in {"data", "status"}
    BY TypedTypes, Zenon DEF WriteData, Host
<1>4. BlockOwns
    BY <1>1, <1>2 DEF OneOwner, HostOff, HostOwns, ReplyOwns, StatusOwns,
                RequestOwns, ResidueOwns, AnswerOwns, Quiet, Resting, Running,
                StatusQueued, EP
<1>5. Offered = {}
    BY <1>1, <1>4 DEF BlockOwns, Resting, Offered, EP
<1> QED BY <1>1, <1>2, <1>3, <1>4, <1>5, BlockInFlight, MoveOne

LEMMA ClearStallRefines ==
    ASSUME Typed, Inv, Inv', NEW e \in EP, ClearStall(e)
    PROVE  BO!Next \/ UNCHANGED BO!vars
<1>1. dev' = EpClearHalt(dev, e) /\ dev.halted[e]
      /\ host.st \in {"data", "status"}
    BY Zenon DEF ClearStall
<1>2. /\ host'.cmd = host.cmd /\ host'.moved = host.moved
      /\ host'.st \in {"status", "retry"}
    BY TypedTypes, Zenon DEF ClearStall, Host
<1>3. Phase' = Phase
  <2>1. CASE OneOwner
      BY <1>1, <1>2, <2>1, ClearStallOwner, CommandPhase
         DEF Given, IsPhase
  <2>2. CASE Adrift
      BY <2>2, ClearAdriftOwner, LostPhase
  <2> QED BY <2>1, <2>2 DEF Inv, Owned, Adrift
<1>4. ASSUME Offered # {}
      PROVE  Offered' = Offered
  <2>1. StatusOwns /\ ~dev.halted["IN"]
      BY <1>4, OfferedIsRight
  <2>2. e = "OUT" /\ ~dev.job[e].busy
      BY <1>1, <2>1 DEF StatusOwns, StatusQueued, Resting, EP
  <2>3. dev'.armed = dev.armed /\ dev'.csw = dev.csw
      BY <1>1, <2>2, TypedTypes, UnhaltEffect, Zenon
  <2> QED BY <2>3 DEF Offered
<1> QED BY <1>2, <1>3, <1>4, OfferOrStutter

LEMMA EnumerateRefines ==
    ASSUME Typed, Inv, Inv', Enumerate
    PROVE  BO!Next
<1>1. host.st = "off" /\ host'.st = "idle" /\ host'.cmd = host.cmd
      /\ host'.moved = host.moved
    BY HostFieldsNext DEF Enumerate
<1>2. Phase = "off" /\ Phase' = "idle"
    BY <1>1, IdlePhase
<1>3. BO!Attach
    BY <1>1, <1>2, OfferIsRight, OfferIsRightNext DEF RightOffer, BO!Attach
<1> QED BY <1>3 DEF BO!Next

LEMMA ReadCswRefines ==
    ASSUME Typed, Inv, Inv', ReadCsw
    PROVE  BO!Next
<1>1. dev.armed["IN"] = "csw" /\ host'.st = "idle" /\ host'.cmd = host.cmd
      /\ host'.moved = host.moved
    BY HostFieldsNext DEF ReadCsw
<1>2. Offered # {} /\ Phase = "busy" /\ Phase' = "idle"
    BY <1>1, OfferedIsRight, IdlePhase DEF Offered
<1>3. BO!Take
    BY <1>1, <1>2, OfferIsRightNext DEF RightOffer, BO!Take
<1> QED BY <1>3 DEF BO!Next

\* A wrapper the device takes for a command, or a bad one.
LEMMA SendCbwRefines ==
    ASSUME Typed, Inv, Inv', SendCbw
    PROVE  BO!Next \/ (BO!Spoil /\ "badCbw" \in Events)
<1>1. host.st = "idle" /\ Phase = "idle"
    BY IdlePhase DEF SendCbw
<1>2. Offered = {}
    BY <1>1, OfferIsRight DEF RightOffer
<1>3. PICK c \in Command :
          host' = [host EXCEPT !.st = IF c.len > 0 THEN "data" ELSE "status",
                               !.cmd = c, !.moved = 0]
    BY Zenon DEF SendCbw, Commands
<1>4. host'.st \in {"data", "status"} /\ host'.cmd = c /\ host'.moved = 0
    BY <1>3, TypedTypes, Zenon DEF Host
<1>5. CASE OneOwner'
  <2>1. Phase' = "busy"
      BY <1>4, <1>5, CommandPhase DEF IsPhase
  <2>2. BO!Send
      BY <1>1, <1>2, <1>4, <2>1, OfferIsRightNext
         DEF RightOffer, BO!Send, BO!RightStatus, Right
  <2> QED BY <2>2 DEF BO!Next
<1>6. CASE InvalidOwns' /\ "badCbw" \in Events
  <2>1. Phase' = "lost"
      BY <1>6, LostPhase
  <2>2. BO!Spoil
      BY <1>1, <1>2, <1>4, <2>1, OfferIsRightNext DEF RightOffer, BO!Spoil
  <2> QED BY <1>6, <2>2
<1> QED BY <1>5, <1>6, SendCbwOwner DEF Inv

\* While a status is offered the main loop is idle.
LEMMA MainStepRefines ==
    ASSUME Typed, Inv, Inv', MainStep
    PROVE  BO!Next \/ UNCHANGED BO!vars
<1>1. UNCHANGED host
    BY DEF MainStep, Poll, ClearReset, TransBlock, MemoryReturns, RunTestsHalt,
           RunTakesJob, RunSetsCallback, RunArms, AckSeen, CheckReset,
           MainTestsResidue, MainAborts, WaitTestsBusy, WaitTestsHalt,
           WaitRegisters
<1>2. ~Idling
    BY DEF Idling, MainStep, Poll, ClearReset, TransBlock, MemoryReturns,
           RunTestsHalt, RunTakesJob, RunSetsCallback, RunArms, AckSeen,
           CheckReset, MainTestsResidue, MainAborts, WaitTestsBusy,
           WaitTestsHalt, WaitRegisters
<1>3. Offered = {}
    BY <1>2, OfferedIsRight DEF StatusOwns
<1>4. Phase' = Phase
  <2>1. CASE OneOwner
      BY <1>1, <2>1, MainStepOwner, CommandPhase DEF Given, IsPhase
  <2>2. CASE Adrift
    <3>1. host'.st = "off"
        BY <2>2, MainAdriftOwner DEF AbortedOwns, HostOff
    <3> QED BY <1>1, <3>1 DEF Phase
  <2> QED BY <2>1, <2>2 DEF Inv, Owned, Adrift
<1> QED BY <1>1, <1>3, <1>4, OfferOrStutter

----------------------------------------------------------------------------
(* A step of a recovery or of a reset.                                     *)

LEMMA ResetStepRefines ==
    ASSUME Typed, Inv, Inv', ResetStep \/ ResetRecovery
    PROVE  BO!Reset
<1>1. PICK st \in {"clearIn", "off", "idle"} :
          /\ host'.st = st /\ host'.cmd = host.cmd /\ host'.moved = host.moved
    BY TypedTypes, Zenon
       DEF ResetStep, HostBulkReset, HostBusReset, HostSetConfig, ResetRecovery, Host
<1>2. Phase # "off"
    BY IdlePhase, BusyPhase
       DEF ResetStep, HostBulkReset, HostBusReset, HostSetConfig, ResetRecovery
<1>3. Phase' \in {"lost", "off", "idle"}
  <2>1. host'.st \in {"clearIn", "clearOut"} => Phase' = "lost"
      BY DEF Phase, Lost
  <2> QED BY <1>1, <2>1, IdlePhase
<1> QED BY <1>1, <1>2, <1>3, OfferIsRightNext DEF RightOffer, BO!Reset

LEMMA RecoveryClearsRefines ==
    ASSUME Typed, Inv, Inv', NEW e \in EP, RecoveryClears(e)
    PROVE  BO!Recover \/ UNCHANGED BO!vars
<1>1. /\ host'.cmd = host.cmd /\ host'.moved = host.moved
      /\ host.st = IF e = "IN" THEN "clearIn" ELSE "clearOut"
      /\ host'.st = IF e = "IN" THEN "clearOut" ELSE "idle"
    BY HostFieldsNext DEF RecoveryClears
<1>2. Phase = "lost" /\ Phase' = IF e = "IN" THEN "lost" ELSE "idle"
  <2>1. /\ host.st  \in {"clearIn", "clearOut"} => Phase  = "lost"
        /\ host'.st \in {"clearIn", "clearOut"} => Phase' = "lost"
      BY DEF Phase, Lost
  <2> QED BY <1>1, <2>1, IdlePhase
<1>3. Offered = {} /\ Offered' = {}
    BY <1>2, OfferIsRight, OfferIsRightNext DEF RightOffer
<1> QED BY <1>1, <1>2, <1>3 DEF BO!Recover, BO!vars, EP

----------------------------------------------------------------------------
(* The theorems.                                                           *)

LEMMA InitRefines == Init => BO!Init
<1> SUFFICES ASSUME Init PROVE BO!Init
    OBVIOUS
<1>1. host.st = "off" /\ host.moved = 0 /\ dev.armed["IN"] = "none"
    BY Zenon DEF Init, EP
<1>2. host.cmd \in Command
    BY InitType, Zenon DEF TypeInv, TypeOK, Host
<1> QED BY <1>1, <1>2, IdlePhase DEF BO!Init, Offered

LEMMA StutterRefines == UNCHANGED vars => UNCHANGED BO!vars
BY DEF vars, BO!vars, Phase, Lost, Offered

\* The device keeps the promise of the Bulk-Only transport whatever the
\* lengths of the commands: each step of the drivers, of the main loop and of
\* the host (udi_msc_cbw_received, udi_msc_trans_block, udi_msc_csw_process
\* and the endpoint jobs below them) is a step of BulkOnly or changes nothing
\* that BulkOnly sees.
THEOREM DeviceKeepsItsPromise ==
    ASSUME Undisturbed
    PROVE  Spec => ImplementsBulkOnly
<1>1. TypeInv /\ OneOwner /\ TypeInv' /\ OneOwner' /\ [Next]_vars => [BO!Next]_BO!vars
  <2> SUFFICES ASSUME TypeInv, OneOwner, TypeInv', OneOwner', Next
               PROVE  BO!Next \/ UNCHANGED BO!vars
      BY StutterRefines
  <2>1. Typed /\ Inv /\ Inv' /\ Given
      BY UndisturbedIsQuiet DEF Typed, Inv, Given, Owned
  <2>2. ~ResetRecovery /\ \A e \in EP : ~RecoveryClears(e)
      BY <2>1, NoRecovery
  <2>3. ~ResetStep
    <3>1. \A kind \in Resets : ~ResetAllowed(kind)
        BY DEF Undisturbed, ResetAllowed
    <3> QED BY <3>1 DEF ResetStep, HostBulkReset, HostBusReset, HostSetConfig, Resets
  <2>4. "badCbw" \notin Events
      BY DEF Undisturbed
  <2> QED BY <2>1, <2>2, <2>3, <2>4, MainStepRefines, SendCbwRefines, EnumerateRefines,
             ReadCswRefines, ReadDataRefines, WriteDataRefines, ClearStallRefines
          DEF Next, HostStep, HostProceeds
<1> QED BY <1>1, InitRefines, OneOwnerAlways, PTL DEF Spec, BO!Spec, ImplementsBulkOnly

\* A bad wrapper (udi_msc_cbw_invalid), a Bulk-Only reset, a reset of the line while a
\* block is on the bus, and a new configuration each put an end to the command: nothing
\* of it reaches the host afterwards, and the next command is answered as promised.
THEOREM DeviceKeepsItsPromiseAfterResets ==
    ASSUME QuietlyReset
    PROVE  Spec => ImplementsBulkOnlyWithResets
<1>1. Inv /\ Inv' /\ [Next]_vars
          => [BO!Next \/ BO!Spoil \/ BO!Reset \/ BO!Recover]_BO!vars
  <2> SUFFICES ASSUME Inv, Inv', Next
               PROVE  BO!Next \/ BO!Spoil \/ BO!Reset \/ BO!Recover
                      \/ UNCHANGED BO!vars
      BY StutterRefines
  <2>1. Typed
      BY DEF Typed, Inv
  <2> QED BY <2>1, MainStepRefines, SendCbwRefines, EnumerateRefines, ReadCswRefines,
             ReadDataRefines, WriteDataRefines, ClearStallRefines, ResetStepRefines,
             RecoveryClearsRefines
          DEF Next, HostStep, HostProceeds
<1>2. Spec => []Inv
    BY OwnedAlways DEF Inv
<1> QED BY <1>1, <1>2, InitRefines, PTL
        DEF Spec, BO!ResetSpec, ImplementsBulkOnlyWithResets
=============================================================================
