--------------------------- MODULE SdMmcMemProofs --------------------------
EXTENDS SdMmcMem, SdMmcProofs

\* The lengths for which the counter of the loop does not wrap: at least one block,
\* and not 65535.
GoodRequests == Requests \subseteq 1 .. CounterSize - 2

----------------------------------------------------------------------------
(* The inductive invariant.                                                *)

\* What the stack knows of the medium.
MediumInv ==
    /\ call.pc = "install" => slot.state = "INIT" /\ InstallOk(bus.card, slot)
    /\ slot.state = "READY" /\ Live(bus.card) =>
           flow.told /\ RightUnit(bus.card, slot) /\ slot.capacity = bus.card.kind
    /\ bus.card.mode \in {"read", "write"} => flow.told
    /\ call.pc \in {"status", "command", "getType"} => slot.state = "READY"
    /\ call.op = "capacity" /\ call.pc \in {"check", "getType"}
           /\ slot.state = "READY" => call.capacity = slot.capacity
    /\ call.op = "capacity" /\ call.pc = "idle" /\ call.result = "GOOD" =>
           slot.state = "READY" /\ call.capacity = slot.capacity

StartingPcs == {"select", "status", "command"}
MovingPcs   == {"loop", "step", "card", "usb", "wait", "abort"}
TransferPcs == StartingPcs \cup MovingPcs

\* The counters of the two layers below the loop, and the slot that is selected
\* while blocks remain.
LayersInv ==
    call.pc \in MovingPcs =>
        /\ slot.total = flow.want
        /\ bus.sel => bus.nb = slot.total /\ slot.remaining + bus.pos = slot.total
        /\ bus.sel /\ bus.card.mode = "read" => bus.card.next = bus.pos + 1
        /\ call.pc \in {"loop", "step", "card"} => (bus.sel <=> slot.remaining > 0)
        /\ call.pc = "wait" => bus.sel
        /\ call.pc = "usb" => (bus.sel <=> call.op = "write" \/ call.step > 0)

\* Where the blocks of a read are: n wanted, t the counter of the loop, r remaining.
ReadInv(n, t, r) ==
    /\ call.pc = "loop" =>
          IF call.first THEN t = n + 1 /\ flow.last = 0 /\ r = n
          ELSE /\ t <= n /\ flow.last = n - t
               /\ t > 0 => r = t - 1 /\ buf[t % 2] = n - t + 1
               /\ t = 0 => r = 0
    /\ call.pc \in {"step", "card"} =>
          /\ r = t
          /\ IF call.first THEN t = n /\ flow.last = 0
             ELSE t < n /\ flow.last = n - t - 1 /\ buf[(t + 1) % 2] = n - t
    /\ call.pc = "card" => t > 0
    /\ call.pc = "usb" =>
          /\ ~call.first /\ t < n /\ flow.last = n - t - 1 /\ buf[(t + 1) % 2] = n - t
          /\ t > 0 => r = t - 1 /\ buf[t % 2] = n - t + 1
          /\ t = 0 => r = 0
    /\ call.pc = "wait" =>
          t > 0 /\ t <= n /\ flow.last = n - t /\ r = t - 1 /\ buf[t % 2] = n - t + 1

\* The same for a write, whose blocks come over USB one step ahead of the card.
WriteInv(n, t, r) ==
    /\ call.pc = "loop" =>
          IF call.first THEN t = n + 1 /\ flow.last = 0 /\ flow.fetched = 0 /\ r = n
          ELSE /\ t <= n /\ flow.last = n - t /\ r = t
               /\ t > 0 => flow.fetched = n - t + 1 /\ buf[(t + 1) % 2] = n - t + 1
    /\ call.pc \in {"step", "card"} =>
          IF call.first THEN t = n /\ flow.last = 0 /\ flow.fetched = 0 /\ r = n
          ELSE /\ t < n /\ flow.last = n - t - 1 /\ r = t + 1
               /\ flow.fetched = n - t /\ buf[t % 2] = n - t
    /\ call.pc = "card" => ~call.first
    /\ call.pc = "usb" =>
          /\ t > 0 /\ t <= n /\ flow.last = n - t /\ flow.fetched = n - t /\ r = t
          /\ call.first => t = n
    /\ call.pc = "wait" =>
          /\ ~call.first /\ t <= n /\ flow.last = n - t /\ r = t
          /\ t > 0 => flow.fetched = n - t + 1 /\ buf[(t + 1) % 2] = n - t + 1

FlowInv ==
    /\ call.pc \in TransferPcs <=> flow.status = "busy"
    /\ call.pc \in TransferPcs => call.op \in Transfers /\ flow.want \in Requests
    /\ call.pc \in StartingPcs => flow.last = 0 /\ flow.fetched = 0
    /\ call.pc \in MovingPcs =>
          /\ call.op = "read"  => ReadInv(flow.want, call.step, slot.remaining)
          /\ call.op = "write" => WriteInv(flow.want, call.step, slot.remaining)

Inv == TypeOK /\ TimerOk(slot) /\ MediumInv /\ LayersInv /\ FlowInv

----------------------------------------------------------------------------
(* The call, its buffers and its blocks.                                   *)

LEMMA CallBasics ==
    ASSUME call \in Call
    PROVE  /\ call.op \in Ops /\ call.pc \in Pcs /\ call.first \in BOOLEAN
           /\ call.step \in Nat /\ call.step < CounterSize
           /\ call.capacity \in Capacities /\ call.result \in Results
<1>1. /\ call.op \in Ops /\ call.pc \in Pcs /\ call.first \in BOOLEAN
      /\ call.step \in 0 .. CounterSize - 1
      /\ call.capacity \in Capacities /\ call.result \in Results
    BY Zenon DEF Call
<1> QED BY <1>1, CounterSizeAssumption, SMT

LEMMA GotoFacts ==
    ASSUME call \in Call, NEW pc \in Pcs, Goto(pc)
    PROVE  /\ call' \in Call /\ call'.pc = pc
           /\ call'.op = call.op /\ call'.step = call.step /\ call'.first = call.first
           /\ call'.capacity = call.capacity /\ call'.result = call.result
BY Zenon DEF Goto, Call

LEMMA StepEndsFacts ==
    ASSUME call \in Call, StepEnds
    PROVE  /\ call' \in Call /\ call'.pc = "loop" /\ ~call'.first
           /\ call'.op = call.op /\ call'.step = call.step
           /\ call'.capacity = call.capacity /\ call'.result = call.result
<1>1. "loop" \in Pcs
    BY DEF Pcs
<1> QED BY <1>1, Zenon DEF StepEnds, Call

LEMMA ReturnFacts ==
    ASSUME call \in Call, NEW result \in Results, Return(result)
    PROVE  /\ call' \in Call /\ call'.pc = "idle" /\ call'.result = result
           /\ call'.op = call.op /\ call'.capacity = call.capacity
<1>1. "idle" \in Pcs /\ 0 \in 0 .. CounterSize - 1
    BY CounterSizeAssumption, SMT DEF Pcs
<1> QED BY <1>1, Zenon DEF Return, Call

LEMMA FlowBasics ==
    ASSUME flow \in Flow
    PROVE  /\ flow.want \in Nat /\ flow.last \in Nat /\ flow.fetched \in Nat
           /\ flow.told \in BOOLEAN /\ flow.began \in BOOLEAN
           /\ flow.status \in {"busy", "good", "fail"}
BY Zenon DEF Flow

LEMMA FinishFacts ==
    ASSUME call \in Call, flow \in Flow, NEW result \in Results, Finish(result)
    PROVE  /\ call' \in Call /\ call'.pc = "idle" /\ call'.result = result
           /\ call'.op = call.op /\ call'.capacity = call.capacity
           /\ flow' \in Flow /\ flow'.told = flow.told
           /\ flow'.status = (IF result = "GOOD" THEN "good" ELSE "fail")
           /\ flow'.want = 0 /\ flow'.last = 0
           /\ buf' \in [Bufs -> Nat]
<1>1. /\ call' \in Call /\ call'.pc = "idle" /\ call'.result = result
      /\ call'.op = call.op /\ call'.capacity = call.capacity
    BY ReturnFacts DEF Finish
<1>2. buf' \in [Bufs -> Nat]
    BY DEF Finish, Blank
<1> DEFINE status == IF result = "GOOD" THEN "good" ELSE "fail"
<1>3. status \in {"busy", "good", "fail"} /\ 0 \in Nat /\ flow.told \in BOOLEAN
    BY FlowBasics
<1>4. flow' = [want |-> 0, last |-> 0, status |-> status, fetched |-> 0,
               told |-> flow.told, began |-> FALSE]
    BY DEF Finish, NoFlow
<1> HIDE DEF status
<1>5. /\ flow' \in Flow /\ flow'.told = flow.told /\ flow'.status = status
      /\ flow'.want = 0 /\ flow'.last = 0
    BY <1>3, <1>4, Zenon DEF Flow
<1> QED BY <1>1, <1>2, <1>5 DEF status

\* A transfer that ends owes the two invariants of a transfer nothing more.
LEMMA FinishFlow ==
    ASSUME call \in Call, flow \in Flow, NEW result \in Results, Finish(result)
    PROVE  FlowInv' /\ LayersInv'
<1>1. call'.pc = "idle" /\ flow'.status # "busy"
    BY FinishFacts
<1> QED BY <1>1 DEF FlowInv, LayersInv, TransferPcs, StartingPcs, MovingPcs

LEMMA GoodLength ==
    ASSUME GoodRequests, NEW n \in Requests
    PROVE  n \in Nat /\ n > 0 /\ n + 1 < CounterSize
<1>1. n \in 1 .. CounterSize - 2
    BY DEF GoodRequests
<1> QED BY <1>1, CounterSizeAssumption, SMT

LEMMA Parity ==
    ASSUME NEW t \in Nat
    PROVE  /\ t % 2 \in Bufs /\ (t + 1) % 2 \in Bufs
           /\ t % 2 # (t + 1) % 2 /\ (t + 2) % 2 = t % 2
BY SMT DEF Bufs

----------------------------------------------------------------------------
(* Steps that leave the medium alone.                                      *)

MediumKept ==
    /\ KeepsCard(bus')
    /\ bus'.card.mode \in {"read", "write"} =>
           bus'.card.mode = bus.card.mode \/ (slot.state = "READY" /\ Live(bus.card))
    /\ slot'.state = slot.state /\ slot'.type = slot.type
    /\ slot'.capacity = slot.capacity
    /\ flow'.told = flow.told

\* In a transfer, only the state of the slot is asked for, and only before it moves.
LEMMA TransferKeepsMedium ==
    ASSUME MediumInv, MediumKept, call'.op \in Transfers,
           call'.pc \in TransferPcs \cup {"idle"},
           call'.pc \in {"status", "command"} => call.pc = "status"
    PROVE  MediumInv'
BY DEF MediumInv, MediumKept, KeepsCard, RightUnit, Transfers, TransferPcs,
       StartingPcs, MovingPcs

LEMMA NoTransfer ==
    ASSUME call'.pc \notin TransferPcs, flow'.status # "busy"
    PROVE  FlowInv' /\ LayersInv'
BY DEF FlowInv, LayersInv, TransferPcs, StartingPcs

----------------------------------------------------------------------------
(* The calls of the control interface.                                     *)

LEMMA BeginFacts ==
    ASSUME bus \in Bus, call \in Call, NEW op \in Ops, NEW pc \in Pcs,
           BeginCall(op, pc)
    PROVE  /\ bus' \in Bus /\ bus'.card = bus.card /\ slot' = slot /\ buf' = buf
           /\ call' \in Call /\ call'.op = op /\ call'.pc = pc
<1>1. bus' = [bus EXCEPT !.upset = FALSE] /\ slot' = slot /\ buf' = buf
    BY DEF BeginCall
<1>2. bus' \in Bus /\ bus'.card = bus.card
    BY <1>1, Zenon DEF Bus
<1>3. call' = [call EXCEPT !.op = op, !.pc = pc, !.capacity = "none"]
    BY DEF BeginCall
<1>4. "none" \in Capacities
    BY DEF Capacities
<1>5. call' \in Call /\ call'.op = op /\ call'.pc = pc
    BY <1>3, <1>4, Zenon DEF Call
<1> QED BY <1>1, <1>2, <1>5

LEMMA ControlCallsInv ==
    ASSUME Inv, CallTestUnitReady \/ CallReadCapacity
    PROVE  Inv'
<1>1. /\ bus \in Bus /\ slot \in Slot /\ call \in Call /\ flow \in Flow
      /\ buf \in [Bufs -> Nat] /\ flow' = flow
    BY DEF Inv, TypeOK, CallTestUnitReady, CallReadCapacity
<1>2. \E op \in {"tur", "capacity"}, pc \in {"check", "getCapacity"} :
          BeginCall(op, pc) /\ (op = "capacity" => pc = "getCapacity")
    BY DEF CallTestUnitReady, CallReadCapacity
<1>3. PICK op \in {"tur", "capacity"}, pc \in {"check", "getCapacity"} :
          BeginCall(op, pc) /\ (op = "capacity" => pc = "getCapacity")
    BY <1>2
<1>4. op \in Ops /\ pc \in Pcs
    BY DEF Ops, Pcs
<1>5. /\ bus' \in Bus /\ bus'.card = bus.card /\ slot' = slot /\ buf' = buf
      /\ call' \in Call /\ call'.op = op /\ call'.pc = pc
    BY <1>1, <1>3, <1>4, BeginFacts
<1>6. call.pc = "idle"
    BY <1>3 DEF BeginCall
<1>7. flow.status # "busy" /\ call'.pc \notin TransferPcs
    BY <1>5, <1>6 DEF Inv, FlowInv, TransferPcs, StartingPcs, MovingPcs
<1>8. FlowInv' /\ LayersInv'
    BY <1>1, <1>7, NoTransfer
<1>9. MediumInv'
    BY <1>1, <1>3, <1>5 DEF Inv, MediumInv
<1>10. TypeOK' /\ TimerOk(slot')
    BY <1>1, <1>5 DEF Inv, TypeOK, TimerOk
<1> QED BY <1>8, <1>9, <1>10 DEF Inv

LEMMA TransferCallInv ==
    ASSUME Inv, GoodRequests, NEW op \in Transfers, NEW n \in Requests,
           CallTransfer(op, n)
    PROVE  Inv'
<1>1. /\ bus \in Bus /\ slot \in Slot /\ call \in Call /\ flow \in Flow
      /\ buf \in [Bufs -> Nat]
    BY DEF Inv, TypeOK
<1>2. op \in Ops /\ "select" \in Pcs /\ BeginCall(op, "select") /\ n \in Nat
    BY CounterSizeAssumption, SMT DEF Ops, Transfers, Pcs, CallTransfer, GoodRequests
<1>3. /\ bus' \in Bus /\ bus'.card = bus.card /\ slot' = slot /\ buf' = buf
      /\ call' \in Call /\ call'.op = op /\ call'.pc = "select"
    BY <1>1, <1>2, BeginFacts
<1>4. /\ flow' \in Flow /\ flow'.want = n /\ flow'.last = 0 /\ flow'.status = "busy"
      /\ flow'.fetched = 0 /\ flow'.told = flow.told
  <2>1. flow' = [flow EXCEPT !.want = n, !.last = 0, !.status = "busy",
                             !.fetched = 0, !.began = FALSE]
      BY DEF CallTransfer
  <2>2. 0 \in Nat
      OBVIOUS
  <2> QED BY <1>1, <1>2, <2>1, <2>2, Zenon DEF Flow
<1>5. FlowInv' /\ LayersInv'
    BY <1>3, <1>4 DEF FlowInv, LayersInv, TransferPcs, StartingPcs, MovingPcs
<1>6. MediumInv'
    BY <1>3, <1>4 DEF Inv, MediumInv, Transfers
<1>7. TypeOK' /\ TimerOk(slot')
    BY <1>1, <1>3, <1>4 DEF Inv, TypeOK
<1> QED BY <1>5, <1>6, <1>7 DEF Inv

LEMMA SelectAndReleaseFacts ==
    ASSUME bus \in Bus, slot \in Slot, TimerOk(slot), SelectAndRelease
    PROVE  /\ bus' \in Bus /\ bus'.card = bus.card
           /\ slot' = Selection.slot /\ slot' \in Slot /\ TimerOk(slot')
BY SelectsBus, SelectionFacts DEF SelectAndRelease, Driven

LEMMA GetCapacityInv == ASSUME Inv, GetCapacity PROVE Inv'
<1>1. /\ bus \in Bus /\ slot \in Slot /\ call \in Call /\ flow \in Flow
      /\ buf \in [Bufs -> Nat] /\ flow' = flow /\ buf' = buf
    BY DEF Inv, TypeOK, GetCapacity
<1>2. /\ bus' \in Bus /\ bus'.card = bus.card
      /\ slot' = Selection.slot /\ slot' \in Slot /\ TimerOk(slot')
    BY <1>1, SelectAndReleaseFacts DEF Inv, GetCapacity
<1>3. /\ SameCard(slot', slot) /\ (Selection.err = "OK") <=> (slot'.state = "READY")
      /\ Selection.err = "OK" => slot' = slot
    BY <1>1, <1>2, SelectionFacts DEF Inv
<1> DEFINE capacity == IF Selection.err = "OK" THEN slot.capacity ELSE "none"
<1>4. capacity \in Capacities /\ "check" \in Pcs
    BY <1>1, SlotFields DEF Capacities, Pcs
<1>5. call' = [call EXCEPT !.pc = "check", !.capacity = capacity]
    BY DEF GetCapacity
<1>6. slot'.state = "READY" => capacity = slot'.capacity
    BY <1>3
<1> HIDE DEF capacity
<1>7. /\ call' \in Call /\ call'.pc = "check" /\ call'.op = call.op
      /\ call'.capacity = capacity
    BY <1>1, <1>4, <1>5, Zenon DEF Call
<1>8. call.pc = "getCapacity"
    BY DEF GetCapacity
<1>9. FlowInv' /\ LayersInv'
    BY <1>1, <1>7, <1>8, NoTransfer DEF Inv, FlowInv, TransferPcs, StartingPcs, MovingPcs
<1>10. MediumInv'
    BY <1>1, <1>2, <1>3, <1>6, <1>7 DEF Inv, MediumInv
<1> QED BY <1>1, <1>2, <1>7, <1>9, <1>10 DEF Inv, TypeOK

LEMMA CheckInv == ASSUME Inv, Check PROVE Inv'
<1>1. /\ bus \in Bus /\ slot \in Slot /\ call \in Call /\ flow \in Flow
      /\ buf \in [Bufs -> Nat] /\ flow' = flow /\ buf' = buf /\ call.pc = "check"
    BY DEF Inv, TypeOK, Check
<1>2. bus' \in Bus /\ bus'.card = bus.card
    BY <1>1, SelectsBus DEF Check
<1> DEFINE s == Selection.slot
<1>3. /\ s \in Slot /\ TimerOk(s) /\ SameCard(s, slot)
      /\ Selection.err \in Selections
      /\ (Selection.err = "OK") <=> (s.state = "READY")
      /\ Selection.err = "OK" => s = slot
      /\ Selection.err = "ONGOING" => s.state = "INIT"
    BY <1>1, SelectionFacts DEF Inv
<1>d. /\ slot' = IF Selection.err = "ONGOING" THEN StartInstall(s) ELSE s
      /\ Selection.err = "OK"       => Goto("getType")
      /\ Selection.err = "ONGOING"  => Goto("install")
      /\ Selection.err = "NO_CARD"  => Return("NO_PRESENT")
      /\ Selection.err = "UNUSABLE" => Return("FAIL")
    BY DEF Check
<1> HIDE DEF s
<1>p. /\ "getType" \in Pcs /\ "install" \in Pcs
      /\ "NO_PRESENT" \in Results /\ "FAIL" \in Results
    BY DEF Pcs, Results
<1>f. flow.status # "busy"
    BY <1>1 DEF Inv, FlowInv, TransferPcs, StartingPcs, MovingPcs
<1>4. CASE Selection.err = "OK"
  <2>1. /\ call' \in Call /\ call'.pc = "getType" /\ call'.op = call.op
        /\ call'.capacity = call.capacity
      BY <1>1, <1>d, <1>p, <1>4, GotoFacts
  <2>2. slot' = slot /\ slot.state = "READY"
      BY <1>d, <1>3, <1>4
  <2>3. FlowInv' /\ LayersInv'
      BY <1>1, <1>f, <2>1, NoTransfer DEF TransferPcs, StartingPcs, MovingPcs
  <2>4. MediumInv'
      BY <1>1, <1>2, <2>1, <2>2 DEF Inv, MediumInv
  <2> QED BY <1>1, <1>2, <2>1, <2>2, <2>3, <2>4 DEF Inv, TypeOK
<1>5. CASE Selection.err = "ONGOING"
  <2>1. call' \in Call /\ call'.pc = "install" /\ call'.op = call.op
      BY <1>1, <1>d, <1>p, <1>5, GotoFacts
  <2>2. slot' = StartInstall(s) /\ s.state = "INIT"
      BY <1>d, <1>3, <1>5
  <2>3. /\ slot' \in Slot /\ SameLife(slot', s) /\ InstallOk(bus.card, slot')
      BY <1>3, <2>2, StartInstallFacts
  <2>4. slot'.state = "INIT" /\ TimerOk(slot')
      BY <1>3, <2>2, <2>3 DEF SameLife, TimerOk
  <2>5. FlowInv' /\ LayersInv'
      BY <1>1, <1>f, <2>1, NoTransfer DEF TransferPcs, StartingPcs, MovingPcs
  <2>6. MediumInv'
      BY <1>1, <1>2, <2>1, <2>3, <2>4 DEF Inv, MediumInv
  <2> QED BY <1>1, <1>2, <2>1, <2>3, <2>4, <2>5, <2>6 DEF Inv, TypeOK
<1>6. CASE Selection.err \in {"NO_CARD", "UNUSABLE"}
  <2>1. /\ call' \in Call /\ call'.pc = "idle" /\ call'.op = call.op
        /\ call'.result # "GOOD"
      BY <1>1, <1>d, <1>p, <1>6, ReturnFacts
  <2>2. slot' = s /\ s.state # "READY"
      BY <1>d, <1>3, <1>6
  <2>3. FlowInv' /\ LayersInv'
      BY <1>1, <1>f, <2>1, NoTransfer DEF TransferPcs, StartingPcs, MovingPcs
  <2>4. MediumInv'
      BY <1>1, <1>2, <2>1, <2>2 DEF Inv, MediumInv
  <2> QED BY <1>1, <1>2, <1>3, <2>1, <2>2, <2>3, <2>4 DEF Inv, TypeOK
<1> QED BY <1>3, <1>4, <1>5, <1>6 DEF Selections

LEMMA InstallInv == ASSUME Inv, Install PROVE Inv'
<1>1. /\ bus \in Bus /\ slot \in Slot /\ call \in Call /\ flow \in Flow
      /\ buf \in [Bufs -> Nat] /\ flow' = flow /\ buf' = buf /\ call' = call
      /\ call.pc = "install" /\ InstallStep
    BY DEF Inv, TypeOK, Install
<1>2. slot.state = "INIT" /\ InstallOk(bus.card, slot)
    BY <1>1 DEF Inv, MediumInv
<1>3. InstallKept
    BY <1>1, <1>2, InstallStepFacts
<1>4. slot'.state = "INIT" /\ TimerOk(slot')
    BY <1>2, <1>3 DEF Inv, InstallKept, SameLife, TimerOk
<1>5. FlowInv' /\ LayersInv'
    BY <1>1, NoTransfer DEF Inv, FlowInv, TransferPcs, StartingPcs, MovingPcs
<1>6. MediumInv'
    BY <1>1, <1>3, <1>4 DEF Inv, MediumInv, InstallKept
<1> QED BY <1>1, <1>3, <1>4, <1>5, <1>6 DEF Inv, TypeOK, InstallKept

LEMMA InstalledInv == ASSUME Inv, Installed PROVE Inv'
<1>1. /\ bus \in Bus /\ slot \in Slot /\ call \in Call /\ flow \in Flow
      /\ buf \in [Bufs -> Nat] /\ buf' = buf /\ call.pc = "install"
      /\ slot.install \in {"done", "failed"} /\ bus' = DeselectDevice
    BY DEF Inv, TypeOK, Installed, Installing
<1>2. bus' \in Bus /\ bus'.card = bus.card
    BY <1>1, SelectsBus
<1>3. slot.state = "INIT" /\ InstallOk(bus.card, slot) /\ slot.timer = "off"
    BY <1>1 DEF Inv, MediumInv, TimerOk
<1>4. /\ EndInstall \in Slot /\ EndInstall.type = slot.type
      /\ EndInstall.capacity = slot.capacity /\ EndInstall.timer = slot.timer
    <2>1. "done" \in Installs
        BY DEF Installs
    <2> QED BY <1>1, <2>1, Zenon DEF EndInstall, Slot
<1>5. \A v \in {"READY", "UNUSABLE"} :
          LET t == [EndInstall EXCEPT !.state = v]
          IN  /\ t \in Slot /\ t.type = slot.type /\ t.capacity = slot.capacity
              /\ t.timer = "off" /\ t.state = v
    <2>1. "READY" \in States /\ "UNUSABLE" \in States
        BY DEF States
    <2> DEFINE e == EndInstall
    <2>2. e \in Slot /\ e.type = slot.type /\ e.capacity = slot.capacity /\ e.timer = "off"
        BY <1>3, <1>4
    <2> HIDE DEF e
    <2>3. \A v \in States :
            LET t == [e EXCEPT !.state = v]
            IN  /\ t \in Slot /\ t.type = slot.type /\ t.capacity = slot.capacity
                /\ t.timer = "off" /\ t.state = v
        BY <2>2, Zenon DEF Slot
    <2> QED BY <2>1, <2>3 DEF e
<1>p. "BUSY" \in Results /\ "FAIL" \in Results
    BY DEF Results
<1>6. CASE slot.install = "done"
  <2>1. /\ slot' = [EndInstall EXCEPT !.state = "READY"] /\ Return("BUSY")
        /\ flow' = [flow EXCEPT !.told = TRUE]
      BY <1>6 DEF Installed
  <2>2. /\ slot' \in Slot /\ slot'.type = slot.type /\ slot'.capacity = slot.capacity
        /\ slot'.timer = "off" /\ slot'.state = "READY"
      BY <1>5, <2>1
  <2>3. call' \in Call /\ call'.pc = "idle" /\ call'.result = "BUSY"
      BY <1>1, <1>p, <2>1, ReturnFacts
  <2>4. flow' \in Flow /\ flow'.told /\ flow'.status = flow.status
      BY <1>1, <2>1, Zenon DEF Flow
  <2>5. FlowInv' /\ LayersInv'
      BY <1>1, <2>3, <2>4, NoTransfer
         DEF Inv, FlowInv, TransferPcs, StartingPcs, MovingPcs
  <2>6. Live(bus.card) => RightUnit(bus.card, slot) /\ slot.capacity = bus.card.kind
      BY <1>3, <1>6 DEF InstallOk, Identified, Measured
  <2>7. MediumInv'
      BY <1>2, <2>2, <2>3, <2>4, <2>6 DEF MediumInv, RightUnit
  <2> QED BY <1>1, <1>2, <2>2, <2>3, <2>4, <2>5, <2>7 DEF Inv, TypeOK, TimerOk
<1>7. CASE slot.install = "failed"
  <2>1. /\ slot' = [EndInstall EXCEPT !.state = "UNUSABLE"] /\ Return("FAIL")
        /\ flow' = flow
      BY <1>7 DEF Installed
  <2>2. slot' \in Slot /\ slot'.timer = "off" /\ slot'.state = "UNUSABLE"
      BY <1>5, <2>1
  <2>3. call' \in Call /\ call'.pc = "idle" /\ call'.result = "FAIL"
      BY <1>1, <1>p, <2>1, ReturnFacts
  <2>5. FlowInv' /\ LayersInv'
      BY <1>1, <2>1, <2>3, NoTransfer
         DEF Inv, FlowInv, TransferPcs, StartingPcs, MovingPcs
  <2>7. MediumInv'
      BY <1>2, <2>1, <2>2, <2>3 DEF Inv, MediumInv
  <2> QED BY <1>1, <1>2, <2>1, <2>2, <2>3, <2>5, <2>7 DEF Inv, TypeOK, TimerOk
<1> QED BY <1>1, <1>6, <1>7

LEMMA GetTypeInv == ASSUME Inv, GetType PROVE Inv'
<1>1. /\ bus \in Bus /\ slot \in Slot /\ call \in Call /\ flow \in Flow
      /\ buf \in [Bufs -> Nat] /\ flow' = flow /\ buf' = buf
      /\ call.pc = "getType"
    BY DEF Inv, TypeOK, GetType
<1>2. /\ bus' \in Bus /\ bus'.card = bus.card
      /\ slot' = Selection.slot /\ slot' \in Slot /\ TimerOk(slot')
    BY <1>1, SelectAndReleaseFacts DEF Inv, GetType
<1>3. /\ (Selection.err = "OK") <=> (slot'.state = "READY")
      /\ Selection.err = "OK" => slot' = slot
    BY <1>1, <1>2, SelectionFacts DEF Inv
<1> DEFINE result == IF Selection.err = "OK" THEN "GOOD" ELSE "NO_PRESENT"
<1>4. result \in Results /\ Return(result)
    BY DEF Results, GetType
<1>5. /\ call' \in Call /\ call'.pc = "idle" /\ call'.op = call.op
      /\ call'.capacity = call.capacity
      /\ call'.result = "GOOD" => Selection.err = "OK"
    <2>1. result = "GOOD" => Selection.err = "OK"
        OBVIOUS
    <2> HIDE DEF result
    <2> QED BY <1>1, <1>4, <2>1, ReturnFacts
<1>6. FlowInv' /\ LayersInv'
    BY <1>1, <1>5, NoTransfer DEF Inv, FlowInv, TransferPcs, StartingPcs, MovingPcs
<1>7. MediumInv'
    BY <1>1, <1>2, <1>3, <1>5 DEF Inv, MediumInv
<1> QED BY <1>1, <1>2, <1>5, <1>6, <1>7 DEF Inv, TypeOK

----------------------------------------------------------------------------
(* The start of a transfer.                                                *)

LEMMA SelectInv == ASSUME Inv, Select PROVE Inv'
<1>1. /\ bus \in Bus /\ slot \in Slot /\ call \in Call /\ flow \in Flow
      /\ buf \in [Bufs -> Nat] /\ call.pc = "select" /\ TimerOk(slot)
      /\ slot' = Selection.slot /\ bus' = Driven
    BY DEF Inv, TypeOK, Select
<1>2. bus' \in Bus /\ bus'.card = bus.card
    BY <1>1, SelectsBus DEF Driven
<1>3. /\ slot' \in Slot /\ TimerOk(slot') /\ SameCard(slot', slot)
      /\ (Selection.err = "OK") <=> (slot'.state = "READY")
      /\ Selection.err = "OK" => slot' = slot
    BY <1>1, SelectionFacts
<1>t. /\ call.op \in Transfers /\ flow.want \in Requests /\ flow.last = 0
      /\ flow.fetched = 0 /\ flow.status = "busy"
    BY <1>1 DEF Inv, FlowInv, TransferPcs, StartingPcs
<1>p. /\ "status" \in Pcs /\ "command" \in Pcs
      /\ "NO_PRESENT" \in Results /\ "FAIL" \in Results
    BY DEF Pcs, Results
<1>4. CASE Selection.err = "OK"
  <2> DEFINE pc == IF call.op = "read" THEN "status" ELSE "command"
  <2>1. pc \in Pcs /\ pc \in {"status", "command"}
      BY <1>p
  <2>2. Goto(pc) /\ flow' = flow /\ buf' = buf
      BY <1>4 DEF Select
  <2> HIDE DEF pc
  <2>3. call' \in Call /\ call'.pc \in {"status", "command"} /\ call'.op = call.op
      BY <1>1, <2>1, <2>2, GotoFacts
  <2>4. slot' = slot /\ slot.state = "READY"
      BY <1>3, <1>4
  <2>5. FlowInv' /\ LayersInv'
      BY <1>t, <2>2, <2>3 DEF FlowInv, LayersInv, TransferPcs, StartingPcs, MovingPcs
  <2>6. MediumInv'
      BY <1>t, <1>2, <2>2, <2>3, <2>4 DEF Inv, MediumInv, Transfers
  <2> QED BY <1>1, <1>2, <1>3, <2>2, <2>3, <2>5, <2>6 DEF Inv, TypeOK
<1>5. CASE Selection.err # "OK"
  <2>1. PICK result \in {"NO_PRESENT", "FAIL"} : Finish(result)
      BY <1>5 DEF Select
  <2>2. /\ call' \in Call /\ call'.pc = "idle" /\ call'.op = call.op
        /\ flow' \in Flow /\ flow'.told = flow.told /\ buf' \in [Bufs -> Nat]
      BY <1>1, <1>p, <2>1, FinishFacts
  <2>3. FlowInv' /\ LayersInv'
      BY <1>1, <1>p, <2>1, FinishFlow
  <2>4. MediumInv'
      BY <1>t, <1>2, <1>3, <1>5, <2>2 DEF Inv, MediumInv, Transfers
  <2> QED BY <1>2, <1>3, <2>2, <2>3, <2>4 DEF Inv, TypeOK
<1> QED BY <1>4, <1>5

LEMMA WaitReadyInv == ASSUME Inv, WaitReady PROVE Inv'
<1>1. /\ bus \in Bus /\ slot \in Slot /\ call \in Call /\ flow \in Flow
      /\ buf \in [Bufs -> Nat] /\ call.pc = "status" /\ slot' = slot
      /\ TimerOk(slot) /\ MediumInv
    BY DEF Inv, TypeOK, WaitReady
<1>t. /\ call.op \in Transfers /\ flow.want \in Requests /\ flow.last = 0
      /\ flow.fetched = 0 /\ flow.status = "busy"
    BY <1>1 DEF Inv, FlowInv, TransferPcs, StartingPcs
<1>r. PICK ok \in BOOLEAN : \E b \in SendCmd("CMD13", ok) :
          /\ bus' = [b EXCEPT !.sel = ok]
          /\ IF ok THEN Goto("command") /\ UNCHANGED <<buf, flow>>
                   ELSE Finish("FAIL")
    BY DEF WaitReady
<1>2. PICK b \in SendCmd("CMD13", ok) :
          /\ bus' = [b EXCEPT !.sel = ok]
          /\ IF ok THEN Goto("command") /\ UNCHANGED <<buf, flow>>
                   ELSE Finish("FAIL")
    BY <1>r
<1>3. /\ b \in Bus /\ b.card.kind = bus.card.kind
      /\ b.card = bus.card \/ b.card = After(bus.card, "CMD13")
    <2>1. "CMD13" \in Commands /\ 0 \in Nat
        BY DEF Commands, Hears
    <2> QED BY <1>1, <1>2, <2>1, CommandOnBus DEF SendCmd
<1>4. b.card.mode = bus.card.mode
    <2> DEFINE c == bus.card
    <2>1. c \in Card /\ "CMD13" \in Commands
        BY <1>1, BusBasics DEF Commands, Hears
    <2> HIDE DEF c
    <2>2. After(c, "CMD13").mode = LeadsTo(c, "CMD13")
        BY <2>1, CardEffects
    <2>3. LeadsTo(c, "CMD13") = c.mode
        BY DEF LeadsTo
    <2> QED BY <1>3, <2>2, <2>3 DEF c
<1>5. bus' \in Bus /\ bus'.card = b.card
    BY <1>2, <1>3, Zenon DEF Bus
<1>p. "command" \in Pcs /\ "FAIL" \in Results
    BY DEF Pcs, Results
<1>6. CASE ok
  <2>1. Goto("command") /\ flow' = flow /\ buf' = buf
      BY <1>2, <1>6
  <2>2. call' \in Call /\ call'.pc = "command" /\ call'.op = call.op
      BY <1>1, <1>p, <2>1, GotoFacts
  <2>3. FlowInv' /\ LayersInv'
      BY <1>t, <2>1, <2>2 DEF FlowInv, LayersInv, TransferPcs, StartingPcs, MovingPcs
  <2>4. MediumInv'
      BY <1>1, <1>t, <1>3, <1>4, <1>5, <2>1, <2>2, TransferKeepsMedium
         DEF MediumKept, KeepsCard, Live, TransferPcs, StartingPcs
  <2> QED BY <1>1, <1>5, <2>1, <2>2, <2>3, <2>4 DEF Inv, TypeOK
<1>7. CASE ~ok
  <2>1. Finish("FAIL")
      BY <1>2, <1>7
  <2>2. /\ call' \in Call /\ call'.pc = "idle" /\ call'.op = call.op
        /\ flow' \in Flow /\ flow'.told = flow.told /\ buf' \in [Bufs -> Nat]
      BY <1>1, <1>p, <2>1, FinishFacts
  <2>3. FlowInv' /\ LayersInv'
      BY <1>1, <1>p, <2>1, FinishFlow
  <2>4. MediumInv'
      BY <1>1, <1>t, <1>3, <1>4, <1>5, <2>2, TransferKeepsMedium
         DEF MediumKept, KeepsCard, Live
  <2> QED BY <1>1, <1>5, <2>2, <2>3, <2>4 DEF Inv, TypeOK
<1> QED BY <1>6, <1>7

LEMMA StartTransferInv == ASSUME Inv, GoodRequests, StartTransfer PROVE Inv'
<1>1. /\ bus \in Bus /\ slot \in Slot /\ call \in Call /\ flow \in Flow
      /\ buf \in [Bufs -> Nat] /\ call.pc = "command" /\ slot.state = "READY"
      /\ TimerOk(slot) /\ MediumInv
    BY DEF Inv, TypeOK, StartTransfer, MediumInv
<1>t. /\ call.op \in Transfers /\ flow.want \in Requests /\ flow.last = 0
      /\ flow.fetched = 0 /\ flow.status = "busy"
    BY <1>1 DEF Inv, FlowInv, TransferPcs, StartingPcs
<1> DEFINE n == flow.want
<1>n. n \in Nat /\ n > 0 /\ n + 1 < CounterSize
    BY <1>t, GoodLength
<1>2. PICK ok \in BOOLEAN :
          /\ InitBlocks(DataCommand, n, ok)
          /\ IF ok
             THEN /\ call' = [call EXCEPT !.pc = "loop", !.first = TRUE,
                                 !.step = (n + 1) % CounterSize]
                  /\ flow' = [flow EXCEPT !.began = TRUE]
                  /\ buf' = buf
             ELSE Finish("FAIL")
    BY DEF StartTransfer
<1>3. PICK b \in AdtcStart(DataCommand, n, ok) :
          /\ bus' = [b EXCEPT !.sel = ok]
          /\ slot' = IF ok THEN [slot EXCEPT !.total = n, !.remaining = n] ELSE slot
    BY <1>2 DEF InitBlocks
<1> HIDE DEF n
<1> DEFINE cmd == DataCommand
<1>c. cmd \in Commands /\ cmd \in {"CMD17", "CMD18", "CMD24", "CMD25"}
    BY DEF DataCommand, Commands, Hears
<1>h. Heard(cmd) => bus.card.mode = "tran"
    BY <1>c DEF Heard, Takes, Hears
<1>4. /\ b \in Bus /\ b.card.kind = bus.card.kind
      /\ b.card = bus.card \/ (Heard(cmd) /\ b.card = After(bus.card, cmd))
      /\ ok => b.card = After(bus.card, cmd) /\ b.nb = n /\ b.pos = 0
    <2> HIDE DEF cmd
    <2>1. b \in AdtcStart(cmd, n, ok)
        BY DEF cmd
    <2> QED BY <1>1, <1>c, <1>n, <2>1, CommandOnBus
<1>5. /\ bus' \in Bus /\ bus'.card = b.card /\ bus'.sel = ok /\ bus'.nb = b.nb
      /\ bus'.pos = b.pos
    BY <1>3, <1>4, Zenon DEF Bus
<1>a. After(bus.card, cmd).next = 1
    <2> DEFINE c == bus.card
    <2>1. c \in Card
        BY <1>1, BusBasics
    <2> HIDE DEF c, cmd
    <2>2. After(c, cmd).next = 1
        BY <1>c, <2>1, CardEffects
    <2> QED BY <2>2 DEF c
<1> HIDE DEF cmd
<1>6. /\ KeepsCard(bus')
      /\ bus'.card.mode \in {"read", "write"} =>
             bus'.card.mode = bus.card.mode \/ (slot.state = "READY" /\ Live(bus.card))
    BY <1>1, <1>4, <1>5, <1>h DEF KeepsCard, Live
<1>p. "loop" \in Pcs /\ "FAIL" \in Results
    BY DEF Pcs, Results
<1>7. CASE ok
  <2>1. slot' = [slot EXCEPT !.total = n, !.remaining = n]
      BY <1>3, <1>7
  <2>2. /\ slot' \in Slot /\ slot'.total = n /\ slot'.remaining = n
        /\ slot'.state = slot.state /\ slot'.type = slot.type
        /\ slot'.capacity = slot.capacity /\ slot'.timer = slot.timer
        /\ slot'.ticking = slot.ticking
      BY <1>1, <1>n, <2>1, Zenon DEF Slot
  <2> DEFINE t == n + 1
  <2>3. (n + 1) % CounterSize = t /\ t \in 0 .. CounterSize - 1
      BY <1>n, CounterSizeAssumption, SMT
  <2> HIDE DEF t
  <2>4. call' = [call EXCEPT !.pc = "loop", !.first = TRUE, !.step = t]
      BY <1>2, <1>7, <2>3 DEF n
  <2>5. /\ call' \in Call /\ call'.pc = "loop" /\ call'.first /\ call'.step = t
        /\ call'.op = call.op
      BY <1>1, <1>p, <2>3, <2>4, Zenon DEF Call
  <2>6. flow' = [flow EXCEPT !.began = TRUE] /\ buf' = buf
      BY <1>2, <1>7
  <2>7. /\ flow' \in Flow /\ flow'.want = n /\ flow'.last = 0 /\ flow'.fetched = 0
        /\ flow'.status = "busy" /\ flow'.told = flow.told
      BY <1>1, <1>t, <2>6, Zenon DEF Flow, n
  <2>8. FlowInv'
    <3>1. ReadInv(flow.want, call.step, slot.remaining)'
        BY <2>2, <2>5, <2>7 DEF ReadInv, t
    <3>2. WriteInv(flow.want, call.step, slot.remaining)'
        BY <2>2, <2>5, <2>7 DEF WriteInv, t
    <3> QED BY <1>t, <2>5, <2>7, <3>1, <3>2
            DEF FlowInv, TransferPcs, StartingPcs, MovingPcs, n
  <2>9. LayersInv'
      BY <1>4, <1>5, <1>7, <1>a, <1>n, <2>2, <2>5, <2>7 DEF LayersInv, MovingPcs
  <2>10. MediumInv'
      BY <1>1, <1>t, <1>6, <2>2, <2>5, <2>7, TransferKeepsMedium
         DEF MediumKept, TransferPcs, MovingPcs
  <2> QED BY <1>1, <1>5, <2>2, <2>5, <2>6, <2>7, <2>8, <2>9, <2>10
          DEF Inv, TypeOK, TimerOk
<1>8. CASE ~ok
  <2>1. Finish("FAIL") /\ slot' = slot
      BY <1>2, <1>3, <1>8
  <2>2. /\ call' \in Call /\ call'.pc = "idle" /\ call'.op = call.op
        /\ flow' \in Flow /\ flow'.told = flow.told /\ buf' \in [Bufs -> Nat]
      BY <1>1, <1>p, <2>1, FinishFacts
  <2>3. FlowInv' /\ LayersInv'
      BY <1>1, <1>p, <2>1, FinishFlow
  <2>4. MediumInv'
      BY <1>1, <1>t, <1>6, <2>1, <2>2, TransferKeepsMedium DEF MediumKept
  <2> QED BY <1>1, <1>5, <2>1, <2>2, <2>3, <2>4 DEF Inv, TypeOK
<1> QED BY <1>7, <1>8

----------------------------------------------------------------------------
(* The loop of a transfer.                                                 *)

CardMoves == /\ bus' \in Bus /\ KeepsCard(bus')
             /\ bus'.card.mode \in {"read", "write"} => bus'.card.mode = bus.card.mode

SlotMoves == /\ slot' \in Slot
             /\ slot'.state = slot.state /\ slot'.type = slot.type
             /\ slot'.capacity = slot.capacity
             /\ slot'.timer = slot.timer /\ slot'.ticking = slot.ticking

LEMMA MovingTypes ==
    ASSUME Inv, call.pc \in MovingPcs
    PROVE  /\ bus \in Bus /\ slot \in Slot /\ call \in Call /\ flow \in Flow
           /\ buf \in [Bufs -> Nat] /\ call.op \in Transfers
           /\ flow.want \in Requests /\ flow.want \in Nat /\ flow.last \in Nat
           /\ flow.fetched \in Nat /\ flow.status = "busy"
           /\ call.step \in Nat /\ slot.remaining \in Nat /\ slot.total = flow.want
           /\ call.first \in BOOLEAN
<1>1. /\ bus \in Bus /\ slot \in Slot /\ call \in Call /\ flow \in Flow
      /\ buf \in [Bufs -> Nat]
    BY DEF Inv, TypeOK
<1>2. call.op \in Transfers /\ flow.want \in Requests /\ flow.status = "busy"
    BY DEF Inv, FlowInv, TransferPcs
<1>3. slot.total = flow.want
    BY DEF Inv, LayersInv
<1> QED BY <1>1, <1>2, <1>3, CallBasics, FlowBasics, SlotFields

LEMMA StandsStill == ASSUME bus \in Bus, bus' = bus PROVE CardMoves
BY DEF CardMoves, KeepsCard, Live

LEMMA SlotStays == ASSUME slot \in Slot, slot' = slot PROVE SlotMoves
BY DEF SlotMoves

LEMMA MovingMedium ==
    ASSUME Inv, call.pc \in MovingPcs, CardMoves, SlotMoves,
           call'.op = call.op, call'.pc \in MovingPcs \cup {"idle"},
           flow'.told = flow.told
    PROVE  MediumInv'
<1>1. call.op \in Transfers
    BY MovingTypes
<1>2. MediumKept
    BY DEF CardMoves, SlotMoves, MediumKept
<1> QED BY <1>1, <1>2, TransferKeepsMedium DEF Inv, TransferPcs, MovingPcs

LEMMA MovingInv ==
    ASSUME Inv, call.pc \in MovingPcs, CardMoves, SlotMoves,
           call' \in Call, call'.op = call.op, call'.pc \in MovingPcs,
           flow' \in Flow, flow'.want = flow.want, flow'.status = flow.status,
           flow'.told = flow.told, buf' \in [Bufs -> Nat], LayersInv',
           call.op = "read"  => ReadInv(flow.want, call.step, slot.remaining)',
           call.op = "write" => WriteInv(flow.want, call.step, slot.remaining)'
    PROVE  Inv'
<1>1. MediumInv'
    BY MovingMedium
<1>2. call.op \in Transfers /\ flow.want \in Requests /\ flow.status = "busy"
    BY MovingTypes
<1>3. FlowInv'
    BY <1>2 DEF FlowInv, TransferPcs, MovingPcs, StartingPcs
<1>4. TypeOK' /\ TimerOk(slot')
    BY DEF Inv, TypeOK, CardMoves, SlotMoves, TimerOk
<1> QED BY <1>1, <1>3, <1>4 DEF Inv

LEMMA FinishInv ==
    ASSUME Inv, call.pc \in MovingPcs, CardMoves, SlotMoves,
           NEW result \in Results, Finish(result)
    PROVE  Inv'
<1>1. call \in Call /\ flow \in Flow
    BY MovingTypes
<1>2. /\ call' \in Call /\ call'.pc = "idle" /\ call'.op = call.op
      /\ flow' \in Flow /\ flow'.told = flow.told /\ buf' \in [Bufs -> Nat]
    BY <1>1, FinishFacts
<1>3. MediumInv'
    BY <1>2, MovingMedium
<1>4. FlowInv' /\ LayersInv'
    BY <1>1, FinishFlow
<1>5. TypeOK' /\ TimerOk(slot')
    BY <1>2 DEF Inv, TypeOK, CardMoves, SlotMoves, TimerOk
<1> QED BY <1>3, <1>4, <1>5 DEF Inv

LEMMA ResultNames == "GOOD" \in Results /\ "FAIL" \in Results
BY DEF Results

LEMMA LoopTestInv == ASSUME Inv, LoopTest PROVE Inv'
<1>1. call.pc = "loop" /\ bus' = bus /\ slot' = slot
    BY DEF LoopTest
<1>2. call.pc \in MovingPcs
    BY <1>1 DEF MovingPcs
<1>3. CardMoves /\ SlotMoves
    BY <1>1, <1>2, MovingTypes, StandsStill, SlotStays
<1>4. CASE call.step = 0
    BY <1>2, <1>3, <1>4, FinishInv, ResultNames DEF LoopTest
<1>5. CASE call.step # 0
  <2>1. call' = [call EXCEPT !.step = @ - 1, !.pc = "step"] /\ flow' = flow /\ buf' = buf
      BY <1>5 DEF LoopTest
  <2>2. call.step \in Nat /\ call.step < CounterSize /\ call \in Call
      BY <1>2, MovingTypes, CallBasics
  <2> DEFINE t == call.step - 1
  <2>3. t \in 0 .. CounterSize - 1 /\ "step" \in Pcs
      BY <1>5, <2>2, CounterSizeAssumption, SMT DEF Pcs
  <2>4. call' = [call EXCEPT !.step = t, !.pc = "step"]
      BY <2>1
  <2> HIDE DEF t
  <2>5. /\ call' \in Call /\ call'.pc = "step" /\ call'.step = t
        /\ call'.op = call.op /\ call'.first = call.first
      BY <2>2, <2>3, <2>4, Zenon DEF Call
  <2>6. LayersInv'
      BY <1>1, <1>2, <2>1, <2>5 DEF Inv, LayersInv, MovingPcs
  <2>7. /\ call.op = "read" => ReadInv(flow.want, call.step, slot.remaining)
        /\ call.op = "write" => WriteInv(flow.want, call.step, slot.remaining)
      BY <1>2 DEF Inv, FlowInv
  <2>8. ASSUME call.op = "read" PROVE ReadInv(flow.want, call.step, slot.remaining)'
    <3>1. /\ call.first => call.step = flow.want + 1 /\ flow.last = 0
                           /\ slot.remaining = flow.want
          /\ ~call.first => /\ call.step <= flow.want /\ flow.last = flow.want - call.step
                            /\ slot.remaining = call.step - 1
                            /\ buf[call.step % 2] = flow.want - call.step + 1
        BY <1>1, <1>5, <2>2, <2>7, <2>8, SMT DEF ReadInv
    <3>2. (t + 1) % 2 = call.step % 2 /\ t = call.step - 1 /\ t \in Nat
        BY <1>5, <2>2, SMT DEF t
    <3>3. flow.want \in Nat
        BY <1>2, MovingTypes
    <3> QED BY <1>1, <2>1, <2>2, <2>5, <3>1, <3>2, <3>3, SMT DEF ReadInv
  <2>9. ASSUME call.op = "write" PROVE WriteInv(flow.want, call.step, slot.remaining)'
    <3>1. /\ call.first => /\ call.step = flow.want + 1 /\ flow.last = 0
                           /\ flow.fetched = 0 /\ slot.remaining = flow.want
          /\ ~call.first => /\ call.step <= flow.want /\ flow.last = flow.want - call.step
                            /\ slot.remaining = call.step
                            /\ flow.fetched = flow.want - call.step + 1
                            /\ buf[(call.step + 1) % 2] = flow.want - call.step + 1
        BY <1>1, <1>5, <2>2, <2>7, <2>9, SMT DEF WriteInv
    <3>2. t % 2 = (call.step + 1) % 2 /\ t = call.step - 1 /\ t \in Nat
        BY <1>5, <2>2, SMT DEF t
    <3>3. flow.want \in Nat
        BY <1>2, MovingTypes
    <3> QED BY <1>1, <2>1, <2>2, <2>5, <3>1, <3>2, <3>3, SMT DEF WriteInv
  <2>10. flow' \in Flow /\ buf' \in [Bufs -> Nat] /\ call'.pc \in MovingPcs
      BY <1>2, <2>1, <2>5, MovingTypes DEF MovingPcs
  <2> QED BY <1>2, <1>3, <2>1, <2>5, <2>6, <2>8, <2>9, <2>10, MovingInv
<1> QED BY <1>4, <1>5

LEMMA StreamInv ==
    ASSUME Inv, call.pc \in MovingPcs
    PROVE  /\ call.op = "read" => ReadInv(flow.want, call.step, slot.remaining)
           /\ call.op = "write" => WriteInv(flow.want, call.step, slot.remaining)
BY DEF Inv, FlowInv

LEMMA WantsABlock ==
    ASSUME Inv, GoodRequests, call.pc \in MovingPcs
    PROVE  flow.want \in Nat /\ flow.want > 0
BY MovingTypes, GoodLength

LEMMA StepBeginsInv == ASSUME Inv, GoodRequests, StepBegins PROVE Inv'
<1>1. call.pc = "step" /\ bus' = bus /\ slot' = slot /\ buf' = buf /\ flow' = flow
    BY DEF StepBegins
<1>2. call.pc \in MovingPcs
    BY <1>1 DEF MovingPcs
<1>3. CardMoves /\ SlotMoves
    BY <1>1, <1>2, MovingTypes, StandsStill, SlotStays
<1>t. /\ call \in Call /\ flow \in Flow /\ buf \in [Bufs -> Nat]
      /\ call.step \in Nat /\ slot.remaining \in Nat /\ flow.want \in Nat
      /\ flow.want > 0 /\ call.op \in {"read", "write"} /\ call.first \in BOOLEAN
    BY <1>2, MovingTypes, WantsABlock DEF Transfers
<1>s. /\ call.op = "read" => ReadInv(flow.want, call.step, slot.remaining)
      /\ call.op = "write" => WriteInv(flow.want, call.step, slot.remaining)
    BY <1>2, StreamInv
<1>p. "card" \in Pcs /\ "usb" \in Pcs
    BY DEF Pcs
<1>4. CardSide \/ UsbSide
    BY <1>1, <1>t, <1>s, SMT DEF CardSide, UsbSide, ReadInv, WriteInv
<1>5. (CardSide /\ Goto("card")) \/ (~CardSide /\ UsbSide /\ Goto("usb"))
    BY <1>4 DEF StepBegins
<1>6. /\ call' \in Call /\ call'.pc \in {"card", "usb"} /\ call'.op = call.op
      /\ call'.step = call.step /\ call'.first = call.first
      /\ call'.pc = "card" => CardSide
      /\ call'.pc = "usb" => ~CardSide /\ UsbSide
    BY <1>t, <1>5, <1>p, GotoFacts
<1>7. LayersInv'
  <2>1. LayersInv
      BY DEF Inv
  <2> QED BY <1>1, <1>t, <1>s, <1>6, <2>1, SMT
          DEF LayersInv, MovingPcs, CardSide, UsbSide, ReadInv, WriteInv
<1>8. ASSUME call.op = "read" PROVE ReadInv(flow.want, call.step, slot.remaining)'
    BY <1>1, <1>t, <1>s, <1>6, <1>8, SMT DEF ReadInv, CardSide, UsbSide
<1>9. ASSUME call.op = "write" PROVE WriteInv(flow.want, call.step, slot.remaining)'
    BY <1>1, <1>t, <1>s, <1>6, <1>9, SMT DEF WriteInv, CardSide, UsbSide
<1> QED BY <1>1, <1>2, <1>3, <1>t, <1>6, <1>7, <1>8, <1>9, MovingInv DEF MovingPcs

\* One block on the card's side.
LEMMA StartBlockFacts ==
    ASSUME slot \in Slot, NEW b, NEW ok \in BOOLEAN, ok => slot.remaining > 0,
           StartBlock(b, ok)
    PROVE  /\ SlotMoves /\ slot'.total = slot.total
           /\ slot'.remaining = (IF ok THEN slot.remaining - 1 ELSE 0)
<1> DEFINE left == IF ok THEN slot.remaining - 1 ELSE 0
<1>1. left \in Nat
    BY SlotFields, SMT
<1>2. slot' = [slot EXCEPT !.remaining = left]
    BY DEF StartBlock
<1> HIDE DEF left
<1>3. /\ slot' \in Slot /\ slot'.remaining = left /\ slot'.total = slot.total
      /\ slot'.state = slot.state /\ slot'.type = slot.type
      /\ slot'.capacity = slot.capacity
      /\ slot'.timer = slot.timer /\ slot'.ticking = slot.ticking
    BY <1>1, <1>2, Zenon DEF Slot
<1> QED BY <1>3 DEF SlotMoves, left

LEMMA CardDoneFacts ==
    ASSUME call \in Call, CardDone
    PROVE  /\ call' \in Call /\ call'.pc = (IF UsbSide THEN "usb" ELSE "wait")
           /\ call'.op = call.op /\ call'.step = call.step /\ call'.first = call.first
<1> DEFINE pc == IF UsbSide THEN "usb" ELSE "wait"
<1>1. pc \in Pcs /\ Goto(pc)
    BY DEF Pcs, CardDone
<1> HIDE DEF pc
<1> QED BY <1>1, GotoFacts DEF pc

LEMMA FetchFromCardInv == ASSUME Inv, GoodRequests, FetchFromCard PROVE Inv'
<1>1. call.pc = "card" /\ call.op = "read"
    BY DEF FetchFromCard
<1>2. call.pc \in MovingPcs
    BY <1>1 DEF MovingPcs
<1>t. /\ bus \in Bus /\ slot \in Slot /\ call \in Call /\ flow \in Flow
      /\ buf \in [Bufs -> Nat]
      /\ call.step \in Nat /\ slot.remaining \in Nat /\ flow.want \in Nat
      /\ slot.total = flow.want /\ flow.want > 0 /\ call.first \in BOOLEAN
      /\ bus.card.next \in Nat /\ bus.pos \in Nat
  <2>1. bus \in Bus
      BY DEF Inv, TypeOK
  <2>2. bus.card.next \in Nat /\ bus.pos \in Nat
      BY <2>1, BusBasics, Zenon DEF Card
  <2> QED BY <1>2, <2>1, <2>2, MovingTypes, WantsABlock
<1>s. ReadInv(flow.want, call.step, slot.remaining)
    BY <1>1, <1>2, StreamInv
<1>l. /\ slot.remaining = call.step /\ call.step > 0 /\ bus.sel
      /\ bus.nb = slot.total /\ slot.remaining + bus.pos = slot.total
      /\ bus.card.mode = "read" => bus.card.next = bus.pos + 1
    BY <1>1, <1>t, <1>s, SMT DEF Inv, LayersInv, ReadInv, MovingPcs
<1>3. PICK ok \in BOOLEAN :
          /\ StartBlock(StartReadBlock(ok), ok)
          /\ IF ok
             THEN /\ buf' = [buf EXCEPT ![CardBuf] = bus.card.next]
                  /\ CardDone /\ flow' = flow
             ELSE Finish("FAIL")
    BY DEF FetchFromCard
<1>4. /\ bus' \in Bus /\ bus'.sel = bus.sel /\ bus'.nb = bus.nb /\ KeepsCard(bus')
      /\ bus'.card.mode \in {"read", "write"} => bus'.card.mode = bus.card.mode
      /\ ok => /\ bus.sel /\ bus.card.mode = "read"
               /\ bus'.pos = bus.pos + 1 /\ bus'.card.next = bus.card.next + 1
    BY <1>t, <1>3, ReadOnBus DEF StartBlock
<1>5. CardMoves
    BY <1>4 DEF CardMoves
<1>6. /\ SlotMoves /\ slot'.total = slot.total
      /\ slot'.remaining = (IF ok THEN slot.remaining - 1 ELSE 0)
    BY <1>3, <1>t, <1>l, StartBlockFacts
<1>7. CASE ok
  <2>1. /\ call' \in Call /\ call'.pc = (IF ~call.first THEN "usb" ELSE "wait")
        /\ call'.op = call.op /\ call'.step = call.step /\ call'.first = call.first
      BY <1>1, <1>3, <1>t, <1>7, CardDoneFacts DEF UsbSide
  <2>2. bus.card.next = flow.want - call.step + 1
      BY <1>4, <1>7, <1>l, <1>t, SMT
  <2>3. /\ buf' \in [Bufs -> Nat] /\ buf'[call.step % 2] = bus.card.next
        /\ buf'[(call.step + 1) % 2] = buf[(call.step + 1) % 2] /\ flow' = flow
    <3> DEFINE i == call.step % 2
               j == (call.step + 1) % 2
    <3>1. i \in Bufs /\ j \in Bufs /\ i # j
        BY <1>t, Parity
    <3>2. buf' = [buf EXCEPT ![i] = bus.card.next] /\ flow' = flow
        BY <1>3, <1>7 DEF CardBuf
    <3> HIDE DEF i, j
    <3>3. buf' \in [Bufs -> Nat] /\ buf'[i] = bus.card.next /\ buf'[j] = buf[j]
        BY <1>t, <3>1, <3>2
    <3> QED BY <3>2, <3>3 DEF i, j
  <2>4. slot'.remaining = call.step - 1
      BY <1>6, <1>7, <1>l
  <2>5. LayersInv'
      BY <1>1, <1>4, <1>6, <1>7, <1>l, <1>t, <2>1, <2>3, <2>4, SMT
         DEF LayersInv, MovingPcs
  <2>6. ReadInv(flow.want, call.step, slot.remaining)'
    <3>1. call.first => call.step = flow.want /\ flow.last = 0
        BY <1>1, <1>s DEF ReadInv
    <3>2. ~call.first => /\ call.step < flow.want /\ flow.last = flow.want - call.step - 1
                         /\ buf[(call.step + 1) % 2] = flow.want - call.step
        BY <1>1, <1>s DEF ReadInv
    <3>3. CASE call.first
      <4>1. /\ call'.pc = "wait" /\ call.step = flow.want /\ flow.last = 0
          BY <2>1, <3>1, <3>3
      <4> QED BY <1>l, <1>t, <2>1, <2>2, <2>3, <2>4, <4>1, SMT DEF ReadInv
    <3>4. CASE ~call.first
      <4>1. call'.pc = "usb" /\ ~call'.first
          BY <2>1, <3>4
      <4>2. /\ call.step < flow.want /\ flow.last = flow.want - call.step - 1
            /\ buf[(call.step + 1) % 2] = flow.want - call.step
          BY <3>2, <3>4
      <4> QED BY <1>l, <1>t, <2>1, <2>2, <2>3, <2>4, <4>1, <4>2, SMT DEF ReadInv
    <3> QED BY <3>3, <3>4
  <2>7. call'.pc \in MovingPcs
      BY <2>1 DEF MovingPcs
  <2> QED BY <1>1, <1>2, <1>5, <1>6, <1>t, <2>1, <2>3, <2>5, <2>6, <2>7, MovingInv
<1>8. CASE ~ok
    BY <1>2, <1>3, <1>5, <1>6, <1>8, FinishInv, ResultNames
<1> QED BY <1>7, <1>8

LEMMA StoreToCardInv == ASSUME Inv, GoodRequests, StoreToCard PROVE Inv'
<1>1. call.pc = "card" /\ call.op = "write"
    BY DEF StoreToCard
<1>2. call.pc \in MovingPcs
    BY <1>1 DEF MovingPcs
<1>t. /\ bus \in Bus /\ slot \in Slot /\ call \in Call /\ flow \in Flow
      /\ buf \in [Bufs -> Nat]
      /\ call.step \in Nat /\ slot.remaining \in Nat /\ flow.want \in Nat
      /\ slot.total = flow.want /\ flow.want > 0 /\ call.first \in BOOLEAN
      /\ bus.pos \in Nat
  <2>1. bus \in Bus
      BY DEF Inv, TypeOK
  <2> QED BY <1>2, <2>1, BusBasics, MovingTypes, WantsABlock
<1>s. WriteInv(flow.want, call.step, slot.remaining)
    BY <1>1, <1>2, StreamInv
<1>w. /\ ~call.first /\ call.step < flow.want /\ slot.remaining = call.step + 1
      /\ flow.fetched = flow.want - call.step /\ buf[call.step % 2] = flow.want - call.step
    BY <1>1, <1>s DEF WriteInv
<1>l. /\ bus.sel /\ bus.nb = slot.total /\ slot.remaining + bus.pos = slot.total
    BY <1>1, <1>t, <1>w, SMT DEF Inv, LayersInv, MovingPcs
<1>3. PICK ok \in BOOLEAN :
          /\ StartBlock(StartWriteBlock(ok), ok)
          /\ IF ok
             THEN /\ flow' = [flow EXCEPT !.last = buf[CardBuf]]
                  /\ CardDone /\ buf' = buf
             ELSE Finish("FAIL")
    BY DEF StoreToCard
<1>4. /\ bus' \in Bus /\ bus'.sel = bus.sel /\ bus'.nb = bus.nb /\ KeepsCard(bus')
      /\ bus'.card.mode \in {"read", "write"} => bus'.card.mode = bus.card.mode
      /\ ok => bus.card.mode = "write" /\ bus'.pos = bus.pos + 1
    BY <1>t, <1>3, WriteOnBus DEF StartBlock
<1>5. CardMoves
    BY <1>4 DEF CardMoves
<1>6. /\ SlotMoves /\ slot'.total = slot.total
      /\ slot'.remaining = (IF ok THEN slot.remaining - 1 ELSE 0)
  <2>1. slot.remaining > 0
      BY <1>t, <1>w, SMT
  <2> QED BY <1>3, <1>t, <2>1, StartBlockFacts
<1>7. CASE ok
  <2>1. /\ call' \in Call /\ call'.pc = (IF call.step > 0 THEN "usb" ELSE "wait")
        /\ call'.op = call.op /\ call'.step = call.step /\ call'.first = call.first
      BY <1>1, <1>3, <1>t, <1>7, CardDoneFacts DEF UsbSide
  <2>2. /\ flow' \in Flow /\ flow'.last = flow.want - call.step /\ flow'.want = flow.want
        /\ flow'.fetched = flow.fetched /\ flow'.status = flow.status
        /\ flow'.told = flow.told /\ buf' = buf
    <3> DEFINE m == buf[call.step % 2]
    <3>1. m \in Nat /\ m = flow.want - call.step
        BY <1>t, <1>w, Parity
    <3>2. flow' = [flow EXCEPT !.last = m] /\ buf' = buf
        BY <1>3, <1>7 DEF CardBuf
    <3> HIDE DEF m
    <3>3. /\ flow' \in Flow /\ flow'.last = m /\ flow'.want = flow.want
          /\ flow'.fetched = flow.fetched /\ flow'.status = flow.status
          /\ flow'.told = flow.told
        BY <1>t, <3>1, <3>2, Zenon DEF Flow
    <3> QED BY <3>1, <3>2, <3>3
  <2>3. slot'.remaining = call.step
      BY <1>6, <1>7, <1>t, <1>w, SMT
  <2>4. LayersInv'
      BY <1>1, <1>4, <1>6, <1>7, <1>l, <1>t, <1>w, <2>1, <2>2, <2>3, SMT
         DEF LayersInv, MovingPcs
  <2>5. WriteInv(flow.want, call.step, slot.remaining)'
      BY <1>t, <1>w, <2>1, <2>2, <2>3, SMT DEF WriteInv
  <2>6. call'.pc \in MovingPcs
      BY <2>1 DEF MovingPcs
  <2> QED BY <1>1, <1>2, <1>5, <1>6, <1>t, <2>1, <2>2, <2>4, <2>5, <2>6, MovingInv
<1>8. CASE ~ok
    BY <1>2, <1>3, <1>5, <1>6, <1>8, FinishInv, ResultNames
<1> QED BY <1>7, <1>8

LEMMA UsbMovesInv == ASSUME Inv, GoodRequests, UsbMoves PROVE Inv'
<1>1. call.pc = "usb" /\ bus' = bus /\ slot' = slot
    BY DEF UsbMoves
<1>2. call.pc \in MovingPcs
    BY <1>1 DEF MovingPcs
<1>3. CardMoves /\ SlotMoves
    BY <1>1, <1>2, MovingTypes, StandsStill, SlotStays
<1>t. /\ call \in Call /\ flow \in Flow /\ buf \in [Bufs -> Nat]
      /\ call.step \in Nat /\ slot.remaining \in Nat /\ flow.want \in Nat
      /\ flow.want > 0 /\ call.op \in {"read", "write"} /\ call.first \in BOOLEAN
      /\ flow.fetched \in Nat
    BY <1>2, MovingTypes, WantsABlock DEF Transfers
<1>s. /\ call.op = "read" => ReadInv(flow.want, call.step, slot.remaining)
      /\ call.op = "write" => WriteInv(flow.want, call.step, slot.remaining)
    BY <1>2, StreamInv
<1>l. LayersInv
    BY DEF Inv
<1>p. "wait" \in Pcs
    BY DEF Pcs
<1>4. /\ call' \in Call /\ call'.op = call.op /\ call'.step = call.step
      /\ CardSide => call'.pc = "wait" /\ call'.first = call.first
      /\ ~CardSide => call'.pc = "loop" /\ ~call'.first
      /\ call'.pc \in {"wait", "loop"}
  <2>1. UsbDone
      BY DEF UsbMoves
  <2> QED BY <2>1, <1>t, <1>p, GotoFacts, StepEndsFacts DEF UsbDone
<1>5. call'.pc \in MovingPcs
    BY <1>4 DEF MovingPcs
<1> DEFINE j == (call.step + 1) % 2
           i == call.step % 2
<1>j. i \in Bufs /\ j \in Bufs /\ i # j
    BY <1>t, Parity
<1>6. CASE call.op = "read"
  <2>1. flow' = [flow EXCEPT !.last = buf[j]] /\ buf' = buf
      BY <1>6 DEF UsbMoves, UsbBuf
  <2>2. ~call.first /\ call.step < flow.want /\ buf[j] = flow.want - call.step
      BY <1>1, <1>s, <1>6 DEF ReadInv
  <2>3. call.step > 0 => /\ slot.remaining = call.step - 1
                         /\ buf[i] = flow.want - call.step + 1
      BY <1>1, <1>s, <1>6 DEF ReadInv
  <2>4. call.step = 0 => slot.remaining = 0
      BY <1>1, <1>s, <1>6 DEF ReadInv
  <2>5. /\ flow' \in Flow /\ flow'.last = flow.want - call.step /\ flow'.want = flow.want
        /\ flow'.status = flow.status /\ flow'.told = flow.told
    <3> DEFINE m == buf[j]
    <3>1. m \in Nat
        BY <1>t, <1>j
    <3>2. flow' = [flow EXCEPT !.last = m]
        BY <2>1
    <3>3. m = flow.want - call.step
        BY <2>2
    <3> HIDE DEF m, j
    <3>4. /\ flow' \in Flow /\ flow'.last = m /\ flow'.want = flow.want
          /\ flow'.status = flow.status /\ flow'.told = flow.told
        BY <1>t, <3>1, <3>2, Zenon DEF Flow
    <3> QED BY <3>3, <3>4
  <2>6. CASE call.step > 0
    <3>1. call'.pc = "wait" /\ ~call'.first
        BY <1>4, <1>6, <2>2, <2>6 DEF CardSide
    <3>2. LayersInv'
        BY <1>1, <1>2, <1>l, <1>4, <2>5, <2>6, <3>1 DEF LayersInv, MovingPcs
    <3>3. ReadInv(flow.want, call.step, slot.remaining)'
        BY <1>1, <1>4, <1>t, <2>1, <2>2, <2>3, <2>5, <2>6, <3>1, SMT DEF ReadInv
    <3> QED BY <1>2, <1>3, <1>4, <1>5, <1>6, <1>t, <2>1, <2>5, <3>2, <3>3, MovingInv
  <2>7. CASE call.step = 0
    <3>1. call'.pc = "loop" /\ ~call'.first
        BY <1>4, <1>6, <2>2, <2>7 DEF CardSide
    <3>2. LayersInv'
        BY <1>1, <1>2, <1>l, <1>4, <1>6, <2>4, <2>5, <2>7, <3>1 DEF LayersInv, MovingPcs
    <3>3. ReadInv(flow.want, call.step, slot.remaining)'
        BY <1>1, <1>4, <1>t, <2>1, <2>2, <2>4, <2>5, <2>7, <3>1, SMT DEF ReadInv
    <3> QED BY <1>2, <1>3, <1>4, <1>5, <1>6, <1>t, <2>1, <2>5, <3>2, <3>3, MovingInv
  <2> QED BY <1>t, <2>6, <2>7, SMT
<1>7. CASE call.op = "write"
  <2> DEFINE f == flow.fetched + 1
  <2>1. flow' = [flow EXCEPT !.fetched = f] /\ buf' = [buf EXCEPT ![j] = f]
      BY <1>7 DEF UsbMoves, UsbBuf
  <2>2. /\ call.step > 0 /\ call.step <= flow.want /\ flow.last = flow.want - call.step
        /\ flow.fetched = flow.want - call.step /\ slot.remaining = call.step
      BY <1>1, <1>s, <1>7 DEF WriteInv
  <2>3. f \in Nat /\ f = flow.want - call.step + 1
      BY <1>t, <2>2
  <2> HIDE DEF f
  <2>4. /\ flow' \in Flow /\ flow'.last = flow.last /\ flow'.want = flow.want
        /\ flow'.fetched = f /\ flow'.status = flow.status /\ flow'.told = flow.told
      BY <1>t, <2>1, <2>3, Zenon DEF Flow
  <2>5. buf' \in [Bufs -> Nat] /\ buf'[j] = f
    <3> HIDE DEF j
    <3> QED BY <1>t, <1>j, <2>1, <2>3
  <2>6. LayersInv'
    <3>1. bus.sel
        BY <1>1, <1>2, <1>l, <1>7 DEF LayersInv
    <3> QED BY <1>1, <1>2, <1>l, <1>4, <1>7, <1>t, <2>2, <2>4, <3>1
            DEF LayersInv, MovingPcs
  <2>7. WriteInv(flow.want, call.step, slot.remaining)'
    <3>1. CASE call.first
      <4>1. call'.pc = "loop" /\ ~call'.first
          BY <1>4, <1>7, <3>1 DEF CardSide
      <4> QED BY <1>1, <1>4, <1>t, <2>2, <2>3, <2>4, <2>5, <4>1, SMT DEF WriteInv
    <3>2. CASE ~call.first
      <4>1. call'.pc = "wait" /\ ~call'.first
          BY <1>4, <1>7, <3>2 DEF CardSide
      <4> QED BY <1>1, <1>4, <1>t, <2>2, <2>3, <2>4, <2>5, <4>1, SMT DEF WriteInv
    <3> QED BY <3>1, <3>2
  <2> QED BY <1>2, <1>3, <1>4, <1>5, <1>7, <2>4, <2>5, <2>6, <2>7, MovingInv
<1> QED BY <1>t, <1>6, <1>7

LEMMA UsbGivesUpInv == ASSUME Inv, UsbGivesUp PROVE Inv'
<1>1. call.pc = "usb" /\ bus' = bus /\ slot' = slot
    BY DEF UsbGivesUp
<1>2. call.pc \in MovingPcs
    BY <1>1 DEF MovingPcs
<1>3. CardMoves /\ SlotMoves
    BY <1>1, <1>2, MovingTypes, StandsStill, SlotStays
<1>4. CASE call.first
    BY <1>2, <1>3, <1>4, FinishInv, ResultNames DEF UsbGivesUp
<1>5. CASE ~call.first
  <2>1. Goto("abort") /\ flow' = flow /\ buf' = buf
      BY <1>5 DEF UsbGivesUp
  <2>2. "abort" \in Pcs
      BY DEF Pcs
  <2>3. call' \in Call /\ call'.pc = "abort" /\ call'.op = call.op
      BY <1>2, <2>1, <2>2, GotoFacts, MovingTypes
  <2>4. LayersInv'
      BY <1>1, <1>2, <2>1, <2>3 DEF Inv, LayersInv, MovingPcs
  <2>5. /\ ReadInv(flow.want, call.step, slot.remaining)'
        /\ WriteInv(flow.want, call.step, slot.remaining)'
      BY <2>3 DEF ReadInv, WriteInv
  <2>6. call'.pc \in MovingPcs /\ flow' \in Flow /\ buf' \in [Bufs -> Nat]
      BY <1>2, <2>1, <2>3, MovingTypes DEF MovingPcs
  <2> QED BY <1>2, <1>3, <2>1, <2>3, <2>4, <2>5, <2>6, MovingInv
<1> QED BY <1>4, <1>5

\* The end of a read: what is left is not touched unless the transfer is aborted.
LEMMA EndOfReadFacts ==
    ASSUME bus \in Bus, slot \in Slot, NEW abort \in BOOLEAN, WaitEndOfReadBlocks(abort)
    PROVE  /\ CardMoves /\ SlotMoves /\ slot'.total = slot.total
           /\ ~abort => /\ slot'.remaining = slot.remaining
                        /\ slot.remaining > 0 => bus' = bus
                        /\ slot.remaining = 0 => ~bus'.sel
<1> DEFINE left == IF abort THEN 0 ELSE slot.remaining
<1>1. left \in Nat
    BY SlotFields
<1>2. /\ slot' = [slot EXCEPT !.remaining = left]
      /\ IF left > 0 THEN bus' = bus
         ELSE IF slot.total = 1 THEN bus' = DeselectDevice
         ELSE \E b \in StopReading : bus' = [b EXCEPT !.sel = FALSE]
    BY DEF WaitEndOfReadBlocks
<1>l. (~abort => left = slot.remaining) /\ (left > 0 \/ left = 0)
    BY <1>1, SMT
<1> HIDE DEF left
<1>3. /\ slot' \in Slot /\ slot'.remaining = left /\ slot'.total = slot.total
      /\ slot'.state = slot.state /\ slot'.type = slot.type
      /\ slot'.capacity = slot.capacity
      /\ slot'.timer = slot.timer /\ slot'.ticking = slot.ticking
    BY <1>1, <1>2, Zenon DEF Slot
<1>4. CASE left > 0
  <2>1. bus' = bus /\ left # 0
      BY <1>1, <1>2, <1>4, SMT
  <2> QED BY <1>3, <1>4, <1>l, <2>1, StandsStill DEF SlotMoves
<1>5. CASE left = 0
  <2>1. ~(left > 0)
      BY <1>5
  <2>2. CardMoves /\ ~bus'.sel
    <3>1. CASE bus' = DeselectDevice
      <4>1. bus' \in Bus /\ bus'.card = bus.card /\ ~bus'.sel
          BY <3>1, SelectsBus
      <4> QED BY <4>1 DEF CardMoves, KeepsCard, Live
    <3>2. CASE \E b \in StopReading : bus' = [b EXCEPT !.sel = FALSE]
      <4>1. PICK b \in StopReading : bus' = [b EXCEPT !.sel = FALSE]
          BY <3>2
      <4>2. b \in Bus /\ KeepsCard(b) /\ (b.card = bus.card \/ b.card.mode = "tran")
          BY <4>1, StopOnBus
      <4>3. bus' \in Bus /\ bus'.card = b.card /\ ~bus'.sel
          BY <4>1, <4>2, Zenon DEF Bus
      <4> QED BY <4>2, <4>3 DEF CardMoves, KeepsCard
    <3> QED BY <1>2, <2>1, <3>1, <3>2
  <2> QED BY <1>3, <1>5, <1>l, <2>1, <2>2 DEF SlotMoves
<1> QED BY <1>l, <1>4, <1>5

LEMMA EndOfWriteFacts ==
    ASSUME bus \in Bus, slot \in Slot, NEW abort \in BOOLEAN, NEW ok \in BOOLEAN,
           WaitEndOfWriteBlocks(abort, ok)
    PROVE  /\ CardMoves /\ SlotMoves /\ slot'.total = slot.total
           /\ ~abort /\ ok =>
                  /\ slot'.remaining = slot.remaining
                  /\ bus'.nb = bus.nb /\ bus'.pos = bus.pos
                  /\ bus'.sel <=> bus.sel /\ slot.remaining # 0
                  /\ bus'.card = bus.card \/ bus'.card.mode = "tran"
<1> DEFINE left == IF abort THEN 0 ELSE slot.remaining
<1>1. left \in Nat
    BY SlotFields
<1>2. PICK b \in WaitEndOfWrite(ok) :
          /\ slot' = IF ok THEN [slot EXCEPT !.remaining = left] ELSE slot
          /\ bus' = IF ok /\ left = 0 THEN [b EXCEPT !.sel = FALSE] ELSE b
    BY DEF WaitEndOfWriteBlocks
<1>l. ~abort => left = slot.remaining
    OBVIOUS
<1> HIDE DEF left
<1>3. /\ b \in Bus /\ b.sel = bus.sel /\ b.nb = bus.nb /\ b.pos = bus.pos
      /\ KeepsCard(b) /\ (b.card = bus.card \/ b.card.mode = "tran")
    BY <1>2, WaitOnBus
<1>4. /\ slot' \in Slot /\ slot'.total = slot.total
      /\ slot'.state = slot.state /\ slot'.type = slot.type
      /\ slot'.capacity = slot.capacity
      /\ slot'.timer = slot.timer /\ slot'.ticking = slot.ticking
      /\ ok => slot'.remaining = left
    BY <1>1, <1>2, Zenon DEF Slot
<1>5. /\ bus' \in Bus /\ bus'.card = b.card /\ bus'.nb = b.nb /\ bus'.pos = b.pos
      /\ ok => (bus'.sel <=> b.sel /\ left # 0)
  <2>1. CASE ok /\ left = 0
    <3>1. bus' = [b EXCEPT !.sel = FALSE]
        BY <1>2, <2>1
    <3>2. /\ bus' \in Bus /\ bus'.card = b.card /\ bus'.nb = b.nb /\ bus'.pos = b.pos
          /\ ~bus'.sel
        BY <1>3, <3>1, Zenon DEF Bus
    <3> QED BY <2>1, <3>2
  <2>2. CASE ~(ok /\ left = 0)
    <3>1. bus' = b
        BY <1>2, <2>2
    <3> QED BY <1>3, <2>2, <3>1
  <2> QED BY <2>1, <2>2
<1>6. CardMoves /\ SlotMoves
    BY <1>3, <1>4, <1>5 DEF CardMoves, SlotMoves, KeepsCard
<1> QED BY <1>3, <1>4, <1>5, <1>6, <1>l

LEMMA AbortTransferInv == ASSUME Inv, AbortTransfer PROVE Inv'
<1>1. call.pc \in MovingPcs /\ Finish("FAIL")
    BY DEF AbortTransfer, MovingPcs
<1>2. bus \in Bus /\ slot \in Slot
    BY <1>1, MovingTypes
<1>3. \/ WaitEndOfReadBlocks(TRUE)
      \/ \E ok \in BOOLEAN : WaitEndOfWriteBlocks(TRUE, ok)
    BY DEF AbortTransfer
<1>4. CardMoves /\ SlotMoves
    BY <1>2, <1>3, EndOfReadFacts, EndOfWriteFacts
<1> QED BY <1>1, <1>4, FinishInv, ResultNames

LEMMA WaitEndInv == ASSUME Inv, GoodRequests, WaitEnd PROVE Inv'
<1>1. call.pc = "wait"
    BY DEF WaitEnd
<1>2. call.pc \in MovingPcs
    BY <1>1 DEF MovingPcs
<1>t. /\ bus \in Bus /\ slot \in Slot /\ call \in Call /\ flow \in Flow
      /\ buf \in [Bufs -> Nat] /\ slot.total = flow.want
      /\ call.step \in Nat /\ slot.remaining \in Nat /\ flow.want \in Nat
      /\ flow.want > 0 /\ call.op \in {"read", "write"}
    BY <1>2, MovingTypes, WantsABlock DEF Transfers
<1>l. /\ bus.sel /\ bus.nb = slot.total /\ slot.remaining + bus.pos = slot.total
      /\ bus.card.mode = "read" => bus.card.next = bus.pos + 1
    BY <1>1, <1>2 DEF Inv, LayersInv
<1>3. CASE call.op = "read"
  <2>1. WaitEndOfReadBlocks(FALSE) /\ StepEnds /\ flow' = flow /\ buf' = buf
      BY <1>3 DEF WaitEnd
  <2>2. /\ CardMoves /\ SlotMoves /\ slot'.total = slot.total
        /\ slot'.remaining = slot.remaining
        /\ slot.remaining > 0 => bus' = bus
        /\ slot.remaining = 0 => ~bus'.sel
      BY <1>t, <2>1, EndOfReadFacts
  <2>3. /\ call' \in Call /\ call'.pc = "loop" /\ ~call'.first
        /\ call'.op = call.op /\ call'.step = call.step
      BY <1>t, <2>1, StepEndsFacts
  <2>4. LayersInv'
    <3>1. CASE slot.remaining = 0
        BY <1>t, <2>1, <2>2, <2>3, <3>1, SMT DEF LayersInv, MovingPcs
    <3>2. CASE slot.remaining > 0
        BY <1>t, <1>l, <2>1, <2>2, <2>3, <3>2, SMT DEF LayersInv, MovingPcs
    <3> QED BY <1>t, <3>1, <3>2, SMT
  <2>5. /\ call.step > 0 /\ call.step <= flow.want /\ flow.last = flow.want - call.step
        /\ slot.remaining = call.step - 1
        /\ buf[call.step % 2] = flow.want - call.step + 1
      BY <1>1, <1>2, <1>3, StreamInv DEF ReadInv
  <2>6. ReadInv(flow.want, call.step, slot.remaining)'
      BY <1>t, <2>1, <2>2, <2>3, <2>5, SMT DEF ReadInv
  <2>7. call'.pc \in MovingPcs
      BY <2>3 DEF MovingPcs
  <2> QED BY <1>2, <1>3, <1>t, <2>1, <2>2, <2>3, <2>4, <2>6, <2>7, MovingInv
<1>4. CASE call.op = "write"
  <2>1. PICK ok \in BOOLEAN :
            /\ WaitEndOfWriteBlocks(FALSE, ok)
            /\ IF ok THEN StepEnds /\ UNCHANGED <<buf, flow>> ELSE Finish("FAIL")
      BY <1>4 DEF WaitEnd
  <2>2. /\ CardMoves /\ SlotMoves /\ slot'.total = slot.total
        /\ ok => /\ slot'.remaining = slot.remaining
                 /\ bus'.nb = bus.nb /\ bus'.pos = bus.pos
                 /\ bus'.sel <=> bus.sel /\ slot.remaining # 0
                 /\ bus'.card = bus.card \/ bus'.card.mode = "tran"
      BY <1>t, <2>1, EndOfWriteFacts
  <2>3. CASE ~ok
      BY <1>2, <2>1, <2>2, <2>3, FinishInv, ResultNames
  <2>4. CASE ok
    <3>1. StepEnds /\ flow' = flow /\ buf' = buf
        BY <2>1, <2>4
    <3>2. /\ call' \in Call /\ call'.pc = "loop" /\ ~call'.first
          /\ call'.op = call.op /\ call'.step = call.step
        BY <1>t, <3>1, StepEndsFacts
    <3>3. LayersInv'
        BY <1>t, <1>l, <2>2, <2>4, <3>1, <3>2, SMT DEF LayersInv, MovingPcs
    <3>4. /\ ~call.first /\ call.step <= flow.want /\ flow.last = flow.want - call.step
          /\ slot.remaining = call.step
          /\ call.step > 0 => /\ flow.fetched = flow.want - call.step + 1
                              /\ buf[(call.step + 1) % 2] = flow.want - call.step + 1
        BY <1>1, <1>2, <1>4, StreamInv DEF WriteInv
    <3>5. WriteInv(flow.want, call.step, slot.remaining)'
        BY <1>t, <2>2, <2>4, <3>1, <3>2, <3>4, SMT DEF WriteInv
    <3>6. call'.pc \in MovingPcs
        BY <3>2 DEF MovingPcs
    <3> QED BY <1>2, <1>4, <1>t, <2>2, <3>1, <3>2, <3>3, <3>5, <3>6, MovingInv
  <2> QED BY <2>3, <2>4
<1> QED BY <1>t, <1>3, <1>4

----------------------------------------------------------------------------
(* The socket and the timer, and the invariant as a whole.                 *)

LEMMA SocketInv == ASSUME Inv, PlugCard \/ PullCard PROVE Inv'
<1>1. /\ bus \in Bus /\ slot \in Slot /\ call \in Call /\ flow \in Flow
      /\ buf \in [Bufs -> Nat] /\ slot' = slot /\ call' = call /\ buf' = buf
      /\ Insert \/ Remove
    BY DEF Inv, TypeOK, PlugCard, PullCard
<1>2. /\ bus' \in Bus /\ ~Live(bus'.card)
      /\ bus'.sel = bus.sel /\ bus'.nb = bus.nb /\ bus'.pos = bus.pos
    BY <1>1, SocketOnBus
<1>3. /\ flow' \in Flow /\ flow'.want = flow.want /\ flow'.last = flow.last
      /\ flow'.status = flow.status /\ flow'.fetched = flow.fetched
  <2>1. flow' = [flow EXCEPT !.told = FALSE] \/ flow' = flow
      BY DEF PlugCard, PullCard
  <2> QED BY <1>1, <2>1, Zenon DEF Flow
<1>4. bus'.card.mode \notin {"read", "write"}
    BY <1>2 DEF Live
<1>5. MediumInv'
    BY <1>1, <1>2, <1>4 DEF Inv, MediumInv, InstallOk
<1>6. LayersInv'
    BY <1>1, <1>2, <1>3, <1>4 DEF Inv, LayersInv
<1>7. FlowInv'
    BY <1>1, <1>3 DEF Inv, FlowInv, ReadInv, WriteInv
<1> QED BY <1>1, <1>2, <1>3, <1>5, <1>6, <1>7 DEF Inv, TypeOK

LEMMA TimerInv == ASSUME Inv, Timer PROVE Inv'
<1>1. /\ bus' = bus /\ call' = call /\ buf' = buf /\ flow' = flow
      /\ slot \in Slot /\ slot.timer = "running"
      /\ slot' = [slot EXCEPT !.timer = "expired"]
    BY DEF Inv, TypeOK, Timer, TimerExpires
<1>2. "expired" \in Timers
    BY DEF Timers
<1>3. /\ slot' \in Slot /\ SameCard(slot', slot) /\ slot'.state = slot.state
      /\ slot'.ticking = slot.ticking
    BY <1>1, <1>2, SlotTimer
<1>4. MediumInv'
    BY <1>1, <1>3 DEF Inv, MediumInv, InstallOk, RightUnit, SameCard
<1>5. LayersInv' /\ FlowInv'
    BY <1>1, <1>3 DEF Inv, LayersInv, FlowInv, ReadInv, WriteInv, SameCard
<1> QED BY <1>1, <1>3, <1>4, <1>5 DEF Inv, TypeOK, TimerOk

LEMMA InitInv == ASSUME Init PROVE Inv
<1>1. bus \in Bus /\ bus.card.mode = "absent"
  <2>1. NoCard \in Card /\ NoCard.mode = "absent"
      BY SMT DEF NoCard, Card, AllKinds, Modes
  <2>2. bus = [card |-> NoCard, sel |-> FALSE, nb |-> 0, pos |-> 0, upset |-> FALSE]
      BY DEF Init, BusInit
  <2> HIDE DEF NoCard
  <2> QED BY <2>1, <2>2 DEF Bus
<1>2. slot \in Slot /\ slot.state = "NO_CARD" /\ slot.timer = "off"
  <2>1. slot = [state |-> "NO_CARD", timer |-> "off", ticking |-> FALSE,
                install |-> "done", v2 |-> FALSE, type |-> {},
                capacity |-> "none", total |-> 0, remaining |-> 0]
      BY DEF Init, SlotInit
  <2> QED BY <2>1 DEF Slot, States, Timers, Installs, Capacities
<1>3. /\ call \in Call /\ call.op = "none" /\ call.pc = "idle" /\ call.result = "GOOD"
  <2>1. call = [op |-> "none", pc |-> "idle", step |-> 0, first |-> TRUE,
                capacity |-> "none", result |-> "GOOD"]
      BY DEF Init
  <2>2. 0 \in 0 .. CounterSize - 1
      BY CounterSizeAssumption, SMT
  <2> QED BY <2>1, <2>2 DEF Call, Ops, Pcs, Capacities, Results
<1>4. flow \in Flow /\ flow.status = "good"
  <2>1. flow = [want |-> 0, last |-> 0, status |-> "good", fetched |-> 0,
                told |-> FALSE, began |-> FALSE]
      BY DEF Init
  <2> QED BY <2>1 DEF Flow
<1>5. buf \in [Bufs -> Nat]
    BY DEF Init, Blank
<1>6. MediumInv
    BY <1>1, <1>2, <1>3 DEF MediumInv
<1>7. LayersInv /\ FlowInv
    BY <1>3, <1>4 DEF LayersInv, FlowInv, TransferPcs, StartingPcs, MovingPcs
<1> QED BY <1>1, <1>2, <1>3, <1>4, <1>5, <1>6, <1>7 DEF Inv, TypeOK, TimerOk

LEMMA NextInv == ASSUME GoodRequests, Inv, [Next]_vars PROVE Inv'
<1>1. CASE ControlStep
    BY <1>1, GetCapacityInv, CheckInv, InstallInv, InstalledInv, GetTypeInv
       DEF ControlStep
<1>2. CASE TransferStep
    BY <1>2, SelectInv, WaitReadyInv, StartTransferInv, LoopTestInv, StepBeginsInv,
       FetchFromCardInv, StoreToCardInv, UsbMovesInv, UsbGivesUpInv,
       AbortTransferInv, WaitEndInv DEF TransferStep
<1>3. CASE HostCalls
    BY <1>3, ControlCallsInv, TransferCallInv DEF HostCalls
<1>4. CASE PlugCard \/ PullCard
    BY <1>4, SocketInv
<1>5. CASE Timer
    BY <1>5, TimerInv
<1>6. CASE UNCHANGED vars
  <2>1. bus' = bus /\ slot' = slot /\ call' = call /\ buf' = buf /\ flow' = flow
      BY <1>6 DEF vars
  <2>2. TypeOK' /\ TimerOk(slot')
      BY <2>1 DEF Inv, TypeOK, TimerOk
  <2>3. MediumInv'
      BY <2>1 DEF Inv, MediumInv, InstallOk, RightUnit
  <2>4. LayersInv' /\ FlowInv'
      BY <2>1 DEF Inv, LayersInv, FlowInv, ReadInv, WriteInv
  <2> QED BY <2>2, <2>3, <2>4 DEF Inv
<1> QED BY <1>1, <1>2, <1>3, <1>4, <1>5, <1>6 DEF Next, StackStep

LEMMA SdInvariant == ASSUME GoodRequests PROVE Spec => []Inv
<1>1. Init => Inv
    BY InitInv
<1>2. Inv /\ [Next]_vars => Inv'
    BY NextInv
<1> QED BY <1>1, <1>2, PTL DEF Spec

----------------------------------------------------------------------------
(* The properties of the runs, for every number of blocks and every width   *)
(* of the counter.                                                         *)

\* Every value of the stack and of the transfer stays in its type
\* (sd_mmc_mem.c, sd_mmc.c, sd_mmc_spi.c).
THEOREM SdTypeCorrect == ASSUME GoodRequests PROVE Spec => []TypeOK
<1>1. Inv => TypeOK
    BY DEF Inv
<1> QED BY <1>1, SdInvariant, PTL

\* The counters of sd_mmc.c and of sd_mmc_spi.c add up through every transfer, and the
\* slot is released with its last block: neither layer waits for a block that the
\* other does not send.
THEOREM LayersAlwaysAgree == ASSUME GoodRequests PROVE Spec => []LayersAgree
<1>1. Inv => LayersAgree
  <2> SUFFICES ASSUME Inv, call.pc \in MovingPcs
               PROVE  /\ slot.total = flow.want
                      /\ call.pc = "card" => slot.remaining > 0
                      /\ bus.sel => /\ bus.nb = slot.total
                                    /\ slot.remaining + bus.pos = slot.total
                      /\ call.pc = "loop" => (bus.sel <=> slot.remaining > 0)
      BY DEF LayersAgree, MovingPcs
  <2>1. /\ slot.total = flow.want
        /\ bus.sel => bus.nb = slot.total /\ slot.remaining + bus.pos = slot.total
        /\ call.pc = "loop" => (bus.sel <=> slot.remaining > 0)
      BY DEF Inv, LayersInv
  <2>2. call.pc = "card" => slot.remaining > 0
      BY MovingTypes, StreamInv, SMT DEF ReadInv, WriteInv, Transfers
  <2> QED BY <2>1, <2>2
<1> QED BY <1>1, SdInvariant, PTL

\* A card is never read or written with an address in the wrong unit, whichever
\* answers of its identification were lost.
THEOREM AlwaysAddressedInItsUnit == ASSUME GoodRequests PROVE Spec => []AddressedInItsUnit
<1>1. Inv => AddressedInItsUnit
    BY DEF Inv, MediumInv, AddressedInItsUnit, Live, RightUnit
<1> QED BY <1>1, SdInvariant, PTL

\* READ CAPACITY never reports, with "good", the 0 of a card that was not ready, or the
\* size of the card before it.
THEOREM CapacityAlwaysTheCards == ASSUME GoodRequests PROVE Spec => []GoodCapacityIsTheCards
<1>1. Inv => GoodCapacityIsTheCards
    BY DEF Inv, MediumInv, GoodCapacityIsTheCards, Live
<1> QED BY <1>1, SdInvariant, PTL

\* No data moves before the host has had the UNIT ATTENTION of the new medium.
THEOREM AlwaysToldBeforeData == ASSUME GoodRequests PROVE Spec => []ToldBeforeData
<1>1. Inv => ToldBeforeData
    BY DEF Inv, MediumInv, ToldBeforeData
<1> QED BY <1>1, SdInvariant, PTL

\* TEST UNIT READY never waits for the debounce in the USB interrupt.
THEOREM NeverDelays == ASSUME GoodRequests PROVE Spec => []NeverDelaysOnTheSpot
<1>1. Inv => NeverDelaysOnTheSpot
    BY DEF Inv, TimerOk, NeverDelaysOnTheSpot
<1> QED BY <1>1, SdInvariant, PTL

----------------------------------------------------------------------------
(* The pipeline implements a plain stream of blocks.                       *)

LEMMA StreamUnfolds ==
    /\ Stream!Begin <=> /\ flow.status # "busy"
                        /\ flow'.want \in Requests /\ flow'.last = 0
                        /\ flow'.status = "busy"
    /\ Stream!Move <=> /\ flow.status = "busy" /\ flow.last < flow.want
                       /\ flow'.last = flow.last + 1
                       /\ flow'.want = flow.want /\ flow'.status = flow.status
    /\ Stream!Finish <=> /\ flow.status = "busy"
                         /\ \/ flow'.status = "good" /\ flow.last = flow.want
                            \/ flow'.status = "fail"
                         /\ flow'.want = 0 /\ flow'.last = 0
    /\ UNCHANGED Stream!vars <=> /\ flow'.want = flow.want /\ flow'.last = flow.last
                                 /\ flow'.status = flow.status
BY DEF Stream!Begin, Stream!Move, Stream!Finish, Stream!vars

LEMMA FailureEndsStream ==
    ASSUME Inv, call.pc \in TransferPcs, NEW result \in Results \ {"GOOD"},
           Finish(result)
    PROVE  Stream!Finish
<1>1. call \in Call /\ flow \in Flow /\ flow.status = "busy"
    BY DEF Inv, TypeOK, FlowInv
<1>2. flow'.status = "fail" /\ flow'.want = 0 /\ flow'.last = 0
    BY <1>1, FinishFacts
<1> QED BY <1>1, <1>2, StreamUnfolds

LEMMA TransferIsStream ==
    ASSUME Inv, GoodRequests, TransferStep
    PROVE  [Stream!Next]_(Stream!vars)
<1>r. "FAIL" \in Results \ {"GOOD"} /\ "NO_PRESENT" \in Results \ {"GOOD"}
    BY DEF Results
<1>1. CASE Select \/ WaitReady \/ StartTransfer
  <2>1. call.pc \in TransferPcs
      BY <1>1 DEF Select, WaitReady, StartTransfer, TransferPcs, StartingPcs
  <2>2. \/ flow' = flow
        \/ Finish("FAIL") \/ Finish("NO_PRESENT")
        \/ flow' = [flow EXCEPT !.began = TRUE]
      BY <1>1, Zenon DEF Select, WaitReady, StartTransfer
  <2>3. CASE flow' = flow \/ flow' = [flow EXCEPT !.began = TRUE]
    <3>1. flow \in Flow
        BY DEF Inv, TypeOK
    <3>2. /\ flow'.want = flow.want /\ flow'.last = flow.last
          /\ flow'.status = flow.status
        BY <3>1, <2>3, Zenon DEF Flow
    <3> QED BY <3>2, StreamUnfolds
  <2> QED BY <1>r, <2>1, <2>2, <2>3, FailureEndsStream DEF Stream!Next
<1>2. CASE LoopTest
  <2>1. call.pc = "loop" /\ call.pc \in MovingPcs
      BY <1>2 DEF LoopTest, MovingPcs
  <2>2. CASE call.step # 0
      BY <1>2, <2>2, StreamUnfolds DEF LoopTest
  <2>3. CASE call.step = 0
    <3>1. flow.last = flow.want
        BY <2>1, <2>3, MovingTypes, StreamInv, SMT DEF ReadInv, WriteInv, Transfers
    <3>2. Finish("GOOD")
        BY <1>2, <2>3 DEF LoopTest
    <3>3. flow'.status = "good" /\ flow'.want = 0 /\ flow'.last = 0
        BY <2>1, <3>2, MovingTypes, FinishFacts, ResultNames
    <3> QED BY <2>1, <3>1, <3>3, MovingTypes, StreamUnfolds DEF Stream!Next
  <2> QED BY <2>2, <2>3
<1>3. CASE StepBegins
    BY <1>3, StreamUnfolds DEF StepBegins
<1>4. CASE FetchFromCard \/ UsbGivesUp \/ AbortTransfer \/ WaitEnd
  <2>1. call.pc \in TransferPcs
      BY <1>4 DEF FetchFromCard, UsbGivesUp, AbortTransfer, WaitEnd, TransferPcs, MovingPcs
  <2>2. flow' = flow \/ Finish("FAIL")
      BY <1>4, Zenon DEF FetchFromCard, UsbGivesUp, AbortTransfer, WaitEnd
  <2> QED BY <1>r, <2>1, <2>2, FailureEndsStream, StreamUnfolds DEF Stream!Next
<1>5. CASE StoreToCard
  <2>1. call.pc = "card" /\ call.op = "write" /\ call.pc \in MovingPcs
      BY <1>5 DEF StoreToCard, MovingPcs
  <2>2. flow' = [flow EXCEPT !.last = buf[CardBuf]] \/ Finish("FAIL")
      BY <1>5, Zenon DEF StoreToCard
  <2>3. CASE Finish("FAIL")
      BY <1>r, <2>1, <2>3, FailureEndsStream DEF Stream!Next, TransferPcs
  <2>4. CASE flow' = [flow EXCEPT !.last = buf[CardBuf]]
    <3>1. /\ flow.last = flow.want - call.step - 1 /\ call.step < flow.want
          /\ buf[call.step % 2] = flow.want - call.step
        BY <2>1, StreamInv DEF WriteInv
    <3>2. flow'.last = flow.last + 1 /\ flow.last < flow.want
      <4>1. flow'.last = buf[call.step % 2]
          BY <2>4, <2>1, MovingTypes, Zenon DEF Flow, CardBuf
      <4> QED BY <2>1, <3>1, <4>1, MovingTypes, SMT
    <3>3. flow'.want = flow.want /\ flow'.status = flow.status
        BY <2>4, <2>1, MovingTypes, Zenon DEF Flow
    <3> QED BY <2>1, <3>2, <3>3, MovingTypes, StreamUnfolds DEF Stream!Next
  <2> QED BY <2>2, <2>3, <2>4
<1>6. CASE UsbMoves
  <2>1. call.pc = "usb" /\ call.pc \in MovingPcs
      BY <1>6 DEF UsbMoves, MovingPcs
  <2>2. CASE call.op = "read"
    <3>1. flow' = [flow EXCEPT !.last = buf[UsbBuf]]
        BY <1>6, <2>2 DEF UsbMoves
    <3>2. /\ flow.last = flow.want - call.step - 1 /\ call.step < flow.want
          /\ buf[(call.step + 1) % 2] = flow.want - call.step
        BY <2>1, <2>2, StreamInv DEF ReadInv
    <3>3. flow'.last = flow.last + 1 /\ flow.last < flow.want
      <4>1. flow'.last = buf[(call.step + 1) % 2]
          BY <3>1, <2>1, MovingTypes, Zenon DEF Flow, UsbBuf
      <4> QED BY <2>1, <3>2, <4>1, MovingTypes, SMT
    <3>4. flow'.want = flow.want /\ flow'.status = flow.status
        BY <3>1, <2>1, MovingTypes, Zenon DEF Flow
    <3> QED BY <2>1, <3>3, <3>4, MovingTypes, StreamUnfolds DEF Stream!Next
  <2>3. CASE call.op = "write"
    <3>1. flow' = [flow EXCEPT !.fetched = @ + 1]
        BY <1>6, <2>3 DEF UsbMoves
    <3>2. /\ flow'.want = flow.want /\ flow'.last = flow.last
          /\ flow'.status = flow.status
        BY <3>1, <2>1, MovingTypes, Zenon DEF Flow
    <3> QED BY <3>2, StreamUnfolds
  <2> QED BY <2>1, <2>2, <2>3, MovingTypes DEF Transfers
<1> QED BY <1>1, <1>2, <1>3, <1>4, <1>5, <1>6 DEF TransferStep

LEMMA StepIsStream ==
    ASSUME Inv, GoodRequests, [Next]_vars
    PROVE  [Stream!Next]_(Stream!vars)
<1>1. CASE TransferStep
    BY <1>1, TransferIsStream
<1>2. CASE \E op \in Transfers, n \in Requests : CallTransfer(op, n)
  <2>1. PICK op \in Transfers, n \in Requests : CallTransfer(op, n)
      BY <1>2
  <2>2. flow \in Flow /\ flow.status # "busy"
      BY <2>1 DEF Inv, TypeOK, FlowInv, CallTransfer, BeginCall, TransferPcs,
                  StartingPcs, MovingPcs
  <2>3. flow'.want = n /\ flow'.last = 0 /\ flow'.status = "busy"
      BY <2>1, <2>2, Zenon DEF CallTransfer, Flow
  <2> QED BY <2>2, <2>3, StreamUnfolds DEF Stream!Next
<1>3. CASE ControlStep \/ CallTestUnitReady \/ CallReadCapacity
            \/ PlugCard \/ PullCard \/ Timer \/ UNCHANGED vars
  <2>1. \/ flow' = flow \/ flow' = [flow EXCEPT !.told = TRUE]
        \/ flow' = [flow EXCEPT !.told = FALSE]
      BY <1>3, Zenon DEF ControlStep, GetCapacity, Check, Install, Installed, GetType,
         CallTestUnitReady, CallReadCapacity, PlugCard, PullCard, Timer, vars
  <2>2. flow \in Flow
      BY DEF Inv, TypeOK
  <2>3. /\ flow'.want = flow.want /\ flow'.last = flow.last
        /\ flow'.status = flow.status
      BY <2>1, <2>2, Zenon DEF Flow
  <2> QED BY <2>3, StreamUnfolds
<1> QED BY <1>1, <1>2, <1>3 DEF Next, StackStep, HostCalls

\* The double-buffered loops of sd_mmc_usb_read_10 and sd_mmc_usb_write_10 implement a
\* plain stream: the blocks arrive in order, each once, and the transfer is good only
\* when the last has, for every length below 65535 and whatever fails on the way.
THEOREM PipelineIsAStream == ASSUME GoodRequests PROVE Spec => ImplementsBlockStream
<1>1. Init => Stream!Init
    BY DEF Init, Stream!Init
<1>2. Inv /\ [Next]_vars => [Stream!Next]_(Stream!vars)
    BY StepIsStream
<1> QED BY <1>1, <1>2, SdInvariant, PTL DEF Spec, ImplementsBlockStream, Stream!Spec
=============================================================================
