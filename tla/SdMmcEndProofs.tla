--------------------------- MODULE SdMmcEndProofs --------------------------
(***************************************************************************)
(* How a transfer leaves the card, for a card that did what it could.      *)
(***************************************************************************)
EXTENDS SdMmcMemProofs

\* While the slot is selected the card is where the counters of the stack say; once
\* it is released the card is ready.
Clean(b, s, op) ==
    /\ b.sel => /\ b.card.multi <=> s.total > 1
                /\ b.card.mode = IF s.remaining > 0 \/ s.total > 1 THEN op ELSE "tran"
    /\ ~b.sel => b.card.mode = "tran"

\* A single block that has been read needs no abort.
CleanInv ==
    flow.began =>
        /\ call.pc \in MovingPcs
        /\ ~bus.upset =>
             /\ Clean(bus, slot, call.op)
             /\ call.pc = "abort" /\ call.op = "read" /\ slot.total = 1 =>
                    slot.remaining = 0

\* A step of EndsSettled.
SettlesAtEnd ==
    flow.began /\ call'.pc = "idle" /\ ~bus'.upset
        => (call.op = "read" \/ call'.result = "GOOD" => Settled')

----------------------------------------------------------------------------
(* The operations on the bus when nothing goes wrong.                      *)

LEMMA DoneKeepsMulti ==
    ASSUME NEW c \in Card
    PROVE  /\ BlockDone(c).multi = c.multi
           /\ BlockDone(c).mode = (IF c.multi THEN c.mode ELSE "tran")
<1>1. BlockDone(c).multi = c.multi
    BY Zenon DEF BlockDone, Card
<1> QED BY <1>1, CardEffects

LEMMA ReadClean ==
    ASSUME bus \in Bus, NEW ok \in BOOLEAN, NEW b \in StartReadBlock(ok),
           Sending, ~b.upset
    PROVE  /\ ok /\ ~bus.upset /\ b.sel = bus.sel
           /\ b.card = BlockDone(bus.card)
<1> DEFINE done == BlockDone(bus.card)
           spoiled == Spoiled(bus.card)
           pos == bus.pos + 1
<1>1. CASE ok
  <2>1. b = [bus EXCEPT !.card = done, !.pos = pos]
      BY <1>1 DEF StartReadBlock
  <2> HIDE DEF done, pos
  <2>2. b.card = done /\ b.sel = bus.sel /\ b.upset = bus.upset
      BY <2>1, Zenon DEF Bus
  <2> QED BY <1>1, <2>2 DEF done
<1>2. CASE ~ok
  <2>1. b = [bus EXCEPT !.card = spoiled, !.upset = TRUE]
      BY <1>2 DEF StartReadBlock
  <2> HIDE DEF spoiled
  <2>2. b.upset
      BY <2>1, Zenon DEF Bus
  <2> QED BY <2>2
<1> QED BY <1>1, <1>2

LEMMA WriteClean ==
    ASSUME bus \in Bus, NEW ok \in BOOLEAN, NEW b \in StartWriteBlock(ok),
           Receiving, ~b.upset
    PROVE  /\ ok /\ ~bus.upset /\ b.sel = bus.sel
           /\ b.card = BlockDone(bus.card)
<1> DEFINE pos == bus.pos + 1
           sent == [bus EXCEPT !.pos = pos]
<1>p. pos \in Nat
    BY BusBasics
<1> HIDE DEF pos
<1>s. sent \in Bus /\ sent.card = bus.card /\ sent.sel = bus.sel /\ sent.upset = bus.upset
    BY <1>p, Zenon DEF Bus
<1>d. StartWriteBlock(ok) =
          IF ok THEN {[sent EXCEPT !.card = BlockDone(@)]}
                ELSE {[sent EXCEPT !.card = Spoiled(@), !.upset = TRUE]}
    BY DEF StartWriteBlock, pos
<1> HIDE DEF sent
<1> DEFINE done == BlockDone(sent.card)
           spoiled == Spoiled(sent.card)
<1>1. CASE ok
  <2>1. b = [sent EXCEPT !.card = done]
      BY <1>d, <1>1
  <2> HIDE DEF done
  <2>2. b.card = done /\ b.sel = sent.sel /\ b.upset = sent.upset
      BY <1>s, <2>1, Zenon DEF Bus
  <2> QED BY <1>1, <1>s, <2>2 DEF done
<1>2. CASE ~ok
  <2>1. b = [sent EXCEPT !.card = spoiled, !.upset = TRUE]
      BY <1>d, <1>2
  <2> HIDE DEF spoiled
  <2>2. b.upset
      BY <1>s, <2>1, Zenon DEF Bus
  <2> QED BY <2>2
<1> QED BY <1>1, <1>2

\* What has been upset stays so until the next call.
LEMMA UpsetStays ==
    ASSUME bus \in Bus, bus.upset, NEW ok \in BOOLEAN, NEW b,
           b \in StartReadBlock(ok) \/ b \in StartWriteBlock(ok)
    PROVE  b.upset
<1> DEFINE done == BlockDone(bus.card)
           spoiled == Spoiled(bus.card)
           pos == bus.pos + 1
<1>1. \/ b = bus
      \/ b = [bus EXCEPT !.card = done, !.pos = pos]
      \/ b = [bus EXCEPT !.card = spoiled, !.upset = TRUE]
      \/ b = [bus EXCEPT !.pos = pos]
      \/ b = [[bus EXCEPT !.pos = pos] EXCEPT !.card = BlockDone(@)]
      \/ b = [[bus EXCEPT !.pos = pos] EXCEPT !.card = Spoiled(@), !.upset = TRUE]
    BY DEF StartReadBlock, StartWriteBlock
<1>2. pos \in Nat
    BY BusBasics
<1> HIDE DEF pos, done, spoiled
<1> QED BY <1>1, <1>2, Zenon DEF Bus

LEMMA WaitClean ==
    ASSUME bus \in Bus, NEW ok \in BOOLEAN, NEW b \in WaitEndOfWrite(ok), ~b.upset
    PROVE  /\ ok /\ ~bus.upset
           /\ IF StopTokenDue /\ Receiving THEN b.card = Ended(bus.card)
                                           ELSE b.card = bus.card
<1>1. CASE ~ok
  <2>1. WaitEndOfWrite(ok) = {[e EXCEPT !.upset = TRUE] :
                                 e \in IF StopTokenDue THEN {bus, Stopped} ELSE {bus}}
      BY <1>1, Zenon DEF WaitEndOfWrite
  <2>2. PICK e \in {bus, Stopped} : b = [e EXCEPT !.upset = TRUE]
      BY <2>1
  <2>3. e \in Bus
      BY <2>2, StoppedOnBus
  <2>4. b.upset
      BY <2>2, <2>3, Zenon DEF Bus
  <2> QED BY <2>4
<1>2. CASE ok
  <2>1. b = IF StopTokenDue THEN Stopped ELSE bus
      BY <1>2 DEF WaitEndOfWrite
  <2>2. CASE StopTokenDue /\ Receiving
    <3> DEFINE ended == Ended(bus.card)
    <3>1. b = [bus EXCEPT !.card = ended]
        BY <2>1, <2>2 DEF Stopped
    <3> HIDE DEF ended
    <3>2. b.card = ended /\ b.upset = bus.upset
        BY <3>1, Zenon DEF Bus
    <3> QED BY <1>2, <2>2, <3>2 DEF ended
  <2>3. CASE ~(StopTokenDue /\ Receiving)
    <3>1. b = bus
        BY <2>1, <2>3 DEF Stopped
    <3> QED BY <1>2, <2>3, <3>1
  <2> QED BY <2>2, <2>3
<1> QED BY <1>1, <1>2

LEMMA StopClean ==
    ASSUME bus \in Bus, NEW b \in StopReading, ~b.upset
    PROVE  /\ ~bus.upset
           /\ IF bus.sel /\ bus.card.mode = "read" THEN b.card.mode = "tran"
                                                   ELSE b.card = bus.card
<1>h. Heard("CMD12") <=> bus.sel /\ bus.card.mode = "read"
  <2>1. bus.card.kind \in AllKinds
      BY BusBasics, Zenon DEF Card
  <2>2. Hears["CMD12"] = {"read"} /\ KnownBy("CMD12") = AllKinds
      BY DEF Hears, KnownBy
  <2> QED BY <2>1, <2>2 DEF Heard, Takes
<1>1. CASE ~Heard("CMD12")
    BY <1>h, <1>1 DEF StopReading
<1>2. CASE Heard("CMD12")
  <2> DEFINE ended == Ended(bus.card)
             end == [bus EXCEPT !.card = ended, !.nb = 0, !.pos = 0]
  <2>1. StopReading = {end} \cup {[bus EXCEPT !.card = c, !.upset = TRUE] :
                                      c \in {bus.card, ended}}
      BY <1>2, Zenon DEF StopReading
  <2>e. ended.mode = "tran"
      BY EndedOnBus
  <2> HIDE DEF ended
  <2>2. end.card = ended /\ end.upset = bus.upset
      BY Zenon DEF Bus
  <2> HIDE DEF end
  <2>3. CASE b = end
      BY <1>h, <1>2, <2>e, <2>2, <2>3
  <2>4. CASE b # end
    <3>1. PICK c \in {bus.card, ended} : b = [bus EXCEPT !.card = c, !.upset = TRUE]
        BY <2>1, <2>4
    <3>2. b.upset
        BY <3>1, Zenon DEF Bus
    <3> QED BY <3>2
  <2> QED BY <2>3, <2>4
<1> QED BY <1>1, <1>2

----------------------------------------------------------------------------
(* The steps.                                                              *)

LEMMA BusyOnlyMoving == ASSUME CleanInv, call.pc \notin MovingPcs PROVE ~flow.began
BY DEF CleanInv

LEMMA FinishForgets == ASSUME NEW result, Finish(result) PROVE flow'.began = FALSE
BY DEF Finish, NoFlow

LEMMA StaysClean ==
    ASSUME CleanInv, call.pc \in MovingPcs, bus' = bus, slot' = slot,
           call'.op = call.op, call'.pc \in MovingPcs \ {"abort"},
           flow'.began = flow.began
    PROVE  CleanInv' /\ SettlesAtEnd
BY DEF CleanInv, Clean, SettlesAtEnd, MovingPcs

LEMMA StartTransferClean ==
    ASSUME Inv, CleanInv, GoodRequests, StartTransfer
    PROVE  CleanInv' /\ SettlesAtEnd
<1>1. /\ bus \in Bus /\ slot \in Slot /\ call \in Call /\ flow \in Flow
      /\ call.pc = "command"
    BY DEF Inv, TypeOK, StartTransfer
<1>t. call.op \in {"read", "write"} /\ flow.want \in Requests
    BY <1>1 DEF Inv, FlowInv, TransferPcs, StartingPcs, Transfers
<1>b. ~flow.began
    BY <1>1, BusyOnlyMoving DEF MovingPcs
<1> DEFINE n == flow.want
           cmd == DataCommand
<1>n. n \in Nat /\ n > 0
    BY <1>t, GoodLength
<1>2. PICK ok \in BOOLEAN :
          /\ InitBlocks(cmd, n, ok)
          /\ IF ok
             THEN /\ call' = [call EXCEPT !.pc = "loop", !.first = TRUE,
                                 !.step = (n + 1) % CounterSize]
                  /\ flow' = [flow EXCEPT !.began = TRUE]
             ELSE Finish("FAIL")
    BY DEF StartTransfer
<1>3. CASE ~ok
  <2>1. flow'.began = FALSE
      BY <1>2, <1>3, FinishForgets
  <2> QED BY <1>b, <2>1 DEF CleanInv, SettlesAtEnd
<1>4. CASE ok
  <2>c. /\ cmd \in Commands
        /\ cmd = IF call.op = "read" THEN IF n > 1 THEN "CMD18" ELSE "CMD17"
                                     ELSE IF n > 1 THEN "CMD25" ELSE "CMD24"
      BY DEF DataCommand, Commands, Hears
  <2> HIDE DEF n, cmd
  <2>1. PICK b \in AdtcStart(cmd, n, ok) :
            /\ bus' = [b EXCEPT !.sel = ok]
            /\ slot' = [slot EXCEPT !.total = n, !.remaining = n]
      BY <1>2, <1>4 DEF InitBlocks
  <2>2. b \in Bus /\ b.card = After(bus.card, cmd)
      BY <1>1, <1>4, <1>n, <2>c, <2>1, CommandOnBus
  <2>3. bus'.card = b.card /\ bus'.sel
      BY <1>4, <2>1, <2>2, Zenon DEF Bus
  <2>4. slot'.total = n /\ slot'.remaining = n
      BY <1>1, <2>1, Zenon DEF Slot
  <2>5. call'.pc = "loop" /\ call'.op = call.op
      BY <1>1, <1>2, <1>4, Zenon DEF Call
  <2>6. /\ After(bus.card, cmd).multi = (cmd \in {"CMD18", "CMD25"})
        /\ After(bus.card, cmd).mode = LeadsTo(bus.card, cmd)
    <3> DEFINE c == bus.card
    <3>1. c \in Card
        BY <1>1, BusBasics
    <3> HIDE DEF c
    <3>2. After(c, cmd).multi = (cmd \in {"CMD18", "CMD25"})
        BY <3>1, Zenon DEF After, Card
    <3>3. After(c, cmd).mode = LeadsTo(c, cmd)
        BY <2>c, <3>1, CardEffects
    <3> QED BY <3>2, <3>3 DEF c
  <2>7. /\ (cmd \in {"CMD18", "CMD25"}) <=> n > 1
        /\ LeadsTo(bus.card, cmd) = call.op
      BY <1>t, <2>c DEF LeadsTo
  <2>8. Clean(bus', slot', call'.op)
      BY <1>n, <2>2, <2>3, <2>4, <2>5, <2>6, <2>7 DEF Clean
  <2> QED BY <1>b, <2>5, <2>8 DEF CleanInv, SettlesAtEnd, MovingPcs, Clean
<1> QED BY <1>3, <1>4

LEMMA LoopTestClean ==
    ASSUME Inv, CleanInv, LoopTest
    PROVE  CleanInv' /\ SettlesAtEnd
<1>1. call.pc = "loop" /\ call.pc \in MovingPcs /\ bus' = bus /\ slot' = slot
    BY DEF LoopTest, MovingPcs
<1>2. CASE call.step # 0
  <2>1. call' = [call EXCEPT !.step = @ - 1, !.pc = "step"] /\ flow' = flow
      BY <1>2 DEF LoopTest
  <2>2. call'.pc = "step" /\ call'.op = call.op
      BY <1>1, <2>1, MovingTypes, Zenon DEF Call
  <2> QED BY <1>1, <2>1, <2>2, StaysClean DEF MovingPcs
<1>3. CASE call.step = 0
  <2>1. Finish("GOOD") /\ flow'.began = FALSE
      BY <1>3, FinishForgets DEF LoopTest
  <2>2. slot.remaining = 0
      BY <1>1, <1>3, MovingTypes, StreamInv, SMT DEF ReadInv, WriteInv, Transfers
  <2>3. ~bus.sel
      BY <1>1, <2>2 DEF Inv, LayersInv
  <2>4. flow.began /\ ~bus.upset => bus.card.mode = "tran"
      BY <2>3 DEF CleanInv, Clean
  <2> QED BY <1>1, <2>1, <2>2, <2>3, <2>4 DEF CleanInv, SettlesAtEnd, Settled
<1> QED BY <1>2, <1>3

LEMMA StepBeginsClean ==
    ASSUME Inv, CleanInv, StepBegins
    PROVE  CleanInv' /\ SettlesAtEnd
<1>1. /\ call.pc \in MovingPcs /\ bus' = bus /\ slot' = slot /\ flow' = flow
      /\ Goto("card") \/ Goto("usb") \/ StepEnds
    BY DEF StepBegins, MovingPcs
<1>2. call'.pc \in {"card", "usb", "loop"} /\ call'.op = call.op
  <2>1. call \in Call
      BY <1>1, MovingTypes
  <2> QED BY <1>1, <2>1, Zenon DEF Goto, StepEnds, Call
<1> QED BY <1>1, <1>2, StaysClean DEF MovingPcs

\* A block on the card's side, in either direction.
LEMMA BlockClean ==
    ASSUME Inv, CleanInv, call.pc = "card", NEW ok \in BOOLEAN,
           \/ call.op = "read" /\ StartBlock(StartReadBlock(ok), ok)
           \/ call.op = "write" /\ StartBlock(StartWriteBlock(ok), ok),
           IF ok THEN CardDone /\ flow'.began = flow.began ELSE Finish("FAIL")
    PROVE  CleanInv' /\ SettlesAtEnd
<1>1. /\ call.pc \in MovingPcs /\ bus \in Bus /\ slot \in Slot /\ call \in Call
      /\ slot.total \in Nat /\ slot.remaining \in Nat
    BY MovingTypes, SlotFields DEF MovingPcs
<1>r. slot.remaining > 0
    BY <1>1, MovingTypes, StreamInv, SMT DEF ReadInv, WriteInv, Transfers
<1>2. /\ slot'.total = slot.total
      /\ slot'.remaining = (IF ok THEN slot.remaining - 1 ELSE 0)
    BY <1>1, <1>r, StartBlockFacts
<1>s. bus.sel
    BY <1>r DEF Inv, LayersInv, MovingPcs
<1>3. ASSUME flow.began, ~bus'.upset
      PROVE  /\ ok /\ ~bus.upset /\ bus'.sel
             /\ bus'.card = BlockDone(bus.card)
  <2>1. CASE ~bus.upset
    <3>1. bus.card.mode = call.op
        BY <1>r, <1>s, <1>3, <2>1 DEF CleanInv, Clean
    <3>2. CASE call.op = "read"
        BY <1>1, <1>s, <1>3, <3>1, <3>2, ReadClean DEF StartBlock, Sending
    <3>3. CASE call.op = "write"
        BY <1>1, <1>s, <1>3, <3>1, <3>3, WriteClean DEF StartBlock, Receiving
    <3> QED BY <3>2, <3>3
  <2>2. CASE bus.upset
    <3>1. bus' \in StartReadBlock(ok) \/ bus' \in StartWriteBlock(ok)
        BY DEF StartBlock
    <3> QED BY <1>1, <1>3, <2>2, <3>1, UpsetStays
  <2> QED BY <2>1, <2>2
<1>4. CASE ~ok
  <2>1. flow'.began = FALSE
      BY <1>4, FinishForgets
  <2> QED BY <1>3, <1>4, <2>1 DEF CleanInv, SettlesAtEnd
<1>5. CASE ok
  <2>1. call'.pc \in {"usb", "wait"} /\ call'.op = call.op
      BY <1>1, <1>5, CardDoneFacts
  <2>2. ASSUME flow.began, ~bus'.upset PROVE Clean(bus', slot', call'.op)
    <3>1. ~bus.upset /\ bus'.sel /\ bus'.card = BlockDone(bus.card)
        BY <1>3, <2>2
    <3>2. /\ bus.card.multi <=> slot.total > 1
          /\ bus.card.mode = call.op
        BY <1>r, <1>s, <2>2, <3>1 DEF CleanInv, Clean
    <3>3. /\ bus'.card.multi = bus.card.multi
          /\ bus'.card.mode = (IF bus.card.multi THEN bus.card.mode ELSE "tran")
      <4> DEFINE c == bus.card
      <4>1. c \in Card
          BY <1>1, BusBasics
      <4> HIDE DEF c
      <4>2. /\ BlockDone(c).multi = c.multi
            /\ BlockDone(c).mode = (IF c.multi THEN c.mode ELSE "tran")
          BY <4>1, DoneKeepsMulti
      <4> QED BY <3>1, <4>2 DEF c
    <3>4. slot.total = 1 => slot'.remaining = 0
      <4>1. slot.remaining + bus.pos = slot.total /\ bus.pos \in Nat
          BY <1>1, <1>s, BusBasics DEF Inv, LayersInv
      <4> QED BY <1>1, <1>2, <1>r, <1>5, <4>1, SMT
    <3>5. slot.total > 1 \/ slot.total = 1
      <4>1. slot.remaining + bus.pos = slot.total /\ bus.pos \in Nat
          BY <1>1, <1>s, BusBasics DEF Inv, LayersInv
      <4> QED BY <1>1, <1>r, <4>1, SMT
    <3> QED BY <1>2, <2>1, <3>1, <3>2, <3>3, <3>4, <3>5 DEF Clean
  <2> QED BY <1>5, <2>1, <2>2 DEF CleanInv, SettlesAtEnd, MovingPcs, Clean
<1> QED BY <1>4, <1>5

LEMMA FetchAndStoreClean ==
    ASSUME Inv, CleanInv, FetchFromCard \/ StoreToCard
    PROVE  CleanInv' /\ SettlesAtEnd
<1>1. call.pc = "card" /\ flow \in Flow
    BY DEF FetchFromCard, StoreToCard, Inv, TypeOK
<1>2. CASE FetchFromCard
  <2>1. PICK ok \in BOOLEAN :
            /\ call.op = "read" /\ StartBlock(StartReadBlock(ok), ok)
            /\ IF ok THEN CardDone /\ flow' = flow ELSE Finish("FAIL")
      BY <1>2, Zenon DEF FetchFromCard
  <2> QED BY <1>1, <2>1, BlockClean
<1>3. CASE StoreToCard
  <2>1. PICK ok \in BOOLEAN :
            /\ call.op = "write" /\ StartBlock(StartWriteBlock(ok), ok)
            /\ IF ok THEN CardDone /\ flow' = [flow EXCEPT !.last = buf[CardBuf]]
                     ELSE Finish("FAIL")
      BY <1>3, Zenon DEF StoreToCard
  <2>2. ok => flow'.began = flow.began
      BY <1>1, <2>1, Zenon DEF Flow
  <2> QED BY <1>1, <2>1, <2>2, BlockClean
<1> QED BY <1>2, <1>3

LEMMA UsbClean ==
    ASSUME Inv, CleanInv, UsbMoves \/ UsbGivesUp
    PROVE  CleanInv' /\ SettlesAtEnd
<1>1. /\ call.pc = "usb" /\ call.pc \in MovingPcs /\ bus' = bus /\ slot' = slot
      /\ flow \in Flow /\ call \in Call
    BY DEF UsbMoves, UsbGivesUp, MovingPcs, Inv, TypeOK
<1>2. CASE UsbMoves
  <2>1. call'.pc \in {"wait", "loop"} /\ call'.op = call.op
      BY <1>1, <1>2, Zenon DEF UsbMoves, UsbDone, Goto, StepEnds, Call
  <2>2. flow'.began = flow.began
    <3>1. \/ flow' = [flow EXCEPT !.last = buf[UsbBuf]]
          \/ flow' = [flow EXCEPT !.fetched = @ + 1]
        BY <1>2 DEF UsbMoves
    <3> QED BY <1>1, <3>1, Zenon DEF Flow
  <2> QED BY <1>1, <2>1, <2>2, StaysClean DEF MovingPcs
<1>3. CASE UsbGivesUp /\ call.first
  <2>1. Finish("FAIL") /\ flow'.began = FALSE
      BY <1>3, FinishForgets DEF UsbGivesUp
  <2>2. call'.result = "FAIL"
      BY <1>1, <2>1, FinishFacts, ResultNames
  <2>3. call.op # "read"
      BY <1>1, <1>3, StreamInv DEF ReadInv
  <2> QED BY <2>1, <2>2, <2>3 DEF CleanInv, SettlesAtEnd
<1>4. CASE UsbGivesUp /\ ~call.first
  <2>1. Goto("abort") /\ flow' = flow
      BY <1>4 DEF UsbGivesUp
  <2>2. call'.pc = "abort" /\ call'.op = call.op
      BY <1>1, <2>1, Zenon DEF Goto, Call
  <2>3. call.op = "read" /\ slot.total = 1 => slot.remaining = 0
    <3> SUFFICES ASSUME call.op = "read", slot.total = 1 PROVE slot.remaining = 0
        OBVIOUS
    <3>1. /\ call.step < flow.want /\ (call.step = 0 => slot.remaining = 0)
        BY <1>1, StreamInv DEF ReadInv
    <3>2. call.step \in Nat /\ flow.want = 1
        BY <1>1, MovingTypes
    <3> QED BY <3>1, <3>2, SMT
  <2> QED BY <1>1, <2>1, <2>2, <2>3 DEF CleanInv, Clean, SettlesAtEnd, MovingPcs
<1> QED BY <1>2, <1>3, <1>4

\* The end of a read that goes well leaves the card ready and released.
LEMMA EndOfReadClean ==
    ASSUME Inv, CleanInv, call.pc \in MovingPcs, call.op = "read", NEW abort \in BOOLEAN,
           WaitEndOfReadBlocks(abort), flow.began, ~bus'.upset,
           abort \/ slot.remaining = 0,
           slot.total = 1 => slot.remaining = 0
    PROVE  ~bus'.sel /\ slot'.remaining = 0 /\ bus'.card.mode = "tran"
<1>1. /\ bus \in Bus /\ slot \in Slot /\ slot.total = flow.want /\ slot.remaining \in Nat
    BY MovingTypes DEF Inv, TypeOK
<1>2. slot'.remaining = 0
  <2>1. slot' = [slot EXCEPT !.remaining = 0]
      BY DEF WaitEndOfReadBlocks
  <2> QED BY <1>1, <2>1, Zenon DEF Slot
<1>3. CASE slot.total = 1
  <2>1. bus' = DeselectDevice
      BY <1>3 DEF WaitEndOfReadBlocks
  <2>2. bus'.card = bus.card /\ ~bus'.sel /\ bus'.upset = bus.upset
      BY <1>1, <2>1, SelectsBus, Zenon DEF DeselectDevice, Bus
  <2>3. bus.card.mode = "tran"
      BY <1>3, <2>2 DEF CleanInv, Clean
  <2> QED BY <1>2, <2>2, <2>3
<1>4. CASE slot.total # 1
  <2>1. PICK b \in StopReading : bus' = [b EXCEPT !.sel = FALSE]
      BY <1>4 DEF WaitEndOfReadBlocks
  <2>2. b \in Bus
      BY <1>1, <2>1, StopOnBus
  <2>3. bus'.card = b.card /\ ~bus'.sel /\ bus'.upset = b.upset
      BY <2>1, <2>2, Zenon DEF Bus
  <2>4. /\ ~bus.upset
        /\ IF bus.sel /\ bus.card.mode = "read" THEN b.card.mode = "tran"
                                                ELSE b.card = bus.card
      BY <1>1, <2>1, <2>3, StopClean
  <2>5. bus.card.mode \in {"read", "tran"} /\ (~bus.sel => bus.card.mode = "tran")
      BY <2>4 DEF CleanInv, Clean
  <2> QED BY <1>2, <2>3, <2>4, <2>5
<1> QED BY <1>3, <1>4

LEMMA AbortClean ==
    ASSUME Inv, CleanInv, AbortTransfer
    PROVE  CleanInv' /\ SettlesAtEnd
<1>1. call.pc = "abort" /\ call.pc \in MovingPcs /\ Finish("FAIL") /\ flow'.began = FALSE
    BY FinishForgets DEF AbortTransfer, MovingPcs
<1>2. call'.result = "FAIL"
    BY <1>1, MovingTypes, FinishFacts, ResultNames
<1>3. ASSUME flow.began, ~bus'.upset, call.op = "read" PROVE Settled'
  <2>1. WaitEndOfReadBlocks(TRUE)
      BY <1>3 DEF AbortTransfer
  <2>u. ~bus.upset
    <3>1. bus \in Bus
        BY <1>1, MovingTypes
    <3>2. CASE bus' = DeselectDevice
        BY <1>3, <3>1, <3>2, Zenon DEF DeselectDevice, Bus
    <3>3. CASE \E b \in StopReading : bus' = [b EXCEPT !.sel = FALSE]
      <4>1. PICK b \in StopReading : bus' = [b EXCEPT !.sel = FALSE]
          BY <3>3
      <4>2. b \in Bus
          BY <3>1, <4>1, StopOnBus
      <4>3. ~b.upset
          BY <1>3, <4>1, <4>2, Zenon DEF Bus
      <4> QED BY <3>1, <4>1, <4>3, StopClean
    <3> QED BY <2>1, <3>2, <3>3 DEF WaitEndOfReadBlocks
  <2>2. slot.total = 1 => slot.remaining = 0
      BY <1>1, <1>3, <2>u DEF CleanInv
  <2> QED BY <1>1, <1>3, <2>1, <2>2, EndOfReadClean DEF Settled
<1> QED BY <1>1, <1>2, <1>3 DEF CleanInv, SettlesAtEnd

LEMMA WaitEndClean ==
    ASSUME Inv, CleanInv, WaitEnd
    PROVE  CleanInv' /\ SettlesAtEnd
<1>1. call.pc = "wait" /\ call.pc \in MovingPcs
    BY DEF WaitEnd, MovingPcs
<1>t. /\ bus \in Bus /\ slot \in Slot /\ call \in Call /\ slot.remaining \in Nat
      /\ call.op \in {"read", "write"} /\ slot.total = flow.want
      /\ flow.want \in Nat /\ bus.pos \in Nat
    BY <1>1, MovingTypes, BusBasics DEF Transfers
<1>l. bus.sel /\ bus.nb = slot.total /\ slot.remaining + bus.pos = slot.total
    BY <1>1 DEF Inv, LayersInv, MovingPcs
<1>2. CASE call.op = "read"
  <2>1. WaitEndOfReadBlocks(FALSE) /\ StepEnds /\ flow' = flow
      BY <1>2 DEF WaitEnd
  <2>2. call'.pc = "loop" /\ call'.op = call.op
      BY <1>t, <2>1, StepEndsFacts
  <2>3. CASE slot.remaining = 0
    <3>1. ASSUME flow.began, ~bus'.upset
          PROVE  ~bus'.sel /\ slot'.remaining = 0 /\ bus'.card.mode = "tran"
        BY <1>1, <1>2, <2>1, <2>3, <3>1, EndOfReadClean
    <3> QED BY <2>1, <2>2, <3>1 DEF CleanInv, Clean, SettlesAtEnd, MovingPcs
  <2>4. CASE slot.remaining # 0
    <3>1. bus' = bus /\ slot' = [slot EXCEPT !.remaining = slot.remaining]
      <4>1. slot.remaining > 0
          BY <1>t, <2>4, SMT
      <4> QED BY <2>1, <4>1 DEF WaitEndOfReadBlocks
    <3>2. slot'.remaining = slot.remaining /\ slot'.total = slot.total
        BY <1>t, <3>1, Zenon DEF Slot
    <3> QED BY <2>1, <2>2, <3>1, <3>2 DEF CleanInv, Clean, SettlesAtEnd, MovingPcs
  <2> QED BY <2>3, <2>4
<1>3. CASE call.op = "write"
  <2>1. PICK ok \in BOOLEAN :
            /\ WaitEndOfWriteBlocks(FALSE, ok)
            /\ IF ok THEN StepEnds /\ flow' = flow ELSE Finish("FAIL")
      BY <1>3, Zenon DEF WaitEnd
  <2>2. PICK b \in WaitEndOfWrite(ok) :
            /\ slot' = IF ok THEN [slot EXCEPT !.remaining = slot.remaining] ELSE slot
            /\ bus' = IF ok /\ slot.remaining = 0 THEN [b EXCEPT !.sel = FALSE] ELSE b
      BY <2>1 DEF WaitEndOfWriteBlocks
  <2>3. b \in Bus /\ b.sel = bus.sel
      BY <1>t, <2>2, WaitOnBus
  <2>4. /\ bus'.card = b.card /\ bus'.upset = b.upset
        /\ bus'.sel = (IF ok /\ slot.remaining = 0 THEN FALSE ELSE b.sel)
    <3>1. CASE ok /\ slot.remaining = 0
      <4>1. bus' = [b EXCEPT !.sel = FALSE]
          BY <2>2, <3>1
      <4>2. bus'.card = b.card /\ bus'.upset = b.upset /\ bus'.sel = FALSE
          BY <2>3, <4>1, Zenon DEF Bus
      <4> QED BY <3>1, <4>2
    <3>2. CASE ~(ok /\ slot.remaining = 0)
      <4>1. bus' = b
          BY <2>2, <3>2
      <4> QED BY <3>2, <4>1
    <3> QED BY <3>1, <3>2
  <2>5. slot'.remaining = slot.remaining /\ slot'.total = slot.total
      BY <1>t, <2>2, Zenon DEF Slot
  <2>6. ~bus'.upset =>
            /\ ok /\ ~bus.upset
            /\ IF StopTokenDue /\ Receiving THEN b.card = Ended(bus.card)
                                            ELSE b.card = bus.card
      BY <1>t, <2>2, <2>4, WaitClean
  <2>7. CASE ~ok
    <3>1. flow'.began = FALSE
        BY <2>1, <2>7, FinishForgets
    <3> QED BY <2>6, <2>7, <3>1 DEF CleanInv, SettlesAtEnd
  <2>8. CASE ok
    <3>1. call'.pc = "loop" /\ call'.op = call.op /\ flow' = flow
        BY <1>t, <2>1, <2>8, StepEndsFacts
    <3>2. ASSUME flow.began, ~bus'.upset PROVE Clean(bus', slot', call.op)
      <4>1. /\ bus.card.multi <=> slot.total > 1
            /\ bus.card.mode = (IF slot.remaining > 0 \/ slot.total > 1
                                THEN "write" ELSE "tran")
          BY <1>l, <1>3, <2>6, <3>2 DEF CleanInv, Clean
      <4>2. CASE slot.remaining > 0
        <5>1. ~StopTokenDue /\ slot.remaining # 0
            BY <1>t, <1>l, <4>2, SMT DEF StopTokenDue
        <5>2. bus'.card = bus.card /\ bus'.sel
            BY <1>l, <2>3, <2>4, <2>6, <3>2, <5>1
        <5> QED BY <1>3, <2>5, <4>1, <4>2, <5>2 DEF Clean
      <4>3. CASE slot.remaining = 0 /\ slot.total > 1
        <5>1. StopTokenDue
            BY <1>t, <1>l, <4>3, SMT DEF StopTokenDue
        <5>2. Receiving
            BY <1>l, <4>1, <4>3 DEF Receiving
        <5>3. bus'.card.mode = "tran" /\ ~bus'.sel
            BY <1>t, <2>4, <2>6, <2>8, <3>2, <4>3, <5>1, <5>2, EndedOnBus
        <5> QED BY <5>3 DEF Clean
      <4>4. CASE slot.remaining = 0 /\ ~(slot.total > 1)
        <5>1. bus.card.mode = "tran"
          <6>1. ~(slot.remaining > 0)
              BY <4>4, SMT
          <6> QED BY <4>1, <4>4, <6>1
        <5>2. bus'.card = bus.card /\ ~bus'.sel
            BY <2>4, <2>6, <2>8, <3>2, <4>4, <5>1 DEF Receiving
        <5> QED BY <5>1, <5>2 DEF Clean
      <4> QED BY <1>t, <4>2, <4>3, <4>4, SMT
    <3> QED BY <3>1, <3>2 DEF CleanInv, SettlesAtEnd, MovingPcs
  <2> QED BY <2>7, <2>8
<1> QED BY <1>t, <1>2, <1>3

----------------------------------------------------------------------------

LEMMA OutsideClean ==
    ASSUME Inv, CleanInv, ControlStep \/ Select \/ WaitReady \/ HostCalls
    PROVE  CleanInv' /\ SettlesAtEnd
<1>1. call.pc \notin MovingPcs
    BY DEF ControlStep, GetCapacity, Check, Install, Installed, GetType, Select,
           WaitReady, HostCalls, CallTestUnitReady, CallReadCapacity, CallTransfer,
           BeginCall, MovingPcs
<1>2. ~flow.began /\ flow \in Flow
    BY <1>1, BusyOnlyMoving DEF Inv, TypeOK
<1>3. \/ flow' = flow
      \/ flow' = [flow EXCEPT !.told = TRUE]
      \/ Finish("FAIL") \/ Finish("NO_PRESENT")
      \/ \E n \in Requests : flow' = [flow EXCEPT !.want = n, !.last = 0,
                                        !.status = "busy", !.fetched = 0,
                                        !.began = FALSE]
  <2>1. CASE ControlStep
      BY <2>1, Zenon DEF ControlStep, GetCapacity, Check, Install, Installed, GetType
  <2>2. CASE Select
      BY <2>2, Zenon DEF Select
  <2>3. CASE WaitReady
      BY <2>3, Zenon DEF WaitReady
  <2>4. CASE HostCalls
      BY <2>4, Zenon DEF HostCalls, CallTestUnitReady, CallReadCapacity, CallTransfer
  <2> QED BY <2>1, <2>2, <2>3, <2>4
<1>4. ~flow'.began
    BY <1>2, <1>3, FinishForgets, Zenon DEF Flow
<1> QED BY <1>2, <1>4 DEF CleanInv, SettlesAtEnd

LEMMA WorldClean ==
    ASSUME Inv, CleanInv, PlugCard \/ PullCard \/ Timer \/ UNCHANGED vars
    PROVE  CleanInv' /\ SettlesAtEnd
<1>1. bus \in Bus /\ slot \in Slot /\ flow \in Flow /\ call' = call
    BY DEF Inv, TypeOK, PlugCard, PullCard, Timer, vars
<1>2. flow'.began = flow.began
  <2>1. flow' = flow \/ flow' = [flow EXCEPT !.told = FALSE]
      BY DEF PlugCard, PullCard, Timer, vars
  <2> QED BY <1>1, <2>1, Zenon DEF Flow
<1>3. call.pc = "idle" => ~flow.began
    BY DEF CleanInv, MovingPcs
<1>4. CASE Timer \/ UNCHANGED vars
  <2>1. bus' = bus /\ (slot' = slot \/ slot' = [slot EXCEPT !.timer = "expired"])
      BY <1>4 DEF Timer, TimerExpires, vars
  <2>2. slot'.total = slot.total /\ slot'.remaining = slot.remaining
      BY <1>1, <2>1, Zenon DEF Slot
  <2> QED BY <1>1, <1>2, <1>3, <2>1, <2>2 DEF CleanInv, Clean, SettlesAtEnd
<1>5. CASE PullCard
  <2>1. bus' = [bus EXCEPT !.card = NoCard, !.upset = TRUE]
      BY <1>5 DEF PullCard, Remove
  <2>2. bus'.upset
      BY <1>1, <2>1, Zenon DEF Bus
  <2> QED BY <1>1, <1>2, <1>3, <2>2 DEF CleanInv, SettlesAtEnd
<1>6. CASE PlugCard
  <2>1. PICK kind \in Kinds : bus' = [bus EXCEPT !.card = Plugged(kind)]
      BY <1>6 DEF PlugCard, Insert
  <2>2. bus.card.mode = "absent"
      BY <1>6 DEF PlugCard, Insert, CardDetected
  <2>3. bus'.upset = bus.upset
    <3> DEFINE c == Plugged(kind)
    <3>1. bus' = [bus EXCEPT !.card = c]
        BY <2>1
    <3> HIDE DEF c
    <3> QED BY <1>1, <3>1, Zenon DEF Bus
  <2>4. flow.began => bus.upset
    <3> SUFFICES ASSUME flow.began, ~bus.upset PROVE FALSE
        BY <1>1, Zenon DEF Bus
    <3>1. bus.card.mode \in {call.op, "tran"} /\ call.pc \in MovingPcs
        BY DEF CleanInv, Clean
    <3>2. call.op \in {"read", "write"}
        BY <3>1, MovingTypes DEF Transfers
    <3> QED BY <2>2, <3>1, <3>2
  <2> QED BY <1>1, <1>2, <1>3, <2>3, <2>4 DEF CleanInv, SettlesAtEnd
<1> QED BY <1>4, <1>5, <1>6

LEMMA NextClean ==
    ASSUME GoodRequests, Inv, CleanInv, [Next]_vars
    PROVE  CleanInv' /\ SettlesAtEnd
<1>1. CASE TransferStep
    BY <1>1, OutsideClean, StartTransferClean, LoopTestClean, StepBeginsClean,
       FetchAndStoreClean, UsbClean, AbortClean, WaitEndClean DEF TransferStep
<1>2. CASE ControlStep \/ HostCalls
    BY <1>2, OutsideClean
<1>3. CASE PlugCard \/ PullCard \/ Timer \/ UNCHANGED vars
    BY <1>3, WorldClean
<1> QED BY <1>1, <1>2, <1>3 DEF Next, StackStep

\* A transfer that the card did not upset ends with the card ready for the next command
\* and the slot released: every read, aborted or not, and every good write (CMD12 and
\* the stop token, sd_mmc_wait_end_of_read_blocks, sd_mmc_spi_stop_multiwrite_block).
THEOREM TransfersEndSettled == ASSUME GoodRequests PROVE Spec => EndsSettled
<1>1. Init => CleanInv
    BY DEF Init, CleanInv
<1>2. Inv /\ CleanInv /\ [Next]_vars => CleanInv' /\ SettlesAtEnd
    BY NextClean
<1>3. SettlesAtEnd =>
          [flow.began /\ call'.pc = "idle" /\ ~bus'.upset
               => (call.op = "read" \/ call'.result = "GOOD" => Settled')]_vars
    BY DEF SettlesAtEnd
<1> QED BY <1>1, <1>2, <1>3, SdInvariant, PTL DEF Spec, EndsSettled
=============================================================================
