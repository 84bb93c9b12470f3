---------------------------- MODULE SdMmcProofs ----------------------------
EXTENDS SdMmc, TLAPS

----------------------------------------------------------------------------
(* The card.                                                               *)

Live(c) == c.mode \in {"tran", "read", "write"}

LEMMA CardType ==
    ASSUME NEW c \in Card
    PROVE  /\ NoCard \in Card /\ \A k \in Kinds : Plugged(k) \in Card
           /\ \A cmd \in Commands : After(c, cmd) \in Card
           /\ BlockDone(c) \in Card /\ Ended(c) \in Card /\ Spoiled(c) \in Card
<1>1. NoCard \in Card
    BY Zenon DEF NoCard, Card, AllKinds, Modes
<1>2. \A k \in Kinds : Plugged(k) \in Card
    <2>1. "off" \in Modes
        BY DEF Modes
    <2> QED BY <1>1, <2>1, KindsAssumption, Zenon DEF Plugged, Card
<1>3. ASSUME NEW cmd \in Commands PROVE After(c, cmd) \in Card
    <2>1. LeadsTo(c, cmd) \in Modes
        BY DEF LeadsTo, Modes, Card
    <2> DEFINE multi == cmd \in {"CMD18", "CMD25"}
               mode  == LeadsTo(c, cmd)
    <2>2. multi \in BOOLEAN /\ 1 \in Nat /\ mode \in Modes
        BY <2>1
    <2>3. After(c, cmd) = [c EXCEPT !.mode = mode, !.multi = multi, !.next = 1]
        BY DEF After
    <2> HIDE DEF multi, mode
    <2> QED BY <2>2, <2>3, Zenon DEF Card
<1>4. BlockDone(c) \in Card
    <2> DEFINE mode == IF c.multi THEN c.mode ELSE "tran"
               next == c.next + 1
    <2>1. mode \in Modes /\ next \in Nat
        BY DEF Modes, Card
    <2>2. BlockDone(c) = [c EXCEPT !.mode = mode, !.next = next]
        BY DEF BlockDone
    <2> HIDE DEF mode, next
    <2> QED BY <2>1, <2>2, Zenon DEF Card
<1>5. Ended(c) \in Card
    <2>1. "tran" \in Modes
        BY DEF Modes
    <2> QED BY <2>1, Zenon DEF Ended, Card
<1>6. Spoiled(c) \in Card
    BY <1>5 DEF Spoiled
<1> QED BY <1>1, <1>2, <1>3, <1>4, <1>5, <1>6

LEMMA CardEffects ==
    ASSUME NEW c \in Card
    PROVE  /\ \A cmd \in Commands : /\ After(c, cmd).kind = c.kind
                                    /\ After(c, cmd).mode = LeadsTo(c, cmd)
                                    /\ After(c, cmd).next = 1
           /\ BlockDone(c).kind = c.kind
           /\ BlockDone(c).mode = (IF c.multi THEN c.mode ELSE "tran")
           /\ BlockDone(c).next = c.next + 1
           /\ Ended(c).kind = c.kind /\ Ended(c).mode = "tran"
           /\ Spoiled(c).kind = c.kind
           /\ Spoiled(c).mode \in {c.mode, "tran"}
<1>1. /\ Ended(c).kind = c.kind /\ Ended(c).mode = "tran"
    BY Zenon DEF Ended, Card
<1>2. /\ Spoiled(c).kind = c.kind /\ Spoiled(c).mode \in {c.mode, "tran"}
    BY <1>1 DEF Spoiled
<1>3. \A cmd \in Commands : /\ After(c, cmd).kind = c.kind
                            /\ After(c, cmd).mode = LeadsTo(c, cmd)
                            /\ After(c, cmd).next = 1
    BY Zenon DEF After, Card
<1>4. /\ BlockDone(c).kind = c.kind
      /\ BlockDone(c).mode = (IF c.multi THEN c.mode ELSE "tran")
      /\ BlockDone(c).next = c.next + 1
    BY Zenon DEF BlockDone, Card
<1> QED BY <1>1, <1>2, <1>3, <1>4

----------------------------------------------------------------------------
(* The operations on the bus.  KeepsCard: the card is the same one, and is  *)
(* no nearer to data than it was.                                          *)

KeepsCard(b) == /\ b.card.kind = bus.card.kind
                /\ Live(b.card) => Live(bus.card)

LEMMA BusBasics ==
    ASSUME NEW b \in Bus
    PROVE  /\ b.card \in Card /\ b.sel \in BOOLEAN /\ b.nb \in Nat /\ b.pos \in Nat
           /\ b.pos + 1 \in Nat
<1>1. b.card \in Card /\ b.sel \in BOOLEAN /\ b.nb \in Nat /\ b.pos \in Nat
    BY Zenon DEF Bus
<1> QED BY <1>1, SMT

LEMMA SelectsBus ==
    ASSUME bus \in Bus
    PROVE  /\ SelectDevice \in Bus /\ DeselectDevice \in Bus
           /\ SelectDevice.card = bus.card /\ DeselectDevice.card = bus.card
           /\ SelectDevice.sel /\ ~DeselectDevice.sel
           /\ DeselectDevice.nb = bus.nb /\ DeselectDevice.pos = bus.pos
<1>2. /\ SelectDevice \in Bus /\ SelectDevice.card = bus.card /\ SelectDevice.sel
    BY Zenon DEF SelectDevice, Bus
<1>3. /\ DeselectDevice \in Bus /\ DeselectDevice.card = bus.card
      /\ ~DeselectDevice.sel
      /\ DeselectDevice.nb = bus.nb /\ DeselectDevice.pos = bus.pos
    BY Zenon DEF DeselectDevice, Bus
<1> QED BY <1>2, <1>3

\* A command that the card does not hear changes nothing but the chip's answer.
LEMMA CommandOnBus ==
    ASSUME bus \in Bus, NEW cmd \in Commands, NEW n \in Nat, NEW ok \in BOOLEAN,
           NEW b \in AdtcStart(cmd, n, ok)
    PROVE  /\ b \in Bus /\ b.sel = bus.sel
           /\ b.card.kind = bus.card.kind
           /\ b.card = bus.card \/ (Heard(cmd) /\ b.card = After(bus.card, cmd))
           /\ ok => /\ Heard(cmd) /\ b.card = After(bus.card, cmd)
                    /\ b.nb = n /\ b.pos = 0
<1> DEFINE after == After(bus.card, cmd)
<1>0. bus.card \in Card
    BY BusBasics
<1>1. after \in Card /\ after.kind = bus.card.kind /\ bus.card \in Card
    <2> DEFINE c == bus.card
    <2> HIDE DEF c
    <2>1. c \in Card
        BY <1>0 DEF c
    <2>2. After(c, cmd) \in Card /\ After(c, cmd).kind = c.kind
        BY <2>1, CardType, CardEffects
    <2> QED BY <2>1, <2>2 DEF c
<1>2. CASE ~Heard(cmd)
    <2>1. AdtcStart(cmd, n, ok) = IF ok THEN {} ELSE {bus}
        BY <1>2, Zenon DEF AdtcStart
    <2>2. b = bus /\ ~ok
        BY <2>1
    <2> QED BY <2>2
<1>3. CASE Heard(cmd) /\ ok
  <2>1. b = [bus EXCEPT !.card = after, !.nb = n, !.pos = 0]
      BY <1>3 DEF AdtcStart
  <2> HIDE DEF after
  <2>2. /\ b \in Bus /\ b.sel = bus.sel /\ b.card = after /\ b.nb = n /\ b.pos = 0
      BY <1>1, <2>1, Zenon DEF Bus
  <2> QED BY <1>1, <1>3, <2>2 DEF after
<1>4. CASE Heard(cmd) /\ ~ok
  <2>1. AdtcStart(cmd, n, ok) = {[bus EXCEPT !.card = c, !.upset = TRUE] :
                                       c \in {bus.card, after}}
      BY <1>4, Zenon DEF AdtcStart
  <2> HIDE DEF after
  <2>2. PICK c \in {bus.card, after} : b = [bus EXCEPT !.card = c, !.upset = TRUE]
      BY <2>1
  <2>3. c \in Card
      BY <1>1
  <2>4. b \in Bus /\ b.sel = bus.sel /\ b.card = c
      BY <2>2, <2>3, Zenon DEF Bus
  <2> QED BY <1>1, <1>4, <2>2, <2>4 DEF after
<1> QED BY <1>2, <1>3, <1>4

\* A block read counts one position with the card, or fails.
LEMMA ReadOnBus ==
    ASSUME bus \in Bus, NEW ok \in BOOLEAN, NEW b \in StartReadBlock(ok)
    PROVE  /\ b \in Bus /\ b.sel = bus.sel /\ b.nb = bus.nb /\ KeepsCard(b)
           /\ b.card.mode \in {"read", "write"} => b.card.mode = bus.card.mode
           /\ ok => /\ bus.sel /\ bus.card.mode = "read"
                    /\ b.pos = bus.pos + 1 /\ b.card.next = bus.card.next + 1
<1> DEFINE done == BlockDone(bus.card)
           spoiled == Spoiled(bus.card)
<1>0. bus.card \in Card
    BY BusBasics
<1>1. /\ done \in Card /\ done.kind = bus.card.kind
      /\ done.mode \in {bus.card.mode, "tran"} /\ done.next = bus.card.next + 1
      /\ spoiled \in Card /\ spoiled.kind = bus.card.kind
      /\ spoiled.mode \in {bus.card.mode, "tran"}
    <2> DEFINE c == bus.card
    <2> HIDE DEF c
    <2>1. c \in Card
        BY <1>0 DEF c
    <2>2. /\ BlockDone(c) \in Card /\ BlockDone(c).kind = c.kind
          /\ BlockDone(c).mode \in {c.mode, "tran"} /\ BlockDone(c).next = c.next + 1
          /\ Spoiled(c) \in Card /\ Spoiled(c).kind = c.kind
          /\ Spoiled(c).mode \in {c.mode, "tran"}
        BY <2>1, CardType, CardEffects
    <2> QED BY <2>2 DEF c
<1> HIDE DEF done, spoiled
<1>2. CASE ~Sending
    <2>1. StartReadBlock(ok) = IF ok THEN {} ELSE {bus}
        BY <1>2, Zenon DEF StartReadBlock
    <2> QED BY <2>1 DEF KeepsCard
<1>3. CASE Sending /\ ok
  <2>1. b = [bus EXCEPT !.card = done, !.pos = bus.pos + 1]
      BY <1>3 DEF StartReadBlock, done
  <2>2. bus.pos + 1 \in Nat
      BY BusBasics
  <2>3. /\ b \in Bus /\ b.sel = bus.sel /\ b.nb = bus.nb /\ b.card = done
        /\ b.pos = bus.pos + 1
      BY <1>1, <2>1, <2>2, Zenon DEF Bus
  <2> QED BY <1>1, <1>3, <2>3 DEF KeepsCard, Live, Sending
<1>4. CASE Sending /\ ~ok
  <2>1. b = [bus EXCEPT !.card = spoiled, !.upset = TRUE]
      BY <1>4 DEF StartReadBlock, spoiled
  <2>2. b \in Bus /\ b.sel = bus.sel /\ b.nb = bus.nb /\ b.card = spoiled
      BY <1>1, <2>1, Zenon DEF Bus
  <2> QED BY <1>1, <1>4, <2>2 DEF KeepsCard, Live, Sending
<1> QED BY <1>2, <1>3, <1>4

LEMMA WriteOnBus ==
    ASSUME bus \in Bus, NEW ok \in BOOLEAN, NEW b \in StartWriteBlock(ok)
    PROVE  /\ b \in Bus /\ b.sel = bus.sel /\ b.nb = bus.nb /\ KeepsCard(b)
           /\ b.card.mode \in {"read", "write"} => b.card.mode = bus.card.mode
           /\ ok => /\ bus.sel /\ bus.card.mode = "write"
                    /\ b.pos = bus.pos + 1
<1> DEFINE done == BlockDone(bus.card)
           spoiled == Spoiled(bus.card)
           pos == bus.pos + 1
<1>0. bus.card \in Card /\ pos \in Nat
    BY BusBasics
<1>1. /\ done \in Card /\ done.kind = bus.card.kind
      /\ done.mode \in {bus.card.mode, "tran"}
      /\ spoiled \in Card /\ spoiled.kind = bus.card.kind
      /\ spoiled.mode \in {bus.card.mode, "tran"}
    <2> DEFINE c == bus.card
    <2> HIDE DEF c
    <2>1. c \in Card
        BY <1>0 DEF c
    <2>2. /\ BlockDone(c) \in Card /\ BlockDone(c).kind = c.kind
          /\ BlockDone(c).mode \in {c.mode, "tran"}
          /\ Spoiled(c) \in Card /\ Spoiled(c).kind = c.kind
          /\ Spoiled(c).mode \in {c.mode, "tran"}
        BY <2>1, CardType, CardEffects
    <2> QED BY <2>2 DEF c
<1> DEFINE sent == [bus EXCEPT !.pos = pos]
<1>s. /\ sent \in Bus /\ sent.card = bus.card /\ sent.sel = bus.sel
      /\ sent.nb = bus.nb /\ sent.pos = pos
    <2> HIDE DEF pos
    <2> QED BY <1>0, Zenon DEF Bus
<1>d. StartWriteBlock(ok) =
          IF Receiving
          THEN IF ok THEN {[sent EXCEPT !.card = BlockDone(@)]}
               ELSE {[sent EXCEPT !.card = Spoiled(@), !.upset = TRUE]}
          ELSE IF ok THEN {} ELSE {sent}
    BY DEF StartWriteBlock
<1> HIDE DEF done, spoiled, sent
<1>2. CASE ~Receiving
    BY <1>d, <1>2, <1>s DEF KeepsCard
<1>3. CASE Receiving /\ ok
  <2>1. b = [sent EXCEPT !.card = done]
      BY <1>d, <1>3, <1>s DEF done
  <2>3. /\ b \in Bus /\ b.sel = bus.sel /\ b.nb = bus.nb /\ b.card = done
        /\ b.pos = pos
      BY <1>1, <1>s, <2>1, Zenon DEF Bus
  <2> QED BY <1>1, <1>3, <2>3 DEF KeepsCard, Live, Receiving
<1>4. CASE Receiving /\ ~ok
  <2>1. b = [sent EXCEPT !.card = spoiled, !.upset = TRUE]
      BY <1>d, <1>4, <1>s DEF spoiled
  <2>2. b \in Bus /\ b.sel = bus.sel /\ b.nb = bus.nb /\ b.card = spoiled
      BY <1>1, <1>s, <2>1, Zenon DEF Bus
  <2> QED BY <1>1, <1>4, <2>2 DEF KeepsCard, Live, Receiving
<1> QED BY <1>2, <1>3, <1>4

LEMMA EndedOnBus ==
    ASSUME bus \in Bus
    PROVE  /\ [bus EXCEPT !.card = Ended(@)] \in Bus
           /\ [bus EXCEPT !.card = Ended(@)].card = Ended(bus.card)
           /\ [bus EXCEPT !.card = Ended(@)].sel = bus.sel
           /\ [bus EXCEPT !.card = Ended(@)].nb = bus.nb
           /\ [bus EXCEPT !.card = Ended(@)].pos = bus.pos
           /\ Ended(bus.card) \in Card /\ Ended(bus.card).kind = bus.card.kind
           /\ Ended(bus.card).mode = "tran"
<1> DEFINE c == bus.card
<1>1. c \in Card
    BY BusBasics
<1> HIDE DEF c
<1>2. Ended(c) \in Card /\ Ended(c).kind = c.kind /\ Ended(c).mode = "tran"
    BY <1>1, CardType, CardEffects
<1>3. Ended(bus.card) \in Card
    BY <1>2 DEF c
<1> QED BY <1>2, <1>3, Zenon DEF Bus, c

LEMMA StoppedOnBus ==
    ASSUME bus \in Bus
    PROVE  /\ Stopped \in Bus /\ Stopped.sel = bus.sel /\ Stopped.nb = bus.nb
           /\ Stopped.pos = bus.pos /\ KeepsCard(Stopped)
           /\ Stopped.card = bus.card \/ Stopped.card.mode = "tran"
<1>1. CASE Receiving
    BY <1>1, EndedOnBus DEF Stopped, KeepsCard, Live, Receiving
<1>2. CASE ~Receiving
    BY <1>2 DEF Stopped, KeepsCard
<1> QED BY <1>1, <1>2

LEMMA WaitOnBus ==
    ASSUME bus \in Bus, NEW ok \in BOOLEAN, NEW b \in WaitEndOfWrite(ok)
    PROVE  /\ b \in Bus /\ b.sel = bus.sel /\ b.nb = bus.nb /\ b.pos = bus.pos
           /\ KeepsCard(b) /\ (b.card = bus.card \/ b.card.mode = "tran")
<1> DEFINE end == IF StopTokenDue THEN Stopped ELSE bus
<1>1. /\ end \in Bus /\ end.sel = bus.sel /\ end.nb = bus.nb /\ end.pos = bus.pos
      /\ KeepsCard(end) /\ (end.card = bus.card \/ end.card.mode = "tran")
    BY StoppedOnBus DEF KeepsCard
<1>2. CASE ok
    BY <1>1, <1>2 DEF WaitEndOfWrite
<1>3. CASE ~ok
  <2>1. WaitEndOfWrite(ok) = {[e EXCEPT !.upset = TRUE] :
                                 e \in IF StopTokenDue THEN {bus, Stopped} ELSE {bus}}
      BY <1>3, Zenon DEF WaitEndOfWrite
  <2>2. PICK e \in {bus, Stopped} : b = [e EXCEPT !.upset = TRUE]
      BY <2>1
  <2>3. /\ e \in Bus /\ e.sel = bus.sel /\ e.nb = bus.nb /\ e.pos = bus.pos
        /\ KeepsCard(e) /\ (e.card = bus.card \/ e.card.mode = "tran")
      BY <2>2, StoppedOnBus DEF KeepsCard
  <2>4. /\ b \in Bus /\ b.sel = e.sel /\ b.nb = e.nb /\ b.pos = e.pos
        /\ b.card = e.card
      BY <2>2, <2>3, Zenon DEF Bus
  <2> QED BY <2>3, <2>4 DEF KeepsCard
<1> QED BY <1>2, <1>3

LEMMA StopOnBus ==
    ASSUME bus \in Bus, NEW b \in StopReading
    PROVE  /\ b \in Bus /\ KeepsCard(b)
           /\ b.card = bus.card \/ b.card.mode = "tran"
<1>1. CASE ~Heard("CMD12")
    <2>1. b = bus
        BY <1>1 DEF StopReading
    <2> QED BY <2>1 DEF KeepsCard
<1>2. CASE Heard("CMD12")
  <2>0. Live(bus.card)
      BY <1>2 DEF Heard, Takes, Hears, Live
  <2> DEFINE end == [bus EXCEPT !.card = Ended(@), !.nb = 0, !.pos = 0]
             ended == Ended(bus.card)
  <2>1. StopReading = {end} \cup {[bus EXCEPT !.card = c, !.upset = TRUE] :
                                      c \in {bus.card, ended}}
      BY <1>2, Zenon DEF StopReading
  <2>2. end \in Bus /\ end.card = ended
      BY EndedOnBus, Zenon DEF Bus
  <2> HIDE DEF end
  <2>3. CASE b = end
      BY <2>0, <2>2, <2>3, EndedOnBus DEF KeepsCard
  <2>4. CASE b # end
    <3> HIDE DEF ended
    <3>1. PICK c \in {bus.card, ended} : b = [bus EXCEPT !.card = c, !.upset = TRUE]
        BY <2>1, <2>4
    <3>2. c \in Card
        BY <3>1, EndedOnBus, BusBasics DEF ended
    <3>3. b \in Bus /\ b.card = c
        BY <3>1, <3>2, Zenon DEF Bus
    <3> QED BY <2>0, <3>1, <3>3, EndedOnBus DEF KeepsCard, ended
  <2> QED BY <2>3, <2>4
<1> QED BY <1>1, <1>2

\* A card that comes or goes leaves the socket with a card that is not live.
LEMMA SocketOnBus ==
    ASSUME bus \in Bus, Insert \/ Remove
    PROVE  /\ bus' \in Bus /\ ~Live(bus'.card)
           /\ bus'.sel = bus.sel /\ bus'.nb = bus.nb /\ bus'.pos = bus.pos
<1>0. bus.card \in Card /\ NoCard \in Card /\ NoCard.mode = "absent"
    BY BusBasics, CardType DEF NoCard
<1>1. CASE Remove
  <2>1. bus' = [bus EXCEPT !.card = NoCard, !.upset = TRUE]
      BY <1>1 DEF Remove
  <2>2. /\ bus' \in Bus /\ bus'.sel = bus.sel /\ bus'.nb = bus.nb
        /\ bus'.pos = bus.pos /\ bus'.card = NoCard
      BY <1>0, <2>1, Zenon DEF Bus
  <2> QED BY <1>0, <2>2 DEF Live
<1>2. CASE Insert
  <2>1. PICK kind \in Kinds : bus' = [bus EXCEPT !.card = Plugged(kind)]
      BY <1>2 DEF Insert
  <2> DEFINE c == Plugged(kind)
  <2>2. c \in Card
      BY CardType, <1>0
  <2>3. c.mode = "off"
      BY <1>0, Zenon DEF Plugged, Card
  <2> HIDE DEF c
  <2>4. bus' = [bus EXCEPT !.card = c]
      BY <2>1 DEF c
  <2>5. /\ bus' \in Bus /\ bus'.sel = bus.sel /\ bus'.nb = bus.nb
        /\ bus'.pos = bus.pos /\ bus'.card = c
      BY <2>2, <2>4, Zenon DEF Bus
  <2> QED BY <2>3, <2>5 DEF Live
<1> QED BY <1>1, <1>2

----------------------------------------------------------------------------
(* The slot.                                                               *)

\* SysTick counts for the debounce and for nothing else.
TimerOk(s) == /\ s.timer # "off" => s.state = "DEBOUNCE"
              /\ s.state = "DEBOUNCE" => s.ticking

\* Two slots that differ at most in the state and the timer.
SameCard(s, t) == /\ s.install = t.install /\ s.type = t.type
                  /\ s.capacity = t.capacity /\ s.v2 = t.v2
                  /\ s.total = t.total /\ s.remaining = t.remaining

LEMMA SlotFields ==
    ASSUME NEW s \in Slot
    PROVE  /\ s.timer \in Timers /\ s.state \in States /\ s.install \in Installs
           /\ s.remaining \in Nat /\ s.total \in Nat
           /\ s.type \in SUBSET {"SD", "MMC", "HC"} /\ s.capacity \in Capacities
BY Zenon DEF Slot

LEMMA SlotTimer ==
    ASSUME NEW s \in Slot, NEW v \in Timers
    PROVE  /\ [s EXCEPT !.timer = v] \in Slot /\ SameCard([s EXCEPT !.timer = v], s)
           /\ [s EXCEPT !.timer = v].state = s.state
           /\ [s EXCEPT !.timer = v].timer = v
           /\ [s EXCEPT !.timer = v].ticking = s.ticking
BY Zenon DEF Slot, SameCard

LEMMA StopsTimer ==
    ASSUME NEW s \in Slot, TimerOk(s), s.state = "DEBOUNCE"
    PROVE  /\ StopTimeout(s) \in Slot /\ SameCard(StopTimeout(s), s)
           /\ StopTimeout(s).timer = "off" /\ StopTimeout(s).state = s.state
           /\ TimeoutSeen(s) = StopTimeout(s)
<1>1. s.ticking
    BY DEF TimerOk
<1>2. StopTimeout(s) = [s EXCEPT !.timer = "off"] /\ TimeoutSeen(s) = StopTimeout(s)
    BY <1>1 DEF StopTimeout, TimeoutSeen
<1>3. "off" \in Timers
    BY DEF Timers
<1> QED BY <1>2, <1>3, SlotTimer

LEMMA StartsTimer ==
    ASSUME NEW s \in Slot, TimerOk(s), s.state = "NO_CARD"
    PROVE  /\ StartTimeout(s) \in Slot /\ SameCard(StartTimeout(s), s)
           /\ StartTimeout(s).ticking
<1>1. s.timer = "off"
    BY DEF TimerOk
<1>2. StartTimeout(s) = [s EXCEPT !.timer = "running", !.ticking = TRUE]
    BY <1>1 DEF StartTimeout
<1>3. "running" \in Timers
    BY DEF Timers
<1> QED BY <1>2, <1>3, Zenon DEF Slot, SameCard

LEMMA SelectionFacts ==
    ASSUME bus \in Bus, slot \in Slot, TimerOk(slot)
    PROVE  /\ Selection.slot \in Slot /\ TimerOk(Selection.slot)
           /\ SameCard(Selection.slot, slot)
           /\ Selection.err \in Selections
           /\ (Selection.err = "OK") <=> (Selection.slot.state = "READY")
           /\ Selection.err = "OK" => Selection.slot = slot
           /\ Selection.err = "ONGOING" => Selection.slot.state = "INIT"
<1> USE DEF Selections
<1>0. \/ slot.state = "NO_CARD" \/ slot.state = "DEBOUNCE" \/ slot.state = "INIT"
      \/ slot.state = "READY" \/ slot.state = "UNUSABLE"
    BY SlotFields DEF States
<1>s. SameCard(slot, slot)
    BY DEF SameCard
<1>v. "NO_CARD" \in States /\ "DEBOUNCE" \in States /\ "INIT" \in States
    BY DEF States
<1> DEFINE gone == [IF slot.state = "DEBOUNCE" THEN StopTimeout(slot) ELSE slot
                       EXCEPT !.state = "NO_CARD"]
           fresh == [StartTimeout(slot) EXCEPT !.state = "DEBOUNCE"]
           seen  == [TimeoutSeen(slot) EXCEPT !.state = "INIT"]
<1>1. CASE ~CardDetected
  <2>1. Selection = [err |-> "NO_CARD", slot |-> gone]
      BY <1>1, Zenon DEF Selection
  <2> DEFINE s == IF slot.state = "DEBOUNCE" THEN StopTimeout(slot) ELSE slot
  <2>2. s \in Slot /\ SameCard(s, slot) /\ s.timer = "off"
      BY <1>s, StopsTimer DEF TimerOk
  <2> HIDE DEF s
  <2>3. gone = [s EXCEPT !.state = "NO_CARD"]
      BY DEF s
  <2>4. gone \in Slot /\ SameCard(gone, s) /\ gone.state = "NO_CARD" /\ gone.timer = "off"
      BY <2>2, <2>3, <1>v, Zenon DEF Slot, SameCard
  <2> HIDE DEF gone
  <2>5. Selection.err = "NO_CARD" /\ Selection.slot = gone
      BY <2>1
  <2> QED BY <2>2, <2>4, <2>5 DEF TimerOk, SameCard
<1>2. CASE CardDetected /\ slot.state = "NO_CARD"
  <2>1. Selection = [err |-> "NO_CARD", slot |-> fresh]
      BY <1>2, Zenon DEF Selection, DebounceOver
  <2> DEFINE s == StartTimeout(slot)
  <2>2. s \in Slot /\ SameCard(s, slot) /\ s.ticking
      BY <1>2, StartsTimer
  <2> HIDE DEF s
  <2>3. fresh = [s EXCEPT !.state = "DEBOUNCE"]
      BY DEF s
  <2>4. fresh \in Slot /\ SameCard(fresh, s) /\ fresh.state = "DEBOUNCE" /\ fresh.ticking
      BY <2>2, <2>3, <1>v, Zenon DEF Slot, SameCard
  <2> HIDE DEF fresh
  <2>5. Selection.err = "NO_CARD" /\ Selection.slot = fresh
      BY <2>1
  <2> QED BY <2>2, <2>4, <2>5 DEF TimerOk, SameCard
<1>3. CASE CardDetected /\ slot.state = "DEBOUNCE" /\ ~DebounceOver
  <2>1. Selection = [err |-> "NO_CARD", slot |-> slot]
      BY <1>3, Zenon DEF Selection
  <2>2. Selection.err = "NO_CARD" /\ Selection.slot = slot
      BY <2>1
  <2> QED BY <1>3, <1>s, <2>2
<1>4. CASE CardDetected /\ DebounceOver
  <2>0. slot.state = "DEBOUNCE"
      BY <1>4 DEF DebounceOver
  <2>1. Selection = [err |-> "ONGOING", slot |-> seen]
      BY <1>4, <2>0, Zenon DEF Selection
  <2> DEFINE s == TimeoutSeen(slot)
  <2>2. s \in Slot /\ SameCard(s, slot) /\ s.timer = "off"
      BY <2>0, StopsTimer
  <2> HIDE DEF s
  <2>3. seen = [s EXCEPT !.state = "INIT"]
      BY DEF s
  <2>4. seen \in Slot /\ SameCard(seen, s) /\ seen.state = "INIT" /\ seen.timer = "off"
      BY <2>2, <2>3, <1>v, Zenon DEF Slot, SameCard
  <2> HIDE DEF seen
  <2>5. Selection.err = "ONGOING" /\ Selection.slot = seen
      BY <2>1
  <2> QED BY <2>2, <2>4, <2>5 DEF TimerOk, SameCard
<1>5. CASE CardDetected /\ slot.state \in {"INIT", "READY", "UNUSABLE"}
  <2>1. Selection.slot = slot /\ Selection.err =
            CASE slot.state = "INIT" -> "ONGOING" [] slot.state = "READY" -> "OK"
              [] slot.state = "UNUSABLE" -> "UNUSABLE"
    <3>1. CASE slot.state = "INIT"
      <4>1. Selection = [err |-> "ONGOING", slot |-> slot]
          BY <1>5, <3>1, Zenon DEF Selection, DebounceOver
      <4> QED BY <3>1, <4>1
    <3>2. CASE slot.state = "READY"
      <4>1. Selection = [err |-> "OK", slot |-> slot]
          BY <1>5, <3>2, Zenon DEF Selection, DebounceOver
      <4> QED BY <3>2, <4>1
    <3>3. CASE slot.state = "UNUSABLE"
      <4>1. Selection = [err |-> "UNUSABLE", slot |-> slot]
          BY <1>5, <3>3, Zenon DEF Selection, DebounceOver
      <4> QED BY <3>3, <4>1
    <3> QED BY <1>5, <3>1, <3>2, <3>3
  <2> QED BY <1>5, <1>s, <2>1
<1> QED BY <1>0, <1>1, <1>2, <1>3, <1>4, <1>5 DEF DebounceOver

----------------------------------------------------------------------------
(* The identification.  Whatever answers are lost on the way and whenever   *)
(* the card is changed, what is known of a live card is true of it.         *)

Identified == {"CMD59", "CMD9", "ACMD51", "CMD16", "CMD13", "done"}
Measured   == {"ACMD51", "CMD16", "CMD13", "done"}

RightUnit(c, s) == "HC" \in s.type <=> c.kind = "sdhc"

InstallOk(c, s) ==
    /\ s.install \notin Identified \cup {"failed"} => "HC" \notin s.type
    /\ s.install \in {"CMD8", "ACMD41"} => "SD" \in s.type
    /\ Live(c) => /\ s.install \in Identified => RightUnit(c, s)
                  /\ s.install \in Measured => s.capacity = c.kind
                  /\ s.install \in {"CMD58"} \cup Identified /\ "SD" \notin s.type
                         => c.kind # "sdhc"

\* What a step of the identification never touches.
SameLife(s, t) == /\ s.state = t.state /\ s.timer = t.timer
                  /\ s.ticking = t.ticking
                  /\ s.total = t.total /\ s.remaining = t.remaining

LEMMA SlotInstall ==
    ASSUME NEW s \in Slot, NEW v \in Installs
    PROVE  /\ [s EXCEPT !.install = v] \in Slot
           /\ SameLife([s EXCEPT !.install = v], s)
           /\ [s EXCEPT !.install = v].install = v
           /\ [s EXCEPT !.install = v].type = s.type
           /\ [s EXCEPT !.install = v].capacity = s.capacity
BY Zenon DEF Slot, SameLife

LEMMA TryMmcFacts ==
    ASSUME slot \in Slot
    PROVE  /\ TryMmc \in Slot /\ SameLife(TryMmc, slot)
           /\ TryMmc.install = "CMD0" /\ TryMmc.type = {"MMC"}
<1>1. "CMD0" \in Installs /\ {"MMC"} \in SUBSET {"SD", "MMC", "HC"}
    BY DEF Installs
<1> QED BY <1>1, Zenon DEF TryMmc, Slot, SameLife

LEMMA StartInstallFacts ==
    ASSUME NEW s \in Slot
    PROVE  /\ StartInstall(s) \in Slot /\ SameLife(StartInstall(s), s)
           /\ StartInstall(s).install = "CMD0" /\ StartInstall(s).type = {"SD"}
           /\ \A c : InstallOk(c, StartInstall(s))
<1>1. "CMD0" \in Installs /\ {"SD"} \in SUBSET {"SD", "MMC", "HC"}
    BY DEF Installs
<1>2. /\ StartInstall(s) \in Slot /\ SameLife(StartInstall(s), s)
      /\ StartInstall(s).install = "CMD0" /\ StartInstall(s).type = {"SD"}
    BY <1>1, Zenon DEF StartInstall, Slot, SameLife
<1> HIDE DEF StartInstall
<1> QED BY <1>2 DEF InstallOk, Identified, Measured

\* A command of the identification: it starts no transfer, and after it the card
\* is live only if it was or if the command starts a card.
LEMMA CommandFacts ==
    ASSUME bus \in Bus, NEW cmd \in Commands, NEW ok \in BOOLEAN,
           cmd \notin {"CMD17", "CMD18", "CMD24", "CMD25"},
           bus' \in SendCmd(cmd, ok)
    PROVE  /\ bus' \in Bus /\ bus'.sel = bus.sel
           /\ bus'.card.kind = bus.card.kind
           /\ bus'.card.mode \in {"read", "write"} => bus'.card.mode = bus.card.mode
           /\ Live(bus'.card) => Live(bus.card) \/ cmd \in {"ACMD41", "ACMD41HC", "CMD1"}
           /\ ok => Heard(cmd)
           /\ ok /\ cmd \in {"CMD58", "CMD9"} => Live(bus.card)
<1>0. bus.card \in Card /\ 0 \in Nat
    BY BusBasics
<1> DEFINE c == bus.card
           after == After(c, cmd)
<1>1. after.mode = LeadsTo(c, cmd)
    BY <1>0, CardEffects
<1>2. /\ bus' \in Bus /\ bus'.sel = bus.sel /\ bus'.card.kind = c.kind
      /\ bus'.card = c \/ (Heard(cmd) /\ bus'.card = after)
      /\ ok => Heard(cmd)
    BY <1>0, CommandOnBus DEF SendCmd
<1>3. LeadsTo(c, cmd) \in {"idle", "tran", c.mode}
    BY DEF LeadsTo
<1>4. LeadsTo(c, cmd) = "tran" =>
          cmd \in {"ACMD41", "ACMD41HC", "CMD1", "CMD12"} \/ c.mode = "tran"
    BY DEF LeadsTo
<1>5. Heard("CMD12") => Live(bus.card)
    BY DEF Heard, Takes, Hears, Live
<1>6. Heard("CMD58") \/ Heard("CMD9") => Live(bus.card)
    BY DEF Heard, Takes, Hears, Live
<1> HIDE DEF after, c
<1>7. bus'.card.mode \in {"idle", "tran", c.mode}
    BY <1>1, <1>2, <1>3
<1>8. bus'.card.mode = "tran" =>
          cmd \in {"ACMD41", "ACMD41HC", "CMD1", "CMD12"} \/ c.mode = "tran"
    BY <1>1, <1>2, <1>4
<1>9. Live(bus'.card) => Live(bus.card) \/ cmd \in {"ACMD41", "ACMD41HC", "CMD1"}
    BY <1>2, <1>5, <1>7, <1>8 DEF Live, c
<1>11. bus'.card.mode \in {"read", "write"} => bus'.card.mode = bus.card.mode
    BY <1>7 DEF c
<1> QED BY <1>2, <1>6, <1>9, <1>11 DEF c

LEMMA NeedsFacts ==
    ASSUME bus \in Bus, slot \in Slot, NEW cmd \in Commands, NEW next \in Installs,
           cmd \notin {"CMD17", "CMD18", "CMD24", "CMD25"}, Needs(cmd, next)
    PROVE  /\ slot' \in Slot /\ SameLife(slot', slot)
           /\ slot'.type = slot.type /\ slot'.capacity = slot.capacity
           /\ slot'.install \in {next, "failed"}
           /\ bus' \in Bus /\ bus'.card.kind = bus.card.kind
           /\ bus'.card.mode \in {"read", "write"} => bus'.card.mode = bus.card.mode
           /\ Live(bus'.card) => Live(bus.card) \/ cmd \in {"ACMD41", "ACMD41HC", "CMD1"}
           /\ slot'.install # "failed" => Heard(cmd)
<1>1. PICK ok \in BOOLEAN : /\ bus' \in SendCmd(cmd, ok)
                            /\ GoTo(IF ok THEN next ELSE "failed")
    BY DEF Needs
<1> DEFINE to == IF ok THEN next ELSE "failed"
<1>2. to \in Installs /\ to \in {next, "failed"}
    BY DEF Installs
<1>3. slot' = [slot EXCEPT !.install = to]
    BY <1>1 DEF GoTo
<1> HIDE DEF to
<1>4. /\ slot' \in Slot /\ SameLife(slot', slot) /\ slot'.install = to
      /\ slot'.type = slot.type /\ slot'.capacity = slot.capacity
    BY <1>2, <1>3, SlotInstall
<1>5. /\ bus' \in Bus /\ bus'.card.kind = bus.card.kind
      /\ bus'.card.mode \in {"read", "write"} => bus'.card.mode = bus.card.mode
      /\ Live(bus'.card) => Live(bus.card) \/ cmd \in {"ACMD41", "ACMD41HC", "CMD1"}
      /\ ok => Heard(cmd)
    BY <1>1, CommandFacts
<1> QED BY <1>2, <1>4, <1>5 DEF to

\* What every step of the identification leaves true.
InstallKept == /\ bus' \in Bus /\ slot' \in Slot /\ SameLife(slot', slot)
               /\ bus'.card.mode \in {"read", "write"} => bus'.card.mode = bus.card.mode
               /\ InstallOk(bus'.card, slot')

LEMMA InstallStepFacts ==
    ASSUME bus \in Bus, slot \in Slot, InstallOk(bus.card, slot), InstallStep
    PROVE  InstallKept
<1> USE DEF Identified, Measured
<1>1. CASE ResetCard
  <2> DEFINE next == IF InSd THEN "CMD8" ELSE "CMD1"
  <2>1. Needs("CMD0", next) /\ slot.install = "CMD0"
      BY <1>1 DEF ResetCard
  <2>2. next \in Installs /\ "CMD0" \in Commands /\ next \in {"CMD8", "CMD1"}
      BY DEF Installs, Commands, Hears
  <2> HIDE DEF next
  <2> QED BY <2>1, <2>2, NeedsFacts DEF InstallKept, InstallOk, InSd, next
<1>2. CASE AskInterface
  <2>1. PICK ok \in BOOLEAN :
          /\ bus' \in SendCmd("CMD8", ok)
          /\ slot' = [slot EXCEPT
                !.v2 = ok,
                !.install = IF ok /\ bus.card.kind = "alien" THEN "failed"
                                                             ELSE "ACMD41"]
      BY <1>2 DEF AskInterface
  <2> DEFINE to == IF ok /\ bus.card.kind = "alien" THEN "failed" ELSE "ACMD41"
  <2>2. to \in Installs /\ to \in {"failed", "ACMD41"} /\ "CMD8" \in Commands
      BY DEF Installs, Commands, Hears
  <2> HIDE DEF to
  <2>3. slot' = [slot EXCEPT !.v2 = ok, !.install = to]
      BY <2>1 DEF to
  <2>4. /\ slot' \in Slot /\ SameLife(slot', slot) /\ slot'.install = to
        /\ slot'.type = slot.type
      BY <2>2, <2>3, Zenon DEF Slot, SameLife
  <2>5. /\ bus' \in Bus
        /\ bus'.card.mode \in {"read", "write"} => bus'.card.mode = bus.card.mode
      BY <2>1, <2>2, CommandFacts
  <2>6. slot.install = "CMD8"
      BY <1>2 DEF AskInterface
  <2> QED BY <2>2, <2>4, <2>5, <2>6 DEF InstallKept, InstallOk
<1>3. CASE StartSd
  <2> DEFINE cmd == IF slot.v2 THEN "ACMD41HC" ELSE "ACMD41"
  <2>1. PICK ok \in BOOLEAN :
          /\ bus' \in SendCmd(cmd, ok)
          /\ slot' = IF ok THEN [slot EXCEPT !.install = "CMD58"] ELSE TryMmc
      BY <1>3 DEF StartSd
  <2>2. cmd \in Commands /\ cmd \in {"ACMD41HC", "ACMD41"}
      BY DEF Commands, Hears
  <2> HIDE DEF cmd
  <2>3. /\ bus' \in Bus
        /\ bus'.card.mode \in {"read", "write"} => bus'.card.mode = bus.card.mode
      BY <2>1, <2>2, CommandFacts
  <2>4. slot.install = "ACMD41" /\ "HC" \notin slot.type
      BY <1>3 DEF StartSd, InstallOk
  <2>5. CASE ~ok
    <3>1. slot' = TryMmc
        BY <2>1, <2>5
    <3> QED BY <2>3, <3>1, TryMmcFacts DEF InstallKept, InstallOk
  <2>6. CASE ok
    <3>1. slot' = [slot EXCEPT !.install = "CMD58"]
        BY <2>1, <2>6
    <3>2. "CMD58" \in Installs
        BY DEF Installs
    <3>3. /\ slot' \in Slot /\ SameLife(slot', slot) /\ slot'.install = "CMD58"
          /\ slot'.type = slot.type
        BY <3>1, <3>2, SlotInstall
    <3>4. "SD" \in slot.type
        BY <2>4 DEF InstallOk
    <3> QED BY <2>3, <2>4, <3>3, <3>4 DEF InstallKept, InstallOk
  <2> QED BY <2>5, <2>6
<1>4. CASE StartMmc
  <2>1. Needs("CMD1", "CMD58") /\ slot.install = "CMD1"
      BY <1>4 DEF StartMmc
  <2>2. "CMD58" \in Installs /\ "CMD1" \in Commands
      BY DEF Installs, Commands, Hears
  <2>3. Heard("CMD1") => bus.card.kind # "sdhc" /\ ~Live(bus.card)
      BY DEF Heard, Takes, Hears, KnownBy, Live
  <2>4. slot'.install # "failed" => Heard("CMD1")
      BY <2>1, <2>2, NeedsFacts
  <2> QED BY <2>1, <2>2, <2>3, <2>4, NeedsFacts DEF InstallKept, InstallOk
<1>5. CASE ReadOcr
  <2>1. PICK ok \in BOOLEAN :
          /\ bus' \in SendCmd("CMD58", ok)
          /\ slot' = IF ok
                     THEN [slot EXCEPT
                             !.type = @ \cup IF bus.card.kind = "sdhc" THEN {"HC"}
                                                                       ELSE {},
                             !.install = "CMD59"]
                     ELSE IF InSd THEN TryMmc
                     ELSE [slot EXCEPT !.install = "failed"]
      BY <1>5 DEF ReadOcr
  <2>2. "CMD58" \in Commands /\ slot.install = "CMD58"
      BY <1>5 DEF ReadOcr, Commands, Hears
  <2>3. /\ bus' \in Bus /\ bus'.card.kind = bus.card.kind
        /\ bus'.card.mode \in {"read", "write"} => bus'.card.mode = bus.card.mode
        /\ ok => Live(bus.card)
      BY <2>1, <2>2, CommandFacts
  <2>4. CASE ~ok /\ InSd
    <3>1. slot' = TryMmc
        BY <2>1, <2>4
    <3> QED BY <2>3, <3>1, TryMmcFacts DEF InstallKept, InstallOk
  <2>5. CASE ~ok /\ ~InSd
    <3>1. slot' = [slot EXCEPT !.install = "failed"]
        BY <2>1, <2>5
    <3>2. "failed" \in Installs
        BY DEF Installs
    <3>3. /\ slot' \in Slot /\ SameLife(slot', slot) /\ slot'.install = "failed"
        BY <3>1, <3>2, SlotInstall
    <3> QED BY <2>3, <3>3 DEF InstallKept, InstallOk
  <2>6. CASE ok
    <3> DEFINE type == slot.type \cup IF bus.card.kind = "sdhc" THEN {"HC"} ELSE {}
    <3>1. slot' = [slot EXCEPT !.type = type, !.install = "CMD59"]
        BY <2>1, <2>6
    <3>2. "CMD59" \in Installs /\ type \in SUBSET {"SD", "MMC", "HC"}
        BY SlotFields DEF Installs
    <3>3. "HC" \notin slot.type
        BY <2>2 DEF InstallOk
    <3>4. /\ "HC" \in type <=> bus.card.kind = "sdhc"
          /\ "SD" \in type <=> "SD" \in slot.type
        BY <3>3
    <3> HIDE DEF type
    <3>5. /\ slot' \in Slot /\ SameLife(slot', slot) /\ slot'.install = "CMD59"
          /\ slot'.type = type
        BY <3>1, <3>2, Zenon DEF Slot, SameLife
    <3>6. "SD" \notin slot.type => bus.card.kind # "sdhc"
        BY <2>2, <2>3, <2>6 DEF InstallOk
    <3> QED BY <2>3, <3>4, <3>5, <3>6 DEF InstallKept, InstallOk, RightUnit
  <2> QED BY <2>4, <2>5, <2>6
<1>6. CASE CrcOff
  <2>1. Needs("CMD59", "CMD9") /\ slot.install = "CMD59"
      BY <1>6 DEF CrcOff
  <2>2. "CMD9" \in Installs /\ "CMD59" \in Commands
      BY DEF Installs, Commands, Hears
  <2> QED BY <2>1, <2>2, NeedsFacts DEF InstallKept, InstallOk, RightUnit
<1>7. CASE ReadCsd
  <2>1. PICK ok \in BOOLEAN :
          /\ bus' \in SendCmd("CMD9", ok)
          /\ slot' = IF ok
                     THEN [slot EXCEPT
                             !.capacity = IF InSd \/ bus.card.kind # "sdhc"
                                          THEN bus.card.kind ELSE "garbled",
                             !.install = IF InSd THEN "ACMD51" ELSE "CMD16"]
                     ELSE [slot EXCEPT !.install = "failed"]
      BY <1>7 DEF ReadCsd
  <2>2. "CMD9" \in Commands /\ slot.install = "CMD9"
      BY <1>7 DEF ReadCsd, Commands, Hears
  <2>3. /\ bus' \in Bus /\ bus'.card.kind = bus.card.kind
        /\ bus'.card.mode \in {"read", "write"} => bus'.card.mode = bus.card.mode
        /\ ok => Live(bus.card)
      BY <2>1, <2>2, CommandFacts
  <2>4. CASE ~ok
    <3>1. slot' = [slot EXCEPT !.install = "failed"]
        BY <2>1, <2>4
    <3>2. "failed" \in Installs
        BY DEF Installs
    <3>3. /\ slot' \in Slot /\ SameLife(slot', slot) /\ slot'.install = "failed"
        BY <3>1, <3>2, SlotInstall
    <3> QED BY <2>3, <3>3 DEF InstallKept, InstallOk
  <2>5. CASE ok
    <3> DEFINE to == IF InSd THEN "ACMD51" ELSE "CMD16"
               size == bus.card.kind
    <3>1. /\ RightUnit(bus.card, slot)
          /\ "SD" \notin slot.type => bus.card.kind # "sdhc"
        BY <2>2, <2>3, <2>5 DEF InstallOk
    <3>2. slot' = [slot EXCEPT !.capacity = size, !.install = to]
        BY <2>1, <2>5, <3>1 DEF InSd
    <3>3. size \in Capacities /\ to \in Installs /\ to \in {"ACMD51", "CMD16"}
      <4>1. bus.card.kind \in AllKinds
          BY BusBasics, Zenon DEF Card
      <4> QED BY <4>1 DEF Capacities, Installs
    <3> HIDE DEF to, size
    <3>4. /\ slot' \in Slot /\ SameLife(slot', slot) /\ slot'.install = to
          /\ slot'.type = slot.type /\ slot'.capacity = size
        BY <3>2, <3>3, Zenon DEF Slot, SameLife
    <3> QED BY <2>3, <3>1, <3>3, <3>4 DEF InstallKept, InstallOk, RightUnit, size
  <2> QED BY <2>4, <2>5
<1>8. CASE ReadScr
  <2> DEFINE next == IF "HC" \in slot.type THEN "CMD13" ELSE "CMD16"
  <2>1. Needs("ACMD51", next) /\ slot.install = "ACMD51"
      BY <1>8 DEF ReadScr
  <2>2. next \in Installs /\ "ACMD51" \in Commands /\ next \in {"CMD13", "CMD16"}
      BY DEF Installs, Commands, Hears
  <2> HIDE DEF next
  <2> QED BY <2>1, <2>2, NeedsFacts DEF InstallKept, InstallOk, RightUnit
<1>9. CASE SetBlockLength
  <2>1. Needs("CMD16", "CMD13") /\ slot.install = "CMD16"
      BY <1>9 DEF SetBlockLength
  <2>2. "CMD16" \in Commands /\ "CMD13" \in Installs
      BY DEF Installs, Commands, Hears
  <2> QED BY <2>1, <2>2, NeedsFacts DEF InstallKept, InstallOk, RightUnit
<1>10. CASE CheckStatus
  <2>1. Needs("CMD13", "done") /\ slot.install = "CMD13"
      BY <1>10 DEF CheckStatus
  <2>2. "CMD13" \in Commands /\ "done" \in Installs
      BY DEF Installs, Commands, Hears
  <2> QED BY <2>1, <2>2, NeedsFacts DEF InstallKept, InstallOk, RightUnit
<1> QED BY <1>1, <1>2, <1>3, <1>4, <1>5, <1>6, <1>7, <1>8, <1>9, <1>10
        DEF InstallStep
=============================================================================
