-------------------------- MODULE UsbDeviceProofs --------------------------
EXTENDS UsbDevice, TLAPS

----------------------------------------------------------------------------
(* The sleep locks.  AnyPower is Power without the bound on the counts.    *)

AnyPower == [usb : UsbStates, locks : [Modes -> Int], flags : SUBSET DeviceFlags,
             enabled : SUBSET DeviceFlags, attached : BOOLEAN, led : BOOLEAN]

Held(usb, m) == (IF m = Standby THEN 1 ELSE 0) +
                (IF usb # "off" /\ m = SleepMode[usb] THEN 1 ELSE 0)

Balanced(p) == p \in AnyPower /\ \A m \in Modes : p.locks[m] = Held(p.usb, m)

LEMMA BalancedBasics ==
    ASSUME NEW p, Balanced(p)
    PROVE  p \in Power
<1>1. p \in AnyPower /\ p.locks \in [Modes -> Int]
    BY Zenon DEF Balanced, AnyPower
<1>2. \A m \in Modes : Held(p.usb, m) \in Counts
    BY SMT DEF Held, Counts
<1>3. p.locks \in [Modes -> Counts]
    BY <1>1, <1>2, Zenon DEF Balanced
<1> QED BY <1>1, <1>3, Zenon DEF AnyPower, Power

LEMMA SleepModeBalanced ==
    ASSUME NEW p, Balanced(p), NEW new \in UsbStates \ {"off"}
    PROVE  Balanced(UddSleepMode(p, new))
<1> DEFINE locked == [p.locks EXCEPT ![SleepMode[new]] = @ + 1]
           unlocked == [locked EXCEPT ![SleepMode[p.usb]] = @ - 1]
           locks == IF p.usb = "off" THEN locked ELSE unlocked
<1>1. /\ p \in AnyPower /\ p.locks \in [Modes -> Int] /\ p.usb \in UsbStates
      /\ \A m \in Modes : p.locks[m] = Held(p.usb, m)
    BY Zenon DEF Balanced, AnyPower
<1>2. \A s \in UsbStates : SleepMode[s] \in Modes
    BY SMT DEF UsbStates, SleepMode, Modes, Active
<1>3. locked \in [Modes -> Int]
    BY <1>1, <1>2, SMT
<1>4. unlocked \in [Modes -> Int]
    BY <1>1, <1>2, <1>3, SMT
<1>5. locks \in [Modes -> Int]
    BY <1>3, <1>4
<1>6. ASSUME p.usb # new, NEW m \in Modes
      PROVE  locks[m] = Held(new, m)
  <2>1. locked[m] = Held(p.usb, m) + (IF m = SleepMode[new] THEN 1 ELSE 0)
      BY <1>1, <1>2, SMT DEF Held
  <2>2. unlocked[m] = locked[m] - (IF m = SleepMode[p.usb] THEN 1 ELSE 0)
      BY <1>1, <1>2, <1>3, SMT
  <2> HIDE DEF locked, unlocked
  <2>3. CASE p.usb = "off"
      BY <2>1, <2>3, SMT DEF Held
  <2>4. CASE p.usb # "off"
      BY <2>1, <2>2, <2>4, <1>3, SMT DEF Held
  <2> QED BY <2>3, <2>4
<1>7. CASE p.usb = new
    BY <1>7 DEF UddSleepMode
<1>8. CASE p.usb # new
  <2> DEFINE q == [[p EXCEPT !.locks = locks] EXCEPT !.usb = new]
  <2> DEFINE p1 == [p EXCEPT !.locks = locked]
             p2 == [p1 EXCEPT !.locks = unlocked]
  <2>a. LockMode(p, SleepMode[new]) = p1
      BY Zenon DEF LockMode
  <2>b. p1 \in AnyPower /\ p1.locks = locked
      BY <1>1, <1>3, Zenon DEF AnyPower
  <2>c. UnlockMode(p1, SleepMode[p.usb]) = p2
      BY <2>b, Zenon DEF UnlockMode
  <2>d. p2 = [p EXCEPT !.locks = unlocked]
      BY <1>1, <1>3, <1>4, Zenon DEF AnyPower
  <2>1. UddSleepMode(p, new) = q
      BY <2>a, <2>c, <2>d, <1>8, Zenon DEF UddSleepMode
  <2> HIDE DEF locks
  <2>2. q \in AnyPower /\ q.locks = locks /\ q.usb = new
      BY <1>1, <1>5, Zenon DEF AnyPower
  <2>3. Balanced(q)
      BY <2>2, <1>6, <1>8, Zenon DEF Balanced
  <2> QED BY <2>1, <2>3
<1> QED BY <1>7, <1>8

LEMMA FieldsBalanced ==
    ASSUME NEW p, Balanced(p)
    PROVE  /\ \A fs \in SUBSET DeviceFlags : /\ Balanced([p EXCEPT !.flags = fs])
                                           /\ Balanced([p EXCEPT !.enabled = fs])
           /\ \A b \in BOOLEAN : /\ Balanced([p EXCEPT !.attached = b])
                                /\ Balanced([p EXCEPT !.led = b])
           /\ p.flags \in SUBSET DeviceFlags /\ p.enabled \in SUBSET DeviceFlags
           /\ p.led \in BOOLEAN
<1>1. p \in AnyPower /\ \A m \in Modes : p.locks[m] = Held(p.usb, m)
    BY Zenon DEF Balanced
<1>2. /\ p.flags \in SUBSET DeviceFlags /\ p.enabled \in SUBSET DeviceFlags
      /\ p.led \in BOOLEAN
    BY <1>1, Zenon DEF AnyPower
<1>3. ASSUME NEW fs \in SUBSET DeviceFlags
      PROVE  /\ Balanced([p EXCEPT !.flags = fs])
             /\ Balanced([p EXCEPT !.enabled = fs])
    BY <1>1, Zenon DEF Balanced, AnyPower
<1>4. ASSUME NEW b \in BOOLEAN
      PROVE  /\ Balanced([p EXCEPT !.attached = b])
             /\ Balanced([p EXCEPT !.led = b])
    BY <1>1, Zenon DEF Balanced, AnyPower
<1> QED BY <1>2, <1>3, <1>4

LEMMA CallbackBalanced ==
    ASSUME NEW p, Balanced(p), NEW c \in DeviceFlags
    PROVE  Balanced(EnableCallback(p, c)) /\ Balanced(DisableCallback(p, c))
<1> DEFINE q == [p EXCEPT !.flags = @ \ {c}]
<1>1. p.flags \ {c} \in SUBSET DeviceFlags
    BY FieldsBalanced
<1>2. Balanced(q) /\ q.enabled = p.enabled
    BY <1>1, FieldsBalanced, Zenon DEF Balanced, AnyPower
<1>3. EnableCallback(p, c) = [q EXCEPT !.enabled = p.enabled \cup {c}]
    BY Zenon DEF EnableCallback
<1>4. /\ p.enabled \cup {c} \in SUBSET DeviceFlags
      /\ p.enabled \ {c} \in SUBSET DeviceFlags
    BY FieldsBalanced
<1>5. Balanced(EnableCallback(p, c))
    <2> DEFINE fs == p.enabled \cup {c}
    <2> HIDE DEF q, fs
    <2>1. Balanced([q EXCEPT !.enabled = fs])
        BY <1>2, <1>4, FieldsBalanced DEF fs
    <2> QED BY <2>1, <1>3 DEF fs
<1>6. Balanced(DisableCallback(p, c))
    BY <1>4, FieldsBalanced DEF DisableCallback
<1> QED BY <1>5, <1>6

LEMMA UiBalanced ==
    ASSUME NEW p, Balanced(p)
    PROVE  /\ Balanced(UiPowerdown(p)) /\ Balanced(UiWakeup(p))
           /\ \A msc \in BOOLEAN, frame \in Frames : Balanced(OnSof(p, msc, frame))
<1>5. ASSUME NEW msc \in BOOLEAN, NEW frame \in Frames
      PROVE  Balanced(OnSof(p, msc, frame))
  <2> DEFINE led == CASE frame = 0    -> TRUE
                      [] frame = 1000 -> FALSE
                      [] OTHER        -> p.led
  <2>1. led \in BOOLEAN
    <3>1. CASE frame = 0
        BY <3>1
    <3>2. CASE frame = 1000
        BY <3>2
    <3>3. CASE frame # 0 /\ frame # 1000
        BY <3>3, FieldsBalanced, Zenon
    <3> QED BY <3>1, <3>2, <3>3
  <2>2. UiProcess(p, frame) = [p EXCEPT !.led = led]
      BY DEF UiProcess
  <2> HIDE DEF led
  <2> QED BY <2>1, <2>2, FieldsBalanced DEF OnSof
<1>6. Balanced(UiPowerdown(p)) /\ Balanced(UiWakeup(p))
    BY FieldsBalanced DEF UiPowerdown, UiWakeup
<1> QED BY <1>5, <1>6

\* Every callback of the bus keeps the locks balanced.
LEMMA HandlersBalanced ==
    ASSUME NEW p, Balanced(p)
    PROVE  /\ Balanced(OnSuspend(p)) /\ Balanced(OnLpmSuspend(p))
           /\ Balanced(OnWakeup(p)) /\ Balanced(UddDetach(p))
           /\ Balanced(UddAttach(p))
<1> USE DEF UsbStates, DeviceFlags
<1> DEFINE awake == EnableCallback(DisableCallback(p, "wakeup"), "suspend")
           awake2 == EnableCallback(awake, "lpmsusp")
           deaf == DisableCallback(DisableCallback(p, "lpmsusp"), "suspend")
           deaf1 == EnableCallback(DisableCallback(p, "suspend"), "wakeup")
           deaf2 == EnableCallback(deaf, "wakeup")
           off  == [p EXCEPT !.attached = FALSE]
<1>1. Balanced(awake) /\ Balanced(deaf) /\ Balanced(deaf1)
    BY CallbackBalanced
<1>2. Balanced(awake2) /\ Balanced(deaf2)
    <2> HIDE DEF awake, deaf
    <2> QED BY <1>1, CallbackBalanced
<1>3. Balanced(off)
    BY FieldsBalanced
<1>4. Balanced(OnSuspend(p))
    <2> HIDE DEF deaf1
    <2>1. Balanced(UddSleepMode(deaf1, "suspend"))
        BY <1>1, SleepModeBalanced
    <2> QED BY <2>1, UiBalanced DEF OnSuspend, deaf1
<1>5. Balanced(OnLpmSuspend(p))
    <2> HIDE DEF deaf2
    <2>1. Balanced(UddSleepMode(deaf2, "lpm"))
        BY <1>2, SleepModeBalanced
    <2> QED BY <2>1 DEF OnLpmSuspend, deaf2
<1>6. Balanced(OnWakeup(p))
    <2> HIDE DEF awake2
    <2>1. Balanced(UddSleepMode(awake2, "idle"))
        BY <1>2, SleepModeBalanced
    <2> QED BY <2>1, UiBalanced DEF OnWakeup, awake2
<1>7. Balanced(UddDetach(p))
    BY <1>3, SleepModeBalanced DEF UddDetach
<1>8. Balanced(UddAttach(p))
    <2> DEFINE q  == UddSleepMode(p, "idle")
               q1 == [q EXCEPT !.attached = TRUE]
               q2 == [q1 EXCEPT !.flags = {}]
    <2>1. Balanced(q)
        BY SleepModeBalanced
    <2> HIDE DEF q
    <2>2. Balanced(q1) /\ q1.flags = q.flags /\ q1.enabled = q.enabled
        <3>1. Balanced(q1)
            BY <2>1, FieldsBalanced
        <3> QED BY <2>1, <3>1, Zenon DEF Balanced, AnyPower
    <2>3. Balanced(q2) /\ q2.enabled = q.enabled
        <3>1. Balanced(q2)
            <4> HIDE DEF q1
            <4> QED BY <2>2, FieldsBalanced
        <3> QED BY <2>2, <3>1, Zenon DEF Balanced, AnyPower
    <2>4. q.flags \ DeviceFlags = {} /\ q.enabled \cup DeviceFlags = DeviceFlags
        BY <2>1, FieldsBalanced
    <2>5. UddAttach(p) = [q2 EXCEPT !.enabled = DeviceFlags]
        BY <2>3, <2>4, Zenon DEF UddAttach, q
    <2> DEFINE all == DeviceFlags
    <2> HIDE DEF q1, q2, all
    <2>6. all \in SUBSET DeviceFlags
        BY DEF all
    <2>7. Balanced([q2 EXCEPT !.enabled = all])
        BY <2>3, <2>6, FieldsBalanced
    <2> QED BY <2>5, <2>7 DEF all
<1> QED BY <1>4, <1>5, <1>6, <1>7, <1>8

LEMMA VbusBalanced ==
    ASSUME NEW p, Balanced(p), NEW high \in BOOLEAN
    PROVE  Balanced(VbusHandler(p, high))
BY HandlersBalanced DEF VbusHandler

LEMMA FlagsBalanced ==
    ASSUME Balanced(power), ctl.msc \in BOOLEAN, NEW frame \in Frames
    PROVE  Balanced(AfterFlags(frame))
<1> DEFINE run     == power.flags \cap power.enabled
           cleared == [power EXCEPT !.flags = {}]
           sof     == IF "sof" \in run THEN OnSof(cleared, ctl.msc, frame) ELSE cleared
           wakeup  == IF "wakeup" \in run THEN OnWakeup(sof) ELSE sof
           suspend == IF "suspend" \in run THEN OnSuspend(wakeup) ELSE wakeup
<1> HIDE DEF run
<1>1. Balanced(cleared)
    BY FieldsBalanced
<1> HIDE DEF cleared
<1>2. Balanced(sof)
    BY <1>1, UiBalanced
<1> HIDE DEF sof
<1>3. Balanced(wakeup)
    BY <1>2, HandlersBalanced
<1> HIDE DEF wakeup
<1>4. Balanced(suspend)
    BY <1>3, HandlersBalanced
<1> HIDE DEF suspend
<1>5. AfterFlags(frame) =
          IF "lpmsusp" \in run THEN OnLpmSuspend(suspend) ELSE suspend
    BY DEF AfterFlags, run, cleared, sof, wakeup, suspend
<1> QED BY <1>4, <1>5, HandlersBalanced

LEMMA StartBalanced == Balanced(AtStart)
<1> DEFINE p == [usb |-> "off", locks |-> InitialLocks, flags |-> {},
                 enabled |-> {}, attached |-> FALSE, led |-> FALSE]
<1>1. InitialLocks \in [Modes -> Int]
    BY SMT DEF InitialLocks
<1>2. \A m \in Modes : InitialLocks[m] = Held("off", m)
    BY SMT DEF InitialLocks, Held
<1> HIDE DEF InitialLocks
<1>3. p \in AnyPower
    BY <1>1, Zenon DEF AnyPower, UsbStates, DeviceFlags
<1>4. Balanced(p)
    BY <1>2, <1>3, Zenon DEF Balanced
<1> HIDE DEF p
<1>5. Balanced(UddSleepMode(p, "suspend"))
    BY <1>4, SleepModeBalanced DEF UsbStates
<1> QED BY <1>5 DEF AtStart, p

----------------------------------------------------------------------------
(* The control endpoint keeps its type.                                    *)

LEMMA JobsType ==
    ASSUME NEW c \in Ctl
    PROVE  /\ ReadBufferJob(c) \in Ctl
           /\ \A what \in Banks : WriteBufferJob(c, what) \in Ctl
           /\ \A dir \in {"in", "out"} : SetHalt(c, dir) \in Ctl
           /\ StallData(c) \in Ctl
           /\ \A s \in CtlStates : [c EXCEPT !.state = s] \in Ctl
<1>1. ReadBufferJob(c) \in Ctl
    BY Zenon DEF ReadBufferJob, Ctl
<1>2. ASSUME NEW what \in Banks PROVE WriteBufferJob(c, what) \in Ctl
    BY Zenon DEF WriteBufferJob, Ctl
<1>3. ASSUME NEW dir \in {"in", "out"} PROVE SetHalt(c, dir) \in Ctl
    <2>1. c.stall \cup {dir} \in SUBSET {"in", "out"}
        BY Zenon DEF Ctl
    <2> QED BY <2>1, Zenon DEF SetHalt, Ctl
<1>4. StallData(c) \in Ctl
    <2>1. "stall_req" \in CtlStates /\ {"in"} \in SUBSET {"in", "out"}
        BY DEF CtlStates
    <2> QED BY <2>1, Zenon DEF StallData, Ctl
<1>5. ASSUME NEW s \in CtlStates PROVE [c EXCEPT !.state = s] \in Ctl
    BY Zenon DEF Ctl
<1> QED BY <1>1, <1>2, <1>3, <1>4, <1>5

LEMMA AnswerType ==
    ASSUME NEW c \in Ctl
    PROVE  /\ SendZlpIn(c) \in Ctl
           /\ c.packet \in InRequests => InSent(c) \in Ctl
<1>1. /\ "zlp" \in Banks /\ InRequests \subseteq Banks
      /\ "wait_in" \in CtlStates /\ "wait_out" \in CtlStates
    BY DEF Banks, CtlStates
<1>2. ReadBufferJob(c) \in Ctl
    BY JobsType
<1>3. SendZlpIn(c) \in Ctl
    <2> DEFINE d == WriteBufferJob(ReadBufferJob(c), "zlp")
    <2>1. d \in Ctl
        BY <1>1, <1>2, JobsType
    <2> HIDE DEF d
    <2>2. [d EXCEPT !.state = "wait_in"] \in Ctl
        BY <1>1, <2>1, JobsType
    <2> QED BY <2>2 DEF SendZlpIn, d
<1>4. ASSUME c.packet \in InRequests PROVE InSent(c) \in Ctl
    <2> DEFINE d == ReadBufferJob(c)
               e == WriteBufferJob(c, c.packet)
    <2>1. e \in Ctl
        BY <1>1, <1>4, JobsType
    <2> HIDE DEF d, e
    <2>2. [e EXCEPT !.sent = TRUE] \in Ctl
        BY <2>1, Zenon DEF Ctl
    <2>3. [d EXCEPT !.state = "wait_out"] \in Ctl
        BY <1>1, <1>2, JobsType DEF d
    <2> QED BY <2>2, <2>3 DEF InSent, d, e
<1> QED BY <1>3, <1>4

LEMMA RequestType ==
    ASSUME NEW c \in Ctl
    PROVE  /\ IfaceDisable(c) \in Ctl /\ BulkReset(c) \in Ctl
           /\ IfaceEnable(c) \in Ctl /\ UdcReset(c) \in Ctl
           /\ SetAddress(c) \in Ctl /\ RunCallback(c) \in Ctl
           /\ \A b \in BOOLEAN : [c EXCEPT !.conf = b] \in Ctl
<1>1. c.flags \ {"bulk"} \in SUBSET EpFlags
    BY Zenon DEF Ctl
<1>2. IfaceDisable(c) \in Ctl
    BY <1>1, Zenon DEF IfaceDisable, Ctl
<1>3. BulkReset(c) \in Ctl
    BY <1>1, Zenon DEF BulkReset, Ctl
<1>4. IfaceEnable(c) \in Ctl
    BY Zenon DEF IfaceEnable, Ctl
<1>5. SetAddress(c) \in Ctl
    BY Zenon DEF SetAddress, Ctl
<1>6. RunCallback(c) \in Ctl
    <2>1. 1 \in Addresses
        BY DEF Addresses
    <2> QED BY <2>1, Zenon DEF RunCallback, Ctl
<1>7. UdcReset(c) \in Ctl
    <2> DEFINE d == IF c.conf THEN IfaceDisable(c) ELSE c
    <2>1. d \in Ctl
        BY <1>2
    <2> HIDE DEF d
    <2>2. [d EXCEPT !.conf = FALSE] \in Ctl
        BY <2>1, Zenon DEF Ctl
    <2> QED BY <2>2 DEF UdcReset, d
<1>8. ASSUME NEW b \in BOOLEAN PROVE [c EXCEPT !.conf = b] \in Ctl
    BY Zenon DEF Ctl
<1> QED BY <1>2, <1>3, <1>4, <1>5, <1>6, <1>7, <1>8

\* No request changes the packet itself.
LEMMA EffectType ==
    ASSUME NEW c \in Ctl, NEW r \in AllRequests
    PROVE  Effect(c, r) \in Ctl /\ Effect(c, r).packet = c.packet
<1>1. UdcReset(c) \in Ctl /\ IfaceDisable(c) \in Ctl
    BY RequestType
<1>2. IfaceEnable(UdcReset(c)) \in Ctl /\ IfaceEnable(IfaceDisable(c)) \in Ctl
    BY <1>1, RequestType
<1>3. [IfaceEnable(UdcReset(c)) EXCEPT !.conf = TRUE] \in Ctl
    BY <1>2, RequestType
<1>4. Effect(c, r) \in Ctl
    BY <1>1, <1>2, <1>3, RequestType, Zenon DEF Effect, SetConfiguration
<1>5. UdcReset(c).packet = c.packet /\ IfaceDisable(c).packet = c.packet
    BY Zenon DEF UdcReset, IfaceDisable, Ctl
<1>6. \A d \in Ctl : /\ IfaceEnable(d).packet = d.packet
                     /\ [d EXCEPT !.conf = TRUE].packet = d.packet
    BY Zenon DEF IfaceEnable, Ctl
<1>7. /\ SetAddress(c).packet = c.packet /\ BulkReset(c).packet = c.packet
    BY Zenon DEF SetAddress, BulkReset, Ctl
<1>8. Effect(c, r).packet = c.packet
    BY <1>1, <1>2, <1>5, <1>6, <1>7, Zenon DEF Effect, SetConfiguration
<1> QED BY <1>4, <1>8

LEMMA SetupType ==
    ASSUME NEW c \in Ctl
    PROVE  OnSetup(c) \in Ctl
<1> DEFINE ended == IF c.state = "setup" THEN c ELSE RunCallback(c)
           fresh == [ended EXCEPT !.state = "setup", !.callback = FALSE]
           done  == Effect(fresh, c.packet)
           reads == [ReadBufferJob(done) EXCEPT !.state = "data_in", !.sent = FALSE]
<1>1. "setup" \in CtlStates /\ "data_in" \in CtlStates /\ c.packet \in AllRequests
    BY Zenon DEF CtlStates, Ctl
<1>2. ended \in Ctl /\ ended.packet = c.packet
    BY RequestType, Zenon DEF RunCallback, Ctl
<1> HIDE DEF ended
<1>3. fresh \in Ctl /\ fresh.packet = c.packet
    BY <1>1, <1>2, Zenon DEF Ctl
<1> HIDE DEF fresh
<1>4. done \in Ctl /\ done.packet = c.packet
    BY <1>1, <1>3, EffectType
<1> HIDE DEF done
<1>5. reads \in Ctl /\ reads.packet = c.packet
    <2>1. ReadBufferJob(done) \in Ctl /\ ReadBufferJob(done).packet = c.packet
        BY <1>4, JobsType, Zenon DEF ReadBufferJob, Ctl
    <2> QED BY <1>1, <2>1, Zenon DEF Ctl
<1> HIDE DEF reads
<1>6. /\ StallData(done) \in Ctl /\ SendZlpIn(done) \in Ctl
      /\ c.packet \in InRequests => InSent(reads) \in Ctl
    BY <1>4, <1>5, JobsType, AnswerType
<1>7. OnSetup(c) = IF ~Accepts(fresh, c.packet) THEN StallData(done)
                   ELSE IF c.packet \in InRequests THEN InSent(reads)
                        ELSE SendZlpIn(done)
    BY DEF OnSetup, ended, fresh, done, reads
<1> QED BY <1>6, <1>7

LEMMA BusResetType ==
    ASSUME NEW c \in Ctl
    PROVE  OnBusReset(c) \in Ctl
<1> DEFINE d == [UdcReset(c) EXCEPT !.addr = 0]
           e == ReadBufferJob(d)
<1>1. UdcReset(c) \in Ctl /\ 0 \in Addresses /\ "setup" \in CtlStates
    BY RequestType DEF Addresses, CtlStates
<1>2. d \in Ctl
    BY <1>1, Zenon DEF Ctl
<1> HIDE DEF d
<1>3. e \in Ctl
    BY <1>2, JobsType
<1> HIDE DEF e
<1>4. [e EXCEPT !.irq = TRUE, !.state = "setup"] \in Ctl
    BY <1>1, <1>3, Zenon DEF Ctl
<1> QED BY <1>4 DEF OnBusReset, CtrlEpEnable, d, e

\* While the data of a request are sent, all of them are in the bank: the answer
\* is never loaded a second time.
CtlInv(c) == c \in Ctl /\ (c.state = "data_in" => c.sent)

LEMMA SentBasics ==
    ASSUME NEW c \in Ctl
    PROVE  /\ CtlInv(StallData(c)) /\ CtlInv(SendZlpIn(c))
           /\ c.packet \in InRequests => CtlInv(InSent(c))
<1>1. /\ StallData(c) \in Ctl /\ SendZlpIn(c) \in Ctl
      /\ c.packet \in InRequests => InSent(c) \in Ctl
    BY JobsType, AnswerType
<1>2. StallData(c).state = "stall_req"
    BY Zenon DEF StallData, Ctl
<1>3. SendZlpIn(c).state = "wait_in"
    <2>1. WriteBufferJob(ReadBufferJob(c), "zlp") \in Ctl
        BY JobsType DEF Banks
    <2> QED BY <2>1, Zenon DEF SendZlpIn, Ctl
<1>4. c.sent => InSent(c).state = "wait_out"
    <2>1. ReadBufferJob(c) \in Ctl
        BY JobsType
    <2> QED BY <2>1, Zenon DEF InSent, Ctl
<1>5. ASSUME c.packet \in InRequests, ~c.sent PROVE InSent(c).sent
    <2>1. WriteBufferJob(c, c.packet) \in Ctl
        BY <1>5, JobsType DEF Banks
    <2>2. [WriteBufferJob(c, c.packet) EXCEPT !.sent = TRUE].sent
        BY <2>1, Zenon DEF Ctl
    <2> QED BY <1>5, <2>2 DEF InSent
<1> QED BY <1>1, <1>2, <1>3, <1>4, <1>5 DEF CtlInv

LEMMA SetupSent ==
    ASSUME NEW c \in Ctl
    PROVE  CtlInv(OnSetup(c))
<1> DEFINE ended == IF c.state = "setup" THEN c ELSE RunCallback(c)
           fresh == [ended EXCEPT !.state = "setup", !.callback = FALSE]
           done  == Effect(fresh, c.packet)
           reads == [ReadBufferJob(done) EXCEPT !.state = "data_in", !.sent = FALSE]
<1>1. "setup" \in CtlStates /\ "data_in" \in CtlStates /\ c.packet \in AllRequests
    BY Zenon DEF CtlStates, Ctl
<1>2. ended \in Ctl /\ ended.packet = c.packet
    BY RequestType, Zenon DEF RunCallback, Ctl
<1> HIDE DEF ended
<1>3. fresh \in Ctl /\ fresh.packet = c.packet
    BY <1>1, <1>2, Zenon DEF Ctl
<1> HIDE DEF fresh
<1>4. done \in Ctl /\ done.packet = c.packet
    BY <1>1, <1>3, EffectType
<1> HIDE DEF done
<1>5. reads \in Ctl /\ reads.packet = c.packet
    <2>1. ReadBufferJob(done) \in Ctl /\ ReadBufferJob(done).packet = c.packet
        BY <1>4, JobsType, Zenon DEF ReadBufferJob, Ctl
    <2> QED BY <1>1, <2>1, Zenon DEF Ctl
<1> HIDE DEF reads
<1>6. /\ CtlInv(StallData(done)) /\ CtlInv(SendZlpIn(done))
      /\ c.packet \in InRequests => CtlInv(InSent(reads))
    BY <1>4, <1>5, SentBasics
<1>7. OnSetup(c) = IF ~Accepts(fresh, c.packet) THEN StallData(done)
                   ELSE IF c.packet \in InRequests THEN InSent(reads)
                        ELSE SendZlpIn(done)
    BY DEF OnSetup, ended, fresh, done, reads
<1> QED BY <1>6, <1>7

LEMMA TransferSent ==
    ASSUME NEW c, CtlInv(c)
    PROVE  CtlInv(TransferOk(c)) /\ CtlInv(Underflow(c)) /\ CtlInv(Overflow(c))
<1>1. c \in Ctl /\ (c.state = "data_in" => c.sent)
    BY DEF CtlInv
<1>2. CtlInv(TransferOk(c))
  <2>1. CASE c.state = "data_in"
    <3>1. InSent(c) = [ReadBufferJob(c) EXCEPT !.state = "wait_out"]
        BY <1>1, <2>1 DEF InSent
    <3> DEFINE d == ReadBufferJob(c)
    <3>2. d \in Ctl
        BY <1>1, JobsType
    <3> HIDE DEF d
    <3>3. [d EXCEPT !.state = "wait_out"] \in Ctl
        BY <3>2, JobsType DEF CtlStates
    <3>4. [d EXCEPT !.state = "wait_out"].state = "wait_out"
        BY <3>2, Zenon DEF Ctl
    <3> QED BY <2>1, <3>1, <3>3, <3>4 DEF TransferOk, CtlInv, d
  <2>2. CASE c.state # "data_in"
    <3> DEFINE d == RunCallback(c)
    <3>1. d \in Ctl
        BY <1>1, RequestType
    <3> HIDE DEF d
    <3>2. [d EXCEPT !.state = "setup"] \in Ctl
        BY <3>1, JobsType DEF CtlStates
    <3>3. [d EXCEPT !.state = "setup"].state = "setup"
        BY <3>1, Zenon DEF Ctl
    <3> QED BY <2>2, <3>2, <3>3 DEF TransferOk, CtlInv, d
  <2> QED BY <2>1, <2>2
<1>3. \A dir \in {"in", "out"} : CtlInv(SetHalt(c, dir))
    <2>1. \A dir \in {"in", "out"} : SetHalt(c, dir) \in Ctl
        BY <1>1, JobsType
    <2>2. \A dir \in {"in", "out"} : /\ SetHalt(c, dir).state = c.state
                                     /\ SetHalt(c, dir).sent = c.sent
        BY <1>1, Zenon DEF SetHalt, Ctl
    <2> QED BY <1>1, <2>1, <2>2 DEF CtlInv
<1>4. CtlInv([c EXCEPT !.state = "wait_out"])
    <2>1. [c EXCEPT !.state = "wait_out"] \in Ctl
        BY <1>1, JobsType DEF CtlStates
    <2>2. [c EXCEPT !.state = "wait_out"].state = "wait_out"
        BY <1>1, Zenon DEF Ctl
    <2> QED BY <2>1, <2>2 DEF CtlInv
<1>5. CtlInv(Underflow(c))
    BY <1>3 DEF Underflow
<1>6. CtlInv(Overflow(c))
    BY <1>3, <1>4 DEF Overflow
<1> QED BY <1>2, <1>5, <1>6

LEMMA BusResetSent ==
    ASSUME NEW c \in Ctl
    PROVE  CtlInv(OnBusReset(c))
<1> DEFINE d == [UdcReset(c) EXCEPT !.addr = 0]
           e == ReadBufferJob(d)
<1>1. UdcReset(c) \in Ctl /\ 0 \in Addresses /\ "setup" \in CtlStates
    BY RequestType DEF Addresses, CtlStates
<1>2. d \in Ctl
    BY <1>1, Zenon DEF Ctl
<1> HIDE DEF d
<1>3. e \in Ctl
    BY <1>2, JobsType
<1> HIDE DEF e
<1>4. [e EXCEPT !.irq = TRUE, !.state = "setup"] \in Ctl
    BY <1>1, <1>3, Zenon DEF Ctl
<1>5. [e EXCEPT !.irq = TRUE, !.state = "setup"].state = "setup"
    BY <1>3, Zenon DEF Ctl
<1> QED BY <1>4, <1>5 DEF CtlInv, OnBusReset, CtrlEpEnable, d, e

LEMMA FieldsSent ==
    ASSUME NEW c, CtlInv(c)
    PROVE  /\ \A fs \in SUBSET EpFlags : CtlInv([c EXCEPT !.flags = fs])
           /\ \A b \in BOOLEAN : /\ CtlInv([c EXCEPT !.transReq = b])
                                /\ CtlInv([c EXCEPT !.out = b])
           /\ CtlInv([c EXCEPT !.in = "none"])
           /\ \A r \in AllRequests : CtlInv([c EXCEPT !.packet = r])
           /\ CtlInv([c EXCEPT !.stall = {}])
           /\ c.flags \in SUBSET EpFlags /\ c.in \in Banks /\ c.msc \in BOOLEAN
<1>1. c \in Ctl /\ (c.state = "data_in" => c.sent)
    BY DEF CtlInv
<1>2. "none" \in Banks /\ {} \in SUBSET {"in", "out"}
    BY DEF Banks
<1>3. /\ c.flags \in SUBSET EpFlags /\ c.in \in Banks /\ c.msc \in BOOLEAN
    BY <1>1, Zenon DEF Ctl
<1>4. ASSUME NEW fs \in SUBSET EpFlags PROVE CtlInv([c EXCEPT !.flags = fs])
    BY <1>1, Zenon DEF Ctl, CtlInv
<1>5. ASSUME NEW b \in BOOLEAN
      PROVE  CtlInv([c EXCEPT !.transReq = b]) /\ CtlInv([c EXCEPT !.out = b])
    BY <1>1, Zenon DEF Ctl, CtlInv
<1>6. CtlInv([c EXCEPT !.in = "none"]) /\ CtlInv([c EXCEPT !.stall = {}])
    BY <1>1, <1>2, Zenon DEF Ctl, CtlInv
<1>7. ASSUME NEW r \in AllRequests PROVE CtlInv([c EXCEPT !.packet = r])
    BY <1>1, Zenon DEF Ctl, CtlInv
<1> QED BY <1>3, <1>4, <1>5, <1>6, <1>7

LEMMA ServedIsSet ==
    ASSUME NEW c \in Ctl, c.flags # {}
    PROVE  Served(c) \in c.flags
<1> DEFINE rank(f) == ServedBefore[f]
<1>1. /\ rank("rxstp") = 1 /\ rank("trcpt1") = 2 /\ rank("trcpt0") = 3
      /\ rank("trfail1") = 4 /\ rank("trfail0") = 5 /\ rank("bulk") = 6
    BY DEF ServedBefore
<1> HIDE DEF rank
<1>2. c.flags \subseteq EpFlags
    BY Zenon DEF Ctl
<1>3. \A f \in EpFlags : \/ f = "rxstp"   \/ f = "trcpt1"  \/ f = "trcpt0"
                         \/ f = "trfail1" \/ f = "trfail0" \/ f = "bulk"
    BY DEF EpFlags
<1>4. \E f \in c.flags : \A g \in c.flags : rank(f) <= rank(g)
    <2>1. CASE "rxstp" \in c.flags
        BY <1>1, <1>2, <1>3, <2>1, SMT
    <2>2. CASE "rxstp" \notin c.flags /\ "trcpt1" \in c.flags
        BY <1>1, <1>2, <1>3, <2>2, SMT
    <2>3. CASE /\ "rxstp" \notin c.flags /\ "trcpt1" \notin c.flags
               /\ "trcpt0" \in c.flags
        BY <1>1, <1>2, <1>3, <2>3, SMT
    <2>4. CASE /\ "rxstp" \notin c.flags /\ "trcpt1" \notin c.flags
               /\ "trcpt0" \notin c.flags /\ "trfail1" \in c.flags
        BY <1>1, <1>2, <1>3, <2>4, SMT
    <2>5. CASE /\ "rxstp" \notin c.flags /\ "trcpt1" \notin c.flags
               /\ "trcpt0" \notin c.flags /\ "trfail1" \notin c.flags
               /\ "trfail0" \in c.flags
        BY <1>1, <1>2, <1>3, <2>5, SMT
    <2>6. CASE c.flags = {"bulk"}
        BY <1>1, <2>6, SMT
    <2> QED BY <1>2, <1>3, <2>1, <2>2, <2>3, <2>4, <2>5, <2>6, Zenon
<1> QED BY <1>4, Zenon DEF Served, rank

LEMMA ServeSent ==
    ASSUME NEW c, CtlInv(c), EpPending(c)
    PROVE  CtlInv(ServeEndpoint(c))
<1> DEFINE f == Served(c)
           d == [c EXCEPT !.flags = @ \ {f}]
<1>1. f \in EpFlags
    BY ServedIsSet, Zenon DEF CtlInv, EpPending, Ctl
<1>2. CtlInv(d) /\ d \in Ctl
    <2>1. c.flags \ {f} \in SUBSET EpFlags
        BY FieldsSent
    <2> HIDE DEF f
    <2>2. CtlInv(d)
        BY <2>1, FieldsSent
    <2> QED BY <2>2 DEF CtlInv
<1>3. f = "rxstp" \/ f \in {"trcpt1", "trcpt0"} \/ f = "trfail1" \/ f = "trfail0"
      \/ f = "bulk"
    BY <1>1 DEF EpFlags
<1>4. ServeEndpoint(c) =
          CASE f = "rxstp"              -> OnSetup(d)
            [] f \in {"trcpt1", "trcpt0"} -> TransferOk(d)
            [] f = "trfail1"            -> Underflow(d)
            [] f = "trfail0"            -> Overflow(d)
            [] f = "bulk"               -> [d EXCEPT !.transReq = TRUE]
    BY DEF ServeEndpoint
<1> HIDE DEF f, d
<1>5. CtlInv([d EXCEPT !.transReq = TRUE])
    <2>1. \A b \in BOOLEAN : CtlInv([d EXCEPT !.transReq = b])
        BY <1>2, FieldsSent
    <2> QED BY <2>1, Zenon
<1> QED BY <1>2, <1>3, <1>4, <1>5, SetupSent, TransferSent

----------------------------------------------------------------------------
(* The inductive invariant.                                                *)

Inv == /\ bus \in BusStates
       /\ eic \in BOOLEAN
       /\ Balanced(power)
       /\ CtlInv(ctl)
       /\ cpu \in Cpu
       /\ host \in Host

LEMMA DeepestIsMode == ASSUME Balanced(power) PROVE Deepest(power.locks) \in Modes
<1>1. /\ power.locks[Standby] # 0 /\ Standby \in Modes
    <2>1. power.locks[Standby] = Held(power.usb, Standby)
        BY SMT DEF Balanced, Standby, Modes
    <2> QED BY <2>1, SMT DEF Held, Standby, Modes
<1> DEFINE locks == power.locks
           P(m)  == locks[m] # 0 /\ \A k \in Modes : k < m => locks[k] = 0
<1> HIDE DEF locks
<1>2. \E m \in Modes : P(m)
    <2>1. CASE locks[0] # 0
        BY <2>1, SMT DEF Modes
    <2>2. CASE locks[0] = 0 /\ locks[1] # 0
        BY <2>2, SMT DEF Modes
    <2>3. CASE locks[0] = 0 /\ locks[1] = 0 /\ locks[2] # 0
        BY <2>3, SMT DEF Modes
    <2>4. CASE locks[0] = 0 /\ locks[1] = 0 /\ locks[2] = 0 /\ locks[3] # 0
        BY <2>4, SMT DEF Modes
    <2>5. CASE locks[0] = 0 /\ locks[1] = 0 /\ locks[2] = 0 /\ locks[3] = 0
        BY <1>1, <2>5, SMT DEF Modes, Standby, locks
    <2> QED BY <2>1, <2>2, <2>3, <2>4, <2>5
<1> QED BY <1>2, Zenon DEF Deepest, locks

LEMMA InitInv == Init => Inv
<1> SUFFICES ASSUME Init PROVE Inv
    OBVIOUS
<1>1. Balanced(power)
    BY StartBalanced, VbusBalanced DEF Init
<1>2. CtlInv(ctl)
    <2>1. NewCtl \in Ctl /\ NewCtl.state = "setup"
        BY Zenon DEF NewCtl, Ctl, CtlStates, AllRequests, InRequests, Addresses,
                     Banks
    <2> QED BY <2>1, Zenon DEF Init, CtlInv
<1>3. cpu \in Cpu
    BY SMT DEF Init, Awake, Cpu, Points, Modes, Active
<1>4. host \in Host
    BY Zenon DEF Init, NewHost, Host, Addresses, AllRequests, InRequests, Banks
<1> QED BY <1>1, <1>2, <1>3, <1>4 DEF Inv, Init, BusStates

LEMMA HostType ==
    ASSUME NEW h \in Host
    PROVE  /\ NewHost \in Host /\ [NewHost EXCEPT !.reset = TRUE] \in Host
           /\ \A a \in Banks \cup {"stall"} : Concluded(h, a) \in Host
           /\ \A a \in Banks : [h EXCEPT !.stage = "status_out", !.answer = a] \in Host
           /\ [h EXCEPT !.stage = "status_out"] \in Host
           /\ \A r \in AllRequests :
                [h EXCEPT !.req = r, !.answer = "none",
                          !.stage = IF r \in InRequests THEN "data"
                                    ELSE "status_in"] \in Host
           /\ \A b \in BOOLEAN :
                [h EXCEPT !.stage = "idle", !.answer = "none", !.unsure = b] \in Host
           /\ h.answer \in Banks \cup {"stall"} /\ h.unsure \in BOOLEAN
           /\ h.conf \in BOOLEAN
<1>1. NewHost \in Host
    BY Zenon DEF NewHost, Host, Addresses, AllRequests, InRequests, Banks
<1>2. [NewHost EXCEPT !.reset = TRUE] \in Host
    BY <1>1, Zenon DEF Host
<1>3. h.answer \in Banks \cup {"stall"} /\ h.unsure \in BOOLEAN /\ h.conf \in BOOLEAN
      /\ h.addr \in Addresses
    BY Zenon DEF Host
<1>4. ASSUME NEW a \in Banks \cup {"stall"} PROVE Concluded(h, a) \in Host
  <2> DEFINE addr == IF a = "zlp" /\ h.req = "setAddress" THEN 1 ELSE h.addr
             conf == CASE a = "zlp" /\ h.req = "setConf" -> TRUE
                       [] a = "zlp" /\ h.req = "unconf"  -> FALSE
                       [] OTHER                          -> h.conf
  <2>1. addr \in Addresses
      BY <1>3 DEF Addresses
  <2>2. conf \in BOOLEAN
    <3>1. CASE a = "zlp" /\ h.req = "setConf"
        BY <3>1
    <3>2. CASE a = "zlp" /\ h.req = "unconf"
        BY <3>2
    <3>3. CASE /\ ~(a = "zlp" /\ h.req = "setConf")
               /\ ~(a = "zlp" /\ h.req = "unconf")
        BY <1>3, <3>3, Zenon
    <3> QED BY <3>1, <3>2, <3>3
  <2>3. Concluded(h, a) = [h EXCEPT !.stage = "idle", !.answer = a, !.addr = addr,
                                    !.conf = conf]
      BY DEF Concluded
  <2> HIDE DEF addr, conf
  <2> QED BY <2>1, <2>2, <2>3, Zenon DEF Host
<1>5. ASSUME NEW a \in Banks
      PROVE  [h EXCEPT !.stage = "status_out", !.answer = a] \in Host
    BY Zenon DEF Host
<1>6. [h EXCEPT !.stage = "status_out"] \in Host
    BY Zenon DEF Host
<1>7. ASSUME NEW r \in AllRequests
      PROVE [h EXCEPT !.req = r, !.answer = "none",
                      !.stage = IF r \in InRequests THEN "data"
                                ELSE "status_in"] \in Host
    BY Zenon DEF Host, Banks
<1>8. ASSUME NEW b \in BOOLEAN
      PROVE  [h EXCEPT !.stage = "idle", !.answer = "none", !.unsure = b] \in Host
    BY Zenon DEF Host, Banks
<1> QED BY <1>1, <1>2, <1>3, <1>4, <1>5, <1>6, <1>7, <1>8

LEMMA RaiseBalanced ==
    ASSUME Balanced(power), NEW fs \in SUBSET DeviceFlags
    PROVE  Balanced([power EXCEPT !.flags = @ \cup fs])
<1>1. power.flags \cup fs \in SUBSET DeviceFlags
    BY FieldsBalanced
<1> QED BY <1>1, FieldsBalanced

LEMMA BusInv == Inv /\ Bus => Inv'
<1> SUFFICES ASSUME Inv, Bus PROVE Inv'
    OBVIOUS
<1> USE DEF Inv
<1>1. CASE Plug \/ Unplug
    BY <1>1, HostType DEF Plug, Unplug, BusStates
<1>2. CASE Suspend \/ LpmSuspend \/ Resume \/ Sof
  <2>1. PICK f \in DeviceFlags : Raise(f)
      BY <1>2 DEF Suspend, LpmSuspend, Resume, Sof, DeviceFlags
  <2>2. Balanced(power')
      BY <2>1, RaiseBalanced DEF Raise
  <2> QED BY <1>2, <2>2 DEF Suspend, LpmSuspend, Resume, Sof, BusStates
<1>3. CASE BusReset
  <2> DEFINE fs == {"reset"} \cup (IF bus = "active" THEN {} ELSE {"wakeup"})
  <2>1. power' = [power EXCEPT !.flags = @ \cup fs]
      BY <1>3, Zenon DEF BusReset
  <2>2. fs \in SUBSET DeviceFlags
      BY DEF DeviceFlags
  <2> HIDE DEF fs
  <2>3. Balanced(power')
      BY <2>1, <2>2, RaiseBalanced
  <2>4. CtlInv(ctl')
    <3> DEFINE c == [ctl EXCEPT !.addr = 0, !.flags = {}, !.stall = {}, !.irq = FALSE]
    <3>1. 0 \in Addresses /\ {} \in SUBSET EpFlags /\ {} \in SUBSET {"in", "out"}
        BY DEF Addresses
    <3>2. ctl \in Ctl /\ (ctl.state = "data_in" => ctl.sent)
        BY DEF CtlInv
    <3>3. c \in Ctl /\ c.state = ctl.state /\ c.sent = ctl.sent
        BY <3>1, <3>2, Zenon DEF Ctl
    <3>4. CtlInv(c)
        BY <3>2, <3>3 DEF CtlInv
    <3> QED BY <1>3, <3>4 DEF BusReset
  <2> QED BY <1>3, <2>3, <2>4, HostType DEF BusReset, BusStates
<1> QED BY <1>1, <1>2, <1>3 DEF Bus

LEMMA NakInv ==
    ASSUME CtlInv(ctl), NEW f \in EpFlags
    PROVE  CtlInv([ctl EXCEPT !.flags = @ \cup {f}])
<1>1. ctl.flags \cup {f} \in SUBSET EpFlags
    BY FieldsSent
<1> QED BY <1>1, FieldsSent

LEMMA SetupRequestInv == ASSUME NEW r \in AllRequests PROVE Inv /\ HostSetup(r) => Inv'
<1> SUFFICES ASSUME Inv, HostSetup(r) PROVE Inv'
    OBVIOUS
<1> DEFINE c1 == [ctl EXCEPT !.packet = r]
           c2 == [c1 EXCEPT !.flags = ctl.flags \cup {"rxstp"}]
           c3 == [c2 EXCEPT !.stall = {}]
           c4 == [c3 EXCEPT !.out = FALSE]
<1>1. CtlInv(ctl) /\ host \in Host
    BY DEF Inv
<1>2. CtlInv(c1)
    BY <1>1, FieldsSent
<1>3. ctl' = c4
    BY Zenon DEF HostSetup
<1> HIDE DEF c1
<1>4. CtlInv(c2)
    <2>1. ctl.flags \cup {"rxstp"} \in SUBSET EpFlags
        BY <1>1, FieldsSent DEF EpFlags
    <2> QED BY <1>2, <2>1, FieldsSent
<1> HIDE DEF c2
<1>5. CtlInv(c3)
    BY <1>4, FieldsSent
<1> HIDE DEF c3
<1>6. CtlInv(c4)
    BY <1>5, FieldsSent
<1> HIDE DEF c4
<1>7. host' \in Host
    BY <1>1, HostType, Zenon DEF HostSetup
<1> QED BY <1>3, <1>6, <1>7 DEF HostSetup, Inv

LEMMA ControlInv == Inv /\ Control => Inv'
<1> SUFFICES ASSUME Inv, Control PROVE Inv'
    OBVIOUS
<1>0. CtlInv(ctl) /\ host \in Host /\ ctl.in \in Banks
    BY FieldsSent DEF Inv
<1>f. \A f \in EpFlags : CtlInv([ctl EXCEPT !.flags = @ \cup {f}])
    BY <1>0, NakInv
<1>1. CASE \E r \in Requests : HostSetup(r)
    BY <1>1, SetupRequestInv, RequestsAssumption
<1>2. CASE HostIn
  <2>1. CtlInv(ctl')
    <3>1. ASSUME Nak("trfail1") PROVE CtlInv(ctl')
        BY <1>f, <3>1 DEF Nak, EpFlags
    <3> DEFINE c == [ctl EXCEPT !.in = "none"]
    <3>2. [ctl EXCEPT !.in = "none", !.flags = @ \cup {"trcpt1"}] =
              [c EXCEPT !.flags = ctl.flags \cup {"trcpt1"}]
        BY Zenon
    <3>3. CtlInv(c)
        BY <1>0, FieldsSent
    <3> HIDE DEF c
    <3>4. CtlInv([c EXCEPT !.flags = ctl.flags \cup {"trcpt1"}])
        <4>1. ctl.flags \cup {"trcpt1"} \in SUBSET EpFlags
            BY <1>0, FieldsSent DEF EpFlags
        <4> QED BY <3>3, <4>1, FieldsSent
    <3> QED BY <1>0, <1>2, <3>1, <3>2, <3>4 DEF HostIn
  <2>2. host' \in Host
    <3>1. Concluded(host, ctl.in) \in Host /\ Concluded(host, "stall") \in Host
        BY <1>0, HostType
    <3>2. [host EXCEPT !.stage = "status_out", !.answer = ctl.in] \in Host
        BY <1>0, HostType
    <3> QED BY <1>0, <1>2, <3>1, <3>2, Zenon DEF HostIn, Nak
  <2> QED BY <1>2, <2>1, <2>2 DEF HostIn, Inv
<1>3. CASE HostOut
  <2>1. CtlInv(ctl')
    <3>1. ASSUME Nak("trfail0") PROVE CtlInv(ctl')
        BY <1>f, <3>1 DEF Nak, EpFlags
    <3> DEFINE c == [ctl EXCEPT !.out = FALSE]
    <3>2. [ctl EXCEPT !.out = FALSE, !.flags = @ \cup {"trcpt0"}] =
              [c EXCEPT !.flags = ctl.flags \cup {"trcpt0"}]
        BY Zenon
    <3>3. CtlInv(c)
        BY <1>0, FieldsSent
    <3> HIDE DEF c
    <3>4. CtlInv([c EXCEPT !.flags = ctl.flags \cup {"trcpt0"}])
        <4>1. ctl.flags \cup {"trcpt0"} \in SUBSET EpFlags
            BY <1>0, FieldsSent DEF EpFlags
        <4> QED BY <3>3, <4>1, FieldsSent
    <3> QED BY <1>0, <1>3, <3>1, <3>2, <3>4 DEF HostOut
  <2>2. host' \in Host
      BY <1>0, <1>3, HostType, Zenon DEF HostOut, Nak
  <2> QED BY <1>3, <2>1, <2>2 DEF HostOut, Inv
<1>4. CASE HostStopsData
    BY <1>0, <1>4, HostType DEF HostStopsData, Inv
<1>5. CASE HostGivesUp
  <2> DEFINE b == host.unsure \/ host.req \in {"setAddress", "setConf", "unconf"}
  <2>1. b \in BOOLEAN
      OBVIOUS
  <2>2. host' = [host EXCEPT !.stage = "idle", !.answer = "none", !.unsure = b]
      BY <1>5, Zenon DEF HostGivesUp
  <2> HIDE DEF b
  <2>3. host' \in Host
      BY <1>0, <2>1, <2>2, HostType
  <2> QED BY <1>5, <2>3 DEF HostGivesUp, Inv
<1>6. CASE HostCommand
    BY <1>f, <1>6 DEF HostCommand, Inv, EpFlags
<1> QED BY <1>1, <1>2, <1>3, <1>4, <1>5, <1>6 DEF Control

LEMMA AwakeType == Awake \in Cpu
BY SMT DEF Awake, Cpu, Points, Modes, Active

LEMMA InterruptsInv ==
    Inv /\ (EndpointInterrupt \/ DeviceInterrupt \/ VbusInterrupt) => Inv'
<1> SUFFICES ASSUME Inv, EndpointInterrupt \/ DeviceInterrupt \/ VbusInterrupt
             PROVE  Inv'
    OBVIOUS
<1> USE DEF Inv
<1>0. Interrupted \in Cpu
    BY AwakeType DEF Interrupted
<1>1. CASE EndpointInterrupt
    BY <1>0, <1>1, ServeSent DEF EndpointInterrupt
<1>2. CASE DeviceInterrupt
  <2>1. Balanced(power')
      BY <1>2, FlagsBalanced, FieldsSent DEF DeviceInterrupt
  <2>2. CtlInv(ctl')
      BY <1>2, BusResetSent DEF DeviceInterrupt, CtlInv
  <2> QED BY <1>0, <1>2, <2>1, <2>2 DEF DeviceInterrupt
<1>3. CASE VbusInterrupt
    BY <1>0, <1>3, VbusBalanced DEF VbusInterrupt
<1> QED BY <1>1, <1>2, <1>3

LEMMA MainLoopInv == Inv /\ MainLoop => Inv'
<1> SUFFICES ASSUME Inv, MainLoop PROVE Inv'
    OBVIOUS
<1> USE DEF Inv
<1>0. \A pc \in Points : [cpu EXCEPT !.pc = pc] \in Cpu
    BY Zenon DEF Cpu
<1>1. CASE TestEnable
    BY <1>0, <1>1 DEF TestEnable, Goto, Points
<1>2. CASE ProcessTrans
  <2>1. CtlInv(ctl')
      BY <1>2, FieldsSent DEF ProcessTrans
  <2> QED BY <1>0, <1>2, <2>1 DEF ProcessTrans, Goto, Points
<1>3. CASE EnterSleep
  <2>1. Deepest(power.locks) \in Modes
      BY DeepestIsMode
  <2>2. [pc |-> "masked", mode |-> Deepest(power.locks)] \in Cpu
      BY <2>1, Zenon DEF Cpu, Points
  <2> QED BY <1>3, <2>2, AwakeType DEF EnterSleep
<1>4. CASE IrqEnable
    BY <1>0, <1>4 DEF IrqEnable, Goto, Points
<1>5. CASE Wfi
    BY <1>0, <1>5, AwakeType DEF Wfi, Points
<1> QED BY <1>1, <1>2, <1>3, <1>4, <1>5 DEF MainLoop

LEMMA NextInv == Inv /\ [Next]_vars => Inv'
<1>1. Inv /\ UNCHANGED vars => Inv'
    BY DEF Inv, vars
<1> QED BY <1>1, BusInv, ControlInv, InterruptsInv, MainLoopInv DEF Next

LEMMA AlwaysInv == Spec => []Inv
BY InitInv, NextInv, PTL DEF Spec

\* Every variable has its type, whatever the host asks and whatever the order in
\* which the bus, the cable and the two interrupts come: among others, no
\* count of a lock leaves 0..2, and an IN transfer only completes of a request
\* that reads.
THEOREM UsbTypeCorrect == Spec => []TypeOK
<1>1. Inv => TypeOK
    BY BalancedBasics DEF Inv, TypeOK, CtlInv
<1> QED BY <1>1, AlwaysInv, PTL

\* The sleep manager holds its own lock and the one of the state of the bus, and no
\* other (udd_sleep_mode), whatever the host does early: the set Early is any.
THEOREM LocksAlwaysBalanced == Spec => []LocksBalanced
<1>1. Inv => LocksBalanced
    BY DEF Inv, LocksBalanced, Balanced, Held
<1> QED BY <1>1, AlwaysInv, PTL

----------------------------------------------------------------------------
(* What the callbacks do to the flags, the interrupts that are enabled and  *)
(* the LEDs, for the theorem on the suspended bus.                          *)

LEMMA SleepModeKeeps ==
    ASSUME NEW p, Balanced(p), NEW new \in UsbStates \ {"off"}
    PROVE  /\ UddSleepMode(p, new).flags = p.flags
           /\ UddSleepMode(p, new).enabled = p.enabled
           /\ UddSleepMode(p, new).led = p.led
<1> DEFINE locked == LockMode(p, SleepMode[new])
           unlocked == IF p.usb = "off" THEN locked
                       ELSE UnlockMode(locked, SleepMode[p.usb])
<1>1. p \in AnyPower
    BY DEF Balanced
<1>2. /\ locked.flags = p.flags /\ locked.enabled = p.enabled
      /\ locked.led = p.led /\ locked = [p EXCEPT !.locks = locked.locks]
    BY <1>1, Zenon DEF LockMode, AnyPower
<1>3. /\ unlocked.flags = p.flags /\ unlocked.enabled = p.enabled
      /\ unlocked.led = p.led /\ unlocked = [p EXCEPT !.locks = unlocked.locks]
    <2> HIDE DEF locked
    <2> QED BY <1>1, <1>2, Zenon DEF UnlockMode, AnyPower
<1>4. UddSleepMode(p, new) = IF p.usb = new THEN p
                             ELSE [unlocked EXCEPT !.usb = new]
    BY DEF UddSleepMode
<1> HIDE DEF unlocked
<1>5. /\ [unlocked EXCEPT !.usb = new].flags = p.flags
      /\ [unlocked EXCEPT !.usb = new].enabled = p.enabled
      /\ [unlocked EXCEPT !.usb = new].led = p.led
    BY <1>1, <1>3, Zenon DEF AnyPower
<1> QED BY <1>4, <1>5

LEMMA CallbackKeeps ==
    ASSUME NEW p, Balanced(p), NEW c \in DeviceFlags
    PROVE  /\ EnableCallback(p, c).flags = p.flags \ {c}
           /\ p.flags = {} => EnableCallback(p, c).flags = {}
           /\ EnableCallback(p, c).enabled = p.enabled \cup {c}
           /\ EnableCallback(p, c).led = p.led
           /\ DisableCallback(p, c).flags = p.flags
           /\ DisableCallback(p, c).enabled = p.enabled \ {c}
           /\ DisableCallback(p, c).led = p.led
<1>1. p.flags = {} => p.flags \ {c} = {}
    OBVIOUS
<1> QED BY <1>1, Zenon DEF EnableCallback, DisableCallback, Balanced, AnyPower

LEMMA SofDoes ==
    ASSUME NEW p, Balanced(p), NEW msc \in BOOLEAN, NEW frame \in Frames
    PROVE  /\ OnSof(p, msc, frame).flags = p.flags
           /\ OnSof(p, msc, frame).enabled = p.enabled
BY Zenon DEF OnSof, UiProcess, Balanced, AnyPower

LEMMA HandlersDo ==
    ASSUME NEW p, Balanced(p), p.flags = {}
    PROVE  /\ OnWakeup(p).flags = {}
           /\ OnWakeup(p).enabled = (p.enabled \ {"wakeup"}) \cup {"suspend", "lpmsusp"}
           /\ OnSuspend(p).flags = {} /\ ~OnSuspend(p).led
           /\ OnSuspend(p).enabled = (p.enabled \ {"suspend"}) \cup {"wakeup"}
           /\ OnLpmSuspend(p).flags = {} /\ OnLpmSuspend(p).led = p.led
           /\ "wakeup" \in OnLpmSuspend(p).enabled
<1>2. \A q : Balanced(q) => /\ UiPowerdown(q).flags = q.flags
                            /\ UiPowerdown(q).enabled = q.enabled
                            /\ ~UiPowerdown(q).led
                            /\ UiWakeup(q).flags = q.flags
                            /\ UiWakeup(q).enabled = q.enabled
    BY Zenon DEF UiPowerdown, UiWakeup, Balanced, AnyPower
<1>3. /\ OnWakeup(p).flags = {}
      /\ OnWakeup(p).enabled = (p.enabled \ {"wakeup"}) \cup {"suspend", "lpmsusp"}
  <2> DEFINE a == DisableCallback(p, "wakeup")
             b == EnableCallback(a, "suspend")
             c == EnableCallback(b, "lpmsusp")
             d == UddSleepMode(c, "idle")
  <2> USE DEF DeviceFlags, UsbStates
  <2>1. Balanced(a) /\ a.flags = {} /\ a.enabled = p.enabled \ {"wakeup"}
      BY CallbackBalanced, CallbackKeeps
  <2> HIDE DEF a
  <2>2. Balanced(b) /\ b.flags = {} /\ b.enabled = a.enabled \cup {"suspend"}
      BY <2>1, CallbackBalanced, CallbackKeeps
  <2> HIDE DEF b
  <2>3. Balanced(c) /\ c.flags = {} /\ c.enabled = b.enabled \cup {"lpmsusp"}
      BY <2>2, CallbackBalanced, CallbackKeeps
  <2> HIDE DEF c
  <2>4. Balanced(d) /\ d.flags = {} /\ d.enabled = c.enabled
      BY <2>3, SleepModeBalanced, SleepModeKeeps
  <2> HIDE DEF d
  <2>5. OnWakeup(p) = UiWakeup(d)
      BY DEF OnWakeup, a, b, c, d
  <2> QED BY <1>2, <2>1, <2>2, <2>3, <2>4, <2>5
<1>4. /\ OnSuspend(p).flags = {} /\ ~OnSuspend(p).led
      /\ OnSuspend(p).enabled = (p.enabled \ {"suspend"}) \cup {"wakeup"}
  <2> DEFINE a == DisableCallback(p, "suspend")
             b == EnableCallback(a, "wakeup")
             c == UddSleepMode(b, "suspend")
  <2> USE DEF DeviceFlags, UsbStates
  <2>1. Balanced(a) /\ a.flags = {} /\ a.enabled = p.enabled \ {"suspend"}
      BY CallbackBalanced, CallbackKeeps
  <2> HIDE DEF a
  <2>2. Balanced(b) /\ b.flags = {} /\ b.enabled = a.enabled \cup {"wakeup"}
      BY <2>1, CallbackBalanced, CallbackKeeps
  <2> HIDE DEF b
  <2>3. Balanced(c) /\ c.flags = {} /\ c.enabled = b.enabled
      BY <2>2, SleepModeBalanced, SleepModeKeeps
  <2> HIDE DEF c
  <2>4. OnSuspend(p) = UiPowerdown(c)
      BY DEF OnSuspend, a, b, c
  <2> QED BY <1>2, <2>1, <2>2, <2>3, <2>4
<1>5. /\ OnLpmSuspend(p).flags = {} /\ OnLpmSuspend(p).led = p.led
      /\ "wakeup" \in OnLpmSuspend(p).enabled
  <2> DEFINE a == DisableCallback(p, "lpmsusp")
             b == DisableCallback(a, "suspend")
             c == EnableCallback(b, "wakeup")
  <2> USE DEF DeviceFlags, UsbStates
  <2>1. Balanced(a) /\ a.flags = {} /\ a.led = p.led
      BY CallbackBalanced, CallbackKeeps
  <2> HIDE DEF a
  <2>2. Balanced(b) /\ b.flags = {} /\ b.led = p.led
      BY <2>1, CallbackBalanced, CallbackKeeps
  <2> HIDE DEF b
  <2>3. Balanced(c) /\ c.flags = {} /\ c.led = p.led /\ "wakeup" \in c.enabled
    <3>1. c.enabled = b.enabled \cup {"wakeup"}
        BY <2>2, CallbackKeeps
    <3> QED BY <2>2, <3>1, CallbackBalanced, CallbackKeeps
  <2> HIDE DEF c
  <2>4. OnLpmSuspend(p) = UddSleepMode(c, "lpm")
      BY DEF OnLpmSuspend, a, b, c
  <2> QED BY <2>3, <2>4, SleepModeKeeps
<1> QED BY <1>3, <1>4, <1>5

\* Attaching starts from no flag, with every interrupt enabled.
LEMMA AttachDoes ==
    ASSUME NEW p, Balanced(p)
    PROVE  UddAttach(p).flags = {} /\ UddAttach(p).enabled = DeviceFlags
<1> DEFINE q == UddSleepMode(p, "idle")
<1>1. Balanced(q)
    BY SleepModeBalanced DEF UsbStates
<1>2. q \in AnyPower /\ q.flags \ DeviceFlags = {}
      /\ q.enabled \cup DeviceFlags = DeviceFlags
    BY <1>1, FieldsBalanced DEF Balanced
<1> HIDE DEF q
<1>3. UddAttach(p) = [q EXCEPT !.attached = TRUE, !.flags = @ \ DeviceFlags,
                               !.enabled = @ \cup DeviceFlags]
    BY DEF UddAttach, q
<1> QED BY <1>2, <1>3, Zenon DEF AnyPower

LEMMA FlagsDo ==
    ASSUME Balanced(power), ctl.msc \in BOOLEAN, NEW frame \in Frames
    PROVE  /\ AfterFlags(frame).flags = {}
           /\ power.flags \cap power.enabled \cap {"suspend", "lpmsusp"} = {} =>
                  /\ "wakeup" \notin power.flags \cap power.enabled =>
                         AfterFlags(frame).enabled = power.enabled
                  /\ "wakeup" \in power.flags \cap power.enabled =>
                         {"suspend", "lpmsusp"} \subseteq AfterFlags(frame).enabled
           /\ "suspend" \in power.flags \cap power.enabled =>
                  /\ ~AfterFlags(frame).led
                  /\ "wakeup" \in AfterFlags(frame).enabled
           /\ ("wakeup" \notin power.flags \cap power.enabled
               /\ "wakeup" \in power.enabled)
                  => "wakeup" \in AfterFlags(frame).enabled
           /\ ({"wakeup", "sof"} \cap power.flags = {} /\ ~power.led)
                  => ~AfterFlags(frame).led
           /\ "lpmsusp" \in power.flags \cap power.enabled =>
                  "wakeup" \in AfterFlags(frame).enabled
<1> DEFINE run     == power.flags \cap power.enabled
           cleared == [power EXCEPT !.flags = {}]
           sof     == IF "sof" \in run THEN OnSof(cleared, ctl.msc, frame) ELSE cleared
           wakeup  == IF "wakeup" \in run THEN OnWakeup(sof) ELSE sof
           suspend == IF "suspend" \in run THEN OnSuspend(wakeup) ELSE wakeup
           after   == IF "lpmsusp" \in run THEN OnLpmSuspend(suspend) ELSE suspend
<1>0. run \subseteq power.flags
    OBVIOUS
<1>1. /\ Balanced(cleared) /\ cleared.flags = {} /\ cleared.led = power.led
      /\ cleared.enabled = power.enabled
    <2>1. Balanced(cleared)
        BY FieldsBalanced
    <2> QED BY <2>1, Zenon DEF Balanced, AnyPower
<1> HIDE DEF run, cleared
<1>2. /\ Balanced(sof) /\ sof.flags = {} /\ sof.enabled = power.enabled
      /\ "sof" \notin run => sof.led = power.led
    <2> DEFINE s == OnSof(cleared, ctl.msc, frame)
    <2>1. Balanced(s)
        BY <1>1, UiBalanced
    <2>3. s.flags = {} /\ s.enabled = cleared.enabled
        BY <1>1, SofDoes
    <2> HIDE DEF s
    <2>2. CASE "sof" \in run
        BY <2>1, <2>2, <2>3, <1>1 DEF s
    <2>4. CASE "sof" \notin run
        BY <2>4, <1>1
    <2> QED BY <2>2, <2>4
<1> HIDE DEF sof
<1>3. /\ Balanced(wakeup) /\ wakeup.flags = {}
      /\ "wakeup" \notin run => wakeup.led = sof.led /\ wakeup.enabled = sof.enabled
      /\ "wakeup" \in run => {"suspend", "lpmsusp"} \subseteq wakeup.enabled
    BY <1>2, HandlersBalanced, HandlersDo
<1> HIDE DEF wakeup
<1>4. /\ Balanced(suspend) /\ suspend.flags = {}
      /\ "suspend" \notin run => suspend = wakeup
      /\ "suspend" \in run => ~suspend.led /\ "wakeup" \in suspend.enabled
    BY <1>3, HandlersBalanced, HandlersDo
<1> HIDE DEF suspend
<1>5. /\ after.flags = {}
      /\ "lpmsusp" \notin run => after = suspend
      /\ after.led = suspend.led
      /\ "lpmsusp" \in run => "wakeup" \in after.enabled
    BY <1>4, HandlersDo
<1>6. AfterFlags(frame) = after
    BY DEF AfterFlags, run, cleared, sof, wakeup, suspend
<1> HIDE DEF after
<1>7. run \cap {"suspend", "lpmsusp"} = {} => "suspend" \notin run /\ "lpmsusp" \notin run
    OBVIOUS
<1>8. {"wakeup", "sof"} \cap power.flags = {} => "wakeup" \notin run /\ "sof" \notin run
    BY <1>0
<1>9. power.flags \cap power.enabled = run
    BY DEF run
<1> QED BY <1>2, <1>3, <1>4, <1>5, <1>6, <1>7, <1>8, <1>9, Zenon

----------------------------------------------------------------------------
(* The suspended bus.  On an active bus the driver listens for a suspend,   *)
(* or has a wake-up to serve that makes it listen; on a suspended one it    *)
(* has a suspend to serve, or is dark and listens for the wake-up.          *)

Pends(f) == f \in power.flags /\ f \in power.enabled

AwakeInv == (bus = "active" /\ ~eic) =>
    /\ ~Pends("suspend") /\ ~Pends("lpmsusp")
    /\ Pends("wakeup") \/ ("suspend" \in power.enabled /\ "lpmsusp" \in power.enabled)

DarkInv == bus = "suspended" =>
    /\ ~eic
    /\ \/ Pends("suspend")
       \/ /\ ~power.led /\ "wakeup" \in power.enabled
          /\ "wakeup" \notin power.flags /\ "sof" \notin power.flags

LpmInv == bus = "lpm" =>
    /\ ~eic
    /\ \/ Pends("lpmsusp")
       \/ "wakeup" \in power.enabled /\ "wakeup" \notin power.flags

QuietInv == Inv /\ AwakeInv /\ DarkInv /\ LpmInv

LEMMA InitQuiet == Init => QuietInv
<1> SUFFICES ASSUME Init PROVE QuietInv
    OBVIOUS
<1>1. Inv
    BY InitInv
<1>2. bus = "off" \/ bus = "active"
    BY DEF Init
<1>3. ASSUME bus = "active" PROVE power.flags = {} /\ power.enabled = DeviceFlags
    BY <1>3, StartBalanced, AttachDoes DEF Init, VbusHandler
<1>4. AwakeInv
    BY <1>3 DEF AwakeInv, Pends, DeviceFlags
<1> QED BY <1>1, <1>2, <1>4 DEF QuietInv, DarkInv, LpmInv

LEMMA RaiseDoes ==
    ASSUME Balanced(power), NEW f, Raise(f)
    PROVE  /\ power'.flags = power.flags \cup {f} /\ power'.enabled = power.enabled
           /\ power'.led = power.led /\ power'.attached = power.attached
BY Zenon DEF Raise, Balanced, AnyPower

LEMMA ServedBusDoes ==
    ASSUME BusServed
    PROVE  /\ ~eic /\ ~Pends("suspend") /\ ~Pends("lpmsusp") /\ ~Pends("wakeup")
BY DEF BusServed, BusFlags, Pends

\* With no move of the bus before the last one is served.
LEMMA BusQuiet ==
    ASSUME "bus" \notin Early
    PROVE  QuietInv /\ Bus => QuietInv'
<1> SUFFICES ASSUME QuietInv, Bus PROVE AwakeInv' /\ DarkInv' /\ LpmInv'
    BY BusInv DEF QuietInv
<1>0. Balanced(power)
    BY DEF QuietInv, Inv
<1> USE DEF QuietInv
<1>1. CASE Plug
    BY <1>1 DEF Plug, AwakeInv, DarkInv, LpmInv
<1>2. CASE Unplug
    BY <1>2 DEF Unplug, AwakeInv, DarkInv, LpmInv
<1>3. CASE Suspend
  <2>1. BusServed /\ bus = "active"
      BY <1>3 DEF Suspend, MayChangeBus
  <2>2. "suspend" \in power.enabled
      BY <2>1, ServedBusDoes DEF AwakeInv
  <2>3. "suspend" \in power'.flags /\ "suspend" \in power'.enabled
      BY <1>0, <1>3, <2>2, RaiseDoes DEF Suspend
  <2> QED BY <1>3, <2>1, <2>3, ServedBusDoes
          DEF Suspend, AwakeInv, DarkInv, LpmInv, Pends
<1>4. CASE LpmSuspend
  <2>1. BusServed /\ bus = "active"
      BY <1>4 DEF LpmSuspend, MayChangeBus
  <2>2. "lpmsusp" \in power.enabled
      BY <2>1, ServedBusDoes DEF AwakeInv
  <2>3. "lpmsusp" \in power'.flags /\ "lpmsusp" \in power'.enabled
      BY <1>0, <1>4, <2>2, RaiseDoes DEF LpmSuspend
  <2> QED BY <1>4, <2>1, <2>3, ServedBusDoes
          DEF LpmSuspend, AwakeInv, DarkInv, LpmInv, Pends
<1>5. CASE Resume
  <2>1. BusServed /\ (bus = "suspended" \/ bus = "lpm")
      BY <1>5 DEF Resume, MayChangeBus
  <2>2. "wakeup" \in power.enabled
      BY <2>1, ServedBusDoes DEF DarkInv, LpmInv
  <2>3. power'.flags = power.flags \cup {"wakeup"} /\ power'.enabled = power.enabled
      BY <1>0, <1>5, RaiseDoes DEF Resume
  <2>4. ~Pends("suspend")' /\ ~Pends("lpmsusp")' /\ Pends("wakeup")'
      BY <2>1, <2>2, <2>3, ServedBusDoes DEF Pends
  <2> QED BY <1>5, <2>4 DEF Resume, AwakeInv, DarkInv, LpmInv
<1>6. CASE BusReset
  <2>1. BusServed /\ bus # "off" /\ bus' = "active"
      BY <1>6 DEF BusReset, MayChangeBus
  <2> DEFINE fs == {"reset"} \cup (IF bus = "active" THEN {} ELSE {"wakeup"})
  <2>2. power'.flags = power.flags \cup fs /\ power'.enabled = power.enabled
      BY <1>0, <1>6, Zenon DEF BusReset, Balanced, AnyPower
  <2>3. ~Pends("suspend")' /\ ~Pends("lpmsusp")'
      BY <2>1, <2>2, ServedBusDoes DEF Pends
  <2>4. CASE bus = "active"
    <3>1. "suspend" \in power.enabled /\ "lpmsusp" \in power.enabled
        BY <2>1, <2>4, ServedBusDoes DEF AwakeInv
    <3> QED BY <2>1, <2>2, <2>3, <3>1 DEF AwakeInv, DarkInv, LpmInv
  <2>5. CASE bus # "active"
    <3>1. "wakeup" \in power.enabled
        BY <2>1, <2>5, ServedBusDoes DEF DarkInv, LpmInv, Inv, BusStates
    <3>2. Pends("wakeup")'
        BY <2>2, <2>5, <3>1 DEF Pends
    <3> QED BY <2>1, <2>3, <3>2 DEF AwakeInv, DarkInv, LpmInv
  <2> QED BY <2>4, <2>5
<1>7. CASE Sof
  <2>1. /\ bus = "active" /\ bus' = "active" /\ eic' = eic
        /\ power'.flags = power.flags \cup {"sof"} /\ power'.enabled = power.enabled
        /\ power'.attached = power.attached
      BY <1>0, <1>7, RaiseDoes DEF Sof
  <2> QED BY <2>1 DEF AwakeInv, DarkInv, LpmInv, Pends
<1> QED BY <1>1, <1>2, <1>3, <1>4, <1>5, <1>6, <1>7 DEF Bus

LEMMA NotBusQuiet == QuietInv /\ [Next]_vars /\ ~Bus => QuietInv'
<1> SUFFICES ASSUME QuietInv, [Next]_vars, ~Bus PROVE QuietInv'
    OBVIOUS
<1>0. Inv /\ Inv' /\ Balanced(power) /\ ctl.msc \in BOOLEAN
    BY NextInv, FieldsSent DEF QuietInv, Inv
<1>1. CASE UNCHANGED <<bus, eic, power>>
  <2>1. AwakeInv'
      BY <1>1 DEF QuietInv, AwakeInv, Pends
  <2>2. DarkInv'
      BY <1>1 DEF QuietInv, DarkInv, Pends
  <2>3. LpmInv'
      BY <1>1 DEF QuietInv, LpmInv, Pends
  <2> QED BY <1>0, <2>1, <2>2, <2>3 DEF QuietInv
<1>2. CASE DeviceInterrupt
  <2>1. PICK frame \in Frames : power' = AfterFlags(frame)
      BY <1>2 DEF DeviceInterrupt
  <2>2. bus' = bus /\ eic' = eic /\ power'.flags = {}
      BY <1>0, <1>2, <2>1, FlagsDo DEF DeviceInterrupt
  <2>3. AwakeInv'
    <3> SUFFICES ASSUME bus = "active", ~eic
                 PROVE  /\ "suspend" \in power'.enabled
                        /\ "lpmsusp" \in power'.enabled
        BY <2>2 DEF AwakeInv, Pends
    <3>1. power.flags \cap power.enabled \cap {"suspend", "lpmsusp"} = {}
        BY DEF QuietInv, AwakeInv, Pends
    <3>2. CASE Pends("wakeup")
        BY <1>0, <2>1, <3>1, <3>2, FlagsDo DEF Pends
    <3>3. CASE ~Pends("wakeup")
      <4>1. power'.enabled = power.enabled
          BY <1>0, <2>1, <3>1, <3>3, FlagsDo DEF Pends
      <4> QED BY <3>3, <4>1 DEF QuietInv, AwakeInv
    <3> QED BY <3>2, <3>3
  <2>4. DarkInv'
      BY <1>0, <2>1, <2>2, FlagsDo DEF QuietInv, DarkInv, Pends
  <2>5. LpmInv'
      BY <1>0, <2>1, <2>2, FlagsDo DEF QuietInv, LpmInv, Pends
  <2> QED BY <1>0, <2>3, <2>4, <2>5 DEF QuietInv
<1>3. CASE VbusInterrupt
  <2>1. bus' = bus /\ ~eic' /\ power' = VbusHandler(power, bus # "off") /\ eic
      BY <1>3 DEF VbusInterrupt
  <2>2. bus # "suspended" /\ bus # "lpm"
      BY <2>1 DEF QuietInv, DarkInv, LpmInv
  <2>3. CASE bus = "active"
    <3>1. power'.flags = {} /\ power'.enabled = DeviceFlags
        BY <1>0, <2>1, <2>3, AttachDoes DEF VbusHandler
    <3> QED BY <1>0, <2>1, <2>2, <3>1
            DEF QuietInv, AwakeInv, DarkInv, LpmInv, Pends, DeviceFlags
  <2>4. CASE bus = "off"
      BY <1>0, <2>1, <2>4 DEF QuietInv, AwakeInv, DarkInv, LpmInv
  <2> QED BY <1>0, <2>2, <2>3, <2>4 DEF Inv, BusStates
<1>4. CASE EndpointInterrupt
    BY <1>1, <1>4 DEF EndpointInterrupt
<1>5. CASE MainLoop
    BY <1>1, <1>5 DEF MainLoop, TestEnable, ProcessTrans, EnterSleep, IrqEnable, Wfi
<1>6. CASE Control
    BY <1>1, <1>6 DEF Control, HostSetup, HostIn, HostOut, HostStopsData,
                      HostGivesUp, HostCommand
<1>7. CASE UNCHANGED vars
    BY <1>1, <1>7 DEF vars
<1> QED BY <1>2, <1>3, <1>4, <1>5, <1>6, <1>7 DEF Next

\* In a suspended bus the LEDs are off, however long the interrupt was masked and
\* whatever frame came before it (main_sof_action, ui_powerdown), for a bus that
\* lets the driver follow it.
THEOREM AlwaysDarkWhenSuspended ==
    ASSUME "bus" \notin Early
    PROVE  Spec => []DarkWhenSuspended
<1>1. QuietInv /\ [Next]_vars => QuietInv'
    BY BusQuiet, NotBusQuiet
<1>2. QuietInv => DarkWhenSuspended
    BY DEF QuietInv, DarkInv, DarkWhenSuspended, Pends
<1> QED BY <1>1, <1>2, InitQuiet, PTL DEF Spec
=============================================================================
