-------------------------- MODULE UsbControlProofs -------------------------
(***************************************************************************)
(* The default control endpoint answers as it should: what the device and   *)
(* the host know of each other in every stage of a request.                 *)
(***************************************************************************)
EXTENDS UsbDeviceProofs

\* The host may overtake the service of a bus reset, and nothing else; it selects
\* only settings that the descriptors name.
Orderly == Early \subseteq {"reset"} /\ "badIface" \notin Requests

----------------------------------------------------------------------------
(* The inductive invariant.                                                *)

Pending == "reset" \in power.flags

\* A bus reset is served before the cable is.
ResetInv == /\ power.attached => "reset" \in power.enabled
            /\ Pending => "reset" \in power.enabled /\ ~eic

Changes == {"setAddress", "setConf", "unconf"}

Agreed == ctl.conf = host.conf /\ ctl.msc = host.conf

HostShape ==
    /\ host.stage = "data" => host.req \in InRequests /\ host.answer = "none"
    /\ host.stage = "status_in" => host.req \in OutRequests /\ host.answer = "none"
    /\ host.stage = "status_out" => /\ host.req \in InRequests
                                    /\ host.answer \in {"none"} \cup InRequests

\* A SETUP packet that is not served: the endpoint is clear of the request before
\* it, and its packet is the host's.
Waiting ==
    /\ ctl.packet = host.req /\ ctl.addr = host.addr /\ ctl.stall = {}
    /\ "trcpt1" \notin ctl.flags /\ "trcpt0" \notin ctl.flags
    /\ host.answer = "none" /\ host.req # "badIface"
    /\ host.req = "setAddress" => host.addr = 0
    /\ host.stage = "idle" => host.req \notin Changes
    /\ host.stage = "data" => "trfail0" \notin ctl.flags
    /\ host.stage = "status_out" => host.req = "getDesc"

\* A callback left by the last request cannot do anything any more.
Harmless == ctl.callback => ctl.state = "setup" \/ ctl.addr = 1

ConfAfter == CASE host.req = "setConf" -> TRUE
               [] host.req = "unconf"  -> FALSE
               [] OTHER                -> host.conf

\* The answer is in the bank, or the bank stalls.
InData ==
    /\ ctl.addr = host.addr /\ Agreed /\ ~ctl.callback
    /\ "trcpt1" \notin ctl.flags /\ "trcpt0" \notin ctl.flags
    /\ "trfail0" \notin ctl.flags
    /\ IF Owed = "stall" THEN "in" \in ctl.stall /\ ctl.state = "stall_req"
       ELSE ctl.state = "data_in" /\ ctl.in = host.req /\ ctl.stall = {}

\* The request has had its effect, but for the address, and the host is to know.
InStatus ==
    /\ ctl.addr = host.addr
    /\ "trcpt1" \notin ctl.flags /\ "trcpt0" \notin ctl.flags
    /\ IF Owed = "stall"
       THEN /\ "in" \in ctl.stall /\ ctl.state = "stall_req"
            /\ ~ctl.callback /\ Agreed
       ELSE /\ ctl.state = "wait_in" /\ ctl.in = "zlp" /\ "in" \notin ctl.stall
            /\ ctl.callback <=> host.req = "setAddress"
            /\ ctl.conf = ConfAfter /\ ctl.msc = ctl.conf
            /\ host.req = "setAddress" => host.addr = 0

OutStatus == ctl.addr = host.addr /\ Agreed /\ ~ctl.callback

\* The address changes when the device serves the end of the handshake.
AtRest ==
    /\ Agreed
    /\ ctl.callback =>
          \/ host.addr = 1
          \/ /\ ctl.state = "setup"
             /\ "trcpt1" \notin ctl.flags /\ "trcpt0" \notin ctl.flags
    /\ \/ ctl.addr = host.addr
       \/ /\ "trcpt1" \in ctl.flags /\ ctl.callback
          /\ host.addr = 1 /\ ctl.state = "wait_in"

\* The device has served the SETUP packet.
Phase == /\ host.stage = "data"       => InData
         /\ host.stage = "status_in"  => InStatus
         /\ host.stage = "status_out" => OutStatus
         /\ host.stage = "idle"       => AtRest

\* Until the device has served a bus reset it knows nothing of it, but its
\* controller does.
Together ==
    /\ ctl.irq <=> ~Pending
    /\ Pending => /\ ctl.addr = 0 /\ host.addr = 0 /\ ~host.conf
                  /\ "rxstp" \notin ctl.flags => host.stage = "idle" /\ ctl.flags = {}
    /\ "rxstp" \in ctl.flags => /\ Waiting
                                /\ ~Pending => Agreed /\ Harmless
    /\ "rxstp" \notin ctl.flags /\ ~Pending => Phase

StageInv ==
    /\ ctl.msc => ctl.conf
    /\ AnswersTheRequest
    /\ ~host.reset => host = NewHost /\ ctl.flags = {}
    /\ host.reset /\ ~host.unsure => HostShape /\ Together

AgreeInv == Inv /\ ResetInv /\ StageInv

----------------------------------------------------------------------------
(* The types, in the form the steps use.                                   *)

LEMMA CtlFields ==
    ASSUME Inv
    PROVE  /\ ctl \in Ctl /\ host \in Host
           /\ ctl.conf \in BOOLEAN /\ ctl.msc \in BOOLEAN /\ ctl.callback \in BOOLEAN
           /\ ctl.irq \in BOOLEAN /\ ctl.addr \in {0, 1} /\ ctl.packet \in AllRequests
           /\ ctl.flags \in SUBSET EpFlags /\ ctl.state \in CtlStates
           /\ ctl.in \in Banks
           /\ host.conf \in BOOLEAN /\ host.reset \in BOOLEAN /\ host.unsure \in BOOLEAN
           /\ host.addr \in {0, 1} /\ host.req \in AllRequests
           /\ host.answer \in Banks \cup {"stall"}
           /\ host.stage \in {"idle", "data", "status_in", "status_out"}
BY Zenon DEF Inv, CtlInv, Ctl, Host, Addresses

LEMMA NewHostFields ==
    /\ NewHost.addr = 0 /\ NewHost.conf = FALSE /\ NewHost.reset = FALSE
    /\ NewHost.stage = "idle" /\ NewHost.req = "getDesc" /\ NewHost.answer = "none"
    /\ NewHost.unsure = FALSE
BY DEF NewHost

\* What the control endpoint has to do with the host.
SameCtl == /\ ctl'.state = ctl.state /\ ctl'.packet = ctl.packet
           /\ ctl'.callback = ctl.callback /\ ctl'.addr = ctl.addr
           /\ ctl'.conf = ctl.conf /\ ctl'.msc = ctl.msc /\ ctl'.in = ctl.in
           /\ ctl'.stall = ctl.stall /\ ctl'.irq = ctl.irq

\* The flag of the bulk endpoint is nothing to the control endpoint.
SameFlags == /\ \A f \in {"rxstp", "trcpt1", "trcpt0", "trfail1", "trfail0"} :
                    f \in ctl'.flags <=> f \in ctl.flags
             /\ ctl.flags = {} => ctl'.flags = {} \/ host.conf

LEMMA OthersKeepControl ==
    ASSUME StageInv, SameCtl, SameFlags, host' = host, Pending' <=> Pending
    PROVE  StageInv'
<1> USE DEF SameCtl, SameFlags
<1>1. Owed' = Owed /\ ConfAfter' = ConfAfter /\ (Agreed' <=> Agreed)
    BY DEF Owed, ConfAfter, Agreed
<1>2. AnswersTheRequest'
    BY <1>1 DEF StageInv, AnswersTheRequest
<1>3. ~host'.reset => host' = NewHost' /\ ctl'.flags = {}
    BY NewHostFields DEF StageInv, NewHost
<1>4. ASSUME host.reset, ~host.unsure PROVE HostShape' /\ Together'
  <2>1. Together /\ HostShape
      BY <1>4 DEF StageInv
  <2>2. Waiting => Waiting'
      BY DEF Waiting
  <2>3. Phase => Phase'
      BY <1>1 DEF Phase, InData, InStatus, OutStatus, AtRest
  <2>4. Harmless => Harmless'
      BY DEF Harmless
  <2>5. HostShape'
      BY <2>1 DEF HostShape
  <2> QED BY <1>1, <2>1, <2>2, <2>3, <2>4, <2>5 DEF Together
<1> QED BY <1>2, <1>3, <1>4 DEF StageInv

----------------------------------------------------------------------------
(* What serving a flag does to the record: Untouched names the fields that  *)
(* only a SETUP packet or a bus reset changes.                              *)

LEMMA SetupFirst ==
    ASSUME NEW c \in Ctl, c.flags # {}
    PROVE  /\ Served(c) \in c.flags
           /\ "rxstp" \in c.flags => Served(c) = "rxstp"
<1> DEFINE rank(f) == ServedBefore[f]
           S(f)    == \A g \in c.flags : rank(f) <= rank(g)
<1>1. /\ rank("rxstp") = 1 /\ rank("trcpt1") = 2 /\ rank("trcpt0") = 3
      /\ rank("trfail1") = 4 /\ rank("trfail0") = 5 /\ rank("bulk") = 6
    BY DEF ServedBefore
<1>2. Served(c) \in c.flags
    BY ServedIsSet
<1>3. c.flags \subseteq EpFlags
    BY Zenon DEF Ctl
<1>4. ASSUME "rxstp" \in c.flags PROVE Served(c) = "rxstp"
  <2> HIDE DEF rank
  <2>1. \A f \in c.flags : S(f) => f = "rxstp"
      BY <1>1, <1>3, <1>4, SMT DEF EpFlags
  <2>2. S("rxstp")
      BY <1>1, <1>3, SMT DEF EpFlags
  <2>3. Served(c) = CHOOSE f \in c.flags : S(f)
      BY Zenon DEF Served, rank
  <2> HIDE DEF S
  <2> QED BY <1>4, <2>1, <2>2, <2>3, Zenon
<1> QED BY <1>2, <1>4

Untouched(d, c) == /\ d.packet = c.packet /\ d.conf = c.conf /\ d.msc = c.msc
                   /\ d.irq = c.irq /\ d.flags = c.flags

LEMMA HaltDoes ==
    ASSUME NEW c \in Ctl, NEW dir \in {"in", "out"}
    PROVE  LET d == SetHalt(c, dir)
           IN  /\ Untouched(d, c) /\ d.state = c.state /\ d.callback = c.callback
               /\ d.addr = c.addr /\ d.in = c.in /\ d.stall = c.stall \cup {dir}
BY Zenon DEF SetHalt, Untouched, Ctl

LEMMA StateDoes ==
    ASSUME NEW c \in Ctl, NEW s \in CtlStates
    PROVE  LET d == [c EXCEPT !.state = s]
           IN  /\ Untouched(d, c) /\ d.state = s /\ d.callback = c.callback
               /\ d.addr = c.addr /\ d.in = c.in /\ d.stall = c.stall
BY Zenon DEF Untouched, Ctl

LEMMA ReadDoes ==
    ASSUME NEW c \in Ctl
    PROVE  LET d == ReadBufferJob(c)
           IN  /\ d \in Ctl /\ Untouched(d, c) /\ d.state = c.state
               /\ d.callback = c.callback /\ d.addr = c.addr /\ d.in = c.in
               /\ d.stall = c.stall /\ d.sent = c.sent
<1>1. ReadBufferJob(c) \in Ctl
    BY JobsType
<1> QED BY <1>1, Zenon DEF ReadBufferJob, Untouched, Ctl

LEMMA WriteDoes ==
    ASSUME NEW c \in Ctl, NEW what \in Banks
    PROVE  LET d == WriteBufferJob(c, what)
           IN  /\ d \in Ctl /\ Untouched(d, c) /\ d.state = c.state
               /\ d.callback = c.callback /\ d.addr = c.addr /\ d.in = what
               /\ d.stall = c.stall
<1>1. WriteBufferJob(c, what) \in Ctl
    BY JobsType
<1> QED BY <1>1, Zenon DEF WriteBufferJob, Untouched, Ctl

LEMMA UnderflowDoes ==
    ASSUME NEW c \in Ctl
    PROVE  LET d == Underflow(c)
           IN  /\ Untouched(d, c) /\ d.state = c.state /\ d.callback = c.callback
               /\ d.addr = c.addr /\ d.in = c.in
               /\ d.stall = IF c.state = "wait_out" THEN c.stall \cup {"in"} ELSE c.stall
<1>1. Underflow(c) = IF c.state = "wait_out" THEN SetHalt(c, "in") ELSE c
    BY DEF Underflow
<1>2. Untouched(c, c)
    BY DEF Untouched
<1> QED BY <1>1, <1>2, HaltDoes

LEMMA OverflowDoes ==
    ASSUME NEW c \in Ctl
    PROVE  LET d == Overflow(c)
           IN  /\ Untouched(d, c) /\ d.callback = c.callback
               /\ d.addr = c.addr /\ d.in = c.in
               /\ d.state = IF c.state = "data_in" THEN "wait_out" ELSE c.state
               /\ d.stall = IF c.state = "wait_in" THEN c.stall \cup {"out"} ELSE c.stall
<1>1. "wait_out" \in CtlStates /\ "out" \in {"in", "out"}
    BY DEF CtlStates
<1>2. Overflow(c) = IF c.state = "data_in" THEN [c EXCEPT !.state = "wait_out"]
                    ELSE IF c.state = "wait_in" THEN SetHalt(c, "out") ELSE c
    BY DEF Overflow
<1>3. Untouched(c, c)
    BY DEF Untouched
<1>4. LET d == [c EXCEPT !.state = "wait_out"]
      IN  /\ Untouched(d, c) /\ d.state = "wait_out" /\ d.callback = c.callback
          /\ d.addr = c.addr /\ d.in = c.in /\ d.stall = c.stall
    BY <1>1, StateDoes
<1>5. LET d == SetHalt(c, "out")
      IN  /\ Untouched(d, c) /\ d.state = c.state /\ d.callback = c.callback
          /\ d.addr = c.addr /\ d.in = c.in /\ d.stall = c.stall \cup {"out"}
    BY <1>1, HaltDoes
<1>6. c.state = "data_in" => c.state # "wait_in"
    OBVIOUS
<1> QED BY <1>2, <1>3, <1>4, <1>5, <1>6

LEMMA CallbackDoes ==
    ASSUME NEW c \in Ctl
    PROVE  LET d == RunCallback(c)
           IN  /\ d \in Ctl /\ Untouched(d, c) /\ d.callback = c.callback
               /\ d.state = c.state /\ d.in = c.in /\ d.stall = c.stall
               /\ d.addr = IF c.callback THEN 1 ELSE c.addr
<1>1. RunCallback(c) \in Ctl
    BY RequestType
<1> QED BY <1>1, Zenon DEF RunCallback, Untouched, Ctl

\* All the data are sent by the first load.
LEMMA TransferDoes ==
    ASSUME NEW c, CtlInv(c)
    PROVE  LET d == TransferOk(c)
           IN  /\ Untouched(d, c) /\ d.callback = c.callback
               /\ d.in = c.in /\ d.stall = c.stall
               /\ d.state = IF c.state = "data_in" THEN "wait_out" ELSE "setup"
               /\ d.addr = IF c.state # "data_in" /\ c.callback THEN 1 ELSE c.addr
<1>1. c \in Ctl /\ (c.state = "data_in" => c.sent)
    BY DEF CtlInv
<1>2. "wait_out" \in CtlStates /\ "setup" \in CtlStates
    BY DEF CtlStates
<1>3. CASE c.state = "data_in"
  <2> DEFINE r == ReadBufferJob(c)
  <2>1. TransferOk(c) = [r EXCEPT !.state = "wait_out"]
      BY <1>1, <1>3 DEF TransferOk, InSent
  <2>2. /\ r \in Ctl /\ Untouched(r, c) /\ r.callback = c.callback
        /\ r.addr = c.addr /\ r.in = c.in /\ r.stall = c.stall
      BY <1>1, ReadDoes
  <2> HIDE DEF r
  <2>3. LET d == [r EXCEPT !.state = "wait_out"]
        IN  /\ Untouched(d, r) /\ d.state = "wait_out" /\ d.callback = r.callback
            /\ d.addr = r.addr /\ d.in = r.in /\ d.stall = r.stall
      BY <1>2, <2>2, StateDoes
  <2> QED BY <1>3, <2>1, <2>2, <2>3 DEF Untouched
<1>4. CASE c.state # "data_in"
  <2> DEFINE r == RunCallback(c)
  <2>1. TransferOk(c) = [r EXCEPT !.state = "setup"]
      BY <1>4 DEF TransferOk
  <2>2. /\ r \in Ctl /\ Untouched(r, c) /\ r.callback = c.callback
        /\ r.in = c.in /\ r.stall = c.stall
        /\ r.addr = IF c.callback THEN 1 ELSE c.addr
      BY <1>1, CallbackDoes
  <2> HIDE DEF r
  <2>3. LET d == [r EXCEPT !.state = "setup"]
        IN  /\ Untouched(d, r) /\ d.state = "setup" /\ d.callback = r.callback
            /\ d.addr = r.addr /\ d.in = r.in /\ d.stall = r.stall
      BY <1>2, <2>2, StateDoes
  <2> QED BY <1>4, <2>1, <2>2, <2>3 DEF Untouched
<1> QED BY <1>3, <1>4

\* The fields that no request changes but by its answer.
Aside(d, c) == /\ d.state = c.state /\ d.packet = c.packet /\ d.addr = c.addr
               /\ d.in = c.in /\ d.stall = c.stall /\ d.irq = c.irq

BulkApart(d, c) == d.flags = c.flags \/ d.flags = c.flags \ {"bulk"}

LEMMA InterfaceDoes ==
    ASSUME NEW c \in Ctl
    PROVE  /\ LET d == IfaceDisable(c)
              IN  d \in Ctl /\ Aside(d, c) /\ BulkApart(d, c)
                  /\ d.callback = c.callback /\ d.conf = c.conf /\ d.msc = FALSE
           /\ LET d == IfaceEnable(c)
              IN  d \in Ctl /\ Aside(d, c) /\ d.flags = c.flags
                  /\ d.callback = c.callback /\ d.conf = c.conf /\ d.msc = TRUE
           /\ LET d == BulkReset(c)
              IN  d \in Ctl /\ Aside(d, c) /\ BulkApart(d, c)
                  /\ d.callback = c.callback /\ d.conf = c.conf /\ d.msc = c.msc
           /\ LET d == SetAddress(c)
              IN  d \in Ctl /\ Aside(d, c) /\ d.flags = c.flags
                  /\ d.callback = TRUE /\ d.conf = c.conf /\ d.msc = c.msc
<1>1. LET d == IfaceDisable(c)
      IN  d \in Ctl /\ Aside(d, c) /\ BulkApart(d, c)
          /\ d.callback = c.callback /\ d.conf = c.conf /\ d.msc = FALSE
    <2>1. IfaceDisable(c) \in Ctl
        BY RequestType
    <2> QED BY <2>1, Zenon DEF IfaceDisable, Aside, BulkApart, Ctl
<1>2. LET d == IfaceEnable(c)
      IN  d \in Ctl /\ Aside(d, c) /\ d.flags = c.flags
          /\ d.callback = c.callback /\ d.conf = c.conf /\ d.msc = TRUE
    <2>1. IfaceEnable(c) \in Ctl
        BY RequestType
    <2> QED BY <2>1, Zenon DEF IfaceEnable, Aside, Ctl
<1>3. LET d == BulkReset(c)
      IN  d \in Ctl /\ Aside(d, c) /\ BulkApart(d, c)
          /\ d.callback = c.callback /\ d.conf = c.conf /\ d.msc = c.msc
    <2>1. BulkReset(c) \in Ctl
        BY RequestType
    <2> QED BY <2>1, Zenon DEF BulkReset, Aside, BulkApart, Ctl
<1>4. LET d == SetAddress(c)
      IN  d \in Ctl /\ Aside(d, c) /\ d.flags = c.flags
          /\ d.callback = TRUE /\ d.conf = c.conf /\ d.msc = c.msc
    <2>1. SetAddress(c) \in Ctl
        BY RequestType
    <2> QED BY <2>1, Zenon DEF SetAddress, Aside, Ctl
<1> QED BY <1>1, <1>2, <1>3, <1>4

LEMMA ConfDoes ==
    ASSUME NEW c \in Ctl, NEW b \in BOOLEAN
    PROVE  LET d == [c EXCEPT !.conf = b]
           IN  d \in Ctl /\ Aside(d, c) /\ d.flags = c.flags
               /\ d.callback = c.callback /\ d.conf = b /\ d.msc = c.msc
BY Zenon DEF Aside, Ctl

LEMMA UdcResetDoes ==
    ASSUME NEW c \in Ctl
    PROVE  LET d == UdcReset(c)
           IN  d \in Ctl /\ Aside(d, c) /\ BulkApart(d, c)
               /\ d.callback = c.callback /\ d.conf = FALSE
               /\ d.msc = IF c.conf THEN FALSE ELSE c.msc
<1> DEFINE e == IF c.conf THEN IfaceDisable(c) ELSE c
<1>1. /\ e \in Ctl /\ Aside(e, c) /\ BulkApart(e, c) /\ e.callback = c.callback
      /\ e.msc = IF c.conf THEN FALSE ELSE c.msc
    BY InterfaceDoes DEF Aside, BulkApart
<1> HIDE DEF e
<1>2. LET d == [e EXCEPT !.conf = FALSE]
      IN  d \in Ctl /\ Aside(d, e) /\ d.flags = e.flags
          /\ d.callback = e.callback /\ d.conf = FALSE /\ d.msc = e.msc
    BY <1>1, ConfDoes
<1>3. UdcReset(c) = [e EXCEPT !.conf = FALSE]
    BY DEF UdcReset, e
<1> QED BY <1>1, <1>2, <1>3 DEF Aside, BulkApart

\* The effect of a request on the configuration and on the callback.
LEMMA EffectDoes ==
    ASSUME NEW c \in Ctl, NEW r \in AllRequests, c.msc => c.conf
    PROVE  LET d == Effect(c, r)
           IN  /\ d \in Ctl /\ Aside(d, c) /\ BulkApart(d, c)
               /\ d.callback = IF r = "setAddress" THEN TRUE ELSE c.callback
               /\ d.conf = IF r = "setConf" /\ c.addr # 0 THEN TRUE
                           ELSE IF r = "unconf" /\ c.addr # 0 THEN FALSE ELSE c.conf
               /\ d.msc => d.conf
               /\ r # "badIface" /\ c.msc = c.conf => d.msc = d.conf
<1> DEFINE reset   == UdcReset(c)
           enabled == IfaceEnable(reset)
           set     == [enabled EXCEPT !.conf = TRUE]
           dead    == IfaceDisable(c)
           alive   == IfaceEnable(dead)
           bulk    == BulkReset(c)
           address == SetAddress(c)
<1>0. c.conf \in BOOLEAN /\ c.msc \in BOOLEAN
    BY Zenon DEF Ctl
<1>1. /\ reset \in Ctl /\ Aside(reset, c) /\ BulkApart(reset, c)
      /\ reset.callback = c.callback /\ reset.conf = FALSE
      /\ reset.msc = IF c.conf THEN FALSE ELSE c.msc
    BY UdcResetDoes
<1>2. /\ dead \in Ctl /\ Aside(dead, c) /\ BulkApart(dead, c)
      /\ dead.callback = c.callback /\ dead.conf = c.conf /\ dead.msc = FALSE
    BY InterfaceDoes
<1>3. /\ bulk \in Ctl /\ Aside(bulk, c) /\ BulkApart(bulk, c)
      /\ bulk.callback = c.callback /\ bulk.conf = c.conf /\ bulk.msc = c.msc
    BY InterfaceDoes
<1>4. /\ address \in Ctl /\ Aside(address, c) /\ address.flags = c.flags
      /\ address.callback = TRUE /\ address.conf = c.conf /\ address.msc = c.msc
    BY InterfaceDoes
<1> HIDE DEF reset, dead, bulk, address
<1>5. /\ enabled \in Ctl /\ Aside(enabled, reset) /\ enabled.flags = reset.flags
      /\ enabled.callback = reset.callback /\ enabled.msc = TRUE
    BY <1>1, InterfaceDoes
<1>6. /\ alive \in Ctl /\ Aside(alive, dead) /\ alive.flags = dead.flags
      /\ alive.callback = dead.callback /\ alive.conf = dead.conf /\ alive.msc = TRUE
    BY <1>2, InterfaceDoes
<1> HIDE DEF enabled, alive
<1>7. /\ set \in Ctl /\ Aside(set, enabled) /\ set.flags = enabled.flags
      /\ set.callback = enabled.callback /\ set.conf = TRUE /\ set.msc = enabled.msc
    BY <1>5, ConfDoes
<1> HIDE DEF set
<1>8. Effect(c, r) =
          CASE r = "setAddress"            -> address
            [] r = "setConf"               -> IF c.addr = 0 THEN c ELSE set
            [] r = "unconf"                -> IF c.addr = 0 THEN c ELSE reset
            [] r = "setIface" /\ c.conf    -> alive
            [] r = "badIface" /\ c.conf    -> dead
            [] r = "mscReset" /\ c.conf    -> bulk
            [] OTHER                       -> c
    BY DEF Effect, SetConfiguration, reset, enabled, set, dead, alive, bulk, address
<1> USE DEF Aside, BulkApart
<1>9. CASE r = "setAddress"
    BY <1>4, <1>8, <1>9
<1>10. CASE r = "setConf" /\ c.addr # 0
    BY <1>1, <1>5, <1>7, <1>8, <1>10
<1>11. CASE r = "unconf" /\ c.addr # 0
    BY <1>0, <1>1, <1>8, <1>11
<1>12. CASE r = "setIface" /\ c.conf
    BY <1>0, <1>2, <1>6, <1>8, <1>12
<1>13. CASE r = "badIface" /\ c.conf
    BY <1>2, <1>8, <1>13
<1>14. CASE r = "mscReset" /\ c.conf
    BY <1>3, <1>8, <1>14
<1>15. CASE /\ r # "setAddress" /\ ~(r \in {"setConf", "unconf"} /\ c.addr # 0)
            /\ ~(r \in {"setIface", "badIface", "mscReset"} /\ c.conf)
  <2>1. Effect(c, r) = c
      BY <1>8, <1>15
  <2> QED BY <1>15, <2>1
<1> QED BY <1>9, <1>10, <1>11, <1>12, <1>13, <1>14, <1>15

\* The address once the request before is ended.
AddressAt(c) == IF c.state # "setup" /\ c.callback THEN 1 ELSE c.addr

AcceptsAt(c, r, a) == \/ r \in {"getDesc", "setAddress"}
                      \/ r \in {"setConf", "unconf"} /\ a # 0
                      \/ r \in {"getMaxLun", "setIface", "mscReset"} /\ c.conf

\* A SETUP packet has been served: what its request has changed, and what the banks
\* answer.
Answered(d, c, r, a) ==
    /\ d.addr = a /\ d.irq = c.irq /\ BulkApart(d, c)
    /\ d.conf = IF r = "setConf" /\ a # 0 THEN TRUE
                ELSE IF r = "unconf" /\ a # 0 THEN FALSE ELSE c.conf
    /\ d.msc => d.conf
    /\ r # "badIface" /\ c.msc = c.conf => d.msc = d.conf
    /\ d.callback = IF r = "setAddress" THEN TRUE ELSE FALSE
    /\ ~AcceptsAt(c, r, a) => d.state = "stall_req" /\ d.stall = {"in"}
    /\ AcceptsAt(c, r, a) /\ r \in InRequests =>
           d.state = "data_in" /\ d.in = r /\ d.stall = c.stall
    /\ AcceptsAt(c, r, a) /\ r \notin InRequests =>
           d.state = "wait_in" /\ d.in = "zlp" /\ d.stall = c.stall

LEMMA SetupDoes ==
    ASSUME NEW c \in Ctl, c.msc => c.conf
    PROVE  Answered(OnSetup(c), c, c.packet, AddressAt(c))
<1> DEFINE a       == AddressAt(c)
           r       == c.packet
           accepts == AcceptsAt(c, r, a)
           ended == IF c.state = "setup" THEN c ELSE RunCallback(c)
           fresh == [ended EXCEPT !.state = "setup", !.callback = FALSE]
           done  == Effect(fresh, c.packet)
           heard == ReadBufferJob(done)
           reads == [heard EXCEPT !.state = "data_in", !.sent = FALSE]
           load  == WriteBufferJob(reads, reads.packet)
           zlp   == WriteBufferJob(heard, "zlp")
<1>1. /\ "setup" \in CtlStates /\ "data_in" \in CtlStates /\ r \in AllRequests
      /\ "wait_in" \in CtlStates /\ "zlp" \in Banks /\ InRequests \subseteq Banks
    BY Zenon DEF CtlStates, Ctl, Banks
<1>2. ended \in Ctl /\ Untouched(ended, c) /\ ended.in = c.in /\ ended.stall = c.stall
      /\ ended.addr = a
    BY CallbackDoes DEF Untouched, AddressAt
<1> HIDE DEF ended, a
<1>3. /\ fresh \in Ctl /\ Untouched(fresh, c) /\ fresh.stall = c.stall
      /\ fresh.addr = a /\ fresh.callback = FALSE
    BY <1>1, <1>2, Zenon DEF Untouched, Ctl
<1> HIDE DEF fresh
<1>4. /\ done \in Ctl /\ Aside(done, fresh) /\ BulkApart(done, fresh)
      /\ done.callback = IF r = "setAddress" THEN TRUE ELSE FALSE
      /\ done.conf = IF r = "setConf" /\ a # 0 THEN TRUE
                     ELSE IF r = "unconf" /\ a # 0 THEN FALSE ELSE c.conf
      /\ done.msc => done.conf
      /\ r # "badIface" /\ c.msc = c.conf => done.msc = done.conf
  <2>1. fresh.conf = c.conf /\ fresh.msc = c.msc /\ fresh.packet = c.packet
      BY <1>3 DEF Untouched
  <2>2. fresh.msc => fresh.conf
      BY <2>1
  <2> HIDE DEF r
  <2>3. LET d == Effect(fresh, r)
        IN  /\ d \in Ctl /\ Aside(d, fresh) /\ BulkApart(d, fresh)
            /\ d.callback = IF r = "setAddress" THEN TRUE ELSE fresh.callback
            /\ d.conf = IF r = "setConf" /\ fresh.addr # 0 THEN TRUE
                        ELSE IF r = "unconf" /\ fresh.addr # 0 THEN FALSE
                        ELSE fresh.conf
            /\ d.msc => d.conf
            /\ r # "badIface" /\ fresh.msc = fresh.conf => d.msc = d.conf
      BY <1>1, <1>3, <2>2, EffectDoes
  <2>4. done = Effect(fresh, r)
      BY DEF r
  <2> HIDE DEF done
  <2> QED BY <1>3, <2>1, <2>3, <2>4
<1> HIDE DEF done
<1>5. /\ heard \in Ctl /\ Untouched(heard, done) /\ heard.callback = done.callback
      /\ heard.addr = done.addr /\ heard.stall = done.stall
    BY <1>4, ReadDoes
<1> HIDE DEF heard
<1>6. /\ reads \in Ctl /\ Untouched(reads, done) /\ reads.callback = done.callback
      /\ reads.addr = done.addr /\ reads.stall = done.stall
      /\ reads.state = "data_in" /\ ~reads.sent
    BY <1>1, <1>5, Zenon DEF Untouched, Ctl
<1> HIDE DEF reads
<1>7. OnSetup(c) = IF ~Accepts(fresh, r) THEN StallData(done)
                   ELSE IF r \in InRequests THEN InSent(reads)
                        ELSE SendZlpIn(done)
    BY DEF OnSetup, ended, fresh, done, reads, heard
<1>8. Accepts(fresh, r) <=> accepts
    BY <1>3 DEF Accepts, AcceptsAt, Untouched
<1>9. /\ a = fresh.addr /\ fresh.addr = done.addr /\ c.packet = done.packet
      /\ done.irq = c.irq /\ BulkApart(done, c) /\ done.stall = c.stall
    BY <1>3, <1>4 DEF Aside, BulkApart, Untouched
<1> HIDE DEF accepts
<1>c. ASSUME NEW d, Untouched(d, done), d.callback = done.callback, d.addr = done.addr
      PROVE  /\ d.addr = a /\ d.irq = c.irq /\ BulkApart(d, c)
             /\ d.conf = IF r = "setConf" /\ a # 0 THEN TRUE
                         ELSE IF r = "unconf" /\ a # 0 THEN FALSE ELSE c.conf
             /\ d.msc => d.conf
             /\ r # "badIface" /\ c.msc = c.conf => d.msc = d.conf
             /\ d.callback = IF r = "setAddress" THEN TRUE ELSE FALSE
  <2>1. d.conf = done.conf /\ d.msc = done.msc /\ d.irq = done.irq
        /\ d.flags = done.flags
      BY <1>c DEF Untouched
  <2>2. BulkApart(d, c)
      BY <1>9, <2>1 DEF BulkApart
  <2> HIDE DEF r
  <2> QED BY <1>4, <1>9, <1>c, <2>1, <2>2, Zenon
<1>10. ASSUME ~accepts PROVE Answered(OnSetup(c), c, r, a)
  <2>1. OnSetup(c) = StallData(done)
      BY <1>7, <1>8, <1>10
  <2>2. LET d == StallData(done)
        IN  /\ Untouched(d, done) /\ d.callback = done.callback /\ d.addr = done.addr
            /\ d.state = "stall_req" /\ d.stall = {"in"}
      BY <1>4, Zenon DEF StallData, Untouched, Ctl
  <2> QED BY <1>10, <1>c, <1>9, <2>1, <2>2 DEF Answered, accepts
<1>11. ASSUME accepts, r \in InRequests PROVE Answered(OnSetup(c), c, r, a)
  <2>1. reads.packet = r
      BY <1>6, <1>9 DEF Untouched
  <2>2. /\ load \in Ctl /\ Untouched(load, reads) /\ load.state = "data_in"
        /\ load.callback = reads.callback /\ load.addr = reads.addr
        /\ load.in = r /\ load.stall = reads.stall
      BY <1>1, <1>6, <1>11, <2>1, WriteDoes
  <2>3. OnSetup(c) = [load EXCEPT !.sent = TRUE]
      BY <1>6, <1>7, <1>8, <1>11 DEF InSent
  <2> HIDE DEF load
  <2>4. LET d == [load EXCEPT !.sent = TRUE]
        IN  /\ Untouched(d, load) /\ d.callback = load.callback /\ d.addr = load.addr
            /\ d.state = load.state /\ d.stall = load.stall /\ d.in = load.in
      BY <2>2, Zenon DEF Untouched, Ctl
  <2> DEFINE d == [load EXCEPT !.sent = TRUE]
  <2>5. Untouched(d, done) /\ d.callback = done.callback /\ d.addr = done.addr
      BY <1>6, <2>2, <2>4 DEF Untouched
  <2>6. d.state = "data_in" /\ d.in = r /\ d.stall = c.stall
      BY <1>6, <1>9, <2>2, <2>4
  <2> HIDE DEF d
  <2> QED BY <1>11, <1>c, <2>3, <2>5, <2>6 DEF Answered, accepts, d
<1>12. ASSUME accepts, r \notin InRequests PROVE Answered(OnSetup(c), c, r, a)
  <2>1. /\ zlp \in Ctl /\ Untouched(zlp, heard)
        /\ zlp.callback = heard.callback /\ zlp.addr = heard.addr
        /\ zlp.in = "zlp" /\ zlp.stall = heard.stall
      BY <1>1, <1>5, WriteDoes
  <2>2. OnSetup(c) = [zlp EXCEPT !.state = "wait_in"]
      BY <1>7, <1>8, <1>12 DEF SendZlpIn, zlp, heard
  <2> HIDE DEF zlp
  <2>3. LET d == [zlp EXCEPT !.state = "wait_in"]
        IN  /\ Untouched(d, zlp) /\ d.state = "wait_in" /\ d.callback = zlp.callback
            /\ d.addr = zlp.addr /\ d.in = zlp.in /\ d.stall = zlp.stall
      BY <1>1, <2>1, StateDoes
  <2> DEFINE d == [zlp EXCEPT !.state = "wait_in"]
  <2>4. Untouched(d, done) /\ d.callback = done.callback /\ d.addr = done.addr
      BY <1>5, <2>1, <2>3 DEF Untouched
  <2>5. d.state = "wait_in" /\ d.in = "zlp" /\ d.stall = c.stall
      BY <1>5, <1>9, <2>1, <2>3
  <2> HIDE DEF d
  <2> QED BY <1>12, <1>c, <2>2, <2>4, <2>5 DEF Answered, accepts, d
<1>13. Answered(OnSetup(c), c, r, a)
    BY <1>10, <1>11, <1>12
<1> QED BY <1>13 DEF a

LEMMA BusResetDoes ==
    ASSUME NEW c \in Ctl
    PROVE  LET d == OnBusReset(c)
           IN  /\ d.packet = c.packet /\ d.callback = c.callback /\ d.addr = 0
               /\ d.conf = FALSE /\ d.msc = (IF c.conf THEN FALSE ELSE c.msc)
               /\ d.state = "setup" /\ d.irq = TRUE /\ d.stall = c.stall
               /\ BulkApart(d, c)
<1> DEFINE b == UdcReset(c)
           e == [b EXCEPT !.addr = 0]
           f == ReadBufferJob(e)
<1>1. /\ b \in Ctl /\ Aside(b, c) /\ BulkApart(b, c) /\ b.callback = c.callback
      /\ b.conf = FALSE /\ b.msc = IF c.conf THEN FALSE ELSE c.msc
    BY UdcResetDoes
<1> HIDE DEF b
<1>2. /\ e \in Ctl /\ Untouched(e, b) /\ e.callback = b.callback /\ e.addr = 0
      /\ e.stall = b.stall
    BY <1>1, Zenon DEF Untouched, Addresses, Ctl
<1> HIDE DEF e
<1>3. /\ f \in Ctl /\ Untouched(f, e) /\ f.callback = e.callback /\ f.addr = e.addr
      /\ f.stall = e.stall
    BY <1>2, ReadDoes
<1> HIDE DEF f
<1>4. OnBusReset(c) = [f EXCEPT !.irq = TRUE, !.state = "setup"]
    BY DEF OnBusReset, CtrlEpEnable, b, e, f
<1>5. LET d == [f EXCEPT !.irq = TRUE, !.state = "setup"]
      IN  /\ d.packet = f.packet /\ d.callback = f.callback /\ d.addr = f.addr
          /\ d.conf = f.conf /\ d.msc = f.msc /\ d.state = "setup" /\ d.irq = TRUE
          /\ d.stall = f.stall /\ d.flags = f.flags
    BY <1>3, Zenon DEF Ctl
<1> QED BY <1>1, <1>2, <1>3, <1>4, <1>5 DEF Untouched, Aside, BulkApart

----------------------------------------------------------------------------
(* The interrupt of the bus reset is never masked while the device is on   *)
(* the bus.                                                                *)

Keeps(q, p) == /\ q.attached = p.attached
               /\ "reset" \in p.enabled => "reset" \in q.enabled

LEMMA SleepModeAttached ==
    ASSUME NEW p, Balanced(p), NEW new \in UsbStates \ {"off"}
    PROVE  UddSleepMode(p, new).attached = p.attached
<1> DEFINE locked == LockMode(p, SleepMode[new])
           unlocked == IF p.usb = "off" THEN locked
                       ELSE UnlockMode(locked, SleepMode[p.usb])
<1>1. p \in AnyPower
    BY DEF Balanced
<1>2. locked.attached = p.attached /\ locked = [p EXCEPT !.locks = locked.locks]
    BY <1>1, Zenon DEF LockMode, AnyPower
<1>3. unlocked.attached = p.attached /\ unlocked = [p EXCEPT !.locks = unlocked.locks]
    <2> HIDE DEF locked
    <2> QED BY <1>1, <1>2, Zenon DEF UnlockMode, AnyPower
<1>4. UddSleepMode(p, new) = IF p.usb = new THEN p
                             ELSE [unlocked EXCEPT !.usb = new]
    BY DEF UddSleepMode
<1> HIDE DEF unlocked
<1>5. [unlocked EXCEPT !.usb = new].attached = p.attached
    BY <1>1, <1>3, Zenon DEF AnyPower
<1> QED BY <1>4, <1>5

LEMMA SleepModeKeepsReset ==
    ASSUME NEW p, Balanced(p), NEW new \in UsbStates \ {"off"}
    PROVE  Balanced(UddSleepMode(p, new)) /\ Keeps(UddSleepMode(p, new), p)
BY SleepModeBalanced, SleepModeKeeps, SleepModeAttached DEF Keeps

LEMMA CallbackKeepsReset ==
    ASSUME NEW p, Balanced(p), NEW c \in DeviceFlags \ {"reset"}
    PROVE  /\ Balanced(EnableCallback(p, c)) /\ Keeps(EnableCallback(p, c), p)
           /\ Balanced(DisableCallback(p, c)) /\ Keeps(DisableCallback(p, c), p)
<1>1. /\ EnableCallback(p, c).attached = p.attached
      /\ DisableCallback(p, c).attached = p.attached
    BY Zenon DEF EnableCallback, DisableCallback, Balanced, AnyPower
<1>2. /\ EnableCallback(p, c).enabled = p.enabled \cup {c}
      /\ DisableCallback(p, c).enabled = p.enabled \ {c}
    BY CallbackKeeps
<1> QED BY <1>1, <1>2, CallbackBalanced DEF Keeps

LEMMA UiKeepsReset ==
    ASSUME NEW p, Balanced(p)
    PROVE  /\ Keeps(UiPowerdown(p), p) /\ Keeps(UiWakeup(p), p)
           /\ \A msc \in BOOLEAN, frame \in Frames : Keeps(OnSof(p, msc, frame), p)
BY Zenon DEF Keeps, UiPowerdown, UiWakeup, OnSof, UiProcess, Balanced, AnyPower

LEMMA HandlersKeepReset ==
    ASSUME NEW p, Balanced(p)
    PROVE  /\ Keeps(OnWakeup(p), p) /\ Keeps(OnSuspend(p), p)
           /\ Keeps(OnLpmSuspend(p), p)
<1> USE DEF DeviceFlags, UsbStates
<1>k. \A q, r, s : Keeps(q, r) /\ Keeps(r, s) => Keeps(q, s)
    BY DEF Keeps
<1>1. Keeps(OnWakeup(p), p)
  <2> DEFINE a == DisableCallback(p, "wakeup")
             b == EnableCallback(a, "suspend")
             c == EnableCallback(b, "lpmsusp")
             d == UddSleepMode(c, "idle")
  <2>1. Balanced(a) /\ Keeps(a, p)
      BY CallbackKeepsReset
  <2> HIDE DEF a
  <2>2. Balanced(b) /\ Keeps(b, a)
      BY <2>1, CallbackKeepsReset
  <2> HIDE DEF b
  <2>3. Balanced(c) /\ Keeps(c, b)
      BY <2>2, CallbackKeepsReset
  <2> HIDE DEF c
  <2>4. Balanced(d) /\ Keeps(d, c)
      BY <2>3, SleepModeKeepsReset
  <2> HIDE DEF d
  <2>5. OnWakeup(p) = UiWakeup(d)
      BY DEF OnWakeup, a, b, c, d
  <2> QED BY <1>k, <2>1, <2>2, <2>3, <2>4, <2>5, UiKeepsReset
<1>2. Keeps(OnSuspend(p), p)
  <2> DEFINE a == DisableCallback(p, "suspend")
             b == EnableCallback(a, "wakeup")
             c == UddSleepMode(b, "suspend")
  <2>1. Balanced(a) /\ Keeps(a, p)
      BY CallbackKeepsReset
  <2> HIDE DEF a
  <2>2. Balanced(b) /\ Keeps(b, a)
      BY <2>1, CallbackKeepsReset
  <2> HIDE DEF b
  <2>3. Balanced(c) /\ Keeps(c, b)
      BY <2>2, SleepModeKeepsReset
  <2> HIDE DEF c
  <2>4. OnSuspend(p) = UiPowerdown(c)
      BY DEF OnSuspend, a, b, c
  <2> QED BY <1>k, <2>1, <2>2, <2>3, <2>4, UiKeepsReset
<1>3. Keeps(OnLpmSuspend(p), p)
  <2> DEFINE a == DisableCallback(p, "lpmsusp")
             b == DisableCallback(a, "suspend")
             c == EnableCallback(b, "wakeup")
  <2>1. Balanced(a) /\ Keeps(a, p)
      BY CallbackKeepsReset
  <2> HIDE DEF a
  <2>2. Balanced(b) /\ Keeps(b, a)
      BY <2>1, CallbackKeepsReset
  <2> HIDE DEF b
  <2>3. Balanced(c) /\ Keeps(c, b)
      BY <2>2, CallbackKeepsReset
  <2> HIDE DEF c
  <2>4. OnLpmSuspend(p) = UddSleepMode(c, "lpm")
      BY DEF OnLpmSuspend, a, b, c
  <2> QED BY <1>k, <2>1, <2>2, <2>3, <2>4, SleepModeKeepsReset
<1> QED BY <1>1, <1>2, <1>3

LEMMA FlagsKeepReset ==
    ASSUME Balanced(power), ctl.msc \in BOOLEAN, NEW frame \in Frames
    PROVE  Keeps(AfterFlags(frame), power)
<1> DEFINE run     == power.flags \cap power.enabled
           cleared == [power EXCEPT !.flags = {}]
           sof     == IF "sof" \in run THEN OnSof(cleared, ctl.msc, frame) ELSE cleared
           wakeup  == IF "wakeup" \in run THEN OnWakeup(sof) ELSE sof
           suspend == IF "suspend" \in run THEN OnSuspend(wakeup) ELSE wakeup
           after   == IF "lpmsusp" \in run THEN OnLpmSuspend(suspend) ELSE suspend
<1>k. /\ \A q : Keeps(q, q)
      /\ \A q, r, s : Keeps(q, r) /\ Keeps(r, s) => Keeps(q, s)
    BY DEF Keeps
<1> HIDE DEF run
<1>1. Balanced(cleared) /\ Keeps(cleared, power)
    <2>1. Balanced(cleared)
        BY FieldsBalanced
    <2> QED BY <2>1, Zenon DEF Keeps, Balanced, AnyPower
<1> HIDE DEF cleared
<1>2. Balanced(sof) /\ Keeps(sof, cleared)
    BY <1>1, <1>k, UiBalanced, UiKeepsReset
<1> HIDE DEF sof
<1>3. Balanced(wakeup) /\ Keeps(wakeup, sof)
    BY <1>2, <1>k, HandlersBalanced, HandlersKeepReset
<1> HIDE DEF wakeup
<1>4. Balanced(suspend) /\ Keeps(suspend, wakeup)
    BY <1>3, <1>k, HandlersBalanced, HandlersKeepReset
<1> HIDE DEF suspend
<1>5. Keeps(after, suspend)
    BY <1>4, <1>k, HandlersKeepReset
<1>6. AfterFlags(frame) = after
    BY DEF AfterFlags, run, cleared, sof, wakeup, suspend
<1> QED BY <1>k, <1>1, <1>2, <1>3, <1>4, <1>5, <1>6

LEMMA CableDoes ==
    ASSUME NEW p, Balanced(p)
    PROVE  /\ UddDetach(p).flags = p.flags /\ UddDetach(p).attached = FALSE
           /\ UddAttach(p).flags = {} /\ "reset" \in UddAttach(p).enabled
<1> DEFINE q == [p EXCEPT !.attached = FALSE]
<1>1. Balanced(q)
    BY FieldsBalanced
<1>2. q.attached = FALSE /\ q.flags = p.flags
    BY Zenon DEF Balanced, AnyPower
<1>3. UddDetach(p) = UddSleepMode(q, "suspend")
    BY DEF UddDetach
<1> HIDE DEF q
<1>4. UddDetach(p).flags = p.flags /\ UddDetach(p).attached = FALSE
    BY <1>1, <1>2, <1>3, SleepModeKeeps, SleepModeAttached DEF UsbStates
<1> QED BY <1>4, AttachDoes DEF DeviceFlags

LEMMA ResetInit == Init => ResetInv
<1> SUFFICES ASSUME Init PROVE ResetInv
    OBVIOUS
<1> DEFINE p == [usb |-> "off", locks |-> InitialLocks, flags |-> {},
                 enabled |-> {}, attached |-> FALSE, led |-> FALSE]
<1>1. Balanced(p)
  <2>1. InitialLocks \in [Modes -> Int]
      BY SMT DEF InitialLocks
  <2>2. \A m \in Modes : InitialLocks[m] = Held("off", m)
      BY SMT DEF InitialLocks, Held
  <2> HIDE DEF InitialLocks
  <2>3. p \in AnyPower
      BY <2>1, Zenon DEF AnyPower, UsbStates, DeviceFlags
  <2> QED BY <2>2, <2>3, Zenon DEF Balanced
<1>2. p.flags = {} /\ p.attached = FALSE
    OBVIOUS
<1>3. AtStart = UddSleepMode(p, "suspend")
    BY DEF AtStart
<1> HIDE DEF p
<1>4. AtStart.flags = {} /\ AtStart.attached = FALSE
    BY <1>1, <1>2, <1>3, SleepModeKeeps, SleepModeAttached DEF UsbStates
<1>5. CASE bus = "off"
    BY <1>4, <1>5 DEF Init, ResetInv, Pending
<1>6. CASE bus # "off"
  <2>1. power.flags = {} /\ "reset" \in power.enabled
      BY <1>6, StartBalanced, CableDoes DEF Init, VbusHandler
  <2> QED BY <2>1 DEF ResetInv, Pending
<1> QED BY <1>5, <1>6

\* While a bus reset is not served nothing happens to the cable.
LEMMA PendingIsServed ==
    ASSUME Orderly, ResetInv, Pending
    PROVE  ~BusServed /\ ~Plug /\ ~Unplug /\ ~VbusInterrupt
           /\ ~MayChangeBus
BY DEF Orderly, ResetInv, Pending, BusServed, BusFlags, MayChangeBus, Plug, Unplug,
       VbusInterrupt

\* What the steps do to the flag of the bus reset.
LEMMA BusResetRaises ==
    ASSUME Orderly, Inv, ResetInv, BusReset
    PROVE  ~Pending /\ Pending' /\ ResetInv'
<1>0. Balanced(power)
    BY DEF Inv
<1> DEFINE fs == {"reset"} \cup (IF bus = "active" THEN {} ELSE {"wakeup"})
<1>1. power' = [power EXCEPT !.flags = @ \cup fs]
    BY Zenon DEF BusReset
<1>2. "reset" \in fs
    OBVIOUS
<1> HIDE DEF fs
<1>3. /\ power'.flags = power.flags \cup fs /\ power'.enabled = power.enabled
      /\ power'.attached = power.attached
    BY <1>0, <1>1, Zenon DEF Balanced, AnyPower
<1>4. ~Pending /\ power.attached /\ BusServed /\ eic' = eic
    BY PendingIsServed DEF BusReset, MayChangeBus, Orderly
<1> QED BY <1>2, <1>3, <1>4 DEF Pending, ResetInv, BusServed

LEMMA DeviceServes ==
    ASSUME Inv, ResetInv, DeviceInterrupt
    PROVE  ~Pending' /\ ResetInv'
<1>0. Balanced(power) /\ ctl.msc \in BOOLEAN
    BY FieldsSent DEF Inv
<1>1. PICK frame \in Frames : power' = AfterFlags(frame)
    BY DEF DeviceInterrupt
<1>2. power'.flags = {}
    BY <1>0, <1>1, FlagsDo
<1>3. Keeps(power', power)
    BY <1>0, <1>1, FlagsKeepReset
<1> QED BY <1>2, <1>3 DEF Keeps, Pending, ResetInv

LEMMA OthersKeepReset ==
    ASSUME Orderly, Inv, ResetInv, [Next]_vars, ~BusReset, ~DeviceInterrupt
    PROVE  (Pending' <=> Pending) /\ ResetInv'
<1>0. Balanced(power) /\ Orderly
    BY DEF Inv
<1>1. CASE UNCHANGED power
  <2>1. Pending => eic' = eic
    <3>1. ASSUME Pending PROVE ~Plug /\ ~Unplug /\ ~VbusInterrupt
        BY <3>1, PendingIsServed
    <3>2. CASE Bus
        BY <3>1, <3>2 DEF Bus, Suspend, LpmSuspend, Resume, Sof
    <3>3. CASE Control
        BY <3>3 DEF Control, HostSetup, HostIn, HostOut, HostStopsData,
                    HostGivesUp, HostCommand
    <3>4. CASE EndpointInterrupt
        BY <3>4 DEF EndpointInterrupt
    <3>5. CASE MainLoop
        BY <3>5 DEF MainLoop, TestEnable, ProcessTrans, EnterSleep, IrqEnable, Wfi
    <3>6. CASE UNCHANGED vars
        BY <3>6 DEF vars
    <3> QED BY <3>1, <3>2, <3>3, <3>4, <3>5, <3>6 DEF Next
  <2> QED BY <1>1, <2>1 DEF Pending, ResetInv
<1>2. CASE Suspend \/ LpmSuspend \/ Resume \/ Sof
  <2>1. PICK f \in DeviceFlags \ {"reset"} : Raise(f)
      BY <1>2 DEF Suspend, LpmSuspend, Resume, Sof, DeviceFlags
  <2>2. eic' = eic
      BY <1>2 DEF Suspend, LpmSuspend, Resume, Sof
  <2> QED BY <1>0, <2>1, <2>2, RaiseDoes DEF Pending, ResetInv
<1>3. CASE VbusInterrupt
  <2>1. ~Pending /\ power' = VbusHandler(power, bus # "off")
      BY <1>3, PendingIsServed DEF VbusInterrupt
  <2>2. CASE bus = "off"
      BY <1>0, <2>1, <2>2, CableDoes DEF VbusHandler, Pending, ResetInv
  <2>3. CASE bus # "off"
      BY <1>0, <2>1, <2>3, CableDoes DEF VbusHandler, Pending, ResetInv
  <2> QED BY <2>2, <2>3
<1>4. UNCHANGED power \/ Suspend \/ LpmSuspend \/ Resume \/ Sof \/ VbusInterrupt
  <2>1. ASSUME Bus PROVE Plug \/ Unplug \/ Suspend \/ LpmSuspend \/ Resume \/ Sof
      BY <2>1 DEF Bus
  <2>2. Plug \/ Unplug => UNCHANGED power
      BY DEF Plug, Unplug
  <2>3. Control => UNCHANGED power
      BY DEF Control, HostSetup, HostIn, HostOut, HostStopsData, HostGivesUp,
             HostCommand
  <2>4. EndpointInterrupt \/ MainLoop \/ UNCHANGED vars => UNCHANGED power
      BY DEF EndpointInterrupt, vars, MainLoop, TestEnable, ProcessTrans, EnterSleep,
             IrqEnable, Wfi
  <2> QED BY <2>1, <2>2, <2>3, <2>4 DEF Next
<1> QED BY <1>1, <1>2, <1>3, <1>4

----------------------------------------------------------------------------
(* The moves of the bus, the interrupts and the main loop.                 *)

LEMMA SilentSteps ==
    ASSUME StageInv, UNCHANGED <<ctl, host>>, Pending' <=> Pending
    PROVE  StageInv'
BY OthersKeepControl DEF SameCtl, SameFlags

LEMMA UnplugStage ==
    ASSUME Orderly, Inv, StageInv, Unplug
    PROVE  StageInv'
<1>1. ctl' = ctl /\ ctl.flags = {} /\ host' = NewHost
    BY DEF Unplug, Orderly
<1> QED BY <1>1, NewHostFields DEF StageInv, AnswersTheRequest, NewHost

LEMMA BusResetStage ==
    ASSUME Orderly, Inv, ResetInv, StageInv, BusReset
    PROVE  StageInv'
<1>1. /\ ctl'.addr = 0 /\ ctl'.flags = {} /\ ctl'.stall = {} /\ ctl'.irq = FALSE
      /\ ctl'.conf = ctl.conf /\ ctl'.msc = ctl.msc
    <2>1. ctl \in Ctl
        BY CtlFields
    <2>2. ctl' = [ctl EXCEPT !.addr = 0, !.flags = {}, !.stall = {}, !.irq = FALSE]
        BY DEF BusReset
    <2> QED BY <2>1, <2>2, Zenon DEF Ctl
<1>2. /\ host'.reset = TRUE /\ host'.stage = "idle" /\ host'.addr = 0
      /\ host'.conf = FALSE /\ host'.answer = "none"
    BY DEF BusReset, NewHost
<1>3. Pending'
    BY BusResetRaises
<1> QED BY <1>1, <1>2, <1>3 DEF StageInv, AnswersTheRequest, HostShape, Together

LEMMA DeviceInterruptStage ==
    ASSUME Inv, ResetInv, StageInv, DeviceInterrupt
    PROVE  StageInv'
<1>1. ~Pending' /\ host' = host
    BY DeviceServes DEF DeviceInterrupt
<1>2. CASE ~Pending
    BY <1>1, <1>2, SilentSteps DEF DeviceInterrupt, Pending
<1>3. CASE Pending
  <2>0. /\ ctl' = OnBusReset(ctl) /\ ctl \in Ctl /\ ctl.conf \in BOOLEAN
        /\ host.conf \in BOOLEAN
      BY <1>3, CtlFields DEF DeviceInterrupt, Pending, ResetInv
  <2>1. /\ ctl'.packet = ctl.packet /\ ctl'.callback = ctl.callback /\ ctl'.addr = 0
        /\ ctl'.conf = FALSE /\ ctl'.msc = (IF ctl.conf THEN FALSE ELSE ctl.msc)
        /\ ctl'.state = "setup" /\ ctl'.irq = TRUE /\ ctl'.stall = ctl.stall
        /\ BulkApart(ctl', ctl)
      BY <2>0, BusResetDoes
  <2>2. ctl'.msc = FALSE
      BY <2>0, <2>1, CtlFields DEF StageInv
  <2>3. AnswersTheRequest'
      BY <1>1 DEF StageInv, AnswersTheRequest, Owed
  <2>4. ~host'.reset => host' = NewHost' /\ ctl'.flags = {}
      BY <1>1, <2>1 DEF StageInv, BulkApart, NewHost
  <2>5. ASSUME host.reset, ~host.unsure PROVE HostShape' /\ Together'
    <3>1. HostShape /\ Together
        BY <2>5 DEF StageInv
    <3>2. Agreed'
        BY <1>1, <1>3, <2>0, <2>1, <2>2, <3>1 DEF Together, Agreed
    <3>3. "rxstp" \in ctl'.flags => Waiting' /\ Harmless'
        BY <1>1, <1>3, <2>1, <3>1 DEF Together, Waiting, Harmless, BulkApart
    <3>4. ASSUME "rxstp" \notin ctl'.flags PROVE Phase'
      <4>1. host.stage = "idle" /\ ctl'.flags = {} /\ host.addr = 0
          BY <1>3, <2>1, <3>1, <3>4 DEF Together, BulkApart
      <4> QED BY <1>1, <2>1, <3>2, <4>1 DEF Phase, AtRest
    <3> QED BY <1>1, <2>1, <3>1, <3>2, <3>3, <3>4 DEF Together, HostShape
  <2> QED BY <1>1, <2>1, <2>2, <2>3, <2>4, <2>5 DEF StageInv
<1> QED BY <1>2, <1>3

----------------------------------------------------------------------------
(* The interrupt of the endpoints.                                         *)

LEMMA ServedDoes ==
    ASSUME NEW c \in Ctl
    PROVE  LET f == Served(c)
               d == [c EXCEPT !.flags = @ \ {f}]
           IN  /\ d.state = c.state /\ d.packet = c.packet /\ d.callback = c.callback
               /\ d.addr = c.addr /\ d.conf = c.conf /\ d.msc = c.msc
               /\ d.in = c.in /\ d.stall = c.stall /\ d.irq = c.irq
               /\ d.flags = c.flags \ {f}
BY Zenon DEF Ctl

\* The device serves a SETUP packet.
LEMMA SetupStage ==
    ASSUME NEW d, host' = host, Pending' <=> Pending, ~Pending,
           HostShape, Waiting, Agreed, Harmless, ctl.irq,
           host.conf \in BOOLEAN, host.addr \in {0, 1}, host.req \in AllRequests,
           host.stage \in {"idle", "data", "status_in", "status_out"},
           "rxstp" \in ctl.flags,
           d.state = ctl.state, d.packet = ctl.packet, d.callback = ctl.callback,
           d.addr = ctl.addr, d.conf = ctl.conf, d.msc = ctl.msc,
           d.stall = ctl.stall, d.irq = ctl.irq, d.flags = ctl.flags \ {"rxstp"},
           Answered(ctl', d, d.packet, AddressAt(d))
    PROVE  HostShape' /\ Together'
<1> DEFINE r == host.req
<1>1. AddressAt(d) = host.addr /\ d.packet = r
    BY DEF AddressAt, Waiting, Harmless
<1>2. /\ ctl'.addr = host.addr /\ ctl'.irq /\ BulkApart(ctl', d)
      /\ ctl'.conf = IF r = "setConf" /\ host.addr # 0 THEN TRUE
                     ELSE IF r = "unconf" /\ host.addr # 0 THEN FALSE ELSE host.conf
      /\ ctl'.msc = ctl'.conf
      /\ ctl'.callback = IF r = "setAddress" THEN TRUE ELSE FALSE
    BY <1>1 DEF Answered, Waiting, Agreed
<1>3. /\ ~AcceptsAt(d, r, host.addr) => ctl'.state = "stall_req" /\ ctl'.stall = {"in"}
      /\ AcceptsAt(d, r, host.addr) /\ r \in InRequests =>
             ctl'.state = "data_in" /\ ctl'.in = r /\ ctl'.stall = {}
      /\ AcceptsAt(d, r, host.addr) /\ r \notin InRequests =>
             ctl'.state = "wait_in" /\ ctl'.in = "zlp" /\ ctl'.stall = {}
    BY <1>1 DEF Answered, Waiting
<1>4. Owed = IF ~AcceptsAt(d, r, host.addr) THEN "stall"
             ELSE IF r \in InRequests THEN r ELSE "zlp"
    BY DEF Owed, AcceptsAt, Agreed, Waiting, InRequests, OutRequests, AllRequests
<1>5. /\ "rxstp" \notin ctl'.flags /\ "trcpt1" \notin ctl'.flags
      /\ "trcpt0" \notin ctl'.flags
      /\ host.stage = "data" => "trfail0" \notin ctl'.flags
    BY <1>2 DEF BulkApart, Waiting
<1>6. Owed' = Owed /\ Owed \in {"stall", "zlp"} \cup InRequests /\ r # "stall"
      /\ "stall" \notin InRequests
    BY <1>4 DEF Owed, InRequests, AllRequests, OutRequests
<1>7. r \notin Changes => Agreed'
    BY <1>2 DEF Agreed, Changes
<1>8. ASSUME host.stage = "data" PROVE InData'
  <2>1. r \in InRequests /\ r \notin Changes /\ r # "setAddress"
      BY <1>8 DEF HostShape, Changes, InRequests
  <2> QED BY <1>2, <1>3, <1>4, <1>5, <1>6, <1>7, <1>8, <2>1 DEF InData
<1>9. ASSUME host.stage = "status_in" PROVE InStatus'
  <2>1. r \in OutRequests /\ r \notin InRequests
      BY <1>9 DEF HostShape, InRequests, OutRequests
  <2>2. CASE ~AcceptsAt(d, r, host.addr)
    <3>1. r # "setAddress" /\ ~(r \in {"setConf", "unconf"} /\ host.addr # 0)
        BY <2>2 DEF AcceptsAt
    <3>2. Agreed' /\ ~ctl'.callback
        BY <1>2, <3>1 DEF Agreed
    <3> QED BY <1>2, <1>3, <1>4, <1>5, <1>6, <2>2, <3>2 DEF InStatus
  <2>3. CASE AcceptsAt(d, r, host.addr)
    <3>1. Owed # "stall"
        BY <1>4, <2>1, <2>3
    <3>2. r \in {"setConf", "unconf"} => host.addr # 0
        BY <2>3 DEF AcceptsAt
    <3>3. ctl'.conf = ConfAfter'
        BY <1>2, <3>2 DEF ConfAfter
    <3>4. r = "setAddress" => host.addr = 0
        BY DEF Waiting
    <3> QED BY <1>2, <1>3, <1>5, <1>6, <2>1, <2>3, <3>1, <3>3, <3>4 DEF InStatus
  <2> QED BY <2>2, <2>3
<1>10. ASSUME host.stage = "status_out" PROVE OutStatus'
  <2>1. r = "getDesc"
      BY <1>10 DEF Waiting
  <2> QED BY <1>2, <1>7, <2>1 DEF OutStatus, Changes
<1>11. ASSUME host.stage = "idle" PROVE AtRest'
  <2>1. r \notin Changes
      BY <1>11 DEF Waiting
  <2> QED BY <1>2, <1>7, <2>1 DEF AtRest, Changes
<1> QED BY <1>2, <1>5, <1>8, <1>9, <1>10, <1>11 DEF Together, Phase, HostShape

\* The device serves the end of a transfer.
LEMMA TransferStage ==
    ASSUME NEW d, NEW f \in {"trcpt1", "trcpt0"}, host' = host,
           Pending' <=> Pending, ~Pending, HostShape, Phase, ctl.irq,
           "rxstp" \notin ctl.flags, f \in ctl.flags, d.state = ctl.state,
           d.callback = ctl.callback, d.addr = ctl.addr, d.conf = ctl.conf,
           d.msc = ctl.msc, d.in = ctl.in, d.stall = ctl.stall, d.irq = ctl.irq,
           d.flags = ctl.flags \ {f}, Untouched(ctl', d),
           ctl'.callback = d.callback,
           ctl'.addr = IF d.state # "data_in" /\ d.callback THEN 1 ELSE d.addr
    PROVE  HostShape' /\ Together'
<1>1. host.stage # "data" /\ host.stage # "status_in"
    BY DEF Phase, InData, InStatus
<1>2. "rxstp" \notin ctl'.flags /\ ctl'.irq /\ (Agreed' <=> Agreed)
    BY DEF Untouched, Agreed
<1>3. host.stage = "status_out" => OutStatus'
    BY <1>2 DEF Phase, OutStatus
<1>4. ASSUME host.stage = "idle" PROVE AtRest'
  <2>1. AtRest /\ (ctl.callback => host.addr = 1)
      BY <1>4 DEF Phase, AtRest
  <2> QED BY <1>2, <2>1 DEF AtRest
<1> QED BY <1>1, <1>2, <1>3, <1>4 DEF Together, Phase, HostShape

\* The device learns of an IN token, or of an OUT token, that it answered NAK.
LEMMA FailureStage ==
    ASSUME NEW d, NEW f \in {"trfail1", "trfail0"}, host' = host,
           Pending' <=> Pending, ~Pending, HostShape, Phase, ctl.irq,
           "rxstp" \notin ctl.flags, f \in ctl.flags, d.state = ctl.state,
           d.callback = ctl.callback, d.addr = ctl.addr, d.conf = ctl.conf,
           d.msc = ctl.msc, d.in = ctl.in, d.stall = ctl.stall, d.irq = ctl.irq,
           d.flags = ctl.flags \ {f}, Untouched(ctl', d),
           ctl'.callback = d.callback, ctl'.addr = d.addr, ctl'.in = d.in,
           \/ /\ f = "trfail1" /\ ctl'.state = d.state
              /\ ctl'.stall = IF d.state = "wait_out" THEN d.stall \cup {"in"}
                              ELSE d.stall
           \/ /\ f = "trfail0"
              /\ ctl'.state = IF d.state = "data_in" THEN "wait_out" ELSE d.state
              /\ ctl'.stall = IF d.state = "wait_in" THEN d.stall \cup {"out"}
                              ELSE d.stall
    PROVE  HostShape' /\ Together'
<1>1. /\ "rxstp" \notin ctl'.flags /\ ctl'.irq /\ (Agreed' <=> Agreed)
      /\ \A g \in {"trcpt1", "trcpt0"} : g \in ctl'.flags <=> g \in ctl.flags
      /\ ctl'.flags \subseteq ctl.flags
    BY DEF Untouched, Agreed
<1>2. Owed' = Owed /\ ConfAfter' = ConfAfter
    BY DEF Owed, ConfAfter
<1>3. ASSUME host.stage = "data" PROVE InData'
  <2>1. InData /\ f = "trfail1" /\ ctl.state # "wait_out"
      BY <1>3 DEF Phase, InData
  <2> QED BY <1>1, <1>2, <2>1 DEF InData
<1>4. ASSUME host.stage = "status_in" PROVE InStatus'
  <2>1. InStatus
      BY <1>4 DEF Phase
  <2>2. /\ ctl.state \in {"stall_req", "wait_in"} /\ ctl'.state = ctl.state
        /\ "in" \in ctl'.stall <=> "in" \in ctl.stall
      BY <2>1 DEF InStatus
  <2>3. ctl'.conf = ctl.conf /\ ctl'.msc = ctl.msc
      BY DEF Untouched
  <2> QED BY <1>1, <1>2, <2>1, <2>2, <2>3 DEF InStatus
<1>5. host.stage = "status_out" => OutStatus'
    BY <1>1 DEF Phase, OutStatus
<1>6. ASSUME host.stage = "idle" PROVE AtRest'
    BY <1>1, <1>6 DEF Phase, AtRest
<1> QED BY <1>1, <1>3, <1>4, <1>5, <1>6 DEF Together, Phase, HostShape

LEMMA EndpointInterruptStage ==
    ASSUME Inv, StageInv, EndpointInterrupt
    PROVE  StageInv'
<1> DEFINE f == Served(ctl)
           d == [ctl EXCEPT !.flags = @ \ {f}]
<1>0. /\ ctl \in Ctl /\ ctl.irq /\ ctl.flags # {} /\ host' = host
      /\ ctl' = ServeEndpoint(ctl) /\ (Pending' <=> Pending)
      /\ ctl.flags \subseteq EpFlags
    BY CtlFields DEF EndpointInterrupt, EpPending, Pending
<1>1. /\ d.state = ctl.state /\ d.packet = ctl.packet /\ d.callback = ctl.callback
      /\ d.addr = ctl.addr /\ d.conf = ctl.conf /\ d.msc = ctl.msc
      /\ d.in = ctl.in /\ d.stall = ctl.stall /\ d.irq = ctl.irq
      /\ d.flags = ctl.flags \ {f}
    BY <1>0, ServedDoes
<1>2. CtlInv(d) /\ d \in Ctl
  <2>1. ctl.flags \ {f} \in SUBSET EpFlags
      BY <1>0
  <2> HIDE DEF f
  <2>2. CtlInv(d)
      BY <2>1, FieldsSent DEF Inv
  <2> QED BY <2>2 DEF CtlInv
<1>3. /\ f \in ctl.flags /\ ("rxstp" \in ctl.flags => f = "rxstp")
    BY <1>0, SetupFirst
<1>4. ctl' = CASE f = "rxstp"                -> OnSetup(d)
               [] f \in {"trcpt1", "trcpt0"} -> TransferOk(d)
               [] f = "trfail1"              -> Underflow(d)
               [] f = "trfail0"              -> Overflow(d)
               [] f = "bulk"                 -> [d EXCEPT !.transReq = TRUE]
    BY <1>0 DEF ServeEndpoint
<1>5. f = "rxstp" \/ f \in {"trcpt1", "trcpt0"} \/ f = "trfail1" \/ f = "trfail0"
      \/ f = "bulk"
    BY <1>0, <1>3 DEF EpFlags
<1> HIDE DEF f, d
<1>6. host.reset /\ AnswersTheRequest' /\ (d.msc => d.conf)
    BY <1>0, <1>1 DEF StageInv, AnswersTheRequest, Owed
<1>7. ASSUME ~host.unsure
      PROVE  ~Pending /\ HostShape /\ Together
    BY <1>0, <1>6, <1>7 DEF StageInv, Together
<1>8. SUFFICES /\ ctl'.msc => ctl'.conf
               /\ ~host.unsure => HostShape' /\ Together'
    BY <1>0, <1>6 DEF StageInv
<1>9. CASE f = "rxstp"
  <2>1. Answered(ctl', d, d.packet, AddressAt(d))
      BY <1>2, <1>4, <1>6, <1>9, SetupDoes
  <2>2. ctl'.msc => ctl'.conf
      BY <2>1 DEF Answered
  <2>3. ASSUME ~host.unsure PROVE HostShape' /\ Together'
    <3>1. Waiting /\ Agreed /\ Harmless
        BY <1>3, <1>7, <1>9, <2>3 DEF Together
    <3>2. /\ host.conf \in BOOLEAN /\ host.addr \in {0, 1} /\ host.req \in AllRequests
          /\ host.stage \in {"idle", "data", "status_in", "status_out"}
        BY CtlFields
    <3> QED BY <1>0, <1>1, <1>3, <1>7, <1>9, <2>1, <2>3, <3>1, <3>2, SetupStage
  <2> QED BY <2>2, <2>3
<1>10. CASE f \in {"trcpt1", "trcpt0"}
  <2>1. /\ Untouched(ctl', d) /\ ctl'.callback = d.callback
        /\ ctl'.addr = IF d.state # "data_in" /\ d.callback THEN 1 ELSE d.addr
      BY <1>2, <1>4, <1>10, TransferDoes
  <2>2. ctl'.msc => ctl'.conf
      BY <1>6, <2>1 DEF Untouched
  <2>3. ASSUME ~host.unsure PROVE HostShape' /\ Together'
    <3>1. "rxstp" \notin ctl.flags /\ Phase
        BY <1>3, <1>7, <1>10, <2>3 DEF Together
    <3> QED BY <1>0, <1>1, <1>3, <1>7, <1>10, <2>1, <2>3, <3>1, TransferStage
  <2> QED BY <2>2, <2>3
<1>11. CASE f \in {"trfail1", "trfail0"}
  <2>1. /\ Untouched(ctl', d) /\ ctl'.callback = d.callback /\ ctl'.addr = d.addr
        /\ ctl'.in = d.in
        /\ \/ /\ f = "trfail1" /\ ctl'.state = d.state
              /\ ctl'.stall = IF d.state = "wait_out" THEN d.stall \cup {"in"}
                              ELSE d.stall
           \/ /\ f = "trfail0"
              /\ ctl'.state = IF d.state = "data_in" THEN "wait_out" ELSE d.state
              /\ ctl'.stall = IF d.state = "wait_in" THEN d.stall \cup {"out"}
                              ELSE d.stall
    <3>1. CASE f = "trfail1"
        BY <1>2, <1>4, <3>1, UnderflowDoes
    <3>2. CASE f = "trfail0"
        BY <1>2, <1>4, <3>2, OverflowDoes
    <3> QED BY <1>11, <3>1, <3>2
  <2>2. ctl'.msc => ctl'.conf
      BY <1>6, <2>1 DEF Untouched
  <2>3. ASSUME ~host.unsure PROVE HostShape' /\ Together'
    <3>1. "rxstp" \notin ctl.flags /\ Phase
        BY <1>3, <1>7, <1>11, <2>3 DEF Together
    <3> QED BY <1>0, <1>1, <1>3, <1>7, <1>11, <2>1, <2>3, <3>1, FailureStage
  <2> QED BY <2>2, <2>3
<1>12. CASE f = "bulk"
  <2>1. SameCtl /\ ctl'.flags = ctl.flags \ {"bulk"}
    <3>1. ctl' = [d EXCEPT !.transReq = TRUE]
        BY <1>4, <1>12
    <3>2. /\ ctl'.state = d.state /\ ctl'.packet = d.packet
          /\ ctl'.callback = d.callback /\ ctl'.addr = d.addr /\ ctl'.conf = d.conf
          /\ ctl'.msc = d.msc /\ ctl'.in = d.in /\ ctl'.stall = d.stall
          /\ ctl'.irq = d.irq /\ ctl'.flags = d.flags
        BY <1>2, <3>1, Zenon DEF Ctl
    <3> QED BY <1>1, <1>12, <3>2 DEF SameCtl
  <2>2. SameFlags
      BY <1>0, <2>1 DEF SameFlags
  <2>3. StageInv'
      BY <1>0, <2>1, <2>2, OthersKeepControl
  <2> QED BY <1>0, <1>6, <2>3 DEF StageInv
<1> QED BY <1>5, <1>9, <1>10, <1>11, <1>12

----------------------------------------------------------------------------
(* The steps of the host.                                                  *)

LEMMA SetupRequestStage ==
    ASSUME Orderly, Inv, StageInv, NEW r \in Requests, HostSetup(r),
           Pending' <=> Pending
    PROVE  StageInv'
<1>0. ctl \in Ctl /\ host \in Host /\ r \in AllRequests /\ r # "badIface"
    BY CtlFields, RequestsAssumption DEF Orderly
<1>1. /\ host.stage = "idle" /\ host.addr = ctl.addr /\ host.reset
      /\ r = "setAddress" => host.addr = 0
    BY DEF HostSetup, Heard, MayRequest, InTurn
<1>2. ctl.flags \subseteq {"bulk"}
    BY DEF HostSetup, MayRequest, Orderly
<1>3. /\ ctl'.packet = r /\ ctl'.flags = ctl.flags \cup {"rxstp"} /\ ctl'.stall = {}
      /\ ctl'.state = ctl.state /\ ctl'.callback = ctl.callback
      /\ ctl'.addr = ctl.addr /\ ctl'.conf = ctl.conf /\ ctl'.msc = ctl.msc
      /\ ctl'.irq = ctl.irq
    <2>1. ctl' = [ctl EXCEPT !.packet = r, !.flags = @ \cup {"rxstp"}, !.stall = {},
                             !.out = FALSE]
        BY DEF HostSetup
    <2> QED BY <1>0, <2>1, Zenon DEF Ctl
<1>4. /\ host'.req = r /\ host'.answer = "none" /\ host'.addr = host.addr
      /\ host'.conf = host.conf /\ host'.reset = host.reset
      /\ host'.unsure = host.unsure
      /\ host'.stage = IF r \in InRequests THEN "data" ELSE "status_in"
    <2> DEFINE s == IF r \in InRequests THEN "data" ELSE "status_in"
    <2>1. host' = [host EXCEPT !.req = r, !.answer = "none", !.stage = s]
        BY DEF HostSetup
    <2> HIDE DEF s
    <2>2. /\ host'.req = r /\ host'.answer = "none" /\ host'.addr = host.addr
          /\ host'.conf = host.conf /\ host'.reset = host.reset
          /\ host'.unsure = host.unsure /\ host'.stage = s
        BY <1>0, <2>1, Zenon DEF Host
    <2> QED BY <2>2 DEF s
<1>5. ASSUME ~host.unsure PROVE HostShape' /\ Together'
  <2>1. Together
      BY <1>1, <1>5 DEF StageInv
  <2>2. ~Pending => Agreed /\ (ctl.callback => ctl.state = "setup" \/ ctl.addr = 1)
      BY <1>1, <1>2, <2>1 DEF Together, Phase, AtRest
  <2>3. Waiting'
      BY <1>0, <1>1, <1>2, <1>3, <1>4 DEF Waiting
  <2>4. ~Pending => Agreed' /\ Harmless'
      BY <1>3, <1>4, <2>2 DEF Agreed, Harmless
  <2>5. HostShape'
      BY <1>0, <1>4 DEF HostShape, AllRequests, InRequests, OutRequests
  <2> QED BY <1>3, <1>4, <2>1, <2>3, <2>4, <2>5 DEF Together
<1> QED BY <1>1, <1>3, <1>4, <1>5 DEF StageInv, AnswersTheRequest

LEMMA ConcludedDoes ==
    ASSUME host \in Host, NEW a
    PROVE  LET h == Concluded(host, a)
           IN  /\ h.stage = "idle" /\ h.answer = a /\ h.req = host.req
               /\ h.reset = host.reset /\ h.unsure = host.unsure
               /\ h.addr = IF a = "zlp" /\ host.req = "setAddress" THEN 1
                           ELSE host.addr
               /\ h.conf = IF a = "zlp" THEN ConfAfter ELSE host.conf
<1> DEFINE addr == IF a = "zlp" /\ host.req = "setAddress" THEN 1 ELSE host.addr
           conf == CASE a = "zlp" /\ host.req = "setConf" -> TRUE
                     [] a = "zlp" /\ host.req = "unconf"  -> FALSE
                     [] OTHER                             -> host.conf
           h    == [host EXCEPT !.stage = "idle", !.answer = a, !.addr = addr,
                                !.conf = conf]
<1>1. Concluded(host, a) = h
    BY Zenon DEF Concluded
<1>2. conf = IF a = "zlp" THEN ConfAfter ELSE host.conf
    BY DEF ConfAfter
<1> HIDE DEF addr, conf
<1>3. /\ h.stage = "idle" /\ h.answer = a /\ h.req = host.req
      /\ h.reset = host.reset /\ h.unsure = host.unsure
      /\ h.addr = addr /\ h.conf = conf
    BY Zenon DEF Host
<1> HIDE DEF h
<1> QED BY <1>1, <1>2, <1>3 DEF addr

\* A token that is answered NAK.
LEMMA NakStage ==
    ASSUME Inv, StageInv, NEW f \in {"trfail1", "trfail0"}, Nak(f),
           host.stage # "idle", f = "trfail0" => host.stage = "status_out",
           Pending' <=> Pending
    PROVE  StageInv'
<1>1. /\ SameCtl /\ ctl'.flags = ctl.flags \cup {f} /\ host' = host
    BY CtlFields, Zenon DEF Nak, SameCtl, Ctl
<1> USE DEF SameCtl
<1>2. Owed' = Owed /\ ConfAfter' = ConfAfter /\ (Agreed' <=> Agreed) /\ AnswersTheRequest'
    BY <1>1 DEF Owed, ConfAfter, Agreed, StageInv, AnswersTheRequest
<1>3. host.reset
    BY NewHostFields DEF StageInv
<1>4. ASSUME ~host.unsure PROVE HostShape' /\ Together'
  <2>1. HostShape /\ Together
      BY <1>3, <1>4 DEF StageInv
  <2>2. Waiting => Waiting'
      BY <1>1 DEF Waiting
  <2>3. Phase => Phase'
      BY <1>1, <1>2 DEF Phase, InData, InStatus, OutStatus
  <2>4. Harmless => Harmless'
      BY <1>1 DEF Harmless
  <2>5. Pending => "rxstp" \in ctl.flags
      BY <2>1 DEF Together
  <2> QED BY <1>1, <1>2, <2>1, <2>2, <2>3, <2>4, <2>5 DEF Together, HostShape
<1> QED BY <1>1, <1>2, <1>3, <1>4 DEF StageInv

\* Where the host has got its answer, the device has served the request.
LEMMA AnswerIsServed ==
    ASSUME StageInv, host.stage # "idle", "rxstp" \notin ctl.flags
    PROVE  host.reset /\ (~host.unsure => HostShape /\ Together /\ ~Pending /\ Phase)
<1>1. host.reset
    BY NewHostFields DEF StageInv
<1> QED BY <1>1 DEF StageInv, Together

LEMMA HostInStage ==
    ASSUME Orderly, Inv, StageInv, HostIn, Pending' <=> Pending
    PROVE  StageInv'
<1>0. /\ ctl \in Ctl /\ host \in Host /\ host.addr = ctl.addr
      /\ host.stage = "data" \/ host.stage = "status_in"
    BY CtlFields DEF HostIn, Heard
<1>1. CASE Nak("trfail1")
    BY <1>0, <1>1, NakStage
<1> DEFINE stalls == "rxstp" \notin ctl.flags /\ "in" \in ctl.stall
           sends  == /\ "rxstp" \notin ctl.flags /\ ctl.in # "none"
                     /\ "in" \notin ctl.stall
<1>2. ASSUME stalls, host' = Concluded(host, "stall"), ctl' = ctl
      PROVE  StageInv'
  <2>1. /\ host'.stage = "idle" /\ host'.answer = "stall" /\ host'.req = host.req
        /\ host'.reset = host.reset /\ host'.unsure = host.unsure
        /\ host'.addr = host.addr /\ host'.conf = host.conf
      BY <1>0, <1>2, ConcludedDoes
  <2>2. host.reset /\ (~host.unsure => HostShape /\ Together /\ ~Pending /\ Phase)
      BY <1>0, <1>2, AnswerIsServed
  <2>3. Owed' = Owed /\ (Agreed' <=> Agreed)
      BY <1>2, <2>1 DEF Owed, Agreed
  <2>4. ASSUME ~host.unsure PROVE Owed = "stall" /\ Agreed /\ ~ctl.callback
    <3>1. CASE host.stage = "data"
        BY <1>2, <2>2, <2>4, <3>1 DEF Phase, InData
    <3>2. CASE host.stage = "status_in"
        BY <1>2, <2>2, <2>4, <3>2 DEF Phase, InStatus
    <3> QED BY <1>0, <3>1, <3>2
  <2>5. ASSUME ~host.unsure PROVE HostShape' /\ Together'
    <3>1. AtRest'
        BY <1>0, <1>2, <2>1, <2>3, <2>4, <2>5 DEF AtRest
    <3> QED BY <1>2, <2>1, <2>2, <2>5, <3>1 DEF Together, Phase, HostShape
  <2> QED BY <1>2, <2>1, <2>2, <2>3, <2>4, <2>5 DEF StageInv, AnswersTheRequest
<1>3. ASSUME sends,
             host' = IF host.stage = "data"
                     THEN [host EXCEPT !.stage = "status_out", !.answer = ctl.in]
                     ELSE Concluded(host, ctl.in),
             ctl' = [ctl EXCEPT !.in = "none", !.flags = @ \cup {"trcpt1"}]
      PROVE  StageInv'
  <2>1. /\ ctl'.flags = ctl.flags \cup {"trcpt1"} /\ ctl'.state = ctl.state
        /\ ctl'.callback = ctl.callback /\ ctl'.addr = ctl.addr
        /\ ctl'.conf = ctl.conf /\ ctl'.msc = ctl.msc /\ ctl'.irq = ctl.irq
      BY <1>0, <1>3, Zenon DEF Ctl
  <2>2. host.reset /\ (~host.unsure => HostShape /\ Together /\ ~Pending /\ Phase)
      BY <1>0, <1>3, AnswerIsServed
  <2>3. CASE host.stage = "data"
    <3>1. /\ host'.stage = "status_out" /\ host'.answer = ctl.in
          /\ host'.req = host.req /\ host'.reset = host.reset
          /\ host'.unsure = host.unsure /\ host'.addr = host.addr
          /\ host'.conf = host.conf
      <4>1. host' = [host EXCEPT !.stage = "status_out", !.answer = ctl.in]
          BY <1>3, <2>3
      <4> QED BY <1>0, <4>1, Zenon DEF Host
    <3>2. Owed' = Owed /\ (Agreed' <=> Agreed)
        BY <2>1, <3>1 DEF Owed, Agreed
    <3>3. ASSUME ~host.unsure
          PROVE  /\ host.req \in InRequests /\ ctl.in = host.req /\ Owed = host.req
                 /\ Agreed /\ ~ctl.callback
      <4>1. InData /\ host.req \in InRequests
          BY <2>2, <2>3, <3>3 DEF Phase, HostShape
      <4>2. Owed \in {"stall", host.req}
          BY <4>1 DEF Owed, InRequests
      <4> QED BY <1>3, <4>1, <4>2 DEF InData
    <3>4. ASSUME ~host.unsure PROVE HostShape' /\ Together'
        BY <1>0, <2>1, <2>2, <3>1, <3>2, <3>3, <3>4, <1>3
           DEF Together, Phase, HostShape, OutStatus
    <3> QED BY <2>1, <2>2, <3>1, <3>2, <3>3, <3>4 DEF StageInv, AnswersTheRequest
  <2>4. CASE host.stage = "status_in"
    <3>1. /\ host'.stage = "idle" /\ host'.answer = ctl.in /\ host'.req = host.req
          /\ host'.reset = host.reset /\ host'.unsure = host.unsure
          /\ host'.addr = IF ctl.in = "zlp" /\ host.req = "setAddress" THEN 1
                          ELSE host.addr
          /\ host'.conf = IF ctl.in = "zlp" THEN ConfAfter ELSE host.conf
      <4>1. host' = Concluded(host, ctl.in)
          BY <1>3, <2>4
      <4> QED BY <1>0, <4>1, ConcludedDoes
    <3>2. ASSUME ~host.unsure
          PROVE  /\ Owed # "stall" /\ host.req \in OutRequests
                 /\ ctl.state = "wait_in" /\ ctl.in = "zlp"
                 /\ ctl.callback <=> host.req = "setAddress"
                 /\ ctl.conf = ConfAfter /\ ctl.msc = ctl.conf
                 /\ host.req = "setAddress" => host.addr = 0
      <4>1. InStatus /\ host.req \in OutRequests
          BY <2>2, <2>4, <3>2 DEF Phase, HostShape
      <4> QED BY <1>3, <4>1 DEF InStatus
    <3>3. ASSUME ~host.unsure PROVE Owed' = "zlp"
        BY <3>1, <3>2, <3>3 DEF Owed, OutRequests, ConfAfter
    <3>4. ASSUME ~host.unsure PROVE HostShape' /\ Together'
      <4>1. Agreed'
          BY <2>1, <3>1, <3>2, <3>4 DEF Agreed
      <4>2. AtRest'
          BY <1>0, <2>1, <3>1, <3>2, <3>4, <4>1 DEF AtRest
      <4> QED BY <1>3, <2>1, <2>2, <3>1, <3>4, <4>2 DEF Together, Phase, HostShape
    <3> QED BY <2>1, <2>2, <3>1, <3>2, <3>3, <3>4 DEF StageInv, AnswersTheRequest
  <2> QED BY <1>0, <2>3, <2>4
<1> QED BY <1>1, <1>2, <1>3 DEF HostIn

LEMMA HostOutStage ==
    ASSUME Orderly, Inv, StageInv, HostOut, Pending' <=> Pending
    PROVE  StageInv'
<1>0. /\ ctl \in Ctl /\ host \in Host /\ host.addr = ctl.addr
      /\ host.stage = "status_out"
    BY CtlFields DEF HostOut, Heard
<1>1. CASE Nak("trfail0")
    BY <1>0, <1>1, NakStage
<1>2. ASSUME "rxstp" \notin ctl.flags, host' = Concluded(host, host.answer),
             ctl' = [ctl EXCEPT !.out = FALSE, !.flags = @ \cup {"trcpt0"}]
      PROVE  StageInv'
  <2>1. /\ ctl'.flags = ctl.flags \cup {"trcpt0"} /\ ctl'.state = ctl.state
        /\ ctl'.callback = ctl.callback /\ ctl'.addr = ctl.addr
        /\ ctl'.conf = ctl.conf /\ ctl'.msc = ctl.msc /\ ctl'.irq = ctl.irq
      BY <1>0, <1>2, Zenon DEF Ctl
  <2>2. host.reset /\ (~host.unsure => HostShape /\ Together /\ ~Pending /\ Phase)
      BY <1>0, <1>2, AnswerIsServed
  <2>3. /\ host'.stage = "idle" /\ host'.answer = host.answer /\ host'.req = host.req
        /\ host'.reset = host.reset /\ host'.unsure = host.unsure
        /\ host.answer # "zlp" => host'.addr = host.addr /\ host'.conf = host.conf
      BY <1>0, <1>2, ConcludedDoes
  <2>4. ASSUME ~host.unsure PROVE host.answer # "zlp" /\ OutStatus
      BY <1>0, <2>2, <2>4 DEF HostShape, Phase, InRequests
  <2>5. ASSUME ~host.unsure PROVE Owed' = Owed /\ (Agreed' <=> Agreed)
      BY <2>1, <2>3, <2>4, <2>5 DEF Owed, Agreed
  <2>6. ASSUME ~host.unsure PROVE HostShape' /\ Together'
    <3>1. AtRest'
        BY <2>1, <2>3, <2>4, <2>5, <2>6 DEF AtRest, OutStatus
    <3> QED BY <1>2, <2>1, <2>2, <2>3, <2>6, <3>1 DEF Together, Phase, HostShape
  <2> QED BY <2>1, <2>2, <2>3, <2>5, <2>6 DEF StageInv, AnswersTheRequest
<1> QED BY <1>1, <1>2 DEF HostOut

LEMMA HostStopsDataStage ==
    ASSUME Orderly, Inv, StageInv, HostStopsData, Pending' <=> Pending
    PROVE  StageInv'
<1>0. /\ ctl' = ctl /\ host \in Host /\ host.stage = "data" /\ host.req = "getDesc"
    BY CtlFields DEF HostStopsData
<1>1. /\ host'.stage = "status_out" /\ host'.req = host.req
      /\ host'.answer = host.answer /\ host'.reset = host.reset
      /\ host'.unsure = host.unsure /\ host'.addr = host.addr
      /\ host'.conf = host.conf
    BY <1>0, Zenon DEF HostStopsData, Host
<1>2. Owed' = Owed /\ (Agreed' <=> Agreed)
    BY <1>0, <1>1 DEF Owed, Agreed
<1>3. host.reset
    BY <1>0, NewHostFields DEF StageInv
<1>4. ASSUME ~host.unsure PROVE HostShape' /\ Together'
  <2>1. HostShape /\ Together
      BY <1>3, <1>4 DEF StageInv
  <2>2. HostShape'
      BY <1>0, <1>1, <2>1 DEF HostShape
  <2>3. Waiting => Waiting'
      BY <1>0, <1>1 DEF Waiting
  <2>4. Phase => OutStatus'
      BY <1>0, <1>1, <1>2 DEF Phase, InData, OutStatus
  <2>5. Harmless => Harmless'
      BY <1>0 DEF Harmless
  <2> QED BY <1>0, <1>1, <1>2, <2>1, <2>2, <2>3, <2>4, <2>5 DEF Together, Phase
<1> QED BY <1>0, <1>1, <1>2, <1>3, <1>4 DEF StageInv, AnswersTheRequest

LEMMA HostGivesUpStage ==
    ASSUME Orderly, Inv, StageInv, HostGivesUp, Pending' <=> Pending
    PROVE  StageInv'
<1> DEFINE b == host.unsure \/ host.req \in {"setAddress", "setConf", "unconf"}
<1>0. /\ ctl' = ctl /\ host \in Host /\ host.stage # "idle"
      /\ host' = [host EXCEPT !.stage = "idle", !.answer = "none", !.unsure = b]
    BY CtlFields DEF HostGivesUp
<1>b. ~b => ~host.unsure /\ host.req \notin Changes
    BY DEF Changes
<1> HIDE DEF b
<1>1. /\ host'.stage = "idle" /\ host'.req = host.req /\ host'.answer = "none"
      /\ host'.reset = host.reset /\ host'.addr = host.addr
      /\ host'.conf = host.conf /\ host'.unsure = b
    BY <1>0, Zenon DEF Host
<1>2. (Agreed' <=> Agreed) /\ AnswersTheRequest'
    BY <1>0, <1>1 DEF Agreed, AnswersTheRequest
<1>3. host.reset
    BY <1>0, NewHostFields DEF StageInv
<1>4. ASSUME ~b PROVE HostShape' /\ Together'
  <2>1. HostShape /\ Together /\ host.req \notin Changes /\ host.req # "setAddress"
      BY <1>3, <1>4, <1>b DEF StageInv, Changes
  <2>2. HostShape'
      BY <1>1 DEF HostShape
  <2>3. Waiting => Waiting'
      BY <1>0, <1>1, <2>1 DEF Waiting
  <2>4. ASSUME Phase PROVE AtRest'
    <3>1. CASE host.stage = "data"
        BY <1>0, <1>1, <1>2, <2>4, <3>1 DEF Phase, InData, AtRest
    <3>2. CASE host.stage = "status_in"
      <4>1. InStatus
          BY <2>4, <3>2 DEF Phase
      <4>2. ConfAfter = host.conf
          BY <2>1 DEF ConfAfter, Changes
      <4>3. Agreed /\ ~ctl.callback /\ ctl.addr = host.addr
          BY <2>1, <4>1, <4>2 DEF InStatus, Agreed
      <4> QED BY <1>0, <1>1, <1>2, <4>3 DEF AtRest
    <3>3. CASE host.stage = "status_out"
        BY <1>0, <1>1, <1>2, <2>4, <3>3 DEF Phase, OutStatus, AtRest
    <3> QED BY <1>0, <3>1, <3>2, <3>3, CtlFields
  <2>5. Harmless => Harmless'
      BY <1>0 DEF Harmless
  <2> QED BY <1>0, <1>1, <1>2, <2>1, <2>2, <2>3, <2>4, <2>5 DEF Together, Phase
<1> QED BY <1>0, <1>1, <1>2, <1>3, <1>4 DEF StageInv

LEMMA HostCommandStage ==
    ASSUME Inv, StageInv, HostCommand, Pending' <=> Pending
    PROVE  StageInv'
<1>1. SameCtl /\ ctl'.flags = ctl.flags \cup {"bulk"} /\ host' = host /\ host.conf
    BY CtlFields, Zenon DEF HostCommand, SameCtl, Ctl
<1>2. SameFlags
    BY <1>1 DEF SameFlags
<1> QED BY <1>1, <1>2, OthersKeepControl

LEMMA ControlStage ==
    ASSUME Orderly, Inv, StageInv, Control, Pending' <=> Pending
    PROVE  StageInv'
<1>1. CASE \E r \in Requests : HostSetup(r)
    BY <1>1, SetupRequestStage
<1>2. CASE HostIn
    BY <1>2, HostInStage
<1>3. CASE HostOut
    BY <1>3, HostOutStage
<1>4. CASE HostStopsData
    BY <1>4, HostStopsDataStage
<1>5. CASE HostGivesUp
    BY <1>5, HostGivesUpStage
<1>6. CASE HostCommand
    BY <1>6, HostCommandStage
<1> QED BY <1>1, <1>2, <1>3, <1>4, <1>5, <1>6 DEF Control

LEMMA MainLoopStage ==
    ASSUME Inv, StageInv, MainLoop, Pending' <=> Pending
    PROVE  StageInv'
<1>1. CASE ProcessTrans
  <2>1. SameCtl /\ ctl'.flags = ctl.flags /\ host' = host
      BY <1>1, CtlFields, Zenon DEF ProcessTrans, SameCtl, Ctl
  <2> QED BY <2>1, OthersKeepControl DEF SameFlags
<1>2. CASE ~ProcessTrans
    BY <1>2, SilentSteps DEF MainLoop, TestEnable, EnterSleep, IrqEnable, Wfi
<1> QED BY <1>1, <1>2

----------------------------------------------------------------------------
(* The invariant holds, and what follows from it.                          *)

LEMMA InitAgree == Init => AgreeInv
<1> SUFFICES ASSUME Init PROVE AgreeInv
    OBVIOUS
<1>1. ctl.flags = {} /\ ctl.msc = FALSE /\ host = NewHost
    BY DEF Init, NewCtl
<1>2. StageInv
    BY <1>1, NewHostFields DEF StageInv, AnswersTheRequest
<1> QED BY <1>2, InitInv, ResetInit DEF AgreeInv

LEMMA NextAgree == ASSUME Orderly PROVE AgreeInv /\ [Next]_vars => AgreeInv'
<1> SUFFICES ASSUME AgreeInv, [Next]_vars PROVE ResetInv' /\ StageInv'
    BY NextInv DEF AgreeInv
<1>0. Orderly /\ Inv /\ ResetInv /\ StageInv
    BY DEF AgreeInv
<1>1. CASE BusReset
    BY <1>0, <1>1, BusResetRaises, BusResetStage
<1>2. CASE DeviceInterrupt
    BY <1>0, <1>2, DeviceServes, DeviceInterruptStage
<1>3. CASE ~BusReset /\ ~DeviceInterrupt
  <2>1. (Pending' <=> Pending) /\ ResetInv'
      BY <1>0, <1>3, OthersKeepReset
  <2>2. CASE Unplug
      BY <1>0, <2>1, <2>2, UnplugStage
  <2>3. CASE Control
      BY <1>0, <2>1, <2>3, ControlStage
  <2>4. CASE EndpointInterrupt
      BY <1>0, <2>1, <2>4, EndpointInterruptStage
  <2>5. CASE MainLoop
      BY <1>0, <2>1, <2>5, MainLoopStage
  <2>6. CASE Plug \/ Suspend \/ LpmSuspend \/ Resume \/ Sof \/ VbusInterrupt
             \/ UNCHANGED vars
    <3>1. UNCHANGED <<ctl, host>>
        BY <2>6 DEF Plug, Suspend, LpmSuspend, Resume, Sof, VbusInterrupt, vars
    <3> QED BY <1>0, <2>1, <3>1, SilentSteps
  <2> QED BY <1>3, <2>1, <2>2, <2>3, <2>4, <2>5, <2>6 DEF Next, Bus
<1> QED BY <1>1, <1>2, <1>3

\* The endpoint interrupt only ever sets the address.
LEMMA EndpointAddress ==
    ASSUME Inv, StageInv, EndpointInterrupt
    PROVE  ctl'.addr = ctl.addr \/ ctl'.addr = 1
<1> DEFINE f == Served(ctl)
           d == [ctl EXCEPT !.flags = @ \ {f}]
<1>0. ctl \in Ctl /\ ctl.flags \subseteq EpFlags /\ ctl.flags # {}
    BY CtlFields DEF EndpointInterrupt, EpPending
<1>1. /\ d.addr = ctl.addr /\ d.conf = ctl.conf /\ d.msc = ctl.msc
    BY <1>0, ServedDoes
<1>2. CtlInv(d) /\ d \in Ctl
  <2>1. ctl.flags \ {f} \in SUBSET EpFlags
      BY <1>0
  <2> HIDE DEF f
  <2>2. CtlInv(d)
      BY <2>1, FieldsSent DEF Inv
  <2> QED BY <2>2 DEF CtlInv
<1>3. ctl' = CASE f = "rxstp"                -> OnSetup(d)
               [] f \in {"trcpt1", "trcpt0"} -> TransferOk(d)
               [] f = "trfail1"              -> Underflow(d)
               [] f = "trfail0"              -> Overflow(d)
               [] f = "bulk"                 -> [d EXCEPT !.transReq = TRUE]
    BY DEF EndpointInterrupt, ServeEndpoint
<1>4. f = "rxstp" \/ f \in {"trcpt1", "trcpt0"} \/ f = "trfail1" \/ f = "trfail0"
      \/ f = "bulk"
    BY <1>0, ServedIsSet DEF EpFlags
<1>5. d.msc => d.conf
    BY <1>1 DEF StageInv
<1> HIDE DEF f, d
<1>6. CASE f = "rxstp"
  <2>1. ctl'.addr = AddressAt(d)
      BY <1>2, <1>3, <1>5, <1>6, SetupDoes DEF Answered
  <2> QED BY <1>1, <2>1 DEF AddressAt
<1>7. CASE f \in {"trcpt1", "trcpt0"}
    BY <1>1, <1>2, <1>3, <1>7, TransferDoes
<1>8. CASE f = "trfail1"
    BY <1>1, <1>2, <1>3, <1>8, UnderflowDoes
<1>9. CASE f = "trfail0"
    BY <1>1, <1>2, <1>3, <1>9, OverflowDoes
<1>10. CASE f = "bulk"
  <2>1. ctl' = [d EXCEPT !.transReq = TRUE]
      BY <1>3, <1>10
  <2>2. ctl'.addr = d.addr
      BY <1>2, <2>1, Zenon DEF Ctl
  <2> QED BY <1>1, <2>2
<1> QED BY <1>4, <1>6, <1>7, <1>8, <1>9, <1>10

LEMMA AddressStep ==
    ASSUME Orderly, AgreeInv, [Next]_vars, ctl'.addr # ctl.addr,
           host'.reset, ~host'.unsure
    PROVE  ctl'.addr = host'.addr
<1>0. /\ AgreeInv' /\ Inv /\ StageInv /\ StageInv' /\ Inv' /\ ResetInv
      /\ ctl \in Ctl /\ ctl.addr \in {0, 1}
    BY NextAgree, CtlFields DEF AgreeInv
<1>1. Together' /\ HostShape'
    BY <1>0 DEF StageInv
<1>2. /\ ctl'.addr \in {0, 1}
      /\ host'.stage \in {"idle", "data", "status_in", "status_out"}
  <2>1. ctl' \in Ctl /\ host' \in Host
      BY <1>0 DEF Inv, CtlInv
  <2> QED BY <2>1, Zenon DEF Ctl, Host, Addresses
<1>3. CASE "rxstp" \in ctl'.flags \/ Pending'
    BY <1>1, <1>3 DEF Together, Waiting
<1>4. CASE "rxstp" \notin ctl'.flags /\ ~Pending'
  <2>1. Phase'
      BY <1>1, <1>4 DEF Together
  <2>2. \/ ctl'.addr = host'.addr
        \/ host'.addr = 1
      BY <1>2, <2>1 DEF Phase, InData, InStatus, OutStatus, AtRest
  <2>3. CASE BusReset
    <3>1. Pending'
        BY <1>0, <2>3, BusResetRaises
    <3> QED BY <1>4, <3>1
  <2>4. CASE DeviceInterrupt
    <3>1. Pending /\ host' = host
        BY <1>0, <2>4 DEF DeviceInterrupt, Pending
    <3>2. host.addr = 0
        BY <1>0, <3>1 DEF StageInv, Together
    <3> QED BY <2>2, <3>1, <3>2
  <2>5. CASE EndpointInterrupt
    <3>1. ctl'.addr = 1
        BY <1>0, <2>5, EndpointAddress
    <3> QED BY <2>2, <3>1
  <2>6. ~BusReset /\ ~DeviceInterrupt /\ ~EndpointInterrupt => ctl'.addr = ctl.addr
    <3>1. Plug \/ Unplug \/ Suspend \/ LpmSuspend \/ Resume \/ Sof \/ VbusInterrupt
          \/ UNCHANGED vars => ctl' = ctl
        BY DEF Plug, Unplug, Suspend, LpmSuspend, Resume, Sof, VbusInterrupt, vars
    <3>2. Control => ctl'.addr = ctl.addr
      <4>1. \A f : [ctl EXCEPT !.flags = @ \cup {f}].addr = ctl.addr
          BY <1>0, Zenon DEF Ctl
      <4>2. \A r : HostSetup(r) => ctl'.addr = ctl.addr
          BY <1>0, Zenon DEF HostSetup, Ctl
      <4>3. HostIn => ctl'.addr = ctl.addr
        <5>1. [ctl EXCEPT !.in = "none", !.flags = @ \cup {"trcpt1"}].addr = ctl.addr
            BY <1>0, Zenon DEF Ctl
        <5> QED BY <4>1, <5>1 DEF HostIn, Nak
      <4>4. HostOut => ctl'.addr = ctl.addr
        <5>1. [ctl EXCEPT !.out = FALSE, !.flags = @ \cup {"trcpt0"}].addr = ctl.addr
            BY <1>0, Zenon DEF Ctl
        <5> QED BY <4>1, <5>1 DEF HostOut, Nak
      <4>5. HostStopsData \/ HostGivesUp \/ HostCommand => ctl'.addr = ctl.addr
          BY <4>1 DEF HostStopsData, HostGivesUp, HostCommand
      <4> QED BY <4>2, <4>3, <4>4, <4>5 DEF Control
    <3>3. MainLoop => ctl'.addr = ctl.addr
      <4>1. [ctl EXCEPT !.transReq = FALSE].addr = ctl.addr
          BY <1>0, Zenon DEF Ctl
      <4> QED BY <4>1 DEF MainLoop, TestEnable, ProcessTrans, EnterSleep, IrqEnable, Wfi
    <3> QED BY <3>1, <3>2, <3>3 DEF Next, Bus
  <2> QED BY <2>3, <2>4, <2>5, <2>6
<1> QED BY <1>3, <1>4

LEMMA AlwaysAgree == ASSUME Orderly PROVE Spec => []AgreeInv
<1>1. AgreeInv /\ [Next]_vars => AgreeInv'
    BY NextAgree
<1> QED BY <1>1, InitAgree, PTL DEF Spec

\* The host gets the answer of its own request, with the data, the handshake or the
\* stall it must expect, whatever it gave up before and wherever a bus reset, a
\* suspend or the cable cut in (_usb_ep0_on_setup, udd_ctrl_in_sent).
THEOREM RequestsAreAnswered ==
    ASSUME Orderly
    PROVE  Spec => []AnswersTheRequest
<1>1. AgreeInv => AnswersTheRequest
    BY DEF AgreeInv, StageInv
<1> QED BY <1>1, AlwaysAgree, PTL

\* Between two requests the device is in the configuration the host gave it, its
\* mass-storage interface with it, and listens at the address the host uses, once
\* it has served the handshake (udc_req_std_dev_set_configuration,
\* udc_valid_address, udc_reset, udd_ctrl_ep_enable).
THEOREM HostAndDeviceAlwaysAgree ==
    ASSUME Orderly
    PROVE  Spec => []HostAndDeviceAgree
<1>1. AgreeInv => HostAndDeviceAgree
    BY DEF AgreeInv, StageInv, Together, Phase, AtRest, Agreed, Pending,
           HostAndDeviceAgree
<1> QED BY <1>1, AlwaysAgree, PTL

\* The device moves to a new address only when the host speaks to it there already:
\* after the handshake, or after the bus reset that both forget the address in
\* (udc_valid_address, udd_set_address).
THEOREM AddressWaitsForHandshake ==
    ASSUME Orderly
    PROVE  Spec => AddressAfterHandshake
<1>1. AgreeInv /\ [Next]_vars =>
          [ctl'.addr # ctl.addr /\ host'.reset /\ ~host'.unsure
               => ctl'.addr = host'.addr]_vars
    BY AddressStep
<1> QED BY <1>1, AlwaysAgree, PTL DEF Spec, AddressAfterHandshake
=============================================================================
