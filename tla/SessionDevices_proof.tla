------------------------ MODULE SessionDevices_proof ------------------------
(***************************************************************************)
(* What a start that returned has done to the device of its session, when  *)
(* each session has a device of its own: with any of the faults, that the  *)
(* device sends on the channel of the receive object or holds the probe;   *)
(* with none of them, all that isoIterate needs.  The proof builds on the  *)
(* inductive invariants of PhantomSession_proof and SessionContexts_proof. *)
(***************************************************************************)
EXTENDS SessionContexts_proof

OwnDevices == \A s, t \in Sessions : Device(s) = Device(t) => s = t

Recv(s) == registers[Device(s)].recv
Enabled(s) == "enable_iso" \in control[Device(s)]
ControlSteps == {"readStatus", "readControl", "writeControl"}

(* The read-backs in start() of the receive object leave this behind.       *)
Probed(s) ==
    /\ phase[s] = "startRecv" =>
           /\ step[s] = "writeProbe" => Recv(s) = channel[s].recv
           /\ step[s] = "rewriteChannel" => Recv(s) = PROBE
           /\ step[s] \in ControlSteps => Recv(s) \in {channel[s].recv, PROBE}
    /\ phase[s] = "startXmit" \/ Running(s) =>
           Recv(s) \in {channel[s].recv, PROBE}

PInv == CInv /\ \A s \in Sessions : Probed(s)

(* And this, when no transaction fails.                                     *)
RecvDone(s) == /\ Recv(s) = channel[s].recv
               /\ <<"recv", channel[s].recv>> \in contexts[s]
               /\ Enabled(s)
XmitDone(s) == /\ registers[Device(s)].xmit = channel[s].xmit
               /\ <<"xmit", channel[s].xmit>> \in contexts[s]

SetUp(s) ==
    /\ phase[s] = "startRecv" =>
           /\ step[s] # "startIso" => <<"recv", channel[s].recv>> \in contexts[s]
           /\ step[s] \in ControlSteps => Recv(s) = channel[s].recv
    /\ phase[s] = "startXmit" =>
           /\ RecvDone(s)
           /\ step[s] \in {"startIso", "writeChannel"} \cup ControlSteps
           /\ step[s] \in ControlSteps => XmitDone(s)
           /\ step[s] = "writeChannel" =>
                  <<"xmit", channel[s].xmit>> \in contexts[s]
    /\ Running(s) => RecvDone(s) /\ XmitDone(s)

UInv == CInv /\ \A s \in Sessions : SetUp(s)

-----------------------------------------------------------------------------
(* A session out of start() and not running owes nothing.                   *)
Outside(s) == phase[s] \notin {"startRecv", "startXmit"} /\ ~Running(s)

LEMMA OutsideOwesNothing ==
    ASSUME NEW s \in Sessions, Outside(s)'
    PROVE  Probed(s)' /\ SetUp(s)'
BY DEF Outside, Probed, SetUp

LEMMA RaiseEnds ==
    ASSUME NEW s \in Sessions, TypeOK, Busy(s), Raise(s)
    PROVE  Outside(s)'
<1>1. \/ phase'[s] \in {"terminated", "unwind"}
      \/ phase'[s] \in {"gone", "idle"} /\ result'[s] = "exception"
    BY DEF Raise, Return, Goto, TypeOK
<1>2. QED
    BY <1>1 DEF Outside, Running, Iterating

(* Steps of a session reach its own device, contexts and result only.       *)
DevicesAlone(s) ==
    \A d \in Devices \ {Device(s)} :
        registers'[d] = registers[d] /\ control'[d] = control[d]
ResultAlone(s) == \A t \in Sessions \ {s} : result'[t] = result[t]

LEMMA EachItsDevice ==
    ASSUME NEW s \in Sessions, TypeOK, Call(s) \/ Run(s) \/ Crash(s)
    PROVE  DevicesAlone(s)
<1>1. CASE UNCHANGED deviceVars
    BY <1>1 DEF deviceVars, DevicesAlone
<1>2. ASSUME NEW v, WriteChannelRegister(s, v), UNCHANGED control
      PROVE  DevicesAlone(s)
    BY <1>2 DEF WriteChannelRegister, DevicesAlone, TypeOK
<1>3. CASE WriteControlRegister(s) /\ UNCHANGED registers
    BY <1>3 DEF WriteControlRegister, DevicesAlone, TypeOK
<1>4. CASE Construct(s) \/ Dismantle(s) \/ Loop(s) \/ Crash(s) \/ Call(s)
    BY <1>1, <1>4 DEF Construct, ReadHigh, ReadLow, Claim, Dismantle, Shutdown,
       Release, Loop, Crash, Call, StartPhantom, StopPhantom, DeletePhantom,
       IsoIterate, NewPhantom
<1>5. CASE Configure(s)
    BY <1>1, <1>2, <1>5 DEF Configure, StartIso, WriteChannel, ReadBack,
       WriteProbe, ReadProbe, RewriteChannel, WriteRegister, deviceVars
<1>6. CASE Control(s)
    BY <1>1, <1>3, <1>6 DEF Control, ReadStatus, ReadControl, WriteControl,
       deviceVars
<1>7. QED
    BY <1>4, <1>5, <1>6 DEF Run

LEMMA ReturnsAlone ==
    ASSUME NEW s \in Sessions, TypeOK,
           \/ \E st : Advance(s, st)
           \/ Complete(s) \/ Raise(s)
    PROVE  ResultAlone(s)
<1>1. UNCHANGED result \/ \E r : result' = [result EXCEPT ![s] = r]
    BY DEF Advance, Complete, Raise, Return
<1>2. QED
    BY <1>1 DEF ResultAlone, TypeOK

LEMMA EachItsResult ==
    ASSUME NEW s \in Sessions, TypeOK, Call(s) \/ Run(s) \/ Crash(s)
    PROVE  ResultAlone(s)
<1>1. CASE Construct(s)
    BY <1>1, ReturnsAlone DEF Construct, ReadHigh, ReadLow, Claim
<1>2. CASE Configure(s)
    BY <1>2, ReturnsAlone DEF Configure, StartIso, WriteChannel, ReadBack,
       WriteProbe, ReadProbe, RewriteChannel, WriteRegister, ReadsBack
<1>3. CASE Control(s)
    BY <1>3, ReturnsAlone DEF Control, ReadStatus, ReadControl, WriteControl,
       ReadsBack, AfterControl
<1>4. CASE Dismantle(s)
    BY <1>4, ReturnsAlone DEF Dismantle, Shutdown, Release
<1>5. CASE Loop(s) \/ Crash(s) \/ Call(s)
    BY <1>5 DEF Loop, Crash, Call, StartPhantom, StopPhantom, BeginStop,
       DeletePhantom, IsoIterate, NewPhantom, Return, ResultAlone, TypeOK
<1>6. QED
    BY <1>1, <1>2, <1>3, <1>4, <1>5 DEF Run

LEMMA OthersUndisturbed ==
    ASSUME OwnDevices, CInv, NEW s \in Sessions, Call(s) \/ Run(s) \/ Crash(s),
           NEW t \in Sessions \ {s}
    PROVE  /\ Probed(t) => Probed(t)'
           /\ SetUp(t) => SetUp(t)'
<1> USE DEF CInv, IInv
<1>1. /\ phase'[t] = phase[t] /\ step'[t] = step[t] /\ started'[t] = started[t]
      /\ channel'[t] = channel[t] /\ contexts'[t] = contexts[t]
    BY ActionGood, ActionContexts DEF GoodContexts, GoodStep, Moved, MovesAlone,
       ObjectsAlone
<1>2. result'[t] = result[t]
    BY EachItsResult DEF ResultAlone
<1>3. /\ registers'[Device(t)] = registers[Device(t)]
      /\ control'[Device(t)] = control[Device(t)]
    BY EachItsDevice, ParameterAssumption DEF DevicesAlone, OwnDevices, Device
<1>4. Recv(t)' = Recv(t) /\ Enabled(t)' = Enabled(t)
    BY <1>3 DEF Recv, Enabled, Device
<1>5. Running(t)' = Running(t)
    BY <1>1, <1>2 DEF Running, Iterating
<1>6. registers'[Device(t)].xmit = registers[Device(t)].xmit
    BY <1>3
<1>7. Probed(t) => Probed(t)'
    BY <1>1, <1>4, <1>5 DEF Probed
<1>8. SetUp(t) => SetUp(t)'
    BY <1>1, <1>4, <1>5, <1>6 DEF SetUp, RecvDone, XmitDone, Device
<1>9. QED
    BY <1>7, <1>8

-----------------------------------------------------------------------------
(* Everything but start() and the calls leaves a session outside, or leaves *)
(* what it owes alone.                                                      *)
LEMMA CompleteOutside ==
    ASSUME NEW s \in Sessions, TypeOK, PcOK(s), Complete(s), Busy(s),
           phase[s] \notin {"ctorXmit", "startRecv", "startXmit"}
    PROVE  Outside(s)'
<1>1. CASE /\ Following(phase[s]) # "idle"
           /\ Goto(s, Following(phase[s]), FirstStep(Following(phase[s])))
    BY <1>1 DEF Following, Goto, TypeOK, Outside, Running, Iterating
<1>2. CASE phase[s] = "delXmit" /\ Return(s, "ok") /\ UNCHANGED started
    BY <1>2 DEF PcOK, Return, Goto, TypeOK, Outside, Running, Iterating
<1>3. CASE phase[s] = "unwind" /\ Return(s, "exception")
    BY <1>3 DEF Return, Goto, TypeOK, Outside, Running, Iterating
<1>4. QED
    BY <1>1, <1>2, <1>3 DEF Complete

LEMMA ConstructOutside ==
    ASSUME NEW s \in Sessions, IInv, Construct(s)
    PROVE  \/ Outside(s)'
           \/ phase'[s] = "startRecv" /\ step'[s] = "startIso"
<1> USE DEF IInv
<1>1. phase[s] \in {"ctorRecv", "ctorXmit"} /\ Busy(s)
    BY DEF Construct, ReadHigh, ReadLow, Claim, PcOK, Iterating, TypeOK, Phases,
           StartSteps, StopSteps, Deleting, Busy, Over
<1>2. ASSUME NEW st, Advance(s, st)
      PROVE  Outside(s)'
    BY <1>1, <1>2 DEF Advance, Goto, TypeOK, Outside, Running, Iterating
<1>3. CASE Raise(s)
    BY <1>1, <1>3, RaiseEnds
<1>4. CASE Complete(s)
  <2>1. CASE phase[s] = "ctorRecv"
      BY <1>1, <1>4, <2>1, CompleteOutside
  <2>2. CASE phase[s] = "ctorXmit"
      BY <1>4, <2>2 DEF Complete, Following, FirstStep, Goto, TypeOK
  <2>3. QED
      BY <1>1, <2>1, <2>2
<1>5. QED
    BY <1>2, <1>3, <1>4 DEF Construct, ReadHigh, ReadLow, Claim

LEMMA DismantleOutside ==
    ASSUME NEW s \in Sessions, IInv,
           \/ Dismantle(s)
           \/ Control(s) /\ phase[s] \notin {"startRecv", "startXmit"}
    PROVE  Outside(s)'
<1> USE DEF IInv
<1>1. phase[s] \in {"stopRecv", "stopXmit"} \/ Deleting(s)
  <2>1. CASE Dismantle(s)
      BY <2>1 DEF Dismantle, Shutdown, Release, PcOK, Iterating, TypeOK, Phases,
                  ConstructSteps, StartSteps, StopSteps, Deleting
  <2>2. CASE Control(s) /\ phase[s] \notin {"startRecv", "startXmit"}
      BY <2>2, ControlStepPhase DEF Control, ReadStatus, ReadControl, WriteControl
  <2>3. QED
      BY <2>1, <2>2
<1>2. Busy(s) /\ ~Starting(s)
    BY <1>1 DEF Busy, Over, Deleting, Starting
<1>3. ASSUME NEW st, Advance(s, st)
      PROVE  Outside(s)'
    BY <1>1, <1>3 DEF Advance, Goto, TypeOK, Outside, Running, Iterating,
                      Deleting
<1>4. CASE Raise(s)
    BY <1>2, <1>4, RaiseEnds
<1>5. CASE Complete(s)
    BY <1>1, <1>2, <1>5, CompleteOutside DEF Deleting
<1>6. (\E st : Advance(s, st)) \/ Raise(s) \/ Complete(s)
    BY <1>2 DEF Dismantle, Shutdown, Release, Control, ReadStatus, ReadControl,
                WriteControl, ReadsBack, AfterControl
<1>7. QED
    BY <1>3, <1>4, <1>5, <1>6

LEMMA CallOutside ==
    ASSUME NEW s \in Sessions, IInv, Call(s) \/ Crash(s)
    PROVE  Outside(s)' \/ (Running(s) /\ IsoIterate(s))
<1> USE DEF IInv
<1>1. CASE Crash(s)
    BY <1>1 DEF Crash, Goto, TypeOK, Outside, Running, Iterating
<1>2. CASE IsoIterate(s)
    BY <1>2 DEF IsoIterate, Goto, TypeOK, Outside, Running, Iterating
<1>3. CASE NewPhantom(s)
    BY <1>3 DEF NewPhantom, Goto, TypeOK, Outside, Running, Iterating
<1>4. CASE StartPhantom(s)
    BY <1>4 DEF StartPhantom, Return, Goto, TypeOK, Outside, Running, Iterating
<1>5. CASE StopPhantom(s) \/ DeletePhantom(s)
    BY <1>5 DEF StopPhantom, DeletePhantom, BeginStop, ResetStarted, Return,
                Goto, TypeOK, Outside, Running, Iterating
<1>6. QED
    BY <1>1, <1>2, <1>3, <1>4, <1>5 DEF Call

LEMMA IterationKeeps ==
    ASSUME NEW s \in Sessions, IInv, Loop(s) \/ (Running(s) /\ IsoIterate(s))
    PROVE  /\ Probed(s) => Probed(s)'
           /\ SetUp(s) => SetUp(s)'
<1> USE DEF IInv
<1>1. phase[s] \in {"idle", "iterRecv", "iterXmit"}
    BY DEF Loop, Running, PcOK, TypeOK, Phases, ConstructSteps, StartSteps,
           StopSteps, Deleting, Iterating
<1>2. /\ phase'[s] \notin {"startRecv", "startXmit"}
      /\ Running(s)' => Running(s)
      /\ UNCHANGED <<registers, control, channel, contexts>>
    BY <1>1 DEF Loop, IsoIterate, Goto, TypeOK, Running, Iterating, deviceVars
<1>3. QED
    BY <1>2 DEF Probed, SetUp, RecvDone, XmitDone, Recv, Enabled, Device

-----------------------------------------------------------------------------
(* start().                                                                 *)
LEMMA StartFacts ==
    ASSUME NEW s \in Sessions, IInv, phase[s] \in {"startRecv", "startXmit"}
    PROVE  /\ Busy(s) /\ Starting(s) /\ Device(s) \in Devices
           /\ Direction(s) = IF phase[s] = "startRecv" THEN "recv" ELSE "xmit"
           /\ Channel(s) = IF phase[s] = "startRecv" THEN channel[s].recv
                                                    ELSE channel[s].xmit
BY ParameterAssumption DEF Busy, Over, Starting, Device, Direction, Channel

LEMMA StartAdvances ==
    ASSUME NEW s \in Sessions, NEW st, TypeOK, Advance(s, st),
           phase[s] \in {"startRecv", "startXmit"}
    PROVE  phase'[s] = phase[s] /\ step'[s] = st /\ ~Running(s)'
BY DEF Advance, Goto, TypeOK, Running, Iterating

LEMMA StartIsoKeeps ==
    ASSUME NEW s \in Sessions, IInv, StartIso(s)
    PROVE  /\ Probed(s) => Probed(s)'
           /\ Faults = {} /\ SetUp(s) => SetUp(s)'
<1> USE DEF IInv
<1>1. phase[s] \in {"startRecv", "startXmit"} /\ step[s] = "startIso"
    BY StartStepPhase DEF StartIso
<1>2. /\ phase'[s] = phase[s] /\ step'[s] = "writeChannel" /\ ~Running(s)'
      /\ UNCHANGED <<registers, control, channel>>
    BY <1>1, StartAdvances DEF StartIso, deviceVars
<1>3. Probed(s) => Probed(s)'
    BY <1>1, <1>2 DEF Probed, Recv, Device, ControlSteps
<1>4. ASSUME Faults = {}, SetUp(s)
      PROVE  SetUp(s)'
  <2>1. contexts'[s] = contexts[s] \cup {<<Direction(s), Channel(s)>>}
      BY <1>4 DEF StartIso, Fault, TypeOK
  <2>2. QED
      BY <1>1, <1>2, <1>4, <2>1, StartFacts
         DEF SetUp, RecvDone, Recv, Enabled, Device, ControlSteps
<1>5. QED
    BY <1>3, <1>4

(* A write to the register of one direction.                                *)
LEMMA WriteRegisterEffect ==
    ASSUME NEW s \in Sessions, NEW value, NEW st, IInv,
           phase[s] \in {"startRecv", "startXmit"},
           WriteRegister(s, value, Advance(s, st))
    PROVE  \/ Outside(s)' /\ Faults # {}
           \/ /\ phase'[s] = phase[s] /\ step'[s] = st /\ ~Running(s)'
              /\ UNCHANGED <<control, channel, contexts>>
              /\ \/ UNCHANGED registers /\ Faults # {}
                 \/ /\ phase[s] = "startRecv"
                    /\ Recv(s)' = value
                 \/ /\ phase[s] = "startXmit"
                    /\ Recv(s)' = Recv(s)
                    /\ registers'[Device(s)].xmit = value
<1> USE DEF IInv
<1>1. CASE Raise(s) /\ Fault(s, "throw")
    BY <1>1, StartFacts, RaiseEnds DEF Fault
<1>2. CASE Advance(s, st)
  <2>1. phase'[s] = phase[s] /\ step'[s] = st /\ ~Running(s)'
      BY <1>2, StartAdvances
  <2>2. ASSUME WriteChannelRegister(s, value)
        PROVE  registers'[Device(s)] =
                   [registers[Device(s)] EXCEPT ![Direction(s)] = value]
      BY <2>2, StartFacts DEF WriteChannelRegister, TypeOK
  <2>3. registers[Device(s)] \in [Directions -> ChannelCodes]
      BY StartFacts DEF TypeOK
  <2>4. \/ UNCHANGED registers /\ Faults # {}
        \/ phase[s] = "startRecv" /\ Recv(s)' = value
        \/ /\ phase[s] = "startXmit" /\ Recv(s)' = Recv(s)
           /\ registers'[Device(s)].xmit = value
    <3>1. CASE UNCHANGED registers /\ Fault(s, "drop")
        BY <3>1 DEF Fault
    <3>2. CASE WriteChannelRegister(s, value)
        BY <2>2, <2>3, <3>2, StartFacts DEF Recv, Device, Directions
    <3>3. CASE Raise(s) /\ Fault(s, "throw")
      <4>1. Outside(s)'
          BY <1>1, <3>3, StartFacts, RaiseEnds
      <4>2. QED
          BY <2>1, <4>1 DEF Outside
    <3>4. QED
        BY <3>1, <3>2, <3>3 DEF WriteRegister
  <2>5. QED
      BY <2>1, <2>4 DEF WriteRegister
<1>3. QED
    BY <1>1, <1>2 DEF WriteRegister

LEMMA WriteKeeps ==
    ASSUME NEW s \in Sessions, IInv,
           WriteChannel(s) \/ WriteProbe(s) \/ RewriteChannel(s)
    PROVE  /\ Probed(s) => Probed(s)'
           /\ Faults = {} /\ SetUp(s) => SetUp(s)'
<1>1. phase[s] \in {"startRecv", "startXmit"}
    BY StartStepPhase DEF WriteChannel, WriteProbe, RewriteChannel
<1>2. CASE WriteChannel(s)
  <2> DEFINE next == IF phase[s] = "startRecv" THEN "readBack" ELSE "readStatus"
  <2>1. CASE Outside(s)' /\ Faults # {}
      BY <2>1, OutsideOwesNothing
  <2>2. CASE /\ phase'[s] = phase[s] /\ step'[s] = next /\ ~Running(s)'
             /\ UNCHANGED <<control, channel, contexts>>
             /\ \/ UNCHANGED registers /\ Faults # {}
                \/ phase[s] = "startRecv" /\ Recv(s)' = Channel(s)
                \/ /\ phase[s] = "startXmit" /\ Recv(s)' = Recv(s)
                   /\ registers'[Device(s)].xmit = Channel(s)
    <3>1. Probed(s) => Probed(s)'
        BY <1>1, <2>2 DEF Probed, Recv, Device, ControlSteps
    <3>2. CASE phase[s] = "startRecv"
        BY <1>2, <2>2, <3>1, <3>2 DEF WriteChannel, SetUp, ControlSteps
    <3>3. CASE phase[s] = "startXmit"
        BY <1>2, <2>2, <3>1, <3>3, StartFacts
           DEF WriteChannel, SetUp, RecvDone, XmitDone, Enabled, Device,
               ControlSteps
    <3>4. QED
        BY <1>1, <3>2, <3>3
  <2>3. QED
      BY <1>1, <1>2, <2>1, <2>2, WriteRegisterEffect DEF WriteChannel
<1>3. CASE WriteProbe(s)
    BY <1>1, <1>3, StartFacts, WriteRegisterEffect, OutsideOwesNothing
       DEF WriteProbe, Probed, SetUp, Recv, Device, ControlSteps
<1>4. CASE RewriteChannel(s)
    BY <1>1, <1>4, StartFacts, WriteRegisterEffect, OutsideOwesNothing
       DEF RewriteChannel, RewriteValue, Probed, SetUp, Recv, Device,
           ControlSteps
<1>5. QED
    BY <1>2, <1>3, <1>4

LEMMA ReadKeeps ==
    ASSUME NEW s \in Sessions, IInv, ReadBack(s) \/ ReadProbe(s)
    PROVE  /\ Probed(s) => Probed(s)'
           /\ Faults = {} /\ SetUp(s) => SetUp(s)'
<1> USE DEF IInv
<1>1. /\ phase[s] \in {"startRecv", "startXmit"}
      /\ step[s] \in {"readBack", "readProbe"}
    BY StartStepPhase DEF ReadBack, ReadProbe
<1>2. CASE Raise(s)
    BY <1>1, <1>2, StartFacts, RaiseEnds, OutsideOwesNothing
<1>3. ASSUME NEW st \in {"writeProbe", "rewriteChannel"}, Advance(s, st),
             Recv(s) = IF st = "writeProbe" THEN Channel(s) ELSE PROBE
      PROVE  /\ Probed(s) => Probed(s)'
             /\ SetUp(s) => SetUp(s)'
  <2>1. /\ phase'[s] = phase[s] /\ step'[s] = st /\ ~Running(s)'
        /\ UNCHANGED <<registers, control, channel, contexts>>
      BY <1>1, <1>3, StartAdvances DEF ReadBack, ReadProbe, deviceVars
  <2>2. QED
      BY <1>1, <1>3, <2>1, StartFacts
         DEF Probed, SetUp, Recv, Device, ControlSteps
<1>4. QED
    BY <1>2, <1>3 DEF ReadBack, ReadProbe, ReadsBack, Matches, Recv

(* The end of start().                                                      *)
LEMMA StartCompletes ==
    ASSUME NEW s \in Sessions, IInv, Complete(s),
           phase[s] \in {"startRecv", "startXmit"}
    PROVE  \/ /\ phase[s] = "startRecv"
              /\ phase'[s] = "startXmit" /\ step'[s] = "startIso"
              /\ ~Running(s)'
           \/ phase[s] = "startXmit" /\ phase'[s] \in {"idle", "gone"}
BY DEF IInv, Complete, Following, FirstStep, Return, Goto, TypeOK, Running,
       Iterating

LEMMA ControlKeeps ==
    ASSUME NEW s \in Sessions, IInv, Control(s),
           phase[s] \in {"startRecv", "startXmit"}
    PROVE  /\ Probed(s) => Probed(s)'
           /\ Faults = {} /\ SetUp(s) => SetUp(s)'
<1> USE DEF IInv
<1>1. step[s] \in ControlSteps /\ UNCHANGED <<registers, channel, contexts>>
    BY DEF Control, ReadStatus, ReadControl, WriteControl, ControlSteps,
           deviceVars
<1>2. CASE Raise(s)
    BY <1>2, StartFacts, RaiseEnds, OutsideOwesNothing
<1>3. Faults = {} => (Enabled(s) => Enabled(s)')
  <2>1. CASE WriteControlRegister(s)
      BY <2>1, StartFacts
         DEF WriteControlRegister, ControlValue, TypeOK, Enabled, Device
  <2>2. CASE UNCHANGED control
      BY <2>2 DEF Enabled, Device
  <2>3. QED
      BY <2>1, <2>2 DEF Control, ReadStatus, ReadControl, WriteControl, deviceVars
<1>4. ASSUME NEW st \in ControlSteps, Advance(s, st)
      PROVE  /\ Probed(s) => Probed(s)'
             /\ Faults = {} /\ SetUp(s) => SetUp(s)'
    BY <1>1, <1>3, <1>4, StartAdvances
       DEF Probed, SetUp, RecvDone, XmitDone, Recv, Device, ControlSteps
<1>5. CASE Complete(s)
  <2>1. Probed(s) => Probed(s)'
      BY <1>1, <1>5, StartCompletes DEF Probed, Recv, Device, ControlSteps
  <2>2. ASSUME Faults = {}
        PROVE  Enabled(s)'
    <3>1. CASE ReadStatus(s)
        BY <1>5, <2>2, <3>1, StartAdvances, StartCompletes
           DEF ReadStatus, ReadsBack, Fault
    <3>2. CASE ReadControl(s)
        BY <1>5, <2>2, <3>2, StartAdvances, StartCompletes, StartFacts
           DEF ReadControl, MustWriteControl, Fault, Enabled, Device, deviceVars
    <3>3. CASE WriteControl(s)
        BY <2>2, <3>3, StartFacts
           DEF WriteControl, WriteControlRegister, ControlValue, Fault, TypeOK,
               Enabled, Device
    <3>4. QED
        BY <3>1, <3>2, <3>3 DEF Control
  <2>3. QED
      BY <1>1, <1>5, <2>1, <2>2, StartCompletes
         DEF SetUp, RecvDone, XmitDone, Recv, Device, ControlSteps
<1>6. QED
    BY <1>2, <1>4, <1>5, StartFacts
       DEF Control, ReadStatus, ReadControl, WriteControl, ReadsBack,
           AfterControl, ControlSteps

-----------------------------------------------------------------------------
LEMMA StepKeeps ==
    ASSUME NEW s \in Sessions, IInv, Call(s) \/ Run(s) \/ Crash(s)
    PROVE  /\ Probed(s) => Probed(s)'
           /\ Faults = {} /\ SetUp(s) => SetUp(s)'
<1>1. CASE Construct(s)
  <2>1. CASE Outside(s)'
      BY <2>1, OutsideOwesNothing
  <2>2. CASE phase'[s] = "startRecv" /\ step'[s] = "startIso"
      BY <2>2 DEF Probed, SetUp, Running, Iterating, ControlSteps
  <2>3. QED
      BY <1>1, <2>1, <2>2, ConstructOutside
<1>2. CASE Configure(s)
    BY <1>2, StartIsoKeeps, WriteKeeps, ReadKeeps DEF Configure
<1>3. CASE Dismantle(s) \/ Control(s)
    BY <1>3, DismantleOutside, OutsideOwesNothing, ControlKeeps
<1>4. CASE Call(s) \/ Crash(s) \/ Loop(s)
    BY <1>4, CallOutside, OutsideOwesNothing, IterationKeeps
<1>5. QED
    BY <1>1, <1>2, <1>3, <1>4 DEF Run

LEMMA NextPInv == OwnDevices /\ PInv /\ [Next]_vars => PInv'
<1>1. ASSUME OwnDevices, PInv, NEW s \in Sessions, Call(s) \/ Run(s) \/ Crash(s)
      PROVE  PInv'
  <2>1. CInv'
      BY <1>1, NextCInv DEF PInv, Next
  <2>2. Probed(s)'
      BY <1>1, StepKeeps DEF PInv, CInv
  <2>3. \A t \in Sessions \ {s} : Probed(t)'
      BY <1>1, OthersUndisturbed DEF PInv
  <2>4. QED
      BY <2>1, <2>2, <2>3 DEF PInv
<1>2. ASSUME PInv, UNCHANGED vars
      PROVE  PInv'
  <2>1. CInv'
      BY <1>2, NextCInv DEF PInv
  <2>2. QED
      BY <1>2, <2>1 DEF PInv, vars, pcVars, deviceVars, Probed, Running,
                        Iterating, Recv, Device
<1>3. QED
    BY <1>1, <1>2 DEF Next

LEMMA NextUInv == OwnDevices /\ Faults = {} /\ UInv /\ [Next]_vars => UInv'
<1>1. ASSUME OwnDevices, Faults = {}, UInv,
             NEW s \in Sessions, Call(s) \/ Run(s) \/ Crash(s)
      PROVE  UInv'
  <2>1. CInv'
      BY <1>1, NextCInv DEF UInv, Next
  <2>2. SetUp(s)'
      BY <1>1, StepKeeps DEF UInv, CInv
  <2>3. \A t \in Sessions \ {s} : SetUp(t)'
      BY <1>1, OthersUndisturbed DEF UInv
  <2>4. QED
      BY <2>1, <2>2, <2>3 DEF UInv
<1>2. ASSUME UInv, UNCHANGED vars
      PROVE  UInv'
  <2>1. CInv'
      BY <1>2, NextCInv DEF UInv
  <2>2. QED
      BY <1>2, <2>1 DEF UInv, vars, pcVars, deviceVars, SetUp, RecvDone,
                        XmitDone, Running, Iterating, Recv, Enabled, Device
<1>3. QED
    BY <1>1, <1>2 DEF Next

LEMMA InitCInv == Init => CInv /\ \A s \in Sessions : Outside(s)
BY InitIInv DEF Init, CInv, ContextsOK, Outside, Running

(* Sessions with a device each: after a startPhantom that returned, the     *)
(* device sends on the receive channel of its session or, if the last write *)
(* was lost, holds the probe, whatever else fails.                          *)
THEOREM ReceiveChannelIsConfirmed ==
    OwnDevices => (Spec => []RecvChannelConfirmed)
<1> SUFFICES ASSUME OwnDevices
             PROVE  Spec => []RecvChannelConfirmed
    OBVIOUS
<1>1. Init => PInv
    BY InitCInv DEF PInv, Outside, Probed
<1>2. PInv => RecvChannelConfirmed
    BY DEF PInv, Probed, Recv, RecvChannelConfirmed
<1>3. PInv /\ [Next]_vars => PInv'
    BY NextPInv
<1>4. QED
    BY <1>1, <1>2, <1>3, PTL DEF Spec

(* The same on a bus that loses nothing: the state that start() leaves.     *)
LEMMA SetUpHolds == OwnDevices /\ Faults = {} => (Spec => []UInv)
<1> SUFFICES ASSUME OwnDevices, Faults = {}
             PROVE  Spec => []UInv
    OBVIOUS
<1>1. Init => UInv
    BY InitCInv DEF UInv, Outside, SetUp
<1>2. UInv /\ [Next]_vars => UInv'
    BY NextUInv
<1>3. QED
    BY <1>1, <1>2, PTL DEF Spec

(* After a startPhantom that returned, the device is told both channels of  *)
(* its session and enabled.                                                 *)
THEOREM RunningIsConfigured ==
    OwnDevices /\ Faults = {} => (Spec => []RunningDeviceConfigured)
<1>1. UInv => RunningDeviceConfigured
    BY DEF UInv, SetUp, RecvDone, XmitDone, Recv, Enabled,
           RunningDeviceConfigured
<1>2. QED
    BY <1>1, SetUpHolds, PTL

(* After a startPhantom that returned, isoIterate never waits for ever:     *)
(* both contexts are open, on the channels of their objects, and the device *)
(* sends.                                                                   *)
THEOREM RunningDoesIterate ==
    OwnDevices /\ Faults = {} => (Spec => []RunningIterates)
<1>1. ASSUME UInv, NEW s \in Sessions, Running(s), step[s] = "loop"
      PROVE  Ready(s)
  <2>1. Iterating(s) /\ RecvDone(s) /\ XmitDone(s)
      BY <1>1 DEF UInv, CInv, IInv, PcOK, Running, SetUp
  <2>2. ContextOf(s) \in contexts[s]
      BY <2>1 DEF RecvDone, XmitDone, Iterating, ContextOf, Direction, Channel
  <2>3. phase[s] = "iterRecv" => SentOn(Channel(s))
      BY <2>1, ParameterAssumption
         DEF RecvDone, Recv, Enabled, SentOn, Device, Channel, Direction
  <2>4. QED
      BY <2>2, <2>3 DEF Ready
<1>2. UInv => RunningIterates
    BY <1>1 DEF RunningIterates, Blocked
<1>3. QED
    BY <1>2, SetUpHolds, PTL
=============================================================================
