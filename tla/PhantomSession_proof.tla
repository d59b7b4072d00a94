----------------------- MODULE PhantomSession_proof -----------------------
(***************************************************************************)
(* Type correctness, and who holds which channel, for any number of        *)
(* sessions, devices and channels, any assignment of devices to sessions   *)
(* and any of the faults.                                                  *)
(***************************************************************************)
EXTENDS PhantomSession, TLAPS

(* Which channel objects of a session exist.                                *)
ObjectPhases(d) ==
    IF d = "recv"
    THEN {"ctorXmit", "unwind", "startRecv", "startXmit", "stopRecv",
          "stopXmit", "delRecv"}
    ELSE {"startRecv", "startXmit", "stopRecv", "stopXmit", "delRecv",
          "delXmit"}
Exists(s, d) == \/ phase[s] \in ObjectPhases(d)
                \/ phase[s] \in {"idle", "iterRecv", "iterXmit"} /\ started[s]

(* Where a session can be: the steps that belong to each phase, and the     *)
(* value of the flag.                                                       *)
ConstructSteps == {"readHigh", "readLow", "claim"}
StartSteps == {"startIso", "writeChannel", "readBack", "writeProbe",
               "readProbe", "rewriteChannel", "readStatus", "readControl",
               "writeControl"}
StopSteps == {"readStatus", "readControl", "writeControl", "shutdown"}

PcOK(s) ==
    /\ phase[s] \in {"idle", "gone", "terminated"} => step[s] = "none"
    /\ phase[s] \in {"ctorRecv", "ctorXmit"} => step[s] \in ConstructSteps
    /\ phase[s] \in {"startRecv", "startXmit"} => step[s] \in StartSteps
    /\ phase[s] \in {"stopRecv", "stopXmit"} => step[s] \in StopSteps
    /\ Deleting(s) => step[s] \in StopSteps \cup {"release"}
    /\ Iterating(s) => step[s] = "loop"
    /\ phase[s] \in {"stopRecv", "stopXmit", "delRecv", "delXmit", "gone"}
          => ~started[s]
    /\ destroying[s] => phase[s] \in {"stopRecv", "stopXmit", "delRecv",
                                      "delXmit", "gone", "terminated"}

(* An existing channel object holds its channel, and the two objects of a   *)
(* session hold different ones.                                             *)
HoldsOwn(s) ==
    /\ \A d \in Directions : Exists(s, d) => channel[s][d] \in claimed[s]
    /\ Exists(s, "recv") /\ Exists(s, "xmit") =>
           channel[s].recv # channel[s].xmit

IInv == /\ TypeOK
        /\ ChannelsPartitioned
        /\ \A s \in Sessions : PcOK(s) /\ HoldsOwn(s)

-----------------------------------------------------------------------------
(* Control flow.  Each of Advance, Complete and Raise moves the session     *)
(* alone, to a place where it can be, and brings no channel object to life  *)
(* but the one whose constructor came to its end.                           *)
ControlTyped == /\ started \in [Sessions -> BOOLEAN]
                /\ phase \in [Sessions -> Phases]
                /\ step \in [Sessions -> Steps]
                /\ result \in [Sessions -> {"none", "ok", "exception"}]

MovesAlone(s) == \A t \in Sessions \ {s} : /\ phase'[t] = phase[t]
                                           /\ step'[t] = step[t]
                                           /\ started'[t] = started[t]

NoNewObject(s) == \A d \in Directions : Exists(s, d)' => Exists(s, d)

Moved(s) == ControlTyped' /\ MovesAlone(s) /\ PcOK(s)'

LEMMA AdvanceControl ==
    ASSUME NEW s \in Sessions, NEW st \in Steps, TypeOK, PcOK(s),
           Advance(s, st), UNCHANGED destroying,
           \/ phase[s] \in {"ctorRecv", "ctorXmit"} /\ st \in ConstructSteps
           \/ phase[s] \in {"startRecv", "startXmit"} /\ st \in StartSteps
           \/ phase[s] \in {"stopRecv", "stopXmit"} /\ st \in StopSteps
           \/ Deleting(s) /\ st \in StopSteps \cup {"release"}
    PROVE  Moved(s) /\ NoNewObject(s)
<1>1. /\ phase' = phase /\ started' = started /\ result' = result
      /\ step' = [step EXCEPT ![s] = st]
    BY DEF Advance, Goto, TypeOK
<1>2. ControlTyped' /\ MovesAlone(s)
    BY <1>1 DEF TypeOK, ControlTyped, MovesAlone
<1>3. PcOK(s)'
    BY <1>1 DEF TypeOK, PcOK, Iterating, Deleting, ConstructSteps, StartSteps,
                StopSteps
<1>4. NoNewObject(s)
    BY <1>1 DEF NoNewObject, Exists
<1>5. QED
    BY <1>2, <1>3, <1>4 DEF Moved

LEMMA CompleteControl ==
    ASSUME NEW s \in Sessions, TypeOK, PcOK(s), Busy(s), Complete(s),
           UNCHANGED destroying
    PROVE  /\ Moved(s)
           /\ \A d \in Directions : Exists(s, d)' =>
                  \/ Exists(s, d) /\ ~(Deleting(s) /\ d = Direction(s))
                  \/ (phase[s] \in {"ctorRecv", "ctorXmit"} /\ d = Direction(s))
<1>1. CASE /\ Following(phase[s]) # "idle"
           /\ Goto(s, Following(phase[s]), FirstStep(Following(phase[s])))
           /\ UNCHANGED <<started, result>>
  <2>1. phase[s] \in {"ctorRecv", "ctorXmit", "startRecv", "stopRecv",
                      "stopXmit", "delRecv"}
      BY <1>1 DEF Following
  <2>2. /\ phase' = [phase EXCEPT ![s] = Following(phase[s])]
        /\ step' = [step EXCEPT ![s] = FirstStep(Following(phase[s]))]
      BY <1>1 DEF Goto
  <2>3. /\ Following(phase[s]) \in Phases
        /\ FirstStep(Following(phase[s])) \in Steps
      BY <2>1 DEF Following, FirstStep, Phases, Steps
  <2>4. ControlTyped' /\ MovesAlone(s)
      BY <1>1, <2>2, <2>3 DEF TypeOK, ControlTyped, MovesAlone
  <2>5. PcOK(s)'
      BY <1>1, <2>1, <2>2
         DEF TypeOK, PcOK, Iterating, Deleting, Following, FirstStep,
             ConstructSteps, StartSteps, StopSteps
  <2>6. QED
      BY <1>1, <2>1, <2>2, <2>4, <2>5
         DEF Moved, TypeOK, Exists, ObjectPhases, Following, Direction,
             Deleting, Directions
<1>2. CASE /\ phase[s] \in {"startXmit", "delXmit"}
           /\ Return(s, "ok")
           /\ UNCHANGED started
  <2>1. ControlTyped' /\ MovesAlone(s)
      BY <1>2 DEF TypeOK, ControlTyped, MovesAlone, Return, Goto, Phases, Steps
  <2>2. PcOK(s)'
      BY <1>2 DEF TypeOK, PcOK, Iterating, Deleting, Return, Goto
  <2>3. QED
      BY <1>2, <2>1, <2>2
         DEF Moved, TypeOK, PcOK, Iterating, Return, Goto, Exists, ObjectPhases,
             Direction, Deleting, Directions
<1>3. CASE /\ phase[s] = "unwind"
           /\ Return(s, "exception")
           /\ ResetStarted(s)
  <2>1. ControlTyped' /\ MovesAlone(s)
      BY <1>3 DEF TypeOK, ControlTyped, MovesAlone, Return, Goto, ResetStarted,
                  Phases, Steps
  <2>2. PcOK(s)'
      BY <1>3 DEF TypeOK, PcOK, Iterating, Deleting, Return, Goto, ResetStarted
  <2>3. QED
      BY <1>3, <2>1, <2>2
         DEF Moved, TypeOK, Return, Goto, ResetStarted, Exists, ObjectPhases,
             Directions
<1>4. QED
    BY <1>1, <1>2, <1>3 DEF Complete

LEMMA RaiseControl ==
    ASSUME NEW s \in Sessions, TypeOK, PcOK(s), Busy(s), Raise(s),
           UNCHANGED destroying
    PROVE  /\ Moved(s) /\ NoNewObject(s)
           /\ Deleting(s) => \A d \in Directions : ~Exists(s, d)'
<1>1. CASE /\ InDestructor(s)
           /\ Goto(s, "terminated", "none")
           /\ UNCHANGED <<started, result>>
    BY <1>1 DEF Goto, TypeOK, Moved, ControlTyped, MovesAlone, PcOK, Iterating,
                Deleting, NoNewObject, Exists, ObjectPhases, Phases, Steps
<1>2. CASE /\ UnwindsRecv(s)
           /\ Goto(s, "unwind", "readStatus")
           /\ UNCHANGED <<started, result>>
    BY <1>2 DEF Goto, TypeOK, Moved, ControlTyped, MovesAlone, PcOK, Iterating,
                Deleting, NoNewObject, Exists, ObjectPhases, Phases, Steps,
                UnwindsRecv, StopSteps, Directions
<1>3. CASE /\ phase[s] \in {"ctorRecv", "ctorXmit", "unwind"}
           /\ Return(s, "exception")
           /\ ResetStarted(s)
    BY <1>3 DEF Goto, Return, ResetStarted, TypeOK, Moved, ControlTyped,
                MovesAlone, PcOK, Iterating, Deleting, NoNewObject, Exists,
                ObjectPhases, Phases, Steps
<1>4. CASE /\ phase[s] \notin {"ctorRecv", "ctorXmit", "unwind"}
           /\ Return(s, "exception")
           /\ UNCHANGED started
  <2>1. phase[s] \in {"startRecv", "startXmit", "stopRecv", "stopXmit",
                      "delRecv", "delXmit", "iterRecv", "iterXmit"}
      BY <1>4 DEF Busy, Over, TypeOK, Phases
  <2>2. ControlTyped' /\ MovesAlone(s)
      BY <1>4 DEF Goto, Return, TypeOK, ControlTyped, MovesAlone, Phases, Steps
  <2>3. PcOK(s)'
      BY <1>4, <2>1 DEF Goto, Return, TypeOK, PcOK, Iterating, Deleting
  <2>4. NoNewObject(s) /\ (Deleting(s) => \A d \in Directions : ~Exists(s, d)')
      BY <1>4, <2>1 DEF Goto, Return, TypeOK, PcOK, Iterating, Deleting,
                        NoNewObject, Exists, ObjectPhases, Directions
  <2>5. QED
      BY <2>2, <2>3, <2>4 DEF Moved
<1>5. QED
    BY <1>1, <1>2, <1>3, <1>4 DEF Raise

-----------------------------------------------------------------------------
(* The channels.  A step of a session leaves the pool alone, takes a free   *)
(* channel, or gives back one that it holds; each keeps the partition.      *)
PoolStep(s) == \/ UNCHANGED poolVars
               \/ \E c \in available : Allocate(s, c)
               \/ \E c \in claimed[s] : Free(s, c)

PoolTyped == /\ available \subseteq Channels
             /\ claimed \in [Sessions -> SUBSET Channels]

LEMMA PoolPartition ==
    ASSUME NEW s \in Sessions, TypeOK, ChannelsPartitioned, PoolStep(s)
    PROVE  /\ PoolTyped' /\ ChannelsPartitioned'
           /\ \A t \in Sessions \ {s} : claimed'[t] = claimed[t]
<1>1. CASE UNCHANGED poolVars
    BY <1>1 DEF poolVars, TypeOK, PoolTyped, ChannelsPartitioned
<1>2. ASSUME NEW c \in available, Allocate(s, c)
      PROVE  /\ PoolTyped' /\ ChannelsPartitioned'
             /\ \A t \in Sessions \ {s} : claimed'[t] = claimed[t]
  <2>1. /\ claimed'[s] = claimed[s] \cup {c}
        /\ \A t \in Sessions \ {s} : claimed'[t] = claimed[t]
        /\ available' = available \ {c}
      BY <1>2 DEF Allocate, TypeOK
  <2>2. PoolTyped'
      BY <1>2 DEF Allocate, TypeOK, PoolTyped
  <2>3. \A t \in Sessions : c \notin claimed[t]
      BY <1>2 DEF ChannelsPartitioned
  <2>4. UNION {claimed'[t] : t \in Sessions}
            = {c} \cup UNION {claimed[t] : t \in Sessions}
      BY <2>1
  <2>5. /\ \A t, u \in Sessions : t # u => claimed'[t] \cap claimed'[u] = {}
        /\ \A t \in Sessions : claimed'[t] \cap (available' \cup Foreign) = {}
      BY <2>1, <2>3 DEF ChannelsPartitioned
  <2>6. QED
      BY <2>1, <2>2, <2>4, <2>5 DEF ChannelsPartitioned
<1>3. ASSUME NEW c \in claimed[s], Free(s, c)
      PROVE  /\ PoolTyped' /\ ChannelsPartitioned'
             /\ \A t \in Sessions \ {s} : claimed'[t] = claimed[t]
  <2>1. /\ claimed'[s] = claimed[s] \ {c}
        /\ \A t \in Sessions \ {s} : claimed'[t] = claimed[t]
        /\ available' = available \cup {c}
      BY <1>3 DEF Free, TypeOK
  <2>2. PoolTyped'
      BY <1>3 DEF Free, TypeOK, PoolTyped
  <2>3. c \notin Foreign /\ \A t \in Sessions \ {s} : c \notin claimed[t]
      BY <1>3 DEF ChannelsPartitioned
  <2>4. {c} \cup UNION {claimed'[t] : t \in Sessions}
            = UNION {claimed[t] : t \in Sessions}
      BY <1>3, <2>1
  <2>5. /\ \A t, u \in Sessions : t # u => claimed'[t] \cap claimed'[u] = {}
        /\ \A t \in Sessions : claimed'[t] \cap (available' \cup Foreign) = {}
      BY <2>1, <2>3 DEF ChannelsPartitioned
  <2>6. QED
      BY <2>1, <2>2, <2>3, <2>4, <2>5 DEF ChannelsPartitioned
<1>4. QED
    BY <1>1, <1>2, <1>3 DEF PoolStep

-----------------------------------------------------------------------------
(* What each action has to satisfy, and that this is enough.                *)
RestTyped == /\ registers \in [Devices -> [Directions -> ChannelCodes]]
             /\ control \in [Devices -> SUBSET ControlBits]
             /\ channel \in [Sessions -> [Directions -> Channels \cup {NO_CHANNEL}]]
             /\ contexts \in [Sessions -> SUBSET (Directions \X Channels)]
             /\ destroying \in [Sessions -> BOOLEAN]
             /\ view \in [Sessions -> SUBSET Channels]
             /\ seen \in [Sessions -> SUBSET ControlBits]
             /\ faulted \in [Sessions -> BOOLEAN]

ObjectsAlone(s) == \A t \in Sessions \ {s} : /\ channel'[t] = channel[t]
                                             /\ destroying'[t] = destroying[t]

GoodStep(s) == /\ Moved(s) /\ RestTyped' /\ ObjectsAlone(s)
               /\ PoolStep(s) /\ HoldsOwn(s)'

LEMMA GoodStepIInv ==
    ASSUME NEW s \in Sessions, IInv, GoodStep(s)
    PROVE  IInv'
<1>1. /\ PoolTyped' /\ ChannelsPartitioned'
      /\ \A t \in Sessions \ {s} : claimed'[t] = claimed[t]
    BY PoolPartition DEF IInv, GoodStep
<1>2. TypeOK'
    BY <1>1 DEF GoodStep, Moved, ControlTyped, RestTyped, PoolTyped, TypeOK
<1>3. ASSUME NEW t \in Sessions \ {s}
      PROVE  PcOK(t)' /\ HoldsOwn(t)'
  <2>1. PcOK(t) /\ HoldsOwn(t)
      BY DEF IInv
  <2>2. PcOK(t)'
      BY <2>1 DEF GoodStep, Moved, MovesAlone, ObjectsAlone, PcOK, Iterating,
                  Deleting
  <2>3. HoldsOwn(t)'
      BY <1>1, <2>1
         DEF GoodStep, Moved, MovesAlone, ObjectsAlone, HoldsOwn, Exists
  <2>4. QED
      BY <2>2, <2>3
<1>4. QED
    BY <1>1, <1>2, <1>3 DEF GoodStep, Moved, IInv

(* The objects keep their channels when none is new and no channel is lost. *)
LEMMA HoldsKept ==
    ASSUME NEW s \in Sessions, HoldsOwn(s), NoNewObject(s),
           UNCHANGED channel, claimed[s] \subseteq claimed'[s]
    PROVE  HoldsOwn(s)'
BY DEF HoldsOwn, NoNewObject, Directions

LEMMA QuietStep ==
    ASSUME NEW s \in Sessions, IInv, RestTyped',
           UNCHANGED <<poolVars, channel, destroying>>,
           Moved(s), NoNewObject(s)
    PROVE  GoodStep(s)
BY HoldsKept DEF GoodStep, IInv, ObjectsAlone, PoolStep, poolVars

LEMMA CompleteQuiet ==
    ASSUME NEW s \in Sessions, TypeOK, PcOK(s), Busy(s), Complete(s),
           UNCHANGED destroying, phase[s] \notin {"ctorRecv", "ctorXmit"}
    PROVE  Moved(s) /\ NoNewObject(s)
BY CompleteControl DEF NoNewObject

(* The channel of the object that a member function runs on.                *)
LEMMA OwnChannel ==
    ASSUME NEW s \in Sessions, IInv, Busy(s),
           phase[s] \notin {"ctorRecv", "ctorXmit"}, ~Iterating(s)
    PROVE  /\ Direction(s) \in Directions /\ Exists(s, Direction(s))
           /\ Channel(s) \in claimed[s] /\ Channel(s) \in Channels
<1>1. Direction(s) \in Directions /\ Exists(s, Direction(s))
    BY DEF IInv, TypeOK, Busy, Over, Phases, Direction, Directions, Exists,
           ObjectPhases, Iterating
<1>2. Channel(s) \in claimed[s]
    BY <1>1 DEF IInv, HoldsOwn, Channel
<1>3. QED
    BY <1>1, <1>2 DEF IInv, TypeOK

LEMMA WriteRegisterGood ==
    ASSUME NEW s \in Sessions, NEW value \in ChannelCodes, NEW st \in StartSteps,
           IInv, phase[s] \in {"startRecv", "startXmit"},
           WriteRegister(s, value, Advance(s, st))
    PROVE  GoodStep(s)
<1> USE DEF IInv
<1>1. RestTyped'
  <2>1. registers' \in [Devices -> [Directions -> ChannelCodes]]
    <3>1. CASE UNCHANGED registers
        BY <3>1 DEF TypeOK
    <3>2. CASE WriteChannelRegister(s, value)
      <4>1. Direction(s) \in Directions
          BY DEF Direction, Directions
      <4>2. QED
          BY <3>2, <4>1 DEF WriteChannelRegister, TypeOK
    <3>3. QED
        BY <3>1, <3>2 DEF WriteRegister
  <2>2. faulted' \in [Sessions -> BOOLEAN]
      BY DEF WriteRegister, Fault, TypeOK
  <2>3. QED
      BY <2>1, <2>2 DEF WriteRegister, RestTyped, TypeOK
<1>2. Busy(s) /\ UNCHANGED <<poolVars, channel, destroying>>
    BY DEF WriteRegister, Busy, Over, poolVars
<1>3. CASE Advance(s, st)
    BY <1>1, <1>2, <1>3, AdvanceControl, QuietStep
       DEF StartSteps, Steps
<1>4. CASE Raise(s)
    BY <1>1, <1>2, <1>4, RaiseControl, QuietStep
<1>5. QED
    BY <1>3, <1>4 DEF WriteRegister

-----------------------------------------------------------------------------
(* The constructor.                                                         *)
LEMMA Constructing ==
    ASSUME NEW s \in Sessions, IInv, step[s] \in {"readHigh", "readLow"}
    PROVE  phase[s] \in {"ctorRecv", "ctorXmit"} /\ Busy(s)
<1>1. phase[s] \in Phases /\ PcOK(s)
    BY DEF IInv, TypeOK
<1>2. phase[s] \in {"ctorRecv", "ctorXmit"}
    BY <1>1 DEF PcOK, Phases, Iterating, Deleting, StartSteps, StopSteps
<1>3. QED
    BY <1>2 DEF Busy, Over

LEMMA ReadHighGood ==
    ASSUME NEW s \in Sessions, IInv, ReadHigh(s)
    PROVE  GoodStep(s)
<1> USE DEF IInv
<1>1. phase[s] \in {"ctorRecv", "ctorXmit"} /\ Busy(s)
    BY Constructing DEF ReadHigh
<1>2. RestTyped'
  <2>1. \/ UNCHANGED view
        \/ view' = [view EXCEPT ![s] = view'[s]] /\ view'[s] \subseteq Channels
      BY DEF ReadHigh, TypeOK
  <2>2. view' \in [Sessions -> SUBSET Channels]
      BY <2>1 DEF TypeOK
  <2>3. faulted' \in [Sessions -> BOOLEAN]
      BY DEF ReadHigh, Fault, TypeOK
  <2>4. QED
      BY <2>2, <2>3 DEF ReadHigh, RestTyped, TypeOK, deviceVars
<1>3. UNCHANGED <<poolVars, channel, destroying>>
    BY DEF ReadHigh
<1>4. CASE Advance(s, "readLow")
    BY <1>1, <1>2, <1>3, <1>4, AdvanceControl, QuietStep
       DEF ConstructSteps, Steps
<1>5. CASE Raise(s)
    BY <1>1, <1>2, <1>3, <1>5, RaiseControl, QuietStep
<1>6. QED
    BY <1>4, <1>5 DEF ReadHigh

LEMMA ReadLowGood ==
    ASSUME NEW s \in Sessions, IInv, ReadLow(s)
    PROVE  GoodStep(s)
<1> USE DEF IInv
<1>1. phase[s] \in {"ctorRecv", "ctorXmit"} /\ Busy(s)
    BY Constructing DEF ReadLow
<1>2. RestTyped'
  <2>1. \/ UNCHANGED view
        \/ view' = [view EXCEPT ![s] = view'[s]] /\ view'[s] \subseteq Channels
      BY DEF ReadLow, TypeOK
  <2>2. view' \in [Sessions -> SUBSET Channels]
      BY <2>1 DEF TypeOK
  <2>3. faulted' \in [Sessions -> BOOLEAN]
      BY DEF ReadLow, Fault, TypeOK
  <2>4. QED
      BY <2>2, <2>3 DEF ReadLow, RestTyped, TypeOK, deviceVars
<1>3. UNCHANGED <<poolVars, channel, destroying>>
    BY DEF ReadLow
<1>4. CASE Advance(s, "claim")
    BY <1>1, <1>2, <1>3, <1>4, AdvanceControl, QuietStep
       DEF ConstructSteps, Steps
<1>5. CASE Raise(s)
    BY <1>1, <1>2, <1>3, <1>5, RaiseControl, QuietStep
<1>6. QED
    BY <1>4, <1>5 DEF ReadLow

LEMMA ClaimGood ==
    ASSUME NEW s \in Sessions, IInv, Claim(s)
    PROVE  GoodStep(s)
<1> USE DEF IInv
<1>1. phase[s] \in {"ctorRecv", "ctorXmit"} /\ Busy(s)
    BY DEF Claim, PcOK, Iterating, TypeOK, Phases, StartSteps, StopSteps,
           Deleting, Busy, Over
<1>2. UNCHANGED <<deviceVars, contexts, destroying, seen>>
    BY DEF Claim
<1>3. ASSUME NEW c \in available, Allocate(s, c), Complete(s), UNCHANGED faulted,
             channel' = [channel EXCEPT ![s][Direction(s)] = c],
             view' = [view EXCEPT ![s] = {}]
      PROVE  GoodStep(s)
  <2>1. Direction(s) \in Directions /\ c \in Channels
      BY DEF Direction, Directions, TypeOK
  <2>2. RestTyped' /\ ObjectsAlone(s)
      BY <1>2, <1>3, <2>1 DEF RestTyped, ObjectsAlone, TypeOK, deviceVars
  <2>3. PoolStep(s)
      BY <1>3 DEF PoolStep
  <2>4. /\ claimed'[s] = claimed[s] \cup {c} /\ c \notin claimed[s]
        /\ channel'[s] = [channel[s] EXCEPT ![Direction(s)] = c]
      BY <1>3 DEF Allocate, TypeOK, ChannelsPartitioned
  <2>5. /\ Moved(s)
        /\ \A d \in Directions : Exists(s, d)' => Exists(s, d) \/ d = Direction(s)
      BY <1>1, <1>2, <1>3, CompleteControl
  <2>6. ~Exists(s, Direction(s))
      BY <1>1 DEF Exists, Direction, ObjectPhases
  <2>7. channel[s] \in [Directions -> Channels \cup {NO_CHANNEL}]
      BY DEF TypeOK
  <2>8. HoldsOwn(s)'
    <3>1. \A d \in Directions : Exists(s, d)' =>
              channel'[s][d] = IF d = Direction(s) THEN c ELSE channel[s][d]
        BY <2>1, <2>4, <2>7
    <3>2. \A d \in Directions : Exists(s, d)' => channel'[s][d] \in claimed'[s]
        BY <2>4, <2>5, <3>1 DEF HoldsOwn
    <3>3. Exists(s, "recv")' /\ Exists(s, "xmit")' =>
              channel'[s].recv # channel'[s].xmit
        BY <2>1, <2>4, <2>5, <2>6, <3>1 DEF HoldsOwn, Directions
    <3>4. QED
        BY <3>2, <3>3 DEF HoldsOwn
  <2>9. QED
      BY <2>2, <2>3, <2>5, <2>8 DEF GoodStep
<1>4. ASSUME Raise(s), UNCHANGED channel, faulted' \in [Sessions -> BOOLEAN],
             view' = [view EXCEPT ![s] = {}],
             UNCHANGED poolVars \/ \E c \in available : Allocate(s, c)
      PROVE  GoodStep(s)
  <2>1. RestTyped' /\ ObjectsAlone(s)
      BY <1>2, <1>4 DEF RestTyped, ObjectsAlone, TypeOK, deviceVars
  <2>2. PoolStep(s) /\ claimed[s] \subseteq claimed'[s]
      BY <1>4 DEF PoolStep, poolVars, Allocate, TypeOK
  <2>3. Moved(s) /\ NoNewObject(s)
      BY <1>1, <1>2, <1>4, RaiseControl
  <2>4. QED
      BY <1>4, <2>1, <2>2, <2>3, HoldsKept DEF GoodStep
<1>5. QED
  <2>1. PICK c \in Channels : Claim(s)!(c)
      BY DEF Claim
  <2>2. view' = [view EXCEPT ![s] = {}]
      BY <2>1
  <2>3. CASE /\ CanAllocate(c) /\ Allocate(s, c)
             /\ channel' = [channel EXCEPT ![s][Direction(s)] = c]
             /\ Complete(s)
             /\ UNCHANGED faulted
      BY <1>3, <2>2, <2>3 DEF CanAllocate
  <2>4. CASE Raise(s) /\ UNCHANGED <<poolVars, channel, faulted>>
      BY <1>4, <2>2, <2>4 DEF TypeOK
  <2>5. CASE /\ Fault(s, "throw") /\ Raise(s)
             /\ \/ c \in available /\ Allocate(s, c)
                \/ UNCHANGED poolVars
             /\ UNCHANGED channel
    <3>1. faulted' \in [Sessions -> BOOLEAN]
        BY <2>5 DEF Fault, TypeOK
    <3>2. QED
        BY <1>4, <2>2, <2>5, <3>1
  <2>6. QED
      BY <2>1, <2>3, <2>4, <2>5

-----------------------------------------------------------------------------
(* start().                                                                 *)
LEMMA StartStepPhase ==
    ASSUME NEW s \in Sessions, IInv,
           step[s] \in {"startIso", "writeChannel", "readBack", "writeProbe",
                       "readProbe", "rewriteChannel"}
    PROVE  phase[s] \in {"startRecv", "startXmit"}
BY DEF IInv, PcOK, Iterating, TypeOK, Phases, ConstructSteps, StopSteps,
       Deleting

LEMMA ControlStepPhase ==
    ASSUME NEW s \in Sessions, IInv,
           step[s] \in {"readStatus", "readControl", "writeControl"}
    PROVE  \/ phase[s] \in {"startRecv", "startXmit", "stopRecv", "stopXmit"}
           \/ Deleting(s)
BY DEF IInv, PcOK, Iterating, TypeOK, Phases, ConstructSteps, Deleting

LEMMA StartIsoGood ==
    ASSUME NEW s \in Sessions, IInv, StartIso(s)
    PROVE  GoodStep(s)
<1> USE DEF IInv
<1>1. phase[s] \in {"startRecv", "startXmit"} /\ Busy(s)
    BY StartStepPhase DEF StartIso, Busy, Over
<1>2. Direction(s) \in Directions /\ Channel(s) \in Channels
    BY <1>1, OwnChannel DEF Iterating
<1>3. RestTyped'
  <2>1. contexts' \in [Sessions -> SUBSET (Directions \X Channels)]
    <3>1. CASE UNCHANGED contexts
        BY <3>1 DEF TypeOK
    <3>2. CASE contexts' = [contexts EXCEPT
                              ![s] = @ \cup {<<Direction(s), Channel(s)>>}]
      <4>1. <<Direction(s), Channel(s)>> \in Directions \X Channels
          BY <1>2
      <4>2. QED
          BY <3>2, <4>1 DEF TypeOK
    <3>3. QED
        BY <3>1, <3>2 DEF StartIso
  <2>2. faulted' \in [Sessions -> BOOLEAN]
      BY DEF StartIso, Fault, TypeOK
  <2>3. QED
      BY <2>1, <2>2 DEF StartIso, RestTyped, TypeOK, deviceVars
<1>4. QED
    BY <1>1, <1>3, AdvanceControl, QuietStep DEF StartIso, StartSteps, Steps

LEMMA WriteChannelGood ==
    ASSUME NEW s \in Sessions, IInv, WriteChannel(s)
    PROVE  GoodStep(s)
<1>1. phase[s] \in {"startRecv", "startXmit"}
    BY StartStepPhase DEF WriteChannel
<1>2. Channel(s) \in ChannelCodes
    BY <1>1, OwnChannel DEF ChannelCodes, Busy, Over, Iterating
<1>3. QED
    BY <1>1, <1>2, WriteRegisterGood DEF WriteChannel, StartSteps

LEMMA ReadBackGood ==
    ASSUME NEW s \in Sessions, IInv, ReadBack(s)
    PROVE  GoodStep(s)
<1> USE DEF IInv
<1>1. phase[s] \in {"startRecv", "startXmit"}
    BY StartStepPhase DEF ReadBack
<1>2. UNCHANGED <<poolVars, channel, destroying>> /\ Busy(s)
    BY <1>1 DEF ReadBack, Busy, Over, Deleting
<1>3. RestTyped'
    BY DEF ReadBack, ReadsBack, Fault, RestTyped, TypeOK, deviceVars
<1>4. CASE Advance(s, "writeProbe")
    BY <1>1, <1>2, <1>3, <1>4, AdvanceControl, QuietStep
       DEF StartSteps, Steps
<1>5. CASE Raise(s)
    BY <1>2, <1>3, <1>5, RaiseControl, QuietStep
<1>6. QED
    BY <1>4, <1>5 DEF ReadBack, ReadsBack

LEMMA WriteProbeGood ==
    ASSUME NEW s \in Sessions, IInv, WriteProbe(s)
    PROVE  GoodStep(s)
<1>1. phase[s] \in {"startRecv", "startXmit"}
    BY StartStepPhase DEF WriteProbe
<1>2. PROBE \in ChannelCodes
    BY <1>1, OwnChannel DEF ChannelCodes, Busy, Over, Iterating
<1>3. QED
    BY <1>1, <1>2, WriteRegisterGood DEF WriteProbe, StartSteps

LEMMA ReadProbeGood ==
    ASSUME NEW s \in Sessions, IInv, ReadProbe(s)
    PROVE  GoodStep(s)
<1> USE DEF IInv
<1>1. phase[s] \in {"startRecv", "startXmit"}
    BY StartStepPhase DEF ReadProbe
<1>2. UNCHANGED <<poolVars, channel, destroying>> /\ Busy(s)
    BY <1>1 DEF ReadProbe, Busy, Over, Deleting
<1>3. RestTyped'
    BY DEF ReadProbe, ReadsBack, Fault, RestTyped, TypeOK, deviceVars
<1>4. CASE Advance(s, "rewriteChannel")
    BY <1>1, <1>2, <1>3, <1>4, AdvanceControl, QuietStep
       DEF StartSteps, Steps
<1>5. CASE Raise(s)
    BY <1>2, <1>3, <1>5, RaiseControl, QuietStep
<1>6. QED
    BY <1>4, <1>5 DEF ReadProbe, ReadsBack

LEMMA RewriteChannelGood ==
    ASSUME NEW s \in Sessions, IInv, RewriteChannel(s)
    PROVE  GoodStep(s)
<1>1. phase[s] \in {"startRecv", "startXmit"}
    BY StartStepPhase DEF RewriteChannel
<1>2. Channel(s) \in ChannelCodes
    BY <1>1, OwnChannel DEF ChannelCodes, Busy, Over, Iterating
<1>3. QED
    BY <1>1, <1>2, WriteRegisterGood DEF RewriteChannel, StartSteps, RewriteValue

-----------------------------------------------------------------------------
(* The control register, in start() and in stop().                          *)
LEMMA ReadStatusGood ==
    ASSUME NEW s \in Sessions, IInv, ReadStatus(s)
    PROVE  GoodStep(s)
<1> USE DEF IInv
<1>1. \/ phase[s] \in {"startRecv", "startXmit", "stopRecv", "stopXmit"}
      \/ Deleting(s)
    BY ControlStepPhase DEF ReadStatus
<1>2. UNCHANGED <<poolVars, channel, destroying>> /\ Busy(s)
    BY <1>1 DEF ReadStatus, Busy, Over, Deleting
<1>3. RestTyped'
    BY DEF ReadStatus, ReadsBack, Fault, RestTyped, TypeOK, deviceVars
<1>4. CASE Advance(s, "readControl")
    BY <1>1, <1>2, <1>3, <1>4, AdvanceControl, QuietStep
       DEF StartSteps, StopSteps, Steps
<1>5. CASE Raise(s)
    BY <1>2, <1>3, <1>5, RaiseControl, QuietStep
<1>6. QED
    BY <1>4, <1>5 DEF ReadStatus, ReadsBack

LEMMA AfterControlGood ==
    ASSUME NEW s \in Sessions, IInv, AfterControl(s), RestTyped',
           UNCHANGED <<poolVars, channel, destroying>>,
           \/ phase[s] \in {"startRecv", "startXmit", "stopRecv", "stopXmit"}
           \/ Deleting(s)
    PROVE  GoodStep(s)
<1> USE DEF IInv
<1>1. Busy(s) /\ phase[s] \notin {"ctorRecv", "ctorXmit"}
    BY DEF Busy, Over, Deleting
<1>2. CASE Complete(s)
    BY <1>1, <1>2, CompleteQuiet, QuietStep
<1>3. CASE ~Starting(s) /\ Advance(s, "shutdown")
    BY <1>1, <1>3, AdvanceControl, QuietStep DEF Starting, StopSteps, Steps
<1>4. QED
    BY <1>2, <1>3 DEF AfterControl

LEMMA ReadControlGood ==
    ASSUME NEW s \in Sessions, IInv, ReadControl(s)
    PROVE  GoodStep(s)
<1> USE DEF IInv
<1>1. \/ phase[s] \in {"startRecv", "startXmit", "stopRecv", "stopXmit"}
      \/ Deleting(s)
    BY ControlStepPhase DEF ReadControl
<1>2. UNCHANGED <<poolVars, channel, destroying>> /\ Busy(s)
    BY <1>1 DEF ReadControl, Busy, Over, Deleting
<1>3. RestTyped'
  <2>1. Device(s) \in Devices
      BY ParameterAssumption DEF Device
  <2>2. seen' \in [Sessions -> SUBSET ControlBits]
      BY <2>1 DEF ReadControl, TypeOK
  <2>3. faulted' \in [Sessions -> BOOLEAN]
      BY DEF ReadControl, Fault, TypeOK
  <2>4. QED
      BY <2>2, <2>3 DEF ReadControl, RestTyped, TypeOK, deviceVars
<1>4. CASE Advance(s, "writeControl")
    BY <1>1, <1>2, <1>3, <1>4, AdvanceControl, QuietStep
       DEF StartSteps, StopSteps, Steps
<1>5. CASE AfterControl(s)
    BY <1>1, <1>2, <1>3, <1>5, AfterControlGood
<1>6. CASE Raise(s)
    BY <1>2, <1>3, <1>6, RaiseControl, QuietStep
<1>7. QED
    BY <1>4, <1>5, <1>6 DEF ReadControl

LEMMA WriteControlGood ==
    ASSUME NEW s \in Sessions, IInv, WriteControl(s)
    PROVE  GoodStep(s)
<1> USE DEF IInv
<1>1. \/ phase[s] \in {"startRecv", "startXmit", "stopRecv", "stopXmit"}
      \/ Deleting(s)
    BY ControlStepPhase DEF WriteControl
<1>2. UNCHANGED <<poolVars, channel, destroying>> /\ Busy(s)
    BY <1>1 DEF WriteControl, Busy, Over, Deleting
<1>3. RestTyped'
  <2>1. ControlValue(s) \in SUBSET ControlBits
      BY DEF ControlValue, TypeOK, ControlBits
  <2>2. control' \in [Devices -> SUBSET ControlBits]
      BY <2>1 DEF WriteControl, WriteControlRegister, TypeOK
  <2>3. faulted' \in [Sessions -> BOOLEAN]
      BY DEF WriteControl, Fault, TypeOK
  <2>4. QED
      BY <2>2, <2>3 DEF WriteControl, RestTyped, TypeOK
<1>4. CASE AfterControl(s)
    BY <1>1, <1>2, <1>3, <1>4, AfterControlGood
<1>5. CASE Raise(s)
    BY <1>2, <1>3, <1>5, RaiseControl, QuietStep
<1>6. QED
    BY <1>4, <1>5 DEF WriteControl

-----------------------------------------------------------------------------
(* The end of stop() and the destructor.                                    *)
LEMMA ShutdownGood ==
    ASSUME NEW s \in Sessions, IInv, Shutdown(s)
    PROVE  GoodStep(s)
<1> USE DEF IInv
<1>1. phase[s] \in {"stopRecv", "stopXmit"} \/ Deleting(s)
    BY DEF Shutdown, PcOK, Iterating, TypeOK, Phases, ConstructSteps,
           StartSteps, Deleting
<1>2. UNCHANGED <<poolVars, channel, destroying>> /\ Busy(s)
    BY <1>1 DEF Shutdown, Busy, Over, Deleting
<1>3. RestTyped'
    BY DEF Shutdown, RestTyped, TypeOK, deviceVars
<1>4. CASE Deleting(s) /\ Advance(s, "release")
    BY <1>2, <1>3, <1>4, AdvanceControl, QuietStep DEF Steps
<1>5. CASE ~Deleting(s) /\ Complete(s)
  <2>1. phase[s] \notin {"ctorRecv", "ctorXmit"}
      BY <1>1 DEF Deleting
  <2>2. QED
      BY <1>2, <1>3, <1>5, <2>1, CompleteQuiet, QuietStep
<1>6. QED
    BY <1>4, <1>5 DEF Shutdown

LEMMA ReleaseGood ==
    ASSUME NEW s \in Sessions, IInv, Release(s)
    PROVE  GoodStep(s)
<1> USE DEF IInv
<1> DEFINE c == Channel(s)
<1>1. Deleting(s) /\ Busy(s) /\ phase[s] \notin {"ctorRecv", "ctorXmit"}
    BY DEF Release, PcOK, Iterating, TypeOK, Phases, ConstructSteps, StartSteps,
           StopSteps, Deleting, Busy, Over
<1>2. /\ Direction(s) \in Directions /\ Exists(s, Direction(s))
      /\ c \in claimed[s] /\ c \notin available
    BY <1>1, OwnChannel DEF ChannelsPartitioned, Deleting, Iterating
<1>3. UNCHANGED destroying
    BY DEF Release
<1>4. RestTyped' /\ ObjectsAlone(s)
  <2>1. faulted' \in [Sessions -> BOOLEAN]
      BY DEF Release, Fault, TypeOK
  <2>2. channel' \in [Sessions -> [Directions -> Channels \cup {NO_CHANNEL}]]
      BY <1>2 DEF Release, TypeOK
  <2>3. QED
      BY <2>1, <2>2 DEF Release, RestTyped, ObjectsAlone, TypeOK, deviceVars
<1>5. PoolStep(s)
    BY <1>2 DEF Release, PoolStep, poolVars
<1>6. CASE Raise(s)
  <2>1. Moved(s) /\ \A d \in Directions : ~Exists(s, d)'
      BY <1>1, <1>3, <1>6, RaiseControl
  <2>2. HoldsOwn(s)'
      BY <2>1 DEF HoldsOwn, Directions
  <2>3. QED
      BY <1>4, <1>5, <2>1, <2>2 DEF GoodStep
<1>7. CASE Free(s, c) /\ Complete(s)
  <2>1. /\ Moved(s)
        /\ \A d \in Directions :
               Exists(s, d)' => Exists(s, d) /\ d # Direction(s)
      BY <1>1, <1>3, <1>7, CompleteControl
  <2>2. \A d \in Directions : Exists(s, d)' => /\ channel'[s][d] = channel[s][d]
                                              /\ channel[s][d] # c
      BY <1>2, <2>1 DEF Release, TypeOK, HoldsOwn, Directions, Channel
  <2>3. claimed'[s] = claimed[s] \ {c}
      BY <1>7 DEF Free, TypeOK
  <2>4. HoldsOwn(s)'
    <3>1. \A d \in Directions : Exists(s, d)' => channel'[s][d] \in claimed'[s]
        BY <2>1, <2>2, <2>3 DEF HoldsOwn
    <3>2. ~(Exists(s, "recv")' /\ Exists(s, "xmit")')
        BY <1>2, <2>1 DEF Directions
    <3>3. QED
        BY <3>1, <3>2 DEF HoldsOwn
  <2>5. QED
      BY <1>4, <1>5, <2>1, <2>4 DEF GoodStep
<1>8. QED
    BY <1>6, <1>7 DEF Release

-----------------------------------------------------------------------------
(* The calls and the end of a process.                                      *)
LEMMA ReturnMoves ==
    ASSUME NEW s \in Sessions, NEW r \in {"ok", "exception"}, TypeOK, PcOK(s),
           phase[s] = "idle", Return(s, r), UNCHANGED <<started, destroying>>
    PROVE  Moved(s) /\ NoNewObject(s)
<1>1. /\ phase' = [phase EXCEPT ![s] = "idle"]
      /\ step' = [step EXCEPT ![s] = "none"]
      /\ result' = [result EXCEPT ![s] = r]
    BY DEF Return, Goto, PcOK, Iterating
<1>2. ControlTyped' /\ MovesAlone(s)
    BY <1>1 DEF TypeOK, ControlTyped, MovesAlone, Phases, Steps
<1>3. PcOK(s)'
    BY <1>1 DEF TypeOK, PcOK, Iterating, Deleting
<1>4. NoNewObject(s)
    BY <1>1 DEF TypeOK, NoNewObject, Exists
<1>5. QED
    BY <1>2, <1>3, <1>4 DEF Moved

LEMMA StartPhantomGood ==
    ASSUME NEW s \in Sessions, IInv, StartPhantom(s)
    PROVE  GoodStep(s)
<1> USE DEF IInv
<1>1. RestTyped' /\ UNCHANGED <<poolVars, channel, destroying>>
    BY DEF StartPhantom, RestTyped, TypeOK, deviceVars
<1>2. CASE started[s] /\ Return(s, "exception") /\ UNCHANGED started
    BY <1>1, <1>2, ReturnMoves, QuietStep DEF StartPhantom
<1>3. CASE /\ ~started[s]
           /\ Goto(s, "ctorRecv", "readHigh")
           /\ started' = [started EXCEPT ![s] = TRUE]
           /\ UNCHANGED result
  <2>1. phase[s] = "idle" /\ ~destroying[s]
      BY DEF StartPhantom, PcOK, Iterating, TypeOK
  <2>2. ControlTyped' /\ MovesAlone(s)
      BY <1>3 DEF TypeOK, Goto, ControlTyped, MovesAlone, Phases, Steps
  <2>3. PcOK(s)'
      BY <1>1, <1>3, <2>1 DEF TypeOK, Goto, PcOK, Iterating, Deleting,
                              ConstructSteps
  <2>4. NoNewObject(s)
      BY <1>3 DEF TypeOK, Goto, NoNewObject, Exists, ObjectPhases
  <2>5. QED
      BY <1>1, <2>2, <2>3, <2>4, QuietStep DEF Moved
<1>4. QED
    BY <1>2, <1>3 DEF StartPhantom

LEMMA GotoControl ==
    ASSUME NEW s \in Sessions, NEW p \in Phases, NEW st \in Steps, TypeOK,
           Goto(s, p, st), UNCHANGED <<started, result>>
    PROVE  ControlTyped' /\ MovesAlone(s)
<1>1. /\ phase' = [phase EXCEPT ![s] = p] /\ step' = [step EXCEPT ![s] = st]
      /\ started' = started /\ result' = result
    BY DEF Goto
<1>2. ControlTyped'
    BY <1>1 DEF TypeOK, ControlTyped
<1>3. MovesAlone(s)
    BY <1>1 DEF TypeOK, MovesAlone
<1>4. QED
    BY <1>2, <1>3

LEMMA IsoIterateGood ==
    ASSUME NEW s \in Sessions, IInv, IsoIterate(s)
    PROVE  GoodStep(s)
<1> USE DEF IInv
<1>1. RestTyped' /\ UNCHANGED <<poolVars, channel, destroying>>
    BY DEF IsoIterate, RestTyped, TypeOK, deviceVars
<1>2. phase[s] = "idle" /\ ~destroying[s]
    BY DEF IsoIterate, PcOK
<1>3. /\ Goto(s, "iterRecv", "loop") \/ Goto(s, "terminated", "none")
      /\ UNCHANGED <<started, result>>
    BY DEF IsoIterate
<1>4. ControlTyped' /\ MovesAlone(s)
    BY <1>3, GotoControl DEF Phases, Steps
<1>5. PcOK(s)'
    BY <1>1, <1>2, <1>3 DEF Goto, TypeOK, PcOK, Deleting, Iterating
<1>6. NoNewObject(s)
    BY <1>1, <1>2, <1>3 DEF Goto, TypeOK, Iterating, NoNewObject, Exists,
                            ObjectPhases
<1>7. QED
    BY <1>1, <1>4, <1>5, <1>6, QuietStep DEF Moved

LEMMA LoopGood ==
    ASSUME NEW s \in Sessions, IInv, Loop(s)
    PROVE  GoodStep(s)
<1> USE DEF IInv
<1>1. RestTyped' /\ UNCHANGED <<poolVars, channel, destroying>>
  <2>1. faulted' \in [Sessions -> BOOLEAN]
      BY DEF Loop, Fault, TypeOK
  <2>2. QED
      BY <2>1 DEF Loop, RestTyped, TypeOK, deviceVars
<1>2. Iterating(s) /\ ~destroying[s]
    BY DEF Loop, PcOK, TypeOK, Phases, ConstructSteps, StartSteps, StopSteps,
           Deleting, Iterating
<1>3. /\ Goto(s, "iterXmit", "loop") \/ Goto(s, "idle", "none")
      /\ UNCHANGED <<started, result>>
    BY DEF Loop
<1>4. ControlTyped' /\ MovesAlone(s)
    BY <1>3, GotoControl DEF Phases, Steps
<1>5. PcOK(s)'
    BY <1>1, <1>2, <1>3 DEF Goto, TypeOK, PcOK, Deleting, Iterating
<1>6. NoNewObject(s)
    BY <1>1, <1>2, <1>3 DEF Goto, TypeOK, Iterating, NoNewObject, Exists,
                            ObjectPhases
<1>7. QED
    BY <1>1, <1>4, <1>5, <1>6, QuietStep DEF Moved

LEMMA BeginStopMoves ==
    ASSUME NEW s \in Sessions, TypeOK, PcOK(s), BeginStop(s),
           phase[s] = "idle", started[s],
           destroying'[s] \in BOOLEAN
    PROVE  Moved(s) /\ NoNewObject(s)
BY DEF BeginStop, ResetStarted, Goto, Moved, ControlTyped, MovesAlone, PcOK,
       Iterating, Deleting, NoNewObject, Exists, ObjectPhases, TypeOK, Phases,
       Steps, StopSteps

LEMMA StopPhantomGood ==
    ASSUME NEW s \in Sessions, IInv, StopPhantom(s)
    PROVE  GoodStep(s)
<1> USE DEF IInv
<1>1. RestTyped' /\ UNCHANGED <<poolVars, channel, destroying>>
    BY DEF StopPhantom, RestTyped, TypeOK, deviceVars
<1>2. CASE ~started[s] /\ Return(s, "ok") /\ UNCHANGED started
    BY <1>1, <1>2, ReturnMoves, QuietStep DEF StopPhantom
<1>3. CASE started[s] /\ BeginStop(s)
    BY <1>1, <1>3, BeginStopMoves, QuietStep DEF StopPhantom, TypeOK
<1>4. QED
    BY <1>2, <1>3 DEF StopPhantom

LEMMA DeletePhantomGood ==
    ASSUME NEW s \in Sessions, IInv, DeletePhantom(s)
    PROVE  GoodStep(s)
<1> USE DEF IInv
<1>1. /\ RestTyped' /\ ObjectsAlone(s) /\ PoolStep(s)
      /\ UNCHANGED channel /\ claimed[s] \subseteq claimed'[s]
      /\ destroying'[s] = TRUE
    BY DEF DeletePhantom, RestTyped, ObjectsAlone, PoolStep, poolVars, TypeOK,
           deviceVars
<1>2. Moved(s) /\ NoNewObject(s)
  <2>1. CASE started[s] /\ BeginStop(s)
      BY <1>1, <2>1, BeginStopMoves DEF DeletePhantom
  <2>2. CASE /\ ~started[s]
             /\ Goto(s, "gone", "none")
             /\ UNCHANGED <<started, result>>
      BY <1>1, <2>2
         DEF Goto, Moved, ControlTyped, MovesAlone, PcOK, Iterating, Deleting,
             NoNewObject, Exists, ObjectPhases, TypeOK, Phases, Steps
  <2>3. QED
      BY <2>1, <2>2 DEF DeletePhantom
<1>3. QED
    BY <1>1, <1>2, HoldsKept DEF GoodStep

LEMMA CrashGood ==
    ASSUME NEW s \in Sessions, IInv, Crash(s)
    PROVE  GoodStep(s)
<1> USE DEF IInv
<1>1. RestTyped' /\ UNCHANGED <<poolVars, channel, destroying>>
    BY DEF Crash, Fault, RestTyped, TypeOK, deviceVars
<1>2. Moved(s) /\ NoNewObject(s)
    BY <1>1 DEF Crash, Goto, Moved, ControlTyped, MovesAlone, PcOK, Iterating,
                Deleting, NoNewObject, Exists, ObjectPhases, TypeOK, Phases,
                Steps
<1>3. QED
    BY <1>1, <1>2, QuietStep

LEMMA NewPhantomGood ==
    ASSUME NEW s \in Sessions, IInv, NewPhantom(s)
    PROVE  GoodStep(s)
<1> USE DEF IInv
<1>1. RestTyped' /\ ObjectsAlone(s) /\ PoolStep(s)
  <2>1. contexts' \in [Sessions -> SUBSET (Directions \X Channels)]
      BY DEF NewPhantom, TypeOK
  <2>2. channel' \in [Sessions -> [Directions -> Channels \cup {NO_CHANNEL}]]
    <3>1. NoObjects \in [Directions -> Channels \cup {NO_CHANNEL}]
        BY DEF NoObjects, Directions
    <3>2. QED
        BY <3>1 DEF NewPhantom, TypeOK
  <2>3. /\ destroying' \in [Sessions -> BOOLEAN]
        /\ view' \in [Sessions -> SUBSET Channels]
        /\ seen' \in [Sessions -> SUBSET ControlBits]
      BY DEF NewPhantom, TypeOK
  <2>4. RestTyped'
      BY <2>1, <2>2, <2>3 DEF NewPhantom, RestTyped, TypeOK, deviceVars
  <2>5. ObjectsAlone(s) /\ PoolStep(s)
      BY DEF NewPhantom, TypeOK, ObjectsAlone, PoolStep
  <2>6. QED
      BY <2>4, <2>5
<1>2. Moved(s) /\ ~started'[s] /\ phase'[s] = "idle"
    BY DEF NewPhantom, Goto, Moved, ControlTyped, MovesAlone, PcOK, Iterating,
           Deleting, TypeOK, Phases, Steps
<1>3. HoldsOwn(s)'
    BY <1>2 DEF HoldsOwn, Exists, ObjectPhases
<1>4. QED
    BY <1>1, <1>2, <1>3 DEF GoodStep

-----------------------------------------------------------------------------
LEMMA InitIInv == Init => IInv
<1> SUFFICES ASSUME Init PROVE IInv
    OBVIOUS
<1>1. TypeOK
  <2>1. control \in [Devices -> SUBSET ControlBits]
      BY ParameterAssumption DEF Init
  <2>2. channel \in [Sessions -> [Directions -> Channels \cup {NO_CHANNEL}]]
      BY DEF Init, NoObjects, Directions
  <2>3. registers \in [Devices -> [Directions -> ChannelCodes]]
      BY DEF Init, Directions, ChannelCodes
  <2>4. /\ phase \in [Sessions -> Phases]
        /\ step \in [Sessions -> Steps]
      BY DEF Init, Phases, Steps
  <2>5. /\ available \subseteq Channels
        /\ claimed \in [Sessions -> SUBSET Channels]
        /\ started \in [Sessions -> BOOLEAN]
        /\ contexts \in [Sessions -> SUBSET (Directions \X Channels)]
        /\ destroying \in [Sessions -> BOOLEAN]
        /\ view \in [Sessions -> SUBSET Channels]
        /\ seen \in [Sessions -> SUBSET ControlBits]
        /\ result \in [Sessions -> {"none", "ok", "exception"}]
        /\ faulted \in [Sessions -> BOOLEAN]
      BY DEF Init
  <2>6. QED
      BY <2>1, <2>2, <2>3, <2>4, <2>5 DEF TypeOK
<1>2. ChannelsPartitioned
    BY ParameterAssumption DEF Init, ChannelsPartitioned
<1>3. \A s \in Sessions : PcOK(s) /\ HoldsOwn(s)
    BY DEF Init, PcOK, Iterating, HoldsOwn, Exists, ObjectPhases, Deleting
<1>4. QED
    BY <1>1, <1>2, <1>3 DEF IInv

LEMMA ActionGood ==
    ASSUME IInv, NEW s \in Sessions, Call(s) \/ Run(s) \/ Crash(s)
    PROVE  GoodStep(s)
<1>1. CASE Call(s)
    BY <1>1, StartPhantomGood, StopPhantomGood, DeletePhantomGood,
       IsoIterateGood, NewPhantomGood DEF Call
<1>2. CASE Construct(s)
    BY <1>2, ReadHighGood, ReadLowGood, ClaimGood DEF Construct
<1>3. CASE Configure(s)
    BY <1>3, StartIsoGood, WriteChannelGood, ReadBackGood, WriteProbeGood,
       ReadProbeGood, RewriteChannelGood DEF Configure
<1>4. CASE Control(s)
    BY <1>4, ReadStatusGood, ReadControlGood, WriteControlGood DEF Control
<1>5. CASE Dismantle(s)
    BY <1>5, ShutdownGood, ReleaseGood DEF Dismantle
<1>6. CASE Loop(s)
    BY <1>6, LoopGood
<1>7. CASE Crash(s)
    BY <1>7, CrashGood
<1>8. QED
    BY <1>1, <1>2, <1>3, <1>4, <1>5, <1>6, <1>7 DEF Run

LEMMA NextIInv == IInv /\ [Next]_vars => IInv'
<1>1. ASSUME IInv, UNCHANGED vars
      PROVE  IInv'
    BY <1>1 DEF IInv, vars, poolVars, deviceVars, pcVars, TypeOK,
                ChannelsPartitioned, PcOK, Iterating, Deleting, HoldsOwn, Exists
<1>2. QED
    BY <1>1, ActionGood, GoodStepIInv DEF Next

(* The inductive invariant of the sessions: where each of them can be, and  *)
(* that its channel objects hold their channels.                            *)
THEOREM SessionInvariant == Spec => []IInv
BY InitIInv, NextIInv, PTL DEF Spec

(* Type correctness of the sessions, the devices and the pool.              *)
THEOREM SessionTypeCorrect == Spec => []TypeOK
BY SessionInvariant, PTL DEF IInv

(* No channel is held twice, none is lost from the books, and nobody frees  *)
(* what is not its own: whatever fails and however the sessions interleave. *)
THEOREM ChannelsArePartitioned == Spec => []ChannelsPartitioned
BY SessionInvariant, PTL DEF IInv

(* Between calls the started flag means two channel objects that hold two   *)
(* different channels.                                                      *)
THEOREM StartedMeansTwoChannels == Spec => []StartedHasChannels
<1>1. IInv => StartedHasChannels
    BY DEF IInv, HoldsOwn, Exists, Directions, StartedHasChannels
<1>2. QED
    BY <1>1, SessionInvariant, PTL

-----------------------------------------------------------------------------
(* The pool of channels.  With the channels partitioned, the owner of a     *)
(* channel is the one session that claimed it, so that a step of the pool   *)
(* changes the owner of one channel only.                                   *)
LEMMA OwnerIsHolder ==
    ASSUME ChannelsPartitioned, NEW s \in Sessions, NEW c \in claimed[s]
    PROVE  Owner(c) = s
<1>1. c \notin available
    BY DEF ChannelsPartitioned
<1>2. \A t \in Sessions : c \in claimed[t] => t = s
    BY DEF ChannelsPartitioned
<1>3. QED
    BY <1>1, <1>2 DEF Owner

LEMMA OwnerKept ==
    ASSUME NEW c \in Channels, c \in available' <=> c \in available,
           \A t \in Sessions : c \in claimed'[t] <=> c \in claimed[t],
           ChannelsPartitioned, ChannelsPartitioned'
    PROVE  Owner(c)' = Owner(c)
<1>1. CASE \E s \in Sessions : c \in claimed[s]
  <2>1. PICK s \in Sessions : c \in claimed[s]
      BY <1>1
  <2>2. Owner(c) = s
      BY <2>1, OwnerIsHolder
  <2>3. Owner(c)' = s
    <3>1. c \in claimed'[s] /\ c \notin available'
        BY <2>1 DEF ChannelsPartitioned
    <3>2. \A t \in Sessions : c \in claimed'[t] => t = s
        BY <3>1 DEF ChannelsPartitioned
    <3>3. QED
        BY <3>1, <3>2 DEF Owner
  <2>4. QED
      BY <2>2, <2>3
<1>2. CASE ~\E s \in Sessions : c \in claimed[s]
    BY <1>2 DEF Owner
<1>3. QED
    BY <1>1, <1>2

Owners == [c \in Channels |-> Owner(c)]

LEMMA PoolStepMapped ==
    ASSUME NEW s \in Sessions, IInv, IInv', PoolStep(s)
    PROVE  Pool!Next \/ Owners' = Owners
<1> USE DEF IInv
<1>1. CASE UNCHANGED poolVars
    BY <1>1 DEF poolVars, Owners, Owner
<1>2. ASSUME NEW c \in available, Allocate(s, c)
      PROVE  Pool!Claim(s, c)
  <2>1. /\ available' = available \ {c}
        /\ \A t \in Sessions :
               claimed'[t] = IF t = s THEN claimed[t] \cup {c} ELSE claimed[t]
      BY <1>2 DEF Allocate, TypeOK
  <2>2. c \in Channels /\ Owner(c) = Nobody
      BY DEF Owner, TypeOK
  <2>3. Owner(c)' = s
    <3>1. c \in claimed'[s] /\ c \notin available'
        BY <2>1
    <3>2. \A t \in Sessions : c \in claimed'[t] => t = s
        BY <3>1 DEF ChannelsPartitioned
    <3>3. QED
        BY <3>1, <3>2 DEF Owner
  <2>4. \A d \in Channels \ {c} : Owner(d)' = Owner(d)
      BY <2>1, OwnerKept
  <2>5. Owners' = [Owners EXCEPT ![c] = s]
      BY <2>2, <2>3, <2>4 DEF Owners
  <2>6. QED
      BY <2>2, <2>5 DEF Pool!Claim, Owners
<1>3. ASSUME NEW c \in claimed[s], Free(s, c)
      PROVE  Pool!Release(s, c)
  <2>1. /\ available' = available \cup {c}
        /\ \A t \in Sessions :
               claimed'[t] = IF t = s THEN claimed[t] \ {c} ELSE claimed[t]
      BY <1>3 DEF Free, TypeOK
  <2>2. c \in Channels /\ Owner(c) = s
      BY OwnerIsHolder DEF TypeOK
  <2>3. Owner(c)' = Nobody
      BY <2>1 DEF Owner
  <2>4. \A d \in Channels \ {c} : Owner(d)' = Owner(d)
      BY <2>1, OwnerKept
  <2>5. Owners' = [Owners EXCEPT ![c] = Nobody]
      BY <2>2, <2>3, <2>4 DEF Owners
  <2>6. QED
      BY <2>2, <2>5 DEF Pool!Release, Owners
<1>4. QED
  <2>1. available \subseteq Channels /\ claimed[s] \subseteq Channels
      BY DEF TypeOK
  <2>2. QED
      BY <1>1, <1>2, <1>3, <2>1 DEF PoolStep, Pool!Next

(* All sessions together are an allocator of channels: whatever fails, a    *)
(* channel goes from nobody to one session, and back by that session alone. *)
THEOREM SessionsAllocateChannels == Spec => AllocatesChannels
<1>1. Init => Pool!Init
  <2> SUFFICES ASSUME Init PROVE Pool!Init
      OBVIOUS
  <2>1. \A c \in Channels :
            Owner(c) = IF c \in Foreign THEN Elsewhere ELSE Nobody
      BY DEF Init, Owner
  <2>2. QED
      BY <2>1 DEF Pool!Init
<1>2. IInv /\ IInv' /\ [Next]_vars => [Pool!Next]_Owners
  <2> SUFFICES ASSUME IInv, IInv', [Next]_vars
               PROVE  [Pool!Next]_Owners
      OBVIOUS
  <2>1. CASE UNCHANGED vars
      BY <2>1 DEF vars, poolVars, Owners, Owner
  <2>2. ASSUME NEW s \in Sessions, Call(s) \/ Run(s) \/ Crash(s)
        PROVE  [Pool!Next]_Owners
    <3>1. PoolStep(s)
        BY <2>2, ActionGood DEF GoodStep
    <3>2. QED
        BY <3>1, PoolStepMapped
  <2>3. QED
      BY <2>1, <2>2 DEF Next
<1>3. QED
    BY SessionInvariant, <1>1, <1>2, PTL
       DEF Spec, AllocatesChannels, Pool!Spec, Owners
=============================================================================
