----------------------- MODULE SessionContexts_proof -----------------------
(***************************************************************************)
(* The channels of the sessions, for any number of sessions that race for  *)
(* any number of channels: the host sends and listens only on channels     *)
(* that its session holds, under all faults; and without a failed          *)
(* transaction no call of a session loses a channel, however many of the   *)
(* others fail.  Both proofs build on the inductive invariant of           *)
(* PhantomSession_proof.                                                   *)
(***************************************************************************)
EXTENDS PhantomSession_proof

(* An open context is on a channel that the session holds.  If that is the  *)
(* channel of an object, or was that of one a failed call left behind, the  *)
(* context is that object's.  And a destructor closed it before it comes to *)
(* the release of the channel.                                              *)
ContextsOK(s) ==
    /\ \A x \in contexts[s] : x[2] \in claimed[s]
    /\ \A x \in contexts[s], d \in Directions :
          x[2] = channel[s][d] => x[1] = d
    /\ step[s] = "release" => ContextOf(s) \notin contexts[s]

CInv == IInv /\ \A s \in Sessions : ContextsOK(s)

(* What a step has to do for the contexts of its session and of the others. *)
GoodContexts(s) ==
    /\ ContextsOK(s)'
    /\ \A t \in Sessions \ {s} : contexts'[t] = contexts[t]

-----------------------------------------------------------------------------
(* Steps that leave contexts and channels alone.                            *)
LEMMA NotToRelease ==
    ASSUME NEW s \in Sessions, NEW st \in Steps \ {"release"}, TypeOK,
           \/ Advance(s, st)
           \/ Complete(s)
           \/ Raise(s)
           \/ \E p \in Phases : Goto(s, p, st)
           \/ \E r \in {"ok", "exception"} : Return(s, r)
    PROVE  step'[s] # "release"
<1>1. ASSUME NEW p, NEW q \in Steps \ {"release"}, Goto(s, p, q)
      PROVE  step'[s] # "release"
    BY <1>1 DEF Goto, TypeOK
<1>2. CASE Advance(s, st)
    BY <1>1, <1>2 DEF Advance
<1>3. ASSUME NEW r, Return(s, r)
      PROVE  step'[s] # "release"
    BY <1>1, <1>3 DEF Return, Steps
<1>4. CASE Complete(s)
  <2>1. \A p : FirstStep(p) \in Steps \ {"release"}
      BY DEF FirstStep, Steps
  <2>2. QED
      BY <1>1, <1>3, <1>4, <2>1 DEF Complete
<1>5. CASE Raise(s)
    BY <1>1, <1>3, <1>5 DEF Raise, Steps
<1>6. QED
    BY <1>1, <1>2, <1>3, <1>4, <1>5

LEMMA QuietContexts ==
    ASSUME NEW s \in Sessions, ContextsOK(s), UNCHANGED <<channel, contexts>>,
           claimed[s] \subseteq claimed'[s], step'[s] # "release"
    PROVE  GoodContexts(s)
BY DEF GoodContexts, ContextsOK

Quiet(s) == \/ ReadHigh(s) \/ ReadLow(s) \/ WriteChannel(s) \/ ReadBack(s)
            \/ WriteProbe(s) \/ ReadProbe(s) \/ RewriteChannel(s)
            \/ Control(s) \/ Loop(s) \/ Crash(s)
            \/ StartPhantom(s) \/ StopPhantom(s) \/ DeletePhantom(s)
            \/ IsoIterate(s)

LEMMA QuietGood ==
    ASSUME NEW s \in Sessions, CInv, Quiet(s)
    PROVE  GoodContexts(s)
<1> USE DEF CInv, IInv
<1>1. UNCHANGED <<poolVars, channel, contexts>>
    BY DEF Quiet, ReadHigh, ReadLow, WriteChannel, ReadBack, WriteProbe,
           ReadProbe, RewriteChannel, WriteRegister, Control, ReadStatus,
           ReadControl, WriteControl, Loop, Crash, StartPhantom, StopPhantom,
           DeletePhantom, IsoIterate
<1>2. step'[s] # "release"
  <2>1. CASE ReadHigh(s) \/ ReadLow(s)
      BY <2>1, NotToRelease DEF ReadHigh, ReadLow, Steps
  <2>2. CASE WriteChannel(s) \/ WriteProbe(s) \/ RewriteChannel(s)
      BY <2>2, NotToRelease
         DEF WriteChannel, WriteProbe, RewriteChannel, WriteRegister, Steps
  <2>3. CASE ReadBack(s) \/ ReadProbe(s) \/ ReadStatus(s)
      BY <2>3, NotToRelease DEF ReadBack, ReadProbe, ReadStatus, ReadsBack, Steps
  <2>4. CASE ReadControl(s) \/ WriteControl(s)
      BY <2>4, NotToRelease DEF ReadControl, WriteControl, AfterControl, Steps
  <2>5. CASE Loop(s) \/ Crash(s) \/ IsoIterate(s)
      BY <2>5, NotToRelease DEF Loop, Crash, IsoIterate, Steps, Phases
  <2>6. CASE StartPhantom(s) \/ StopPhantom(s) \/ DeletePhantom(s)
      BY <2>6, NotToRelease
         DEF StartPhantom, StopPhantom, DeletePhantom, BeginStop, Steps, Phases
  <2>7. QED
      BY <2>1, <2>2, <2>3, <2>4, <2>5, <2>6 DEF Quiet, Control
<1>3. QED
    BY <1>1, <1>2, QuietContexts DEF poolVars

-----------------------------------------------------------------------------
(* A constructor takes a channel on which there is no context yet.          *)
LEMMA ClaimContexts ==
    ASSUME NEW s \in Sessions, CInv, Claim(s)
    PROVE  GoodContexts(s)
<1> USE DEF CInv, IInv
<1>1. PICK c \in Channels : Claim(s)!(c)
    BY DEF Claim
<1>2. UNCHANGED contexts /\ step'[s] # "release"
    BY <1>1, NotToRelease DEF Steps
<1>3. CASE UNCHANGED channel
  <2>1. claimed[s] \subseteq claimed'[s]
      BY <1>1, <1>3 DEF poolVars, Allocate, TypeOK
  <2>2. QED
      BY <1>2, <1>3, <2>1, QuietContexts
<1>4. CASE /\ CanAllocate(c) /\ Allocate(s, c)
           /\ channel' = [channel EXCEPT ![s][Direction(s)] = c]
  <2>1. claimed'[s] = claimed[s] \cup {c} /\ c \notin claimed[s]
      BY <1>4 DEF CanAllocate, Allocate, TypeOK, ChannelsPartitioned
  <2>2. \A d \in Directions : channel'[s][d] \in {c, channel[s][d]}
      BY <1>4 DEF TypeOK
  <2>3. \A x \in contexts[s] : x[2] \in claimed'[s] /\ x[2] # c
      BY <2>1 DEF ContextsOK
  <2>4. QED
      BY <1>2, <2>2, <2>3 DEF GoodContexts, ContextsOK
<1>5. QED
    BY <1>1, <1>3, <1>4

(* start() opens one on the channel of its object, which is not that of the *)
(* other object.                                                            *)
LEMMA StartIsoContexts ==
    ASSUME NEW s \in Sessions, CInv, StartIso(s)
    PROVE  GoodContexts(s)
<1> USE DEF CInv, IInv
<1>1. phase[s] \in {"startRecv", "startXmit"}
    BY StartStepPhase DEF StartIso
<1>2. Direction(s) \in Directions /\ Channel(s) \in claimed[s]
    BY <1>1, OwnChannel DEF Busy, Over, Iterating
<1>3. UNCHANGED <<poolVars, channel>> /\ step'[s] # "release"
    BY NotToRelease DEF StartIso, Steps
<1>4. CASE UNCHANGED contexts
    BY <1>3, <1>4, QuietContexts DEF poolVars
<1>5. CASE contexts' = [contexts EXCEPT ![s] = @ \cup {<<Direction(s), Channel(s)>>}]
  <2>1. /\ contexts'[s] = contexts[s] \cup {<<Direction(s), Channel(s)>>}
        /\ \A t \in Sessions \ {s} : contexts'[t] = contexts[t]
      BY <1>5 DEF TypeOK
  <2>2. channel[s].recv # channel[s].xmit
      BY <1>1 DEF HoldsOwn, Exists, ObjectPhases
  <2>3. \A d \in Directions : Channel(s) = channel[s][d] => d = Direction(s)
      BY <1>2, <2>2 DEF Channel, Directions
  <2>4. QED
      BY <1>2, <1>3, <2>1, <2>3 DEF GoodContexts, ContextsOK, poolVars
<1>6. QED
    BY <1>4, <1>5 DEF StartIso

(* stop() closes it.                                                        *)
LEMMA ShutdownContexts ==
    ASSUME NEW s \in Sessions, CInv, Shutdown(s)
    PROVE  GoodContexts(s)
<1> USE DEF CInv, IInv
<1>1. /\ contexts'[s] = contexts[s] \ {ContextOf(s)}
      /\ \A t \in Sessions \ {s} : contexts'[t] = contexts[t]
      /\ UNCHANGED <<claimed, channel>>
    BY DEF Shutdown, poolVars, TypeOK
<1>2. step'[s] = "release" => ContextOf(s)' = ContextOf(s)
  <2>1. CASE Advance(s, "release")
      BY <1>1, <2>1
         DEF Advance, Goto, TypeOK, ContextOf, Direction, Channel
  <2>2. CASE Complete(s)
      BY <2>2, NotToRelease DEF Steps
  <2>3. QED
      BY <2>1, <2>2 DEF Shutdown
<1>3. QED
    BY <1>1, <1>2 DEF GoodContexts, ContextsOK

(* The destructor gives the channel back after that.                        *)
LEMMA ReleaseContexts ==
    ASSUME NEW s \in Sessions, CInv, Release(s)
    PROVE  GoodContexts(s)
<1> USE DEF CInv, IInv
<1>1. Deleting(s)
    BY DEF Release, PcOK, TypeOK, Phases, ConstructSteps, StartSteps, StopSteps,
           Deleting, Iterating
<1>2. Direction(s) \in Directions /\ Channel(s) \in claimed[s]
    BY <1>1, OwnChannel DEF Deleting, Busy, Over, Iterating
<1>3. UNCHANGED contexts /\ step'[s] # "release"
    BY NotToRelease DEF Release, Steps
<1>4. \A x \in contexts[s] : x[2] # Channel(s)
  <2>1. ASSUME NEW x \in contexts[s], x[2] = Channel(s)
        PROVE  FALSE
    <3>1. x = <<x[1], x[2]>>
        BY DEF TypeOK
    <3>2. x[1] = Direction(s)
        BY <1>2, <2>1 DEF ContextsOK, Channel
    <3>3. QED
        BY <2>1, <3>1, <3>2 DEF Release, ContextsOK, ContextOf
  <2>2. QED
      BY <2>1
<1>5. claimed[s] \ {Channel(s)} \subseteq claimed'[s]
    BY DEF Release, Free, TypeOK, poolVars
<1>6. \A d \in Directions : channel'[s][d] \in {NO_CHANNEL, channel[s][d]}
    BY DEF Release, TypeOK
<1>7. \A x \in contexts[s] : x[2] # NO_CHANNEL
    BY SizeAssumption DEF TypeOK, Channels, NO_CHANNEL
<1>8. QED
    BY <1>3, <1>4, <1>5, <1>6, <1>7 DEF GoodContexts, ContextsOK

LEMMA NewPhantomContexts ==
    ASSUME NEW s \in Sessions, CInv, NewPhantom(s)
    PROVE  GoodContexts(s)
<1> USE DEF CInv, IInv
<1>1. /\ contexts'[s] \subseteq contexts[s]
      /\ \A t \in Sessions \ {s} : contexts'[t] = contexts[t]
      /\ UNCHANGED claimed
    BY DEF NewPhantom, poolVars, TypeOK
<1>2. step'[s] # "release"
    BY NotToRelease DEF NewPhantom, Steps, Phases
<1>3. \A d \in Directions : channel'[s][d] = NO_CHANNEL
    BY DEF NewPhantom, NoObjects, Directions, TypeOK
<1>4. \A x \in contexts[s] : x[2] # NO_CHANNEL
    BY SizeAssumption DEF TypeOK, Channels, NO_CHANNEL
<1>5. QED
    BY <1>1, <1>2, <1>3, <1>4 DEF GoodContexts, ContextsOK

-----------------------------------------------------------------------------
LEMMA ActionContexts ==
    ASSUME NEW s \in Sessions, CInv, Call(s) \/ Run(s) \/ Crash(s)
    PROVE  GoodContexts(s)
BY QuietGood, ClaimContexts, StartIsoContexts, ShutdownContexts,
   ReleaseContexts, NewPhantomContexts
   DEF Quiet, Call, Run, Construct, Configure, Dismantle

LEMMA NextCInv == CInv /\ [Next]_vars => CInv'
<1>1. ASSUME CInv, NEW s \in Sessions, Call(s) \/ Run(s) \/ Crash(s)
      PROVE  CInv'
  <2>1. GoodStep(s) /\ IInv'
      BY <1>1, ActionGood, GoodStepIInv DEF CInv
  <2>2. GoodContexts(s)
      BY <1>1, ActionContexts
  <2>3. ASSUME NEW t \in Sessions \ {s}
        PROVE  ContextsOK(t)'
    <3>1. /\ contexts'[t] = contexts[t] /\ channel'[t] = channel[t]
          /\ step'[t] = step[t] /\ phase'[t] = phase[t]
        BY <2>1, <2>2 DEF GoodContexts, GoodStep, Moved, MovesAlone, ObjectsAlone
    <3>2. claimed'[t] = claimed[t]
        BY <1>1, <2>1, PoolPartition DEF CInv, IInv, GoodStep
    <3>3. QED
        BY <1>1, <3>1, <3>2
           DEF CInv, ContextsOK, ContextOf, Direction, Channel
  <2>4. QED
      BY <2>1, <2>2, <2>3 DEF CInv, GoodContexts
<1>2. ASSUME CInv, UNCHANGED vars
      PROVE  CInv'
  <2>1. IInv'
      BY <1>2, NextIInv DEF CInv
  <2>2. QED
      BY <1>2, <2>1 DEF CInv, vars, poolVars, pcVars, ContextsOK, ContextOf,
                        Direction, Channel
<1>3. QED
    BY <1>1, <1>2 DEF Next

(* No host sends or listens on a channel that its session does not hold:    *)
(* on every path, whatever fails on it, a context is closed before its      *)
(* channel is given back.                                                   *)
THEOREM ContextsAreHeld == Spec => []ContextsOnHeldChannels
<1>1. Init => CInv
    BY InitIInv DEF Init, CInv, ContextsOK
<1>2. CInv => ContextsOnHeldChannels
    BY DEF CInv, ContextsOK, ContextsOnHeldChannels, ActiveContexts
<1>3. QED
    BY <1>1, <1>2, NextCInv, PTL DEF Spec
-----------------------------------------------------------------------------
(* The second part: channels that are still claimed.                        *)

(* startPhantom has set the flag before the first constructor runs.         *)
Flagged(s) ==
    phase[s] \in {"ctorRecv", "ctorXmit", "unwind", "startRecv", "startXmit"}
        => started[s]

(* While nothing went wrong each channel a session holds is that of one of  *)
(* its existing objects.                                                    *)
Accounted(s) ==
    ~faulted[s] => \A c \in claimed[s] :
                       \E d \in Directions : Exists(s, d) /\ channel[s][d] = c

LInv == IInv /\ \A s \in Sessions : Flagged(s) /\ Accounted(s)

(* What a step has to do for its session; and for the faults of the others. *)
GoodAccount(s) == Flagged(s)' /\ Accounted(s)'
FaultsAlone(s) == \A t \in Sessions \ {s} : faulted'[t] = faulted[t]

KeepsObjects(s) == \A d \in Directions : Exists(s, d) => Exists(s, d)'

-----------------------------------------------------------------------------
(* The ways out of a step.                                                  *)
LEMMA AdvanceKeeps ==
    ASSUME NEW s \in Sessions, NEW st, TypeOK, Flagged(s), Advance(s, st)
    PROVE  Flagged(s)' /\ KeepsObjects(s)
BY DEF Advance, Goto, TypeOK, Flagged, KeepsObjects, Exists

LEMMA CompleteKeeps ==
    ASSUME NEW s \in Sessions, TypeOK, PcOK(s), Busy(s), Flagged(s),
           Complete(s)
    PROVE  /\ Flagged(s)'
           /\ \A d \in Directions :
                 \/ Exists(s, d)
                 \/ phase[s] \in {"ctorRecv", "ctorXmit"} /\ d = Direction(s)
                 => Exists(s, d)' \/ (Deleting(s) /\ d = Direction(s))
<1>1. CASE /\ Following(phase[s]) # "idle"
           /\ Goto(s, Following(phase[s]), FirstStep(Following(phase[s])))
           /\ UNCHANGED <<started, result>>
  <2>1. phase[s] \in {"ctorRecv", "ctorXmit", "startRecv", "stopRecv",
                      "stopXmit", "delRecv"}
      BY <1>1 DEF Following
  <2>2. phase'[s] = Following(phase[s]) /\ started'[s] = started[s]
      BY <1>1 DEF Goto, TypeOK
  <2>3. QED
      BY <2>1, <2>2 DEF Flagged, Following, Exists, ObjectPhases, Direction,
                        Deleting, Directions
<1>2. CASE /\ phase[s] \in {"startXmit", "delXmit"}
           /\ Return(s, "ok")
           /\ UNCHANGED started
  <2>1. /\ phase'[s] = IF destroying[s] THEN "gone" ELSE "idle"
        /\ started'[s] = started[s]
      BY <1>2 DEF Return, Goto, TypeOK
  <2>2. QED
      BY <1>2, <2>1 DEF Flagged, PcOK, Exists, ObjectPhases, Direction,
                        Deleting, Directions
<1>3. CASE /\ phase[s] = "unwind"
           /\ Return(s, "exception")
           /\ ResetStarted(s)
  <2>1. phase'[s] \in {"gone", "idle"}
      BY <1>3 DEF Return, Goto, TypeOK
  <2>2. QED
      BY <1>3, <2>1 DEF Flagged, Exists, ObjectPhases, Direction, Deleting,
                        Directions
<1>4. QED
    BY <1>1, <1>2, <1>3 DEF Complete

LEMMA RaiseKeeps ==
    ASSUME NEW s \in Sessions, TypeOK, PcOK(s), Busy(s), Flagged(s), Raise(s)
    PROVE  /\ Flagged(s)'
           /\ phase[s] \in {"ctorRecv", "ctorXmit", "startRecv", "startXmit"}
                  => KeepsObjects(s)
<1>1. \/ phase'[s] \in {"terminated", "gone", "idle"}
      \/ UnwindsRecv(s) /\ phase'[s] = "unwind" /\ UNCHANGED started
    BY DEF Raise, Return, Goto, TypeOK
<1>2. Flagged(s)'
    BY <1>1 DEF Flagged, UnwindsRecv
<1>3. CASE phase[s] = "ctorRecv"
    BY <1>2, <1>3 DEF KeepsObjects, Exists, ObjectPhases, Directions
<1>4. CASE phase[s] = "ctorXmit"
  <2>1. ~InDestructor(s)
      BY <1>4 DEF InDestructor, Deleting, PcOK
  <2>2. phase'[s] = "unwind"
      BY <1>4, <2>1 DEF Raise, UnwindsRecv, Goto, TypeOK
  <2>3. QED
      BY <1>2, <1>4, <2>2 DEF KeepsObjects, Exists, ObjectPhases, Directions
<1>5. CASE phase[s] \in {"startRecv", "startXmit"}
  <2>1. ~InDestructor(s)
      BY <1>5 DEF InDestructor, Deleting, PcOK
  <2>2. /\ phase'[s] = "idle" /\ started'[s] = started[s]
      BY <1>5, <2>1 DEF Raise, UnwindsRecv, Return, Goto, TypeOK, InDestructor
  <2>3. QED
      BY <1>2, <1>5, <2>2 DEF KeepsObjects, Exists, Flagged
<1>6. QED
    BY <1>2, <1>3, <1>4, <1>5

(* A step that leaves the channels alone is good for the account when it    *)
(* keeps the objects, or when something went wrong in it.                   *)
LEMMA AccountKept ==
    ASSUME NEW s \in Sessions, Accounted(s), UNCHANGED <<claimed, channel>>,
           faulted'[s] \/ (faulted'[s] = faulted[s] /\ KeepsObjects(s))
    PROVE  Accounted(s)'
BY DEF Accounted, KeepsObjects

LEMMA FaultTells ==
    ASSUME NEW s \in Sessions, NEW kind, TypeOK, Fault(s, kind)
    PROVE  faulted'[s] /\ FaultsAlone(s)
BY DEF Fault, TypeOK, FaultsAlone

(* No step of a session reports a fault of another.                         *)
LEMMA EachItsFaults ==
    ASSUME NEW s \in Sessions, TypeOK, Call(s) \/ Run(s) \/ Crash(s)
    PROVE  FaultsAlone(s)
<1>1. UNCHANGED faulted \/ \E kind \in {"throw", "drop", "crash"} : Fault(s, kind)
  <2>1. CASE Construct(s)
      BY <2>1 DEF Construct, ReadHigh, ReadLow, Claim
  <2>2. CASE Configure(s)
      BY <2>2 DEF Configure, StartIso, WriteChannel, ReadBack, WriteProbe,
                  ReadProbe, RewriteChannel, WriteRegister, ReadsBack
  <2>3. CASE Control(s)
      BY <2>3 DEF Control, ReadStatus, ReadControl, WriteControl, ReadsBack
  <2>4. CASE Dismantle(s) \/ Loop(s) \/ Crash(s)
      BY <2>4 DEF Dismantle, Shutdown, Release, Loop, Crash
  <2>5. CASE Call(s)
      BY <2>5 DEF Call, StartPhantom, StopPhantom, DeletePhantom, IsoIterate,
                  NewPhantom
  <2>6. QED
      BY <2>1, <2>2, <2>3, <2>4, <2>5 DEF Run
<1>2. QED
    BY <1>1, FaultTells DEF FaultsAlone

-----------------------------------------------------------------------------
(* The constructors.                                                        *)
LEMMA ConstructAccount ==
    ASSUME NEW s \in Sessions, LInv, Construct(s)
    PROVE  GoodAccount(s)
<1> USE DEF LInv, IInv
<1>1. phase[s] \in {"ctorRecv", "ctorXmit"} /\ Busy(s)
    BY DEF Construct, ReadHigh, ReadLow, Claim, PcOK, Iterating, TypeOK, Phases,
           StartSteps, StopSteps, Deleting, Busy, Over
<1>2. ASSUME UNCHANGED <<claimed, channel>>,
             UNCHANGED faulted \/ Fault(s, "throw"),
             Raise(s) \/ \E st \in Steps : Advance(s, st)
      PROVE  GoodAccount(s)
  <2>1. Flagged(s)' /\ KeepsObjects(s)
      BY <1>1, <1>2, RaiseKeeps, AdvanceKeeps
  <2>2. QED
      BY <1>2, <2>1, AccountKept, FaultTells DEF GoodAccount
<1>3. CASE ReadHigh(s) \/ ReadLow(s)
    BY <1>2, <1>3 DEF ReadHigh, ReadLow, poolVars, Steps
<1>4. CASE Claim(s)
  <2>1. PICK c \in Channels : Claim(s)!(c)
      BY <1>4 DEF Claim
  <2>2. CASE /\ CanAllocate(c) /\ Allocate(s, c)
             /\ channel' = [channel EXCEPT ![s][Direction(s)] = c]
             /\ Complete(s)
             /\ UNCHANGED faulted
    <3>1. /\ Flagged(s)' /\ KeepsObjects(s)
          /\ \A d \in Directions : d = Direction(s) => Exists(s, d)'
        BY <1>1, <2>2, CompleteKeeps DEF KeepsObjects, Deleting
    <3>2. Direction(s) \in Directions /\ ~Exists(s, Direction(s))
        BY <1>1 DEF Exists, ObjectPhases, Direction, Directions
    <3>3. /\ claimed'[s] = claimed[s] \cup {c}
          /\ channel'[s] = [channel[s] EXCEPT ![Direction(s)] = c]
        BY <2>2 DEF Allocate, TypeOK
    <3>4. channel[s] \in [Directions -> Channels \cup {NO_CHANNEL}]
        BY DEF TypeOK
    <3>5. QED
        BY <2>2, <3>1, <3>2, <3>3, <3>4
           DEF GoodAccount, Accounted, KeepsObjects
  <2>3. CASE Raise(s) /\ UNCHANGED <<poolVars, channel, faulted>>
      BY <1>2, <2>3 DEF poolVars
  <2>4. CASE Fault(s, "throw") /\ Raise(s)
      BY <1>1, <2>4, RaiseKeeps, FaultTells DEF GoodAccount, Accounted
  <2>5. QED
      BY <2>1, <2>2, <2>3, <2>4
<1>5. QED
    BY <1>3, <1>4 DEF Construct

(* start(): a value that does not match leaves it, but the flag stays set   *)
(* and the objects stay.                                                    *)
LEMMA ConfigureAccount ==
    ASSUME NEW s \in Sessions, LInv, Configure(s)
    PROVE  GoodAccount(s)
<1> USE DEF LInv, IInv
<1>1. phase[s] \in {"startRecv", "startXmit"} /\ Busy(s)
    BY StartStepPhase
       DEF Configure, StartIso, WriteChannel, ReadBack, WriteProbe, ReadProbe,
           RewriteChannel, Busy, Over
<1>2. UNCHANGED <<claimed, channel>>
    BY DEF Configure, StartIso, WriteChannel, ReadBack, WriteProbe, ReadProbe,
           RewriteChannel, WriteRegister, poolVars
<1>3. UNCHANGED faulted \/ \E kind \in {"throw", "drop"} : Fault(s, kind)
    BY DEF Configure, StartIso, WriteChannel, ReadBack, WriteProbe, ReadProbe,
           RewriteChannel, WriteRegister, ReadsBack
<1>4. Raise(s) \/ \E st : Advance(s, st)
  <2>1. CASE StartIso(s) \/ ReadBack(s) \/ ReadProbe(s)
      BY <2>1 DEF StartIso, ReadBack, ReadProbe, ReadsBack
  <2>2. CASE WriteChannel(s) \/ WriteProbe(s) \/ RewriteChannel(s)
      BY <2>2 DEF WriteChannel, WriteProbe, RewriteChannel, WriteRegister
  <2>3. QED
      BY <2>1, <2>2 DEF Configure
<1>5. Flagged(s)' /\ KeepsObjects(s)
    BY <1>1, <1>4, RaiseKeeps, AdvanceKeeps
<1>6. QED
    BY <1>2, <1>3, <1>5, AccountKept, FaultTells DEF GoodAccount

-----------------------------------------------------------------------------
(* The control register, at the end of start() and in stop().               *)
LEMMA AfterControlKeeps ==
    ASSUME NEW s \in Sessions, LInv, AfterControl(s),
           \/ phase[s] \in {"startRecv", "startXmit", "stopRecv", "stopXmit"}
           \/ Deleting(s)
    PROVE  Flagged(s)' /\ KeepsObjects(s)
<1> USE DEF LInv, IInv
<1>1. CASE Starting(s) /\ Complete(s)
    BY <1>1, CompleteKeeps DEF KeepsObjects, Starting, Deleting, Busy, Over
<1>2. CASE ~Starting(s) /\ Advance(s, "shutdown")
    BY <1>2, AdvanceKeeps
<1>3. QED
    BY <1>1, <1>2 DEF AfterControl

LEMMA ControlAccount ==
    ASSUME NEW s \in Sessions, LInv, Control(s)
    PROVE  GoodAccount(s)
<1> USE DEF LInv, IInv
<1>1. /\ \/ phase[s] \in {"startRecv", "startXmit", "stopRecv", "stopXmit"}
         \/ Deleting(s)
      /\ Busy(s)
    BY ControlStepPhase
       DEF Control, ReadStatus, ReadControl, WriteControl, Busy, Over, Deleting
<1>2. UNCHANGED <<claimed, channel>>
    BY DEF Control, ReadStatus, ReadControl, WriteControl, poolVars
<1>3. \/ /\ UNCHANGED faulted \/ Fault(s, "drop")
         /\ AfterControl(s) \/ \E st : Advance(s, st)
      \/ Fault(s, "throw") /\ Raise(s)
    BY DEF Control, ReadStatus, ReadControl, WriteControl, ReadsBack
<1>4. CASE /\ UNCHANGED faulted \/ Fault(s, "drop")
           /\ AfterControl(s) \/ \E st : Advance(s, st)
  <2>1. Flagged(s)' /\ KeepsObjects(s)
      BY <1>1, <1>4, AfterControlKeeps, AdvanceKeeps
  <2>2. QED
      BY <1>2, <1>4, <2>1, AccountKept, FaultTells DEF GoodAccount
<1>5. CASE Fault(s, "throw") /\ Raise(s)
    BY <1>1, <1>5, RaiseKeeps, FaultTells DEF GoodAccount, Accounted
<1>6. QED
    BY <1>3, <1>4, <1>5

LEMMA ShutdownAccount ==
    ASSUME NEW s \in Sessions, LInv, Shutdown(s)
    PROVE  GoodAccount(s)
<1> USE DEF LInv, IInv
<1>1. Busy(s) /\ phase[s] \notin {"ctorRecv", "ctorXmit"}
    BY DEF Shutdown, PcOK, ConstructSteps, Busy, Over
<1>2. Flagged(s)' /\ KeepsObjects(s)
    BY <1>1, AdvanceKeeps, CompleteKeeps DEF Shutdown, KeepsObjects
<1>3. QED
    BY <1>2, AccountKept DEF Shutdown, GoodAccount, poolVars

(* The destructor gives back the channel of the object it ends.             *)
LEMMA ReleaseAccount ==
    ASSUME NEW s \in Sessions, LInv, Release(s)
    PROVE  GoodAccount(s)
<1> USE DEF LInv, IInv
<1>1. Deleting(s) /\ Busy(s)
    BY DEF Release, PcOK, TypeOK, Phases, ConstructSteps, StartSteps, StopSteps,
           Deleting, Iterating, Busy, Over
<1>2. Direction(s) \in Directions /\ Channel(s) \in claimed[s]
    BY <1>1, OwnChannel DEF Deleting, Iterating
<1>3. Channel(s) \notin available
    BY <1>2 DEF ChannelsPartitioned
<1>4. CASE Free(s, Channel(s)) /\ Complete(s) /\ UNCHANGED faulted
  <2>1. /\ Flagged(s)'
        /\ \A d \in Directions : Exists(s, d) => Exists(s, d)' \/ d = Direction(s)
      BY <1>1, <1>4, CompleteKeeps
  <2>2. /\ claimed'[s] = claimed[s] \ {Channel(s)}
        /\ \A d \in Directions \ {Direction(s)} : channel'[s][d] = channel[s][d]
      BY <1>4 DEF Release, Free, TypeOK
  <2>3. QED
      BY <1>4, <2>1, <2>2 DEF GoodAccount, Accounted, Channel
<1>5. CASE Fault(s, "throw") /\ Raise(s)
    BY <1>1, <1>5, RaiseKeeps, FaultTells DEF GoodAccount, Accounted
<1>6. QED
    BY <1>3, <1>4, <1>5 DEF Release

LEMMA LoopAccount ==
    ASSUME NEW s \in Sessions, LInv, Loop(s)
    PROVE  GoodAccount(s)
<1> USE DEF LInv, IInv
<1>1. phase[s] \in {"iterRecv", "iterXmit"}
    BY DEF Loop, PcOK, TypeOK, Phases, ConstructSteps, StartSteps, StopSteps,
           Deleting, Iterating
<1>2. phase'[s] \in {"idle", "iterXmit"} /\ started'[s] = started[s]
    BY DEF Loop, Goto, TypeOK
<1>3. Flagged(s)' /\ KeepsObjects(s)
    BY <1>1, <1>2 DEF Flagged, KeepsObjects, Exists, ObjectPhases
<1>4. QED
    BY <1>3, AccountKept, FaultTells DEF Loop, GoodAccount, poolVars

-----------------------------------------------------------------------------
(* The calls of the application.  What a Phantom that is not started, or is *)
(* gone, could hold is nothing.                                             *)
LEMMA CallAccount ==
    ASSUME NEW s \in Sessions, LInv, Call(s)
    PROVE  GoodAccount(s)
<1> USE DEF LInv, IInv
<1>1. CASE /\ phase[s] = "idle"
           /\ StartPhantom(s) \/ StopPhantom(s) \/ DeletePhantom(s)
  <2>1. UNCHANGED <<claimed, channel, faulted>>
      BY <1>1 DEF StartPhantom, StopPhantom, DeletePhantom, poolVars
  <2>2. \/ phase'[s] \in {"idle", "gone"} /\ started'[s] = started[s]
        \/ phase'[s] = "ctorRecv" /\ started'[s]
        \/ phase'[s] = "stopRecv"
      BY <1>1 DEF StartPhantom, StopPhantom, DeletePhantom, BeginStop, Return,
                  Goto, TypeOK
  <2>3. Flagged(s)'
      BY <2>2 DEF Flagged
  <2>4. KeepsObjects(s)
    <3>1. CASE started[s]
      <4>1. phase'[s] \in {"idle", "stopRecv"}
            /\ (phase'[s] = "idle" => started'[s])
          BY <1>1, <3>1 DEF StartPhantom, StopPhantom, DeletePhantom, BeginStop,
                            Return, Goto, TypeOK, PcOK
      <4>2. QED
          BY <4>1 DEF KeepsObjects, Exists, ObjectPhases
    <3>2. CASE ~started[s]
        BY <1>1, <3>2 DEF KeepsObjects, Exists, ObjectPhases
    <3>3. QED
        BY <3>1, <3>2
  <2>5. QED
      BY <2>1, <2>3, <2>4, AccountKept DEF GoodAccount
<1>2. CASE IsoIterate(s)
  <2>1. /\ phase[s] = "idle" /\ UNCHANGED <<claimed, channel, faulted, started>>
        /\ \/ phase'[s] = "iterRecv"
           \/ ~HasObjects(s) /\ phase'[s] = "terminated"
      BY <1>2 DEF IsoIterate, Goto, TypeOK, poolVars
  <2>2. Flagged(s)'
      BY <2>1 DEF Flagged
  <2>3. started[s] => HasObjects(s)
      BY <2>1, SizeAssumption DEF HoldsOwn, Exists, HasObjects, TypeOK, Channels,
                                  NO_CHANNEL
  <2>4. KeepsObjects(s)
      BY <2>1, <2>3 DEF KeepsObjects, Exists, ObjectPhases
  <2>5. QED
      BY <2>1, <2>2, <2>4, AccountKept DEF GoodAccount
<1>3. CASE NewPhantom(s)
  <2>1. /\ Over(s) /\ UNCHANGED <<claimed, faulted>>
        /\ phase'[s] = "idle"
      BY <1>3 DEF NewPhantom, Goto, TypeOK, poolVars
  <2>2. \A d \in Directions : ~Exists(s, d)
      BY <2>1 DEF Over, Exists, ObjectPhases
  <2>3. QED
      BY <2>1, <2>2 DEF GoodAccount, Flagged, Accounted
<1>4. QED
    BY <1>1, <1>2, <1>3 DEF Call, StartPhantom, StopPhantom, DeletePhantom

LEMMA CrashAccount ==
    ASSUME NEW s \in Sessions, LInv, Crash(s)
    PROVE  GoodAccount(s)
<1>1. phase'[s] = "terminated" /\ faulted'[s]
    BY FaultTells DEF LInv, IInv, Crash, Goto, TypeOK
<1>2. QED
    BY <1>1 DEF GoodAccount, Flagged, Accounted

-----------------------------------------------------------------------------
LEMMA NextLInv == LInv /\ [Next]_vars => LInv'
<1>1. ASSUME LInv, NEW s \in Sessions, Call(s) \/ Run(s) \/ Crash(s)
      PROVE  LInv'
  <2>1. GoodStep(s) /\ IInv'
      BY <1>1, ActionGood, GoodStepIInv DEF LInv
  <2>2. GoodAccount(s)
      BY <1>1, ConstructAccount, ConfigureAccount, ControlAccount,
         ShutdownAccount, ReleaseAccount, LoopAccount, CallAccount, CrashAccount
         DEF Run, Dismantle
  <2>3. FaultsAlone(s)
      BY <1>1, EachItsFaults DEF LInv, IInv
  <2>4. ASSUME NEW t \in Sessions \ {s}
        PROVE  Flagged(t)' /\ Accounted(t)'
    <3>1. /\ channel'[t] = channel[t] /\ phase'[t] = phase[t]
          /\ started'[t] = started[t] /\ faulted'[t] = faulted[t]
        BY <2>1, <2>3 DEF FaultsAlone, GoodStep, Moved, MovesAlone, ObjectsAlone
    <3>2. claimed'[t] = claimed[t]
        BY <1>1, <2>1, PoolPartition DEF LInv, IInv, GoodStep
    <3>3. QED
        BY <1>1, <3>1, <3>2 DEF LInv, Flagged, Accounted, Exists
  <2>5. QED
      BY <2>1, <2>2, <2>4 DEF LInv, GoodAccount
<1>2. ASSUME LInv, UNCHANGED vars
      PROVE  LInv'
  <2>1. IInv'
      BY <1>2, NextIInv DEF LInv
  <2>2. QED
      BY <1>2, <2>1 DEF LInv, vars, poolVars, pcVars, Flagged, Accounted, Exists
<1>3. QED
    BY <1>1, <1>2 DEF Next

(* No call of a session on which no transaction failed loses a channel, in  *)
(* particular not a startPhantom that finds no channel free, or sees        *)
(* another process take the one it chose, after its first constructor.      *)
THEOREM ChannelsAreAccounted == Spec => []NoChannelLeak
<1>1. Init => LInv
    BY InitIInv DEF Init, LInv, Flagged, Accounted
<1>2. LInv => NoChannelLeak
    BY DEF LInv, Accounted, NoChannelLeak, Exists, ObjectPhases, Busy, Over
<1>3. QED
    BY <1>1, <1>2, NextLInv, PTL DEF Spec
=============================================================================
