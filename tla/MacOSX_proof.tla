---------------------------- MODULE MacOSX_proof ----------------------------
(***************************************************************************)
(* The Mac OS X backend with any number of processes, units and channels.  *)
(* Whatever calls fail, a unit is open exactly while it is probed or a     *)
(* Phantom, and the channel objects of one process, the ones that an       *)
(* exception left behind among them, have different channels.              *)
(***************************************************************************)
EXTENDS MacOSX, TLAPS

(* Between calls and between units a process works on no unit; a step other *)
(* than a probe works on a Phantom of its own.                              *)
Resting == {"idle", "next", "aborted"}
Iterating == {"loopRecv", "loopXmit"}
Stopping == {"stopRecv", "stopXmit", "delRecv", "delXmit"}
Working == {"ctorRecv", "ctorXmit", "unwind", "listen", "configure"}
               \cup Iterating \cup Stopping

PlaceOK(p) ==
    /\ pc[p] \in Resting => unit[p] = NoUnit
    /\ pc[p] = "probe" => unit[p] \in Units
    /\ pc[p] \in Working => unit[p] \in phantoms[p]
PlacesOK == \A p \in Procs : PlaceOK(p)

IteratorOK == unitIterator \in [Procs -> Seq(Units) \cup {NoIterator}]

(* The first half of UnitsInUse.                                            *)
OpenedFor(u, p) == u \in phantoms[p] \/ (pc[p] = "probe" /\ unit[p] = u)
OwnersOK == \A u \in Units, p \in Procs : owner[u] = p <=> OpenedFor(u, p)

(* A unit that is no Phantom has neither channel objects nor a program.     *)
Untouched(u) == ~started[u] /\ channel[u] = NoObjects
OthersUntouched ==
    \A u \in Units : (\A p \in Procs : u \notin phantoms[p]) => Untouched(u)

(* How far a start, an iteration or a stop has come with its unit.  A       *)
(* failed stop leaves channel objects behind, so the objects not yet        *)
(* constructed are not always absent.                                       *)
StepOK(p) ==
    LET u == unit[p] IN
    /\ pc[p] = "probe" => u \notin phantoms[p]
    /\ pc[p] \in {"ctorXmit", "unwind"} => channel[u].recv # NONE
    /\ pc[p] \in {"listen", "configure"} => HasObjects(u)
    /\ pc[p] \in Iterating /\ started[u] => HasObjects(u)
    /\ pc[p] \in Stopping => ~started[u]
StepsOK == \A p \in Procs : StepOK(p)

(* The second half of UnitsInUse.                                           *)
StartedOK ==
    \A p \in Procs, u \in Units :
        u \in phantoms[p] /\ unit[p] # u /\ started[u] => HasObjects(u)

(* ChannelsOfProcessDistinct, unit by unit.                                 *)
ClaimsOK ==
    \A u \in Units, s \in Sides, p \in Procs :
        owner[u] = p /\ channel[u][s] # NONE => channel[u][s] \in claimed[p]
DistinctOK ==
    \A u, v \in Units, s, t \in Sides :
        /\ owner[u] = owner[v] /\ owner[u] # Nobody
        /\ channel[u][s] # NONE /\ channel[u][s] = channel[v][t]
        => u = v /\ s = t

TInv == TypeOK /\ IteratorOK /\ PlacesOK
UInv == OwnersOK /\ OthersUntouched /\ StepsOK /\ StartedOK
CInv == ClaimsOK /\ DistinctOK
MInv == TInv /\ UInv /\ CInv
-----------------------------------------------------------------------------
(* Type correctness and the unit that a process works on.                   *)
LEMMA Constants ==
    /\ Channels \subseteq 0 .. 63 /\ Nobody \notin Procs /\ NoUnit \notin Units
    /\ 0 .. NumBits - 1 \subseteq Channels
    /\ FreeOnBus \subseteq Channels /\ NONE \notin Channels
    /\ PROBE \notin Channels /\ POWER_UP \notin Channels
    /\ Len(DeviceUnits) \in Nat
    /\ \A i \in 1 .. Len(DeviceUnits) : DeviceUnits[i] \in Seq(Units)
BY MacAssumption DEF Channels, NONE, PROBE, POWER_UP

LEMMA InitTInv == Init => TInv
BY Constants
   DEF Init, TInv, TypeOK, IteratorOK, PlacesOK, PlaceOK, Resting, Working,
       Iterating, Stopping, NoObjects

LEMMA Busy ==
    ASSUME TInv, NEW p \in Procs, pc[p] \in Working
    PROVE  unit[p] \in Units /\ unit[p] \in phantoms[p]
BY DEF TInv, TypeOK, PlacesOK, PlaceOK

LEMMA FindPhantomTInv ==
    ASSUME TInv, NEW p \in Procs, FindPhantom(p), UNCHANGED faults
    PROVE  TInv'
BY DEF FindPhantom, Goto, SearchOnly, searchVars, osVars, objectVars,
       deviceVars, TInv, TypeOK, IteratorOK, PlacesOK, PlaceOK, Resting,
       Working, Iterating, Stopping

LEMMA NewProcessTInv ==
    ASSUME TInv, NEW p \in Procs, NewProcess(p), UNCHANGED faults
    PROVE  TInv'
BY DEF NewProcess, Goto, Others, searchVars, osVars, objectVars,
       deviceVars, TInv, TypeOK, IteratorOK, PlacesOK, PlaceOK, Resting,
       Working, Iterating, Stopping

LEMMA NextDeviceTInv ==
    ASSUME TInv, NEW p \in Procs, NextDevice(p), UNCHANGED faults
    PROVE  TInv'
<1> USE DEF TInv, NextDevice, SearchOnly, osVars, objectVars, deviceVars, TypeOK
<1>1. CASE deviceIterator[p] = Len(DeviceUnits)
  <2>1. Finish(p) /\ Rewound(p)
      BY <1>1, Constants
  <2>2. deviceIterator' \in [Procs -> 0 .. Len(DeviceUnits)] /\ IteratorOK'
      BY <2>1, Constants DEF Rewound, IteratorOK
  <2>3. TypeOK'
      BY <2>1, <2>2 DEF Finish, Goto
  <2>4. PlacesOK'
      BY <2>1 DEF Finish, Goto, PlacesOK, PlaceOK, Resting, Working,
                  Iterating, Stopping
  <2>5. QED
      BY <2>2, <2>3, <2>4
<1>2. CASE deviceIterator[p] < Len(DeviceUnits)
  <2>1. /\ deviceIterator' = [deviceIterator EXCEPT ![p] = @ + 1]
        /\ deviceIterator'[p] \in 1 .. Len(DeviceUnits)
        /\ UNCHANGED <<pc, unit>>
      BY <1>2, Constants
  <2>2. deviceIterator' \in [Procs -> 0 .. Len(DeviceUnits)]
      BY <2>1, Constants
  <2>3. TypeOK' /\ PlacesOK'
      BY <2>1, <2>2 DEF PlacesOK, PlaceOK
  <2>4. DeviceUnits[deviceIterator'[p]] \in Seq(Units)
      BY <2>1, Constants
  <2>5. IteratorOK'
      BY <1>2, <2>4, Constants DEF IteratorOK
  <2>6. QED
      BY <2>3, <2>5
<1>3. QED
    BY <1>1, <1>2

LEMMA NextUnitTInv ==
    ASSUME TInv, NEW p \in Procs, NextUnit(p), UNCHANGED faults
    PROVE  TInv'
<1> USE DEF TInv, NextUnit, SearchOnly, objectVars, deviceVars
<1>1. unitIterator[p] \in Seq(Units)
    BY DEF IteratorOK
<1>2. CASE unitIterator[p] = <<>>
  <2>1. unitIterator' = [unitIterator EXCEPT ![p] = NoIterator]
        /\ UNCHANGED <<pc, unit, owner>>
      BY <1>2
  <2>2. QED
      BY <2>1 DEF IteratorOK, TypeOK, PlacesOK, PlaceOK
<1>3. CASE unitIterator[p] # <<>>
  <2> DEFINE u == Head(unitIterator[p])
  <2>1. u \in Units /\ Tail(unitIterator[p]) \in Seq(Units)
      BY <1>1, <1>3
  <2>2. IteratorOK'
      BY <1>3, <2>1 DEF IteratorOK, TakesUnit
  <2> HIDE DEF u
  <2>3. CASE UNCHANGED <<pc, unit, owner>>
      BY <2>2, <2>3 DEF TypeOK, PlacesOK, PlaceOK
  <2>4. CASE /\ CanOpen(u) /\ Opened(p, u)
             /\ unit' = [unit EXCEPT ![p] = u]
             /\ Goto(p, "probe")
    <3>2. TypeOK'
        BY <2>1, <2>4 DEF TypeOK, Opened, Goto
    <3>3. PlacesOK'
        BY <2>1, <2>4
           DEF TypeOK, Goto, PlacesOK, PlaceOK, Resting, Working, Iterating,
               Stopping
    <3>4. QED
        BY <2>2, <3>2, <3>3
  <2>5. QED
      BY <1>3, <2>3, <2>4 DEF u
<1>4. QED
    BY <1>2, <1>3

LEMMA ProbeUnitTInv ==
    ASSUME TInv, NEW p \in Procs, ProbeUnit(p), UNCHANGED faults
    PROVE  TInv'
<1> USE DEF TInv, ProbeUnit, SearchOnly, searchVars, objectVars, deviceVars
<1>1. unit[p] \in Units
    BY DEF PlacesOK, PlaceOK
<1>2. CASE /\ phantoms' = [phantoms EXCEPT ![p] = @ \cup {unit[p]}]
           /\ Finish(p) /\ Rewound(p)
           /\ UNCHANGED owner
  <2>1. deviceIterator' \in [Procs -> 0 .. Len(DeviceUnits)] /\ IteratorOK'
      BY <1>2, Constants DEF Rewound, IteratorOK, TypeOK
  <2>2. TypeOK'
      BY <1>1, <1>2, <2>1 DEF Finish, Goto, TypeOK
  <2>3. PlacesOK'
      BY <1>2 DEF Finish, Goto, TypeOK, PlacesOK, PlaceOK, Resting, Working,
                  Iterating, Stopping
  <2>4. QED
      BY <2>1, <2>2, <2>3
<1>3. CASE /\ Rejected(unit[p])
           /\ Goto(p, "next")
           /\ unit' = [unit EXCEPT ![p] = NoUnit]
           /\ UNCHANGED <<searchVars, phantoms>>
  <2>1. TypeOK' /\ IteratorOK'
      BY <1>1, <1>3 DEF Rejected, Closed, Goto, TypeOK, IteratorOK
  <2>2. PlacesOK'
      BY <1>3 DEF Goto, TypeOK, PlacesOK, PlaceOK, Resting, Working,
                  Iterating, Stopping
  <2>3. QED
      BY <2>1, <2>2
<1>4. QED
    BY <1>2, <1>3

(* A step of one process leaves the places of the others alone.             *)
LEMMA PlacesElsewhere ==
    ASSUME PlacesOK, NEW p \in Procs, PlaceOK(p)',
           \A q \in Procs \ {p} : /\ pc'[q] = pc[q] /\ unit'[q] = unit[q]
                                 /\ phantoms'[q] = phantoms[q]
    PROVE  PlacesOK'
<1>1. ASSUME NEW q \in Procs \ {p}
      PROVE  PlaceOK(q)'
    BY <1>1 DEF PlacesOK, PlaceOK
<1>2. QED
    BY <1>1 DEF PlacesOK

LEMMA StartPhantomTInv ==
    ASSUME TInv, NEW p \in Procs, NEW u \in Units, StartPhantom(p, u),
           UNCHANGED faults
    PROVE  TInv'
<1> USE DEF TInv, StartPhantom, Goto, Others, searchVars, osVars, deviceVars
<1>1. CASE started[u]
    BY <1>1 DEF TypeOK, IteratorOK, PlacesOK, PlaceOK
<1>2. CASE ~started[u]
  <2>1. /\ started' = [started EXCEPT ![u] = TRUE]
        /\ pc' = [pc EXCEPT ![p] = "ctorRecv"]
        /\ unit' = [unit EXCEPT ![p] = u]
        /\ phantoms' = phantoms /\ u \in phantoms[p]
      BY <1>2
  <2> HIDE DEF TInv, StartPhantom
  <2>2. TypeOK' /\ IteratorOK'
      BY <2>1, <1>2 DEF TInv, StartPhantom, TypeOK, IteratorOK
  <2>3. PlaceOK(p)'
      BY <2>1 DEF TInv, TypeOK, PlaceOK, Resting
  <2>4. \A q \in Procs \ {p} : /\ pc'[q] = pc[q] /\ unit'[q] = unit[q]
                              /\ phantoms'[q] = phantoms[q]
      BY <2>1 DEF TInv, TypeOK
  <2>5. PlacesOK'
      BY <2>3, <2>4, PlacesElsewhere DEF TInv
  <2>6. QED
      BY <2>2, <2>5 DEF TInv
<1>3. QED
    BY <1>1, <1>2

LEMMA ConstructTInv ==
    ASSUME TInv, NEW p \in Procs, Construct(p), UNCHANGED faults
    PROVE  TInv'
<1> DEFINE u == unit[p]
           side == IF pc[p] = "ctorRecv" THEN "recv" ELSE "xmit"
<1> USE DEF TInv, Construct, Goto, Finish, Others, searchVars, osVars,
            deviceVars
<1>1. u \in Units /\ u \in phantoms[p] /\ side \in {"recv", "xmit"}
    BY Busy DEF Working
<1>2. ASSUME NEW c \in Channels, getFreeChannel(p, c), claimChannel(p, c),
             channel' = [channel EXCEPT ![u][side] = c],
             Goto(p, IF side = "recv" THEN "ctorXmit" ELSE "listen"),
             UNCHANGED <<unit, started>>
      PROVE  TInv'
  <2>1. c \in 0 .. NumBits - 1
      BY <1>2 DEF getFreeChannel, Unclaimed
  <2>2. claimed' \in [Procs -> SUBSET (0 .. NumBits - 1)]
      BY <1>2, <2>1 DEF claimChannel, TypeOK
  <2>3. channel' \in [Units -> [{"recv", "xmit"} -> Channels \cup {NONE}]]
      BY <1>1, <1>2 DEF TypeOK
  <2>4. TypeOK' /\ IteratorOK'
      BY <1>2, <2>2, <2>3 DEF TypeOK, IteratorOK
  <2>5. PlacesOK'
      BY <1>1, <1>2 DEF TypeOK, PlacesOK, PlaceOK, Resting, Working,
                        Iterating, Stopping
  <2>6. QED
      BY <2>4, <2>5
<1>3. CASE /\ side = "xmit" /\ Goto(p, "unwind")
           /\ UNCHANGED <<unit, started, claimed, channel>>
  <2>1. TypeOK' /\ IteratorOK'
      BY <1>3 DEF TypeOK, IteratorOK
  <2>2. PlacesOK'
      BY <1>1, <1>3 DEF TypeOK, PlacesOK, PlaceOK, Resting, Working,
                        Iterating, Stopping
  <2>3. QED
      BY <2>1, <2>2
<1>4. CASE /\ side = "recv" /\ Finish(p)
           /\ started' = [started EXCEPT ![u] = FALSE]
           /\ UNCHANGED <<claimed, channel>>
  <2>1. TypeOK' /\ IteratorOK'
      BY <1>4 DEF TypeOK, IteratorOK
  <2>2. PlacesOK'
      BY <1>1, <1>4 DEF TypeOK, PlacesOK, PlaceOK, Resting, Working,
                        Iterating, Stopping
  <2>3. QED
      BY <2>1, <2>2
<1>5. QED
    BY <1>2, <1>3, <1>4

LEMMA AbortTInv ==
    ASSUME TInv, NEW p \in Procs, Abort(p), UNCHANGED <<searchVars, deviceVars>>,
           UNCHANGED faults
    PROVE  TInv'
<1> USE Constants DEF TInv
<1>1. TypeOK'
    BY DEF Abort, NoObjects, Goto, searchVars, deviceVars, TypeOK
<1>2. IteratorOK'
    BY DEF Abort, NoObjects, Goto, searchVars, deviceVars, TypeOK, IteratorOK
<1>3. PlacesOK'
    BY DEF Abort, NoObjects, Goto, searchVars, deviceVars, TypeOK, PlacesOK, PlaceOK, Resting, Working,
          Iterating, Stopping
<1>4. QED
    BY <1>1, <1>2, <1>3
LEMMA ListenTInv ==
    ASSUME TInv, NEW p \in Procs, Listen(p), UNCHANGED faults
    PROVE  TInv'
<1> DEFINE u == unit[p]
<1> USE DEF TInv, Listen, Others, searchVars, osVars, deviceVars
<1>1. u \in Units /\ u \in phantoms[p]
    BY Busy DEF Working
<1>2. ASSUME NEW b \in FreeOnBus \ Allocated,
             listening' = [listening EXCEPT ![u] = b],
             orphans' = [orphans EXCEPT ![p] = @ \cup Programs(p, u)],
             Goto(p, "configure"),
             Others, UNCHANGED <<unit, started, channel, claimed>>
      PROVE  TInv'
  <2>1. b \in Channels /\ Programs(p, u) \subseteq Channels
      BY <1>1, Constants DEF Programs, TypeOK
  <2>2. TypeOK' /\ IteratorOK'
      BY <1>2, <2>1 DEF TypeOK, IteratorOK, Goto
  <2>3. PlacesOK'
      BY <1>1, <1>2 DEF Goto, TypeOK, PlacesOK, PlaceOK, Resting, Working,
                        Iterating, Stopping
  <2>4. QED
      BY <2>2, <2>3
<1>3. CASE Abort(p) /\ UNCHANGED searchVars
    BY <1>3, AbortTInv
<1>4. QED
    BY <1>2, <1>3

LEMMA ConfigureTInv ==
    ASSUME TInv, NEW p \in Procs, Configure(p), HasObjects(unit[p]),
           UNCHANGED faults
    PROVE  TInv'
<1> DEFINE u == unit[p]
           c == channel[u].recv
           Values == Channels \cup {PROBE, POWER_UP}
<1> USE DEF TInv
<1>1. u \in Units /\ u \in phantoms[p]
    BY Busy DEF Working, Configure
<1>2. c \in Values /\ ProbeValue(c) \in Values /\ register[u] \in Values
    BY <1>1 DEF TypeOK, HasObjects, ProbeValue
<1>3. \A old, new \in Values : Written(u, old, new) \subseteq Values
    BY DEF Written
<1>4. \A old \in Values : Written(u, old, c) \subseteq Values
    BY <1>2, <1>3
<1>5. \A old \in Values : Written(u, old, ProbeValue(c)) \subseteq Values
    BY <1>2, <1>3
<1>6. \E r1 \in Written(u, register[u], c) :
      \E r2 \in Written(u, r1, ProbeValue(c)) :
      \E r3 \in Written(u, r2, c) :
      \E r \in {r1, r2, r3} : register' = [register EXCEPT ![u] = r]
    BY DEF Configure
<1>7. \E r \in Values : register' = [register EXCEPT ![u] = r]
  <2>1. PICK r1 \in Written(u, register[u], c) :
            \E r2 \in Written(u, r1, ProbeValue(c)) :
            \E r3 \in Written(u, r2, c) :
            \E r \in {r1, r2, r3} : register' = [register EXCEPT ![u] = r]
      BY <1>6
  <2>2. r1 \in Values
      BY <1>2, <1>4
  <2>3. PICK r2 \in Written(u, r1, ProbeValue(c)) :
            \E r3 \in Written(u, r2, c) :
            \E r \in {r1, r2, r3} : register' = [register EXCEPT ![u] = r]
      BY <2>1
  <2>4. r2 \in Values
      BY <2>2, <1>5
  <2>5. QED
      BY <2>2, <2>3, <2>4, <1>4
<1>8. register' \in [Units -> Values]
    BY <1>1, <1>7 DEF TypeOK
<1>9. enabled' \in [Units -> BOOLEAN]
  <2>1. \A e \in Written(u, enabled[u], TRUE) : e \in BOOLEAN
      BY <1>1 DEF Written, TypeOK
  <2>2. \/ UNCHANGED enabled
        \/ \E e \in Written(u, enabled[u], TRUE) :
              enabled' = [enabled EXCEPT ![u] = e]
      BY DEF Configure
  <2>3. QED
      BY <1>1, <2>1, <2>2 DEF TypeOK
<1>10. Finish(p) /\ Others /\ UNCHANGED objectVars
    BY DEF Configure
<1>11. TypeOK' /\ IteratorOK'
    BY <1>8, <1>9, <1>10
       DEF Finish, Goto, Others, searchVars, osVars, objectVars, TypeOK,
           IteratorOK
<1>12. PlacesOK'
    BY <1>10
       DEF Finish, Goto, Others, searchVars, osVars, objectVars, TypeOK,
           PlacesOK, PlaceOK, Resting, Working, Iterating, Stopping
<1>13. QED
    BY <1>11, <1>12

LEMMA IsoIterateTInv ==
    ASSUME TInv, NEW p \in Procs, NEW u \in Units, IsoIterate(p, u),
           UNCHANGED faults
    PROVE  TInv'
<1> USE DEF TInv, IsoIterate, Others, searchVars, osVars, deviceVars
<1>1. CASE /\ Goto(p, "loopRecv")
           /\ unit' = [unit EXCEPT ![p] = u]
           /\ Others /\ UNCHANGED objectVars
  <2>1. TypeOK' /\ IteratorOK'
      BY <1>1 DEF Goto, objectVars, TypeOK, IteratorOK
  <2>2. PlacesOK'
      BY <1>1 DEF Goto, objectVars, TypeOK, PlacesOK, PlaceOK, Resting,
                  Working, Iterating, Stopping
  <2>3. QED
      BY <2>1, <2>2
<1>2. CASE Abort(p) /\ UNCHANGED searchVars
    BY <1>2, AbortTInv
<1>3. QED
    BY <1>1, <1>2

LEMMA doIterateTInv ==
    ASSUME TInv, NEW p \in Procs, doIterate(p), UNCHANGED faults
    PROVE  TInv'
<1> USE DEF TInv, doIterate, Goto, Finish, Others, searchVars, osVars,
            objectVars, deviceVars
<1>1. TypeOK' /\ IteratorOK'
    BY DEF TypeOK, IteratorOK
<1>2. PlacesOK'
    BY DEF TypeOK, PlacesOK, PlaceOK, Resting, Working, Iterating, Stopping
<1>3. QED
    BY <1>1, <1>2

LEMMA StopPhantomTInv ==
    ASSUME TInv, NEW p \in Procs, NEW u \in Units, StopPhantom(p, u),
           UNCHANGED faults
    PROVE  TInv'
<1> USE DEF TInv, StopPhantom, BeginStop, Goto, Others, searchVars, osVars,
            deviceVars
<1>1. TypeOK' /\ IteratorOK'
    BY DEF TypeOK, IteratorOK
<1>2. PlacesOK'
    BY DEF TypeOK, PlacesOK, PlaceOK, Resting, Working, Iterating, Stopping
<1>3. QED
    BY <1>1, <1>2
LEMMA CloseDeviceTypes ==
    ASSUME TInv, NEW p \in Procs, NEW u \in Units, CloseDevice(p, u)
    PROVE  /\ owner' \in [Units -> Procs \cup {Nobody}]
           /\ phantoms' \in [Procs -> SUBSET Units]
           /\ phantoms' = [phantoms EXCEPT ![p] = @ \ {u}]
           /\ channel' \in [Units -> [{"recv", "xmit"} -> Channels \cup {NONE}]]
           /\ listening' \in [Units -> Channels \cup {NONE}]
           /\ orphans' \in [Procs -> SUBSET Channels]
           /\ destroying' \in [Procs -> BOOLEAN]
<1> USE DEF TInv, CloseDevice, TypeOK
<1>1. Programs(p, u) \subseteq Channels
    BY DEF Programs
<1>2. NoObjects \in [{"recv", "xmit"} -> Channels \cup {NONE}]
    BY DEF NoObjects
<1>3. QED
    BY <1>1, <1>2 DEF Closed

LEMMA LeaveTInv ==
    ASSUME TInv, NEW p \in Procs, pc[p] \in Working, Leave(p),
           started' \in [Units -> BOOLEAN],
           claimed' \in [Procs -> SUBSET (0 .. NumBits - 1)],
           UNCHANGED <<searchVars, deviceVars, faults>>
    PROVE  TInv'
<1> USE DEF TInv, Leave, searchVars, deviceVars
<1>1. unit[p] \in Units
    BY Busy
<1>2. CASE CloseDevice(p, unit[p])
  <2>1. TypeOK' /\ IteratorOK'
      BY <1>1, <1>2, CloseDeviceTypes DEF Finish, Goto, TypeOK, IteratorOK
  <2>2. PlacesOK'
      BY <1>1, <1>2, CloseDeviceTypes
         DEF Finish, Goto, TypeOK, PlacesOK, PlaceOK, Resting, Working,
             Iterating, Stopping
  <2>3. QED
      BY <2>1, <2>2
<1>3. CASE UNCHANGED <<osVars, channel, listening, orphans, destroying>>
  <2>1. TypeOK' /\ IteratorOK'
      BY <1>3 DEF Finish, Goto, osVars, TypeOK, IteratorOK
  <2>2. PlacesOK'
      BY <1>3
         DEF Finish, Goto, osVars, TypeOK, PlacesOK, PlaceOK, Resting,
             Working, Iterating, Stopping
  <2>3. QED
      BY <2>1, <2>2
<1>4. QED
    BY <1>2, <1>3

LEMMA ThrowsTInv ==
    ASSUME TInv, NEW p \in Procs, pc[p] \in Working, Throws(p),
           UNCHANGED faults
    PROVE  TInv'
<1>1. CASE /\ Leave(p)
           /\ started' = [started EXCEPT ![unit[p]] = @ /\ pc[p] # "unwind"]
           /\ UNCHANGED claimed
  <2>1. started' \in [Units -> BOOLEAN]
    <3>1. (started[unit[p]] /\ pc[p] # "unwind") \in BOOLEAN
        OBVIOUS
    <3>2. QED
        BY <1>1, <3>1 DEF TInv, TypeOK
  <2>2. claimed' \in [Procs -> SUBSET (0 .. NumBits - 1)]
      BY <1>1 DEF TInv, TypeOK
  <2>3. QED
      BY <1>1, <2>1, <2>2, LeaveTInv DEF Throws
<1>2. CASE Abort(p)
    BY <1>2, AbortTInv DEF Throws
<1>3. QED
    BY <1>1, <1>2 DEF Throws

LEMMA StopTInv ==
    ASSUME TInv, NEW p \in Procs, Stop(p), UNCHANGED faults
    PROVE  TInv'
<1>1. pc[p] \in Working
    BY DEF Stop, Working, Stopping
<1>2. CASE Throws(p)
    BY <1>1, <1>2, ThrowsTInv
<1>3. CASE /\ Goto(p, IF pc[p] = "stopRecv" THEN "stopXmit" ELSE "delRecv")
           /\ Others /\ UNCHANGED <<unit, objectVars, deviceVars>>
  <2> USE DEF TInv, Goto, Others, searchVars, osVars, objectVars, deviceVars
  <2>1. TypeOK' /\ IteratorOK'
      BY <1>3 DEF TypeOK, IteratorOK
  <2>2. PlacesOK'
      BY <1>1, <1>3 DEF TypeOK, PlacesOK, PlaceOK, Resting, Working,
                        Iterating, Stopping
  <2>3. QED
      BY <2>1, <2>2
<1>4. QED
    BY <1>2, <1>3 DEF Stop

LEMMA DestroyTInv ==
    ASSUME TInv, NEW p \in Procs, Destroy(p), UNCHANGED faults
    PROVE  TInv'
<1> DEFINE u == unit[p]
           side == IF pc[p] = "delXmit" THEN "xmit" ELSE "recv"
           c == channel[u][side]
<1>1. pc[p] \in Working /\ u \in Units /\ u \in phantoms[p]
    BY Busy DEF Destroy, Working, Stopping
<1>2. CASE Throws(p)
    BY <1>1, <1>2, ThrowsTInv
<1>3. CASE ~Throws(p)
  <2> releaseChannel(p, c) /\ UNCHANGED <<searchVars, deviceVars>>
      BY <1>3 DEF Destroy
  <2>1. claimed' \in [Procs -> SUBSET (0 .. NumBits - 1)]
      BY DEF releaseChannel, TInv, TypeOK
  <2>2. CASE Leave(p) /\ UNCHANGED started
      BY <1>1, <2>1, <2>2, LeaveTInv DEF TInv, TypeOK
  <2>3. CASE /\ side = "xmit" /\ Finish(p)
             /\ channel' = [channel EXCEPT ![u].xmit = NONE]
             /\ UNCHANGED <<osVars, listening, orphans, destroying, started>>
    <3>1. channel' \in [Units -> [{"recv", "xmit"} -> Channels \cup {NONE}]]
        BY <1>1, <2>3 DEF TInv, TypeOK
    <3>2. TypeOK' /\ IteratorOK'
        BY <2>1, <2>3, <3>1
           DEF Finish, Goto, osVars, searchVars, deviceVars, TInv, TypeOK,
               IteratorOK
    <3>3. PlacesOK'
        BY <2>3 DEF Finish, Goto, osVars, TInv, TypeOK, PlacesOK, PlaceOK,
                    Resting, Working, Iterating, Stopping
    <3>4. QED
        BY <3>2, <3>3 DEF TInv
  <2>4. CASE /\ side = "recv"
             /\ channel' = [channel EXCEPT ![u].recv = NONE]
             /\ listening' = [listening EXCEPT ![u] = NONE]
             /\ orphans' = [orphans EXCEPT ![p] = @ \cup Programs(p, u)]
             /\ UNCHANGED <<osVars, destroying>>
             /\ \/ /\ pc[p] = "delRecv" /\ Goto(p, "delXmit")
                   /\ UNCHANGED <<unit, started>>
                \/ /\ pc[p] = "unwind" /\ Finish(p)
                   /\ started' = [started EXCEPT ![u] = FALSE]
    <3>1. channel' \in [Units -> [{"recv", "xmit"} -> Channels \cup {NONE}]]
        BY <1>1, <2>4 DEF TInv, TypeOK
    <3>2. Programs(p, u) \subseteq Channels
        BY <1>1 DEF Programs, TInv, TypeOK
    <3>3. TypeOK' /\ IteratorOK'
        BY <1>1, <2>1, <2>4, <3>1, <3>2
           DEF Finish, Goto, osVars, searchVars, deviceVars, TInv, TypeOK,
               IteratorOK
    <3>4. PlacesOK'
        BY <1>1, <2>4
           DEF Finish, Goto, osVars, TInv, TypeOK, PlacesOK, PlaceOK,
               Resting, Working, Iterating, Stopping
    <3>5. QED
        BY <3>3, <3>4 DEF TInv
  <2>5. CASE /\ side = "xmit" /\ Finish(p) /\ UNCHANGED started
             /\ destroying[p] /\ CloseDevice(p, u)
      BY <2>2, <2>5 DEF Leave
  <2>6. QED
    <3>1. CASE pc[p] = "delXmit"
        BY <1>3, <2>3, <2>5, <3>1 DEF Destroy
    <3>2. CASE pc[p] # "delXmit"
        BY <1>3, <2>4, <3>2 DEF Destroy
    <3>3. QED
        BY <3>1, <3>2
<1>4. QED
    BY <1>2, <1>3 DEF Destroy

LEMMA DeletePhantomTInv ==
    ASSUME TInv, NEW p \in Procs, NEW u \in Units, DeletePhantom(p, u),
           UNCHANGED faults
    PROVE  TInv'
<1> USE DEF DeletePhantom, searchVars, deviceVars
<1>1. CASE /\ BeginStop(p, u)
           /\ destroying' = [destroying EXCEPT ![p] = TRUE]
           /\ UNCHANGED <<osVars, channel, listening, orphans>>
  <2> USE DEF TInv, BeginStop, Goto, osVars
  <2>1. TypeOK' /\ IteratorOK'
      BY <1>1 DEF TypeOK, IteratorOK
  <2>2. PlacesOK'
      BY <1>1 DEF TypeOK, PlacesOK, PlaceOK, Resting, Working, Iterating,
                  Stopping
  <2>3. QED
      BY <2>1, <2>2
<1>2. CASE CloseDevice(p, u) /\ UNCHANGED <<pc, unit, started>>
  <2>1. TypeOK' /\ IteratorOK'
      BY <1>2, CloseDeviceTypes DEF TInv, TypeOK, IteratorOK
  <2> USE DEF TInv
  <2>2. phantoms' = [phantoms EXCEPT ![p] = @ \ {u}]
      BY <1>2, CloseDeviceTypes
  <2>3. PlaceOK(p)'
      BY <1>2, <2>2 DEF PlacesOK, PlaceOK, Resting, Working, Iterating,
                        Stopping
  <2>4. \A q \in Procs \ {p} : /\ pc'[q] = pc[q] /\ unit'[q] = unit[q]
                              /\ phantoms'[q] = phantoms[q]
      BY <1>2, <2>2 DEF TypeOK
  <2>5. PlacesOK'
      BY <2>3, <2>4, PlacesElsewhere
  <2>6. QED
      BY <2>1, <2>5
<1>3. QED
    BY <1>1, <1>2
-----------------------------------------------------------------------------
(* Who has a unit open, and how far its owner has come with it.             *)
LEMMA InitUInv == Init => UInv
BY Constants
   DEF Init, UInv, OwnersOK, OpenedFor, OthersUntouched, Untouched, StepsOK,
       StepOK, StartedOK, Iterating, Stopping

LEMMA OneOwner ==
    ASSUME TInv, UInv, NEW p \in Procs, NEW u \in phantoms[p]
    PROVE  /\ u \in Units /\ owner[u] = p
           /\ \A q \in Procs \ {p} : u \notin phantoms[q]
           /\ \A q \in Procs \ {p} : unit[q] # u
<1>1. u \in Units /\ owner[u] = p
    BY DEF TInv, TypeOK, UInv, OwnersOK, OpenedFor
<1>2. ASSUME NEW q \in Procs \ {p}
      PROVE  u \notin phantoms[q] /\ unit[q] # u
  <2>1. u \notin phantoms[q] /\ ~(pc[q] = "probe" /\ unit[q] = u)
      BY <1>1, <1>2 DEF UInv, OwnersOK, OpenedFor
  <2>2. pc[q] \in Resting \cup {"probe"} \cup Working
      BY DEF TInv, TypeOK, Resting, Working, Iterating, Stopping
  <2>3. NoUnit # u
      BY <1>1, Constants
  <2>4. QED
      BY <2>1, <2>2, <2>3 DEF TInv, PlacesOK, PlaceOK
<1>3. QED
    BY <1>1, <1>2

(* A step that opens and closes nothing, and touches one Phantom of its     *)
(* process at most.                                                         *)
PhantomStep(p, u) ==
    /\ \A q \in Procs \ {p} : pc'[q] = pc[q] /\ unit'[q] = unit[q]
    /\ UNCHANGED <<owner, phantoms>>
    /\ \A v \in Units \ {u} : /\ started'[v] = started[v]
                              /\ channel'[v] = channel[v]
    /\ pc[p] # "probe" /\ pc'[p] # "probe"

LEMMA PhantomStepUInv ==
    ASSUME TInv, UInv, NEW p \in Procs, NEW u \in phantoms[p],
           PhantomStep(p, u), unit[p] \in {u, NoUnit},
           StepOK(p)',
           unit'[p] = u \/ (started'[u] => HasObjects(u)')
    PROVE  UInv'
<1> USE DEF PhantomStep
<1>1. /\ u \in Units /\ owner[u] = p
      /\ \A q \in Procs \ {p} : u \notin phantoms[q] /\ unit[q] # u
    BY OneOwner
<1>2. OwnersOK'
    BY <1>1 DEF UInv, OwnersOK, OpenedFor
<1>3. OthersUntouched'
    BY <1>1 DEF UInv, OthersUntouched, Untouched
<1>4. StepsOK'
  <2>1. SUFFICES ASSUME NEW q \in Procs \ {p} PROVE StepOK(q)'
      BY DEF StepsOK
  <2>2. pc[q] \in Iterating \cup Stopping \cup
                   {"ctorXmit", "unwind", "listen", "configure"}
        => unit[q] \in Units \ {u}
      BY <1>1 DEF TInv, TypeOK, PlacesOK, PlaceOK, Working
  <2>3. StepOK(q)
      BY DEF UInv, StepsOK
  <2>4. QED
      BY <2>2, <2>3 DEF StepOK, HasObjects
<1>5. StartedOK'
  <2>1. SUFFICES ASSUME NEW q \in Procs, NEW v \in Units,
                        v \in phantoms[q], unit'[q] # v, started'[v]
                 PROVE  HasObjects(v)'
      BY DEF StartedOK
  <2>2. CASE v = u
      BY <1>1, <2>1, <2>2
  <2>3. CASE v # u
    <3>1. v # NoUnit
        BY Constants
    <3>2. unit[q] # v
        BY <2>1, <2>3, <3>1
    <3>3. HasObjects(v)
        BY <2>1, <2>3, <3>2 DEF UInv, StartedOK
    <3>4. QED
        BY <2>3, <3>3 DEF HasObjects
  <2>4. QED
      BY <2>2, <2>3
<1>6. QED
    BY <1>2, <1>3, <1>4, <1>5 DEF UInv

(* A step outside of any Phantom.                                           *)
LEMMA RestingStepUInv ==
    ASSUME TInv, UInv, NEW p \in Procs, pc[p] \in Resting, pc'[p] \in Resting,
           \A q \in Procs \ {p} : pc'[q] = pc[q],
           UNCHANGED <<unit, owner, phantoms, started, channel>>
    PROVE  UInv'
<1>1. OwnersOK'
    BY DEF UInv, OwnersOK, OpenedFor, Resting
<1>2. OthersUntouched'
    BY DEF UInv, OthersUntouched, Untouched
<1>3. StepsOK'
    BY DEF UInv, StepsOK, StepOK, HasObjects, Resting, Iterating, Stopping
<1>4. StartedOK'
    BY DEF UInv, StartedOK, HasObjects
<1>5. QED
    BY <1>1, <1>2, <1>3, <1>4 DEF UInv

(* The process closes the unit u, a Phantom that is not started, and rests. *)
LEMMA ClosingUInv ==
    ASSUME TInv, UInv, NEW p \in Procs, NEW u \in phantoms[p],
           CloseDevice(p, u), unit[p] \in {u, NoUnit},
           pc[p] # "probe", pc'[p] = "idle", unit'[p] = NoUnit,
           \A q \in Procs \ {p} : pc'[q] = pc[q] /\ unit'[q] = unit[q],
           ~started'[u],
           \A v \in Units \ {u} : started'[v] = started[v]
    PROVE  UInv'
<1>1. /\ u \in Units /\ owner[u] = p
      /\ \A q \in Procs \ {p} : u \notin phantoms[q] /\ unit[q] # u
    BY OneOwner
<1>2. /\ owner' = [owner EXCEPT ![u] = Nobody]
      /\ phantoms' = [phantoms EXCEPT ![p] = @ \ {u}]
      /\ channel' = [channel EXCEPT ![u] = NoObjects]
    BY DEF CloseDevice, Closed
<1>3. OwnersOK'
    BY <1>1, <1>2, Constants DEF TInv, TypeOK, UInv, OwnersOK, OpenedFor
<1>4. OthersUntouched'
    BY <1>1, <1>2 DEF TInv, TypeOK, UInv, OthersUntouched, Untouched
<1>5. StepsOK'
  <2>1. StepOK(p)'
      BY DEF StepOK, Iterating, Stopping
  <2>2. ASSUME NEW q \in Procs \ {p} PROVE StepOK(q)'
    <3>1. pc[q] \in Iterating \cup Stopping \cup
                   {"ctorXmit", "unwind", "listen", "configure"}
          => unit[q] \in Units \ {u}
        BY <1>1 DEF TInv, TypeOK, PlacesOK, PlaceOK, Working
    <3>2. StepOK(q) /\ phantoms'[q] = phantoms[q]
        BY <1>2 DEF UInv, StepsOK, TInv, TypeOK
    <3>3. \A v \in Units \ {u} : channel'[v] = channel[v]
        BY <1>2 DEF TInv, TypeOK
    <3>4. QED
        BY <3>1, <3>2, <3>3 DEF StepOK, HasObjects
  <2>3. QED
      BY <2>1, <2>2 DEF StepsOK
<1>6. StartedOK'
  <2>1. SUFFICES ASSUME NEW q \in Procs, NEW v \in Units,
                        v \in phantoms'[q], unit'[q] # v, started'[v]
                 PROVE  HasObjects(v)'
      BY DEF StartedOK
  <2>2. v # u /\ v \in phantoms[q] /\ v # NoUnit
      BY <1>1, <1>2, <2>1, Constants DEF TInv, TypeOK
  <2>3. HasObjects(v)
      BY <2>1, <2>2 DEF UInv, StartedOK
  <2>4. channel'[v] = channel[v]
      BY <1>2, <2>2 DEF TInv, TypeOK
  <2>5. QED
      BY <2>3, <2>4 DEF HasObjects
<1>7. QED
    BY <1>3, <1>4, <1>5, <1>6 DEF UInv

LEMMA AbortUInv ==
    ASSUME TInv, UInv, NEW p \in Procs, Abort(p)
    PROVE  UInv'
<1> USE DEF Abort, Goto
<1>1. OwnersOK'
  <2>1. SUFFICES ASSUME NEW v \in Units, NEW q \in Procs
                 PROVE  owner'[v] = q <=> OpenedFor(v, q)'
      BY DEF OwnersOK
  <2>2. owner[v] = q <=> OpenedFor(v, q)
      BY DEF UInv, OwnersOK
  <2>3. CASE q = p
    <3>1. owner'[v] # q
        BY <2>3, Constants
    <3>2. ~OpenedFor(v, q)'
        BY <2>3 DEF TInv, TypeOK, OpenedFor
    <3>3. QED
        BY <3>1, <3>2
  <2>4. CASE q # p
    <3>1. owner'[v] = q <=> owner[v] = q
        BY <2>4, Constants
    <3>2. OpenedFor(v, q)' <=> OpenedFor(v, q)
        BY <2>4 DEF TInv, TypeOK, OpenedFor
    <3>3. QED
        BY <2>2, <3>1, <3>2
  <2>5. QED
      BY <2>3, <2>4
<1>2. OthersUntouched'
    BY DEF TInv, TypeOK, UInv, OthersUntouched, Untouched, OwnersOK, OpenedFor
<1>3. StepsOK'
  <2>1. StepOK(p)'
      BY DEF StepOK, Iterating, Stopping, TInv, TypeOK
  <2>2. ASSUME NEW q \in Procs \ {p} PROVE StepOK(q)'
    <3>1. pc[q] \in Iterating \cup Stopping \cup
                   {"ctorXmit", "unwind", "listen", "configure"}
          => unit[q] \in Units /\ owner[unit[q]] = q
        BY OneOwner DEF TInv, PlacesOK, PlaceOK, Working
    <3>2. /\ StepOK(q) /\ phantoms'[q] = phantoms[q]
          /\ pc'[q] = pc[q] /\ unit'[q] = unit[q]
        BY DEF UInv, StepsOK, TInv, TypeOK
    <3>3. \A v \in Units : owner[v] = q => /\ channel'[v] = channel[v]
                                          /\ started'[v] = started[v]
        BY DEF TInv, TypeOK
    <3>4. QED
        BY <3>1, <3>2, <3>3 DEF StepOK, HasObjects
  <2>3. QED
      BY <2>1, <2>2 DEF StepsOK
<1>4. StartedOK'
  <2>1. SUFFICES ASSUME NEW q \in Procs, NEW v \in Units,
                        v \in phantoms'[q], unit'[q] # v, started'[v]
                 PROVE  HasObjects(v)'
      BY DEF StartedOK
  <2>2. q # p /\ v \in phantoms[q] /\ unit[q] # v
      BY <2>1 DEF TInv, TypeOK
  <2>3. owner[v] = q
      BY <2>2 DEF UInv, OwnersOK, OpenedFor
  <2>4. channel'[v] = channel[v] /\ started[v]
      BY <2>1, <2>2, <2>3 DEF TInv, TypeOK
  <2>5. QED
      BY <2>2, <2>4 DEF UInv, StartedOK, HasObjects
<1>5. QED
    BY <1>1, <1>2, <1>3, <1>4 DEF UInv
LEMMA SearchUInv ==
    ASSUME TInv, UInv, NEW p \in Procs, Search(p)
    PROVE  UInv'
<1> USE DEF SearchOnly, osVars, objectVars
<1>1. CASE NextDevice(p)
  <2>1. pc[p] = "next" /\ unit[p] = NoUnit
      BY <1>1 DEF NextDevice, TInv, PlacesOK, PlaceOK, Resting
  <2>2. pc'[p] \in Resting /\ unit' = unit
      BY <1>1, <2>1 DEF NextDevice, Finish, Goto, TInv, TypeOK, Resting
  <2>3. \A q \in Procs \ {p} : pc'[q] = pc[q]
      BY <1>1 DEF NextDevice, Finish, Goto, TInv, TypeOK
  <2>4. UNCHANGED <<owner, phantoms, started, channel>>
      BY <1>1 DEF NextDevice
  <2>5. QED
      BY <2>1, <2>2, <2>3, <2>4, RestingStepUInv DEF Resting
<1>2. CASE NextUnit(p)
  <2>1. UNCHANGED <<phantoms, started, channel>> /\ pc[p] = "next"
      BY <1>2 DEF NextUnit
  <2>2. CASE UNCHANGED <<pc, unit, owner>>
      BY <2>1, <2>2, RestingStepUInv DEF Resting
  <2>3. CASE \E u \in Units : /\ CanOpen(u) /\ Opened(p, u)
                              /\ unit' = [unit EXCEPT ![p] = u]
                              /\ Goto(p, "probe")
    <3>1. PICK u \in Units : /\ CanOpen(u) /\ Opened(p, u)
                             /\ unit' = [unit EXCEPT ![p] = u]
                             /\ Goto(p, "probe")
        BY <2>3
    <3> USE DEF Opened, CanOpen, Goto
    <3>2. \A q \in Procs : ~OpenedFor(u, q)
        BY <3>1, Constants DEF UInv, OwnersOK
    <3>3. OwnersOK'
        BY <2>1, <3>1, <3>2, Constants
           DEF TInv, TypeOK, UInv, OwnersOK, OpenedFor
    <3>4. OthersUntouched'
        BY <2>1 DEF UInv, OthersUntouched, Untouched
    <3>5. StepsOK'
        BY <2>1, <3>1, <3>2
           DEF TInv, TypeOK, UInv, StepsOK, StepOK, HasObjects, OpenedFor,
               Iterating, Stopping
    <3>6. unit[p] = NoUnit
        BY <2>1 DEF TInv, PlacesOK, PlaceOK, Resting
    <3>7. \A q \in Procs, v \in Units : unit'[q] # v => unit[q] # v
        BY <3>1, <3>6, Constants DEF TInv, TypeOK
    <3>8. StartedOK'
        BY <2>1, <3>7 DEF UInv, StartedOK, HasObjects
    <3>9. QED
        BY <3>3, <3>4, <3>5, <3>8 DEF UInv
  <2>4. unitIterator[p] # <<>> => Head(unitIterator[p]) \in Units
      BY <1>2 DEF NextUnit, TInv, IteratorOK
  <2>5. QED
      BY <1>2, <2>2, <2>3, <2>4 DEF NextUnit
<1>3. CASE ProbeUnit(p)
  <2> DEFINE u == unit[p]
  <2> USE DEF ProbeUnit
  <2>1. /\ pc[p] = "probe" /\ u \in Units /\ owner[u] = p
        /\ UNCHANGED <<started, channel>>
        /\ \A q \in Procs : u \notin phantoms[q]
    <3>1. pc[p] = "probe" /\ u \in Units /\ owner[u] = p
        BY <1>3 DEF TInv, PlacesOK, PlaceOK, UInv, OwnersOK, OpenedFor
    <3>2. u \notin phantoms[p]
        BY <3>1 DEF UInv, StepsOK, StepOK
    <3>3. QED
        BY <1>3, <3>1, <3>2 DEF UInv, OwnersOK, OpenedFor
  <2>2. Untouched(u)
      BY <2>1 DEF UInv, OthersUntouched
  <2>3. CASE /\ phantoms' = [phantoms EXCEPT ![p] = @ \cup {u}]
             /\ Finish(p)
             /\ UNCHANGED owner
    <3> USE DEF Finish, Goto, TInv, TypeOK
    <3>1. OwnersOK'
        BY <2>1, <2>3, Constants DEF UInv, OwnersOK, OpenedFor
    <3>2. OthersUntouched'
        BY <2>1, <2>3 DEF UInv, OthersUntouched, Untouched
    <3>3. StepsOK'
        BY <2>1, <2>3 DEF UInv, StepsOK, StepOK, HasObjects, Iterating,
                          Stopping
    <3>4. \A q \in Procs, v \in Units \ {u} :
              v \in phantoms'[q] /\ unit'[q] # v
              => v \in phantoms[q] /\ unit[q] # v
        BY <2>3
    <3>5. \A v \in Units : started'[v] => v # u
        BY <2>1, <2>2 DEF Untouched
    <3>6. StartedOK'
      <4>1. SUFFICES ASSUME NEW q \in Procs, NEW v \in Units,
                            v \in phantoms'[q], unit'[q] # v, started'[v]
                     PROVE  HasObjects(v)'
          BY DEF StartedOK
      <4>2. v \in phantoms[q] /\ unit[q] # v /\ started[v]
          BY <2>1, <3>4, <3>5, <4>1
      <4>3. HasObjects(v)
          BY <4>2 DEF UInv, StartedOK
      <4>4. QED
          BY <2>1, <4>3 DEF HasObjects
    <3>7. QED
        BY <3>1, <3>2, <3>3, <3>6 DEF UInv
  <2>4. CASE /\ Rejected(u)
             /\ Goto(p, "next")
             /\ unit' = [unit EXCEPT ![p] = NoUnit]
             /\ UNCHANGED phantoms
    <3> USE DEF Rejected, Closed, Goto, TInv, TypeOK
    <3>1. OwnersOK'
        BY <2>1, <2>4, Constants DEF UInv, OwnersOK, OpenedFor
    <3>2. OthersUntouched'
        BY <2>1, <2>4 DEF UInv, OthersUntouched, Untouched
    <3>3. StepsOK'
        BY <2>1, <2>4 DEF UInv, StepsOK, StepOK, HasObjects, Iterating,
                          Stopping
    <3>4. \A q \in Procs, v \in Units \ {u} :
              v \in phantoms[q] /\ unit'[q] # v => unit[q] # v
        BY <2>4
    <3>5. StartedOK'
        BY <2>1, <2>4, <3>4 DEF UInv, StartedOK, HasObjects
    <3>6. QED
        BY <3>1, <3>2, <3>3, <3>5 DEF UInv
  <2>5. QED
      BY <1>3, <2>3, <2>4
<1>4. QED
    BY <1>1, <1>2, <1>3 DEF Search

LEMMA CallUInv ==
    ASSUME TInv, UInv, NEW p \in Procs, Call(p)
    PROVE  UInv'
<1>1. CASE FindPhantom(p) \/ NewProcess(p)
  <2>1. /\ pc[p] \in Resting /\ pc'[p] \in Resting
        /\ \A q \in Procs \ {p} : pc'[q] = pc[q]
        /\ UNCHANGED <<unit, owner, phantoms, started, channel>>
      BY <1>1 DEF FindPhantom, NewProcess, Goto, SearchOnly, Others, osVars,
                  objectVars, Resting, TInv, TypeOK
  <2>2. QED
      BY <2>1, RestingStepUInv
<1>2. ASSUME NEW u \in Units, u \in phantoms[p], pc[p] = "idle",
             UNCHANGED <<owner, phantoms, channel>>,
             \/ /\ ~started[u]
                /\ started' = [started EXCEPT ![u] = TRUE]
                /\ Goto(p, "ctorRecv")
             \/ Goto(p, "loopRecv") /\ UNCHANGED started
             \/ /\ started' = [started EXCEPT ![u] = FALSE]
                /\ Goto(p, "stopRecv"),
             unit' = [unit EXCEPT ![p] = u]
      PROVE  UInv'
  <2>1. unit[p] = NoUnit
      BY <1>2 DEF TInv, PlacesOK, PlaceOK, Resting
  <2>2. PhantomStep(p, u)
      BY <1>2 DEF PhantomStep, Goto, TInv, TypeOK
  <2>3. started[u] => HasObjects(u)
      BY <1>2, <2>1, Constants DEF UInv, StartedOK
  <2>4. StepOK(p)' /\ unit'[p] = u
      BY <1>2, <2>3 DEF Goto, TInv, TypeOK, StepOK, HasObjects, Iterating, Stopping
  <2>5. QED
      BY <1>2, <2>1, <2>2, <2>4, PhantomStepUInv
<1>3. ASSUME NEW u \in Units, StartPhantom(p, u) PROVE UInv'
  <2> USE DEF StartPhantom, Others, osVars
  <2>1. CASE started[u]
    <3>1. /\ pc[p] \in Resting /\ UNCHANGED pc
          /\ UNCHANGED <<unit, owner, phantoms, started, channel>>
        BY <1>3, <2>1 DEF Resting
    <3>2. QED
        BY <3>1, RestingStepUInv
  <2>2. CASE ~started[u]
      BY <1>2, <1>3, <2>2
  <2>3. QED
      BY <2>1, <2>2
<1>4. ASSUME NEW u \in Units, IsoIterate(p, u) PROVE UInv'
    BY <1>2, <1>4, AbortUInv DEF IsoIterate, Others, osVars, objectVars
<1>5. ASSUME NEW u \in Units, StopPhantom(p, u) PROVE UInv'
    BY <1>2, <1>5 DEF StopPhantom, BeginStop, Others, osVars
<1>6. ASSUME NEW u \in Units, DeletePhantom(p, u) PROVE UInv'
  <2> USE DEF DeletePhantom
  <2>1. CASE started[u] /\ BeginStop(p, u) /\ UNCHANGED <<osVars, channel>>
      BY <1>2, <1>6, <2>1 DEF BeginStop, osVars
  <2>2. CASE CloseDevice(p, u) /\ ~started[u] /\ UNCHANGED <<pc, unit, started>>
    <3>1. unit[p] = NoUnit /\ pc[p] = "idle" /\ u \in phantoms[p]
        BY <1>6 DEF TInv, PlacesOK, PlaceOK, Resting
    <3>2. QED
        BY <2>2, <3>1, ClosingUInv
  <2>3. QED
      BY <1>6, <2>1, <2>2
<1>7. QED
    BY <1>1, <1>3, <1>4, <1>5, <1>6 DEF Call

LEMMA StartUInv ==
    ASSUME TInv, UInv, NEW p \in Procs, Start(p)
    PROVE  UInv'
<1> PICK u \in Units : u = unit[p]
    BY Busy DEF Start, Construct, Listen, Configure, Working
<1>1. pc[p] \in Working /\ u = unit[p] /\ u \in phantoms[p]
    BY Busy DEF Start, Construct, Listen, Configure, Working
<1>2. StepOK(p)
    BY DEF UInv, StepsOK
<1>3. CASE Construct(p)
  <2> USE DEF Construct, Others, osVars
  <2>1. PhantomStep(p, u)
      BY <1>1, <1>3 DEF PhantomStep, Goto, Finish, TInv, TypeOK
  <2>2. CASE pc[p] = "ctorRecv"
    <3>1. StepOK(p)'
        BY <1>1, <1>3, <2>2, Constants
           DEF Goto, Finish, TInv, TypeOK, StepOK, HasObjects, Iterating,
               Stopping
    <3>2. unit'[p] = u \/ ~started'[u]
        BY <1>1, <1>3, <2>2 DEF Goto, Finish, TInv, TypeOK
    <3>3. QED
        BY <1>1, <2>1, <3>1, <3>2, PhantomStepUInv
  <2>3. CASE pc[p] = "ctorXmit"
    <3>1. StepOK(p)'
        BY <1>1, <1>2, <1>3, <2>3, Constants
           DEF Goto, Finish, TInv, TypeOK, StepOK, HasObjects, Iterating,
               Stopping
    <3>2. unit'[p] = u
        BY <1>1, <1>3, <2>3 DEF Goto, Finish, TInv, TypeOK
    <3>3. QED
        BY <1>1, <2>1, <3>1, <3>2, PhantomStepUInv
  <2>4. QED
      BY <1>3, <2>2, <2>3
<1>4. CASE Listen(p)
  <2>1. CASE Goto(p, "configure") /\ Others /\ UNCHANGED <<unit, started, channel>>
    <3>1. PhantomStep(p, u)
        BY <1>4, <2>1 DEF Listen, PhantomStep, Goto, Others, osVars, TInv,
                          TypeOK
    <3>2. StepOK(p)'
        BY <1>2, <1>4, <2>1
           DEF Listen, Goto, TInv, TypeOK, StepOK, HasObjects, Iterating,
               Stopping
    <3>3. QED
        BY <1>1, <2>1, <3>1, <3>2, PhantomStepUInv
  <2>2. QED
      BY <1>4, <2>1, AbortUInv DEF Listen
<1>5. CASE Configure(p)
  <2>1. pc[p] = "configure" /\ Finish(p) /\ Others /\ UNCHANGED objectVars
      BY <1>5 DEF Configure
  <2>2. PhantomStep(p, u)
      BY <2>1 DEF PhantomStep, Finish, Goto, Others, osVars, objectVars,
                  TInv, TypeOK
  <2>3. StepOK(p)'
      BY <2>1 DEF Finish, Goto, TInv, TypeOK, StepOK, Iterating, Stopping
  <2>4. HasObjects(u)'
      BY <1>2, <2>1 DEF StepOK, HasObjects, objectVars
  <2>5. QED
      BY <1>1, <2>2, <2>3, <2>4, PhantomStepUInv
<1>6. QED
    BY <1>3, <1>4, <1>5 DEF Start

LEMMA doIterateUInv ==
    ASSUME TInv, UInv, NEW p \in Procs, doIterate(p)
    PROVE  UInv'
<1> PICK u \in Units : u = unit[p]
    BY Busy DEF doIterate, Working, Iterating
<1> USE DEF doIterate, Others, osVars, objectVars
<1>1. u = unit[p] /\ u \in phantoms[p] /\ (started[u] => HasObjects(u))
    BY Busy DEF Working, Iterating, UInv, StepsOK, StepOK
<1>2. PhantomStep(p, u)
    BY DEF PhantomStep, Finish, Goto, TInv, TypeOK
<1>3. StepOK(p)' /\ (started'[u] => HasObjects(u)')
    BY <1>1 DEF Finish, Goto, TInv, TypeOK, StepOK, HasObjects, Iterating,
                Stopping
<1>4. QED
    BY <1>1, <1>2, <1>3, PhantomStepUInv

(* A step of a stop that ends or throws.                                    *)
LEMMA LeaveUInv ==
    ASSUME TInv, UInv, NEW p \in Procs, pc[p] \in Working, Leave(p),
           ~started'[unit[p]],
           \A v \in Units \ {unit[p]} : started'[v] = started[v]
    PROVE  UInv'
<1> DEFINE u == unit[p]
<1>1. u \in Units /\ u \in phantoms[p]
    BY Busy
<1>2. /\ pc[p] # "probe" /\ pc'[p] = "idle" /\ unit'[p] = NoUnit
      /\ \A q \in Procs \ {p} : pc'[q] = pc[q] /\ unit'[q] = unit[q]
    BY DEF Leave, Finish, Goto, TInv, TypeOK, Working, Iterating, Stopping
<1>3. CASE CloseDevice(p, u)
    BY <1>1, <1>2, <1>3, ClosingUInv
<1>4. CASE UNCHANGED <<osVars, channel>>
  <2>1. PhantomStep(p, u)
      BY <1>2, <1>4 DEF PhantomStep, osVars
  <2>2. StepOK(p)'
      BY <1>2 DEF StepOK, Iterating, Stopping
  <2>3. QED
      BY <1>1, <2>1, <2>2, PhantomStepUInv
<1>5. QED
    BY <1>3, <1>4 DEF Leave

LEMMA ThrowsUInv ==
    ASSUME TInv, UInv, NEW p \in Procs,
           pc[p] \in Stopping \cup {"unwind"}, Throws(p)
    PROVE  UInv'
<1>1. pc[p] \in Working /\ unit[p] \in Units
    BY Busy DEF Working, Stopping
<1>2. CASE Leave(p) /\ started' = [started EXCEPT ![unit[p]] = @ /\ pc[p] # "unwind"]
  <2>1. ~started[unit[p]] \/ pc[p] = "unwind"
      BY DEF UInv, StepsOK, StepOK
  <2>2. /\ ~started'[unit[p]]
        /\ \A v \in Units \ {unit[p]} : started'[v] = started[v]
      BY <1>1, <1>2, <2>1 DEF TInv, TypeOK
  <2>3. QED
      BY <1>1, <1>2, <2>2, LeaveUInv
<1>3. QED
    BY <1>2, AbortUInv DEF Throws

LEMMA StopUInv ==
    ASSUME TInv, UInv, NEW p \in Procs, Stop(p)
    PROVE  UInv'
<1> DEFINE u == unit[p]
<1>1. pc[p] \in Stopping /\ u \in Units /\ u \in phantoms[p] /\ ~started[u]
    BY Busy DEF Stop, Working, Stopping, UInv, StepsOK, StepOK
<1>2. CASE /\ Goto(p, IF pc[p] = "stopRecv" THEN "stopXmit" ELSE "delRecv")
           /\ Others /\ UNCHANGED <<unit, objectVars>>
  <2>1. PhantomStep(p, u)
      BY <1>1, <1>2 DEF PhantomStep, Goto, Others, osVars, objectVars,
                        Stopping, TInv, TypeOK
  <2>2. StepOK(p)'
      BY <1>1, <1>2 DEF Goto, objectVars, StepOK, Iterating, Stopping, TInv,
                        TypeOK
  <2>3. QED
      BY <1>1, <1>2, <2>1, <2>2, PhantomStepUInv
<1>3. QED
    BY <1>1, <1>2, ThrowsUInv DEF Stop

LEMMA DestroyUInv ==
    ASSUME TInv, UInv, NEW p \in Procs, Destroy(p)
    PROVE  UInv'
<1> DEFINE u == unit[p]
<1>1. /\ pc[p] \in Working /\ pc[p] \in Stopping \cup {"unwind"}
      /\ u \in Units /\ u \in phantoms[p]
    BY Busy DEF Destroy, Working, Stopping
<1>2. StepOK(p)
    BY DEF UInv, StepsOK
<1>3. CASE Throws(p)
    BY <1>1, <1>3, ThrowsUInv
<1>4. CASE /\ pc[p] = "delXmit" /\ UNCHANGED started
           /\ Finish(p) /\ destroying[p] /\ CloseDevice(p, u)
    BY <1>1, <1>2, <1>4, LeaveUInv DEF Leave, StepOK, Stopping
<1>5. CASE /\ pc[p] = "delXmit" /\ UNCHANGED started
           /\ Finish(p)
           /\ channel' = [channel EXCEPT ![u].xmit = NONE]
           /\ UNCHANGED osVars
  <2>1. PhantomStep(p, u)
      BY <1>1, <1>5 DEF PhantomStep, Finish, Goto, osVars, TInv, TypeOK
  <2>2. StepOK(p)'
      BY <1>5 DEF Finish, Goto, StepOK, Iterating, Stopping, TInv, TypeOK
  <2>3. ~started'[u]
      BY <1>2, <1>5 DEF StepOK, Stopping
  <2>4. QED
      BY <1>1, <2>1, <2>2, <2>3, PhantomStepUInv
<1>6. CASE /\ pc[p] = "delRecv" /\ Goto(p, "delXmit")
           /\ UNCHANGED <<unit, started, osVars>>
           /\ channel' = [channel EXCEPT ![u].recv = NONE]
  <2>1. PhantomStep(p, u)
      BY <1>1, <1>6 DEF PhantomStep, Goto, osVars, TInv, TypeOK
  <2>2. StepOK(p)'
      BY <1>2, <1>6 DEF Goto, StepOK, Iterating, Stopping, TInv, TypeOK
  <2>3. QED
      BY <1>1, <1>6, <2>1, <2>2, PhantomStepUInv
<1>7. CASE /\ pc[p] = "unwind" /\ Finish(p)
           /\ started' = [started EXCEPT ![u] = FALSE]
           /\ channel' = [channel EXCEPT ![u].recv = NONE]
           /\ UNCHANGED osVars
  <2>1. PhantomStep(p, u)
      BY <1>1, <1>7 DEF PhantomStep, Finish, Goto, osVars, TInv, TypeOK
  <2>2. StepOK(p)' /\ ~started'[u]
      BY <1>1, <1>7 DEF Finish, Goto, StepOK, Iterating, Stopping, TInv,
                        TypeOK
  <2>3. QED
      BY <1>1, <2>1, <2>2, PhantomStepUInv
<1>8. QED
    BY <1>3, <1>4, <1>5, <1>6, <1>7 DEF Destroy
-----------------------------------------------------------------------------
(* The channels of the channel objects.                                     *)
LEMMA InitCInv == Init => CInv
BY Constants DEF Init, CInv, ClaimsOK, DistinctOK, NoObjects, Sides

LEMMA NoChannel == \A s \in Sides : NoObjects[s] = NONE
BY DEF NoObjects, Sides

(* A step that constructs no channel object, and gives up no claim of a     *)
(* process that has a unit open after it.                                   *)
Kept(u) == channel'[u] = channel[u] /\ owner'[u] = owner[u]
LEMMA NoNewObjectCInv ==
    ASSUME CInv,
           \A u \in Units : channel'[u] = NoObjects \/ Kept(u),
           \A p \in Procs : \/ claimed'[p] = claimed[p]
                           \/ \A u \in Units : owner'[u] # p
    PROVE  CInv'
<1>1. ClaimsOK'
    BY NoChannel DEF CInv, ClaimsOK, Kept
<1>2. DistinctOK'
    BY NoChannel DEF CInv, DistinctOK, Kept
<1>3. QED
    BY <1>1, <1>2 DEF CInv

LEMMA NobodysUnit ==
    ASSUME TInv, UInv, NEW u \in Units, owner[u] = Nobody
    PROVE  channel[u] = NoObjects
<1>1. \A p \in Procs : u \notin phantoms[p]
    BY Constants DEF UInv, OwnersOK, OpenedFor
<1>2. QED
    BY <1>1 DEF UInv, OthersUntouched, Untouched

LEMMA CloseDeviceObjects ==
    ASSUME TInv, NEW p \in Procs, NEW u \in Units, CloseDevice(p, u),
           NEW v \in Units
    PROVE  channel'[v] = NoObjects \/ Kept(v)
BY DEF CloseDevice, Closed, Kept, TInv, TypeOK

LEMMA AbortCInv ==
    ASSUME TInv, CInv, NEW p \in Procs, Abort(p)
    PROVE  CInv'
<1>1. \A u \in Units : channel'[u] = NoObjects \/ Kept(u)
    BY DEF Abort, Kept
<1>2. \A q \in Procs \ {p} : claimed'[q] = claimed[q]
    BY DEF Abort, TInv, TypeOK
<1>3. \A u \in Units : owner'[u] # p
    BY Constants DEF Abort
<1>4. QED
    BY <1>1, <1>2, <1>3, NoNewObjectCInv

LEMMA LeaveCInv ==
    ASSUME TInv, CInv, NEW p \in Procs, pc[p] \in Working, Leave(p),
           UNCHANGED claimed
    PROVE  CInv'
<1>1. unit[p] \in Units
    BY Busy
<1>2. \A u \in Units : channel'[u] = NoObjects \/ Kept(u)
  <2>1. CASE CloseDevice(p, unit[p])
      BY <1>1, <2>1, CloseDeviceObjects
  <2>2. CASE UNCHANGED <<osVars, channel>>
      BY <2>2 DEF osVars, Kept
  <2>3. QED
      BY <2>1, <2>2 DEF Leave
<1>3. QED
    BY <1>2, NoNewObjectCInv

LEMMA SearchCInv ==
    ASSUME TInv, UInv, CInv, NEW p \in Procs, Search(p)
    PROVE  CInv'
<1>1. UNCHANGED <<channel, claimed>>
    BY DEF Search, NextDevice, NextUnit, ProbeUnit, SearchOnly, objectVars
<1>2. ASSUME NEW u \in Units
      PROVE  channel[u] = NoObjects \/ owner'[u] = owner[u]
  <2>1. CASE NextDevice(p)
      BY <2>1 DEF NextDevice, osVars
  <2>2. CASE NextUnit(p)
      BY <2>2, NobodysUnit DEF NextUnit, CanOpen, Opened, TInv, TypeOK
  <2>3. CASE ProbeUnit(p)
    <3>1. CASE u = unit[p]
      <4>1. pc[p] = "probe"
          BY <2>3 DEF ProbeUnit
      <4>2. owner[u] = p /\ u \notin phantoms[p]
          BY <3>1, <4>1 DEF UInv, OwnersOK, OpenedFor, StepsOK, StepOK
      <4>3. \A q \in Procs : u \notin phantoms[q]
          BY <4>2 DEF UInv, OwnersOK, OpenedFor
      <4>4. QED
          BY <4>3 DEF UInv, OthersUntouched, Untouched
    <3>2. CASE u # unit[p]
        BY <2>3, <3>2 DEF ProbeUnit, Rejected, Closed, TInv, TypeOK
    <3>3. QED
        BY <3>1, <3>2
  <2>4. QED
      BY <2>1, <2>2, <2>3 DEF Search
<1>3. \A u \in Units : channel'[u] = NoObjects \/ Kept(u)
    BY <1>1, <1>2 DEF Kept
<1>4. QED
    BY <1>1, <1>3, NoNewObjectCInv

LEMMA CallCInv ==
    ASSUME TInv, CInv, NEW p \in Procs, Call(p)
    PROVE  CInv'
<1>1. CASE UNCHANGED <<owner, channel, claimed>>
    BY <1>1, NoNewObjectCInv DEF Kept
<1>2. CASE Abort(p)
    BY <1>2, AbortCInv
<1>3. ASSUME NEW u \in Units, CloseDevice(p, u), UNCHANGED claimed
      PROVE  CInv'
  <2>1. \A v \in Units : channel'[v] = NoObjects \/ Kept(v)
      BY <1>3, CloseDeviceObjects
  <2>2. QED
      BY <1>3, <2>1, NoNewObjectCInv
<1>4. \/ UNCHANGED <<owner, channel, claimed>>
      \/ Abort(p)
      \/ \E u \in Units : CloseDevice(p, u) /\ UNCHANGED claimed
    BY DEF Call, FindPhantom, NewProcess, StartPhantom, IsoIterate,
           StopPhantom, DeletePhantom, Others, SearchOnly, osVars, objectVars
<1>5. QED
    BY <1>1, <1>2, <1>3, <1>4

(* A new channel object gets a channel that its process has not claimed.    *)
LEMMA ConstructCInv ==
    ASSUME TInv, CInv, NEW p \in Procs, NEW u \in Units, owner[u] = p,
           NEW side \in Sides, NEW c \in Channels,
           getFreeChannel(p, c), claimChannel(p, c),
           channel' = [channel EXCEPT ![u][side] = c],
           UNCHANGED owner
    PROVE  CInv'
<1>1. c \notin claimed[p] /\ c # NONE
    BY Constants DEF getFreeChannel, Unclaimed
<1>2. \A q \in Procs : /\ claimed[q] \subseteq claimed'[q]
                       /\ q = p => c \in claimed'[q]
    BY DEF claimChannel, TInv, TypeOK
<1>3. \A v \in Units, s \in Sides :
          channel'[v][s] = IF v = u /\ s = side THEN c ELSE channel[v][s]
    BY DEF TInv, TypeOK, Sides
<1>4. ClaimsOK'
    BY <1>2, <1>3 DEF CInv, ClaimsOK
<1>5. \A v \in Units, s \in Sides : owner[v] = p => channel[v][s] # c
    BY <1>1 DEF CInv, ClaimsOK
<1>6. DistinctOK'
    BY <1>3, <1>5 DEF CInv, DistinctOK
<1>7. QED
    BY <1>4, <1>6 DEF CInv

(* A deleted channel object releases a channel that no other one has.       *)
LEMMA ReleaseCInv ==
    ASSUME TInv, CInv, NEW p \in Procs, NEW u \in Units, owner[u] = p,
           NEW side \in Sides,
           releaseChannel(p, channel[u][side]),
           \A v \in Units \ {u} : /\ channel'[v] = channel[v]
                                 /\ owner'[v] = owner[v],
           channel'[u] = NoObjects \/ owner'[u] = p,
           channel'[u][side] = NONE,
           \A s \in Sides : channel'[u][s] \in {channel[u][s], NONE}
    PROVE  CInv'
<1> DEFINE c == channel[u][side]
<1>1. \A d : \A q \in Procs :
          d \in claimed[q] /\ ~(q = p /\ d = c) => d \in claimed'[q]
    BY DEF releaseChannel, TInv, TypeOK
<1>2. \A v \in Units, s \in Sides :
          channel'[v][s] # NONE => /\ channel'[v][s] = channel[v][s]
                                   /\ owner'[v] = owner[v]
                                   /\ ~(v = u /\ s = side)
    BY NoChannel
<1>3. ClaimsOK'
  <2>1. SUFFICES ASSUME NEW v \in Units, NEW s \in Sides, NEW q \in Procs,
                        owner'[v] = q, channel'[v][s] # NONE
                 PROVE  channel'[v][s] \in claimed'[q]
      BY DEF ClaimsOK
  <2>2. /\ channel'[v][s] = channel[v][s] /\ owner[v] = q
        /\ channel[v][s] # NONE /\ ~(v = u /\ s = side)
      BY <1>2, <2>1
  <2>3. channel[v][s] \in claimed[q]
      BY <2>2 DEF CInv, ClaimsOK
  <2>4. ~(q = p /\ channel[v][s] = c)
      BY <2>2, Constants DEF CInv, DistinctOK
  <2>5. QED
      BY <1>1, <2>2, <2>3, <2>4
<1>4. DistinctOK'
  <2>1. SUFFICES ASSUME NEW v \in Units, NEW w \in Units,
                        NEW s \in Sides, NEW t \in Sides,
                        owner'[v] = owner'[w], owner'[v] # Nobody,
                        channel'[v][s] # NONE,
                        channel'[v][s] = channel'[w][t]
                 PROVE  v = w /\ s = t
      BY DEF DistinctOK
  <2>2. /\ owner[v] = owner[w] /\ owner[v] # Nobody
        /\ channel[v][s] # NONE /\ channel[v][s] = channel[w][t]
      BY <1>2, <2>1
  <2>3. QED
      BY <2>2 DEF CInv, DistinctOK
<1>5. QED
    BY <1>3, <1>4 DEF CInv
LEMMA UnchangedCInv ==
    ASSUME CInv, UNCHANGED <<owner, channel, claimed>>
    PROVE  CInv'
BY NoNewObjectCInv DEF Kept

LEMMA StartCInv ==
    ASSUME TInv, UInv, CInv, NEW p \in Procs, Start(p)
    PROVE  CInv'
<1> PICK u \in Units : u = unit[p]
    BY Busy DEF Start, Construct, Listen, Configure, Working
<1> USE DEF Others, osVars, objectVars
<1>1. owner[u] = p
    BY Busy, OneOwner DEF Start, Construct, Listen, Configure, Working
<1>2. CASE Construct(p)
  <2> DEFINE side == IF pc[p] = "ctorRecv" THEN "recv" ELSE "xmit"
  <2>1. UNCHANGED owner /\ side \in Sides
      BY <1>2 DEF Construct, Sides
  <2>2. CASE UNCHANGED <<claimed, channel>>
      BY <2>1, <2>2, UnchangedCInv
  <2>3. CASE \E c \in Channels : /\ getFreeChannel(p, c)
                                 /\ claimChannel(p, c)
                                 /\ channel' = [channel EXCEPT ![u][side] = c]
      BY <1>1, <2>1, <2>3, ConstructCInv
  <2>4. QED
      BY <1>2, <2>2, <2>3 DEF Construct
<1>3. CASE Listen(p)
    BY <1>3, AbortCInv, UnchangedCInv DEF Listen
<1>4. CASE Configure(p)
    BY <1>4, UnchangedCInv DEF Configure
<1>5. QED
    BY <1>2, <1>3, <1>4 DEF Start

LEMMA ThrowsCInv ==
    ASSUME TInv, CInv, NEW p \in Procs, pc[p] \in Working, Throws(p)
    PROVE  CInv'
BY LeaveCInv, AbortCInv DEF Throws

LEMMA StopCInv ==
    ASSUME TInv, CInv, NEW p \in Procs, Stop(p)
    PROVE  CInv'
<1>1. pc[p] \in Working
    BY DEF Stop, Working, Stopping
<1>2. QED
    BY <1>1, ThrowsCInv, UnchangedCInv DEF Stop, Others, osVars, objectVars

LEMMA DestroyCInv ==
    ASSUME TInv, UInv, CInv, NEW p \in Procs, Destroy(p)
    PROVE  CInv'
<1> PICK u \in Units : u = unit[p]
    BY Busy DEF Destroy, Working, Stopping
<1> DEFINE side == IF pc[p] = "delXmit" THEN "xmit" ELSE "recv"
<1>1. pc[p] \in Working /\ owner[u] = p /\ side \in Sides
    BY Busy, OneOwner DEF Destroy, Working, Stopping, Sides
<1>2. CASE Throws(p)
    BY <1>1, <1>2, ThrowsCInv
<1>3. CASE ~Throws(p)
  <2>1. releaseChannel(p, channel[u][side])
      BY <1>3 DEF Destroy
  <2>2. CASE CloseDevice(p, u)
    <3>1. \A v \in Units \ {u} : channel'[v] = channel[v] /\ owner'[v] = owner[v]
        BY <2>2 DEF CloseDevice, Closed, TInv, TypeOK
    <3>2. channel'[u] = NoObjects
        BY <2>2 DEF CloseDevice, TInv, TypeOK
    <3>3. QED
        BY <1>1, <2>1, <3>1, <3>2, NoChannel, ReleaseCInv
  <2>3. CASE channel' = [channel EXCEPT ![u][side] = NONE] /\ UNCHANGED osVars
    <3>1. /\ \A v \in Units \ {u} : channel'[v] = channel[v]
          /\ UNCHANGED owner
          /\ channel'[u][side] = NONE
          /\ \A s \in Sides : channel'[u][s] \in {channel[u][s], NONE}
        BY <2>3 DEF osVars, TInv, TypeOK, Sides
    <3>2. QED
        BY <1>1, <2>1, <3>1, ReleaseCInv
  <2>4. CASE pc[p] = "delXmit"
      BY <1>3, <2>2, <2>3, <2>4 DEF Destroy
  <2>5. CASE pc[p] # "delXmit"
      BY <1>3, <2>3, <2>5 DEF Destroy
  <2>6. QED
      BY <2>4, <2>5
<1>4. QED
    BY <1>2, <1>3

-----------------------------------------------------------------------------
LEMMA StepMInv == MInv /\ [Next]_vars => MInv'
<1> SUFFICES ASSUME MInv, [Next]_vars PROVE MInv'
    OBVIOUS
<1> USE DEF MInv
<1>1. CASE UNCHANGED vars
  <2>1. TInv'
      BY <1>1 DEF vars, searchVars, osVars, objectVars, deviceVars, TInv,
                  TypeOK, IteratorOK, PlacesOK, PlaceOK
  <2>2. UInv'
      BY <1>1 DEF vars, osVars, objectVars, UInv, OwnersOK, OpenedFor,
                  OthersUntouched, Untouched, StepsOK, StepOK, StartedOK,
                  HasObjects
  <2>3. CInv'
      BY <1>1, UnchangedCInv DEF vars, osVars, objectVars
  <2>4. QED
      BY <2>1, <2>2, <2>3
<1>2. ASSUME NEW p \in Procs, Call(p), UNCHANGED faults PROVE MInv'
    BY <1>2, FindPhantomTInv, NewProcessTInv, StartPhantomTInv, IsoIterateTInv,
       StopPhantomTInv, DeletePhantomTInv, CallUInv, CallCInv DEF Call
<1>3. ASSUME NEW p \in Procs, Search(p), UNCHANGED faults PROVE MInv'
    BY <1>3, NextDeviceTInv, NextUnitTInv, ProbeUnitTInv, SearchUInv,
       SearchCInv DEF Search
<1>4. ASSUME NEW p \in Procs, Start(p), UNCHANGED faults PROVE MInv'
  <2>1. Configure(p) => HasObjects(unit[p])
      BY DEF Configure, UInv, StepsOK, StepOK
  <2>2. QED
      BY <1>4, <2>1, ConstructTInv, ListenTInv, ConfigureTInv, StartUInv,
         StartCInv DEF Start
<1>5. ASSUME NEW p \in Procs, doIterate(p), UNCHANGED faults PROVE MInv'
    BY <1>5, doIterateTInv, doIterateUInv, UnchangedCInv
       DEF doIterate, Others, osVars, objectVars
<1>6. ASSUME NEW p \in Procs, Stop(p), UNCHANGED faults PROVE MInv'
    BY <1>6, StopTInv, StopUInv, StopCInv
<1>7. ASSUME NEW p \in Procs, Destroy(p), UNCHANGED faults PROVE MInv'
    BY <1>7, DestroyTInv, DestroyUInv, DestroyCInv
<1>8. ASSUME NEW p \in Procs, StaleCallback(p), UNCHANGED faults PROVE MInv'
    BY <1>8, AbortTInv, AbortUInv, AbortCInv DEF StaleCallback
<1>9. QED
    BY <1>1, <1>2, <1>3, <1>4, <1>5, <1>6, <1>7, <1>8 DEF Next, Run

(* The inductive invariant of the backend, for any processes, units,        *)
(* channels and failing calls.                                              *)
THEOREM MacInvariant == Spec => []MInv
<1>1. Init => MInv
    BY InitTInv, InitUInv, InitCInv DEF MInv
<1>2. QED
    BY <1>1, StepMInv, PTL DEF Spec

(* The processes, their Phantoms and the devices keep to their types; no    *)
(* device is ever told a channel that does not exist.                       *)
THEOREM MacTypeCorrect == Spec => []TypeOK
BY MacInvariant, PTL DEF MInv, TInv

(* A unit is open exactly while its owner probes it or holds its Phantom,   *)
(* and a started Phantom has its two channel objects between calls.         *)
THEOREM MacUnitsInUse == Spec => []UnitsInUse
<1>1. MInv => UnitsInUse
    BY DEF MInv, UInv, OwnersOK, OpenedFor, StartedOK, HasObjects, UnitsInUse
<1>2. QED
    BY <1>1, MacInvariant, PTL

(* The channel objects of one process have different channels, and its bit  *)
(* set holds all of them.                                                   *)
THEOREM MacChannelsDistinct == Spec => []ChannelsOfProcessDistinct
<1>1. MInv => ChannelsOfProcessDistinct
  <2> SUFFICES ASSUME MInv, NEW p \in Procs
               PROVE  /\ \A x \in ObjectsOf(p) : channel[x[1]][x[2]] \in claimed[p]
                      /\ \A x, y \in ObjectsOf(p) :
                            channel[x[1]][x[2]] = channel[y[1]][y[2]] => x = y
      BY DEF ChannelsOfProcessDistinct
  <2>1. \A x \in ObjectsOf(p) : /\ x[1] \in Units /\ x[2] \in Sides
                                /\ x = <<x[1], x[2]>>
                                /\ owner[x[1]] = p
                                /\ channel[x[1]][x[2]] # NONE
      BY DEF ObjectsOf
  <2>2. QED
      BY <2>1, Constants DEF MInv, CInv, ClaimsOK, DistinctOK
<1>2. QED
    BY <1>1, MacInvariant, PTL
=============================================================================
