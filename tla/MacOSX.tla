------------------------------- MODULE MacOSX -------------------------------
(***************************************************************************)
(* The Mac OS X backend under the common part of the library:              *)
(* DeviceIteratorMacOSX, FirewireDeviceMacOSX and CommunicationMacOSX with *)
(* findPhantom, startPhantom, isoIterate, stopPhantom and ~Phantom.        *)
(*                                                                         *)
(* What differs from libraw1394: the operating system lets one client open *)
(* a unit, so there is no registry; isochronous channels are claimed in a  *)
(* bit set of the process, which the bus knows nothing of; the channel the *)
(* host listens on is allocated by the operating system, is never told to  *)
(* the device and never given back; transactions that fail are not         *)
(* noticed; transmitting is not implemented, so startPhantom always ends   *)
(* with an exception, after the device was started.                        *)
(*                                                                         *)
(* A Phantom object is named by the unit it holds open.  The steps of a    *)
(* process interleave with those of the other processes on the bus; what   *)
(* happens to an open unit is its owner's doing alone, so each member      *)
(* function of a channel object is one step.                               *)
(***************************************************************************)
EXTENDS Integers, Sequences, FiniteSets

CONSTANTS Procs,
          Units,
          DeviceUnits,   \* the units of each device, in the system's order
          FireWireUnits, \* the units named IOFireWireUnit
          Phantoms,      \* the units that are SensAble devices
          NumChannels,   \* isochronous channels of the bus, 64
          NumBits,       \* channels in the bit set claimed, 32
          FreeOnBus,     \* channels that no other node of the bus holds
          Alone,         \* two bounds: the processes that take part when
          Shaky          \* calls of the system can fail, and the units with
                         \* which transactions can fail then

Channels == 0 .. NumChannels - 1
PROBE == 64
POWER_UP == 255
NONE == 128            \* no channel object, no channel
Nobody == "nobody"
NoUnit == "no unit"
NoIterator == <<NoUnit>>

ASSUME MacAssumption ==
    /\ NumChannels \in 1 .. 64 /\ NumBits \in 0 .. NumChannels
    /\ DeviceUnits \in Seq(Seq(Units))
    /\ FireWireUnits \subseteq Units /\ Phantoms \subseteq FireWireUnits
    /\ FreeOnBus \subseteq Channels
    /\ Alone \subseteq Procs /\ Shaky \subseteq Units
    /\ Nobody \notin Procs /\ NoUnit \notin Units

VARIABLES
    faults,        \* can calls of the system fail in this behaviour?
    pc,            \* of each process: "idle", or what it executes
    deviceIterator, unitIterator,   \* devices taken; units left or NoIterator
    unit,          \* the unit that a call works on
    destroying,    \* inside ~Phantom
    claimed,       \* the bit set of each process
    orphans,       \* channels of receive programs that no Phantom knows
    phantoms,      \* the Phantoms the application holds
    owner,         \* of each unit: the process that has it open
    started,       \* Phantom::started
    channel,       \* the channel members of recv_channel and xmit_channel
    listening,     \* the channel that the receive program got, or NONE
    register,      \* ADDR_RECV_CHANNEL of the device
    enabled        \* the bit enable_iso of ADDR_CONTROL

searchVars == <<deviceIterator, unitIterator>>
osVars == <<owner, phantoms>>
objectVars == <<started, channel, listening, claimed, orphans>>
deviceVars == <<register, enabled>>
vars == <<faults, pc, unit, destroying, searchVars, osVars, objectVars, deviceVars>>

NoObjects == [recv |-> NONE, xmit |-> NONE]

(* Transactions with the unit can fail.                                      *)
Fails(u) == faults /\ u \in Shaky

Goto(p, place) == pc' = [pc EXCEPT ![p] = place]
Finish(p) == Goto(p, "idle") /\ unit' = [unit EXCEPT ![p] = NoUnit]

-----------------------------------------------------------------------------
(* DeviceIteratorMacOSX::next.  The iterator goes through the devices, and  *)
(* through the units of each.                                               *)
Rewound(p) == /\ deviceIterator' = [deviceIterator EXCEPT ![p] = 0]
              /\ unitIterator' = [unitIterator EXCEPT ![p] = NoIterator]
SearchOnly == UNCHANGED <<destroying, objectVars, deviceVars>>

FindPhantom(p) ==
    /\ pc[p] = "idle"
    /\ faults => p \in Alone
    /\ Goto(p, "next")
    /\ UNCHANGED <<unit, searchVars, osVars>> /\ SearchOnly

NextDevice(p) ==
    /\ pc[p] = "next" /\ unitIterator[p] = NoIterator
    /\ \/ /\ deviceIterator[p] = Len(DeviceUnits)
          /\ Finish(p) /\ Rewound(p)
       \/ /\ deviceIterator[p] < Len(DeviceUnits)
          /\ deviceIterator' = [deviceIterator EXCEPT ![p] = @ + 1]
          /\ \/ unitIterator' = [unitIterator EXCEPT
                                    ![p] = DeviceUnits[deviceIterator'[p]]]
             \/ faults /\ UNCHANGED unitIterator
          /\ UNCHANGED <<pc, unit>>
    /\ UNCHANGED osVars /\ SearchOnly

Opened(p, u) == owner' = [owner EXCEPT ![u] = p]
Rewinds(p) == UNCHANGED unitIterator       \* mutant of TakesUnit
TakesUnit(p) == unitIterator' = [unitIterator EXCEPT ![p] = Tail(@)]

(* A unit is passed over that is none of FireWire, or that cannot be opened *)
(* because another client has it, this process perhaps.                     *)
AnyUnit(u) == u \in FireWireUnits          \* mutant of CanOpen
CanOpen(u) == u \in FireWireUnits /\ owner[u] = Nobody

NextUnit(p) ==
    /\ pc[p] = "next" /\ unitIterator[p] # NoIterator
    /\ \/ /\ unitIterator[p] = <<>>
          /\ unitIterator' = [unitIterator EXCEPT ![p] = NoIterator]
          /\ UNCHANGED <<pc, unit, owner>>
       \/ /\ unitIterator[p] # <<>>
          /\ TakesUnit(p)
          /\ LET u == Head(unitIterator[p]) IN
             \/ /\ CanOpen(u)
                /\ Opened(p, u)
                /\ unit' = [unit EXCEPT ![p] = u]
                /\ Goto(p, "probe")
             \/ /\ ~CanOpen(u) \/ faults
                /\ UNCHANGED <<pc, unit, owner>>
    /\ UNCHANGED <<deviceIterator, phantoms>> /\ SearchOnly

(* findPhantom keeps a Phantom with the serial asked for, and deletes any   *)
(* other device, which closes it.  A read that fails is not noticed; its    *)
(* buffer was never written, so the decision can be either.                 *)
Closed(u) == owner' = [owner EXCEPT ![u] = Nobody]
LeavesOpen(u) == UNCHANGED owner           \* mutant of Rejected
Rejected(u) == Closed(u)

ProbeUnit(p) ==
    LET u == unit[p] IN
    /\ pc[p] = "probe"
    /\ \/ /\ u \in Phantoms \/ Fails(u)
          /\ phantoms' = [phantoms EXCEPT ![p] = @ \cup {u}]
          /\ Finish(p) /\ Rewound(p)
          /\ UNCHANGED owner
       \/ /\ Rejected(u)
          /\ Goto(p, "next")
          /\ unit' = [unit EXCEPT ![p] = NoUnit]
          /\ UNCHANGED <<searchVars, phantoms>>
    /\ SearchOnly

-----------------------------------------------------------------------------
(* startPhantom: two channel objects, each with the lowest channel that the *)
(* process has not claimed.                                                 *)
Others == UNCHANGED <<searchVars, osVars, destroying>>

StartPhantom(p, u) ==
    /\ pc[p] = "idle" /\ u \in phantoms[p]
    /\ \/ started[u] /\ UNCHANGED <<pc, unit, started>>     \* exception
       \/ /\ ~started[u]
          /\ started' = [started EXCEPT ![u] = TRUE]
          /\ unit' = [unit EXCEPT ![p] = u]
          /\ Goto(p, "ctorRecv")
    /\ Others /\ UNCHANGED <<channel, listening, claimed, orphans, deviceVars>>

Unclaimed(p) == (0 .. NumBits - 1) \ claimed[p]
getFreeChannel(p, c) == c \in Unclaimed(p) /\ \A d \in Unclaimed(p) : c <= d

ClaimsNothing(p, c) == UNCHANGED claimed   \* mutant of claimChannel
claimChannel(p, c) == claimed' = [claimed EXCEPT ![p] = @ \cup {c}]
releaseChannel(p, c) == claimed' = [claimed EXCEPT ![p] = @ \ {c}]

Construct(p) ==
    LET u == unit[p]
        side == IF pc[p] = "ctorRecv" THEN "recv" ELSE "xmit" IN
    /\ pc[p] \in {"ctorRecv", "ctorXmit"}
    /\ \/ \E c \in Channels :
             /\ getFreeChannel(p, c)
             /\ claimChannel(p, c)
             /\ channel' = [channel EXCEPT ![u][side] = c]
             /\ Goto(p, IF side = "recv" THEN "ctorXmit" ELSE "listen")
             /\ UNCHANGED <<unit, started>>
       \/ /\ Unclaimed(p) = {}
          /\ \/ side = "xmit" /\ Goto(p, "unwind") /\ UNCHANGED <<unit, started>>
             \/ /\ side = "recv" /\ Finish(p)
                /\ started' = [started EXCEPT ![u] = FALSE]
          /\ UNCHANGED <<claimed, channel>>
    /\ Others /\ UNCHANGED <<listening, orphans, deviceVars>>

(* The process dies, of a failed assertion or an exception out of a         *)
(* destructor; the system closes what it had open.                          *)
Abort(p) ==
    LET mine(u) == owner[u] = p IN
    /\ Goto(p, "aborted")
    /\ unit' = [unit EXCEPT ![p] = NoUnit]
    /\ destroying' = [destroying EXCEPT ![p] = FALSE]
    /\ claimed' = [claimed EXCEPT ![p] = {}]
    /\ orphans' = [orphans EXCEPT ![p] = {}]
    /\ phantoms' = [phantoms EXCEPT ![p] = {}]
    /\ owner' = [u \in Units |-> IF mine(u) THEN Nobody ELSE owner[u]]
    /\ started' = [u \in Units |-> started[u] /\ ~mine(u)]
    /\ channel' = [u \in Units |-> IF mine(u) THEN NoObjects ELSE channel[u]]
    /\ listening' = [u \in Units |-> IF mine(u) THEN NONE ELSE listening[u]]

(* startRecvIsoTransfer: the system allocates some channel of the bus for   *)
(* the receive program.  None left is an assertion that fails, and so is    *)
(* any port or channel that the system does not create.  The program is     *)
(* taken to run, though nobody looks at the result of Start.  A program of  *)
(* an earlier start is not stopped.                                         *)
Allocated == {listening[u] : u \in Units} \cup UNION {orphans[p] : p \in Procs}
Programs(p, u) == {listening[u]} \ {NONE}

Listen(p) ==
    LET u == unit[p] IN
    /\ pc[p] = "listen"
    /\ \/ \E b \in FreeOnBus \ Allocated :
             /\ listening' = [listening EXCEPT ![u] = b]
             /\ orphans' = [orphans EXCEPT ![p] = @ \cup Programs(p, u)]
             /\ Goto(p, "configure")
             /\ Others /\ UNCHANGED <<unit, started, channel, claimed>>
       \/ /\ FreeOnBus \subseteq Allocated \/ Fails(u)
          /\ Abort(p)
          /\ UNCHANGED searchVars
    /\ UNCHANGED deviceVars

(* The rest of PhantomIsoChannel::start.  A failed read leaves c as it was, *)
(* which is the value expected: the read-backs then pass.                   *)
Written(u, old, new) == {new} \cup (IF Fails(u) THEN {old} ELSE {})
ReadsAs(u, value, expected) == value = expected \/ Fails(u)

SetsBit(c) == c + PROBE                    \* mutant of ProbeValue
ProbeValue(c) == PROBE

Configure(p) ==
    LET u == unit[p]
        c == channel[u].recv IN
    /\ pc[p] = "configure"
    /\ \E r1 \in Written(u, register[u], c) :
       \E r2 \in Written(u, r1, ProbeValue(c)) :
       \E r3 \in Written(u, r2, c) :
          \/ /\ r1 # c                            \* not confirmed: exception
             /\ register' = [register EXCEPT ![u] = r1]
             /\ UNCHANGED enabled
          \/ /\ ReadsAs(u, r1, c) /\ r2 # ProbeValue(c)
             /\ register' = [register EXCEPT ![u] = r2]
             /\ UNCHANGED enabled
          \/ /\ ReadsAs(u, r1, c) /\ ReadsAs(u, r2, ProbeValue(c))
             /\ register' = [register EXCEPT ![u] = r3]
             /\ \/ Fails(u) /\ UNCHANGED enabled    \* status not as expected
                \/ \E e \in Written(u, enabled[u], TRUE) :
                      enabled' = [enabled EXCEPT ![u] = e]
    (* Whatever came of it, xmit_channel->start() throws at once.           *)
    /\ Finish(p)
    /\ Others /\ UNCHANGED objectVars

-----------------------------------------------------------------------------
(* isoIterate runs the run loop of the process twice, once for each channel *)
(* object, each time until a second passes without a callback.  It does not *)
(* look at started: without the objects it uses freed memory or none, and   *)
(* the process dies of it or not.                                           *)
HasObjects(u) == channel[u].recv # NONE /\ channel[u].xmit # NONE

IsoIterate(p, u) ==
    /\ pc[p] = "idle" /\ u \in phantoms[p]
    /\ \/ /\ Goto(p, "loopRecv")
          /\ unit' = [unit EXCEPT ![p] = u]
          /\ Others /\ UNCHANGED objectVars
       \/ ~HasObjects(u) /\ Abort(p) /\ UNCHANGED searchVars
    /\ UNCHANGED deviceVars

Receivable(p) == orphans[p] \cup {listening[u] : u \in {v \in Units : owner[v] = p}}
Streams(b) == \E v \in Units : enabled[v] /\ register[v] = b
Receives(p) == \E b \in Receivable(p) : Streams(b)

(* A callback of a program whose channel object was deleted goes to freed   *)
(* memory; the process may die of it.                                       *)
StaleCallback(p) ==
    /\ pc[p] \in {"loopRecv", "loopXmit"}
    /\ \E b \in orphans[p] : Streams(b)
    /\ Abort(p)
    /\ UNCHANGED <<searchVars, deviceVars>>

doIterate(p) ==
    /\ ~Receives(p)
    /\ \/ pc[p] = "loopRecv" /\ Goto(p, "loopXmit") /\ UNCHANGED unit
       \/ pc[p] = "loopXmit" /\ Finish(p)
    /\ Others /\ UNCHANGED <<objectVars, deviceVars>>

-----------------------------------------------------------------------------
(* stopPhantom and ~Phantom.  stop() masks the control register with the    *)
(* bit itself, so the device goes on; stopIsoTransfer does nothing.         *)
BeginStop(p, u) == /\ started' = [started EXCEPT ![u] = FALSE]
                   /\ unit' = [unit EXCEPT ![p] = u]
                   /\ Goto(p, "stopRecv")

StopPhantom(p, u) ==
    /\ pc[p] = "idle" /\ u \in phantoms[p] /\ started[u]
    /\ BeginStop(p, u)
    /\ Others /\ UNCHANGED <<channel, listening, claimed, orphans, deviceVars>>

(* ~BaseDevice deletes the device also when ~Phantom is left by an          *)
(* exception.  Whether closing the unit ends the receive program of its     *)
(* channel object is up to the system; those of objects that are gone are   *)
(* taken to go on.  The objects that a throwing stop left are lost.         *)
CloseDevice(p, u) ==
    /\ Closed(u)
    /\ phantoms' = [phantoms EXCEPT ![p] = @ \ {u}]
    /\ channel' = [channel EXCEPT ![u] = NoObjects]
    /\ listening' = [listening EXCEPT ![u] = NONE]
    /\ orphans' \in {orphans, [orphans EXCEPT ![p] = @ \cup Programs(p, u)]}
    /\ destroying' = [destroying EXCEPT ![p] = FALSE]

DeletePhantom(p, u) ==
    /\ pc[p] = "idle" /\ u \in phantoms[p]
    /\ \/ /\ started[u]
          /\ BeginStop(p, u)
          /\ destroying' = [destroying EXCEPT ![p] = TRUE]
          /\ UNCHANGED <<osVars, channel, listening, orphans>>
       \/ ~started[u] /\ CloseDevice(p, u) /\ UNCHANGED <<pc, unit, started>>
    /\ UNCHANGED <<searchVars, claimed, deviceVars>>

(* A member function of a channel object ended, or threw.                   *)
Leave(p) ==
    /\ Finish(p)
    /\ \/ destroying[p] /\ CloseDevice(p, unit[p])
       \/ ~destroying[p] /\ UNCHANGED <<osVars, channel, listening, orphans,
                                        destroying>>

Throws(p) ==
    /\ Fails(unit[p])
    /\ \/ /\ Leave(p)
          /\ started' = [started EXCEPT ![unit[p]] = @ /\ pc[p] # "unwind"]
          /\ UNCHANGED claimed
       \/ /\ destroying[p] \/ pc[p] \in {"unwind", "delRecv", "delXmit"}
          /\ Abort(p)
    /\ UNCHANGED <<searchVars, deviceVars>>

Stop(p) ==
    /\ pc[p] \in {"stopRecv", "stopXmit"}
    /\ \/ /\ Goto(p, IF pc[p] = "stopRecv" THEN "stopXmit" ELSE "delRecv")
          /\ Others /\ UNCHANGED <<unit, objectVars, deviceVars>>
       \/ Throws(p)

(* ~PhantomIsoChannel: stop() again, the channel, the communication objects.*)
(* The receive program goes on.                                             *)
Destroy(p) ==
    LET u == unit[p]
        side == IF pc[p] = "delXmit" THEN "xmit" ELSE "recv"
        c == channel[u][side] IN
    /\ pc[p] \in {"unwind", "delRecv", "delXmit"}
    /\ \/ /\ releaseChannel(p, c)
          /\ UNCHANGED <<searchVars, deviceVars>>
          /\ \/ /\ side = "recv"
                /\ channel' = [channel EXCEPT ![u].recv = NONE]
                /\ listening' = [listening EXCEPT ![u] = NONE]
                /\ orphans' = [orphans EXCEPT ![p] = @ \cup Programs(p, u)]
                /\ UNCHANGED <<osVars, destroying>>
                /\ \/ /\ pc[p] = "delRecv" /\ Goto(p, "delXmit")
                      /\ UNCHANGED <<unit, started>>
                   \/ /\ pc[p] = "unwind" /\ Finish(p)
                      /\ started' = [started EXCEPT ![u] = FALSE]
             \/ /\ side = "xmit"
                /\ Finish(p)
                /\ UNCHANGED started
                /\ \/ destroying[p] /\ CloseDevice(p, u)
                   \/ /\ ~destroying[p]
                      /\ channel' = [channel EXCEPT ![u].xmit = NONE]
                      /\ UNCHANGED <<osVars, listening, orphans, destroying>>
       \/ Throws(p)

(* Another process takes the place of one that died.                        *)
NewProcess(p) == /\ pc[p] = "aborted" /\ Goto(p, "idle")
                 /\ Others /\ UNCHANGED <<unit, objectVars, deviceVars>>

-----------------------------------------------------------------------------
Init ==
    /\ faults \in BOOLEAN
    /\ pc = [p \in Procs |-> "idle"]
    /\ unit = [p \in Procs |-> NoUnit]
    /\ destroying = [p \in Procs |-> FALSE]
    /\ deviceIterator = [p \in Procs |-> 0]
    /\ unitIterator = [p \in Procs |-> NoIterator]
    /\ claimed = [p \in Procs |-> {}] /\ orphans = [p \in Procs |-> {}]
    /\ phantoms = [p \in Procs |-> {}]
    /\ owner = [u \in Units |-> Nobody]
    /\ started = [u \in Units |-> FALSE]
    /\ channel = [u \in Units |-> NoObjects]
    /\ listening = [u \in Units |-> NONE]
    /\ register = [u \in Units |-> POWER_UP]
    /\ enabled = [u \in Units |-> FALSE]

Search(p) == NextDevice(p) \/ NextUnit(p) \/ ProbeUnit(p)
Start(p) == Construct(p) \/ Listen(p) \/ Configure(p)
Run(p) == Search(p) \/ Start(p) \/ doIterate(p) \/ Stop(p) \/ Destroy(p)

Call(p) == \/ FindPhantom(p) \/ NewProcess(p)
           \/ \E u \in Units : \/ StartPhantom(p, u) \/ IsoIterate(p, u)
                               \/ StopPhantom(p, u) \/ DeletePhantom(p, u)
Next == /\ \E p \in Procs : Call(p) \/ Run(p) \/ StaleCallback(p)
        /\ UNCHANGED faults

(* A process inside a call keeps executing.                                 *)
Spec == Init /\ [][Next]_vars /\ \A p \in Procs : WF_vars(Run(p) /\ UNCHANGED faults)

-----------------------------------------------------------------------------
TypeOK ==
    /\ faults \in BOOLEAN
    /\ pc \in [Procs -> {"idle", "next", "probe", "ctorRecv", "ctorXmit",
                         "unwind", "listen", "configure", "loopRecv",
                         "loopXmit", "stopRecv", "stopXmit", "delRecv",
                         "delXmit", "aborted"}]
    /\ unit \in [Procs -> Units \cup {NoUnit}]
    /\ destroying \in [Procs -> BOOLEAN]
    /\ deviceIterator \in [Procs -> 0 .. Len(DeviceUnits)]
    /\ claimed \in [Procs -> SUBSET (0 .. NumBits - 1)]
    /\ orphans \in [Procs -> SUBSET Channels]
    /\ phantoms \in [Procs -> SUBSET Units]
    /\ owner \in [Units -> Procs \cup {Nobody}]
    /\ started \in [Units -> BOOLEAN]
    /\ channel \in [Units -> [{"recv", "xmit"} -> Channels \cup {NONE}]]
    /\ listening \in [Units -> Channels \cup {NONE}]
    /\ register \in [Units -> Channels \cup {PROBE, POWER_UP}]
    /\ enabled \in [Units -> BOOLEAN]

(* All channel objects of one process, whichever of its Phantoms they serve *)
(* and whatever failed before, have different channels, which its bit set   *)
(* holds.  (Two processes can well have the same.)                          *)
Sides == {"recv", "xmit"}
ObjectsOf(p) == {x \in Units \X Sides : /\ owner[x[1]] = p
                                        /\ channel[x[1]][x[2]] # NONE}
ChannelsOfProcessDistinct ==
    \A p \in Procs :
        /\ \A x \in ObjectsOf(p) : channel[x[1]][x[2]] \in claimed[p]
        /\ \A x, y \in ObjectsOf(p) :
              channel[x[1]][x[2]] = channel[y[1]][y[2]] => x = y

(* The units that are open are the Phantoms of the applications and those   *)
(* under probe, each of one process: nothing stays open after a search or   *)
(* a delete, also not one that ended with an exception; and a Phantom whose *)
(* started flag is set between calls has both channel objects.              *)
UnitsInUse ==
    /\ \A u \in Units, p \in Procs :
          owner[u] = p <=> u \in phantoms[p] \/ (pc[p] = "probe" /\ unit[p] = u)
    /\ \A p \in Procs, u \in Units :
          u \in phantoms[p] /\ unit[p] # u /\ started[u] =>
              channel[u].recv # NONE /\ channel[u].xmit # NONE

(* Every call comes back, except isoIterate while data keeps arriving.      *)
MacCallsReturn ==
    \A p \in Procs : pc[p] # "idle" ~>
        pc[p] \in {"idle", "aborted"}
        \/ (pc[p] \in {"loopRecv", "loopXmit"} /\ Receives(p))
=============================================================================
