--------------------------- MODULE PhantomSession ---------------------------
(***************************************************************************)
(* startPhantom, stopPhantom, isoIterate and ~Phantom of class Phantom,    *)
(* with the PhantomIsoChannel objects they create, start, stop, iterate    *)
(* and delete, at the grain of one bus transaction per step.               *)
(*                                                                         *)
(* A session is one process that holds one Phantom object.  The sessions   *)
(* interleave on what they share: the CHANNELS_AVAILABLE register of the   *)
(* isochronous resource manager (two quadlets, read one after the other,   *)
(* changed by a compare-and-swap in raw1394_channel_modify) and the        *)
(* registers of the Phantom devices.                                       *)
(*                                                                         *)
(* Within a session the program counter is the pair of a phase (which      *)
(* member function runs, on which of the two channel objects) and a step.  *)
(* "recv" is the host's direction: the device transmits on that channel.   *)
(***************************************************************************)
EXTENDS Integers, FiniteSets

CONSTANTS Sessions,
          Devices,
          DeviceOf,        \* the device a session's Phantom object drives
          NumChannels,     \* 64 on a real bus
          NumHigh,         \* channels in the first quadlet, 32 on a real bus
          Foreign,         \* channels other nodes of the bus hold throughout
          InitialControls, \* what ADDR_CONTROL may hold before any start
          Faults,          \* kinds of failure that can happen
          DtorThrow        \* what an exception that leaves a destructor does:
                           \* "propagates" up to C++98, "terminates" the
                           \* process since C++11 (the Makefile names none)

Channels == 0 .. NumChannels - 1
High == 0 .. NumHigh - 1

PROBE == 64      \* 0x40, what start() writes to see the device react
POWER_UP == 255  \* a channel register that nobody wrote yet
NO_CHANNEL == 128  \* there is no channel object
ControlBits == {"enable_iso", "other"}

ASSUME SizeAssumption == /\ NumChannels \in 1 .. 64
                         /\ NumHigh \in 0 .. NumChannels
                         /\ IsFiniteSet(Sessions)
ASSUME ParameterAssumption ==
    /\ DeviceOf \in [Sessions -> Devices]
    /\ Foreign \subseteq Channels
    /\ InitialControls \subseteq SUBSET ControlBits
    /\ Faults \subseteq {"throw", "drop", "crash"}
    /\ DtorThrow \subseteq {"propagates", "terminates"}
    /\ DtorThrow # {}

Directions == {"recv", "xmit"}
ChannelCodes == Channels \cup {PROBE, POWER_UP}

Phases == {"idle", "ctorRecv", "ctorXmit", "unwind", "startRecv", "startXmit",
           "stopRecv", "stopXmit", "delRecv", "delXmit", "iterRecv",
           "iterXmit", "gone", "terminated"}
Steps == {"none", "readHigh", "readLow", "claim", "startIso", "writeChannel",
          "readBack", "writeProbe", "readProbe", "rewriteChannel",
          "readStatus", "readControl", "writeControl", "shutdown", "release",
          "loop"}

VARIABLES
    available,   \* the free channels, register CHANNELS_AVAILABLE
    claimed,     \* history: the channels a session got and did not give back
    registers,   \* ADDR_RECV_CHANNEL and ADDR_XMIT_CHANNEL of each device
    control,     \* ADDR_CONTROL of each device
    started,     \* Phantom::started
    channel,     \* the channel member of recv_channel and of xmit_channel
    contexts,    \* isochronous contexts open on the session's com handles
    phase, step, \* where the session is
    destroying,  \* inside ~Phantom
    view,        \* getFreeChannel: the free channels read so far
    seen,        \* start and stop: ADDR_CONTROL as read, until written
    result,      \* how the session's last start or stop ended
    faulted      \* history: a transaction of the session went wrong

deviceVars == <<registers, control>>
poolVars == <<available, claimed>>
pcVars == <<phase, step, started, result>>
vars == <<poolVars, deviceVars, channel, contexts, pcVars, destroying, view,
          seen, faulted>>

Device(s) == DeviceOf[s]
NoObjects == [recv |-> NO_CHANNEL, xmit |-> NO_CHANNEL]

(* Which of the two channel objects the session works on.                   *)
Direction(s) ==
    IF phase[s] \in {"ctorRecv", "unwind", "startRecv", "stopRecv", "delRecv",
                     "iterRecv"}
    THEN "recv" ELSE "xmit"
Channel(s) == channel[s][Direction(s)]

Starting(s) == phase[s] \in {"startRecv", "startXmit"}
Deleting(s) == phase[s] \in {"unwind", "delRecv", "delXmit"}
Over(s) == phase[s] \in {"gone", "terminated"}
Busy(s) == phase[s] # "idle" /\ ~Over(s)

-----------------------------------------------------------------------------
(* Control flow.                                                            *)
Goto(s, p, st) == /\ phase' = [phase EXCEPT ![s] = p]
                  /\ step' = [step EXCEPT ![s] = st]

Advance(s, st) == Goto(s, phase[s], st) /\ UNCHANGED <<started, result>>

Return(s, r) ==
    /\ Goto(s, IF destroying[s] THEN "gone" ELSE "idle", "none")
    /\ result' = [result EXCEPT ![s] = r]

(* What follows a member function of a channel object that came to its end. *)
Following(p) == CASE p = "ctorRecv"  -> "ctorXmit"
                  [] p = "ctorXmit"  -> "startRecv"
                  [] p = "startRecv" -> "startXmit"
                  [] p = "stopRecv"  -> "stopXmit"
                  [] p = "stopXmit"  -> "delRecv"
                  [] p = "delRecv"   -> "delXmit"
                  [] OTHER           -> "idle"
FirstStep(p) == CASE p = "ctorXmit"                   -> "readHigh"
                  [] p \in {"startRecv", "startXmit"} -> "startIso"
                  [] OTHER                            -> "readStatus"

KeepsStarted(s) == UNCHANGED started     \* mutant of ResetStarted
ResetStarted(s) == started' = [started EXCEPT ![s] = FALSE]

Complete(s) ==
    \/ /\ Following(phase[s]) # "idle"
       /\ Goto(s, Following(phase[s]), FirstStep(Following(phase[s])))
       /\ UNCHANGED <<started, result>>
    \/ /\ phase[s] \in {"startXmit", "delXmit"}
       /\ Return(s, "ok")
       /\ UNCHANGED started
    \/ /\ phase[s] = "unwind"              \* both catch clauses rethrow
       /\ Return(s, "exception")
       /\ ResetStarted(s)

(* An exception leaves the member function that runs.  startPhantom catches *)
(* it around the two constructors only; stopPhantom and ~Phantom not at all.*)
InDestructor(s) == Deleting(s) \/ destroying[s]
Propagates(s) == ~InDestructor(s) \/ "propagates" \in DtorThrow

NeverUnwinds(s) == FALSE           \* mutant of UnwindsRecv
UnwindsRecv(s) == phase[s] = "ctorXmit"

Raise(s) ==
    \/ /\ InDestructor(s) /\ "terminates" \in DtorThrow
       /\ Goto(s, "terminated", "none")
       /\ UNCHANGED <<started, result>>
    \/ /\ Propagates(s) /\ UnwindsRecv(s)
       /\ Goto(s, "unwind", "readStatus")
       /\ UNCHANGED <<started, result>>
    \/ /\ Propagates(s) /\ ~UnwindsRecv(s)
       /\ phase[s] \in {"ctorRecv", "ctorXmit", "unwind"}
       /\ Return(s, "exception")
       /\ ResetStarted(s)
    \/ /\ Propagates(s)
       /\ phase[s] \notin {"ctorRecv", "ctorXmit", "unwind"}
       /\ Return(s, "exception")
       /\ UNCHANGED started

Fault(s, kind) == kind \in Faults /\ faulted' = [faulted EXCEPT ![s] = TRUE]

-----------------------------------------------------------------------------
(* Bus transactions.  A read that fails for want of resources (EAGAIN) is   *)
(* repeated by CommunicationLibraw1394::read, a write is not: it is lost    *)
(* without a trace.  Any other failure raises; whether the transaction took *)
(* effect before the answer got lost is open.                               *)
ReadsBack(s, expected, then) ==
    \/ expected /\ then /\ UNCHANGED faulted
    \/ ~expected /\ Raise(s) /\ UNCHANGED faulted
    \/ Fault(s, "throw") /\ Raise(s)

WriteChannelRegister(s, value) ==
    registers' = [registers EXCEPT ![Device(s)][Direction(s)] = value]

WriteRegister(s, value, then) ==
    /\ \/ WriteChannelRegister(s, value) /\ then /\ UNCHANGED faulted
       \/ Fault(s, "drop") /\ then /\ UNCHANGED registers
       \/ /\ Fault(s, "throw") /\ Raise(s)
          /\ WriteChannelRegister(s, value) \/ UNCHANGED registers
    /\ UNCHANGED <<poolVars, control, channel, contexts, destroying, view,
                   seen>>

-----------------------------------------------------------------------------
(* PhantomIsoChannel::PhantomIsoChannel: getFreeChannel, then claimChannel. *)
ReadHigh(s) ==
    /\ step[s] = "readHigh"
    /\ \/ /\ view' = [view EXCEPT ![s] = available \cap High]
          /\ Advance(s, "readLow")
          /\ UNCHANGED faulted
       \/ Fault(s, "throw") /\ Raise(s) /\ UNCHANGED view
    /\ UNCHANGED <<poolVars, deviceVars, channel, contexts, destroying, seen>>

ReadLow(s) ==
    LET free == view[s] \cup (available \ High) IN
    /\ step[s] = "readLow"
    /\ \/ /\ view' = [view EXCEPT ![s] = free]
          /\ \/ free # {} /\ Advance(s, "claim")
             \/ free = {} /\ Raise(s)
          /\ UNCHANGED faulted
       \/ Fault(s, "throw") /\ Raise(s) /\ view' = [view EXCEPT ![s] = {}]
    /\ UNCHANGED <<poolVars, deviceVars, channel, contexts, destroying, seen>>

Allocate(s, c) == /\ available' = available \ {c}
                  /\ claimed' = [claimed EXCEPT ![s] = @ \cup {c}]

TakesAny(c) == c \in Channels      \* mutant of CanAllocate
CanAllocate(c) == c \in available

IsLowest(c, free) == c \in free /\ \A d \in free : c <= d

Claim(s) ==
    \E c \in Channels :
       /\ step[s] = "claim"
       /\ IsLowest(c, view[s])
       /\ \/ /\ CanAllocate(c)
             /\ Allocate(s, c)
             /\ channel' = [channel EXCEPT ![s][Direction(s)] = c]
             /\ Complete(s)
             /\ UNCHANGED faulted
          \/ /\ ~CanAllocate(c)
             /\ Raise(s)
             /\ UNCHANGED <<poolVars, channel, faulted>>
          \/ /\ Fault(s, "throw")
             /\ Raise(s)
             /\ \/ c \in available /\ Allocate(s, c)
                \/ UNCHANGED poolVars
             /\ UNCHANGED channel
       /\ view' = [view EXCEPT ![s] = {}]
       /\ UNCHANGED <<deviceVars, contexts, destroying, seen>>

-----------------------------------------------------------------------------
(* PhantomIsoChannel::start.  The result of opening the isochronous context *)
(* is not looked at.                                                        *)
StartIso(s) ==
    /\ step[s] = "startIso"
    /\ \/ /\ contexts' =
                [contexts EXCEPT ![s] = @ \cup {<<Direction(s), Channel(s)>>}]
          /\ UNCHANGED faulted
       \/ Fault(s, "throw") /\ UNCHANGED contexts
    /\ Advance(s, "writeChannel")
    /\ UNCHANGED <<poolVars, deviceVars, channel, destroying, view, seen>>

WriteChannel(s) ==
    /\ step[s] = "writeChannel"
    /\ WriteRegister(s, Channel(s),
          Advance(s, IF phase[s] = "startRecv" THEN "readBack"
                                               ELSE "readStatus"))

(* Only the receiving channel is read back and probed.                      *)
AnyValue(s, value) == TRUE         \* mutant of Matches
Matches(s, value) == registers[Device(s)].recv = value

ReadBack(s) ==
    /\ step[s] = "readBack"
    /\ ReadsBack(s, Matches(s, Channel(s)), Advance(s, "writeProbe"))
    /\ UNCHANGED <<poolVars, deviceVars, channel, contexts, destroying, view,
                   seen>>

WriteProbe(s) ==
    /\ step[s] = "writeProbe"
    /\ WriteRegister(s, PROBE, Advance(s, "readProbe"))

ReadProbe(s) ==
    /\ step[s] = "readProbe"
    /\ ReadsBack(s, Matches(s, PROBE), Advance(s, "rewriteChannel"))
    /\ UNCHANGED <<poolVars, deviceVars, channel, contexts, destroying, view,
                   seen>>

LeavesProbe(s) == PROBE            \* mutant of RewriteValue
AddsToProbe(s) == PROBE + Channel(s)   \* mutant of RewriteValue
RewriteValue(s) == Channel(s)

RewriteChannel(s) ==
    /\ step[s] = "rewriteChannel"
    /\ WriteRegister(s, RewriteValue(s), Advance(s, "readStatus"))

-----------------------------------------------------------------------------
(* Common to start and stop: the status registers 0x1083 and 0x1082 (an     *)
(* unexpected value raises like a failed read), then ADDR_CONTROL.          *)
ReadStatus(s) ==
    /\ step[s] = "readStatus"
    /\ ReadsBack(s, TRUE, Advance(s, "readControl"))
    /\ UNCHANGED <<poolVars, deviceVars, channel, contexts, destroying, view,
                   seen>>

NeverEnables(s, c) ==              \* mutant of MustWriteControl
    ~Starting(s) /\ "enable_iso" \in c
MustWriteControl(s, c) == IF Starting(s) THEN "enable_iso" \notin c
                                         ELSE "enable_iso" \in c

AwaitsControl(s) == \/ Starting(s) /\ Complete(s)     \* a mutant
                    \/ ~Starting(s) /\ MustWriteControl(s, control[Device(s)])
                                   /\ Advance(s, "readStatus")
                    \/ ~Starting(s) /\ ~MustWriteControl(s, control[Device(s)])
                                   /\ Advance(s, "shutdown")
AfterControl(s) == \/ Starting(s) /\ Complete(s)
                   \/ ~Starting(s) /\ Advance(s, "shutdown")

ReadControl(s) ==
    LET c == control[Device(s)] IN
    /\ step[s] = "readControl"
    /\ \/ /\ MustWriteControl(s, c)
          /\ seen' = [seen EXCEPT ![s] = c]
          /\ Advance(s, "writeControl")
          /\ UNCHANGED faulted
       \/ /\ ~MustWriteControl(s, c)
          /\ AfterControl(s)
          /\ UNCHANGED <<seen, faulted>>
       \/ Fault(s, "throw") /\ Raise(s) /\ UNCHANGED seen
    /\ UNCHANGED <<poolVars, deviceVars, channel, contexts, destroying, view>>

(* start() sets the bit.  stop() masks with the bit itself where the        *)
(* complement was meant (rev-eng/omni.c has it), so the bit stays set and   *)
(* all the others are cleared.                                              *)
ControlValue(s) == IF Starting(s) THEN seen[s] \cup {"enable_iso"}
                                  ELSE seen[s] \cap {"enable_iso"}

WriteControlRegister(s) ==
    control' = [control EXCEPT ![Device(s)] = ControlValue(s)]

WriteControl(s) ==
    /\ step[s] = "writeControl"
    /\ \/ WriteControlRegister(s) /\ AfterControl(s) /\ UNCHANGED faulted
       \/ Fault(s, "drop") /\ AfterControl(s) /\ UNCHANGED control
       \/ /\ Fault(s, "throw") /\ Raise(s)
          /\ WriteControlRegister(s) \/ UNCHANGED control
    /\ seen' = [seen EXCEPT ![s] = {}]
    /\ UNCHANGED <<poolVars, registers, channel, contexts, destroying, view>>

-----------------------------------------------------------------------------
(* The end of stop(), and ~PhantomIsoChannel, which calls stop() once more  *)
(* and then gives the channel back.                                         *)
ContextOfRecv(s) == <<"recv", channel[s].recv>>  \* mutant of ContextOf
ContextOf(s) == <<Direction(s), Channel(s)>>

Shutdown(s) ==
    /\ step[s] = "shutdown"
    /\ contexts' = [contexts EXCEPT ![s] = @ \ {ContextOf(s)}]
    /\ \/ Deleting(s) /\ Advance(s, "release")
       \/ ~Deleting(s) /\ Complete(s)
    /\ UNCHANGED <<poolVars, deviceVars, channel, destroying, view, seen,
                   faulted>>

FreeRecv(s, c) ==                  \* mutant of Free
    /\ available' = available \cup {channel[s].recv}
    /\ claimed' = [claimed EXCEPT ![s] = @ \ {channel[s].recv}]
Free(s, c) == /\ available' = available \cup {c}
              /\ claimed' = [claimed EXCEPT ![s] = @ \ {c}]

Release(s) ==
    LET c == Channel(s) IN
    /\ step[s] = "release"
    /\ \/ c \notin available /\ Free(s, c) /\ Complete(s) /\ UNCHANGED faulted
       \/ c \in available /\ Raise(s) /\ UNCHANGED <<poolVars, faulted>>
       \/ /\ Fault(s, "throw") /\ Raise(s)
          /\ \/ c \notin available /\ Free(s, c)
             \/ UNCHANGED poolVars
    /\ channel' = [channel EXCEPT ![s][Direction(s)] = NO_CHANNEL]
    /\ UNCHANGED <<deviceVars, contexts, destroying, view, seen>>

-----------------------------------------------------------------------------
(* isoIterate: on either channel, wait in raw1394_loop_iterate until the    *)
(* kernel has something for the handle.  A context that transmits is asked  *)
(* for data all the time, one that receives has some only while a device    *)
(* sends on its channel.                                                    *)
Iterating(s) == phase[s] \in {"iterRecv", "iterXmit"}
HasObjects(s) == \A d \in Directions : channel[s][d] # NO_CHANNEL

SentOn(c) == \E d \in Devices : /\ "enable_iso" \in control[d]
                                /\ registers[d].recv = c
Ready(s) == /\ ContextOf(s) \in contexts[s]
            /\ phase[s] = "iterRecv" => SentOn(Channel(s))
Blocked(s) == step[s] = "loop" /\ ~Ready(s)

Loop(s) ==
    /\ step[s] = "loop"
    /\ \/ /\ Ready(s) /\ UNCHANGED faulted
          /\ \/ phase[s] = "iterRecv" /\ Goto(s, "iterXmit", "loop")
             \/ phase[s] = "iterXmit" /\ Goto(s, "idle", "none")
       \/ Fault(s, "throw") /\ Goto(s, "idle", "none")
    /\ UNCHANGED <<poolVars, deviceVars, channel, contexts, destroying, view,
                   seen, started, result>>

(* The flag is not looked at.  Objects that a failed call left behind serve *)
(* their purpose; pointers that were never set, or whose objects are        *)
(* deleted, kill the process or do nothing.                                 *)
IsoIterate(s) ==
    /\ phase[s] = "idle"
    /\ \/ HasObjects(s) /\ Goto(s, "iterRecv", "loop")
       \/ ~HasObjects(s) /\ Goto(s, "terminated", "none")
    /\ UNCHANGED <<poolVars, deviceVars, channel, contexts, destroying, view,
                   seen, started, result, faulted>>

-----------------------------------------------------------------------------
(* The calls an application makes between which it may do as it likes: a    *)
(* second start, a stop of what never started, a delete at any time.        *)
StartPhantom(s) ==
    /\ phase[s] = "idle"
    /\ \/ /\ started[s]                        \* "already started"
          /\ Return(s, "exception")
          /\ UNCHANGED started
       \/ /\ ~started[s]
          /\ Goto(s, "ctorRecv", "readHigh")
          /\ started' = [started EXCEPT ![s] = TRUE]
          /\ UNCHANGED result
    /\ UNCHANGED <<poolVars, deviceVars, channel, contexts, destroying, view,
                   seen, faulted>>

BeginStop(s) == /\ Goto(s, "stopRecv", "readStatus")
                /\ ResetStarted(s)
                /\ UNCHANGED result

StopPhantom(s) ==
    /\ phase[s] = "idle"
    /\ \/ ~started[s] /\ Return(s, "ok") /\ UNCHANGED started
       \/ started[s] /\ BeginStop(s)
    /\ UNCHANGED <<poolVars, deviceVars, channel, contexts, destroying, view,
                   seen, faulted>>

DeletePhantom(s) ==
    /\ phase[s] = "idle"
    /\ destroying' = [destroying EXCEPT ![s] = TRUE]
    /\ \/ /\ ~started[s]
          /\ Goto(s, "gone", "none")
          /\ UNCHANGED <<started, result>>
       \/ started[s] /\ BeginStop(s)
    /\ UNCHANGED <<poolVars, deviceVars, channel, contexts, view, seen,
                   faulted>>

(* The process dies at any point; the kernel closes its handles but nobody  *)
(* returns its channels.                                                    *)
Crash(s) ==
    /\ ~Over(s)
    /\ Fault(s, "crash")
    /\ Goto(s, "terminated", "none")
    /\ UNCHANGED <<poolVars, deviceVars, channel, contexts, started, result,
                   destroying, view, seen>>

(* findPhantom hands out a new Phantom, to a new process after the old one  *)
(* ended.  The device keeps its registers and the bus its allocations.      *)
NewPhantom(s) ==
    /\ Over(s)
    /\ Goto(s, "idle", "none")
    /\ started' = [started EXCEPT ![s] = FALSE]
    /\ destroying' = [destroying EXCEPT ![s] = FALSE]
    /\ result' = [result EXCEPT ![s] = "none"]
    /\ channel' = [channel EXCEPT ![s] = NoObjects]
    /\ view' = [view EXCEPT ![s] = {}]
    /\ seen' = [seen EXCEPT ![s] = {}]
    /\ \/ phase[s] = "gone" /\ UNCHANGED contexts
       \/ /\ phase[s] = "terminated"
          /\ contexts' = [contexts EXCEPT ![s] = {}]
    /\ UNCHANGED <<poolVars, deviceVars, faulted>>

-----------------------------------------------------------------------------
Init ==
    /\ available = Channels \ Foreign
    /\ claimed = [s \in Sessions |-> {}]
    /\ registers = [d \in Devices |-> [recv |-> POWER_UP, xmit |-> POWER_UP]]
    /\ control \in [Devices -> InitialControls]
    /\ started = [s \in Sessions |-> FALSE]
    /\ channel = [s \in Sessions |-> NoObjects]
    /\ contexts = [s \in Sessions |-> {}]
    /\ phase = [s \in Sessions |-> "idle"]
    /\ step = [s \in Sessions |-> "none"]
    /\ destroying = [s \in Sessions |-> FALSE]
    /\ view = [s \in Sessions |-> {}]
    /\ seen = [s \in Sessions |-> {}]
    /\ result = [s \in Sessions |-> "none"]
    /\ faulted = [s \in Sessions |-> FALSE]

Construct(s) == ReadHigh(s) \/ ReadLow(s) \/ Claim(s)
Configure(s) == \/ StartIso(s) \/ WriteChannel(s) \/ ReadBack(s)
                \/ WriteProbe(s) \/ ReadProbe(s) \/ RewriteChannel(s)
Control(s) == ReadStatus(s) \/ ReadControl(s) \/ WriteControl(s)
Dismantle(s) == Shutdown(s) \/ Release(s)
Run(s) == \/ Construct(s) \/ Configure(s) \/ Control(s) \/ Dismantle(s)
          \/ Loop(s)

Call(s) == \/ StartPhantom(s) \/ StopPhantom(s) \/ DeletePhantom(s)
           \/ IsoIterate(s) \/ NewPhantom(s)

Next == \E s \in Sessions : Call(s) \/ Run(s) \/ Crash(s)

(* A process inside a call keeps executing; whether it makes another call   *)
(* is up to the application.                                                *)
Fairness == \A s \in Sessions : WF_vars(Run(s))

Spec == Init /\ [][Next]_vars
FairSpec == Spec /\ Fairness

-----------------------------------------------------------------------------
TypeOK ==
    /\ available \subseteq Channels
    /\ claimed \in [Sessions -> SUBSET Channels]
    /\ registers \in [Devices -> [Directions -> ChannelCodes]]
    /\ control \in [Devices -> SUBSET ControlBits]
    /\ started \in [Sessions -> BOOLEAN]
    /\ channel \in [Sessions -> [Directions -> Channels \cup {NO_CHANNEL}]]
    /\ contexts \in [Sessions -> SUBSET (Directions \X Channels)]
    /\ phase \in [Sessions -> Phases]
    /\ step \in [Sessions -> Steps]
    /\ destroying \in [Sessions -> BOOLEAN]
    /\ view \in [Sessions -> SUBSET Channels]
    /\ seen \in [Sessions -> SUBSET ControlBits]
    /\ result \in [Sessions -> {"none", "ok", "exception"}]
    /\ faulted \in [Sessions -> BOOLEAN]

(* The channels of the bus are partitioned: free, held by one session, or   *)
(* held by a foreign node.  Two sessions that read the same free channels   *)
(* cannot both get one, and no destructor frees a channel that another      *)
(* session or node holds, or one it freed before.                           *)
ChannelsPartitioned ==
    /\ \A s, t \in Sessions : s # t => claimed[s] \cap claimed[t] = {}
    /\ \A s \in Sessions : claimed[s] \cap (available \cup Foreign) = {}
    /\ available \cap Foreign = {}
    /\ Channels = available \cup Foreign \cup UNION {claimed[s] : s \in Sessions}

(* A Phantom whose started flag is set between calls has both channel       *)
(* objects, on two different channels that it holds: what isoIterate and    *)
(* stopPhantom dereference without a check of their own.                    *)
StartedHasChannels ==
    \A s \in Sessions :
        phase[s] = "idle" /\ started[s] =>
            /\ {channel[s].recv, channel[s].xmit} \subseteq claimed[s]
            /\ channel[s].recv # channel[s].xmit

(* Without a failed transaction no call loses a channel, also when the      *)
(* channels run out or another process wins the race for one in the middle  *)
(* of startPhantom.                                                         *)
NoChannelLeak ==
    \A s \in Sessions :
        ~faulted[s] /\ ~Busy(s) /\ ~started[s] => claimed[s] = {}

(* The host sends or listens only on channels it holds: a context is closed *)
(* before its channel is given back, on every path.                         *)
ActiveContexts(s) == IF phase[s] = "terminated" THEN {} ELSE contexts[s]
ContextsOnHeldChannels ==
    \A s \in Sessions : \A x \in ActiveContexts(s) : x[2] \in claimed[s]

Running(s) == /\ phase[s] = "idle" \/ Iterating(s)
              /\ started[s] /\ result[s] = "ok"

(* After a startPhantom that returned, the device was told the two channels *)
(* of its session and is enabled.  Needs a bus that loses no write silently *)
(* and a device of the session's own.                                       *)
RunningDeviceConfigured ==
    \A s \in Sessions :
        Running(s) => /\ registers[Device(s)].recv = channel[s].recv
                      /\ registers[Device(s)].xmit = channel[s].xmit
                      /\ "enable_iso" \in control[Device(s)]

(* After a startPhantom that returned, isoIterate never waits for ever: its *)
(* contexts are open and its device sends.  Same needs as the above.        *)
RunningIterates == \A s \in Sessions : Running(s) => ~Blocked(s)

(* When writes do get lost the read-backs still guarantee this much of a    *)
(* device of the session's own: it sends on the session's receive channel,  *)
(* or holds the probe pattern.                                              *)
RecvChannelConfirmed ==
    \A s \in Sessions :
        Running(s) => registers[Device(s)].recv \in {channel[s].recv, PROBE}

(* Every call comes back (or the process ends), but for an isoIterate that  *)
(* waits on a channel without a context or one on which no device sends.    *)
CallsReturn == \A s \in Sessions : Busy(s) ~> ~Busy(s) \/ Blocked(s)

(* PhantomIsoChannel.cpp:154: the transfer is enabled, so stop it.  After a *)
(* stopPhantom that returned the device no longer streams.                  *)
StoppedDeviceQuiet ==
    \A s \in Sessions :
        phase[s] = "idle" /\ ~started[s] /\ result[s] = "ok" =>
            "enable_iso" \notin control[Device(s)]

(* PhantomIsoChannel.cpp:67: the device is told which channels are used.    *)
RunningDeviceToldXmit ==
    \A s \in Sessions :
        Running(s) => registers[Device(s)].xmit = channel[s].xmit

-----------------------------------------------------------------------------
(* What the protocol as a whole provides: an allocator of channels.         *)
Nobody == "nobody"
Elsewhere == "elsewhere"           \* at a foreign node
Owner(c) == IF c \in available THEN Nobody
            ELSE IF \E s \in Sessions : c \in claimed[s]
                 THEN CHOOSE s \in Sessions : c \in claimed[s]
                 ELSE Elsewhere

Pool == INSTANCE ChannelPool WITH owner <- [c \in Channels |-> Owner(c)]
AllocatesChannels == Pool!Spec
=============================================================================
