--------------------------------- MODULE Omni ---------------------------------
(***************************************************************************)
(* The application rev-eng/omni.c: it looks for PHANTOM devices, sets each *)
(* of them up (initialise_device), exchanges isochronous data with them in *)
(* a loop around select(), sets a device up again when its receive handle  *)
(* reports a bus reset, and takes everything down when device 1 is docked. *)
(* Other nodes take channels and give them back at any time.               *)
(*                                                                         *)
(* Devices are numbered from 1 where the code counts from 0.  One step is  *)
(* one bus transaction or one turn of a library loop.                      *)
(***************************************************************************)
EXTENDS Integers, Sequences, FiniteSetsExt

CONSTANTS NumNodes,    \* the nodes of all ports in the order of the scan
          PortOf,      \* the port of each node
          NumChannels, \* 64 on a real bus
          Foreign,     \* channels that other nodes may hold, on every port
          Samples,     \* what a device can report
          MaxResets,   \* bound on the bus resets explored
          Faults       \* what may go wrong: "fail", "silent", "timeout"

MAX_DEVICES == 3
Nodes == 1 .. NumNodes
Ports == {PortOf[n] : n \in Nodes}
Channels == 0 .. NumChannels - 1
NONE == -1             \* the code's -1; also no isochronous context
PROBE == 64            \* 0x40
POWER_UP == 255

Bits == {0, 1}
Report == [docked : Bits, button1 : Bits, button2 : Bits]
Zeroed == [docked |-> 0, button1 |-> 0, button2 |-> 0]   \* static storage

ASSUME OmniAssumption ==
    /\ NumNodes \in 1 .. MAX_DEVICES /\ NumChannels \in 1 .. 64
    /\ DOMAIN PortOf = Nodes /\ Foreign \subseteq Channels
    /\ Samples \subseteq Report /\ MaxResets \in Nat
    /\ Faults \subseteq {"fail", "silent", "timeout"}

InitPlaces == {"handles", "readChannels", "allocRecv", "allocXmit",
               "writeXmit", "writeRecv", "readBack", "writeProbe",
               "readProbe", "rewrite", "checkStatus", "enable", "isoStart"}
LoopPlaces == {"select", "recv", "react", "xmit"}
CleanupPlaces == {"lastStatus", "disable", "shutdown", "free"}
Places == {"scan", "exited"} \cup InitPlaces \cup LoopPlaces \cup CleanupPlaces

VARIABLES
    place,
    scanned,                      \* nodes probed so far
    devices,                      \* devices[d] is the node of device d
    device,                       \* the loop variable of main
    full_init,                    \* 1 when main sets a device up
    recv_channel, xmit_channel,   \* of each device
    handles,                      \* devices whose three handles are open
    recvContext, xmitContext,     \* the channels the handles are tuned to
    data, force,                  \* phantom_data, status.motors_on
    phantom_docked, button2_pressed,
    exit,                         \* how main ended
    available,                    \* CHANNELS_AVAILABLE of each port
    got,                          \* history: the channels allocated for d
    taken,                        \* the channels other nodes hold on a port
    pending,                      \* bus resets that each handle has yet to tell
    resets,
    overlapped,                   \* history: a reset came during a setup, or
                                  \* before an earlier one was dealt with
    untold,                       \* history: a handle was closed that had
                                  \* yet to tell of a reset
    registers, enabled,           \* of each node
    sent, heard,                  \* history: last sample of a node, d got one
    faulted                       \* history: a transaction failed, or another
                                  \* node was first with an allocation

hostVars == <<scanned, devices, full_init>>
channelVars == <<recv_channel, xmit_channel, available, got, taken>>
contextVars == <<handles, recvContext, xmitContext>>
handVars == <<data, force, phantom_docked, button2_pressed, sent, heard>>
busVars == <<pending, resets, overlapped, untold>>
nodeVars == <<registers, enabled>>
vars == <<place, device, exit, hostVars, channelVars, contextVars,
          handVars, busVars, nodeVars, faulted>>

found_devices == Len(devices)
Found == 1 .. found_devices
Node == devices[device]
Port == PortOf[Node]

-----------------------------------------------------------------------------
(* Control flow.                                                            *)
Go(p) == place' = p /\ UNCHANGED <<device, exit>>
Exit(how) == place' = "exited" /\ exit' = how /\ UNCHANGED device

Fault(kind) == kind \in Faults /\ faulted' = TRUE

MoreDevicesLate(d) == d <= found_devices   \* mutant of MoreDevices
MoreDevices(d) == d < found_devices

(* The end of initialise_device: main goes on with the next device or with  *)
(* its loop, the bus reset handler reports an error and goes back into      *)
(* raw1394_loop_iterate.  The handler has no return statement, so what      *)
(* raw1394_loop_iterate returns is arbitrary, and with an old errno main    *)
(* may take it for an error.                                                *)
BackFromHandler == Go("react") \/ Exit("error")
InitDone ==
    \/ /\ full_init
       /\ \/ /\ MoreDevices(device)
             /\ place' = "handles"
             /\ device' = device + 1
             /\ UNCHANGED exit
          \/ ~MoreDevices(device) /\ Go("select")
    \/ ~full_init /\ BackFromHandler
TryAgain == Go("readChannels")            \* mutant of InitFails
InitFails == \/ full_init /\ Exit("error")
             \/ ~full_init /\ BackFromHandler

(* A transaction of easy-com.c: EAGAIN is repeated, another error fails.    *)
Transact(effect, others, then) ==
    \/ effect /\ Go(then) /\ UNCHANGED faulted
    \/ /\ Fault("fail") /\ InitFails
       /\ effect \/ UNCHANGED others

-----------------------------------------------------------------------------
(* main: look for SensAble devices on all nodes.  Whether a node is taken   *)
(* for one is up to the node: a failing probe only skips it.                *)
Scan ==
    /\ place = "scan"
    /\ \/ /\ scanned < NumNodes
          /\ scanned' = scanned + 1
          /\ devices' \in {devices, Append(devices, scanned + 1)}
          /\ Go("scan")
       \/ /\ scanned = NumNodes
          /\ UNCHANGED <<scanned, devices>>
          /\ \/ found_devices = 0 /\ Exit("none")
             \/ found_devices > 0 /\ Go("handles")
    /\ UNCHANGED <<full_init, channelVars, contextVars, handVars,
                   busVars, nodeVars, faulted>>

NewHandles ==
    /\ place = "handles"
    /\ Transact(TRUE, <<>>, "readChannels")
    /\ handles' = handles \cup {device}
    /\ UNCHANGED <<hostVars, channelVars, recvContext, xmitContext,
                   handVars, busVars, nodeVars>>

(* The two lowest free channels, from one read of both quadlets.            *)
Lowest(S) == IF S = {} THEN NONE ELSE Min(S)
SameAgain(free) == Lowest(free)            \* mutant of SecondFree
SecondFree(free) == Lowest(free \ {Lowest(free)})

ReadChannels ==
    LET free == available[Port] IN
    /\ place = "readChannels"
    /\ \/ /\ recv_channel' = [recv_channel EXCEPT ![device] = Lowest(free)]
          /\ xmit_channel' = [xmit_channel EXCEPT ![device] = SecondFree(free)]
          /\ \/ xmit_channel'[device] # NONE /\ Go("allocRecv")
             \/ xmit_channel'[device] = NONE /\ InitFails
          /\ UNCHANGED faulted
       \/ Fault("fail") /\ InitFails /\ UNCHANGED <<recv_channel, xmit_channel>>
    /\ UNCHANGED <<hostVars, available, got, taken, contextVars, handVars,
                   busVars, nodeVars>>

(* raw1394_channel_modify: nobody looks at its result.  It is refused when  *)
(* another node took the channel since it was read as free; a transaction   *)
(* that fails may have had its effect.                                      *)
Claim(c) == /\ c \in available[Port]
            /\ available' = [available EXCEPT ![Port] = @ \ {c}]
            /\ got' = [got EXCEPT ![device] = @ \cup {c}]
NoClaim == UNCHANGED <<available, got>>
NotAllocated(c) == NoClaim /\ UNCHANGED faulted   \* mutant of Allocate
Allocate(c) ==
    \/ Claim(c) /\ UNCHANGED faulted
    \/ /\ c \notin available[Port] /\ NoClaim
       /\ faulted' = (faulted \/ c \in taken[Port])
    \/ Fault("fail") /\ (Claim(c) \/ NoClaim)

AllocateChannel ==
    /\ \/ /\ place = "allocRecv"
          /\ Allocate(recv_channel[device])
          /\ Go("allocXmit")
       \/ /\ place = "allocXmit"
          /\ Allocate(xmit_channel[device])
          /\ Go("writeXmit")
    /\ UNCHANGED <<hostVars, recv_channel, xmit_channel, taken, contextVars,
                   handVars, busVars, nodeVars>>

WriteRegister(direction, value, then) ==
    Transact(registers' = [registers EXCEPT ![Node][direction] = value],
             registers, then)

WriteDevice ==
    /\ \/ /\ place = "writeXmit"
          /\ WriteRegister("xmit", xmit_channel[device], "writeRecv")
       \/ /\ place = "writeRecv"
          /\ WriteRegister("recv", recv_channel[device], "readBack")
       \/ /\ place = "writeProbe"
          /\ WriteRegister("recv", PROBE, "readProbe")
       \/ /\ place = "rewrite"
          /\ WriteRegister("recv", recv_channel[device], "checkStatus")
    /\ UNCHANGED <<hostVars, channelVars, contextVars, handVars,
                   busVars, enabled>>

Expect(value, then) ==
    \/ registers[Node].recv = value /\ Go(then) /\ UNCHANGED faulted
    \/ registers[Node].recv # value /\ InitFails /\ UNCHANGED faulted
    \/ Fault("fail") /\ InitFails

CheckDevice ==
    /\ \/ place = "readBack" /\ Expect(recv_channel[device], "writeProbe")
       \/ place = "readProbe" /\ Expect(PROBE, "rewrite")
       \/ place = "checkStatus" /\ Transact(TRUE, <<>>, "enable")
    /\ UNCHANGED <<hostVars, channelVars, contextVars, handVars,
                   busVars, nodeVars>>

(* ADDR_CONTROL read and written back with the bit set; nobody else writes. *)
Enable ==
    /\ place = "enable"
    /\ Transact(enabled' = [enabled EXCEPT ![Node] = TRUE], enabled,
                "isoStart")
    /\ UNCHANGED <<hostVars, channelVars, contextVars, handVars,
                   busVars, registers>>

(* The results of opening the two contexts are not looked at.  A handle     *)
(* that is open already may stay on its channel.                            *)
Opened(context, c) ==
    context' \in {[context EXCEPT ![device] = c]}
                 \cup IF full_init /\ "fail" \notin Faults THEN {}
                      ELSE {context}
IsoStart ==
    /\ place = "isoStart"
    /\ Opened(recvContext, recv_channel[device])
    /\ Opened(xmitContext, xmit_channel[device])
    /\ InitDone
    /\ faulted' = (\/ faulted
                   \/ full_init /\ \/ recvContext'[device] = NONE
                                   \/ xmitContext'[device] = NONE)
    /\ UNCHANGED <<hostVars, channelVars, handles, handVars, busVars,
                   nodeVars>>

-----------------------------------------------------------------------------
(* The loop of main.                                                        *)
Select ==
    /\ place = "select"
    /\ phantom_docked' = IF data[1].docked = 1 THEN 1 ELSE phantom_docked
    /\ \/ /\ place' = "recv"
          /\ device' = 1
          /\ UNCHANGED <<exit, faulted>>
       \/ /\ Fault("timeout")                  \* nothing for one second
          /\ Exit("timeout")
    /\ UNCHANGED <<hostVars, channelVars, contextVars, data, force,
                   button2_pressed, sent, heard, busVars, nodeVars>>

(* The next device of this round, or the condition of the loop.             *)
LoopGoesOn == data[1].docked # 0 \/ phantom_docked = 0
NextInRound ==
    \/ /\ MoreDevices(device)
       /\ place' = "recv"
       /\ device' = device + 1
       /\ UNCHANGED exit
    \/ ~MoreDevices(device) /\ LoopGoesOn /\ Go("select")
    \/ /\ ~MoreDevices(device) /\ ~LoopGoesOn
       /\ place' = "lastStatus"
       /\ device' = 1
       /\ UNCHANGED exit

(* A node's stream reaches the handle that is open on its channel.          *)
Streams(n) == /\ enabled[n] /\ PortOf[n] = Port
              /\ recvContext[device] # NONE
              /\ registers[n].recv = recvContext[device]

Receive(n, sample) ==
    /\ Streams(n)
    /\ data' = [data EXCEPT ![device] = sample]
    /\ sent' = [sent EXCEPT ![n] = sample]
    /\ heard' = [heard EXCEPT ![device] = TRUE]
    /\ Go("react")

(* A device that select did not report is passed over.  For the others,     *)
(* raw1394_loop_iterate(recv_handle) yields a sample, a bus reset, nothing, *)
(* or an error.                                                             *)
Recv ==
    /\ place = "recv"
    /\ \/ /\ NextInRound
          /\ UNCHANGED <<full_init, data, sent, heard, pending, faulted>>
       \/ /\ \E n \in Nodes, sample \in Samples : Receive(n, sample)
          /\ UNCHANGED <<full_init, pending, faulted>>
       \/ /\ pending[device] > 0                \* busreset_handler
          /\ pending' = [pending EXCEPT ![device] = @ - 1]
          /\ full_init' = FALSE
          /\ Go("readChannels")
          /\ UNCHANGED <<data, sent, heard, faulted>>
       \/ /\ \/ "silent" \in Faults /\ Go("react") /\ UNCHANGED faulted
             \/ Fault("fail") /\ Exit("error")
          /\ UNCHANGED <<full_init, data, sent, heard, pending>>
    /\ UNCHANGED <<scanned, devices, channelVars, contextVars, force,
                   phantom_docked, button2_pressed, resets, overlapped,
                   untold, nodeVars>>

(* Every allocation of a port is void after a reset of its bus; the other   *)
(* nodes take theirs again at once, but for those that give them back or    *)
(* take more (OtherNode).                                                   *)
ResetBus(p) ==
    /\ resets' = resets + 1
    /\ available' = [available EXCEPT ![p] = Channels \ taken[p]]
    /\ UNCHANGED <<taken, untold>>
    /\ got' = [d \in DOMAIN got |-> IF d \in Found /\ PortOf[devices[d]] = p
                                    THEN {} ELSE got[d]]
    /\ pending' = [d \in Nodes |-> IF d \in handles /\ PortOf[devices[d]] = p
                                    THEN pending[d] + 1 ELSE pending[d]]
    /\ overlapped' = (\/ overlapped \/ place \in InitPlaces
                      \/ \E d \in Nodes : pending'[d] > 1)

(* The buttons; releasing button 2 of device 1 resets the bus on purpose.   *)
Clicked == device = 1 /\ data[1].button2 # 0 /\ button2_pressed = 1
React ==
    /\ place = "react"
    /\ force' = [force EXCEPT ![device] = (data[device].button1 = 0)]
    /\ button2_pressed' = IF device # 1 THEN button2_pressed
                          ELSE 1 - data[1].button2
    /\ \/ /\ Clicked
          /\ \/ resets < MaxResets /\ ResetBus(Port)
             \/ resets >= MaxResets /\ UNCHANGED <<busVars, available, got, taken>>
       \/ ~Clicked /\ UNCHANGED <<busVars, available, got, taken>>
    /\ Go("xmit")
    /\ UNCHANGED <<hostVars, recv_channel, xmit_channel, contextVars,
                   data, phantom_docked, sent, heard, nodeVars, faulted>>

Xmit ==
    /\ place = "xmit"
    /\ \/ NextInRound /\ UNCHANGED faulted
       \/ Fault("fail") /\ Exit("error")
    /\ UNCHANGED <<hostVars, channelVars, contextVars, handVars,
                   busVars, nodeVars>>

-----------------------------------------------------------------------------
(* Taking down one device after the other; an unexpected status ends it all.*)
LastStatus ==
    /\ place = "lastStatus"
    /\ \/ Go("disable") /\ UNCHANGED faulted
       \/ Fault("fail") /\ Exit("error")
    /\ UNCHANGED <<hostVars, channelVars, contextVars, handVars,
                   busVars, nodeVars>>

KeepsBit(on) == on                         \* mutant of BitCleared
BitCleared(on) == FALSE

(* ADDR_CONTROL read and written with the bit cleared, errors unseen: a     *)
(* failed read leaves the zero of the status register in the buffer.        *)
Disable ==
    /\ place = "disable"
    /\ \/ /\ enabled' = [enabled EXCEPT ![Node] = BitCleared(@)]
          /\ UNCHANGED faulted
       \/ Fault("fail") /\ UNCHANGED enabled
    /\ Go("shutdown")
    /\ UNCHANGED <<hostVars, channelVars, contextVars, handVars,
                   busVars, registers>>

Shutdown ==
    /\ place = "shutdown"
    /\ recvContext' = [recvContext EXCEPT ![device] = NONE]
    /\ xmitContext' = [xmitContext EXCEPT ![device] = NONE]
    /\ Go("free")
    /\ UNCHANGED <<hostVars, channelVars, handles, handVars, busVars,
                   nodeVars, faulted>>

(* Both channels are given back, whoever holds them, and the handles of the *)
(* device are closed.  Nobody looks at the results here either.             *)
OwnChannels == {recv_channel[device], xmit_channel[device]}
OneFound == OwnChannels # {NONE}           \* mutant of BothFound
BothFound == NONE \notin OwnChannels

GiveBack(S) ==
    /\ available' = [available EXCEPT ![Port] = @ \cup S]
    /\ got' = [d \in DOMAIN got |-> IF d \in Found /\ PortOf[devices[d]] = Port
                                    THEN got[d] \ S ELSE got[d]]
    /\ taken' = [taken EXCEPT ![Port] = @ \ S]

FreeChannels ==
    /\ place = "free"
    /\ \/ BothFound /\ GiveBack(OwnChannels \ {NONE}) /\ UNCHANGED faulted
       \/ BothFound /\ Fault("fail") /\ \E S \in SUBSET OwnChannels : GiveBack(S)
       \/ ~BothFound /\ UNCHANGED <<available, got, taken, faulted>>
    /\ untold' = (untold \/ pending[device] > 0)
    /\ pending' = [pending EXCEPT ![device] = 0]
    /\ handles' = handles \ {device}
    /\ \/ /\ MoreDevices(device)
          /\ place' = "lastStatus"
          /\ device' = device + 1
          /\ UNCHANGED exit
       \/ ~MoreDevices(device) /\ Exit("done")
    /\ UNCHANGED <<hostVars, recv_channel, xmit_channel, recvContext,
                   xmitContext, handVars, resets, overlapped, nodeVars>>

-----------------------------------------------------------------------------
(* Somebody else resets a bus, at any time.                                 *)
BusReset ==
    /\ resets < MaxResets /\ place # "exited"
    /\ \E p \in Ports : ResetBus(p)
    /\ UNCHANGED <<place, device, exit, hostVars, recv_channel,
                   xmit_channel, contextVars, handVars, nodeVars, faulted>>

(* Another node takes a channel that is free, or gives one back.            *)
OtherNode ==
    /\ place # "exited"
    /\ \E p \in Ports, c \in Foreign :
          \/ /\ c \in available[p]
             /\ available' = [available EXCEPT ![p] = @ \ {c}]
             /\ taken' = [taken EXCEPT ![p] = @ \cup {c}]
          \/ /\ c \in taken[p]
             /\ available' = [available EXCEPT ![p] = @ \cup {c}]
             /\ taken' = [taken EXCEPT ![p] = @ \ {c}]
    /\ UNCHANGED <<place, device, exit, hostVars, recv_channel, xmit_channel,
                   got, contextVars, handVars, busVars, nodeVars, faulted>>

Init ==
    /\ place = "scan" /\ scanned = 0 /\ devices = <<>> /\ device = 1
    /\ full_init = TRUE /\ exit = "no"
    /\ recv_channel = [d \in Nodes |-> 0] /\ xmit_channel = [d \in Nodes |-> 0]
    /\ handles = {} /\ recvContext = [d \in Nodes |-> NONE]
    /\ xmitContext = [d \in Nodes |-> NONE]
    /\ data = [d \in Nodes |-> Zeroed] /\ force = [d \in Nodes |-> FALSE]
    /\ phantom_docked = 0 /\ button2_pressed = 0
    /\ taken \in [Ports -> SUBSET Foreign]
    /\ available = [p \in Ports |-> Channels \ taken[p]]
    /\ got = [d \in Nodes |-> {}]
    /\ pending = [d \in Nodes |-> 0] /\ resets = 0
    /\ overlapped = FALSE /\ untold = FALSE
    /\ registers = [n \in Nodes |-> [recv |-> POWER_UP, xmit |-> POWER_UP]]
    /\ enabled = [n \in Nodes |-> FALSE]
    /\ sent = [n \in Nodes |-> Zeroed] /\ heard = [d \in Nodes |-> FALSE]
    /\ faulted = FALSE

Initialise == \/ NewHandles \/ ReadChannels \/ AllocateChannel \/ WriteDevice
              \/ CheckDevice \/ Enable \/ IsoStart
Loop == Select \/ Recv \/ React \/ Xmit
Cleanup == LastStatus \/ Disable \/ Shutdown \/ FreeChannels
Run == Scan \/ Initialise \/ Loop \/ Cleanup
Next == Run \/ BusReset \/ OtherNode

Spec == Init /\ [][Next]_vars
(* The program runs; select returns for a device that streams, or times out. *)
FairSpec == Spec /\ WF_vars(Run)

-----------------------------------------------------------------------------
TypeOK ==
    /\ place \in Places /\ scanned \in 0 .. NumNodes
    /\ devices \in Seq(Nodes) /\ found_devices <= scanned
    /\ device = 1 \/ device \in Found
    /\ full_init \in BOOLEAN
    /\ exit \in {"no", "none", "error", "timeout", "done"}
    /\ \A ch \in {recv_channel, xmit_channel, recvContext, xmitContext} :
          ch \in [Nodes -> Channels \cup {NONE}]
    /\ data \in [Nodes -> Report] /\ force \in [Nodes -> BOOLEAN]
    /\ {phantom_docked, button2_pressed} \subseteq Bits
    /\ available \in [Ports -> SUBSET Channels]
    /\ got \in [Nodes -> SUBSET Channels]
    /\ taken \in [Ports -> SUBSET Foreign]
    /\ handles \subseteq Found /\ {overlapped, untold} \subseteq BOOLEAN
    /\ pending \in [Nodes -> 0 .. MaxResets] /\ resets \in 0 .. MaxResets
    /\ \A d \in Nodes \ handles : pending[d] = 0
    /\ registers \in [Nodes -> [{"recv", "xmit"} ->
                                   Channels \cup {PROBE, POWER_UP}]]
    /\ enabled \in [Nodes -> BOOLEAN]
    /\ sent \in [Nodes -> Report] /\ heard \in [Nodes -> BOOLEAN]
    /\ faulted \in BOOLEAN

(* Once a bus reset has been dealt with, each device that found two         *)
(* channels holds them for itself alone, whatever order the handles report  *)
(* the reset in and whatever other nodes took meanwhile; only a setup after *)
(* a reset goes on without them.  A second reset that comes before all      *)
(* handles told of the first one breaks this: a device is then set up twice *)
(* and the channels of the first setup are lost, until there are none left. *)
ChannelsOf(d) == {recv_channel[d], xmit_channel[d]}
ChannelsAreOwn ==
    /\ place = "select" /\ ~faulted /\ ~overlapped
    /\ \A d \in Found : pending[d] = 0
    =>
        \A d \in Found :
            /\ \/ ChannelsOf(d) \subseteq got[d] /\ recv_channel[d] # xmit_channel[d]
               \/ NONE \in ChannelsOf(d) /\ ~full_init
            /\ got[d] \cap taken[PortOf[devices[d]]] = {}
            /\ \A e \in Found \ {d} : PortOf[devices[d]] = PortOf[devices[e]]
                                         => got[d] \cap got[e] = {}

(* As long as no bus reset came in between, what a device's data say was    *)
(* sent by that device: buttons of one never move the motors of another.    *)
DataFromOwnDevice ==
    resets = 0 /\ ~faulted =>
        \A d \in Found : heard[d] => data[d] = sent[devices[d]]

(* omni takes no channel away from another node, however resets overlap,    *)
(* and also when a setup after a reset finds one free channel or none.  It  *)
(* frees what its table says without asking whose it is (omni.c:651), so    *)
(* this ends when an allocation was refused or failed unseen (omni.c:381),  *)
(* when a failed setup left an old table, or when a device was taken down   *)
(* before its handle told of a reset.                                       *)
ForeignStaysTaken ==
    [][Run /\ ~faulted /\ ~untold' => UNCHANGED taken]_vars

(* An orderly end leaves no device streaming, no context open and no        *)
(* channel allocated for omni, after any number of separate bus resets.     *)
CleanExit ==
    exit = "done" /\ ~faulted /\ ~overlapped =>
        /\ handles = {}
        /\ \A d \in Found : /\ ~enabled[devices[d]]
                            /\ {recvContext[d], xmitContext[d]} = {NONE}
        /\ \A p \in Ports : available[p] = Channels \ taken[p]

(* Setting up and taking down come to an end.                               *)
SetupAndCleanupEnd ==
    place \in InitPlaces \cup CleanupPlaces ~>
        place \in {"select", "react", "exited"}

(* omni.c:264: hold button 1 to apply force.  The motors are on only for a  *)
(* device that reported its button, ever.                                   *)
ForceNeedsButton ==
    \A d \in Found : place = "xmit" /\ force[d] => heard[d]
=============================================================================
