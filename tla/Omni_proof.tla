----------------------------- MODULE Omni_proof -----------------------------
(***************************************************************************)
(* omni with any number of channels, whatever other nodes take and give    *)
(* back, for any bus resets and faults.  The heart of the proof is the     *)
(* bookkeeping of the channels of a port across bus resets that come one   *)
(* at a time: every handle that has not yet reported the reset holds       *)
(* nothing, and whoever was set up again holds what its table says.        *)
(***************************************************************************)
EXTENDS Omni, WellFoundedInduction, TLAPS

On(p) == {d \in Found : PortOf[devices[d]] = p}
Tuned == InitPlaces \ {"handles", "readChannels"}
Allocated == Tuned \ {"allocRecv", "allocXmit"}

-----------------------------------------------------------------------------
(* What holds always: the types, variable by variable, and with them how   *)
(* the place, the device and the handles go together.                       *)
ControlOK ==
    /\ place \in Places /\ scanned \in 0 .. NumNodes
    /\ devices \in Seq(Nodes) /\ found_devices <= scanned
    /\ \A d \in Found : devices[d] <= scanned
    /\ \A d, e \in Found : devices[d] = devices[e] => d = e
    /\ full_init \in BOOLEAN
    /\ exit \in {"no", "none", "error", "timeout", "done"}
    /\ place = "exited" <=> exit # "no"
    /\ device = 1 \/ device \in Found
    /\ place = "scan" => device = 1
    /\ place \notin {"scan", "exited"} => device \in Found
    /\ place \in {"scan", "handles"} => full_init

(* A device that is given channels has found both.                          *)
ChannelsOK ==
    /\ recv_channel \in [Nodes -> Channels \cup {NONE}]
    /\ xmit_channel \in [Nodes -> Channels \cup {NONE}]
    /\ available \in [Ports -> SUBSET Channels]
    /\ got \in [Nodes -> SUBSET Channels]
    /\ taken \in [Ports -> SUBSET Foreign]
    /\ place \in Tuned => ChannelsOf(device) \subseteq Channels

ContextsOK ==
    /\ recvContext \in [Nodes -> Channels \cup {NONE}]
    /\ xmitContext \in [Nodes -> Channels \cup {NONE}]

HandOK ==
    /\ data \in [Nodes -> Report] /\ force \in [Nodes -> BOOLEAN]
    /\ phantom_docked \in Bits /\ button2_pressed \in Bits
    /\ sent \in [Nodes -> Report] /\ heard \in [Nodes -> BOOLEAN]
    /\ \A d \in Nodes : heard[d] => d \in Found

BusOK ==
    /\ handles \subseteq Found /\ overlapped \in BOOLEAN /\ untold \in BOOLEAN
    /\ place = "scan" => handles = {}
    /\ pending \in [Nodes -> Nat] /\ resets \in 0 .. MaxResets
    /\ \A d \in Nodes : pending[d] <= resets
    /\ \A d \in Nodes \ handles : pending[d] = 0
    /\ resets = 0 => full_init /\ ~overlapped

NodeOK ==
    /\ registers \in [Nodes -> [{"recv", "xmit"} ->
                                   Channels \cup {PROBE, POWER_UP}]]
    /\ enabled \in [Nodes -> BOOLEAN]
    /\ faulted \in BOOLEAN

TInv == ControlOK /\ ChannelsOK /\ ContextsOK /\ HandOK /\ BusOK /\ NodeOK

-----------------------------------------------------------------------------
(* As long as resets come one at a time and no fault occurred.  Which       *)
(* devices are set up, and which are not yet.                               *)
IsSetUp(d) ==
    \/ place \in LoopPlaces
    \/ place \in InitPlaces /\ \/ full_init /\ d < device
                               \/ ~full_init /\ d # device
NotYet(d) ==
    \/ place = "scan"
    \/ place \in InitPlaces /\ full_init /\ d > device
    \/ place = "handles" /\ d = device

(* The channels of a port are divided among its devices, the other nodes    *)
(* and the free ones.                                                       *)
Divided ==
    /\ \A p \in Ports, c \in Channels :
          c \in available[p] <=> c \notin taken[p] /\ \A d \in On(p) : c \notin got[d]
    /\ \A p \in Ports : \A d \in On(p) : got[d] \cap taken[p] = {}
    /\ \A d, e \in Found : d # e /\ PortOf[devices[d]] = PortOf[devices[e]]
                              => got[d] \cap got[e] = {}

Two(d) == recv_channel[d] # xmit_channel[d] /\ ChannelsOf(d) \subseteq Channels

(* A device holds its two channels, or has yet to tell of a reset and holds *)
(* none, or found no two after a reset and does without.                    *)
SetUpOK(d) ==
    /\ d \in handles
    /\ \/ pending[d] = 0 /\ Two(d) /\ got[d] = ChannelsOf(d)
       \/ pending[d] = 1 /\ got[d] = {}
       \/ ~full_init /\ NONE \in ChannelsOf(d) /\ got[d] = {}

NotYetOK(d) == got[d] = {} /\ d \notin handles

(* How far a setup has come with its channels.  What it read as free is     *)
(* free or was taken by another node.                                       *)
SetupOK ==
    /\ place \in InitPlaces => pending[device] = 0
    /\ place \in InitPlaces /\ full_init => \A d \in Found : pending[d] = 0
    /\ place \in InitPlaces \ {"handles"} => device \in handles
    /\ place \in {"handles", "readChannels", "allocRecv"} => got[device] = {}
    /\ place \in {"allocRecv", "allocXmit"} =>
           Two(device) /\ xmit_channel[device] \in available[Port] \cup taken[Port]
    /\ place = "allocRecv" =>
           recv_channel[device] \in available[Port] \cup taken[Port]
    /\ place = "allocXmit" => got[device] = {recv_channel[device]}
    /\ place \in Allocated => Two(device) /\ got[device] = ChannelsOf(device)

(* Taken down: nothing is left of the device.  Before that, it holds        *)
(* nothing that its table does not say, and that is given back.             *)
Down(d) ==
    /\ got[d] = {} /\ d \notin handles /\ ~enabled[devices[d]]
    /\ recvContext[d] = NONE /\ xmitContext[d] = NONE
Listed(d) == /\ got[d] \subseteq ChannelsOf(d)
             /\ NONE \in ChannelsOf(d) => got[d] = {}
CleanupOK ==
    /\ place \in CleanupPlaces =>
          /\ \A d \in Found : d < device => Down(d)
          /\ \A d \in Found : d >= device => Listed(d)
    /\ place \in {"shutdown", "free"} => ~enabled[Node]
    /\ place = "free" => recvContext[device] = NONE /\ xmitContext[device] = NONE
    /\ exit = "done" => \A d \in Found : Down(d)

Orderly == ~faulted /\ ~overlapped /\ exit \in {"no", "done"}
Books ==
    /\ Divided
    /\ \A d \in Nodes : NotYet(d) => NotYetOK(d)
    /\ \A d \in Found : IsSetUp(d) => SetUpOK(d)
    /\ \A d \in Found : pending[d] <= 1
    /\ SetupOK
    /\ CleanupOK
GInv == Orderly => Books

-----------------------------------------------------------------------------
(* Before the first bus reset: a device that streams, streams on its own    *)
(* channel, and so does its handle listen.                                  *)
StreamsOK(n) ==
    enabled[n] => \E d \in Found : /\ devices[d] = n
                                   /\ registers[n].recv = recv_channel[d]
                                   /\ IsSetUp(d) \/ (d = device /\ place = "isoStart")
ListensOK(d) == /\ recvContext[d] \in {NONE, recv_channel[d]}
                /\ recvContext[d] # NONE => IsSetUp(d)
Written ==
    place \in {"checkStatus", "enable", "isoStart"} =>
        registers[Node].recv = recv_channel[device]
SaidByOwn == \A d \in Found : heard[d] => data[d] = sent[devices[d]]
AirPlaces == {"scan"} \cup InitPlaces \cup LoopPlaces
OnAir ==
    /\ Written
    /\ place \in AirPlaces =>
           /\ \A n \in Nodes : StreamsOK(n)
           /\ \A d \in Found : ListensOK(d)
           /\ \A d \in Nodes : NotYet(d) => recvContext[d] = NONE
    /\ SaidByOwn
Quiet == resets = 0 /\ ~faulted
DInv == Quiet => OnAir
-----------------------------------------------------------------------------
(* Constants, and the lowest of a set of channels.                          *)
LEMMA Constants ==
    /\ NumNodes \in Nat /\ 1 \in Nodes /\ Nodes \subseteq 1 .. 3
    /\ \A d : d \in Nodes <=> d \in Nat /\ 1 <= d /\ d <= NumNodes
    /\ \A n \in Nodes : PortOf[n] \in Ports
    /\ Channels \subseteq 0 .. 63 /\ Foreign \subseteq Channels
    /\ NONE \notin Channels /\ PROBE \notin Channels /\ POWER_UP \notin Channels
    /\ MaxResets \in Nat /\ Samples \subseteq Report /\ Zeroed \in Report
BY OmniAssumption
   DEF Nodes, Ports, Channels, NONE, PROBE, POWER_UP, MAX_DEVICES, Report,
       Zeroed, Bits

LEMMA LeastNatural ==
    ASSUME NEW S, S \subseteq Nat, S # {}
    PROVE  \E x \in S : \A y \in S : x <= y
<1> DEFINE R == {ss \in Nat \X Nat : ss[1] < ss[2]}
<1>1. IsWellFoundedOn(R, Nat)
    BY NatLessThanWellFounded DEF OpToRel
<1>2. \E x \in S : \A y \in S : <<y, x>> \notin R
    BY <1>1, WFMin
<1>3. \A x, y \in Nat : <<y, x>> \notin R => x <= y
  <2> SUFFICES ASSUME NEW x \in Nat, NEW y \in Nat, ~(x <= y)
               PROVE  <<y, x>> \in R
      OBVIOUS
  <2>1. <<y, x>> \in Nat \X Nat /\ <<y, x>>[1] = y /\ <<y, x>>[2] = x /\ y < x
      OBVIOUS
  <2>2. QED
      BY <2>1
<1>4. QED
    BY <1>2, <1>3

LEMMA LowestIs ==
    ASSUME NEW S, S \subseteq Channels
    PROVE  IF S = {} THEN Lowest(S) = NONE ELSE Lowest(S) \in S
<1>1. CASE S # {}
  <2>1. S \subseteq Nat
      BY Constants
  <2> \E x \in S : \A y \in S : x <= y
      BY <1>1, <2>1, LeastNatural
  <2>2. Min(S) \in S
      BY Zenon DEF Min
  <2>3. QED
      BY <1>1, <2>2 DEF Lowest
<1>2. QED
    BY <1>1 DEF Lowest

LEMMA SecondFreeIs ==
    ASSUME NEW S, S \subseteq Channels, SecondFree(S) # NONE
    PROVE  Lowest(S) \in S /\ SecondFree(S) \in S /\ Lowest(S) # SecondFree(S)
<1> DEFINE R == S \ {Lowest(S)}
<1>1. R \subseteq Channels /\ R # {} /\ Lowest(R) \in R
    BY LowestIs DEF SecondFree
<1>2. S # {} /\ Lowest(S) \in S
    BY <1>1, LowestIs
<1>3. QED
    BY <1>1, <1>2 DEF SecondFree

-----------------------------------------------------------------------------
(* Type correctness, and what else holds whatever happens.                  *)
LEMMA TypesHold == TInv => TypeOK
<1> SUFFICES ASSUME TInv PROVE TypeOK
    OBVIOUS
<1>1. pending \in [Nodes -> 0 .. MaxResets]
  <2>1. \A d \in Nodes : pending[d] \in Nat /\ pending[d] <= resets
      BY DEF TInv, BusOK
  <2>2. \A d \in Nodes : pending[d] \in 0 .. MaxResets
      BY <2>1, Constants DEF TInv, BusOK
  <2>3. QED
      BY <2>2 DEF TInv, BusOK
<1>2. ControlOK /\ ChannelsOK /\ ContextsOK
    BY DEF TInv
<1>3. HandOK /\ BusOK /\ NodeOK
    BY DEF TInv
<1>4. \A ch \in {recv_channel, xmit_channel, recvContext, xmitContext} :
          ch \in [Nodes -> Channels \cup {NONE}]
    BY <1>2 DEF ChannelsOK, ContextsOK
<1>5. {phantom_docked, button2_pressed} \subseteq Bits
    BY <1>3 DEF HandOK
<1>6. QED
    BY <1>1, <1>2, <1>3, <1>4, <1>5
       DEF TypeOK, ControlOK, ChannelsOK, HandOK, BusOK, NodeOK

LEMMA InitTInv == Init => TInv
<1> SUFFICES ASSUME Init PROVE TInv
    OBVIOUS
<1> USE DEF Init
<1>1. found_devices = 0 /\ Found = {} /\ devices \in Seq(Nodes)
    BY DEF found_devices, Found
<1>2. ControlOK
    BY <1>1, Constants DEF ControlOK, Places
<1>3. ChannelsOK
  <2>1. 0 \in Channels
      BY OmniAssumption DEF Channels
  <2>2. available \in [Ports -> SUBSET Channels]
      OBVIOUS
  <2>3. QED
      BY <2>1, <2>2, Constants DEF ChannelsOK, Tuned, InitPlaces
<1>4. ContextsOK
    BY DEF ContextsOK
<1>5. HandOK
    BY Constants DEF HandOK, Bits
<1>6. BusOK
  <2>1. resets \in 0 .. MaxResets
      BY Constants
  <2>2. overlapped \in BOOLEAN /\ untold \in BOOLEAN
      OBVIOUS
  <2>3. handles \subseteq Found /\ pending \in [Nodes -> Nat]
      OBVIOUS
  <2>4. QED
      BY <2>1, <2>2, <2>3 DEF BusOK
<1>7. NodeOK
  <2>1. enabled \in [Nodes -> BOOLEAN] /\ faulted \in BOOLEAN
      OBVIOUS
  <2>2. QED
      BY <2>1 DEF NodeOK
<1>8. QED
    BY <1>2, <1>3, <1>4, <1>5, <1>6, <1>7 DEF TInv

LEMMA Current ==
    ASSUME ControlOK
    PROVE  /\ found_devices \in Nat /\ found_devices <= NumNodes
           /\ Found \subseteq Nodes
           /\ \A d \in Found : devices[d] \in Nodes /\ PortOf[devices[d]] \in Ports
           /\ device \in Nat /\ device >= 1
           /\ place \notin {"scan", "exited"} =>
                  /\ device \in Found /\ device \in Nodes
                  /\ Node \in Nodes /\ Port \in Ports
<1>1. found_devices \in Nat /\ found_devices <= NumNodes
    BY Constants DEF ControlOK, found_devices
<1>2. Found \subseteq Nodes
    BY <1>1, Constants DEF Found
<1>3. \A d \in Found : devices[d] \in Nodes /\ PortOf[devices[d]] \in Ports
    BY <1>1, Constants DEF ControlOK, Found, found_devices
<1>4. device \in Nat /\ device >= 1
    BY <1>2, Constants DEF ControlOK
<1>5. QED
    BY <1>1, <1>2, <1>3, <1>4 DEF ControlOK, Node, Port

(* The control flow: from a place with a device to another one, or out.     *)
Moved ==
    /\ place \notin {"scan", "exited"}
    /\ UNCHANGED <<scanned, devices>> /\ full_init' \in BOOLEAN
    /\ place' \in Places \ {"scan"} /\ device' \in Found
    /\ \/ place' # "exited" /\ UNCHANGED exit
       \/ place' = "exited" /\ exit' \in {"error", "timeout", "done"}
    /\ place' = "handles" => full_init'

LEMMA MovedControl ==
    ASSUME ControlOK, Moved
    PROVE  ControlOK' /\ Found' = Found
BY DEF ControlOK, Moved, Found, found_devices

LEMMA NextDevice ==
    ASSUME ControlOK, place \notin {"scan", "exited"}, MoreDevices(device)
    PROVE  device + 1 \in Found
BY Current DEF MoreDevices, Found

LEMMA FirstDevice ==
    ASSUME ControlOK, place \notin {"scan", "exited"}
    PROVE  1 \in Found
BY Current DEF Found

LEMMA GoMoved ==
    ASSUME ControlOK, place \notin {"scan", "exited"}, UNCHANGED hostVars,
           NEW p \in Places \ {"scan", "handles", "exited"}, Go(p)
    PROVE  Moved
BY DEF ControlOK, Moved, Go, hostVars

LEMMA ExitMoved ==
    ASSUME ControlOK, place \notin {"scan", "exited"}, UNCHANGED hostVars,
           NEW how \in {"error", "timeout", "done"}, Exit(how)
    PROVE  Moved
BY DEF ControlOK, Moved, Exit, hostVars, Places

LEMMA InitEndsMoved ==
    ASSUME ControlOK, place \notin {"scan", "exited"}, UNCHANGED hostVars,
           InitDone \/ InitFails
    PROVE  Moved
<1>1. {"select", "react"} \subseteq Places \ {"scan", "handles", "exited"}
    BY DEF Places, LoopPlaces
<1>2. CASE /\ full_init /\ MoreDevices(device)
           /\ place' = "handles" /\ device' = device + 1 /\ UNCHANGED exit
    BY <1>2, NextDevice DEF Moved, Places, InitPlaces, hostVars, ControlOK
<1>3. QED
    BY <1>1, <1>2, GoMoved, ExitMoved DEF InitDone, InitFails, BackFromHandler

LEMMA RoundMoved ==
    ASSUME ControlOK, place \notin {"scan", "exited"}, UNCHANGED hostVars,
           NextInRound
    PROVE  Moved
<1>1. {"select", "recv", "lastStatus"} \subseteq Places \ {"scan", "handles", "exited"}
    BY DEF Places, LoopPlaces, CleanupPlaces
<1>2. QED
    BY <1>1, NextDevice, FirstDevice, GoMoved
       DEF NextInRound, Moved, hostVars, ControlOK
(* The parts that a step leaves alone.                                      *)
LEMMA ChannelsKept ==
    ASSUME ChannelsOK, UNCHANGED channelVars,
           place' \in Tuned => place \in Tuned /\ UNCHANGED device
    PROVE  ChannelsOK'
BY DEF ChannelsOK, channelVars, ChannelsOf

LEMMA ContextsKept ==
    ASSUME ContextsOK, UNCHANGED <<recvContext, xmitContext>>
    PROVE  ContextsOK'
BY DEF ContextsOK

LEMMA HandKept ==
    ASSUME HandOK, UNCHANGED handVars, Found \subseteq Found'
    PROVE  HandOK'
BY DEF HandOK, handVars

LEMMA BusKept ==
    ASSUME BusOK, UNCHANGED <<busVars, handles>>, Found \subseteq Found',
           place' = "scan" => place = "scan",
           UNCHANGED full_init
    PROVE  BusOK'
BY DEF BusOK, busVars

LEMMA NodeKept ==
    ASSUME NodeOK, UNCHANGED nodeVars, faulted' \in BOOLEAN
    PROVE  NodeOK'
BY DEF NodeOK, nodeVars

LEMMA FaultType == ASSUME NEW kind, Fault(kind) PROVE faulted' \in BOOLEAN
BY DEF Fault

LEMMA ScanTInv == TInv /\ Scan => TInv'
<1> SUFFICES ASSUME TInv, Scan PROVE TInv'
    OBVIOUS
<1> USE DEF TInv, Scan
<1>1. Found \subseteq Found' /\ ControlOK'
  <2>1. CASE place' = "scan"
    <3>1. /\ scanned + 1 \in 1 .. NumNodes /\ scanned' = scanned + 1
          /\ UNCHANGED <<full_init, device, exit>> /\ scanned \in Nat
        BY <2>1, Constants DEF ControlOK, Go, Exit
    <3>2. CASE devices' = devices
      <4>1. Found' = Found /\ found_devices' = found_devices
          BY <3>2 DEF Found, found_devices
      <4>2. \A d \in Found : devices[d] \in Nat
          BY Current, Constants
      <4>3. found_devices \in Nat
          BY Current
      <4>4. QED
          BY <2>1, <3>1, <3>2, <4>1, <4>2, <4>3 DEF ControlOK
    <3>3. CASE devices' = Append(devices, scanned + 1)
      <4>1. scanned + 1 \in Nodes
          BY <3>1, Constants
      <4>2. /\ devices' \in Seq(Nodes)
            /\ found_devices' = found_devices + 1 /\ found_devices \in Nat
            /\ \A d \in Found : devices'[d] = devices[d]
            /\ devices'[found_devices'] = scanned + 1
          BY <3>3, <4>1 DEF ControlOK, Found, found_devices
      <4>3. Found' = Found \cup {found_devices'} /\ found_devices' \notin Found
          BY <4>2 DEF Found
      <4>4. /\ \A d \in Found' : devices'[d] <= scanned'
            /\ \A d, e \in Found' : devices'[d] = devices'[e] => d = e
        <5>1. \A d \in Found : devices[d] \in Nat /\ devices[d] <= scanned
            BY Current, Constants DEF ControlOK
        <5>2. QED
            BY <3>1, <4>2, <4>3, <5>1 DEF ControlOK
      <4>5. QED
          BY <2>1, <3>1, <4>2, <4>3, <4>4 DEF ControlOK
    <3>4. QED
        BY <2>1, <3>2, <3>3 DEF Go, Exit
  <2>2. CASE place' # "scan"
    <3>1. UNCHANGED <<scanned, devices, full_init, device>> /\ Found' = Found
        BY <2>2 DEF Go, Exit, Found, found_devices
    <3>2. \/ place' = "exited" /\ exit' = "none"
          \/ place' = "handles" /\ exit' = exit /\ found_devices > 0
        BY <2>2 DEF Go, Exit
    <3>3. place' \in Places /\ (place' = "handles" => device \in Found)
        BY <3>2, Current DEF Places, InitPlaces, Found, ControlOK
    <3>4. /\ \A d \in Found' : devices'[d] <= scanned'
          /\ \A d, e \in Found' : devices'[d] = devices'[e] => d = e
          /\ found_devices' <= scanned'
        BY <3>1 DEF ControlOK, found_devices
    <3>5. QED
        BY <3>1, <3>2, <3>3, <3>4 DEF ControlOK
  <2>3. QED
      BY <2>1, <2>2
<1>2. place' \in {"scan", "handles", "exited"}
    BY DEF Go, Exit
<1>3. ChannelsOK'
    BY <1>2, ChannelsKept DEF Tuned, InitPlaces
<1>4. ContextsOK' /\ HandOK' /\ BusOK' /\ NodeOK'
    BY <1>1, ContextsKept, HandKept, BusKept, NodeKept
       DEF contextVars, nodeVars, NodeOK
<1>5. QED
    BY <1>1, <1>3, <1>4

LEMMA NewHandlesTInv == TInv /\ NewHandles => TInv'
<1> SUFFICES ASSUME TInv, NewHandles PROVE TInv'
    OBVIOUS
<1> USE DEF TInv, NewHandles
<1>1. full_init
    BY DEF ControlOK
<1>2. Moved
  <2>1. "readChannels" \in Places \ {"scan", "handles", "exited"}
      BY DEF Places, InitPlaces
  <2>2. QED
      BY <2>1, GoMoved, InitEndsMoved DEF Transact
<1>3. ControlOK' /\ Found' = Found /\ device \in Found
    BY <1>2, MovedControl, Current
<1>4. place' \notin Tuned /\ place' # "scan"
    BY <1>1 DEF Transact, Go, Exit, InitFails, Tuned, InitPlaces
<1>5. ChannelsOK' /\ ContextsOK' /\ HandOK'
    BY <1>3, <1>4, ChannelsKept, ContextsKept, HandKept
<1>6. BusOK'
    BY <1>3, <1>4 DEF BusOK, busVars, hostVars
<1>7. NodeOK'
    BY NodeKept, FaultType DEF Transact, NodeOK
<1>8. QED
    BY <1>3, <1>5, <1>6, <1>7

LEMMA ReadChannelsTInv == TInv /\ ReadChannels => TInv'
<1> SUFFICES ASSUME TInv, ReadChannels PROVE TInv'
    OBVIOUS
<1> USE DEF TInv, ReadChannels
<1> DEFINE free == available[Port]
<1>1. Moved
  <2>1. "allocRecv" \in Places \ {"scan", "handles", "exited"}
      BY DEF Places, InitPlaces
  <2>2. QED
      BY <2>1, GoMoved, InitEndsMoved
<1>2. ControlOK' /\ Found' = Found /\ device \in Nodes /\ Port \in Ports
    BY <1>1, MovedControl, Current
<1>3. free \subseteq Channels
    BY <1>2 DEF ChannelsOK
<1>4. Lowest(free) \in Channels \cup {NONE} /\ SecondFree(free) \in Channels \cup {NONE}
  <2>1. free \ {Lowest(free)} \subseteq Channels
      BY <1>3
  <2>2. QED
      BY <1>3, <2>1, LowestIs DEF SecondFree
<1>5. ChannelsOK'
  <2>1. CASE place' \in Tuned
    <3>1. place' = "allocRecv" /\ UNCHANGED device
        BY <2>1 DEF Go, Exit, InitFails, BackFromHandler, Tuned, InitPlaces
    <3>2. /\ recv_channel' = [recv_channel EXCEPT ![device] = Lowest(free)]
          /\ xmit_channel' = [xmit_channel EXCEPT ![device] = SecondFree(free)]
          /\ xmit_channel'[device] # NONE
        BY <3>1 DEF Go, Exit, InitFails, BackFromHandler
    <3>3. SecondFree(free) # NONE
        BY <1>2, <3>2 DEF ChannelsOK
    <3>4. Lowest(free) \in Channels /\ SecondFree(free) \in Channels
        BY <1>3, <3>3, SecondFreeIs
    <3>5. QED
        BY <1>2, <3>1, <3>2, <3>4 DEF ChannelsOK, ChannelsOf
  <2>2. CASE place' \notin Tuned
      BY <1>2, <1>4, <2>2 DEF ChannelsOK
  <2>3. QED
      BY <2>1, <2>2
<1>6. ContextsOK' /\ HandOK' /\ BusOK'
    BY <1>1, <1>2, ContextsKept, HandKept, BusKept
       DEF Moved, contextVars, hostVars
<1>7. NodeOK'
    BY NodeKept, FaultType DEF NodeOK
<1>8. QED
    BY <1>2, <1>5, <1>6, <1>7
LEMMA TransactMoved ==
    ASSUME ControlOK, place \in InitPlaces, UNCHANGED hostVars,
           NEW ACTION effect, NEW STATE others,
           NEW then \in InitPlaces \ {"handles"},
           Transact(effect, others, then)
    PROVE  Moved
<1>1. then \in Places \ {"scan", "handles", "exited"}
    BY DEF Places, InitPlaces
<1>2. place \notin {"scan", "exited"}
    BY DEF InitPlaces
<1>3. QED
    BY <1>1, <1>2, GoMoved, InitEndsMoved DEF Transact

(* A setup that ends, ends outside of it.                                   *)
LEMMA InitEnds ==
    ASSUME InitDone \/ InitFails
    PROVE  place' \notin Tuned
BY DEF InitDone, InitFails, BackFromHandler, Go, Exit, Tuned, InitPlaces

LEMMA AllocateTInv == TInv /\ AllocateChannel => TInv'
<1> SUFFICES ASSUME TInv, AllocateChannel PROVE TInv'
    OBVIOUS
<1> USE DEF TInv, AllocateChannel
<1>1. /\ place \in Tuned /\ place \in InitPlaces
      /\ place' \in Tuned /\ UNCHANGED <<device, exit>>
      /\ place' \in Places \ {"scan", "handles", "exited"}
    BY DEF Go, Tuned, InitPlaces, Places
<1>2. Moved
    BY <1>1 DEF Moved, hostVars, InitPlaces, ControlOK
<1>3. ControlOK' /\ Found' = Found /\ device \in Nodes /\ Port \in Ports
    BY <1>2, MovedControl, Current DEF Moved
<1>4. \E c \in Channels : Allocate(c)
    BY <1>1 DEF ChannelsOK, ChannelsOf
<1>5. ChannelsOK'
  <2>1. /\ available' \in [Ports -> SUBSET Channels]
        /\ got' \in [Nodes -> SUBSET Channels]
      BY <1>3, <1>4 DEF Allocate, Claim, NoClaim, ChannelsOK
  <2>2. QED
      BY <1>1, <2>1 DEF ChannelsOK, ChannelsOf
<1>6. ContextsOK' /\ HandOK' /\ BusOK' /\ NodeOK'
  <2>1. faulted' \in BOOLEAN
      BY <1>4, FaultType DEF Allocate, NodeOK
  <2>2. QED
      BY <1>1, <1>3, <2>1, ContextsKept, HandKept, BusKept, NodeKept
         DEF contextVars, hostVars, NodeOK
<1>7. QED
    BY <1>3, <1>5, <1>6

LEMMA WriteRegisterType ==
    ASSUME TInv, place \in Tuned, NEW direction \in {"recv", "xmit"},
           NEW value \in Channels \cup {PROBE},
           NEW then \in Tuned, WriteRegister(direction, value, then),
           UNCHANGED <<hostVars, enabled>>
    PROVE  /\ Moved /\ NodeOK'
           /\ place' \in Tuned => UNCHANGED device
<1>1. place \in InitPlaces /\ then \in InitPlaces \ {"handles"}
    BY DEF Tuned
<1>2. Moved
    BY <1>1, TransactMoved DEF WriteRegister, TInv
<1>3. Node \in Nodes
    BY <1>2, Current DEF Moved, TInv
<1>4. registers' \in [Nodes -> [{"recv", "xmit"} ->
                                   Channels \cup {PROBE, POWER_UP}]]
  <2>1. \/ registers' = [registers EXCEPT ![Node][direction] = value]
        \/ registers' = registers
      BY DEF WriteRegister, Transact
  <2>2. QED
      BY <1>3, <2>1 DEF TInv, NodeOK
<1>5. faulted' \in BOOLEAN
    BY FaultType DEF WriteRegister, Transact, TInv, NodeOK
<1>6. place' \in Tuned => UNCHANGED device
    BY InitEnds DEF WriteRegister, Transact, Go
<1>7. QED
    BY <1>2, <1>4, <1>5, <1>6 DEF TInv, NodeOK

LEMMA WriteDeviceTInv == TInv /\ WriteDevice => TInv'
<1> SUFFICES ASSUME TInv, WriteDevice PROVE TInv'
    OBVIOUS
<1> USE DEF TInv, WriteDevice
<1>1. place \in Tuned
    BY DEF Tuned, InitPlaces
<1>2. recv_channel[device] \in Channels /\ xmit_channel[device] \in Channels
    BY <1>1 DEF ChannelsOK, ChannelsOf
<1>3. Moved /\ NodeOK' /\ (place' \in Tuned => UNCHANGED device)
  <2>1. \E direction \in {"recv", "xmit"} : \E value \in Channels \cup {PROBE} :
        \E then \in Tuned : WriteRegister(direction, value, then)
      BY <1>2 DEF Tuned, InitPlaces
  <2>2. QED
      BY <1>1, <2>1, WriteRegisterType
<1>4. ControlOK' /\ Found' = Found /\ place' # "scan"
    BY <1>3, MovedControl DEF Moved
<1>5. ChannelsOK' /\ ContextsOK' /\ HandOK' /\ BusOK'
    BY <1>1, <1>3, <1>4, ChannelsKept, ContextsKept, HandKept, BusKept
       DEF contextVars, hostVars
<1>6. QED
    BY <1>3, <1>4, <1>5

LEMMA CheckDeviceTInv == TInv /\ CheckDevice => TInv'
<1> SUFFICES ASSUME TInv, CheckDevice PROVE TInv'
    OBVIOUS
<1> USE DEF TInv, CheckDevice
<1>1. place \in Tuned /\ place \in InitPlaces /\ place \notin {"scan", "exited"}
    BY DEF Tuned, InitPlaces
<1>2. \/ \E then \in Tuned : Go(then)
      \/ InitFails
    BY DEF Expect, Transact, Tuned, InitPlaces
<1>3. Tuned \subseteq Places \ {"scan", "handles", "exited"}
    BY DEF Tuned, InitPlaces, Places
<1>4. Moved
    BY <1>1, <1>2, <1>3, GoMoved, InitEndsMoved
<1>5. place' \in Tuned => UNCHANGED device
    BY <1>2, InitEnds DEF Go
<1>6. ControlOK' /\ Found' = Found /\ place' # "scan"
    BY <1>4, MovedControl DEF Moved
<1>7. faulted' \in BOOLEAN
    BY FaultType DEF Expect, Transact, NodeOK
<1>8. ChannelsOK' /\ ContextsOK' /\ HandOK' /\ BusOK' /\ NodeOK'
    BY <1>1, <1>5, <1>6, <1>7, ChannelsKept, ContextsKept, HandKept, BusKept,
       NodeKept DEF contextVars, hostVars
<1>9. QED
    BY <1>6, <1>8

LEMMA EnableTInv == TInv /\ Enable => TInv'
<1> SUFFICES ASSUME TInv, Enable PROVE TInv'
    OBVIOUS
<1> USE DEF TInv, Enable
<1>1. /\ place \in Tuned /\ place \in InitPlaces
      /\ "isoStart" \in InitPlaces \ {"handles"}
    BY DEF Tuned, InitPlaces
<1>2. Moved
    BY <1>1, TransactMoved
<1>3. place' \in Tuned => UNCHANGED device
    BY InitEnds DEF Transact, Go
<1>4. ControlOK' /\ Found' = Found /\ place' # "scan" /\ Node \in Nodes
    BY <1>2, MovedControl, Current DEF Moved
<1>5. NodeOK'
  <2>1. enabled' = [enabled EXCEPT ![Node] = TRUE] \/ enabled' = enabled
      BY DEF Transact
  <2>2. enabled' \in [Nodes -> BOOLEAN]
      BY <1>4, <2>1 DEF NodeOK
  <2>3. faulted' \in BOOLEAN
      BY FaultType DEF Transact, NodeOK
  <2>4. QED
      BY <2>2, <2>3 DEF NodeOK
<1>6. ChannelsOK' /\ ContextsOK' /\ HandOK' /\ BusOK'
    BY <1>1, <1>3, <1>4, ChannelsKept, ContextsKept, HandKept, BusKept
       DEF contextVars, hostVars
<1>7. QED
    BY <1>4, <1>5, <1>6

LEMMA IsoStartTInv == TInv /\ IsoStart => TInv'
<1> SUFFICES ASSUME TInv, IsoStart PROVE TInv'
    OBVIOUS
<1> USE DEF TInv, IsoStart
<1>1. place \in Tuned /\ place \notin {"scan", "exited"}
    BY DEF Tuned, InitPlaces
<1>2. Moved
    BY <1>1, InitEndsMoved
<1>3. ControlOK' /\ Found' = Found /\ place' # "scan" /\ device \in Nodes
    BY <1>2, MovedControl, Current DEF Moved
<1>4. ChannelsOK' /\ HandOK' /\ BusOK'
    BY <1>3, InitEnds, ChannelsKept, HandKept, BusKept DEF hostVars
<1>5. ContextsOK'
    BY <1>3 DEF ContextsOK, ChannelsOK, Opened
<1>6. NodeOK'
  <2>1. faulted' \in BOOLEAN
      OBVIOUS
  <2>2. QED
      BY <2>1, NodeKept
<1>7. QED
    BY <1>3, <1>4, <1>5, <1>6
(* A step in the loop or of the cleanup: its way, and what it leaves alone. *)
LEMMA LaterMoved ==
    ASSUME TInv, place \in LoopPlaces \cup CleanupPlaces, UNCHANGED hostVars,
           \/ \E then \in {"readChannels"} \cup LoopPlaces \cup CleanupPlaces : Go(then)
           \/ \E how \in {"error", "timeout", "done"} : Exit(how)
           \/ NextInRound
    PROVE  Moved
<1>1. /\ {"readChannels"} \cup LoopPlaces \cup CleanupPlaces
            \subseteq Places \ {"scan", "handles", "exited"}
      /\ place \notin {"scan", "exited"}
    BY DEF Places, InitPlaces, LoopPlaces, CleanupPlaces
<1>2. QED
    BY <1>1, GoMoved, ExitMoved, RoundMoved DEF TInv

LEMMA LaterTInv ==
    ASSUME TInv, Moved, UNCHANGED full_init, place' \notin Tuned
    PROVE  /\ ControlOK' /\ Found' = Found
           /\ device \in Nodes /\ Node \in Nodes /\ Port \in Ports
           /\ UNCHANGED channelVars => ChannelsOK'
           /\ UNCHANGED <<recvContext, xmitContext>> => ContextsOK'
           /\ UNCHANGED handVars => HandOK'
           /\ UNCHANGED <<busVars, handles>> => BusOK'
           /\ UNCHANGED nodeVars /\ faulted' \in BOOLEAN => NodeOK'
BY MovedControl, Current, ChannelsKept, ContextsKept, HandKept, BusKept,
   NodeKept DEF TInv, Moved

LEMMA SelectTInv == TInv /\ Select => TInv'
<1> SUFFICES ASSUME TInv, Select PROVE TInv'
    OBVIOUS
<1> USE DEF Select
<1>1. place \in LoopPlaces /\ place' \notin Tuned
    BY DEF LoopPlaces, Exit, Tuned, InitPlaces
<1>2. Moved
  <2>1. CASE Exit("timeout")
      BY <1>1, <2>1, LaterMoved
  <2>2. CASE place' = "recv" /\ device' = 1 /\ UNCHANGED exit
      BY <1>1, <2>2, FirstDevice
         DEF TInv, ControlOK, Moved, hostVars, LoopPlaces, Places
  <2>3. QED
      BY <2>1, <2>2
<1>3. faulted' \in BOOLEAN
    BY FaultType DEF TInv, NodeOK
<1>4. HandOK'
  <2>1. Found' = Found
      BY <1>1, <1>2, LaterTInv DEF hostVars
  <2>2. phantom_docked' \in Bits
      BY DEF TInv, HandOK, Bits
  <2>3. QED
      BY <2>1, <2>2 DEF TInv, HandOK
<1>5. QED
    BY <1>1, <1>2, <1>3, <1>4, LaterTInv DEF TInv, hostVars, contextVars

LEMMA RecvTInv == TInv /\ Recv => TInv'
<1> SUFFICES ASSUME TInv, Recv PROVE TInv'
    OBVIOUS
<1> USE DEF Recv
<1>1. place \in LoopPlaces
    BY DEF LoopPlaces
<1>2. CASE /\ \/ NextInRound /\ UNCHANGED <<data, sent, heard, faulted>>
              \/ /\ \E n \in Nodes, sample \in Samples : Receive(n, sample)
                 /\ UNCHANGED faulted
              \/ /\ \/ Go("react") /\ UNCHANGED faulted
                    \/ Fault("fail") /\ Exit("error")
                 /\ UNCHANGED <<data, sent, heard>>
           /\ UNCHANGED <<full_init, pending>>
  <2>1. /\ \/ \E then \in {"react"} : Go(then)
           \/ \E how \in {"error"} : Exit(how)
           \/ NextInRound
        /\ UNCHANGED hostVars
      BY <1>2 DEF Receive, hostVars, TInv, BusOK
  <2>2. Moved
      BY <1>1, <2>1, LaterMoved DEF LoopPlaces
  <2>3. place' \notin Tuned
      BY <2>1 DEF NextInRound, Go, Exit, Tuned, InitPlaces
  <2>4. faulted' \in BOOLEAN
      BY FaultType DEF TInv, NodeOK
  <2>5. Found' = Found /\ device \in Nodes /\ device \in Found
      BY <1>2, <2>2, <2>3, LaterTInv, Current DEF Moved, TInv
  <2>6. HandOK'
    <3>1. CASE UNCHANGED <<data, sent, heard>>
        BY <2>5, <3>1, HandKept DEF TInv, handVars
    <3>2. CASE \E n \in Nodes, sample \in Samples : Receive(n, sample)
      <4>1. PICK n \in Nodes, sample \in Samples : Receive(n, sample)
          BY <3>2
      <4>2. sample \in Report
          BY Constants
      <4>3. /\ data' \in [Nodes -> Report] /\ sent' \in [Nodes -> Report]
            /\ heard' = [heard EXCEPT ![device] = TRUE]
          BY <2>5, <4>1, <4>2 DEF Receive, TInv, HandOK
      <4>4. heard' \in [Nodes -> BOOLEAN]
          BY <2>5, <4>3 DEF TInv, HandOK
      <4>5. \A d \in Nodes : heard'[d] => d \in Found
          BY <2>5, <4>3 DEF TInv, HandOK
      <4>6. QED
          BY <2>5, <4>3, <4>4, <4>5 DEF TInv, HandOK
    <3>3. QED
        BY <3>1, <3>2
  <2>7. QED
      BY <1>2, <2>2, <2>3, <2>4, <2>6, LaterTInv DEF TInv, contextVars, busVars
<1>3. CASE /\ pending[device] > 0
           /\ pending' = [pending EXCEPT ![device] = @ - 1]
           /\ full_init' = FALSE
           /\ Go("readChannels")
           /\ UNCHANGED <<data, sent, heard, faulted>>
  <2>1. Moved
      BY <1>1, <1>3
         DEF Moved, Go, LoopPlaces, Places, InitPlaces, TInv, ControlOK
  <2>2. ControlOK' /\ Found' = Found /\ device \in Nodes
      BY <2>1, MovedControl, Current DEF TInv, Moved
  <2>3. place' \notin Tuned /\ place' # "scan"
      BY <1>3 DEF Go, Tuned, InitPlaces
  <2>4. ChannelsOK' /\ ContextsOK' /\ HandOK' /\ NodeOK'
      BY <1>3, <2>2, <2>3, ChannelsKept, ContextsKept, HandKept, NodeKept
         DEF TInv, NodeOK, contextVars, handVars
  <2>5. BusOK'
    <3>1. pending[device] \in Nat /\ pending[device] <= resets /\ resets \in Nat
        BY <2>2 DEF TInv, BusOK
    <3>2. /\ pending' \in [Nodes -> Nat]
          /\ \A d \in Nodes : pending'[d] <= resets
          /\ \A d \in Nodes \ handles : pending'[d] = 0
        BY <1>3, <2>2, <3>1 DEF TInv, BusOK
    <3>3. resets # 0
        BY <1>3, <3>1
    <3>4. QED
        BY <2>2, <2>3, <3>2, <3>3 DEF TInv, BusOK, contextVars
  <2>6. QED
      BY <2>2, <2>4, <2>5 DEF TInv
<1>4. QED
    BY <1>2, <1>3

LEMMA ResetBusTypes ==
    ASSUME TInv, NEW p, ResetBus(p), resets < MaxResets,
           Found' = Found, UNCHANGED handles,
           place' = "scan" => place = "scan"
    PROVE  /\ available' \in [Ports -> SUBSET Channels]
           /\ got' \in [Nodes -> SUBSET Channels]
           /\ BusOK'
<1> USE DEF TInv, ResetBus
<1>1. resets' = resets + 1 /\ resets \in Nat /\ resets' \in 0 .. MaxResets
      /\ resets' # 0
    BY Constants DEF BusOK
<1>2. \A d \in Nodes :
         /\ pending'[d] \in Nat /\ pending'[d] <= resets'
         /\ pending'[d] \in {pending[d], pending[d] + 1}
         /\ d \notin handles => pending'[d] = pending[d]
  <2> SUFFICES ASSUME NEW d \in Nodes
               PROVE  /\ pending'[d] \in Nat /\ pending'[d] <= resets'
                      /\ pending'[d] \in {pending[d], pending[d] + 1}
                      /\ d \notin handles => pending'[d] = pending[d]
      OBVIOUS
  <2>1. pending[d] \in Nat /\ pending[d] <= resets
      BY DEF BusOK
  <2>2. pending'[d] = IF d \in handles /\ PortOf[devices[d]] = p
                      THEN pending[d] + 1 ELSE pending[d]
      OBVIOUS
  <2>3. QED
      BY <1>1, <2>1, <2>2
<1>3. pending' \in [Nodes -> Nat]
    BY <1>2
<1>4. overlapped' \in BOOLEAN
    OBVIOUS
<1>5. BusOK'
    BY <1>1, <1>2, <1>3, <1>4 DEF BusOK
<1>6. available' \in [Ports -> SUBSET Channels]
    BY DEF ChannelsOK
<1>7. got' \in [Nodes -> SUBSET Channels]
    BY DEF ChannelsOK
<1>8. QED
    BY <1>5, <1>6, <1>7

LEMMA ReactTInv == TInv /\ React => TInv'
<1> SUFFICES ASSUME TInv, React PROVE TInv'
    OBVIOUS
<1> USE DEF React
<1>1. place \in LoopPlaces /\ place' = "xmit" /\ place' \notin Tuned
    BY DEF LoopPlaces, Go, Tuned, InitPlaces
<1>2. Moved
    BY <1>1, LaterMoved DEF LoopPlaces
<1>3. ControlOK' /\ Found' = Found /\ device \in Nodes
    BY <1>1, <1>2, LaterTInv DEF hostVars
<1>4. HandOK'
  <2>1. data[device].button1 \in Bits /\ data[1].button2 \in Bits
      BY <1>3, Constants DEF TInv, HandOK, Report
  <2>2. button2_pressed' \in Bits
      BY <2>1 DEF TInv, HandOK, Bits
  <2>3. (data[device].button1 = 0) \in BOOLEAN
      OBVIOUS
  <2>4. force' \in [Nodes -> BOOLEAN]
      BY <2>3 DEF TInv, HandOK
  <2>5. QED
      BY <1>3, <2>2, <2>4 DEF TInv, HandOK
<1>5. BusOK' /\ ChannelsOK'
  <2>1. CASE UNCHANGED <<busVars, available, got, taken>>
      BY <1>1, <1>2, <2>1, LaterTInv DEF hostVars, contextVars, channelVars
  <2>2. CASE resets < MaxResets /\ ResetBus(Port)
      BY <1>1, <1>3, <2>2, ResetBusTypes
         DEF contextVars, TInv, ChannelsOK, ResetBus
  <2>3. QED
      BY <2>1, <2>2
<1>6. ContextsOK' /\ NodeOK'
    BY <1>1, <1>2, LaterTInv DEF hostVars, contextVars, TInv, NodeOK
<1>7. QED
    BY <1>3, <1>4, <1>5, <1>6 DEF TInv

LEMMA PlainStepTInv ==
    ASSUME TInv,
           \/ place = "xmit" /\ NextInRound
           \/ \E then \in CleanupPlaces : place \in CleanupPlaces /\ Go(then)
           \/ place \in LoopPlaces \cup CleanupPlaces /\ Exit("error"),
           faulted' \in BOOLEAN,
           UNCHANGED <<hostVars, channelVars, handles, handVars, busVars, registers>>
    PROVE  /\ Moved /\ Node \in Nodes /\ device \in Nodes
           /\ ControlOK' /\ ChannelsOK' /\ HandOK' /\ BusOK'
           /\ UNCHANGED <<recvContext, xmitContext>> => ContextsOK'
           /\ enabled' \in [Nodes -> BOOLEAN] => NodeOK'
<1>1. /\ place \in LoopPlaces \cup CleanupPlaces
      /\ place' \notin Tuned
    BY DEF LoopPlaces, CleanupPlaces, NextInRound, Go, Exit, Tuned, InitPlaces
<1>2. Moved
    BY <1>1, LaterMoved
<1>3. QED
    BY <1>1, <1>2, LaterTInv DEF TInv, NodeOK, hostVars

LEMMA XmitTInv == TInv /\ Xmit => TInv'
<1> SUFFICES ASSUME TInv, Xmit PROVE TInv'
    OBVIOUS
<1>1. faulted' \in BOOLEAN /\ place \in LoopPlaces
    BY FaultType DEF Xmit, TInv, NodeOK, LoopPlaces
<1>2. QED
    BY <1>1, PlainStepTInv DEF Xmit, TInv, NodeOK, nodeVars, contextVars

LEMMA LastStatusTInv == TInv /\ LastStatus => TInv'
<1> SUFFICES ASSUME TInv, LastStatus PROVE TInv'
    OBVIOUS
<1>1. faulted' \in BOOLEAN /\ {place, "disable"} \subseteq CleanupPlaces
    BY FaultType DEF LastStatus, TInv, NodeOK, CleanupPlaces
<1>2. QED
    BY <1>1, PlainStepTInv DEF LastStatus, TInv, NodeOK, nodeVars, contextVars

LEMMA DisableTInv == TInv /\ Disable => TInv'
<1> SUFFICES ASSUME TInv, Disable PROVE TInv'
    OBVIOUS
<1>1. faulted' \in BOOLEAN /\ {place, "shutdown"} \subseteq CleanupPlaces
    BY FaultType DEF Disable, TInv, NodeOK, CleanupPlaces
<1>2. enabled' \in [Nodes -> BOOLEAN]
    BY DEF Disable, BitCleared, TInv, NodeOK
<1>3. QED
    BY <1>1, <1>2, PlainStepTInv DEF Disable, TInv, contextVars

LEMMA ShutdownTInv == TInv /\ Shutdown => TInv'
<1> SUFFICES ASSUME TInv, Shutdown PROVE TInv'
    OBVIOUS
<1>1. faulted' \in BOOLEAN /\ {place, "free"} \subseteq CleanupPlaces
    BY DEF Shutdown, TInv, NodeOK, CleanupPlaces
<1>2. ContextsOK'
    BY DEF Shutdown, TInv, ContextsOK
<1>3. QED
    BY <1>1, <1>2, PlainStepTInv DEF Shutdown, TInv, NodeOK, nodeVars

(* What is given back, if anything.                                         *)
LEMMA GivenBack ==
    ASSUME TInv, FreeChannels
    PROVE  \/ UNCHANGED <<available, got, taken>>
           \/ /\ NONE \notin OwnChannels
              /\ \E S \in SUBSET Channels : /\ S \subseteq OwnChannels /\ GiveBack(S)
                                            /\ faulted' \/ S = OwnChannels
<1>1. device \in Nodes
    BY Current DEF TInv, FreeChannels
<1>2. BothFound => OwnChannels \subseteq Channels /\ OwnChannels \ {NONE} = OwnChannels
    BY <1>1 DEF TInv, ChannelsOK, OwnChannels, BothFound
<1>3. QED
    BY <1>2 DEF FreeChannels, BothFound, Fault

LEMMA FreeChannelsTInv == TInv /\ FreeChannels => TInv'
<1> SUFFICES ASSUME TInv, FreeChannels PROVE TInv'
    OBVIOUS
<1> USE DEF FreeChannels
<1>1. place \in CleanupPlaces /\ place \notin {"scan", "exited"}
    BY DEF CleanupPlaces
<1>2. Moved
  <2>1. CASE Exit("done")
      BY <1>1, <2>1, LaterMoved
  <2>2. CASE /\ MoreDevices(device) /\ place' = "lastStatus"
             /\ device' = device + 1 /\ UNCHANGED exit
      BY <1>1, <2>2, NextDevice
         DEF TInv, ControlOK, Moved, hostVars, CleanupPlaces, Places
  <2>3. QED
      BY <2>1, <2>2
<1>3. place' \notin Tuned /\ place' # "scan"
    BY <1>2 DEF Moved, Exit, Tuned, InitPlaces
<1>4. /\ ControlOK' /\ Found' = Found /\ device \in Nodes /\ Port \in Ports
      /\ ContextsOK' /\ HandOK' /\ NodeOK'
  <2>1. faulted' \in BOOLEAN
      BY FaultType DEF TInv, NodeOK
  <2>2. QED
      BY <1>2, <1>3, <2>1, LaterTInv DEF hostVars, TInv, NodeOK
<1>5. ChannelsOK'
  <2>1. CASE UNCHANGED <<available, got, taken>>
      BY <1>3, <2>1 DEF TInv, ChannelsOK
  <2>2. CASE \E S \in SUBSET Channels : GiveBack(S)
    <3>1. PICK S \in SUBSET Channels : GiveBack(S)
        BY <2>2
    <3>2. got' \in [Nodes -> SUBSET Channels]
        BY <3>1 DEF TInv, ChannelsOK, GiveBack
    <3>3. /\ available' \in [Ports -> SUBSET Channels]
          /\ taken' \in [Ports -> SUBSET Foreign]
        BY <1>4, <3>1 DEF TInv, ChannelsOK, GiveBack
    <3>4. QED
        BY <1>3, <3>2, <3>3 DEF TInv, ChannelsOK
  <2>3. QED
      BY <2>1, <2>2, GivenBack
<1>6. BusOK'
    BY <1>3, <1>4 DEF TInv, BusOK, hostVars
<1>7. QED
    BY <1>4, <1>5, <1>6 DEF TInv

LEMMA BusResetTInv == TInv /\ BusReset => TInv'
<1> SUFFICES ASSUME TInv, BusReset PROVE TInv'
    OBVIOUS
<1> USE DEF BusReset
<1>1. Found' = Found
    BY DEF hostVars, Found, found_devices
<1>2. PICK p \in Ports : ResetBus(p)
    OBVIOUS
<1>3. /\ available' \in [Ports -> SUBSET Channels]
      /\ got' \in [Nodes -> SUBSET Channels]
      /\ BusOK'
    BY <1>1, <1>2, ResetBusTypes DEF contextVars
<1>4. ControlOK'
    BY <1>1 DEF TInv, ControlOK, hostVars, found_devices
<1>5. ChannelsOK'
    BY <1>2, <1>3 DEF TInv, ChannelsOK, ChannelsOf, ResetBus
<1>6. ContextsOK' /\ HandOK' /\ NodeOK'
    BY <1>1, ContextsKept, HandKept, NodeKept DEF TInv, NodeOK, contextVars
<1>7. QED
    BY <1>3, <1>4, <1>5, <1>6 DEF TInv

(* Another node takes a channel or gives one back.                          *)
TakeOne(p, c) == /\ c \in available[p]
                 /\ available' = [available EXCEPT ![p] = @ \ {c}]
                 /\ taken' = [taken EXCEPT ![p] = @ \cup {c}]
GiveOne(p, c) == /\ c \in taken[p]
                 /\ available' = [available EXCEPT ![p] = @ \cup {c}]
                 /\ taken' = [taken EXCEPT ![p] = @ \ {c}]
Elsewhere == UNCHANGED <<place, device, exit, hostVars, recv_channel, xmit_channel,
                         got, contextVars, handVars, busVars, nodeVars, faulted>>
LEMMA OtherNodeIs ==
    ASSUME TInv, OtherNode
    PROVE  /\ place # "exited" /\ Elsewhere
           /\ \E p \in Ports, c \in Foreign : TakeOne(p, c) \/ GiveOne(p, c)
BY DEF OtherNode, Elsewhere, TakeOne, GiveOne

LEMMA OtherNodeTInv == TInv /\ OtherNode => TInv'
<1> SUFFICES ASSUME TInv, OtherNode PROVE TInv'
    OBVIOUS
<1>1. Found' = Found /\ Elsewhere
    BY OtherNodeIs DEF Elsewhere, hostVars, Found, found_devices
<1>2. ControlOK'
    BY <1>1 DEF Elsewhere, TInv, ControlOK, hostVars, found_devices
<1>3. /\ available' \in [Ports -> SUBSET Channels]
      /\ taken' \in [Ports -> SUBSET Foreign]
    BY OtherNodeIs, Constants DEF TInv, ChannelsOK, TakeOne, GiveOne
<1>4. ChannelsOK'
    BY <1>1, <1>3 DEF Elsewhere, TInv, ChannelsOK, ChannelsOf
<1>5. ContextsOK' /\ HandOK' /\ BusOK' /\ NodeOK'
    BY <1>1, ContextsKept, HandKept, BusKept, NodeKept
       DEF Elsewhere, TInv, NodeOK, contextVars, hostVars
<1>6. QED
    BY <1>2, <1>4, <1>5 DEF TInv

LEMMA StepTInv == TInv /\ [Next]_vars => TInv'
<1>1. TInv /\ UNCHANGED vars => TInv'
  <2> SUFFICES ASSUME TInv, UNCHANGED vars PROVE TInv'
      OBVIOUS
  <2>1. Found' = Found
      BY DEF vars, hostVars, Found, found_devices
  <2>2. ControlOK'
      BY <2>1 DEF vars, hostVars, TInv, ControlOK, found_devices
  <2>3. ChannelsOK' /\ ContextsOK' /\ HandOK' /\ BusOK' /\ NodeOK'
      BY <2>1, ChannelsKept, ContextsKept, HandKept, BusKept, NodeKept
         DEF TInv, NodeOK, vars, hostVars, contextVars
  <2>4. QED
      BY <2>2, <2>3 DEF TInv
<1>2. QED
    BY <1>1, ScanTInv, NewHandlesTInv, ReadChannelsTInv, AllocateTInv,
       WriteDeviceTInv, CheckDeviceTInv, EnableTInv, IsoStartTInv, SelectTInv,
       RecvTInv, ReactTInv, XmitTInv, LastStatusTInv, DisableTInv,
       ShutdownTInv, FreeChannelsTInv, BusResetTInv, OtherNodeTInv
       DEF Next, Run, Initialise, Loop, Cleanup

(* omni's variables keep the types of TypeOK, with any bus resets and       *)
(* faults.                                                                  *)
THEOREM OmniTypeCorrect == Spec => []TypeOK
<1>1. TInv /\ [Next]_vars => TInv'
    BY StepTInv
<1>2. QED
    BY <1>1, InitTInv, TypesHold, PTL DEF Spec

-----------------------------------------------------------------------------
(* The channels, as long as resets come one at a time.                      *)
LEMMA FaultStays == ASSUME Next, ~faulted' PROVE ~faulted
<1>1. Scan \/ Initialise \/ Loop => ~faulted
    BY DEF Scan, Initialise, NewHandles, ReadChannels, AllocateChannel, Allocate,
           WriteDevice, WriteRegister, CheckDevice, Expect, Enable, IsoStart,
           Loop, Select, Recv, React, Xmit, Transact, Fault
<1>2. Cleanup \/ BusReset \/ OtherNode => ~faulted
    BY DEF Cleanup, LastStatus, Disable, Shutdown, FreeChannels, BusReset,
           OtherNode, Fault
<1>3. QED
    BY <1>1, <1>2 DEF Next, Run

LEMMA StillRunning == ASSUME TInv, Next PROVE place # "exited" /\ exit = "no"
<1>1. Scan \/ Initialise => place # "exited"
    BY DEF Scan, Initialise, NewHandles, ReadChannels, AllocateChannel,
           WriteDevice, CheckDevice, Enable, IsoStart
<1>2. Loop \/ Cleanup => place # "exited"
    BY DEF Loop, Select, Recv, React, Xmit, Cleanup, LastStatus, Disable,
           Shutdown, FreeChannels
<1>3. QED
    BY <1>1, <1>2 DEF Next, Run, BusReset, OtherNode, TInv, ControlOK

(* An orderly state comes from one where the program was still running.     *)
LEMMA OrderlyBefore ==
    ASSUME TInv, Next, Orderly'
    PROVE  Orderly
<1>1. ~overlapped
  <2>1. Scan \/ Initialise => UNCHANGED overlapped
      BY DEF Scan, Initialise, NewHandles, ReadChannels, AllocateChannel,
             WriteDevice, CheckDevice, Enable, IsoStart, busVars
  <2>2. Loop \/ Cleanup => overlapped' = overlapped \/ \E p : ResetBus(p)
      BY DEF Loop, Select, Recv, React, Xmit, Cleanup, LastStatus, Disable,
             Shutdown, FreeChannels, busVars
  <2>3. QED
      BY <2>1, <2>2 DEF Orderly, Next, Run, BusReset, ResetBus, OtherNode, busVars
<1>2. QED
    BY <1>1, FaultStays, StillRunning DEF Orderly

(* Steps that leave the channels, the handles and their resets alone.       *)
Untouched == UNCHANGED <<devices, full_init, channelVars, handles, pending>>

LEMMA UntouchedBooks ==
    ASSUME Books, Untouched
    PROVE  /\ Found' = Found /\ Divided'
           /\ \A d \in Found' : pending'[d] <= 1
           /\ \A p : On(p)' = On(p)
           /\ \A d : NotYetOK(d)' <=> NotYetOK(d)
           /\ \A d : SetUpOK(d)' <=> SetUpOK(d)
           /\ \A d : Two(d)' <=> Two(d)
<1>1. Found' = Found
    BY DEF Untouched, Found, found_devices
<1>2. \A p : On(p)' = On(p)
    BY <1>1 DEF Untouched, On
<1>3. \A d : Two(d)' <=> Two(d)
    BY DEF Two, ChannelsOf, Untouched, channelVars
<1>4. Divided'
    BY <1>1, <1>2 DEF Books, Divided, Untouched, channelVars
<1>5. QED
    BY <1>1, <1>2, <1>3, <1>4
       DEF Books, Untouched, channelVars, NotYetOK, SetUpOK, ChannelsOf

(* From one transaction of a setup to the next.                             *)
LEMMA SetupGoesOn ==
    ASSUME TInv, Books, Untouched, place \in Allocated, place' \in Allocated,
           UNCHANGED <<device, full_init, exit>>
    PROVE  Books'
<1>1. /\ place \in InitPlaces /\ place' \in InitPlaces
      /\ {place, place'} \cap {"scan", "exited", "handles", "readChannels",
                               "allocRecv", "allocXmit"} = {}
      /\ {place, place'} \cap (LoopPlaces \cup CleanupPlaces) = {}
    BY DEF Allocated, Tuned, Places, InitPlaces, LoopPlaces, CleanupPlaces
<1>2. \A d : (NotYet(d)' <=> NotYet(d)) /\ (IsSetUp(d)' <=> IsSetUp(d))
    BY <1>1 DEF NotYet, IsSetUp
<1>3. SetupOK'
  <2>1. place' \notin {"handles", "readChannels", "allocRecv", "allocXmit"}
      BY <1>1
  <2>2. Two(device)' /\ got'[device'] = ChannelsOf(device)'
      BY UntouchedBooks DEF Books, SetupOK, Untouched, channelVars, ChannelsOf
  <2>3. /\ pending'[device'] = 0 /\ device' \in handles'
        /\ full_init' => \A d \in Found' : pending'[d] = 0
    <3>1. /\ pending[device] = 0 /\ device \in handles
          /\ full_init => \A d \in Found : pending[d] = 0
        BY <1>1 DEF Books, SetupOK
    <3>2. Found' = Found /\ UNCHANGED <<pending, device, handles, full_init>>
        BY UntouchedBooks DEF Untouched
    <3>3. QED
        BY <3>1, <3>2
  <2>4. QED
      BY <2>1, <2>2, <2>3 DEF SetupOK
<1>4. CleanupOK'
    BY <1>1 DEF CleanupOK, CleanupPlaces, TInv, ControlOK
<1>5. QED
    BY <1>2, <1>3, <1>4, UntouchedBooks DEF Books

(* A device whose channels are allocated is set up, whatever it answered.   *)
LEMMA DeviceIsSetUp ==
    ASSUME TInv, Books, place \in Allocated
    PROVE  SetUpOK(device)
<1>1. place \in InitPlaces \ {"handles"}
    BY DEF Allocated, Tuned
<1>2. QED
    BY <1>1 DEF Books, SetupOK, SetUpOK

LEMMA HandlerEnds ==
    ASSUME TInv, Books, Untouched, place \in Allocated, ~full_init,
           place' = "react", UNCHANGED exit
    PROVE  Books'
<1>1. /\ place \in Places \ {"allocXmit"} /\ place' \in Places \ {"allocXmit"}
      /\ place \in InitPlaces /\ place # "exited"
      /\ place' \in LoopPlaces /\ place' \notin InitPlaces \cup CleanupPlaces
      /\ place' # "scan"
    BY DEF Allocated, Tuned, Places, InitPlaces, LoopPlaces, CleanupPlaces
<1>2. \A d \in Found' : SetUpOK(d)'
    BY <1>1, UntouchedBooks, DeviceIsSetUp DEF Books, IsSetUp
<1>3. \A d : ~NotYet(d)'
    BY <1>1 DEF NotYet, InitPlaces
<1>4. SetupOK' /\ CleanupOK'
    BY <1>1 DEF SetupOK, Allocated, Tuned, InitPlaces, CleanupOK, CleanupPlaces,
                TInv, ControlOK
<1>5. QED
    BY <1>2, <1>3, <1>4, UntouchedBooks DEF Books

LEMMA LoopTurns ==
    ASSUME TInv, Books, Untouched, place \in LoopPlaces, place' \in LoopPlaces,
           UNCHANGED exit
    PROVE  Books'
<1>1. /\ {place, place'} \subseteq Places \ {"allocXmit"}
      /\ {place, place'} \cap (InitPlaces \cup CleanupPlaces \cup {"scan", "exited"}) = {}
    BY DEF Places, InitPlaces, LoopPlaces, CleanupPlaces
<1>2. \A d : ~NotYet(d)' /\ IsSetUp(d)
    BY <1>1 DEF NotYet, IsSetUp, InitPlaces
<1>3. SetupOK' /\ CleanupOK'
    BY <1>1 DEF SetupOK, Allocated, Tuned, InitPlaces, CleanupOK, CleanupPlaces,
                TInv, ControlOK
<1>4. QED
    BY <1>2, <1>3, UntouchedBooks DEF Books

LEMMA CleanupBegins ==
    ASSUME TInv, Books, Untouched, place \in LoopPlaces,
           place' = "lastStatus", device' = 1, UNCHANGED exit
    PROVE  Books'
<1>1. /\ place # "exited" /\ place' \in CleanupPlaces
      /\ place' \notin {"scan", "exited"} \cup InitPlaces \cup LoopPlaces
    BY DEF InitPlaces, LoopPlaces, CleanupPlaces
<1>2. \A d \in Found : Listed(d)
    BY Constants DEF Books, IsSetUp, SetUpOK, Listed, Two
<1>3. \A d \in Found : ~(d < 1)
    BY DEF Found
<1>4. CleanupOK'
    BY <1>1, <1>2, <1>3, UntouchedBooks
       DEF CleanupOK, TInv, ControlOK, Untouched, channelVars, Listed, ChannelsOf
<1>5. SetupOK'
    BY <1>1 DEF SetupOK, Allocated, Tuned, InitPlaces
<1>6. \A d : ~NotYet(d)' /\ ~IsSetUp(d)'
    BY <1>1 DEF NotYet, IsSetUp, InitPlaces
<1>7. QED
    BY <1>4, <1>5, <1>6, UntouchedBooks DEF Books

LEMMA RoundBooks ==
    ASSUME TInv, Books, Untouched, place \in LoopPlaces, NextInRound
    PROVE  Books'
BY LoopTurns, CleanupBegins DEF NextInRound, Go, LoopPlaces

LEMMA TransactionBooks ==
    ASSUME TInv, Books, Orderly', place \in Allocated, Untouched,
           UNCHANGED full_init,
           \/ \E then \in Allocated : Go(then)
           \/ InitFails
    PROVE  Books'
<1>1. CASE \E then \in Allocated : Go(then)
    BY <1>1, SetupGoesOn DEF Go
<1>2. CASE InitFails
    BY <1>2, HandlerEnds DEF InitFails, BackFromHandler, Go, Exit, Orderly
<1>3. QED
    BY <1>1, <1>2

LEMMA WriteDeviceBooks ==
    ASSUME TInv, Books, Orderly', WriteDevice
    PROVE  Books'
<1>1. place \in Allocated /\ \E then \in Allocated : Go(then)
    BY DEF WriteDevice, WriteRegister, Transact, Fault, Orderly, Allocated,
           Tuned, InitPlaces
<1>2. QED
    BY <1>1, TransactionBooks
       DEF WriteDevice, Untouched, hostVars, contextVars, busVars

LEMMA CheckDeviceBooks ==
    ASSUME TInv, Books, Orderly', CheckDevice
    PROVE  Books'
<1>1. place \in Allocated /\ ((\E then \in Allocated : Go(then)) \/ InitFails)
    BY DEF CheckDevice, Expect, Transact, Allocated, Tuned, InitPlaces
<1>2. QED
    BY <1>1, TransactionBooks
       DEF CheckDevice, Untouched, hostVars, contextVars, busVars

LEMMA EnableBooks ==
    ASSUME TInv, Books, Orderly', Enable
    PROVE  Books'
<1>1. place \in Allocated /\ ((\E then \in Allocated : Go(then)) \/ InitFails)
    BY DEF Enable, Transact, Allocated, Tuned, InitPlaces
<1>2. QED
    BY <1>1, TransactionBooks
       DEF Enable, Untouched, hostVars, contextVars, busVars

(* The end of a setup.                                                      *)
LEMMA IsoStartBooks ==
    ASSUME TInv, Books, Orderly', IsoStart
    PROVE  Books'
<1>1. /\ Untouched /\ place \in Allocated /\ UNCHANGED full_init
      /\ place \in Places \ {"allocXmit", "exited"} /\ place \in InitPlaces
    BY DEF IsoStart, Untouched, hostVars, busVars, Allocated, Tuned, Places,
           InitPlaces
<1>2. CASE ~full_init
    BY <1>1, <1>2, HandlerEnds
       DEF IsoStart, InitDone, BackFromHandler, Go, Exit, Orderly
<1>3. \A d \in Found : d <= device => SetUpOK(d)
  <2>1. \A d \in Found : d \in Nat
      BY Current, Constants DEF TInv
  <2>2. device \in Nat
      BY Current DEF TInv
  <2>3. \A d \in Found : d # device => IsSetUp(d) \/ (full_init /\ ~(d < device))
      BY <1>1 DEF IsSetUp
  <2>4. QED
      BY <1>1, <2>1, <2>2, <2>3, DeviceIsSetUp DEF Books, IsSetUp
<1>4. CASE full_init /\ MoreDevices(device) /\ place' = "handles"
           /\ device' = device + 1 /\ UNCHANGED exit
  <2> USE <1>4
  <2>1. device' \in Found /\ device' \in Nodes /\ device \in Nat
      BY <1>1, NextDevice, Current DEF TInv, InitPlaces
  <2>2. \A d \in Nodes : NotYet(d)' => NotYetOK(d)'
    <3>1. \A d \in Nodes : NotYet(d)' => d > device
        BY <1>1, <2>1, Constants DEF NotYet
    <3>2. QED
        BY <1>1, <3>1, UntouchedBooks DEF Books, NotYet
  <2>3. \A d \in Found' : IsSetUp(d)' => SetUpOK(d)'
    <3>1. \A d \in Found : IsSetUp(d)' => d <= device
      <4>1. \A d \in Found : d \in Nat
          BY Current, Constants DEF TInv
      <4>2. QED
          BY <1>1, <2>1, <4>1 DEF IsSetUp, InitPlaces, LoopPlaces
    <3>2. QED
        BY <1>1, <1>3, <3>1, UntouchedBooks
  <2>4. NotYetOK(device + 1)
    <3>1. NotYet(device + 1)
        BY <1>1, <2>1 DEF NotYet
    <3>2. QED
        BY <2>1, <3>1 DEF Books
  <2>5. SetupOK'
    <3>1. pending[device + 1] = 0 /\ got[device + 1] = {}
        BY <2>1, <2>4 DEF NotYetOK, TInv, BusOK
    <3>2. \A d \in Found : pending[d] = 0
        BY <1>1 DEF Books, SetupOK
    <3>3. QED
        BY <1>1, <3>1, <3>2, UntouchedBooks
           DEF SetupOK, Untouched, channelVars, Allocated, Tuned, InitPlaces
  <2>6. CleanupOK'
      BY <1>1 DEF CleanupOK, CleanupPlaces, TInv, ControlOK
  <2>7. QED
      BY <1>1, <2>2, <2>3, <2>5, <2>6, UntouchedBooks DEF Books
<1>5. CASE full_init /\ ~MoreDevices(device) /\ Go("select")
  <2> USE <1>5
  <2>1. place' = "select" /\ UNCHANGED <<device, exit>>
      BY DEF Go
  <2>2. \A d \in Found : SetUpOK(d)
    <3>1. \A d \in Found : d <= device
        BY <1>1, Current DEF TInv, MoreDevices, Found
    <3>2. QED
        BY <1>3, <3>1
  <2>3. \A d : ~NotYet(d)'
      BY <2>1 DEF NotYet, InitPlaces
  <2>4. SetupOK' /\ CleanupOK'
      BY <1>1, <2>1 DEF SetupOK, CleanupOK, CleanupPlaces, Allocated, Tuned,
                        InitPlaces, TInv, ControlOK
  <2>5. QED
      BY <1>1, <2>2, <2>3, <2>4, UntouchedBooks DEF Books
<1>6. QED
    BY <1>2, <1>4, <1>5 DEF IsoStart, InitDone

LEMMA ScanFound ==
    ASSUME TInv, Scan
    PROVE  /\ ControlOK' /\ Found \subseteq Found' /\ Found' \subseteq Nodes
           /\ \A d \in Found : devices'[d] = devices[d]
<1>1. ControlOK'
    BY ScanTInv DEF TInv
<1>2. CASE scanned < NumNodes /\ devices' = Append(devices, scanned + 1)
  <2>1. /\ devices \in Seq(Nodes) /\ devices' \in Seq(Nodes)
        /\ found_devices' <= scanned' /\ scanned' \in 0 .. NumNodes
      BY <1>1 DEF TInv, ControlOK
  <2>2. scanned + 1 \in Nodes
    <3>1. scanned \in Nat /\ NumNodes \in Nat
        BY Constants DEF TInv, ControlOK
    <3>2. QED
        BY <1>2, <3>1 DEF Nodes
  <2>3. Found' \subseteq Nodes
    <3>1. Found' = 1 .. Len(devices')
        BY DEF Found, found_devices
    <3>2. Len(devices') \in Nat /\ Len(devices') <= NumNodes
        BY <2>1, Constants DEF found_devices
    <3>3. QED
        BY <3>1, <3>2, Constants
  <2>4. Found \subseteq Found' /\ \A d \in Found : devices'[d] = devices[d]
      BY <1>2, <2>1, <2>2 DEF Found, found_devices
  <2>5. QED
      BY <1>1, <2>3, <2>4
<1>3. CASE devices' = devices
    BY <1>1, <1>3, Current DEF TInv, Found, found_devices
<1>4. QED
    BY <1>2, <1>3 DEF Scan

LEMMA ScanBooks ==
    ASSUME TInv, Books, Orderly', Scan
    PROVE  Books'
<1>1. /\ place = "scan" /\ handles = {} /\ full_init /\ device = 1
      /\ UNCHANGED <<full_init, channelVars, handles, pending>>
      /\ \A d \in Nodes : NotYetOK(d) /\ pending[d] = 0
    BY DEF Scan, contextVars, busVars, TInv, BusOK, ControlOK, Books, NotYet
<1>2. CASE place' = "scan"
  <2>1. UNCHANGED <<device, exit>> /\ devices' \in {devices, Append(devices, scanned + 1)}
      BY <1>2 DEF Scan, Go, Exit
  <2>2. /\ ControlOK' /\ Found \subseteq Found' /\ Found' \subseteq Nodes
        /\ \A d \in Found : devices'[d] = devices[d]
      BY ScanFound
  <2>3. \A d \in Found' : got[d] = {}
      BY <1>1, <2>2 DEF NotYetOK
  <2>4. Divided'
    <3>1. \A p \in Ports, c \in Channels : c \in available[p] <=> c \notin taken[p]
        BY <1>1, Current DEF Books, Divided, On, NotYetOK, TInv
    <3>2. \A p : On(p)' \subseteq Found'
        BY DEF On
    <3>3. QED
        BY <1>1, <2>3, <3>1, <3>2 DEF Divided, channelVars
  <2>5. SetupOK' /\ CleanupOK'
      BY <1>1, <1>2, <2>1 DEF SetupOK, CleanupOK, CleanupPlaces,
             Allocated, Tuned, InitPlaces, TInv, ControlOK
  <2>6. \A d : ~IsSetUp(d)'
      BY <1>2 DEF IsSetUp, InitPlaces, LoopPlaces
  <2>7. \A d \in Nodes : NotYetOK(d)'
      BY <1>1 DEF NotYetOK, channelVars
  <2>8. \A d \in Found' : pending'[d] <= 1
      BY <1>1, <2>2
  <2>9. QED
      BY <2>4, <2>5, <2>6, <2>7, <2>8 DEF Books
<1>3. CASE place' # "scan"
  <2>1. Go("handles") /\ UNCHANGED <<scanned, devices>> /\ found_devices > 0
      BY <1>3 DEF Scan, Go, Exit, Orderly
  <2>2. Untouched /\ place' = "handles" /\ device' = 1 /\ UNCHANGED exit
      BY <1>1, <2>1 DEF Untouched, Go
  <2>3. 1 \in Found /\ 1 \in Nodes /\ Found \subseteq Nodes
      BY <2>1, Current, Constants DEF Found, TInv
  <2>4. SetupOK'
      BY <1>1, <2>2, <2>3, UntouchedBooks
         DEF SetupOK, Untouched, channelVars, Allocated, Tuned, InitPlaces, NotYetOK
  <2>5. CleanupOK'
      BY <1>1, <2>2 DEF CleanupOK, CleanupPlaces, TInv, ControlOK
  <2>6. \A d \in Found' : ~IsSetUp(d)'
      BY <1>1, <2>2, UntouchedBooks DEF IsSetUp, InitPlaces, LoopPlaces, Found
  <2>7. \A d \in Nodes : NotYetOK(d)'
      BY <1>1, <2>2, UntouchedBooks
  <2>8. QED
      BY <2>2, <2>4, <2>5, <2>6, <2>7, UntouchedBooks DEF Books
<1>4. QED
    BY <1>2, <1>3

LEMMA NewHandlesBooks ==
    ASSUME TInv, Books, Orderly', NewHandles
    PROVE  Books'
<1>1. /\ place = "handles" /\ full_init /\ handles' = handles \cup {device}
      /\ UNCHANGED <<devices, device, exit, full_init, channelVars, pending>>
      /\ place' = "readChannels"
    BY DEF NewHandles, Transact, InitFails, Fault, Go, Orderly, hostVars,
           busVars, TInv, ControlOK
<1>2. Found' = Found /\ \A p : On(p)' = On(p)
    BY <1>1 DEF Found, found_devices, On
<1>3. Divided' /\ \A d \in Found' : pending'[d] <= 1
    BY <1>1, <1>2 DEF Books, Divided, channelVars
<1>4. \A d : /\ NotYet(d)' => NotYet(d) /\ d # device
             /\ IsSetUp(d)' => IsSetUp(d)
  <2>1. device \in Nat
      BY Current DEF TInv
  <2>2. QED
      BY <1>1, <2>1 DEF NotYet, IsSetUp, InitPlaces, LoopPlaces
<1>5. \A d : NotYetOK(d) /\ d # device => NotYetOK(d)'
    BY <1>1 DEF NotYetOK, channelVars
<1>6. \A d : SetUpOK(d) => SetUpOK(d)'
    BY <1>1 DEF SetUpOK, Two, ChannelsOf, channelVars
<1>7. SetupOK'
    BY <1>1, <1>2 DEF Books, SetupOK, channelVars, Allocated, Tuned, InitPlaces
<1>8. CleanupOK'
    BY <1>1 DEF CleanupOK, CleanupPlaces, TInv, ControlOK
<1>9. QED
    BY <1>2, <1>3, <1>4, <1>5, <1>6, <1>7, <1>8 DEF Books

LEMMA ReadChannelsBooks ==
    ASSUME TInv, Books, Orderly', ReadChannels
    PROVE  Books'
<1> DEFINE free == available[Port]
<1>1. /\ place = "readChannels" /\ device \in Found /\ device \in Nodes
      /\ Port \in Ports /\ free \subseteq Channels
    BY Current DEF ReadChannels, TInv, ChannelsOK
<1>2. /\ recv_channel' = [recv_channel EXCEPT ![device] = Lowest(free)]
      /\ xmit_channel' = [xmit_channel EXCEPT ![device] = SecondFree(free)]
      /\ xmit_channel'[device] = SecondFree(free)
      /\ \/ SecondFree(free) # NONE /\ Go("allocRecv")
         \/ SecondFree(free) = NONE /\ ~full_init /\ Go("react")
  <2>1. xmit_channel'[device] = SecondFree(free) \/ Fault("fail")
      BY <1>1 DEF ReadChannels, TInv, ChannelsOK
  <2>2. ~Fault("fail") /\ \A how \in {"error"} : ~Exit(how)
      BY DEF Fault, Exit, Orderly
  <2>3. QED
      BY <2>1, <2>2 DEF ReadChannels, InitFails, BackFromHandler
<1>3. UNCHANGED <<devices, device, exit, full_init, available, got, taken,
                  handles, pending>>
    BY <1>2 DEF ReadChannels, Go, hostVars, contextVars, busVars
<1>4. Found' = Found /\ Found \subseteq Nodes /\ \A p : On(p)' = On(p)
    BY <1>3, Current DEF Found, found_devices, On, TInv
<1>5. Divided' /\ \A d \in Found' : pending'[d] <= 1
    BY <1>3, <1>4 DEF Books, Divided
<1>6. \A d : /\ NotYet(d)' => NotYet(d)
             /\ NotYetOK(d)' = NotYetOK(d)
             /\ IsSetUp(d)' /\ d # device => IsSetUp(d)
    BY <1>1, <1>2, <1>3 DEF Go, NotYet, IsSetUp, NotYetOK, InitPlaces, LoopPlaces
<1>7. \A d \in Found : IsSetUp(d) /\ d # device => SetUpOK(d)'
  <2>1. \A d \in Found : d # device => ChannelsOf(d)' = ChannelsOf(d)
                                       /\ Two(d)' = Two(d)
      BY <1>2, <1>4 DEF TInv, ChannelsOK, ChannelsOf, Two
  <2>2. QED
      BY <1>3, <2>1 DEF Books, SetUpOK
<1>8. /\ pending[device] = 0 /\ device \in handles /\ got[device] = {}
      /\ full_init => \A d \in Found : pending[d] = 0
    BY <1>1 DEF Books, SetupOK, InitPlaces
<1>9. \A d \in Found : d = device /\ IsSetUp(d)' => SetUpOK(d)'
  <2>1. device \in Nat
      BY Current DEF TInv
  <2>2. \A d \in Found : d = device /\ IsSetUp(d)' =>
            NONE \in ChannelsOf(d)' /\ ~full_init'
      BY <1>2, <1>3, <2>1 DEF Go, IsSetUp, InitPlaces, LoopPlaces, ChannelsOf
  <2>3. QED
      BY <1>3, <1>8, <2>2 DEF SetUpOK
<1>10. /\ \A d \in Nodes : NotYet(d)' => NotYetOK(d)'
       /\ \A d \in Found' : IsSetUp(d)' => SetUpOK(d)'
  <2>1. \A d \in Nodes : NotYet(d) => NotYetOK(d)
      BY DEF Books
  <2>2. \A d \in Nodes : NotYet(d)' => NotYetOK(d)'
      BY <1>6, <2>1
  <2>3. \A d \in Found : IsSetUp(d)' => SetUpOK(d)'
    <3> SUFFICES ASSUME NEW d \in Found, IsSetUp(d)' PROVE SetUpOK(d)'
        OBVIOUS
    <3>1. CASE d = device
        BY <1>9, <3>1
    <3>2. CASE d # device
        BY <1>6, <1>7, <3>2
    <3>3. QED
        BY <3>1, <3>2
  <2>4. QED
      BY <1>4, <2>2, <2>3
<1>11. CASE Go("allocRecv")
  <2>1. Port' = Port
      BY <1>3 DEF Port, Node
  <2>2. /\ recv_channel'[device] = Lowest(free) /\ xmit_channel'[device] = SecondFree(free)
        /\ Lowest(free) \in free /\ SecondFree(free) \in free
        /\ Lowest(free) # SecondFree(free)
      BY <1>1, <1>2, <1>11, SecondFreeIs DEF TInv, ChannelsOK, Go
  <2>3. Two(device)'
      BY <1>1, <1>3, <2>2 DEF Two, ChannelsOf
  <2>4. SetupOK'
      BY <1>3, <1>4, <1>8, <1>11, <2>1, <2>2, <2>3
         DEF SetupOK, Go, Allocated, Tuned, InitPlaces
  <2>5. CleanupOK'
      BY <1>1, <1>3, <1>11 DEF CleanupOK, Go, CleanupPlaces, TInv, ControlOK
  <2>6. QED
      BY <1>4, <1>5, <1>10, <2>4, <2>5 DEF Books
<1>12. CASE Go("react")
  <2>1. SetupOK' /\ CleanupOK'
      BY <1>1, <1>3, <1>12 DEF SetupOK, CleanupOK, Go, CleanupPlaces, Allocated,
                               Tuned, InitPlaces, TInv, ControlOK
  <2>2. QED
      BY <1>4, <1>5, <1>10, <2>1 DEF Books
<1>13. QED
    BY <1>2, <1>11, <1>12

(* One channel that is free goes to the device that is being set up.        *)
LEMMA AllocateDivided ==
    ASSUME TInv, Divided, place \in InitPlaces, NEW c \in available[Port],
           Claim(c), UNCHANGED <<devices, taken>>
    PROVE  Divided'
<1>1. device \in Found /\ device \in Nodes /\ Port \in Ports
    BY Current DEF TInv, InitPlaces
<1>2. /\ available' = [available EXCEPT ![Port] = @ \ {c}]
      /\ got' = [got EXCEPT ![device] = @ \cup {c}]
    BY DEF Claim
<1>3. c \in Channels /\ c \notin taken[Port] /\ \A d \in On(Port) : c \notin got[d]
    BY <1>1 DEF TInv, ChannelsOK, Divided
<1>4. Found' = Found /\ (\A p : On(p)' = On(p)) /\ Found \subseteq Nodes
    BY Current DEF Found, found_devices, On, TInv
<1>5. \A d \in Found : got'[d] = IF d = device THEN got[d] \cup {c} ELSE got[d]
    BY <1>2, <1>4 DEF TInv, ChannelsOK
<1>6. \A p \in Ports : available'[p] = IF p = Port THEN available[p] \ {c}
                                       ELSE available[p]
    BY <1>2 DEF TInv, ChannelsOK
<1>7. device \in On(Port) /\ \A p : device \in On(p) => p = Port
    BY <1>1 DEF On, Port, Node
<1>8. \A p \in Ports, x \in Channels :
          x \in available'[p] <=> x \notin taken[p] /\ \A d \in On(p) : x \notin got'[d]
  <2> SUFFICES ASSUME NEW p \in Ports, NEW x \in Channels
               PROVE  x \in available'[p] <=>
                          x \notin taken[p] /\ \A d \in On(p) : x \notin got'[d]
      OBVIOUS
  <2>1. x \in available[p] <=> x \notin taken[p] /\ \A d \in On(p) : x \notin got[d]
      BY DEF Divided
  <2>2. On(p) \subseteq Found
      BY DEF On
  <2>3. CASE p = Port
      BY <1>3, <1>5, <1>6, <1>7, <2>1, <2>2, <2>3
  <2>4. CASE p # Port
      BY <1>5, <1>6, <1>7, <2>1, <2>2, <2>4
  <2>5. QED
      BY <2>3, <2>4
<1>9. \A d, e \in Found : d # e /\ PortOf[devices[d]] = PortOf[devices[e]]
                             => got'[d] \cap got'[e] = {}
  <2>1. \A d \in Found : PortOf[devices[d]] = Port => c \notin got[d]
      BY <1>3 DEF On
  <2>2. PortOf[devices[device]] = Port
      BY DEF Port, Node
  <2> SUFFICES ASSUME NEW d \in Found, NEW e \in Found, d # e,
                      PortOf[devices[d]] = PortOf[devices[e]]
               PROVE  got'[d] \cap got'[e] = {}
      OBVIOUS
  <2>3. got[d] \cap got[e] = {}
      BY DEF Divided
  <2>4. CASE d = device
      BY <1>5, <2>1, <2>2, <2>3, <2>4
  <2>5. CASE e = device
      BY <1>5, <2>1, <2>2, <2>3, <2>5
  <2>6. CASE d # device /\ e # device
      BY <1>5, <2>3, <2>6
  <2>7. QED
      BY <2>4, <2>5, <2>6
<1>10. \A p \in Ports : \A d \in On(p) : got'[d] \cap taken[p] = {}
  <2>1. \A p \in Ports : \A d \in On(p) : d \in Found /\ got[d] \cap taken[p] = {}
      BY DEF Divided, On
  <2>2. QED
      BY <1>3, <1>5, <1>7, <2>1
<1>11. QED
    BY <1>4, <1>8, <1>9, <1>10 DEF Divided

LEMMA AllocateBooks ==
    ASSUME TInv, Books, Orderly', AllocateChannel
    PROVE  Books'
<1>1. /\ place \in {"allocRecv", "allocXmit"} /\ place \in InitPlaces
      /\ device \in Found /\ device \in Nodes /\ Port \in Ports
      /\ Found \subseteq Nodes
    BY Current DEF AllocateChannel, TInv, InitPlaces
<1>2. /\ UNCHANGED <<devices, device, exit, full_init, recv_channel,
                      xmit_channel, taken, handles, pending>>
      /\ place' = IF place = "allocRecv" THEN "allocXmit" ELSE "writeXmit"
    BY DEF AllocateChannel, Go, hostVars, contextVars, busVars
<1> DEFINE c == IF place = "allocRecv" THEN recv_channel[device]
                ELSE xmit_channel[device]
<1>3. c \in available[Port] /\ Claim(c)
  <2>1. c \in available[Port] \cup taken[Port]
      BY <1>1 DEF Books, SetupOK
  <2>2. Allocate(c) /\ ~faulted'
      BY <1>1 DEF AllocateChannel, Orderly
  <2>3. QED
      BY <2>1, <2>2 DEF Allocate, Claim, Fault
<1>4. /\ available' = [available EXCEPT ![Port] = @ \ {c}]
      /\ got' = [got EXCEPT ![device] = @ \cup {c}]
      /\ Divided'
    BY <1>1, <1>2, <1>3, AllocateDivided DEF Books, Claim
<1>5. /\ Found' = Found /\ Port' = Port
      /\ \A p : On(p)' = On(p)
      /\ \A d : Two(d)' = Two(d) /\ ChannelsOf(d)' = ChannelsOf(d)
    BY <1>2 DEF Found, found_devices, On, Port, Node, Two, ChannelsOf
<1>6. /\ \A d \in Nodes : d # device => got'[d] = got[d]
      /\ got'[device] = got[device] \cup {c}
    BY <1>1, <1>4 DEF TInv, ChannelsOK
<1>7. \A d : NotYet(d)' = NotYet(d) /\ IsSetUp(d)' = IsSetUp(d)
    BY <1>1, <1>2 DEF NotYet, IsSetUp, InitPlaces, LoopPlaces
<1>8. \A d \in Nodes : NotYet(d) \/ IsSetUp(d) => d # device
    BY <1>1, Constants DEF NotYet, IsSetUp, InitPlaces, LoopPlaces
<1>9. \A d \in Nodes : NotYet(d)' => NotYetOK(d)'
    BY <1>2, <1>6, <1>7, <1>8 DEF Books, NotYetOK
<1>10. \A d \in Found' : IsSetUp(d)' => SetUpOK(d)'
    BY <1>1, <1>2, <1>5, <1>6, <1>7, <1>8 DEF Books, SetUpOK
<1>11. SetupOK'
  <2>1. /\ pending[device] = 0 /\ device \in handles /\ Two(device)
        /\ full_init => \A d \in Found : pending[d] = 0
      BY <1>1 DEF Books, SetupOK
  <2>2. CASE place = "allocRecv"
    <3>1. /\ got[device] = {}
          /\ xmit_channel[device] \in available[Port] \cup taken[Port]
        BY <2>2 DEF Books, SetupOK
    <3>2. /\ got'[device] = {recv_channel[device]}
          /\ xmit_channel[device] \in available'[Port] \cup taken[Port]
        BY <1>1, <1>4, <1>6, <2>1, <2>2, <3>1 DEF TInv, ChannelsOK, Two
    <3>3. QED
        BY <1>2, <1>5, <2>1, <2>2, <3>2
           DEF SetupOK, Allocated, Tuned, InitPlaces
  <2>3. CASE place = "allocXmit"
    <3>1. got[device] = {recv_channel[device]}
        BY <2>3 DEF Books, SetupOK
    <3>2. got'[device] = ChannelsOf(device)
        BY <1>6, <2>3, <3>1 DEF ChannelsOf
    <3>3. QED
        BY <1>2, <1>5, <2>1, <2>3, <3>2
           DEF SetupOK, Allocated, Tuned, InitPlaces
  <2>4. QED
      BY <1>1, <2>2, <2>3
<1>12. CleanupOK'
    BY <1>1, <1>2, <1>5 DEF CleanupOK, CleanupPlaces, TInv, ControlOK
<1>13. \A d \in Found' : pending'[d] <= 1
    BY <1>2, <1>5 DEF Books
<1>14. QED
    BY <1>4, <1>9, <1>10, <1>11, <1>12, <1>13 DEF Books

(* The loop of main.  A device whose handle tells of a bus reset holds      *)
(* nothing, and its setup begins.                                           *)
LEMMA HandlerBegins ==
    ASSUME TInv, Books, place \in LoopPlaces, device \in Found,
           pending[device] > 0,
           pending' = [pending EXCEPT ![device] = @ - 1],
           ~full_init', Go("readChannels"),
           UNCHANGED <<devices, channelVars, handles>>
    PROVE  Books'
<1>1. /\ place' = "readChannels" /\ UNCHANGED <<device, exit>>
      /\ place # "exited" /\ Found \subseteq Nodes
    BY Current DEF Go, LoopPlaces, TInv
<1>2. Found' = Found /\ \A p : On(p)' = On(p)
    BY <1>1 DEF Found, found_devices, On
<1>3. \A d \in Found : SetUpOK(d) /\ pending[d] <= 1
    BY DEF Books, IsSetUp
<1>4. /\ pending'[device] = 0
      /\ \A d \in Found \ {device} : pending'[d] = pending[d]
  <2>1. pending[device] \in Nat /\ pending[device] <= 1
      BY <1>1, <1>3 DEF TInv, BusOK
  <2>2. QED
      BY <1>1, <2>1 DEF TInv, BusOK
<1>5. Divided' /\ \A d \in Found' : pending'[d] <= 1
    BY <1>2, <1>3, <1>4 DEF Books, Divided, channelVars
<1>6. \A d \in Found' : IsSetUp(d)' => SetUpOK(d)'
    BY <1>1, <1>2, <1>3, <1>4
       DEF IsSetUp, InitPlaces, LoopPlaces, SetUpOK, Two, ChannelsOf, channelVars
<1>7. \A d : ~NotYet(d)'
    BY <1>1 DEF NotYet
<1>8. got[device] = {} /\ device \in handles
    BY <1>3 DEF SetUpOK
<1>9. SetupOK'
    BY <1>1, <1>4, <1>8 DEF SetupOK, channelVars, Allocated, Tuned, InitPlaces
<1>10. CleanupOK'
    BY <1>1 DEF CleanupOK, CleanupPlaces, TInv, ControlOK
<1>11. QED
    BY <1>5, <1>6, <1>7, <1>9, <1>10 DEF Books

LEMMA SelectBooks ==
    ASSUME TInv, Books, Orderly', Select
    PROVE  Books'
BY LoopTurns DEF Select, Fault, Orderly, LoopPlaces, Untouched, hostVars,
                 contextVars, busVars

LEMMA RecvBooks ==
    ASSUME TInv, Books, Orderly', Recv
    PROVE  Books'
<1>1. /\ place \in LoopPlaces /\ device \in Found
      /\ UNCHANGED <<devices, channelVars, handles>>
    BY Current DEF Recv, LoopPlaces, TInv, contextVars
<1>2. CASE NextInRound /\ UNCHANGED <<full_init, pending>>
    BY <1>1, <1>2, RoundBooks DEF Untouched
<1>3. CASE Go("react") /\ UNCHANGED <<full_init, pending>>
    BY <1>1, <1>3, LoopTurns DEF Untouched, Go, LoopPlaces
<1>4. CASE /\ pending[device] > 0
           /\ pending' = [pending EXCEPT ![device] = @ - 1]
           /\ ~full_init' /\ Go("readChannels")
    BY <1>1, <1>4, HandlerBegins
<1>5. QED
    BY <1>2, <1>3, <1>4 DEF Recv, Receive, Fault, Orderly

LEMMA XmitBooks ==
    ASSUME TInv, Books, Orderly', Xmit
    PROVE  Books'
BY RoundBooks DEF Xmit, Fault, Orderly, LoopPlaces, Untouched, hostVars,
                  contextVars, busVars

LEMMA ResetDivided ==
    ASSUME TInv, Divided, NEW p \in Ports, ResetBus(p), UNCHANGED devices
    PROVE  /\ Found' = Found /\ Found \subseteq Nodes
           /\ \A q : On(q)' = On(q) /\ On(q) \subseteq Found
           /\ \A d \in Found : got'[d] = IF d \in On(p) THEN {} ELSE got[d]
           /\ \A d \in Nodes : got[d] = {} => got'[d] = {}
           /\ \A d \in Nodes : got'[d] \subseteq got[d]
           /\ Divided'
<1>1. /\ Found' = Found /\ Found \subseteq Nodes
      /\ \A q : On(q)' = On(q) /\ On(q) \subseteq Found
    BY Current DEF Found, found_devices, On, TInv
<1>2. /\ \A d \in Found : got'[d] = IF d \in On(p) THEN {} ELSE got[d]
      /\ \A d \in Nodes : got[d] = {} => got'[d] = {}
      /\ \A d \in Nodes : got'[d] \subseteq got[d]
    BY <1>1 DEF ResetBus, TInv, ChannelsOK, On
<1>3. \A q \in Ports : available'[q] = IF q = p THEN Channels \ taken[q]
                                       ELSE available[q]
    BY DEF ResetBus, TInv, ChannelsOK
<1>4. Divided'
  <2>1. \A q \in Ports, c \in Channels :
            c \in available'[q] <=> c \notin taken[q] /\ \A d \in On(q) : c \notin got'[d]
    <3> SUFFICES ASSUME NEW q \in Ports, NEW c \in Channels
                 PROVE  c \in available'[q] <=>
                            c \notin taken[q] /\ \A d \in On(q) : c \notin got'[d]
        OBVIOUS
    <3>1. c \in available[q] <=> c \notin taken[q] /\ \A d \in On(q) : c \notin got[d]
        BY DEF Divided
    <3>2. CASE q = p
        BY <1>1, <1>2, <1>3, <3>2
    <3>3. CASE q # p
      <4>1. \A d \in On(q) : d \notin On(p)
          BY <3>3 DEF On
      <4>2. QED
          BY <1>1, <1>2, <1>3, <3>1, <3>3, <4>1
    <3>4. QED
        BY <3>2, <3>3
  <2>2. \A d, e \in Found : d # e /\ PortOf[devices[d]] = PortOf[devices[e]]
                               => got'[d] \cap got'[e] = {}
    <3> SUFFICES ASSUME NEW d \in Found, NEW e \in Found, d # e,
                        PortOf[devices[d]] = PortOf[devices[e]]
                 PROVE  got'[d] \cap got'[e] = {}
        OBVIOUS
    <3>1. got[d] \cap got[e] = {}
        BY DEF Divided
    <3>2. got'[d] \subseteq got[d] /\ got'[e] \subseteq got[e]
        BY <1>1, <1>2
    <3>3. QED
        BY <3>1, <3>2
  <2>3. \A q \in Ports : \A d \in On(q) : got'[d] \cap taken[q] = {}
    <3>1. \A q \in Ports : \A d \in On(q) : d \in Found /\ got[d] \cap taken[q] = {}
        BY <1>1 DEF Divided
    <3>2. QED
        BY <1>1, <1>2, <3>1
  <2>4. UNCHANGED <<taken, devices>>
      BY DEF ResetBus
  <2>5. QED
      BY <1>1, <2>1, <2>2, <2>3, <2>4 DEF Divided
<1>5. QED
    BY <1>1, <1>2, <1>3, <1>4

(* A bus reset takes the channels of all devices of a port back at once; as *)
(* it is the only one, the devices have not yet told of any other.          *)
LEMMA ResetBooks ==
    ASSUME TInv, Books, Orderly', NEW p \in Ports, ResetBus(p),
           place # "exited", UNCHANGED exit,
           place \notin InitPlaces, place' \notin InitPlaces,
           \/ UNCHANGED place
           \/ {place, place'} \subseteq LoopPlaces,
           UNCHANGED <<devices, device, full_init, recv_channel, xmit_channel, handles,
                       recvContext, xmitContext, enabled>>
    PROVE  Books'
<1>1. /\ Found' = Found /\ Found \subseteq Nodes
      /\ \A q : On(q)' = On(q) /\ On(q) \subseteq Found
    BY ResetDivided DEF Books
<1>2. /\ \A d \in Found : got'[d] = IF d \in On(p) THEN {} ELSE got[d]
      /\ \A d \in Nodes : got[d] = {} => got'[d] = {}
      /\ \A d \in Nodes : got'[d] \subseteq got[d]
    BY ResetDivided DEF Books
<1>3. \A d \in Found : /\ pending'[d] <= 1
                       /\ d \notin handles \cap On(p) => pending'[d] = pending[d]
                       /\ d \in handles \cap On(p) => pending'[d] = 1
  <2> SUFFICES ASSUME NEW d \in Found
               PROVE  /\ pending'[d] <= 1
                      /\ d \notin handles \cap On(p) => pending'[d] = pending[d]
                      /\ d \in handles \cap On(p) => pending'[d] = 1
      OBVIOUS
  <2>1. ~(pending'[d] > 1)
      BY <1>1 DEF ResetBus, Orderly
  <2>2. pending'[d] = IF d \in handles /\ PortOf[devices[d]] = p
                      THEN pending[d] + 1 ELSE pending[d]
      BY <1>1 DEF ResetBus
  <2>3. pending[d] \in Nat
      BY <1>1 DEF TInv, BusOK
  <2>4. d \in On(p) <=> PortOf[devices[d]] = p
      BY DEF On
  <2>5. QED
      BY <2>1, <2>2, <2>3, <2>4
<1>4. Divided'
    BY ResetDivided DEF Books
<1>5. \A d \in Nodes : NotYet(d)' => NotYetOK(d)'
  <2>1. \A d : NotYet(d)' => NotYet(d)
      BY DEF NotYet, LoopPlaces
  <2>2. QED
      BY <1>2, <2>1 DEF Books, NotYetOK
<1>6. \A d \in Found' : IsSetUp(d)' => SetUpOK(d)'
  <2> SUFFICES ASSUME NEW d \in Found, IsSetUp(d)'
               PROVE  SetUpOK(d)'
      BY <1>1
  <2>1. SetUpOK(d)
      BY DEF IsSetUp, Books
  <2>2. d \in handles /\ d \in handles'
      BY <2>1 DEF SetUpOK
  <2>3. CASE d \in On(p)
      BY <1>2, <1>3, <2>2, <2>3 DEF SetUpOK
  <2>4. CASE d \notin On(p)
      BY <1>2, <1>3, <2>1, <2>2, <2>4 DEF SetUpOK, Two, ChannelsOf
  <2>5. QED
      BY <2>3, <2>4
<1>7. SetupOK'
    BY DEF SetupOK, Allocated, Tuned, InitPlaces
<1>8. CleanupOK'
  <2>1. exit' # "done"
      BY DEF TInv, ControlOK
  <2>2. place' \in CleanupPlaces => place' = place
      BY DEF LoopPlaces, CleanupPlaces
  <2>3. \A d \in Found : /\ Down(d) => Down(d)'
                         /\ Listed(d) => Listed(d)'
      BY <1>1, <1>2 DEF Down, Listed, ChannelsOf
  <2>4. Node' = Node
      BY DEF Node
  <2>5. place' \in CleanupPlaces =>
            /\ \A d \in Found : d < device => Down(d)'
            /\ \A d \in Found : d >= device => Listed(d)'
    <3>1. place' \in CleanupPlaces =>
            /\ \A d \in Found : d < device => Down(d)
            /\ \A d \in Found : d >= device => Listed(d)
        BY <2>2 DEF Books, CleanupOK
    <3>2. QED
        BY <2>3, <3>1
  <2>6. /\ place' \in {"shutdown", "free"} => ~enabled'[Node']
        /\ place' = "free" => recvContext'[device] = NONE /\ xmitContext'[device] = NONE
      BY <2>2, <2>4 DEF Books, CleanupOK, CleanupPlaces
  <2>7. QED
      BY <1>1, <2>1, <2>5, <2>6 DEF CleanupOK
<1>9. QED
    BY <1>1, <1>3, <1>4, <1>5, <1>6, <1>7, <1>8 DEF Books

LEMMA ReactBooks ==
    ASSUME TInv, Books, Orderly', React
    PROVE  Books'
<1>1. /\ place \in LoopPlaces /\ place' \in LoopPlaces /\ Port \in Ports
      /\ place \notin InitPlaces /\ place' \notin InitPlaces
      /\ place # "exited"
      /\ UNCHANGED <<devices, device, full_init, exit, recv_channel,
                     xmit_channel, handles, recvContext, xmitContext, enabled>>
    BY Current DEF React, Go, TInv, LoopPlaces, InitPlaces, hostVars,
                   contextVars, nodeVars
<1>2. CASE ResetBus(Port)
    BY <1>1, <1>2, ResetBooks
<1>3. CASE UNCHANGED <<busVars, available, got, taken>>
    BY <1>1, <1>3, LoopTurns DEF Untouched, channelVars, busVars
<1>4. QED
    BY <1>2, <1>3 DEF React

LEMMA BusResetBooks ==
    ASSUME TInv, Books, Orderly', BusReset
    PROVE  Books'
<1>1. PICK p \in Ports : ResetBus(p)
    BY DEF BusReset
<1>2. place \notin InitPlaces /\ place' \notin InitPlaces /\ place # "exited"
    BY <1>1 DEF BusReset, ResetBus, Orderly
<1>3. QED
    BY <1>1, <1>2, ResetBooks DEF BusReset, hostVars, contextVars, nodeVars

-----------------------------------------------------------------------------
(* Taking down.                                                             *)
LEMMA CleanupGoesOn ==
    ASSUME TInv, Books, Untouched,
           place \in CleanupPlaces, place' \in CleanupPlaces,
           UNCHANGED <<device, exit>>,
           \A d \in Found : d < device =>
               /\ enabled'[devices[d]] => enabled[devices[d]]
               /\ recvContext'[d] = recvContext[d] /\ xmitContext'[d] = xmitContext[d],
           place' \in {"shutdown", "free"} => ~enabled'[Node],
           place' = "free" => recvContext'[device] = NONE /\ xmitContext'[device] = NONE
    PROVE  Books'
<1>1. /\ place # "exited"
      /\ {place, place'} \cap ({"scan"} \cup InitPlaces \cup LoopPlaces) = {}
    BY DEF InitPlaces, LoopPlaces, CleanupPlaces
<1>2. Node' = Node
    BY DEF Untouched, Node
<1>3. \A d : ~NotYet(d)' /\ ~IsSetUp(d)'
    BY <1>1 DEF NotYet, IsSetUp, InitPlaces
<1>4. SetupOK'
    BY <1>1 DEF SetupOK, Allocated, Tuned, InitPlaces
<1>5. CleanupOK'
  <2>1. \A d \in Found : d < device => Down(d)'
      BY DEF Books, CleanupOK, Down, Untouched, channelVars
  <2>2. \A d \in Found : d >= device => Listed(d)'
      BY DEF Books, CleanupOK, Listed, ChannelsOf, Untouched, channelVars
  <2>3. QED
      BY <1>1, <1>2, <2>1, <2>2, UntouchedBooks DEF CleanupOK, TInv, ControlOK
<1>6. QED
    BY <1>2, <1>3, <1>4, <1>5, UntouchedBooks DEF Books

LEMMA LastStatusBooks ==
    ASSUME TInv, Books, Orderly', LastStatus
    PROVE  Books'
BY CleanupGoesOn DEF LastStatus, Untouched, Go, Fault, Orderly, CleanupPlaces, hostVars,
                     contextVars, busVars, nodeVars

LEMMA DisableBooks ==
    ASSUME TInv, Books, Orderly', Disable
    PROVE  Books'
<1>1. /\ enabled' = [enabled EXCEPT ![Node] = FALSE] /\ Go("shutdown")
      /\ Untouched /\ UNCHANGED contextVars
      /\ place = "disable"
    BY DEF Disable, Untouched, contextVars, BitCleared, Fault, Orderly, hostVars, busVars
<1>2. Node \in Nodes /\ \A d \in Found : devices[d] \in Nodes
    BY <1>1, Current DEF TInv
<1>3. ~enabled'[Node] /\ \A n \in Nodes : enabled'[n] => enabled[n]
    BY <1>1, <1>2 DEF TInv, NodeOK
<1>4. QED
    BY <1>1, <1>2, <1>3, CleanupGoesOn DEF Go, CleanupPlaces, contextVars

LEMMA ShutdownBooks ==
    ASSUME TInv, Books, Orderly', Shutdown
    PROVE  Books'
<1>1. device \in Nodes /\ device \in Nat /\ Found \subseteq Nodes
    BY Current DEF Shutdown, TInv
<1>2. /\ recvContext'[device] = NONE /\ xmitContext'[device] = NONE
      /\ \A d \in Found : d < device => recvContext'[d] = recvContext[d]
                                        /\ xmitContext'[d] = xmitContext[d]
    BY <1>1, Constants DEF Shutdown, TInv, ContextsOK
<1>3. ~enabled[Node]
    BY DEF Books, CleanupOK, Shutdown
<1>4. QED
    BY <1>2, <1>3, CleanupGoesOn
       DEF Shutdown, Untouched, Go, CleanupPlaces, hostVars, busVars, nodeVars

(* Channels of a port that are given back become free, whoever held them.   *)
LEMMA GiveBackDivided ==
    ASSUME TInv, Divided, place = "free", NEW S \in SUBSET Channels, GiveBack(S),
           UNCHANGED devices
    PROVE  /\ Divided'
           /\ \A d \in Found : got'[d] = IF d \in On(Port) THEN got[d] \ S ELSE got[d]
<1>1. Port \in Ports /\ Found \subseteq Nodes
    BY Current DEF TInv
<1>2. Found' = Found /\ \A p : On(p)' = On(p) /\ On(p) \subseteq Found
    BY DEF Found, found_devices, On
<1>3. \A p \in Ports :
          /\ available'[p] = IF p = Port THEN available[p] \cup S ELSE available[p]
          /\ taken'[p] = IF p = Port THEN taken[p] \ S ELSE taken[p]
    BY <1>1 DEF GiveBack, TInv, ChannelsOK
<1>4. \A d \in Found : got'[d] = IF d \in On(Port) THEN got[d] \ S ELSE got[d]
    BY <1>1 DEF GiveBack, TInv, ChannelsOK, On
<1>5. \A d \in Found : got'[d] \subseteq got[d]
    BY <1>4
<1>6. \A p \in Ports, c \in Channels :
          c \in available'[p] <=> c \notin taken'[p] /\ \A d \in On(p) : c \notin got'[d]
  <2> SUFFICES ASSUME NEW p \in Ports, NEW c \in Channels
               PROVE  c \in available'[p] <=>
                          c \notin taken'[p] /\ \A d \in On(p) : c \notin got'[d]
      OBVIOUS
  <2>1. c \in available[p] <=> c \notin taken[p] /\ \A d \in On(p) : c \notin got[d]
      BY DEF Divided
  <2>2. CASE p = Port
    <3>1. \A d \in On(p) : got'[d] = got[d] \ S
        BY <1>2, <1>4, <2>2
    <3>2. CASE c \in S
        BY <1>3, <2>2, <3>1, <3>2
    <3>3. CASE c \notin S
        BY <1>3, <2>1, <2>2, <3>1, <3>3
    <3>4. QED
        BY <3>2, <3>3
  <2>3. CASE p # Port
    <3>1. \A d \in On(p) : got'[d] = got[d]
        BY <1>2, <1>4, <2>3 DEF On
    <3>2. QED
        BY <1>3, <2>1, <2>3, <3>1
  <2>4. QED
      BY <2>2, <2>3
<1>7. \A p \in Ports : \A d \in On(p) : got'[d] \cap taken'[p] = {}
  <2>1. \A p \in Ports : \A d \in On(p) : d \in Found /\ got[d] \cap taken[p] = {}
      BY <1>2 DEF Divided
  <2>2. \A p \in Ports : taken'[p] \subseteq taken[p]
      BY <1>3
  <2>3. QED
      BY <1>5, <2>1, <2>2
<1>8. \A d, e \in Found : d # e /\ PortOf[devices[d]] = PortOf[devices[e]]
                             => got'[d] \cap got'[e] = {}
  <2> SUFFICES ASSUME NEW d \in Found, NEW e \in Found, d # e,
                      PortOf[devices[d]] = PortOf[devices[e]]
               PROVE  got'[d] \cap got'[e] = {}
      OBVIOUS
  <2>1. got[d] \cap got[e] = {}
      BY DEF Divided
  <2>2. QED
      BY <1>5, <2>1
<1>9. QED
    BY <1>2, <1>4, <1>6, <1>7, <1>8 DEF Divided

(* A device gives back what it holds, and nothing of it is left.            *)
LEMMA FreeChannelsBooks ==
    ASSUME TInv, Books, Orderly', FreeChannels
    PROVE  Books'
<1>1. /\ place = "free" /\ device \in Found /\ device \in Nodes /\ device \in Nat
      /\ Port \in Ports /\ Found \subseteq Nodes /\ exit = "no"
    BY Current DEF FreeChannels, TInv, ControlOK
<1>2. /\ Listed(device) /\ OwnChannels = ChannelsOf(device)
      /\ ~enabled[Node] /\ recvContext[device] = NONE /\ xmitContext[device] = NONE
    BY <1>1 DEF OwnChannels, ChannelsOf, Books, CleanupOK, CleanupPlaces
<1>3. /\ pending' = [pending EXCEPT ![device] = 0]
      /\ handles' = handles \ {device}
      /\ UNCHANGED <<devices, recv_channel, xmit_channel, recvContext,
                     xmitContext, enabled>>
      /\ \/ place' = "lastStatus" /\ device' = device + 1 /\ UNCHANGED exit
         \/ place' = "exited" /\ ~MoreDevices(device) /\ UNCHANGED device
    BY DEF FreeChannels, hostVars, nodeVars, Exit
<1>4. Found' = Found
    BY <1>3 DEF Found, found_devices
<1>5. Divided' /\ got'[device] = {} /\ \A d \in Found : got'[d] \subseteq got[d]
  <2>1. CASE UNCHANGED <<available, got, taken>> /\ NONE \in OwnChannels
    <3>1. Found' = Found /\ \A p : On(p)' = On(p)
        BY <1>3, <1>4 DEF On
    <3>2. Divided'
        BY <1>3, <2>1, <3>1 DEF Books, Divided
    <3>3. QED
        BY <1>2, <2>1, <3>2 DEF Listed
  <2>2. CASE OwnChannels \in SUBSET Channels /\ GiveBack(OwnChannels)
    <3>1. /\ Divided'
          /\ \A d \in Found : got'[d] = IF d \in On(Port) THEN got[d] \ OwnChannels
                                        ELSE got[d]
        BY <1>1, <1>3, <2>2, GiveBackDivided DEF Books
    <3>2. device \in On(Port)
        BY <1>1 DEF On, Port, Node
    <3>3. QED
        BY <1>1, <1>2, <3>1, <3>2 DEF Listed
  <2>3. QED
    <3>1. ~Fault("fail")
        BY DEF Fault, Orderly
    <3>2. BothFound => OwnChannels \ {NONE} = OwnChannels /\ OwnChannels \in SUBSET Channels
        BY <1>1 DEF BothFound, OwnChannels, TInv, ChannelsOK
    <3>3. QED
        BY <2>1, <2>2, <3>1, <3>2 DEF FreeChannels, BothFound
<1>6. \A d : d = device => Down(d)'
    BY <1>2, <1>3, <1>5 DEF Down, Node
<1>7. \A d \in Found : d < device => Down(d)'
  <2>1. \A d \in Found : d < device => Down(d)
      BY <1>1 DEF Books, CleanupOK, CleanupPlaces
  <2>2. QED
      BY <1>3, <1>5, <2>1 DEF Down
<1>8. \A d \in Found : d > device => Listed(d)'
  <2>1. \A d \in Found : d > device => Listed(d)
    <3>1. \A d \in Found : d >= device => Listed(d)
        BY <1>1 DEF Books, CleanupOK, CleanupPlaces
    <3>2. \A d \in Found : d > device => d >= device
        BY <1>1, Constants
    <3>3. QED
        BY <3>1, <3>2
  <2>2. QED
      BY <1>3, <1>5, <2>1 DEF Listed, ChannelsOf
<1>9. CleanupOK'
  <2>1. \A d \in Found : d \in Nat
      BY <1>1, Constants
  <2>2. CASE place' = "lastStatus" /\ device' = device + 1 /\ UNCHANGED exit
    <3>1. \A d \in Found : /\ d < device + 1 => d < device \/ d = device
                           /\ d >= device + 1 => d > device
        BY <1>1, <2>1
    <3>2. QED
        BY <1>1, <1>4, <1>6, <1>7, <1>8, <2>2, <3>1 DEF CleanupOK
  <2>3. CASE place' = "exited" /\ ~MoreDevices(device) /\ UNCHANGED device
    <3>1. \A d \in Found : d < device \/ d = device
        BY <1>1, <2>1, <2>3, Current DEF MoreDevices, Found, TInv
    <3>2. QED
        BY <1>4, <1>6, <1>7, <2>3, <3>1 DEF CleanupOK, CleanupPlaces
  <2>4. QED
      BY <1>3, <2>2, <2>3
<1>10. SetupOK'
    BY <1>3 DEF SetupOK, Allocated, Tuned, InitPlaces
<1>11. \A d : ~NotYet(d)' /\ ~IsSetUp(d)'
    BY <1>3 DEF NotYet, IsSetUp, InitPlaces, LoopPlaces
<1>12. \A d \in Found' : pending'[d] <= 1
    BY <1>1, <1>3, <1>4 DEF Books, TInv, BusOK
<1>13. QED
    BY <1>5, <1>9, <1>10, <1>11, <1>12 DEF Books

-----------------------------------------------------------------------------
(* What another node takes was free, and what it gives back is.             *)
LEMMA OtherNodeDivided ==
    ASSUME TInv, Divided, OtherNode
    PROVE  /\ Found' = Found /\ Divided'
           /\ \A p \in Ports : available'[p] \cup taken'[p] = available[p] \cup taken[p]
<1>1. Found' = Found /\ (\A p : On(p)' = On(p)) /\ UNCHANGED <<got, devices>>
    BY OtherNodeIs DEF Elsewhere, hostVars, Found, found_devices, On
<1>2. PICK q \in Ports, x \in Channels : TakeOne(q, x) \/ GiveOne(q, x)
    BY OtherNodeIs, Constants
<1>3. \A p \in Ports \ {q} : available'[p] = available[p] /\ taken'[p] = taken[p]
    BY <1>2 DEF TakeOne, GiveOne, TInv, ChannelsOK
<1>4. \/ /\ x \in available[q]
         /\ available'[q] = available[q] \ {x} /\ taken'[q] = taken[q] \cup {x}
      \/ /\ x \in taken[q]
         /\ available'[q] = available[q] \cup {x} /\ taken'[q] = taken[q] \ {x}
    BY <1>2 DEF TakeOne, GiveOne, TInv, ChannelsOK
<1>5. \A d \in On(q) : x \notin got[d]
    BY <1>4 DEF Divided
<1>6. \A p \in Ports, c \in Channels :
          c \in available'[p] <=> c \notin taken'[p] /\ \A d \in On(p) : c \notin got[d]
  <2> SUFFICES ASSUME NEW p \in Ports, NEW c \in Channels
               PROVE  c \in available'[p] <=>
                          c \notin taken'[p] /\ \A d \in On(p) : c \notin got[d]
      OBVIOUS
  <2>1. c \in available[p] <=> c \notin taken[p] /\ \A d \in On(p) : c \notin got[d]
      BY DEF Divided
  <2>2. CASE p # q \/ c # x
      BY <1>3, <1>4, <2>1, <2>2
  <2>3. CASE p = q /\ c = x
      BY <1>4, <1>5, <2>1, <2>3
  <2>4. QED
      BY <2>2, <2>3
<1>7. \A p \in Ports : \A d \in On(p) : got[d] \cap taken'[p] = {}
  <2>1. \A p \in Ports : \A d \in On(p) : got[d] \cap taken[p] = {}
      BY DEF Divided
  <2>2. taken'[q] \subseteq taken[q] \cup {x}
      BY <1>4
  <2>3. QED
      BY <1>3, <1>5, <2>1, <2>2
<1>8. Divided'
    BY <1>1, <1>6, <1>7 DEF Divided
<1>9. \A p \in Ports : available'[p] \cup taken'[p] = available[p] \cup taken[p]
    BY <1>3, <1>4
<1>10. QED
    BY <1>1, <1>8, <1>9

LEMMA OtherNodeBooks ==
    ASSUME TInv, Books, OtherNode
    PROVE  Books'
<1>1. /\ Found' = Found /\ Divided'
      /\ \A p \in Ports : available'[p] \cup taken'[p] = available[p] \cup taken[p]
    BY OtherNodeDivided DEF Books
<1>2. UNCHANGED <<place, device, exit, full_init, devices, got, recv_channel,
                  xmit_channel, handles, pending, enabled, recvContext, xmitContext>>
    BY OtherNodeIs DEF Elsewhere, hostVars, contextVars, busVars, nodeVars
<1>3. \A d : /\ NotYet(d)' = NotYet(d) /\ NotYetOK(d)' = NotYetOK(d)
             /\ IsSetUp(d)' = IsSetUp(d) /\ SetUpOK(d)' = SetUpOK(d)
    BY <1>2 DEF NotYet, IsSetUp, NotYetOK, SetUpOK, Two, ChannelsOf
<1>4. SetupOK'
  <2>1. /\ Port' = Port /\ Two(device)' = Two(device)
        /\ ChannelsOf(device)' = ChannelsOf(device)
      BY <1>2 DEF Port, Node, Two, ChannelsOf
  <2>2. place \in {"allocRecv", "allocXmit"} =>
            available'[Port] \cup taken'[Port] = available[Port] \cup taken[Port]
      BY <1>1, Current DEF TInv
  <2>3. QED
      BY <1>1, <1>2, <2>1, <2>2 DEF Books, SetupOK
<1>5. CleanupOK'
    BY <1>1, <1>2 DEF Books, CleanupOK, Down, Listed, ChannelsOf, Node
<1>6. \A d \in Found' : pending'[d] <= 1
    BY <1>1, <1>2 DEF Books
<1>7. QED
    BY <1>1, <1>3, <1>4, <1>5, <1>6 DEF Books

-----------------------------------------------------------------------------
LEMMA InitBooks == Init => Books
<1> SUFFICES ASSUME Init PROVE Books
    OBVIOUS
<1>1. place = "scan" /\ exit = "no" /\ devices = <<>> /\ handles = {}
      /\ (\A d \in Nodes : got[d] = {})
      /\ \A p \in Ports : available[p] = Channels \ taken[p]
    BY DEF Init
<1>2. Found = {} /\ \A p : On(p) = {}
    BY <1>1 DEF Found, found_devices, On
<1>3. Divided
    BY <1>1, <1>2 DEF Divided
<1>4. SetupOK /\ CleanupOK
    BY <1>1 DEF SetupOK, CleanupOK, InitPlaces, Allocated, Tuned, CleanupPlaces
<1>5. QED
    BY <1>1, <1>2, <1>3, <1>4 DEF Books, NotYetOK

LEMMA StepGInv == TInv /\ GInv /\ [Next]_vars => GInv'
<1>1. ASSUME TInv, GInv, Next, Orderly'
      PROVE  Books'
  <2>1. Books
      BY <1>1, OrderlyBefore DEF GInv
  <2>2. Run => Books'
      BY <1>1, <2>1, ScanBooks, NewHandlesBooks, ReadChannelsBooks,
         AllocateBooks, WriteDeviceBooks, CheckDeviceBooks, EnableBooks,
         IsoStartBooks, SelectBooks, RecvBooks, ReactBooks, XmitBooks,
         LastStatusBooks, DisableBooks, ShutdownBooks, FreeChannelsBooks
         DEF Run, Initialise, Loop, Cleanup
  <2>3. QED
      BY <1>1, <2>1, <2>2, BusResetBooks, OtherNodeBooks DEF Next
<1>2. ASSUME GInv, UNCHANGED vars
      PROVE  GInv'
  <2>1. /\ Untouched /\ UNCHANGED <<place, device, full_init, exit, faulted,
                                    overlapped, enabled, recvContext, xmitContext>>
        /\ Found' = Found /\ \A p : On(p)' = On(p)
      BY <1>2 DEF vars, Untouched, hostVars, contextVars, busVars, nodeVars,
                  Found, found_devices, On
  <2>2. Orderly' = Orderly
      BY <2>1 DEF Orderly
  <2>3. ASSUME Books PROVE Books'
    <3>1. \A d : /\ NotYet(d)' = NotYet(d) /\ IsSetUp(d)' = IsSetUp(d)
                 /\ Down(d)' = Down(d) /\ Listed(d)' = Listed(d)
                 /\ ChannelsOf(d)' = ChannelsOf(d)
        BY <2>1 DEF NotYet, IsSetUp, Down, Listed, ChannelsOf, Untouched, channelVars
    <3>2. Port' = Port /\ Node' = Node
        BY <2>1 DEF Port, Node, Untouched
    <3>3. SetupOK'
        BY <2>1, <2>3, <3>1, <3>2, UntouchedBooks
           DEF Books, SetupOK, Untouched, channelVars
    <3>4. CleanupOK'
        BY <2>1, <2>3, <3>1, <3>2, UntouchedBooks
           DEF Books, CleanupOK, Untouched, channelVars
    <3>5. QED
        BY <2>1, <2>3, <3>1, <3>3, <3>4, UntouchedBooks DEF Books
  <2>4. QED
      BY <1>2, <2>2, <2>3 DEF GInv
<1>3. QED
    BY <1>1, <1>2 DEF GInv

(* What the invariant is for.                                               *)
LEMMA BooksShow ==
    ASSUME TInv, GInv
    PROVE  ChannelsAreOwn /\ CleanExit
<1>1. ChannelsAreOwn
  <2> SUFFICES ASSUME place = "select", ~faulted, ~overlapped,
                      \A d \in Found : pending[d] = 0
               PROVE  \A d \in Found :
                        /\ \/ /\ ChannelsOf(d) \subseteq got[d]
                              /\ recv_channel[d] # xmit_channel[d]
                           \/ NONE \in ChannelsOf(d) /\ ~full_init
                        /\ got[d] \cap taken[PortOf[devices[d]]] = {}
                        /\ \A e \in Found \ {d} :
                              PortOf[devices[d]] = PortOf[devices[e]]
                                  => got[d] \cap got[e] = {}
      BY DEF ChannelsAreOwn
  <2>1. Books
      BY DEF GInv, Orderly, TInv, ControlOK
  <2>2. \A d \in Found : SetUpOK(d)
      BY <2>1 DEF Books, IsSetUp, LoopPlaces
  <2>3. \A d \in Found : got[d] \cap taken[PortOf[devices[d]]] = {}
    <3>1. \A d \in Found : PortOf[devices[d]] \in Ports
        BY Current DEF TInv
    <3>2. QED
        BY <2>1, <3>1 DEF Books, Divided, On
  <2>4. QED
      BY <2>1, <2>2, <2>3 DEF Books, Divided, SetUpOK, Two
<1>2. CleanExit
  <2> SUFFICES ASSUME exit = "done", ~faulted, ~overlapped
               PROVE  /\ handles = {}
                      /\ \A d \in Found :
                            /\ ~enabled[devices[d]]
                            /\ {recvContext[d], xmitContext[d]} = {NONE}
                      /\ \A p \in Ports : available[p] = Channels \ taken[p]
      BY DEF CleanExit
  <2>1. Books
      BY DEF GInv, Orderly
  <2>2. \A d \in Found : Down(d)
      BY <2>1 DEF Books, CleanupOK
  <2>3. handles = {}
      BY <2>2 DEF TInv, BusOK, Down
  <2>4. \A p \in Ports : available[p] = Channels \ taken[p]
    <3>1. \A p : \A d \in On(p) : got[d] = {}
        BY <2>2 DEF On, Down
    <3>2. \A p \in Ports : available[p] \subseteq Channels
        BY DEF TInv, ChannelsOK
    <3>3. QED
        BY <2>1, <3>1, <3>2 DEF Books, Divided
  <2>5. QED
      BY <2>2, <2>3, <2>4 DEF Down
<1>3. QED
    BY <1>1, <1>2

(* The types and the books, together inductive.                             *)
THEOREM OmniBooks == Spec => [](TInv /\ GInv)
<1>1. Init => TInv /\ GInv
    BY InitTInv, InitBooks DEF GInv
<1>2. TInv /\ GInv /\ [Next]_vars => (TInv /\ GInv)'
    BY StepTInv, StepGInv
<1>3. QED
    BY <1>1, <1>2, PTL DEF Spec

(* Once a bus reset has been dealt with, every device that found two        *)
(* channels has them for itself, whatever other nodes take and give back.   *)
THEOREM OmniChannelsOwn == Spec => []ChannelsAreOwn
<1>1. TInv /\ GInv => ChannelsAreOwn
    BY BooksShow
<1>2. QED
    BY <1>1, OmniBooks, PTL

(* An orderly end leaves nothing streaming, open or allocated, but what     *)
(* other nodes hold.                                                        *)
THEOREM OmniCleanExit == Spec => []CleanExit
<1>1. TInv /\ GInv => CleanExit
    BY BooksShow
<1>2. QED
    BY <1>1, OmniBooks, PTL

-----------------------------------------------------------------------------
(* What holds of the channels whatever fails and however resets overlap;    *)
(* the second part as long as no allocation was refused or failed and no    *)
(* handle was closed that had yet to tell of a reset: a device in service   *)
(* holds what its table says, unless it still has to tell of a reset, or    *)
(* its table says that there were no channels.                              *)
Serving(d) ==
    \/ place \in LoopPlaces
    \/ place \in CleanupPlaces /\ d >= device
    \/ place \in InitPlaces /\ d # device /\ (~full_init \/ d < device)
    \/ place \in Allocated /\ d = device
Holds(d) == NONE \in ChannelsOf(d) \/ ChannelsOf(d) \subseteq got[d]
Kept(d) == d \in handles /\ (pending[d] = 0 => Holds(d))

KeptSetup ==
    /\ place \in InitPlaces \ {"handles"} => device \in handles
    /\ place \in {"allocRecv", "allocXmit"} =>
           /\ recv_channel[device] # xmit_channel[device]
           /\ xmit_channel[device] \in available[Port] \cup taken[Port]
    /\ place = "allocRecv" =>
           recv_channel[device] \in available[Port] \cup taken[Port]
    /\ place = "allocXmit" /\ pending[device] = 0 =>
           recv_channel[device] \in got[device]

Share == /\ Divided
         /\ \A d \in Nodes : place = "scan" \/ d \notin Found => got[d] = {}
Told == ~faulted /\ ~untold
Table == KeptSetup /\ \A d \in Found : Serving(d) => Kept(d)
FInv == Share /\ (Told => Table)

(* How a step of a setup that has its channels moves on.                    *)
LEMMA TunedMoves ==
    ASSUME TInv, Next, place \in Tuned
    PROVE  /\ UNCHANGED full_init
           /\ \/ place' \in Tuned /\ UNCHANGED device
              \/ InitDone \/ InitFails
<1> USE DEF Tuned, InitPlaces
<1>1. CASE BusReset \/ OtherNode
    BY <1>1 DEF BusReset, OtherNode, hostVars
<1>2. CASE AllocateChannel
    BY <1>2 DEF AllocateChannel, Go, hostVars
<1>3. CASE WriteDevice
    BY <1>3 DEF WriteDevice, WriteRegister, Transact, Go, hostVars
<1>4. CASE CheckDevice
    BY <1>4 DEF CheckDevice, Expect, Transact, Go, hostVars
<1>5. CASE Enable
    BY <1>5 DEF Enable, Transact, Go, hostVars
<1>6. CASE IsoStart
    BY <1>6 DEF IsoStart, hostVars
<1>7. CASE Scan \/ NewHandles \/ ReadChannels \/ Loop \/ Cleanup
    BY <1>7 DEF Scan, NewHandles, ReadChannels, Loop, Select, Recv, React, Xmit,
                Cleanup, LastStatus, Disable, Shutdown, FreeChannels
<1>8. QED
    BY <1>1, <1>2, <1>3, <1>4, <1>5, <1>6, <1>7 DEF Next, Run, Initialise

(* The first steps of a setup.                                              *)
LEMMA FirstMoves ==
    ASSUME TInv, Next, place \in {"scan", "handles"}
    PROVE  /\ full_init /\ full_init'
           /\ place' \in {"scan", "handles", "readChannels", "exited"}
           /\ UNCHANGED device
<1>1. full_init
    BY DEF TInv, ControlOK
<1>2. CASE BusReset \/ OtherNode
    BY <1>1, <1>2 DEF BusReset, OtherNode, hostVars
<1>3. CASE Scan
    BY <1>1, <1>3 DEF Scan, Go, Exit
<1>4. CASE NewHandles
    BY <1>1, <1>4 DEF NewHandles, Transact, InitFails, Go, Exit, hostVars
<1>5. ~ReadChannels /\ ~AllocateChannel /\ ~WriteDevice /\ ~CheckDevice
      /\ ~Enable /\ ~IsoStart /\ ~Loop /\ ~Cleanup
    BY DEF ReadChannels, AllocateChannel, WriteDevice, CheckDevice, Enable,
           IsoStart, Loop, Select, Recv, React, Xmit, Cleanup, LastStatus,
           Disable, Shutdown, FreeChannels
<1>6. QED
    BY <1>2, <1>3, <1>4, <1>5 DEF Next, Run, Initialise

LEMMA ReadMoves ==
    ASSUME TInv, Next, place = "readChannels"
    PROVE  /\ UNCHANGED <<device, full_init>>
           /\ \/ place' \in {"readChannels", "allocRecv", "exited"}
              \/ place' = "react" /\ ~full_init
<1>1. CASE BusReset \/ OtherNode
    BY <1>1 DEF BusReset, OtherNode, hostVars
<1>2. CASE ReadChannels
    BY <1>2 DEF ReadChannels, InitFails, BackFromHandler, Go, Exit, hostVars
<1>3. ~Scan /\ ~NewHandles /\ ~AllocateChannel /\ ~WriteDevice /\ ~CheckDevice
      /\ ~Enable /\ ~IsoStart /\ ~Loop /\ ~Cleanup
    BY DEF Scan, NewHandles, AllocateChannel, WriteDevice, CheckDevice, Enable,
           IsoStart, Loop, Select, Recv, React, Xmit, Cleanup, LastStatus,
           Disable, Shutdown, FreeChannels
<1>4. QED
    BY <1>1, <1>2, <1>3 DEF Next, Run, Initialise

LEMMA CleanupMoves ==
    ASSUME TInv, Next, place \in CleanupPlaces
    PROVE  place' \in CleanupPlaces \cup {"exited"} /\ device' \in {device, device + 1}
<1> USE DEF CleanupPlaces
<1>1. CASE BusReset \/ OtherNode
    BY <1>1 DEF BusReset, OtherNode
<1>2. CASE Cleanup
    BY <1>2 DEF Cleanup, LastStatus, Disable, Shutdown, FreeChannels, Go, Exit
<1>3. ~Scan /\ ~NewHandles /\ ~ReadChannels /\ ~AllocateChannel /\ ~WriteDevice
      /\ ~CheckDevice /\ ~Enable /\ ~IsoStart /\ ~Loop
    BY DEF Scan, NewHandles, ReadChannels, AllocateChannel, WriteDevice,
           CheckDevice, Enable, IsoStart, Loop, Select, Recv, React, Xmit
<1>4. QED
    BY <1>1, <1>2, <1>3 DEF Next, Run, Initialise

(* A device gets into service only by a setup that has read the channels.   *)
LEMMA ServingBefore ==
    ASSUME TInv, Next, NEW d \in Found, Serving(d)'
    PROVE  \/ Serving(d)
           \/ d = device /\ place \in {"readChannels", "allocRecv", "allocXmit"}
<1>1. /\ d \in Nat /\ d >= 1 /\ d <= found_devices /\ place # "exited"
      /\ device \in Nat /\ found_devices \in Nat
    BY StillRunning, Current, Constants DEF TInv, Found
<1> USE DEF Serving
<1>2. CASE place \in LoopPlaces
    BY <1>2
<1>3. CASE place \in {"scan", "handles"}
  <2>1. /\ full_init' /\ full_init /\ device' = device
        /\ place' \in {"scan", "handles", "readChannels", "exited"}
      BY <1>3, FirstMoves
  <2>2. d < device
      BY <2>1 DEF Allocated, Tuned, InitPlaces, LoopPlaces, CleanupPlaces
  <2>3. place = "handles"
      BY <1>1, <1>3, <2>2 DEF TInv, ControlOK
  <2>4. QED
      BY <1>1, <2>2, <2>3 DEF InitPlaces
<1>4. CASE place = "readChannels"
    BY <1>4, ReadMoves DEF Allocated, Tuned, InitPlaces, LoopPlaces, CleanupPlaces
<1>5. CASE place \in CleanupPlaces
    BY <1>1, <1>5, CleanupMoves
       DEF Allocated, Tuned, InitPlaces, LoopPlaces, CleanupPlaces
<1>6. CASE place \in Tuned
  <2>1. /\ UNCHANGED full_init
        /\ \/ place' \in Tuned /\ UNCHANGED device
           \/ InitDone \/ InitFails
      BY <1>6, TunedMoves
  <2>2. CASE d = device
      BY <1>6, <2>2 DEF Allocated, Tuned
  <2>3. CASE d # device /\ ~full_init
      BY <1>6, <2>3 DEF Tuned
  <2>4. CASE d # device /\ full_init
    <3>1. CASE place' \in Tuned /\ UNCHANGED device
        BY <1>6, <2>1, <2>4, <3>1
           DEF Allocated, Tuned, InitPlaces, LoopPlaces, CleanupPlaces
    <3>2. CASE InitDone
      <4>1. CASE MoreDevices(device) /\ place' = "handles" /\ device' = device + 1
          BY <1>1, <1>6, <2>1, <2>4, <4>1
             DEF Allocated, Tuned, InitPlaces, LoopPlaces, CleanupPlaces
      <4>2. CASE ~MoreDevices(device)
          BY <1>1, <1>6, <2>4, <4>2 DEF MoreDevices, Tuned
      <4>3. QED
          BY <2>4, <3>2, <4>1, <4>2 DEF InitDone
    <3>3. CASE InitFails
        BY <2>4, <3>3 DEF InitFails, Exit, Allocated, Tuned, InitPlaces,
                          LoopPlaces, CleanupPlaces
    <3>4. QED
        BY <2>1, <3>1, <3>2, <3>3
  <2>5. QED
      BY <2>2, <2>3, <2>4 DEF TInv, ControlOK
<1>7. QED
    BY <1>1, <1>2, <1>3, <1>4, <1>5, <1>6 DEF TInv, ControlOK, Places, Tuned

(* The scan is never taken up again.                                        *)
LEMMA OnlyScanScans ==
    ASSUME TInv, Next, place # "scan"
    PROVE  place' # "scan"
<1>1. InitDone \/ InitFails \/ NextInRound => place' # "scan"
    BY DEF InitDone, InitFails, BackFromHandler, NextInRound, Go, Exit
<1>2. Initialise => place' # "scan"
    BY <1>1 DEF Initialise, NewHandles, ReadChannels, AllocateChannel,
                WriteDevice, WriteRegister, CheckDevice, Expect, Enable,
                IsoStart, Transact, Go
<1>3. Loop => place' # "scan"
    BY <1>1 DEF Loop, Select, Recv, Receive, React, Xmit, Go, Exit
<1>4. Cleanup => place' # "scan"
    BY DEF Cleanup, LastStatus, Disable, Shutdown, FreeChannels, Go, Exit
<1>5. Scan \/ BusReset \/ OtherNode => place' # "scan"
    BY DEF Scan, BusReset, OtherNode
<1>6. QED
    BY <1>2, <1>3, <1>4, <1>5 DEF Next, Run

LEMMA ToldBefore ==
    ASSUME Next, Told'
    PROVE  Told
<1>1. Scan \/ Initialise \/ Loop \/ BusReset \/ OtherNode => UNCHANGED untold
    BY DEF Scan, Initialise, NewHandles, ReadChannels, AllocateChannel,
           WriteDevice, CheckDevice, Enable, IsoStart, Loop, Select, Recv, React,
           Xmit, BusReset, OtherNode, ResetBus, busVars
<1>2. Cleanup => untold' = untold \/ untold' = (untold \/ pending[device] > 0)
    BY DEF Cleanup, LastStatus, Disable, Shutdown, FreeChannels, busVars
<1>3. ~untold
    BY <1>1, <1>2 DEF Next, Run, Told
<1>4. QED
    BY <1>3, FaultStays DEF Told

(* The table of a device says the same, and nothing of it was lost.         *)
LEMMA KeptStays ==
    ASSUME UNCHANGED <<recv_channel, xmit_channel>>, NEW d, Kept(d),
           d \in handles', got[d] \subseteq got'[d],
           pending'[d] = 0 => pending[d] = 0
    PROVE  Kept(d)'
BY DEF Kept, Holds, ChannelsOf

-----------------------------------------------------------------------------
(* Steps that leave the channels and their tables alone.                    *)
LEMMA UntouchedShare ==
    ASSUME TInv, Share, Next, place # "scan", UNCHANGED <<devices, got, available, taken>>
    PROVE  Share'
<1>1. Found' = Found /\ \A p : On(p)' = On(p)
    BY DEF Found, found_devices, On
<1>2. QED
    BY <1>1, OnlyScanScans DEF Share, Divided

LEMMA UntouchedTable ==
    ASSUME TInv, Table, Next,
           UNCHANGED <<devices, recv_channel, xmit_channel, got>>,
           handles \subseteq handles',
           place \notin {"readChannels", "allocRecv", "allocXmit"},
           place' \notin {"allocRecv", "allocXmit"},
           place' \in InitPlaces \ {"handles"} => device' \in handles',
           \A d \in Found : Serving(d)' /\ pending'[d] = 0 => pending[d] = 0
    PROVE  Table'
<1>1. Found' = Found
    BY DEF Found, found_devices
<1>2. \A d \in Found : Serving(d)' => Kept(d)'
    BY ServingBefore, KeptStays DEF Table, Kept
<1>3. KeptSetup'
    BY DEF KeptSetup
<1>4. QED
    BY <1>1, <1>2, <1>3 DEF Table

LEMMA SetupTable ==
    ASSUME TInv, Table, WriteDevice \/ CheckDevice \/ Enable \/ IsoStart
    PROVE  Table'
<1>1. /\ place \in Tuned /\ Next /\ place \notin {"readChannels", "allocRecv", "allocXmit"}
      /\ UNCHANGED <<devices, recv_channel, xmit_channel, got, handles, pending>>
    BY DEF WriteDevice, CheckDevice, Enable, IsoStart, Tuned, InitPlaces,
           Next, Run, Initialise, hostVars, channelVars, contextVars, busVars
<1>2. device \in handles
    BY <1>1 DEF Table, KeptSetup, Tuned, InitPlaces
<1>3. /\ place' \notin {"allocRecv", "allocXmit"}
      /\ place' \in InitPlaces \ {"handles"} => UNCHANGED device
    BY DEF WriteDevice, WriteRegister, CheckDevice, Expect, Enable, IsoStart,
           Transact, InitDone, InitFails, BackFromHandler, Go, Exit, InitPlaces
<1>4. QED
    BY <1>1, <1>2, <1>3, UntouchedTable

LEMMA LaterTable ==
    ASSUME TInv, Table, Select \/ Recv \/ Xmit \/ LastStatus \/ Disable \/ Shutdown
    PROVE  Table'
<1>1. /\ place \in LoopPlaces \cup CleanupPlaces /\ Next
      /\ UNCHANGED <<devices, recv_channel, xmit_channel, got, handles>>
    BY DEF Select, Recv, Xmit, LastStatus, Disable, Shutdown, LoopPlaces,
           CleanupPlaces, Next, Run, Loop, Cleanup, hostVars, channelVars,
           contextVars
<1>2. place \notin {"readChannels", "allocRecv", "allocXmit"} /\ device \in Found
    BY <1>1, Current DEF LoopPlaces, CleanupPlaces, TInv
<1>3. /\ place' \notin InitPlaces \/ Go("readChannels")
      /\ \A d \in Found : pending'[d] = pending[d] \/ (d = device /\ Go("readChannels"))
  <2>1. ASSUME Recv
        PROVE  /\ place' \notin InitPlaces \/ Go("readChannels")
               /\ \/ UNCHANGED pending
                  \/ /\ Go("readChannels")
                     /\ pending' = [pending EXCEPT ![device] = @ - 1]
      BY <2>1 DEF Recv, Receive, NextInRound, Go, Exit, InitPlaces
  <2>2. ASSUME Select \/ Xmit \/ LastStatus \/ Disable \/ Shutdown
        PROVE  place' \notin InitPlaces /\ UNCHANGED pending
      BY <2>2 DEF Select, Xmit, LastStatus, Disable, Shutdown, NextInRound,
                  Go, Exit, InitPlaces, busVars
  <2>3. Found \subseteq Nodes /\ pending \in [Nodes -> Nat]
      BY Current DEF TInv, BusOK
  <2>4. QED
      BY <2>1, <2>2, <2>3
<1>4. place' \notin {"allocRecv", "allocXmit"}
    BY <1>3 DEF Go, InitPlaces
<1>5. Go("readChannels") => device \in handles /\ UNCHANGED device
  <2>1. Recv \/ ~Go("readChannels")
      BY DEF Select, Xmit, LastStatus, Disable, Shutdown, NextInRound, Go, Exit
  <2>2. Recv => Serving(device)
      BY DEF Recv, Serving, LoopPlaces
  <2>3. QED
      BY <1>2, <2>1, <2>2 DEF Table, Kept, Go
<1>6. \A d \in Found : Serving(d)' /\ pending'[d] = 0 => pending[d] = 0
  <2>1. Go("readChannels") => ~Serving(device)'
      BY DEF Go, Serving, Allocated, Tuned, InitPlaces, LoopPlaces, CleanupPlaces
  <2>2. \A d : d = device /\ Go("readChannels") => ~Serving(d)'
      BY DEF Go, Serving, Allocated, Tuned, InitPlaces, LoopPlaces, CleanupPlaces
  <2>3. QED
      BY <1>3, <2>2
<1>7. QED
    BY <1>1, <1>2, <1>3, <1>4, <1>5, <1>6, UntouchedTable

LEMMA FirstTable ==
    ASSUME TInv, Table, NewHandles
    PROVE  Table'
<1>1. /\ Next /\ place = "handles"
      /\ place' \in {"readChannels", "exited"} /\ device' = device
      /\ handles' = handles \cup {device}
      /\ UNCHANGED <<devices, recv_channel, xmit_channel, got, pending>>
    BY DEF NewHandles, Transact, InitFails, Go, Exit, TInv, ControlOK, Next, Run,
           Initialise, hostVars, channelVars, busVars
<1>2. QED
    BY <1>1, UntouchedTable

-----------------------------------------------------------------------------
LEMMA ReadChannelsTable ==
    ASSUME TInv, Table, ReadChannels, Told'
    PROVE  Table'
<1> DEFINE free == available[Port]
<1>1. /\ place = "readChannels" /\ device \in Found /\ device \in Nodes
      /\ Port \in Ports /\ free \subseteq Channels /\ Found \subseteq Nodes
      /\ UNCHANGED <<devices, full_init, available, got, taken, handles, pending>>
      /\ Next
    BY Current DEF ReadChannels, TInv, ChannelsOK, hostVars, contextVars,
                   busVars, Next, Run, Initialise
<1>2. Found' = Found
    BY <1>1 DEF Found, found_devices
<1>3. /\ recv_channel' = [recv_channel EXCEPT ![device] = Lowest(free)]
      /\ xmit_channel' = [xmit_channel EXCEPT ![device] = SecondFree(free)]
      /\ \/ xmit_channel'[device] # NONE /\ Go("allocRecv")
         \/ xmit_channel'[device] = NONE /\ InitFails
    BY DEF ReadChannels, Fault, Told
<1>4. /\ recv_channel'[device] = Lowest(free) /\ xmit_channel'[device] = SecondFree(free)
      /\ \A d \in Found : d # device => ChannelsOf(d)' = ChannelsOf(d)
    BY <1>1, <1>3 DEF TInv, ChannelsOK, ChannelsOf
<1>5. device \in handles
    BY <1>1 DEF Table, KeptSetup, InitPlaces
<1>6. UNCHANGED device /\ place' \in {"allocRecv", "react", "exited"}
    BY <1>3 DEF InitFails, BackFromHandler, Go, Exit
<1>7. KeptSetup'
  <2>1. CASE Go("allocRecv")
    <3>1. Lowest(free) \in free /\ SecondFree(free) \in free
          /\ Lowest(free) # SecondFree(free)
        BY <1>1, <1>3, <1>4, <2>1, SecondFreeIs DEF InitFails, BackFromHandler, Go, Exit
    <3>2. Port' = Port
        BY <1>1, <1>6 DEF Port, Node
    <3>3. QED
        BY <1>1, <1>4, <1>5, <1>6, <2>1, <3>1, <3>2 DEF KeptSetup, Go
  <2>2. CASE place' # "allocRecv"
      BY <1>6, <2>2 DEF KeptSetup, InitPlaces
  <2>3. QED
      BY <1>3, <1>6, <2>1, <2>2 DEF InitFails, BackFromHandler, Go, Exit
<1>8. \A d \in Found : Serving(d)' => Kept(d)'
  <2> SUFFICES ASSUME NEW d \in Found, Serving(d)'
               PROVE  Kept(d)'
      OBVIOUS
  <2>1. CASE d # device
      BY <1>1, <1>4, <2>1, ServingBefore DEF Table, Kept, Holds
  <2>2. CASE d = device
    <3>1. place' # "allocRecv"
        BY <1>6, <2>2 DEF Serving, Allocated, Tuned, InitPlaces, LoopPlaces, CleanupPlaces
    <3>2. xmit_channel'[d] = NONE
        BY <1>3, <2>2, <3>1 DEF Go
    <3>3. QED
        BY <1>1, <1>5, <2>2, <3>2 DEF Kept, Holds, ChannelsOf
  <2>3. QED
      BY <2>1, <2>2
<1>9. QED
    BY <1>2, <1>7, <1>8 DEF Table

LEMMA AllocateShare ==
    ASSUME TInv, Share, AllocateChannel
    PROVE  Share'
<1>1. /\ Next /\ place \in InitPlaces /\ place # "scan" /\ place' # "scan"
      /\ UNCHANGED <<devices, taken>>
    BY DEF AllocateChannel, Next, Run, Initialise, InitPlaces, hostVars, Go
<1>2. PICK c : NoClaim \/ Claim(c)
    BY DEF AllocateChannel, Allocate
<1>3. CASE NoClaim
    BY <1>1, <1>3, UntouchedShare DEF NoClaim
<1>4. CASE Claim(c)
  <2>1. Divided' /\ got' = [got EXCEPT ![device] = @ \cup {c}]
      BY <1>1, <1>4, AllocateDivided DEF Share, Claim
  <2>2. Found' = Found /\ device \in Found
      BY <1>1, Current DEF Found, found_devices, TInv, InitPlaces
  <2>3. \A d \in Nodes \ Found' : got'[d] = {}
      BY <2>1, <2>2 DEF Share, TInv, ChannelsOK
  <2>4. QED
      BY <1>1, <2>1, <2>3 DEF Share
<1>5. QED
    BY <1>2, <1>3, <1>4

LEMMA AllocateTable ==
    ASSUME TInv, Table, AllocateChannel, Told'
    PROVE  Table'
<1>1. /\ place \in {"allocRecv", "allocXmit"} /\ Next
      /\ device \in Found /\ device \in Nodes /\ Port \in Ports /\ Found \subseteq Nodes
    BY Current DEF AllocateChannel, TInv, Next, Run, Initialise
<1>2. /\ UNCHANGED <<devices, device, full_init, recv_channel, xmit_channel,
                      taken, handles, pending>>
      /\ place' = IF place = "allocRecv" THEN "allocXmit" ELSE "writeXmit"
    BY DEF AllocateChannel, Go, hostVars, contextVars, busVars
<1> DEFINE c == IF place = "allocRecv" THEN recv_channel[device]
                ELSE xmit_channel[device]
<1>3. /\ available' = [available EXCEPT ![Port] = @ \ {c}]
      /\ got' = [got EXCEPT ![device] = @ \cup {c}]
  <2>1. c \in available[Port] \cup taken[Port]
      BY <1>1 DEF Table, KeptSetup
  <2>2. Allocate(c) /\ ~faulted'
      BY <1>1 DEF AllocateChannel, Told
  <2>3. QED
      BY <2>1, <2>2 DEF Allocate, Claim, Fault
<1>4. /\ got'[device] = got[device] \cup {c}
      /\ \A d \in Found : got[d] \subseteq got'[d]
      /\ available'[Port] = available[Port] \ {c}
    BY <1>1, <1>3 DEF TInv, ChannelsOK
<1>5. /\ device \in handles /\ recv_channel[device] # xmit_channel[device]
      /\ xmit_channel[device] \in available[Port] \cup taken[Port]
      /\ place = "allocXmit" /\ pending[device] = 0 =>
             recv_channel[device] \in got[device]
    BY <1>1 DEF Table, KeptSetup, InitPlaces
<1>6. Found' = Found /\ Port' = Port
    BY <1>2 DEF Found, found_devices, Port, Node
<1>7. KeptSetup'
    BY <1>1, <1>2, <1>4, <1>5, <1>6 DEF KeptSetup
<1>8. \A d \in Found : Serving(d)' => Kept(d)'
  <2> SUFFICES ASSUME NEW d \in Found, Serving(d)'
               PROVE  Kept(d)'
      OBVIOUS
  <2>1. CASE Serving(d)
    <3>1. Kept(d)
        BY <2>1 DEF Table
    <3>2. QED
        BY <1>2, <1>4, <3>1, KeptStays DEF Kept
  <2>2. CASE d = device
    <3>1. place = "allocXmit"
        BY <1>1, <1>2, <2>2
           DEF Serving, Allocated, Tuned, InitPlaces, LoopPlaces, CleanupPlaces
    <3>2. pending[d] = 0 => ChannelsOf(d) \subseteq got'[d]
        BY <1>4, <1>5, <2>2, <3>1 DEF ChannelsOf
    <3>3. QED
        BY <1>2, <1>5, <2>2, <3>2 DEF Kept, Holds, ChannelsOf
  <2>3. QED
      BY <1>1, <2>1, <2>2, ServingBefore
<1>9. QED
    BY <1>6, <1>7, <1>8 DEF Table

LEMMA ScanFInv ==
    ASSUME TInv, FInv, Scan
    PROVE  FInv'
<1>1. /\ place = "scan" /\ Next /\ UNCHANGED <<channelVars, faulted, untold>>
      /\ place' \in {"scan", "handles", "exited"}
    BY DEF Scan, Go, Exit, Next, Run, busVars
<1>2. Found \subseteq Found' /\ Found' \subseteq Nodes
    BY ScanFound
<1>3. \A d \in Nodes : got[d] = {} /\ got'[d] = {}
    BY <1>1 DEF FInv, Share, channelVars
<1>4. Divided'
  <2>1. \A p \in Ports, c \in Channels : c \in available[p] <=> c \notin taken[p]
    <3>1. \A p : \A d \in On(p) : got[d] = {}
        BY <1>2, <1>3 DEF On
    <3>2. QED
        BY <3>1 DEF FInv, Share, Divided
  <2>2. \A p : \A d \in On(p)' : got'[d] = {}
      BY <1>2, <1>3 DEF On
  <2>3. \A d \in Found' : got'[d] = {}
      BY <1>2, <1>3
  <2>4. UNCHANGED <<available, taken>>
      BY <1>1 DEF channelVars
  <2>5. QED
      BY <2>1, <2>2, <2>3, <2>4 DEF Divided
<1>5. \A d \in Found' : ~Serving(d)'
  <2>1. full_init' /\ device' = 1 /\ \A d \in Found' : ~(d < 1)
      BY <1>1, <1>2, FirstMoves, Constants DEF TInv, ControlOK
  <2>2. QED
      BY <1>1, <2>1 DEF Serving, Allocated, Tuned, InitPlaces, LoopPlaces, CleanupPlaces
<1>6. KeptSetup'
    BY <1>1 DEF KeptSetup, InitPlaces
<1>7. QED
    BY <1>3, <1>4, <1>5, <1>6 DEF FInv, Share, Table

(* A reset at any place, also while the free channels are about to be read  *)
(* or the channels of a device are being allocated.                         *)
LEMMA ResetShare ==
    ASSUME TInv, Share, Next, NEW p \in Ports, ResetBus(p), UNCHANGED devices
    PROVE  Share'
<1>1. /\ Divided' /\ Found' = Found
      /\ \A d \in Nodes : got[d] = {} => got'[d] = {}
    BY ResetDivided DEF Share
<1>2. QED
    BY <1>1, OnlyScanScans DEF Share

LEMMA ResetTable ==
    ASSUME TInv, Share, Table, NEW p \in Ports, ResetBus(p),
           UNCHANGED <<devices, device, full_init, recv_channel, xmit_channel, handles>>,
           UNCHANGED place \/ {place, place'} \subseteq LoopPlaces
    PROVE  Table'
<1>1. /\ Found' = Found /\ Found \subseteq Nodes
      /\ \A d \in Found : got'[d] = IF d \in On(p) THEN {} ELSE got[d]
    BY ResetDivided DEF Share
<1>2. \A d \in Found : pending'[d] = IF d \in handles /\ d \in On(p)
                                     THEN pending[d] + 1 ELSE pending[d]
    BY <1>1 DEF ResetBus, On
<1>3. \A d \in Found : pending[d] \in Nat
    BY <1>1 DEF TInv, BusOK
<1>4. \A d \in Found : Kept(d) => Kept(d)'
  <2> SUFFICES ASSUME NEW d \in Found, Kept(d) PROVE Kept(d)'
      OBVIOUS
  <2>1. CASE d \in On(p)
      BY <1>2, <1>3, <2>1 DEF Kept
  <2>2. CASE d \notin On(p)
      BY <1>1, <1>2, <2>2 DEF Kept, Holds, ChannelsOf
  <2>3. QED
      BY <2>1, <2>2
<1>5. \A d : Serving(d)' => Serving(d)
    BY DEF Serving, Allocated, Tuned, InitPlaces, LoopPlaces, CleanupPlaces
<1>6. KeptSetup'
  <2>1. CASE place' \notin InitPlaces
      BY <2>1 DEF KeptSetup, InitPlaces
  <2>2. CASE place' \in InitPlaces
    <3>1. UNCHANGED place /\ device \in Found /\ Port \in Ports /\ Port' = Port
        BY <2>2, Current DEF InitPlaces, LoopPlaces, TInv, Port, Node
    <3>2. \A c \in Channels : c \in available[Port] \cup taken[Port] =>
                                 c \in available'[Port] \cup taken'[Port]
        BY <3>1 DEF ResetBus, TInv, ChannelsOK
    <3>3. place \in {"allocRecv", "allocXmit"} =>
              recv_channel[device] \in Channels /\ xmit_channel[device] \in Channels
        BY DEF TInv, ChannelsOK, ChannelsOf, Tuned, InitPlaces
    <3>4. device \in handles /\ pending'[device] = 0 =>
              pending[device] = 0 /\ got'[device] = got[device]
        BY <1>1, <1>2, <1>3, <3>1
    <3>5. QED
        BY <3>1, <3>2, <3>3, <3>4 DEF Table, KeptSetup, InitPlaces
  <2>3. QED
      BY <2>1, <2>2
<1>7. QED
    BY <1>1, <1>4, <1>5, <1>6 DEF Table

LEMMA BusResetFInv ==
    ASSUME TInv, FInv, BusReset
    PROVE  FInv'
<1>1. PICK p \in Ports : ResetBus(p)
    BY DEF BusReset
<1>2. /\ UNCHANGED <<place, device, full_init, devices, recv_channel, xmit_channel,
                     handles, faulted, untold>>
      /\ Next
    BY <1>1 DEF BusReset, ResetBus, hostVars, contextVars, Next
<1>3. QED
    BY <1>1, <1>2, ResetShare, ResetTable DEF FInv, Told

LEMMA ReactFInv ==
    ASSUME TInv, FInv, React
    PROVE  FInv'
<1>1. /\ Next /\ place = "react" /\ place' = "xmit" /\ Port \in Ports
      /\ {place, place'} \subseteq LoopPlaces
      /\ UNCHANGED <<devices, device, full_init, recv_channel, xmit_channel,
                     handles, faulted, untold>>
    BY Current DEF React, ResetBus, Go, TInv, Next, Run, Loop, LoopPlaces,
                   hostVars, contextVars, busVars
<1>2. CASE ResetBus(Port)
    BY <1>1, <1>2, ResetShare, ResetTable DEF FInv, Told
<1>3. CASE UNCHANGED <<busVars, available, got, taken>>
  <2>1. Share'
      BY <1>1, <1>3, UntouchedShare DEF FInv
  <2>2. Told => Table'
      BY <1>1, <1>3, UntouchedTable DEF FInv, InitPlaces, busVars
  <2>3. QED
      BY <1>1, <2>1, <2>2 DEF FInv, Told
<1>4. QED
    BY <1>2, <1>3 DEF React

-----------------------------------------------------------------------------
LEMMA FreeChannelsShare ==
    ASSUME TInv, Share, FreeChannels
    PROVE  Share'
<1>1. /\ Next /\ place = "free" /\ place' # "scan" /\ place # "scan"
      /\ UNCHANGED devices /\ Found' = Found /\ Found \subseteq Nodes
    BY Current DEF FreeChannels, Next, Run, Cleanup, hostVars, TInv, Exit,
                   Found, found_devices
<1>2. CASE UNCHANGED <<available, got, taken>>
    BY <1>1, <1>2, UntouchedShare
<1>3. CASE \E S \in SUBSET Channels : GiveBack(S)
  <2>1. PICK S \in SUBSET Channels : GiveBack(S)
      BY <1>3
  <2>2. Divided'
      BY <1>1, <2>1, GiveBackDivided DEF Share
  <2>3. \A d \in Nodes \ Found : got'[d] = {}
      BY <2>1 DEF GiveBack, Share, TInv, ChannelsOK
  <2>4. QED
      BY <1>1, <2>2, <2>3 DEF Share
<1>4. QED
    BY <1>2, <1>3, GivenBack

(* What the device gives back, it holds itself.                             *)
LEMMA GivesBackOwn ==
    ASSUME TInv, Share, Table, FreeChannels, ~untold',
           NEW S \in SUBSET Channels, S \subseteq OwnChannels, NONE \notin OwnChannels
    PROVE  /\ S \cap taken[Port] = {}
           /\ \A d \in Found : d # device /\ d \in On(Port) => got[d] \cap S = {}
<1>1. /\ place = "free" /\ device \in Found /\ Port \in Ports /\ device \in Nat
      /\ pending[device] = 0
  <2>1. place = "free" /\ device \in Found /\ device \in Nodes /\ Port \in Ports
      BY Current DEF FreeChannels, TInv
  <2>2. ~(pending[device] > 0) /\ pending[device] \in Nat
      BY <2>1 DEF FreeChannels, TInv, BusOK
  <2>3. QED
      BY <2>1, <2>2, Current DEF TInv
<1>2. Serving(device)
    BY <1>1 DEF Serving, CleanupPlaces
<1>3. S \subseteq got[device]
    BY <1>1, <1>2 DEF Table, Kept, Holds, OwnChannels, ChannelsOf
<1>4. device \in On(Port)
    BY <1>1 DEF On, Port, Node
<1>5. QED
    BY <1>1, <1>3, <1>4 DEF Share, Divided, On

LEMMA FreeChannelsTable ==
    ASSUME TInv, Share, Table, FreeChannels, Told'
    PROVE  Table'
<1>1. /\ Next /\ place = "free" /\ device \in Found /\ Found \subseteq Nodes
      /\ device \in Nat
      /\ UNCHANGED <<devices, recv_channel, xmit_channel>> /\ Found' = Found
      /\ place' \notin InitPlaces
      /\ handles' = handles \ {device} /\ pending' = [pending EXCEPT ![device] = 0]
      /\ place' = "exited" \/ (place' = "lastStatus" /\ device' = device + 1)
  <2>1. place = "free" /\ device \in Found /\ Found \subseteq Nodes /\ device \in Nat
      BY Current DEF FreeChannels, TInv
  <2>2. /\ Next /\ UNCHANGED <<devices, recv_channel, xmit_channel>>
        /\ handles' = handles \ {device} /\ pending' = [pending EXCEPT ![device] = 0]
      BY DEF FreeChannels, Next, Run, Cleanup, hostVars
  <2>3. place' = "exited" \/ (place' = "lastStatus" /\ device' = device + 1)
      BY DEF FreeChannels, Exit
  <2>4. QED
      BY <2>1, <2>2, <2>3 DEF Found, found_devices, InitPlaces
<1>2. \A d \in Found : d # device => got[d] \subseteq got'[d]
  <2>1. CASE UNCHANGED <<available, got, taken>>
      BY <2>1
  <2>2. CASE /\ NONE \notin OwnChannels
             /\ \E S \in SUBSET Channels : S \subseteq OwnChannels /\ GiveBack(S)
    <3>1. PICK S \in SUBSET Channels : S \subseteq OwnChannels /\ GiveBack(S)
        BY <2>2
    <3>2. \A d \in Found : d # device /\ d \in On(Port) => got[d] \cap S = {}
        BY <2>2, <3>1, GivesBackOwn DEF Told
    <3>3. \A d \in Found : got'[d] = IF d \in On(Port) THEN got[d] \ S ELSE got[d]
        BY <1>1, <3>1, GiveBackDivided DEF Share
    <3>4. QED
        BY <3>2, <3>3
  <2>3. QED
      BY <2>1, <2>2, GivenBack
<1>3. \A d \in Found : Serving(d)' => Serving(d) /\ d # device
  <2> SUFFICES ASSUME NEW d \in Found, Serving(d)'
               PROVE  Serving(d) /\ d # device
      OBVIOUS
  <2>1. d >= device + 1 /\ d \in Nat
      BY <1>1, Constants
         DEF Serving, Allocated, Tuned, InitPlaces, LoopPlaces, CleanupPlaces
  <2>2. QED
      BY <1>1, <2>1 DEF Serving, CleanupPlaces
<1>4. \A d \in Found : Serving(d)' => Kept(d)'
  <2> SUFFICES ASSUME NEW d \in Found, Serving(d)'
               PROVE  Kept(d)'
      OBVIOUS
  <2>1. Kept(d) /\ d # device
      BY <1>3 DEF Table
  <2>2. d \in handles' /\ got[d] \subseteq got'[d] /\ pending'[d] = pending[d]
      BY <1>1, <1>2, <2>1 DEF Kept, TInv, BusOK
  <2>3. QED
      BY <1>1, <2>1, <2>2, KeptStays
<1>5. KeptSetup'
    BY <1>1 DEF KeptSetup, InitPlaces
<1>6. QED
    BY <1>1, <1>4, <1>5 DEF Table

LEMMA OtherNodeFInv ==
    ASSUME TInv, FInv, OtherNode
    PROVE  FInv'
<1>1. /\ Found' = Found /\ Divided'
      /\ \A p \in Ports : available'[p] \cup taken'[p] = available[p] \cup taken[p]
    BY OtherNodeDivided DEF FInv, Share
<1>2. UNCHANGED <<place, device, full_init, devices, got, recv_channel,
                  xmit_channel, handles, pending, faulted, untold>>
    BY OtherNodeIs DEF Elsewhere, hostVars, contextVars, busVars
<1>3. Share'
    BY <1>1, <1>2 DEF FInv, Share
<1>4. ASSUME Table PROVE Table'
  <2>1. \A d : Serving(d)' = Serving(d) /\ Kept(d)' = Kept(d)
      BY <1>2 DEF Serving, Kept, Holds, ChannelsOf
  <2>2. Port' = Port /\ (place \in {"allocRecv", "allocXmit"} => Port \in Ports)
      BY <1>2, Current DEF Port, Node, TInv
  <2>3. KeptSetup'
    <3>1. place \in {"allocRecv", "allocXmit"} =>
              available'[Port] \cup taken'[Port] = available[Port] \cup taken[Port]
        BY <1>1, <2>2
    <3>2. KeptSetup
        BY <1>4 DEF Table
    <3>3. QED
        BY <1>2, <2>2, <3>1, <3>2 DEF KeptSetup
  <2>4. QED
      BY <1>1, <1>4, <2>1, <2>3 DEF Table
<1>5. QED
    BY <1>2, <1>3, <1>4 DEF FInv, Told

LEMMA StepFInv == TInv /\ FInv /\ [Next]_vars => FInv'
<1> SUFFICES ASSUME TInv, FInv, [Next]_vars PROVE FInv'
    OBVIOUS
<1>1. CASE UNCHANGED vars
  <2>1. Found' = Found /\ \A p : On(p)' = On(p)
      BY <1>1 DEF vars, hostVars, Found, found_devices, On
  <2>2. UNCHANGED <<devices, place, device, full_init, channelVars, handles,
                    pending, faulted, untold>>
      BY <1>1 DEF vars, hostVars, contextVars, busVars
  <2>3. Share'
      BY <2>1, <2>2 DEF FInv, Share, Divided, channelVars
  <2>4. /\ Port' = Port
        /\ \A d : Serving(d)' = Serving(d) /\ Kept(d)' = Kept(d)
      BY <2>2 DEF Serving, Kept, Holds, ChannelsOf, channelVars, Port, Node
  <2>5. KeptSetup' = KeptSetup
      BY <2>2, <2>4 DEF KeptSetup, channelVars
  <2>6. Table => Table'
      BY <2>1, <2>4, <2>5 DEF Table
  <2>7. QED
      BY <2>2, <2>3, <2>6 DEF FInv, Told
<1>2. ASSUME Next, NewHandles \/ ReadChannels \/ WriteDevice \/ CheckDevice \/ Enable
             \/ IsoStart \/ Select \/ Recv \/ Xmit \/ LastStatus \/ Disable \/ Shutdown
      PROVE  Share'
  <2>1. place # "scan" /\ UNCHANGED <<devices, got, available, taken>>
      BY <1>2 DEF NewHandles, ReadChannels, WriteDevice, CheckDevice, Enable,
                  IsoStart, Select, Recv, Xmit, LastStatus, Disable, Shutdown,
                  hostVars, channelVars
  <2>2. QED
      BY <1>2, <2>1, UntouchedShare DEF FInv
<1>3. ASSUME Next PROVE FInv'
  <2>1. Told' => Told
      BY <1>3, ToldBefore
  <2>2. CASE Scan \/ React \/ BusReset \/ OtherNode
      BY <2>2, ScanFInv, ReactFInv, BusResetFInv, OtherNodeFInv
  <2>3. CASE Initialise
      BY <1>2, <1>3, <2>1, <2>3, AllocateShare, FirstTable, ReadChannelsTable,
         AllocateTable, SetupTable DEF FInv, Initialise
  <2>4. CASE Select \/ Recv \/ Xmit \/ Cleanup
      BY <1>2, <1>3, <2>1, <2>4, FreeChannelsShare, LaterTable, FreeChannelsTable
         DEF FInv, Cleanup
  <2>5. QED
      BY <1>3, <2>2, <2>3, <2>4 DEF Next, Run, Loop
<1>4. QED
    BY <1>1, <1>3

LEMMA InitFInv == Init => FInv
<1> SUFFICES ASSUME Init PROVE FInv
    OBVIOUS
<1>1. Books
    BY InitBooks
<1>2. Found = {} /\ place = "scan" /\ \A d \in Nodes : got[d] = {}
    BY DEF Init, Found, found_devices
<1>3. QED
    BY <1>1, <1>2 DEF Books, FInv, Share, Table, KeptSetup, InitPlaces

(* Whatever fails and however resets overlap, the channels of a port stay   *)
(* divided among its devices, the free ones and those of other nodes, and   *)
(* a device in service holds what its table says until an allocation was    *)
(* refused or a handle was closed early.                                    *)
THEOREM OmniChannelsDivided == Spec => [](TInv /\ FInv)
<1>1. Init => TInv /\ FInv
    BY InitTInv, InitFInv
<1>2. TInv /\ FInv /\ [Next]_vars => (TInv /\ FInv)'
    BY StepTInv, StepFInv
<1>3. QED
    BY <1>1, <1>2, PTL DEF Spec

(* Only the end of a device gives channels back.                            *)
LEMMA OnlyFreeFrees ==
    ASSUME Run, ~FreeChannels
    PROVE  UNCHANGED taken
<1>1. Scan \/ Initialise => UNCHANGED taken
    BY DEF Scan, Initialise, NewHandles, ReadChannels, AllocateChannel,
           WriteDevice, CheckDevice, Enable, IsoStart, channelVars
<1>2. Loop \/ LastStatus \/ Disable \/ Shutdown => UNCHANGED taken
    BY DEF Loop, Select, Recv, React, ResetBus, Xmit, LastStatus, Disable,
           Shutdown, channelVars
<1>3. QED
    BY <1>1, <1>2 DEF Run, Cleanup

LEMMA FreeTakesNothing ==
    ASSUME TInv, FInv, FreeChannels, ~faulted, ~untold'
    PROVE  UNCHANGED taken
<1>1. Share /\ Table /\ Port \in Ports /\ place = "free"
  <2>1. ~untold
      BY DEF FreeChannels
  <2>2. QED
      BY <2>1, Current DEF FInv, Told, FreeChannels, TInv
<1>2. CASE UNCHANGED <<available, got, taken>>
    BY <1>2
<1>3. CASE /\ NONE \notin OwnChannels
           /\ \E S \in SUBSET Channels : S \subseteq OwnChannels /\ GiveBack(S)
  <2>1. PICK S \in SUBSET Channels : S \subseteq OwnChannels /\ GiveBack(S)
      BY <1>3
  <2>2. taken[Port] \ S = taken[Port]
      BY <1>1, <1>3, <2>1, GivesBackOwn
  <2>3. taken' = [taken EXCEPT ![Port] = taken[Port] \ S]
      BY <2>1 DEF GiveBack
  <2>4. QED
      BY <1>1, <2>2, <2>3 DEF TInv, ChannelsOK
<1>4. QED
    BY <1>2, <1>3, GivenBack

(* omni takes no channel away from another node, whatever other nodes take  *)
(* and give back and however resets overlap, until an allocation was        *)
(* refused or failed, or a handle was closed before it told of a reset.     *)
THEOREM OmniForeignStaysTaken == Spec => ForeignStaysTaken
<1>1. TInv /\ FInv /\ [Next]_vars =>
          [Run /\ ~faulted /\ ~untold' => UNCHANGED taken]_vars
    BY OnlyFreeFrees, FreeTakesNothing
<1>2. QED
    BY <1>1, OmniChannelsDivided, PTL DEF Spec, ForeignStaysTaken

-----------------------------------------------------------------------------
(* Before the first bus reset.                                              *)
LEMMA QuietBefore ==
    ASSUME TInv, Next, Quiet'
    PROVE  /\ Quiet /\ full_init /\ ~overlapped /\ exit = "no"
           /\ \A d \in Nodes : pending[d] = 0
           /\ \A p : ~ResetBus(p)
<1>1. resets \in Nat
    BY Constants DEF TInv, BusOK
<1>2. \A p : ~ResetBus(p)
  <2>1. \A p : ResetBus(p) => resets' = resets + 1
      BY DEF ResetBus
  <2>2. QED
      BY <1>1, <2>1 DEF Quiet
<1>3. UNCHANGED resets
  <2>1. Scan \/ Initialise => UNCHANGED resets
      BY DEF Scan, Initialise, NewHandles, ReadChannels, AllocateChannel,
             WriteDevice, CheckDevice, Enable, IsoStart, busVars
  <2>2. Loop \/ Cleanup => UNCHANGED resets
      BY <1>2 DEF Loop, Select, Recv, React, Xmit, Cleanup, LastStatus,
                  Disable, Shutdown, FreeChannels, busVars
  <2>3. OtherNode => UNCHANGED resets
      BY DEF OtherNode, busVars
  <2>4. QED
      BY <1>2, <2>1, <2>2, <2>3 DEF Next, Run, BusReset
<1>4. \A d \in Nodes : pending[d] \in Nat /\ pending[d] <= resets
    BY DEF TInv, BusOK
<1>5. Quiet /\ full_init /\ ~overlapped /\ \A d \in Nodes : pending[d] = 0
    BY <1>3, <1>4, FaultStays DEF Quiet, TInv, BusOK
<1>6. QED
    BY <1>2, <1>5, StillRunning

LEMMA SameAir ==
    ASSUME OnAir, place \in AirPlaces, Written',
           UNCHANGED <<devices, recv_channel, recvContext, registers, enabled,
                       data, sent, heard>>,
           \A d \in Found : IsSetUp(d) => IsSetUp(d)',
           place = "isoStart" => FALSE,
           \A d \in Nodes : NotYet(d)' => NotYet(d)
    PROVE  OnAir'
<1>1. Found' = Found
    BY DEF Found, found_devices
<1>2. SaidByOwn'
    BY <1>1 DEF OnAir, SaidByOwn
<1>3. \A n \in Nodes : StreamsOK(n)'
    BY <1>1 DEF OnAir, StreamsOK
<1>4. \A d \in Found' : ListensOK(d)'
    BY <1>1 DEF OnAir, ListensOK
<1>5. \A d \in Nodes : NotYet(d)' => recvContext'[d] = NONE
    BY DEF OnAir
<1>6. QED
    BY <1>2, <1>3, <1>4, <1>5 DEF OnAir

LEMMA OffAir ==
    ASSUME OnAir, place' \notin AirPlaces, UNCHANGED <<devices, data, sent, heard>>
    PROVE  OnAir'
<1>1. Found' = Found
    BY DEF Found, found_devices
<1>2. SaidByOwn'
    BY <1>1 DEF OnAir, SaidByOwn
<1>3. Written'
    BY DEF Written, AirPlaces, InitPlaces
<1>4. QED
    BY <1>2, <1>3 DEF OnAir

LEMMA ScanAir ==
    ASSUME TInv, OnAir, full_init, Scan
    PROVE  OnAir'
<1>1. /\ place = "scan" /\ place \in AirPlaces /\ full_init' /\ device = 1
      /\ UNCHANGED <<recv_channel, recvContext, registers, enabled, data, sent, heard>>
    BY DEF Scan, AirPlaces, channelVars, contextVars, handVars, nodeVars,
           TInv, ControlOK
<1>2. \A d : ~IsSetUp(d) /\ NotYet(d)
    BY <1>1 DEF IsSetUp, NotYet, InitPlaces, LoopPlaces
<1>3. \A n \in Nodes : ~enabled[n]
    BY <1>1, <1>2 DEF OnAir, StreamsOK
<1>4. \A d \in Nodes : recvContext[d] = NONE
    BY <1>1, <1>2 DEF OnAir
<1>5. \A n \in Nodes : StreamsOK(n)'
    BY <1>1, <1>3 DEF StreamsOK
<1>6. ControlOK' /\ HandOK'
    BY ScanTInv DEF TInv
<1>7. Found' \subseteq Nodes
  <2>1. devices' \in Seq(Nodes) /\ found_devices' <= scanned' /\ scanned' \in 0 .. NumNodes
      BY <1>6 DEF ControlOK
  <2>2. QED
      BY <2>1, Constants DEF Found, found_devices
<1>8. \A d \in Found' : ListensOK(d)'
    BY <1>1, <1>4, <1>7 DEF ListensOK
<1>9. Written'
    BY <1>1 DEF Written, Scan, Go, Exit
<1>10. SaidByOwn'
  <2>1. \A d \in Found : d \in Found' /\ devices'[d] = devices[d]
    <3>1. CASE devices' = Append(devices, scanned + 1)
      <4>1. devices \in Seq(Nodes)
          BY DEF TInv, ControlOK
      <4>2. QED
          BY <3>1, <4>1 DEF Found, found_devices
    <3>2. CASE devices' = devices
        BY <3>2 DEF Found, found_devices
    <3>3. QED
        BY <3>1, <3>2 DEF Scan
  <2>2. \A d \in Found' : heard[d] => d \in Found
      BY <1>7 DEF TInv, HandOK
  <2>3. QED
      BY <1>1, <2>1, <2>2 DEF OnAir, SaidByOwn
<1>11. QED
    BY <1>1, <1>4, <1>5, <1>8, <1>9, <1>10 DEF OnAir

LEMMA EarlySetupAir ==
    ASSUME TInv, OnAir, full_init, Quiet', NewHandles \/ AllocateChannel
    PROVE  OnAir'
<1>1. /\ place \in AirPlaces /\ place # "isoStart"
      /\ UNCHANGED <<devices, device, full_init, recv_channel, recvContext,
                     registers, enabled, data, sent, heard>>
      /\ place' \in {"readChannels", "allocXmit", "writeXmit"}
      /\ place \in InitPlaces
  <2>1. CASE NewHandles
    <3>1. place = "handles" /\ Go("readChannels")
        BY <2>1 DEF NewHandles, Transact, Fault, Quiet
    <3>2. QED
        BY <2>1, <3>1 DEF NewHandles, Go, AirPlaces, InitPlaces, hostVars,
                          channelVars, nodeVars, handVars
  <2>2. CASE AllocateChannel
      BY <2>2 DEF AllocateChannel, Go, AirPlaces, InitPlaces, hostVars,
                  nodeVars, handVars, contextVars
  <2>3. QED
      BY <2>1, <2>2
<1>2. Written'
    BY <1>1 DEF Written
<1>3. \A d : (IsSetUp(d) => IsSetUp(d)') /\ (NotYet(d)' => NotYet(d))
    BY <1>1 DEF IsSetUp, NotYet, InitPlaces, LoopPlaces
<1>4. QED
    BY <1>1, <1>2, <1>3, SameAir

LEMMA ReadChannelsAir ==
    ASSUME TInv, OnAir, full_init, Quiet', ReadChannels
    PROVE  OnAir'
<1>1. /\ place = "readChannels" /\ place \in AirPlaces /\ place \in InitPlaces
      /\ device \in Found /\ device \in Nodes /\ Found \subseteq Nodes
      /\ UNCHANGED <<devices, full_init, recvContext, registers, enabled, data,
                     sent, heard>>
      /\ \E c : recv_channel' = [recv_channel EXCEPT ![device] = c]
    BY Current DEF ReadChannels, Fault, Quiet, AirPlaces, InitPlaces, hostVars,
           contextVars, handVars, nodeVars, TInv
<1>2. CASE InitFails
    BY <1>1, <1>2, OffAir DEF InitFails, Exit, AirPlaces, InitPlaces, LoopPlaces
<1>3. CASE Go("allocRecv")
  <2>1. Found' = Found /\ place' = "allocRecv" /\ UNCHANGED device
      BY <1>1, <1>3 DEF Found, found_devices, Go
  <2>2. \A d : IsSetUp(d)' = IsSetUp(d) /\ NotYet(d)' = NotYet(d)
      BY <1>1, <2>1 DEF IsSetUp, NotYet, InitPlaces, LoopPlaces
  <2>3. ~IsSetUp(device)
      BY <1>1, Constants DEF IsSetUp, InitPlaces, LoopPlaces
  <2>4. \A d \in Found : d # device => recv_channel'[d] = recv_channel[d]
      BY <1>1 DEF TInv, ChannelsOK
  <2>5. \A n \in Nodes : StreamsOK(n)'
    <3> SUFFICES ASSUME NEW n \in Nodes, enabled[n]
                 PROVE  \E d \in Found : /\ devices[d] = n
                                         /\ registers[n].recv = recv_channel'[d]
                                         /\ IsSetUp(d)
        BY <1>1, <2>1, <2>2 DEF StreamsOK
    <3>1. PICK d \in Found : /\ devices[d] = n
                             /\ registers[n].recv = recv_channel[d]
                             /\ IsSetUp(d)
        BY <1>1 DEF OnAir, StreamsOK
    <3>2. QED
        BY <2>3, <2>4, <3>1
  <2>6. \A d \in Found' : ListensOK(d)'
      BY <1>1, <2>1, <2>2, <2>3, <2>4 DEF OnAir, ListensOK
  <2>7. Written' /\ SaidByOwn'
      BY <1>1, <2>1 DEF Written, OnAir, SaidByOwn
  <2>8. QED
      BY <1>1, <2>2, <2>5, <2>6, <2>7 DEF OnAir
<1>4. QED
    BY <1>2, <1>3 DEF ReadChannels, Fault, Quiet

(* A device that is not set up yet does not stream, so that its registers   *)
(* may be written.                                                          *)
LEMMA NotStreaming ==
    ASSUME TInv, OnAir, full_init, place \in InitPlaces \ {"isoStart"}
    PROVE  ~enabled[Node]
<1>1. device \in Found /\ device \in Nat /\ Node \in Nodes
    BY Current DEF TInv, InitPlaces
<1>2. ~IsSetUp(device)
    BY <1>1 DEF IsSetUp, InitPlaces, LoopPlaces
<1>3. \A d \in Found : devices[d] = Node => d = device
    BY <1>1 DEF TInv, ControlOK, Node
<1>4. QED
    BY <1>1, <1>2, <1>3 DEF OnAir, StreamsOK, AirPlaces

LEMMA WriteDeviceAir ==
    ASSUME TInv, OnAir, full_init, Quiet', WriteDevice
    PROVE  OnAir'
<1>1. /\ place \in InitPlaces \ {"handles", "isoStart"} /\ place \in AirPlaces
      /\ place' \in {"writeRecv", "readBack", "readProbe", "checkStatus"}
      /\ place' = "checkStatus" <=> place = "rewrite"
      /\ UNCHANGED <<devices, device, full_init, recv_channel, recvContext,
                     enabled, data, sent, heard>>
    BY DEF WriteDevice, WriteRegister, Transact, Fault, Quiet, Go, AirPlaces,
           InitPlaces, hostVars, channelVars, contextVars, handVars
<1>2. Node \in Nodes /\ Node' = Node /\ Found' = Found
    BY <1>1, Current DEF TInv, InitPlaces, Node, Found, found_devices
<1>3. \A n \in Nodes \ {Node} : registers'[n] = registers[n]
    BY <1>1, <1>2 DEF WriteDevice, WriteRegister, Transact, Fault, Quiet, TInv,
                      NodeOK
<1>4. Written'
  <2>1. place = "rewrite" =>
            registers' = [registers EXCEPT ![Node]["recv"] = recv_channel[device]]
      BY DEF WriteDevice, WriteRegister, Transact, Fault, Quiet
  <2>2. place = "rewrite" => registers'[Node].recv = recv_channel[device]
      BY <1>2, <2>1 DEF TInv, NodeOK
  <2>3. QED
      BY <1>1, <1>2, <2>2 DEF Written
<1>5. \A d : IsSetUp(d)' = IsSetUp(d) /\ NotYet(d)' = NotYet(d)
    BY <1>1 DEF IsSetUp, NotYet, InitPlaces, LoopPlaces
<1>6. \A n \in Nodes : StreamsOK(n)'
    BY <1>1, <1>2, <1>3, <1>5, NotStreaming DEF OnAir, StreamsOK
<1>7. \A d \in Found' : ListensOK(d)'
    BY <1>1, <1>2, <1>5 DEF OnAir, ListensOK
<1>8. SaidByOwn'
    BY <1>1, <1>2 DEF OnAir, SaidByOwn
<1>9. QED
    BY <1>1, <1>4, <1>5, <1>6, <1>7, <1>8 DEF OnAir

LEMMA CheckDeviceAir ==
    ASSUME TInv, OnAir, full_init, Quiet', CheckDevice
    PROVE  OnAir'
<1>1. /\ place \in {"readBack", "readProbe", "checkStatus"}
      /\ \/ InitFails
         \/ /\ place' \in {"writeProbe", "rewrite", "enable"}
            /\ place' = "enable" <=> place = "checkStatus"
            /\ UNCHANGED device
      /\ UNCHANGED <<devices, full_init, recv_channel, recvContext, registers,
                     enabled, data, sent, heard>>
    BY DEF CheckDevice, Expect, Transact, Go, hostVars, channelVars,
           contextVars, handVars, nodeVars
<1>2. CASE InitFails
    BY <1>1, <1>2, OffAir DEF InitFails, Exit, AirPlaces, InitPlaces, LoopPlaces
<1>3. CASE /\ place' \in {"writeProbe", "rewrite", "enable"}
           /\ place' = "enable" <=> place = "checkStatus"
           /\ UNCHANGED device
  <2>1. Written'
      BY <1>1, <1>3 DEF OnAir, Written, Node
  <2>2. \A d : (IsSetUp(d) => IsSetUp(d)') /\ (NotYet(d)' => NotYet(d))
      BY <1>1, <1>3 DEF IsSetUp, NotYet, InitPlaces, LoopPlaces
  <2>3. QED
      BY <1>1, <2>1, <2>2, SameAir DEF AirPlaces, InitPlaces
<1>4. QED
    BY <1>1, <1>2, <1>3

LEMMA EnableAir ==
    ASSUME TInv, OnAir, full_init, Quiet', Enable
    PROVE  OnAir'
<1>1. /\ place = "enable" /\ place \in AirPlaces /\ place' = "isoStart"
      /\ enabled' = [enabled EXCEPT ![Node] = TRUE]
      /\ UNCHANGED <<devices, device, full_init, recv_channel, recvContext,
                     registers, data, sent, heard>>
    BY DEF Enable, Transact, Fault, Quiet, Go, AirPlaces, InitPlaces, hostVars,
           channelVars, contextVars, handVars
<1>2. Node \in Nodes /\ Node' = Node /\ Found' = Found /\ device \in Found
    BY <1>1, Current DEF TInv, Node, Found, found_devices
<1>3. registers[Node].recv = recv_channel[device]
    BY <1>1 DEF OnAir, Written
<1>4. \A d : IsSetUp(d)' = IsSetUp(d) /\ NotYet(d)' = NotYet(d)
    BY <1>1 DEF IsSetUp, NotYet, InitPlaces, LoopPlaces
<1>5. \A n \in Nodes : StreamsOK(n)'
  <2> SUFFICES ASSUME NEW n \in Nodes, enabled'[n]
               PROVE  \E d \in Found : /\ devices[d] = n
                                       /\ registers[n].recv = recv_channel[d]
                                       /\ IsSetUp(d)' \/ d = device
      BY <1>1, <1>2 DEF StreamsOK
  <2>1. CASE n = Node
      BY <1>2, <1>3, <2>1 DEF Node
  <2>2. CASE n # Node
    <3>1. enabled[n]
        BY <1>1, <2>2 DEF TInv, NodeOK
    <3>2. QED
        BY <1>1, <1>4, <3>1 DEF OnAir, StreamsOK
  <2>3. QED
      BY <2>1, <2>2
<1>6. \A d \in Found' : ListensOK(d)'
    BY <1>1, <1>2, <1>4 DEF OnAir, ListensOK
<1>7. Written' /\ SaidByOwn'
    BY <1>1, <1>2, <1>3 DEF Written, OnAir, SaidByOwn
<1>8. QED
    BY <1>1, <1>4, <1>5, <1>6, <1>7 DEF OnAir

LEMMA IsoStartAir ==
    ASSUME TInv, OnAir, full_init, Quiet', IsoStart
    PROVE  OnAir'
<1>1. /\ place = "isoStart" /\ place \in AirPlaces
      /\ device \in Found /\ device \in Nodes /\ device \in Nat /\ Found \subseteq Nodes
      /\ UNCHANGED <<devices, full_init, recv_channel, registers, enabled, data,
                     sent, heard>>
      /\ \/ place' = "handles" /\ device' = device + 1
         \/ place' = "select" /\ UNCHANGED device /\ ~MoreDevices(device)
    BY Current DEF IsoStart, InitDone, Go, AirPlaces, InitPlaces, hostVars,
                   channelVars, handVars, nodeVars, TInv
<1>2. Found' = Found
    BY <1>1 DEF Found, found_devices
<1>3. /\ \A d \in Nodes : recvContext'[d] = IF d = device THEN recv_channel[device]
                                            ELSE recvContext[d]
  <2>1. recvContext'[device] # NONE
      BY DEF IsoStart, Quiet
  <2>2. ~IsSetUp(device)
      BY <1>1 DEF IsSetUp, InitPlaces, LoopPlaces
  <2>3. recvContext[device] = NONE
      BY <1>1, <2>2 DEF OnAir, ListensOK
  <2>4. QED
      BY <1>1, <2>1, <2>3 DEF IsoStart, Opened, TInv, ContextsOK
<1>4. \A d \in Found : d \in Nat
    BY <1>1, Constants
<1>5. \A d \in Found : IsSetUp(d) \/ d = device => IsSetUp(d)'
    BY <1>1, <1>4 DEF IsSetUp, InitPlaces, LoopPlaces
<1>6. \A n \in Nodes : StreamsOK(n)'
    BY <1>1, <1>2, <1>5 DEF OnAir, StreamsOK
<1>7. \A d \in Found' : ListensOK(d)'
    BY <1>1, <1>2, <1>3, <1>5 DEF OnAir, ListensOK
<1>8. \A d \in Nodes : NotYet(d)' => recvContext'[d] = NONE
  <2>1. \A d \in Nodes : NotYet(d)' => d > device
      BY <1>1, Constants DEF NotYet, InitPlaces
  <2>2. \A d \in Nodes : d > device => NotYet(d) /\ d # device
      BY <1>1, Constants DEF NotYet, InitPlaces
  <2>3. QED
      BY <1>1, <1>3, <2>1, <2>2 DEF OnAir
<1>9. Written' /\ SaidByOwn'
    BY <1>1, <1>2 DEF Written, OnAir, SaidByOwn
<1>10. QED
    BY <1>6, <1>7, <1>8, <1>9 DEF OnAir

LEMMA SelectAir ==
    ASSUME TInv, OnAir, full_init, Quiet', Select
    PROVE  OnAir'
<1>1. /\ place = "select" /\ place' = "recv"
      /\ UNCHANGED <<devices, recv_channel, recvContext, registers, enabled,
                     data, sent, heard>>
    BY DEF Select, Fault, Quiet, hostVars, channelVars, contextVars, nodeVars
<1>2. \A d : IsSetUp(d)' /\ ~NotYet(d)'
    BY <1>1 DEF IsSetUp, NotYet, InitPlaces, LoopPlaces
<1>3. QED
    BY <1>1, <1>2, SameAir DEF Written, AirPlaces, LoopPlaces

LEMMA LoopAir ==
    ASSUME TInv, OnAir, place \in LoopPlaces, NextInRound \/ Go("react") \/ Go("xmit"),
           UNCHANGED <<devices, recv_channel, recvContext, registers, enabled,
                       data, sent, heard>>
    PROVE  OnAir'
<1>1. place \in AirPlaces /\ place # "isoStart"
    BY DEF AirPlaces, LoopPlaces
<1>2. CASE place' \in LoopPlaces
  <2>1. \A d : IsSetUp(d)' /\ ~NotYet(d)'
      BY <1>2 DEF IsSetUp, NotYet, InitPlaces, LoopPlaces
  <2>2. Written'
      BY <1>2 DEF Written, LoopPlaces
  <2>3. QED
      BY <1>1, <2>1, <2>2, SameAir
<1>3. CASE place' = "lastStatus"
    BY <1>3, OffAir DEF AirPlaces, InitPlaces, LoopPlaces
<1>4. QED
    BY <1>2, <1>3 DEF NextInRound, Go, LoopPlaces

(* What a handle hears is sent by its own device: all others on the port    *)
(* stream on other channels.                                                *)
LEMMA ReceiveAir ==
    ASSUME TInv, Books, OnAir, full_init, place = "recv", \A d \in Nodes : pending[d] = 0,
           NEW n \in Nodes, NEW sample \in Samples, Receive(n, sample),
           UNCHANGED <<devices, recv_channel, recvContext, registers, enabled>>
    PROVE  OnAir'
<1>1. /\ place \in LoopPlaces /\ place' \in LoopPlaces /\ place \in AirPlaces
      /\ device \in Found /\ Found \subseteq Nodes /\ Node \in Nodes
      /\ Found' = Found
      /\ \A d \in Found : devices[d] \in Nodes
    BY Current DEF Receive, Go, AirPlaces, LoopPlaces, TInv, Found, found_devices
<1>2. \A d : IsSetUp(d) /\ IsSetUp(d)' /\ ~NotYet(d)'
    BY <1>1 DEF IsSetUp, NotYet, InitPlaces, LoopPlaces
<1>3. PICK d \in Found : devices[d] = n /\ registers[n].recv = recv_channel[d]
    BY <1>1 DEF OnAir, StreamsOK, Receive, Streams
<1>4. recvContext[device] = recv_channel[device]
    BY <1>1 DEF OnAir, ListensOK, Receive, Streams
<1>5. recv_channel[d] = recv_channel[device]
    BY <1>3, <1>4 DEF Receive, Streams
<1>6. PortOf[devices[d]] = PortOf[devices[device]]
    BY <1>3 DEF Receive, Streams, Port, Node
<1>7. got[d] = ChannelsOf(d) /\ got[device] = ChannelsOf(device)
    BY <1>1, <1>2 DEF Books, SetUpOK
<1>8. d = device
    BY <1>1, <1>5, <1>6, <1>7 DEF Books, Divided, ChannelsOf
<1>9. n = Node
    BY <1>3, <1>8 DEF Node
<1>10. SaidByOwn'
  <2> SUFFICES ASSUME NEW e \in Found, heard'[e]
               PROVE  data'[e] = sent'[devices[e]]
      BY <1>1 DEF SaidByOwn
  <2>1. CASE e = device
    <3>1. data'[device] = sample /\ sent'[Node] = sample
        BY <1>1, <1>9 DEF Receive, TInv, HandOK
    <3>2. QED
        BY <2>1, <3>1 DEF Node
  <2>2. CASE e # device
    <3>1. devices[e] # Node
        BY <1>1, <2>2 DEF TInv, ControlOK, Node
    <3>2. heard[e] /\ data'[e] = data[e] /\ sent'[devices[e]] = sent[devices[e]]
        BY <1>1, <1>9, <2>2, <3>1 DEF Receive, TInv, HandOK
    <3>3. QED
        BY <3>2 DEF OnAir, SaidByOwn
  <2>3. QED
      BY <2>1, <2>2
<1>11. \A m \in Nodes : StreamsOK(m)'
    BY <1>1, <1>2 DEF OnAir, StreamsOK
<1>12. \A e \in Found' : ListensOK(e)'
    BY <1>1, <1>2 DEF OnAir, ListensOK
<1>13. Written'
    BY <1>1 DEF Written, LoopPlaces
<1>14. QED
    BY <1>2, <1>10, <1>11, <1>12, <1>13 DEF OnAir

LEMMA RecvAir ==
    ASSUME TInv, Books, OnAir, full_init, Quiet', \A d \in Nodes : pending[d] = 0,
           Recv
    PROVE  OnAir'
<1>1. /\ place = "recv" /\ place \in LoopPlaces /\ device \in Nodes
      /\ UNCHANGED <<devices, recv_channel, recvContext, registers, enabled>>
    BY Current DEF Recv, LoopPlaces, TInv, channelVars, contextVars, nodeVars
<1>2. CASE \E n \in Nodes, sample \in Samples : Receive(n, sample)
    BY <1>1, <1>2, ReceiveAir
<1>3. CASE (NextInRound \/ Go("react")) /\ UNCHANGED <<data, sent, heard>>
    BY <1>1, <1>3, LoopAir
<1>4. ~(pending[device] > 0)
    BY <1>1
<1>5. QED
    BY <1>2, <1>3, <1>4 DEF Recv, Fault, Quiet

LEMMA LateLoopAir ==
    ASSUME TInv, OnAir, Quiet', React \/ Xmit
    PROVE  OnAir'
<1>1. /\ place \in LoopPlaces
      /\ UNCHANGED <<devices, recv_channel, recvContext, registers, enabled,
                     data, sent, heard>>
    BY DEF React, Xmit, LoopPlaces, hostVars, channelVars, contextVars,
           handVars, nodeVars
<1>2. NextInRound \/ Go("xmit")
    BY DEF React, Xmit, Fault, Quiet
<1>3. QED
    BY <1>1, <1>2, LoopAir

LEMMA CleanupAir ==
    ASSUME TInv, OnAir, Cleanup
    PROVE  OnAir'
<1>1. /\ place' \in {"disable", "shutdown", "free", "lastStatus", "exited"}
      /\ UNCHANGED <<devices, data, sent, heard>>
    BY DEF Cleanup, LastStatus, Disable, Shutdown, FreeChannels, Go, Exit,
           hostVars, handVars
<1>2. QED
    BY <1>1, OffAir DEF AirPlaces, InitPlaces, LoopPlaces

(* What other nodes take and give back is not on the air.                   *)
LEMMA KeptAir ==
    ASSUME OnAir,
           UNCHANGED <<place, device, devices, full_init, recv_channel, recvContext,
                       registers, enabled, data, sent, heard>>
    PROVE  OnAir'
<1>1. Found' = Found
    BY DEF Found, found_devices
<1>2. \A d : /\ IsSetUp(d)' = IsSetUp(d) /\ NotYet(d)' = NotYet(d)
             /\ ListensOK(d)' = ListensOK(d)
    BY DEF IsSetUp, NotYet, ListensOK
<1>3. \A n : StreamsOK(n)' = StreamsOK(n)
    BY <1>1, <1>2 DEF StreamsOK
<1>4. Written' = Written /\ SaidByOwn' = SaidByOwn
    BY <1>1 DEF Written, Node, SaidByOwn
<1>5. QED
    BY <1>1, <1>2, <1>3, <1>4 DEF OnAir

LEMMA OtherNodeAir ==
    ASSUME TInv, OnAir, OtherNode
    PROVE  OnAir'
BY OtherNodeIs, KeptAir
   DEF Elsewhere, hostVars, contextVars, handVars, nodeVars

LEMMA InitAir == Init => OnAir
<1> SUFFICES ASSUME Init PROVE OnAir
    OBVIOUS
<1>1. place = "scan" /\ Found = {}
    BY DEF Init, Found, found_devices
<1>2. (\A n \in Nodes : ~enabled[n]) /\ \A d \in Nodes : recvContext[d] = NONE
    BY DEF Init
<1>3. QED
    BY <1>1, <1>2 DEF OnAir, Written, SaidByOwn, StreamsOK

LEMMA StepDInv == TInv /\ GInv /\ DInv /\ [Next]_vars => DInv'
<1>1. ASSUME TInv, GInv, DInv, Next, Quiet'
      PROVE  OnAir'
  <2>1. /\ Quiet /\ full_init /\ OnAir /\ Books
        /\ \A d \in Nodes : pending[d] = 0
        /\ \A p : ~ResetBus(p)
      BY <1>1, QuietBefore DEF DInv, GInv, Orderly, Quiet
  <2>2. CASE Scan \/ Initialise
      BY <1>1, <2>1, <2>2, ScanAir, EarlySetupAir, ReadChannelsAir,
         WriteDeviceAir, CheckDeviceAir, EnableAir, IsoStartAir DEF Initialise
  <2>3. CASE Loop \/ Cleanup
      BY <1>1, <2>1, <2>3, SelectAir, RecvAir, LateLoopAir, CleanupAir DEF Loop
  <2>4. CASE OtherNode
      BY <1>1, <2>1, <2>4, OtherNodeAir
  <2>5. QED
      BY <1>1, <2>1, <2>2, <2>3, <2>4 DEF Next, Run, BusReset
<1>2. ASSUME DInv, UNCHANGED vars
      PROVE  DInv'
  <2>1. /\ UNCHANGED <<place, device, devices, full_init, recv_channel, recvContext,
                       registers, enabled, data, sent, heard>>
        /\ Quiet' = Quiet
      BY <1>2 DEF vars, hostVars, channelVars, contextVars, handVars, busVars,
                  nodeVars, Quiet
  <2>2. QED
      BY <1>2, <2>1, KeptAir DEF DInv
<1>3. QED
    BY <1>1, <1>2 DEF DInv

(* As long as no bus reset came in between, what a device's data say was    *)
(* sent by that device.                                                     *)
THEOREM OmniDataFromOwn == Spec => []DataFromOwnDevice
<1>1. Init => DInv
    BY InitAir DEF DInv
<1>2. DInv => DataFromOwnDevice
    BY DEF DInv, Quiet, OnAir, SaidByOwn, DataFromOwnDevice
<1>3. QED
    BY <1>1, <1>2, StepDInv, OmniBooks, PTL DEF Spec
=============================================================================
