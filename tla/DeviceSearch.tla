---------------------------- MODULE DeviceSearch ----------------------------
(***************************************************************************)
(* Phantom::findPhantom of one process, with the DeviceIteratorLibraw1394  *)
(* it walks the buses with and the registry of open devices underneath.    *)
(* The iterator opens (registers) every device it returns; findPhantom     *)
(* probes it, deletes it when it is not the wanted one, and wraps it in a  *)
(* Phantom otherwise.  A read of the device may throw; findPhantom catches *)
(* nothing, so the device under probe stays open and nobody can delete it. *)
(*                                                                         *)
(* The bus does not change during a run: ports (cached by the iterator for *)
(* the life of the process) and node counts are constants here.            *)
(***************************************************************************)
EXTENDS OpenDevices

CONSTANTS Ports,       \* number of FireWire ports of the host
          NodeCount,   \* nodes on each port, the host included
          SerialAt,    \* the serial of the Phantom at a place, 0: another device
          Serials,     \* what callers ask for; 0 asks for any Phantom
          ReadsMayFail

ASSUME BusAssumption ==
    /\ Ports \in Nat
    /\ NodeCount \in [0 .. Ports - 1 -> Nat \ {0}]
    /\ Places = UNION {{q} \X (0 .. NodeCount[q] - 1) : q \in 0 .. Ports - 1}
    /\ SerialAt \in [Places -> Nat]
    /\ Serials \subseteq Nat
    /\ ReadsMayFail \in BOOLEAN

VARIABLES pc,                 \* "idle", or where findPhantom is
          serial,             \* its argument
          port, node, nodes,  \* the iterator, 0 when there is none
          dev,                \* the device under probe, or NoAddr
          result,             \* how the last search ended
          phantoms,           \* the Phantoms the application holds
          faulted             \* history: a probe threw

search == <<pc, serial, port, node, nodes, dev, result, phantoms, faulted>>
allVars == <<vars, search>>

Null == "null"
Threw == "threw"
None == "none"
ASSUME ResultAssumption == Addrs \cap {Null, Threw, None} = {}

SearchInit ==
    /\ Init
    /\ pc = "idle" /\ serial = 0 /\ port = 0 /\ node = 0 /\ nodes = 0
    /\ dev = NoAddr /\ result = None /\ phantoms = {} /\ faulted = FALSE

-----------------------------------------------------------------------------
(* A call of findPhantom creates an iterator at the first port.             *)
MemoryBound == Live # Addrs     \* a bound of the model: a search opens one
                                \* device at a time
FindPhantom(wanted) ==
    /\ pc = "idle" /\ MemoryBound
    /\ pc' = "next"
    /\ serial' = wanted
    /\ port' = 0 /\ node' = 0
    /\ nodes' = IF Ports = 0 THEN 0 ELSE NodeCount[0]
    /\ result' = None
    /\ UNCHANGED <<vars, dev, phantoms, faulted>>

(* DeviceIteratorLibraw1394::next, one round of its loop: move to the next  *)
(* port when this one is exhausted, skip the place when it is open.         *)
SkipsLastNode == node + 1 >= nodes                    \* mutant of PortExhausted
PortExhausted == node >= nodes
BusExhausted == PortExhausted /\ port + 1 >= Ports
CurrentPort == IF PortExhausted THEN port + 1 ELSE port
CurrentNode == IF PortExhausted THEN 0 ELSE node
SameNode == CurrentNode                               \* mutant of FollowingNode
FollowingNode == CurrentNode + 1

IteratorGone == port' = 0 /\ node' = 0 /\ nodes' = 0

NextFindsNone ==
    /\ pc = "next" /\ BusExhausted
    /\ pc' = "idle" /\ result' = Null
    /\ IteratorGone
    /\ UNCHANGED <<vars, serial, dev, phantoms, faulted>>

MovesOn == /\ pc = "next" /\ ~BusExhausted
           /\ port' = CurrentPort
           /\ nodes' = NodeCount[CurrentPort]
           /\ node' = FollowingNode

NextSkips == /\ MovesOn
             /\ TRUE \in deviceIsOpen(<<CurrentPort, CurrentNode>>)
             /\ UNCHANGED <<vars, pc, serial, dev, result, phantoms, faulted>>

NextOpens(a) == /\ MovesOn
                /\ Open(a, <<CurrentPort, CurrentNode>>)
                /\ dev' = a
                /\ pc' = "probe"
                /\ UNCHANGED <<serial, result, phantoms, faulted>>

(* isSensableDevice and readDeviceSerial of the device under probe.         *)
IsPhantom(a) == SerialAt[place[a]] # 0
IgnoresSerial(a) == IsPhantom(a)                      \* mutant of Wanted
Wanted(a) == IsPhantom(a) /\ serial \in {0, SerialAt[place[a]]}

Accept == /\ pc = "probe" /\ Wanted(dev)
          /\ phantoms' = phantoms \cup {dev}
          /\ result' = dev
          /\ dev' = NoAddr
          /\ pc' = "idle"
          /\ IteratorGone
          /\ UNCHANGED <<vars, serial, faulted>>

StopsSearch == pc' = "idle" /\ result' = Null         \* mutant of AfterReject
AfterReject == pc' = "next" /\ UNCHANGED result

ForgetsDelete(a) == UNCHANGED vars                    \* mutant of Delete
Delete(a) == Close(a)

Reject == /\ pc = "probe" /\ ~Wanted(dev)
          /\ Delete(dev)
          /\ dev' = NoAddr
          /\ AfterReject
          /\ UNCHANGED <<serial, port, node, nodes, phantoms, faulted>>

Fail == /\ pc = "probe" /\ ReadsMayFail
        /\ pc' = "idle" /\ result' = Threw
        /\ dev' = NoAddr
        /\ faulted' = TRUE
        /\ IteratorGone
        /\ UNCHANGED <<vars, serial, phantoms>>

(* The application deletes a Phantom it holds, any of them.                 *)
DeletePhantom(a) ==
    /\ pc = "idle" /\ a \in phantoms
    /\ Close(a)
    /\ phantoms' = phantoms \ {a}
    /\ result' = None
    /\ UNCHANGED <<pc, serial, port, node, nodes, dev, faulted>>

-----------------------------------------------------------------------------
Iterate == NextFindsNone \/ NextSkips \/ \E a \in Addrs : NextOpens(a)
Probe == Accept \/ Reject \/ Fail
Search == Iterate \/ Probe

SearchNext == \/ \E wanted \in Serials : FindPhantom(wanted)
              \/ Search
              \/ \E a \in Addrs : DeletePhantom(a)

(* findPhantom runs to its end once called.                                 *)
SearchSpec == SearchInit /\ [][SearchNext]_allVars /\ WF_allVars(Search)

-----------------------------------------------------------------------------
Before(p, q) == p[1] < q[1] \/ (p[1] = q[1] /\ p[2] < q[2])
Held == {place[a] : a \in phantoms}
Matching == {p \in Places : SerialAt[p] # 0 /\ serial \in {0, SerialAt[p]}}

SearchTypeOK == /\ TypeOK
                /\ pc \in {"idle", "next", "probe"}
                /\ dev \in Addrs \cup {NoAddr}
                /\ phantoms \subseteq Addrs
                /\ result \in Addrs \cup {Null, Threw, None}
                /\ {port, node, nodes} \subseteq Nat

(* The search returns what was asked for, and the first such device on the  *)
(* buses that no other Phantom drives: the iterator skips no place and no   *)
(* port.  (As long as Phantoms are deleted newest first and no probe threw.)*)
FoundIsFirstUnused ==
    result \in Addrs /\ orderly /\ ~faulted =>
        /\ place[result] \in Matching
        /\ \A p \in Matching : Before(p, place[result]) => p \in Held

(* When it returns 0, every device that matches is in use.                  *)
NoneUnused == result = Null => Matching \subseteq Held
NullMeansNoneUnused == orderly /\ ~faulted => NoneUnused

(* No two Phantoms drive one device as long as they are deleted newest      *)
(* first, also after probes that threw.                                     *)
OnePhantomPerDevice ==
    orderly => \A a, b \in phantoms : place[a] = place[b] => a = b

(* Every open device is a Phantom of the application or the one under       *)
(* probe, in whatever order Phantoms are deleted: without a throwing probe  *)
(* nothing stays open.                                                      *)
NothingStaysOpen == ~faulted => Live = phantoms \cup ({dev} \ {NoAddr})

(* Every search ends.                                                       *)
SearchEnds == pc # "idle" ~> pc = "idle"

(* Phantom.h:37: 0 if there are no unused phantom devices found.  A probe   *)
(* that threw must not change that.                                         *)
NullAsDocumented == orderly => NoneUnused
=============================================================================
