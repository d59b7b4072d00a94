---------------------------- MODULE OpenDevices ----------------------------
(***************************************************************************)
(* The process-wide registry of open FireWire devices of the libraw1394    *)
(* backend (FirewireDeviceLibraw1394): a malloc'ed array of pointers, its  *)
(* length and its capacity.  The constructor appends, the destructor       *)
(* compacts, deviceIsOpen searches.  The device iterator calls             *)
(* deviceIsOpen(port, node) before it constructs a device, and findPhantom *)
(* destroys the devices it rejects, so constructor and destructor are the  *)
(* only two operations that change the registry.                           *)
(*                                                                         *)
(* An Addr is what malloc returns: a freed address may be handed out again.*)
(* A Place is a (port, node) pair.                                         *)
(***************************************************************************)
EXTENDS Integers, FiniteSets

CONSTANTS Addrs,    \* addresses a FirewireDeviceLibraw1394 object can have
          Places,   \* <<port, node>> pairs on the buses
          NoAddr,   \* an array cell that was never written
          NoPlace   \* the place of an address that holds no object

ASSUME SentinelAssumption == NoAddr \notin Addrs /\ NoPlace \notin Places
ASSUME FiniteAssumption == IsFiniteSet(Addrs)

VARIABLES open_devices,            \* the array
          number_of_open_devices,
          max_open_devices,        \* its capacity
          place,                   \* the object at an address: its place
          orderly                  \* history: since the registry was last
                                   \* empty, only the newest was closed

vars == <<open_devices, number_of_open_devices, max_open_devices, place,
          orderly>>

Growth == 2    \* the initial capacity, and what a full array grows by

Entries == 0 .. number_of_open_devices - 1
Live == {a \in Addrs : place[a] # NoPlace}
PlacesInUse == {place[a] : a \in Live}

-----------------------------------------------------------------------------
(* What deviceIsOpen(p) may answer.  An entry whose object was destroyed is *)
(* freed memory: the comparison with it can come out either way.            *)
CanAnswerTrue(p) == \E i \in Entries : open_devices[i] \notin Live
                                       \/ place[open_devices[i]] = p
SkipsFirstEntry(p) == \A i \in Entries \ {0} :  \* a mutant of the next one
                          open_devices[i] \notin Live
                          \/ place[open_devices[i]] # p
CanAnswerFalse(p) == \A i \in Entries : open_devices[i] \notin Live
                                        \/ place[open_devices[i]] # p
deviceIsOpen(p) == {answer \in BOOLEAN : IF answer THEN CanAnswerTrue(p)
                                                   ELSE CanAnswerFalse(p)}

-----------------------------------------------------------------------------
Init == /\ open_devices = [i \in 0 .. Growth - 1 |-> NoAddr]
        /\ number_of_open_devices = 0
        /\ max_open_devices = Growth
        /\ place = [a \in Addrs |-> NoPlace]
        /\ orderly = TRUE

FullTooLate == number_of_open_devices > max_open_devices   \* mutant of Full
Full == number_of_open_devices = max_open_devices
IndexPastEnd == number_of_open_devices + 1      \* mutant of AppendIndex
AppendIndex == number_of_open_devices

(* The constructor, called for a place that deviceIsOpen just denied: grow  *)
(* the array by Growth when it is full, append.                             *)
Open(a, p) ==
    /\ a \notin Live
    /\ FALSE \in deviceIsOpen(p)
    /\ max_open_devices' = IF Full THEN max_open_devices + Growth
                                   ELSE max_open_devices
    /\ open_devices' =
           [i \in 0 .. max_open_devices' - 1 |->
               IF i = AppendIndex THEN a
               ELSE IF i < max_open_devices THEN open_devices[i] ELSE NoAddr]
    /\ number_of_open_devices' = number_of_open_devices + 1
    /\ place' = [place EXCEPT ![a] = p]
    /\ UNCHANGED orderly

(* The destructor decrements the count first, so neither its search nor its *)
(* shift reaches the last entry: the cells from the one after the object's  *)
(* first entry up to the new count move down by one.                        *)
IsFirstEntry(a, n, i) == /\ \/ i = n
                            \/ i \in 0 .. n - 1 /\ open_devices[i] = a
                         /\ \A j \in 0 .. i - 1 : open_devices[j] # a
ShiftsFromZero(n, i) == [j \in 0 .. max_open_devices - 1 |->    \* a mutant
                            IF j + 1 < n THEN open_devices[j + 1]
                                         ELSE open_devices[j]]
Compacted(n, i) == [j \in 0 .. max_open_devices - 1 |->
                       IF i <= j /\ j + 1 < n THEN open_devices[j + 1]
                                              ELSE open_devices[j]]

IsNewest(a) == /\ number_of_open_devices > 0
               /\ open_devices[number_of_open_devices - 1] = a

Close(a) ==
    /\ a \in Live
    /\ number_of_open_devices' = number_of_open_devices - 1
    /\ \E i \in 0 .. number_of_open_devices - 1 :
          /\ IsFirstEntry(a, number_of_open_devices - 1, i)
          /\ open_devices' = Compacted(number_of_open_devices - 1, i)
    /\ place' = [place EXCEPT ![a] = NoPlace]
    /\ orderly' = \/ number_of_open_devices = 1
                  \/ orderly /\ IsNewest(a)
    /\ UNCHANGED max_open_devices

Next == \E a \in Addrs : Close(a) \/ \E p \in Places : Open(a, p)

Spec == Init /\ [][Next]_vars

-----------------------------------------------------------------------------
TypeOK == /\ number_of_open_devices \in Nat
          /\ max_open_devices \in Nat
          /\ number_of_open_devices <= max_open_devices
          /\ open_devices \in [0 .. max_open_devices - 1 -> Addrs \cup {NoAddr}]
          /\ place \in [Addrs -> Places \cup {NoPlace}]
          /\ orderly \in BOOLEAN

(* The count is the number of open devices whatever the order of the        *)
(* closes, although the entries it covers may not be them: the unsigned     *)
(* decrement in the destructor never wraps and no entry is ever read from a *)
(* cell the array never had.                                                *)
CountMatchesLive ==
    /\ number_of_open_devices = Cardinality(Live)
    /\ \A i \in Entries : open_devices[i] # NoAddr

(* As long as the newest device was closed first (since the registry was    *)
(* last empty) the entries are exactly the open devices, each once.         *)
ExactWhileOrderly ==
    orderly => /\ {open_devices[i] : i \in Entries} = Live
               /\ \A i, j \in Entries :
                      open_devices[i] = open_devices[j] => i = j

(* So in that case no place ever has two open devices: findPhantom never    *)
(* hands a Phantom that is in use to a second caller.                       *)
NoSharedPlaceWhileOrderly ==
    orderly => \A a, b \in Live : place[a] = place[b] => a = b

(* What FirewireDeviceLibraw1394.h says of deviceIsOpen, without the        *)
(* condition on the order: true if the device on the given port and node is *)
(* in use.                                                                  *)
DeviceIsOpenAsDocumented ==
    \A p \in Places : deviceIsOpen(p) = {p \in PlacesInUse}

-----------------------------------------------------------------------------
(* The promise of the registry: a set of open devices in which no place     *)
(* occurs twice, as long as the newest device is closed first (the order in *)
(* which findPhantom and the tests use devices), and again once all devices *)
(* were closed.                                                             *)
Abstract == INSTANCE OpenDeviceSet
                WITH devices <- {<<a, place[a]>> : a \in Live},
                     exact <- orderly
RegistryIsASet == Abstract!Spec

=============================================================================
