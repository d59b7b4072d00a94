# Verification of phantom-drivers

TLA+ models of the logic in `src/`: the C++ library for SensAble PHANTOM haptic
devices on FireWire (`lib/src`) and the C application it grew out of
(`rev-eng/omni.c`). Every module says at its top what it models; this file says
how the modules and the code fit together, what the runs and the proofs show,
and what is left out. `PROJECT.json` holds the same as data: components, runs,
the source lines behind each definition, mutations that the properties detect,
known disagreements between code and documentation, and the hazards.

    tlc -workers 2 -config session_contention.cfg MCPhantomSession
    tlapm PhantomSession_proof.tla

## 1. The system

A PHANTOM is a node on a FireWire bus. It has a configuration ROM, control and
status registers, and one register each for the isochronous channel it sends on
and the one it listens to. Channels are a resource of the bus: the isochronous
resource manager keeps a 64-bit register `CHANNELS_AVAILABLE` that nodes change
by compare-and-swap.

| Component | Source | State | Operations | Correct when |
|---|---|---|---|---|
| Open-device registry | `FirewireDeviceLibraw1394.{h,cpp}` | array of device pointers, count, capacity (process-wide) | constructor, destructor, `deviceIsOpen` | entries are the open devices; no place is open twice |
| Device iterator, `findPhantom` | `DeviceIteratorLibraw1394.cpp`, `DeviceIterator.cpp`, `Phantom.cpp`, `BaseDevice.cpp` | port, node and node count of the iterator; device under probe | `next`, `findPhantom`, delete a Phantom | returns the first unused device asked for, 0 only when none is left, leaves nothing open |
| Phantom session | `Phantom.{h,cpp}` | `started`, two channel objects | `startPhantom`, `stopPhantom`, destructor, `isoIterate` | started means two channels held and the device configured; no channel lost |
| Isochronous channel objects | `PhantomIsoChannel.{h,cpp}` | `channel`, two communication handles; registers of the device | constructor, `start`, `stop`, destructor, `iterate`, data handlers | sends and listens only on channels it holds |
| Channel allocation | `FirewireDeviceLibraw1394.cpp` | the register at the resource manager | `getFreeChannel`, `claimChannel`, `releaseChannel` | no channel is given to two, only the holder frees |
| libraw1394 transport | `CommunicationLibraw1394.{h,cpp}`, `Communication.cpp` | the handle and its context | read, write, start/stop of a context, iteration and callback | a read is repeated on `EAGAIN`, other failures raise |
| Configuration ROM | `FirewireDevice.{h,cpp}` | the ROM read so far, two flags | `getVendorId`, `getVendorName`, `isSensableDevice` | a valid ROM is the ROM of the node; failures do not stick |
| Mac OS X backend | `*MacOSX.{h,cpp}` | device and unit iterators, units opened in the system, a private channel bit set, receive programs on a run loop | as above | a unit is open for one process, objects of a process have distinct channels, calls come back |
| omni | `rev-eng/omni.c` | tables of devices, handles and channels; last report of each device; flags of the main loop | scan, `initialise_device`, main loop, bus reset handler, shutdown | each device has channels of its own, data comes from its own device, the end leaves nothing behind and takes nothing from others |
| easy-com | `rev-eng/easy-com.c` | none | register and control transactions | repeated on `EAGAIN`, fails otherwise |
| probe-node, test-probe | `rev-eng/probe-node.c`, `test-probe.c` | none between calls | `probe_node` | agrees with the library's parser; lost reads only hide a device |
| minimal-test, trace patch, library tests | `minimal-test/`, `libraw1394-2.0.5-trace.patch`, `lib/tests/` | none | straight-line replays, logging, clients | not modelled |

### How the parts interact

* `findPhantom` asks the iterator for the next device; the iterator asks the
  registry (`deviceIsOpen`) and constructs a `FirewireDevice`, which registers
  itself. `findPhantom` probes it (`isSensableDevice` reads the configuration
  ROM, `readDeviceSerial` a register), deletes it if it is not the wanted one and
  wraps it in a `Phantom` otherwise.
* `startPhantom` constructs a receive and a transmit channel object (each:
  `getFreeChannel`, `claimChannel`), then starts them (context of the host,
  channel register of the device with a read-back and a probe for the receive
  direction, two status registers, `ADDR_CONTROL`). `stopPhantom` stops and
  deletes both; deleting stops again and gives the channel back.
* Sessions of several processes meet only in `CHANNELS_AVAILABLE` and, when two
  processes found one device, in its registers.
* `isoIterate` waits on the handle of the receive object, then on that of the
  transmit object, until the kernel has something for it.
* On Mac OS X the same `Phantom` and `PhantomIsoChannel` run over units of the
  operating system: opening one is exclusive, channels of the bus are given out
  by the system, and data arrives in callbacks of the process' run loop.
* omni does all of this by itself, without the library, for up to three devices,
  in one loop around `select`; bus resets reach it as events on the receive
  handle of each device.

### What is hard here

The libraries are single-threaded per process: there are no locks and no shared
memory. What a test hardly reaches is elsewhere:

* other nodes and processes act between any two bus transactions (the register
  of free channels is even read in two halves);
* every transaction can fail, and the code is a long sequence of them with
  state already changed behind it; exceptions leave constructors, destructors
  and half-finished starts;
* a write that is answered by `EAGAIN` is dropped without a trace;
* the process may die between a claim and a release; the device keeps its
  registers, the bus its allocations;
* a bus reset voids all allocations and renumbers the nodes, at any time, in
  particular during a setup and before the last one has been dealt with;
* devices may be closed in any order, the registry was written for one.

`PROJECT.json` lists these as hazards, each with its line and with the
properties that speak about it.

## 2. The modules

| Module | Models | Extends |
|---|---|---|
| `OpenDevices` | the registry | |
| `OpenDeviceSet` | abstract: a set of open devices, no place twice while exact | |
| `DeviceSearch` | iterator and `findPhantom` on top of the registry | `OpenDevices` |
| `PhantomSession` | sessions, their channel objects and iteration, channel allocation, device registers | |
| `ChannelPool` | abstract: each channel is owned by nobody, one session or elsewhere | |
| `ConfigRom` | the ROM getters and the walk over the ROM | |
| `ProbeNode` | the parser of probe-node, over the nodes and the ROM of `ConfigRom` | `ConfigRom` |
| `Omni` | the omni application | |
| `MacOSX` | search, start, iteration, stop and delete over the Mac OS X backend | |
| `MC*` | constants of the runs (`MCConfigRom` of both parsers) | the module of that name |
| `OpenDevices_proof` | theorems on the registry | `OpenDevices` |
| `PhantomSession_proof` | types, the partition of the channels, the refinement of `ChannelPool` | `PhantomSession` |
| `SessionContexts_proof` | contexts are on held channels, no channel is lost | `PhantomSession_proof` |
| `SessionDevices_proof` | what a start leaves in the device | `SessionContexts_proof` |
| `DeviceSearch_proof` | theorems on the search, over the registry's invariant | `DeviceSearch`, `OpenDevices_proof` |
| `ProbeNode_proof` | both parsers, for every ROM | `ProbeNode` |
| `Omni_proof` | the channels and the data of omni's devices | `Omni` |
| `MacOSX_proof` | owners of units and channels | `MacOSX` |

Definitions with a comment "mutant of X" are plausible bugs in place of X. No
specification uses them; `PROJECT.json` names the property that detects each.

### OpenDevices

`open_devices`, `number_of_open_devices` and `max_open_devices` are the static
members. An address is what `malloc` hands out, so it can come back after a
free; `place[a]` is the (port, node) of the object at `a`. `Open` is the
constructor (grow when full, append), `Close` the destructor: it decrements the
count *before* it searches and shifts, so neither reaches the last entry.
`deviceIsOpen(p)` is the set of answers the loop can give: an entry whose object
is gone is freed memory, and comparing with it can come out either way.
`orderly` is a history variable: since the registry was last empty, only the
newest device was closed. That is the order in which the search itself and the
tests of the library use devices. In whatever order devices are closed, the
registry implements `OpenDeviceSet` with `orderly` as its flag `exact`: while the
flag is set no place has two devices, a close may clear it, and it is set again
when the last device is closed.

### DeviceSearch

One step per round of the loop in `next` (move to the next port when this one is
exhausted; skip a place that `deviceIsOpen` calls open; otherwise open it), and
one for the probe, which accepts, rejects (deletes) or throws. The application
deletes any Phantom it holds between searches. What a place holds (`SerialAt`)
does not change during a run.

### PhantomSession

A session is a process with one `Phantom`. Its program counter is a pair: the
phase (which member function of which channel object runs) and the step (the
next transaction). `Complete` is the normal end of a member function, `Raise` an
exception that leaves it:

* from the constructor of the receive object: reset `started`, rethrow;
* from that of the transmit object: delete the receive object first
  (phase `unwind`), reset `started`, rethrow;
* from `start`: nobody catches it, `started` stays set;
* from `stop` in `stopPhantom`: `started` was reset before, the objects are lost;
* out of a destructor: the Makefiles name no C++ standard, and the rule changed
  with C++11, so `DtorThrow` lists both: the exception propagates, or the
  process ends.

`available` is the register at the resource manager, `claimed` a history
variable (who got which channel and has not given it back). `getFreeChannel` is
`ReadHigh` then `ReadLow`, two transactions. `claimChannel` and `releaseChannel`
are one compare-and-swap each; `raw1394_channel_modify` is external and taken
to be atomic. `Faults` may hold "throw" (a transaction fails, with or without
having taken effect), "drop" (a write is lost, but reported as done) and "crash".
`NewPhantom` is the next process after a session is over; the device keeps its
registers and the bus its allocations.

`isoIterate` is `IsoIterate` and two rounds of `Loop`, one for each object. It
does not look at `started`: the objects that a failed start or stop left behind
serve it (`HasObjects`), and without objects the process dies. A round ends when
the kernel has something for the handle: for a context that transmits always, for
one that receives only while some enabled device sends on its channel (`SentOn`).
Otherwise the call is `Blocked`, because the library sets no time-out.

The control register keeps two bits, `enable_iso` and one that stands for all
the others. `ControlValue` is as in the code: `stop` masks with the enable bit
itself where the complement was meant.

### ConfigRom

One step per bus read. An image is a node: its ROM as a sequence of quadlets,
each given by the three views the parser takes of one (16 bits of length, 8 of
key, 24 of payload), and the vendor word in its memory that `isSensableDevice`
compares as well. The walk is the code's: header; magic; bus information; root
directory (at most 16 entries, `MaxRootDir` here); unit directory; textual leaf.
Addresses are quadlet indices; the length of the leaf, `(len - 2) * 4` in 32
unsigned bits, is kept modulo 2^30 quadlets. A read may fail at any place and
does fail beyond the end of the image. `BusReset` puts another image behind the
node number, between any two reads.

### ProbeNode

The same walk in `rev-eng/probe-node.c`, which the library's was written after:
one step per quadlet, nothing kept between calls, and no read failure noticed
(`read_config_rom` answers 1, its callers look for a negative value), so that the
walk goes on with a quadlet of zero. A process runs either program. Bus resets
come between probes only: a probe interrupted by one can take any quadlet for a
length and go on for thousands of failed reads.

### Omni

One step per transaction of `initialise_device` and of the shutdown, and per
turn of the loop of `main`. Devices count from 1 where the code counts from 0.
What is kept of a report is the two buttons and the dock switch; 0 means
pressed, and the reports start zeroed as static storage does. `pending[d]` counts
the bus resets that the receive handle of device `d` has yet to report. The bus
reset handler has no return statement, so what `raw1394_loop_iterate` makes of
it is open, and main may go on or stop with an error. The display, the forces
themselves and the scan's probe (a node is taken or not; `ProbeNode` has the
parser) are left out, as are the limits in section 6.

`available[p]` is the register of the resource manager of port `p`; `taken[p]`
are the channels other nodes hold and `got[d]` those allocated for device `d` (both
are history: the code knows neither). Other nodes take and give back channels of
`Foreign` at any time (`OtherNode`), so a channel that was read as free may be
theirs when omni allocates it; the allocation is then refused, and `Allocate` goes
on as the code does. The same holds of an allocation or a release that fails, with
or without having had its effect. `FreeChannels` gives back what the table of the
device names, whoever holds it by then (`GiveBack`). After a bus reset the other
nodes have their channels again before omni acts.

### MacOSX

The common classes over the Mac OS X backend. A device consists of units; the
iterator opens the first unit of kind `IOFireWireUnit` that nobody has open
(`CanOpen`), and a Phantom is named by its unit. `claimed[p]` is the static bit
set of process `p`, 32 bits that the bus knows nothing of. `listening[u]` is the
channel that the system gave to the receive program of `u`: it has nothing to do
with the channel the device is told (`register[u]`). `stopIsoTransfer` is empty,
so a receive program outlives its channel object; `orphans[p]` are the channels
of those, and a packet on one of them calls back into freed memory
(`StaleCallback`). Calls of the system that fail are not noticed: a read then
yields what the buffer held, which in `start` is the value expected. As units are
open for one process only, no other process sees the registers of a unit between
two steps of its owner, so a member function of a channel object is one step.

Transmission is not implemented and throws at once, so `startPhantom` ends with
an exception *after* the receive object, and with it the device, was started;
`started` stays set and the objects exist, which is why `isoIterate` and
`stopPhantom` work all the same.

## 3. What the runs show

| Run | Question | Size |
|---|---|---|
| `registry` | opens and closes in any order, addresses reused: count right always (`CountMatchesLive`), entries and places right while newest is closed first (`ExactWhileOrderly`, `NoSharedPlaceWhileOrderly`), refinement of `OpenDeviceSet` (`RegistryIsASet`) | 5 addresses, 5 places: capacity 2, 4, 6 |
| `search` | `FoundIsFirstUnused`, `NullMeansNoneUnused`, `OnePhantomPerDevice`, `NothingStaysOpen`, `SearchEnds` | 2 ports with 2 nodes, 2 Phantoms |
| `session_contention` | two processes race for three free channels: partition, no leak, the device configured, `isoIterate` never waits for ever (`RunningIterates`), refinement of `ChannelPool` | 4 channels, 1 foreign |
| `session_faults` | one process, all faults at every step: partition, `StartedHasChannels`, `ContextsOnHeldChannels`, `RecvChannelConfirmed`, every call comes back but an `isoIterate` that has nothing to receive | 4 channels, any number of faults |
| `config_rom` | a valid ROM is that of the node, one failed read does not spoil a device for good, the cached ROM is stable, `isSensableDevice` says yes only of a device that is there, every call ends; the two parsers agree when no read fails (`ProbeAgreesWithLibrary`), and lost reads make probe-node overlook a vendor but never invent one (`LostReadsOnlyHide`) | 9 images, 2 resets |
| `macosx` | two processes share two Phantoms, or one meets unnoticed failures: objects of a process have distinct channels that its bit set holds, units are open exactly for the Phantoms in use, every call comes back | 3 units, 4 channels, 2 of them free on the bus |
| `omni` | while other nodes take and give back channels: channels are own, data come from the own device, a clean exit, no channel is taken from another node (`ForeignStaysTaken`); every setup and every shutdown ends, whatever fails | 2 nodes on one port, 4 channels, 2 of them other nodes' at times, 1 reset; any number of faults with one device, up to the first with two |

Five more runs each refute one sentence of the documentation, a comment or the
user's instructions:

| Run | The text | The code |
|---|---|---|
| `registry_is_open_doc` | `FirewireDeviceLibraw1394.h:54`: true if the device is open already | closing any device but the newest drops the newest one from the registry and keeps a freed pointer |
| `search_null_doc` | `Phantom.h:37`: 0 if there are no unused devices | a probe that throws leaves its device registered for good, later searches skip it |
| `session_stop_doc` | `PhantomIsoChannel.cpp:154`: "Transfer is enabled, so stop it" | the mask keeps the very bit it should clear; the device streams on, on a channel that is given back |
| `session_lost_write` | `PhantomIsoChannel.cpp:67`: tell the device which channel is used | a write answered by `EAGAIN` is dropped and only the receive channel is read back |
| `omni_force_doc` | `omni.c:264`: hold button 1 to apply force | before the first report the zeroed one counts as button pressed: the motors go on |

Some properties hold only under a condition, and the condition is the finding:
`orderly` in the registry and the search, `~faulted` for leaks (an exception in
`stop` loses both objects and their channels), `~overlapped` in omni (a second
bus reset before every handle has told of the first makes a device set up twice;
the first pair of channels is lost), `~faulted` and `~untold` for the channels of
other nodes (nobody looks at the results of `omni.c:381` and `:382`, so a refused
allocation stays in the table, the device is told that channel, and the shutdown
frees it although it is another node's; a device taken down before its handle told of a reset frees channels that it no longer
holds and another node may have), `resets = 0` for `DataFromOwnDevice` (after
a reset the devices move to new channels one after the other, and the first may
take the channel a later one still sends on).

### Bounds

* registry: five devices pass both growths (at 2 and at 4), and a close of an
  entry in the first, a middle and the last position of an array that was grown.
  Addresses and places are symmetric: nothing but equality is asked of them.
* search: two ports, so that a port change happens; a port has at least one node,
  the host; the host of the second port
  is not its first node; both Phantoms can be in use at once. Three addresses are enough
  for two Phantoms and a device under probe. `search.cfg` does not ask for
  deadlock, because with all addresses of the model held by devices that a
  throwing probe left behind no search can begin.
* sessions: two sessions need four channels and find three, so each of the four
  constructors can fail for want of a channel and each can lose the race;
  `NumHigh = 2` splits the register between the two reads. One session is enough
  for faults, since what a fault leaves behind is state of the session, its
  device and the register. `session_lost_write` does not ask for deadlock,
  because `isoIterate` waits for ever on a device whose enabling was dropped.
* ROM: the images have, one each, every branch of the walk: no unit directory,
  an empty one, one behind the end, two leaves, a leaf shorter than its language
  words, more root entries than are looked at, a minimal ROM, a wrong magic
  number. Two resets reach a reset before and one after the ROM was cached.
  probe-node runs over the same images, each with any subset of its reads lost.
* Mac OS X: two Phantoms, one of them behind a unit of another kind, so that the
  iterator passes over units of the wrong kind and units that are open. Four bits
  are enough for the four objects of one process with two Phantoms; a stop that
  throws loses some of them, and the next constructor finds none.
  `FreeOnBus` has two channels: after both Phantoms were started, starting one
  again after a stop, whose program goes on, finds none, and the process dies of
  the assertion. With failures
  (`faults`) one process takes part (`Alone`) and transactions fail with one of
  the two units (`Shaky`); without them both processes compete. Deadlock is not
  asked for: `isoIterate` of the only process never ends while data arrives.
* omni: two devices on one port are the smallest case in which one's channels
  can become another's. One reset puts every step of a setup on both sides of
  it. `Foreign` has channel 0, because that is what an unused entry of omni's table
  says, and the highest one. With four channels the other nodes can take away
  what the second device would need: its setup finds two channels, one or none, in
  the first round, where the program then ends, and after the reset, where it goes
  on. With two devices the run stops where a transaction fails or an allocation
  is refused (`OneDeviceGoesOn`): the safety properties say nothing of what comes
  after that, and that setup and shutdown end is a matter of one device after the
  other. With one device any number of faults follow each other, and both devices
  of the port may be passed over by the scan. No button is held (`HandsOff`), but
  the zeroed report of a silent device counts as held, which resets the bus as the
  code does. The invariants of the proofs were also checked for one device with two
  resets, all buttons and all faults at once. The program ends, so deadlock is not asked for.

### Fairness

Weak fairness of the steps *inside* a call or the program's loop, and of nothing
else: a process that has a next instruction executes it, and every bus
transaction returns (with an answer, an error or a time-out), which the kernel's
transaction time-out provides. `SearchSpec` has it for the rounds of the search,
`PhantomSession!FairSpec` for `Run(s)` (what the session's own calls do, not
whether the application calls), `ProbeNode!FairProbeSpec` for the walk of either
parser, `MacOSX!Spec` for `Run(p)`, `Omni!FairSpec` for `Run`. Data is not assumed to
arrive or to stop arriving: `CallsReturn` leaves out an `isoIterate` that has
nothing to receive, `MacCallsReturn` one that keeps receiving. Reads repeated
on `EAGAIN` are one step, so `EAGAIN` is assumed not to last for ever. In `Omni`, `select` returns for some device or times out.

## 4. What is proved

For every number of devices, places, sessions and channels, with the assumptions
named in the modules (finitely many addresses and sessions, sentinels that are
not values, the types of the parameters):

* `OpenDevices_proof`: `RegistryTypeCorrect`, `RegistryCount`, `RegistryExact`,
  `RegistryUnique`, and `RegistryRefinesSet` (`Spec => RegistryIsASet`).
  The inductive invariant is the conjunction of the four invariants of the run.
  None of them is inductive alone: that the place the constructor gets is unused
  follows from `deviceIsOpen` only when the entries are exactly the live objects,
  and that the count does not wrap in the destructor needs it to be their number.
  The interesting case is `Close`: in an orderly state the object is the last
  entry, which the shifted range does not contain, and nothing moves. The
  refinement uses the count once more: when it drops to zero no device is left,
  so the abstract set may call itself exact again.
* `PhantomSession_proof`: `SessionTypeCorrect`, `ChannelsArePartitioned`,
  `StartedMeansTwoChannels`, under every combination of `Faults` and either rule
  of `DtorThrow`. `ChannelsPartitioned` needs to know that a destructor frees
  only a channel its session holds. So the invariant adds `PcOK` (which step,
  which flag and which objects go with which phase) and `HoldsOwn` (a channel
  object that exists holds its channel, and the two differ). The proof is in
  three layers: lemmas on the control flow (`AdvanceControl`, `CompleteControl`,
  `RaiseControl`) show that each way out of a step leads to a consistent program
  counter (`Moved`); `PoolPartition` shows that taking a free channel or giving
  back a held one keeps the partition; `GoodStepIInv` puts both together, and
  then there is one lemma for each action. `SessionsAllocateChannels` (`Spec =>
  AllocatesChannels`) follows: by the partition the owner of a channel is
  unique, and a step that allocates or frees one changes no other's (`PoolStepMapped`).
* `SessionContexts_proof`: `ContextsAreHeld`. An open context need not belong to
  an object: an exception out of `stop` loses the object and its handle. The
  strengthening `ContextsOK` says that a context is on a held channel; that, if
  the channel is the one in an object, the context is that object's; and that
  a destructor has closed it when it comes to the release. With `HoldsOwn`
  the release then takes the channel from under no context.
* `ChannelsAreAccounted` (`NoChannelLeak`), in the same module. While no
  transaction of a session failed, each channel it holds is that of an existing
  object (`Accounted`), and `started` is set from before the first constructor to
  the end of the second `start` (`Flagged`). Exceptions without a failed
  transaction remain: no channel free, a lost race, a value that does not read
  back. The first two unwind, the third leaves the objects and the flag.
* `SessionDevices_proof`, for sessions that have a device each (`OwnDevices`):
  `ReceiveChannelIsConfirmed` under all faults, and, without faults,
  `RunningIsConfigured` and `RunningDoesIterate`. `Probed` and `SetUp` say what
  the device and the contexts are like at each step of `start()`;
  `OthersUndisturbed` shows that no other session reaches them.

* `DeviceSearch_proof`: all safety properties of the run `search`.
  `SearchImplementsRegistry` (`SearchSpec => Spec`) says that the search uses the
  registry only as `OpenDevices` allows, so that `IInv` of the registry holds
  under it; the proofs rest on that. `SInv` adds where the iterator stands
  (`IteratorOK`) and that the device under probe is the one opened last at that
  place (`ProbeOK`): a rejected device is therefore always the newest, and
  rejecting it cannot make the registry inexact. `FoundIsFirstUnused` and
  `NullMeansNoneUnused` speak of the end of a search and need what holds on the
  way (`NothingOverlooked`: every matching place behind the iterator drives a
  Phantom); for that in turn the registry must not become exact *during* a
  search, which `InexactOnlyWithPhantoms` excludes. Assumed: the three special
  results are no addresses.
* `ProbeNode_proof`: for nodes with a ROM of any content and of any length below
  2^26 quadlets (the address space above `CSR_REGISTER_BASE` has no room for
  more), `LibraryParsesRom`, `UnreadableIsMagic`, `ProbeParsesRom`,
  `LostReadsHide`, and the two action properties `CachedRomStays` and
  `SensableAnswers`. What a ROM says is defined without a walk, as the last entry
  with a key among all entries of a directory (`RootKey`, `UnitKey`). The
  invariant `WalkOK` says for each place of the walk that the fields hold the
  last entries *so far* (`HasRoot(rom, k, ...)` after `k` entries), and one lemma
  per step takes `k` to `k + 1`. Both programs satisfy the same `WalkOK`, which is
  why they agree. With lost reads only `FieldsInRom` survives: a field is 0 or
  in the ROM; the vendor needs `BusInfoAt` as well, as it is the one field that is
  taken by its position and not by its key.
* `MacOSX_proof`: `MacTypeCorrect`, `MacUnitsInUse`, `MacChannelsDistinct`, under
  any failing calls. `UnitsInUse` speaks of Phantoms between calls; the invariant
  says what each step works on (`PlacesOK`, `StepsOK`), that a unit that is no
  Phantom has no objects (`OthersUntouched`), and that who owns a unit probes it
  or holds its Phantom (`OwnersOK`). Channels are distinct per owner
  (`DistinctOK`) because a new one is taken from outside the bit set that holds
  all the others (`ClaimsOK`) and because units have one owner; objects that an
  exception left behind are included.
* `Omni_proof`: `OmniTypeCorrect` under all faults and resets; for resets that
  come one at a time and without faults `OmniChannelsOwn` and `OmniCleanExit`;
  before the first reset `OmniDataFromOwn`; and `OmniForeignStaysTaken`, all of them
  whatever other nodes take and give back. Neither `ChannelsAreOwn` nor `CleanExit` is
  inductive. The invariant `Books` (theorem `OmniBooks`) keeps account of each port: its
  channels are divided among its devices, the other nodes and the free ones
  (`Divided`); a device that is set up holds exactly its two channels, or has yet to
  tell of a reset and holds none, or found no two after a reset and does without
  (`SetUpOK`); and a channel that a setup read as free is free or another node's
  when it comes to the allocation, never another device's (`SetupOK`). `CleanupOK` then
  follows the shutdown from device to device. For the data, `OnAir` says that a
  streaming device streams on its own channel and that its handle listens there;
  by `Divided` no other device is on it.
  `OmniForeignStaysTaken` has an invariant of its own, as resets overlap there
  (`OmniChannelsDivided`, `FInv`). `Divided` (in `Share`) holds unconditionally. The
  shutdown frees whatever the table of a device says (`omni.c:651`), so what is needed
  is that the table names no channel of another node. `Table` says that, for each
  device in service whose handle has nothing left to tell, the channels in the
  table are those allocated for it, or one entry is -1 and nothing is freed. That
  is lost by exactly what the property excludes: a refused or failed allocation, and
  a device that is taken down with a reset untold.
  Of omni's *own* channels this says less: one may be lost when resets overlap.

Proving found a mistake in the model of omni: the first setup of a device whose
handles could not be created went on as if it had been made by the bus reset
handler, where the code ends (`omni.c:532`). `full_init` is now set from the
start.

Every safety property of the passing runs is stated by a theorem. Model-checked
only: liveness (`CallsReturn`, `SearchEnds`, `GettersReturn`,
`SetupAndCleanupEnd`, `MacCallsReturn`), which is beyond the prover. Each inductive
invariant was checked by TLC before it was proved.

## 5. Plan

Done: the modules of section 2 and the proofs of section 4. In order of
importance, next:

1. Sessions that share a device (the registry is per process, so two processes
   can find one Phantom), and bus resets during a session, with the node number
   of the resource manager read once.
2. `raw1394_channel_modify` in two steps (a read and a compare-and-swap), so that
   a claim or a release of one session can lose against another's.

## 6. What is not modelled

* Of the Mac OS X backend: what a failed creation of a plug-in or of a buffer
  leads to further on (null pointers are used), and transmission, which the
  source does not have.
* `test-probe` beyond its calls of `probe_node`: it prints.
* `minimal-test`: a straight-line replay of a register sequence and a client of
  a closed library. The trace patch adds logging to a third-party library. The
  library's tests are clients; the order of their calls is among those explored.
* Bus resets during a session of the library; nodes that come and go during a
  search; communication objects that a throwing constructor loses.
* In omni: more SensAble nodes than `MAX_DEVICES` (the code writes behind its
  tables, which has no defined outcome), and a device's node number that changes
  with a bus reset (omni keeps the old one). Other nodes give back only channels
  they hold.
* Forces, positions, encoders, texts and timing.

## 7. Observations on the Mac OS X backend

The source is unfinished and nothing in the repository documents its behaviour,
so these are no findings of a run; the model has them because the code does.

* `startPhantom` never returns normally: `startXmitIsoTransfer` throws after the
  device was started and enabled.
* The host listens on a channel that the operating system chose; the device is
  told the channel of the private bit set (`PhantomIsoChannel.cpp:56`). Data
  arrives only when the two happen to be equal.
* Receive programs are never stopped: callbacks reach objects that were deleted
  (`CommunicationMacOSX.cpp:82`), and each start takes a channel of the bus for
  good, until the assertion at `:203` ends the process.
* `doIterate` does not return while data keeps arriving (`:226`).
* A read that fails leaves the value expected in its variable, so the read-backs of
  `start` pass (`:55`).
* Two processes claim the same channels (`FirewireDeviceMacOSX.cpp:62`): the bit
  set is per process and the bus is not asked.
