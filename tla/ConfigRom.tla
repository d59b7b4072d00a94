------------------------------- MODULE ConfigRom -------------------------------
(***************************************************************************)
(* FirewireDevice: getVendorId, getVendorName and isSensableDevice over    *)
(* the configuration ROM, which getConfigRom reads once, one bus read per  *)
(* quadlet, and keeps.                                                     *)
(*                                                                         *)
(* A node's memory is an image: its ROM, a sequence of quadlets, and the   *)
(* vendor word at 0x1006000c.  Of a quadlet the parser takes the length    *)
(* (16 bits), the key (8 bits) or the payload (24 bits); an image gives    *)
(* these three views.  A bus reset can put another node behind the node    *)
(* number that the object keeps.                                           *)
(***************************************************************************)
EXTENDS Integers, Sequences, FiniteSetsExt

CONSTANTS Images,       \* the nodes that can be behind the node number
          SENSABLE,     \* vendor 0x000b99
          MAGIC,        \* payload of "1394"
          MaxRootDir,   \* 16, the most root directory entries looked at
          MaxResets,    \* bound on the bus resets explored
          ReadsFail     \* can a bus read fail?

KeyValues == [capabilities |-> 12, unitDir |-> 209, textualLeaf |-> 129,
              unitSpec |-> 18, unitVersion |-> 19, model |-> 23]
RootStart == 6          \* the quadlet after the root directory's length

Length16 == 0 .. 65535
Key8 == 0 .. 255
Views == [len : Length16, key : Key8, value : Nat]

ASSUME ImageAssumption ==
    /\ \A m \in Images :
          /\ m.vendor \in Nat
          /\ m.rom \in Seq(Views)
          /\ Len(m.rom) <= 2^26    \* the 48-bit addresses end 2^28 bytes after
                                   \* CSR_REGISTER_BASE
    /\ MaxRootDir \in Length16 /\ MaxResets \in Nat /\ ReadsFail \in BOOLEAN

Calls == {"getVendorId", "getVendorName", "isSensableDevice"}
Places == {"idle", "header", "magic", "caps", "vendor", "guid", "rootLength",
           "rootEntry", "unitLength", "unitEntry", "leafLength", "leaf",
           "memory"}
EmptyRom == [vendor_id |-> 0, node_capabilities |-> 0, unit_spec_id |-> 0,
             unit_sw_version |-> 0, model_id |-> 0, vendor |-> 0]

VARIABLES
    image,            \* the node behind the node number
    configRom,        \* vendor: the length of its buffer in quadlets
    configRomRead, configRomValid,
    place,            \* the read that comes next
    at,               \* quadlet index of that read, the code's addr
    left,             \* entries left to look at, the code's len - i
    unit_dir_addr, textual_leaf_addr,
    call, answer,     \* the call that runs and what it answered
    resets,
    mixed             \* history: a reset happened since the first read

romVars == <<configRom, configRomRead, configRomValid>>
walkVars == <<place, at, left, unit_dir_addr, textual_leaf_addr>>
nodeVars == <<image, resets>>
vars == <<romVars, walkVars, nodeVars, call, answer, mixed>>

-----------------------------------------------------------------------------
(* Reading.                                                                 *)
InRom(i) == i + 1 \in DOMAIN image.rom
Quadlet == image.rom[at + 1]

(* How a call ends.                                                         *)
NoAnswer == [how |-> "none", value |-> 0]
Exception == [how |-> "exception", value |-> 0]
Answer(v) == [how |-> "answered", value |-> v]

(* Any failed read throws out of the call; what was read so far stays.      *)
RepeatsRead == UNCHANGED <<romVars, walkVars, call, answer>> \* mutant of Throw
Throw == /\ place' = "idle"
         /\ answer' = Exception
         /\ UNCHANGED <<romVars, at, left, unit_dir_addr, textual_leaf_addr,
                        call>>
ReadFails == /\ ReadsFail \/ ~InRom(at)
             /\ Throw

(* isSensableDevice goes on to the memory when the vendor of the ROM fits.  *)
VendorId(rom, valid) == IF valid THEN rom.vendor_id ELSE 0
SkipsMemory(c, rom, valid) == FALSE      \* mutant of GoesOnToMemory
GoesOnToMemory(c, rom, valid) ==
    c = "isSensableDevice" /\ VendorId(rom, valid) = SENSABLE

(* What a call does with the ROM.                                           *)
Deliver(c, rom, valid) ==
    \/ /\ GoesOnToMemory(c, rom, valid)
       /\ place' = "memory"
       /\ answer' = NoAnswer
    \/ /\ ~GoesOnToMemory(c, rom, valid)
       /\ place' = "idle"
       /\ answer' = Answer(
             CASE c = "getVendorId"   -> VendorId(rom, valid)
               [] c = "getVendorName" -> IF valid THEN rom.vendor ELSE 0
               [] OTHER -> IF VendorId(rom, valid) = SENSABLE THEN 1 ELSE 0)

(* The end of readConfigRom, in getConfigRom.                               *)
Cached(valid) == /\ configRomRead' = TRUE
                 /\ configRomValid' = valid
                 /\ UNCHANGED <<call, at>>
                 /\ Deliver(call, configRom', valid)
FinishParsing == Cached(TRUE)

ReadAt(p, i) == place' = p /\ at' = i /\ UNCHANGED <<call, answer>>
KeepFlags == UNCHANGED <<configRomRead, configRomValid>>
KeepRom == UNCHANGED romVars
KeepDirs == UNCHANGED <<unit_dir_addr, textual_leaf_addr>>

(* After a directory: the unit directory if there is one, then the leaf.    *)
AfterUnit(leaf) ==
    \/ leaf > 0 /\ ReadAt("leafLength", leaf) /\ KeepFlags
    \/ leaf = 0 /\ FinishParsing
AfterRoot(unit, leaf) ==
    \/ unit > 0 /\ ReadAt("unitLength", unit) /\ KeepFlags
    \/ unit = 0 /\ AfterUnit(leaf)

-----------------------------------------------------------------------------
(* A getter is called: the first one starts to read the ROM.                *)
AlwaysReads == TRUE                \* mutant of MustRead
MustRead == ~configRomRead

MarksRead == /\ configRomRead' = TRUE    \* mutant of KeepsUnread
             /\ UNCHANGED configRomValid
KeepsUnread == KeepFlags

CallGetter(c) ==
    /\ place = "idle"
    /\ call' = c
    /\ \/ /\ MustRead
          /\ configRom' = EmptyRom
          /\ place' = "header"
          /\ at' = 0
          /\ answer' = NoAnswer
          /\ mixed' = FALSE
          /\ KeepsUnread
       \/ /\ ~MustRead
          /\ KeepRom
          /\ Deliver(c, configRom, configRomValid)
          /\ UNCHANGED <<at, mixed>>
    /\ left' = 0
    /\ unit_dir_addr' = 0
    /\ textual_leaf_addr' = 0
    /\ UNCHANGED nodeVars

(* A bus info block whose length is not 4 means there is a vendor id only.  *)
ReadHeader ==
    /\ place = "header"
    /\ \/ ReadFails
       \/ /\ InRom(at)
          /\ KeepDirs
          /\ left' = left
          /\ \/ /\ Quadlet.key # 4
                /\ configRom' = [configRom EXCEPT !.vendor_id = Quadlet.value]
                /\ FinishParsing
             \/ Quadlet.key = 4 /\ KeepRom /\ ReadAt("magic", at + 1)
    /\ UNCHANGED <<nodeVars, mixed>>

(* Any other magic number: return with the ROM read but not valid.          *)
ReadMagic ==
    /\ place = "magic"
    /\ \/ ReadFails
       \/ /\ InRom(at)
          /\ KeepDirs
          /\ left' = left
          /\ \/ /\ Quadlet.value # MAGIC
                /\ UNCHANGED configRom
                /\ Cached(FALSE)
             \/ Quadlet.value = MAGIC /\ KeepRom /\ ReadAt("caps", at + 1)
    /\ UNCHANGED <<nodeVars, mixed>>

(* Capabilities, vendor and low half of the GUID, one quadlet each.         *)
ReadBusInfo ==
    /\ place \in {"caps", "vendor", "guid"}
    /\ \/ ReadFails
       \/ /\ InRom(at)
          /\ KeepDirs
          /\ left' = left
          /\ KeepFlags
          /\ configRom' = IF place = "vendor"
                          THEN [configRom EXCEPT !.vendor_id = Quadlet.value]
                          ELSE configRom
          /\ ReadAt(CASE place = "caps"   -> "vendor"
                      [] place = "vendor" -> "guid"
                      [] place = "guid"   -> "rootLength", at + 1)
    /\ UNCHANGED <<nodeVars, mixed>>

Unclamped(n) == n                  \* mutant of RootLength
RootLength(n) == IF n > MaxRootDir THEN MaxRootDir ELSE n

ReadRootLength ==
    /\ place = "rootLength"
    /\ \/ ReadFails
       \/ /\ InRom(at)
          /\ KeepDirs
          /\ left' = RootLength(Quadlet.len)
          /\ configRom' = configRom
          /\ \/ left' > 0 /\ ReadAt("rootEntry", at + 1) /\ KeepFlags
             \/ left' = 0 /\ FinishParsing
    /\ UNCHANGED <<nodeVars, mixed>>

Target == at + Quadlet.value       \* addr + value * 4

ReadRootEntry ==
    LET q == Quadlet IN
    /\ place = "rootEntry"
    /\ \/ ReadFails
       \/ /\ InRom(at)
          /\ left' = left - 1
          /\ configRom' = IF q.key = KeyValues.capabilities
                          THEN [configRom EXCEPT !.node_capabilities = q.value]
                          ELSE configRom
          /\ unit_dir_addr' = IF q.key = KeyValues.unitDir
                              THEN Target ELSE unit_dir_addr
          /\ textual_leaf_addr' = IF q.key = KeyValues.textualLeaf
                                  THEN Target ELSE textual_leaf_addr
          /\ \/ left > 1 /\ ReadAt("rootEntry", at + 1) /\ KeepFlags
             \/ left = 1 /\ AfterRoot(unit_dir_addr', textual_leaf_addr')
    /\ UNCHANGED <<nodeVars, mixed>>

ReadUnitLength ==
    /\ place = "unitLength"
    /\ \/ ReadFails
       \/ /\ InRom(at)
          /\ KeepDirs
          /\ left' = Quadlet.len
          /\ configRom' = configRom
          /\ \/ left' > 0 /\ ReadAt("unitEntry", at + 1) /\ KeepFlags
             \/ left' = 0 /\ AfterUnit(textual_leaf_addr)
    /\ UNCHANGED <<nodeVars, mixed>>

UnitField(rom, q) ==
    CASE q.key = KeyValues.unitSpec    -> [rom EXCEPT !.unit_spec_id = q.value]
      [] q.key = KeyValues.unitVersion -> [rom EXCEPT !.unit_sw_version = q.value]
      [] q.key = KeyValues.model       -> [rom EXCEPT !.model_id = q.value]
      [] OTHER                         -> rom

ReadUnitEntry ==
    /\ place = "unitEntry"
    /\ \/ ReadFails
       \/ /\ InRom(at)
          /\ KeepDirs
          /\ left' = left - 1
          /\ configRom' = UnitField(configRom, Quadlet)
          /\ \/ left > 1 /\ ReadAt("unitEntry", at + 1) /\ KeepFlags
             \/ left = 1 /\ AfterUnit(textual_leaf_addr)
    /\ UNCHANGED <<nodeVars, mixed>>

(* (len - 2) * 4 in 32 bits unsigned, counted in quadlets: a leaf without   *)
(* the two language words asks for almost 4 GiB.                            *)
SignedQuadlets(n) == n - 2         \* mutant of LeafQuadlets
LeafQuadlets(n) == (n - 2) % 2^30

ReadLeafLength ==
    /\ place = "leafLength"
    /\ \/ ReadFails
       \/ /\ InRom(at)
          /\ KeepDirs
          /\ left' = LeafQuadlets(Quadlet.len)
          /\ configRom' = [configRom EXCEPT !.vendor = left']
          /\ KeepFlags
          /\ ReadAt("leaf", at + 3)
    /\ UNCHANGED <<nodeVars, mixed>>

(* One read of the whole text, quadlet by quadlet; it fails when the node   *)
(* has no memory behind it.  Of an empty text nothing is read.              *)
LeafInRom == at + left <= Len(image.rom)
ReadLeaf ==
    /\ place = "leaf"
    /\ \/ left > 0 /\ (ReadsFail \/ ~LeafInRom) /\ Throw
       \/ /\ left = 0 \/ LeafInRom
          /\ KeepDirs
          /\ UNCHANGED <<configRom, left>>
          /\ FinishParsing
    /\ UNCHANGED <<nodeVars, mixed>>

(* isSensableDevice compares the vendor in the memory as well.              *)
ReadMemory ==
    /\ place = "memory"
    /\ \/ ReadsFail /\ Throw
       \/ /\ place' = "idle"
          /\ answer' = Answer(IF image.vendor = SENSABLE THEN 1 ELSE 0)
          /\ KeepRom /\ KeepDirs
          /\ UNCHANGED <<at, left, call>>
    /\ UNCHANGED <<nodeVars, mixed>>

(* The bus renumbers its nodes.                                             *)
BusReset ==
    /\ resets < MaxResets
    /\ \E m \in Images \ {image} : image' = m
    /\ resets' = resets + 1
    /\ mixed' = TRUE
    /\ UNCHANGED <<romVars, walkVars, call, answer>>

Init ==
    /\ image \in Images
    /\ configRom = EmptyRom
    /\ configRomRead = FALSE /\ configRomValid = FALSE
    /\ place = "idle" /\ at = 0 /\ left = 0
    /\ unit_dir_addr = 0 /\ textual_leaf_addr = 0
    /\ call = "none" /\ answer = NoAnswer
    /\ resets = 0 /\ mixed = FALSE

Walk == \/ ReadHeader \/ ReadMagic \/ ReadBusInfo \/ ReadRootLength
        \/ ReadRootEntry \/ ReadUnitLength \/ ReadUnitEntry
        \/ ReadLeafLength \/ ReadLeaf \/ ReadMemory
Next == (\E c \in Calls : CallGetter(c)) \/ Walk \/ BusReset

Spec == Init /\ [][Next]_vars
(* A call that reads keeps reading.                                         *)
FairSpec == Spec /\ WF_vars(Walk)

-----------------------------------------------------------------------------
TypeOK ==
    /\ image \in Images
    /\ configRom \in [DOMAIN EmptyRom -> Nat]
    /\ configRomRead \in BOOLEAN /\ configRomValid \in BOOLEAN
    /\ place \in Places
    /\ {at, left, unit_dir_addr, textual_leaf_addr} \subseteq Nat
    /\ call \in Calls \cup {"none"}
    /\ answer \in [how : {"none", "exception", "answered"}, value : Nat]
    /\ resets \in 0 .. MaxResets /\ mixed \in BOOLEAN

(* What a ROM says, written without the walk: the last entry of a key counts. *)
Positions(rom, first, n, key) == {i \in first .. first + n - 1 :
                                      rom[i + 1].key = key}
Last(rom, P) == IF P = {} THEN 0 ELSE rom[Max(P) + 1].value
Pointed(rom, P) == IF P = {} THEN 0 ELSE Max(P) + rom[Max(P) + 1].value

Parsed(rom) ==
    LET rootLen == IF rom[6].len < MaxRootDir THEN rom[6].len ELSE MaxRootDir
        InRoot(key) == Positions(rom, RootStart, rootLen, key)
        unit == Pointed(rom, InRoot(KeyValues.unitDir))
        leaf == Pointed(rom, InRoot(KeyValues.textualLeaf))
        InUnit(key) == IF unit = 0 THEN {}
                       ELSE Positions(rom, unit + 1, rom[unit + 1].len, key)
    IN IF rom[1].key # 4 THEN [EmptyRom EXCEPT !.vendor_id = rom[1].value]
       ELSE [vendor_id |-> rom[4].value,
             node_capabilities |-> Last(rom, InRoot(KeyValues.capabilities)),
             unit_spec_id |-> Last(rom, InUnit(KeyValues.unitSpec)),
             unit_sw_version |-> Last(rom, InUnit(KeyValues.unitVersion)),
             model_id |-> Last(rom, InUnit(KeyValues.model)),
             vendor |-> IF leaf = 0 THEN 0 ELSE rom[leaf + 1].len - 2]

(* A ROM that counts as valid is the ROM of the node, also after reads that *)
(* threw halfway through earlier calls; unless the bus was renumbered since *)
(* this reading began.                                                      *)
ValidRomIsTheNodes ==
    configRomValid /\ ~mixed => configRom = Parsed(image.rom)

(* A device is unreadable for good only because of its magic number, never  *)
(* because a read failed once: getConfigRom tries again after an exception. *)
UnreadableOnlyByMagic ==
    configRomRead /\ ~configRomValid /\ ~mixed =>
        image.rom[1].key = 4 /\ image.rom[2].value # MAGIC

(* The ROM a caller got from getConfigRom is never read again or changed    *)
(* under its feet.                                                          *)
CachedRomIsStable == [][configRomRead => UNCHANGED romVars]_vars

(* Although the ROM may be that of the node which had the number before a   *)
(* bus reset, isSensableDevice says yes only when the node that answers now *)
(* is a SensAble device.                                                    *)
SensableIsPresent ==
    [][call' = "isSensableDevice" /\ answer' = Answer(1) /\ answer' # answer
          => image.vendor = SENSABLE]_vars

(* Every call comes back, by an answer or an exception.                     *)
GettersReturn == place # "idle" ~> place = "idle"
=============================================================================
