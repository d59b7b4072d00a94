--------------------------- MODULE ProbeNode_proof ---------------------------
(***************************************************************************)
(* The two parsers of a configuration ROM, for every ROM a node can have.  *)
(* The invariant of the walk says what the fields hold after so many       *)
(* entries of a directory: the last entry of each key among those.         *)
(***************************************************************************)
EXTENDS ProbeNode, TLAPS

Walking == place \notin {"idle", "memory"}

(* Which of the flags and answers go with which place, in either program.   *)
FlagsOK ==
    /\ place \in {"rootEntry", "unitEntry"} => left > 0
    /\ Walking => ~configRomRead /\ answer = NoAnswer
    /\ place = "memory" => configRomRead
    /\ configRomValid => configRomRead
    /\ program = "probe" => /\ ~configRomRead
                            /\ call = "none"
                            /\ place # "memory"
    /\ program = "library" => ~lost

TInv == /\ TypeOK
        /\ program \in {"library", "probe"} /\ lost \in BOOLEAN
        /\ FlagsOK

(* What a ROM points to.                                                    *)
RootLen(rom) == RootLength(rom[6].len)
RootKey(rom, key, k) == Positions(rom, RootStart, k, key)
UnitAt(rom) == Pointed(rom, RootKey(rom, KeyValues.unitDir, RootLen(rom)))
LeafAt(rom) == Pointed(rom, RootKey(rom, KeyValues.textualLeaf, RootLen(rom)))
UnitLen(rom) == IF UnitAt(rom) = 0 THEN 0 ELSE rom[UnitAt(rom) + 1].len
UnitKey(rom, key, k) == Positions(rom, UnitAt(rom) + 1, k, key)
Formatted(rom) == rom[1].key = 4 /\ rom[2].value = MAGIC

(* The fields of c and the two pointers after k entries of the root         *)
(* directory, the fields after k entries of the unit directory.             *)
HasRoot(rom, k, c, unit, leaf) ==
    /\ c.vendor_id = rom[4].value
    /\ c.node_capabilities = Last(rom, RootKey(rom, KeyValues.capabilities, k))
    /\ unit = Pointed(rom, RootKey(rom, KeyValues.unitDir, k))
    /\ leaf = Pointed(rom, RootKey(rom, KeyValues.textualLeaf, k))
HasUnit(rom, k, c) ==
    /\ c.unit_spec_id = Last(rom, UnitKey(rom, KeyValues.unitSpec, k))
    /\ c.unit_sw_version = Last(rom, UnitKey(rom, KeyValues.unitVersion, k))
    /\ c.model_id = Last(rom, UnitKey(rom, KeyValues.model, k))
NoName(c) == c.vendor = 0
NoUnit(c) == c.unit_spec_id = 0 /\ c.unit_sw_version = 0 /\ c.model_id = 0
Found(rom, c, unit, leaf) == /\ Formatted(rom) /\ 6 \in DOMAIN rom
                             /\ HasRoot(rom, RootLen(rom), c, unit, leaf)
RootFound(rom) == Found(rom, configRom, unit_dir_addr, textual_leaf_addr)
Fresh == configRom = EmptyRom /\ unit_dir_addr = 0 /\ textual_leaf_addr = 0

(* Where each place of the walk stands and what it has found.               *)
BusInfoWalk(rom) ==
    /\ place = "header" => at = 0 /\ Fresh
    /\ place = "magic" => at = 1 /\ Fresh /\ rom[1].key = 4
    /\ place = "caps" => at = 2 /\ Fresh
    /\ place = "vendor" => at = 3 /\ Fresh
    /\ place = "guid" => at = 4
    /\ place = "rootLength" => at = 5
    /\ place \in {"guid", "rootLength"} =>
          /\ HasRoot(rom, 0, configRom, unit_dir_addr, textual_leaf_addr)
          /\ NoUnit(configRom) /\ NoName(configRom)
    /\ Walking /\ place \notin {"header", "magic"} => Formatted(rom)
RootWalk(rom) ==
    place = "rootEntry" =>
        /\ RootLen(rom) \in Nat /\ left \in 1 .. RootLen(rom)
        /\ at = RootStart + (RootLen(rom) - left)
        /\ HasRoot(rom, RootLen(rom) - left, configRom, unit_dir_addr,
                   textual_leaf_addr)
        /\ NoUnit(configRom) /\ NoName(configRom)
UnitWalk(rom) ==
    /\ place = "unitLength" => at = UnitAt(rom) /\ NoUnit(configRom)
    /\ place = "unitEntry" =>
          /\ UnitLen(rom) \in Nat /\ left \in 1 .. UnitLen(rom)
          /\ at = UnitAt(rom) + 1 + (UnitLen(rom) - left)
          /\ HasUnit(rom, UnitLen(rom) - left, configRom)
    /\ place \in {"unitLength", "unitEntry"} =>
          UnitAt(rom) > 0 /\ RootFound(rom) /\ NoName(configRom)
LeafWalk(rom) ==
    /\ place = "leafLength" => at = LeafAt(rom) /\ NoName(configRom)
    /\ place = "leaf" => /\ at = LeafAt(rom) + 3
                         /\ LeafAt(rom) + 1 \in DOMAIN rom
                         /\ left = LeafQuadlets(rom[LeafAt(rom) + 1].len)
                         /\ configRom.vendor = left
    /\ place \in {"leafLength", "leaf"} =>
          /\ LeafAt(rom) > 0 /\ RootFound(rom)
          /\ HasUnit(rom, UnitLen(rom), configRom)
WalkOK == /\ BusInfoWalk(image.rom) /\ RootWalk(image.rom)
          /\ UnitWalk(image.rom) /\ LeafWalk(image.rom)

WInv == /\ ~mixed /\ ~lost => WalkOK
        /\ ValidRomIsTheNodes
        /\ UnreadableOnlyByMagic
        /\ ProbeAgreesWithLibrary

(* With lost reads: the walk up to the vendor cannot go astray, and a field *)
(* is 0 or an entry of the ROM.                                             *)
BusInfoAt ==
    /\ place = "header" => at = 0
    /\ place = "magic" => at = 1
    /\ place = "caps" => at = 2
    /\ place = "vendor" => at = 3
    /\ Walking /\ place # "header" => image.rom[1].key = 4
FieldsInRom ==
    /\ configRom.vendor_id \in {0, VendorOf(image.rom)}
    /\ configRom.node_capabilities # 0 =>
          Contains(KeyValues.capabilities, configRom.node_capabilities)
    /\ configRom.unit_spec_id # 0 =>
          Contains(KeyValues.unitSpec, configRom.unit_spec_id)
    /\ configRom.unit_sw_version # 0 =>
          Contains(KeyValues.unitVersion, configRom.unit_sw_version)
    /\ configRom.model_id # 0 =>
          Contains(KeyValues.model, configRom.model_id)
LInv == program = "probe" /\ ~mixed => BusInfoAt /\ FieldsInRom

-----------------------------------------------------------------------------
(* Lemmas about the operators.                                              *)
RomFields == [DOMAIN EmptyRom -> Nat]
AnswerSet == [how : {"none", "exception", "answered"}, value : Nat]

LEMMA ViewTypes ==
    /\ Length16 \subseteq Nat /\ Key8 \subseteq Nat
    /\ \A q \in Views : /\ q.len \in Length16 /\ q.len \in Nat
                        /\ q.key \in Key8 /\ q.key \in Nat
                        /\ q.value \in Nat
<1>1. Length16 \subseteq Nat /\ Key8 \subseteq Nat
    BY DEF Length16, Key8
<1>2. QED
    BY <1>1 DEF Views

LEMMA ImageTypes ==
    /\ \A m \in Images : m.vendor \in Nat /\ m.rom \in Seq(Views)
    /\ MaxRootDir \in Nat /\ MaxResets \in Nat /\ ReadsFail \in BOOLEAN
<1>1. /\ \A m \in Images : m.vendor \in Nat /\ m.rom \in Seq(Views)
      /\ MaxRootDir \in Length16 /\ MaxResets \in Nat /\ ReadsFail \in BOOLEAN
    BY ImageAssumption, Zenon
<1>2. QED
    BY <1>1, ViewTypes

LEMMA QuadletType ==
    ASSUME image \in Images, InRom(at)
    PROVE  /\ Quadlet \in Views
           /\ Quadlet.len \in Length16 /\ Quadlet.len \in Nat
           /\ Quadlet.key \in Key8 /\ Quadlet.key \in Nat
           /\ Quadlet.value \in Nat
           /\ at + 1 \in DOMAIN image.rom
<1>1. at + 1 \in DOMAIN image.rom /\ image.rom \in Seq(Views)
    BY ImageTypes DEF InRom
<1>2. Quadlet \in Views
    BY <1>1 DEF Quadlet
<1>3. QED
    BY <1>1, <1>2, ViewTypes

LEMMA Pow30 == 2^30 = 1073741824
OBVIOUS

LEMMA LengthTypes ==
    ASSUME NEW n \in Nat
    PROVE  RootLength(n) \in Nat /\ LeafQuadlets(n) \in Nat
<1>1. RootLength(n) \in Nat
    BY ImageTypes DEF RootLength
<1>2. (n - 2) % 1073741824 \in Nat
    OBVIOUS
<1>3. QED
    BY <1>1, <1>2, Pow30 DEF LeafQuadlets

LEMMA AnswerTypes ==
    /\ NoAnswer \in AnswerSet /\ Exception \in AnswerSet
    /\ \A v \in Nat : Answer(v) \in AnswerSet
BY DEF NoAnswer, Exception, Answer, AnswerSet

LEMMA EmptyRomType == EmptyRom \in RomFields
BY DEF EmptyRom, RomFields

(* Every field that the walk sets is set to a number.                       *)
LEMMA FieldTypes ==
    ASSUME NEW rom \in RomFields, NEW v \in Nat, NEW q \in Views
    PROVE  /\ [rom EXCEPT !.vendor_id = v] \in RomFields
           /\ [rom EXCEPT !.node_capabilities = v] \in RomFields
           /\ [rom EXCEPT !.vendor = v] \in RomFields
           /\ UnitField(rom, q) \in RomFields
           /\ rom.vendor_id \in Nat /\ rom.vendor \in Nat
<1>1. q.value \in Nat
    BY ViewTypes
<1>2. UnitField(rom, q) \in RomFields
    BY <1>1 DEF UnitField, RomFields, EmptyRom
<1>3. QED
    BY <1>2 DEF RomFields, EmptyRom

LEMMA DeliverType ==
    ASSUME NEW c, NEW rom \in RomFields, NEW valid \in BOOLEAN,
           Deliver(c, rom, valid)
    PROVE  /\ place' \in {"idle", "memory"}
           /\ answer' \in AnswerSet
           /\ place' = "memory" => answer' = NoAnswer
<1>1. rom.vendor \in Nat /\ VendorId(rom, valid) \in Nat
    BY FieldTypes DEF VendorId, RomFields, EmptyRom
<1>2. CASE GoesOnToMemory(c, rom, valid)
    BY <1>2, AnswerTypes DEF Deliver
<1>3. CASE ~GoesOnToMemory(c, rom, valid)
  <2>1. PICK v \in Nat : answer' = Answer(v) /\ place' = "idle"
      BY <1>1, <1>3 DEF Deliver
  <2>2. QED
      BY <2>1, AnswerTypes
<1>4. QED
    BY <1>2, <1>3

-----------------------------------------------------------------------------
(* Types and flags: the library.                                            *)
LEMMA InitTInv == ProbeInit => TInv
<1> SUFFICES ASSUME ProbeInit PROVE TInv
    OBVIOUS
<1> USE DEF ProbeInit, Init
<1>1. TypeOK
  <2>1. configRom \in RomFields /\ answer \in AnswerSet
      BY EmptyRomType, AnswerTypes
  <2>2. resets \in 0 .. MaxResets
      BY ImageTypes
  <2>3. place \in Places /\ call \in Calls \cup {"none"}
      BY DEF Places
  <2>4. {at, left, unit_dir_addr, textual_leaf_addr} \subseteq Nat
      OBVIOUS
  <2>5. QED
      BY <2>1, <2>2, <2>3, <2>4, Zenon DEF TypeOK, RomFields, AnswerSet
<1>2. FlagsOK
    BY DEF FlagsOK, Walking
<1>3. QED
    BY <1>1, <1>2 DEF TInv

LEMMA ThrowTInv ==
    ASSUME TInv, program = "library", Throw, UNCHANGED nodeVars,
           UNCHANGED mixed, UNCHANGED probeVars
    PROVE  TInv'
BY AnswerTypes
   DEF TInv, TypeOK, FlagsOK, Walking, Throw, romVars, nodeVars, probeVars,
       AnswerSet, Places

(* A walk of the library that goes on, one that ends.                       *)
LEMMA GoesOnTInv ==
    ASSUME TInv, program = "library", UNCHANGED nodeVars, UNCHANGED mixed,
           UNCHANGED probeVars, Walking,
           NEW p \in Places \ {"idle", "memory"}, NEW i \in Nat,
           ReadAt(p, i), KeepFlags,
           configRom' \in RomFields, left' \in Nat,
           unit_dir_addr' \in Nat, textual_leaf_addr' \in Nat,
           p \in {"rootEntry", "unitEntry"} => left' > 0
    PROVE  TInv'
BY DEF TInv, TypeOK, FlagsOK, Walking, ReadAt, KeepFlags, nodeVars, probeVars,
       RomFields

LEMMA EndsTInv ==
    ASSUME TInv, program = "library", UNCHANGED nodeVars, UNCHANGED mixed,
           UNCHANGED probeVars, Walking,
           NEW valid \in BOOLEAN, Cached(valid),
           configRom' \in RomFields, left' \in Nat,
           unit_dir_addr' \in Nat, textual_leaf_addr' \in Nat
    PROVE  TInv'
<1>1. /\ place' \in {"idle", "memory"} /\ answer' \in AnswerSet
      /\ place' = "memory" => answer' = NoAnswer
    BY DeliverType DEF Cached
<1>2. QED
    BY <1>1 DEF TInv, TypeOK, FlagsOK, Walking, Cached, nodeVars, probeVars,
                RomFields, AnswerSet, Places

LEMMA StartsWalk ==
    ASSUME NEW c \in Calls, CallGetter(c), place' = "header"
    PROVE  /\ MustRead /\ configRom' = EmptyRom /\ answer' = NoAnswer
           /\ mixed' = FALSE /\ at' = 0
           /\ UNCHANGED <<configRomRead, configRomValid>>
BY DEF CallGetter, Deliver, KeepsUnread, KeepFlags

LEMMA CallGetterTInv ==
    ASSUME TInv, program = "library", NEW c \in Calls, CallGetter(c),
           UNCHANGED probeVars
    PROVE  TInv'
<1> USE DEF CallGetter, TInv
<1>1. CASE MustRead /\ place' = "header"
  <2>1. configRom' \in RomFields /\ answer' \in AnswerSet
      BY <1>1, EmptyRomType, AnswerTypes, StartsWalk
  <2>0. place' \in Places /\ call' \in Calls \cup {"none"}
      BY <1>1, StartsWalk DEF Places
  <2>5. {at, left, unit_dir_addr, textual_leaf_addr}' \subseteq Nat
      BY <1>1, StartsWalk
  <2>6. UNCHANGED <<image, resets, configRomRead, configRomValid>>
      BY <1>1, StartsWalk DEF nodeVars
  <2>7. mixed' \in BOOLEAN
      BY <1>1, StartsWalk
  <2>2. TypeOK'
      BY <2>0, <2>1, <2>5, <2>6, <2>7 DEF TypeOK, RomFields, AnswerSet
  <2>3. FlagsOK'
      BY <1>1, StartsWalk DEF FlagsOK, Walking, MustRead, probeVars
  <2>4. QED
      BY <2>2, <2>3 DEF probeVars
<1>2. CASE ~MustRead /\ KeepRom /\ Deliver(c, configRom, configRomValid)
           /\ UNCHANGED <<at, mixed>>
  <2>1. /\ place' \in {"idle", "memory"} /\ answer' \in AnswerSet
      BY <1>2, DeliverType DEF TypeOK, RomFields
  <2>2. QED
      BY <1>2, <2>1
         DEF TypeOK, FlagsOK, Walking, MustRead, KeepRom, romVars, nodeVars,
             probeVars, AnswerSet, Places
<1>3. QED
    BY <1>1, <1>2

LEMMA ReadHeaderTInv ==
    ASSUME TInv, program = "library", ReadHeader, UNCHANGED probeVars
    PROVE  TInv'
<1>0. /\ UNCHANGED nodeVars /\ UNCHANGED mixed /\ Walking
      /\ image \in Images /\ configRom \in RomFields /\ at + 1 \in Nat
    BY DEF ReadHeader, TInv, TypeOK, Walking, RomFields
<1>1. CASE Throw
    BY <1>0, <1>1, ThrowTInv
<1>2. CASE ~Throw
  <2>1. InRom(at)
      BY <1>2 DEF ReadHeader, ReadFails
  <2>0. configRom' \in RomFields
    <3>1. configRom' \in {configRom,
                          [configRom EXCEPT !.vendor_id = Quadlet.value]}
        BY <1>2 DEF ReadHeader, ReadFails, KeepRom, romVars
    <3>2. QED
        BY <1>0, <2>1, <3>1, QuadletType, FieldTypes
  <2>2. /\ configRom' \in RomFields /\ left' \in Nat
        /\ unit_dir_addr' \in Nat /\ textual_leaf_addr' \in Nat
      BY <1>2, <2>0 DEF ReadHeader, ReadFails, KeepDirs, TInv, TypeOK
  <2>3. CASE FinishParsing
      BY <1>0, <2>2, <2>3, EndsTInv DEF FinishParsing
  <2>4. CASE ReadAt("magic", at + 1) /\ KeepRom
      BY <1>0, <2>2, <2>4, GoesOnTInv DEF Places, KeepRom, KeepFlags, romVars
  <2>5. QED
      BY <1>2, <2>3, <2>4 DEF ReadHeader, ReadFails
<1>3. QED
    BY <1>1, <1>2

LEMMA ReadMagicTInv ==
    ASSUME TInv, program = "library", ReadMagic, UNCHANGED probeVars
    PROVE  TInv'
<1>0. /\ UNCHANGED nodeVars /\ UNCHANGED mixed /\ Walking
      /\ image \in Images /\ configRom \in RomFields /\ at + 1 \in Nat
    BY DEF ReadMagic, TInv, TypeOK, Walking, RomFields
<1>1. CASE Throw
    BY <1>0, <1>1, ThrowTInv
<1>2. CASE ~Throw
  <2>2. /\ configRom' \in RomFields /\ left' \in Nat
        /\ unit_dir_addr' \in Nat /\ textual_leaf_addr' \in Nat
      BY <1>0, <1>2
         DEF ReadMagic, ReadFails, KeepDirs, KeepRom, romVars, TInv, TypeOK
  <2>3. CASE Cached(FALSE)
      BY <1>0, <2>2, <2>3, EndsTInv
  <2>4. CASE ReadAt("caps", at + 1) /\ KeepRom
      BY <1>0, <2>2, <2>4, GoesOnTInv DEF Places, KeepRom, KeepFlags, romVars
  <2>5. QED
      BY <1>2, <2>3, <2>4 DEF ReadMagic, ReadFails
<1>3. QED
    BY <1>1, <1>2

LEMMA ReadBusInfoTInv ==
    ASSUME TInv, program = "library", ReadBusInfo, UNCHANGED probeVars
    PROVE  TInv'
<1>0. /\ UNCHANGED nodeVars /\ UNCHANGED mixed /\ Walking
      /\ image \in Images /\ configRom \in RomFields /\ at + 1 \in Nat
    BY DEF ReadBusInfo, TInv, TypeOK, Walking, RomFields
<1>1. CASE Throw
    BY <1>0, <1>1, ThrowTInv
<1>2. CASE ~Throw
  <2>1. InRom(at)
      BY <1>2 DEF ReadBusInfo, ReadFails
  <2>0. configRom' \in RomFields
    <3>1. configRom' \in {configRom,
                          [configRom EXCEPT !.vendor_id = Quadlet.value]}
        BY <1>2 DEF ReadBusInfo, ReadFails
    <3>2. QED
        BY <1>0, <2>1, <3>1, QuadletType, FieldTypes
  <2>2. /\ configRom' \in RomFields /\ left' \in Nat
        /\ unit_dir_addr' \in Nat /\ textual_leaf_addr' \in Nat
      BY <1>2, <2>0 DEF ReadBusInfo, ReadFails, KeepDirs, TInv, TypeOK
  <2>3. \E p \in {"vendor", "guid", "rootLength"} :
            ReadAt(p, at + 1) /\ KeepFlags
      BY <1>2 DEF ReadBusInfo, ReadFails
  <2>4. QED
      BY <1>0, <2>2, <2>3, GoesOnTInv DEF Places
<1>3. QED
    BY <1>1, <1>2

LEMMA ReadRootLengthTInv ==
    ASSUME TInv, program = "library", ReadRootLength, UNCHANGED probeVars
    PROVE  TInv'
<1>0. /\ UNCHANGED nodeVars /\ UNCHANGED mixed /\ Walking
      /\ image \in Images /\ configRom \in RomFields /\ at + 1 \in Nat
    BY DEF ReadRootLength, TInv, TypeOK, Walking, RomFields
<1>1. CASE Throw
    BY <1>0, <1>1, ThrowTInv
<1>2. CASE ~Throw
  <2>1. InRom(at)
      BY <1>2 DEF ReadRootLength, ReadFails
  <2>2. /\ configRom' \in RomFields /\ left' \in Nat
        /\ unit_dir_addr' \in Nat /\ textual_leaf_addr' \in Nat
      BY <1>0, <1>2, <2>1, QuadletType, LengthTypes
         DEF ReadRootLength, ReadFails, KeepDirs, TInv, TypeOK
  <2>3. CASE FinishParsing
      BY <1>0, <2>2, <2>3, EndsTInv DEF FinishParsing
  <2>4. CASE left' > 0 /\ ReadAt("rootEntry", at + 1) /\ KeepFlags
      BY <1>0, <2>2, <2>4, GoesOnTInv DEF Places
  <2>5. QED
      BY <1>2, <2>3, <2>4 DEF ReadRootLength, ReadFails
<1>3. QED
    BY <1>1, <1>2

(* What comes after a directory.                                            *)
LEMMA AfterUnitCases ==
    ASSUME NEW leaf \in Nat, AfterUnit(leaf)
    PROVE  \/ FinishParsing
           \/ \E p \in {"leafLength"}, i \in Nat : ReadAt(p, i) /\ KeepFlags
BY DEF AfterUnit

LEMMA ReadRootEntryTInv ==
    ASSUME TInv, program = "library", ReadRootEntry, UNCHANGED probeVars
    PROVE  TInv'
<1>0. /\ UNCHANGED nodeVars /\ UNCHANGED mixed /\ Walking
      /\ image \in Images /\ configRom \in RomFields
      /\ at \in Nat /\ at + 1 \in Nat /\ left \in Nat /\ left > 0
    BY DEF ReadRootEntry, TInv, TypeOK, Walking, RomFields, FlagsOK
<1>1. CASE Throw
    BY <1>0, <1>1, ThrowTInv
<1>2. CASE ~Throw
  <2>1. InRom(at)
      BY <1>2 DEF ReadRootEntry, ReadFails
  <2>2. Target \in Nat
      BY <1>0, <2>1, QuadletType DEF Target
  <2>3. configRom' \in RomFields
      BY <1>0, <1>2, <2>1, QuadletType, FieldTypes DEF ReadRootEntry, ReadFails
  <2>4. /\ left' = left - 1 /\ left' \in Nat
        /\ unit_dir_addr' \in Nat /\ textual_leaf_addr' \in Nat
      BY <1>0, <1>2, <2>2 DEF ReadRootEntry, ReadFails, TInv, TypeOK
  <2>5. CASE left > 1 /\ ReadAt("rootEntry", at + 1) /\ KeepFlags
      BY <1>0, <2>3, <2>4, <2>5, GoesOnTInv DEF Places
  <2>6. CASE AfterRoot(unit_dir_addr', textual_leaf_addr')
    <3>1. CASE FinishParsing
        BY <1>0, <2>3, <2>4, <3>1, EndsTInv DEF FinishParsing
    <3>2. CASE \E p \in {"unitLength", "leafLength"}, i \in Nat :
                   ReadAt(p, i) /\ KeepFlags
        BY <1>0, <2>3, <2>4, <3>2, GoesOnTInv DEF Places
    <3>3. unit_dir_addr' > 0 \/ unit_dir_addr' = 0
        BY <2>4
    <3>4. QED
        BY <2>4, <2>6, <3>1, <3>2 DEF AfterRoot, AfterUnit
  <2>7. QED
      BY <1>2, <2>5, <2>6 DEF ReadRootEntry, ReadFails
<1>3. QED
    BY <1>1, <1>2

LEMMA ReadUnitLengthTInv ==
    ASSUME TInv, program = "library", ReadUnitLength, UNCHANGED probeVars
    PROVE  TInv'
<1>0. /\ UNCHANGED nodeVars /\ UNCHANGED mixed /\ Walking
      /\ image \in Images /\ configRom \in RomFields /\ at + 1 \in Nat
      /\ textual_leaf_addr \in Nat
    BY DEF ReadUnitLength, TInv, TypeOK, Walking, RomFields
<1>1. CASE Throw
    BY <1>0, <1>1, ThrowTInv
<1>2. CASE ~Throw
  <2>1. InRom(at)
      BY <1>2 DEF ReadUnitLength, ReadFails
  <2>2. /\ configRom' \in RomFields /\ left' \in Nat
        /\ unit_dir_addr' \in Nat /\ textual_leaf_addr' \in Nat
      BY <1>0, <1>2, <2>1, QuadletType
         DEF ReadUnitLength, ReadFails, KeepDirs, TInv, TypeOK
  <2>3. CASE FinishParsing
      BY <1>0, <2>2, <2>3, EndsTInv DEF FinishParsing
  <2>4. CASE left' > 0 /\ ReadAt("unitEntry", at + 1) /\ KeepFlags
      BY <1>0, <2>2, <2>4, GoesOnTInv DEF Places
  <2>5. CASE \E p \in {"leafLength"}, i \in Nat : ReadAt(p, i) /\ KeepFlags
      BY <1>0, <2>2, <2>5, GoesOnTInv DEF Places
  <2>6. QED
      BY <1>0, <1>2, <2>3, <2>4, <2>5, AfterUnitCases
         DEF ReadUnitLength, ReadFails
<1>3. QED
    BY <1>1, <1>2

LEMMA ReadUnitEntryTInv ==
    ASSUME TInv, program = "library", ReadUnitEntry, UNCHANGED probeVars
    PROVE  TInv'
<1>0. /\ UNCHANGED nodeVars /\ UNCHANGED mixed /\ Walking
      /\ image \in Images /\ configRom \in RomFields /\ at + 1 \in Nat
      /\ left \in Nat /\ left > 0 /\ textual_leaf_addr \in Nat
    BY DEF ReadUnitEntry, TInv, TypeOK, Walking, RomFields, FlagsOK
<1>1. CASE Throw
    BY <1>0, <1>1, ThrowTInv
<1>2. CASE ~Throw
  <2>1. InRom(at)
      BY <1>2 DEF ReadUnitEntry, ReadFails
  <2>2. configRom' \in RomFields
      BY <1>0, <1>2, <2>1, QuadletType, FieldTypes DEF ReadUnitEntry, ReadFails
  <2>3. /\ left' = left - 1 /\ left' \in Nat
        /\ unit_dir_addr' \in Nat /\ textual_leaf_addr' \in Nat
      BY <1>0, <1>2 DEF ReadUnitEntry, ReadFails, KeepDirs, TInv, TypeOK
  <2>4. CASE FinishParsing
      BY <1>0, <2>2, <2>3, <2>4, EndsTInv DEF FinishParsing
  <2>5. CASE left > 1 /\ ReadAt("unitEntry", at + 1) /\ KeepFlags
      BY <1>0, <2>2, <2>3, <2>5, GoesOnTInv DEF Places
  <2>6. CASE \E p \in {"leafLength"}, i \in Nat : ReadAt(p, i) /\ KeepFlags
      BY <1>0, <2>2, <2>3, <2>6, GoesOnTInv DEF Places
  <2>7. QED
      BY <1>0, <1>2, <2>4, <2>5, <2>6, AfterUnitCases
         DEF ReadUnitEntry, ReadFails
<1>3. QED
    BY <1>1, <1>2

LEMMA ReadLeafTInv ==
    ASSUME TInv, program = "library", ReadLeafLength \/ ReadLeaf,
           UNCHANGED probeVars
    PROVE  TInv'
<1>0. /\ UNCHANGED nodeVars /\ UNCHANGED mixed /\ Walking
      /\ image \in Images /\ configRom \in RomFields /\ at + 3 \in Nat
    BY DEF ReadLeafLength, ReadLeaf, TInv, TypeOK, Walking, RomFields
<1>1. CASE Throw
    BY <1>0, <1>1, ThrowTInv
<1>2. CASE ~Throw /\ ReadLeafLength
  <2>1. InRom(at)
      BY <1>2 DEF ReadLeafLength, ReadFails
  <2>2. /\ left' \in Nat
        /\ unit_dir_addr' \in Nat /\ textual_leaf_addr' \in Nat
      BY <1>0, <1>2, <2>1, QuadletType, LengthTypes
         DEF ReadLeafLength, ReadFails, KeepDirs, TInv, TypeOK
  <2>3. configRom' \in RomFields
      BY <1>0, <1>2, <2>2 DEF ReadLeafLength, ReadFails, RomFields, EmptyRom
  <2>4. ReadAt("leaf", at + 3) /\ KeepFlags
      BY <1>2 DEF ReadLeafLength, ReadFails
  <2>5. QED
      BY <1>0, <2>2, <2>3, <2>4, GoesOnTInv DEF Places
<1>3. CASE ~Throw /\ ReadLeaf
  <2>1. /\ configRom' \in RomFields /\ left' \in Nat
        /\ unit_dir_addr' \in Nat /\ textual_leaf_addr' \in Nat
      BY <1>0, <1>3 DEF ReadLeaf, KeepDirs, TInv, TypeOK
  <2>2. FinishParsing
      BY <1>3 DEF ReadLeaf
  <2>3. QED
      BY <1>0, <2>1, <2>2, EndsTInv DEF FinishParsing
<1>4. QED
    BY <1>1, <1>2, <1>3

LEMMA ReadMemoryTInv ==
    ASSUME TInv, program = "library", ReadMemory, UNCHANGED probeVars
    PROVE  TInv'
<1>0. UNCHANGED nodeVars /\ UNCHANGED mixed
    BY DEF ReadMemory
<1>1. CASE Throw
    BY <1>0, <1>1, ThrowTInv
<1>2. CASE ~Throw
  <2>1. PICK v \in {0, 1} : answer' = Answer(v)
      BY <1>2 DEF ReadMemory
  <2>2. answer' \in AnswerSet
      BY <2>1, AnswerTypes
  <2>3. QED
      BY <1>2, <2>2
         DEF ReadMemory, TInv, TypeOK, FlagsOK, Walking, Places, AnswerSet,
             KeepRom, KeepDirs, romVars, nodeVars, probeVars
<1>3. QED
    BY <1>1, <1>2

(* The bus, in either program.                                              *)
LEMMA BusResetTInv ==
    ASSUME TInv, BusReset, UNCHANGED probeVars
    PROVE  TInv'
<1>1. image' \in Images /\ resets' \in 0 .. MaxResets /\ mixed' \in BOOLEAN
    BY ImageTypes DEF BusReset, TInv, TypeOK
<1>2. QED
    BY <1>1 DEF BusReset, TInv, TypeOK, FlagsOK, Walking, romVars, walkVars,
                probeVars

LEMMA LibraryTInv ==
    ASSUME TInv, program = "library", Next, UNCHANGED probeVars
    PROVE  TInv'
BY CallGetterTInv, ReadHeaderTInv, ReadMagicTInv, ReadBusInfoTInv,
   ReadRootLengthTInv, ReadRootEntryTInv, ReadUnitLengthTInv,
   ReadUnitEntryTInv, ReadLeafTInv, ReadMemoryTInv, BusResetTInv
   DEF Next, Walk

-----------------------------------------------------------------------------
(* Types and flags: the probe.                                              *)
LEMMA ZeroType == Zero \in Views
<1>1. 0 \in Length16 /\ 0 \in Key8
    BY DEF Length16, Key8
<1>2. QED
    BY <1>1 DEF Zero, Views

LEMMA QuadletsType ==
    ASSUME image \in Images, NEW q \in Quadlets
    PROVE  /\ q \in Views /\ q.len \in Nat /\ q.key \in Nat /\ q.value \in Nat
           /\ q = Zero \/ (InRom(at) /\ q = Quadlet)
<1>1. q = Zero \/ (InRom(at) /\ q = Quadlet)
    BY DEF Quadlets
<1>2. QED
    BY <1>1, ZeroType, QuadletType, ViewTypes

LEMMA ProbeGoesOnTInv ==
    ASSUME TInv, program = "probe", Walking, Untouched, lost' \in BOOLEAN,
           NEW p \in Places \ {"idle", "memory"}, NEW i \in Nat,
           ReadAt(p, i),
           configRom' \in RomFields, left' \in Nat,
           unit_dir_addr' \in Nat, textual_leaf_addr' \in Nat,
           p \in {"rootEntry", "unitEntry"} => left' > 0
    PROVE  TInv'
BY DEF TInv, TypeOK, FlagsOK, Walking, ReadAt, Untouched, nodeVars, RomFields

LEMMA ProbeReturnsTInv ==
    ASSUME TInv, program = "probe", Walking, Untouched, lost' \in BOOLEAN,
           NEW v \in {0, 1}, Return(v),
           configRom' \in RomFields, left' \in Nat,
           unit_dir_addr' \in Nat, textual_leaf_addr' \in Nat
    PROVE  TInv'
<1>1. answer' \in AnswerSet
    BY AnswerTypes DEF Return
<1>2. QED
    BY <1>1 DEF TInv, TypeOK, FlagsOK, Walking, Return, Untouched, nodeVars,
                RomFields, AnswerSet, Places

LEMMA ProbeNodeTInv ==
    ASSUME TInv, program = "probe", probe_node
    PROVE  TInv'
<1> USE DEF probe_node
<1>1. configRom' \in RomFields /\ answer' \in AnswerSet
    BY EmptyRomType, AnswerTypes
<1>2. place' \in Places /\ mixed' \in BOOLEAN /\ lost' \in BOOLEAN
    BY DEF Places
<1>3. {at, left, unit_dir_addr, textual_leaf_addr}' \subseteq Nat
    OBVIOUS
<1>4. UNCHANGED <<image, resets, configRomRead, configRomValid, call, program>>
    BY DEF nodeVars
<1>5. TypeOK'
    BY <1>1, <1>2, <1>3, <1>4 DEF TInv, TypeOK, RomFields, AnswerSet
<1>6. FlagsOK'
    BY <1>4 DEF TInv, FlagsOK, Walking
<1>7. QED
    BY <1>2, <1>4, <1>5, <1>6 DEF TInv

(* Whatever a read of the probe answers.                                    *)
LEMMA ProbeQuadletTInv ==
    ASSUME TInv, program = "probe", ProbeQuadlet
    PROVE  TInv'
<1>1. PICK q \in Quadlets :
          /\ read_config_rom_quadlet(q)
          /\ \/ ProbeHeader(q) \/ ProbeMagic(q) \/ ProbeBusInfo(q)
             \/ ProbeRootLength(q) \/ ProbeRootEntry(q)
             \/ ProbeUnitLength(q) \/ ProbeUnitEntry(q) \/ ProbeLeafLength(q)
          /\ Untouched
    BY DEF ProbeQuadlet
<1>2. q \in Views /\ q.len \in Nat /\ q.key \in Nat /\ q.value \in Nat
    BY QuadletsType DEF TInv, TypeOK
<1>0. lost' \in BOOLEAN
  <2>1. lost' = lost \/ lost' = TRUE
      BY <1>1, Zenon DEF read_config_rom_quadlet
  <2>2. lost \in BOOLEAN
      BY DEF TInv
  <2>3. QED
      BY <2>1, <2>2
<1>3. /\ Untouched /\ lost' \in BOOLEAN
      /\ configRom \in RomFields /\ at \in Nat /\ at + 1 \in Nat /\ at + 3 \in Nat
      /\ left \in Nat /\ unit_dir_addr \in Nat /\ textual_leaf_addr \in Nat
    BY <1>0, <1>1 DEF TInv, TypeOK, RomFields
<1>4. [configRom EXCEPT !.vendor_id = q.value] \in RomFields
    BY <1>2, <1>3, FieldTypes
<1>5. CASE ProbeHeader(q)
  <2>1. Walking /\ configRom' \in RomFields /\ left' \in Nat
        /\ unit_dir_addr' \in Nat /\ textual_leaf_addr' \in Nat
      BY <1>3, <1>4, <1>5 DEF ProbeHeader, Walking, KeepDirs
  <2>2. CASE Return(0)
      BY <1>3, <2>1, <2>2, ProbeReturnsTInv
  <2>3. CASE ReadAt("magic", at + 1)
      BY <1>3, <2>1, <2>3, ProbeGoesOnTInv DEF Places
  <2>4. QED
      BY <1>5, <2>2, <2>3 DEF ProbeHeader
<1>6. CASE ProbeMagic(q)
  <2>1. Walking /\ configRom' \in RomFields /\ left' \in Nat
        /\ unit_dir_addr' \in Nat /\ textual_leaf_addr' \in Nat
      BY <1>3, <1>6 DEF ProbeMagic, Walking, KeepDirs
  <2>2. CASE Return(1)
      BY <1>3, <2>1, <2>2, ProbeReturnsTInv
  <2>3. CASE ReadAt("caps", at + 1)
      BY <1>3, <2>1, <2>3, ProbeGoesOnTInv DEF Places
  <2>4. QED
      BY <1>6, <2>2, <2>3 DEF ProbeMagic
<1>7. CASE ProbeBusInfo(q)
  <2>1. Walking /\ configRom' \in RomFields /\ left' \in Nat
        /\ unit_dir_addr' \in Nat /\ textual_leaf_addr' \in Nat
      BY <1>3, <1>4, <1>7 DEF ProbeBusInfo, Walking, KeepDirs
  <2>2. \E p \in {"vendor", "guid", "rootLength"} : ReadAt(p, at + 1)
      BY <1>7 DEF ProbeBusInfo
  <2>3. QED
      BY <1>3, <2>1, <2>2, ProbeGoesOnTInv DEF Places
<1>8. CASE ProbeRootLength(q)
  <2>1. Walking /\ configRom' \in RomFields /\ left' \in Nat
        /\ unit_dir_addr' \in Nat /\ textual_leaf_addr' \in Nat
      BY <1>2, <1>3, <1>8, LengthTypes DEF ProbeRootLength, Walking, KeepDirs
  <2>2. CASE Return(0)
      BY <1>3, <2>1, <2>2, ProbeReturnsTInv
  <2>3. CASE left' > 0 /\ ReadAt("rootEntry", at + 1)
      BY <1>3, <2>1, <2>3, ProbeGoesOnTInv DEF Places
  <2>4. QED
      BY <1>8, <2>2, <2>3 DEF ProbeRootLength
<1>9. ASSUME NEW leaf \in Nat, LeafOrEnd(leaf)
      PROVE  Return(0) \/ \E i \in Nat : ReadAt("leafLength", i)
    BY <1>9 DEF LeafOrEnd
<1>10. CASE ProbeRootEntry(q)
  <2>1. FromDirectory(at, q) \in Nat
      BY <1>2, <1>3 DEF FromDirectory
  <2>2. left > 0
      BY <1>10 DEF ProbeRootEntry, TInv, FlagsOK
  <2>3. Walking /\ left' = left - 1 /\ left' \in Nat
        /\ unit_dir_addr' \in Nat /\ textual_leaf_addr' \in Nat
      BY <1>3, <1>10, <2>1, <2>2 DEF ProbeRootEntry, Walking
  <2>4. configRom' \in RomFields
      BY <1>2, <1>3, <1>10, FieldTypes DEF ProbeRootEntry
  <2>5. CASE left > 1 /\ ReadAt("rootEntry", at + 1)
      BY <1>3, <2>3, <2>4, <2>5, ProbeGoesOnTInv DEF Places
  <2>6. CASE Return(0)
      BY <1>3, <2>3, <2>4, <2>6, ProbeReturnsTInv
  <2>7. CASE \E p \in {"unitLength", "leafLength"}, i \in Nat : ReadAt(p, i)
      BY <1>3, <2>3, <2>4, <2>7, ProbeGoesOnTInv DEF Places
  <2>8. QED
      BY <1>9, <1>10, <2>3, <2>5, <2>6, <2>7 DEF ProbeRootEntry, UnitOrLeaf
<1>11. CASE ProbeUnitLength(q)
  <2>1. Walking /\ configRom' \in RomFields /\ left' \in Nat
        /\ unit_dir_addr' \in Nat /\ textual_leaf_addr' \in Nat
      BY <1>2, <1>3, <1>11 DEF ProbeUnitLength, Walking, KeepDirs
  <2>2. CASE left' > 0 /\ ReadAt("unitEntry", at + 1)
      BY <1>3, <2>1, <2>2, ProbeGoesOnTInv DEF Places
  <2>3. CASE Return(0)
      BY <1>3, <2>1, <2>3, ProbeReturnsTInv
  <2>4. CASE \E i \in Nat : ReadAt("leafLength", i)
      BY <1>3, <2>1, <2>4, ProbeGoesOnTInv DEF Places
  <2>5. QED
      BY <1>3, <1>9, <1>11, <2>2, <2>3, <2>4 DEF ProbeUnitLength
<1>12. CASE ProbeUnitEntry(q)
  <2>1. left > 0
      BY <1>12 DEF ProbeUnitEntry, TInv, FlagsOK
  <2>0. configRom' \in RomFields
      BY <1>2, <1>3, <1>12, FieldTypes DEF ProbeUnitEntry, ProbeField
  <2>2. Walking /\ configRom' \in RomFields /\ left' \in Nat /\ left' = left - 1
        /\ unit_dir_addr' \in Nat /\ textual_leaf_addr' \in Nat
      BY <1>3, <1>12, <2>0, <2>1 DEF ProbeUnitEntry, Walking, KeepDirs
  <2>3. CASE left > 1 /\ ReadAt("unitEntry", at + 1)
      BY <1>3, <2>2, <2>3, ProbeGoesOnTInv DEF Places
  <2>4. CASE Return(0)
      BY <1>3, <2>2, <2>4, ProbeReturnsTInv
  <2>5. CASE \E i \in Nat : ReadAt("leafLength", i)
      BY <1>3, <2>2, <2>5, ProbeGoesOnTInv DEF Places
  <2>6. QED
      BY <1>3, <1>9, <1>12, <2>3, <2>4, <2>5 DEF ProbeUnitEntry
<1>13. CASE ProbeLeafLength(q)
  <2>1. Walking /\ left' \in Nat
        /\ unit_dir_addr' \in Nat /\ textual_leaf_addr' \in Nat
      BY <1>2, <1>3, <1>13, LengthTypes DEF ProbeLeafLength, Walking, KeepDirs
  <2>2. configRom' \in RomFields
      BY <1>3, <1>13, <2>1 DEF ProbeLeafLength, RomFields, EmptyRom
  <2>3. QED
      BY <1>3, <1>13, <2>1, <2>2, ProbeGoesOnTInv DEF ProbeLeafLength, Places
<1>14. QED
    BY <1>1, <1>5, <1>6, <1>7, <1>8, <1>10, <1>11, <1>12, <1>13

LEMMA ProbeLeafTInv ==
    ASSUME TInv, program = "probe", ProbeLeaf
    PROVE  TInv'
<1>1. /\ Walking /\ Return(0) /\ Untouched /\ lost' \in BOOLEAN
      /\ configRom' \in RomFields /\ left' \in Nat
      /\ unit_dir_addr' \in Nat /\ textual_leaf_addr' \in Nat
    BY DEF ProbeLeaf, Walking, KeepDirs, TInv, TypeOK, RomFields
<1>2. QED
    BY <1>1, ProbeReturnsTInv

LEMMA StutterTInv == TInv /\ UNCHANGED allVars => TInv'
BY DEF TInv, TypeOK, FlagsOK, Walking, allVars, probeVars, vars, romVars,
       walkVars, nodeVars

LEMMA StepTInv == TInv /\ [ProbeNext]_allVars => TInv'
BY LibraryTInv, ProbeNodeTInv, ProbeQuadletTInv, ProbeLeafTInv, BusResetTInv,
   StutterTInv
   DEF ProbeNext, Probing, ResetBetweenProbes

LEMMA ProbeTyped == ProbeSpec => []TInv
BY InitTInv, StepTInv, PTL DEF ProbeSpec

-----------------------------------------------------------------------------
(* What a walk does not touch.                                              *)
LEMMA WalkIsUnread ==
    ASSUME TInv, Walk, place # "memory"
    PROVE  ~configRomRead
BY DEF TInv, FlagsOK, Walking, Walk, ReadHeader, ReadMagic, ReadBusInfo,
       ReadRootLength, ReadRootEntry, ReadUnitLength, ReadUnitEntry,
       ReadLeafLength, ReadLeaf, ReadMemory

LEMMA MemoryKeepsRom ==
    ASSUME Walk, place = "memory"
    PROVE  ReadMemory /\ UNCHANGED romVars
BY DEF Walk, ReadHeader, ReadMagic, ReadBusInfo,
       ReadRootLength, ReadRootEntry, ReadUnitLength, ReadUnitEntry,
       ReadLeafLength, ReadLeaf, ReadMemory, Throw, KeepRom

LEMMA StepKeepsRom ==
    ASSUME TInv, [ProbeNext]_allVars, configRomRead
    PROVE  UNCHANGED romVars
<1>1. CASE UNCHANGED allVars
    BY <1>1 DEF allVars, vars, romVars
<1>2. CASE program = "library" /\ Next
  <2>1. ASSUME NEW c \in Calls, CallGetter(c)
        PROVE  UNCHANGED romVars
      BY <2>1 DEF CallGetter, MustRead, KeepRom
  <2>2. CASE Walk
      BY <2>2, WalkIsUnread, MemoryKeepsRom
  <2>3. CASE BusReset
      BY <2>3 DEF BusReset
  <2>4. QED
      BY <1>2, <2>1, <2>2, <2>3 DEF Next
<1>3. CASE ProbeNext /\ program = "probe"
    BY <1>3 DEF TInv, FlagsOK
<1>4. QED
    BY <1>1, <1>2, <1>3 DEF ProbeNext

(* A step that makes isSensableDevice say yes compares the vendor in the    *)
(* memory of the node that answers.                                         *)
LEMMA DeliverSaysYes ==
    ASSUME NEW c, NEW rom, NEW valid, Deliver(c, rom, valid),
           c = "isSensableDevice"
    PROVE  answer' # Answer(1)
BY DEF Deliver, GoesOnToMemory, Answer, NoAnswer

LEMMA EndSaysYes ==
    ASSUME NEW valid, Cached(valid), call' = "isSensableDevice"
    PROVE  answer' # Answer(1)
<1>1. call = "isSensableDevice" /\ Deliver(call, configRom', valid)
    BY DEF Cached
<1>2. QED
    BY <1>1, DeliverSaysYes

LEMMA WalkSaysYes ==
    ASSUME Walk, place # "memory", call' = "isSensableDevice",
           answer' # answer
    PROVE  answer' # Answer(1)
<1>1. CASE \E valid \in BOOLEAN : Cached(valid)
    BY <1>1, EndSaysYes
<1>2. CASE Throw
    BY <1>2 DEF Throw, Exception, Answer
<1>3. ASSUME NEW leaf, AfterUnit(leaf)
      PROVE  Cached(TRUE) \/ UNCHANGED answer
    BY <1>3 DEF AfterUnit, FinishParsing, ReadAt
<1>4. ASSUME NEW unit, NEW leaf, AfterRoot(unit, leaf)
      PROVE  Cached(TRUE) \/ UNCHANGED answer
    BY <1>3, <1>4 DEF AfterRoot, ReadAt
<1>5. CASE ReadHeader \/ ReadMagic \/ ReadBusInfo \/ ReadRootLength
    BY <1>1, <1>2, <1>5
       DEF ReadHeader, ReadMagic, ReadBusInfo, ReadRootLength, ReadFails,
           FinishParsing, ReadAt
<1>6. CASE ReadRootEntry
    BY <1>1, <1>2, <1>4, <1>6 DEF ReadRootEntry, ReadFails, ReadAt
<1>7. CASE ReadUnitLength \/ ReadUnitEntry
    BY <1>1, <1>2, <1>3, <1>7
       DEF ReadUnitLength, ReadUnitEntry, ReadFails, ReadAt
<1>8. CASE ReadLeafLength \/ ReadLeaf
    BY <1>1, <1>2, <1>8
       DEF ReadLeafLength, ReadLeaf, ReadFails, FinishParsing, ReadAt
<1>9. QED
    BY <1>5, <1>6, <1>7, <1>8 DEF Walk, ReadMemory

LEMMA StepSaysYes ==
    ASSUME TInv, [ProbeNext]_allVars, call' = "isSensableDevice",
           answer' = Answer(1), answer' # answer
    PROVE  image.vendor = SENSABLE
<1>1. ~UNCHANGED allVars
    BY DEF allVars, vars
<1>2. CASE program = "library" /\ Next
  <2>1. ASSUME NEW c \in Calls, CallGetter(c)
        PROVE  FALSE
    <3>1. c = "isSensableDevice"
        BY <2>1 DEF CallGetter
    <3>2. NoAnswer # Answer(1)
        BY DEF NoAnswer, Answer
    <3>3. Deliver(c, configRom, configRomValid)
        BY <2>1, <3>2 DEF CallGetter
    <3>4. QED
        BY <3>1, <3>3, DeliverSaysYes
  <2>2. CASE Walk /\ place # "memory"
      BY <2>2, WalkSaysYes
  <2>3. CASE ReadMemory
      BY <2>3 DEF ReadMemory, Throw, Exception, Answer
  <2>4. CASE BusReset
      BY <2>4 DEF BusReset
  <2>5. QED
      BY <1>2, <2>1, <2>2, <2>3, <2>4, MemoryKeepsRom DEF Next
<1>3. CASE ProbeNext /\ program = "probe"
  <2>1. TInv' /\ program' = "probe"
      BY <1>3, StepTInv DEF ProbeNext, probe_node, Probing, ProbeQuadlet,
             ProbeLeaf, Untouched, ResetBetweenProbes, probeVars
  <2>2. QED
      BY <2>1 DEF TInv, FlagsOK
<1>4. QED
    BY <1>1, <1>2, <1>3 DEF ProbeNext

-----------------------------------------------------------------------------
(* Reads that are lost without notice: what the probe has, the node has.    *)
LEMMA KeysDiffer ==
    /\ KeyValues.capabilities = 12 /\ KeyValues.unitSpec = 18
    /\ KeyValues.unitVersion = 19 /\ KeyValues.model = 23
    /\ KeyValues.unitDir = 209 /\ KeyValues.textualLeaf = 129
BY DEF KeyValues

(* A quadlet with a key was read, not lost.                                 *)
LEMMA KeyMeansRead ==
    ASSUME image \in Images, NEW q \in Quadlets, q.key # 0
    PROVE  Contains(q.key, q.value) /\ q = Quadlet /\ InRom(at)
<1>1. q = Quadlet /\ InRom(at)
    BY QuadletsType DEF Zero
<1>2. QED
    BY <1>1, QuadletType DEF Contains, Quadlet

LEMMA ProbeInitLInv == ProbeInit => LInv
BY DEF ProbeInit, Init, LInv, BusInfoAt, FieldsInRom, Walking, EmptyRom

LEMMA ProbeNodeLInv ==
    ASSUME probe_node
    PROVE  LInv'
BY DEF probe_node, LInv, BusInfoAt, FieldsInRom, Walking, EmptyRom

(* What a field becomes.                                                    *)
LEMMA FieldOrEntry ==
    ASSUME TInv, NEW q \in Quadlets,
           configRom' \in {configRom,
                           [configRom EXCEPT !.vendor_id = q.value],
                           [configRom EXCEPT !.vendor = left'],
                           UnitField(configRom, q)}
                    \cup (IF q.key = KeyValues.capabilities
                          THEN {[configRom EXCEPT !.node_capabilities = q.value]}
                          ELSE {}),
           FieldsInRom, UNCHANGED image
    PROVE  /\ configRom'.node_capabilities # 0 =>
                 Contains(KeyValues.capabilities, configRom.node_capabilities)'
           /\ configRom'.unit_spec_id # 0 =>
                 Contains(KeyValues.unitSpec, configRom.unit_spec_id)'
           /\ configRom'.unit_sw_version # 0 =>
                 Contains(KeyValues.unitVersion, configRom.unit_sw_version)'
           /\ configRom'.model_id # 0 =>
                 Contains(KeyValues.model, configRom.model_id)'
<1>1. q.key # 0 => \E i \in DOMAIN image.rom :
                       image.rom[i].key = q.key /\ image.rom[i].value = q.value
    BY KeyMeansRead DEF Contains, TInv, TypeOK
<1>2. configRom \in RomFields
    BY DEF TInv, TypeOK, RomFields
<1>3. \/ configRom' = configRom
      \/ configRom' = [configRom EXCEPT !.vendor_id = q.value]
      \/ configRom' = [configRom EXCEPT !.vendor = left']
      \/ configRom' = UnitField(configRom, q)
      \/ /\ q.key = 12
         /\ configRom' = [configRom EXCEPT !.node_capabilities = q.value]
    BY KeysDiffer
<1>4. CASE \/ configRom' = configRom
           \/ configRom' = [configRom EXCEPT !.vendor_id = q.value]
           \/ configRom' = [configRom EXCEPT !.vendor = left']
    BY <1>2, <1>4 DEF FieldsInRom, Contains, RomFields, EmptyRom
<1>5. CASE configRom' = UnitField(configRom, q)
  <2>1. \/ configRom' = configRom
        \/ /\ q.key = 18
           /\ configRom' = [configRom EXCEPT !.unit_spec_id = q.value]
        \/ /\ q.key = 19
           /\ configRom' = [configRom EXCEPT !.unit_sw_version = q.value]
        \/ /\ q.key = 23
           /\ configRom' = [configRom EXCEPT !.model_id = q.value]
      BY <1>5, KeysDiffer DEF UnitField
  <2>2. QED
      BY <1>1, <1>2, <2>1, KeysDiffer
         DEF FieldsInRom, Contains, RomFields, EmptyRom
<1>6. CASE /\ q.key = 12
           /\ configRom' = [configRom EXCEPT !.node_capabilities = q.value]
    BY <1>1, <1>2, <1>6, KeysDiffer
       DEF FieldsInRom, Contains, RomFields, EmptyRom
<1>7. QED
    BY <1>3, <1>4, <1>5, <1>6

LEMMA ProbeQuadletLInv ==
    ASSUME TInv, LInv, program = "probe", ProbeQuadlet
    PROVE  LInv'
<1> SUFFICES ASSUME ~mixed'
             PROVE  BusInfoAt' /\ FieldsInRom'
    BY DEF LInv
<1>1. PICK q \in Quadlets :
          /\ \/ ProbeHeader(q) \/ ProbeMagic(q) \/ ProbeBusInfo(q)
             \/ ProbeRootLength(q) \/ ProbeRootEntry(q)
             \/ ProbeUnitLength(q) \/ ProbeUnitEntry(q) \/ ProbeLeafLength(q)
          /\ Untouched
    BY DEF ProbeQuadlet
<1>2. /\ BusInfoAt /\ FieldsInRom /\ UNCHANGED image
      /\ image \in Images /\ configRom \in RomFields
    BY <1>1 DEF LInv, Untouched, nodeVars, TInv, TypeOK, RomFields
<1>3. q = Zero \/ q = image.rom[at + 1]
    BY <1>2, QuadletsType DEF Quadlet
<1>4. BusInfoAt'
  <2>1. CASE ProbeHeader(q)
      BY <1>2, <1>3, <2>1
         DEF BusInfoAt, ProbeHeader, Return, ReadAt, Walking, Zero
  <2>2. CASE ProbeMagic(q) \/ ProbeBusInfo(q)
      BY <1>2, <2>2
         DEF BusInfoAt, ProbeMagic, ProbeBusInfo, Return, ReadAt, Walking
  <2>3. CASE ProbeRootLength(q) \/ ProbeRootEntry(q)
      BY <1>2, <2>3
         DEF BusInfoAt, ProbeRootLength, ProbeRootEntry, Return, ReadAt,
             Walking, UnitOrLeaf, LeafOrEnd
  <2>4. CASE ProbeUnitLength(q) \/ ProbeUnitEntry(q) \/ ProbeLeafLength(q)
      BY <1>2, <2>4
         DEF BusInfoAt, ProbeUnitLength, ProbeUnitEntry, ProbeLeafLength,
             Return, ReadAt, Walking, LeafOrEnd
  <2>5. QED
      BY <1>1, <2>1, <2>2, <2>3, <2>4
<1>5. configRom'.vendor_id \in {0, VendorOf(image.rom)}
  <2>1. CASE ProbeHeader(q)
    <3>1. q.key # 4 => q.value \in {0, VendorOf(image.rom)}
        BY <1>2, <1>3, <2>1 DEF BusInfoAt, ProbeHeader, VendorOf, Zero
    <3>2. QED
        BY <1>2, <2>1, <3>1
           DEF ProbeHeader, FieldsInRom, RomFields, EmptyRom
  <2>2. CASE ProbeBusInfo(q)
    <3>1. place = "vendor" => q.value \in {0, VendorOf(image.rom)}
        BY <1>2, <1>3 DEF BusInfoAt, VendorOf, Zero, Walking
    <3>2. QED
        BY <1>2, <2>2, <3>1
           DEF ProbeBusInfo, FieldsInRom, RomFields, EmptyRom
  <2>3. CASE ProbeUnitEntry(q)
      BY <1>2, <2>3
         DEF ProbeUnitEntry, ProbeField, UnitField, FieldsInRom, RomFields,
             EmptyRom
  <2>4. CASE \/ ProbeMagic(q) \/ ProbeRootLength(q) \/ ProbeRootEntry(q)
             \/ ProbeUnitLength(q) \/ ProbeLeafLength(q)
      BY <1>2, <2>4
         DEF ProbeMagic, ProbeRootLength, ProbeRootEntry, ProbeUnitLength,
             ProbeLeafLength, FieldsInRom, RomFields, EmptyRom
  <2>5. QED
      BY <1>1, <2>1, <2>2, <2>3, <2>4
<1>6. \/ configRom' \in {configRom,
                         [configRom EXCEPT !.vendor_id = q.value],
                         [configRom EXCEPT !.vendor = left'],
                         UnitField(configRom, q)}
      \/ /\ q.key = KeyValues.capabilities
         /\ configRom' = [configRom EXCEPT !.node_capabilities = q.value]
    BY <1>1, Zenon
       DEF ProbeHeader, ProbeMagic, ProbeBusInfo, ProbeRootLength,
           ProbeRootEntry, ProbeUnitLength, ProbeUnitEntry, ProbeLeafLength,
           ProbeField
<1>7. configRom' \in {configRom,
                      [configRom EXCEPT !.vendor_id = q.value],
                      [configRom EXCEPT !.vendor = left'],
                      UnitField(configRom, q)}
               \cup (IF q.key = KeyValues.capabilities
                     THEN {[configRom EXCEPT !.node_capabilities = q.value]}
                     ELSE {})
    BY <1>6, Zenon
<1>8. QED
    BY <1>2, <1>4, <1>5, <1>7, FieldOrEntry DEF FieldsInRom

LEMMA ProbeLeafLInv ==
    ASSUME LInv, program = "probe", ProbeLeaf
    PROVE  LInv'
BY DEF LInv, ProbeLeaf, Untouched, nodeVars, BusInfoAt, FieldsInRom, Contains,
       Walking, Return

LEMMA StepLInv == TInv /\ LInv /\ [ProbeNext]_allVars => LInv'
<1> SUFFICES ASSUME TInv, LInv, [ProbeNext]_allVars PROVE LInv'
    OBVIOUS
<1>1. CASE UNCHANGED allVars
    BY <1>1 DEF allVars, vars, romVars, walkVars, nodeVars, probeVars, LInv,
                BusInfoAt, FieldsInRom, Contains, Walking
<1>2. CASE program = "library" /\ UNCHANGED probeVars
    BY <1>2 DEF LInv, probeVars
<1>3. CASE program = "probe" /\ ResetBetweenProbes
    BY <1>3 DEF ResetBetweenProbes, BusReset, LInv
<1>4. QED
    BY <1>1, <1>2, <1>3, ProbeNodeLInv, ProbeQuadletLInv, ProbeLeafLInv
       DEF ProbeNext, Probing

LEMMA LostReads == ProbeSpec => []LInv
BY ProbeInitLInv, StepLInv, ProbeTyped, PTL DEF ProbeSpec

-----------------------------------------------------------------------------
(* The last entry of a key, one entry of a directory after the other.       *)
LEMMA MaxIs ==
    ASSUME NEW P, P \subseteq Int, NEW x \in P, \A y \in P : x >= y
    PROVE  Max(P) = x
<1> DEFINE m == Max(P)
<1>1. m \in P /\ \A y \in P : m >= y
    BY Zenon DEF Max
<1>2. m >= x /\ x >= m /\ m \in Int /\ x \in Int
    BY <1>1
<1>3. QED
    BY <1>2

LEMMA PositionsNone ==
    ASSUME NEW rom, NEW first \in Int, NEW key
    PROVE  Positions(rom, first, 0, key) = {}
BY DEF Positions

LEMMA PositionsMore ==
    ASSUME NEW rom, NEW first \in Int, NEW k \in Nat, NEW key
    PROVE  /\ Positions(rom, first, k, key) \subseteq first .. first + k - 1
           /\ Positions(rom, first, k + 1, key) =
                 IF rom[first + k + 1].key = key
                 THEN Positions(rom, first, k, key) \cup {first + k}
                 ELSE Positions(rom, first, k, key)
<1>1. first .. first + (k + 1) - 1 = (first .. first + k - 1) \cup {first + k}
    OBVIOUS
<1>2. QED
    BY <1>1 DEF Positions

LEMMA LastMore ==
    ASSUME NEW rom, NEW first \in Int, NEW k \in Nat, NEW key
    PROVE  LET q == rom[first + k + 1]
               P == Positions(rom, first, k, key)
               Q == Positions(rom, first, k + 1, key)
           IN /\ Last(rom, Q) = IF q.key = key THEN q.value ELSE Last(rom, P)
              /\ Pointed(rom, Q) = IF q.key = key THEN first + k + q.value
                                   ELSE Pointed(rom, P)
<1> DEFINE q == rom[first + k + 1]
           P == Positions(rom, first, k, key)
           Q == Positions(rom, first, k + 1, key)
<1>1. CASE q.key = key
  <2>1. Q = P \cup {first + k} /\ P \subseteq first .. first + k - 1
      BY <1>1, PositionsMore
  <2>2. Max(Q) = first + k
    <3>1. Q \subseteq Int /\ first + k \in Q /\ \A y \in Q : first + k >= y
        BY <2>1
    <3>2. QED
        BY <3>1, MaxIs
  <2>3. Q # {}
      BY <2>1
  <2>4. QED
      BY <1>1, <2>2, <2>3 DEF Last, Pointed
<1>2. CASE q.key # key
    BY <1>2, PositionsMore
<1>3. QED
    BY <1>1, <1>2

LEMMA NoEntries ==
    ASSUME NEW rom, NEW first \in Int, NEW key
    PROVE  /\ Last(rom, Positions(rom, first, 0, key)) = 0
           /\ Pointed(rom, Positions(rom, first, 0, key)) = 0
BY PositionsNone DEF Last, Pointed

(* Before the first entry of the root directory, and one entry later.       *)
LEMMA RootBegins ==
    ASSUME NEW rom, NEW v, v = rom[4].value
    PROVE  LET c == [EmptyRom EXCEPT !.vendor_id = v]
           IN HasRoot(rom, 0, c, 0, 0) /\ NoUnit(c) /\ NoName(c)
BY NoEntries DEF HasRoot, RootKey, RootStart, NoUnit, NoName, EmptyRom

LEMMA RootGoesOn ==
    ASSUME NEW rom, NEW k \in Nat, NEW c \in RomFields, NEW unit, NEW leaf,
           HasRoot(rom, k, c, unit, leaf),
           NEW q, q = rom[RootStart + k + 1],
           NEW d, d = IF q.key = KeyValues.capabilities
                      THEN [c EXCEPT !.node_capabilities = q.value] ELSE c
    PROVE  /\ HasRoot(rom, k + 1, d,
                  IF q.key = KeyValues.unitDir
                  THEN RootStart + k + q.value ELSE unit,
                  IF q.key = KeyValues.textualLeaf
                  THEN RootStart + k + q.value ELSE leaf)
           /\ NoUnit(c) => NoUnit(d)
           /\ NoName(c) => NoName(d)
<1>1. RootStart \in Int
    BY DEF RootStart
<1>2. /\ d.vendor_id = c.vendor_id
      /\ d.node_capabilities = IF q.key = KeyValues.capabilities
                               THEN q.value ELSE c.node_capabilities
      /\ d.unit_spec_id = c.unit_spec_id /\ d.model_id = c.model_id
      /\ d.unit_sw_version = c.unit_sw_version /\ d.vendor = c.vendor
    BY DEF RomFields, EmptyRom
<1>3. QED
    BY <1>1, <1>2, LastMore DEF HasRoot, RootKey, NoUnit, NoName

(* The same for the unit directory.                                         *)
LEMMA UnitBegins ==
    ASSUME NEW rom, UnitAt(rom) \in Int, NEW c, NoUnit(c)
    PROVE  HasUnit(rom, 0, c)
<1>1. UnitAt(rom) + 1 \in Int
    OBVIOUS
<1>2. QED
    BY <1>1, NoEntries DEF HasUnit, UnitKey, NoUnit

LEMMA UnitGoesOn ==
    ASSUME NEW rom, UnitAt(rom) \in Int, NEW k \in Nat, NEW c \in RomFields,
           HasUnit(rom, k, c),
           NEW q, q = rom[UnitAt(rom) + 1 + k + 1]
    PROVE  /\ HasUnit(rom, k + 1, UnitField(c, q))
           /\ NoName(c) => NoName(UnitField(c, q))
           /\ UnitField(c, q).vendor_id = c.vendor_id
           /\ UnitField(c, q).node_capabilities = c.node_capabilities
<1> DEFINE d == UnitField(c, q)
<1>1. UnitAt(rom) + 1 \in Int
    OBVIOUS
<1>2. /\ d.unit_spec_id = IF q.key = KeyValues.unitSpec
                          THEN q.value ELSE c.unit_spec_id
      /\ d.unit_sw_version = IF q.key = KeyValues.unitVersion
                             THEN q.value ELSE c.unit_sw_version
      /\ d.model_id = IF q.key = KeyValues.model THEN q.value ELSE c.model_id
      /\ d.vendor_id = c.vendor_id /\ d.vendor = c.vendor
      /\ d.node_capabilities = c.node_capabilities
  <2>1. CASE q.key = 18
      BY <2>1, KeysDiffer DEF UnitField, RomFields, EmptyRom
  <2>2. CASE q.key = 19
      BY <2>2, KeysDiffer DEF UnitField, RomFields, EmptyRom
  <2>3. CASE q.key = 23
      BY <2>3, KeysDiffer DEF UnitField, RomFields, EmptyRom
  <2>4. CASE q.key \notin {18, 19, 23}
      BY <2>4, KeysDiffer DEF UnitField, RomFields, EmptyRom
  <2>5. QED
      BY <2>1, <2>2, <2>3, <2>4
<1>3. HasUnit(rom, k + 1, d)
    BY <1>1, <1>2, LastMore DEF HasUnit, UnitKey
<1>4. QED
    BY <1>2, <1>3 DEF NoName

(* What has been found at the end is what the ROM says.                     *)
LEMMA MinimalIsParsed ==
    ASSUME NEW rom, rom[1].key # 4
    PROVE  [EmptyRom EXCEPT !.vendor_id = rom[1].value] = Parsed(rom)
BY DEF Parsed

LEMMA CompleteIsParsed ==
    ASSUME NEW rom, NEW c \in RomFields, NEW unit, NEW leaf, Formatted(rom),
           rom[6].len \in Nat,
           HasRoot(rom, RootLen(rom), c, unit, leaf),
           HasUnit(rom, UnitLen(rom), c), UnitAt(rom) \in Int,
           c.vendor = IF leaf = 0 THEN 0 ELSE rom[leaf + 1].len - 2
    PROVE  c = Parsed(rom)
<1>1. RootLen(rom) = IF rom[6].len < MaxRootDir THEN rom[6].len ELSE MaxRootDir
    BY ImageTypes DEF RootLen, RootLength
<1>2. ASSUME NEW key
      PROVE  Last(rom, UnitKey(rom, key, UnitLen(rom))) =
             Last(rom, IF UnitAt(rom) = 0 THEN {}
                       ELSE Positions(rom, UnitAt(rom) + 1,
                                      rom[UnitAt(rom) + 1].len, key))
  <2>1. CASE UnitAt(rom) = 0
      BY <2>1, PositionsNone DEF UnitKey, UnitLen
  <2>2. CASE UnitAt(rom) # 0
      BY <2>2 DEF UnitKey, UnitLen
  <2>3. QED
      BY <2>1, <2>2
<1>3. /\ c.vendor_id = rom[4].value
      /\ c.node_capabilities = Last(rom, RootKey(rom, KeyValues.capabilities,
                                                 RootLen(rom)))
      /\ leaf = LeafAt(rom)
    BY DEF HasRoot, LeafAt
<1>4. \A key : RootKey(rom, key, RootLen(rom)) =
          Positions(rom, RootStart,
                    IF rom[6].len < MaxRootDir THEN rom[6].len ELSE MaxRootDir,
                    key)
    BY <1>1 DEF RootKey
<1>5. Parsed(rom) =
        [vendor_id |-> c.vendor_id, node_capabilities |-> c.node_capabilities,
         unit_spec_id |-> c.unit_spec_id,
         unit_sw_version |-> c.unit_sw_version, model_id |-> c.model_id,
         vendor |-> c.vendor]
    BY <1>2, <1>3, <1>4
       DEF Parsed, Formatted, HasUnit, UnitAt, LeafAt
<1>6. QED
    BY <1>5 DEF RomFields, EmptyRom

-----------------------------------------------------------------------------
(* The walk, one place after the other, in either program.                  *)
LEMMA UnitEnds ==
    ASSUME image \in Images, UNCHANGED image, configRom' \in RomFields,
           unit_dir_addr' \in Nat, textual_leaf_addr' \in Nat,
           Found(image.rom, configRom', unit_dir_addr', textual_leaf_addr'),
           HasUnit(image.rom, UnitLen(image.rom), configRom'),
           NoName(configRom')
    PROVE  /\ /\ textual_leaf_addr' > 0
              /\ place' = "leafLength" /\ at' = textual_leaf_addr'
              => WalkOK'
           /\ textual_leaf_addr' = 0 => configRom' = Parsed(image.rom)
<1> DEFINE rom == image.rom
<1>1. /\ LeafAt(rom) = textual_leaf_addr' /\ UnitAt(rom) = unit_dir_addr'
      /\ Formatted(rom)
    BY DEF Found, HasRoot, LeafAt, UnitAt
<1>2. rom[6].len \in Nat
    BY ImageTypes, ViewTypes DEF Found
<1>3. ASSUME textual_leaf_addr' = 0
      PROVE  configRom' = Parsed(rom)
    BY <1>1, <1>2, <1>3, CompleteIsParsed DEF Found, NoName
<1>4. ASSUME textual_leaf_addr' > 0, place' = "leafLength",
             at' = textual_leaf_addr'
      PROVE  WalkOK'
    BY <1>1, <1>4
       DEF WalkOK, BusInfoWalk, RootWalk, UnitWalk, LeafWalk, Walking,
           RootFound
<1>5. QED
    BY <1>3, <1>4

LEMMA RootEnds ==
    ASSUME image \in Images, UNCHANGED image, configRom' \in RomFields,
           unit_dir_addr' \in Nat, textual_leaf_addr' \in Nat,
           Found(image.rom, configRom', unit_dir_addr', textual_leaf_addr'),
           NoUnit(configRom'), NoName(configRom')
    PROVE  /\ /\ unit_dir_addr' > 0
              /\ place' = "unitLength" /\ at' = unit_dir_addr'
              => WalkOK'
           /\ unit_dir_addr' = 0 =>
                 HasUnit(image.rom, UnitLen(image.rom), configRom')
<1> DEFINE rom == image.rom
<1>1. UnitAt(rom) = unit_dir_addr' /\ Formatted(rom)
    BY DEF Found, HasRoot, UnitAt
<1>2. ASSUME unit_dir_addr' = 0
      PROVE  HasUnit(rom, UnitLen(rom), configRom')
  <2>1. UnitLen(rom) = 0
      BY <1>1, <1>2 DEF UnitLen
  <2>2. QED
      BY <1>1, <2>1, UnitBegins
<1>3. ASSUME unit_dir_addr' > 0, place' = "unitLength", at' = unit_dir_addr'
      PROVE  WalkOK'
    BY <1>1, <1>3
       DEF WalkOK, BusInfoWalk, RootWalk, UnitWalk, LeafWalk, Walking,
           RootFound
<1>4. QED
    BY <1>2, <1>3

LEMMA HeaderWalks ==
    ASSUME WalkOK, UNCHANGED image, place = "header", InRom(at), KeepDirs
    PROVE  /\ /\ Quadlet.key # 4
              /\ configRom' = [configRom EXCEPT !.vendor_id = Quadlet.value]
              => /\ configRom' = Parsed(image.rom)
                 /\ image.rom[1].key # 4
           /\ /\ Quadlet.key = 4 /\ configRom' = configRom
              /\ place' = "magic" /\ at' = at + 1
              => WalkOK'
<1>1. at = 0 /\ Fresh
    BY DEF WalkOK, BusInfoWalk
<1>2. Quadlet = image.rom[1]
    BY <1>1 DEF Quadlet
<1>3. ASSUME Quadlet.key # 4,
             configRom' = [configRom EXCEPT !.vendor_id = Quadlet.value]
      PROVE  configRom' = Parsed(image.rom)
    BY <1>1, <1>2, <1>3, MinimalIsParsed DEF Fresh
<1>4. ASSUME Quadlet.key = 4, configRom' = configRom,
             place' = "magic", at' = at + 1
      PROVE  WalkOK'
    BY <1>1, <1>2, <1>4
       DEF WalkOK, BusInfoWalk, RootWalk, UnitWalk, LeafWalk, Walking, Fresh,
           KeepDirs
<1>5. QED
    BY <1>2, <1>3, <1>4

LEMMA MagicWalks ==
    ASSUME WalkOK, UNCHANGED image, place = "magic", InRom(at), KeepDirs,
           configRom' = configRom
    PROVE  /\ image.rom[1].key = 4 /\ Quadlet = image.rom[2]
           /\ /\ Quadlet.value = MAGIC
              /\ place' = "caps" /\ at' = at + 1
              => WalkOK'
<1>1. at = 1 /\ Fresh /\ image.rom[1].key = 4
    BY DEF WalkOK, BusInfoWalk
<1>2. Quadlet = image.rom[2]
    BY <1>1 DEF Quadlet
<1>3. ASSUME Quadlet.value = MAGIC, place' = "caps", at' = at + 1
      PROVE  WalkOK'
    BY <1>1, <1>2, <1>3
       DEF WalkOK, BusInfoWalk, RootWalk, UnitWalk, LeafWalk, Walking, Fresh,
           KeepDirs, Formatted
<1>4. QED
    BY <1>1, <1>2, <1>3

LEMMA BusInfoWalks ==
    ASSUME WalkOK, UNCHANGED image, InRom(at), KeepDirs, at' = at + 1,
           \/ place = "caps" /\ place' = "vendor" /\ configRom' = configRom
           \/ /\ place = "vendor" /\ place' = "guid"
              /\ configRom' = [configRom EXCEPT !.vendor_id = Quadlet.value]
           \/ place = "guid" /\ place' = "rootLength" /\ configRom' = configRom
    PROVE  WalkOK'
<1>0. Formatted(image.rom)
    BY DEF WalkOK, BusInfoWalk, Walking
<1>1. CASE place = "caps" /\ place' = "vendor" /\ configRom' = configRom
    BY <1>0, <1>1
       DEF WalkOK, BusInfoWalk, RootWalk, UnitWalk, LeafWalk, Walking, Fresh,
           KeepDirs
<1>2. CASE /\ place = "vendor" /\ place' = "guid"
           /\ configRom' = [configRom EXCEPT !.vendor_id = Quadlet.value]
  <2>1. at = 3 /\ Fresh
      BY <1>2 DEF WalkOK, BusInfoWalk
  <2>2. Quadlet.value = image.rom[4].value
      BY <2>1 DEF Quadlet
  <2>3. /\ HasRoot(image.rom, 0, configRom', unit_dir_addr',
                   textual_leaf_addr')
        /\ NoUnit(configRom') /\ NoName(configRom')
      BY <1>2, <2>1, <2>2, RootBegins DEF Fresh, KeepDirs
  <2>4. QED
      BY <1>0, <1>2, <2>1, <2>3
         DEF WalkOK, BusInfoWalk, RootWalk, UnitWalk, LeafWalk, Walking
<1>3. CASE place = "guid" /\ place' = "rootLength" /\ configRom' = configRom
    BY <1>0, <1>3
       DEF WalkOK, BusInfoWalk, RootWalk, UnitWalk, LeafWalk, Walking,
           KeepDirs
<1>4. QED
    BY <1>1, <1>2, <1>3

LEMMA RootLengthWalks ==
    ASSUME TInv, WalkOK, UNCHANGED image, place = "rootLength", InRom(at),
           KeepDirs, configRom' = configRom, left' = RootLength(Quadlet.len)
    PROVE  /\ /\ left' > 0 /\ place' = "rootEntry" /\ at' = at + 1
              => WalkOK'
           /\ left' = 0 => configRom' = Parsed(image.rom) /\ Formatted(image.rom)
<1> DEFINE rom == image.rom
<1>1. /\ at = 5 /\ Formatted(rom) /\ NoUnit(configRom) /\ NoName(configRom)
      /\ HasRoot(rom, 0, configRom, unit_dir_addr, textual_leaf_addr)
    BY DEF WalkOK, BusInfoWalk, Walking
<1>2. Quadlet = rom[6] /\ rom[6].len \in Nat /\ 6 \in DOMAIN rom
    BY <1>1, QuadletType DEF Quadlet, TInv, TypeOK
<1>3. left' = RootLen(rom) /\ left' \in Nat
    BY <1>2, LengthTypes DEF RootLen
<1>4. ASSUME left' > 0, place' = "rootEntry", at' = at + 1
      PROVE  WalkOK'
  <2>1. /\ left' \in 1 .. RootLen(rom) /\ RootLen(rom) - left' = 0
        /\ RootLen(rom) \in Nat
        /\ at' = RootStart + (RootLen(rom) - left')
      BY <1>1, <1>3, <1>4 DEF RootStart
  <2>2. QED
      BY <1>1, <1>4, <2>1
         DEF WalkOK, BusInfoWalk, RootWalk, UnitWalk, LeafWalk, Walking,
             KeepDirs
<1>5. ASSUME left' = 0
      PROVE  configRom' = Parsed(rom)
  <2>1. Found(rom, configRom', unit_dir_addr', textual_leaf_addr')
      BY <1>1, <1>2, <1>3, <1>5 DEF Found, KeepDirs
  <2>2. unit_dir_addr = 0 /\ textual_leaf_addr = 0
      BY <1>1, NoEntries DEF HasRoot, RootKey, RootStart
  <2>3. /\ image \in Images /\ configRom' \in RomFields
        /\ unit_dir_addr' = 0 /\ textual_leaf_addr' = 0
      BY <2>2 DEF TInv, TypeOK, RomFields, KeepDirs
  <2>4. HasUnit(rom, UnitLen(rom), configRom')
      BY <1>1, <2>1, <2>3, RootEnds
  <2>5. QED
      BY <1>1, <2>1, <2>3, <2>4, UnitEnds
<1>6. QED
    BY <1>1, <1>4, <1>5

LEMMA RootEntryWalks ==
    ASSUME TInv, WalkOK, UNCHANGED image, place = "rootEntry", InRom(at),
           left' = left - 1,
           configRom' = IF Quadlet.key = KeyValues.capabilities
                  THEN [configRom EXCEPT !.node_capabilities = Quadlet.value]
                  ELSE configRom,
           unit_dir_addr' = IF Quadlet.key = KeyValues.unitDir
                            THEN at + Quadlet.value ELSE unit_dir_addr,
           textual_leaf_addr' = IF Quadlet.key = KeyValues.textualLeaf
                                THEN at + Quadlet.value ELSE textual_leaf_addr
    PROVE  /\ /\ left > 1 /\ place' = "rootEntry" /\ at' = at + 1
              => WalkOK'
           /\ left = 1 =>
                 /\ Found(image.rom, configRom', unit_dir_addr',
                          textual_leaf_addr')
                 /\ NoUnit(configRom') /\ NoName(configRom')
<1> DEFINE rom == image.rom
           k == RootLen(rom) - left
<1>1. /\ left \in 1 .. RootLen(rom) /\ at = RootStart + k
      /\ RootLen(rom) \in Nat
      /\ HasRoot(rom, k, configRom, unit_dir_addr, textual_leaf_addr)
      /\ NoUnit(configRom) /\ NoName(configRom) /\ Formatted(rom)
    BY DEF WalkOK, BusInfoWalk, RootWalk, Walking
<1>2. /\ image \in Images /\ configRom \in RomFields /\ left \in Nat
      /\ at \in Nat
    BY DEF TInv, TypeOK, RomFields
<1>3. RootLen(rom) \in Nat /\ k \in Nat /\ at >= 6
    BY <1>1, <1>2 DEF RootStart
<1>4. Quadlet = rom[RootStart + k + 1] /\ 6 \in DOMAIN rom
  <2>1. rom \in Seq(Views) /\ at + 1 \in DOMAIN rom
      BY <1>2, ImageTypes DEF InRom
  <2>2. QED
      BY <1>1, <1>2, <1>3, <2>1 DEF Quadlet
<1>5. /\ HasRoot(rom, k + 1, configRom', unit_dir_addr', textual_leaf_addr')
      /\ NoUnit(configRom') /\ NoName(configRom')
    BY <1>1, <1>2, <1>3, <1>4, RootGoesOn
<1>6. ASSUME left > 1, place' = "rootEntry", at' = at + 1
      PROVE  WalkOK'
  <2>1. /\ left' \in 1 .. RootLen(rom) /\ RootLen(rom) - left' = k + 1
        /\ at' = RootStart + (RootLen(rom) - left')
      BY <1>1, <1>2, <1>3, <1>6 DEF RootStart
  <2>2. QED
      BY <1>1, <1>3, <1>5, <1>6, <2>1
         DEF WalkOK, BusInfoWalk, RootWalk, UnitWalk, LeafWalk, Walking
<1>7. ASSUME left = 1
      PROVE  Found(rom, configRom', unit_dir_addr', textual_leaf_addr')
  <2>1. k + 1 = RootLen(rom)
      BY <1>3, <1>7
  <2>2. QED
      BY <1>1, <1>4, <1>5, <2>1 DEF Found
<1>8. QED
    BY <1>5, <1>6, <1>7

LEMMA UnitLengthWalks ==
    ASSUME TInv, WalkOK, UNCHANGED image, place = "unitLength", InRom(at),
           KeepDirs, configRom' = configRom, left' = Quadlet.len
    PROVE  /\ /\ left' > 0 /\ place' = "unitEntry" /\ at' = at + 1
              => WalkOK'
           /\ /\ Found(image.rom, configRom', unit_dir_addr',
                       textual_leaf_addr')
              /\ NoName(configRom')
           /\ left' = 0 => HasUnit(image.rom, UnitLen(image.rom), configRom')
<1> DEFINE rom == image.rom
<1>1. /\ at = UnitAt(rom) /\ UnitAt(rom) > 0 /\ NoUnit(configRom)
      /\ RootFound(rom) /\ NoName(configRom) /\ Formatted(rom)
    BY DEF WalkOK, BusInfoWalk, UnitWalk, Walking
<1>2. at \in Nat /\ Quadlet.len \in Nat
    BY QuadletType DEF TInv, TypeOK
<1>3. left' = UnitLen(rom) /\ left' \in Nat
    BY <1>1, <1>2 DEF UnitLen, Quadlet
<1>4. HasUnit(rom, 0, configRom')
    BY <1>1, <1>2, UnitBegins
<1>5. ASSUME left' > 0, place' = "unitEntry", at' = at + 1
      PROVE  WalkOK'
  <2>1. /\ left' \in 1 .. UnitLen(rom) /\ UnitLen(rom) - left' = 0
        /\ UnitLen(rom) \in Nat
        /\ at' = UnitAt(rom) + 1 + (UnitLen(rom) - left')
      BY <1>1, <1>2, <1>3, <1>5
  <2>2. QED
      BY <1>1, <1>4, <1>5, <2>1
         DEF WalkOK, BusInfoWalk, RootWalk, UnitWalk, LeafWalk, Walking,
             RootFound, KeepDirs
<1>6. QED
    BY <1>1, <1>3, <1>4, <1>5 DEF RootFound, KeepDirs

LEMMA UnitEntryWalks ==
    ASSUME TInv, WalkOK, UNCHANGED image, place = "unitEntry", InRom(at),
           KeepDirs, left' = left - 1,
           configRom' = UnitField(configRom, Quadlet)
    PROVE  /\ /\ left > 1 /\ place' = "unitEntry" /\ at' = at + 1
              => WalkOK'
           /\ /\ Found(image.rom, configRom', unit_dir_addr',
                       textual_leaf_addr')
              /\ NoName(configRom')
           /\ left = 1 => HasUnit(image.rom, UnitLen(image.rom), configRom')
<1> DEFINE rom == image.rom
           k == UnitLen(rom) - left
<1>1. /\ UnitAt(rom) > 0 /\ left \in 1 .. UnitLen(rom)
      /\ UnitLen(rom) \in Nat
      /\ at = UnitAt(rom) + 1 + k /\ HasUnit(rom, k, configRom)
      /\ RootFound(rom) /\ NoName(configRom) /\ Formatted(rom)
    BY DEF WalkOK, BusInfoWalk, UnitWalk, Walking
<1>2. /\ configRom \in RomFields /\ left \in Nat /\ at \in Nat
      /\ UnitAt(rom) \in Nat
    BY <1>1 DEF TInv, TypeOK, RomFields, RootFound, Found, HasRoot, UnitAt
<1>3. k \in Nat /\ UnitLen(rom) \in Int
    BY <1>1, <1>2
<1>4. Quadlet = rom[UnitAt(rom) + 1 + k + 1]
    BY <1>1 DEF Quadlet
<1>5. /\ HasUnit(rom, k + 1, configRom') /\ NoName(configRom')
      /\ configRom'.vendor_id = configRom.vendor_id
      /\ configRom'.node_capabilities = configRom.node_capabilities
    BY <1>1, <1>2, <1>3, <1>4, UnitGoesOn
<1>6. Found(rom, configRom', unit_dir_addr', textual_leaf_addr')
    BY <1>1, <1>5 DEF RootFound, Found, HasRoot, KeepDirs
<1>7. ASSUME left > 1, place' = "unitEntry", at' = at + 1
      PROVE  WalkOK'
  <2>1. /\ left' \in 1 .. UnitLen(rom) /\ UnitLen(rom) - left' = k + 1
        /\ at' = UnitAt(rom) + 1 + (UnitLen(rom) - left')
      BY <1>1, <1>2, <1>3, <1>7
  <2>2. QED
      BY <1>1, <1>3, <1>5, <1>6, <1>7, <2>1
         DEF WalkOK, BusInfoWalk, RootWalk, UnitWalk, LeafWalk, Walking,
             RootFound
<1>8. ASSUME left = 1
      PROVE  HasUnit(rom, UnitLen(rom), configRom')
  <2>1. k + 1 = UnitLen(rom)
      BY <1>3, <1>8
  <2>2. QED
      BY <1>5, <2>1
<1>9. QED
    BY <1>5, <1>6, <1>7, <1>8

LEMMA LeafLengthWalks ==
    ASSUME TInv, WalkOK, UNCHANGED image, place = "leafLength", InRom(at),
           KeepDirs, left' = LeafQuadlets(Quadlet.len),
           configRom' = [configRom EXCEPT !.vendor = left'],
           place' = "leaf", at' = at + 3
    PROVE  WalkOK'
<1> DEFINE rom == image.rom
<1>1. /\ at = LeafAt(rom) /\ LeafAt(rom) > 0 /\ Formatted(rom)
      /\ RootFound(rom) /\ HasUnit(rom, UnitLen(rom), configRom)
    BY DEF WalkOK, BusInfoWalk, LeafWalk, Walking
<1>2. configRom \in RomFields
    BY DEF TInv, TypeOK, RomFields
<1>3. /\ Found(rom, configRom', unit_dir_addr', textual_leaf_addr')
      /\ HasUnit(rom, UnitLen(rom), configRom') /\ configRom'.vendor = left'
    BY <1>1, <1>2
       DEF RootFound, Found, HasRoot, HasUnit, KeepDirs, RomFields, EmptyRom
<1>4. left' = LeafQuadlets(rom[LeafAt(rom) + 1].len)
    BY <1>1 DEF Quadlet
<1>5. BusInfoWalk(image.rom)' /\ RootWalk(image.rom)' /\ UnitWalk(image.rom)'
    BY <1>1 DEF BusInfoWalk, RootWalk, UnitWalk
<1>6. /\ at' = LeafAt(rom) + 3 /\ left' = LeafQuadlets(rom[LeafAt(rom) + 1].len)
      /\ configRom'.vendor = left' /\ LeafAt(rom) > 0
      /\ LeafAt(rom) + 1 \in DOMAIN rom
      /\ RootFound(rom)' /\ HasUnit(rom, UnitLen(rom), configRom')
    BY <1>1, <1>3, <1>4 DEF RootFound, InRom
<1>7. LeafWalk(image.rom)'
    BY <1>6 DEF LeafWalk
<1>8. QED
    BY <1>5, <1>7 DEF WalkOK

(* A leaf within the address space has its two language words: the length   *)
(* of a shorter one wraps to almost 2^30 quadlets.                          *)
LEMMA LengthBound == \A n \in Length16 : n \in Nat /\ n <= 65535
BY DEF Length16

LEMMA Pow26 == 2^26 = 67108864
OBVIOUS

LEMMA LeafWithinMemory ==
    ASSUME NEW n \in Length16, LeafQuadlets(n) <= 67108864
    PROVE  LeafQuadlets(n) = n - 2
<1>1. n \in Nat /\ n <= 65535
    BY LengthBound
<1>2. LeafQuadlets(n) = (n - 2) % 1073741824
    BY Pow30 DEF LeafQuadlets
<1>3. CASE n >= 2
    BY <1>1, <1>2, <1>3
<1>4. CASE n < 2
  <2>1. (n - 2) % 1073741824 = n + 1073741822
      BY <1>1, <1>4
  <2>2. QED
      BY <1>1, <1>2, <2>1
<1>5. QED
    BY <1>1, <1>3, <1>4

LEMMA LeafWalks ==
    ASSUME TInv, WalkOK, UNCHANGED image, place = "leaf", left = 0 \/ LeafInRom,
           configRom' = configRom
    PROVE  configRom' = Parsed(image.rom) /\ Formatted(image.rom)
<1> DEFINE rom == image.rom
<1>1. /\ at = LeafAt(rom) + 3 /\ LeafAt(rom) > 0 /\ Formatted(rom)
      /\ LeafAt(rom) + 1 \in DOMAIN rom
      /\ left = LeafQuadlets(rom[LeafAt(rom) + 1].len)
      /\ configRom.vendor = left /\ RootFound(rom)
      /\ HasUnit(rom, UnitLen(rom), configRom)
    BY DEF WalkOK, BusInfoWalk, LeafWalk, Walking
<1>2. /\ image \in Images /\ at \in Nat /\ left \in Nat
      /\ configRom \in RomFields
    BY DEF TInv, TypeOK, RomFields
<1>3. rom \in Seq(Views) /\ Len(rom) <= 67108864 /\ Len(rom) \in Nat
  <2>1. rom \in Seq(Views)
      BY <1>2, ImageTypes
  <2>2. Len(rom) <= 2^26
      BY <1>2, ImageAssumption, Zenon
  <2>3. QED
      BY <2>1, <2>2, Pow26
<1>4. LeafAt(rom) \in Nat /\ LeafAt(rom) = textual_leaf_addr
      /\ UnitAt(rom) = unit_dir_addr /\ UnitAt(rom) \in Nat
    BY <1>1 DEF TInv, TypeOK, RootFound, Found, HasRoot, LeafAt, UnitAt
<1>5. rom[LeafAt(rom) + 1].len \in Length16
  <2>1. rom[LeafAt(rom) + 1] \in Views
      BY <1>1, <1>3
  <2>2. QED
      BY <2>1, ViewTypes
<1>6. left <= 67108864
    BY <1>2, <1>3 DEF LeafInRom
<1>7. configRom.vendor = rom[LeafAt(rom) + 1].len - 2
    BY <1>1, <1>5, <1>6, LeafWithinMemory
<1>8. rom[6].len \in Nat
    BY <1>1, <1>2, ImageTypes, ViewTypes DEF RootFound, Found
<1>9. configRom = Parsed(rom)
    BY <1>1, <1>2, <1>4, <1>7, <1>8, CompleteIsParsed DEF RootFound, Found
<1>10. QED
    BY <1>1, <1>9

-----------------------------------------------------------------------------
(* What the parsers say, step by step.                                      *)
LEMMA InitWInv == ProbeInit => WInv
BY DEF ProbeInit, Init, WInv, WalkOK, BusInfoWalk, RootWalk, UnitWalk,
       LeafWalk, Walking, ValidRomIsTheNodes, UnreadableOnlyByMagic,
       ProbeAgreesWithLibrary, Probed, Answer, NoAnswer

LEMMA MixedWInv ==
    ASSUME mixed'
    PROVE  WInv'
BY DEF WInv, ValidRomIsTheNodes, UnreadableOnlyByMagic,
       ProbeAgreesWithLibrary, Probed

LEMMA IdleWalkNext ==
    ASSUME place' \in {"idle", "memory"}
    PROVE  WalkOK'
BY DEF WalkOK, BusInfoWalk, RootWalk, UnitWalk, LeafWalk, Walking

LEMMA GoesOnWInv ==
    ASSUME TInv', WalkOK', place' \notin {"idle", "memory"}
    PROVE  WInv'
<1>1. ~configRomRead' /\ ~configRomValid' /\ answer' = NoAnswer
    BY DEF TInv, FlagsOK, Walking
<1>2. \A v : NoAnswer # Answer(v)
    BY DEF NoAnswer, Answer
<1>3. QED
    BY <1>1, <1>2
       DEF WInv, ValidRomIsTheNodes, UnreadableOnlyByMagic,
           ProbeAgreesWithLibrary, Probed

LEMMA EndsWInv ==
    ASSUME program' = "library", UNCHANGED image,
           place' \in {"idle", "memory"},
           NEW valid \in BOOLEAN,
           configRomRead' = TRUE, configRomValid' = valid,
           valid => configRom' = Parsed(image.rom),
           ~valid => image.rom[1].key = 4 /\ image.rom[2].value # MAGIC
    PROVE  WInv'
BY IdleWalkNext
   DEF WInv, ValidRomIsTheNodes, UnreadableOnlyByMagic,
       ProbeAgreesWithLibrary, Probed

LEMMA CachedEnds ==
    ASSUME NEW valid \in BOOLEAN, Cached(valid), configRom' \in RomFields
    PROVE  /\ configRomRead' = TRUE /\ configRomValid' = valid
           /\ place' \in {"idle", "memory"}
BY DeliverType DEF Cached

LEMMA KeepsWInv ==
    ASSUME WInv, place' \in {"idle", "memory"}, UNCHANGED romVars,
           UNCHANGED image, UNCHANGED mixed, program' = "library"
    PROVE  WInv'
BY IdleWalkNext
   DEF WInv, ValidRomIsTheNodes, UnreadableOnlyByMagic,
       ProbeAgreesWithLibrary, Probed, romVars

LEMMA CallGetterWInv ==
    ASSUME TInv, WInv, program = "library", NEW c \in Calls, CallGetter(c),
           UNCHANGED probeVars
    PROVE  WInv'
<1>1. TInv' /\ UNCHANGED image /\ program' = "library"
    BY CallGetterTInv DEF CallGetter, nodeVars, probeVars
<1>2. CASE place' = "header"
  <2>1. WalkOK'
      BY <1>2, StartsWalk
         DEF CallGetter, WalkOK, BusInfoWalk, RootWalk, UnitWalk, LeafWalk,
             Walking, Fresh
  <2>2. QED
      BY <1>1, <1>2, <2>1, GoesOnWInv
<1>3. CASE place' # "header"
  <2>1. /\ KeepRom /\ Deliver(c, configRom, configRomValid)
        /\ UNCHANGED mixed
      BY <1>3 DEF CallGetter
  <2>2. place' \in {"idle", "memory"}
      BY <2>1, DeliverType DEF TInv, TypeOK, RomFields
  <2>3. QED
      BY <1>1, <2>1, <2>2, KeepsWInv DEF KeepRom
<1>4. QED
    BY <1>2, <1>3

(* A step of the library's walk that ends it has found what the ROM says.   *)
LEMMA LibraryEnds ==
    ASSUME UNCHANGED image, program' = "library", configRom' \in RomFields,
           FinishParsing, configRom' = Parsed(image.rom)
    PROVE  WInv'
<1>1. /\ configRomRead' = TRUE /\ configRomValid' = TRUE
      /\ place' \in {"idle", "memory"}
    BY CachedEnds DEF FinishParsing
<1>2. QED
    BY <1>1, EndsWInv

LEMMA LibraryAfterUnit ==
    ASSUME TInv', UNCHANGED image, program' = "library",
           Found(image.rom, configRom', unit_dir_addr', textual_leaf_addr'),
           HasUnit(image.rom, UnitLen(image.rom), configRom'),
           NoName(configRom'), AfterUnit(textual_leaf_addr')
    PROVE  WInv'
<1>1. /\ image \in Images /\ configRom' \in RomFields
      /\ unit_dir_addr' \in Nat /\ textual_leaf_addr' \in Nat
    BY DEF TInv, TypeOK, RomFields
<1>2. CASE textual_leaf_addr' > 0 /\ ReadAt("leafLength", textual_leaf_addr')
  <2>1. WalkOK' /\ place' = "leafLength"
      BY <1>1, <1>2, UnitEnds DEF ReadAt
  <2>2. QED
      BY <2>1, GoesOnWInv
<1>3. CASE textual_leaf_addr' = 0 /\ FinishParsing
    BY <1>1, <1>3, UnitEnds, LibraryEnds
<1>4. QED
    BY <1>2, <1>3 DEF AfterUnit

LEMMA LibraryAfterRoot ==
    ASSUME TInv', UNCHANGED image, program' = "library",
           Found(image.rom, configRom', unit_dir_addr', textual_leaf_addr'),
           NoUnit(configRom'), NoName(configRom'),
           AfterRoot(unit_dir_addr', textual_leaf_addr')
    PROVE  WInv'
<1>1. /\ image \in Images /\ configRom' \in RomFields
      /\ unit_dir_addr' \in Nat /\ textual_leaf_addr' \in Nat
    BY DEF TInv, TypeOK, RomFields
<1>2. CASE unit_dir_addr' > 0 /\ ReadAt("unitLength", unit_dir_addr')
  <2>1. WalkOK' /\ place' = "unitLength"
      BY <1>1, <1>2, RootEnds DEF ReadAt
  <2>2. QED
      BY <2>1, GoesOnWInv
<1>3. CASE unit_dir_addr' = 0 /\ AfterUnit(textual_leaf_addr')
    BY <1>1, <1>3, RootEnds, LibraryAfterUnit
<1>4. QED
    BY <1>2, <1>3 DEF AfterRoot

(* All reads of the library but that of the memory.                         *)
LEMMA LibraryWalkWInv ==
    ASSUME TInv, WInv, program = "library", Walk, place # "memory",
           UNCHANGED probeVars
    PROVE  WInv'
<1>1. TInv'
    BY LibraryTInv DEF Next
<1>2. /\ UNCHANGED image /\ UNCHANGED mixed /\ program' = "library" /\ ~lost
    BY DEF Walk, ReadHeader, ReadMagic, ReadBusInfo, ReadRootLength,
           ReadRootEntry, ReadUnitLength, ReadUnitEntry, ReadLeafLength,
           ReadLeaf, ReadMemory, nodeVars, probeVars, TInv, FlagsOK
<1>3. CASE mixed
    BY <1>2, <1>3, MixedWInv
<1>4. CASE Throw
    BY <1>2, <1>4, KeepsWInv DEF Throw
<1> SUFFICES ASSUME ~mixed, ~Throw
             PROVE  WInv'
    BY <1>3, <1>4
<1>5. WalkOK /\ configRom' \in RomFields
    BY <1>1, <1>2 DEF WInv, TInv, TypeOK, RomFields
<1>6. CASE ReadHeader
  <2>1. place = "header" /\ InRom(at) /\ KeepDirs
      BY <1>6 DEF ReadHeader, ReadFails
  <2>2. CASE /\ Quadlet.key # 4
             /\ configRom' = [configRom EXCEPT !.vendor_id = Quadlet.value]
             /\ FinishParsing
      BY <1>2, <1>5, <2>1, <2>2, HeaderWalks, LibraryEnds
  <2>3. CASE Quadlet.key = 4 /\ KeepRom /\ ReadAt("magic", at + 1)
    <3>1. WalkOK' /\ place' = "magic"
        BY <1>2, <1>5, <2>1, <2>3, HeaderWalks DEF ReadAt, KeepRom, romVars
    <3>2. QED
        BY <1>1, <3>1, GoesOnWInv
  <2>4. QED
      BY <1>6, <2>2, <2>3 DEF ReadHeader, ReadFails
<1>7. CASE ReadMagic
  <2>1. place = "magic" /\ InRom(at) /\ KeepDirs /\ configRom' = configRom
      BY <1>7 DEF ReadMagic, ReadFails, KeepRom, romVars
  <2>2. CASE Quadlet.value # MAGIC /\ Cached(FALSE)
    <3>1. image.rom[1].key = 4 /\ image.rom[2].value # MAGIC
        BY <1>2, <1>5, <2>1, <2>2, MagicWalks
    <3>2. /\ configRomRead' = TRUE /\ configRomValid' = FALSE
          /\ place' \in {"idle", "memory"}
        BY <1>5, <2>2, CachedEnds
    <3>3. QED
        BY <1>2, <3>1, <3>2, EndsWInv
  <2>3. CASE Quadlet.value = MAGIC /\ ReadAt("caps", at + 1)
    <3>1. WalkOK' /\ place' = "caps"
        BY <1>2, <1>5, <2>1, <2>3, MagicWalks DEF ReadAt
    <3>2. QED
        BY <1>1, <3>1, GoesOnWInv
  <2>4. QED
      BY <1>7, <2>2, <2>3 DEF ReadMagic, ReadFails
<1>8. CASE ReadBusInfo
  <2>1. /\ InRom(at) /\ KeepDirs /\ at' = at + 1
        /\ \/ place = "caps" /\ place' = "vendor" /\ configRom' = configRom
           \/ /\ place = "vendor" /\ place' = "guid"
              /\ configRom' = [configRom EXCEPT !.vendor_id = Quadlet.value]
           \/ /\ place = "guid" /\ place' = "rootLength"
              /\ configRom' = configRom
      BY <1>8 DEF ReadBusInfo, ReadFails, ReadAt
  <2>2. WalkOK' /\ place' \notin {"idle", "memory"}
      BY <1>2, <1>5, <2>1, BusInfoWalks
  <2>3. QED
      BY <1>1, <2>2, GoesOnWInv
<1>9. CASE ReadRootLength
  <2>1. /\ place = "rootLength" /\ InRom(at) /\ KeepDirs
        /\ configRom' = configRom /\ left' = RootLength(Quadlet.len)
      BY <1>9 DEF ReadRootLength, ReadFails
  <2>2. CASE left' > 0 /\ ReadAt("rootEntry", at + 1)
    <3>1. WalkOK' /\ place' = "rootEntry"
        BY <1>2, <1>5, <2>1, <2>2, RootLengthWalks DEF ReadAt
    <3>2. QED
        BY <1>1, <3>1, GoesOnWInv
  <2>3. CASE left' = 0 /\ FinishParsing
      BY <1>2, <1>5, <2>1, <2>3, RootLengthWalks, LibraryEnds
  <2>4. QED
      BY <1>9, <2>2, <2>3 DEF ReadRootLength, ReadFails
<1>10. CASE ReadRootEntry
  <2>1. /\ place = "rootEntry" /\ InRom(at) /\ left' = left - 1
        /\ configRom' = IF Quadlet.key = KeyValues.capabilities
                  THEN [configRom EXCEPT !.node_capabilities = Quadlet.value]
                  ELSE configRom
        /\ unit_dir_addr' = IF Quadlet.key = KeyValues.unitDir
                            THEN at + Quadlet.value ELSE unit_dir_addr
        /\ textual_leaf_addr' = IF Quadlet.key = KeyValues.textualLeaf
                                THEN at + Quadlet.value ELSE textual_leaf_addr
      BY <1>10 DEF ReadRootEntry, ReadFails, Target
  <2>2. CASE left > 1 /\ ReadAt("rootEntry", at + 1)
    <3>1. WalkOK' /\ place' = "rootEntry"
        BY <1>2, <1>5, <2>1, <2>2, RootEntryWalks DEF ReadAt
    <3>2. QED
        BY <1>1, <3>1, GoesOnWInv
  <2>3. CASE left = 1 /\ AfterRoot(unit_dir_addr', textual_leaf_addr')
    <3>1. /\ Found(image.rom, configRom', unit_dir_addr', textual_leaf_addr')
          /\ NoUnit(configRom') /\ NoName(configRom')
        BY <1>2, <1>5, <2>1, <2>3, RootEntryWalks
    <3>2. QED
        BY <1>1, <1>2, <2>3, <3>1, LibraryAfterRoot
  <2>4. QED
      BY <1>10, <2>2, <2>3 DEF ReadRootEntry, ReadFails
<1>11. CASE ReadUnitLength
  <2>1. /\ place = "unitLength" /\ InRom(at) /\ KeepDirs
        /\ configRom' = configRom /\ left' = Quadlet.len
      BY <1>11 DEF ReadUnitLength, ReadFails
  <2>2. CASE left' > 0 /\ ReadAt("unitEntry", at + 1)
    <3>1. WalkOK' /\ place' = "unitEntry"
        BY <1>2, <1>5, <2>1, <2>2, UnitLengthWalks DEF ReadAt
    <3>2. QED
        BY <1>1, <3>1, GoesOnWInv
  <2>3. CASE left' = 0 /\ AfterUnit(textual_leaf_addr)
    <3>1. AfterUnit(textual_leaf_addr')
        BY <2>1, <2>3 DEF KeepDirs
    <3>2. QED
        BY <1>1, <1>2, <1>5, <2>1, <2>3, <3>1, UnitLengthWalks,
           LibraryAfterUnit
  <2>4. QED
      BY <1>11, <2>2, <2>3 DEF ReadUnitLength, ReadFails
<1>12. CASE ReadUnitEntry
  <2>1. /\ place = "unitEntry" /\ InRom(at) /\ KeepDirs /\ left' = left - 1
        /\ configRom' = UnitField(configRom, Quadlet)
      BY <1>12 DEF ReadUnitEntry, ReadFails
  <2>2. CASE left > 1 /\ ReadAt("unitEntry", at + 1)
    <3>1. WalkOK' /\ place' = "unitEntry"
        BY <1>2, <1>5, <2>1, <2>2, UnitEntryWalks DEF ReadAt
    <3>2. QED
        BY <1>1, <3>1, GoesOnWInv
  <2>3. CASE left = 1 /\ AfterUnit(textual_leaf_addr)
    <3>1. AfterUnit(textual_leaf_addr')
        BY <2>1, <2>3 DEF KeepDirs
    <3>2. QED
        BY <1>1, <1>2, <1>5, <2>1, <2>3, <3>1, UnitEntryWalks,
           LibraryAfterUnit
  <2>4. QED
      BY <1>12, <2>2, <2>3 DEF ReadUnitEntry, ReadFails
<1>13. CASE ReadLeafLength
  <2>1. /\ place = "leafLength" /\ InRom(at) /\ KeepDirs
        /\ left' = LeafQuadlets(Quadlet.len)
        /\ configRom' = [configRom EXCEPT !.vendor = left']
        /\ place' = "leaf" /\ at' = at + 3
      BY <1>13 DEF ReadLeafLength, ReadFails, ReadAt
  <2>2. WalkOK'
      BY <1>2, <1>5, <2>1, LeafLengthWalks
  <2>3. QED
      BY <1>1, <2>1, <2>2, GoesOnWInv
<1>14. CASE ReadLeaf
  <2>1. /\ place = "leaf" /\ (left = 0 \/ LeafInRom) /\ configRom' = configRom
        /\ FinishParsing
      BY <1>14 DEF ReadLeaf
  <2>2. configRom' = Parsed(image.rom)
      BY <1>2, <1>5, <2>1, LeafWalks
  <2>3. QED
      BY <1>2, <1>5, <2>1, <2>2, LibraryEnds
<1>15. QED
    BY <1>6, <1>7, <1>8, <1>9, <1>10, <1>11, <1>12, <1>13, <1>14
       DEF Walk, ReadMemory

LEMMA ReadMemoryWInv ==
    ASSUME WInv, program = "library", ReadMemory, UNCHANGED probeVars
    PROVE  WInv'
<1>1. /\ place' = "idle" /\ UNCHANGED romVars /\ UNCHANGED image
      /\ UNCHANGED mixed /\ program' = "library"
    BY DEF ReadMemory, Throw, KeepRom, nodeVars, probeVars
<1>2. QED
    BY <1>1, KeepsWInv

(* The probe: a return of 0, and of 1, when no read was lost.               *)
LEMMA ReturnsWInv ==
    ASSUME TInv', UNCHANGED image, program' = "probe", NEW v \in {0, 1},
           Return(v),
           v = 0 => /\ image.rom[1].key # 4 \/ image.rom[2].value = MAGIC
                    /\ configRom' = Parsed(image.rom),
           v = 1 => image.rom[1].key = 4 /\ image.rom[2].value # MAGIC
    PROVE  WInv'
<1>1. ~configRomRead' /\ ~configRomValid'
    BY DEF TInv, FlagsOK
<1>2. WalkOK' /\ answer' = Answer(v)
    BY IdleWalkNext DEF Return
<1>3. Answer(0) # Answer(1)
    BY DEF Answer
<1>4. ProbeAgreesWithLibrary'
    BY <1>2, <1>3 DEF ProbeAgreesWithLibrary, Probed
<1>5. QED
    BY <1>1, <1>2, <1>4
       DEF WInv, ValidRomIsTheNodes, UnreadableOnlyByMagic

(* Of a walk that lost a read nothing more is said.                         *)
LEMMA LostWInv ==
    ASSUME TInv', lost', program' = "probe"
    PROVE  WInv'
BY DEF TInv, FlagsOK, WInv, ValidRomIsTheNodes, UnreadableOnlyByMagic,
       ProbeAgreesWithLibrary

LEMMA ProbeNodeWInv ==
    ASSUME TInv, program = "probe", probe_node
    PROVE  WInv'
<1>1. TInv'
    BY ProbeNodeTInv
<1>2. WalkOK' /\ place' = "header"
    BY DEF probe_node, WalkOK, BusInfoWalk, RootWalk, UnitWalk, LeafWalk,
           Walking, Fresh
<1>3. QED
    BY <1>1, <1>2, GoesOnWInv

LEMMA ProbeAfterUnit ==
    ASSUME TInv', UNCHANGED image, program' = "probe",
           Found(image.rom, configRom', unit_dir_addr', textual_leaf_addr'),
           HasUnit(image.rom, UnitLen(image.rom), configRom'),
           NoName(configRom'), LeafOrEnd(textual_leaf_addr')
    PROVE  WInv'
<1>1. /\ image \in Images /\ configRom' \in RomFields
      /\ unit_dir_addr' \in Nat /\ textual_leaf_addr' \in Nat
    BY DEF TInv, TypeOK, RomFields
<1>2. CASE textual_leaf_addr' > 0 /\ ReadAt("leafLength", textual_leaf_addr')
  <2>1. WalkOK' /\ place' = "leafLength"
      BY <1>1, <1>2, UnitEnds DEF ReadAt
  <2>2. QED
      BY <2>1, GoesOnWInv
<1>3. CASE textual_leaf_addr' = 0 /\ Return(0)
  <2>1. configRom' = Parsed(image.rom) /\ image.rom[2].value = MAGIC
      BY <1>1, <1>3, UnitEnds DEF Found, Formatted
  <2>2. QED
      BY <1>3, <2>1, ReturnsWInv
<1>4. QED
    BY <1>2, <1>3 DEF LeafOrEnd

LEMMA ProbeAfterRoot ==
    ASSUME TInv', UNCHANGED image, program' = "probe",
           Found(image.rom, configRom', unit_dir_addr', textual_leaf_addr'),
           NoUnit(configRom'), NoName(configRom'),
           UnitOrLeaf(unit_dir_addr', textual_leaf_addr')
    PROVE  WInv'
<1>1. /\ image \in Images /\ configRom' \in RomFields
      /\ unit_dir_addr' \in Nat /\ textual_leaf_addr' \in Nat
    BY DEF TInv, TypeOK, RomFields
<1>2. CASE unit_dir_addr' > 0 /\ ReadAt("unitLength", unit_dir_addr')
  <2>1. WalkOK' /\ place' = "unitLength"
      BY <1>1, <1>2, RootEnds DEF ReadAt
  <2>2. QED
      BY <2>1, GoesOnWInv
<1>3. CASE unit_dir_addr' = 0 /\ LeafOrEnd(textual_leaf_addr')
    BY <1>1, <1>3, RootEnds, ProbeAfterUnit
<1>4. QED
    BY <1>2, <1>3 DEF UnitOrLeaf

LEMMA ProbeQuadletWInv ==
    ASSUME TInv, WInv, program = "probe", ProbeQuadlet
    PROVE  WInv'
<1>1. TInv'
    BY ProbeQuadletTInv
<1>2. PICK q \in Quadlets :
          /\ read_config_rom_quadlet(q)
          /\ \/ ProbeHeader(q) \/ ProbeMagic(q) \/ ProbeBusInfo(q)
             \/ ProbeRootLength(q) \/ ProbeRootEntry(q)
             \/ ProbeUnitLength(q) \/ ProbeUnitEntry(q) \/ ProbeLeafLength(q)
          /\ Untouched
    BY DEF ProbeQuadlet
<1>3. UNCHANGED image /\ UNCHANGED mixed /\ program' = "probe"
    BY <1>2 DEF Untouched, nodeVars
<1>4. CASE mixed
    BY <1>3, <1>4, MixedWInv
<1>5. CASE lost'
    BY <1>1, <1>3, <1>5, LostWInv
<1> SUFFICES ASSUME ~mixed, ~lost'
             PROVE  WInv'
    BY <1>4, <1>5
<1>6. InRom(at) /\ q = Quadlet /\ ~lost
    BY <1>2 DEF read_config_rom_quadlet
<1>7. WalkOK /\ configRom' \in RomFields
    BY <1>1, <1>6 DEF WInv, TInv, TypeOK, RomFields
<1>8. CASE ProbeHeader(q)
  <2>1. place = "header" /\ KeepDirs
      BY <1>8 DEF ProbeHeader
  <2>2. CASE /\ q.key # 4 /\ Return(0)
             /\ configRom' = [configRom EXCEPT !.vendor_id = q.value]
    <3>1. image.rom[1].key # 4 /\ configRom' = Parsed(image.rom)
        BY <1>3, <1>6, <1>7, <2>1, <2>2, HeaderWalks
    <3>2. QED
        BY <1>1, <1>3, <2>2, <3>1, ReturnsWInv
  <2>3. CASE q.key = 4 /\ ReadAt("magic", at + 1) /\ UNCHANGED configRom
    <3>1. WalkOK' /\ place' = "magic"
        BY <1>3, <1>6, <1>7, <2>1, <2>3, HeaderWalks DEF ReadAt
    <3>2. QED
        BY <1>1, <3>1, GoesOnWInv
  <2>4. QED
      BY <1>8, <2>2, <2>3 DEF ProbeHeader
<1>9. CASE ProbeMagic(q)
  <2>1. place = "magic" /\ KeepDirs /\ configRom' = configRom
      BY <1>9 DEF ProbeMagic
  <2>2. CASE q.value # MAGIC /\ Return(1)
    <3>1. image.rom[1].key = 4 /\ image.rom[2].value # MAGIC
        BY <1>3, <1>6, <1>7, <2>1, <2>2, MagicWalks
    <3>2. QED
        BY <1>1, <1>3, <2>2, <3>1, ReturnsWInv
  <2>3. CASE q.value = MAGIC /\ ReadAt("caps", at + 1)
    <3>1. WalkOK' /\ place' = "caps"
        BY <1>3, <1>6, <1>7, <2>1, <2>3, MagicWalks DEF ReadAt
    <3>2. QED
        BY <1>1, <3>1, GoesOnWInv
  <2>4. QED
      BY <1>9, <2>2, <2>3 DEF ProbeMagic
<1>10. CASE ProbeBusInfo(q)
  <2>1. /\ KeepDirs /\ at' = at + 1
        /\ \/ place = "caps" /\ place' = "vendor" /\ configRom' = configRom
           \/ /\ place = "vendor" /\ place' = "guid"
              /\ configRom' = [configRom EXCEPT !.vendor_id = Quadlet.value]
           \/ /\ place = "guid" /\ place' = "rootLength"
              /\ configRom' = configRom
      BY <1>6, <1>10 DEF ProbeBusInfo, ReadAt
  <2>2. WalkOK' /\ place' \notin {"idle", "memory"}
      BY <1>3, <1>6, <1>7, <2>1, BusInfoWalks
  <2>3. QED
      BY <1>1, <2>2, GoesOnWInv
<1>11. CASE ProbeRootLength(q)
  <2>1. /\ place = "rootLength" /\ KeepDirs
        /\ configRom' = configRom /\ left' = RootLength(Quadlet.len)
      BY <1>6, <1>11 DEF ProbeRootLength
  <2>2. CASE left' > 0 /\ ReadAt("rootEntry", at + 1)
    <3>1. WalkOK' /\ place' = "rootEntry"
        BY <1>3, <1>6, <1>7, <2>1, <2>2, RootLengthWalks DEF ReadAt
    <3>2. QED
        BY <1>1, <3>1, GoesOnWInv
  <2>3. CASE left' = 0 /\ Return(0)
    <3>1. configRom' = Parsed(image.rom) /\ image.rom[2].value = MAGIC
        BY <1>3, <1>6, <1>7, <2>1, <2>3, RootLengthWalks DEF Formatted
    <3>2. QED
        BY <1>1, <1>3, <2>3, <3>1, ReturnsWInv
  <2>4. QED
      BY <1>11, <2>2, <2>3 DEF ProbeRootLength
<1>12. CASE ProbeRootEntry(q)
  <2>1. /\ place = "rootEntry" /\ left' = left - 1
        /\ configRom' = IF Quadlet.key = KeyValues.capabilities
                  THEN [configRom EXCEPT !.node_capabilities = Quadlet.value]
                  ELSE configRom
        /\ unit_dir_addr' = IF Quadlet.key = KeyValues.unitDir
                            THEN at + Quadlet.value ELSE unit_dir_addr
        /\ textual_leaf_addr' = IF Quadlet.key = KeyValues.textualLeaf
                                THEN at + Quadlet.value ELSE textual_leaf_addr
      BY <1>6, <1>12 DEF ProbeRootEntry, FromDirectory
  <2>2. CASE left > 1 /\ ReadAt("rootEntry", at + 1)
    <3>1. WalkOK' /\ place' = "rootEntry"
        BY <1>3, <1>6, <1>7, <2>1, <2>2, RootEntryWalks DEF ReadAt
    <3>2. QED
        BY <1>1, <3>1, GoesOnWInv
  <2>3. CASE left = 1 /\ UnitOrLeaf(unit_dir_addr', textual_leaf_addr')
    <3>1. /\ Found(image.rom, configRom', unit_dir_addr', textual_leaf_addr')
          /\ NoUnit(configRom') /\ NoName(configRom')
        BY <1>3, <1>6, <1>7, <2>1, <2>3, RootEntryWalks
    <3>2. QED
        BY <1>1, <1>3, <2>3, <3>1, ProbeAfterRoot
  <2>4. QED
      BY <1>12, <2>2, <2>3 DEF ProbeRootEntry
<1>13. CASE ProbeUnitLength(q)
  <2>1. /\ place = "unitLength" /\ KeepDirs
        /\ configRom' = configRom /\ left' = Quadlet.len
      BY <1>6, <1>13 DEF ProbeUnitLength
  <2>2. CASE left' > 0 /\ ReadAt("unitEntry", at + 1)
    <3>1. WalkOK' /\ place' = "unitEntry"
        BY <1>3, <1>6, <1>7, <2>1, <2>2, UnitLengthWalks DEF ReadAt
    <3>2. QED
        BY <1>1, <3>1, GoesOnWInv
  <2>3. CASE left' = 0 /\ LeafOrEnd(textual_leaf_addr)
    <3>1. LeafOrEnd(textual_leaf_addr')
        BY <2>1, <2>3 DEF KeepDirs
    <3>2. QED
        BY <1>1, <1>3, <1>6, <1>7, <2>1, <2>3, <3>1, UnitLengthWalks,
           ProbeAfterUnit
  <2>4. QED
      BY <1>13, <2>2, <2>3 DEF ProbeUnitLength
<1>14. CASE ProbeUnitEntry(q)
  <2>1. /\ place = "unitEntry" /\ KeepDirs /\ left' = left - 1
        /\ configRom' = UnitField(configRom, Quadlet)
      BY <1>6, <1>14 DEF ProbeUnitEntry, ProbeField
  <2>2. CASE left > 1 /\ ReadAt("unitEntry", at + 1)
    <3>1. WalkOK' /\ place' = "unitEntry"
        BY <1>3, <1>6, <1>7, <2>1, <2>2, UnitEntryWalks DEF ReadAt
    <3>2. QED
        BY <1>1, <3>1, GoesOnWInv
  <2>3. CASE left = 1 /\ LeafOrEnd(textual_leaf_addr)
    <3>1. LeafOrEnd(textual_leaf_addr')
        BY <2>1, <2>3 DEF KeepDirs
    <3>2. QED
        BY <1>1, <1>3, <1>6, <1>7, <2>1, <2>3, <3>1, UnitEntryWalks,
           ProbeAfterUnit
  <2>4. QED
      BY <1>14, <2>2, <2>3 DEF ProbeUnitEntry
<1>15. CASE ProbeLeafLength(q)
  <2>1. /\ place = "leafLength" /\ KeepDirs
        /\ left' = LeafQuadlets(Quadlet.len)
        /\ configRom' = [configRom EXCEPT !.vendor = left']
        /\ place' = "leaf" /\ at' = at + 3
      BY <1>6, <1>15 DEF ProbeLeafLength, ReadAt
  <2>2. WalkOK'
      BY <1>3, <1>6, <1>7, <2>1, LeafLengthWalks
  <2>3. QED
      BY <1>1, <2>1, <2>2, GoesOnWInv
<1>16. QED
    BY <1>2, <1>8, <1>9, <1>10, <1>11, <1>12, <1>13, <1>14, <1>15

LEMMA ProbeLeafWInv ==
    ASSUME TInv, WInv, program = "probe", ProbeLeaf
    PROVE  WInv'
<1>1. /\ TInv' /\ UNCHANGED image /\ UNCHANGED mixed /\ program' = "probe"
      /\ Return(0) /\ place = "leaf" /\ configRom' = configRom
    BY ProbeLeafTInv DEF ProbeLeaf, Untouched, nodeVars
<1>2. CASE mixed
    BY <1>1, <1>2, MixedWInv
<1>3. CASE lost'
    BY <1>1, <1>3, LostWInv
<1>4. CASE ~mixed /\ ~lost'
  <2>1. LeafInRom /\ ~lost
      BY <1>4 DEF ProbeLeaf
  <2>2. WalkOK
      BY <1>4, <2>1 DEF WInv
  <2>3. configRom' = Parsed(image.rom) /\ image.rom[2].value = MAGIC
      BY <1>1, <2>1, <2>2, LeafWalks DEF Formatted
  <2>4. QED
      BY <1>1, <2>3, ReturnsWInv
<1>5. QED
    BY <1>2, <1>3, <1>4

LEMMA StutterWInv == WInv /\ UNCHANGED allVars => WInv'
BY DEF WInv, WalkOK, BusInfoWalk, RootWalk, UnitWalk, LeafWalk, Walking,
       RootFound, Fresh, ValidRomIsTheNodes, UnreadableOnlyByMagic,
       ProbeAgreesWithLibrary, Probed, allVars, probeVars, vars, romVars,
       walkVars, nodeVars

LEMMA StepWInv == TInv /\ WInv /\ [ProbeNext]_allVars => WInv'
<1> SUFFICES ASSUME TInv, WInv, [ProbeNext]_allVars PROVE WInv'
    OBVIOUS
<1>1. ASSUME BusReset PROVE WInv'
    BY <1>1, MixedWInv DEF BusReset
<1>2. ASSUME program = "library", Next, UNCHANGED probeVars PROVE WInv'
  <2>1. CASE Walk /\ place # "memory"
      BY <1>2, <2>1, LibraryWalkWInv
  <2>2. CASE Walk /\ place = "memory"
      BY <1>2, <2>2, MemoryKeepsRom, ReadMemoryWInv
  <2>3. QED
      BY <1>1, <1>2, <2>1, <2>2, CallGetterWInv DEF Next
<1>3. QED
    BY <1>1, <1>2, StutterWInv, ProbeNodeWInv, ProbeQuadletWInv, ProbeLeafWInv
       DEF ProbeNext, Probing, ResetBetweenProbes

LEMMA WalkIsRight == ProbeSpec => []WInv
BY InitWInv, StepWInv, ProbeTyped, PTL DEF ProbeSpec

-----------------------------------------------------------------------------
(* Of any ROM, also a damaged one, the parsers take quadlets for what they  *)
(* are: every field, index and count of the walk keeps its type.            *)
THEOREM ParserTypeCorrect == ProbeSpec => []TypeOK
BY ProbeTyped, PTL DEF TInv

(* A ROM that getConfigRom returned never changes again.                    *)
THEOREM CachedRomStays == ProbeSpec => CachedRomIsStable
<1>1. TInv /\ [ProbeNext]_allVars => [configRomRead => UNCHANGED romVars]_vars
    BY StepKeepsRom DEF allVars
<1>2. QED
    BY <1>1, ProbeTyped, PTL DEF ProbeSpec, CachedRomIsStable

(* isSensableDevice says yes only of a node with the vendor in its memory,  *)
(* whatever the bus renumbered in between.                                  *)
THEOREM SensableAnswers == ProbeSpec => SensableIsPresent
<1>1. TInv /\ [ProbeNext]_allVars =>
          [call' = "isSensableDevice" /\ answer' = Answer(1)
           /\ answer' # answer => image.vendor = SENSABLE]_vars
    BY StepSaysYes DEF allVars
<1>2. QED
    BY <1>1, ProbeTyped, PTL DEF ProbeSpec, SensableIsPresent

(* readConfigRom finds in every ROM, of whatever length and content, what   *)
(* the ROM says: the last entry of each key.                                *)
THEOREM LibraryParsesRom == ProbeSpec => []ValidRomIsTheNodes
BY WalkIsRight, PTL DEF WInv

(* Only a wrong magic number makes a device unreadable for good.            *)
THEOREM UnreadableIsMagic == ProbeSpec => []UnreadableOnlyByMagic
BY WalkIsRight, PTL DEF WInv

(* probe_node and readConfigRom agree about every ROM that can be read.     *)
THEOREM ProbeParsesRom == ProbeSpec => []ProbeAgreesWithLibrary
BY WalkIsRight, PTL DEF WInv

(* Reads lost at any places of probe_node's walk do not make it take a node *)
(* for another: a field is 0 or in the ROM.                                 *)
THEOREM LostReadsHide == ProbeSpec => []LostReadsOnlyHide
<1>1. LInv => LostReadsOnlyHide
    BY DEF LInv, FieldsInRom, LostReadsOnlyHide, Probed
<1>2. QED
    BY <1>1, LostReads, PTL
=============================================================================
