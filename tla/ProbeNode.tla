----------------------------- MODULE ProbeNode -----------------------------
(***************************************************************************)
(* rev-eng/probe-node.c, the parser of the configuration ROM which omni    *)
(* and test-probe use and from which FirewireDevice::readConfigRom was     *)
(* made.  It walks the same directories, but it keeps nothing between two  *)
(* calls and it does not notice a failed read: read_config_rom answers 1,  *)
(* its callers look for a negative value, and the walk goes on with a      *)
(* quadlet that is 0.                                                      *)
(*                                                                         *)
(* A process is a program of the library or one that probes; the variables *)
(* of ConfigRom stand for the locals of the walk (at for offset, left for  *)
(* len - i), configRom for *crom and answer for the return value.          *)
(***************************************************************************)
EXTENDS ConfigRom

VARIABLES program,   \* which of the two programs the process runs
          lost       \* history: a read of this probe failed

probeVars == <<program, lost>>
allVars == <<vars, probeVars>>

ASSUME MagicAssumption == MAGIC # 0    \* "1394"

-----------------------------------------------------------------------------
(* read_config_rom_quadlet: *quadlet = 0, then the read.                    *)
Zero == [len |-> 0, key |-> 0, value |-> 0]
Quadlets == {Zero} \cup (IF InRom(at) THEN {Quadlet} ELSE {})

read_config_rom_quadlet(q) ==
    \/ InRom(at) /\ q = Quadlet /\ UNCHANGED lost
    \/ (ReadsFail \/ ~InRom(at)) /\ q = Zero /\ lost' = TRUE

Return(v) == /\ place' = "idle"
             /\ answer' = Answer(v)
             /\ UNCHANGED <<call, at>>

Untouched == UNCHANGED <<configRomRead, configRomValid, nodeVars, mixed,
                         program>>

LeafOrEnd(leaf) == \/ leaf > 0 /\ ReadAt("leafLength", leaf)
                   \/ leaf = 0 /\ Return(0)
UnitOrLeaf(unit, leaf) == \/ unit > 0 /\ ReadAt("unitLength", unit)
                          \/ unit = 0 /\ LeafOrEnd(leaf)

-----------------------------------------------------------------------------
(* memset(crom, 0), then the length of the bus info block.                  *)
probe_node ==
    /\ place = "idle"
    /\ configRom' = EmptyRom
    /\ place' = "header" /\ at' = 0 /\ left' = 0
    /\ unit_dir_addr' = 0 /\ textual_leaf_addr' = 0
    /\ answer' = NoAnswer
    /\ mixed' = FALSE /\ lost' = FALSE
    /\ UNCHANGED <<configRomRead, configRomValid, nodeVars, call, program>>

(* A length other than 4, 0 among them: a vendor id only.                   *)
ProbeHeader(q) ==
    /\ place = "header"
    /\ \/ /\ q.key # 4
          /\ configRom' = [configRom EXCEPT !.vendor_id = q.value]
          /\ Return(0)
       \/ q.key = 4 /\ ReadAt("magic", at + 1) /\ UNCHANGED configRom
    /\ UNCHANGED left /\ KeepDirs

ProbeMagic(q) ==
    /\ place = "magic"
    /\ \/ q.value # MAGIC /\ Return(1)
       \/ q.value = MAGIC /\ ReadAt("caps", at + 1)
    /\ UNCHANGED <<configRom, left>> /\ KeepDirs

ProbeBusInfo(q) ==
    /\ \/ place = "caps" /\ ReadAt("vendor", at + 1) /\ UNCHANGED configRom
       \/ /\ place = "vendor" /\ ReadAt("guid", at + 1)
          /\ configRom' = [configRom EXCEPT !.vendor_id = q.value]
       \/ place = "guid" /\ ReadAt("rootLength", at + 1) /\ UNCHANGED configRom
    /\ UNCHANGED left /\ KeepDirs

ProbeRootLength(q) ==
    /\ place = "rootLength"
    /\ left' = RootLength(q.len)
    /\ \/ left' > 0 /\ ReadAt("rootEntry", at + 1)
       \/ left' = 0 /\ Return(0)
    /\ UNCHANGED configRom /\ KeepDirs

FromDirectory(i, q) == i + q.value        \* offset + value * 4

ProbeRootEntry(q) ==
    /\ place = "rootEntry"
    /\ left' = left - 1
    /\ configRom' = IF q.key = KeyValues.capabilities
                    THEN [configRom EXCEPT !.node_capabilities = q.value]
                    ELSE configRom
    /\ unit_dir_addr' = IF q.key = KeyValues.unitDir
                        THEN FromDirectory(at, q) ELSE unit_dir_addr
    /\ textual_leaf_addr' = IF q.key = KeyValues.textualLeaf
                            THEN FromDirectory(at, q) ELSE textual_leaf_addr
    /\ \/ left > 1 /\ ReadAt("rootEntry", at + 1)
       \/ left = 1 /\ UnitOrLeaf(unit_dir_addr', textual_leaf_addr')

ProbeUnitLength(q) ==
    /\ place = "unitLength"
    /\ left' = q.len
    /\ \/ left' > 0 /\ ReadAt("unitEntry", at + 1)
       \/ left' = 0 /\ LeafOrEnd(textual_leaf_addr)
    /\ UNCHANGED configRom /\ KeepDirs

(* A mutant of ProbeField: the breaks of the switch are missing.            *)
FallsThrough(rom, q) ==
    IF q.key = KeyValues.unitSpec
    THEN [rom EXCEPT !.unit_spec_id = q.value, !.unit_sw_version = q.value,
                     !.model_id = q.value]
    ELSE UnitField(rom, q)
ProbeField(rom, q) == UnitField(rom, q)

ProbeUnitEntry(q) ==
    /\ place = "unitEntry"
    /\ left' = left - 1
    /\ configRom' = ProbeField(configRom, q)
    /\ \/ left > 1 /\ ReadAt("unitEntry", at + 1)
       \/ left = 1 /\ LeafOrEnd(textual_leaf_addr)
    /\ KeepDirs

(* len -= 2; malloc(len * 4): both wrap for a leaf without language words.  *)
ProbeLeafLength(q) ==
    /\ place = "leafLength"
    /\ left' = LeafQuadlets(q.len)
    /\ configRom' = [configRom EXCEPT !.vendor = left']
    /\ ReadAt("leaf", at + 3)
    /\ KeepDirs

(* The block read of the name; a failure leaves the name uninitialised.     *)
ProbeLeaf ==
    /\ place = "leaf"
    /\ \/ LeafInRom /\ UNCHANGED lost
       \/ (ReadsFail \/ ~LeafInRom) /\ lost' = TRUE
    /\ Return(0)
    /\ UNCHANGED <<configRom, left>> /\ KeepDirs
    /\ Untouched

ProbeQuadlet ==
    \E q \in Quadlets :
        /\ read_config_rom_quadlet(q)
        /\ \/ ProbeHeader(q) \/ ProbeMagic(q) \/ ProbeBusInfo(q)
           \/ ProbeRootLength(q) \/ ProbeRootEntry(q)
           \/ ProbeUnitLength(q) \/ ProbeUnitEntry(q) \/ ProbeLeafLength(q)
        /\ Untouched

-----------------------------------------------------------------------------
Probing == ProbeQuadlet \/ ProbeLeaf

ProbeInit == Init /\ program \in {"library", "probe"} /\ lost = FALSE

(* Of a probe that a bus reset interrupts nothing is claimed; it could take *)
(* an entry for a length and go on for 2^16 failed reads.  So the resets    *)
(* explored are those between probes.                                       *)
ResetBetweenProbes == place = "idle" /\ BusReset /\ UNCHANGED probeVars

ProbeNext ==
    \/ program = "library" /\ Next /\ UNCHANGED probeVars
    \/ program = "probe" /\ (probe_node \/ Probing \/ ResetBetweenProbes)

ProbeSpec == ProbeInit /\ [][ProbeNext]_allVars
(* A call that reads keeps reading, in either program.                      *)
FairProbeSpec ==
    /\ ProbeSpec
    /\ WF_allVars(program = "library" /\ Walk /\ UNCHANGED probeVars)
    /\ WF_allVars(program = "probe" /\ Probing)

-----------------------------------------------------------------------------
Probed(v) == program = "probe" /\ answer = Answer(v) /\ ~mixed

(* When no read failed the two parsers agree: probe_node answers 0 exactly  *)
(* for the ROMs that FirewireDevice takes for valid, with the same fields.  *)
ProbeAgreesWithLibrary ==
    ~lost => /\ Probed(0) => /\ \/ image.rom[1].key # 4
                                \/ image.rom[2].value = MAGIC
                             /\ configRom = Parsed(image.rom)
             /\ Probed(1) => /\ image.rom[1].key = 4
                             /\ image.rom[2].value # MAGIC

(* When reads fail unnoticed, at any places of the walk, the vendor of a    *)
(* probe that answered 0 is unknown (0) or the node's: a node is never      *)
(* taken for a product of a vendor it is not from, a device is at worst     *)
(* overlooked.  Nor is any other field one that the ROM does not contain.   *)
Contains(key, v) == \E i \in DOMAIN image.rom : image.rom[i].key = key
                                                /\ image.rom[i].value = v
VendorOf(rom) == IF rom[1].key # 4 THEN rom[1].value ELSE rom[4].value
LostReadsOnlyHide ==
    Probed(0) =>
        /\ configRom.vendor_id \in {0, VendorOf(image.rom)}
        /\ configRom.node_capabilities # 0 =>
              Contains(KeyValues.capabilities, configRom.node_capabilities)
        /\ configRom.unit_spec_id # 0 =>
              Contains(KeyValues.unitSpec, configRom.unit_spec_id)
        /\ configRom.unit_sw_version # 0 =>
              Contains(KeyValues.unitVersion, configRom.unit_sw_version)
        /\ configRom.model_id # 0 =>
              Contains(KeyValues.model, configRom.model_id)
=============================================================================
