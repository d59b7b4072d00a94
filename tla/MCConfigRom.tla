---------------------------- MODULE MCConfigRom ----------------------------
(* Nodes as they occur on a bus, and ones with a damaged or unusual ROM.    *)
EXTENDS ProbeNode

Length(n) == [len |-> n, key |-> 0, value |-> 0]
Entry(k, v) == [len |-> 256 * k, key |-> k, value |-> v]
Word(v) == [len |-> 0, key |-> 0, value |-> v]

BusInfo(magic, vendor) ==
    <<[len |-> 1028, key |-> 4, value |-> 0], Word(magic), Word(0),
      Word(vendor), Word(0)>>
Node(rom, vendor) == [rom |-> rom, vendor |-> vendor]

Leaf == <<Length(3), Word(0), Word(0), Word(7)>>
RootOf(n, entries) == <<Length(n)>> \o entries

(* SENSABLE = 2, MAGIC = 1, MaxRootDir = 3.                                 *)
MCImages ==
    { (* A Phantom: unit directory and vendor name.                         *)
      Node(BusInfo(1, 2) \o RootOf(3, <<Entry(12, 5), Entry(209, 2),
              Entry(129, 4)>>)
           \o <<Length(2), Entry(18, 3), Entry(23, 8)>> \o Leaf, 2),
      (* Another product of the vendor.                                     *)
      Node(BusInfo(1, 2) \o RootOf(0, <<>>), 3),
      (* A minimal ROM: a vendor id only.                                   *)
      Node(<<Entry(1, 2)>>, 2),
      Node(<<Entry(1, 3)>>, 0),
      (* A wrong magic number.                                              *)
      Node(BusInfo(0, 2) \o RootOf(0, <<>>), 2),
      (* A root directory longer than MaxRootDir, with a leaf behind that.  *)
      Node(BusInfo(1, 3) \o RootOf(4, <<Entry(209, 4), Entry(12, 5),
              Entry(12, 6), Entry(129, 1)>>)
           \o Leaf, 0),
      (* Two names: the last counts; and an empty unit directory.           *)
      Node(BusInfo(1, 3) \o RootOf(3, <<Entry(129, 4), Entry(209, 2),
              Entry(129, 3)>>)
           \o <<Length(0), Word(0)>> \o Leaf, 0),
      (* A name too short for its language words.                           *)
      Node(BusInfo(1, 3) \o RootOf(1, <<Entry(129, 1)>>) \o <<Length(1)>>, 0),
      (* A unit directory beyond the end of the ROM.                        *)
      Node(BusInfo(1, 2) \o RootOf(1, <<Entry(209, 9)>>), 2) }
=============================================================================
