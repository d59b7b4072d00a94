------------------------- MODULE DeviceSearch_proof -------------------------
(***************************************************************************)
(* findPhantom on any bus, with any number of open devices.  The search    *)
(* walks the registry only through Open and Close, so every fact about the *)
(* registry carries over (SearchImplementsRegistry); what the search adds  *)
(* is that every matching place it has left behind drives a Phantom of     *)
(* the application.                                                        *)
(***************************************************************************)
EXTENDS DeviceSearch, OpenDevices_proof

(* The iterator stands on a port of the host, at most past its last node.   *)
IteratorOK ==
    pc # "idle" =>
        \/ /\ port \in 0 .. Ports - 1
           /\ nodes = NodeCount[port]
           /\ node \in 0 .. nodes
        \/ Ports = 0 /\ port = 0 /\ node = 0 /\ nodes = 0

(* The device under probe is the one the iterator opened last, and no       *)
(* Phantom; a search has no result before its end.                          *)
ProbeOK ==
    /\ phantoms \subseteq Live
    /\ pc = "probe" => /\ dev \in Live \ phantoms
                       /\ node > 0
                       /\ place[dev] = <<port, node - 1>>
    /\ pc # "probe" => dev = NoAddr
    /\ pc # "idle" => result = None

(* Deleting the last Phantom makes the registry exact again, so it can only *)
(* be inexact while the application holds one: a rejected device never      *)
(* makes it exact in the middle of a search.                                *)
InexactOnlyWithPhantoms == ~faulted /\ ~orderly => phantoms # {}

(* What the iterator left behind.                                           *)
LeftBehind(p) == IF pc = "probe" THEN Before(p, place[dev])
                                 ELSE Before(p, <<port, node>>)
NothingOverlooked ==
    pc # "idle" /\ orderly /\ ~faulted =>
        \A p \in Matching : LeftBehind(p) => p \in Held

SInv == /\ IInv
        /\ SearchTypeOK
        /\ IteratorOK
        /\ ProbeOK
        /\ NothingStaysOpen

WInv == /\ InexactOnlyWithPhantoms
        /\ NothingOverlooked
        /\ FoundIsFirstUnused
        /\ NullMeansNoneUnused

-----------------------------------------------------------------------------
LEMMA SearchInitSInv == SearchInit => SInv
<1> SUFFICES ASSUME SearchInit PROVE SInv
    OBVIOUS
<1>1. IInv
    BY InitIInv DEF SearchInit
<1>2. Live = {}
    BY DEF SearchInit, Init, Live
<1>3. QED
    BY <1>1, <1>2
       DEF SearchInit, SInv, IInv, SearchTypeOK, IteratorOK, ProbeOK,
           NothingStaysOpen

LEMMA FindPhantomSInv ==
    ASSUME NEW wanted \in Serials, SInv, FindPhantom(wanted)
    PROVE  SInv'
<1> USE DEF FindPhantom, SInv
<1>1. IInv' /\ Live' = Live
    BY StutterIInv DEF vars, Live
<1>2. IteratorOK' /\ {port', node', nodes'} \subseteq Nat
    BY BusAssumption DEF IteratorOK
<1>3. QED
    BY <1>1, <1>2
       DEF IInv, SearchTypeOK, ProbeOK, NothingStaysOpen, vars

LEMMA FindsNoneSInv == SInv /\ NextFindsNone => SInv'
<1> SUFFICES ASSUME SInv, NextFindsNone PROVE SInv'
    OBVIOUS
<1> USE DEF NextFindsNone, IteratorGone, SInv
<1>1. IInv' /\ Live' = Live
    BY StutterIInv DEF vars, Live
<1>2. QED
    BY <1>1
       DEF IInv, SearchTypeOK, IteratorOK, ProbeOK, NothingStaysOpen, vars

(* One round of the iterator: it reaches a place of the buses.              *)
LEMMA MovesOnPlace ==
    ASSUME SInv, MovesOn
    PROVE  /\ CurrentPort \in 0 .. Ports - 1
           /\ CurrentNode \in 0 .. NodeCount[CurrentPort] - 1
           /\ <<CurrentPort, CurrentNode>> \in Places
           /\ port' = CurrentPort /\ node' = CurrentNode + 1
           /\ nodes' = NodeCount[port'] /\ node' \in 0 .. nodes'
<1> USE DEF MovesOn, SInv, IteratorOK, BusExhausted
<1>1. /\ Ports \in Nat /\ Ports > 0 /\ port \in 0 .. Ports - 1
      /\ nodes = NodeCount[port] /\ node \in 0 .. nodes
    BY BusAssumption DEF PortExhausted
<1>2. \A q \in 0 .. Ports - 1 : NodeCount[q] \in Nat \ {0}
    BY BusAssumption
<1>3. CurrentPort \in 0 .. Ports - 1
    BY <1>1 DEF CurrentPort, PortExhausted
<1>4. CurrentNode \in 0 .. NodeCount[CurrentPort] - 1
  <2>1. CASE PortExhausted
      BY <1>2, <1>3, <2>1 DEF CurrentNode
  <2>2. CASE ~PortExhausted
      BY <1>1, <1>2, <2>2 DEF CurrentNode, CurrentPort, PortExhausted
  <2>3. QED
      BY <2>1, <2>2
<1>5. <<CurrentPort, CurrentNode>> \in Places
    BY <1>3, <1>4, BusAssumption
<1>6. QED
    BY <1>2, <1>3, <1>4, <1>5 DEF FollowingNode

LEMMA SkipsSInv == SInv /\ NextSkips => SInv'
<1> SUFFICES ASSUME SInv, NextSkips PROVE SInv'
    OBVIOUS
<1> USE DEF NextSkips, SInv
<1>1. IInv' /\ Live' = Live
    BY StutterIInv DEF vars, Live
<1>2. /\ port' \in 0 .. Ports - 1 /\ nodes' = NodeCount[port']
      /\ node' \in 0 .. nodes' /\ nodes' \in Nat
    BY MovesOnPlace, BusAssumption
<1>3. pc' = "next"
    BY DEF MovesOn
<1>4. QED
    BY <1>1, <1>2, <1>3
       DEF IInv, SearchTypeOK, IteratorOK, ProbeOK, NothingStaysOpen, vars,
           MovesOn

LEMMA OpensSInv ==
    ASSUME NEW a \in Addrs, SInv, NextOpens(a)
    PROVE  SInv'
<1> USE DEF NextOpens, SInv
<1>1. /\ port' \in 0 .. Ports - 1 /\ nodes' = NodeCount[port']
      /\ node' \in 0 .. nodes' /\ nodes' \in Nat /\ node' > 0
      /\ <<CurrentPort, CurrentNode>> = <<port', node' - 1>>
      /\ <<CurrentPort, CurrentNode>> \in Places
  <2>1. NodeCount[port'] \in Nat
      BY MovesOnPlace, BusAssumption
  <2>2. node' > 0 /\ CurrentNode = node' - 1 /\ CurrentPort = port'
      BY <2>1, MovesOnPlace
  <2>3. QED
      BY <2>1, <2>2, MovesOnPlace
<1>2. IInv'
    BY <1>1, OpenIInv
<1>3. Live' = Live \cup {a} /\ a \notin Live
    BY <1>1, SentinelAssumption DEF Open, IInv, TypeOK, Live
<1>4. place'[a] = <<port', node' - 1>>
    BY <1>1 DEF Open, IInv, TypeOK
<1>5. dev = NoAddr
    BY DEF MovesOn, ProbeOK
<1>6. SearchTypeOK' /\ IteratorOK'
    BY <1>1, <1>2 DEF IInv, SearchTypeOK, IteratorOK
<1>7. ProbeOK'
    BY <1>1, <1>3, <1>4 DEF ProbeOK, MovesOn
<1>8. NothingStaysOpen'
    BY <1>3, <1>5, SentinelAssumption DEF NothingStaysOpen
<1>9. QED
    BY <1>2, <1>6, <1>7, <1>8

LEMMA AcceptSInv == SInv /\ Accept => SInv'
<1> SUFFICES ASSUME SInv, Accept PROVE SInv'
    OBVIOUS
<1> USE DEF Accept, IteratorGone, SInv
<1>1. IInv' /\ Live' = Live
    BY StutterIInv DEF vars, Live
<1>2. dev \in Live /\ dev \in Addrs /\ dev # NoAddr
    BY SentinelAssumption DEF ProbeOK, Live
<1>3. QED
    BY <1>1, <1>2
       DEF IInv, SearchTypeOK, IteratorOK, ProbeOK, NothingStaysOpen

(* What deleting an object does to the open ones.                           *)
LEMMA CloseLive ==
    ASSUME NEW a \in Addrs, IInv, Close(a)
    PROVE  /\ a \in Live
           /\ Live' = Live \ {a}
           /\ \A d \in Live' : place'[d] = place[d]
BY DEF Close, IInv, TypeOK, Live

LEMMA RejectSInv == SInv /\ Reject => SInv'
<1> SUFFICES ASSUME SInv, Reject PROVE SInv'
    OBVIOUS
<1> USE DEF Reject, Delete, AfterReject, SInv
<1>1. dev \in Live \ phantoms /\ dev \in Addrs /\ dev # NoAddr
    BY SentinelAssumption DEF ProbeOK, Live
<1>2. IInv'
    BY <1>1, CloseIInv
<1>3. Live' = Live \ {dev}
    BY <1>1, CloseLive
<1>4. QED
    BY <1>1, <1>2, <1>3
       DEF IInv, SearchTypeOK, IteratorOK, ProbeOK, NothingStaysOpen

LEMMA FailSInv == SInv /\ Fail => SInv'
<1> SUFFICES ASSUME SInv, Fail PROVE SInv'
    OBVIOUS
<1> USE DEF Fail, IteratorGone, SInv
<1>1. IInv' /\ Live' = Live
    BY StutterIInv DEF vars, Live
<1>2. QED
    BY <1>1 DEF IInv, SearchTypeOK, IteratorOK, ProbeOK, NothingStaysOpen

LEMMA DeletePhantomSInv ==
    ASSUME NEW a \in Addrs, SInv, DeletePhantom(a)
    PROVE  SInv'
<1> USE DEF DeletePhantom, SInv
<1>1. IInv' /\ Live' = Live \ {a}
    BY CloseIInv, CloseLive
<1>2. dev = NoAddr
    BY DEF ProbeOK
<1>3. QED
    BY <1>1, <1>2
       DEF IInv, SearchTypeOK, IteratorOK, ProbeOK, NothingStaysOpen

LEMMA StutterSInv == SInv /\ UNCHANGED allVars => SInv'
<1> SUFFICES ASSUME SInv, UNCHANGED allVars PROVE SInv'
    OBVIOUS
<1>1. IInv' /\ Live' = Live
    BY StutterIInv DEF SInv, allVars, vars, Live
<1>2. QED
    BY <1>1
       DEF SInv, IInv, SearchTypeOK, IteratorOK, ProbeOK, NothingStaysOpen,
           allVars, vars, search

LEMMA StepSInv == SInv /\ [SearchNext]_allVars => SInv'
BY FindPhantomSInv, FindsNoneSInv, SkipsSInv, OpensSInv, AcceptSInv,
   RejectSInv, FailSInv, DeletePhantomSInv, StutterSInv
   DEF SearchNext, Search, Iterate, Probe

LEMMA SearchSafe == SearchSpec => []SInv
BY SearchInitSInv, StepSInv, PTL DEF SearchSpec

-----------------------------------------------------------------------------
(* Now for what a search answers.                                           *)
LEMMA SearchInitWInv == SearchInit => WInv
BY ResultAssumption
   DEF SearchInit, Init, WInv, InexactOnlyWithPhantoms, NothingOverlooked,
       FoundIsFirstUnused, NullMeansNoneUnused, NoneUnused, Null, None, Threw

LEMMA FindPhantomWInv ==
    ASSUME NEW wanted \in Serials, SInv, WInv, FindPhantom(wanted)
    PROVE  WInv'
<1> USE DEF FindPhantom, vars
<1>1. \A p \in Places : ~Before(p, <<port', node'>>)
  <2> SUFFICES ASSUME NEW p \in Places PROVE ~Before(p, <<0, 0>>)
      OBVIOUS
  <2>1. PICK q \in 0 .. Ports - 1 : p \in {q} \X (0 .. NodeCount[q] - 1)
      BY BusAssumption
  <2>2. p[1] = q /\ p[2] \in 0 .. NodeCount[q] - 1 /\ NodeCount[q] \in Nat
      BY <2>1, BusAssumption
  <2>3. QED
      BY <2>1, <2>2 DEF Before
<1>2. NothingOverlooked'
    BY <1>1 DEF NothingOverlooked, LeftBehind, Matching
<1>3. QED
    BY <1>2, ResultAssumption
       DEF WInv, InexactOnlyWithPhantoms, FoundIsFirstUnused,
           NullMeansNoneUnused, NoneUnused, Null, None

(* The nodes of an exhausted port are all left behind.                      *)
LEMMA ExhaustedPort ==
    ASSUME SInv, pc # "idle", PortExhausted, NEW p \in Places, p[1] <= port
    PROVE  Before(p, <<port, node>>)
<1>1. PICK q \in 0 .. Ports - 1 : p \in {q} \X (0 .. NodeCount[q] - 1)
    BY BusAssumption
<1>2. p[1] = q /\ p[2] \in 0 .. NodeCount[q] - 1 /\ NodeCount[q] \in Nat
    BY <1>1, BusAssumption
<1>3. Ports \in Nat /\ port \in Nat /\ node \in Nat /\ nodes \in Nat
    BY BusAssumption DEF SInv, SearchTypeOK
<1>4. q = port => p[2] < node
    BY <1>1, <1>2, <1>3 DEF SInv, IteratorOK, PortExhausted
<1>5. QED
    BY <1>2, <1>3, <1>4 DEF Before

LEMMA FindsNoneWInv == SInv /\ WInv /\ NextFindsNone => WInv'
<1> SUFFICES ASSUME SInv, WInv, NextFindsNone PROVE WInv'
    OBVIOUS
<1> USE DEF NextFindsNone
<1>1. \A p \in Places : Before(p, <<port, node>>)
  <2> TAKE p \in Places
  <2>1. PICK q \in 0 .. Ports - 1 : p \in {q} \X (0 .. NodeCount[q] - 1)
      BY BusAssumption
  <2>2. p[1] = q /\ q <= port
      BY <2>1, BusAssumption DEF BusExhausted, SInv, SearchTypeOK
  <2>3. QED
      BY <2>2, ExhaustedPort DEF BusExhausted
<1>2. orderly /\ ~faulted => Matching \subseteq Held
    BY <1>1 DEF WInv, NothingOverlooked, LeftBehind, Matching
<1>3. Matching' = Matching /\ Held' = Held
    BY DEF Matching, Held, vars
<1>4. NullMeansNoneUnused'
    BY <1>2, <1>3 DEF NullMeansNoneUnused, NoneUnused, vars
<1>5. QED
    BY <1>4, ResultAssumption
       DEF WInv, InexactOnlyWithPhantoms, NothingOverlooked,
           FoundIsFirstUnused, vars

(* What the iterator is about to look at comes right after what it left.    *)
LEMMA CurrentIsNext ==
    ASSUME SInv, MovesOn, NEW p \in Places,
           Before(p, <<CurrentPort, CurrentNode>>)
    PROVE  Before(p, <<port, node>>)
<1>1. PICK q \in 0 .. Ports - 1 : p \in {q} \X (0 .. NodeCount[q] - 1)
    BY BusAssumption
<1>2. p[1] = q /\ p[2] \in 0 .. NodeCount[q] - 1 /\ NodeCount[q] \in Nat
    BY <1>1, BusAssumption
<1>3. Ports \in Nat /\ port \in Nat /\ node \in Nat /\ nodes \in Nat
    BY BusAssumption DEF SInv, SearchTypeOK
<1>4. CASE PortExhausted
  <2>1. p[1] <= port
      BY <1>2, <1>3, <1>4 DEF Before, CurrentPort, CurrentNode
  <2>2. pc # "idle"
      BY DEF MovesOn
  <2>3. QED
      BY <1>4, <2>1, <2>2, ExhaustedPort
<1>5. CASE ~PortExhausted
    BY <1>5 DEF CurrentPort, CurrentNode
<1>6. QED
    BY <1>4, <1>5

(* A place the iterator skips belongs to a Phantom of the application.      *)
LEMMA SkippedIsHeld ==
    ASSUME SInv, NextSkips, orderly, ~faulted
    PROVE  <<CurrentPort, CurrentNode>> \in Held
<1>1. \E i \in Entries : \/ open_devices[i] \notin Live
                         \/ place[open_devices[i]] = <<CurrentPort, CurrentNode>>
    BY DEF NextSkips, deviceIsOpen, CanAnswerTrue
<1>2. \A i \in Entries : open_devices[i] \in Live
    BY DEF SInv, IInv, ExactWhileOrderly
<1>3. Live = phantoms
    BY DEF SInv, ProbeOK, NothingStaysOpen, NextSkips, MovesOn
<1>4. QED
    BY <1>1, <1>2, <1>3 DEF Held

(* Between two neighbouring nodes of a port there is no other place.        *)
LEMMA StepBefore ==
    ASSUME NEW p \in Places, NEW q \in Nat, NEW k \in Nat,
           Before(p, <<q, k + 1>>)
    PROVE  Before(p, <<q, k>>) \/ p = <<q, k>>
<1>1. PICK r \in 0 .. Ports - 1 : p \in {r} \X (0 .. NodeCount[r] - 1)
    BY BusAssumption
<1>2. p = <<r, p[2]>> /\ p[2] \in 0 .. NodeCount[r] - 1 /\ NodeCount[r] \in Nat
    BY <1>1, BusAssumption
<1>3. QED
    BY <1>2, BusAssumption DEF Before

LEMMA SkipsWInv == SInv /\ WInv /\ NextSkips => WInv'
<1> SUFFICES ASSUME SInv, WInv, NextSkips PROVE WInv'
    OBVIOUS
<1> USE DEF NextSkips
<1>1. Matching' = Matching /\ Held' = Held
    BY DEF Matching, Held, vars
<1>2. NothingOverlooked'
  <2> SUFFICES ASSUME orderly, ~faulted, NEW p \in Matching,
                      Before(p, <<port', node'>>)
               PROVE  p \in Held
      BY <1>1 DEF NothingOverlooked, LeftBehind, MovesOn, vars
  <2>1. CurrentPort \in Nat /\ CurrentNode \in Nat /\ p \in Places
      BY MovesOnPlace DEF Matching
  <2>2. \/ Before(p, <<CurrentPort, CurrentNode>>)
        \/ p = <<CurrentPort, CurrentNode>>
      BY <2>1, MovesOnPlace, StepBefore
  <2>3. ASSUME Before(p, <<CurrentPort, CurrentNode>>)
        PROVE  p \in Held
      BY <2>1, <2>3, CurrentIsNext
         DEF WInv, NothingOverlooked, LeftBehind, MovesOn
  <2>4. QED
      BY <2>2, <2>3, SkippedIsHeld
<1>3. QED
    BY <1>1, <1>2
       DEF WInv, InexactOnlyWithPhantoms, FoundIsFirstUnused,
           NullMeansNoneUnused, NoneUnused, vars, SInv, ProbeOK, MovesOn

LEMMA OpensWInv ==
    ASSUME NEW a \in Addrs, SInv, WInv, NextOpens(a)
    PROVE  WInv'
<1> USE DEF NextOpens
<1>1. UNCHANGED orderly
    BY Zenon DEF Open
<1>2. a \notin Live /\ place' = [place EXCEPT ![a] = <<CurrentPort, CurrentNode>>]
    BY DEF Open
<1>3. Matching' = Matching /\ Held' = Held
    BY <1>2 DEF Matching, Held, SInv, ProbeOK
<1>4. place'[a] = <<CurrentPort, CurrentNode>>
    BY <1>2 DEF SInv, SearchTypeOK, TypeOK
<1>5. NothingOverlooked'
  <2> SUFFICES ASSUME orderly, ~faulted, NEW p \in Matching,
                      Before(p, <<CurrentPort, CurrentNode>>)
               PROVE  p \in Held
      BY <1>1, <1>3, <1>4 DEF NothingOverlooked, LeftBehind
  <2>1. p \in Places
      BY DEF Matching
  <2>2. QED
      BY <2>1, CurrentIsNext DEF WInv, NothingOverlooked, LeftBehind, MovesOn
<1>6. result' = None
    BY DEF SInv, ProbeOK, MovesOn
<1>7. FoundIsFirstUnused' /\ NullMeansNoneUnused'
    BY <1>6, ResultAssumption
       DEF FoundIsFirstUnused, NullMeansNoneUnused, NoneUnused, Null, None
<1>8. InexactOnlyWithPhantoms'
    BY <1>1 DEF WInv, InexactOnlyWithPhantoms
<1>9. QED
    BY <1>5, <1>7, <1>8 DEF WInv

LEMMA AcceptWInv == SInv /\ WInv /\ Accept => WInv'
<1> SUFFICES ASSUME SInv, WInv, Accept PROVE WInv'
    OBVIOUS
<1> USE DEF Accept
<1>1. dev \in Addrs /\ place[dev] \in Places /\ place' = place
    BY DEF SInv, ProbeOK, SearchTypeOK, TypeOK, Live, vars
<1>2. Matching' = Matching /\ Held \subseteq Held'
    BY <1>1 DEF Matching, Held
<1>3. place[dev] \in Matching
    BY <1>1 DEF Wanted, IsPhantom, Matching
<1>4. FoundIsFirstUnused'
    BY <1>1, <1>2, <1>3
       DEF WInv, NothingOverlooked, LeftBehind, FoundIsFirstUnused, vars
<1>5. result' # Null
    BY <1>1, ResultAssumption
<1>6. QED
    BY <1>4, <1>5
       DEF WInv, InexactOnlyWithPhantoms, NothingOverlooked,
           NullMeansNoneUnused, NoneUnused, vars

(* A close makes an inexact registry exact only by emptying it.             *)
LEMMA CloseInexact ==
    ASSUME NEW a \in Addrs, IInv, Close(a)
    PROVE  /\ Live' # {} => (orderly' => orderly)
           /\ Live' = {} => orderly'
<1>1. \/ Mapped' = {} /\ orderly' = TRUE
      \/ Mapped' # {} /\ orderly' \in {orderly, FALSE}
    BY CloseOrderly
<1>2. Mapped' = {} <=> Live' = {}
    BY DEF Mapped
<1>3. CASE Live' = {}
    BY <1>1, <1>2, <1>3
<1>4. CASE Live' # {}
  <2>1. orderly' = orderly \/ orderly' = FALSE
      BY <1>1, <1>2, <1>4
  <2>2. orderly' => orderly
      BY <2>1, Zenon
  <2>3. QED
      BY <1>4, <2>2
<1>5. QED
    BY <1>3, <1>4

LEMMA RejectWInv == SInv /\ WInv /\ Reject => WInv'
<1> SUFFICES ASSUME SInv, WInv, Reject PROVE WInv'
    OBVIOUS
<1> USE DEF Reject, Delete, AfterReject
<1>1. dev \in Live \ phantoms /\ dev \in Addrs /\ IInv /\ dev # NoAddr
    BY SentinelAssumption DEF SInv, ProbeOK, Live
<1>2. /\ Live' = Live \ {dev}
      /\ \A d \in Live' : place'[d] = place[d]
    BY <1>1, CloseLive
<1>3. Matching' = Matching /\ Held' = Held
    BY <1>1, <1>2 DEF Matching, Held, SInv, ProbeOK
<1>4. ~faulted => Live' = phantoms
    BY <1>1, <1>2 DEF SInv, NothingStaysOpen
<1>5. ~faulted /\ orderly' => orderly
    BY <1>1, <1>4, CloseInexact DEF WInv, InexactOnlyWithPhantoms
<1>6. InexactOnlyWithPhantoms'
    BY <1>1, <1>4, CloseInexact DEF InexactOnlyWithPhantoms
<1>7. NothingOverlooked'
  <2> SUFFICES ASSUME orderly', ~faulted, NEW p \in Matching,
                      Before(p, <<port, node>>)
               PROVE  p \in Held
      BY <1>3 DEF NothingOverlooked, LeftBehind
  <2>1. p \in Places /\ port \in Nat /\ node - 1 \in Nat /\ node = node - 1 + 1
      BY DEF Matching, SInv, SearchTypeOK, ProbeOK
  <2>2. Before(p, <<port, node - 1>>) \/ p = <<port, node - 1>>
      BY <2>1, StepBefore
  <2>3. p # place[dev]
      BY DEF Wanted, IsPhantom, Matching
  <2>4. QED
      BY <1>5, <2>2, <2>3
         DEF WInv, NothingOverlooked, LeftBehind, SInv, ProbeOK
<1>8. result' = None
    BY DEF SInv, ProbeOK
<1>9. QED
    BY <1>6, <1>7, <1>8, ResultAssumption
       DEF WInv, FoundIsFirstUnused, NullMeansNoneUnused, NoneUnused, Null,
           None

LEMMA FailWInv == SInv /\ WInv /\ Fail => WInv'
BY DEF WInv, Fail, InexactOnlyWithPhantoms, NothingOverlooked,
       FoundIsFirstUnused, NullMeansNoneUnused

LEMMA DeletePhantomWInv ==
    ASSUME NEW a \in Addrs, SInv, WInv, DeletePhantom(a)
    PROVE  WInv'
<1> USE DEF DeletePhantom
<1>1. IInv /\ Live' = Live \ {a} /\ dev = NoAddr
    BY CloseLive DEF SInv, ProbeOK
<1>2. ~faulted => Live' = phantoms'
    BY <1>1 DEF SInv, NothingStaysOpen
<1>3. InexactOnlyWithPhantoms'
    BY <1>1, <1>2, CloseInexact DEF InexactOnlyWithPhantoms
<1>4. QED
    BY <1>3, ResultAssumption
       DEF WInv, NothingOverlooked, FoundIsFirstUnused, NullMeansNoneUnused,
           NoneUnused, Null, None

LEMMA StutterWInv == WInv /\ UNCHANGED allVars => WInv'
BY DEF WInv, allVars, vars, search, InexactOnlyWithPhantoms,
       NothingOverlooked, FoundIsFirstUnused, NullMeansNoneUnused, NoneUnused,
       Matching, Held, LeftBehind, Before

LEMMA SearchComplete == SearchSpec => []WInv
<1>1. SInv /\ WInv /\ [SearchNext]_allVars => WInv'
    BY FindPhantomWInv, FindsNoneWInv, SkipsWInv, OpensWInv, AcceptWInv,
       RejectWInv, FailWInv, DeletePhantomWInv, StutterWInv
       DEF SearchNext, Search, Iterate, Probe
<1>2. QED
    BY SearchInitWInv, <1>1, SearchSafe, PTL DEF SearchSpec

-----------------------------------------------------------------------------
(* findPhantom keeps the iterator, the device under probe and the Phantoms  *)
(* within their types on every bus.                                         *)
THEOREM SearchTypeCorrect == SearchSpec => []SearchTypeOK
BY SearchSafe, PTL DEF SInv

(* Without a throwing probe nothing but Phantoms and the device under probe *)
(* is ever open.                                                            *)
THEOREM SearchKeepsNothingOpen == SearchSpec => []NothingStaysOpen
BY SearchSafe, PTL DEF SInv

(* Deleting newest first, no two Phantoms ever drive one device, whatever   *)
(* the probes threw.                                                        *)
THEOREM SearchSharesNoDevice == SearchSpec => []OnePhantomPerDevice
<1>1. SInv => OnePhantomPerDevice
    BY DEF SInv, IInv, NoSharedPlaceWhileOrderly, ProbeOK, OnePhantomPerDevice
<1>2. QED
    BY <1>1, SearchSafe, PTL

(* What findPhantom returns is the first unused device that matches.        *)
THEOREM SearchFindsFirst == SearchSpec => []FoundIsFirstUnused
BY SearchComplete, PTL DEF WInv

(* And when it returns 0 there is none.                                     *)
THEOREM SearchNullIsRight == SearchSpec => []NullMeansNoneUnused
BY SearchComplete, PTL DEF WInv

(* The search uses the registry as it is meant to be used: it constructs a  *)
(* device only for a place that deviceIsOpen denied and that exists, and    *)
(* deletes only open ones, so what holds of the registry holds under it.    *)
THEOREM SearchImplementsRegistry == SearchSpec => Spec
<1>1. SInv /\ [SearchNext]_allVars => [Next]_vars
  <2> SUFFICES ASSUME SInv, [SearchNext]_allVars PROVE [Next]_vars
      OBVIOUS
  <2>1. ASSUME NEW a \in Addrs, NextOpens(a) PROVE Next
      BY <2>1, MovesOnPlace DEF NextOpens, Next
  <2>2. ASSUME Reject PROVE Next
    <3>1. dev \in Addrs
        BY <2>2 DEF Reject, SInv, ProbeOK, Live
    <3>2. QED
        BY <2>2, <3>1 DEF Reject, Delete, Next
  <2>3. ASSUME NEW a \in Addrs, DeletePhantom(a) PROVE Next
      BY <2>3 DEF DeletePhantom, Next
  <2>4. ASSUME \/ \E wanted \in Serials : FindPhantom(wanted)
               \/ NextFindsNone \/ NextSkips \/ Accept \/ Fail
               \/ UNCHANGED allVars
        PROVE  UNCHANGED vars
      BY <2>4 DEF FindPhantom, NextFindsNone, NextSkips, Accept, Fail, allVars
  <2>5. QED
      BY <2>1, <2>2, <2>3, <2>4 DEF SearchNext, Search, Iterate, Probe
<1>2. SearchInit => Init
    BY DEF SearchInit
<1>3. QED
    BY <1>1, <1>2, SearchSafe, PTL DEF SearchSpec, Spec
=============================================================================
