------------------------- MODULE OpenDevices_proof -------------------------
(***************************************************************************)
(* The registry of open devices for any number of addresses and places.    *)
(* The inductive invariant is the conjunction of the four invariants that  *)
(* TLC checks: the exactness of the entries needs the count (closing the   *)
(* last device makes the registry exact again only because the count says  *)
(* that it was the last), and the uniqueness of places needs the exactness *)
(* (deviceIsOpen sees only entries).                                       *)
(***************************************************************************)
EXTENDS OpenDevices, FiniteSetTheorems, TLAPS

IInv == /\ TypeOK
        /\ CountMatchesLive
        /\ ExactWhileOrderly
        /\ NoSharedPlaceWhileOrderly

LEMMA LiveIsFinite == IsFiniteSet(Live)
BY FiniteAssumption, FS_Subset DEF Live

LEMMA InitIInv == Init => IInv
<1> SUFFICES ASSUME Init PROVE IInv
    OBVIOUS
<1> USE DEF Init, Growth
<1>1. Live = {} /\ Entries = {}
    BY DEF Live, Entries
<1>2. Cardinality(Live) = 0
    BY <1>1, FS_EmptySet
<1>3. TypeOK
    BY DEF TypeOK
<1>4. QED
    BY <1>1, <1>2, <1>3
       DEF IInv, CountMatchesLive, ExactWhileOrderly, NoSharedPlaceWhileOrderly

(* The constructor.                                                         *)
LEMMA OpenIInv ==
    ASSUME NEW a \in Addrs, NEW p \in Places, IInv, Open(a, p)
    PROVE  IInv'
<1> USE DEF IInv
<1>1. TypeOK'
    BY SentinelAssumption DEF Open, TypeOK, Full, Growth, AppendIndex
<1>2. Live' = Live \cup {a} /\ a \notin Live
    BY SentinelAssumption DEF Open, TypeOK, Live
<1>3. Entries' = Entries \cup {number_of_open_devices}
    BY DEF Open, TypeOK, Entries
<1>4. open_devices'[number_of_open_devices] = a
    BY DEF Open, TypeOK, Full, Growth, AppendIndex
<1>5. \A i \in Entries : open_devices'[i] = open_devices[i]
    BY DEF Open, TypeOK, Entries, Full, Growth, AppendIndex
<1>6. CountMatchesLive'
  <2>1. Cardinality(Live') = Cardinality(Live) + 1
      BY <1>2, LiveIsFinite, FS_AddElement
  <2>2. \A i \in Entries' : open_devices'[i] # NoAddr
      BY <1>3, <1>4, <1>5, SentinelAssumption DEF CountMatchesLive
  <2>3. QED
      BY <2>1, <2>2 DEF Open, CountMatchesLive
<1>7. ExactWhileOrderly'
  <2> SUFFICES ASSUME orderly'
               PROVE  /\ {open_devices[i] : i \in Entries}' = Live'
                      /\ \A i, j \in Entries' :
                             open_devices'[i] = open_devices'[j] => i = j
      BY DEF ExactWhileOrderly
  <2>1. orderly
      BY DEF Open
  <2>2. {open_devices[i] : i \in Entries}' = Live'
      BY <1>2, <1>3, <1>4, <1>5, <2>1 DEF ExactWhileOrderly
  <2>3. \A i \in Entries : open_devices[i] # a
      BY <1>2, <2>1 DEF ExactWhileOrderly
  <2>4. QED
      BY <1>3, <1>4, <1>5, <2>1, <2>2, <2>3 DEF ExactWhileOrderly
<1>8. NoSharedPlaceWhileOrderly'
  <2> SUFFICES ASSUME orderly', NEW b \in Live', NEW c \in Live',
                      place'[b] = place'[c]
               PROVE  b = c
      BY DEF NoSharedPlaceWhileOrderly
  <2>1. orderly
      BY DEF Open
  <2>2. \A d \in Live : place[d] # p
      BY <2>1 DEF Open, deviceIsOpen, CanAnswerFalse, ExactWhileOrderly
  <2>3. place'[a] = p /\ \A d \in Live : place'[d] = place[d]
      BY <1>2 DEF Open, TypeOK, Live
  <2>4. QED
      BY <1>2, <2>1, <2>2, <2>3 DEF NoSharedPlaceWhileOrderly
<1>9. QED
    BY <1>1, <1>6, <1>7, <1>8

(* The destructor.                                                          *)
LEMMA CloseIInv ==
    ASSUME NEW a \in Addrs, IInv, Close(a)
    PROVE  IInv'
<1> USE DEF IInv
<1> DEFINE n == number_of_open_devices - 1
<1>1. Live' = Live \ {a} /\ a \in Live
    BY SentinelAssumption DEF Close, TypeOK, Live
<1>2. Cardinality(Live') = Cardinality(Live) - 1 /\ IsFiniteSet(Live')
    BY <1>1, LiveIsFinite, FS_RemoveElement
<1>3. n \in Nat /\ number_of_open_devices' = n /\ Entries' = 0 .. n - 1
  <2>1. Cardinality(Live') \in Nat
      BY <1>2, FS_CardinalityType
  <2>2. QED
      BY <1>2, <2>1 DEF Close, CountMatchesLive, TypeOK, Entries
<1>4. PICK i \in 0 .. n : /\ IsFirstEntry(a, n, i)
                          /\ open_devices' = Compacted(n, i)
    BY DEF Close
<1>5. TypeOK'
  <2>1. open_devices' \in [0 .. max_open_devices - 1 -> Addrs \cup {NoAddr}]
      BY <1>3, <1>4 DEF TypeOK, Compacted
  <2>2. QED
      BY <1>3, <2>1 DEF Close, TypeOK
<1>6. CountMatchesLive'
  <2>1. \A j \in Entries' : open_devices'[j] # NoAddr
    <3> TAKE j \in Entries'
    <3>1. j \in Entries /\ (j + 1 < n => j + 1 \in Entries)
        BY <1>3 DEF Entries, TypeOK
    <3>2. open_devices'[j] \in {open_devices[j], open_devices[j + 1]}
          /\ (open_devices'[j] # open_devices[j] => j + 1 < n)
        BY <1>3, <1>4, <3>1 DEF Compacted, TypeOK, Entries
    <3>3. QED
        BY <3>1, <3>2 DEF CountMatchesLive
  <2>2. QED
      BY <1>2, <1>3, <2>1 DEF CountMatchesLive
<1>7. CASE n = 0
  <2>1. Live' = {}
      BY <1>2, <1>3, <1>7, FS_EmptySet DEF CountMatchesLive
  <2>2. Entries' = {}
      BY <1>3, <1>7
  <2>3. ExactWhileOrderly' /\ NoSharedPlaceWhileOrderly'
      BY <2>1, <2>2 DEF ExactWhileOrderly, NoSharedPlaceWhileOrderly
  <2>4. QED
      BY <1>5, <1>6, <2>3
<1>8. CASE n # 0 /\ orderly'
  <2>0. number_of_open_devices # 1
      BY <1>8 DEF TypeOK
  <2>1. orderly /\ IsNewest(a)
      BY <1>8, <2>0, Zenon DEF Close
  <2>2. \A j \in 0 .. n - 1 : open_devices[j] # a
      BY <1>3, <2>1 DEF IsNewest, ExactWhileOrderly, Entries, TypeOK
  <2>3. i = n
      BY <1>3, <1>4, <2>2 DEF IsFirstEntry
  <2>4. \A j \in Entries' : open_devices'[j] = open_devices[j]
      BY <1>3, <1>4, <2>3 DEF Compacted, TypeOK
  <2>5. Entries = Entries' \cup {n} /\ open_devices[n] = a
      BY <1>3, <2>1 DEF IsNewest, Entries, TypeOK
  <2>6. ExactWhileOrderly'
    <3>1. {open_devices[j] : j \in Entries}' = Live'
        BY <1>1, <1>3, <2>1, <2>2, <2>4, <2>5 DEF ExactWhileOrderly
    <3>2. QED
        BY <2>1, <2>4, <2>5, <3>1 DEF ExactWhileOrderly
  <2>7. NoSharedPlaceWhileOrderly'
      BY <1>1, <2>1 DEF NoSharedPlaceWhileOrderly, Close, TypeOK, Live
  <2>8. QED
      BY <1>5, <1>6, <2>6, <2>7
<1>9. CASE ~orderly'
    BY <1>5, <1>6, <1>9 DEF ExactWhileOrderly, NoSharedPlaceWhileOrderly
<1>10. QED
    BY <1>5, <1>7, <1>8, <1>9 DEF TypeOK

LEMMA StutterIInv == IInv /\ UNCHANGED vars => IInv'
BY DEF IInv, vars, TypeOK, CountMatchesLive, ExactWhileOrderly,
       NoSharedPlaceWhileOrderly, Live, Entries

(* Every reachable state satisfies the four invariants of the run.          *)
THEOREM RegistryInvariant == Spec => []IInv
<1>1. IInv /\ [Next]_vars => IInv'
    BY OpenIInv, CloseIInv, StutterIInv DEF Next
<1>2. QED
    BY InitIInv, <1>1, PTL DEF Spec

(* The array never overflows its capacity, its cells stay well-typed.       *)
THEOREM RegistryTypeCorrect == Spec => []TypeOK
BY RegistryInvariant, PTL DEF IInv

(* The count is right after any sequence of opens and closes.               *)
THEOREM RegistryCount == Spec => []CountMatchesLive
BY RegistryInvariant, PTL DEF IInv

(* Closing newest first keeps the entries exact.                            *)
THEOREM RegistryExact == Spec => []ExactWhileOrderly
BY RegistryInvariant, PTL DEF IInv

(* And so no place is ever opened twice.                                    *)
THEOREM RegistryUnique == Spec => []NoSharedPlaceWhileOrderly
BY RegistryInvariant, PTL DEF IInv

-----------------------------------------------------------------------------
(* The refinement: in whatever order devices are closed.                    *)
Mapped == {<<a, place[a]>> : a \in Live}

LEMMA OpenMapped ==
    ASSUME NEW a \in Addrs, NEW p \in Places, IInv, Open(a, p)
    PROVE  Abstract!Open(a, p)
<1> USE DEF IInv
<1>1. Live' = Live \cup {a} /\ a \notin Live
    BY SentinelAssumption DEF Open, TypeOK, Live
<1>2. place'[a] = p /\ \A d \in Live : place'[d] = place[d]
    BY <1>1 DEF Open, TypeOK, Live
<1>3. orderly => \A d \in Live : place[d] # p
    BY DEF Open, deviceIsOpen, CanAnswerFalse, ExactWhileOrderly
<1>4. Mapped' = Mapped \cup {<<a, p>>}
    BY <1>1, <1>2 DEF Mapped
<1>5. \A d \in Mapped : d[1] # a /\ (orderly => d[2] # p)
    BY <1>1, <1>3 DEF Mapped
<1>6. UNCHANGED orderly
    BY Zenon DEF Open
<1>7. QED
    BY <1>4, <1>5, <1>6 DEF Abstract!Open, Mapped

(* Exactness may go with a close, and comes back with the last one.         *)
LEMMA CloseOrderly ==
    ASSUME NEW a \in Addrs, IInv, Close(a)
    PROVE  \/ Mapped' = {} /\ orderly' = TRUE
           \/ Mapped' # {} /\ orderly' \in {orderly, FALSE}
<1> USE DEF IInv
<1>1. IInv'
    BY CloseIInv
<1>2. IsFiniteSet(Live')
    BY <1>1, FiniteAssumption, FS_Subset DEF Live
<1>3. number_of_open_devices' = number_of_open_devices - 1
    BY Zenon DEF Close
<1>4. number_of_open_devices = 1 <=> Live' = {}
  <2>1. number_of_open_devices' = Cardinality(Live')
      BY <1>1 DEF CountMatchesLive
  <2>2. Cardinality(Live') = 0 <=> Live' = {}
      BY <1>2, FS_EmptySet
  <2>3. number_of_open_devices \in Nat
      BY DEF TypeOK
  <2>4. QED
      BY <1>3, <2>1, <2>2, <2>3
<1>5. Mapped' = {} <=> Live' = {}
    BY DEF Mapped
<1>6. orderly' = (number_of_open_devices = 1 \/ (orderly /\ IsNewest(a)))
    BY Zenon DEF Close
<1>7. orderly \in BOOLEAN /\ orderly' \in BOOLEAN
    BY <1>1 DEF TypeOK
<1>8. CASE Live' = {}
    BY <1>4, <1>5, <1>6, <1>7, <1>8
<1>9. CASE Live' # {}
  <2>1. orderly' => orderly
      BY <1>4, <1>6, <1>9, Zenon
  <2>2. QED
      BY <1>5, <1>7, <1>9, <2>1
<1>10. QED
    BY <1>8, <1>9

LEMMA CloseMapped ==
    ASSUME NEW a \in Addrs, IInv, Close(a)
    PROVE  \E p \in Places : Abstract!Close(a, p)
<1> USE DEF IInv
<1>1. Live' = Live \ {a} /\ a \in Live
    BY SentinelAssumption DEF Close, TypeOK, Live
<1>2. \A d \in Live' : place'[d] = place[d]
    BY <1>1 DEF Close, TypeOK, Live
<1>3. place[a] \in Places
    BY <1>1 DEF TypeOK, Live
<1>4. <<a, place[a]>> \in Mapped
    BY <1>1 DEF Mapped
<1>5. Mapped' = Mapped \ {<<a, place[a]>>}
    BY <1>1, <1>2 DEF Mapped
<1>6. \/ Mapped' = {} /\ orderly' = TRUE
      \/ Mapped' # {} /\ orderly' \in {orderly, FALSE}
    BY CloseOrderly
<1>7. QED
    BY <1>3, <1>4, <1>5, <1>6 DEF Abstract!Close, Mapped

(* The array implements OpenDeviceSet, in whatever order devices are        *)
(* closed: what it still promises after a close out of order is that no     *)
(* object is listed twice, and everything once it was empty again.          *)
THEOREM RegistryRefinesSet == Spec => RegistryIsASet
<1>1. Init => Abstract!Init
    BY DEF Init, Abstract!Init, Live
<1>2. IInv /\ [Next]_vars => [Abstract!Next]_<<Mapped, orderly>>
  <2> SUFFICES ASSUME IInv, [Next]_vars
               PROVE  [Abstract!Next]_<<Mapped, orderly>>
      OBVIOUS
  <2>1. CASE UNCHANGED vars
      BY <2>1 DEF vars, Mapped, Live
  <2>2. ASSUME NEW a \in Addrs, Close(a)
        PROVE  Abstract!Next
      BY <2>2, CloseMapped DEF Abstract!Next
  <2>3. ASSUME NEW a \in Addrs, NEW p \in Places, Open(a, p)
        PROVE  Abstract!Next
      BY <2>3, OpenMapped DEF Abstract!Next
  <2>4. QED
      BY <2>1, <2>2, <2>3 DEF Next
<1>3. QED
    BY RegistryInvariant, <1>1, <1>2, PTL
       DEF Spec, RegistryIsASet, Abstract!Spec, Mapped
=============================================================================
