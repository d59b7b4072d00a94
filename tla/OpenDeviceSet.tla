--------------------------- MODULE OpenDeviceSet ---------------------------
(***************************************************************************)
(* What the registry of open devices promises the device iterator: a set   *)
(* of open devices, each an object and the place it drives, in which no    *)
(* object occurs twice and, while the promise is exact, no place either.   *)
(* A close may break exactness; an empty registry is exact again.          *)
(***************************************************************************)
CONSTANTS Addrs, Places

VARIABLES devices, exact

Init == devices = {} /\ exact = TRUE

Open(a, p) == /\ \A d \in devices : d[1] # a /\ (exact => d[2] # p)
              /\ devices' = devices \cup {<<a, p>>}
              /\ UNCHANGED exact

Close(a, p) == /\ <<a, p>> \in devices
               /\ devices' = devices \ {<<a, p>>}
               /\ \/ devices' = {} /\ exact' = TRUE
                  \/ devices' # {} /\ exact' \in {exact, FALSE}

Next == \E a \in Addrs, p \in Places : Open(a, p) \/ Close(a, p)

Spec == Init /\ [][Next]_<<devices, exact>>
=============================================================================
