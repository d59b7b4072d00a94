------------------------------ MODULE MCMacOSX ------------------------------
(* Two Phantoms; the first shares its device with a unit of another kind.   *)
EXTENDS MacOSX

CONSTANTS u1, u2, other
TwoDevices == <<<<other, u1>>, <<u2>>>>
=============================================================================
