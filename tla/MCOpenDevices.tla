--------------------------- MODULE MCOpenDevices ---------------------------
(* Five addresses make the array grow twice (2, 4, 6 cells); more places    *)
(* than two are needed for a dropped device to be hidden by another one.    *)
EXTENDS OpenDevices, TLC

Symmetry == Permutations(Addrs) \cup Permutations(Places)
=============================================================================
