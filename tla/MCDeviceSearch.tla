--------------------------- MODULE MCDeviceSearch ---------------------------
(* Two ports with two nodes each, a Phantom on each port (node numbers are  *)
(* whatever the bus assigned: the host of the second port is its node 1).   *)
EXTENDS DeviceSearch, TLC

Nodes == (0 :> 2) @@ (1 :> 2)
BusPlaces == {<<0, 0>>, <<0, 1>>, <<1, 0>>, <<1, 1>>}
BusSerials == [p \in BusPlaces |-> CASE p = <<0, 1>> -> 8
                                     [] p = <<1, 0>> -> 9
                                     [] OTHER        -> 0]
=============================================================================
