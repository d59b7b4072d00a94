------------------------------- MODULE MCOmni -------------------------------
EXTENDS Omni

(* Both devices on one port: the case in which they compete for channels.   *)
OnePort == [n \in Nodes |-> 1]

(* At rest, button 1 held, button 2 held, docked.                           *)
Undocked(b1, b2) == [docked |-> 1, button1 |-> b1, button2 |-> b2]
Docked == [docked |-> 0, button1 |-> 1, button2 |-> 1]
MCSamples == {Undocked(1, 1), Undocked(0, 0), Docked}
(* No button is ever held, so that no device resets the bus itself.         *)
HandsOff == {Undocked(1, 1), Docked}

(* A bound: with two devices the run ends at the first fault or refused     *)
(* allocation, with one device it goes on and meets any number.             *)
OneDeviceGoesOn == found_devices > 1 => ~faulted
=============================================================================
