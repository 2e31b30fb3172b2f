------------------------------ MODULE MCUsbWork ------------------------------
(* Three requests on two slots: an idle bulk-IN and two others.             *)
EXTENDS UsbWork
CONSTANTS i1, i2, i3, u1
MCUnitOf == [i \in Iors |-> u1]
=============================================================================
