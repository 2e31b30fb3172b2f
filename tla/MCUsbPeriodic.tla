--------------------------- MODULE MCUsbPeriodic ---------------------------
(* UsbPeriodic for TLC: two readers of one endpoint, a writer, the root hub. *)
EXTENDS UsbPeriodic

CONSTANTS r1, r2, w, h, e1, e2

MCEpOf == [i \in Ints |-> IF i = w THEN e2 ELSE e1]
=============================================================================
