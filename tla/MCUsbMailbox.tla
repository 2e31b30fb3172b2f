---------------------------- MODULE MCUsbMailbox ----------------------------
(* UsbMailbox for TLC: a flush of one slot, one realtime service per wait. *)
EXTENDS UsbMailbox
=============================================================================
