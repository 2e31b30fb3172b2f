---------------------------- MODULE MCNetDevice ----------------------------
(* NetDevice with two openers that read two packet types.                  *)
EXTENDS NetDevice

CONSTANTS a, b, ip, arp

MCPacketType == [o \in Openers |-> IF o = a THEN ip ELSE arp]
=============================================================================
