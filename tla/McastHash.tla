----------------------------- MODULE McastHash -----------------------------
(* The hash of the card's receive filter (net/mcast.c).  An address is the *)
(* tuple of its six bytes.                                                  *)
EXTENDS Naturals, Sequences, Bitwise

\* zznet_mcast_hash: XOR of the eight consecutive 6-bit pieces of the address,
\* least significant bits of the first byte first.
zznet_mcast_hash(a) ==
  LET low(b)     == b % 64                            \* b & 0x3f
      mid(b, c)  == (b \div 64) + (c % 16) * 4        \* across bytes 0 and 1
      high(b, c) == (b \div 16) + (c % 4) * 16        \* across bytes 1 and 2
      four(b, c, d) == ((low(b) ^^ mid(b, c)) ^^ high(c, d)) ^^ (d \div 4)
  IN  four(a[1], a[2], a[3]) ^^ four(a[4], a[5], a[6])

\* zznet_mcast_is_broadcast
IsBroadcast(a) == \A i \in 1..6 : a[i] = 255

\* zznet_mcast_membership_required: a group address other than broadcast.
MembershipRequired(a) == a[1] % 2 = 1 /\ ~IsBroadcast(a)
=============================================================================
