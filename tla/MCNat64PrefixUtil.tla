------------------------- MODULE MCNat64PrefixUtil -------------------------
EXTENDS Nat64PrefixUtil

CONSTANTS plain, never

Dense == [o \in 0..15 |-> IF o = 8 THEN 0 ELSE 32 + o]
AllLengths == [prefix : {Dense}, length : PrefixLengths]

\* 119.29.103.34 and 10.0.0.0; 202.38.64.1.
TwoHosts == {Octets(119, 29, 103, 34), Octets(10, 0, 0, 0)}
Ustc == Octets(202, 38, 64, 1)

\* 2001:db8::1 and 2001:db8::c000:aa, in which there is a well-known address.
Documentation(end) == [o \in 0..15 |-> CASE o = 0 -> 32 [] o = 1 -> 1 [] o = 2 -> 13 [] o = 3 -> 184
                                         [] o >= 12 -> end[o - 12] [] OTHER -> 0]
TwoOfItsOwn == {Documentation(Octets(0, 0, 0, 1)), Documentation(Octets(192, 0, 0, 170))}
=============================================================================
