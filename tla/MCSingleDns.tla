----------------------------- MODULE MCSingleDns -----------------------------
EXTENDS SingleDns

\* 2001:67c:27e4:15::, the prefix of ipv4toipv6.cpp, and one with no zero octets but
\* octet 8, which RFC 6052 reserves.
Sparse == [o \in 0..15 |-> CASE o = 0 -> 32 [] o = 1 -> 1 [] o = 2 -> 6
                             [] o = 3 -> 124 [] o = 4 -> 39 [] o = 5 -> 228
                             [] o = 7 -> 21 [] OTHER -> 0]
Dense == [o \in 0..15 |-> IF o = 8 THEN 0 ELSE 32 + o]
Net(p, l) == [prefix |-> p, length |-> l]

ThreeNets == {Net(Dense, 64), Net(Sparse, 56), Net(Sparse, 96)}

\* 119.29.103.34 and 10.0.0.0.
TwoHosts == {Octets(119, 29, 103, 34), Octets(10, 0, 0, 0)}

Nobody == {}
MayNotOpen == {TRUE, FALSE}
=============================================================================
