---------------------------- MODULE MCNetFamilyDns ----------------------------
EXTENDS NetFamilyDns

CONSTANTS h1, h2, never

\* Of two hosts, one has an IPv6 address.
TwoHosts == {h1, h2}
Ipv4Of == [h \in TwoHosts |->
             IF h = h1 THEN {<<119, 29, 103, 34>>, <<119, 75, 0, 1>>} ELSE {<<10, 0, 0, 0>>}]
Ipv6Of == [h \in TwoHosts |-> IF h = h1 THEN {<<32, 1, 6, 124>>} ELSE {}]
=============================================================================
