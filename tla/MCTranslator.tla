---------------------------- MODULE MCTranslator ----------------------------
EXTENDS Translator

Ipv6Addr == [o \in 0..15 |-> CASE o = 0 -> 32 [] o = 1 -> 1 [] o = 2 -> 6
                               [] o = 3 -> 124 [] o = 4 -> 39 [] o = 5 -> 228
                               [] o = 7 -> 21 [] OTHER -> 0]
TwoInputs == {Octets(119, 29, 103, 34), Octets(255, 0, 0, 0)}
=============================================================================
