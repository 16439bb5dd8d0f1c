---------------------------- MODULE Nat64Address ----------------------------
(* An IPv4 address inside an IPv6 address, by RFC 6052: what the translator  *)
(* of ipv6测试/rfc6052 puts together and what dns64_query_c/dns_v6 takes     *)
(* apart. An address is its octets in network order; s_addr & 0xff is the    *)
(* first octet on the little-endian machines the build is for.               *)
EXTENDS Integers

Byte == 0..255
Ipv4 == [0..3 -> Byte]
Ipv6 == [0..15 -> Byte]

PrefixLengths == {32, 40, 48, 56, 64, 96}

\* The octets the code writes, in the order of the IPv4 address.
Octets(a, b, c, d) == [k \in 0..3 |-> CASE k = 0 -> a [] k = 1 -> b [] k = 2 -> c [] k = 3 -> d]

\* a with v4 written over the octets at, and 0 over the octets u.
Write(a, at, v4, u) ==
  [i \in 0..15 |-> IF \E k \in 0..3 : at[k] = i
                   THEN v4[CHOOSE k \in 0..3 : at[k] = i]
                   ELSE IF i \in u THEN 0 ELSE a[i]]

\* a with every octet from the n-th on made 0.
ZeroFrom(a, n) == [i \in 0..15 |-> IF i < n THEN a[i] ELSE 0]
-----------------------------------------------------------------------------
(* The translator. *)

TranslatedOctets(length) ==
  CASE length = 96 -> Octets(12, 13, 14, 15)
    [] length = 64 -> Octets(9, 10, 11, 12)
    [] length = 56 -> Octets(7, 9, 10, 11)
    [] length = 48 -> Octets(6, 7, 9, 10)
    [] length = 40 -> Octets(5, 6, 7, 9)
    [] length = 32 -> Octets(4, 5, 6, 7)

ipv4toipv6(prefix, length, v4) ==
  Write(ZeroFrom(prefix, length \div 8), TranslatedOctets(length), v4,
        IF length = 96 THEN {} ELSE {8})
-----------------------------------------------------------------------------
(* The resolver. *)

GetSuffixZeroCount(a) ==
  CHOOSE n \in 0..16 : /\ \A i \in (16 - n)..15 : a[i] = 0
                       /\ n < 16 => a[15 - n] # 0

WellKnown == {Octets(192, 0, 0, last) : last \in {170, 171}}

\* Where a well-known address is looked for, by the number of zeros.
CheckedOctets(zeros) ==
  CASE zeros = 3 -> Octets(9, 10, 11, 12)
    [] zeros = 4 -> Octets(7, 9, 10, 11)
    [] zeros = 5 -> Octets(6, 7, 9, 10)
    [] zeros = 6 -> Octets(5, 6, 7, 9)
    [] zeros = 8 -> Octets(4, 5, 6, 7)
    [] zeros = 0 -> Octets(12, 13, 14, 15)

\* is_valid of IsNat64AddrValid: for zeros 4 to 6 the constants compared have
\* octet 8 of the address, a 0, in them.
HasWellKnown(a) ==
  LET zeros == GetSuffixZeroCount(a) IN
  /\ zeros \in {0, 3, 4, 5, 6, 8}
  /\ [k \in 0..3 |-> a[CheckedOctets(zeros)[k]]] \in WellKnown
  /\ zeros \in {4, 5, 6} => a[8] = 0

\* IsNat64AddrValid works out is_valid and returns true.
IsNat64AddrValid(a) == TRUE

ReplacedOctets(zeros) ==
  CASE zeros = 3 -> Octets(9, 10, 11, 12)
    [] zeros = 4 -> Octets(7, 9, 10, 11)
    [] zeros = 5 -> Octets(6, 7, 9, 10)
    [] zeros = 6 -> Octets(5, 6, 7, 9)
    [] zeros = 8 -> Octets(4, 5, 6, 7)
    [] OTHER -> Octets(12, 13, 14, 15)

\* Variant: with three octets after the IPv4 address, it is written from octet 8.
ReplaceFromOctet8(a, v4) ==
  LET zeros == GetSuffixZeroCount(a) IN
  Write(a, IF zeros = 3 THEN Octets(8, 9, 10, 11) ELSE ReplacedOctets(zeros),
        v4, IF zeros \in {4, 5, 6} THEN {8} ELSE {})

ReplaceNat64WithV4IP(a, v4) ==
  LET zeros == GetSuffixZeroCount(a) IN
  Write(a, ReplacedOctets(zeros), v4, IF zeros \in {4, 5, 6} THEN {8} ELSE {})
=============================================================================
