----------------------------- MODULE Nat64Proofs -----------------------------
(* Proofs about Nat64Address, for every prefix and every IPv4 address: the   *)
(* resolver finds the place of a well-known address in whatever the          *)
(* translator makes, and what it writes there is what the translator writes. *)
EXTENDS Nat64Address, TLAPS

Ascending == {at \in [0..3 -> 0..15] : \A j, k \in 0..3 : j < k => at[j] < at[k]}

\* The places of the tables are in ascending order.
LEMMA OctetsAscend ==
  ASSUME NEW a \in 0..15, NEW b \in 0..15, NEW c \in 0..15, NEW d \in 0..15,
         a < b, b < c, c < d
  PROVE  /\ Octets(a, b, c, d) \in Ascending
         /\ Octets(a, b, c, d)[0] = a
         /\ Octets(a, b, c, d)[3] = d
  BY DEF Octets, Ascending

\* Write puts the k-th octet of v where at says, and changes no other octet
\* than those it makes 0.
LEMMA Written ==
  ASSUME NEW a, NEW v, NEW u, NEW at \in Ascending
  PROVE  /\ Write(a, at, v, u) = [i \in 0..15 |-> Write(a, at, v, u)[i]]
         /\ \A k \in 0..3 : Write(a, at, v, u)[at[k]] = v[k]
         /\ \A i \in 0..15 : (\A k \in 0..3 : at[k] # i) =>
              Write(a, at, v, u)[i] = IF i \in u THEN 0 ELSE a[i]
  <1>1. ASSUME NEW k \in 0..3 PROVE Write(a, at, v, u)[at[k]] = v[k]
    <2> DEFINE j == CHOOSE j \in 0..3 : at[j] = at[k]
    <2>1. j \in 0..3 /\ at[j] = at[k]
      OBVIOUS
    <2>2. at[k] \in 0..15 /\ Write(a, at, v, u)[at[k]] = v[j]
      BY DEF Write, Ascending
    <2> HIDE DEF j
    <2>3. j = k
      BY <2>1 DEF Ascending
    <2> QED BY <2>2, <2>3
  <1> QED BY <1>1 DEF Write

\* GetSuffixZeroCount is determined by the last octet that is not 0.
LEMMA ZeroCount ==
  ASSUME NEW a, NEW n \in 0..15,
         \A i \in (16 - n)..15 : a[i] = 0, a[15 - n] # 0
  PROVE  GetSuffixZeroCount(a) = n
  <1> DEFINE Good(m) == /\ \A i \in (16 - m)..15 : a[i] = 0
                        /\ m < 16 => a[15 - m] # 0
  <1>1. Good(n)
    OBVIOUS
  <1>2. ASSUME NEW m \in 0..16, Good(m) PROVE m = n
    <2>1. CASE m < n
      <3>1. 15 - m \in (16 - n)..15
        BY <2>1
      <3> QED BY <3>1, <1>2, <2>1
    <2>2. CASE n < m
      <3>1. 15 - n \in (16 - m)..15
        BY <2>2
      <3> QED BY <3>1, <1>2, <2>2
    <2> QED BY <2>1, <2>2
  <1>3. GetSuffixZeroCount(a) = CHOOSE m \in 0..16 : Good(m)
    BY DEF GetSuffixZeroCount
  <1> HIDE DEF Good
  <1>4. n \in 0..16
    OBVIOUS
  <1> QED BY <1>1, <1>2, <1>3, <1>4

\* The zeros after an IPv4 address whose last octet is not 0.
LEMMA ZerosAfter ==
  ASSUME NEW prefix, NEW w, NEW u, NEW n \in 0..15, NEW at \in Ascending,
         n <= at[0], w[3] # 0
  PROVE  GetSuffixZeroCount(Write(ZeroFrom(prefix, n), at, w, u)) = 15 - at[3]
  <1> DEFINE a == Write(ZeroFrom(prefix, n), at, w, u)
  <1>1. at[0] < at[3] /\ at[3] \in 0..15 /\ \A k \in 0..3 : at[k] <= at[3]
    BY DEF Ascending
  <1>2. a[at[3]] # 0
    BY Written
  <1>3. ASSUME NEW i \in (at[3] + 1)..15 PROVE a[i] = 0
    <2>1. i \in 0..15 /\ \A k \in 0..3 : at[k] # i
      BY <1>1 DEF Ascending
    <2>2. ZeroFrom(prefix, n)[i] = 0
      BY <1>1, at[0] \in 0..15 DEF ZeroFrom, Ascending
    <2> QED BY <2>1, <2>2, Written
  <1> HIDE DEF a
  <1> DEFINE z == 15 - at[3]
  <1>4. z \in 0..15 /\ 15 - z = at[3] /\ 16 - z = at[3] + 1
    BY <1>1
  <1> HIDE DEF z
  <1>5. GetSuffixZeroCount(a) = z
    BY <1>2, <1>3, <1>4, ZeroCount
  <1> QED BY <1>5 DEF a, z

\* An address written over another at the same octets leaves no trace of it.
LEMMA Rewritten ==
  ASSUME NEW b, NEW w, NEW v, NEW at \in Ascending, NEW u, NEW t \in SUBSET u
  PROVE  Write(Write(b, at, w, u), at, v, t) = Write(b, at, v, u)
  <1> DEFINE a == Write(b, at, w, u)
             c == Write(a, at, v, t)
             d == Write(b, at, v, u)
  <1>1. c = [i \in 0..15 |-> c[i]] /\ d = [i \in 0..15 |-> d[i]]
    BY Written
  <1>2. ASSUME NEW i \in 0..15 PROVE c[i] = d[i]
    <2>1. CASE \E k \in 0..3 : at[k] = i
      BY <2>1, Written
    <2>2. CASE \A k \in 0..3 : at[k] # i
      <3>1. a[i] = IF i \in u THEN 0 ELSE b[i]
        BY <2>2, Written
      <3>2. d[i] = IF i \in u THEN 0 ELSE b[i]
        BY <2>2, Written
      <3> HIDE DEF a, d
      <3>3. c[i] = IF i \in t THEN 0 ELSE a[i]
        BY <2>2, Written
      <3> QED BY <3>1, <3>2, <3>3
    <2> QED BY <2>1, <2>2
  <1> HIDE DEF c, d
  <1>3. c = d
    BY <1>1, <1>2
  <1> QED BY <1>3 DEF a, c, d

\* n octets of prefix, an IPv4 address at the octets at, those of u made 0: a
\* layout that ReplaceNat64WithV4IP recognizes by the zeros at the end.
Layout(n, at, u) ==
  /\ n \in 0..15 /\ at \in Ascending /\ n <= at[0]
  /\ ReplacedOctets(15 - at[3]) = at
  /\ 15 - at[3] \in {4, 5, 6} => 8 \in u

\* In such a layout an address whose last octet is not 0 is replaced by another.
LEMMA ReplacesAt ==
  ASSUME NEW prefix, NEW w, NEW v, w[3] # 0, NEW n, NEW at, NEW u, Layout(n, at, u)
  PROVE  ReplaceNat64WithV4IP(Write(ZeroFrom(prefix, n), at, w, u), v)
           = Write(ZeroFrom(prefix, n), at, v, u)
  <1>0. /\ n \in 0..15 /\ at \in Ascending /\ n <= at[0]
        /\ ReplacedOctets(15 - at[3]) = at
        /\ 15 - at[3] \in {4, 5, 6} => 8 \in u
    BY DEF Layout
  <1> DEFINE b == ZeroFrom(prefix, n)
             a == Write(b, at, w, u)
             t == IF 15 - at[3] \in {4, 5, 6} THEN {8} ELSE {}
  <1>1. GetSuffixZeroCount(a) = 15 - at[3]
    BY <1>0, ZerosAfter
  <1>2. ReplaceNat64WithV4IP(a, v) = Write(a, at, v, t)
    BY <1>0, <1>1 DEF ReplaceNat64WithV4IP
  <1>3. t \in SUBSET u
    BY <1>0
  <1> HIDE DEF t
  <1>4. Write(a, at, v, t) = Write(b, at, v, u)
    BY <1>0, <1>3, Rewritten
  <1> QED BY <1>2, <1>4

\* What the two tables say of each length of prefix.
LEMMA Tables ==
  ASSUME NEW length \in PrefixLengths
  PROVE  Layout(length \div 8, TranslatedOctets(length),
                IF length = 96 THEN {} ELSE {8})
  <1>1. CASE length = 96
    <2>1. TranslatedOctets(length) = Octets(12, 13, 14, 15) /\ length \div 8 = 12
      BY <1>1 DEF TranslatedOctets
    <2>2. ReplacedOctets(0) = Octets(12, 13, 14, 15)
      BY DEF ReplacedOctets
    <2>3. /\ Octets(12, 13, 14, 15) \in Ascending
          /\ Octets(12, 13, 14, 15)[0] = 12 /\ Octets(12, 13, 14, 15)[3] = 15
      BY DEF Octets, Ascending
    <2> QED BY <1>1, <2>1, <2>2, <2>3 DEF Layout
  <1>2. CASE length = 64
    <2>1. TranslatedOctets(length) = Octets(9, 10, 11, 12) /\ length \div 8 = 8
      BY <1>2 DEF TranslatedOctets
    <2>2. ReplacedOctets(3) = Octets(9, 10, 11, 12)
      BY DEF ReplacedOctets
    <2>3. /\ Octets(9, 10, 11, 12) \in Ascending
          /\ Octets(9, 10, 11, 12)[0] = 9 /\ Octets(9, 10, 11, 12)[3] = 12
      BY DEF Octets, Ascending
    <2> QED BY <1>2, <2>1, <2>2, <2>3 DEF Layout
  <1>3. CASE length = 56
    <2>1. TranslatedOctets(length) = Octets(7, 9, 10, 11) /\ length \div 8 = 7
      BY <1>3 DEF TranslatedOctets
    <2>2. ReplacedOctets(4) = Octets(7, 9, 10, 11)
      BY DEF ReplacedOctets
    <2>3. /\ Octets(7, 9, 10, 11) \in Ascending
          /\ Octets(7, 9, 10, 11)[0] = 7 /\ Octets(7, 9, 10, 11)[3] = 11
      BY DEF Octets, Ascending
    <2> QED BY <1>3, <2>1, <2>2, <2>3 DEF Layout
  <1>4. CASE length = 48
    <2>1. TranslatedOctets(length) = Octets(6, 7, 9, 10) /\ length \div 8 = 6
      BY <1>4 DEF TranslatedOctets
    <2>2. ReplacedOctets(5) = Octets(6, 7, 9, 10)
      BY DEF ReplacedOctets
    <2>3. /\ Octets(6, 7, 9, 10) \in Ascending
          /\ Octets(6, 7, 9, 10)[0] = 6 /\ Octets(6, 7, 9, 10)[3] = 10
      BY DEF Octets, Ascending
    <2> QED BY <1>4, <2>1, <2>2, <2>3 DEF Layout
  <1>5. CASE length = 40
    <2>1. TranslatedOctets(length) = Octets(5, 6, 7, 9) /\ length \div 8 = 5
      BY <1>5 DEF TranslatedOctets
    <2>2. ReplacedOctets(6) = Octets(5, 6, 7, 9)
      BY DEF ReplacedOctets
    <2>3. /\ Octets(5, 6, 7, 9) \in Ascending
          /\ Octets(5, 6, 7, 9)[0] = 5 /\ Octets(5, 6, 7, 9)[3] = 9
      BY DEF Octets, Ascending
    <2> QED BY <1>5, <2>1, <2>2, <2>3 DEF Layout
  <1>6. CASE length = 32
    <2>1. TranslatedOctets(length) = Octets(4, 5, 6, 7) /\ length \div 8 = 4
      BY <1>6 DEF TranslatedOctets
    <2>2. ReplacedOctets(8) = Octets(4, 5, 6, 7)
      BY DEF ReplacedOctets
    <2>3. /\ Octets(4, 5, 6, 7) \in Ascending
          /\ Octets(4, 5, 6, 7)[0] = 4 /\ Octets(4, 5, 6, 7)[3] = 7
      BY DEF Octets, Ascending
    <2> QED BY <1>6, <2>1, <2>2, <2>3 DEF Layout
  <1> QED BY <1>1, <1>2, <1>3, <1>4, <1>5, <1>6 DEF PrefixLengths

\* The translator's address of one IPv4 address is made that of another, if the last
\* octet of the first is not 0.
LEMMA ReplaceOfTranslated ==
  ASSUME NEW prefix, NEW length \in PrefixLengths, NEW w, w[3] # 0, NEW v
  PROVE  ReplaceNat64WithV4IP(ipv4toipv6(prefix, length, w), v)
           = ipv4toipv6(prefix, length, v)
  <1> DEFINE at == TranslatedOctets(length)
             n == length \div 8
             u == IF length = 96 THEN {} ELSE {8}
  <1>1. Layout(n, at, u)
    BY Tables
  <1>2. \A x : ipv4toipv6(prefix, length, x) = Write(ZeroFrom(prefix, n), at, x, u)
    BY DEF ipv4toipv6
  <1> HIDE DEF at, n, u
  <1>3. ReplaceNat64WithV4IP(Write(ZeroFrom(prefix, n), at, w, u), v)
          = Write(ZeroFrom(prefix, n), at, v, u)
    BY <1>1, ReplacesAt
  <1> QED BY <1>2, <1>3

\* ReplaceNat64WithV4IP (204-244) finds the place of a well-known address in
\* every prefix the translator knows, and writes what the translator would
\* have written: the two programs agree on RFC 6052.
THEOREM ReplaceIsTranslation ==
  ASSUME NEW prefix, NEW length \in PrefixLengths, NEW w \in WellKnown, NEW v
  PROVE  ReplaceNat64WithV4IP(ipv4toipv6(prefix, length, w), v)
           = ipv4toipv6(prefix, length, v)
  <1>1. w[3] # 0
    BY DEF WellKnown, Octets
  <1> QED BY <1>1, ReplaceOfTranslated

\* What the translator makes begins with the octets of the prefix.
LEMMA PrefixKept ==
  ASSUME NEW prefix, NEW length \in PrefixLengths, NEW v,
         NEW o \in 0..15, o < length \div 8
  PROVE  ipv4toipv6(prefix, length, v)[o] = prefix[o]
  <1> DEFINE at == TranslatedOctets(length)
             n == length \div 8
             u == IF length = 96 THEN {} ELSE {8}
  <1>1. n \in 0..15 /\ at \in Ascending /\ n <= at[0]
    BY Tables DEF Layout
  <1>2. o \notin u
    BY DEF PrefixLengths
  <1> HIDE DEF at, n, u
  <1>3. \A k \in 0..3 : at[k] # o
    BY <1>1 DEF Ascending, n
  <1>4. ZeroFrom(prefix, n)[o] = prefix[o]
    BY DEF ZeroFrom, n
  <1>5. Write(ZeroFrom(prefix, n), at, v, u)[o] = ZeroFrom(prefix, n)[o]
    BY <1>1, <1>2, <1>3, Written
  <1> QED BY <1>4, <1>5 DEF ipv4toipv6, at, n, u

\* Whatever is written over an IPv6 address, an IPv6 address comes of it.
LEMMA WrittenIsIpv6 ==
  ASSUME NEW a \in Ipv6, NEW v \in Ipv4, NEW at, NEW u
  PROVE  Write(a, at, v, u) \in Ipv6
  <1>1. ASSUME NEW i \in 0..15, \E k \in 0..3 : at[k] = i
        PROVE  (CHOOSE k \in 0..3 : at[k] = i) \in 0..3
    BY <1>1
  <1>2. 0 \in Byte
    BY DEF Byte
  <1> QED BY <1>1, <1>2 DEF Write, Ipv6, Ipv4

\* The translator and ReplaceNat64WithV4IP make IPv6 addresses.
LEMMA AddressTypes ==
  ASSUME NEW a \in Ipv6, NEW length, NEW v \in Ipv4
  PROVE  /\ ipv4toipv6(a, length, v) \in Ipv6
         /\ ReplaceNat64WithV4IP(a, v) \in Ipv6
  <1>1. \A n : ZeroFrom(a, n) \in Ipv6
    BY DEF ZeroFrom, Ipv6, Byte
  <1>2. ipv4toipv6(a, length, v) \in Ipv6
    BY <1>1, WrittenIsIpv6 DEF ipv4toipv6
  <1>3. ReplaceNat64WithV4IP(a, v) \in Ipv6
    BY WrittenIsIpv6 DEF ReplaceNat64WithV4IP
  <1> QED BY <1>2, <1>3

\* The well-known addresses are IPv4 addresses.
LEMMA WellKnownIsIpv4 == WellKnown \subseteq Ipv4
  BY DEF WellKnown, Octets, Ipv4, Byte
=============================================================================
