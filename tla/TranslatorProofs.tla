--------------------------- MODULE TranslatorProofs ---------------------------
(* Translator for every file, prefix and address: the address made is the one *)
(* RFC 6052 defines for the length that setting.conf sets last.               *)
EXTENDS Translator, Nat64Proofs, WellFoundedInduction

USE PrefixAssumption, InputsAssumption, MaxPiecesAssumption

\* The places of the octets, by RFC 6052 and in ipv4toipv6.
Place(length, k) ==
  IF length \div 8 + k < 8 \/ length = 96 THEN length \div 8 + k ELSE length \div 8 + k + 1

LEMMA PlacesAgree ==
  ASSUME NEW length \in PrefixLengths
  PROVE  /\ TranslatedOctets(length) \in Ascending
         /\ \A k \in 0..3 : TranslatedOctets(length)[k] = Place(length, k)
         /\ length \div 8 \in Nat
         /\ length # 96 => length \div 8 <= 8
<1>1. length \in {32, 40, 48, 56, 64, 96}
  BY DEF PrefixLengths
<1>2. TranslatedOctets(length) \in Ascending
  BY <1>1 DEF TranslatedOctets, Octets, Ascending
<1>3. length \div 8 \in Nat /\ (length # 96 => length \div 8 <= 8)
  BY <1>1
<1>4. \A k \in 0..3 : TranslatedOctets(length)[k] = Place(length, k)
  BY <1>1 DEF TranslatedOctets, Octets, Place
<1> QED
  BY <1>2, <1>3, <1>4

\* ipv4toipv6 does what RFC 6052 says, for all six lengths (ipv4toipv6.cpp:22-83).
LEMMA EmbedsByRfc ==
  ASSUME NEW prefix, NEW length \in PrefixLengths, NEW a
  PROVE  ipv4toipv6(prefix, length, a) = Rfc6052(prefix, length, a)
<1> DEFINE n == length \div 8
           at == TranslatedOctets(length)
           u == IF length = 96 THEN {} ELSE {8}
           made == ipv4toipv6(prefix, length, a)
           wanted == Rfc6052(prefix, length, a)
           octet(i) ==
             IF \E k \in 0..3 : Place(length, k) = i
             THEN a[CHOOSE k \in 0..3 : Place(length, k) = i]
             ELSE IF i < n THEN prefix[i] ELSE 0
<1>1. /\ at \in Ascending /\ n \in Nat /\ (length # 96 => n <= 8)
      /\ \A k \in 0..3 : at[k] = Place(length, k)
  BY PlacesAgree
<1>2. made = Write(ZeroFrom(prefix, n), at, a, u)
  <2>1. u = IF length = 96 THEN {} ELSE {8}
    OBVIOUS
  <2> QED
    BY DEF ipv4toipv6
<1>3. /\ made = [i \in 0..15 |-> made[i]]
      /\ \A k \in 0..3 : made[at[k]] = a[k]
      /\ \A i \in 0..15 : (\A k \in 0..3 : at[k] # i) =>
           made[i] = IF i \in u THEN 0 ELSE ZeroFrom(prefix, n)[i]
  <2> HIDE DEF made, n, at, u
  <2> QED
    BY <1>1, <1>2, Written
<1>4. wanted = [i \in 0..15 |-> octet(i)]
  BY DEF Rfc6052, Place
<1>5. ASSUME NEW i \in 0..15 PROVE made[i] = octet(i)
  <2>1. CASE \E k \in 0..3 : Place(length, k) = i
    <3> DEFINE k == CHOOSE k \in 0..3 : Place(length, k) = i
    <3>1. k \in 0..3 /\ Place(length, k) = i
      BY <2>1
    <3>2. octet(i) = a[k]
      BY <2>1
    <3> HIDE DEF k, made, octet, at
    <3> QED
      BY <1>1, <1>3, <3>1, <3>2
  <2>2. CASE ~ \E k \in 0..3 : Place(length, k) = i
    <3>1. octet(i) = IF i < n THEN prefix[i] ELSE 0
      BY <2>2
    <3>2. ZeroFrom(prefix, n)[i] = IF i < n THEN prefix[i] ELSE 0
      BY DEF ZeroFrom
    <3>3. \A k \in 0..3 : at[k] # i
      BY <1>1, <2>2
    <3>4. i \in u => ~ (i < n)
      BY <1>1
    <3> HIDE DEF made, octet, at, u, n
    <3> QED
      BY <1>3, <3>1, <3>2, <3>3, <3>4
  <2> QED
    BY <2>1, <2>2
<1> HIDE DEF made, wanted, octet
<1>6. made = wanted
  BY <1>3, <1>4, <1>5
<1> QED
  BY <1>6 DEF made, wanted
-----------------------------------------------------------------------------
(* The length that is set last.                                              *)

\* No line just fills a piece.
Plain == \A i \in DOMAIN conf : ~ (conf[i].full /\ conf[i].ends)

AtLineStart(n) == n = 1 \/ conf[n-1].ends

\* The settings among the first pieces of the lines before piece n.
SetBefore(n) == {i \in Settings : i < n}
LastSetBefore(n, length) ==
  \/ SetBefore(n) = {} /\ length = 0
  \/ \E i \in SetBefore(n) : conf[i].value = length /\ \A j \in SetBefore(n) : j <= i

\* What has been read when, and what is made of it.
PrefixInv ==
  /\ next \in 1..Len(conf) + 1 /\ AtLineStart(next)
  /\ LastSetBefore(next, ipv6_prefix)
  /\ pc \in {"input", "translate", "done", "exit"} => next = Len(conf) + 1
  /\ pc = "exit" => ipv6_prefix \notin PrefixLengths
  /\ pc = "done" => /\ ipv6_prefix \in PrefixLengths
                    /\ v6 = ipv4toipv6(Prefix, ipv6_prefix, v4)

IInv == conf \in Files /\ (pc # "crash" /\ Plain => PrefixInv)

LEMMA FileIs ==
  ASSUME conf \in Files
  PROVE  /\ Len(conf) \in Nat /\ DOMAIN conf = 1..Len(conf)
         /\ \A i \in 1..Len(conf) : conf[i] \in Piece
         /\ WellCut(conf)
<1>1. PICK n \in 0..MaxPieces : conf \in [1..n -> Piece]
  BY DEF Files
<1>2. WellCut(conf)
  BY DEF Files
<1>3. n \in Nat
  BY <1>1
<1>4. conf \in Seq(Piece) /\ Len(conf) = n
  BY <1>1, <1>3
<1> QED
  BY <1>1, <1>2, <1>3, <1>4

\* Of a plain file, a line ends with its first piece that is not full.
LEMMA LineEnds ==
  ASSUME conf \in Files, Plain, next \in 1..Len(conf)
  PROVE  /\ LineEnd # {}
         /\ \A i \in LineEnd : /\ i \in next..Len(conf) /\ conf[i].ends
                               /\ \A j \in next..i-1 : ~ conf[j].ends
<1>1. Len(conf) \in Nat /\ DOMAIN conf = 1..Len(conf)
  BY FileIs
<1>2. ASSUME NEW i \in 1..Len(conf)
      PROVE  (conf[i].full <=> ~ conf[i].ends) /\ (i = Len(conf) => conf[i].ends)
  BY <1>1, FileIs, Zenon DEF WellCut, Plain
<1> DEFINE E == {i \in 1..Len(conf) : conf[i].ends}
           T == {i \in next..Len(conf) : i \in E}
<1>3. \A i \in 1..Len(conf) : (i = Len(conf) => i \in E) /\ (i \in E <=> ~ conf[i].full)
  BY <1>2, Zenon
<1>4. next..Len(conf) \subseteq 1..Len(conf) /\ Len(conf) \in next..Len(conf)
  BY <1>1
<1>5. \A i \in next..Len(conf) : next..i-1 \subseteq 1..Len(conf)
  BY <1>1
<1>6. LineEnd = {i \in next..Len(conf) : i \in E /\ \A j \in next..i-1 : j \notin E}
  BY <1>3, <1>4, <1>5, Zenon DEF LineEnd
<1>7. \A i \in E : conf[i].ends
  BY Zenon
<1>8. \A i \in 1..Len(conf) : i \notin E => ~ conf[i].ends
  BY Zenon
<1>9. Len(conf) \in E
  BY <1>3, <1>4, Zenon
<1> HIDE DEF E
<1>10. T \subseteq Nat /\ Len(conf) \in T
  BY <1>1, <1>4, <1>9
<1>11. PICK m \in T : \A y \in T : ~ (<<y, m>> \in OpToRel(<, Nat))
  <2> HIDE DEF T
  <2> QED
    BY <1>10, NatLessThanWellFounded, WFMin, Zenon
<1>12. \A y \in T : ~ (y < m)
  <2> HIDE DEF T
  <2> QED
    BY <1>10, <1>11 DEF OpToRel
<1>13. m \in LineEnd
  BY <1>1, <1>6, <1>12
<1> QED
  BY <1>5, <1>6, <1>7, <1>8, <1>13, Zenon

\* Past a line, only its first piece can have been one more setting.
LEMMA LineRead ==
  ASSUME conf \in Files, Plain, next \in 1..Len(conf), AtLineStart(next), NEW i \in LineEnd
  PROVE  /\ i + 1 \in 1..Len(conf) + 1 /\ AtLineStart(i + 1)
         /\ SetBefore(i + 1) =
              SetBefore(next) \cup (IF conf[next].value \in PrefixLengths THEN {next} ELSE {})
<1>1. /\ Len(conf) \in Nat /\ DOMAIN conf = 1..Len(conf)
      /\ i \in next..Len(conf) /\ conf[i].ends
      /\ \A j \in next..i-1 : ~ conf[j].ends
  BY FileIs, LineEnds
<1>2. i + 1 \in 1..Len(conf) + 1 /\ AtLineStart(i + 1)
  BY <1>1 DEF AtLineStart
<1>3. Settings \subseteq 1..Len(conf)
  BY <1>1 DEF Settings
<1>4. ASSUME NEW j \in Settings, j < i + 1, ~ (j < next) PROVE j = next
  <2> SUFFICES ASSUME j # next PROVE FALSE
    OBVIOUS
  <2>1. j - 1 \in next..i-1 /\ j # 1
    BY <1>1, <1>3, <1>4
  <2>2. conf[j-1].ends
    BY <2>1 DEF Settings
  <2> QED
    BY <1>1, <2>1, <2>2
<1>5. next \in Settings <=> conf[next].value \in PrefixLengths
  BY <1>1 DEF Settings, AtLineStart
<1>6. \A j \in Settings : j < i + 1 <=> j < next \/ j = next
  BY <1>1, <1>3, <1>4
<1> QED
  BY <1>2, <1>5, <1>6 DEF SetBefore

LEMMA PrefixInit == Init => IInv
<1> SUFFICES ASSUME Init PROVE IInv
  OBVIOUS
<1>1. conf \in Files /\ next = 1 /\ ipv6_prefix = 0 /\ pc = "open"
  BY DEF Init
<1>2. Len(conf) \in Nat /\ DOMAIN conf = 1..Len(conf)
  BY <1>1, FileIs
<1>3. SetBefore(1) = {}
  BY <1>2 DEF SetBefore, Settings
<1> QED
  BY <1>1, <1>2, <1>3 DEF IInv, PrefixInv, AtLineStart, LastSetBefore

LEMMA PrefixStep == IInv /\ [Next]_vars => IInv'
<1> SUFFICES ASSUME IInv, [Next]_vars PROVE IInv'
  OBVIOUS
<1>1. conf' = conf
  BY DEF Next, OpenConfig, SkipComment, ReadLine, EndOfFile, ReadAddress, Translate, vars
<1>2. Plain' = Plain /\ Settings' = Settings
  BY <1>1 DEF Plain, Settings
<1> SUFFICES ASSUME Plain, pc' # "crash" PROVE PrefixInv'
  BY <1>1, <1>2 DEF IInv
<1>3. pc # "crash"
  BY DEF Next, OpenConfig, SkipComment, ReadLine, EndOfFile, ReadAddress, Translate, vars
<1>4. PrefixInv /\ conf \in Files
  BY <1>3 DEF IInv
<1>5. Len(conf) \in Nat /\ DOMAIN conf = 1..Len(conf) /\ \A i \in 1..Len(conf) : conf[i] \in Piece
  BY <1>4, FileIs
<1>6. /\ \A n : AtLineStart(n)' = AtLineStart(n)
      /\ \A n : SetBefore(n)' = SetBefore(n)
      /\ \A n, l : LastSetBefore(n, l)' = LastSetBefore(n, l)
  BY <1>1, <1>2 DEF AtLineStart, SetBefore, LastSetBefore
<1>7. ASSUME UNCHANGED <<next, ipv6_prefix>>,
             pc' \in {"input", "translate", "done", "exit"} => next = Len(conf) + 1,
             pc' = "exit" => ipv6_prefix \notin PrefixLengths,
             pc' = "done" => /\ ipv6_prefix \in PrefixLengths
                             /\ v6' = ipv4toipv6(Prefix, ipv6_prefix, v4')
      PROVE  PrefixInv'
  <2>1. /\ next' \in 1..Len(conf) + 1 /\ AtLineStart(next')
        /\ LastSetBefore(next', ipv6_prefix')
    BY <1>4, <1>7 DEF PrefixInv
  <2>2. AtLineStart(next)' /\ LastSetBefore(next, ipv6_prefix)'
    BY <1>1, <1>2, <2>1 DEF AtLineStart, LastSetBefore, SetBefore
  <2> QED
    BY <1>1, <1>7, <2>1, <2>2 DEF PrefixInv
<1>8. ASSUME NEW i \in LineEnd, next \in 1..Len(conf), next' = i + 1, pc = "read", pc' = pc,
             ipv6_prefix' = IF conf[next].value \in PrefixLengths
                            THEN conf[next].value ELSE ipv6_prefix
      PROVE  PrefixInv'
  <2>1. /\ i + 1 \in 1..Len(conf) + 1 /\ AtLineStart(i + 1)
        /\ SetBefore(i + 1) =
             SetBefore(next) \cup (IF conf[next].value \in PrefixLengths THEN {next} ELSE {})
    BY <1>4, <1>8, LineRead DEF PrefixInv
  <2>2. LastSetBefore(i + 1, ipv6_prefix')
    <3>1. CASE conf[next].value \in PrefixLengths
      <4>1. next \in SetBefore(i + 1) /\ conf[next].value = ipv6_prefix'
        BY <1>8, <2>1, <3>1
      <4>2. \A j \in SetBefore(i + 1) : j <= next
        <5>1. SetBefore(next) \subseteq 1..Len(conf) /\ \A j \in SetBefore(next) : j < next
          BY <1>5 DEF SetBefore, Settings
        <5> QED
          BY <1>8, <2>1, <3>1, <5>1
      <4> QED
        BY <4>1, <4>2 DEF LastSetBefore
    <3>2. CASE conf[next].value \notin PrefixLengths
      BY <1>4, <1>8, <2>1, <3>2 DEF PrefixInv, LastSetBefore
    <3> QED
      BY <3>1, <3>2
  <2>3. AtLineStart(next)' /\ LastSetBefore(next, ipv6_prefix)'
    BY <1>1, <1>2, <1>8, <2>1, <2>2 DEF AtLineStart, LastSetBefore, SetBefore
  <2> QED
    BY <1>1, <1>8, <2>1, <2>3 DEF PrefixInv
<1>9. ASSUME NEW found \in BOOLEAN, OpenConfig(found) PROVE PrefixInv'
  BY <1>7, <1>9 DEF OpenConfig
<1>10. ASSUME SkipComment \/ ReadLine PROVE PrefixInv'
  <2>1. next \in 1..Len(conf) /\ pc = "read"
    BY <1>4, <1>5, <1>10 DEF SkipComment, ReadLine, PrefixInv
  <2>2. LineEnd # {}
    BY <1>4, <2>1, LineEnds
  <2>3. CASE SkipComment
    <3>1. PICK i \in LineEnd : next' = i + 1 /\ pc' = pc /\ ipv6_prefix' = ipv6_prefix
      BY <2>2, <2>3 DEF SkipComment
    <3>2. conf[next].value \notin PrefixLengths
      <4>1. conf[next] \in Piece /\ conf[next].kind = "comment"
        BY <1>5, <2>1, <2>3 DEF SkipComment
      <4>2. conf[next].value = 0
        BY <4>1 DEF Piece
      <4> QED
        BY <4>2 DEF PrefixLengths
    <3> QED
      BY <1>8, <2>1, <3>1, <3>2
  <2>4. CASE ReadLine
    BY <1>8, <2>1, <2>2, <2>4 DEF ReadLine
  <2> QED
    BY <1>10, <2>3, <2>4
<1>11. CASE EndOfFile
  <2>1. next = Len(conf) + 1
    BY <1>4, <1>5, <1>11 DEF EndOfFile, PrefixInv
  <2> QED
    BY <1>7, <1>11, <2>1 DEF EndOfFile
<1>12. ASSUME NEW a \in Inputs, ReadAddress(a) PROVE PrefixInv'
  BY <1>4, <1>7, <1>12 DEF ReadAddress, PrefixInv
<1>13. CASE Translate
  BY <1>4, <1>7, <1>13 DEF Translate, PrefixInv
<1>14. CASE UNCHANGED vars
  BY <1>4, <1>7, <1>14 DEF vars, PrefixInv
<1> QED
  BY <1>9, <1>10, <1>11, <1>12, <1>13, <1>14 DEF Next

\* For every file whose lines do not just fill a piece, however long its lines and in
\* whatever order its settings: the address made is the one RFC 6052 defines for
\* the legal length that is set last (confload.cpp:20-63, ipv4toipv6.cpp:22-83).
THEOREM EmbedsRight == Spec => []EmbedsAsConfigured
<1>1. IInv => EmbedsAsConfigured
  <2> SUFFICES ASSUME IInv, Plain PROVE AsConfigured
    BY DEF EmbedsAsConfigured, Plain
  <2>1. ASSUME pc \in {"done", "exit"}
        PROVE  PrefixInv /\ SetBefore(next) = Settings
    <3>1. PrefixInv /\ next = Len(conf) + 1
      BY <2>1 DEF IInv, PrefixInv
    <3>2. Len(conf) \in Nat /\ DOMAIN conf = 1..Len(conf)
      BY FileIs DEF IInv
    <3>3. \A i \in Settings : i < next
      BY <3>1, <3>2 DEF Settings
    <3> QED
      BY <3>1, <3>3 DEF SetBefore
  <2>2. ASSUME pc = "done"
        PROVE  \E l \in PrefixLengths : Configured(l) /\ v6 = Rfc6052(Prefix, l, v4)
    <3>1. /\ ipv6_prefix \in PrefixLengths /\ v6 = ipv4toipv6(Prefix, ipv6_prefix, v4)
          /\ LastSetBefore(next, ipv6_prefix)
      BY <2>1, <2>2 DEF PrefixInv
    <3>2. ipv6_prefix # 0
      BY <3>1 DEF PrefixLengths
    <3>3. Configured(ipv6_prefix)
      BY <2>1, <2>2, <3>1, <3>2 DEF LastSetBefore, Configured
    <3> QED
      BY <3>1, <3>3, EmbedsByRfc
  <2>3. ASSUME pc = "exit" PROVE Settings = {}
    <3>1. ipv6_prefix \notin PrefixLengths /\ LastSetBefore(next, ipv6_prefix)
      BY <2>1, <2>3 DEF PrefixInv
    <3>2. \A i \in Settings : conf[i].value \in PrefixLengths
      BY DEF Settings
    <3> QED
      BY <2>1, <2>3, <3>1, <3>2 DEF LastSetBefore
  <2> QED
    BY <2>2, <2>3 DEF AsConfigured
<1> QED
  BY <1>1, PrefixInit, PrefixStep, PTL DEF Spec
=============================================================================
