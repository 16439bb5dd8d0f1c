--------------------------- MODULE DnsMessageProofs ---------------------------
(* Proofs about DnsMessage, for every set of answers that mean what they say *)
(* (WellFormed): however their names are compressed and however many records *)
(* they have, they are read as they were sent, in a reading that ends.       *)
EXTENDS DnsMessage, SequenceTheorems, TLAPS

Octets == 1..Pointer-1

\* The parts of the message, by names of their own: the provers do better with them.
Sent == m.octets
Last == m.last
Offsets == m.names
Text == m.text
Extent == m.extent
Rec == m.records
Begins == m.begins
QType == m.qtype

\* What the message consists of.
LEMMA Parts ==
  ASSUME m \in Messages
  PROVE  /\ Last \in Nat /\ Sent \in [0..Last -> 0..255]
         /\ Offsets \subseteq 0..Last
         /\ Text \in [Offsets -> Seq(Octets)]
         /\ Extent \in [Offsets -> Nat \ {0}]
         /\ HeaderSize \in Offsets
         /\ Rec \in Seq(ResourceRecords)
         /\ Begins \in [1..Len(Rec)+1 -> Nat]
         /\ Begins[1] = HeaderSize + Len(Text[HeaderSize]) + 1 + QuestionSize
  <1> USE DEF Last, Sent, Offsets, Text, Extent, Rec, Begins
  <1>1. WellFormed(m)
    BY MessagesAssumption
  <1>2. Shaped(m)
    BY <1>1, Zenon DEF WellFormed
  <1>3. /\ HeaderSize \in Offsets
        /\ Begins[1] = HeaderSize + Len(Text[HeaderSize]) + 1 + QuestionSize
    BY <1>1, Zenon DEF WellFormed
  <1> QED BY <1>2, <1>3, Zenon DEF Shaped, Octets

\* An offset holds an octet.
LEMMA SentAt ==
  ASSUME m \in Messages, NEW o \in 0..Last
  PROVE  Sent[o] \in 0..255 /\ o \in Nat
  <1>1. Last \in Nat /\ Sent \in [0..Last -> 0..255]
    BY Parts, Zenon
  <1> QED BY ONLY <1>1, o \in 0..Last

\* A number of two octets.
LEMMA U16IsNat ==
  ASSUME NEW octets, NEW o, octets[o] \in 0..255, octets[o + 1] \in 0..255
  PROVE  U16(octets, o) \in Nat
  <1> DEFINE a == octets[o]
             b == octets[o + 1]
  <1>1. U16(octets, o) = 256 * a + b
    BY DEF U16
  <1> HIDE DEF a, b
  <1>2. a \in 0..255 /\ b \in 0..255
    BY DEF a, b
  <1> QED BY <1>1, <1>2

\* An octet of a name, and where the name goes on.
LEMMA NameOctet ==
  ASSUME m \in Messages, NEW o \in Offsets
  PROVE  /\ Sent[o] \in 0..255 /\ o \in Nat
         /\ Sent[o] = 0 => Text[o] = <<>> /\ Extent[o] = 1
         /\ Sent[o] \in Octets =>
              /\ o + 1 \in Offsets /\ Text[o] = <<Sent[o]>> \o Text[o + 1]
              /\ Extent[o] = Extent[o + 1] + 1
         /\ Sent[o] >= Pointer =>
              /\ Target(Sent, o) \in Offsets /\ Target(Sent, o) < o
              /\ Text[o] = Text[Target(Sent, o)] /\ Extent[o] = 2
  <1>1. Sent[o] \in 0..255 /\ o \in Nat
    <2>1. Offsets \subseteq 0..Last
      BY Parts, Zenon
    <2>2. o \in 0..Last
      BY <2>1, Zenon
    <2> QED BY <2>2, SentAt, Zenon
  <1>2. Spelled(m)
    BY MessagesAssumption, Zenon DEF WellFormed
  <1>3. \/ Sent[o] = 0 /\ Text[o] = <<>> /\ Extent[o] = 1
        \/ /\ Sent[o] \in 1..Pointer-1 /\ o + 1 \in Offsets
           /\ Text[o] = <<Sent[o]>> \o Text[o + 1]
           /\ Extent[o] = Extent[o + 1] + 1
        \/ /\ Sent[o] \in Pointer..255
           /\ Target(Sent, o) \in Offsets /\ Target(Sent, o) < o
           /\ Text[o] = Text[Target(Sent, o)] /\ Extent[o] = 2
    BY <1>2, Zenon DEF Spelled, Sent, Offsets, Text, Extent
  <1>4. /\ Sent[o] = 0 => ~ Sent[o] \in 1..Pointer-1 /\ ~ Sent[o] >= Pointer
        /\ Sent[o] \in 1..Pointer-1 => ~ Sent[o] >= Pointer /\ Sent[o] # 0
        /\ Sent[o] \in Pointer..255 => Sent[o] # 0 /\ ~ Sent[o] \in 1..Pointer-1
    BY <1>1 DEF Pointer
  <1> QED BY ONLY <1>1, <1>3, <1>4, Zenon DEF Octets

\* Where the k-th record is, its resource and the length of its data.
At(k) == Begins[k]
ResourceOf(k) == At(k) + Extent[At(k)]
LengthOf(k) == U16(Sent, ResourceOf(k) + 8)

\* What they mean.
LEMMA RecordParts ==
  ASSUME m \in Messages, NEW k \in 1..Len(Rec)
  PROVE  /\ At(k) \in Offsets /\ At(k) \in Nat /\ ResourceOf(k) \in Nat /\ LengthOf(k) \in Nat
         /\ Names(Rec[k].name, Text[At(k)])
         /\ Rec[k].type = U16(Sent, ResourceOf(k))
         /\ Rec[k].type = QType =>
              Rec[k].rdata = [j \in 1..LengthOf(k) |-> Sent[ResourceOf(k) + ResourceSize + j - 1]]
         /\ Rec[k].type # QType =>
              /\ ResourceOf(k) + ResourceSize \in Offsets
              /\ LengthOf(k) = Extent[ResourceOf(k) + ResourceSize]
              /\ Names(Rec[k].rdata, Text[ResourceOf(k) + ResourceSize])
         /\ Begins[k + 1] = ResourceOf(k) + ResourceSize + LengthOf(k)
  <1>1. \A j \in 1..Len(Rec) : RecordAt(m, j)
    BY MessagesAssumption, Zenon DEF WellFormed, Rec
  <1>2. RecordAt(m, k)
    BY <1>1, Zenon
  <1> DEFINE at == At(k)
             resource == ResourceOf(k)
             length == LengthOf(k)
  <1>3. at \in Offsets /\ resource .. (resource + ResourceSize) - 1 \subseteq DOMAIN Sent
    BY <1>2, Zenon DEF RecordAt, Sent, Offsets, Extent, Begins, At, ResourceOf
  <1>4. Names(Rec[k].name, Text[at]) /\ Rec[k].type = U16(Sent, resource)
    BY <1>2, Zenon DEF RecordAt, Sent, Text, Extent, Rec, Begins, At, ResourceOf
  <1>5. Rec[k].type = QType =>
          Rec[k].rdata = [j \in 1..length |-> Sent[resource + ResourceSize + j - 1]]
    BY <1>2, Zenon DEF RecordAt, Sent, Extent, Rec, Begins, QType, At, ResourceOf, LengthOf
  <1>6. Rec[k].type # QType =>
          /\ resource + ResourceSize \in Offsets
          /\ length = Extent[resource + ResourceSize]
          /\ Names(Rec[k].rdata, Text[resource + ResourceSize])
    BY <1>2, Zenon DEF RecordAt, Sent, Offsets, Text, Extent, Rec, Begins, QType, At, ResourceOf, LengthOf
  <1>7. Begins[k + 1] = resource + ResourceSize + length
    BY <1>2, Zenon DEF RecordAt, Sent, Extent, Begins, At, ResourceOf, LengthOf
  <1>8. at \in Nat /\ Extent[at] \in Nat
    BY <1>3, Parts
  <1>9. resource \in Nat
    BY <1>8 DEF ResourceOf
  <1> HIDE DEF at, resource
  <1>10. length \in Nat
    <2>1. resource + 8 \in 0..Last /\ resource + 8 + 1 \in 0..Last
      <3>1. DOMAIN Sent = 0..Last
        BY Parts, Zenon
      <3>2. resource .. (resource + ResourceSize) - 1 \subseteq 0..Last
        BY <1>3, <3>1, Zenon
      <3> QED BY ONLY <1>9, <3>2 DEF ResourceSize
    <2>2. U16(Sent, resource + 8) \in Nat
      BY <2>1, SentAt, U16IsNat
    <2> QED BY <2>2 DEF LengthOf, resource
  <1> QED BY <1>3, <1>4, <1>5, <1>6, <1>7, <1>8, <1>9, <1>10, Zenon DEF at, resource
-----------------------------------------------------------------------------
(* Names: what the labels spell, with the lengths before them and with dots   *)
(* after them.                                                                *)

\* The string with dots, the last one included.
WithDots(s, labels) ==
  [k \in 1..Len(s) |-> IF k + 1 \in labels \cup {Len(s) + 1} THEN Dot ELSE s[k + 1]]

\* n is s converted up to p.
Half(n, s, labels, p) ==
  /\ Len(n) = Len(s)
  /\ \A k \in 1..Len(s) : n[k] = IF k < p THEN WithDots(s, labels)[k] ELSE s[k]

\* A label is followed by another one or by the end, and there is none in it.
LEMMA LabelEnds ==
  ASSUME NEW s \in Seq(Octets), NEW labels \in SUBSET (1..Len(s)), LabelsOf(labels, s),
         NEW p \in labels, NEW dot, dot = p + s[p]
  PROVE  /\ dot \in p+1..Len(s) /\ p \in 1..Len(s) /\ s[p] \in Octets
         /\ dot + 1 \in labels \cup {Len(s) + 1}
         /\ \A j \in labels : j <= p \/ j >= dot + 1
  <1>1. Len(s) \in Nat /\ p \in 1..Len(s)
    OBVIOUS
  <1>2. s[p] \in Octets
    BY <1>1, ElementOfSeq
  <1> DEFINE l == s[p]
  <1>3. p + l + 1 \in labels \cup {Len(s) + 1} /\ \A j \in labels : j <= p \/ j >= p + l + 1
    BY Zenon DEF LabelsOf
  <1>a. l \in Octets
    BY <1>2
  <1> HIDE DEF l
  <1>4. l \in Nat \ {0}
    BY ONLY <1>a DEF Octets, Pointer
  <1>5. dot = p + l
    BY DEF l
  <1>6. dot + 1 = p + l + 1 /\ dot \in Nat /\ dot > p
    BY <1>1, <1>4, <1>5
  <1>7. dot + 1 \in labels \cup {Len(s) + 1}
    BY <1>3, <1>6, Zenon
  <1>8. dot <= Len(s)
    BY <1>1, <1>6, <1>7
  <1> QED BY <1>1, <1>2, <1>3, <1>6, <1>7, <1>8

\* One turn of the conversion's loop converts a label.
LEMMA ConvertsLabel ==
  ASSUME NEW s \in Seq(Octets), NEW labels \in SUBSET (1..Len(s)), LabelsOf(labels, s),
         NEW n, NEW p \in labels, Half(n, s, labels, p),
         NEW dot, dot = p + n[p],
         NEW n2, n2 = [k \in 1..Len(n) |-> CASE k \in p..dot-1 -> n[k + 1]
                                             [] k = dot -> Dot
                                             [] OTHER -> n[k]]
  PROVE  /\ dot + 1 \in labels \cup {Len(s) + 1}
         /\ Half(n2, s, labels, dot + 1)
         /\ n2 \in Seq(Octets)
  <1>1. p \in 1..Len(s) /\ Len(s) \in Nat /\ Len(n) = Len(s)
    BY DEF Half
  <1>2. n[p] = s[p]
    BY <1>1 DEF Half
  <1>3. dot = p + s[p]
    BY <1>2
  <1>4. /\ dot \in p+1..Len(s) /\ dot + 1 \in labels \cup {Len(s) + 1}
        /\ \A j \in labels : j <= p \/ j >= dot + 1
    BY <1>3, LabelEnds
  <1>5. ASSUME NEW k \in 1..Len(s)
        PROVE  n2[k] = IF k < dot + 1 THEN WithDots(s, labels)[k] ELSE s[k]
    <2>1. WithDots(s, labels)[k] = IF k + 1 \in labels \cup {Len(s) + 1} THEN Dot ELSE s[k + 1]
      BY DEF WithDots
    <2>2. CASE k \in p..dot-1
      <3>1. k + 1 \in 1..Len(s) /\ ~ k + 1 < p
        BY <1>1, <1>4, <2>2
      <3>2. n[k + 1] = s[k + 1]
        BY <3>1 DEF Half
      <3>3. k + 1 \notin labels /\ k + 1 # Len(s) + 1
        <4>1. k + 1 > p /\ k + 1 < dot + 1 /\ k + 1 # Len(s) + 1
          BY <1>1, <1>4, <2>2
        <4>2. k + 1 \in labels => k + 1 <= p \/ k + 1 >= dot + 1
          BY <1>4, Zenon
        <4> QED BY ONLY <1>1, <1>4, <4>1, <4>2
      <3>4. n2[k] = n[k + 1]
        BY <1>1, <2>2
      <3>5. k < dot + 1
        BY <1>1, <1>4, <2>2
      <3> QED BY <2>1, <3>2, <3>3, <3>4, <3>5
    <2>3. CASE k = dot
      <3>1. n2[k] = Dot
        BY <1>1, <1>4, <2>3
      <3> QED BY <1>4, <2>1, <2>3, <3>1
    <2>4. CASE k < p
      <3>1. n2[k] = n[k] /\ k < dot + 1
        BY <1>1, <1>4, <2>4
      <3> QED BY <2>4, <3>1 DEF Half
    <2>5. CASE k > dot
      <3>1. n2[k] = n[k] /\ ~ k < dot + 1 /\ ~ k < p
        BY <1>1, <1>4, <2>5
      <3> QED BY <3>1 DEF Half
    <2> QED BY <1>1, <1>4, <2>2, <2>3, <2>4, <2>5
  <1>6. n2 = [k \in 1..Len(s) |-> n2[k]] /\ DOMAIN n2 = 1..Len(s)
    BY <1>1
  <1>7. \A k \in 1..Len(s) : n2[k] \in Octets
    <2> SUFFICES ASSUME NEW k \in 1..Len(s) PROVE n2[k] \in Octets
      OBVIOUS
    <2>1. s[k] \in Octets /\ Dot \in Octets
      <3>1. Dot \in Octets
        BY DEF Octets, Pointer, Dot
      <3>2. s[k] \in Octets
        BY ElementOfSeq
      <3> QED BY <3>1, <3>2
    <2>2. CASE k + 1 \in labels \cup {Len(s) + 1}
      <3>1. WithDots(s, labels)[k] = Dot
        BY <2>2 DEF WithDots
      <3> QED BY <1>5, <2>1, <3>1
    <2>3. CASE k + 1 \notin labels \cup {Len(s) + 1}
      <3>1. WithDots(s, labels)[k] = s[k + 1] /\ k + 1 \in 1..Len(s)
        BY <1>1, <2>3 DEF WithDots
      <3>2. s[k + 1] \in Octets
        BY <3>1, ElementOfSeq
      <3> QED BY <1>5, <2>1, <3>1, <3>2
    <2> QED BY <2>2, <2>3
  <1>8. n2 \in [1..Len(s) -> Octets]
    BY <1>6, <1>7
  <1>9. n2 \in Seq(Octets) /\ Len(n2) = Len(s)
    BY <1>1, <1>8
  <1> QED BY <1>4, <1>5, <1>9 DEF Half

\* After the last turn the name is the string, and a dot.
LEMMA ConvertedIsDotted ==
  ASSUME NEW s \in Seq(Octets), NEW labels \in SUBSET (1..Len(s)), LabelsOf(labels, s),
         NEW n \in Seq(Octets), NEW p, p = Len(s) + 1, Half(n, s, labels, p)
  PROVE  /\ SubSeq(n, 1, Len(n) - 1) = Dotted(s, labels)
         /\ SubSeq(n, 1, Len(n) - 1) \in Seq(Octets)
  <1>1. Len(n) = Len(s) /\ Len(s) \in Nat \ {0}
    BY DEF Half, LabelsOf
  <1> DEFINE t == SubSeq(n, 1, Len(n) - 1)
  <1>2. t \in Seq(Octets) /\ Len(t) = Len(s) - 1 /\ \A k \in 1..Len(s)-1 : t[k] = n[k]
    BY <1>1
  <1>3. ASSUME NEW k \in 1..Len(s)-1 PROVE t[k] = IF k + 1 \in labels THEN Dot ELSE s[k + 1]
    <2>1. k \in 1..Len(s) /\ k < p /\ k + 1 # Len(s) + 1
      BY <1>1
    <2>2. n[k] = WithDots(s, labels)[k]
      BY <2>1 DEF Half
    <2> QED BY <1>2, <2>1, <2>2 DEF WithDots
  <1>4. t = [k \in 1..Len(s)-1 |-> t[k]]
    BY <1>1, <1>2
  <1> HIDE DEF t
  <1>5. t = Dotted(s, labels)
    BY <1>3, <1>4 DEF Dotted
  <1> QED BY <1>2, <1>5 DEF t

\* Where the next dot is, there is only one answer.
LEMMA NextDotIs ==
  ASSUME NEW h, NEW k \in Nat, NEW d \in k..Len(h), Len(h) \in Nat,
         h[d] = Dot, \A j \in k..d-1 : h[j] # Dot
  PROVE  NextDot(h, k) = d
  <1> DEFINE Is(e) == h[e] = Dot /\ \A j \in k..e-1 : h[j] # Dot
  <1>1. Is(d)
    OBVIOUS
  <1>2. ASSUME NEW e \in k..Len(h), Is(e) PROVE e = d
    <2>1. CASE e < d
      <3>1. e \in k..d-1
        BY <2>1
      <3> QED BY <1>2, <3>1
    <2>2. CASE d < e
      <3>1. d \in k..e-1
        BY <2>2
      <3> QED BY <1>2, <3>1
    <2> QED BY <2>1, <2>2
  <1>3. NextDot(h, k) = CHOOSE e \in k..Len(h) : Is(e)
    BY DEF NextDot
  <1> HIDE DEF Is
  <1> QED BY <1>1, <1>2, <1>3

\* A host name with a dot after each label is h; what takes the places of the dots are
\* the labels' lengths.
LEMMA LengthsTakeDots ==
  ASSUME NEW s \in Seq(Octets), NEW labels \in SUBSET (1..Len(s)), LabelsOf(labels, s),
         \A k \in (1..Len(s)) \ labels : s[k] # Dot,
         NEW h, Len(h) \in Nat, Len(h) >= Len(s),
         \A k \in 1..Len(s) : h[k] = WithDots(s, labels)[k],
         NEW k \in 1..Len(s)
  PROVE  (IF k = 1 \/ h[k - 1] = Dot THEN NextDot(h, k) - k ELSE h[k - 1]) = s[k]
  <1>1. Len(s) \in Nat \ {0} /\ 1 \in labels
    BY DEF LabelsOf
  <1>2. ASSUME NEW j \in 1..Len(s) PROVE h[j] = Dot <=> j + 1 \in labels \cup {Len(s) + 1}
    <2>1. h[j] = IF j + 1 \in labels \cup {Len(s) + 1} THEN Dot ELSE s[j + 1]
      BY DEF WithDots
    <2>2. j + 1 \notin labels \cup {Len(s) + 1} => j + 1 \in (1..Len(s)) \ labels
      BY <1>1
    <2> QED BY <2>1, <2>2
  <1>3. CASE k \in labels
    <2> DEFINE d == k + s[k]
    <2>1. /\ d \in k+1..Len(s) /\ s[k] \in Octets /\ d + 1 \in labels \cup {Len(s) + 1}
          /\ \A j \in labels : j <= k \/ j >= d + 1
      BY <1>3, LabelEnds
    <2> HIDE DEF d
    <2>2. d \in 1..Len(s) /\ d \in k..Len(h)
      BY <1>1, <2>1
    <2>3. h[d] = Dot
      BY <1>2, <2>1, <2>2
    <2>4. ASSUME NEW j \in k..d-1 PROVE h[j] # Dot
      <3>1. j \in 1..Len(s) /\ j + 1 > k /\ j + 1 < d + 1 /\ j + 1 # Len(s) + 1
        BY <1>1, <2>1
      <3>2. j + 1 \in labels => j + 1 <= k \/ j + 1 >= d + 1
        BY <2>1, Zenon
      <3>3. j + 1 \notin labels
        BY ONLY <1>1, <2>1, <3>1, <3>2
      <3> QED BY <1>2, <3>1, <3>3
    <2>5. NextDot(h, k) = d
      BY <2>2, <2>3, <2>4, NextDotIs
    <2>6. NextDot(h, k) - k = s[k]
      <3> DEFINE l == s[k]
      <3>1. l \in Nat
        <4>1. l \in Octets
          BY <2>1
        <4> HIDE DEF l
        <4> QED BY ONLY <4>1 DEF Octets, Pointer
      <3>2. NextDot(h, k) = k + l
        BY <2>5 DEF d
      <3> HIDE DEF l
      <3>3. NextDot(h, k) - k = l
        BY <3>1, <3>2
      <3> QED BY <3>3 DEF l
    <2>7. k = 1 \/ h[k - 1] = Dot
      <3> SUFFICES ASSUME k # 1 PROVE h[k - 1] = Dot
        OBVIOUS
      <3>1. k - 1 \in 1..Len(s) /\ (k - 1) + 1 = k
        BY <1>1
      <3> QED BY <1>2, <1>3, <3>1
    <2> QED BY <2>6, <2>7, Zenon
  <1>4. CASE k \notin labels
    <2>1. k # 1 /\ k - 1 \in 1..Len(s) /\ (k - 1) + 1 = k /\ k # Len(s) + 1
      BY <1>1, <1>4
    <2>2. h[k - 1] # Dot
      BY <1>2, <1>4, <2>1
    <2>3. h[k - 1] = s[k]
      BY <1>4, <2>1 DEF WithDots
    <2> QED BY <2>1, <2>2, <2>3
  <1> QED BY <1>3, <1>4

\* The octets before the first 0 are the string in a buffer.
LEMMA StringIs ==
  ASSUME NEW b \in Seq(Nat), NEW s \in Seq(Octets), Len(b) > Len(s),
         \A k \in 1..Len(s) : b[k] = s[k], b[Len(s) + 1] = 0
  PROVE  String(b) = s
  <1> DEFINE Is(k) == b[k] = 0 /\ \A j \in 1..k-1 : b[j] # 0
             e == Len(s) + 1
  <1>1. Len(s) \in Nat /\ Len(b) \in Nat /\ e \in DOMAIN b /\ DOMAIN b = 1..Len(b) /\ e - 1 = Len(s)
    OBVIOUS
  <1>2. \A j \in 1..Len(s) : b[j] # 0
    <2> SUFFICES ASSUME NEW j \in 1..Len(s) PROVE s[j] # 0
      OBVIOUS
    <2>1. s[j] \in Octets
      BY ElementOfSeq
    <2> QED BY <2>1 DEF Octets
  <1>3. Is(e)
    BY <1>1, <1>2
  <1>4. ASSUME NEW k \in DOMAIN b, Is(k) PROVE k = e
    <2>1. k \in 1..Len(b)
      BY <1>1
    <2>2. ~ k < e
      BY <1>1, <1>2, <1>4, <2>1
    <2>3. ~ e < k
      BY <1>1, <1>3, <1>4, <2>1
    <2> QED BY <1>1, <2>1, <2>2, <2>3
  <1>5. String(b) = SubSeq(b, 1, (CHOOSE k \in DOMAIN b : Is(k)) - 1)
    BY DEF String
  <1> HIDE DEF Is
  <1>6. (CHOOSE k \in DOMAIN b : Is(k)) = e
    BY <1>1, <1>3, <1>4
  <1>7. String(b) = SubSeq(b, 1, e - 1)
    BY <1>5, <1>6
  <1>8. String(b) = SubSeq(b, 1, Len(s))
    BY <1>1, <1>7
  <1> QED BY <1>1, <1>8

\* ChangetoDnsNameFormat makes of a host name what the server sends back in the
\* question, whether the name ends in a dot or not.
LEMMA FormatIsSpelling ==
  ASSUME NEW s \in Seq(Octets), NEW labels \in SUBSET (1..Len(s)), LabelsOf(labels, s),
         \A k \in (1..Len(s)) \ labels : s[k] # Dot,
         NEW dot \in {<<>>, <<Dot>>}, NEW host, host = Dotted(s, labels) \o dot
  PROVE  /\ ChangetoDnsNameFormat(host) \in Seq(Nat)
         /\ String(ChangetoDnsNameFormat(host)) = s
  <1>1. Len(s) \in Nat \ {0} /\ 1 \in labels
    BY DEF LabelsOf
  <1>2. Dot \in Octets
    BY DEF Octets, Pointer, Dot
  <1> DEFINE h == Append(host, Dot)
             f == [k \in 1..Len(h) |-> IF k = 1 \/ h[k - 1] = Dot THEN NextDot(h, k) - k ELSE h[k - 1]]
             b == f \o <<0>>
  <1>3. /\ Len(h) = Len(s) + Len(dot) /\ Len(dot) \in {0, 1}
        /\ \A k \in 1..Len(s) : h[k] = WithDots(s, labels)[k]
        /\ Len(h) # Len(s) => h[Len(h)] = Dot /\ h[Len(s)] = Dot
    <2> DEFINE t == Dotted(s, labels)
    <2>1. t \in Seq(Octets) /\ Len(t) = Len(s) - 1
      <3>1. ASSUME NEW k \in 1..Len(s)-1
            PROVE  (IF k + 1 \in labels THEN Dot ELSE s[k + 1]) \in Octets
        <4>1. k + 1 \in 1..Len(s)
          BY <1>1
        <4>2. s[k + 1] \in Octets
          BY <4>1, ElementOfSeq
        <4> QED BY <1>2, <4>2
      <3>2. t \in [1..Len(s)-1 -> Octets]
        BY <3>1 DEF Dotted
      <3>3. Len(s) - 1 \in Nat
        BY <1>1
      <3> DEFINE n == Len(s) - 1
      <3>4. n \in Nat /\ t \in [1..n -> Octets]
        BY <3>2, <3>3
      <3> HIDE DEF t, n
      <3>5. t \in Seq(Octets) /\ Len(t) = n
        BY ONLY <3>4
      <3> QED BY <3>5 DEF n
    <2>2. \A k \in 1..Len(s)-1 : t[k] = WithDots(s, labels)[k]
      BY <1>1 DEF Dotted, WithDots
    <2>3. WithDots(s, labels)[Len(s)] = Dot
      BY <1>1 DEF WithDots
    <2> HIDE DEF t
    <2>4. CASE dot = <<>>
      <3>1. host = t
        BY <2>1, <2>4, ConcatEmptySeq DEF t
      <3>2. Len(h) = Len(s) /\ h[Len(s)] = Dot /\ \A k \in 1..Len(s)-1 : h[k] = t[k]
        BY <1>1, <2>1, <3>1
      <3> QED BY <1>1, <2>2, <2>3, <2>4, <3>2
    <2>5. CASE dot = <<Dot>>
      <3>1. host = Append(t, Dot)
        BY <1>2, <2>1, <2>5, AppendIsConcat DEF t
      <3>2. /\ Len(host) = Len(s) /\ host \in Seq(Octets) /\ host[Len(s)] = Dot
            /\ \A k \in 1..Len(s)-1 : host[k] = t[k]
        BY <1>1, <1>2, <2>1, <3>1
      <3>3. Len(h) = Len(s) + 1 /\ h[Len(s) + 1] = Dot /\ \A k \in 1..Len(s) : h[k] = host[k]
        BY <1>1, <1>2, <3>2
      <3>4. Len(dot) = 1
        BY <2>5
      <3>5. ASSUME NEW k \in 1..Len(s) PROVE h[k] = WithDots(s, labels)[k]
        <4>1. h[k] = host[k]
          BY <3>3
        <4>2. CASE k = Len(s)
          BY <2>3, <3>2, <4>1, <4>2
        <4>3. CASE k # Len(s)
          <5>1. k \in 1..Len(s)-1
            BY <1>1, <4>3
          <5> QED BY <2>2, <3>2, <4>1, <5>1
        <4> QED BY <4>2, <4>3
      <3>6. h[Len(s)] = Dot
        <4>1. Len(s) \in 1..Len(s)
          BY <1>1
        <4> QED BY <2>3, <3>5, <4>1, Zenon
      <3> HIDE DEF h
      <3> QED BY <1>1, <3>3, <3>4, <3>5, <3>6
    <2> QED BY <2>4, <2>5
  <1>4. Len(h) \in Nat /\ Len(h) >= Len(s) /\ Len(h) <= Len(s) + 1
    BY <1>1, <1>3
  <1> HIDE DEF h
  <1>5. \A k \in 1..Len(s) : f[k] = s[k]
    <2> SUFFICES ASSUME NEW k \in 1..Len(s) PROVE f[k] = s[k]
      OBVIOUS
    <2>1. (IF k = 1 \/ h[k - 1] = Dot THEN NextDot(h, k) - k ELSE h[k - 1]) = s[k]
      <3>1. \A j \in 1..Len(s) : h[j] = WithDots(s, labels)[j]
        BY ONLY <1>3, Zenon
      <3>2. Len(h) \in Nat /\ Len(h) >= Len(s)
        BY ONLY <1>4, Zenon
      <3>3. /\ s \in Seq(Octets) /\ labels \in SUBSET (1..Len(s)) /\ LabelsOf(labels, s)
            /\ \A j \in (1..Len(s)) \ labels : s[j] # Dot
            /\ k \in 1..Len(s)
        OBVIOUS
      <3> HIDE DEF NextDot, WithDots, LabelsOf, Dot
      <3> QED BY ONLY <3>1, <3>2, <3>3, LengthsTakeDots, SMT
    <2>2. k \in 1..Len(h)
      BY <1>1, <1>4
    <2> QED BY <2>1, <2>2, Zenon
  <1>6. Len(h) # Len(s) => f[Len(s) + 1] = 0
    <2> SUFFICES ASSUME Len(h) # Len(s) PROVE f[Len(s) + 1] = 0
      OBVIOUS
    <2>1. Len(h) = Len(s) + 1 /\ h[Len(h)] = Dot /\ h[Len(s)] = Dot
      BY <1>1, <1>3, <1>4
    <2>2. NextDot(h, Len(s) + 1) = Len(s) + 1
      BY <1>1, <2>1, NextDotIs
    <2>3. f[Len(s) + 1] = NextDot(h, Len(s) + 1) - (Len(s) + 1)
      BY <1>1, <2>1
    <2> QED BY <1>1, <2>2, <2>3
  <1>7. f \in Seq(Nat) /\ Len(f) = Len(h)
    <2>1. ASSUME NEW k \in 1..Len(h) PROVE f[k] \in Nat
      <3>1. k \in 1..Len(s) => s[k] \in Nat
        <4>1. Octets \subseteq Nat
          BY DEF Octets
        <4> QED BY <4>1, ElementOfSeq
      <3>2. k \notin 1..Len(s) => k = Len(s) + 1 /\ Len(h) # Len(s)
        BY <1>1, <1>4
      <3>3. CASE k \in 1..Len(s)
        BY <1>5, <3>1, <3>3, Zenon
      <3>4. CASE k \notin 1..Len(s)
        <4>1. f[k] = 0
          BY <1>6, <3>2, <3>4, Zenon
        <4> QED BY <4>1
      <3> QED BY <3>3, <3>4
    <2>2. f = [k \in 1..Len(h) |-> f[k]]
      OBVIOUS
    <2> HIDE DEF f
    <2>3. f \in [1..Len(h) -> Nat]
      BY <2>1, <2>2
    <2> DEFINE n == Len(h)
    <2>4. n \in Nat /\ f \in [1..n -> Nat]
      BY <1>4, <2>3
    <2> HIDE DEF n
    <2>5. f \in Seq(Nat) /\ Len(f) = n
      BY ONLY <2>4
    <2> QED BY <2>5 DEF n
  <1> HIDE DEF f
  <1>8. /\ b \in Seq(Nat) /\ Len(b) = Len(h) + 1 /\ b[Len(h) + 1] = 0
        /\ \A k \in 1..Len(h) : b[k] = f[k]
    <2>1. <<0>> \in Seq(Nat) /\ Len(<<0>>) = 1 /\ <<0>>[1] = 0
      OBVIOUS
    <2>2. /\ b \in Seq(Nat) /\ Len(b) = Len(f) + Len(<<0>>)
          /\ \A k \in 1..Len(f) + Len(<<0>>) : b[k] = IF k <= Len(f) THEN f[k] ELSE <<0>>[k - Len(f)]
      BY <1>7, <2>1, ConcatProperties
    <2> HIDE DEF b
    <2>3. \A k \in 1..Len(h) + 1 : b[k] = IF k <= Len(h) THEN f[k] ELSE <<0>>[k - Len(h)]
      BY <1>7, <2>1, <2>2
    <2>4. b[Len(h) + 1] = <<0>>[1]
      <3>1. Len(h) + 1 \in 1..Len(h) + 1 /\ ~ Len(h) + 1 <= Len(h) /\ (Len(h) + 1) - Len(h) = 1
        BY <1>4
      <3> QED BY <2>3, <3>1
    <2> QED BY <1>4, <1>7, <2>1, <2>2, <2>3, <2>4
  <1>9. b[Len(s) + 1] = 0
    BY <1>1, <1>4, <1>6, <1>8
  <1>10. \A k \in 1..Len(s) : b[k] = s[k]
    BY <1>1, <1>4, <1>5, <1>8
  <1> HIDE DEF b
  <1>11. String(b) = s
    <2>1. Len(b) > Len(s)
      BY <1>1, <1>4, <1>8
    <2> QED BY <1>8, <1>9, <1>10, <2>1, StringIs
  <1> QED BY <1>8, <1>11 DEF ChangetoDnsNameFormat, b, f, h
-----------------------------------------------------------------------------
(* The reading. *)

\* The record that is read next, and where the name is that is being read.
K == Len(answers) + 1
Begin == At(K)
Resource == ResourceOf(K)
Length == LengthOf(K)
Start == IF part = "owner" THEN Begin ELSE Resource + ResourceSize
Spelling == Text[Start]
InName == pc \in {"name", "convert"}

\* The records before it are as they were sent.
AnswersInv ==
  /\ pc = "query" => answers = <<>>
  /\ Len(answers) <= Records
  /\ \A i \in 1..Len(answers) : answers[i] = Rec[i]
  /\ InName \/ pc = "resource" => Len(answers) < Records
  /\ pc = "done" => Len(answers) = Records

\* reader is at the record or at its resource.
PlaceInv ==
  /\ pc = "record" => reader = Begin
  /\ InName => Start \in Offsets
  /\ InName /\ part = "owner" => reader = Begin
  /\ pc = "resource" \/ (InName /\ part = "rdata") => reader = Resource /\ owner = Rec[K].name
  /\ InName /\ part = "rdata" => Type # QType

\* What is read and what is to be read make up the name; the octets counted, before a
\* jump, are those between its start and the cursor.
NameInv ==
  pc = "name" =>
    /\ cursor \in Offsets /\ pos = 1
    /\ name \o Text[cursor] = Spelling
    /\ jumped => count + 1 = Extent[Start]
    /\ ~ jumped => count = (cursor - Start) + 1 /\ cursor + Extent[cursor] = Start + Extent[Start]

\* The name is converted up to pos.
ConvertInv ==
  pc = "convert" =>
    /\ count = Extent[Start]
    /\ Len(name) = Len(Spelling)
    /\ \A labels \in SUBSET (1..Len(Spelling)) : LabelsOf(labels, Spelling) =>
         pos \in labels \cup {Len(Spelling) + 1} /\ Half(name, Spelling, labels, pos)

\* The allocation does not shrink, and is above the octets counted; up to a jump these
\* are the octets copied, and one.
AllocInv ==
  /\ InName => InitSize <= alloc
  /\ pc = "name" => count < alloc
  /\ pc = "name" /\ ~ jumped => count = Len(name) + 1

\* The inductive invariant.
IInv ==
  /\ m \in Messages
  /\ TypeOK
  /\ AnswersInv
  /\ PlaceInv
  /\ NameInv
  /\ ConvertInv
  /\ AllocInv
  /\ NameFits
  /\ QueryAsksForHost

\* The message does not change, nor do its parts.
LEMMA SameMessage ==
  ASSUME UNCHANGED m
  PROVE  /\ Sent' = Sent /\ Last' = Last /\ Offsets' = Offsets /\ Text' = Text
         /\ Extent' = Extent /\ Rec' = Rec /\ Begins' = Begins /\ QType' = QType
         /\ Records' = Records
  BY DEF Sent, Last, Offsets, Text, Extent, Rec, Begins, QType, Records

\* How many records are read.
LEMMA RecordsBounds ==
  ASSUME m \in Messages
  PROVE  Records \in Nat /\ Records <= Len(Rec) /\ Records <= MaxIp /\ Len(Rec) \in Nat
  <1>1. Len(Rec) \in Nat
    BY Parts
  <1>2. Records = IF MaxIp < Len(Rec) THEN MaxIp ELSE Len(Rec)
    BY DEF Records, Smaller, Rec
  <1> QED BY <1>1, <1>2, MaxIpAssumption

\* The record that is read next, as it was sent.
LEMMA NextRecord ==
  ASSUME IInv, Len(answers) < Records
  PROVE  /\ K \in 1..Len(Rec) /\ Len(answers) \in Nat /\ Rec[K] \in ResourceRecords
         /\ Begin \in Offsets /\ Begin \in Nat /\ Resource \in Nat /\ Length \in Nat
         /\ Names(Rec[K].name, Text[Begin])
         /\ Rec[K].type = U16(Sent, Resource)
         /\ Begins[K + 1] = Resource + ResourceSize + Length
  <1>1. Len(answers) \in Nat
    BY DEF IInv, TypeOK
  <1>2. K \in 1..Len(Rec)
    BY <1>1, RecordsBounds DEF K, IInv
  <1>3. Rec[K] \in ResourceRecords
    <2>1. Rec \in Seq(ResourceRecords)
      BY Parts, Zenon DEF IInv
    <2> QED BY <1>2, <2>1, ElementOfSeq
  <1>4. m \in Messages
    BY DEF IInv
  <1> QED BY <1>1, <1>2, <1>3, <1>4, RecordParts, Zenon DEF Begin, Resource, Length

\* What it has for data, an address or a name.
LEMMA NextRdata ==
  ASSUME IInv, Len(answers) < Records
  PROVE  /\ Rec[K].type = QType =>
              Rec[K].rdata = [j \in 1..Length |-> Sent[Resource + ResourceSize + j - 1]]
         /\ Rec[K].type # QType =>
              /\ Resource + ResourceSize \in Offsets
              /\ Length = Extent[Resource + ResourceSize]
              /\ Names(Rec[K].rdata, Text[Resource + ResourceSize])
  <1>1. K \in 1..Len(Rec) /\ m \in Messages
    BY NextRecord DEF IInv
  <1> QED BY <1>1, RecordParts, Zenon DEF Resource, Length

\* The name that is being read is the owner's or the one the data is.
LEMMA NameMeans ==
  ASSUME IInv, InName
  PROVE  /\ Start \in Offsets /\ Spelling \in Seq(Octets)
         /\ Start \in Nat /\ Extent[Start] \in Nat
         /\ Names(IF part = "owner" THEN Rec[K].name ELSE Rec[K].rdata, Spelling)
  <1>1. Start \in Offsets /\ Len(answers) < Records /\ m \in Messages
    BY DEF IInv, PlaceInv, AnswersInv
  <1>2. Spelling \in Seq(Octets)
    BY <1>1, Parts DEF Spelling
  <1>3. Start \in Nat /\ Extent[Start] \in Nat
    BY <1>1, Parts
  <1>4. CASE part = "owner"
    <2>1. Start = Begin /\ Spelling = Text[Begin]
      BY <1>4 DEF Spelling, Start
    <2>2. Names(Rec[K].name, Text[Begin])
      BY <1>1, NextRecord, Zenon
    <2>3. Names(IF part = "owner" THEN Rec[K].name ELSE Rec[K].rdata, Spelling)
      BY <1>4, <2>1, <2>2, Zenon
    <2> QED BY <1>1, <1>2, <1>3, <2>3
  <1>5. CASE part # "owner"
    <2>1. part = "rdata"
      BY <1>5 DEF IInv, TypeOK
    <2>2. Type # QType /\ reader = Resource
      BY <2>1 DEF IInv, PlaceInv
    <2>3. Rec[K].type # QType
      <3>1. Type = U16(Sent, Resource)
        BY <2>2 DEF Type, Sent
      <3>2. Rec[K].type = U16(Sent, Resource)
        BY <1>1, NextRecord, Zenon
      <3> QED BY <2>2, <3>1, <3>2, Zenon
    <2>4. Start = Resource + ResourceSize /\ Spelling = Text[Resource + ResourceSize]
      BY <1>5 DEF Spelling, Start
    <2>5. Names(Rec[K].rdata, Text[Resource + ResourceSize])
      BY <1>1, <2>3, NextRdata, Zenon
    <2>6. Names(IF part = "owner" THEN Rec[K].name ELSE Rec[K].rdata, Spelling)
      BY <1>5, <2>4, <2>5, Zenon
    <2> QED BY <1>1, <1>2, <1>3, <2>6
  <1> QED BY <1>1, <1>2, <1>3, <1>4, <1>5
-----------------------------------------------------------------------------
\* The invariant holds at the start.
LEMMA InvInit == Init => IInv
  <1> SUFFICES ASSUME Init PROVE IInv
    OBVIOUS
  <1> USE DEF Init
  <1>1. TypeOK
    <2>1. <<>> \in Seq(Nat) /\ <<>> \in Seq(1..Pointer-1) /\ <<>> \in Seq(ResourceRecords)
      BY EmptySeq
    <2>2. qname \in Seq(Nat) /\ reader \in Nat /\ cursor \in Nat
      BY <2>1
    <2>3. name \in Seq(1..Pointer-1) /\ owner \in Seq(1..Pointer-1) /\ answers \in Seq(ResourceRecords)
      BY <2>1
    <2>4. pos \in Nat \ {0} /\ count \in Nat /\ alloc \in Nat
      OBVIOUS
    <2>5. jumped \in BOOLEAN
      BY Zenon
    <2>6. /\ pc \in {"query", "record", "name", "convert", "resource", "done", "spilled"}
          /\ part \in {"owner", "rdata"}
      OBVIOUS
    <2> QED BY <2>2, <2>3, <2>4, <2>5, <2>6, Zenon DEF TypeOK
  <1>2. AnswersInv
    BY RecordsBounds DEF AnswersInv, InName
  <1> QED BY <1>1, <1>2 DEF IInv, PlaceInv, NameInv, ConvertInv, AllocInv, NameFits, QueryAsksForHost, InName

\* While no record is added, the next one stays where it is.
LEMMA SamePlace ==
  ASSUME UNCHANGED <<m, answers>>
  PROVE  K' = K /\ Begin' = Begin /\ Resource' = Resource /\ Length' = Length
  BY SameMessage DEF K, Begin, Resource, Length, At, ResourceOf, LengthOf

\* The query asks for the name the question has; the first record is behind it.
LEMMA QueryKeeps == ASSUME IInv, Query PROVE IInv'
  <1> USE DEF Query
  <1>1. m \in Messages /\ AsksFor(m, m.text[HeaderSize])
    BY MessagesAssumption, Zenon DEF IInv, WellFormed
  <1> DEFINE s == Text[HeaderSize]
  <1>2. PICK labels \in SUBSET (1..Len(s)) :
          /\ LabelsOf(labels, s)
          /\ \A k \in (1..Len(s)) \ labels : s[k] # Dot
          /\ \E dot \in {<<>>, <<Dot>>} : m.host = Dotted(s, labels) \o dot
    BY <1>1, Zenon DEF AsksFor, Text
  <1>3. s \in Seq(Octets)
    BY <1>1, Parts
  <1>4. qname' = s /\ Len(s) \in Nat
    <2>1. PICK dot \in {<<>>, <<Dot>>} : m.host = Dotted(s, labels) \o dot
      BY <1>2
    <2> HIDE DEF s
    <2>2. String(ChangetoDnsNameFormat(m.host)) = s
      BY ONLY <1>2, <1>3, <2>1, FormatIsSpelling
    <2> QED BY <1>3, <2>2
  <1>5. K = 1 /\ answers = <<>>
    BY DEF IInv, AnswersInv, K
  <1>6. reader' = Begins[1]
    BY <1>1, <1>4, Parts
  <1>7. reader' \in Nat
    BY <1>4 DEF HeaderSize, QuestionSize
  <1>8. TypeOK'
    <2>1. qname' \in Seq(Nat)
      <3>1. Octets \subseteq Nat
        BY DEF Octets
      <3>2. s \in Seq(Nat)
        BY <1>3, <3>1, SeqMonotonic
      <3> QED BY <1>4, <3>2
    <2> QED BY <1>7, <2>1 DEF IInv, TypeOK, reading
  <1>9. AnswersInv'
    BY <1>5, SameMessage DEF IInv, AnswersInv, InName
  <1>10. PlaceInv'
    <2>1. Begin' = Begins[1]
      BY <1>5, SamePlace DEF Begin, At
    <2> QED BY <1>6, <2>1 DEF PlaceInv, InName
  <1>11. QueryAsksForHost'
    BY <1>4 DEF QueryAsksForHost, Text
  <1> QED BY <1>1, <1>8, <1>9, <1>10, <1>11 DEF NameInv, ConvertInv, AllocInv, NameFits, IInv, InName

\* A name is read from its first octet on.
LEMMA StartsName ==
  ASSUME IInv, UNCHANGED <<m, qname, reader, owner, answers>>, pc # "query",
         Len(answers) < Records, NEW what \in {"owner", "rdata"}, NEW offset \in Offsets,
         StartName(what, offset),
         what = "owner" => offset = Begin /\ reader = Begin,
         what = "rdata" => /\ offset = Resource + ResourceSize /\ reader = Resource
                           /\ owner = Rec[K].name /\ Type # QType
  PROVE  IInv'
  <1> USE DEF StartName
  <1>1. m \in Messages /\ InName' /\ part' = what /\ pc' = "name"
    BY DEF IInv, InName
  <1>2. Start' = offset
    BY SamePlace DEF Start
  <1>3. offset \in Nat /\ Text[offset] \in Seq(Octets) /\ Extent[offset] \in Nat
    BY <1>1, Parts
  <1>4. TypeOK'
    <2>1. <<>> \in Seq(1..Pointer-1)
      BY EmptySeq
    <2>2. name' \in Seq(1..Pointer-1) /\ pos' \in Nat \ {0}
      BY <2>1
    <2>3. jumped' \in BOOLEAN
      BY Zenon
    <2>4. count' \in Nat /\ alloc' \in Nat /\ cursor' \in Nat
      BY <1>3, SizesAssumption
    <2>5. qname' \in Seq(Nat) /\ reader' \in Nat /\ owner' \in Seq(1..Pointer-1) /\ answers' \in Seq(ResourceRecords)
      BY Zenon DEF IInv, TypeOK
    <2>6. /\ pc' \in {"query", "record", "name", "convert", "resource", "done", "spilled"}
          /\ part' \in {"owner", "rdata"}
      OBVIOUS
    <2> QED BY <2>2, <2>3, <2>4, <2>5, <2>6, Zenon DEF TypeOK
  <1>5. AnswersInv'
    BY SameMessage DEF IInv, AnswersInv, InName
  <1>6. PlaceInv'
    <2>1. Type' = Type
      BY DEF Type
    <2> QED BY <1>1, <1>2, <2>1, SameMessage, SamePlace DEF PlaceInv
  <1>7. NameInv'
    <2>1. <<>> \o Text[offset] = Text[offset]
      BY <1>3, ConcatEmptySeq
    <2>2. (offset - offset) + 1 = 1
      BY <1>3
    <2>3. /\ cursor' = offset /\ pos' = 1 /\ name' = <<>> /\ jumped' = FALSE /\ count' = 1
          /\ Offsets' = Offsets /\ Text' = Text /\ Extent' = Extent
      BY SameMessage
    <2>4. Spelling' = Text[offset]
      BY <1>2, <2>3 DEF Spelling
    <2> QED BY <1>2, <2>1, <2>2, <2>3, <2>4 DEF NameInv
  <1>8. AllocInv'
    BY SizesAssumption DEF AllocInv
  <1>9. QueryAsksForHost'
    BY DEF IInv, QueryAsksForHost
  <1> QED BY <1>1, <1>4, <1>5, <1>6, <1>7, <1>8, <1>9 DEF IInv, ConvertInv, NameFits

LEMMA ReadRecordKeeps == ASSUME IInv, ReadRecord PROVE IInv'
  <1>1. /\ UNCHANGED <<m, qname, reader, owner, answers>> /\ pc # "query"
        /\ Len(answers) < Records /\ reader = Begin
    BY DEF ReadRecord, IInv, PlaceInv
  <1>2. Begin \in Offsets
    BY <1>1, NextRecord
  <1>3. StartName("owner", Begin)
    BY <1>1 DEF ReadRecord
  <1> QED BY <1>1, <1>2, <1>3, StartsName

LEMMA ReadOtherKeeps == ASSUME IInv, ReadOther PROVE IInv'
  <1>1. /\ UNCHANGED <<m, qname, reader, owner, answers>> /\ pc # "query"
        /\ Len(answers) < Records /\ reader = Resource /\ owner = Rec[K].name
        /\ Type # QType
    <2>1. pc = "resource" /\ Type # m.qtype /\ UNCHANGED <<m, qname, reader, owner, answers>>
      BY DEF ReadOther
    <2>2. Len(answers) < Records /\ reader = Resource /\ owner = Rec[K].name
      BY <2>1, Zenon DEF IInv, PlaceInv, AnswersInv
    <2> QED BY <2>1, <2>2 DEF QType
  <1>2. Rec[K].type # QType
    <2>1. Rec[K].type = U16(Sent, Resource)
      BY <1>1, NextRecord, Zenon
    <2>2. Type = U16(Sent, Resource)
      BY <1>1 DEF Type, Sent
    <2> QED BY <1>1, <2>1, <2>2, Zenon
  <1>3. Resource + ResourceSize \in Offsets
    BY <1>1, <1>2, NextRdata
  <1>4. StartName("rdata", Resource + ResourceSize)
    BY <1>1 DEF ReadOther
  <1> QED BY <1>1, <1>3, <1>4, StartsName

\* While a name is read and converted, what it is and where stay the same.
LEMMA SameName ==
  ASSUME IInv, InName, InName', UNCHANGED <<m, qname, reader, part, owner, answers>>
  PROVE  /\ m' \in Messages /\ AnswersInv' /\ PlaceInv' /\ QueryAsksForHost'
         /\ Start' = Start /\ Spelling' = Spelling /\ Offsets' = Offsets /\ Text' = Text
         /\ Extent' = Extent
  <1>1. Start' = Start /\ Offsets' = Offsets /\ Text' = Text /\ Extent' = Extent
    BY SameMessage, SamePlace DEF Start
  <1>2. Spelling' = Spelling
    BY <1>1 DEF Spelling
  <1>3. pc # "query" /\ pc' # "query" /\ pc' # "resource" /\ pc' # "record" /\ pc' # "done"
    BY DEF InName
  <1>4. AnswersInv'
    BY <1>3, SameMessage DEF IInv, AnswersInv
  <1>5. PlaceInv'
    <2>1. Type' = Type
      BY DEF Type
    <2> QED BY <1>1, <1>3, <2>1, SameMessage, SamePlace DEF IInv, PlaceInv
  <1>6. QueryAsksForHost'
    BY <1>3 DEF IInv, QueryAsksForHost
  <1> QED BY <1>1, <1>2, <1>4, <1>5, <1>6 DEF IInv

\* An allocation does not shrink, and stays above the count.
LEMMA AllocGrows ==
  ASSUME IInv, pc = "name", NEW jumps, Advance(jumps)
  PROVE  /\ InitSize <= alloc' /\ count' < alloc' /\ alloc' \in Nat /\ count' \in Nat
         /\ jumps => count' = count
         /\ ~ jumps => count' = count + 1
  <1>1. alloc \in Nat /\ count \in Nat /\ InitSize <= alloc /\ count < alloc
    BY DEF IInv, TypeOK, AllocInv, InName
  <1> QED BY <1>1, SizesAssumption DEF Advance

\* The cursor is at an octet of the name.
LEMMA AtCursor ==
  ASSUME IInv, pc = "name"
  PROVE  /\ InName /\ m \in Messages /\ cursor \in Offsets /\ cursor \in Nat /\ Octet = Sent[cursor]
         /\ name \in Seq(Octets) /\ Text[cursor] \in Seq(Octets) /\ Extent[cursor] \in Nat
         /\ Start \in Nat /\ Extent[Start] \in Nat /\ count \in Nat
  <1>1. InName /\ m \in Messages /\ cursor \in Offsets /\ name \in Seq(Octets) /\ count \in Nat
    BY DEF InName, IInv, NameInv, TypeOK, Octets
  <1>2. cursor \in Nat /\ Text[cursor] \in Seq(Octets) /\ Extent[cursor] \in Nat
    BY <1>1, Parts
  <1>3. Octet = Sent[cursor]
    BY DEF Octet, Sent
  <1>4. Start \in Nat /\ Extent[Start] \in Nat
    BY <1>1, NameMeans
  <1> QED BY <1>1, <1>2, <1>3, <1>4

\* An octet goes from the rest of a name to what is read of it.
LEMMA OctetMoves ==
  ASSUME NEW s \in Seq(Octets), NEW o \in Octets, NEW rest \in Seq(Octets)
  PROVE  Append(s, o) \o rest = s \o (<<o>> \o rest)
  <1>1. <<o>> \in Seq(Octets)
    OBVIOUS
  <1>2. Append(s, o) = s \o <<o>>
    BY AppendIsConcat
  <1> DEFINE t == <<o>>
  <1>3. t \in Seq(Octets) /\ Append(s, o) = s \o t
    BY <1>1, <1>2
  <1> HIDE DEF t
  <1>4. (s \o t) \o rest = s \o (t \o rest)
    BY <1>3, ConcatAssociative
  <1> QED BY <1>3, <1>4 DEF t

LEMMA ReadOctetKeeps == ASSUME IInv, ReadOctet PROVE IInv'
  <1> USE DEF ReadOctet
  <1>1. /\ InName /\ m \in Messages /\ cursor \in Offsets /\ cursor \in Nat /\ Octet = Sent[cursor]
        /\ name \in Seq(Octets) /\ Start \in Nat /\ Extent[Start] \in Nat /\ count \in Nat
    BY AtCursor
  <1>2. InName'
    BY DEF InName
  <1>3. /\ cursor + 1 \in Offsets /\ Text[cursor] = <<Octet>> \o Text[cursor + 1]
        /\ Extent[cursor] = Extent[cursor + 1] + 1 /\ Octet \in Octets
    <2>1. Sent[cursor] \in Octets
      BY <1>1 DEF Octets
    <2> QED BY <1>1, <2>1, NameOctet
  <1>4. Text[cursor + 1] \in Seq(Octets) /\ Extent[cursor + 1] \in Nat
    BY <1>1, <1>3, Parts
  <1>5. /\ m' \in Messages /\ AnswersInv' /\ PlaceInv' /\ QueryAsksForHost'
        /\ Start' = Start /\ Spelling' = Spelling /\ Offsets' = Offsets /\ Text' = Text
        /\ Extent' = Extent
    BY <1>1, <1>2, SameName
  <1>6. /\ InitSize <= alloc' /\ count' < alloc' /\ alloc' \in Nat /\ count' \in Nat
        /\ jumped => count' = count
        /\ ~ jumped => count' = count + 1
    BY AllocGrows
  <1>7. Append(name, Octet) \o Text[cursor + 1] = name \o Text[cursor]
    <2>1. name \in Seq(Octets) /\ Octet \in Octets /\ Text[cursor + 1] \in Seq(Octets)
      BY <1>1, <1>3, <1>4, Zenon
    <2>2. Append(name, Octet) \o Text[cursor + 1] = name \o (<<Octet>> \o Text[cursor + 1])
      BY <2>1, OctetMoves, Zenon
    <2> QED BY <1>3, <2>2, Zenon
  <1>8. NameInv'
    <2>1. pos = 1 /\ name \o Text[cursor] = Spelling
      BY DEF IInv, NameInv, NameFits
    <2>2. Append(name, Octet) \o Text[cursor + 1] = Spelling
      BY <1>7, <2>1
    <2>3. jumped => count' + 1 = Extent[Start]
      BY <1>6 DEF IInv, NameInv, NameFits
    <2>4. ~ jumped => /\ count' = ((cursor + 1) - Start) + 1
                      /\ (cursor + 1) + Extent[cursor + 1] = Start + Extent[Start]
      <3> SUFFICES ASSUME ~ jumped
                   PROVE  /\ count' = ((cursor + 1) - Start) + 1
                          /\ (cursor + 1) + Extent[cursor + 1] = Start + Extent[Start]
        OBVIOUS
      <3> DEFINE e == Extent[cursor]
                 next == Extent[cursor + 1]
                 whole == Extent[Start]
      <3>1. count = (cursor - Start) + 1 /\ cursor + e = Start + whole
        BY DEF IInv, NameInv, NameFits
      <3>2. count' = count + 1 /\ count \in Nat /\ cursor \in Nat /\ Start \in Nat
        BY <1>1, <1>6
      <3>3. e = next + 1 /\ next \in Nat /\ whole \in Nat
        BY <1>1, <1>3, <1>4
      <3> HIDE DEF e, next, whole
      <3>4. count' = ((cursor + 1) - Start) + 1 /\ (cursor + 1) + next = Start + whole
        BY ONLY <3>1, <3>2, <3>3
      <3> QED BY <3>4 DEF next, whole
    <2> QED BY <1>3, <1>5, <2>1, <2>2, <2>3, <2>4 DEF NameInv
  <1>9. TypeOK'
    <2>1. name' \in Seq(1..Pointer-1)
      BY <1>1, <1>3, AppendProperties DEF Octets
    <2>2. cursor' \in Nat
      BY <1>1
    <2> QED BY <1>6, <2>1, <2>2, Zenon DEF IInv, TypeOK
  <1>10. AllocInv'
    <2>1. Len(name') = Len(name) + 1 /\ Len(name) \in Nat
      BY <1>1, <1>3, AppendProperties
    <2>2. ~ jumped' => count' = Len(name') + 1
      BY <1>6, <2>1 DEF IInv, AllocInv
    <2> QED BY <1>6, <2>2 DEF AllocInv
  <1> QED BY <1>5, <1>8, <1>9, <1>10 DEF IInv, ConvertInv, NameFits

LEMMA FollowPointerKeeps == ASSUME IInv, FollowPointer PROVE IInv'
  <1> USE DEF FollowPointer
  <1>1. /\ InName /\ m \in Messages /\ cursor \in Offsets /\ cursor \in Nat /\ Octet = Sent[cursor]
        /\ Start \in Nat /\ Extent[Start] \in Nat /\ count \in Nat
    BY AtCursor
  <1>2. InName'
    BY DEF InName
  <1> DEFINE target == Target(Sent, cursor)
  <1>3. target \in Offsets /\ Text[cursor] = Text[target] /\ Extent[cursor] = 2
    BY <1>1, NameOctet
  <1>4. cursor' = target
    BY DEF Sent
  <1>5. /\ m' \in Messages /\ AnswersInv' /\ PlaceInv' /\ QueryAsksForHost'
        /\ Start' = Start /\ Spelling' = Spelling /\ Offsets' = Offsets /\ Text' = Text
        /\ Extent' = Extent
    BY <1>1, <1>2, SameName
  <1>6. /\ InitSize <= alloc' /\ count' < alloc' /\ alloc' \in Nat /\ count' \in Nat
        /\ count' = count
    BY AllocGrows
  <1> HIDE DEF target
  <1>7. NameInv'
    <2>1. pos = 1 /\ name \o Text[cursor] = Spelling
      BY DEF IInv, NameInv, NameFits
    <2>2. name \o Text[target] = Spelling
      BY <1>3, <2>1
    <2>3. count + 1 = Extent[Start]
      <3>1. CASE jumped
        BY <3>1 DEF IInv, NameInv, NameFits
      <3>2. CASE ~ jumped
        <4>1. count = (cursor - Start) + 1 /\ cursor + Extent[cursor] = Start + Extent[Start]
          BY <3>2 DEF IInv, NameInv, NameFits
        <4> QED BY ONLY <1>1, <1>3, <4>1
      <3> QED BY <3>1, <3>2
    <2> QED BY <1>3, <1>4, <1>5, <1>6, <2>1, <2>2, <2>3 DEF NameInv
  <1>8. TypeOK'
    <2>1. cursor' \in Nat
      BY <1>1, <1>3, <1>4, Parts
    <2>2. jumped' \in BOOLEAN
      BY Zenon
    <2> QED BY <1>6, <2>1, <2>2, Zenon DEF IInv, TypeOK
  <1>9. AllocInv'
    BY <1>6 DEF AllocInv
  <1> QED BY <1>5, <1>7, <1>8, <1>9 DEF IInv, ConvertInv, NameFits

\* A name without a pointer does not spill, nor one that fits in the first allocation.
LEMMA SpillKeeps == ASSUME IInv, Spill PROVE IInv'
  <1> USE DEF Spill
  <1>1. ~ InName' /\ m' \in Messages
    BY DEF InName, IInv
  <1>2. Len(name) \in Nat /\ alloc \in Nat /\ count \in Nat /\ InitSize \in Nat
    BY SizesAssumption DEF IInv, TypeOK
  <1>3. ~ Len(name) < alloc /\ InitSize <= alloc /\ count < alloc
    BY DEF Room, IInv, AllocInv, InName
  <1>4. jumped /\ Len(name) >= InitSize
    <2>1. ~ jumped => count = Len(name) + 1
      BY DEF IInv, AllocInv
    <2> QED BY <1>2, <1>3, <2>1
  <1>5. NameFits'
    BY <1>4 DEF NameFits, reading
  <1>6. AnswersInv'
    BY <1>1, SameMessage DEF IInv, AnswersInv
  <1>7. TypeOK'
    BY Zenon DEF IInv, TypeOK, reading
  <1>8. QueryAsksForHost'
    BY DEF IInv, QueryAsksForHost
  <1> QED BY <1>1, <1>5, <1>6, <1>7, <1>8 DEF IInv, PlaceInv, NameInv, ConvertInv, AllocInv

LEMMA EndNameKeeps == ASSUME IInv, EndName PROVE IInv'
  <1> USE DEF EndName
  <1>1. /\ InName /\ m \in Messages /\ cursor \in Offsets /\ cursor \in Nat /\ Octet = Sent[cursor]
        /\ name \in Seq(Octets) /\ Start \in Nat /\ Extent[Start] \in Nat /\ count \in Nat
    BY AtCursor
  <1>2. InName'
    BY DEF InName
  <1>3. Text[cursor] = <<>> /\ Extent[cursor] = 1
    BY <1>1, NameOctet
  <1>4. /\ m' \in Messages /\ AnswersInv' /\ PlaceInv' /\ QueryAsksForHost'
        /\ Start' = Start /\ Spelling' = Spelling /\ Offsets' = Offsets /\ Text' = Text
        /\ Extent' = Extent
    BY <1>1, <1>2, SameName
  <1>5. name = Spelling /\ pos = 1
    <2>1. name \o <<>> = Spelling /\ pos = 1
      BY <1>3 DEF IInv, NameInv, NameFits
    <2> QED BY <1>1, <2>1, ConcatEmptySeq
  <1>6. count' = Extent[Start]
    <2>1. CASE jumped
      BY <2>1 DEF IInv, NameInv, NameFits
    <2>2. CASE ~ jumped
      <3>1. count = (cursor - Start) + 1 /\ cursor + Extent[cursor] = Start + Extent[Start]
        BY <2>2 DEF IInv, NameInv, NameFits
      <3> QED BY <1>1, <1>3, <2>2, <3>1
    <2> QED BY <2>1, <2>2
  <1>7. ConvertInv'
    <2>1. ASSUME NEW labels \in SUBSET (1..Len(Spelling)), LabelsOf(labels, Spelling)
          PROVE  pos' \in labels /\ Half(name', Spelling, labels, pos')
      <3>1. pos' = 1 /\ name' = Spelling
        BY <1>5
      <3> QED BY <2>1, <3>1 DEF LabelsOf, Half
    <2> QED BY <1>4, <1>5, <1>6, <2>1 DEF ConvertInv
  <1>8. TypeOK'
    <2>1. count' \in Nat
      BY <1>1, <1>6
    <2> QED BY <2>1, Zenon DEF IInv, TypeOK
  <1>9. AllocInv'
    BY <1>1 DEF IInv, AllocInv
  <1> QED BY <1>4, <1>7, <1>8, <1>9 DEF IInv, NameInv, NameFits

\* A turn of the conversion's loop goes on from one label to the next.
LEMMA ConvertLabelKeeps == ASSUME IInv, ConvertLabel PROVE IInv'
  <1> USE DEF ConvertLabel
  <1>1. /\ InName /\ InName' /\ m \in Messages /\ Len(name) = Len(Spelling) /\ count = Extent[Start]
        /\ pos \in Nat \ {0} /\ pos <= Len(name)
    BY DEF InName, IInv, ConvertInv, TypeOK
  <1>2. /\ m' \in Messages /\ AnswersInv' /\ PlaceInv' /\ QueryAsksForHost'
        /\ Start' = Start /\ Spelling' = Spelling /\ Offsets' = Offsets /\ Text' = Text
        /\ Extent' = Extent
    BY <1>1, SameName
  <1>3. Spelling \in Seq(Octets)
    BY <1>1, NameMeans
  <1> DEFINE dot == pos + name[pos]
  <1>4. /\ name' = [k \in 1..Len(name) |-> CASE k \in pos..dot-1 -> name[k + 1]
                                            [] k = dot -> Dot
                                            [] OTHER -> name[k]]
        /\ pos' = dot + 1
    OBVIOUS
  <1>5. ASSUME NEW labels \in SUBSET (1..Len(Spelling)), LabelsOf(labels, Spelling)
        PROVE  /\ pos' \in labels \cup {Len(Spelling) + 1}
               /\ Half(name', Spelling, labels, pos')
               /\ name' \in Seq(Octets)
    <2>1. pos \in labels \cup {Len(Spelling) + 1} /\ Half(name, Spelling, labels, pos)
      BY <1>5 DEF IInv, ConvertInv, NameFits
    <2>2. Len(Spelling) \in Nat
      BY <1>3
    <2>3. pos \in labels
      BY <1>1, <2>1, <2>2
    <2> DEFINE n2 == [k \in 1..Len(name) |-> CASE k \in pos..dot-1 -> name[k + 1]
                                               [] k = dot -> Dot
                                               [] OTHER -> name[k]]
    <2> HIDE DEF ConvertLabel
    <2>4. /\ dot + 1 \in labels \cup {Len(Spelling) + 1}
          /\ Half(n2, Spelling, labels, dot + 1)
          /\ n2 \in Seq(Octets)
      BY ONLY <1>3, <1>5, <2>1, <2>3, ConvertsLabel
    <2>5. name' = n2 /\ pos' = dot + 1
      BY <1>4, Zenon
    <2> HIDE DEF n2, dot
    <2> QED BY <2>4, <2>5
  <1>6. PICK labels \in SUBSET (1..Len(Spelling)) : LabelsOf(labels, Spelling)
    BY <1>1, NameMeans DEF Names
  <1>7. name' \in Seq(Octets) /\ Len(name') = Len(Spelling)
    BY <1>5, <1>6 DEF Half
  <1>8. ConvertInv'
    BY <1>1, <1>2, <1>5, <1>7 DEF ConvertInv
  <1>9. TypeOK'
    <2>1. pos' \in Nat \ {0}
      <3>1. pos' \in labels \cup {Len(Spelling) + 1}
        BY <1>5, <1>6, Zenon
      <3>2. Len(Spelling) \in Nat
        BY <1>3
      <3> HIDE DEF ConvertLabel
      <3> QED BY <1>6, <3>1, <3>2
    <2>2. name' \in Seq(1..Pointer-1)
      BY <1>7 DEF Octets
    <2> QED BY <2>1, <2>2, Zenon DEF IInv, TypeOK
  <1>10. AllocInv'
    BY <1>1 DEF IInv, AllocInv
  <1> QED BY <1>2, <1>8, <1>9, <1>10 DEF IInv, NameInv, NameFits

\* After the conversion the name is the one that was sent, and the octets it took have
\* been counted.
LEMMA NameIsRead ==
  ASSUME IInv, Converted
  PROVE  /\ InName /\ m \in Messages /\ count = Extent[Start] /\ Len(answers) < Records
         /\ NameRead = (IF part = "owner" THEN Rec[K].name ELSE Rec[K].rdata)
         /\ NameRead \in Seq(Octets)
  <1>1. /\ InName /\ m \in Messages /\ Len(name) = Len(Spelling) /\ count = Extent[Start]
        /\ pos > Len(name) /\ Len(answers) < Records /\ name \in Seq(Octets)
    BY DEF Converted, InName, IInv, ConvertInv, AnswersInv, TypeOK, Octets
  <1>2. Spelling \in Seq(Octets)
    BY <1>1, NameMeans
  <1> DEFINE meant == IF part = "owner" THEN Rec[K].name ELSE Rec[K].rdata
  <1>3. Names(meant, Spelling)
    BY <1>1, NameMeans, Zenon
  <1>4. PICK labels \in SUBSET (1..Len(Spelling)) :
          LabelsOf(labels, Spelling) /\ meant = Dotted(Spelling, labels)
    BY <1>3, Zenon DEF Names
  <1>5. pos \in labels \cup {Len(Spelling) + 1} /\ Half(name, Spelling, labels, pos)
    BY <1>4 DEF Converted, IInv, ConvertInv
  <1>6. pos = Len(Spelling) + 1
    <2>1. Len(Spelling) \in Nat
      BY <1>2
    <2> QED BY <1>1, <1>4, <1>5, <2>1
  <1>7. /\ SubSeq(name, 1, Len(name) - 1) = Dotted(Spelling, labels)
        /\ SubSeq(name, 1, Len(name) - 1) \in Seq(Octets)
    BY <1>1, <1>2, <1>4, <1>5, <1>6, ConvertedIsDotted
  <1> QED BY <1>1, <1>4, <1>7 DEF NameRead

\* The owner is read; behind it is the resource.
LEMMA KeepOwnerKeeps == ASSUME IInv, KeepOwner PROVE IInv'
  <1> USE DEF KeepOwner
  <1>1. /\ InName /\ m \in Messages /\ count = Extent[Start] /\ Len(answers) < Records
        /\ NameRead = Rec[K].name /\ NameRead \in Seq(Octets)
    BY NameIsRead
  <1>2. Begin \in Nat /\ Resource \in Nat
    BY <1>1, NextRecord
  <1>3. reader = Begin /\ Start = Begin
    BY <1>1 DEF IInv, PlaceInv, Start
  <1>4. reader' = Resource
    BY <1>1, <1>3 DEF Resource, ResourceOf, Begin
  <1>5. K' = K /\ Resource' = Resource /\ Rec' = Rec
    BY SamePlace, SameMessage
  <1>6. ~ InName'
    BY DEF InName
  <1>7. PlaceInv'
    BY <1>1, <1>4, <1>5, <1>6 DEF PlaceInv
  <1>8. AnswersInv'
    BY <1>1, <1>6, SameMessage DEF IInv, AnswersInv
  <1>9. TypeOK'
    <2>1. owner' \in Seq(1..Pointer-1) /\ reader' \in Nat
      BY <1>1, <1>2, <1>4 DEF Octets
    <2> QED BY <2>1, Zenon DEF IInv, TypeOK, reading
  <1>10. QueryAsksForHost'
    BY DEF IInv, QueryAsksForHost, Converted
  <1> QED BY <1>1, <1>6, <1>7, <1>8, <1>9, <1>10 DEF IInv, NameInv, ConvertInv, AllocInv, NameFits

\* A record that was read as it was sent joins the others.
LEMMA RecordRead ==
  ASSUME IInv, UNCHANGED <<m, qname, reading, owner>>, pc # "query", pc' = "record",
         Len(answers) < Records, reader' = Resource + ResourceSize + Length,
         NEW rdata, rdata = Rec[K].rdata, NEW type, type = Rec[K].type, owner = Rec[K].name,
         Keep(rdata, type)
  PROVE  IInv'
  <1>1. /\ K \in 1..Len(Rec) /\ Len(answers) \in Nat /\ Rec[K] \in ResourceRecords
        /\ Resource \in Nat /\ Length \in Nat /\ Begins[K + 1] = Resource + ResourceSize + Length
    BY NextRecord
  <1>2. [name |-> owner, type |-> type, rdata |-> rdata] = Rec[K]
    <2> DEFINE r == Rec[K]
    <2>1. r \in ResourceRecords /\ owner = r.name /\ type = r.type /\ rdata = r.rdata
      BY <1>1
    <2> HIDE DEF r
    <2>2. r = [name |-> r.name, type |-> r.type, rdata |-> r.rdata]
      BY <2>1 DEF ResourceRecords
    <2>3. [name |-> owner, type |-> type, rdata |-> rdata] = r
      BY <2>1, <2>2
    <2> QED BY <2>3 DEF r
  <1>3. answers' = Append(answers, Rec[K])
    BY <1>2 DEF Keep
  <1>4. answers \in Seq(ResourceRecords)
    BY DEF IInv, TypeOK
  <1>5. /\ answers' \in Seq(ResourceRecords) /\ Len(answers') = K
        /\ \A i \in 1..Len(answers) : answers'[i] = answers[i]
        /\ answers'[K] = Rec[K]
    BY <1>1, <1>3, <1>4, AppendProperties DEF K
  <1>6. Rec' = Rec /\ Begins' = Begins /\ Records' = Records
    BY SameMessage
  <1>7. Records \in Nat
    BY RecordsBounds DEF IInv
  <1>8. ~ InName'
    BY DEF InName
  <1>9. AnswersInv'
    <2>1. \A i \in 1..Len(answers') : answers'[i] = Rec[i]
      <3> SUFFICES ASSUME NEW i \in 1..Len(answers') PROVE answers'[i] = Rec[i]
        OBVIOUS
      <3>1. CASE i = K
        BY <1>5, <3>1
      <3>2. CASE i # K
        <4>1. i \in 1..Len(answers)
          BY <1>1, <1>5, <3>2 DEF K
        <4> QED BY <1>5, <4>1 DEF IInv, AnswersInv
      <3> QED BY <3>1, <3>2
    <2>2. Len(answers') <= Records
      BY <1>1, <1>5, <1>7 DEF K
    <2> QED BY <1>6, <1>8, <2>1, <2>2 DEF AnswersInv
  <1>10. PlaceInv'
    <2>1. Begin' = Begins[K + 1]
      BY <1>5, <1>6 DEF Begin, At, K
    <2> QED BY <1>1, <1>8, <2>1 DEF PlaceInv
  <1>11. TypeOK'
    <2>1. reader' \in Nat
      BY <1>1 DEF ResourceSize
    <2> QED BY <1>5, <2>1, Zenon DEF IInv, TypeOK, reading
  <1>12. QueryAsksForHost'
    BY DEF IInv, QueryAsksForHost
  <1> QED BY <1>8, <1>9, <1>10, <1>11, <1>12 DEF IInv, NameInv, ConvertInv, AllocInv, NameFits

LEMMA ReadAddressKeeps == ASSUME IInv, ReadAddress PROVE IInv'
  <1> USE DEF ReadAddress
  <1>1. /\ m \in Messages /\ Len(answers) < Records /\ reader = Resource /\ owner = Rec[K].name
        /\ Type = QType
    BY DEF IInv, PlaceInv, AnswersInv, QType
  <1>2. Rec[K].type = U16(Sent, Resource)
    BY <1>1, NextRecord, Zenon
  <1>3. Type = U16(Sent, Resource)
    BY <1>1 DEF Type, Sent
  <1>4. Rec[K].rdata = [j \in 1..Length |-> Sent[Resource + ResourceSize + j - 1]]
    BY <1>1, <1>2, <1>3, NextRdata, Zenon
  <1>5. U16(m.octets, reader + 8) = Length
    BY <1>1 DEF Length, LengthOf, Resource, Sent
  <1>6. /\ Keep(Rec[K].rdata, Type) /\ reader' = Resource + ResourceSize + Length
    <2>1. /\ Keep([j \in 1..Length |-> Sent[Resource + ResourceSize + j - 1]], Type)
          /\ reader' = Resource + ResourceSize + Length
      BY <1>1, <1>5 DEF Sent
    <2> QED BY <1>4, <2>1
  <1>7. UNCHANGED <<m, qname, reading, owner>> /\ pc # "query" /\ pc' = "record"
    OBVIOUS
  <1> QED BY <1>1, <1>2, <1>3, <1>6, <1>7, RecordRead

LEMMA KeepNameKeeps == ASSUME IInv, KeepName PROVE IInv'
  <1> USE DEF KeepName
  <1>1. /\ InName /\ m \in Messages /\ count = Extent[Start] /\ Len(answers) < Records
        /\ NameRead = Rec[K].rdata
    BY NameIsRead
  <1>2. reader = Resource /\ owner = Rec[K].name /\ Type # QType
    BY <1>1 DEF IInv, PlaceInv
  <1>3. Type = U16(Sent, Resource)
    BY <1>2 DEF Type, Sent
  <1>4. Rec[K].type = Type
    BY <1>1, <1>3, NextRecord, Zenon
  <1>5. Length = Extent[Resource + ResourceSize]
    BY <1>1, <1>2, <1>4, NextRdata, Zenon
  <1>6. reader' = Resource + ResourceSize + Length
    BY <1>1, <1>2, <1>5 DEF Start
  <1>7. UNCHANGED <<m, qname, reading, owner>> /\ pc # "query" /\ pc' = "record"
    BY DEF Converted
  <1> QED BY <1>1, <1>2, <1>4, <1>6, <1>7, RecordRead

LEMMA EndOfAnswerKeeps == ASSUME IInv, EndOfAnswer PROVE IInv'
  <1> USE DEF EndOfAnswer
  <1>1. ~ InName' /\ Len(answers) = Records
    BY DEF InName
  <1>2. AnswersInv'
    <2>1. Records \in Nat
      BY RecordsBounds DEF IInv
    <2> QED BY <1>1, <2>1, SameMessage DEF IInv, AnswersInv
  <1>3. TypeOK'
    BY Zenon DEF IInv, TypeOK, reading
  <1> QED BY <1>1, <1>2, <1>3 DEF IInv, PlaceInv, NameInv, ConvertInv, AllocInv, NameFits, QueryAsksForHost

\* Every step keeps the invariant.
LEMMA InvStep == IInv /\ [Next]_vars => IInv'
  <1> SUFFICES ASSUME IInv, [Next]_vars PROVE IInv'
    OBVIOUS
  <1>1. CASE Query
    BY <1>1, QueryKeeps
  <1>2. CASE ReadRecord
    BY <1>2, ReadRecordKeeps
  <1>3. CASE EndOfAnswer
    BY <1>3, EndOfAnswerKeeps
  <1>4. CASE ReadName
    BY <1>4, ReadOctetKeeps, SpillKeeps, FollowPointerKeeps, EndNameKeeps, ConvertLabelKeeps DEF ReadName
  <1>5. CASE KeepOwner
    BY <1>5, KeepOwnerKeeps
  <1>6. CASE ReadAddress
    BY <1>6, ReadAddressKeeps
  <1>7. CASE ReadOther
    BY <1>7, ReadOtherKeeps
  <1>8. CASE KeepName
    BY <1>8, KeepNameKeeps
  <1>9. CASE UNCHANGED vars
    <2>1. /\ UNCHANGED <<m, pc, qname, reader, owner, answers>>
          /\ UNCHANGED <<part, cursor, name, pos, jumped, count, alloc>>
      BY <1>9 DEF vars, reading
    <2>2. /\ K' = K /\ Begin' = Begin /\ Resource' = Resource /\ Sent' = Sent /\ Offsets' = Offsets
          /\ Text' = Text /\ Extent' = Extent /\ Rec' = Rec /\ QType' = QType /\ Records' = Records
      BY <2>1, SameMessage, SamePlace
    <2>3. Start' = Start /\ Type' = Type /\ (InName <=> InName')
      BY <2>1, <2>2 DEF Start, Type, InName
    <2>4. Spelling' = Spelling
      BY <2>2, <2>3 DEF Spelling
    <2>5. TypeOK' /\ m' \in Messages
      BY <2>1, Zenon DEF IInv, TypeOK
    <2>6. AnswersInv' /\ PlaceInv'
      BY <2>1, <2>2, <2>3 DEF IInv, AnswersInv, PlaceInv
    <2>7. NameInv'
      BY <2>1, <2>2, <2>3, <2>4 DEF IInv, NameInv, NameFits
    <2>8. ConvertInv'
      BY <2>1, <2>2, <2>3, <2>4, Zenon DEF IInv, ConvertInv, NameFits
    <2>9. AllocInv' /\ NameFits' /\ QueryAsksForHost'
      BY <2>1, <2>3 DEF IInv, AllocInv, NameFits, QueryAsksForHost
    <2> QED BY <2>5, <2>6, <2>7, <2>8, <2>9 DEF IInv
  <1> QED BY <1>1, <1>2, <1>3, <1>4, <1>5, <1>6, <1>7, <1>8, <1>9 DEF Next

LEMMA Invariance == Spec => []IInv
  BY InvInit, InvStep, PTL DEF Spec
-----------------------------------------------------------------------------
\* Every variable keeps its type, whatever the answers are (dnsquery.cc:426-598).
THEOREM TypeCorrect == Spec => []TypeOK
  <1>1. IInv => TypeOK
    BY DEF IInv
  <1> QED BY <1>1, Invariance, PTL

\* The name in the query is the one in the question, whether the host name ends in a
\* dot or not (ChangetoDnsNameFormat, dnsquery.cc:552-570).
THEOREM QueryIsRight == Spec => []QueryAsksForHost
  <1>1. IInv => QueryAsksForHost
    BY DEF IInv
  <1> QED BY <1>1, Invariance, PTL

\* Each record is looked for where it begins, however many were read before it and
\* however their names were compressed (dnsquery.cc:434-478, 513, 533).
THEOREM RecordsFound == Spec => []ReadsWhereRecordBegins
  <1>1. IInv => ReadsWhereRecordBegins
    BY DEF IInv, PlaceInv, ReadsWhereRecordBegins, Begin, Resource, At, ResourceOf, K, Begins, Extent
  <1> QED BY <1>1, Invariance, PTL

\* What is allocated for a name is written past only if the name has a pointer and is at
\* least as long as INIT_SIZE: without one the allocation grows with the name
\* (dnsquery.cc:488-531).
THEOREM NamesFit == Spec => []NameFits
  <1>1. IInv => NameFits
    BY DEF IInv
  <1> QED BY <1>1, Invariance, PTL

\* The records are read as they were sent (ReadRecvAnswer, dnsquery.cc:426-483).
THEOREM ReadsAsSent == Spec => []AnswersAsSent
  <1>1. IInv => AnswersAsSent
    <2> SUFFICES ASSUME IInv, pc = "done" PROVE answers = SubSeq(Rec, 1, Records)
      BY DEF AnswersAsSent, Rec
    <2>1. answers \in Seq(ResourceRecords) /\ Len(answers) = Records
      BY DEF IInv, TypeOK, AnswersInv
    <2>2. \A i \in 1..Len(answers) : answers[i] = Rec[i]
      BY DEF IInv, AnswersInv
    <2>3. Rec \in Seq(ResourceRecords) /\ Records \in Nat /\ Records <= Len(Rec)
      BY Parts, RecordsBounds DEF IInv
    <2>4. /\ SubSeq(Rec, 1, Records) \in Seq(ResourceRecords) /\ Len(SubSeq(Rec, 1, Records)) = Records
          /\ \A i \in 1..Records : SubSeq(Rec, 1, Records)[i] = Rec[i]
      BY <2>3
    <2> QED BY <2>1, <2>2, <2>4, SeqEqual
  <1> QED BY <1>1, Invariance, PTL
-----------------------------------------------------------------------------
(* The loops of ReadRecvAnswer and ReadName end: every step lessens what is  *)
(* left, in a lexicographic order.                                           *)

RecordsLeft == Records - Len(answers)

\* What is left to do for the record.
Stage ==
  CASE pc = "query"    -> 8
    [] pc = "record"   -> 7
    [] pc = "name"     -> IF part = "owner" THEN 6 ELSE 3
    [] pc = "convert"  -> IF part = "owner" THEN 5 ELSE 2
    [] pc = "resource" -> 4
    [] pc \in {"done", "spilled"} -> 0

\* The octets of the name that are still to be read, or to be converted.
NameLeft ==
  CASE pc = "name"    -> Len(Text[cursor])
    [] pc = "convert" -> (Len(name) + 1) - pos
    [] OTHER          -> 0

WorkIsNat == RecordsLeft \in Nat /\ Stage \in 0..8 /\ NameLeft \in Nat /\ cursor \in Nat

ReadAdvances ==
  \/ RecordsLeft' < RecordsLeft
  \/ UNCHANGED RecordsLeft /\ Stage' < Stage
  \/ UNCHANGED <<RecordsLeft, Stage>> /\ NameLeft' < NameLeft
  \/ UNCHANGED <<RecordsLeft, Stage, NameLeft>> /\ cursor' < cursor

\* The conversion stays within the name.
LEMMA PosInName ==
  ASSUME IInv, pc = "convert"
  PROVE  /\ Len(name) \in Nat /\ pos \in 1..Len(name)+1
         /\ pos <= Len(name) => name[pos] \in Octets
  <1>1. InName /\ Len(name) = Len(Spelling) /\ name \in Seq(Octets)
    BY DEF InName, IInv, ConvertInv, TypeOK, Octets
  <1>2. PICK labels \in SUBSET (1..Len(Spelling)) : LabelsOf(labels, Spelling)
    BY <1>1, NameMeans DEF Names
  <1>3. pos \in labels \cup {Len(Spelling) + 1}
    BY <1>2 DEF IInv, ConvertInv, NameFits
  <1>4. Len(name) \in Nat
    BY <1>1
  <1>5. pos \in 1..Len(name)+1
    BY <1>1, <1>2, <1>3, <1>4
  <1>6. ASSUME pos <= Len(name) PROVE name[pos] \in Octets
    <2>1. pos \in 1..Len(name)
      BY <1>4, <1>5, <1>6
    <2> QED BY <1>1, <2>1, ElementOfSeq
  <1> QED BY <1>4, <1>5, <1>6

\* What is left is four natural numbers.
LEMMA WorkBounded == IInv => WorkIsNat
  <1> SUFFICES ASSUME IInv PROVE WorkIsNat
    OBVIOUS
  <1>1. RecordsLeft \in Nat
    <2>1. Len(answers) \in Nat /\ Len(answers) <= Records /\ Records \in Nat
      BY RecordsBounds DEF IInv, TypeOK, AnswersInv
    <2> QED BY <2>1 DEF RecordsLeft
  <1>2. Stage \in 0..8
    BY DEF Stage, IInv, TypeOK
  <1>3. NameLeft \in Nat
    <2>1. CASE pc = "name"
      <3>1. Text[cursor] \in Seq(Octets)
        BY <2>1, AtCursor
      <3> QED BY <2>1, <3>1 DEF NameLeft
    <2>2. CASE pc = "convert"
      <3>1. Len(name) \in Nat /\ pos \in 1..Len(name)+1
        BY <2>2, PosInName
      <3> QED BY <2>2, <3>1 DEF NameLeft
    <2>3. CASE pc \notin {"name", "convert"}
      BY <2>3 DEF NameLeft
    <2> QED BY <2>1, <2>2, <2>3
  <1>4. cursor \in Nat
    BY DEF IInv, TypeOK
  <1> QED BY <1>1, <1>2, <1>3, <1>4 DEF WorkIsNat

\* An octet of a label is one less to read.
LEMMA OctetAdvances == ASSUME IInv, ReadOctet PROVE ReadAdvances
  <1>1. /\ pc = "name" /\ pc' = "name" /\ cursor' = cursor + 1
        /\ UNCHANGED <<m, part, answers>>
    BY DEF ReadOctet
  <1>2. cursor \in Offsets /\ m \in Messages /\ Octet = Sent[cursor] /\ Octet \in Octets
    <2>1. Octet \in 1..Pointer-1
      BY DEF ReadOctet
    <2> QED BY <1>1, <2>1, AtCursor DEF Octets
  <1>3. cursor + 1 \in Offsets /\ Text[cursor] = <<Octet>> \o Text[cursor + 1]
    BY <1>2, NameOctet
  <1> DEFINE rest == Text[cursor + 1]
             o == <<Octet>>
  <1>4. rest \in Seq(Octets)
    BY <1>2, <1>3, Parts
  <1>5. o \in Seq(Octets) /\ Len(o) = 1
    BY <1>2
  <1>6. Text[cursor] = o \o rest
    BY <1>3
  <1> HIDE DEF rest, o
  <1>7. Len(o \o rest) = 1 + Len(rest) /\ Len(rest) \in Nat
    <2>1. Len(o \o rest) = Len(o) + Len(rest)
      BY <1>4, <1>5, ConcatProperties
    <2> QED BY <1>4, <1>5, <2>1
  <1>8. NameLeft = 1 + Len(rest) /\ NameLeft' = Len(rest)
    BY <1>1, <1>6, <1>7, SameMessage DEF NameLeft, rest
  <1>9. NameLeft' < NameLeft
    BY <1>7, <1>8
  <1>10. UNCHANGED <<RecordsLeft, Stage>>
    BY <1>1, SameMessage DEF RecordsLeft, Stage
  <1> QED BY <1>9, <1>10 DEF ReadAdvances

\* A pointer leads back in the message, to as much of the name.
LEMMA PointerAdvances == ASSUME IInv, FollowPointer PROVE ReadAdvances
  <1>1. /\ pc = "name" /\ pc' = "name" /\ cursor' = Target(Sent, cursor)
        /\ UNCHANGED <<m, part, answers>> /\ Octet >= Pointer
    BY DEF FollowPointer, Sent
  <1>2. cursor \in Offsets /\ m \in Messages /\ Octet = Sent[cursor]
    BY <1>1, AtCursor
  <1>3. cursor' < cursor /\ Text[cursor] = Text[cursor']
    BY <1>1, <1>2, NameOctet
  <1>4. NameLeft' = NameLeft
    BY <1>1, <1>3, SameMessage DEF NameLeft
  <1>5. UNCHANGED <<RecordsLeft, Stage>>
    BY <1>1, SameMessage DEF RecordsLeft, Stage
  <1> QED BY <1>3, <1>4, <1>5 DEF ReadAdvances

\* A label that is converted is left behind.
LEMMA LabelAdvances == ASSUME IInv, ConvertLabel PROVE ReadAdvances
  <1>1. /\ pc = "convert" /\ pc' = "convert" /\ pos <= Len(name)
        /\ pos' = (pos + name[pos]) + 1 /\ UNCHANGED <<m, part, answers>>
    BY DEF ConvertLabel
  <1>2. Len(name) \in Nat /\ pos \in 1..Len(name)+1 /\ name[pos] \in Nat
    BY <1>1, PosInName DEF Octets
  <1>3. Len(name') = Len(name)
    <2>1. Len(name) = Len(Spelling)
      BY <1>1 DEF IInv, ConvertInv, NameFits
    <2>2. Len(name') = Len(Spelling')
      BY <1>1, ConvertLabelKeeps DEF IInv, ConvertInv, NameFits
    <2>3. InName /\ InName' /\ UNCHANGED <<m, qname, reader, part, owner, answers>>
      BY DEF ConvertLabel, InName
    <2>4. Spelling' = Spelling
      BY <2>3, SameName
    <2> QED BY <2>1, <2>2, <2>4
  <1>4. NameLeft = (Len(name) + 1) - pos /\ NameLeft' = (Len(name) + 1) - pos'
    BY <1>1, <1>3 DEF NameLeft
  <1>5. NameLeft' < NameLeft
    <2> DEFINE n == Len(name)
               step == name[pos]
    <2>1. n \in Nat /\ step \in Nat /\ pos \in Nat /\ pos' = (pos + step) + 1
      BY <1>1, <1>2
    <2> HIDE DEF n, step
    <2>2. (n + 1) - pos' < (n + 1) - pos
      BY ONLY <2>1
    <2> QED BY <1>4, <2>2 DEF n
  <1>6. UNCHANGED <<RecordsLeft, Stage>>
    BY <1>1, SameMessage DEF RecordsLeft, Stage
  <1> QED BY <1>5, <1>6 DEF ReadAdvances

\* A record that is kept is one less to read.
LEMMA KeepAdvances ==
  ASSUME IInv, UNCHANGED m, NEW rdata, NEW type, Keep(rdata, type)
  PROVE  ReadAdvances
  <1>1. Len(answers') = Len(answers) + 1 /\ Len(answers) \in Nat
    <2>1. answers \in Seq(ResourceRecords)
      BY DEF IInv, TypeOK
    <2> DEFINE r == [name |-> owner, type |-> type, rdata |-> rdata]
    <2>2. answers' = Append(answers, r)
      BY DEF Keep
    <2> HIDE DEF r
    <2> QED BY <2>1, <2>2
  <1>2. Records \in Nat /\ Records' = Records
    BY RecordsBounds, SameMessage DEF IInv
  <1>3. RecordsLeft' < RecordsLeft
    BY <1>1, <1>2 DEF RecordsLeft
  <1> QED BY <1>3 DEF ReadAdvances

\* Every step lessens what is left.
LEMMA Advances == IInv /\ [Next]_vars => [ReadAdvances]_vars
  <1> SUFFICES ASSUME IInv, Next PROVE ReadAdvances
    OBVIOUS
  <1>1. CASE Query \/ ReadRecord \/ EndOfAnswer
    <2>1. UNCHANGED <<m, answers>> /\ Stage' < Stage
      BY <1>1 DEF Query, ReadRecord, EndOfAnswer, StartName, Stage
    <2> QED BY <2>1, SameMessage DEF ReadAdvances, RecordsLeft
  <1>a. CASE Spill
    <2>1. pc = "name" /\ pc' = "spilled" /\ UNCHANGED <<m, answers>>
      BY <1>a DEF Spill
    <2>2. UNCHANGED RecordsLeft /\ Stage' < Stage
      BY <2>1, SameMessage DEF RecordsLeft, Stage
    <2> QED BY <2>2 DEF ReadAdvances
  <1>2. CASE EndName
    <2>1. pc = "name" /\ pc' = "convert" /\ UNCHANGED <<m, part, answers>>
      BY <1>2 DEF EndName
    <2>2. UNCHANGED RecordsLeft /\ Stage' < Stage
      BY <2>1, SameMessage DEF RecordsLeft, Stage
    <2> QED BY <2>2 DEF ReadAdvances
  <1>3. CASE KeepOwner
    <2>1. pc = "convert" /\ pc' = "resource" /\ part = "owner" /\ UNCHANGED <<m, answers>>
      BY <1>3 DEF KeepOwner, Converted
    <2>2. UNCHANGED RecordsLeft /\ Stage' < Stage
      BY <2>1, SameMessage DEF RecordsLeft, Stage
    <2> QED BY <2>2 DEF ReadAdvances
  <1>4. CASE ReadOther
    <2>1. pc = "resource" /\ pc' = "name" /\ part' = "rdata" /\ UNCHANGED <<m, answers>>
      BY <1>4 DEF ReadOther, StartName
    <2>2. UNCHANGED RecordsLeft /\ Stage' < Stage
      BY <2>1, SameMessage DEF RecordsLeft, Stage
    <2> QED BY <2>2 DEF ReadAdvances
  <1>5. CASE ReadAddress \/ KeepName
    <2>1. UNCHANGED m /\ \E rdata, type : Keep(rdata, type)
      BY <1>5 DEF ReadAddress, KeepName
    <2> QED BY <2>1, KeepAdvances
  <1> QED
    BY <1>1, <1>a, <1>2, <1>3, <1>4, <1>5, OctetAdvances, PointerAdvances, LabelAdvances
       DEF Next, ReadName

\* Reading an answer ends, however long it is and however its names are compressed: every
\* step lessens the records left, or keeps them and lessens what is left of the record,
\* or keeps both and lessens the octets left of a name, or keeps all three and follows a
\* pointer backwards; nothing is left of a record only when all have been read, or a name did not fit
\* (dnsquery.cc:426-549). ReadEnds rests on this and on the loops running on.
THEOREM ReadIsShort ==
  Spec => /\ []WorkIsNat
          /\ [](Stage = 0 <=> pc \in {"done", "spilled"})
          /\ [][ReadAdvances]_vars
  <1>1. IInv => (Stage = 0 <=> pc \in {"done", "spilled"})
    BY DEF Stage, IInv, TypeOK
  <1> QED BY <1>1, WorkBounded, Advances, InvInit, InvStep, PTL DEF Spec
=============================================================================
