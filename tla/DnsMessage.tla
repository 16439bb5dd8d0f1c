------------------------------ MODULE DnsMessage ------------------------------
(* The DNS codec of dnsquery/dnsquery.cc, of which the other two resolvers  *)
(* hold copies: a host name is put into the question of a query, and the     *)
(* records of the answer are read octet by octet. A name in a message is a   *)
(* row of labels, each after its length, up to a 0 or to a pointer, two      *)
(* octets from 192 on, to where the rest of the name has been written.       *)
EXTENDS Naturals, Sequences

CONSTANTS
  Messages,            \* the answers a DNS server gives, see WellFormed
  MaxIp,               \* SOCKET_MAX_IP_COUNT, the records read
  InitSize, Increment  \* what ReadName allocates, and adds to it

HeaderSize == 12    \* sizeof(struct DNS_HEADER)
QuestionSize == 4   \* sizeof(struct QUESTION)
ResourceSize == 10  \* sizeof(struct R_DATA)
Pointer == 192
Dot == 46
A == 1
AAAA == 28

ResourceRecords == [name : Seq(1..Pointer-1), type : 0..256*256-1, rdata : Seq(0..255)]

Smaller(a, b) == IF a < b THEN a ELSE b
U16(octets, o) == 256 * octets[o] + octets[o + 1]  \* ntohs
Target(octets, o) == U16(octets, o) - 256 * Pointer

\* A message says what it means, so that the reading can be compared with it:
\* names are the offsets at which a name or a tail of one is written, text what
\* is spelled there without pointers and final 0, extent the octets it takes. A
\* pointer leads to what was written before it.
Spelled(m) ==
  \A o \in m.names :
    \/ m.octets[o] = 0 /\ m.text[o] = <<>> /\ m.extent[o] = 1
    \/ /\ m.octets[o] \in 1..Pointer-1 /\ o + 1 \in m.names
       /\ m.text[o] = <<m.octets[o]>> \o m.text[o + 1]
       /\ m.extent[o] = m.extent[o + 1] + 1
    \/ /\ m.octets[o] \in Pointer..255 /\ o + 1 \in DOMAIN m.octets
       /\ LET target == Target(m.octets, o) IN
          /\ target \in m.names /\ target < o
          /\ m.text[o] = m.text[target] /\ m.extent[o] = 2

\* host is what the labels spell with dots between them.
LabelsOf(labels, spelled) ==
  /\ 1 \in labels
  /\ \A k \in labels :
       LET next == k + spelled[k] + 1 IN
       /\ next \in labels \cup {Len(spelled) + 1}
       /\ \A j \in labels : j <= k \/ j >= next
Dotted(spelled, labels) ==
  [k \in 1..Len(spelled)-1 |-> IF k + 1 \in labels THEN Dot ELSE spelled[k + 1]]
Names(host, spelled) ==
  \E labels \in SUBSET (1..Len(spelled)) :
    LabelsOf(labels, spelled) /\ host = Dotted(spelled, labels)

\* The k-th record begins where the one before it ends.
RecordAt(m, k) ==
  LET owner == m.begins[k]
      resource == owner + m.extent[owner]
      rdata == resource + ResourceSize
      length == U16(m.octets, resource + 8)
      record == m.records[k]
  IN /\ owner \in m.names /\ resource .. rdata - 1 \subseteq DOMAIN m.octets
     /\ Names(record.name, m.text[owner])
     /\ record.type = U16(m.octets, resource)
     /\ IF record.type = m.qtype
        THEN /\ rdata .. rdata + length - 1 \subseteq DOMAIN m.octets
             /\ record.rdata = [j \in 1..length |-> m.octets[rdata + j - 1]]
        ELSE /\ rdata \in m.names /\ length = m.extent[rdata]
             /\ Names(record.rdata, m.text[rdata])
     /\ m.begins[k + 1] = rdata + length

Shaped(m) ==
  /\ m.last \in Nat /\ m.octets \in [0..m.last -> 0..255]
  /\ m.names \subseteq 0..m.last
  /\ m.text \in [m.names -> Seq(1..Pointer-1)] /\ m.extent \in [m.names -> Nat \ {0}]
  /\ m.qtype \in {A, AAAA} /\ m.host \in Seq(1..Pointer-1)
  /\ m.records \in Seq(ResourceRecords)
  /\ m.begins \in [1..Len(m.records)+1 -> Nat]

\* The question is for m.host, which may end in a dot; no label has a dot in it.
AsksFor(m, question) ==
  \E labels \in SUBSET (1..Len(question)) :
    /\ LabelsOf(labels, question)
    /\ \A k \in (1..Len(question)) \ labels : question[k] # Dot
    /\ \E dot \in {<<>>, <<Dot>>} : m.host = Dotted(question, labels) \o dot

\* m is an answer with records.
WellFormed(m) ==
  /\ Shaped(m)
  /\ Spelled(m)
  /\ HeaderSize \in m.names /\ AsksFor(m, m.text[HeaderSize])
  /\ m.begins[1] = HeaderSize + Len(m.text[HeaderSize]) + 1 + QuestionSize
  /\ \A k \in 1..Len(m.records) : RecordAt(m, k)

ASSUME MessagesAssumption == \A m \in Messages : WellFormed(m)
ASSUME MaxIpAssumption == MaxIp \in Nat
ASSUME SizesAssumption == InitSize \in Nat \ {0, 1} /\ Increment \in Nat \ {0}

VARIABLES
  m,           \* the host asked for and the message that answers
  pc, qname,   \* where the program is, the name in its query
  reader,      \* _reader of ReadRecvAnswer, as an offset
  part,        \* the name being read: a record's owner, or its rdata
  cursor,      \* _reader of ReadName
  name, pos,   \* the octets copied, and where their conversion is
  jumped, count, alloc,
  owner,       \* _answers[i].name
  answers      \* the records read

reading == <<part, cursor, name, pos, jumped, count, alloc>>
vars == <<m, pc, qname, reader, reading, owner, answers>>

Records == Smaller(MaxIp, Len(m.records))
Octet == m.octets[cursor]

TypeOK ==
  /\ pc \in {"query", "record", "name", "convert", "resource", "done", "spilled"}
  /\ qname \in Seq(Nat) /\ reader \in Nat
  /\ part \in {"owner", "rdata"} /\ cursor \in Nat
  /\ name \in Seq(1..Pointer-1) /\ pos \in Nat \ {0}
  /\ jumped \in BOOLEAN /\ count \in Nat /\ alloc \in Nat
  /\ owner \in Seq(1..Pointer-1)
  /\ answers \in Seq(ResourceRecords)

Init ==
  /\ m \in Messages
  /\ pc = "query" /\ qname = <<>> /\ reader = 0
  /\ part = "owner" /\ cursor = 0 /\ name = <<>> /\ pos = 1
  /\ jumped = FALSE /\ count = 0 /\ alloc = 0
  /\ owner = <<>> /\ answers = <<>>
-----------------------------------------------------------------------------
NextDot(h, k) == CHOOSE d \in k..Len(h) : h[d] = Dot /\ \A j \in k..d-1 : h[j] # Dot

\* Variant: no dot is put at the end of the host name.
ChangetoDnsNameFormatNoDot(host) ==
  [k \in 1..Len(host) |-> IF k = 1 \/ host[k - 1] = Dot
                          THEN (IF \E d \in k..Len(host) : host[d] = Dot
                                THEN NextDot(host, k) - k ELSE 0)
                          ELSE host[k - 1]] \o <<0>>

\* A dot is put at the end, then every dot's place is taken by the length of
\* the label after it, with one more length before the first label.
ChangetoDnsNameFormat(host) ==
  LET h == Append(host, Dot) IN
  [k \in 1..Len(h) |-> IF k = 1 \/ h[k - 1] = Dot THEN NextDot(h, k) - k ELSE h[k - 1]]
    \o <<0>>

\* The string in a buffer: what is before its first 0.
String(buffer) ==
  SubSeq(buffer, 1, (CHOOSE k \in DOMAIN buffer :
                       buffer[k] = 0 /\ \A j \in 1..k-1 : buffer[j] # 0) - 1)

\* The query is made and answered; reader is put behind the question, whose
\* length is taken from the name in the query.
Query ==
  /\ pc = "query"
  /\ qname' = String(ChangetoDnsNameFormat(m.host))
  /\ reader' = HeaderSize + Len(qname') + 1 + QuestionSize
  /\ pc' = "record"
  /\ UNCHANGED <<m, reading, owner, answers>>

StartName(what, offset) ==
  /\ part' = what /\ cursor' = offset
  /\ name' = <<>> /\ pos' = 1 /\ jumped' = FALSE /\ count' = 1 /\ alloc' = InitSize
  /\ pc' = "name"

ReadRecord ==
  /\ pc = "record" /\ Len(answers) < Records
  /\ StartName("owner", reader)
  /\ UNCHANGED <<m, qname, reader, owner, answers>>

EndOfAnswer ==
  /\ pc = "record" /\ Len(answers) = Records
  /\ pc' = "done"
  /\ UNCHANGED <<m, qname, reader, reading, owner, answers>>

\* Variant: timesForRealloc is not counted, the allocation grows once.
AdvanceGrowsOnce(jumps) ==
  /\ count' = IF jumps THEN count ELSE count + 1
  /\ alloc' = IF count' >= alloc THEN InitSize + Increment ELSE alloc

\* Variant: octets are counted after a jump, too.
AdvanceAlways(jumps) ==
  /\ count' = count + 1
  /\ alloc' = IF count' >= alloc THEN alloc + Increment ELSE alloc

\* The octets of the name in its record are counted until the first jump, and
\* the allocation grows with that count.
Advance(jumps) ==
  /\ count' = IF jumps THEN count ELSE count + 1
  /\ alloc' = IF count' >= alloc THEN alloc + Increment ELSE alloc

\* There is a place for the next octet, or for the final 0.
Room == Len(name) < alloc

\* There is none: what is written past the allocation, and what the program does from
\* there on, is undefined, and the model ends.
Spill ==
  /\ pc = "name" /\ Octet < Pointer /\ ~ Room
  /\ pc' = "spilled"
  /\ UNCHANGED <<m, qname, reader, reading, owner, answers>>

\* Variant: a pointer's first octet is copied like any other.
ReadOctetAny ==
  /\ pc = "name" /\ Octet # 0 /\ Room
  /\ name' = Append(name, Octet)
  /\ cursor' = cursor + 1
  /\ Advance(jumped)
  /\ UNCHANGED <<m, pc, qname, reader, part, pos, jumped, owner, answers>>

ReadOctet ==
  /\ pc = "name" /\ Octet \in 1..Pointer-1 /\ Room
  /\ name' = Append(name, Octet)
  /\ cursor' = cursor + 1
  /\ Advance(jumped)
  /\ UNCHANGED <<m, pc, qname, reader, part, pos, jumped, owner, answers>>

\* Variant: _reader is not set, and the pointer is read again.
FollowPointerStays ==
  /\ pc = "name" /\ Octet >= Pointer
  /\ cursor' = cursor
  /\ jumped' = TRUE
  /\ Advance(TRUE)
  /\ UNCHANGED <<m, pc, qname, reader, part, name, pos, owner, answers>>

\* A pointer is an offset from the start of the message.
FollowPointer ==
  /\ pc = "name" /\ Octet >= Pointer
  /\ cursor' = Target(m.octets, cursor)
  /\ jumped' = TRUE
  /\ Advance(TRUE)
  /\ UNCHANGED <<m, pc, qname, reader, part, name, pos, owner, answers>>

\* A pointer's second octet has not been counted yet.
EndName ==
  /\ pc = "name" /\ Octet = 0 /\ Room
  /\ count' = IF jumped THEN count + 1 ELSE count
  /\ pc' = "convert"
  /\ UNCHANGED <<m, qname, reader, part, cursor, name, pos, jumped, alloc, owner, answers>>

\* A label goes one to the left, a dot takes the place of its last octet.
ConvertLabel ==
  /\ pc = "convert" /\ pos <= Len(name)
  /\ LET dot == pos + name[pos] IN
     /\ name' = [k \in 1..Len(name) |-> CASE k \in pos..dot-1 -> name[k + 1]
                                          [] k = dot -> Dot
                                          [] OTHER -> name[k]]
     /\ pos' = dot + 1
  /\ UNCHANGED <<m, pc, qname, reader, part, cursor, jumped, count, alloc, owner, answers>>

Converted == pc = "convert" /\ pos > Len(name)
\* Variant: the last dot is left.
NameReadDotted == name

NameRead == SubSeq(name, 1, Len(name) - 1)  \* without the last dot

KeepOwner ==
  /\ Converted /\ part = "owner"
  /\ owner' = NameRead
  /\ reader' = reader + count
  /\ pc' = "resource"
  /\ UNCHANGED <<m, qname, reading, answers>>

Keep(rdata, type) ==
  answers' = Append(answers, [name |-> owner, type |-> type, rdata |-> rdata])

Type == U16(m.octets, reader)

\* ipv4 says which type was asked for and is read as data.
ReadAddress ==
  LET length == U16(m.octets, reader + 8)
      rdata == reader + ResourceSize
  IN /\ pc = "resource" /\ Type = m.qtype
     /\ Keep([j \in 1..length |-> m.octets[rdata + j - 1]], Type)
     /\ reader' = rdata + length
     /\ pc' = "record"
     /\ UNCHANGED <<m, qname, reading, owner>>

\* Any other record's rdata is read as a name, as a CNAME's is.
ReadOther ==
  /\ pc = "resource" /\ Type # m.qtype
  /\ StartName("rdata", reader + ResourceSize)
  /\ UNCHANGED <<m, qname, reader, owner, answers>>

KeepName ==
  /\ Converted /\ part = "rdata"
  /\ Keep(NameRead, Type)
  /\ reader' = reader + ResourceSize + count
  /\ pc' = "record"
  /\ UNCHANGED <<m, qname, reading, owner>>

ReadName == ReadOctet \/ Spill \/ FollowPointer \/ EndName \/ ConvertLabel

Next ==
  \/ Query
  \/ ReadRecord \/ EndOfAnswer
  \/ ReadName
  \/ KeepOwner \/ ReadAddress \/ ReadOther \/ KeepName

Spec == Init /\ [][Next]_vars

\* The loops run on.
FairSpec == Spec /\ WF_vars(Next)
-----------------------------------------------------------------------------
\* The name in the query is the one in the question that is answered, so that
\* the records are looked for where they begin (dnsquery.cc:246, 552-570).
QueryAsksForHost ==
  pc # "query" => qname = m.text[HeaderSize]

\* However the names before it were compressed, a record is read where it
\* begins: the octets counted are the octets the name takes (:513, 533).
ReadsWhereRecordBegins ==
  /\ pc = "record" => reader = m.begins[Len(answers) + 1]
  /\ pc = "resource" =>
       LET at == m.begins[Len(answers) + 1] IN reader = at + m.extent[at]

\* What ReadName allocates grows with the octets counted in the record, and a jump stops
\* the count (:513-528). It is written past only by a name with a pointer that is at
\* least as long as the first allocation: a name without one fits whatever its length.
NameFits == pc = "spilled" => jumped /\ Len(name) >= InitSize

\* The records are read as they were sent: names without length octets and
\* pointers, addresses and canonical names with the owner they belong to.
AnswersAsSent == pc = "done" => answers = SubSeq(m.records, 1, Records)

\* The reading ends: a pointer leads to what was written before it.
ReadEnds == <>(pc \in {"done", "spilled"})
=============================================================================
