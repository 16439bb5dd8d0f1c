---------------------------- MODULE MCDnsMessage ----------------------------
(* Messages as a DNS server writes them. A name is its labels in full, or    *)
(* the labels that differ and a pointer to where the rest has been written.  *)
EXTENDS DnsMessage, SequencesExt

Encoded(labels) == FoldLeft(LAMBDA s, l : s \o <<Len(l)>> \o l, <<>>, labels)
Written(labels) == FoldLeft(LAMBDA s, l : s \o <<Dot>> \o l, Head(labels), Tail(labels))

\* The labels, then the name at offset rest, 0 for none.
WriteName(message, labels, rest) ==
  LET e == Encoded(labels)
      start == Len(message.octets)
      end == IF rest = 0 THEN <<0>> ELSE <<Pointer + rest \div 256, rest % 256>>
      more == IF rest = 0 THEN <<>> ELSE message.text[rest]
      offsets == start .. start + Len(e)
  IN [message EXCEPT
       !.octets = @ \o e \o end,
       !.text = [o \in offsets |-> SubSeq(e, o - start + 1, Len(e)) \o more] @@ @,
       !.extent = [o \in offsets |-> start + Len(e) - o + Len(end)] @@ @]

\* at and labels are the name the next record is about.
WriteOwner(message, style) ==
  LET begun == [message EXCEPT !.begins = Append(@, Len(message.octets))] IN
  IF style = "full" THEN WriteName(begun, message.labels, 0)
                    ELSE WriteName(begun, <<>>, message.at)

Resource(type, length) == <<0, type, 0, 1, 0, 0, 0, 60, 0, length>>
Record(message, type, rdata) ==
  [name |-> Written(message.labels), type |-> type, rdata |-> rdata]

Address(message) ==
  LET k == Len(message.records) IN
  IF message.qtype = A THEN <<203, 0, 113, k>>
  ELSE [j \in 1..16 |-> IF j = 1 THEN 253 ELSE IF j > 12 THEN k + j ELSE 0]

WriteAddress(message, style) ==
  LET owned == WriteOwner(message, style)
      address == Address(message)
  IN [owned EXCEPT !.octets = @ \o Resource(message.qtype, Len(address)) \o address,
                   !.records = Append(@, Record(message, message.qtype, address))]

\* The canonical name differs in its first label; the rest is the question's.
WriteAlias(message, style) ==
  LET owned == WriteOwner(message, style)
      labels == [message.labels EXCEPT ![1] = Append(@, 120)]
      rest == IF style = "full" \/ Len(labels) = 1 THEN 0
              ELSE HeaderSize + 1 + Len(message.first)
      at == Len(owned.octets) + ResourceSize
      length == IF rest = 0 THEN Len(Encoded(labels)) + 1 ELSE Len(labels[1]) + 3
      headed == [owned EXCEPT !.octets = @ \o Resource(5, length)]
      named == WriteName(headed, IF rest = 0 THEN labels ELSE <<labels[1]>>, rest)
  IN [named EXCEPT !.records = Append(@, Record(message, 5, Written(labels))),
                   !.at = at, !.labels = labels]

Asked(labels, dot, qtype) ==
  LET blank == [octets |-> [j \in 1..HeaderSize |-> 0], text |-> <<>>, extent |-> <<>>,
                qtype |-> qtype, host |-> Written(labels) \o dot, labels |-> labels,
                first |-> labels[1], at |-> HeaderSize, begins |-> <<>>, records |-> <<>>]
      named == WriteName(blank, labels, 0)
  IN [named EXCEPT !.octets = @ \o <<0, qtype, 0, 1>>]

Answered(labels, dot, qtype, kinds) ==
  LET w == FoldLeft(LAMBDA w, k : IF k[1] = "alias" THEN WriteAlias(w, k[2])
                                                    ELSE WriteAddress(w, k[2]),
                    Asked(labels, dot, qtype), kinds)
  IN [octets |-> [o \in 0..Len(w.octets)-1 |-> w.octets[o + 1]],
      last |-> Len(w.octets) - 1, names |-> DOMAIN w.text, text |-> w.text, extent |-> w.extent,
      qtype |-> qtype, host |-> w.host, records |-> w.records,
      begins |-> Append(w.begins, Len(w.octets))]

Kinds == {"alias", "address"} \X {"full", "pointer"}
Names3 == {<<<<97>>>>, <<<<97, 98>>, <<99>>>>, <<<<97>>, <<98>>, <<99>>>>}

ShortAnswers ==
  {Answered(labels, dot, qtype, kinds) :
     labels \in Names3, dot \in {<<>>, <<Dot>>}, qtype \in {A, AAAA},
     kinds \in UNION {[1..n -> Kinds] : n \in 0..2}}
  \cup {Answered(labels, <<>>, AAAA, kinds) :
          labels \in Names3, kinds \in [1..3 -> Kinds]}
=============================================================================
