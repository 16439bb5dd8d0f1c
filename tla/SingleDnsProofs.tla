--------------------------- MODULE SingleDnsProofs ---------------------------
(* SingleDns for every number of calls, tries and slots, every set of        *)
(* networks and hosts: its types, that a lookup that succeeds where all       *)
(* resolvers are DNS64 servers lists addresses of its own host, and how many *)
(* steps a lookup can take.                                                  *)
EXTENDS SingleDns, Nat64Proofs

Records == [aliases : 0..1, addresses : Seq(Ipv6)]

\* A network's prefix makes IPv6 addresses of IPv4 addresses.
LEMMA SyntheticType ==
  ASSUME NEW n \in Nets, NEW a \in Ipv4
  PROVE  Synthetic(n, a) \in Ipv6
  BY NetsAssumption, AddressTypes DEF Synthetic

\* An answer is records.
LEMMA AnswerType ==
  ASSUME NEW n \in Nets, v4 \in Hosts
  PROVE  Answers(n) \subseteq Records
  <1> DEFINE hosts == IF kind = "ipv4" THEN WellKnown ELSE {v4}
             made == {Synthetic(n, a) : a \in hosts}
             addresses == UNION {[1..k -> made] : k \in 1..MaxIp}
  <1>1. made \subseteq Ipv6
    BY WellKnownIsIpv4, HostsAssumption, SyntheticType
  <1> HIDE DEF made
  <1>2. addresses \subseteq Seq(Ipv6)
    BY <1>1, MaxIpAssumption
  <1>3. [1..1 -> Foreign] \subseteq Seq(Ipv6)
    <2> SUFFICES ASSUME NEW f \in [1..1 -> Foreign] PROVE f \in Seq(Ipv6)
      OBVIOUS
    <2>1. f \in [1..1 -> Ipv6]
      BY ForeignAssumption
    <2>2. \A k \in Nat : [1..k -> Ipv6] \subseteq Seq(Ipv6)
      OBVIOUS
    <2> QED BY <2>1, <2>2
  <1>4. Nothing \in Records
    BY DEF Nothing, Records
  <1>5. Answers(n) = {Nothing} \cup [aliases : 0..1, addresses : addresses]
                       \cup [aliases : {0}, addresses : [1..1 -> Foreign]]
    BY DEF Answers, made
  <1> HIDE DEF addresses
  <1> QED BY <1>2, <1>3, <1>4, <1>5 DEF Records

\* What is stored fits the list, and is part of the answer.
LEMMA StoredFits ==
  ASSUME answer \in Records
  PROVE  Stored \in 0..MaxIp /\ Stored <= Len(answer.addresses)
  <1>1. answer.aliases \in 0..1 /\ Len(answer.addresses) \in Nat
    BY DEF Records
  <1> QED BY <1>1, MaxIpAssumption DEF Stored

\* The initial states have the types of TypeOK.
LEMMA TypeInit == Init => TypeOK
  <1> SUFFICES ASSUME Init PROVE TypeOK
    OBVIOUS
  <1>1. [i \in 0..MaxIp-1 |-> [o \in 0..15 |-> 0]] \in [0..MaxIp-1 -> Ipv6]
    BY DEF Ipv6, Byte
  <1>2. Nothing \in Records
    BY DEF Nothing, Records
  <1> QED
    BY <1>1, <1>2, MaxCallsAssumption, TriesAssumption DEF Init, TypeOK, Records

\* Every step keeps the types.
LEMMA TypeStep == TypeOK /\ [Next]_vars => TypeOK'
  <1> SUFFICES ASSUME TypeOK, [Next]_vars PROVE TypeOK'
    OBVIOUS
  <1> USE DEF TypeOK
  <1>1. ASSUME NEW k \in {"name", "ipv4"}, NEW a \in Hosts, EnterCall(k, a)
        PROVE  TypeOK'
    BY <1>1, MaxCallsAssumption DEF EnterCall, list
  <1>2. ASSUME NEW ok \in Opened, OpenSocket(ok) PROVE TypeOK'
    <2>1. Nothing \in Records
      BY DEF Nothing, Records
    <2> QED BY <1>2, <2>1, TriesAssumption DEF OpenSocket, list, host, Return, Records
  <1>3. CASE Send
    BY <1>3 DEF Send, list, host
  <1>4. CASE SendFails
    BY <1>4 DEF SendFails, list, host
  <1>5. CASE Receive
    <2>1. PICK n \in asked : answer' \in Answers(n)
      BY <1>5 DEF Receive
    <2>2. answer' \in Records
      BY <2>1, AnswerType
    <2> QED BY <1>5, <2>2 DEF Receive, list, host, Records
  <1>6. CASE Timeout
    BY <1>6, TriesAssumption DEF Timeout, list, host
  <1>7. CASE ReadAnswer
    <2>1. Stored \in 0..MaxIp /\ Stored <= Len(answer.addresses)
      BY StoredFits DEF Records
    <2>2. answer.addresses \in Seq(Ipv6)
      OBVIOUS
    <2>3. \A i \in 0..MaxIp-1 : i < Stored => answer.addresses[i + 1] \in Ipv6
      BY <2>1, <2>2, MaxIpAssumption
    <2>4. v6_addr' \in [0..MaxIp-1 -> Ipv6]
      BY <1>7, <2>3 DEF ReadAnswer
    <2> QED BY <1>7, <2>1, <2>4 DEF ReadAnswer, host, Return
  <1>8. CASE EmbedIpv4
    <2>1. ReplaceNat64WithV4IP(v6_addr[0], v4) \in Ipv6
      BY MaxIpAssumption, HostsAssumption, AddressTypes
    <2>2. v6_addr' = [v6_addr EXCEPT ![0] = ReplaceNat64WithV4IP(v6_addr[0], v4)]
      BY <1>8 DEF EmbedIpv4, IsNat64AddrValid
    <2>3. v6_addr' \in [0..MaxIp-1 -> Ipv6]
      BY <2>1, <2>2
    <2> QED BY <1>8, <2>3, MaxIpAssumption DEF EmbedIpv4, IsNat64AddrValid, host, Return
  <1>9. CASE Roam
    BY <1>9 DEF Roam, list, host
  <1>10. CASE UNCHANGED vars
    BY <1>10 DEF vars, list, host
  <1> QED
    BY <1>1, <1>2, <1>3, <1>4, <1>5, <1>6, <1>7, <1>8, <1>9, <1>10 DEF Next, Lookup

\* The lookup's variables keep their types (258-373 of dns64_query_c/dnsquery.c):
\* what is copied to the list never exceeds its slots.
THEOREM TypeCorrect == Spec => []TypeOK
  BY TypeInit, TypeStep, PTL DEF Spec
-----------------------------------------------------------------------------
(* Where every resolver is a DNS64 server, SuccessIsOfThisHost and           *)
(* ListIsOfThisHost follow from where the answer and the head of the list    *)
(* come from on the way.                                                     *)
HostInv ==
  /\ pc \in {"send", "wait"} => answer = Nothing
  /\ pc = "read" => answer = Nothing \/ \E n \in asked : answer \in Answers(n)
  /\ pc = "embed" => /\ kind = "ipv4"
                     /\ \E n \in asked, w \in WellKnown : v6_addr[0] = Synthetic(n, w)
  /\ SuccessIsOfThisHost
  /\ ListIsOfThisHost

\* Without foreign resolvers, the addresses of an answer of n are made in its
\* prefix of the well-known addresses or of the host's.
LEMMA AnswerMade ==
  ASSUME Foreign = {}, answer \in Records, answer # Nothing,
         NEW n, answer \in Answers(n)
  PROVE  \A i \in 1..Len(answer.addresses) :
           IF kind = "ipv4" THEN \E w \in WellKnown : answer.addresses[i] = Synthetic(n, w)
           ELSE answer.addresses[i] = Synthetic(n, v4)
  <1> DEFINE hosts == IF kind = "ipv4" THEN WellKnown ELSE {v4}
             made == {Synthetic(n, a) : a \in hosts}
             addresses == UNION {[1..k -> made] : k \in 1..MaxIp}
  <1>1. Answers(n) = {Nothing} \cup [aliases : 0..1, addresses : addresses]
                       \cup [aliases : {0}, addresses : [1..1 -> Foreign]]
    BY DEF Answers
  <1>2. [1..1 -> Foreign] = {}
    <2>1. ASSUME NEW f \in [1..1 -> Foreign] PROVE FALSE
      <3>1. f[1] \in Foreign
        OBVIOUS
      <3> QED BY <3>1
    <2> QED BY <2>1
  <1> HIDE DEF made
  <1>3. PICK k \in 1..MaxIp : answer.addresses \in [1..k -> made]
    BY <1>1, <1>2
  <1>4. Len(answer.addresses) = k
    BY <1>3, MaxIpAssumption DEF Records
  <1>5. ASSUME NEW i \in 1..Len(answer.addresses) PROVE answer.addresses[i] \in made
    BY <1>3, <1>4, <1>5
  <1> QED BY <1>5 DEF made

\* The initial states satisfy HostInv.
LEMMA HostInit == Init => HostInv
  BY DEF Init, HostInv, SuccessIsOfThisHost, ListIsOfThisHost

\* A lookup reads answers of its own try, stores addresses of one network, and
\* puts the literal where a well-known address was.
LEMMA HostStep ==
  ASSUME Foreign = {}
  PROVE  TypeOK /\ HostInv /\ [Next]_vars => HostInv'
  <1> SUFFICES ASSUME TypeOK, HostInv, [Next]_vars PROVE HostInv'
    OBVIOUS
  <1> USE DEF HostInv, SuccessIsOfThisHost, ListIsOfThisHost
  <1>1. ASSUME NEW k \in {"name", "ipv4"}, NEW a \in Hosts, EnterCall(k, a)
        PROVE  HostInv'
    BY <1>1 DEF EnterCall
  <1>2. ASSUME NEW ok \in Opened, OpenSocket(ok) PROVE HostInv'
    BY <1>2 DEF OpenSocket, Return
  <1>3. CASE Send
    BY <1>3 DEF Send
  <1>4. CASE SendFails
    BY <1>4 DEF SendFails
  <1>5. CASE Receive
    <2>1. PICK n \in asked : answer' \in Answers(n)
      BY <1>5 DEF Receive
    <2>2. Answers(n)' = Answers(n) /\ asked' = asked
      BY <1>5 DEF Receive, host, Answers, Synthetic
    <2> QED BY <1>5, <2>1, <2>2 DEF Receive
  <1>6. CASE Timeout
    BY <1>6 DEF Timeout
  <1>7. CASE ReadAnswer
    <2>1. answer \in Records
      BY DEF TypeOK, Records
    <2>2. Stored \in 0..MaxIp /\ Stored <= Len(answer.addresses)
      BY <2>1, StoredFits
    <2>3. CASE Stored = 0
      BY <1>7, <2>3 DEF ReadAnswer, Return
    <2>4. CASE Stored # 0
      <3>1. answer # Nothing
        <4>1. Nothing.aliases = 0 /\ Len(Nothing.addresses) = 0
          BY DEF Nothing
        <4> QED BY <2>2, <2>4, <4>1
      <3>2. PICK n \in asked : answer \in Answers(n)
        BY <1>7, <3>1 DEF ReadAnswer
      <3>3. \A i \in 0..MaxIp-1 : i < Stored =>
              i + 1 \in 1..Len(answer.addresses) /\ v6_addr'[i] = answer.addresses[i + 1]
        BY <1>7, <2>1, <2>2, MaxIpAssumption DEF ReadAnswer, Records
      <3>4. 0 \in 0..MaxIp-1 /\ 0 < Stored
        BY <2>2, <2>4, MaxIpAssumption
      <3>5. asked' = asked /\ kind' = kind /\ v4' = v4 /\ size' = Stored
        BY <1>7 DEF ReadAnswer, host
      <3>6. CASE kind = "ipv4"
        <4>1. \E w \in WellKnown : v6_addr'[0] = Synthetic(n, w)
          BY <2>1, <3>1, <3>2, <3>3, <3>4, <3>6, AnswerMade
        <4>2. pc' = "embed"
          BY <1>7, <2>4, <3>6 DEF ReadAnswer
        <4> QED BY <3>5, <3>6, <4>1, <4>2
      <3>7. CASE kind # "ipv4"
        <4>1. \A i \in 0..MaxIp-1 : i < Stored => v6_addr'[i] = Synthetic(n, v4)
          BY <2>1, <3>1, <3>2, <3>3, <3>7, AnswerMade
        <4>2. pc' = "idle"
          BY <1>7, <2>4, <3>7 DEF ReadAnswer, Return
        <4>3. OfThisHost'
          BY <3>5, <4>1 DEF OfThisHost, Listed, Synthetic
        <4> QED BY <3>4, <3>5, <4>2, <4>3
      <3> QED BY <3>6, <3>7
    <2> QED BY <2>3, <2>4
  <1>8. CASE EmbedIpv4
    <2>1. PICK n \in asked, w \in WellKnown : v6_addr[0] = Synthetic(n, w)
      BY <1>8 DEF EmbedIpv4
    <2>2. n.length \in PrefixLengths
      BY NetsAssumption DEF TypeOK
    <2>3. ReplaceNat64WithV4IP(v6_addr[0], v4) = Synthetic(n, v4)
      BY <2>1, <2>2, ReplaceIsTranslation DEF Synthetic
    <2>4. v6_addr'[0] = Synthetic(n, v4)
      <3>1. v6_addr' = [v6_addr EXCEPT ![0] = ReplaceNat64WithV4IP(v6_addr[0], v4)]
        BY <1>8 DEF EmbedIpv4, IsNat64AddrValid
      <3> QED BY <2>3, <3>1, MaxIpAssumption DEF TypeOK
    <2>5. pc' = "idle" /\ size' = 1 /\ asked' = asked /\ v4' = v4
      BY <1>8 DEF EmbedIpv4, IsNat64AddrValid, Return, host
    <2>6. OfThisHost'
      BY <2>4, <2>5 DEF OfThisHost, Listed, Synthetic
    <2> QED BY <2>5, <2>6
  <1>9. ASSUME UNCHANGED <<pc, call, host, try, asked, answer, list, ret>> PROVE HostInv'
    <2>1. UNCHANGED <<pc, kind, v4, asked, answer, v6_addr, size, ret>>
      BY <1>9 DEF host, list
    <2>2. OfThisHost' = OfThisHost
      BY <2>1 DEF OfThisHost, Listed, Synthetic
    <2>3. \A n : Answers(n)' = Answers(n)
      BY <2>1 DEF Answers, Synthetic
    <2>4. pc' = "read" => answer' = Nothing \/ \E n \in asked' : answer' \in Answers(n)'
      BY <2>1, <2>3
    <2>5. pc' = "embed" => /\ kind' = "ipv4"
                           /\ \E n \in asked', w \in WellKnown : v6_addr'[0] = Synthetic(n, w)
      BY <2>1
    <2>6. SuccessIsOfThisHost' /\ ListIsOfThisHost'
      BY <2>1, <2>2
    <2> QED BY <2>1, <2>4, <2>5, <2>6 DEF Synthetic
  <1>10. CASE Roam
    BY <1>9, <1>10 DEF Roam
  <1>11. CASE UNCHANGED vars
    BY <1>9, <1>11 DEF vars
  <1> QED
    BY <1>1, <1>2, <1>3, <1>4, <1>5, <1>6, <1>7, <1>8, <1>10, <1>11 DEF Next, Lookup

\* A lookup that says 0 in networks with DNS64 servers lists addresses of its
\* own host in one network's prefix, a literal's being what the translator of
\* ipv6测试 makes (SuccessIsOfThisHost; 258-283, 345-359).
THEOREM SuccessIsRight ==
  ASSUME Foreign = {}
  PROVE  Spec => []SuccessIsOfThisHost
  <1>1. TypeOK /\ HostInv => SuccessIsOfThisHost
    BY DEF HostInv
  <1> QED
    BY <1>1, TypeInit, TypeStep, HostInit, HostStep, PTL DEF Spec

\* Whatever a call returns, if it has sent a query nothing is in the list but addresses
\* of its own host: nothing of the calls before it, no well-known address and not two
\* networks' prefixes (ListIsOfThisHost; 258-283, 340-373).
THEOREM ListIsRight ==
  ASSUME Foreign = {}
  PROVE  Spec => []ListIsOfThisHost
  <1>1. TypeOK /\ HostInv => ListIsOfThisHost
    BY DEF HostInv
  <1> QED
    BY <1>1, TypeInit, TypeStep, HostInit, HostStep, PTL DEF Spec
-----------------------------------------------------------------------------
(* A call ends whatever is lost: every one of its steps brings it nearer.    *)

\* How many steps a call has at most before it: two per try, three besides.
StepsLeft ==
  CASE pc = "idle"  -> 0
    [] pc = "open"  -> 2 * Tries + 3
    [] pc = "send"  -> 2 * (Tries - try) + 2
    [] pc = "wait"  -> 2 * (Tries - try) + 1
    [] pc = "read"  -> 2
    [] pc = "embed" -> 1

LongestCall == 2 * Tries + 3

\* A step within a call is one of the program's and leaves fewer to it, or the machine
\* moves to another network, which costs the call nothing.
StepAdvances ==
  pc # "idle" => \/ StepsLeft' < StepsLeft /\ call' = call
                 \/ UNCHANGED <<StepsLeft, pc, call>> /\ net' # net

\* A call that is over has said how it ended.
OverMeansReturned == pc = "idle" /\ call > 0 => ret # "none"

\* What is left is a natural number, nothing only between the calls.
LEMMA StepsBounded ==
  ASSUME TypeOK
  PROVE  StepsLeft \in 0..LongestCall /\ (StepsLeft = 0 <=> pc = "idle")
  <1>1. try \in 0..Tries-1 /\ Tries \in Nat \ {0}
    BY TriesAssumption DEF TypeOK
  <1>2. CASE pc \in {"idle", "open"}
    BY <1>1, <1>2 DEF StepsLeft, LongestCall
  <1>3. CASE pc \in {"send", "wait"}
    BY <1>1, <1>3 DEF StepsLeft, LongestCall
  <1>4. CASE pc \in {"read", "embed"}
    BY <1>1, <1>4 DEF StepsLeft, LongestCall
  <1> QED BY <1>2, <1>3, <1>4 DEF TypeOK

\* Every step of a call leaves fewer.
LEMMA Advances == TypeOK /\ [Next]_vars => [StepAdvances]_vars
  <1> SUFFICES ASSUME TypeOK, Next, pc # "idle" PROVE StepAdvances
    BY DEF StepAdvances
  <1>1. try \in 0..Tries-1 /\ Tries \in Nat \ {0}
    BY TriesAssumption DEF TypeOK
  <1>2. ASSUME NEW ok \in Opened, OpenSocket(ok) PROVE StepAdvances
    BY <1>1, <1>2 DEF OpenSocket, Return, StepAdvances, StepsLeft
  <1>3. CASE Send
    BY <1>1, <1>3 DEF Send, StepAdvances, StepsLeft
  <1>4. CASE SendFails
    BY <1>1, <1>4 DEF SendFails, StepAdvances, StepsLeft
  <1>5. CASE Receive
    BY <1>1, <1>5 DEF Receive, StepAdvances, StepsLeft
  <1>6. CASE Timeout
    <2>1. pc = "wait" /\ call' = call
      BY <1>6 DEF Timeout
    <2>2. CASE try + 1 < Tries
      BY <1>1, <1>6, <2>1, <2>2 DEF Timeout, StepAdvances, StepsLeft
    <2>3. CASE ~ try + 1 < Tries
      BY <1>1, <1>6, <2>1, <2>3 DEF Timeout, StepAdvances, StepsLeft
    <2> QED BY <2>2, <2>3
  <1>7. CASE ReadAnswer
    <2>1. pc = "read" /\ pc' \in {"idle", "embed"} /\ call' = call
      BY <1>7 DEF ReadAnswer, Return
    <2> QED BY <2>1 DEF StepAdvances, StepsLeft
  <1>8. CASE EmbedIpv4
    <2>1. pc = "embed" /\ pc' = "idle" /\ call' = call
      BY <1>8 DEF EmbedIpv4, Return
    <2> QED BY <2>1 DEF StepAdvances, StepsLeft
  <1>9. CASE Roam
    BY <1>9 DEF Roam, StepAdvances, StepsLeft
  <1>10. ASSUME NEW k, NEW a, EnterCall(k, a) PROVE FALSE
    BY <1>10 DEF EnterCall
  <1> QED
    BY <1>2, <1>3, <1>4, <1>5, <1>6, <1>7, <1>8, <1>9, <1>10 DEF Next, Lookup

\* Only a call that begins takes back what the last one said.
LEMMA ReturnedStep == OverMeansReturned /\ [Next]_vars => OverMeansReturned'
  <1> SUFFICES ASSUME OverMeansReturned, [Next]_vars PROVE OverMeansReturned'
    OBVIOUS
  <1> USE DEF OverMeansReturned
  <1>1. ASSUME NEW k, NEW a, EnterCall(k, a) PROVE OverMeansReturned'
    BY <1>1 DEF EnterCall
  <1>2. ASSUME NEW ok, OpenSocket(ok) PROVE OverMeansReturned'
    BY <1>2 DEF OpenSocket, Return
  <1>3. CASE Send \/ SendFails \/ Receive \/ Timeout
    BY <1>3 DEF Send, SendFails, Receive, Timeout
  <1>4. CASE ReadAnswer \/ EmbedIpv4
    BY <1>4 DEF ReadAnswer, EmbedIpv4, Return
  <1>5. CASE Roam \/ UNCHANGED vars
    BY <1>5 DEF Roam, vars
  <1> QED
    BY <1>1, <1>2, <1>3, <1>4, <1>5 DEF Next, Lookup

\* Whatever queries and answers are lost and wherever the machine moves, a call makes at
\* most 2 * Tries + 3 steps of its own, each of which leaves fewer, and when none is left
\* it has returned 0 or -1 (262-283, 300-327): what CallReturns rests on beside the
\* fairness of the program.
THEOREM CallIsShort ==
  Spec => /\ [](StepsLeft \in 0..LongestCall /\ (StepsLeft = 0 <=> pc = "idle"))
          /\ []OverMeansReturned
          /\ [][StepAdvances]_vars
  <1>1. Init => OverMeansReturned
    BY DEF Init, OverMeansReturned
  <1> QED
    BY <1>1, TypeInit, TypeStep, StepsBounded, Advances, ReturnedStep, PTL DEF Spec
=============================================================================
