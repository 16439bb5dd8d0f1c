------------------------- MODULE NetFamilyDnsProofs -------------------------
(* Proofs about NetFamilyDns, for every set of hosts and addresses, every    *)
(* number of calls and tries, every limit of descriptors, and a machine that *)
(* moves from network to network at any time: its invariants, and how many   *)
(* steps a call can take.                                                    *)
EXTENDS NetFamilyDns, TLAPS

\* The descriptors that are left open: two of every call, or as many as its tests
\* have opened so far, and its socket. The tests are made nowhere else.
Tested == CASE test = "IPv4" -> 0 [] test = "IPv6" -> 1 [] OTHER -> 2
LeakInv ==
  /\ pc = "idle" => fds <= 2 * call
  /\ pc = "check" => call > 0 /\ fds <= 2 * (call - 1) + Tested
  /\ pc = "open" => fds <= 2 * call
  /\ pc \in {"send", "wait", "store"} => fds > 0 /\ fds <= 2 * call + 1
  /\ pc = "exited" /\ ~ refused => 2 * call >= MaxFds
  /\ pc # "check" => test = "off"

\* A family is taken for missing only where it is missing, unless a test was refused
\* its socket or the descriptors are used up, and then the call will not open its own.
UsedUp == fds = MaxFds
FamilyInv ==
  /\ pc = "check" /\ test # "off" => net_family = "None"
  /\ steady /\ ~ refused /\ ~ UsedUp =>
       /\ pc = "check" /\ test \in {"IPv6", "set"} => (have_ipv4 <=> "IPv4" \in net)
       /\ pc = "check" /\ test = "set" => (have_ipv6 <=> "IPv6" \in net)
       /\ pc = "check" /\ test = "off" => (net_family = "IPv6" <=> net = {"IPv6"})
       /\ pc = "open" /\ how = "any" /\ net # {} => Family \in net

\* The answer is one to this call's question.
AnswerInv ==
  pc \in {"send", "wait", "store"} =>
    \A i \in 1..Len(answer.addresses) : answer.addresses[i] \in Addresses(host)

\* The inductive invariant.
IInv ==
  /\ TypeOK
  /\ LeakInv
  /\ FamilyInv
  /\ AnswerInv
  /\ ReachableIsAsked
  /\ Ipv6ListIsOfThisHost

\* What an answer may hold, every list of it may hold.
LEMMA AddressesKnown ==
  ASSUME host \in Hosts PROVE Addresses(host) \subseteq AnyAddress
  BY DEF Addresses, AnyAddress

\* The list has no more places than the array and no more than the answer.
LEMMA StoredBounds ==
  ASSUME TypeOK
  PROVE  /\ Stored \in 0..MaxIp
         /\ Stored <= Len(answer.addresses)
         /\ Len(answer.addresses) \in Nat
  <1>1. answer.aliases \in 0..1 /\ Len(answer.addresses) \in Nat
    BY DEF TypeOK
  <1> QED BY <1>1, MaxIpAssumption DEF Stored

\* Storing an answer writes addresses to the arrays, whole ones in the IPv6 array.
LEMMA StoreWrites ==
  ASSUME TypeOK, AnswerInv, pc = "store", Store
  PROVE  /\ v4_addr' \in [Slots -> Ipv4 \cup {NoAddress}]
         /\ v6_addr' \in [Slots -> AnyAddress \cup {NoAddress}]
         /\ ~ ipv4 => \A i \in Slots : i < Stored => v6_addr'[i] \in AAAA[host]
  <1>1. ASSUME NEW i \in Slots, i < Stored
        PROVE  /\ answer.addresses[i + 1] \in Addresses(host)
               /\ answer.addresses[i + 1] \in AnyAddress
    <2>1. i + 1 \in 1..Len(answer.addresses)
      BY <1>1, StoredBounds, MaxIpAssumption DEF Slots
    <2> QED BY <2>1, AddressesKnown DEF AnswerInv, TypeOK
  <1>2. CASE ipv4
    <2>1. ASSUME NEW a \in A[host] PROVE FirstOctet(a) \in Ipv4
      <3>1. a[1] \in 0..255
        BY AddressesAssumption DEF TypeOK, Ipv4
      <3> QED BY <3>1 DEF FirstOctet, Ipv4
    <2>2. Addresses(host) = A[host]
      BY <1>2 DEF Addresses
    <2>3. /\ v4_addr' = [i \in Slots |-> IF i < Stored THEN FirstOctet(answer.addresses[i + 1])
                                        ELSE v4_addr[i]]
          /\ v6_addr' = v6_addr
      BY <1>2 DEF Store
    <2>4. v4_addr' \in [Slots -> Ipv4 \cup {NoAddress}]
      BY <1>1, <2>1, <2>2, <2>3 DEF TypeOK
    <2> QED BY <1>2, <2>3, <2>4 DEF TypeOK
  <1>3. CASE ~ ipv4
    <2>1. Addresses(host) = AAAA[host]
      BY <1>3 DEF Addresses
    <2>2. /\ v6_addr' = [i \in Slots |-> IF i < Stored THEN answer.addresses[i + 1] ELSE v6_addr[i]]
          /\ v4_addr' = v4_addr
      BY <1>3 DEF Store
    <2> QED BY <1>1, <1>3, <2>1, <2>2 DEF TypeOK
  <1> QED BY <1>2, <1>3 DEF TypeOK
-----------------------------------------------------------------------------
\* The invariant holds at the start.
LEMMA InvInit == Init => IInv
  <1> SUFFICES ASSUME Init PROVE IInv
    OBVIOUS
  <1>1. FamilyTypeOK
    <2>1. 0 \in 0..MaxFds
      BY MaxFdsAssumption
    <2> QED BY <2>1 DEF Init, FamilyInit, FamilyTypeOK
  <1>2. answer \in [aliases : 0..1, addresses : Seq(AnyAddress)]
    BY DEF Init, Nothing
  <1>3. TypeOK
    <2>1. try \in 0..Tries-1 /\ call \in 0..MaxCalls
      BY MaxCallsAssumption, TriesAssumption DEF Init
    <2> QED BY <1>1, <1>2, <2>1 DEF Init, TypeOK
  <1>4. LeakInv /\ FamilyInv /\ AnswerInv
    BY DEF Init, FamilyInit, LeakInv, FamilyInv, AnswerInv
  <1>5. ReachableIsAsked /\ Ipv6ListIsOfThisHost
    BY DEF Init, ReachableIsAsked, Ipv6ListIsOfThisHost
  <1> QED BY <1>3, <1>4, <1>5 DEF IInv

\* The tests keep the types of what they write.
LEMMA FamilyStep == ASSUME FamilyTypeOK, checknetfamily PROVE FamilyTypeOK'
  <1>1. CASE _have_ipv4 \/ _have_ipv6
    <2>1. TestSocket \/ SocketFails
      BY <1>1 DEF _have_ipv4, _have_ipv6
    <2>2. fds' \in 0..MaxFds
      BY <2>1, MaxFdsAssumption DEF FamilyTypeOK, TestSocket, SocketFails
    <2>3. have_ipv4' \in BOOLEAN /\ have_ipv6' \in BOOLEAN
      <3>1. have_ipv4 \in BOOLEAN /\ have_ipv6 \in BOOLEAN
        BY DEF FamilyTypeOK
      <3>2. CASE _have_ipv4
        <4>1. have_ipv4' = ("IPv4" \in net) \/ have_ipv4' = FALSE
          BY ONLY <3>2 DEF _have_ipv4
        <4>2. have_ipv6' = have_ipv6
          BY ONLY <3>2 DEF _have_ipv4
        <4>3. ("IPv4" \in net) \in BOOLEAN
          OBVIOUS
        <4> QED BY ONLY <3>1, <4>1, <4>2, <4>3
      <3>3. CASE _have_ipv6
        <4>1. have_ipv6' = ("IPv6" \in net) \/ have_ipv6' = FALSE
          BY ONLY <3>3 DEF _have_ipv6
        <4>2. have_ipv4' = have_ipv4
          BY ONLY <3>3 DEF _have_ipv6
        <4>3. ("IPv6" \in net) \in BOOLEAN
          OBVIOUS
        <4> QED BY ONLY <3>1, <4>1, <4>2, <4>3
      <3> QED BY <1>1, <3>2, <3>3
    <2>4. /\ test' \in {"IPv6", "set"}
          /\ UNCHANGED <<net, steady, net_family>>
      BY <1>1 DEF _have_ipv4, _have_ipv6
    <2> QED BY ONLY <2>2, <2>3, <2>4, FamilyTypeOK DEF FamilyTypeOK
  <1>2. CASE SetFamily
    BY <1>2 DEF FamilyTypeOK, SetFamily
  <1> QED BY <1>1, <1>2 DEF checknetfamily

\* A test sees the network, or is refused its socket, or takes the last descriptor.
LEMMA CheckKeeps == ASSUME IInv, Check PROVE IInv'
  <1> USE DEF Check
  <1>1. fds \in 0..MaxFds /\ MaxFds \in Nat /\ call \in Nat
    BY MaxFdsAssumption, MaxCallsAssumption DEF IInv, TypeOK, FamilyTypeOK
  <1>2. pc = "check" /\ pc' = "check" /\ call' = call
    OBVIOUS
  <1>a. refused' \in BOOLEAN
    BY Zenon DEF NoteRefusal
  <1>b. FamilyTypeOK'
    BY FamilyStep DEF IInv, TypeOK
  <1>3. CASE _have_ipv4
    <2> USE <1>3 DEF _have_ipv4, TestSocket, SocketFails
    <2>0. ASSUME ~ UsedUp', ~ refused'
          PROVE  ~ UsedUp /\ ~ refused /\ (have_ipv4' <=> "IPv4" \in net)
      <3>1. test # "set" /\ ~ refused /\ (fds < MaxFds => fds' # fds)
        <4>1. test = "IPv4" /\ ~ refused'
          BY <2>0
        <4> QED BY <4>1, Zenon DEF NoteRefusal
      <3>2. fds' # fds /\ fds < MaxFds
        <4>1. fds < MaxFds \/ fds' = fds
          OBVIOUS
        <4> QED BY ONLY <1>1, <2>0, <3>1, <4>1 DEF UsedUp
      <3>3. have_ipv4' <=> "IPv4" \in net
        BY <3>2, Zenon
      <3>4. ~ UsedUp
        BY ONLY <1>1, <3>2 DEF UsedUp
      <3> QED BY <3>1, <3>3, <3>4
    <2>1. TypeOK'
      BY <1>1, <1>a, <1>b DEF IInv, TypeOK, list
    <2>2. LeakInv'
      BY <1>1 DEF IInv, LeakInv, Tested
    <2>3. FamilyInv'
      BY <2>0 DEF IInv, FamilyInv
    <2> QED BY <2>1, <2>2, <2>3 DEF IInv, AnswerInv, ReachableIsAsked, Ipv6ListIsOfThisHost
  <1>4. CASE _have_ipv6
    <2> USE <1>4 DEF _have_ipv6, TestSocket, SocketFails
    <2>0. ASSUME ~ UsedUp', ~ refused'
          PROVE  ~ UsedUp /\ ~ refused /\ (have_ipv6' <=> "IPv6" \in net)
      <3>1. test # "set" /\ ~ refused /\ (fds < MaxFds => fds' # fds)
        <4>1. test = "IPv6" /\ ~ refused'
          BY <2>0
        <4> QED BY <4>1, Zenon DEF NoteRefusal
      <3>2. fds' # fds /\ fds < MaxFds
        <4>1. fds < MaxFds \/ fds' = fds
          OBVIOUS
        <4> QED BY ONLY <1>1, <2>0, <3>1, <4>1 DEF UsedUp
      <3>3. have_ipv6' <=> "IPv6" \in net
        BY <3>2, Zenon
      <3>4. ~ UsedUp
        BY ONLY <1>1, <3>2 DEF UsedUp
      <3> QED BY <3>1, <3>3, <3>4
    <2>1. TypeOK'
      BY <1>1, <1>a, <1>b DEF IInv, TypeOK, list
    <2>2. LeakInv'
      BY <1>1 DEF IInv, LeakInv, Tested
    <2>3. FamilyInv'
      BY <2>0 DEF IInv, FamilyInv
    <2> QED BY <2>1, <2>2, <2>3 DEF IInv, AnswerInv, ReachableIsAsked, Ipv6ListIsOfThisHost
  <1>5. CASE SetFamily
    <2> USE <1>5 DEF SetFamily
    <2>1. TypeOK'
      BY <1>a, <1>b DEF IInv, TypeOK, list
    <2>2. LeakInv'
      BY <1>1 DEF IInv, LeakInv, Tested
    <2>a. refused' = refused
      BY DEF NoteRefusal, IInv, TypeOK
    <2>3. FamilyInv'
      <3> SUFFICES ASSUME steady, ~ refused, ~ UsedUp PROVE net_family' = "IPv6" <=> net = {"IPv6"}
        BY <2>a DEF FamilyInv, UsedUp
      <3>0. net_family = "None"
        BY DEF IInv, FamilyInv
      <3>1. (have_ipv4 <=> "IPv4" \in net) /\ (have_ipv6 <=> "IPv6" \in net)
        BY DEF IInv, FamilyInv
      <3>2. net = {"IPv6"} <=> ~ have_ipv4 /\ have_ipv6
        BY <3>1 DEF IInv, TypeOK, FamilyTypeOK, Families
      <3>3. net_family' = "IPv6" <=> ~ have_ipv4 /\ have_ipv6
        BY <3>0 DEF IInv, TypeOK, FamilyTypeOK
      <3> QED BY <3>2, <3>3
    <2> QED BY <2>1, <2>2, <2>3 DEF IInv, AnswerInv, ReachableIsAsked, Ipv6ListIsOfThisHost
  <1> QED BY <1>3, <1>4, <1>5 DEF checknetfamily

\* A lookup goes on without touching its list: what is left to show is what the
\* conjuncts say of the place it comes to.
LEMMA MovesOn ==
  ASSUME IInv, pc' # "idle", TypeOK', LeakInv', FamilyInv', AnswerInv', ReachableIsAsked'
  PROVE  IInv'
  BY DEF IInv, Ipv6ListIsOfThisHost

\* A call begins.
LEMMA EnterKeeps ==
  ASSUME IInv, NEW h \in Hosts, EnterCall(h) \/ \E f \in Families : EnterLookup(f, h)
  PROVE  IInv'
  <1>0. call \in Nat /\ MaxCalls \in Nat /\ fds \in 0..MaxFds /\ MaxFds \in Nat
    BY MaxCallsAssumption, MaxFdsAssumption DEF IInv, TypeOK, FamilyTypeOK
  <1>1. CASE EnterCall(h)
    <2> USE <1>1 DEF EnterCall, BeginCheck
    <2>1. TypeOK'
      <3>1. FamilyTypeOK'
        BY DEF IInv, TypeOK, FamilyTypeOK
      <3>2. call' \in 0..MaxCalls
        BY <1>0
      <3>3. UNCHANGED <<ipv4, try, answer, v4_addr, v6_addr, size>>
        BY DEF list
      <3> QED BY <3>1, <3>2, <3>3 DEF IInv, TypeOK
    <2>2. LeakInv'
      BY <1>0 DEF IInv, LeakInv, Tested
    <2>3. (FamilyInv /\ AnswerInv /\ ReachableIsAsked)'
      BY DEF FamilyInv, AnswerInv, ReachableIsAsked
    <2> QED BY <2>1, <2>2, <2>3, MovesOn
  <1>2. ASSUME NEW f \in Families, EnterLookup(f, h) PROVE IInv'
    <2> USE <1>2 DEF EnterLookup
    <2>1. TypeOK'
      <3>1. FamilyTypeOK'
        BY DEF IInv, TypeOK, FamilyTypeOK
      <3>2. call' \in 0..MaxCalls
        BY <1>0
      <3>3. UNCHANGED <<try, answer, v4_addr, v6_addr, size>> /\ ipv4' \in BOOLEAN
        BY Zenon DEF list
      <3> QED BY <3>1, <3>2, <3>3 DEF IInv, TypeOK, Families
    <2>2. LeakInv'
      BY <1>0 DEF IInv, LeakInv
    <2>3. (FamilyInv /\ AnswerInv /\ ReachableIsAsked)'
      BY DEF FamilyInv, AnswerInv, ReachableIsAsked, Families
    <2> QED BY <2>1, <2>2, <2>3, MovesOn
  <1> QED BY <1>1, <1>2

\* The family is chosen by what the tests have seen.
LEMMA ChooseKeeps == ASSUME IInv, Choose PROVE IInv'
  <1> USE DEF Choose
  <1>0. call \in Nat /\ fds \in 0..MaxFds /\ MaxFds \in Nat
    BY MaxCallsAssumption, MaxFdsAssumption DEF IInv, TypeOK, FamilyTypeOK
  <1>1. TypeOK'
    BY DEF IInv, TypeOK, FamilyTypeOK, familyVars, list
  <1>2. LeakInv'
    BY <1>0 DEF IInv, LeakInv, Tested, familyVars
  <1>3. FamilyInv'
    <2> SUFFICES ASSUME steady, ~ refused, ~ UsedUp, net # {} PROVE Family' \in net
      BY DEF FamilyInv, familyVars, UsedUp
    <2>1. net_family = "IPv6" <=> net = {"IPv6"}
      BY DEF IInv, FamilyInv
    <2>2. net = {"IPv6"} => "IPv6" \in net
      OBVIOUS
    <2>3. net # {"IPv6"} => "IPv4" \in net
      <3>1. \A f \in net : f = "IPv4" \/ f = "IPv6"
        BY DEF IInv, TypeOK, FamilyTypeOK, Families
      <3>2. net # {}
        OBVIOUS
      <3> QED BY ONLY <3>1, <3>2
    <2>4. ipv4' <=> net_family # "IPv6"
      OBVIOUS
    <2>5. Family' = IF ipv4' THEN "IPv4" ELSE "IPv6"
      BY DEF Family
    <2> QED BY ONLY <2>1, <2>2, <2>3, <2>4, <2>5
  <1>4. (AnswerInv /\ ReachableIsAsked)'
    BY DEF AnswerInv, ReachableIsAsked
  <1> QED BY <1>1, <1>2, <1>3, <1>4, MovesOn

\* The socket is opened, or the process ended.
LEMMA OpenKeeps == ASSUME IInv, OpenSocket PROVE IInv'
  <1> USE DEF OpenSocket, TestSocket, SocketFails, NoteRefusal
  <1>0. call \in Nat /\ fds \in 0..MaxFds /\ MaxFds \in Nat
    BY MaxCallsAssumption, MaxFdsAssumption DEF IInv, TypeOK, FamilyTypeOK
  <1>1. answer' \in [aliases : 0..1, addresses : Seq(AnyAddress)] /\ try' \in 0..Tries-1
    BY TriesAssumption DEF Nothing
  <1>a. host' = host /\ AnyAddress' = AnyAddress
    BY DEF AnyAddress
  <1>2. TypeOK'
    <2>1. refused' \in BOOLEAN
      BY Zenon DEF NoteRefusal
    <2>2. FamilyTypeOK'
      BY <1>0 DEF IInv, TypeOK, FamilyTypeOK
    <2> QED BY <1>1, <1>a, <2>1, <2>2 DEF IInv, TypeOK, list
  <1>3. LeakInv'
    <2>1. test = "off" /\ test' = "off" /\ fds <= 2 * call
      BY DEF IInv, LeakInv
    <2>3. CASE pc' = "send" /\ fds' = fds + 1
      BY <1>0, <2>1, <2>3 DEF LeakInv
    <2>4. CASE pc' = "exited" /\ fds' = fds
      <3>1. ~ refused' => ~ fds < MaxFds
        BY <2>1, <2>4
      <3> QED BY <1>0, <2>1, <2>4, <3>1 DEF LeakInv
    <2> QED BY <2>3, <2>4
  <1>4. FamilyInv'
    BY DEF FamilyInv
  <1>5. AnswerInv'
    BY DEF AnswerInv, Nothing
  <1>6. ReachableIsAsked'
    <2>1. CASE fds < MaxFds /\ fds' = fds + 1
      <3> SUFFICES ASSUME how = "any", steady, ~ refused', net # {} PROVE Family' \in net
        BY DEF ReachableIsAsked
      <3>1. ~ refused
        BY Zenon
      <3>2. ~ UsedUp
        BY ONLY <1>0, <2>1 DEF UsedUp
      <3> QED BY <3>1, <3>2 DEF IInv, FamilyInv, Family
    <2>2. CASE pc' = "exited"
      BY <2>2 DEF ReachableIsAsked
    <2> QED BY <2>1, <2>2
  <1> QED BY <1>2, <1>3, <1>4, <1>5, <1>6, MovesOn

\* The lookup waits, or what it has heard is of its own host.
LEMMA AskKeeps == ASSUME IInv, Send \/ SendFails \/ Receive \/ Timeout PROVE IInv'
  <1>0. /\ UNCHANGED <<familyVars, call, how, host, ipv4, list, refused, ret>>
        /\ pc \in {"send", "wait"} /\ pc' \in {"send", "wait", "store"}
    BY DEF Send, SendFails, Receive, Timeout
  <1>1. CASE Receive
    <2> USE <1>1 DEF Receive
    <2>1. PICK k \in 0..MaxIp : \E addresses \in [1..k -> Addresses(host)], aliases \in 0..1 :
             answer' = [aliases |-> aliases, addresses |-> addresses]
      OBVIOUS
    <2>2. PICK addresses \in [1..k -> Addresses(host)], aliases \in 0..1 :
             answer' = [aliases |-> aliases, addresses |-> addresses]
      BY <2>1
    <2>3. k \in Nat /\ Addresses(host) \subseteq AnyAddress
      BY AddressesKnown, MaxIpAssumption DEF IInv, TypeOK
    <2>4. addresses \in Seq(AnyAddress) /\ Len(addresses) = k
      BY <2>2, <2>3
    <2>5. answer' \in [aliases : 0..1, addresses : Seq(AnyAddress)]
      BY <2>2, <2>4
    <2>6. TypeOK'
      BY <2>5 DEF IInv, TypeOK, FamilyTypeOK, familyVars, list
    <2>7. AnswerInv'
      BY <2>2, <2>4 DEF AnswerInv, Addresses
    <2>8. (LeakInv /\ FamilyInv /\ ReachableIsAsked)'
      BY DEF IInv, LeakInv, FamilyInv, ReachableIsAsked, familyVars
    <2> QED BY <1>0, <2>6, <2>7, <2>8, MovesOn
  <1>2. CASE Send \/ SendFails \/ Timeout
    <2>1. answer' = answer /\ try' \in 0..Tries-1
      BY <1>2, TriesAssumption DEF Send, SendFails, Timeout, IInv, TypeOK
    <2>2. TypeOK'
      BY <1>0, <2>1 DEF IInv, TypeOK, FamilyTypeOK, familyVars, list
    <2>3. AnswerInv'
      BY <1>0, <2>1 DEF IInv, AnswerInv, Addresses
    <2>4. (LeakInv /\ FamilyInv /\ ReachableIsAsked)'
      BY <1>0 DEF IInv, LeakInv, FamilyInv, ReachableIsAsked, familyVars, Family
    <2> QED BY <1>0, <2>2, <2>3, <2>4, MovesOn
  <1> QED BY <1>1, <1>2

\* The list is made of the answer, and the socket closed.
LEMMA ReturnKeeps == ASSUME IInv, Return PROVE IInv'
  <1> USE DEF Return
  <1>0. call \in Nat /\ fds \in 0..MaxFds /\ MaxFds \in Nat /\ fds > 0 /\ fds <= 2 * call + 1
    BY MaxCallsAssumption, MaxFdsAssumption DEF IInv, TypeOK, FamilyTypeOK, LeakInv
  <1>1. /\ v4_addr' \in [Slots -> Ipv4 \cup {NoAddress}]
        /\ v6_addr' \in [Slots -> AnyAddress \cup {NoAddress}]
        /\ ~ ipv4 => \A i \in Slots : i < Stored => v6_addr'[i] \in AAAA[host]
    BY StoreWrites DEF IInv
  <1>2. size' = Stored /\ size' \in 0..MaxIp
    BY StoredBounds DEF IInv
  <1>3. FamilyTypeOK'
    BY <1>0 DEF IInv, TypeOK, FamilyTypeOK
  <1>4. TypeOK'
    BY <1>1, <1>2, <1>3 DEF IInv, TypeOK
  <1>5. LeakInv'
    BY <1>0 DEF IInv, LeakInv
  <1>6. Ipv6ListIsOfThisHost'
    BY <1>1, <1>2 DEF Ipv6ListIsOfThisHost
  <1>7. (FamilyInv /\ AnswerInv /\ ReachableIsAsked)'
    BY DEF FamilyInv, AnswerInv, ReachableIsAsked
  <1> QED BY <1>4, <1>5, <1>6, <1>7 DEF IInv

\* Every step preserves the invariant.
LEMMA InvStep == IInv /\ [Next]_vars => IInv'
  <1> SUFFICES ASSUME IInv, [Next]_vars PROVE IInv'
    OBVIOUS
  <1>1. CASE \E h \in Hosts : EnterCall(h) \/ \E f \in Families : EnterLookup(f, h)
    BY <1>1, EnterKeeps
  <1>2. CASE Lookup
    BY <1>2, CheckKeeps, ChooseKeeps, OpenKeeps, AskKeeps, ReturnKeeps DEF Lookup
  <1>3. CASE Roam /\ UNCHANGED <<pc, call, how, host, ipv4, try, answer, list, refused, ret>>
    <2> USE <1>3 DEF Roam
    <2>1. TypeOK'
      <3>1. PICK n \in SUBSET Families : net' = n
        OBVIOUS
      <3>2. FamilyTypeOK'
        BY <3>1 DEF IInv, TypeOK, FamilyTypeOK
      <3> QED BY <3>2 DEF IInv, TypeOK, list
    <2>2. (LeakInv /\ AnswerInv /\ Ipv6ListIsOfThisHost)'
      BY DEF IInv, LeakInv, Tested, AnswerInv, Addresses, Ipv6ListIsOfThisHost, list
    <2>3. (FamilyInv /\ ReachableIsAsked)'
      BY DEF IInv, FamilyInv, ReachableIsAsked
    <2> QED BY <2>1, <2>2, <2>3 DEF IInv
  <1>4. CASE UNCHANGED vars
    <2> USE <1>4 DEF vars, familyVars, list
    <2>1. TypeOK'
      BY DEF IInv, TypeOK, FamilyTypeOK
    <2>2. (LeakInv /\ AnswerInv /\ Ipv6ListIsOfThisHost)'
      BY DEF IInv, LeakInv, Tested, AnswerInv, Addresses, Ipv6ListIsOfThisHost
    <2>3. (FamilyInv /\ ReachableIsAsked)'
      BY DEF IInv, FamilyInv, UsedUp, ReachableIsAsked, Family
    <2> QED BY <2>1, <2>2, <2>3 DEF IInv
  <1> QED BY <1>1, <1>2, <1>3, <1>4 DEF Next
-----------------------------------------------------------------------------
\* The resolver's state, the arrays its caller reads among it, keeps its types.
THEOREM TypeCorrect == Spec => []TypeOK
  <1>1. IInv => TypeOK
    BY DEF IInv
  <1> QED BY InvInit, InvStep, <1>1, PTL DEF Spec

\* A list of IPv6 addresses holds only addresses of the host of its own call, however
\* and for whatever host and family the calls before it ended (:251-266). Of a list of
\* IPv4 addresses this is false (:369): ListIsOfThisHost.
THEOREM ListIsRight == Spec => []Ipv6ListIsOfThisHost
  <1>1. IInv => Ipv6ListIsOfThisHost
    BY DEF IInv
  <1> QED BY InvInit, InvStep, <1>1, PTL DEF Spec

\* A process loses two descriptors in a call and no more: where the system refuses no
\* call of socket() that has a descriptor left, exit(-1) ends the process only after
\* half as many calls as it may open descriptors (:126-138, 202, 307). A refused
\* socket() may end it in its first call.
THEOREM LeakIsBounded == Spec => []ExitMeansLeak
  <1>1. IInv => ExitMeansLeak
    BY DEF IInv, LeakInv, ExitMeansLeak
  <1> QED BY InvInit, InvStep, <1>1, PTL DEF Spec

\* In a network that does not change during the call, a family the network has is
\* asked in, unless a test was refused its socket (:164-185, 394-401).
THEOREM AsksWhatIsReachable == Spec => []ReachableIsAsked
  <1>1. IInv => ReachableIsAsked
    BY DEF IInv
  <1> QED BY InvInit, InvStep, <1>1, PTL DEF Spec
-----------------------------------------------------------------------------
(* A call ends whatever is lost: every one of its steps brings it nearer.    *)

Ended == {"idle", "exited"}

\* How many steps a call has at most before it: two per try, three for the tests of the
\* families, four besides.
StepsLeft ==
  CASE pc \in Ended   -> 0
    [] pc = "check"   -> 2 * Tries + (CASE test = "IPv4" -> 7 [] test = "IPv6" -> 6
                                        [] test = "set"  -> 5 [] OTHER -> 4)
    [] pc = "open"    -> 2 * Tries + 3
    [] pc = "send"    -> 2 * (Tries - try) + 2
    [] pc = "wait"    -> 2 * (Tries - try) + 1
    [] pc = "store"   -> 1

LongestCall == 2 * Tries + 7

\* A step within a call is one of the program's and leaves fewer to it, or the machine
\* moves to another network, which costs the call nothing; no call follows exit(-1).
StepAdvances ==
  pc # "idle" => \/ StepsLeft' < StepsLeft /\ call' = call
                 \/ UNCHANGED <<StepsLeft, pc, call>> /\ net' # net

\* A lookup that is over has said how it ended, unless socket_gethostbyname called it.
OverMeansReturned ==
  pc = "idle" /\ call > 0 => (ret = "none" <=> how = "any")

\* What is left is a natural number, nothing only after the call.
LEMMA StepsBounded ==
  ASSUME TypeOK
  PROVE  StepsLeft \in 0..LongestCall /\ (StepsLeft = 0 <=> pc \in Ended)
  <1>1. try \in 0..Tries-1 /\ Tries \in Nat \ {0}
    BY TriesAssumption DEF TypeOK
  <1>2. CASE pc \in Ended
    <2>1. StepsLeft = 0
      BY <1>2 DEF StepsLeft, Ended
    <2> QED BY <1>1, <1>2, <2>1 DEF LongestCall
  <1>3. CASE pc = "check"
    BY <1>1, <1>3 DEF StepsLeft, LongestCall, Ended
  <1>4. CASE pc \in {"open", "send", "wait", "store"}
    BY <1>1, <1>4 DEF StepsLeft, LongestCall, Ended
  <1> QED BY <1>2, <1>3, <1>4 DEF TypeOK, Ended

\* Every step of a call leaves fewer.
LEMMA Advances == TypeOK /\ [Next]_vars => [StepAdvances]_vars
  <1> SUFFICES ASSUME TypeOK, Next, pc # "idle" PROVE StepAdvances
    BY DEF StepAdvances
  <1>1. try \in 0..Tries-1 /\ Tries \in Nat \ {0}
    BY TriesAssumption DEF TypeOK
  <1> USE DEF StepAdvances, StepsLeft, Ended
  <1>2. CASE Check
    <2>1. pc = "check" /\ UNCHANGED <<pc, call, try>>
      BY <1>2 DEF Check
    <2>2. \/ test = "IPv4" /\ test' = "IPv6"
          \/ test = "IPv6" /\ test' = "set"
          \/ test = "set" /\ test' = "off"
      BY <1>2 DEF Check, checknetfamily, _have_ipv4, _have_ipv6, SetFamily
    <2> QED BY <1>1, <2>1, <2>2
  <1>3. CASE Choose
    <2>1. pc = "check" /\ test = "off" /\ pc' = "open" /\ call' = call
      BY <1>3 DEF Choose
    <2> QED BY <1>1, <2>1
  <1>4. CASE OpenSocket
    <2>1. pc = "open" /\ try' = 0 /\ pc' \in {"send", "exited"} /\ call' = call
      BY <1>4 DEF OpenSocket
    <2> QED BY <1>1, <2>1
  <1>5. CASE Send
    BY <1>1, <1>5 DEF Send
  <1>6. CASE SendFails
    BY <1>1, <1>6 DEF SendFails
  <1>7. CASE Receive
    BY <1>1, <1>7 DEF Receive
  <1>8. CASE Timeout
    <2>1. pc = "wait" /\ call' = call
      BY <1>8 DEF Timeout
    <2>2. CASE try + 1 < Tries
      BY <1>1, <1>8, <2>1, <2>2 DEF Timeout
    <2>3. CASE ~ try + 1 < Tries
      BY <1>1, <1>8, <2>1, <2>3 DEF Timeout
    <2> QED BY <2>2, <2>3
  <1>9. CASE Return
    <2>1. pc = "store" /\ pc' = "idle" /\ call' = call
      BY <1>9 DEF Return
    <2> QED BY <2>1
  <1>10. CASE Roam /\ UNCHANGED <<pc, call, how, host, ipv4, try, answer, list, refused, ret>>
    BY <1>10 DEF Roam
  <1>11. ASSUME NEW h, EnterCall(h) \/ \E f \in Families : EnterLookup(f, h) PROVE FALSE
    BY <1>11 DEF EnterCall, EnterLookup
  <1> QED
    BY <1>2, <1>3, <1>4, <1>5, <1>6, <1>7, <1>8, <1>9, <1>10, <1>11 DEF Next, Lookup

\* What socket_gethostbyname has called says nothing, the other lookups do.
LEMMA ReturnedStep == OverMeansReturned /\ [Next]_vars => OverMeansReturned'
  <1> SUFFICES ASSUME OverMeansReturned, [Next]_vars PROVE OverMeansReturned'
    OBVIOUS
  <1> USE DEF OverMeansReturned
  <1>1. ASSUME NEW h, EnterCall(h) \/ \E f \in Families : EnterLookup(f, h)
        PROVE  OverMeansReturned'
    BY <1>1 DEF EnterCall, EnterLookup
  <1>2. CASE Check \/ Choose \/ OpenSocket
    BY <1>2 DEF Check, Choose, OpenSocket
  <1>3. CASE Send \/ SendFails \/ Receive \/ Timeout
    BY <1>3 DEF Send, SendFails, Receive, Timeout
  <1>4. CASE Return
    BY <1>4 DEF Return
  <1>5. CASE \/ Roam /\ UNCHANGED <<pc, call, how, host, ipv4, try, answer, list, refused, ret>>
             \/ UNCHANGED vars
    BY <1>5 DEF vars
  <1> QED
    BY <1>1, <1>2, <1>3, <1>4, <1>5 DEF Next, Lookup

\* Whatever is lost and wherever the machine moves, a call makes at most 2 * Tries + 7
\* steps of its own, each of which leaves fewer: then it has returned, or exit(-1) has
\* ended the process (:126-138, 189-287, 394-401). CallEnds rests on this and on the
\* fairness of the program.
THEOREM CallIsShort ==
  Spec => /\ [](StepsLeft \in 0..LongestCall /\ (StepsLeft = 0 <=> pc \in Ended))
          /\ []OverMeansReturned
          /\ [][StepAdvances]_vars
  <1>1. Init => OverMeansReturned
    BY DEF Init, OverMeansReturned
  <1>2. IInv => TypeOK
    BY DEF IInv
  <1> QED
    BY <1>1, <1>2, InvInit, InvStep, StepsBounded, Advances, ReturnedStep, PTL DEF Spec
=============================================================================
